------------------------ MODULE WebhookDeliveryProofs ------------------------
(***************************************************************************)
(* The properties of WebhookDelivery, for any hooks and calls, numbers of  *)
(* attempts, thresholds, rate caps and caps on hooks.                      *)
(***************************************************************************)
EXTENDS WebhookDelivery, TLAPS, SequenceTheorems, FiniteSetTheorems,
        WellFoundedInduction

-----------------------------------------------------------------------------
(* Types.                                                                  *)

HookRecords ==
    [ state : {"unused", "live", "deleted"}, active : BOOLEAN,
      tripped : BOOLEAN, created : Nat, resumed : Nat ]
RowRecords ==
    [ call : Calls, hook : Hooks, kind : {"attempt", "rate_limited", "policy_blocked"},
      ok : BOOLEAN, final : BOOLEAN, replayable : BOOLEAN ]
TaskRecords ==
    [ at : {"none", "scheduled", "posting", "sleeping", "closing", "unchecked", "done", "lost"},
      attempt : 1..MaxAttempts, replayable : BOOLEAN ]

HooksTyped == hooks \in [Hooks -> HookRecords]
RowsTyped == rows \in Seq(RowRecords)
TasksTyped == tasks \in [Tasks -> TaskRecords]

\* A delivery that waits for its next attempt has one left.
SleepersMayRetry == \A t \in Tasks : At(t) = "sleeping" => MayRetry(t)

TypeInv ==
    /\ WebhookTypeOK
    /\ HooksTyped /\ RowsTyped /\ TasksTyped /\ SleepersMayRetry

\* A step of a delivery logs one row or none.
Logs(row) == row \in RowRecords /\ rows' = Append(rows, row)

\* Logging a row keeps the rows before it.
LEMMA LoggedRow ==
  ASSUME RowsTyped, NEW row, Logs(row)
  PROVE  /\ rows' \in Seq(RowRecords)
         /\ Len(rows) \in Nat /\ Len(rows') = Len(rows) + 1
         /\ rows'[Len(rows) + 1] = row
         /\ \A i \in 1..Len(rows) : rows'[i] = rows[i]
  BY DEF RowsTyped, Logs

\* An element of the log is a row.
LEMMA RowTyped ==
  ASSUME RowsTyped
  PROVE  Len(rows) \in Nat /\ \A i \in 1..Len(rows) : rows[i] \in RowRecords
  BY DEF RowsTyped

\* What the types say of the log, before and after a row is added to it.
LEMMA LogTypes ==
  ASSUME TypeInv, rows' = rows \/ \E row : Logs(row)
  PROVE  /\ RowsTyped' /\ Now \in Nat /\ Now' \in Nat /\ Now <= Now'
         /\ \A i \in 1..Now' : /\ rows'[i].hook \in Hooks /\ rows'[i].call \in Calls
                               /\ rows'[i].kind \in {"attempt", "rate_limited", "policy_blocked"}
<1>1. RowsTyped /\ Len(rows) \in Nat
  BY RowTyped DEF TypeInv
<1>2. RowsTyped' /\ Len(rows') \in Nat /\ Len(rows) <= Len(rows')
  BY <1>1, LoggedRow DEF RowsTyped
<1>3. \A i \in 1..Len(rows') : rows'[i] \in RowRecords
  BY <1>2 DEF RowsTyped
<1> QED
  BY <1>1, <1>2, <1>3 DEF Now, RowRecords

\* The initial state is well typed.
LEMMA TypeInit == WebhookInit => TypeInv
<1> SUFFICES ASSUME WebhookInit PROVE TypeInv
  OBVIOUS
<1>1. rows = << >> /\ Len(rows) = 0 /\ Now = 0 /\ RowsTyped
  BY DEF WebhookInit, Now, RowsTyped
<1>2. HooksTyped /\ TasksTyped /\ SleepersMayRetry
  BY WebhookAssumption DEF WebhookInit, Unused, HooksTyped, HookRecords, TasksTyped,
     TaskRecords, SleepersMayRetry, At
<1>3. \A h \in Hooks : HookOK(hooks[h])
  BY <1>1 DEF WebhookInit, Unused, HookOK
<1>4. \A t \in Tasks : tasks[t].attempt \in 1..MaxAttempts
  BY <1>2 DEF TasksTyped, TaskRecords
<1> QED
  BY <1>1, <1>2, <1>3, <1>4 DEF TypeInv, WebhookTypeOK, WebhookInit

(***************************************************************************)
(* Steps of the registry.                                                  *)
(***************************************************************************)
RegistryStep(h) == Create(h) \/ Delete(h) \/ Pause(h) \/ Resume(h) \/ Rotate(h)

\* They leave the deliveries alone and the other hooks as they are, and write a
\* record that is well formed.
LEMMA RegistryTypes ==
  ASSUME TypeInv, NEW h \in Hooks, RegistryStep(h)
  PROVE  TypeInv'
<1>0. /\ Now \in Nat /\ hooks \in [Hooks -> HookRecords]
      /\ resumedAt \in [Hooks -> 0..Now] /\ rotated \subseteq Hooks
      /\ \A k \in Hooks : HookOK(hooks[k])
  BY RowTyped DEF TypeInv, WebhookTypeOK, HooksTyped, Now
<1>1. UNCHANGED deliveryVars
  BY DEF RegistryStep, Create, Delete, Pause, Resume, Rotate
<1>n. Now \in 0..Now /\ 0 \in 0..Now
  BY <1>0
<1>r. resumedAt' \in [Hooks -> 0..Now] /\ rotated' \subseteq Hooks
  BY <1>0, <1>n DEF RegistryStep, Create, Delete, Pause, Resume, Rotate
<1>2. /\ hooks' \in [Hooks -> HookRecords] /\ HookOK(hooks'[h])
      /\ \A k \in Hooks \ {h} : hooks'[k] = hooks[k]
  <2>1. CASE Create(h)
    <3> DEFINE r == [Unused EXCEPT !.state = "live", !.active = TRUE, !.created = Now]
    <3>1. r \in HookRecords /\ HookOK(r)
      BY <1>0, <1>n DEF Unused, HookRecords, HookOK
    <3>2. hooks' = [hooks EXCEPT ![h] = r]
      BY <2>1 DEF Create
    <3> HIDE DEF r
    <3> QED
      BY <1>0, <3>1, <3>2
  <2>2. CASE Delete(h)
    BY <1>0, <2>2 DEF Delete, HookRecords, HookOK
  <2>3. CASE Pause(h)
    BY <1>0, <2>3 DEF Pause, HookRecords, HookOK
  <2>4. CASE Resume(h)
    <3>1. hooks[h] \in HookRecords /\ HookOK(hooks[h]) /\ hooks[h].state = "live"
      BY <1>0, <2>4 DEF Resume, Live
    <3> DEFINE r == [hooks[h] EXCEPT !.active = TRUE, !.tripped = FALSE, !.resumed = Now]
    <3>2. r \in HookRecords /\ HookOK(r)
      BY <1>0, <1>n, <3>1 DEF HookRecords, HookOK
    <3>3. hooks' = [hooks EXCEPT ![h] = r]
      BY <2>4 DEF Resume
    <3> HIDE DEF r
    <3> QED
      BY <1>0, <3>2, <3>3
  <2>5. CASE Rotate(h)
    <3>1. hooks[h] \in HookRecords /\ HookOK(hooks[h]) /\ hooks[h].state = "live"
      BY <1>0, <2>5 DEF Rotate, Live
    <3> DEFINE r == [hooks[h] EXCEPT !.tripped = FALSE, !.resumed = 0]
    <3>2. r \in HookRecords /\ HookOK(r)
      BY <1>0, <1>n, <3>1 DEF HookRecords, HookOK
    <3>3. hooks' = [hooks EXCEPT ![h] = r]
      BY <2>5 DEF Rotate
    <3> HIDE DEF r
    <3> QED
      BY <1>0, <3>2, <3>3
  <2> QED
    BY <2>1, <2>2, <2>3, <2>4, <2>5 DEF RegistryStep
<1>3. \A k \in Hooks : HookOK(hooks'[k])
  BY <1>0, <1>2
<1>4. rows' = rows /\ tasks' = tasks /\ window' = window /\ Now' = Now
  BY <1>1 DEF deliveryVars, Now
<1>5. \A k \in Hooks : HookOK(hooks[k])'
  BY <1>3, <1>4 DEF HookOK
<1> QED
  BY <1>r, <1>2, <1>4, <1>5 DEF TypeInv, WebhookTypeOK, HooksTyped, RowsTyped, TasksTyped,
     SleepersMayRetry, At, MayRetry

(***************************************************************************)
(* Steps of the deliveries.                                                *)
(***************************************************************************)
\* Steps that log a row or none, give the deliveries well-formed records,
\* and leave the registry alone.
LEMMA DeliveryTypes ==
  ASSUME TypeInv, UNCHANGED registryVars, rows' = rows \/ \E row : Logs(row),
         window' \in 0..Now', TasksTyped', SleepersMayRetry'
  PROVE  TypeInv'
<1>1. /\ RowsTyped' /\ Now \in Nat /\ Now' \in Nat /\ Now <= Now'
      /\ \A i \in 1..Now' : /\ rows'[i].hook \in Hooks /\ rows'[i].call \in Calls
                            /\ rows'[i].kind \in {"attempt", "rate_limited", "policy_blocked"}
  BY LogTypes
<1>2. hooks' = hooks /\ resumedAt' = resumedAt /\ rotated' = rotated
  BY DEF registryVars
<1>3. \A h \in Hooks : HookOK(hooks[h])'
  BY <1>1, <1>2 DEF TypeInv, WebhookTypeOK, HookOK
<1>4. resumedAt' \in [Hooks -> 0..Now']
  <2>1. resumedAt \in [Hooks -> 0..Now] /\ 0..Now \subseteq 0..Now'
    BY <1>1 DEF TypeInv, WebhookTypeOK
  <2> QED
    BY <1>2, <2>1
<1>5. DOMAIN tasks' = Tasks /\ \A t \in Tasks : tasks'[t].attempt \in 1..MaxAttempts
  BY DEF TasksTyped, TaskRecords
<1> QED
  BY <1>1, <1>2, <1>3, <1>4, <1>5 DEF TypeInv, WebhookTypeOK, HooksTyped

\* A delivery to h that ends with a row, or starts its first attempt.
LEMMA BeginTypes ==
  ASSUME TypeInv, NEW t \in Tasks, NEW replayable \in BOOLEAN, Begin(t, replayable)
  PROVE  /\ rows' = rows \/ \E row : Logs(row) /\ row.hook = t[2] /\ ~row.final
         /\ TasksTyped' /\ SleepersMayRetry' /\ window' = window /\ UNCHANGED registryVars
         /\ \A s \in Tasks \ {t} : At(s)' = At(s)
         /\ At(t)' \in {"posting", "done"}
<1>0. t[1] \in Calls /\ t[2] \in Hooks /\ tasks \in [Tasks -> TaskRecords] /\ MaxAttempts \in Nat \ {0}
  BY WebhookAssumption DEF Tasks, TypeInv, TasksTyped
<1>1. window' = window /\ UNCHANGED registryVars
  BY DEF Begin
<1>2. ASSUME NEW kind \in {"policy_blocked", "rate_limited"}, Skip(t, kind, replayable)
      PROVE  /\ \E row : Logs(row) /\ row.hook = t[2] /\ ~row.final
             /\ tasks' \in [Tasks -> TaskRecords] /\ At(t)' = "done"
             /\ \A s \in Tasks \ {t} : tasks'[s] = tasks[s]
  <2> DEFINE row == Row(t, kind, FALSE, FALSE, replayable)
  <2>1. row \in RowRecords /\ row.hook = t[2] /\ ~row.final
    BY <1>0 DEF Row, RowRecords
  <2>2. Logs(row)
    BY <1>2, <2>1 DEF Skip, Logs
  <2>3. tasks' = [tasks EXCEPT ![t].at = "done"]
    BY <1>2 DEF Skip
  <2>4. tasks' \in [Tasks -> TaskRecords] /\ tasks'[t].at = "done"
        /\ \A s \in Tasks \ {t} : tasks'[s] = tasks[s]
    BY <1>0, <2>3 DEF TaskRecords
  <2> QED
    BY <2>1, <2>2, <2>4 DEF At
<1>3. ASSUME rows' = rows,
             tasks' = [tasks EXCEPT ![t] =
                         [at |-> "posting", attempt |-> 1, replayable |-> replayable]]
      PROVE  /\ tasks' \in [Tasks -> TaskRecords] /\ At(t)' = "posting"
             /\ \A s \in Tasks \ {t} : tasks'[s] = tasks[s]
  BY <1>0, <1>3 DEF TaskRecords, At
<1>4. /\ rows' = rows \/ \E row : Logs(row) /\ row.hook = t[2] /\ ~row.final
      /\ tasks' \in [Tasks -> TaskRecords] /\ At(t)' \in {"posting", "done"}
      /\ \A s \in Tasks \ {t} : tasks'[s] = tasks[s]
  BY <1>2, <1>3 DEF Begin
<1>5. SleepersMayRetry'
  BY <1>4 DEF TypeInv, SleepersMayRetry, At, MayRetry
<1> QED
  BY <1>1, <1>4, <1>5 DEF TasksTyped, At

\* One delivery that has an answer: the row, and what it waits for next.
LEMMA AnswerTypes ==
  ASSUME TypeInv, NEW t \in Tasks, NEW ok \in BOOLEAN, Answer(t, ok)
  PROVE  /\ \E row : /\ Logs(row) /\ row.call = t[1] /\ row.hook = t[2]
                     /\ row.final /\ ~row.ok => At(t)' = "closing"
         /\ TasksTyped' /\ SleepersMayRetry' /\ window' = window /\ UNCHANGED registryVars
         /\ \A s \in Tasks \ {t} : At(s)' = At(s)
         /\ At(t) = "posting"
<1>0. t[1] \in Calls /\ t[2] \in Hooks /\ tasks \in [Tasks -> TaskRecords]
  BY DEF Tasks, TypeInv, TasksTyped
<1>1. MayRetry(t) \in BOOLEAN /\ tasks[t].replayable \in BOOLEAN
  BY <1>0 DEF MayRetry, TaskRecords
<1> DEFINE row == Row(t, "attempt", ok, ~MayRetry(t), tasks[t].replayable)
<1> DEFINE next == IF ok THEN "done" ELSE IF MayRetry(t) THEN "sleeping" ELSE "closing"
<1>2. row \in RowRecords /\ row.call = t[1] /\ row.hook = t[2] /\ row.final = ~MayRetry(t) /\ row.ok = ok
  BY <1>0, <1>1 DEF Row, RowRecords
<1>3. Logs(row) /\ tasks' = [tasks EXCEPT ![t].at = next]
  BY <1>2 DEF Answer, Logs
<1>n. next \in {"done", "sleeping", "closing"} /\ (next = "sleeping" => MayRetry(t))
      /\ (~MayRetry(t) /\ ~ok => next = "closing")
  BY <1>1
<1> HIDE DEF row, next
<1>4. /\ tasks' \in [Tasks -> TaskRecords] /\ tasks'[t].at = next
      /\ tasks'[t].attempt = tasks[t].attempt
      /\ \A s \in Tasks \ {t} : tasks'[s] = tasks[s]
  BY <1>0, <1>3, <1>n DEF TaskRecords
<1>5. SleepersMayRetry'
  BY <1>4, <1>n DEF TypeInv, SleepersMayRetry, At, MayRetry
<1>6. window' = window /\ UNCHANGED registryVars /\ At(t) = "posting"
  BY DEF Answer
<1> QED
  BY <1>2, <1>3, <1>4, <1>5, <1>6, <1>n DEF TasksTyped, At

\* Steps that log nothing and move deliveries on.
QuietStep ==
    \/ \E c \in Calls : Dispatch(c)
    \/ \E t \in Tasks : Retry(t) \/ BreakerFails(t)
    \/ Age \/ Restart

LEMMA QuietTypes ==
  ASSUME TypeInv, QuietStep
  PROVE  /\ TasksTyped' /\ SleepersMayRetry' /\ rows' = rows
         /\ UNCHANGED registryVars /\ window' \in 0..Now'
         /\ \A t \in Tasks : At(t) \in {"closing", "unchecked", "lost"} => At(t)' \in {"closing", "unchecked", "lost"}
<1>0. /\ tasks \in [Tasks -> TaskRecords] /\ window \in 0..Now /\ Now \in Nat
      /\ MaxAttempts \in Nat \ {0}
  BY WebhookAssumption, RowTyped DEF TypeInv, TasksTyped, WebhookTypeOK, Now
<1>n. Now' = Now <=> Len(rows') = Len(rows)
  BY DEF Now
<1>1. ASSUME NEW c \in Calls, Dispatch(c)
      PROVE  /\ tasks' \in [Tasks -> TaskRecords] /\ rows' = rows /\ UNCHANGED registryVars
             /\ window' = window
             /\ \A t \in Tasks : tasks'[t] = tasks[t] \/ (At(t) = "none" /\ At(t)' = "scheduled")
  <2>1. \A t \in Tasks : tasks[t] \in TaskRecords /\ [tasks[t] EXCEPT !.at = "scheduled"] \in TaskRecords
        /\ [tasks[t] EXCEPT !.at = "scheduled"].at = "scheduled"
    BY <1>0 DEF TaskRecords
  <2>2. \A t \in Tasks : t[1] = c => At(t) = "none"
    BY <1>1 DEF Dispatch, Tasks
  <2>3. tasks' \in [Tasks -> TaskRecords]
    BY <1>1, <2>1 DEF Dispatch
  <2>4. \A t \in Tasks : tasks'[t] = tasks[t] \/ (At(t) = "none" /\ At(t)' = "scheduled")
    BY <1>1, <2>1, <2>2 DEF Dispatch, At
  <2> QED
    BY <1>1, <2>3, <2>4 DEF Dispatch
<1>2. ASSUME NEW t \in Tasks, Retry(t)
      PROVE  /\ tasks' \in [Tasks -> TaskRecords] /\ rows' = rows /\ UNCHANGED registryVars
             /\ window' = window
             /\ At(t) = "sleeping" /\ At(t)' = "posting"
             /\ \A s \in Tasks \ {t} : tasks'[s] = tasks[s]
  <2>1. At(t) = "sleeping" /\ tasks[t].attempt < MaxAttempts /\ tasks[t] \in TaskRecords
    BY <1>0, <1>2 DEF Retry, TypeInv, SleepersMayRetry, MayRetry
  <2> DEFINE r == [tasks[t] EXCEPT !.at = "posting", !.attempt = @ + 1]
  <2>2. r \in TaskRecords /\ r.at = "posting"
    <3>1. tasks[t].attempt \in 1..MaxAttempts
      BY <2>1 DEF TaskRecords
    <3>2. tasks[t].attempt + 1 \in 1..MaxAttempts
      BY <1>0, <2>1, <3>1
    <3> QED
      BY <2>1, <3>2 DEF TaskRecords
  <2>3. tasks' = [tasks EXCEPT ![t] = r]
    BY <1>2 DEF Retry
  <2> HIDE DEF r
  <2> QED
    BY <1>0, <1>2, <2>1, <2>2, <2>3 DEF Retry, At
<1>3. ASSUME Age
      PROVE  /\ tasks' = tasks /\ rows' = rows /\ UNCHANGED registryVars /\ window' \in 0..Now
  BY <1>0, <1>3 DEF Age, Now
<1>4. ASSUME Restart
      PROVE  /\ tasks' \in [Tasks -> TaskRecords] /\ rows' = rows /\ UNCHANGED registryVars
             /\ window' = window
             /\ \A t \in Tasks : \/ tasks'[t] = tasks[t] /\ At(t) # "closing"
                                 \/ At(t)' = "lost"
  <2>1. \A t \in Tasks : /\ tasks[t] \in TaskRecords
                         /\ [tasks[t] EXCEPT !.at = "lost"] \in TaskRecords
                         /\ [tasks[t] EXCEPT !.at = "lost"].at = "lost"
    BY <1>0 DEF TaskRecords
  <2>2. tasks' \in [Tasks -> TaskRecords]
    BY <1>4, <2>1 DEF Restart
  <2>3. \A t \in Tasks : \/ tasks'[t] = tasks[t] /\ At(t) # "closing"
                         \/ At(t)' = "lost"
    BY <1>4, <2>1 DEF Restart, InFlight, At
  <2> QED
    BY <1>4, <2>2, <2>3 DEF Restart
<1>f. ASSUME NEW t \in Tasks, BreakerFails(t)
      PROVE  /\ tasks' \in [Tasks -> TaskRecords] /\ rows' = rows /\ UNCHANGED registryVars
             /\ window' = window
             /\ At(t)' = "unchecked"
             /\ \A s \in Tasks \ {t} : tasks'[s] = tasks[s]
  BY <1>0, <1>f DEF BreakerFails, TaskRecords, At
<1>5. TasksTyped'
  BY <1>0, <1>1, <1>2, <1>3, <1>4, <1>f DEF QuietStep, TasksTyped
<1>6. rows' = rows /\ UNCHANGED registryVars /\ window' \in 0..Now'
  BY <1>0, <1>1, <1>2, <1>3, <1>4, <1>f, <1>n DEF QuietStep
<1>7. \A t \in Tasks : \/ tasks'[t] = tasks[t]
                       \/ At(t)' \in {"scheduled", "posting", "unchecked", "lost"}
  BY <1>1, <1>2, <1>3, <1>4, <1>f DEF QuietStep
<1>8. SleepersMayRetry'
  BY <1>7 DEF TypeInv, SleepersMayRetry, At, MayRetry
<1>9. \A t \in Tasks : At(t) \in {"closing", "unchecked", "lost"} =>
                            At(t)' \in {"closing", "unchecked", "lost"}
  BY <1>1, <1>2, <1>3, <1>4, <1>f DEF QuietStep, At
<1> QED
  BY <1>5, <1>6, <1>7, <1>8, <1>9 DEF At

\* The check of the breaker changes at most the record of its own hook, and
\* only if that is live, active, and has failed often enough.
LEMMA CheckTypes ==
  ASSUME TypeInv, NEW t \in Tasks, CheckBreaker(t)
  PROVE  /\ TypeInv' /\ rows' = rows /\ UNCHANGED <<resumedAt, rotated>>
         /\ \A s \in Tasks \ {t} : At(s)' = At(s)
         /\ t[2] \in Hooks
         /\ IF Breakable(t[2]) /\ Trips(t[2])
            THEN /\ hooks'[t[2]] = [hooks[t[2]] EXCEPT !.state = "live", !.active = FALSE,
                                                       !.tripped = TRUE]
                 /\ \A h \in Hooks \ {t[2]} : hooks'[h] = hooks[h]
            ELSE hooks' = hooks
<1> DEFINE h == t[2]
<1>0. /\ h \in Hooks /\ tasks \in [Tasks -> TaskRecords] /\ hooks \in [Hooks -> HookRecords]
      /\ Now \in Nat
  BY RowTyped DEF Tasks, TypeInv, TasksTyped, HooksTyped, Now
<1>1. rows' = rows /\ UNCHANGED <<resumedAt, rotated>> /\ window' = window /\ Now' = Now
  BY DEF CheckBreaker, Now
<1>2. /\ tasks' \in [Tasks -> TaskRecords] /\ tasks'[t].at = "done"
      /\ \A s \in Tasks \ {t} : tasks'[s] = tasks[s]
      /\ \A s \in Tasks : tasks'[s].attempt = tasks[s].attempt
  BY <1>0 DEF CheckBreaker, TaskRecords
<1>3. SleepersMayRetry'
  BY <1>2 DEF TypeInv, SleepersMayRetry, At, MayRetry
<1> DEFINE r == [hooks[h] EXCEPT !.state = "live", !.active = FALSE, !.tripped = TRUE]
<1>4. HookOK(hooks[h]) /\ hooks[h] \in HookRecords
  BY <1>0 DEF TypeInv, WebhookTypeOK
<1>5. r \in HookRecords /\ HookOK(r)
  BY <1>0, <1>4 DEF HookRecords, HookOK
<1>6. CASE Breakable(h) /\ Trips(h)
  <2>1. hooks' = [hooks EXCEPT ![h] = r]
    BY <1>6 DEF CheckBreaker, TripHook
  <2> HIDE DEF r
  <2>2. /\ hooks' \in [Hooks -> HookRecords] /\ hooks'[h] = r
        /\ \A k \in Hooks \ {h} : hooks'[k] = hooks[k]
    BY <1>0, <1>5, <2>1
  <2>3. \A k \in Hooks : HookOK(hooks'[k])
    BY <1>5, <2>2 DEF TypeInv, WebhookTypeOK
  <2>4. \A k \in Hooks : HookOK(hooks[k])'
    BY <1>1, <2>3 DEF HookOK
  <2>5. TypeInv'
    BY <1>1, <1>2, <1>3, <2>2, <2>4 DEF TypeInv, WebhookTypeOK, HooksTyped, RowsTyped, TasksTyped
  <2> QED
    BY <1>0, <1>1, <1>2, <1>6, <2>2, <2>5 DEF At, r
<1>7. CASE ~(Breakable(h) /\ Trips(h))
  <2>1. hooks' = hooks
    BY <1>7 DEF CheckBreaker
  <2>2. \A k \in Hooks : HookOK(hooks[k])'
    BY <1>1, <2>1 DEF TypeInv, WebhookTypeOK, HookOK
  <2>3. TypeInv'
    BY <1>1, <1>2, <1>3, <2>1, <2>2 DEF TypeInv, WebhookTypeOK, HooksTyped, RowsTyped, TasksTyped
  <2> QED
    BY <1>0, <1>1, <1>2, <1>7, <2>1, <2>3 DEF At
<1> QED
  BY <1>6, <1>7

\* Every step is one of these.
LEMMA StepKinds ==
  ASSUME TypeInv, WebhookNext
  PROVE  \/ \E h \in Hooks : RegistryStep(h)
         \/ QuietStep
         \/ \E t \in Tasks, replayable \in BOOLEAN :
               At(t) \in {"none", "scheduled"} /\ Begin(t, replayable)
         \/ \E t \in Tasks, ok \in BOOLEAN : Answer(t, ok)
         \/ \E t \in Tasks : CheckBreaker(t)
<1>1. ASSUME NEW c \in Calls, NEW h \in Hooks, Trigger(c, h)
      PROVE  \E t \in Tasks, replayable \in BOOLEAN :
                At(t) \in {"none", "scheduled"} /\ Begin(t, replayable)
  <2>1. <<c, h>> \in Tasks /\ At(<<c, h>>) = "none"
    BY <1>1 DEF Tasks, Trigger
  <2> QED
    BY <1>1, <2>1 DEF Trigger
<1>2. ASSUME NEW t \in Tasks, Start(t)
      PROVE  \E s \in Tasks, replayable \in BOOLEAN :
                At(s) \in {"none", "scheduled"} /\ Begin(s, replayable)
  BY <1>2 DEF Start
<1> QED
  BY <1>1, <1>2 DEF WebhookNext, RegistryStep, QuietStep

\* Steps keep the types.
LEMMA TypeStep == TypeInv /\ [WebhookNext]_webhookVars => TypeInv'
<1> SUFFICES ASSUME TypeInv, [WebhookNext]_webhookVars PROVE TypeInv'
  OBVIOUS
<1>0. window \in 0..Now /\ Now \in Nat
  BY RowTyped DEF TypeInv, WebhookTypeOK, Now
<1>1. ASSUME NEW t \in Tasks, NEW replayable \in BOOLEAN, Begin(t, replayable)
      PROVE  TypeInv'
  <2>1. /\ rows' = rows \/ \E row : Logs(row)
        /\ TasksTyped' /\ SleepersMayRetry' /\ window' = window /\ UNCHANGED registryVars
    BY <1>1, BeginTypes
  <2>2. window' \in 0..Now'
    BY <1>0, <2>1, LogTypes
  <2> QED
    BY <2>1, <2>2, DeliveryTypes
<1>2. ASSUME NEW t \in Tasks, NEW ok \in BOOLEAN, Answer(t, ok)
      PROVE  TypeInv'
  <2>1. /\ rows' = rows \/ \E row : Logs(row)
        /\ TasksTyped' /\ SleepersMayRetry' /\ window' = window /\ UNCHANGED registryVars
    BY <1>2, AnswerTypes
  <2>2. window' \in 0..Now'
    BY <1>0, <2>1, LogTypes
  <2> QED
    BY <2>1, <2>2, DeliveryTypes
<1>3. CASE QuietStep
  BY <1>3, QuietTypes, DeliveryTypes
<1>4. CASE UNCHANGED webhookVars
  <2>1. Now' = Now /\ UNCHANGED <<hooks, rows, window, tasks, resumedAt, rotated>>
    BY <1>4 DEF webhookVars, registryVars, deliveryVars, Now
  <2>2. \A h \in Hooks : HookOK(hooks[h])'
    BY <2>1 DEF TypeInv, WebhookTypeOK, HookOK
  <2> QED
    BY <2>1, <2>2 DEF TypeInv, WebhookTypeOK, HooksTyped, RowsTyped, TasksTyped,
       SleepersMayRetry, At, MayRetry
<1> QED
  BY <1>1, <1>2, <1>3, <1>4, StepKinds, RegistryTypes, CheckTypes

\* Hooks, rows and deliveries keep their shapes, an active hook is live and
\* was not stopped by the breaker, and no delivery is tried more often than
\* allowed (_deliver_one, _set_active, _maybe_auto_disable).
THEOREM TypeCorrect == WebhookSpec => []WebhookTypeOK
<1>1. TypeInv => WebhookTypeOK
  BY DEF TypeInv
<1> QED
  BY <1>1, TypeInit, TypeStep, PTL DEF WebhookSpec

-----------------------------------------------------------------------------
(* The registry.                                                           *)

\* A hook is deleted for good, whatever deliveries to it were under way when
\* it was deleted (_maybe_auto_disable).
THEOREM DeletedCorrect == WebhookSpec => DeletedForGood
<1>1. TypeInv /\ [WebhookNext]_webhookVars =>
        [\A h \in Hooks : hooks[h].state = "deleted" => hooks'[h].state = "deleted"]_hooks
  <2> SUFFICES ASSUME TypeInv, [WebhookNext]_webhookVars, hooks' # hooks,
                      NEW h \in Hooks, hooks[h].state = "deleted"
               PROVE  hooks'[h].state = "deleted"
    OBVIOUS
  <2>0. hooks \in [Hooks -> HookRecords]
    BY DEF TypeInv, HooksTyped
  <2>1. ASSUME NEW k \in Hooks, RegistryStep(k)
        PROVE  hooks'[h] = hooks[h]
    <3>1. k # h
      BY <2>1 DEF RegistryStep, Create, Delete, Pause, Resume, Rotate, Live, Unused
    <3> QED
      BY <2>0, <2>1, <3>1 DEF RegistryStep, Create, Delete, Pause, Resume, Rotate
  <2>2. ASSUME NEW t \in Tasks, CheckBreaker(t)
        PROVE  hooks'[h] = hooks[h]
    <3>1. t[2] = h => ~Breakable(t[2])
      BY DEF Breakable, Live
    <3> QED
      BY <2>2, <3>1, CheckTypes
  <2>3. ~QuietStep
    BY QuietTypes DEF registryVars
  <2>4. ASSUME NEW t \in Tasks, NEW b \in BOOLEAN, Begin(t, b) \/ Answer(t, b)
        PROVE  FALSE
    BY <2>4 DEF Begin, Answer, registryVars
  <2>5. ~UNCHANGED webhookVars
    BY DEF webhookVars, registryVars
  <2> QED
    BY <2>1, <2>2, <2>3, <2>4, <2>5, StepKinds
<1> QED
  BY <1>1, TypeInit, TypeStep, PTL DEF WebhookSpec, DeletedForGood

\* Where the breaker starts to count: at the last resume, or at the creation
\* of a hook that was never resumed or has forgotten it.
BoundaryOK(h) ==
    /\ h \notin rotated => Boundary(h) = resumedAt[h]
    /\ hooks[h].created <= Boundary(h)
    /\ hooks[h].created <= resumedAt[h]
BoundaryInv == \A h \in Hooks : BoundaryOK(h)

LEMMA BoundaryInit == WebhookInit => BoundaryInv
  BY DEF WebhookInit, BoundaryInv, BoundaryOK, Boundary, Unused

\* A step that is not a Create, a Resume or a Rotate leaves the times alone.
LEMMA BoundaryKept ==
  ASSUME NEW h \in Hooks, BoundaryOK(h), hooks'[h].created = hooks[h].created,
         hooks'[h].resumed = hooks[h].resumed, resumedAt'[h] = resumedAt[h],
         h \in rotated' <=> h \in rotated
  PROVE  BoundaryOK(h)'
  BY DEF BoundaryOK, Boundary

LEMMA BoundaryStep ==
  TypeInv /\ BoundaryInv /\ [WebhookNext]_webhookVars => BoundaryInv'
<1> SUFFICES ASSUME TypeInv, BoundaryInv, [WebhookNext]_webhookVars, NEW h \in Hooks
             PROVE  BoundaryOK(h)'
  BY DEF BoundaryInv
<1>0. /\ hooks \in [Hooks -> HookRecords] /\ HookOK(hooks[h]) /\ Now \in Nat
      /\ resumedAt \in [Hooks -> 0..Now] /\ BoundaryOK(h)
  BY RowTyped DEF TypeInv, WebhookTypeOK, HooksTyped, Now, BoundaryInv
<1>h. hooks[h] \in HookRecords /\ hooks[h].created \in 0..Now /\ resumedAt[h] \in 0..Now
  BY <1>0 DEF HookOK
<1>1. ASSUME NEW k \in Hooks, RegistryStep(k)
      PROVE  BoundaryOK(h)'
  <2>1. CASE k # h
    <3>1. hooks'[h] = hooks[h] /\ resumedAt'[h] = resumedAt[h] /\ (h \in rotated' <=> h \in rotated)
      BY <1>0, <1>1, <2>1 DEF RegistryStep, Create, Delete, Pause, Resume, Rotate
    <3> QED
      BY <1>0, <3>1, BoundaryKept
  <2>2. CASE Create(h)
    <3>1. hooks'[h].created = Now /\ hooks'[h].resumed = 0 /\ resumedAt'[h] = Now
      BY <1>0, <2>2 DEF Create, Unused
    <3> QED
      BY <1>0, <3>1 DEF BoundaryOK, Boundary
  <2>3. CASE Delete(h) \/ Pause(h)
    <3>1. /\ hooks'[h].created = hooks[h].created /\ hooks'[h].resumed = hooks[h].resumed
          /\ resumedAt' = resumedAt /\ rotated' = rotated
      BY <1>0, <1>h, <2>3 DEF Delete, Pause, HookRecords
    <3> QED
      BY <1>0, <3>1, BoundaryKept
  <2>4. CASE Resume(h)
    <3>1. /\ hooks'[h].created = hooks[h].created /\ hooks'[h].resumed = Now
          /\ resumedAt'[h] = Now
      BY <1>0, <1>h, <2>4 DEF Resume, HookRecords
    <3>2. hooks[h].created <= Now /\ (Now > 0 \/ hooks[h].created = Now)
      BY <1>0, <1>h
    <3> QED
      BY <1>0, <3>1, <3>2 DEF BoundaryOK, Boundary
  <2>5. CASE Rotate(h)
    <3>1. /\ hooks'[h].created = hooks[h].created /\ hooks'[h].resumed = 0
          /\ h \in rotated' /\ resumedAt' = resumedAt
      BY <1>0, <1>h, <2>5 DEF Rotate, HookRecords
    <3> QED
      BY <1>0, <1>h, <3>1 DEF BoundaryOK, Boundary
  <2> QED
    BY <1>1, <2>1, <2>2, <2>3, <2>4, <2>5 DEF RegistryStep
<1>2. ASSUME NEW t \in Tasks, CheckBreaker(t)
      PROVE  BoundaryOK(h)'
  <2>1. /\ hooks'[h].created = hooks[h].created /\ hooks'[h].resumed = hooks[h].resumed
        /\ resumedAt' = resumedAt /\ rotated' = rotated
    <3>1. \/ hooks'[h] = hooks[h]
          \/ hooks'[h] = [hooks[h] EXCEPT !.state = "live", !.active = FALSE, !.tripped = TRUE]
      BY <1>2, CheckTypes, Zenon
    <3>2. resumedAt' = resumedAt /\ rotated' = rotated
      BY <1>2, CheckTypes
    <3> QED
      BY <1>h, <3>1, <3>2 DEF HookRecords
  <2> QED
    BY <1>0, <2>1, BoundaryKept
<1>3. ASSUME UNCHANGED registryVars
      PROVE  BoundaryOK(h)'
  BY <1>0, <1>3, BoundaryKept DEF registryVars
<1>4. QuietStep => UNCHANGED registryVars
  BY QuietTypes
<1>5. ASSUME NEW t \in Tasks, NEW b \in BOOLEAN, Begin(t, b) \/ Answer(t, b)
      PROVE  UNCHANGED registryVars
  BY <1>5 DEF Begin, Answer
<1>6. UNCHANGED webhookVars => UNCHANGED registryVars
  BY DEF webhookVars
<1> QED
  BY <1>1, <1>2, <1>3, <1>4, <1>5, <1>6, StepKinds

-----------------------------------------------------------------------------
(* The circuit breaker.                                                    *)

\* The streak the breaker counts is a finite set of failures.
LEMMA StreakCounts ==
  ASSUME TypeInv, NEW h, NEW since \in Nat
  PROVE  /\ Streak(h, since) = Cardinality(FailedRows(h, since))
         /\ IsFiniteSet(FailedRows(h, since)) /\ Streak(h, since) \in Nat
         /\ \A from \in Nat : from <= since =>
               Streak(h, since) <= Cardinality(FailedRows(h, from))
<1>0. Len(rows) \in Nat
  BY RowTyped DEF TypeInv
<1>1. \A from \in Nat : IsFiniteSet(FailedRows(h, from)) /\ Cardinality(FailedRows(h, from)) \in Nat
  <2> TAKE from \in Nat
  <2>1. IsFiniteSet((from + 1)..Now)
    BY <1>0, FS_Interval DEF Now
  <2>2. FailedRows(h, from) \in SUBSET ((from + 1)..Now)
    BY DEF FailedRows
  <2> QED
    BY <2>1, <2>2, FS_Subset, FS_CardinalityType
<1>2. Streak(h, since) = Cardinality(FailedRows(h, since))
  BY DEF Streak, FailedRows, Now
<1>3. ASSUME NEW from \in Nat, from <= since
      PROVE  Streak(h, since) <= Cardinality(FailedRows(h, from))
  <2>1. FailedRows(h, since) \in SUBSET FailedRows(h, from)
    BY <1>0, <1>3 DEF FailedRows, Now
  <2> QED
    BY <1>1, <1>2, <2>1, FS_Subset
<1> QED
  BY <1>1, <1>2, <1>3

\* The breaker stops a hook on as many failures of its own, in a row, as the
\* threshold asks for, all logged since it was resumed, or since it was created
\* if a rotation of its secret has made it forget (settings.py:288-292).
THEOREM FreshStreakCorrect == WebhookSpec => StopNeedsFreshStreak
<1>1. TypeInv /\ BoundaryInv /\ [WebhookNext]_webhookVars =>
        [\A h \in Hooks : StoppedNow(h) =>
           Cardinality(FailedRows(h, IF h \in rotated THEN hooks[h].created
                                     ELSE resumedAt[h])) >= Threshold]_hooks
  <2> SUFFICES ASSUME TypeInv, BoundaryInv, [WebhookNext]_webhookVars, hooks' # hooks,
                      NEW h \in Hooks, StoppedNow(h)
               PROVE  Cardinality(FailedRows(h, IF h \in rotated THEN hooks[h].created
                                                ELSE resumedAt[h])) >= Threshold
    OBVIOUS
  <2>0. /\ hooks \in [Hooks -> HookRecords] /\ hooks[h] \in HookRecords
        /\ ~hooks[h].tripped /\ hooks'[h].tripped
    BY DEF TypeInv, HooksTyped, StoppedNow
  <2>1. ASSUME NEW k \in Hooks, RegistryStep(k)
        PROVE  FALSE
    <3>1. CASE k # h
      BY <2>0, <2>1, <3>1 DEF RegistryStep, Create, Delete, Pause, Resume, Rotate
    <3>2. CASE Create(h)
      BY <2>0, <3>2 DEF Create, Unused
    <3>3. CASE Delete(h) \/ Pause(h)
      BY <2>0, <3>3 DEF Delete, Pause, HookRecords
    <3>4. CASE Resume(h)
      BY <2>0, <3>4 DEF Resume, HookRecords
    <3>5. CASE Rotate(h)
      BY <2>0, <3>5 DEF Rotate, HookRecords
    <3> QED
      BY <2>1, <3>1, <3>2, <3>3, <3>4, <3>5 DEF RegistryStep
  <2>2. ASSUME NEW t \in Tasks, CheckBreaker(t)
        PROVE  Trips(h)
    <3>1. t[2] = h /\ Trips(t[2])
      BY <2>0, <2>2, CheckTypes
    <3> QED
      BY <3>1
  <2>3. ~QuietStep
    BY QuietTypes DEF registryVars
  <2>4. ASSUME NEW t \in Tasks, NEW b \in BOOLEAN, Begin(t, b) \/ Answer(t, b)
        PROVE  FALSE
    BY <2>4 DEF Begin, Answer, registryVars
  <2>5. ~UNCHANGED webhookVars
    BY DEF webhookVars, registryVars
  <2>6. Streak(h, Boundary(h)) >= Threshold
    BY <2>1, <2>2, <2>3, <2>4, <2>5, StepKinds DEF Trips
  <2>7. /\ Boundary(h) \in Nat /\ hooks[h].created \in Nat /\ resumedAt[h] \in Nat
        /\ hooks[h].created <= Boundary(h)
        /\ h \notin rotated => Boundary(h) = resumedAt[h]
    <3>1. Now \in Nat /\ resumedAt \in [Hooks -> 0..Now]
      BY RowTyped DEF TypeInv, WebhookTypeOK, Now
    <3> QED
      BY <2>0, <3>1 DEF BoundaryInv, BoundaryOK, Boundary, HookRecords
  <2>8. \A from \in Nat : from <= Boundary(h) =>
            Cardinality(FailedRows(h, from)) >= Threshold
    <3> TAKE from \in Nat
    <3> SUFFICES ASSUME from <= Boundary(h)
                 PROVE  Cardinality(FailedRows(h, from)) >= Threshold
      OBVIOUS
    <3>1. /\ Streak(h, Boundary(h)) <= Cardinality(FailedRows(h, from))
          /\ Streak(h, Boundary(h)) \in Nat
      BY <2>7, StreakCounts
    <3>2. Cardinality(FailedRows(h, from)) \in Nat
      BY StreakCounts, FS_CardinalityType
    <3> QED
      BY <2>6, <3>1, <3>2, WebhookAssumption
  <2> QED
    BY <2>7, <2>8
<1> QED
  BY <1>1, TypeInit, TypeStep, BoundaryInit, BoundaryStep, PTL
     DEF WebhookSpec, StopNeedsFreshStreak

\* The failures of a hook and its last row depend on its own rows only.
LEMMA OthersRow ==
  ASSUME TypeInv, NEW h, NEW since \in Nat,
         rows' = rows \/ \E row : Logs(row) /\ row.hook # h
  PROVE  /\ RowsOf(h)' = RowsOf(h)
         /\ \A i \in RowsOf(h) : rows'[i] = rows[i]
         /\ FailedRows(h, since)' = FailedRows(h, since)
<1>0. RowsTyped /\ Len(rows) \in Nat
  BY RowTyped DEF TypeInv
<1>1. CASE rows' = rows
  BY <1>1 DEF RowsOf, FailedRows, Now
<1>2. ASSUME NEW row, Logs(row), row.hook # h
      PROVE  /\ RowsOf(h)' = RowsOf(h)
             /\ \A i \in RowsOf(h) : rows'[i] = rows[i]
             /\ FailedRows(h, since)' = FailedRows(h, since)
  <2> DEFINE n == Len(rows)
  <2>1. /\ n \in Nat /\ Len(rows') = n + 1 /\ rows'[n + 1].hook # h
        /\ \A i \in 1..n : rows'[i] = rows[i]
    BY <1>0, <1>2, LoggedRow
  <2> HIDE DEF n
  <2>2. RowsOf(h) = {i \in 1..n : rows[i].hook = h}
    BY DEF RowsOf, Now, n
  <2>3. RowsOf(h)' = {i \in 1..(n + 1) : rows'[i].hook = h}
    BY <2>1 DEF RowsOf, Now
  <2>4. RowsOf(h)' = RowsOf(h)
    BY <2>1, <2>2, <2>3
  <2>5. FailedRows(h, since) =
          {i \in (since + 1)..n :
             rows[i].hook = h /\ \A j \in i..n : rows[j].hook = h => ~rows[j].ok}
    BY DEF FailedRows, Now, n
  <2>6. FailedRows(h, since)' =
          {i \in (since + 1)..(n + 1) :
             rows'[i].hook = h /\ \A j \in i..(n + 1) : rows'[j].hook = h => ~rows'[j].ok}
    BY <2>1 DEF FailedRows, Now
  <2>7. ASSUME NEW i \in Int, since + 1 <= i
        PROVE  i \in FailedRows(h, since)' <=> i \in FailedRows(h, since)
    <3>1. \A j \in i..n : rows'[j] = rows[j]
      BY <2>1, <2>7
    <3>2. \A j \in i..(n + 1) : j \in i..n \/ j = n + 1
      BY <2>1, <2>7
    <3>3. \A j \in i..n : j \in i..(n + 1)
      BY <2>1, <2>7
    <3>4. i \in (since + 1)..(n + 1) /\ rows'[i].hook = h => i \in (since + 1)..n /\ i \in i..n
      BY <2>1, <2>7
    <3>5. i \in (since + 1)..n => i \in (since + 1)..(n + 1) /\ i \in i..n
      BY <2>1, <2>7
    <3> QED
      BY <2>1, <2>5, <2>6, <3>1, <3>2, <3>3, <3>4, <3>5
  <2>8. \A i \in FailedRows(h, since) \cup FailedRows(h, since)' : i \in Int /\ since + 1 <= i
    BY <2>1, <2>5, <2>6
  <2> QED
    BY <2>1, <2>2, <2>4, <2>7, <2>8
<1> QED
  BY <1>1, <1>2

\* A set of natural numbers has a least one.
LEMMA LeastNatural ==
  ASSUME NEW T \in SUBSET Nat, T # {}
  PROVE  \E k \in T : \A m \in T : k <= m
<1> DEFINE Less == {ss \in Nat \X Nat : ss[1] < ss[2]}
<1>1. IsWellFoundedOn(Less, Nat)
  BY NatLessThanWellFounded DEF OpToRel
<1>2. \A x, y \in Nat : <<x, y>> \in Less <=> x < y
  OBVIOUS
<1> HIDE DEF Less
<1>3. PICK k \in T : \A m \in T : ~(<<m, k>> \in Less)
  BY <1>1, WFMin
<1>4. \A m \in T : ~(m < k)
  BY <1>2, <1>3
<1>5. \A m \in T : k <= m
  <2> TAKE m \in T
  <2>1. m \in Nat /\ k \in Nat /\ ~(m < k)
    BY <1>4
  <2> QED
    BY <2>1
<1> QED
  BY <1>5

\* A set of positions has a last one.
LEMMA LargestOfInterval ==
  ASSUME NEW n \in Nat, NEW S \in SUBSET (1..n), S # {}
  PROVE  \E i \in S : \A j \in S : j <= i
<1> DEFINE T == {k \in Nat : n - k \in S}
<1>1. PICK i \in S : TRUE
  OBVIOUS
<1>2. n - i \in T
  BY <1>1
<1>3. T \in SUBSET Nat
  OBVIOUS
<1>4. PICK k \in T : \A m \in T : k <= m
  BY <1>2, <1>3, LeastNatural
<1>5. \A j \in S : n - j \in T
  OBVIOUS
<1>6. n - k \in S /\ \A j \in S : j <= n - k
  BY <1>4, <1>5
<1> QED
  BY <1>6

\* No row that was logged after the newest one counts.
LEMMA NoFailedRows ==
  ASSUME TypeInv, NEW h, NEW since \in Nat, since >= Now
  PROVE  Cardinality(FailedRows(h, since)) = 0
<1>1. Len(rows) \in Nat
  BY RowTyped DEF TypeInv
<1>2. FailedRows(h, since) = {}
  BY <1>1 DEF FailedRows, Now
<1> QED
  BY <1>2, FS_EmptySet

\* The row that was added is the last one of its hook.
LEMMA OwnRow ==
  ASSUME TypeInv, NEW h, NEW row, Logs(row), row.hook = h
  PROVE  LastRow(h)' = row
<1>1. /\ Len(rows) \in Nat /\ Len(rows') = Len(rows) + 1
      /\ rows'[Len(rows) + 1] = row
  BY LoggedRow DEF TypeInv
<1> DEFINE n == Len(rows) + 1
<1>2. RowsOf(h)' = {i \in 1..n : rows'[i].hook = h}
  BY <1>1 DEF RowsOf, Now
<1>3. n \in RowsOf(h)' /\ \A j \in RowsOf(h)' : j \in 1..n
  BY <1>1, <1>2
<1> DEFINE last == CHOOSE i \in RowsOf(h)' : \A j \in RowsOf(h)' : j <= i
<1>4. \E i \in RowsOf(h)' : \A j \in RowsOf(h)' : j <= i
  BY <1>1, <1>3
<1>5. last \in RowsOf(h)' /\ \A j \in RowsOf(h)' : j <= last
  BY <1>4
<1> HIDE DEF last
<1>6. last = n
  BY <1>1, <1>3, <1>5
<1>7. LastRow(h)' = rows'[last]
  BY DEF LastRow, last
<1> QED
  BY <1>1, <1>6, <1>7

\* A hook whose last delivery has failed for good, its check of the breaker done.
Settled(h) ==
    /\ Live(h) /\ hooks[h].active /\ Threshold > 0
    /\ RowsOf(h) # {} /\ LastRow(h).final /\ ~LastRow(h).ok
    /\ At(<<LastRow(h).call, h>>) \notin {"closing", "unchecked", "lost"}

Checked(h) ==
    h \notin rotated /\ Settled(h) => Cardinality(FailedRows(h, resumedAt[h])) < Threshold

LEMMA BreakerIsChecked == BreakerNotMissed <=> \A h \in Hooks : Checked(h)
  BY DEF BreakerNotMissed, Checked, Settled

\* A step of other hooks, and one that only moves deliveries on, changes
\* nothing of a hook that was checked.
LEMMA CheckedKept ==
  ASSUME TypeInv, NEW h \in Hooks, Checked(h),
         rows' = rows \/ \E row : Logs(row) /\ row.hook # h,
         hooks'[h] = hooks[h], resumedAt'[h] = resumedAt[h], h \in rotated' <=> h \in rotated,
         \A c \in Calls : At(<<c, h>>) \in {"closing", "unchecked", "lost"} =>
                              At(<<c, h>>)' \in {"closing", "unchecked", "lost"}
  PROVE  Checked(h)'
<1>0. resumedAt \in [Hooks -> 0..Now] /\ Now \in Nat
  BY RowTyped DEF TypeInv, WebhookTypeOK, Now
<1> DEFINE since == resumedAt[h]
<1>1. since \in Nat
  BY <1>0
<1>2. /\ RowsOf(h)' = RowsOf(h) /\ \A i \in RowsOf(h) : rows'[i] = rows[i]
      /\ FailedRows(h, since)' = FailedRows(h, since)
  <2>1. PICK s \in Nat : s = since /\ s = resumedAt'[h]
    BY <1>1
  <2>2. /\ RowsOf(h)' = RowsOf(h) /\ \A i \in RowsOf(h) : rows'[i] = rows[i]
        /\ FailedRows(h, s)' = FailedRows(h, s)
    BY OthersRow
  <2>3. FailedRows(h, since)' = FailedRows(h, s)' /\ FailedRows(h, since) = FailedRows(h, s)
    BY <2>1 DEF FailedRows
  <2> QED
    BY <2>2, <2>3
<1>3. RowsOf(h) # {} => LastRow(h)' = LastRow(h)
  <2> SUFFICES ASSUME RowsOf(h) # {} PROVE LastRow(h)' = LastRow(h)
    OBVIOUS
  <2> DEFINE last == CHOOSE i \in RowsOf(h) : \A j \in RowsOf(h) : j <= i
  <2>1. LastRow(h) = rows[last]
    BY DEF LastRow
  <2>2. LastRow(h)' = rows'[last]
    BY <1>2 DEF LastRow
  <2>3. last \in RowsOf(h)
    <3>1. Len(rows) \in Nat
      BY RowTyped DEF TypeInv
    <3>2. RowsOf(h) \in SUBSET (1..Len(rows))
      BY DEF RowsOf, Now
    <3>3. \E i \in RowsOf(h) : \A j \in RowsOf(h) : j <= i
      BY <3>1, <3>2, LargestOfInterval
    <3> QED
      BY <3>3
  <2> QED
    BY <1>2, <2>1, <2>2, <2>3
<1>4. RowsOf(h) # {} => LastRow(h).call \in Calls
  <2>1. Len(rows) \in Nat /\ \A i \in 1..Len(rows) : rows[i] \in RowRecords
    BY RowTyped DEF TypeInv
  <2>2. RowsOf(h) \in SUBSET (1..Len(rows))
    BY DEF RowsOf, Now
  <2>3. RowsOf(h) # {} => \E i \in RowsOf(h) : \A j \in RowsOf(h) : j <= i
    BY <2>1, <2>2, LargestOfInterval
  <2>4. RowsOf(h) # {} => LastRow(h) \in RowRecords
    BY <2>1, <2>2, <2>3 DEF LastRow
  <2> QED
    BY <2>4 DEF RowRecords
<1>5. Settled(h)' => Settled(h)
  BY <1>2, <1>3, <1>4 DEF Settled, Live
<1> QED
  BY <1>2, <1>5 DEF Checked

\* A hook that is resumed or created starts again from nothing.
LEMMA CheckedAnew ==
  ASSUME TypeInv, NEW h \in Hooks, rows' = rows, resumedAt'[h] = Now
  PROVE  Checked(h)'
<1>1. Now \in Nat
  BY RowTyped DEF TypeInv, Now
<1>2. PICK s \in Nat : s = Now
  BY <1>1
<1>3. FailedRows(h, resumedAt[h])' = FailedRows(h, s)
  BY <1>2 DEF FailedRows, Now
<1>4. Cardinality(FailedRows(h, s)) = 0
  BY <1>2, NoFailedRows
<1>5. Settled(h)' => Threshold > 0
  BY DEF Settled
<1> QED
  BY <1>3, <1>4, <1>5 DEF Checked

LEMMA CheckedStep ==
  ASSUME TypeInv, BoundaryInv, NEW h \in Hooks, Checked(h), WebhookNext
  PROVE  Checked(h)'
<1>0. hooks \in [Hooks -> HookRecords] /\ resumedAt \in [Hooks -> 0..Now] /\ Now \in Nat
  BY RowTyped DEF TypeInv, HooksTyped, WebhookTypeOK, Now
<1>1. ASSUME NEW k \in Hooks, RegistryStep(k)
      PROVE  Checked(h)'
  <2>0. rows' = rows /\ tasks' = tasks
    BY <1>1 DEF RegistryStep, Create, Delete, Pause, Resume, Rotate, deliveryVars
  <2>1. CASE k # h
    <3>1. hooks'[h] = hooks[h] /\ resumedAt'[h] = resumedAt[h] /\ (h \in rotated' <=> h \in rotated)
      BY <1>0, <1>1, <2>1 DEF RegistryStep, Create, Delete, Pause, Resume, Rotate
    <3>2. \A c \in Calls : At(<<c, h>>)' = At(<<c, h>>)
      BY <2>0 DEF At
    <3> QED
      BY <2>0, <3>1, <3>2, CheckedKept
  <2>2. CASE Create(h) \/ Resume(h)
    <3>1. resumedAt'[h] = Now
      BY <1>0, <2>2 DEF Create, Resume
    <3> QED
      BY <2>0, <3>1, CheckedAnew
  <2>3. CASE Delete(h) \/ Pause(h)
    <3>1. ~hooks'[h].active
      BY <1>0, <2>3 DEF Delete, Pause, HookRecords
    <3> QED
      BY <3>1 DEF Checked, Settled
  <2>4. CASE Rotate(h)
    BY <2>4 DEF Rotate, Checked
  <2> QED
    BY <1>1, <2>1, <2>2, <2>3, <2>4 DEF RegistryStep
<1>2. CASE QuietStep
  <2>1. /\ rows' = rows /\ UNCHANGED registryVars
        /\ \A t \in Tasks : At(t) \in {"closing", "unchecked", "lost"} => At(t)' \in {"closing", "unchecked", "lost"}
    BY <1>2, QuietTypes
  <2>2. \A c \in Calls : <<c, h>> \in Tasks
    BY DEF Tasks
  <2> QED
    BY <2>1, <2>2, CheckedKept DEF registryVars
<1>3. ASSUME NEW t \in Tasks, NEW b \in BOOLEAN, At(t) \in {"none", "scheduled"}, Begin(t, b)
      PROVE  Checked(h)'
  <2>1. /\ rows' = rows \/ \E row : Logs(row) /\ row.hook = t[2] /\ ~row.final
        /\ UNCHANGED registryVars
        /\ \A s \in Tasks \ {t} : At(s)' = At(s)
        /\ At(t)' \in {"posting", "done"}
    BY <1>3, BeginTypes
  <2>2. \A c \in Calls : <<c, h>> \in Tasks
    BY DEF Tasks
  <2>3. CASE rows' = rows \/ t[2] # h
    <3>1. rows' = rows \/ \E row : Logs(row) /\ row.hook # h
      BY <2>1, <2>3
    <3>2. \A c \in Calls : At(<<c, h>>) \in {"closing", "unchecked", "lost"} => At(<<c, h>>)' = At(<<c, h>>)
      BY <1>3, <2>1, <2>2
    <3> QED
      BY <2>1, <3>1, <3>2, CheckedKept DEF registryVars
  <2>4. CASE t[2] = h /\ rows' # rows
    <3>1. PICK row : Logs(row) /\ row.hook = h /\ ~row.final
      BY <2>1, <2>4
    <3>2. LastRow(h)' = row
      BY <3>1, OwnRow
    <3> QED
      BY <3>1, <3>2 DEF Checked, Settled
  <2> QED
    BY <2>3, <2>4
<1>4. ASSUME NEW t \in Tasks, NEW ok \in BOOLEAN, Answer(t, ok)
      PROVE  Checked(h)'
  <2>1. PICK row : /\ Logs(row) /\ row.call = t[1] /\ row.hook = t[2]
                   /\ (row.final /\ ~row.ok => At(t)' = "closing")
    BY <1>4, AnswerTypes
  <2>2. /\ UNCHANGED registryVars /\ At(t) = "posting"
        /\ \A s \in Tasks \ {t} : At(s)' = At(s)
    BY <1>4, AnswerTypes
  <2>3. CASE t[2] # h
    <3>1. \A c \in Calls : <<c, h>> \in Tasks
      BY DEF Tasks
    <3> QED
      BY <2>1, <2>2, <2>3, <3>1, CheckedKept DEF registryVars
  <2>4. CASE t[2] = h
    <3>1. LastRow(h)' = row
      BY <2>1, <2>4, OwnRow
    <3>2. t = <<row.call, h>>
      BY <2>1, <2>4 DEF Tasks
    <3> QED
      BY <2>1, <3>1, <3>2 DEF Checked, Settled
  <2> QED
    BY <2>3, <2>4
<1>5. ASSUME NEW t \in Tasks, CheckBreaker(t)
      PROVE  Checked(h)'
  <2>1. /\ rows' = rows /\ resumedAt' = resumedAt /\ rotated' = rotated
        /\ \A s \in Tasks \ {t} : At(s)' = At(s)
        /\ IF Breakable(t[2]) /\ Trips(t[2])
           THEN /\ hooks'[t[2]] = [hooks[t[2]] EXCEPT !.state = "live", !.active = FALSE,
                                                      !.tripped = TRUE]
                /\ \A k \in Hooks \ {t[2]} : hooks'[k] = hooks[k]
           ELSE hooks' = hooks
    BY <1>5, CheckTypes
  <2>2. CASE t[2] # h
    <3>1. \A c \in Calls : <<c, h>> \in Tasks /\ <<c, h>> # t
      BY <2>2 DEF Tasks
    <3>2. hooks'[h] = hooks[h]
      BY <2>1, <2>2
    <3> QED
      BY <2>1, <3>1, <3>2, CheckedKept
  <2>3. CASE t[2] = h /\ Breakable(h) /\ Trips(h)
    <3>1. hooks[h] \in HookRecords
      BY <1>0
    <3>2. ~hooks'[h].active
      BY <2>1, <2>3, <3>1 DEF HookRecords
    <3> QED
      BY <3>2 DEF Checked, Settled
  <2>4. CASE t[2] = h /\ ~(Breakable(h) /\ Trips(h))
    <3> SUFFICES ASSUME h \notin rotated', Settled(h)'
                 PROVE  Cardinality(FailedRows(h, resumedAt[h]))' < Threshold
      BY DEF Checked
    <3>1. hooks' = hooks
      BY <2>1, <2>4
    <3>2. Breakable(h) /\ Threshold > 0
      BY <3>1 DEF Settled, Breakable, Live
    <3>3. Boundary(h) = resumedAt[h] /\ resumedAt[h] \in Nat
      BY <1>0, <2>1 DEF BoundaryInv, BoundaryOK
    <3>4. Streak(h, resumedAt[h]) < Threshold
      BY <2>4, <3>2, <3>3, StreakCounts, WebhookAssumption DEF Trips
    <3>5. Cardinality(FailedRows(h, resumedAt[h])) < Threshold
      BY <3>3, <3>4, StreakCounts
    <3>6. FailedRows(h, resumedAt[h])' = FailedRows(h, resumedAt[h])
      BY <2>1 DEF FailedRows, Now
    <3> QED
      BY <3>5, <3>6
  <2> QED
    BY <2>2, <2>3, <2>4
<1> QED
  BY <1>1, <1>2, <1>3, <1>4, <1>5, StepKinds

\* The breaker is not missed: when the newest row of a hook is a last failed
\* attempt, and its delivery has looked at the breaker, a hook that is still
\* active has failed less often than the threshold since it was resumed
\* (_deliver_one).
THEOREM BreakerCorrect == WebhookSpec => []BreakerNotMissed
<1> DEFINE Inv == \A h \in Hooks : Checked(h)
<1>1. WebhookInit => Inv
  BY DEF WebhookInit, Checked, Settled, Live, Unused
<1>2. TypeInv /\ BoundaryInv /\ Inv /\ [WebhookNext]_webhookVars => Inv'
  <2> SUFFICES ASSUME TypeInv, BoundaryInv, [WebhookNext]_webhookVars,
                      NEW h \in Hooks, Checked(h)
               PROVE  Checked(h)'
    OBVIOUS
  <2>1. CASE WebhookNext
    BY <2>1, CheckedStep
  <2>2. CASE UNCHANGED webhookVars
    BY <2>2 DEF webhookVars, registryVars, deliveryVars, Checked, Settled, Live, At, RowsOf,
       LastRow, FailedRows, Now
  <2> QED
    BY <2>1, <2>2
<1>3. Inv => BreakerNotMissed
  BY BreakerIsChecked
<1> HIDE DEF Inv
<1> QED
  BY <1>1, <1>2, <1>3, TypeInit, TypeStep, BoundaryInit, BoundaryStep, PTL DEF WebhookSpec
=============================================================================
