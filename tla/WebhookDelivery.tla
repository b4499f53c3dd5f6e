--------------------------- MODULE WebhookDelivery ---------------------------
(***************************************************************************)
(* The webhooks of one workspace (services/api/clawhum_api/routes/         *)
(* webhooks.py): the registry of hooks, the deliveries to them with their  *)
(* retries, the delivery log, the rate cap and the circuit breaker, in one *)
(* API process.                                                            *)
(*                                                                         *)
(* Handlers and deliveries run on the event loop: the code between two     *)
(* awaits is one step.  A delivery awaits the POST, the pause before a     *)
(* retry, and the closing of its HTTP client.  It holds the record its     *)
(* hook had when it started, of which only the id matters here; the        *)
(* breaker reads the registry again.                                       *)
(*                                                                         *)
(* Both files are logs.  The registry is modelled by the last record of    *)
(* each hook.  A time stamp is the number of deliveries logged before it,  *)
(* which orders it against every row.  The per-workspace policies are      *)
(* constants, secrets have no state a step depends on, and the audit       *)
(* events of the breaker and of the rate cap are steps of AuditLog.  An    *)
(* append to the delivery log is taken to work; one to the registry may    *)
(* fail in the breaker, which is the place where the code goes on.         *)
(***************************************************************************)
EXTENDS Integers, Sequences, FiniteSets

CONSTANTS
    Hooks,          \* ids of webhooks
    Calls,          \* bound: events dispatched, tests and redeliveries asked for
    MaxAttempts,    \* effective_max_attempts
    Threshold,      \* effective_threshold; 0 switches the breaker off
    RateCap,        \* max_per_minute; 0 is no cap
    MaxActive       \* effective_cap on registered hooks

ASSUME WebhookAssumption ==
    /\ MaxAttempts \in Nat \ {0}
    /\ Threshold \in Nat
    /\ RateCap \in Nat
    /\ MaxActive \in Nat \ {0}

VARIABLES
    hooks,          \* webhooks.jsonl: the last record of each hook
    rows,           \* webhook_deliveries.jsonl
    window,         \* the rows up to this one are older than a minute
    tasks,          \* the delivery each call makes to each hook
    resumedAt,      \* history: when a hook was last created or resumed
    rotated         \* history: hooks whose secret was rotated since then

registryVars == <<hooks, resumedAt, rotated>>
deliveryVars == <<rows, window, tasks>>
webhookVars == <<registryVars, deliveryVars>>

-----------------------------------------------------------------------------
(* The registry.                                                           *)

Unused == [state |-> "unused", active |-> FALSE, tripped |-> FALSE,
           created |-> 0, resumed |-> 0]

Now == Len(rows)

Live(h) == hooks[h].state = "live"

\* len(_live_hooks(tenant_id))
LiveCount == Cardinality({h \in Hooks : Live(h)})

\* POST /webhooks
Create(h) ==
    /\ hooks[h] = Unused
    /\ LiveCount < MaxActive
    /\ hooks' = [hooks EXCEPT ![h] =
                    [Unused EXCEPT !.state = "live", !.active = TRUE, !.created = Now]]
    /\ resumedAt' = [resumedAt EXCEPT ![h] = Now]
    /\ UNCHANGED <<rotated, deliveryVars>>

\* DELETE /webhooks/{id}: the tombstone.
Delete(h) ==
    /\ Live(h)
    /\ hooks' = [hooks EXCEPT ![h].state = "deleted", ![h].active = FALSE]
    /\ UNCHANGED <<resumedAt, rotated, deliveryVars>>

\* _set_active(active=False); nothing happens to a hook that is not active.
Pause(h) ==
    /\ Live(h)
    /\ hooks' = [hooks EXCEPT ![h].active = FALSE]
    /\ UNCHANGED <<resumedAt, rotated, deliveryVars>>

\* _set_active(active=True) on a hook that is not active.
Resume(h) ==
    /\ Live(h)
    /\ ~hooks[h].active
    /\ hooks' = [hooks EXCEPT ![h].active = TRUE, ![h].tripped = FALSE, ![h].resumed = Now]
    /\ resumedAt' = [resumedAt EXCEPT ![h] = Now]
    /\ rotated' = rotated \ {h}
    /\ UNCHANGED deliveryVars

\* rotate-secret writes a record of its own, without the times of a pause, a
\* resume or an automatic stop.
Rotate(h) ==
    /\ Live(h)
    /\ hooks' = [hooks EXCEPT ![h].tripped = FALSE, ![h].resumed = 0]
    /\ rotated' = rotated \cup {h}
    /\ UNCHANGED <<resumedAt, deliveryVars>>

-----------------------------------------------------------------------------
(* The circuit breaker.                                                    *)

\* resumed_at or created_at
Boundary(h) == IF hooks[h].resumed > 0 THEN hooks[h].resumed ELSE hooks[h].created

\* Mutant: the rows of every hook are counted.
Streak_AnyHook(h, since) ==
    Cardinality({i \in (since + 1)..Len(rows) : \A j \in i..Len(rows) : ~rows[j].ok})

\* _consecutive_failures_for: back to the first success, or to since.
Streak(h, since) ==
    Cardinality({i \in (since + 1)..Len(rows) :
        /\ rows[i].hook = h
        /\ \A j \in i..Len(rows) : rows[j].hook = h => ~rows[j].ok})

\* Mutant: the breaker trips one failure late.
Trips_OffByOne(h) == Threshold > 0 /\ Streak(h, Boundary(h)) > Threshold

Trips(h) == Threshold > 0 /\ Streak(h, Boundary(h)) >= Threshold

\* Mutant: the tombstone is not looked at.
Breakable_Deleted(h) == hooks[h].state # "unused" /\ ~hooks[h].tripped

\* The current record of the hook is there, not deleted, and active.
Breakable(h) == Live(h) /\ hooks[h].active

\* The record _maybe_auto_disable appends.
TripHook(h) ==
    hooks' = [hooks EXCEPT ![h].state = "live", ![h].active = FALSE, ![h].tripped = TRUE]

-----------------------------------------------------------------------------
(* _deliver_one.  A task is the delivery of one call to one hook.          *)

Tasks == Calls \X Hooks

At(t) == tasks[t].at

Row(t, kind, ok, final, replayable) ==
    [call |-> t[1], hook |-> t[2], kind |-> kind, ok |-> ok, final |-> final,
     replayable |-> replayable]

\* Only rows of attempts count against the cap, and only the last minute's.
Observed(h) ==
    Cardinality({i \in (window + 1)..Len(rows) :
                    rows[i].hook = h /\ rows[i].kind = "attempt"})

RateLimited(h) == RateCap > 0 /\ Observed(h) >= RateCap

\* The delivery ends with a row and without a request.
Skip(t, kind, replayable) ==
    /\ rows' = Append(rows, Row(t, kind, FALSE, FALSE, replayable))
    /\ tasks' = [tasks EXCEPT ![t].at = "done"]

\* Up to the first POST: the destination policy, whose answer may change with
\* the DNS, then the rate cap.
Begin(t, replayable) ==
    /\ \/ Skip(t, "policy_blocked", replayable)
       \/ RateLimited(t[2]) /\ Skip(t, "rate_limited", replayable)
       \/ /\ ~RateLimited(t[2])
          /\ tasks' = [tasks EXCEPT ![t] =
                          [at |-> "posting", attempt |-> 1, replayable |-> replayable]]
          /\ UNCHANGED rows
    /\ UNCHANGED <<window, registryVars>>

\* dispatch_event: a task for every live hook that is active.
Dispatch(c) ==
    /\ \A h \in Hooks : At(<<c, h>>) = "none"
    /\ tasks' = [t \in Tasks |->
                    IF t[1] = c /\ Live(t[2]) /\ hooks[t[2]].active
                    THEN [tasks[t] EXCEPT !.at = "scheduled"]
                    ELSE tasks[t]]
    /\ UNCHANGED <<rows, window, registryVars>>

\* The event loop starts a task that dispatch_event has created.
Start(t) == At(t) = "scheduled" /\ Begin(t, TRUE)

\* POST /webhooks/{id}/test and .../redeliver deliver within the request, to a
\* hook that is not deleted, active or not; a test stores no payload.
Trigger(c, h) ==
    /\ \A k \in Hooks : At(<<c, k>>) = "none"
    /\ Live(h)
    /\ \/ Begin(<<c, h>>, FALSE)
       \/ /\ \E i \in 1..Len(rows) : rows[i].hook = h /\ rows[i].replayable
          /\ Begin(<<c, h>>, TRUE)

\* Mutant: one attempt too many.
MayRetry_OffByOne(t) == tasks[t].attempt <= MaxAttempts

MayRetry(t) == tasks[t].attempt < MaxAttempts

\* The POST has returned, or failed.
Answer(t, ok) ==
    /\ At(t) = "posting"
    /\ rows' = Append(rows, Row(t, "attempt", ok, ~MayRetry(t), tasks[t].replayable))
    /\ tasks' = [tasks EXCEPT ![t].at =
                    IF ok THEN "done" ELSE IF MayRetry(t) THEN "sleeping" ELSE "closing"]
    /\ UNCHANGED <<window, registryVars>>

\* The backoff is over.
Retry(t) ==
    /\ At(t) = "sleeping"
    /\ tasks' = [tasks EXCEPT ![t].at = "posting", ![t].attempt = @ + 1]
    /\ UNCHANGED <<rows, window, registryVars>>

\* The client is closed after the last failure: _maybe_auto_disable.
CheckBreaker(t) ==
    /\ At(t) = "closing"
    /\ IF Breakable(t[2]) /\ Trips(t[2]) THEN TripHook(t[2]) ELSE UNCHANGED hooks
    /\ tasks' = [tasks EXCEPT ![t].at = "done"]
    /\ UNCHANGED <<rows, window, resumedAt, rotated>>

\* _maybe_auto_disable raises, and _deliver_one swallows it: the record could
\* not be read or written, and the delivery ends without the check.
BreakerFails(t) ==
    /\ At(t) = "closing"
    /\ tasks' = [tasks EXCEPT ![t].at = "unchecked"]
    /\ UNCHANGED <<rows, window, registryVars>>

-----------------------------------------------------------------------------

\* Rows leave the last minute, oldest first.
Age ==
    /\ window' \in (window + 1)..Len(rows)
    /\ UNCHANGED <<rows, tasks, registryVars>>

InFlight(t) == At(t) \in {"scheduled", "posting", "sleeping", "closing"}

\* A restart keeps the files and forgets every task.
Restart ==
    /\ tasks' = [t \in Tasks |-> IF InFlight(t) THEN [tasks[t] EXCEPT !.at = "lost"] ELSE tasks[t]]
    /\ UNCHANGED <<rows, window, registryVars>>

WebhookInit ==
    /\ hooks = [h \in Hooks |-> Unused]
    /\ rows = << >>
    /\ window = 0
    /\ tasks = [t \in Tasks |-> [at |-> "none", attempt |-> 1, replayable |-> TRUE]]
    /\ resumedAt = [h \in Hooks |-> 0]
    /\ rotated = {}

WebhookNext ==
    \/ \E h \in Hooks : Create(h) \/ Delete(h) \/ Pause(h) \/ Resume(h) \/ Rotate(h)
    \/ \E c \in Calls : Dispatch(c) \/ \E h \in Hooks : Trigger(c, h)
    \/ \E t \in Tasks : \/ Start(t) \/ Retry(t) \/ CheckBreaker(t) \/ BreakerFails(t)
                        \/ \E ok \in BOOLEAN : Answer(t, ok)
    \/ Age
    \/ Restart

WebhookSpec == WebhookInit /\ [][WebhookNext]_webhookVars

-----------------------------------------------------------------------------
(* Properties.                                                             *)

HookOK(hook) ==
    /\ hook.state \in {"unused", "live", "deleted"}
    /\ hook.active => hook.state = "live" /\ ~hook.tripped
    /\ hook.created \in 0..Now /\ hook.resumed \in 0..Now

WebhookTypeOK ==
    /\ DOMAIN hooks = Hooks /\ \A h \in Hooks : HookOK(hooks[h])
    /\ \A i \in 1..Now : /\ rows[i].hook \in Hooks /\ rows[i].call \in Calls
                         /\ rows[i].kind \in {"attempt", "rate_limited", "policy_blocked"}
    /\ window \in 0..Now
    /\ DOMAIN tasks = Tasks /\ \A t \in Tasks : tasks[t].attempt \in 1..MaxAttempts
    /\ resumedAt \in [Hooks -> 0..Now]
    /\ rotated \subseteq Hooks

\* A deleted hook is never brought back, in particular not by the breaker of a
\* delivery that was under way when it was deleted (_maybe_auto_disable appends
\* a whole record after the tombstone, if it appends one).
DeletedForGood ==
    [][\A h \in Hooks : hooks[h].state = "deleted" => hooks'[h].state = "deleted"]_hooks

\* The hook is stopped by the breaker in this step.
StoppedNow(h) == ~hooks[h].tripped /\ hooks'[h].tripped

FailedRows(h, since) ==
    {i \in (since + 1)..Now :
        rows[i].hook = h /\ \A j \in i..Now : rows[j].hook = h => ~rows[j].ok}

\* "Auto disable a webhook endpoint after this many consecutive failed
\* deliveries.  A success or an admin resume resets the counter"
\* (settings.py:288-292): the breaker stops a hook on its own failures only, as
\* many as the threshold in a row, all logged since it was last resumed, with
\* deliveries from before the resume still retrying.  A rotation of the secret
\* forgets the resume: then they are all logged since it was created.
StopNeedsFreshStreak ==
    [][\A h \in Hooks : StoppedNow(h) =>
           Cardinality(FailedRows(h, IF h \in rotated THEN hooks[h].created
                                     ELSE resumedAt[h])) >= Threshold]_hooks

\* The same with no exception for rotations.
ResumeResetsCounter ==
    [][\A h \in Hooks : StoppedNow(h) =>
           Cardinality(FailedRows(h, resumedAt[h])) >= Threshold]_hooks

RowsOf(h) == {i \in 1..Now : rows[i].hook = h}

LastRow(h) == rows[CHOOSE i \in RowsOf(h) : \A j \in RowsOf(h) : j <= i]

\* The breaker is not missed: when the newest row of a hook is a last failed
\* attempt, and the delivery that logged it was neither lost in a restart
\* before it looked at the breaker nor had that look fail, a hook still active
\* has not failed as often as the threshold since it was resumed, however many
\* deliveries were failing beside one another (_deliver_one checks it after
\* the client is closed, when other rows may have been added).
BreakerNotMissed ==
    \A h \in Hooks \ rotated :
        /\ Live(h) /\ hooks[h].active /\ Threshold > 0
        /\ RowsOf(h) # {} /\ LastRow(h).final /\ ~LastRow(h).ok
        /\ At(<<LastRow(h).call, h>>) \notin {"closing", "unchecked", "lost"}
        => Cardinality(FailedRows(h, resumedAt[h])) < Threshold

=============================================================================
