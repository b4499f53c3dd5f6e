--------------------------- MODULE AuditForwarder ---------------------------
(***************************************************************************)
(* The audit forwarder (services/api/clawhum_api/audit_forwarder.py) of    *)
(* one API process: each event written to the audit log is handed to a     *)
(* bounded queue, and a worker thread posts it to the sink of its          *)
(* workspace, signed with a secret that only the process knows.            *)
(*                                                                         *)
(* Two threads meet here. The handlers run on the event loop, one at a     *)
(* time, but a handler that takes two locks in turn lets the worker in     *)
(* between them: "handler" is what the event loop is in the middle of. The *)
(* worker takes no lock while it posts: "worker" is how far it has come,   *)
(* and what it saw on the way.                                             *)
(***************************************************************************)
EXTENDS Integers, Sequences

CONSTANTS
    Tenants,     \* workspaces
    MaxQueue,    \* _MAX_QUEUE
    MaxRetries,  \* audit_forwarder_max_retries
    MaxPuts,     \* bound: secrets that are made
    MaxJobs      \* bound: events handed over, replays included

ASSUME ForwarderAssumption ==
    /\ MaxQueue \in Nat \ {0} /\ MaxRetries \in Nat \ {0}
    /\ MaxPuts \in Nat /\ MaxJobs \in Nat

VARIABLES
    store,    \* _CACHE: the destination of each workspace
    saved,    \* ... and what the configuration file says of it
    secrets,  \* _secrets: the plain secrets, in memory only
    puts,     \* how many secrets have been made
    queue,    \* the jobs that wait for the worker
    worker,   \* the worker thread
    handler,  \* the handler the event loop is in the middle of
    given,    \* history: how many jobs have been made
    rows,     \* rows[j]: the outcomes the delivery log tells of job j
    lost,     \* history: jobs that ended without a row
    off       \* history: the workspaces whose admin was told "off" last

vars == <<store, saved, secrets, puts, queue, worker, handler, given, rows, lost, off>>

Jobs == 1 .. MaxJobs
Secrets == 1 .. MaxPuts
NoSecret == 0

\* A destination: the URL changes with the secret, which stands for both.
Destination(s, on) == [secret |-> s, enabled |-> on]
None == Destination(NoSecret, FALSE)

\* A _Job. It is due once the time in next_at has come.
Job(j, t, attempt, due) == [job |-> j, tenant |-> t, attempt |-> attempt, due |-> due]

NoThread == [at |-> "none"]
Waiting == [at |-> "waiting"]
Looked(m, d) == [at |-> "looked", m |-> m, dest |-> d]
Posting(m, d, s) == [at |-> "posting", m |-> m, dest |-> d, secret |-> s]
Answered(m, ok) == [at |-> "answered", m |-> m, ok |-> ok]
Busy == worker.at \notin {"none", "waiting"}

Idle == [at |-> "idle"]
Registering(t, s) == [at |-> "register", tenant |-> t, secret |-> s]
Enqueueing(m) == [at |-> "enqueue", m |-> m]

\* start: a thread that has died is replaced.
Started == IF worker = NoThread THEN Waiting ELSE worker

Without(i) ==
    [k \in 1 .. Len(queue) - 1 |-> IF k < i THEN queue[k] ELSE queue[k + 1]]

Told(j, status) == [rows EXCEPT ![j] = Append(@, status)]

Init ==
    /\ store = [t \in Tenants |-> None] /\ saved = store
    /\ secrets = [t \in Tenants |-> NoSecret] /\ puts = 0
    /\ queue = << >> /\ worker = NoThread /\ handler = Idle
    /\ given = 0 /\ rows = [j \in Jobs |-> << >>] /\ lost = {}
    /\ off = {}

-----------------------------------------------------------------------------
(* The administrator's handlers. One whose write to the file fails answers *)
(* with an error and changes nothing, except that a deletion has dropped   *)
(* the destination from the cache by then.                                 *)

Configure == UNCHANGED <<secrets, queue, worker, given, rows, lost>>

\* upsert_destination, the first half of PUT.
Put(t) ==
    /\ handler = Idle /\ puts < MaxPuts
    /\ puts' = puts + 1
    /\ store' = [store EXCEPT ![t] = Destination(puts', TRUE)]
    /\ saved' = [saved EXCEPT ![t] = store'[t]]
    /\ handler' = Registering(t, puts')
    /\ off' = off \ {t}
    /\ Configure

\* register_secret and start, its second half.
Register ==
    /\ handler.at = "register"
    /\ secrets' = [secrets EXCEPT ![handler.tenant] = handler.secret]
    /\ worker' = Started
    /\ handler' = Idle
    /\ UNCHANGED <<store, saved, puts, queue, given, rows, lost, off>>

\* set_enabled
SetEnabled(t, on) ==
    /\ handler = Idle /\ store[t] # None
    /\ store' = [store EXCEPT ![t].enabled = on]
    /\ saved' = [saved EXCEPT ![t] = store'[t]]
    /\ off' = IF on THEN off \ {t} ELSE off \union {t}
    /\ UNCHANGED <<puts, handler>> /\ Configure

\* delete_destination
Delete(t) ==
    /\ handler = Idle /\ store[t] # None
    /\ store' = [store EXCEPT ![t] = None]
    /\ \/ saved' = [saved EXCEPT ![t] = None] /\ off' = off \union {t}
       \/ UNCHANGED <<saved, off>>
    /\ UNCHANGED <<puts, handler>> /\ Configure

-----------------------------------------------------------------------------
(* enqueue_event, which write_event calls for each event and the replay of *)
(* a delivery for the event of its row. An event of a workspace without a  *)
(* destination, or with one that is disabled, is not handed over.          *)

HandOver(t) ==
    /\ handler = Idle /\ given < MaxJobs
    /\ store[t].enabled
    /\ given' = given + 1
    /\ worker' = Started
    /\ handler' = Enqueueing(Job(given', t, 0, TRUE))
    /\ UNCHANGED <<store, saved, secrets, puts, queue, rows, lost, off>>

\* At the bound the oldest job makes room. That it was dropped may go
\* untold: enqueue passes over a delivery log that cannot be written.
Full_Never == FALSE
Full == Len(queue) >= MaxQueue

Room_Newest == IF Full THEN SubSeq(queue, 1, Len(queue) - 1) ELSE queue
Room == IF Full THEN Tail(queue) ELSE queue

Enqueue ==
    /\ handler.at = "enqueue"
    /\ queue' = Append(Room, handler.m)
    /\ IF Full
       THEN \/ rows' = Told(Head(queue).job, "dropped") /\ UNCHANGED lost
            \/ lost' = lost \union {Head(queue).job} /\ UNCHANGED rows
       ELSE UNCHANGED <<rows, lost>>
    /\ handler' = Idle
    /\ UNCHANGED <<store, saved, secrets, puts, worker, given, off>>

-----------------------------------------------------------------------------
(* The worker thread.                                                      *)

\* The first job that is due is taken off the queue; without a destination
\* nothing tells of it.
Take(i) ==
    /\ worker = Waiting
    /\ i \in DOMAIN queue /\ queue[i].due
    /\ \A k \in 1 .. i - 1 : ~queue[k].due
    /\ queue' = Without(i)
    /\ LET d == store[queue[i].tenant]
       IN  IF d.enabled
           THEN worker' = Looked(queue[i], d) /\ UNCHANGED lost
           ELSE lost' = lost \union {queue[i].job} /\ UNCHANGED worker
    /\ UNCHANGED <<store, saved, secrets, puts, handler, given, rows, off>>

\* _record_delivery, after which the worker waits for the next job. If the
\* log cannot be written the thread dies, before or after it has the row.
Record(j, status) ==
    \/ rows' = Told(j, status) /\ worker' \in {Waiting, NoThread} /\ UNCHANGED lost
    \/ lost' = lost \union {j} /\ worker' = NoThread /\ UNCHANGED rows

\* secret_for, and the POST leaves; after a restart there is no secret.
Sign ==
    /\ worker.at = "looked"
    /\ LET s == secrets[worker.m.tenant]
       IN  IF s = NoSecret
           THEN Record(worker.m.job, "failed")
           ELSE worker' = Posting(worker.m, worker.dest, s) /\ UNCHANGED <<rows, lost>>
    /\ UNCHANGED <<store, saved, secrets, puts, queue, handler, given, off>>

\* _update_status writes the record of the destination again, as it is now.
\* Mutant: ... as the worker saw it.
UpdateStatus_Seen(t, d) ==
    IF store[t] = None
    THEN UNCHANGED <<store, saved>>
    ELSE /\ store' = [store EXCEPT ![t] = d]
         /\ saved' = [saved EXCEPT ![t] = d]
UpdateStatus(t, d) ==
    IF store[t] = None
    THEN UNCHANGED <<store, saved>>
    ELSE saved' = [saved EXCEPT ![t] = store[t]] /\ UNCHANGED store

\* The sink answers, or the request times out. If the file cannot be written
\* the thread dies, whatever the answer.
Answer(ok) ==
    /\ worker.at = "posting"
    /\ \/ /\ UpdateStatus(worker.m.tenant, worker.dest)
          /\ worker' = Answered(worker.m, ok)
          /\ UNCHANGED lost
       \/ /\ store[worker.m.tenant] # None
          /\ worker' = NoThread
          /\ lost' = lost \union {worker.m.job}
          /\ UNCHANGED <<store, saved>>
    /\ UNCHANGED <<secrets, puts, queue, handler, given, rows, off>>

\* Mutant: a retry does not count as an attempt.
Attempts_NotCounted(m) == m.attempt
Attempts(m) == m.attempt + 1

\* The delivery is told of, or goes back to the queue until it is due: a
\* retry does not look at the bound.
Settle ==
    /\ worker.at = "answered"
    /\ LET m == worker.m
       IN  IF worker.ok \/ Attempts(m) >= MaxRetries
           THEN /\ Record(m.job, IF worker.ok THEN "delivered" ELSE "failed")
                /\ UNCHANGED queue
           ELSE /\ queue' = Append(queue, Job(m.job, m.tenant, Attempts(m), FALSE))
                /\ worker' = Waiting
                /\ UNCHANGED <<rows, lost>>
    /\ UNCHANGED <<store, saved, secrets, puts, handler, given, off>>

-----------------------------------------------------------------------------
(* The backoff of a job ends; the process stops anywhere and boots again.  *)

Elapse ==
    /\ \E i \in DOMAIN queue :
        ~queue[i].due /\ queue' = [queue EXCEPT ![i].due = TRUE]
    /\ UNCHANGED <<store, saved, secrets, puts, worker, handler, given, rows, lost, off>>

InQueue(j) == \E i \in DOMAIN queue : queue[i].job = j
InHand(j) == Busy /\ worker.m.job = j
Arriving(j) == handler.at = "enqueue" /\ handler.m.job = j

Restart ==
    /\ store' = saved
    /\ secrets' = [t \in Tenants |-> NoSecret]
    /\ queue' = << >> /\ worker' = NoThread /\ handler' = Idle
    /\ lost' = lost \union {j \in Jobs : InQueue(j) \/ InHand(j) \/ Arriving(j)}
    /\ UNCHANGED <<saved, puts, given, rows, off>>

Deliver ==
    \/ \E i \in 1 .. MaxQueue + 1 : Take(i)
    \/ Sign \/ \E ok \in BOOLEAN : Answer(ok)
    \/ Settle

Next ==
    \/ \E t \in Tenants :
        \/ Put(t) \/ Delete(t) \/ HandOver(t)
        \/ \E on \in BOOLEAN : SetEnabled(t, on)
    \/ Register \/ Enqueue
    \/ Deliver
    \/ Elapse \/ Restart

Spec == Init /\ [][Next]_vars /\ WF_vars(Deliver) /\ WF_vars(Elapse)

-----------------------------------------------------------------------------
Destinations == [secret : Secrets, enabled : BOOLEAN] \union {None}
JobRecords ==
    [job : Jobs, tenant : Tenants, attempt : 0 .. MaxRetries - 1, due : BOOLEAN]

\* Types: store, queue and the two threads have the shapes above; no job is
\* posted more than MaxRetries times; and what waits, with what the worker
\* holds, never exceeds the bound of the queue by more than one retry.
ForwarderTypeOK ==
    /\ store \in [Tenants -> Destinations] /\ saved \in [Tenants -> Destinations]
    /\ secrets \in [Tenants -> Secrets \union {NoSecret}] /\ puts \in 0 .. MaxPuts
    /\ queue \in Seq(JobRecords)
    /\ Len(queue) <= IF Busy THEN MaxQueue ELSE MaxQueue + 1
    /\ \/ worker \in {NoThread, Waiting}
       \/ worker \in [at : {"looked"}, m : JobRecords, dest : Destinations]
       \/ worker \in [at : {"posting"}, m : JobRecords, dest : Destinations, secret : Secrets]
       \/ worker \in [at : {"answered"}, m : JobRecords, ok : BOOLEAN]
    /\ \/ handler = Idle
       \/ handler \in [at : {"register"}, tenant : Tenants, secret : Secrets]
       \/ handler \in [at : {"enqueue"}, m : JobRecords]
    /\ given \in 0 .. MaxJobs
    /\ rows \in [Jobs -> Seq({"delivered", "failed", "dropped"})]
    /\ lost \subseteq Jobs /\ off \subseteq Tenants

\* Every job has exactly one fate: it waits once, or is in the hands of one
\* of the two threads, or the delivery log tells one outcome of it, or it was
\* lost in one of the ways the code has for that (a restart, a thread that
\* died with it, a destination gone when its turn came, a drop that could not
\* be told). Retries, overflow and a dying thread neither lose one silently
\* nor double it.
Fates(j) ==
    {<<"waits", i>> : i \in {k \in DOMAIN queue : queue[k].job = j}}
    \union {<<"told", i>> : i \in DOMAIN rows[j]}
    \union {f \in {"in hand", "arriving", "lost"} \X {0} :
              \/ f[1] = "in hand" /\ InHand(j)
              \/ f[1] = "arriving" /\ Arriving(j)
              \/ f[1] = "lost" /\ j \in lost}
ExactlyOneFate ==
    \A j \in 1 .. given : \E f \in Fates(j) : Fates(j) = {f}

\* Whenever no PUT is between its two halves, the secret the worker signs
\* with is that of the destination on record: neither a status written after
\* a slow POST nor a switch brings the record before a PUT back.
SecretMatchesDestination ==
    \A t \in Tenants :
        secrets[t] # NoSecret /\ store[t] # None
            => \/ secrets[t] = store[t].secret
               \/ handler.at = "register" /\ handler.tenant = t

\* A workspace whose administrator was told that forwarding is off stays off,
\* in memory and across restarts, until an administrator turns it on: no
\* delivery that was under way brings the destination back.
OffStaysOff ==
    \A t \in off : ~store[t].enabled /\ ~saved[t].enabled

\* A job that was queued leaves the queue and the hands of the worker, by an
\* outcome or a loss that ExactlyOneFate accounts for, if from some time on
\* the thread does not die: only the next event would start another.
Pending(j) == InQueue(j) \/ InHand(j)
EveryJobSettles ==
    \A j \in Jobs : <>[](worker # NoThread) => (Pending(j) ~> ~Pending(j))
=============================================================================
