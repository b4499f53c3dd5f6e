------------------------ MODULE AuditForwarderProofs ------------------------
(***************************************************************************)
(* The safety properties of AuditForwarder, for every set of workspaces,   *)
(* every bound of the queue, and any number of retries, secrets and events. *)
(***************************************************************************)
EXTENDS AuditForwarder, TLAPS

\* The outcomes the delivery log tells.
Outcomes == {"delivered", "failed", "dropped"}

\* How far the worker can have come.
Workers ==
    {NoThread, Waiting}
    \union [at : {"looked"}, m : JobRecords, dest : Destinations]
    \union [at : {"posting"}, m : JobRecords, dest : Destinations, secret : Secrets]
    \union [at : {"answered"}, m : JobRecords, ok : BOOLEAN]

\* What the event loop can be in the middle of.
Handlers ==
    {Idle}
    \union [at : {"register"}, tenant : Tenants, secret : Secrets]
    \union [at : {"enqueue"}, m : JobRecords]

\* The destinations, the queue and the log, in the shapes of ForwarderTypeOK.
StoreOK ==
    /\ store \in [Tenants -> Destinations] /\ saved \in [Tenants -> Destinations]
    /\ secrets \in [Tenants -> Secrets \union {NoSecret}] /\ puts \in 0 .. MaxPuts
    /\ off \subseteq Tenants
QueueOK ==
    /\ queue \in Seq(JobRecords)
    /\ Len(queue) <= IF Busy THEN MaxQueue ELSE MaxQueue + 1
LogOK ==
    /\ given \in 0 .. MaxJobs
    /\ rows \in [Jobs -> Seq(Outcomes)] /\ lost \subseteq Jobs

\* The type invariant in these parts.
LEMMA TypeParts ==
  ForwarderTypeOK
  <=> StoreOK /\ QueueOK /\ LogOK /\ worker \in Workers /\ handler \in Handlers
  BY DEF ForwarderTypeOK, StoreOK, QueueOK, LogOK, Workers, Handlers, Outcomes

\* ... and after a step.
LEMMA TypePartsNext ==
  StoreOK' /\ QueueOK' /\ LogOK' /\ worker' \in Workers /\ handler' \in Handlers
  => ForwarderTypeOK'
  BY DEF ForwarderTypeOK, StoreOK, QueueOK, LogOK, Workers, Handlers, Outcomes

(***************************************************************************)
(* Facts about sequences and jobs.                                         *)
(***************************************************************************)
\* Appending a job, dropping the first one, taking one out of the middle.
LEMMA QueueFacts ==
  ASSUME NEW S, NEW q \in Seq(S)
  PROVE  /\ \A e \in S : Append(q, e) \in Seq(S) /\ Len(Append(q, e)) = Len(q) + 1
         /\ Len(q) > 0 => /\ Head(q) \in S /\ Tail(q) \in Seq(S)
                          /\ Len(Tail(q)) = Len(q) - 1
                          /\ Head(q) = q[1]
         /\ \A i \in DOMAIN q : q[i] \in S
         /\ Len(q) \in Nat /\ DOMAIN q = 1 .. Len(q)
  OBVIOUS

\* What the sequence without its i-th element is.
LEMMA WithoutFacts ==
  ASSUME QueueOK, NEW i \in DOMAIN queue
  PROVE  /\ Without(i) \in Seq(JobRecords)
         /\ Len(Without(i)) = Len(queue) - 1
         /\ DOMAIN Without(i) = 1 .. Len(queue) - 1
         /\ \A k \in 1 .. Len(queue) - 1 :
               Without(i)[k] = IF k < i THEN queue[k] ELSE queue[k + 1]
<1> DEFINE n == Len(queue) - 1
<1>1. Len(queue) \in Nat /\ i \in 1 .. Len(queue) /\ n \in Nat
  BY DEF QueueOK
<1>2. \A k \in 1 .. n : k \in DOMAIN queue /\ k + 1 \in DOMAIN queue
  BY <1>1 DEF QueueOK
<1>3. \A k \in DOMAIN queue : queue[k] \in JobRecords
  BY DEF QueueOK
<1>4. Without(i) = [k \in 1 .. n |-> IF k < i THEN queue[k] ELSE queue[k + 1]]
  BY DEF Without
<1> HIDE DEF n
<1>5. Without(i) \in [1 .. n -> JobRecords]
  BY <1>2, <1>3, <1>4
<1>6. Without(i) \in Seq(JobRecords) /\ Len(Without(i)) = n
  BY <1>1, <1>5
<1> QED
  BY <1>4, <1>5, <1>6 DEF n

\* A job record, and what is done with one.
LEMMA JobTyped ==
  /\ \A j \in Jobs, t \in Tenants, a \in 0 .. MaxRetries - 1, due \in BOOLEAN :
        Job(j, t, a, due) \in JobRecords /\ Job(j, t, a, due).job = j
  /\ \A m \in JobRecords :
        /\ m.job \in Jobs /\ m.tenant \in Tenants
        /\ m.attempt \in 0 .. MaxRetries - 1 /\ m.due \in BOOLEAN
  BY DEF Job, JobRecords

\* What the worker and the event loop hold.
LEMMA HandsTyped ==
  ASSUME worker \in Workers, handler \in Handlers
  PROVE  /\ Busy <=> worker.at \in {"looked", "posting", "answered"}
         /\ Busy => worker.m \in JobRecords
         /\ worker.at \in {"looked", "posting"} => worker.dest \in Destinations
         /\ worker.at = "posting" => worker.secret \in Secrets
         /\ worker.at = "answered" => worker.ok \in BOOLEAN
         /\ handler.at = "enqueue" => handler.m \in JobRecords
         /\ handler.at = "register" => handler.tenant \in Tenants /\ handler.secret \in Secrets
  BY DEF Workers, Handlers, Busy, NoThread, Waiting, Idle

\* A thread that is started waits, or goes on.
LEMMA StartedTyped ==
  ASSUME worker \in Workers
  PROVE  /\ Started \in Workers
         /\ worker # NoThread => Started = worker
         /\ worker = NoThread => Started = Waiting
  BY DEF Started, Workers

\* A row more in the log.
LEMMA ToldTyped ==
  ASSUME LogOK, NEW j \in Jobs, NEW s \in Outcomes
  PROVE  Told(j, s) \in [Jobs -> Seq(Outcomes)]
<1>1. Append(rows[j], s) \in Seq(Outcomes)
  BY DEF LogOK
<1> QED
  BY <1>1 DEF Told, LogOK

(***************************************************************************)
(* Types.                                                                  *)
(***************************************************************************)
\* A destination in one of the states the handlers and the worker give it.
LEMMA DestinationTyped ==
  /\ None \in Destinations
  /\ \A s \in Secrets : Destination(s, TRUE) \in Destinations
  /\ \A d \in Destinations :
        /\ d.enabled \in BOOLEAN /\ d.secret \in Secrets \union {NoSecret}
        /\ d.enabled => d.secret \in Secrets
        /\ d # None => \A on \in BOOLEAN : [d EXCEPT !.enabled = on] \in Destinations
<1>1. None \in Destinations /\ \A s \in Secrets : Destination(s, TRUE) \in Destinations
  BY DEF Destinations, None, Destination
<1>2. /\ None.enabled = FALSE /\ None.secret = NoSecret
      /\ \A d \in Destinations \ {None} : d \in [secret : Secrets, enabled : BOOLEAN]
  BY DEF Destinations, None, Destination
<1>3. \A d \in [secret : Secrets, enabled : BOOLEAN] :
         /\ d.enabled \in BOOLEAN /\ d.secret \in Secrets
         /\ \A on \in BOOLEAN : [d EXCEPT !.enabled = on] \in Destinations
  BY DEF Destinations
<1> QED
  BY <1>1, <1>2, <1>3

\* The initial state has the types.
LEMMA TypeInit == Init => ForwarderTypeOK
<1> SUFFICES ASSUME Init PROVE ForwarderTypeOK
  OBVIOUS
<1>1. StoreOK
  BY DestinationTyped, ForwarderAssumption DEF Init, StoreOK
<1>2. QueueOK
  BY ForwarderAssumption DEF Init, QueueOK, Busy, NoThread
<1>3. LogOK
  BY ForwarderAssumption DEF Init, LogOK
<1> QED
  BY <1>1, <1>2, <1>3, TypeParts DEF Init, Workers, Handlers

\* An administrator's handler that leaves the worker alone.
LEMMA TypeAdmin ==
  ASSUME ForwarderTypeOK, NEW t \in Tenants,
         Put(t) \/ Delete(t) \/ \E on \in BOOLEAN : SetEnabled(t, on)
  PROVE  ForwarderTypeOK'
<1>1. StoreOK /\ QueueOK /\ LogOK /\ worker \in Workers /\ handler \in Handlers
  BY TypeParts
<1>2. QueueOK' /\ LogOK' /\ worker' \in Workers
  BY <1>1 DEF Put, Delete, SetEnabled, Configure, QueueOK, LogOK, Busy
<1>3. StoreOK' /\ handler' \in Handlers
  <2>1. CASE Put(t)
    <3>1. puts' \in Secrets /\ puts' \in 0 .. MaxPuts
      BY <2>1, <1>1, ForwarderAssumption DEF Put, StoreOK, Secrets
    <3>2. Destination(puts', TRUE) \in Destinations
      BY <3>1, DestinationTyped
    <3>3. StoreOK'
      BY <2>1, <1>1, <3>1, <3>2 DEF Put, StoreOK, Configure
    <3> QED
      BY <2>1, <3>1, <3>3 DEF Put, Handlers, Registering
  <2>2. CASE Delete(t)
    BY <2>2, <1>1, DestinationTyped DEF Delete, StoreOK, Configure
  <2>3. ASSUME NEW on \in BOOLEAN, SetEnabled(t, on)
        PROVE  StoreOK' /\ handler' \in Handlers
    <3>1. store'[t] \in Destinations /\ store' \in [Tenants -> Destinations]
      BY <2>3, <1>1, DestinationTyped DEF SetEnabled, StoreOK
    <3> QED
      BY <2>3, <3>1, <1>1 DEF SetEnabled, StoreOK, Configure
  <2> QED
    BY <2>1, <2>2, <2>3
<1> QED
  BY <1>2, <1>3, TypePartsNext

\* The second half of a PUT.
LEMMA TypeRegister == ForwarderTypeOK /\ Register => ForwarderTypeOK'
<1> SUFFICES ASSUME ForwarderTypeOK, Register PROVE ForwarderTypeOK'
  OBVIOUS
<1>1. StoreOK /\ QueueOK /\ LogOK /\ worker \in Workers /\ handler \in Handlers
  BY TypeParts
<1>2. worker' \in Workers /\ (Busy' <=> Busy)
  BY <1>1, StartedTyped DEF Register, Busy, NoThread, Waiting
<1>3. StoreOK'
  BY <1>1, HandsTyped DEF Register, StoreOK
<1>4. QueueOK' /\ LogOK' /\ handler' \in Handlers
  BY <1>1, <1>2 DEF Register, QueueOK, LogOK, Handlers
<1> QED
  BY <1>2, <1>3, <1>4, TypePartsNext

\* An event is handed over.
LEMMA TypeHandOver ==
  ASSUME ForwarderTypeOK, NEW t \in Tenants, HandOver(t)
  PROVE  ForwarderTypeOK'
<1>1. StoreOK /\ QueueOK /\ LogOK /\ worker \in Workers /\ handler \in Handlers
  BY TypeParts
<1>2. worker' \in Workers /\ (Busy' <=> Busy)
  BY <1>1, StartedTyped DEF HandOver, Busy, NoThread, Waiting
<1>3. given' \in Jobs /\ given' \in 0 .. MaxJobs /\ 0 \in 0 .. MaxRetries - 1
  BY <1>1, ForwarderAssumption DEF HandOver, LogOK, Jobs
<1>4. handler' \in Handlers
  BY <1>3, JobTyped DEF HandOver, Handlers, Enqueueing
<1>5. StoreOK' /\ QueueOK' /\ LogOK'
  BY <1>1, <1>2, <1>3 DEF HandOver, StoreOK, QueueOK, LogOK
<1> QED
  BY <1>2, <1>4, <1>5, TypePartsNext

\* ... and queued, the oldest job making room.
LEMMA TypeEnqueue == ForwarderTypeOK /\ Enqueue => ForwarderTypeOK'
<1> SUFFICES ASSUME ForwarderTypeOK, Enqueue PROVE ForwarderTypeOK'
  OBVIOUS
<1>1. StoreOK /\ QueueOK /\ LogOK /\ worker \in Workers /\ handler \in Handlers
  BY TypeParts
<1>2. handler.m \in JobRecords
  BY <1>1, HandsTyped DEF Enqueue
<1>3. QueueOK'
  <2>1. /\ Room \in Seq(JobRecords)
        /\ Len(Room) = IF Full THEN Len(queue) - 1 ELSE Len(queue)
    BY <1>1, QueueFacts, ForwarderAssumption DEF Room, Full, QueueOK
  <2>2. queue' \in Seq(JobRecords) /\ Len(queue') = Len(Room) + 1
    BY <1>2, <2>1, QueueFacts DEF Enqueue
  <2>3. Busy' <=> Busy
    BY DEF Enqueue, Busy
  <2> QED
    BY <1>1, <2>1, <2>2, <2>3, ForwarderAssumption DEF QueueOK, Full
<1>4. LogOK'
  <2>1. CASE Full
    <3>1. Head(queue).job \in Jobs
      BY <1>1, <2>1, QueueFacts, JobTyped, ForwarderAssumption DEF Full, QueueOK
    <3>2. Told(Head(queue).job, "dropped") \in [Jobs -> Seq(Outcomes)]
      BY <1>1, <3>1, ToldTyped DEF Outcomes
    <3> QED
      BY <1>1, <2>1, <3>1, <3>2 DEF Enqueue, LogOK
  <2>2. CASE ~Full
    BY <1>1, <2>2 DEF Enqueue, LogOK
  <2> QED
    BY <2>1, <2>2
<1>5. StoreOK' /\ worker' \in Workers /\ handler' \in Handlers
  BY <1>1 DEF Enqueue, StoreOK, Handlers
<1> QED
  BY <1>3, <1>4, <1>5, TypePartsNext

\* The worker takes a job.
LEMMA TypeTake ==
  ASSUME ForwarderTypeOK, NEW i, Take(i)
  PROVE  ForwarderTypeOK'
<1>1. StoreOK /\ QueueOK /\ LogOK /\ worker \in Workers /\ handler \in Handlers
  BY TypeParts
<1>2. /\ i \in DOMAIN queue /\ queue[i] \in JobRecords
      /\ queue[i].job \in Jobs /\ store[queue[i].tenant] \in Destinations
  BY <1>1, JobTyped DEF Take, QueueOK, StoreOK
<1>3. queue' \in Seq(JobRecords) /\ Len(queue') = Len(queue) - 1 /\ Len(queue) \in Nat
  BY <1>1, <1>2, WithoutFacts DEF Take, QueueOK
<1>4. worker' \in Workers
  BY <1>1, <1>2 DEF Take, Workers, Looked
<1>5. QueueOK'
  BY <1>1, <1>3, ForwarderAssumption DEF QueueOK, Take, Busy, Waiting
<1>6. LogOK'
  BY <1>1, <1>2 DEF Take, LogOK
<1>7. StoreOK' /\ handler' \in Handlers
  BY <1>1 DEF Take, StoreOK
<1> QED
  BY <1>4, <1>5, <1>6, <1>7, TypePartsNext

\* A row is written, or not, and the worker waits, or dies.
LEMMA RecordTyped ==
  ASSUME LogOK, NEW j \in Jobs, NEW s \in Outcomes, Record(j, s), given' = given
  PROVE  LogOK' /\ worker' \in {Waiting, NoThread} /\ worker' \in Workers /\ ~Busy'
<1>1. LogOK'
  BY ToldTyped DEF LogOK, Record
<1>2. worker' \in {Waiting, NoThread}
  BY DEF Record
<1> QED
  BY <1>1, <1>2 DEF Workers, Busy, Waiting, NoThread

\* It signs and posts.
LEMMA TypeSign == ForwarderTypeOK /\ Sign => ForwarderTypeOK'
<1> SUFFICES ASSUME ForwarderTypeOK, Sign PROVE ForwarderTypeOK'
  OBVIOUS
<1>1. StoreOK /\ QueueOK /\ LogOK /\ worker \in Workers /\ handler \in Handlers
  BY TypeParts
<1> DEFINE sec == secrets[worker.m.tenant]
<1>2. /\ Busy /\ worker.m \in JobRecords /\ worker.m.job \in Jobs
      /\ worker.dest \in Destinations /\ sec \in Secrets \union {NoSecret}
  BY <1>1, HandsTyped, JobTyped DEF Sign, StoreOK
<1>3. LogOK' /\ worker' \in Workers
  <2>1. CASE sec = NoSecret
    <3>1. Record(worker.m.job, "failed") /\ given' = given
      BY <2>1 DEF Sign
    <3> QED
      BY <1>1, <1>2, <3>1, RecordTyped DEF Outcomes
  <2>2. CASE sec # NoSecret
    <3>1. worker' = Posting(worker.m, worker.dest, sec) /\ UNCHANGED <<rows, lost, given>>
      BY <2>2 DEF Sign
    <3> QED
      BY <1>1, <1>2, <2>2, <3>1 DEF Posting, Workers, LogOK
  <2> QED
    BY <2>1, <2>2
<1>4. QueueOK' /\ StoreOK' /\ handler' \in Handlers
  BY <1>1, <1>2, ForwarderAssumption DEF Sign, QueueOK, StoreOK
<1> QED
  BY <1>3, <1>4, TypePartsNext

\* The sink answers.
LEMMA TypeAnswer ==
  ASSUME ForwarderTypeOK, NEW ok \in BOOLEAN, Answer(ok)
  PROVE  ForwarderTypeOK'
<1>1. StoreOK /\ QueueOK /\ LogOK /\ worker \in Workers /\ handler \in Handlers
  BY TypeParts
<1>2. /\ Busy /\ worker.m \in JobRecords /\ worker.m.job \in Jobs
      /\ worker.m.tenant \in Tenants
  BY <1>1, HandsTyped, JobTyped DEF Answer
<1>3. worker' \in {Answered(worker.m, ok), NoThread} /\ worker' \in Workers
  BY <1>2 DEF Answer, Workers, Answered
<1>4. StoreOK'
  BY <1>1, <1>2 DEF Answer, StoreOK, UpdateStatus
<1>5. LogOK'
  BY <1>1, <1>2 DEF Answer, LogOK
<1>6. QueueOK' /\ handler' \in Handlers
  BY <1>1, <1>2, ForwarderAssumption DEF Answer, QueueOK
<1> QED
  BY <1>3, <1>4, <1>5, <1>6, TypePartsNext

\* The delivery is told of, or tried again.
LEMMA TypeSettle == ForwarderTypeOK /\ Settle => ForwarderTypeOK'
<1> SUFFICES ASSUME ForwarderTypeOK, Settle PROVE ForwarderTypeOK'
  OBVIOUS
<1>1. StoreOK /\ QueueOK /\ LogOK /\ worker \in Workers /\ handler \in Handlers
  BY TypeParts
<1>2. /\ Busy /\ worker.m \in JobRecords /\ worker.m.job \in Jobs
      /\ worker.m.tenant \in Tenants /\ worker.m.attempt \in 0 .. MaxRetries - 1
  BY <1>1, HandsTyped, JobTyped DEF Settle
<1>3. StoreOK' /\ handler' \in Handlers
  BY <1>1 DEF Settle, StoreOK
<1>4. QueueOK' /\ LogOK' /\ worker' \in Workers
  <2>1. CASE worker.ok \/ Attempts(worker.m) >= MaxRetries
    <3>1. /\ Record(worker.m.job, IF worker.ok THEN "delivered" ELSE "failed")
          /\ UNCHANGED <<given, queue>>
      BY <2>1 DEF Settle
    <3>2. LogOK' /\ worker' \in Workers /\ ~Busy'
      BY <1>1, <1>2, <3>1, RecordTyped DEF Outcomes
    <3> QED
      BY <1>1, <1>2, <3>1, <3>2, ForwarderAssumption DEF QueueOK
  <2>2. CASE ~(worker.ok \/ Attempts(worker.m) >= MaxRetries)
    <3>1. Attempts(worker.m) \in 0 .. MaxRetries - 1
      BY <1>2, <2>2, ForwarderAssumption DEF Attempts
    <3>2. Job(worker.m.job, worker.m.tenant, Attempts(worker.m), FALSE) \in JobRecords
      BY <1>2, <3>1, JobTyped
    <3>3. queue' = Append(queue, Job(worker.m.job, worker.m.tenant, Attempts(worker.m), FALSE))
      BY <2>2 DEF Settle
    <3>5. queue' \in Seq(JobRecords) /\ Len(queue') = Len(queue) + 1
      BY <1>1, <3>2, <3>3, QueueFacts DEF QueueOK
    <3>4. worker' = Waiting /\ LogOK'
      BY <1>1, <2>2 DEF Settle, LogOK
    <3> QED
      BY <1>1, <1>2, <3>5, <3>4, ForwarderAssumption DEF QueueOK, Workers, Busy, Waiting
  <2> QED
    BY <2>1, <2>2
<1> QED
  BY <1>3, <1>4, TypePartsNext

\* A backoff ends.
LEMMA TypeElapse == ForwarderTypeOK /\ Elapse => ForwarderTypeOK'
<1> SUFFICES ASSUME ForwarderTypeOK, Elapse PROVE ForwarderTypeOK'
  OBVIOUS
<1>1. StoreOK /\ QueueOK /\ LogOK /\ worker \in Workers /\ handler \in Handlers
  BY TypeParts
<1>2. queue' \in Seq(JobRecords) /\ Len(queue') = Len(queue)
  <2>1. PICK i \in DOMAIN queue : queue' = [queue EXCEPT ![i].due = TRUE]
    BY DEF Elapse
  <2>2. queue[i] \in JobRecords
    BY <1>1 DEF QueueOK
  <2>3. [queue[i] EXCEPT !.due = TRUE] \in JobRecords
    BY <2>2 DEF JobRecords
  <2> QED
    BY <1>1, <2>1, <2>3 DEF QueueOK
<1>3. QueueOK' /\ StoreOK' /\ LogOK' /\ worker' \in Workers /\ handler' \in Handlers
  BY <1>1, <1>2 DEF Elapse, QueueOK, StoreOK, LogOK, Busy
<1> QED
  BY <1>3, TypePartsNext

\* The process boots again.
LEMMA TypeRestart == ForwarderTypeOK /\ Restart => ForwarderTypeOK'
<1> SUFFICES ASSUME ForwarderTypeOK, Restart PROVE ForwarderTypeOK'
  OBVIOUS
<1>1. StoreOK /\ LogOK
  BY TypeParts
<1>2. StoreOK' /\ LogOK'
  BY <1>1 DEF Restart, StoreOK, LogOK
<1>3. QueueOK' /\ worker' \in Workers /\ handler' \in Handlers
  BY ForwarderAssumption DEF Restart, QueueOK, Busy, NoThread, Workers, Handlers
<1> QED
  BY <1>2, <1>3, TypePartsNext

\* Every step keeps the types.
LEMMA TypeStep == ForwarderTypeOK /\ [Next]_vars => ForwarderTypeOK'
<1> SUFFICES ASSUME ForwarderTypeOK, [Next]_vars PROVE ForwarderTypeOK'
  OBVIOUS
<1>1. ASSUME Deliver PROVE ForwarderTypeOK'
  BY <1>1, TypeTake, TypeSign, TypeAnswer, TypeSettle DEF Deliver
<1>2. CASE UNCHANGED vars
  BY <1>2 DEF vars, ForwarderTypeOK, Busy
<1> QED
  BY <1>1, <1>2, TypeAdmin, TypeHandOver, TypeRegister, TypeEnqueue, TypeElapse, TypeRestart
     DEF Next

\* The forwarder keeps its shape: no job is posted more than MaxRetries times,
\* and the queue never exceeds its bound by more than one retry.
THEOREM TypeCorrect == Spec => []ForwarderTypeOK
  BY TypeInit, TypeStep, PTL DEF Spec

(***************************************************************************)
(* What the worker writes never undoes what an administrator did.          *)
(***************************************************************************)
\* The worker changes no destination: at most it saves the one on record.
LEMMA WorkerWrites ==
  ASSUME ForwarderTypeOK, Deliver
  PROVE  /\ store' = store /\ secrets' = secrets /\ off' = off /\ handler' = handler
         /\ \A t \in Tenants : saved'[t] \in {saved[t], store[t]}
<1>1. saved \in [Tenants -> Destinations] /\ store \in [Tenants -> Destinations]
  BY DEF ForwarderTypeOK
<1>2. ASSUME NEW i, Take(i)
      PROVE  UNCHANGED <<store, saved, secrets, off, handler>>
  BY <1>2 DEF Take
<1>3. CASE Sign
  BY <1>3 DEF Sign
<1>4. CASE Settle
  BY <1>4 DEF Settle
<1>5. ASSUME NEW ok \in BOOLEAN, Answer(ok)
      PROVE  /\ UNCHANGED <<store, secrets, off, handler>>
             /\ \A t \in Tenants : saved'[t] \in {saved[t], store[t]}
  BY <1>1, <1>5 DEF Answer, UpdateStatus
<1> QED
  BY <1>2, <1>3, <1>4, <1>5 DEF Deliver

\* Off stays off over every step.
LEMMA OffStep == ForwarderTypeOK /\ OffStaysOff /\ [Next]_vars => OffStaysOff'
<1> SUFFICES ASSUME ForwarderTypeOK, OffStaysOff, [Next]_vars, NEW u \in off'
             PROVE  ~store'[u].enabled /\ ~saved'[u].enabled
  BY DEF OffStaysOff
<1>1. /\ off \subseteq Tenants
      /\ store \in [Tenants -> Destinations] /\ saved \in [Tenants -> Destinations]
  BY DEF ForwarderTypeOK
<1>2. ASSUME NEW t \in Tenants, Put(t) PROVE ~store'[u].enabled /\ ~saved'[u].enabled
  <2>1. u \in off /\ u # t
    BY <1>2 DEF Put
  <2> QED
    BY <1>1, <1>2, <2>1 DEF Put, OffStaysOff
<1>3. ASSUME NEW t \in Tenants, Delete(t) PROVE ~store'[u].enabled /\ ~saved'[u].enabled
  BY <1>1, <1>3 DEF Delete, OffStaysOff, None, Destination
<1>4. ASSUME NEW t \in Tenants, NEW on \in BOOLEAN, SetEnabled(t, on)
      PROVE  ~store'[u].enabled /\ ~saved'[u].enabled
  <2>1. store'[t].enabled = on /\ saved'[t] = store'[t]
    BY <1>1, <1>4, DestinationTyped DEF SetEnabled, Destinations, None, Destination
  <2>2. \A w \in Tenants \ {t} : store'[w] = store[w] /\ saved'[w] = saved[w]
    BY <1>1, <1>4 DEF SetEnabled
  <2>3. u = t => ~on
    BY <1>4 DEF SetEnabled
  <2>4. u # t => u \in off
    BY <1>4 DEF SetEnabled
  <2> QED
    BY <1>1, <2>1, <2>2, <2>3, <2>4 DEF OffStaysOff
<1>5. ASSUME Register \/ Enqueue \/ Elapse \/ UNCHANGED vars \/ \E t \in Tenants : HandOver(t)
      PROVE  ~store'[u].enabled /\ ~saved'[u].enabled
  BY <1>5 DEF Register, Enqueue, Elapse, HandOver, vars, OffStaysOff
<1>6. CASE Deliver
  BY <1>1, <1>6, WorkerWrites DEF OffStaysOff
<1>7. CASE Restart
  BY <1>7 DEF Restart, OffStaysOff
<1> QED
  BY <1>2, <1>3, <1>4, <1>5, <1>6, <1>7 DEF Next

\* A workspace that was turned off, or deleted, stays off in memory and on
\* disk until an administrator turns it on: neither a delivery that was under
\* way (_update_status) nor a restart (_load_locked) brings it back.
THEOREM OffCorrect == Spec => []OffStaysOff
<1>1. Init => OffStaysOff
  BY DEF Init, OffStaysOff
<1> QED
  BY <1>1, OffStep, TypeCorrect, PTL DEF Spec

\* The secret that is about to be registered is that of the destination.
SecretInv ==
  /\ SecretMatchesDestination
  /\ handler.at = "register" => store[handler.tenant].secret = handler.secret

\* It is preserved.
LEMMA SecretStep == ForwarderTypeOK /\ SecretInv /\ [Next]_vars => SecretInv'
<1> SUFFICES ASSUME ForwarderTypeOK, SecretInv, [Next]_vars PROVE SecretInv'
  OBVIOUS
<1>1. /\ store \in [Tenants -> Destinations] /\ saved \in [Tenants -> Destinations]
      /\ secrets \in [Tenants -> Secrets \union {NoSecret}]
  BY DEF ForwarderTypeOK
<1>2. Idle.at # "register"
  BY DEF Idle
<1>3. ASSUME NEW t \in Tenants, Put(t) PROVE SecretInv'
  <2>1. /\ handler' = Registering(t, puts')
        /\ store' = [store EXCEPT ![t] = Destination(puts', TRUE)]
        /\ secrets' = secrets /\ handler.at # "register"
    BY <1>2, <1>3 DEF Put, Configure
  <2>2. store'[t].secret = puts' /\ \A u \in Tenants \ {t} : store'[u] = store[u]
    BY <1>1, <2>1 DEF Destination
  <2>3. handler'.at = "register" /\ handler'.tenant = t /\ handler'.secret = puts'
    BY <2>1 DEF Registering
  <2> QED
    BY <2>1, <2>2, <2>3 DEF SecretInv, SecretMatchesDestination
<1>4. ASSUME NEW t \in Tenants, Delete(t) PROVE SecretInv'
  <2>1. /\ secrets' = secrets /\ handler' = Idle /\ handler = Idle
        /\ store' = [store EXCEPT ![t] = None]
    BY <1>4 DEF Delete, Configure
  <2> QED
    BY <1>1, <1>2, <2>1 DEF SecretInv, SecretMatchesDestination
<1>5. ASSUME NEW t \in Tenants, NEW on \in BOOLEAN, SetEnabled(t, on) PROVE SecretInv'
  <2>1. /\ secrets' = secrets /\ handler' = Idle /\ handler = Idle
        /\ store[t] # None
        /\ \A u \in Tenants \ {t} : store'[u] = store[u]
    BY <1>1, <1>5 DEF SetEnabled, Configure
  <2>2. store'[t].secret = store[t].secret
    BY <1>1, <1>5 DEF SetEnabled, Destinations, None, Destination
  <2> QED
    BY <1>1, <1>2, <2>1, <2>2 DEF SecretInv, SecretMatchesDestination
<1>6. CASE Register
  <2>1. /\ secrets' = [secrets EXCEPT ![handler.tenant] = handler.secret]
        /\ store' = store /\ handler' = Idle /\ handler.at = "register"
    BY <1>6 DEF Register
  <2> QED
    BY <1>1, <1>2, <2>1 DEF SecretInv, SecretMatchesDestination
<1>7. ASSUME NEW t \in Tenants, HandOver(t) PROVE SecretInv'
  <2>1. /\ secrets' = secrets /\ store' = store /\ handler = Idle
        /\ handler'.at = "enqueue"
    BY <1>7 DEF HandOver, Enqueueing
  <2> QED
    BY <1>2, <2>1 DEF SecretInv, SecretMatchesDestination
<1>8. CASE Enqueue
  <2>1. /\ secrets' = secrets /\ store' = store
        /\ handler.at = "enqueue" /\ handler' = Idle
    BY <1>8 DEF Enqueue
  <2> QED
    BY <1>2, <2>1 DEF SecretInv, SecretMatchesDestination
<1>9. CASE Deliver
  BY <1>9, WorkerWrites DEF SecretInv, SecretMatchesDestination
<1>10. CASE Elapse \/ UNCHANGED vars
  BY <1>10 DEF Elapse, vars, SecretInv, SecretMatchesDestination
<1>11. CASE Restart
  <2>1. handler' = Idle /\ \A t \in Tenants : secrets'[t] = NoSecret
    BY <1>11 DEF Restart
  <2> QED
    BY <1>2, <2>1 DEF SecretInv, SecretMatchesDestination
<1> QED
  BY <1>3, <1>4, <1>5, <1>6, <1>7, <1>8, <1>9, <1>10, <1>11 DEF Next

\* Whenever no PUT is between its two halves, the worker signs with the secret
\* of the destination on record, if it knows one at all.
THEOREM SecretCorrect == Spec => []SecretMatchesDestination
<1>1. Init => SecretInv
  BY DEF Init, SecretInv, SecretMatchesDestination, Idle
<1>2. SecretInv => SecretMatchesDestination
  BY DEF SecretInv
<1> QED
  BY <1>1, <1>2, SecretStep, TypeCorrect, PTL DEF Spec

(***************************************************************************)
(* Every job has exactly one fate.                                         *)
(***************************************************************************)
\* The jobs at each place, and that those places have no job in common and
\* hold the jobs that were made.
JobsIn(q) == {q[k].job : k \in DOMAIN q}
InHands == IF Busy THEN {worker.m.job} ELSE {}
ArrivingJobs == IF handler.at = "enqueue" THEN {handler.m.job} ELSE {}
ToldJobs == {j \in Jobs : rows[j] # << >>}
Apart(W, H, A, T, L) ==
  /\ W \intersect H = {} /\ W \intersect A = {} /\ W \intersect T = {} /\ W \intersect L = {}
  /\ H \intersect A = {} /\ H \intersect T = {} /\ H \intersect L = {}
  /\ A \intersect T = {} /\ A \intersect L = {} /\ T \intersect L = {}
Distinct(q) == \A i, k \in DOMAIN q : q[i].job = q[k].job => i = k

\* No job waits twice or is told of twice, and each is at one place.
FateInv ==
  /\ Distinct(queue)
  /\ \A j \in Jobs : Len(rows[j]) <= 1
  /\ Apart(JobsIn(queue), InHands, ArrivingJobs, ToldJobs, lost)
  /\ JobsIn(queue) \union InHands \union ArrivingJobs \union ToldJobs \union lost = 1 .. given

\* A job that is appended to a queue.
LEMMA AppendJobs ==
  ASSUME NEW q \in Seq(JobRecords), NEW m \in JobRecords
  PROVE  /\ JobsIn(Append(q, m)) = JobsIn(q) \union {m.job}
         /\ Distinct(q) /\ m.job \notin JobsIn(q) => Distinct(Append(q, m))
<1> DEFINE a == Append(q, m)
<1>1. /\ DOMAIN q = 1 .. Len(q) /\ DOMAIN a = 1 .. Len(q) + 1 /\ Len(q) \in Nat
      /\ \A k \in 1 .. Len(q) : a[k] = q[k]
      /\ a[Len(q) + 1] = m
  OBVIOUS
<1> HIDE DEF a
<1>2. JobsIn(a) = JobsIn(q) \union {m.job}
  BY <1>1 DEF JobsIn
<1>3. ASSUME Distinct(q), m.job \notin JobsIn(q), NEW i \in DOMAIN a, NEW k \in DOMAIN a,
             a[i].job = a[k].job
      PROVE  i = k
  <2>1. CASE i \in 1 .. Len(q) /\ k \in 1 .. Len(q)
    BY <1>1, <1>3, <2>1 DEF Distinct
  <2>2. \A x \in 1 .. Len(q) : q[x].job # m.job
    BY <1>1, <1>3 DEF JobsIn
  <2> QED
    BY <1>1, <1>3, <2>1, <2>2
<1> QED
  BY <1>2, <1>3 DEF Distinct, a

\* A job that is taken out of a queue: what is left is the queue without it.
LEMMA RemoveJobs ==
  ASSUME NEW q \in Seq(JobRecords), Distinct(q), NEW i \in DOMAIN q,
         NEW r \in Seq(JobRecords), Len(r) = Len(q) - 1,
         \A k \in 1 .. Len(q) - 1 : r[k] = IF k < i THEN q[k] ELSE q[k + 1]
  PROVE  Distinct(r) /\ JobsIn(r) = JobsIn(q) \ {q[i].job}
<1>1. /\ DOMAIN q = 1 .. Len(q) /\ DOMAIN r = 1 .. Len(q) - 1 /\ Len(q) \in Nat
      /\ i \in 1 .. Len(q)
  OBVIOUS
<1>2. Distinct(r)
  <2> SUFFICES ASSUME NEW j \in DOMAIN r, NEW k \in DOMAIN r, r[j].job = r[k].job
               PROVE  j = k
    BY DEF Distinct
  <2> DEFINE old(x) == IF x < i THEN x ELSE x + 1
  <2>1. old(j) \in DOMAIN q /\ old(k) \in DOMAIN q /\ r[j] = q[old(j)] /\ r[k] = q[old(k)]
    BY <1>1
  <2>2. old(j) = old(k)
    BY <2>1 DEF Distinct
  <2> QED
    BY <1>1, <2>2
<1>3. JobsIn(r) \subseteq JobsIn(q) \ {q[i].job}
  <2> SUFFICES ASSUME NEW k \in DOMAIN r PROVE r[k].job \in JobsIn(q) \ {q[i].job}
    BY DEF JobsIn
  <2> DEFINE old == IF k < i THEN k ELSE k + 1
  <2>1. old \in DOMAIN q /\ old # i /\ r[k] = q[old]
    BY <1>1
  <2> QED
    BY <2>1 DEF Distinct, JobsIn
<1>4. JobsIn(q) \ {q[i].job} \subseteq JobsIn(r)
  <2> SUFFICES ASSUME NEW k \in DOMAIN q, k # i PROVE q[k].job \in JobsIn(r)
    BY DEF JobsIn
  <2> DEFINE new == IF k < i THEN k ELSE k - 1
  <2>1. new \in DOMAIN r /\ r[new] = q[k]
    BY <1>1
  <2> QED
    BY <2>1 DEF JobsIn
<1> QED
  BY <1>2, <1>3, <1>4

\* ... the first one.
LEMMA HeadJobs ==
  ASSUME NEW q \in Seq(JobRecords), Distinct(q), Len(q) > 0
  PROVE  /\ Tail(q) \in Seq(JobRecords) /\ Distinct(Tail(q))
         /\ JobsIn(Tail(q)) = JobsIn(q) \ {Head(q).job}
         /\ Head(q).job \in Jobs /\ Head(q).job \in JobsIn(q)
<1>1. /\ Len(q) \in Nat /\ 1 \in DOMAIN q /\ Head(q) = q[1] /\ q[1] \in JobRecords
      /\ Tail(q) \in Seq(JobRecords) /\ Len(Tail(q)) = Len(q) - 1
  OBVIOUS
<1>2. \A k \in 1 .. Len(q) - 1 : Tail(q)[k] = q[k + 1] /\ ~(k < 1)
  OBVIOUS
<1>3. \A k \in 1 .. Len(q) - 1 : Tail(q)[k] = IF k < 1 THEN q[k] ELSE q[k + 1]
  BY <1>2
<1> DEFINE t == Tail(q)
           first == 1
<1>4. /\ t \in Seq(JobRecords) /\ Len(t) = Len(q) - 1 /\ first \in DOMAIN q
      /\ \A k \in 1 .. Len(q) - 1 : t[k] = IF k < first THEN q[k] ELSE q[k + 1]
  BY <1>1, <1>3
<1> HIDE DEF t, first
<1>5. Distinct(t) /\ JobsIn(t) = JobsIn(q) \ {q[first].job}
  BY <1>4, RemoveJobs
<1>6. q[1].job \in Jobs /\ q[1].job \in JobsIn(q)
  BY <1>1, JobTyped DEF JobsIn
<1> QED
  BY <1>1, <1>5, <1>6 DEF t, first

\* A row is told of a job that had none.
LEMMA ToldJobsMore ==
  ASSUME LogOK, NEW j \in Jobs, j \notin ToldJobs, NEW s \in Outcomes,
         \A k \in Jobs : Len(rows[k]) <= 1, rows' = Told(j, s)
  PROVE  ToldJobs' = ToldJobs \union {j} /\ \A k \in Jobs : Len(rows'[k]) <= 1
<1>1. rows' = [rows EXCEPT ![j] = Append(rows[j], s)] /\ rows \in [Jobs -> Seq(Outcomes)]
  BY DEF Told, LogOK
<1>2. rows[j] = << >>
  BY DEF ToldJobs
<1>3. rows'[j] = <<s>> /\ rows'[j] # << >>
  BY <1>1, <1>2
<1>4. Len(rows'[j]) <= 1
  BY <1>3
<1>5. \A k \in Jobs \ {j} : rows'[k] = rows[k]
  BY <1>1
<1>6. \A k \in Jobs : rows'[k] # << >> <=> k = j \/ rows[k] # << >>
  BY <1>3, <1>5
<1>7. ToldJobs' = ToldJobs \union {j}
  <2>1. \A k : k \in ToldJobs' <=> k \in Jobs /\ rows'[k] # << >>
    BY DEF ToldJobs
  <2>2. \A k : k \in ToldJobs <=> k \in Jobs /\ rows[k] # << >>
    BY DEF ToldJobs
  <2> QED
    BY <1>6, <2>1, <2>2
<1>8. \A k \in Jobs : Len(rows'[k]) <= 1
  BY <1>5, <1>4
<1> QED
  BY <1>7, <1>8

\* The record of the job in hand, or the death of the thread with it.
LEMMA RecordMoves ==
  ASSUME ForwarderTypeOK, FateInv, Busy, NEW s \in Outcomes, Record(worker.m.job, s),
         UNCHANGED <<queue, handler, given>>
  PROVE  FateInv'
<1>1. LogOK /\ worker \in Workers /\ handler \in Handlers
  BY TypeParts
<1>2. worker.m.job \in Jobs /\ InHands = {worker.m.job}
  BY <1>1, HandsTyped, JobTyped DEF InHands
<1>3. worker.m.job \notin ToldJobs
  BY <1>2 DEF FateInv, Apart
<1>4. InHands' = {}
  BY <1>1, <1>2, RecordTyped DEF InHands
<1>5. /\ \A j \in Jobs : Len(rows'[j]) <= 1
      /\ \/ ToldJobs' = ToldJobs \union {worker.m.job} /\ lost' = lost
         \/ ToldJobs' = ToldJobs /\ lost' = lost \union {worker.m.job}
  <2>1. CASE rows' = Told(worker.m.job, s) /\ lost' = lost
    BY <1>1, <1>2, <1>3, <2>1, ToldJobsMore DEF FateInv
  <2>2. CASE rows' = rows /\ lost' = lost \union {worker.m.job}
    BY <2>2 DEF ToldJobs, FateInv
  <2> QED
    BY <2>1, <2>2 DEF Record
<1>6. JobsIn(queue)' = JobsIn(queue) /\ ArrivingJobs' = ArrivingJobs /\ Distinct(queue)'
  BY DEF JobsIn, ArrivingJobs, FateInv, Distinct
<1> QED
  BY <1>2, <1>4, <1>5, <1>6 DEF FateInv, Apart

\* Handlers that touch no job.
LEMMA FateUntouched ==
  ASSUME ForwarderTypeOK, FateInv, UNCHANGED <<rows, lost, given>>,
         JobsIn(queue)' = JobsIn(queue), Distinct(queue)',
         InHands' = InHands, ArrivingJobs' = ArrivingJobs
  PROVE  FateInv'
<1>1. ToldJobs' = ToldJobs
  BY DEF ToldJobs
<1> QED
  BY <1>1 DEF FateInv, Apart

\* An administrator's handlers.
LEMMA FateAdmin ==
  ASSUME ForwarderTypeOK, FateInv,
         \/ Register
         \/ \E t \in Tenants : Put(t) \/ Delete(t) \/ \E on \in BOOLEAN : SetEnabled(t, on)
  PROVE  FateInv'
<1>1. worker \in Workers
  BY TypeParts
<1>2. UNCHANGED <<rows, lost, given, queue>> /\ worker' \in {worker, Started}
  BY DEF Register, Put, Delete, SetEnabled, Configure
<1>3. ArrivingJobs = {} /\ ArrivingJobs' = {}
  <2>1. \A t \in Tenants : Put(t) => handler = Idle /\ handler'.at = "register"
    BY DEF Put, Registering
  <2>2. \A t \in Tenants : Delete(t) => handler = Idle /\ handler' = Idle
    BY DEF Delete
  <2>3. \A t \in Tenants : \A on \in BOOLEAN :
           SetEnabled(t, on) => handler = Idle /\ handler' = Idle
    BY DEF SetEnabled
  <2>4. Register => handler.at = "register" /\ handler' = Idle
    BY DEF Register
  <2> QED
    BY <2>1, <2>2, <2>3, <2>4 DEF ArrivingJobs, Idle
<1>4. InHands' = InHands
  BY <1>1, <1>2, StartedTyped DEF InHands, Busy, NoThread, Waiting
<1>5. JobsIn(queue)' = JobsIn(queue) /\ Distinct(queue)'
  BY <1>2 DEF JobsIn, Distinct, FateInv
<1> QED
  BY <1>2, <1>3, <1>4, <1>5, FateUntouched

\* A new job arrives.
LEMMA FateHandOver ==
  ASSUME ForwarderTypeOK, FateInv, NEW t \in Tenants, HandOver(t)
  PROVE  FateInv'
<1>1. worker \in Workers /\ given \in Nat
  BY TypeParts DEF LogOK
<1>2. /\ UNCHANGED <<rows, lost, queue>> /\ worker' = Started /\ given' = given + 1
      /\ handler = Idle /\ handler' = Enqueueing(Job(given', t, 0, TRUE))
  BY DEF HandOver
<1>3. ArrivingJobs = {} /\ ArrivingJobs' = {given + 1}
  BY <1>2 DEF ArrivingJobs, Idle, Enqueueing, Job
<1>4. InHands' = InHands
  BY <1>1, <1>2, StartedTyped DEF InHands, Busy, NoThread, Waiting
<1>5. JobsIn(queue)' = JobsIn(queue) /\ Distinct(queue)' /\ ToldJobs' = ToldJobs
  BY <1>2 DEF JobsIn, Distinct, ToldJobs, FateInv
<1>6. given + 1 \notin 1 .. given /\ 1 .. given' = (1 .. given) \union {given + 1}
  BY <1>1, <1>2
<1> QED
  BY <1>2, <1>3, <1>4, <1>5, <1>6 DEF FateInv, Apart

\* It is queued; the oldest one is told of as dropped, or lost.
LEMMA FateEnqueue == ForwarderTypeOK /\ FateInv /\ Enqueue => FateInv'
<1> SUFFICES ASSUME ForwarderTypeOK, FateInv, Enqueue PROVE FateInv'
  OBVIOUS
<1>1. QueueOK /\ LogOK /\ worker \in Workers /\ handler \in Handlers
  BY TypeParts
<1> DEFINE m == handler.m
           x == Head(queue).job
<1>2. /\ m \in JobRecords /\ ArrivingJobs = {m.job} /\ ArrivingJobs' = {}
  BY <1>1, HandsTyped DEF Enqueue, ArrivingJobs, Idle
<1>3. m.job \notin JobsIn(queue)
  BY <1>2 DEF FateInv, Apart
<1>4. InHands' = InHands /\ given' = given /\ queue' = Append(Room, m)
  BY DEF Enqueue, InHands, Busy
<1>5. CASE Full
  <2>1. Len(queue) > 0 /\ Len(queue) \in Nat
    BY <1>1, <1>5, ForwarderAssumption DEF Full, QueueOK
  <2>2. queue \in Seq(JobRecords) /\ Distinct(queue) /\ Room = Tail(queue)
    BY <1>1, <1>5 DEF FateInv, QueueOK, Room
  <2>3. /\ Room \in Seq(JobRecords) /\ Distinct(Room)
        /\ JobsIn(Room) = JobsIn(queue) \ {x}
        /\ x \in Jobs /\ x \in JobsIn(queue)
    BY <2>1, <2>2, HeadJobs
  <2>4. Distinct(queue)' /\ JobsIn(queue)' = (JobsIn(queue) \ {x}) \union {m.job}
    <3>1. m.job \notin JobsIn(Room)
      BY <1>3, <2>3
    <3>2. /\ Distinct(Append(Room, m))
          /\ JobsIn(Append(Room, m)) = JobsIn(Room) \union {m.job}
      BY <1>2, <2>2, <2>3, <3>1, AppendJobs
    <3> QED
      BY <1>4, <2>3, <3>2
  <2>5. x \notin ToldJobs /\ x \notin lost /\ x \notin InHands
    BY <2>3 DEF FateInv, Apart
  <2>6. /\ \A j \in Jobs : Len(rows'[j]) <= 1
        /\ \/ ToldJobs' = ToldJobs \union {x} /\ lost' = lost
           \/ ToldJobs' = ToldJobs /\ lost' = lost \union {x}
    <3>1. CASE rows' = Told(x, "dropped") /\ lost' = lost
      BY <1>1, <2>3, <2>5, <3>1, ToldJobsMore DEF FateInv, Outcomes
    <3>2. CASE rows' = rows /\ lost' = lost \union {x}
      BY <3>2 DEF ToldJobs, FateInv
    <3> QED
      BY <1>5, <3>1, <3>2 DEF Enqueue
  <2> QED
    BY <1>2, <1>3, <1>4, <2>3, <2>4, <2>5, <2>6 DEF FateInv, Apart
<1>6. CASE ~Full
  <2>1. Room = queue /\ UNCHANGED <<rows, lost>>
    BY <1>6 DEF Room, Enqueue
  <2>2. Distinct(queue)' /\ JobsIn(queue)' = JobsIn(queue) \union {m.job}
    BY <1>1, <1>2, <1>3, <1>4, <2>1, AppendJobs DEF FateInv, QueueOK
  <2>3. ToldJobs' = ToldJobs
    BY <2>1 DEF ToldJobs
  <2> QED
    BY <1>2, <1>3, <1>4, <2>1, <2>2, <2>3 DEF FateInv, Apart
<1> QED
  BY <1>5, <1>6

\* The worker takes it in its hands, or drops it for want of a destination.
LEMMA FateTake ==
  ASSUME ForwarderTypeOK, FateInv, NEW i, Take(i)
  PROVE  FateInv'
<1>1. QueueOK
  BY TypeParts
<1> DEFINE x == queue[i].job
<1>2. i \in DOMAIN queue /\ x \in JobsIn(queue) /\ queue' = Without(i)
  BY DEF Take, JobsIn
<1>3. Distinct(queue)' /\ JobsIn(queue)' = JobsIn(queue) \ {x}
  BY <1>1, <1>2, WithoutFacts, RemoveJobs DEF FateInv, QueueOK
<1>4. InHands = {}
  BY DEF Take, InHands, Busy, Waiting
<1>5. /\ ToldJobs' = ToldJobs /\ ArrivingJobs' = ArrivingJobs
      /\ rows' = rows /\ given' = given
  BY DEF Take, ToldJobs, ArrivingJobs
<1>6. \/ InHands' = {x} /\ lost' = lost
      \/ InHands' = {} /\ lost' = lost \union {x}
  <2>1. CASE store[queue[i].tenant].enabled
    <3>1. worker' = Looked(queue[i], store[queue[i].tenant]) /\ lost' = lost
      BY <2>1 DEF Take
    <3>2. worker'.at = "looked" /\ worker'.m = queue[i]
      BY <3>1 DEF Looked
    <3>3. worker' # NoThread
      BY <3>2 DEF NoThread
    <3> QED
      BY <3>1, <3>2, <3>3 DEF InHands, Busy
  <2>2. CASE ~store[queue[i].tenant].enabled
    BY <1>4, <2>2 DEF Take, InHands, Busy, Waiting
  <2> QED
    BY <2>1, <2>2
<1> QED
  BY <1>2, <1>3, <1>4, <1>5, <1>6 DEF FateInv, Apart

\* It signs and posts.
LEMMA FateSign == ForwarderTypeOK /\ FateInv /\ Sign => FateInv'
<1> SUFFICES ASSUME ForwarderTypeOK, FateInv, Sign PROVE FateInv'
  OBVIOUS
<1>1. worker \in Workers /\ handler \in Handlers
  BY TypeParts
<1>2. Busy /\ UNCHANGED <<queue, handler, given>>
  BY <1>1, HandsTyped DEF Sign
<1> DEFINE sec == secrets[worker.m.tenant]
<1>3. CASE sec = NoSecret
  <2>1. Record(worker.m.job, "failed")
    BY <1>3 DEF Sign
  <2> QED
    BY <1>2, <2>1, RecordMoves DEF Outcomes
<1>4. CASE sec # NoSecret
  <2>1. worker' = Posting(worker.m, worker.dest, sec) /\ UNCHANGED <<rows, lost>>
    BY <1>4 DEF Sign
  <2>2. InHands' = InHands
    BY <1>2, <2>1 DEF InHands, Busy, Posting
  <2>3. /\ JobsIn(queue)' = JobsIn(queue) /\ Distinct(queue)'
        /\ ArrivingJobs' = ArrivingJobs
    BY <1>2 DEF JobsIn, Distinct, ArrivingJobs, FateInv
  <2> QED
    BY <1>2, <2>1, <2>2, <2>3, FateUntouched
<1> QED
  BY <1>3, <1>4

\* The sink answers; if the status cannot be saved, the thread dies.
LEMMA FateAnswer ==
  ASSUME ForwarderTypeOK, FateInv, NEW ok \in BOOLEAN, Answer(ok)
  PROVE  FateInv'
<1>1. worker \in Workers /\ handler \in Handlers
  BY TypeParts
<1>2. Busy /\ UNCHANGED <<queue, handler, given, rows>> /\ InHands = {worker.m.job}
  BY <1>1, HandsTyped DEF Answer, InHands
<1>3. /\ JobsIn(queue)' = JobsIn(queue) /\ Distinct(queue)'
      /\ ArrivingJobs' = ArrivingJobs /\ ToldJobs' = ToldJobs
  BY <1>2 DEF JobsIn, Distinct, ArrivingJobs, ToldJobs, FateInv
<1>4. CASE worker' = Answered(worker.m, ok) /\ lost' = lost
  <2>1. InHands' = InHands
    BY <1>2, <1>4 DEF InHands, Busy, Answered
  <2> QED
    BY <1>2, <1>3, <1>4, <2>1, FateUntouched
<1>5. CASE worker' = NoThread /\ lost' = lost \union {worker.m.job}
  <2>1. InHands' = {}
    BY <1>5 DEF InHands, Busy, NoThread
  <2> QED
    BY <1>2, <1>3, <1>5, <2>1 DEF FateInv, Apart
<1> QED
  BY <1>4, <1>5 DEF Answer

\* It is told of, or goes back to the queue.
LEMMA FateSettle == ForwarderTypeOK /\ FateInv /\ Settle => FateInv'
<1> SUFFICES ASSUME ForwarderTypeOK, FateInv, Settle PROVE FateInv'
  OBVIOUS
<1>1. QueueOK /\ worker \in Workers /\ handler \in Handlers
  BY TypeParts
<1>2. /\ Busy /\ UNCHANGED <<handler, given>> /\ InHands = {worker.m.job}
      /\ worker.m \in JobRecords
  BY <1>1, HandsTyped DEF Settle, InHands
<1>3. CASE worker.ok \/ Attempts(worker.m) >= MaxRetries
  <2>1. /\ Record(worker.m.job, IF worker.ok THEN "delivered" ELSE "failed")
        /\ UNCHANGED queue
    BY <1>3 DEF Settle
  <2> QED
    BY <1>2, <2>1, RecordMoves DEF Outcomes
<1>4. CASE ~(worker.ok \/ Attempts(worker.m) >= MaxRetries)
  <2> DEFINE again == Job(worker.m.job, worker.m.tenant, Attempts(worker.m), FALSE)
  <2>1. queue' = Append(queue, again) /\ worker' = Waiting /\ UNCHANGED <<rows, lost>>
    BY <1>4 DEF Settle
  <2>2. again \in JobRecords /\ again.job = worker.m.job
    <3>1. Attempts(worker.m) \in 0 .. MaxRetries - 1
      BY <1>2, <1>4, JobTyped, ForwarderAssumption DEF Attempts
    <3> QED
      BY <1>2, <3>1, JobTyped
  <2>3. worker.m.job \notin JobsIn(queue)
    BY <1>2 DEF FateInv, Apart
  <2>4. Distinct(queue)' /\ JobsIn(queue)' = JobsIn(queue) \union {worker.m.job}
    BY <1>1, <2>1, <2>2, <2>3, AppendJobs DEF FateInv, QueueOK
  <2>5. InHands' = {} /\ ToldJobs' = ToldJobs /\ ArrivingJobs' = ArrivingJobs
    BY <1>2, <2>1 DEF InHands, Busy, Waiting, ToldJobs, ArrivingJobs
  <2> QED
    BY <1>2, <2>1, <2>4, <2>5 DEF FateInv, Apart
<1> QED
  BY <1>3, <1>4

\* The end of a backoff leaves each job where it waits.
LEMMA FateElapse == ForwarderTypeOK /\ FateInv /\ Elapse => FateInv'
<1> SUFFICES ASSUME ForwarderTypeOK, FateInv, Elapse PROVE FateInv'
  OBVIOUS
<1>1. queue \in Seq(JobRecords)
  BY TypeParts DEF QueueOK
<1>2. PICK i \in DOMAIN queue : queue' = [queue EXCEPT ![i].due = TRUE]
  BY DEF Elapse
<1>3. DOMAIN queue' = DOMAIN queue
  BY <1>1, <1>2
<1>4. \A k \in DOMAIN queue : queue'[k].job = queue[k].job
  <2>1. queue[i] \in JobRecords
    BY <1>1
  <2>2. [queue[i] EXCEPT !.due = TRUE].job = queue[i].job
    BY <2>1 DEF JobRecords
  <2> QED
    BY <1>1, <1>2, <2>2
<1>5. JobsIn(queue)' = JobsIn(queue) /\ Distinct(queue)'
  BY <1>3, <1>4 DEF JobsIn, Distinct, FateInv
<1>6. UNCHANGED <<worker, handler, given, rows, lost>>
  BY DEF Elapse
<1>7. InHands' = InHands /\ ArrivingJobs' = ArrivingJobs
  BY <1>6 DEF InHands, Busy, ArrivingJobs
<1> QED
  BY <1>5, <1>6, <1>7, FateUntouched

\* A restart loses what waits, is in hand or arrives.
LEMMA FateRestart == ForwarderTypeOK /\ FateInv /\ Restart => FateInv'
<1> SUFFICES ASSUME ForwarderTypeOK, FateInv, Restart PROVE FateInv'
  OBVIOUS
<1>1. QueueOK /\ worker \in Workers /\ handler \in Handlers
  BY TypeParts
<1>2. JobsIn(queue) \subseteq Jobs /\ InHands \subseteq Jobs /\ ArrivingJobs \subseteq Jobs
  BY <1>1, HandsTyped, JobTyped DEF JobsIn, InHands, ArrivingJobs, QueueOK
<1>3. {j \in Jobs : InQueue(j) \/ InHand(j) \/ Arriving(j)}
      = JobsIn(queue) \union InHands \union ArrivingJobs
  <2>1. \A j : InQueue(j) <=> j \in JobsIn(queue)
    BY DEF InQueue, JobsIn
  <2>2. \A j : InHand(j) <=> j \in InHands
    BY DEF InHand, InHands
  <2>3. \A j : Arriving(j) <=> j \in ArrivingJobs
    BY DEF Arriving, ArrivingJobs
  <2> QED
    BY <1>2, <2>1, <2>2, <2>3
<1>4. lost' = lost \union JobsIn(queue) \union InHands \union ArrivingJobs
  BY <1>3 DEF Restart
<1>5. queue' = << >> /\ worker' = NoThread /\ handler' = Idle /\ UNCHANGED <<given, rows>>
  BY DEF Restart
<1>6. JobsIn(queue)' = {} /\ Distinct(queue)'
  BY <1>5 DEF JobsIn, Distinct
<1>7. InHands' = {} /\ ArrivingJobs' = {} /\ ToldJobs' = ToldJobs
  BY <1>5 DEF InHands, Busy, NoThread, ArrivingJobs, Idle, ToldJobs
<1> QED
  BY <1>4, <1>5, <1>6, <1>7 DEF FateInv, Apart

\* Every step keeps each job at one place.
LEMMA FateStep == ForwarderTypeOK /\ FateInv /\ [Next]_vars => FateInv'
<1> SUFFICES ASSUME ForwarderTypeOK, FateInv, [Next]_vars PROVE FateInv'
  OBVIOUS
<1>1. CASE Deliver
  BY <1>1, FateTake, FateSign, FateAnswer, FateSettle DEF Deliver
<1>2. CASE UNCHANGED vars
  BY <1>2 DEF vars, FateInv, JobsIn, InHands, Busy, ArrivingJobs, ToldJobs, Distinct
<1> QED
  BY <1>1, <1>2, FateAdmin, FateHandOver, FateEnqueue, FateElapse, FateRestart DEF Next

\* In the beginning no job was made.
LEMMA FateInit == Init => FateInv
<1> SUFFICES ASSUME Init PROVE FateInv
  OBVIOUS
<1>1. /\ queue = << >> /\ worker = NoThread /\ handler = Idle /\ given = 0 /\ lost = {}
      /\ \A j \in Jobs : rows[j] = << >>
  BY DEF Init
<1>2. JobsIn(queue) = {} /\ Distinct(queue)
  BY <1>1 DEF JobsIn, Distinct
<1>3. InHands = {} /\ ArrivingJobs = {} /\ ToldJobs = {}
  BY <1>1 DEF InHands, Busy, NoThread, ArrivingJobs, Idle, ToldJobs
<1>4. \A j \in Jobs : Len(rows[j]) <= 1
  BY <1>1
<1> QED
  BY <1>1, <1>2, <1>3, <1>4 DEF FateInv, Apart

\* A log with one row at most, and at least one.
LEMMA SingleRow ==
  ASSUME NEW S, NEW s \in Seq(S), Len(s) <= 1, s # << >>
  PROVE  DOMAIN s = {1}
<1>1. Len(s) \in Nat /\ Len(s) # 0
  OBVIOUS
<1>2. Len(s) = 1
  BY <1>1
<1> QED
  BY <1>2

\* A pair whose second component is fixed.
LEMMA FirstOfPair ==
  ASSUME NEW S
  PROVE  /\ \A f \in S \X {0} : f[1] \in S /\ f = <<f[1], 0>>
         /\ \A p \in S : <<p, 0>> \in S \X {0} /\ <<p, 0>>[1] = p
  OBVIOUS

\* One place is one fate.
LEMMA OnePlace == ForwarderTypeOK /\ FateInv => ExactlyOneFate
<1> SUFFICES ASSUME ForwarderTypeOK, FateInv, NEW j \in 1 .. given
             PROVE  \E f \in Fates(j) : Fates(j) = {f}
  BY DEF ExactlyOneFate
<1>1. LogOK /\ j \in Jobs
  <2>1. LogOK
    BY TypeParts
  <2> QED
    BY <2>1, ForwarderAssumption DEF LogOK, Jobs
<1> DEFINE Waits == {<<"waits", i>> : i \in {k \in DOMAIN queue : queue[k].job = j}}
           Tells == {<<"told", i>> : i \in DOMAIN rows[j]}
           Others == {f \in {"in hand", "arriving", "lost"} \X {0} :
                         \/ f[1] = "in hand" /\ InHand(j)
                         \/ f[1] = "arriving" /\ Arriving(j)
                         \/ f[1] = "lost" /\ j \in lost}
<1>2. Fates(j) = Waits \union Tells \union Others
  BY DEF Fates
<1>3. j \in JobsIn(queue) => \E f : Waits = {f}
  <2> SUFFICES ASSUME j \in JobsIn(queue) PROVE \E f : Waits = {f}
    OBVIOUS
  <2>1. PICK i \in DOMAIN queue : queue[i].job = j
    BY DEF JobsIn
  <2>2. {k \in DOMAIN queue : queue[k].job = j} = {i}
    BY <2>1 DEF FateInv, Distinct
  <2>3. Waits = {<<"waits", i>>}
    BY <2>2
  <2> QED
    BY <2>3
<1>4. j \notin JobsIn(queue) => Waits = {}
  BY DEF JobsIn
<1>5. j \in ToldJobs => \E f : Tells = {f}
  <2> SUFFICES ASSUME j \in ToldJobs PROVE \E f : Tells = {f}
    OBVIOUS
  <2>1. rows[j] \in Seq(Outcomes) /\ rows[j] # << >> /\ Len(rows[j]) <= 1
    BY <1>1 DEF LogOK, ToldJobs, FateInv
  <2>2. DOMAIN rows[j] = {1}
    BY <2>1, SingleRow
  <2>3. Tells = {<<"told", 1>>}
    BY <2>2
  <2> QED
    BY <2>3
<1>6. j \notin ToldJobs => Tells = {}
  BY <1>1 DEF ToldJobs
<1>7. /\ InHand(j) <=> j \in InHands
      /\ Arriving(j) <=> j \in ArrivingJobs
  BY DEF InHand, InHands, Arriving, ArrivingJobs
<1>8. /\ j \in InHands /\ j \notin ArrivingJobs /\ j \notin lost
            => Others = {<<"in hand", 0>>}
      /\ j \notin InHands /\ j \in ArrivingJobs /\ j \notin lost
            => Others = {<<"arriving", 0>>}
      /\ j \notin InHands /\ j \notin ArrivingJobs /\ j \in lost
            => Others = {<<"lost", 0>>}
      /\ j \notin InHands /\ j \notin ArrivingJobs /\ j \notin lost => Others = {}
  <2> DEFINE Kinds == {"in hand", "arriving", "lost"}
             hand == <<"in hand", 0>>
             arriving == <<"arriving", 0>>
             gone == <<"lost", 0>>
  <2>1. ASSUME NEW f \in Others
        PROVE  \/ f = hand /\ j \in InHands
               \/ f = arriving /\ j \in ArrivingJobs
               \/ f = gone /\ j \in lost
    <3>1. f \in Kinds \X {0}
      OBVIOUS
    <3>2. f = <<f[1], 0>>
      BY <3>1, FirstOfPair
    <3> QED
      BY <1>7, <3>2
  <2>2. \A p \in Kinds : <<p, 0>> \in Kinds \X {0} /\ <<p, 0>>[1] = p
    BY FirstOfPair
  <2>3. /\ j \in InHands => hand \in Others
        /\ j \in ArrivingJobs => arriving \in Others
        /\ j \in lost => gone \in Others
    BY <1>7, <2>2
  <2> HIDE DEF Others, hand, arriving, gone
  <2>4. /\ j \in InHands /\ j \notin ArrivingJobs /\ j \notin lost => Others = {hand}
        /\ j \notin InHands /\ j \in ArrivingJobs /\ j \notin lost => Others = {arriving}
        /\ j \notin InHands /\ j \notin ArrivingJobs /\ j \in lost => Others = {gone}
        /\ j \notin InHands /\ j \notin ArrivingJobs /\ j \notin lost => Others = {}
    BY <2>1, <2>3
  <2> QED
    BY <2>4 DEF hand, arriving, gone
<1>9. \/ j \in JobsIn(queue) \/ j \in InHands \/ j \in ArrivingJobs
      \/ j \in ToldJobs \/ j \in lost
  BY DEF FateInv
<1>10. /\ j \in JobsIn(queue) => j \notin InHands \union ArrivingJobs \union ToldJobs \union lost
       /\ j \in InHands => j \notin ArrivingJobs \union ToldJobs \union lost
       /\ j \in ArrivingJobs => j \notin ToldJobs \union lost
       /\ j \in ToldJobs => j \notin lost
  BY DEF FateInv, Apart
<1> HIDE DEF Waits, Tells, Others
<1>11. \E f : Waits \union Tells \union Others = {f}
  BY <1>3, <1>4, <1>5, <1>6, <1>8, <1>9, <1>10
<1> QED
  BY <1>2, <1>11

\* Whatever the interleaving of handlers, worker, retries, overflow, dying
\* threads and restarts, every event that was handed over (enqueue_event)
\* waits once, or is in the hands of one thread, or has one outcome in the
\* delivery log, or was lost in one of the ways the code has for it.
THEOREM FateCorrect == Spec => []ExactlyOneFate
  BY FateInit, FateStep, OnePlace, TypeCorrect, PTL DEF Spec
=============================================================================
