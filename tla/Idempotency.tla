----------------------------- MODULE Idempotency -----------------------------
(***************************************************************************)
(* The Idempotency-Key middleware (services/api/clawhum_api/idempotency.py)*)
(* of one API process.  Requests run on the event loop: the code between   *)
(* two awaits is one step.  The awaits that matter are the per-key lock    *)
(* and the origin handler behind call_next, so a request is a step for its *)
(* arrival, one when a lock it waits for is handed to it, and one when its *)
(* origin handler has returned.                                            *)
(*                                                                         *)
(* A lock is an object with an identity: a request keeps the lock it was   *)
(* given even when the store has since dropped it and made another one for *)
(* the same key.  asyncio.Lock (external) is a FIFO queue whose head holds *)
(* the lock.                                                               *)
(***************************************************************************)
EXTENDS Integers, Sequences, FiniteSets

CONSTANTS
    Requests,       \* mutating requests that carry an Idempotency-Key
    Callers,        \* caller ids: the scope of a key
    IdemKeys,       \* values of the header
    Payloads,       \* (method, path, body), as far as _hash_body tells them apart
    Cap,            \* idempotency_max_per_tenant
    TTL,            \* idempotency_ttl_seconds, in clock ticks
    MaxClock        \* bound: clock ticks

ASSUME IdemAssumption ==
    /\ Cap \in Nat \ {0}
    /\ TTL \in Nat
    /\ MaxClock \in Nat

VARIABLES
    clock,          \* time.monotonic()
    entries,        \* entries[c]: the OrderedDict of caller c, oldest first
    locks,          \* locks[c]: from the keys with a lock object to that lock
    queue,          \* queue[l]: who holds lock l (the head) and who waits for it
    request         \* what is known of each request

vars == <<clock, entries, locks, queue, request>>

-----------------------------------------------------------------------------
(* A lock is named by the request it was created for.                      *)

Idle == [at |-> "client"]

Waiting(c, k, p, l) ==
    [at |-> "lock", caller |-> c, key |-> k, payload |-> p, lock |-> l]

Running(c, k, p, l) ==
    [at |-> "origin", caller |-> c, key |-> k, payload |-> p, lock |-> l]

\* reply: "origin" or "retryable" (the handler's own response, stored or not),
\* "replay" (of the response of request source) or "conflict" (with it).
Answered(c, k, p, reply, source) ==
    [at |-> "answered", caller |-> c, key |-> k, payload |-> p,
     reply |-> reply, source |-> source]

\* Mutant: the deadline is stored in place of the time.
Cached_Deadline(k, p, q) ==
    [key |-> k, payload |-> p, source |-> q, storedAt |-> clock + TTL]

Cached(k, p, q) == [key |-> k, payload |-> p, source |-> q, storedAt |-> clock]

Expired(e) == clock - e.storedAt > TTL

-----------------------------------------------------------------------------
(* IdempotencyStore.                                                       *)

KeysOf(s) == {s[i].key : i \in 1..Len(s)}

Without(f, K) == [k \in DOMAIN f \ K |-> f[k]]

\* How many entries evict_expired removes: it stops at the first fresh one.
ExpiredPrefix(s) ==
    Cardinality({i \in 1..Len(s) : \A j \in 1..i : Expired(s[j])})

AfterEviction(s) == SubSeq(s, ExpiredPrefix(s) + 1, Len(s))

\* The keys whose lock goes with the expired entry.
EvictedKeys(s) == {s[i].key : i \in 1..ExpiredPrefix(s)}

Lookup(s, k) == CHOOSE i \in 1..Len(s) : s[i].key = k

\* An OrderedDict has one entry of a key.
Others(s, k) ==
    IF k \in KeysOf(s)
    THEN [i \in 1..(Len(s) - 1) |-> IF i < Lookup(s, k) THEN s[i] ELSE s[i + 1]]
    ELSE s

\* move_to_end
Touch(s, k) == Append(Others(s, k), s[Lookup(s, k)])

\* put: the entry goes to the end, and the front is dropped down to the cap.
Overflow(s) == IF Len(s) > Cap THEN Len(s) - Cap ELSE 0
Put(s, e) == Append(Others(s, e.key), e)
AfterPut(s, e) == SubSeq(Put(s, e), Overflow(Put(s, e)) + 1, Len(Put(s, e)))
KeysPutOut(s, e) == {Put(s, e)[i].key : i \in 1..Overflow(Put(s, e))}

-----------------------------------------------------------------------------
(* IdempotencyMiddleware.dispatch.                                         *)

\* Mutant: the body is not compared.
Reply_KeyOnly(hit, p) == "replay"

\* A response stored for the key answers a request with the same body.
Reply(hit, p) == IF hit.payload = p THEN "replay" ELSE "conflict"

\* Mutant: every request makes a lock of its own.
LockFor_Fresh(r, c, k) == r

\* lock_for: the lock of the key, made if the store has none.
LockFor(r, c, k) == IF k \in DOMAIN locks[c] THEN locks[c][k] ELSE r

\* The code after "async with lock", up to the next await: the queue of the
\* lock is q once the request holds it, and loses its head on a return.
Enter(r, c, k, p, l, q, lks) ==
    LET kept == AfterEviction(entries[c])
    IN  /\ locks' = [locks EXCEPT ![c] = Without(lks, EvictedKeys(entries[c]))]
        /\ IF k \in KeysOf(kept)
           THEN LET hit == kept[Lookup(kept, k)]
                IN  /\ entries' = [entries EXCEPT ![c] = Touch(kept, k)]
                    /\ request' = [request EXCEPT ![r] =
                                      Answered(c, k, p, Reply(hit, p), hit.source)]
                    /\ queue' = [queue EXCEPT ![l] = Tail(q)]
           ELSE /\ entries' = [entries EXCEPT ![c] = kept]
                /\ request' = [request EXCEPT ![r] = Running(c, k, p, l)]
                /\ queue' = [queue EXCEPT ![l] = q]
        /\ UNCHANGED clock

\* lock_for, then an acquire that does not wait if the lock is free.
Arrive(r, c, k, p) ==
    /\ request[r] = Idle
    /\ LET l == LockFor(r, c, k)
           lks == [x \in DOMAIN locks[c] \cup {k} |-> IF x = k THEN l ELSE locks[c][x]]
       IN  IF queue[l] = << >>
           THEN Enter(r, c, k, p, l, <<r>>, lks)
           ELSE /\ locks' = [locks EXCEPT ![c] = lks]
                /\ queue' = [queue EXCEPT ![l] = Append(@, r)]
                /\ request' = [request EXCEPT ![r] = Waiting(c, k, p, l)]
                /\ UNCHANGED <<clock, entries>>

\* The event loop resumes the request the lock was handed to.
Resume(r) ==
    /\ request[r].at = "lock"
    /\ LET q == request[r]
       IN  /\ Head(queue[q.lock]) = r
           /\ Enter(r, q.caller, q.key, q.payload, q.lock, queue[q.lock], locks[q.caller])

\* Mutant: the lock is kept when nothing is stored.
FinishRetryable_KeepsLock(r) ==
    /\ request[r].at = "origin"
    /\ LET q == request[r]
       IN  request' = [request EXCEPT ![r] =
                          Answered(q.caller, q.key, q.payload, "retryable", r)]
    /\ UNCHANGED <<clock, entries, locks, queue>>

\* The origin answered 408, 429 or 5xx: nothing is stored.
FinishRetryable(r) ==
    /\ request[r].at = "origin"
    /\ LET q == request[r]
       IN  /\ request' = [request EXCEPT ![r] =
                             Answered(q.caller, q.key, q.payload, "retryable", r)]
           /\ queue' = [queue EXCEPT ![q.lock] = Tail(@)]
    /\ UNCHANGED <<clock, entries, locks>>

\* Any other answer is stored under the caller and the key.
FinishCacheable(r) ==
    /\ request[r].at = "origin"
    /\ LET q == request[r]
           s == entries[q.caller]
           e == Cached(q.key, q.payload, r)
       IN  /\ entries' = [entries EXCEPT ![q.caller] = AfterPut(s, e)]
           /\ locks' = [locks EXCEPT ![q.caller] = Without(@, KeysPutOut(s, e))]
           /\ request' = [request EXCEPT ![r] =
                             Answered(q.caller, q.key, q.payload, "origin", r)]
           /\ queue' = [queue EXCEPT ![q.lock] = Tail(@)]
    /\ UNCHANGED clock

Tick ==
    /\ clock < MaxClock
    /\ clock' = clock + 1
    /\ UNCHANGED <<entries, locks, queue, request>>

Init ==
    /\ clock = 0
    /\ entries = [c \in Callers |-> << >>]
    /\ locks = [c \in Callers |-> [k \in {} |-> k]]
    /\ queue = [r \in Requests |-> << >>]
    /\ request = [r \in Requests |-> Idle]

Finish(r) == FinishRetryable(r) \/ FinishCacheable(r)

Next ==
    \/ \E r \in Requests, c \in Callers, k \in IdemKeys, p \in Payloads : Arrive(r, c, k, p)
    \/ \E r \in Requests : Resume(r) \/ Finish(r)
    \/ Tick

Spec == Init /\ [][Next]_vars

\* The event loop resumes what is ready, and every origin handler returns
\* (a time limit of the handler, or an error, is one of its answers).
Fairness == \A r \in Requests : WF_vars(Resume(r)) /\ WF_vars(Finish(r))

FairSpec == Spec /\ Fairness

-----------------------------------------------------------------------------
(* Properties.                                                             *)

Asking == [at : {"lock", "origin"},
           caller : Callers, key : IdemKeys, payload : Payloads, lock : Requests]

Done == [at : {"answered"},
         caller : Callers, key : IdemKeys, payload : Payloads,
         reply : {"origin", "retryable", "replay", "conflict"}, source : Requests]

Entry == [key : IdemKeys, payload : Payloads, source : Requests, storedAt : Nat]

TypeOK ==
    /\ clock \in 0..MaxClock
    /\ entries \in [Callers -> Seq(Entry)]
    /\ \A c \in Callers : \A i \in 1..Len(entries[c]) : entries[c][i].storedAt <= clock
    /\ locks \in [Callers -> UNION {[K -> Requests] : K \in SUBSET IdemKeys}]
    /\ queue \in [Requests -> Seq(Requests)]
    /\ request \in [Requests -> {Idle} \cup Asking \cup Done]

Replied(r, reply) == request[r].at = "answered" /\ request[r].reply = reply

SameKey(q, r) ==
    /\ request[q].caller = request[r].caller
    /\ request[q].key = request[r].key

\* A replayed response is that of an earlier request of the same caller, with
\* the same key and the same body, whose outcome was fit to cache; a 409 names
\* such a request with another body.  Callers never see each other's answers.
ReplayMatchesOrigin ==
    \A r \in Requests :
        LET q == request[r].source
        IN  /\ Replied(r, "replay") =>
                   /\ Replied(q, "origin") /\ SameKey(q, r)
                   /\ request[q].payload = request[r].payload
            /\ Replied(r, "conflict") =>
                   /\ Replied(q, "origin") /\ SameKey(q, r)
                   /\ request[q].payload # request[r].payload

\* "Hard cap on cached idempotent responses per tenant": never exceeded, and
\* spent on distinct keys, also when two origins of one key both store
\* (IdempotencyStore.put).
CapRespected ==
    \A c \in Callers :
        /\ Len(entries[c]) <= Cap
        /\ \A i, j \in 1..Len(entries[c]) :
               entries[c][i].key = entries[c][j].key => i = j

InOrigin(c, k) ==
    {r \in Requests : request[r].at = "origin" /\ request[r].caller = c /\ request[r].key = k}

\* "Concurrent retries with the same key wait on an asyncio lock so the origin
\* request runs exactly once" (idempotency.py:19-21): no two origins of one
\* key at a time.
OriginsDoNotOverlap ==
    \A c \in Callers, k \in IdemKeys : \A q, r \in InOrigin(c, k) : q = r

HasRun(c, k) ==
    {r \in Requests : Replied(r, "origin") /\ request[r].caller = c /\ request[r].key = k}

Stored(c, q) == \E i \in 1..Len(entries[c]) : entries[c][i].source = q

\* Until a response of a key is evicted, its lock and the stored response
\* together let one request be carried out: retries wait while it runs and find
\* its response afterwards, whatever expires or is pushed out under other keys
\* (IdempotencyStore.lock_for and get).
CarriedOutOnce ==
    \A c \in Callers, k \in IdemKeys :
        (\A q \in HasRun(c, k) : Stored(c, q))
            => \A q, r \in HasRun(c, k) \cup InOrigin(c, k) : q = r

\* Nobody waits forever on a lock, not even on one the store has dropped: every
\* request that arrives is answered (asyncio.Lock is handed on by each holder,
\* on every path out of dispatch).
EveryRequestAnswered ==
    \A r \in Requests :
        request[r].at \in {"lock", "origin"} ~> request[r].at = "answered"

=============================================================================
