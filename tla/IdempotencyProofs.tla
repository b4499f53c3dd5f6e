-------------------------- MODULE IdempotencyProofs --------------------------
(***************************************************************************)
(* Theorems about Idempotency, for every set of requests, callers, keys    *)
(* and bodies, every cap and every TTL.  Nothing is used about which       *)
(* entries expire: eviction drops some prefix of the store.                *)
(***************************************************************************)
EXTENDS Idempotency, TLAPS, SequenceTheorems, FiniteSetTheorems

\* The entries of a caller, without their order.
Contents(s) == {s[i] : i \in 1..Len(s)}

DistinctKeys(s) == \A i, j \in 1..Len(s) : s[i].key = s[j].key => i = j

-----------------------------------------------------------------------------
(* The sequence operations of the store.                                   *)

\* A function over an initial interval of the positive numbers.
LEMMA FunctionIsSeq ==
  ASSUME NEW S, NEW n \in Nat, NEW f \in [1..n -> S]
  PROVE  f \in Seq(S)
<1>1. Seq(S) = UNION {[1..m -> S] : m \in Nat}
  BY SeqDef
<1> QED
  BY <1>1, Zenon

\* Dropping the front of a sequence moves the rest up.
LEMMA DropFront ==
  ASSUME NEW S, NEW s \in Seq(S), NEW n \in 0..Len(s)
  PROVE  LET t == SubSeq(s, n + 1, Len(s))
         IN  /\ t \in Seq(S)
             /\ Len(t) = Len(s) - n
             /\ \A i \in 1..Len(t) : t[i] = s[i + n]
<1>1. \A i \in (n + 1)..Len(s) : s[i] \in S
  BY ElementOfSeq
<1>2. Len(s) \in Nat /\ n \in Nat
  BY LenProperties
<1> QED
  BY <1>1, <1>2, SubSeqProperties, n + 1 \in Int, Len(s) \in Int

\* What is left of a sequence of entries after its front is dropped, and the
\* keys of the entries that were dropped.
LEMMA DropFrontEntries ==
  ASSUME NEW s \in Seq(Entry), DistinctKeys(s), NEW n \in 0..Len(s)
  PROVE  LET t == SubSeq(s, n + 1, Len(s))
         IN  /\ t \in Seq(Entry)
             /\ Len(t) = Len(s) - n
             /\ DistinctKeys(t)
             /\ Contents(t) \subseteq Contents(s)
             /\ \A k \in {s[i].key : i \in 1..n} : \A e \in Contents(t) : e.key # k
<1> DEFINE t == SubSeq(s, n + 1, Len(s))
<1>1. t \in Seq(Entry) /\ Len(t) = Len(s) - n /\ \A i \in 1..Len(t) : t[i] = s[i + n]
  BY DropFront
<1>2. Len(s) \in Nat /\ n \in Nat
  BY LenProperties
<1> HIDE DEF t
<1>3. \A i \in 1..Len(t) : i + n \in 1..Len(s)
  BY <1>1, <1>2
<1>4. DistinctKeys(t)
  <2> SUFFICES ASSUME NEW i \in 1..Len(t), NEW j \in 1..Len(t), t[i].key = t[j].key
               PROVE  i = j
    BY DEF DistinctKeys
  <2>1. i + n = j + n
    BY <1>1, <1>3 DEF DistinctKeys
  <2> QED
    BY <2>1, <1>2
<1>5. Contents(t) \subseteq Contents(s)
  BY <1>1, <1>3 DEF Contents
<1>6. ASSUME NEW i \in 1..n, NEW e \in Contents(t)
      PROVE  e.key # s[i].key
  <2>1. PICK j \in 1..Len(t) : e = s[j + n]
    BY <1>1 DEF Contents
  <2>2. i # j + n /\ i \in 1..Len(s) /\ j + n \in 1..Len(s)
    BY <1>2, <1>3
  <2> QED
    BY <2>1, <2>2 DEF DistinctKeys
<1> QED
  BY <1>1, <1>4, <1>5, <1>6 DEF t

\* However the clock runs, eviction drops a prefix of the store.
LEMMA ExpiredPrefixBound ==
  ASSUME NEW s \in Seq(Entry)
  PROVE  ExpiredPrefix(s) \in 0..Len(s)
<1> DEFINE E == {i \in 1..Len(s) : \A j \in 1..i : Expired(s[j])}
<1>1. Len(s) \in Nat
  BY LenProperties
<1>2. IsFiniteSet(1..Len(s)) /\ Cardinality(1..Len(s)) = Len(s)
  BY <1>1, FS_Interval, 1 \in Int, Len(s) \in Int
<1>3. E \in SUBSET (1..Len(s))
  OBVIOUS
<1>4. IsFiniteSet(E) /\ Cardinality(E) <= Len(s)
  <2> HIDE DEF E
  <2> QED
    BY <1>2, <1>3, FS_Subset
<1>5. Cardinality(E) \in Nat
  <2> HIDE DEF E
  <2> QED
    BY <1>4, FS_CardinalityType
<1> QED
  BY <1>1, <1>4, <1>5 DEF ExpiredPrefix

\* evict_expired
LEMMA EvictionProperties ==
  ASSUME NEW s \in Seq(Entry), DistinctKeys(s)
  PROVE  /\ AfterEviction(s) \in Seq(Entry)
         /\ Len(AfterEviction(s)) <= Len(s)
         /\ DistinctKeys(AfterEviction(s))
         /\ Contents(AfterEviction(s)) \subseteq Contents(s)
         /\ EvictedKeys(s) \subseteq {e.key : e \in Contents(s)}
         /\ \A e \in Contents(AfterEviction(s)) : e.key \notin EvictedKeys(s)
<1> DEFINE n == ExpiredPrefix(s)
<1>1. n \in 0..Len(s)
  BY ExpiredPrefixBound
<1>2. Len(s) \in Nat
  BY LenProperties
<1> HIDE DEF n
<1> DEFINE t == SubSeq(s, n + 1, Len(s))
<1>3. /\ t \in Seq(Entry)
      /\ Len(t) = Len(s) - n
      /\ DistinctKeys(t)
      /\ Contents(t) \subseteq Contents(s)
      /\ \A k \in {s[i].key : i \in 1..n} : \A e \in Contents(t) : e.key # k
  BY <1>1, DropFrontEntries
<1>4. \A i \in 1..n : i \in 1..Len(s)
  BY <1>1, <1>2
<1>5. EvictedKeys(s) = {s[i].key : i \in 1..n}
  BY DEF EvictedKeys, n
<1>6. EvictedKeys(s) \subseteq {e.key : e \in Contents(s)}
  BY <1>4, <1>5 DEF Contents
<1>7. AfterEviction(s) = t
  BY DEF AfterEviction, n
<1> HIDE DEF t
<1>8. Len(t) <= Len(s)
  BY <1>1, <1>2, <1>3
<1> QED
  BY <1>3, <1>5, <1>6, <1>7, <1>8

\* Taking the entry of a key out of the store.
LEMMA OthersProperties ==
  ASSUME NEW s \in Seq(Entry), DistinctKeys(s), NEW k
  PROVE  /\ Others(s, k) \in Seq(Entry)
         /\ Len(Others(s, k)) = IF k \in KeysOf(s) THEN Len(s) - 1 ELSE Len(s)
         /\ DistinctKeys(Others(s, k))
         /\ \A e \in Contents(Others(s, k)) : e \in Contents(s) /\ e.key # k
         /\ \A e \in Contents(s) : e.key # k => e \in Contents(Others(s, k))
<1>0. Len(s) \in Nat /\ \A i \in 1..Len(s) : s[i] \in Entry
  BY LenProperties, ElementOfSeq
<1>1. CASE k \notin KeysOf(s)
  BY <1>1, <1>0 DEF Others, KeysOf, Contents
<1>2. CASE k \in KeysOf(s)
  <2> DEFINE p == Lookup(s, k)
  <2>1. p \in 1..Len(s) /\ s[p].key = k
    BY <1>2 DEF Lookup, KeysOf
  <2> HIDE DEF p
  <2> DEFINE t == [i \in 1..(Len(s) - 1) |-> IF i < p THEN s[i] ELSE s[i + 1]]
  <2>2. Others(s, k) = t
    BY <1>2 DEF Others, p
  <2> DEFINE at(i) == IF i < p THEN i ELSE i + 1
  <2>3. Len(s) - 1 \in Nat
    BY <1>0, <2>1
  <2>4. \A i \in 1..(Len(s) - 1) : at(i) \in 1..Len(s) /\ at(i) # p /\ t[i] = s[at(i)]
    BY <1>0, <2>1
  <2>5. \A i \in 1..(Len(s) - 1) : t[i] \in Entry
    BY <1>0, <2>4
  <2>6. t \in Seq(Entry) /\ Len(t) = Len(s) - 1
    <3>1. t \in [1..(Len(s) - 1) -> Entry]
      BY <2>5
    <3> HIDE DEF t
    <3>2. t \in Seq(Entry)
      BY <2>3, <3>1, FunctionIsSeq
    <3>3. Len(t) \in Nat /\ 1..Len(t) = 1..(Len(s) - 1)
      BY <3>1, <3>2, LenProperties
    <3> QED
      BY <2>3, <3>2, <3>3
  <2>7. \A i, j \in 1..(Len(s) - 1) : at(i) = at(j) => i = j
    BY <1>0, <2>1
  <2>8. \A j \in 1..Len(s) : j # p => \E i \in 1..(Len(s) - 1) : at(i) = j
    <3> SUFFICES ASSUME NEW j \in 1..Len(s), j # p
                 PROVE  \E i \in 1..(Len(s) - 1) : at(i) = j
      OBVIOUS
    <3>1. CASE j < p
      BY <1>0, <2>1, <3>1
    <3>2. CASE j > p
      <4>1. j - 1 \in 1..(Len(s) - 1) /\ at(j - 1) = j
        BY <1>0, <2>1, <3>2
      <4> QED
        BY <4>1
    <3> QED
      BY <1>0, <2>1, <3>1, <3>2
  <2> HIDE DEF t, at
  <2>9. DistinctKeys(t)
    <3> SUFFICES ASSUME NEW i \in 1..Len(t), NEW j \in 1..Len(t), t[i].key = t[j].key
                 PROVE  i = j
      BY DEF DistinctKeys
    <3>1. at(i) = at(j)
      BY <2>4, <2>6 DEF DistinctKeys
    <3> QED
      BY <2>6, <2>7, <3>1
  <2>10. \A e \in Contents(t) : e \in Contents(s) /\ e.key # k
    BY <2>1, <2>4, <2>6 DEF Contents, DistinctKeys
  <2>11. \A e \in Contents(s) : e.key # k => e \in Contents(t)
    <3> SUFFICES ASSUME NEW j \in 1..Len(s), s[j].key # k
                 PROVE  s[j] \in Contents(t)
      BY DEF Contents
    <3>1. PICK i \in 1..(Len(s) - 1) : at(i) = j
      BY <2>1, <2>8
    <3> QED
      BY <2>4, <2>6, <3>1 DEF Contents
  <2> QED
    BY <1>2, <2>2, <2>6, <2>9, <2>10, <2>11
<1> QED
  BY <1>1, <1>2

\* Putting an entry of a new key at the end.
LEMMA AppendEntry ==
  ASSUME NEW s \in Seq(Entry), DistinctKeys(s), NEW x \in Entry,
         \A e \in Contents(s) : e.key # x.key
  PROVE  /\ Append(s, x) \in Seq(Entry)
         /\ Len(Append(s, x)) = Len(s) + 1
         /\ DistinctKeys(Append(s, x))
         /\ Contents(Append(s, x)) = Contents(s) \cup {x}
<1> DEFINE t == Append(s, x)
<1>1. /\ t \in Seq(Entry) /\ Len(t) = Len(s) + 1 /\ t[Len(s) + 1] = x
      /\ \A i \in 1..Len(s) : t[i] = s[i]
  BY AppendProperties
<1>2. Len(s) \in Nat
  BY LenProperties
<1> HIDE DEF t
<1>3. \A i \in 1..Len(t) : i \in 1..Len(s) \/ i = Len(s) + 1
  BY <1>1, <1>2
<1>4. \A i \in 1..Len(s) : i \in 1..Len(t) /\ s[i].key # x.key
  BY <1>1, <1>2 DEF Contents
<1>5. DistinctKeys(t)
  BY <1>1, <1>3, <1>4 DEF DistinctKeys
<1>6. Len(s) + 1 \in 1..Len(t)
  BY <1>1, <1>2
<1>7. Contents(t) = Contents(s) \cup {x}
  BY <1>1, <1>3, <1>4, <1>6 DEF Contents
<1> QED
  BY <1>1, <1>5, <1>7 DEF t

\* move_to_end keeps the entries.
LEMMA TouchProperties ==
  ASSUME NEW s \in Seq(Entry), DistinctKeys(s), NEW k \in KeysOf(s)
  PROVE  /\ s[Lookup(s, k)] \in Contents(s)
         /\ s[Lookup(s, k)].key = k
         /\ Touch(s, k) \in Seq(Entry)
         /\ Len(Touch(s, k)) = Len(s)
         /\ DistinctKeys(Touch(s, k))
         /\ Contents(Touch(s, k)) = Contents(s)
<1> DEFINE p == Lookup(s, k)  o == Others(s, k)
<1>1. p \in 1..Len(s) /\ s[p].key = k
  BY DEF Lookup, KeysOf
<1>2. /\ o \in Seq(Entry) /\ Len(o) = Len(s) - 1 /\ DistinctKeys(o)
      /\ \A e \in Contents(o) : e \in Contents(s) /\ e.key # k
      /\ \A e \in Contents(s) : e.key # k => e \in Contents(o)
  BY OthersProperties
<1>3. Len(s) \in Nat
  BY LenProperties
<1>4. Touch(s, k) = Append(o, s[p])
  BY DEF Touch
<1> HIDE DEF p, o
<1>5. s[p] \in Entry /\ s[p] \in Contents(s)
  BY <1>1, ElementOfSeq DEF Contents
<1>6. \A e \in Contents(s) : e.key = k => e = s[p]
  BY <1>1 DEF Contents, DistinctKeys
<1>7. /\ Append(o, s[p]) \in Seq(Entry)
      /\ Len(Append(o, s[p])) = Len(o) + 1
      /\ DistinctKeys(Append(o, s[p]))
      /\ Contents(Append(o, s[p])) = Contents(o) \cup {s[p]}
  BY <1>1, <1>2, <1>5, AppendEntry
<1>8. Contents(o) \cup {s[p]} = Contents(s)
  BY <1>2, <1>5, <1>6
<1>9. Len(o) + 1 = Len(s)
  BY <1>2, <1>3
<1> QED
  BY <1>1, <1>4, <1>5, <1>7, <1>8, <1>9 DEF p

\* put: the cap holds, the new entry takes the place of an older one of its
\* key, and nothing is left of a key that was put out.
LEMMA AfterPutProperties ==
  ASSUME NEW s \in Seq(Entry), DistinctKeys(s), NEW x \in Entry
  PROVE  /\ AfterPut(s, x) \in Seq(Entry)
         /\ Len(AfterPut(s, x)) <= Cap
         /\ DistinctKeys(AfterPut(s, x))
         /\ \A e \in Contents(AfterPut(s, x)) :
                e = x \/ (e \in Contents(s) /\ e.key # x.key)
         /\ KeysPutOut(s, x) \subseteq {e.key : e \in Contents(s) \cup {x}}
         /\ \A e \in Contents(AfterPut(s, x)) : e.key \notin KeysPutOut(s, x)
<1> DEFINE o == Others(s, x.key)  u == Put(s, x)
<1>1. /\ o \in Seq(Entry) /\ DistinctKeys(o)
      /\ \A e \in Contents(o) : e \in Contents(s) /\ e.key # x.key
  BY OthersProperties
<1>2. u = Append(o, x)
  BY DEF Put
<1> HIDE DEF o, u
<1>3. u \in Seq(Entry) /\ DistinctKeys(u) /\ Contents(u) = Contents(o) \cup {x}
  BY <1>1, <1>2, AppendEntry
<1> DEFINE n == Overflow(u)
<1>4. Len(u) \in Nat /\ Cap \in Nat
  BY <1>3, LenProperties, IdemAssumption
<1>5. n \in 0..Len(u) /\ Len(u) - n <= Cap
  BY <1>4 DEF Overflow
<1> HIDE DEF n
<1> DEFINE t == SubSeq(u, n + 1, Len(u))
<1>6. /\ t \in Seq(Entry) /\ Len(t) = Len(u) - n /\ DistinctKeys(t)
      /\ Contents(t) \subseteq Contents(u)
      /\ \A k \in {u[i].key : i \in 1..n} : \A e \in Contents(t) : e.key # k
  BY <1>3, <1>5, DropFrontEntries
<1>7. AfterPut(s, x) = t /\ KeysPutOut(s, x) = {u[i].key : i \in 1..n}
  BY DEF AfterPut, KeysPutOut, n, u
<1> HIDE DEF t
<1>8. \A i \in 1..n : i \in 1..Len(u)
  BY <1>4, <1>5
<1>9. {u[i].key : i \in 1..n} \subseteq {e.key : e \in Contents(s) \cup {x}}
  <2>1. \A i \in 1..n : u[i] \in Contents(s) \cup {x}
    BY <1>1, <1>3, <1>8 DEF Contents
  <2> QED
    BY <2>1
<1>10. Len(t) <= Cap
  BY <1>4, <1>5, <1>6
<1> QED
  BY <1>1, <1>3, <1>6, <1>7, <1>9, <1>10

-----------------------------------------------------------------------------
(* What a step does to the store, in terms of its contents.                *)

\* An entry of a caller's store holds the answer of a request of that caller,
\* for the key and the body it is stored with.
EntryOK(c, e) ==
    /\ Replied(e.source, "origin")
    /\ request[e.source].caller = c
    /\ request[e.source].key = e.key
    /\ request[e.source].payload = e.payload

StoreInv ==
    \A c \in Callers :
        /\ DistinctKeys(entries[c])
        /\ Len(entries[c]) <= Cap
        /\ \A e \in Contents(entries[c]) : EntryOK(c, e)

LockMaps == UNION {[K -> Requests] : K \in SUBSET IdemKeys}

\* The entry found by a request that has the lock, and its two outcomes.
Hit(s, r, c, k, p, l, q) ==
    \E hit \in Contents(s) :
        /\ hit.key = k
        /\ request' = [request EXCEPT ![r] = Answered(c, k, p, Reply(hit, p), hit.source)]
        /\ queue' = [queue EXCEPT ![l] = Tail(q)]

Miss(s, r, c, k, p, l, q) ==
    /\ \A e \in Contents(s) : e.key # k
    /\ request' = [request EXCEPT ![r] = Running(c, k, p, l)]
    /\ queue' = [queue EXCEPT ![l] = q]

\* The store of caller c after Enter.
Evicted(s, c) ==
    /\ s \in Seq(Entry)
    /\ DistinctKeys(s)
    /\ Len(s) <= Len(entries[c])
    /\ Contents(s) \subseteq Contents(entries[c])
    /\ EvictedKeys(entries[c]) \subseteq {e.key : e \in Contents(entries[c])}
    /\ \A e \in Contents(s) : e.key \notin EvictedKeys(entries[c])

\* The step after "async with lock" only evicts, and finds the key or not.
LEMMA EnterEffect ==
  ASSUME NEW r, NEW c \in Callers, NEW k, NEW p, NEW l, NEW q, NEW lks,
         TypeOK, StoreInv, Enter(r, c, k, p, l, q, lks)
  PROVE  \E s : /\ Evicted(s, c)
                /\ entries' = [entries EXCEPT ![c] = s]
                /\ locks' = [locks EXCEPT ![c] = Without(lks, EvictedKeys(entries[c]))]
                /\ clock' = clock
                /\ Hit(s, r, c, k, p, l, q) \/ Miss(s, r, c, k, p, l, q)
<1> DEFINE old == entries[c]  kept == AfterEviction(entries[c])
<1>1. old \in Seq(Entry) /\ DistinctKeys(old)
  BY DEF TypeOK, StoreInv
<1>2. /\ kept \in Seq(Entry) /\ Len(kept) <= Len(old) /\ DistinctKeys(kept)
      /\ Contents(kept) \subseteq Contents(old)
      /\ EvictedKeys(old) \subseteq {e.key : e \in Contents(old)}
      /\ \A e \in Contents(kept) : e.key \notin EvictedKeys(old)
  <2> HIDE DEF old
  <2>1. \A s \in Seq(Entry) : DistinctKeys(s) =>
           /\ AfterEviction(s) \in Seq(Entry)
           /\ Len(AfterEviction(s)) <= Len(s)
           /\ DistinctKeys(AfterEviction(s))
           /\ Contents(AfterEviction(s)) \subseteq Contents(s)
           /\ EvictedKeys(s) \subseteq {e.key : e \in Contents(s)}
           /\ \A e \in Contents(AfterEviction(s)) : e.key \notin EvictedKeys(s)
    BY EvictionProperties
  <2> QED
    BY <1>1, <2>1 DEF old
<1>3. /\ locks' = [locks EXCEPT ![c] = Without(lks, EvictedKeys(entries[c]))]
      /\ clock' = clock
  BY DEF Enter
<1>4. CASE k \in KeysOf(kept)
  <2> DEFINE hit == kept[Lookup(kept, k)]
  <2>1. /\ entries' = [entries EXCEPT ![c] = Touch(kept, k)]
        /\ request' = [request EXCEPT ![r] = Answered(c, k, p, Reply(hit, p), hit.source)]
        /\ queue' = [queue EXCEPT ![l] = Tail(q)]
    BY <1>4 DEF Enter
  <2>2. /\ hit \in Contents(kept) /\ hit.key = k
        /\ Touch(kept, k) \in Seq(Entry) /\ Len(Touch(kept, k)) = Len(kept)
        /\ DistinctKeys(Touch(kept, k)) /\ Contents(Touch(kept, k)) = Contents(kept)
    <3> HIDE DEF kept
    <3> QED
      BY <1>2, <1>4, TouchProperties
  <2> HIDE DEF kept, hit
  <2>3. Hit(Touch(kept, k), r, c, k, p, l, q)
    BY <2>1, <2>2 DEF Hit
  <2>4. Evicted(Touch(kept, k), c)
    BY <1>2, <2>2 DEF Evicted
  <2> QED
    BY <1>3, <2>1, <2>3, <2>4
<1>5. CASE k \notin KeysOf(kept)
  <2>1. /\ entries' = [entries EXCEPT ![c] = kept]
        /\ request' = [request EXCEPT ![r] = Running(c, k, p, l)]
        /\ queue' = [queue EXCEPT ![l] = q]
    BY <1>5 DEF Enter
  <2> HIDE DEF kept
  <2>2. \A e \in Contents(kept) : e.key # k
    BY <1>5 DEF KeysOf, Contents
  <2>3. Miss(kept, r, c, k, p, l, q)
    BY <2>1, <2>2 DEF Miss
  <2>4. Evicted(kept, c)
    BY <1>2 DEF Evicted
  <2> QED
    BY <1>3, <2>1, <2>3, <2>4
<1> QED
  BY <1>4, <1>5

\* What put does to the store of caller c, e being the new entry.
Stores(s, c, x) ==
    /\ s \in Seq(Entry)
    /\ DistinctKeys(s)
    /\ Len(s) <= Cap
    /\ \A e \in Contents(s) : e = x \/ (e \in Contents(entries[c]) /\ e.key # x.key)
    /\ KeysPutOut(entries[c], x) \subseteq {e.key : e \in Contents(entries[c]) \cup {x}}
    /\ \A e \in Contents(s) : e.key \notin KeysPutOut(entries[c], x)

\* put, applied to the store of a caller, does what Stores says.
LEMMA PutEffect ==
  ASSUME NEW c \in Callers, NEW x \in Entry, TypeOK, StoreInv
  PROVE  Stores(AfterPut(entries[c], x), c, x)
<1> DEFINE old == entries[c]
<1>1. old \in Seq(Entry) /\ DistinctKeys(old)
  BY DEF TypeOK, StoreInv
<1> HIDE DEF old
<1>2. /\ AfterPut(old, x) \in Seq(Entry)
      /\ Len(AfterPut(old, x)) <= Cap
      /\ DistinctKeys(AfterPut(old, x))
      /\ \A e \in Contents(AfterPut(old, x)) : e = x \/ (e \in Contents(old) /\ e.key # x.key)
      /\ KeysPutOut(old, x) \subseteq {e.key : e \in Contents(old) \cup {x}}
      /\ \A e \in Contents(AfterPut(old, x)) : e.key \notin KeysPutOut(old, x)
  BY <1>1, AfterPutProperties
<1> QED
  BY <1>2 DEF Stores, old

-----------------------------------------------------------------------------
(* The store: types, entries and the answers given from it.                *)

\* What is known of a request follows from where it is.
LEMMA RequestShape ==
  ASSUME TypeOK, NEW r \in Requests
  PROVE  /\ request[r].at = "client" => request[r] = Idle
         /\ request[r].at \in {"lock", "origin"} => request[r] \in Asking
         /\ request[r].at = "answered" => request[r] \in Done
  BY DEF TypeOK, Idle, Asking, Done

\* Removing keys from a map of locks, and adding one.
LEMMA LockMapProperties ==
  ASSUME NEW f \in LockMaps
  PROVE  /\ \A K : Without(f, K) \in LockMaps
         /\ \A k \in IdemKeys, l \in Requests :
               [x \in DOMAIN f \cup {k} |-> IF x = k THEN l ELSE f[x]] \in LockMaps
         /\ \A k \in DOMAIN f : f[k] \in Requests
<1>1. PICK D \in SUBSET IdemKeys : f \in [D -> Requests]
  BY DEF LockMaps
<1>2. ASSUME NEW K
      PROVE  Without(f, K) \in LockMaps
  <2>1. Without(f, K) \in [D \ K -> Requests]
    BY <1>1 DEF Without
  <2>2. D \ K \in SUBSET IdemKeys
    OBVIOUS
  <2> QED
    BY <2>1, <2>2 DEF LockMaps
<1>3. ASSUME NEW k \in IdemKeys, NEW l \in Requests
      PROVE  [x \in DOMAIN f \cup {k} |-> IF x = k THEN l ELSE f[x]] \in LockMaps
  <2>1. [x \in DOMAIN f \cup {k} |-> IF x = k THEN l ELSE f[x]] \in [D \cup {k} -> Requests]
    BY <1>1
  <2>2. D \cup {k} \in SUBSET IdemKeys
    OBVIOUS
  <2> QED
    BY <2>1, <2>2 DEF LockMaps
<1> QED
  BY <1>1, <1>2, <1>3

\* The elements of a sequence of entries, typed.
LEMMA ContentsType ==
  ASSUME NEW s \in Seq(Entry)
  PROVE  Contents(s) \subseteq Entry
  BY ElementOfSeq DEF Contents

\* A request that gets the lock changes no answer that was given before.
LEMMA EnterKeepsAnswers ==
  ASSUME NEW s, NEW r \in Requests, NEW c, NEW k, NEW p, NEW l, NEW q,
         TypeOK, request[r].at # "answered",
         Hit(s, r, c, k, p, l, q) \/ Miss(s, r, c, k, p, l, q)
  PROVE  /\ \A x \in Requests : x # r => request'[x] = request[x]
         /\ \A x \in Requests : Replied(x, "origin") <=> Replied(x, "origin")'
         /\ \A x \in Requests : Replied(x, "origin") => request'[x] = request[x]
<1>1. \A x \in Requests : x # r => request'[x] = request[x]
  BY DEF Hit, Miss, TypeOK
<1>2. ~ Replied(r, "origin")
  BY DEF Replied
<1>3. ~ Replied(r, "origin")'
  <2>1. CASE Hit(s, r, c, k, p, l, q)
    BY <2>1 DEF Hit, TypeOK, Answered, Reply, Replied
  <2>2. CASE Miss(s, r, c, k, p, l, q)
    BY <2>2 DEF Miss, TypeOK, Running, Replied
  <2> QED
    BY <2>1, <2>2
<1> QED
  BY <1>1, <1>2, <1>3 DEF Replied

\* ReplayMatchesOrigin, of one request.
AnswerOK(r) ==
    LET q == request[r].source
    IN  /\ Replied(r, "replay") =>
               /\ Replied(q, "origin") /\ SameKey(q, r)
               /\ request[q].payload = request[r].payload
        /\ Replied(r, "conflict") =>
               /\ Replied(q, "origin") /\ SameKey(q, r)
               /\ request[q].payload # request[r].payload

AnswersInv == TypeOK /\ StoreInv /\ ReplayMatchesOrigin

\* The step of a request that has just got the lock keeps the store right.
LEMMA EnterAnswers ==
  ASSUME AnswersInv, NEW r \in Requests, request[r].at # "answered",
         NEW c \in Callers, NEW k \in IdemKeys, NEW p \in Payloads, NEW l \in Requests,
         NEW q \in Seq(Requests), q # << >>, NEW lks \in LockMaps,
         Enter(r, c, k, p, l, q, lks)
  PROVE  AnswersInv'
<1> USE DEF AnswersInv
<1>1. PICK s : /\ Evicted(s, c)
               /\ entries' = [entries EXCEPT ![c] = s]
               /\ locks' = [locks EXCEPT ![c] = Without(lks, EvictedKeys(entries[c]))]
               /\ clock' = clock
               /\ Hit(s, r, c, k, p, l, q) \/ Miss(s, r, c, k, p, l, q)
  BY EnterEffect
<1>2. /\ \A x \in Requests : x # r => request'[x] = request[x]
      /\ \A x \in Requests : Replied(x, "origin") <=> Replied(x, "origin")'
      /\ \A x \in Requests : Replied(x, "origin") => request'[x] = request[x]
  BY <1>1, EnterKeepsAnswers
<1>3. \A e \in Contents(s) : e \in Entry /\ EntryOK(c, e) /\ e.storedAt <= clock
  <2>1. Contents(s) \subseteq Entry
    BY <1>1, ContentsType DEF Evicted
  <2>2. \A e \in Contents(entries[c]) : EntryOK(c, e) /\ e.storedAt <= clock
    BY DEF StoreInv, TypeOK, Contents
  <2> QED
    BY <1>1, <2>1, <2>2 DEF Evicted
<1>4. TypeOK'
  <2>1. (clock \in 0..MaxClock)'
    BY <1>1 DEF TypeOK
  <2>2. (entries \in [Callers -> Seq(Entry)])'
    BY <1>1 DEF TypeOK, Evicted
  <2>3. (\A d \in Callers : \A i \in 1..Len(entries[d]) : entries[d][i].storedAt <= clock)'
    BY <1>1, <1>3 DEF TypeOK, Contents
  <2>4. (locks \in [Callers -> LockMaps])'
    <3>1. Without(lks, EvictedKeys(entries[c])) \in LockMaps
      BY LockMapProperties
    <3> QED
      BY <1>1, <3>1 DEF TypeOK, LockMaps
  <2>5. (queue \in [Requests -> Seq(Requests)])'
    <3>1. Tail(q) \in Seq(Requests)
      BY HeadTailProperties
    <3> QED
      BY <1>1, <3>1 DEF TypeOK, Hit, Miss
  <2>6. (request \in [Requests -> {Idle} \cup Asking \cup Done])'
    <3>1. CASE Hit(s, r, c, k, p, l, q)
      <4>1. PICK hit \in Contents(s) :
               request' = [request EXCEPT ![r] = Answered(c, k, p, Reply(hit, p), hit.source)]
        BY <3>1 DEF Hit
      <4>2. hit.source \in Requests /\ Reply(hit, p) \in {"replay", "conflict"}
        BY <1>3 DEF Entry, Reply
      <4>3. Answered(c, k, p, Reply(hit, p), hit.source) \in Done
        BY <4>2 DEF Answered, Done
      <4> QED
        BY <4>1, <4>3 DEF TypeOK
    <3>2. CASE Miss(s, r, c, k, p, l, q)
      <4>1. Running(c, k, p, l) \in Asking
        BY DEF Running, Asking
      <4> QED
        BY <3>2, <4>1 DEF Miss, TypeOK
    <3> QED
      BY <1>1, <3>1, <3>2
  <2> QED
    BY <2>1, <2>2, <2>3, <2>4, <2>5, <2>6 DEF TypeOK, LockMaps
<1>5. StoreInv'
  <2> SUFFICES ASSUME NEW d \in Callers
               PROVE  /\ DistinctKeys(entries'[d])
                      /\ Len(entries'[d]) <= Cap
                      /\ \A e \in Contents(entries'[d]) : EntryOK(d, e)'
    BY DEF StoreInv
  <2>1. /\ Contents(entries'[d]) \subseteq Contents(entries[d])
        /\ DistinctKeys(entries'[d])
        /\ Len(entries'[d]) <= Len(entries[d])
    BY <1>1 DEF TypeOK, Evicted, StoreInv
  <2>2. Len(entries'[d]) <= Cap
    <3>1. Len(entries'[d]) \in Nat /\ Len(entries[d]) \in Nat /\ Cap \in Nat
      BY <1>4, LenProperties, IdemAssumption DEF TypeOK
    <3> QED
      BY <2>1, <3>1 DEF StoreInv
  <2>3. ASSUME NEW e \in Contents(entries'[d])
        PROVE  EntryOK(d, e)'
    <3>1. EntryOK(d, e) /\ e \in Entry
      BY <2>1, ContentsType DEF StoreInv, TypeOK
    <3> QED
      BY <1>2, <3>1 DEF EntryOK, Entry
  <2> QED
    BY <2>1, <2>2, <2>3
<1>6. ReplayMatchesOrigin'
  <2> SUFFICES ASSUME NEW x \in Requests
               PROVE  AnswerOK(x)'
    BY DEF ReplayMatchesOrigin, AnswerOK
  <2> USE DEF AnswerOK, Replied, SameKey
  <2>1. CASE x # r
    <3> SUFFICES ASSUME Replied(x, "replay") \/ Replied(x, "conflict")
                 PROVE  AnswerOK(x)'
      BY <1>2, <2>1
    <3>1. PICK y \in Requests : y = request[x].source
      BY RequestShape DEF Done
    <3>2. AnswerOK(x) /\ Replied(y, "origin")
      BY <3>1 DEF ReplayMatchesOrigin
    <3>3. request'[y] = request[y] /\ request'[x] = request[x]
      BY <1>2, <2>1, <3>2
    <3> QED
      BY <3>1, <3>2, <3>3
  <2>2. CASE x = r
    <3> SUFFICES ASSUME Replied(x, "replay")' \/ Replied(x, "conflict")'
                 PROVE  AnswerOK(x)'
      OBVIOUS
    <3>1. PICK hit \in Contents(s) :
             /\ hit.key = k
             /\ request' = [request EXCEPT ![r] = Answered(c, k, p, Reply(hit, p), hit.source)]
      <4>1. ~ Miss(s, r, c, k, p, l, q)
        BY <2>2 DEF Miss, Running, TypeOK
      <4> QED
        BY <1>1, <4>1 DEF Hit
    <3>2. EntryOK(c, hit) /\ hit.source \in Requests
      BY <1>3 DEF Entry
    <3>3. request'[r] = Answered(c, k, p, Reply(hit, p), hit.source)
      BY <3>1 DEF TypeOK
    <3>4. request'[hit.source] = request[hit.source]
      BY <1>2, <3>2 DEF EntryOK
    <3> QED
      BY <2>2, <3>1, <3>2, <3>3, <3>4 DEF EntryOK, Answered, Reply
  <2> QED
    BY <2>1, <2>2
<1> QED
  BY <1>4, <1>5, <1>6

-----------------------------------------------------------------------------
(* The locks: who is in the queue of which lock.                           *)

InLine(r) == request[r].at \in {"lock", "origin"}

\* What holds of the queue of one lock: its members hold that lock or wait for
\* it, only the head may be in its origin handler, and nobody is there twice.
QueueOK(l) ==
    /\ \A i \in 1..Len(queue[l]) :
           /\ InLine(queue[l][i])
           /\ request[queue[l][i]].lock = l
           /\ i # 1 => request[queue[l][i]].at = "lock"
    /\ \A i, j \in 1..Len(queue[l]) : queue[l][i] = queue[l][j] => i = j

\* A request that holds or awaits a lock is in the queue of that lock.
InItsQueue(r) ==
    InLine(r) => \E i \in 1..Len(queue[request[r].lock]) : queue[request[r].lock][i] = r

QueueInv ==
    /\ \A l \in Requests : QueueOK(l)
    /\ \A r \in Requests : InItsQueue(r)

\* The queue of a lock that somebody holds is not empty, and the one whose
\* origin handler runs is its head.
LEMMA HolderIsHead ==
  ASSUME TypeOK, QueueInv, NEW r \in Requests, InLine(r)
  PROVE  /\ request[r].lock \in Requests
         /\ queue[request[r].lock] \in Seq(Requests)
         /\ queue[request[r].lock] # << >>
         /\ request[r].at = "origin" => queue[request[r].lock][1] = r
<1>1. PICK l \in Requests : l = request[r].lock
  BY RequestShape DEF InLine, Asking
<1>2. queue[l] \in Seq(Requests) /\ Len(queue[l]) \in Nat
  BY LenProperties DEF TypeOK
<1>3. PICK i \in 1..Len(queue[l]) : queue[l][i] = r
  BY <1>1 DEF QueueInv, InItsQueue
<1>4. queue[l] # << >>
  BY <1>2, <1>3
<1>5. request[r].at = "origin" => i = 1
  BY <1>3 DEF QueueInv, QueueOK
<1> QED
  BY <1>1, <1>2, <1>3, <1>4, <1>5

\* A request joins the end of the queue of a lock.
LEMMA QueueJoin ==
  ASSUME TypeOK, QueueInv, NEW r \in Requests, NEW l \in Requests, NEW x,
         ~ InLine(r), x.at \in {"lock", "origin"}, x.lock = l,
         queue[l] # << >> => x.at = "lock",
         queue' = [queue EXCEPT ![l] = Append(queue[l], r)],
         request' = [request EXCEPT ![r] = x]
  PROVE  QueueInv'
<1>1. /\ request'[r] = x
      /\ \A y \in Requests : y # r => request'[y] = request[y]
      /\ \A m \in Requests : m # l => queue'[m] = queue[m]
  BY DEF TypeOK
<1>2. /\ \A m \in Requests : queue[m] \in Seq(Requests) /\ Len(queue[m]) \in Nat
      /\ \A m \in Requests : \A i \in 1..Len(queue[m]) : queue[m][i] \in Requests
      /\ \A m \in Requests : \A i \in 1..Len(queue[m]) : queue[m][i] # r
  BY LenProperties, ElementOfSeq DEF TypeOK, QueueInv, QueueOK
<1>3. /\ Len(queue'[l]) = Len(queue[l]) + 1
      /\ queue'[l][Len(queue[l]) + 1] = r
      /\ \A i \in 1..Len(queue[l]) : queue'[l][i] = queue[l][i]
  <2>1. queue'[l] = Append(queue[l], r)
    BY DEF TypeOK
  <2> QED
    BY <1>2, <2>1, AppendProperties
<1>4. Len(queue[l]) # 0 => x.at = "lock"
  BY <1>2
<1>5. ASSUME NEW m \in Requests
      PROVE  QueueOK(m)'
  <2>1. CASE m # l
    BY <1>1, <1>2, <2>1 DEF QueueInv, QueueOK, InLine
  <2>2. CASE m = l
    <3>1. \A i \in 1..Len(queue'[l]) : i \in 1..Len(queue[l]) \/ i = Len(queue[l]) + 1
      BY <1>2, <1>3
    <3>2. ASSUME NEW i \in 1..Len(queue'[l])
          PROVE  /\ InLine(queue[l][i])'
                 /\ request'[queue'[l][i]].lock = l
                 /\ i # 1 => request'[queue'[l][i]].at = "lock"
      <4>1. CASE i \in 1..Len(queue[l])
        BY <1>1, <1>2, <1>3, <4>1 DEF QueueInv, QueueOK, InLine
      <4>2. CASE i = Len(queue[l]) + 1
        BY <1>1, <1>2, <1>3, <1>4, <4>2 DEF InLine
      <4> QED
        BY <3>1, <4>1, <4>2
    <3>3. ASSUME NEW i \in 1..Len(queue'[l]), NEW j \in 1..Len(queue'[l]),
                 queue'[l][i] = queue'[l][j]
          PROVE  i = j
      BY <1>2, <1>3, <3>1, <3>3 DEF QueueInv, QueueOK
    <3> QED
      BY <2>2, <3>2, <3>3 DEF QueueOK
  <2> QED
    BY <2>1, <2>2
<1>6. ASSUME NEW y \in Requests
      PROVE  InItsQueue(y)'
  <2>1. CASE y = r
    <3>1. Len(queue[l]) + 1 \in 1..Len(queue'[l])
      BY <1>2, <1>3
    <3> QED
      BY <1>1, <1>3, <2>1, <3>1 DEF InItsQueue
  <2>2. CASE y # r
    <3> SUFFICES ASSUME InLine(y)'
                 PROVE  \E i \in 1..Len(queue'[request'[y].lock]) : queue'[request'[y].lock][i] = y
      BY DEF InItsQueue
    <3>1. InLine(y) /\ request'[y] = request[y]
      BY <1>1, <2>2 DEF InLine
    <3>2. PICK m \in Requests : m = request[y].lock
      BY <3>1, RequestShape DEF InLine, Asking
    <3>3. PICK i \in 1..Len(queue[m]) : queue[m][i] = y
      BY <3>1, <3>2 DEF QueueInv, InItsQueue
    <3>4. i \in 1..Len(queue'[m]) /\ queue'[m][i] = y
      BY <1>1, <1>2, <1>3, <3>3
    <3> QED
      BY <3>1, <3>2, <3>4
  <2> QED
    BY <2>1, <2>2
<1> QED
  BY <1>5, <1>6 DEF QueueInv

\* The head of the queue of a lock releases it.
LEMMA QueueLeave ==
  ASSUME TypeOK, QueueInv, NEW r \in Requests, NEW l \in Requests, NEW x,
         InLine(r), request[r].lock = l, queue[l][1] = r, x.at = "answered",
         queue' = [queue EXCEPT ![l] = Tail(queue[l])],
         request' = [request EXCEPT ![r] = x]
  PROVE  QueueInv'
<1>1. /\ request'[r] = x
      /\ \A y \in Requests : y # r => request'[y] = request[y]
      /\ \A m \in Requests : m # l => queue'[m] = queue[m]
  BY DEF TypeOK
<1>2. /\ \A m \in Requests : queue[m] \in Seq(Requests) /\ Len(queue[m]) \in Nat
      /\ \A m \in Requests : \A i \in 1..Len(queue[m]) : queue[m][i] \in Requests
  BY LenProperties, ElementOfSeq DEF TypeOK
<1>3. /\ Len(queue'[l]) = Len(queue[l]) - 1
      /\ \A i \in 1..Len(queue'[l]) : queue'[l][i] = queue[l][i + 1]
  <2> DEFINE q == queue[l]
  <2>1. queue'[l] = Tail(q)
    BY DEF TypeOK
  <2>2. q \in Seq(Requests) /\ q # << >>
    BY <1>2, HolderIsHead
  <2> HIDE DEF q
  <2>3. Len(Tail(q)) = Len(q) - 1 /\ \A i \in 1..Len(Tail(q)) : Tail(q)[i] = q[i + 1]
    BY <2>2, HeadTailProperties
  <2> QED
    BY <2>1, <2>3 DEF q
<1>4. \A i \in 1..Len(queue'[l]) :
          i + 1 \in 1..Len(queue[l]) /\ i + 1 # 1 /\ queue[l][i + 1] # r
  <2>1. \A i \in 1..Len(queue'[l]) : i + 1 \in 1..Len(queue[l]) /\ i + 1 # 1 /\ 1 \in 1..Len(queue[l])
    BY <1>2, <1>3
  <2>2. \A i, j \in 1..Len(queue[l]) : queue[l][i] = queue[l][j] => i = j
    BY DEF QueueInv, QueueOK
  <2> QED
    BY <2>1, <2>2
<1>5. \A m \in Requests : m # l => \A i \in 1..Len(queue[m]) : queue[m][i] # r
  BY DEF QueueInv, QueueOK
<1>6. ASSUME NEW m \in Requests
      PROVE  QueueOK(m)'
  <2>1. CASE m # l
    BY <1>1, <1>2, <1>5, <2>1 DEF QueueInv, QueueOK, InLine
  <2>2. CASE m = l
    <3>1. ASSUME NEW i \in 1..Len(queue'[l])
          PROVE  /\ InLine(queue[l][i])'
                 /\ request'[queue'[l][i]].lock = l
                 /\ i # 1 => request'[queue'[l][i]].at = "lock"
      BY <1>1, <1>2, <1>3, <1>4 DEF QueueInv, QueueOK, InLine
    <3>2. ASSUME NEW i \in 1..Len(queue'[l]), NEW j \in 1..Len(queue'[l]),
                 queue'[l][i] = queue'[l][j]
          PROVE  i = j
      <4>1. i + 1 = j + 1
        BY <1>3, <1>4, <3>2 DEF QueueInv, QueueOK
      <4> QED
        BY <4>1
    <3> QED
      BY <2>2, <3>1, <3>2 DEF QueueOK
  <2> QED
    BY <2>1, <2>2
<1>7. ASSUME NEW y \in Requests
      PROVE  InItsQueue(y)'
  <2> SUFFICES ASSUME InLine(y)'
               PROVE  \E i \in 1..Len(queue'[request'[y].lock]) : queue'[request'[y].lock][i] = y
    BY DEF InItsQueue
  <2>1. InLine(y) /\ request'[y] = request[y] /\ y # r
    BY <1>1 DEF InLine
  <2>2. PICK m \in Requests : m = request[y].lock
    BY <2>1, RequestShape DEF InLine, Asking
  <2>3. PICK i \in 1..Len(queue[m]) : queue[m][i] = y
    BY <2>1, <2>2 DEF QueueInv, InItsQueue
  <2>4. CASE m # l
    BY <1>1, <2>1, <2>2, <2>3, <2>4
  <2>5. CASE m = l
    <3>1. i - 1 \in 1..Len(queue'[l]) /\ (i - 1) + 1 = i
      BY <1>2, <1>3, <2>1, <2>3, <2>5
    <3>2. queue'[m][i - 1] = y
      BY <1>3, <2>3, <2>5, <3>1
    <3> QED
      BY <2>1, <2>2, <2>5, <3>1, <3>2
  <2> QED
    BY <2>4, <2>5
<1> QED
  BY <1>6, <1>7 DEF QueueInv

\* A request stays where it is in its queue, or is answered without having been
\* in one.
LEMMA QueueStay ==
  ASSUME TypeOK, QueueInv, NEW r \in Requests, NEW x,
         \/ /\ InLine(r) /\ queue[request[r].lock][1] = r
            /\ x.at \in {"lock", "origin"} /\ x.lock = request[r].lock
         \/ ~ InLine(r) /\ x.at \notin {"lock", "origin"},
         queue' = queue,
         request' = [request EXCEPT ![r] = x]
  PROVE  QueueInv'
<1>1. /\ request'[r] = x
      /\ \A y \in Requests : y # r => request'[y] = request[y]
  BY DEF TypeOK
<1>2. /\ \A m \in Requests : Len(queue[m]) \in Nat
      /\ \A m \in Requests : \A i \in 1..Len(queue[m]) : queue[m][i] \in Requests
  BY LenProperties, ElementOfSeq DEF TypeOK
<1>3. ASSUME NEW m \in Requests
      PROVE  QueueOK(m)'
  <2>1. ASSUME NEW i \in 1..Len(queue[m])
        PROVE  /\ InLine(queue[m][i])'
               /\ request'[queue[m][i]].lock = m
               /\ i # 1 => request'[queue[m][i]].at = "lock"
    <3>1. CASE queue[m][i] # r
      BY <1>1, <1>2, <3>1 DEF QueueInv, QueueOK, InLine
    <3>2. CASE queue[m][i] = r
      <4>1. InLine(r) /\ request[r].lock = m /\ queue[m][1] = r
        BY <3>2 DEF QueueInv, QueueOK
      <4>2. 1 \in 1..Len(queue[m])
        BY <1>2
      <4>3. i = 1
        BY <3>2, <4>1, <4>2 DEF QueueInv, QueueOK
      <4> QED
        BY <1>1, <3>2, <4>1, <4>3 DEF InLine
    <3> QED
      BY <3>1, <3>2
  <2> QED
    BY <2>1 DEF QueueInv, QueueOK
<1>4. ASSUME NEW y \in Requests
      PROVE  InItsQueue(y)'
  BY <1>1 DEF QueueInv, InItsQueue, InLine
<1> QED
  BY <1>3, <1>4 DEF QueueInv

-----------------------------------------------------------------------------
(* The steps that leave the store as it is, and the one that stores.       *)

\* A request that waits, or whose answer is not stored, changes no answer.
LEMMA UnstoredAnswers ==
  ASSUME AnswersInv, NEW r \in Requests, request[r].at # "answered",
         NEW x \in Asking \cup Done, x.at = "answered" => x.reply = "retryable",
         request' = [request EXCEPT ![r] = x],
         entries' = entries, clock' = clock,
         locks' \in [Callers -> LockMaps],
         queue' \in [Requests -> Seq(Requests)]
  PROVE  AnswersInv'
<1> USE DEF AnswersInv
<1>1. /\ request'[r] = x
      /\ \A y \in Requests : y # r => request'[y] = request[y]
  BY DEF TypeOK
<1>2. TypeOK'
  <2>1. (request \in [Requests -> {Idle} \cup Asking \cup Done])'
    BY DEF TypeOK
  <2> QED
    BY <2>1 DEF TypeOK, LockMaps
<1>3. \A y \in Requests : Replied(y, "origin") => request'[y] = request[y]
  BY <1>1 DEF Replied
<1>4. StoreInv'
  <2>1. \A c \in Callers : \A e \in Contents(entries[c]) : e \in Entry /\ EntryOK(c, e)
    BY ContentsType DEF StoreInv, TypeOK
  <2>2. \A c \in Callers : \A e \in Contents(entries[c]) : EntryOK(c, e)'
    BY <1>3, <2>1 DEF EntryOK, Replied, Entry
  <2> QED
    BY <2>2 DEF StoreInv
<1>5. ReplayMatchesOrigin'
  <2> SUFFICES ASSUME NEW z \in Requests
               PROVE  AnswerOK(z)'
    BY DEF ReplayMatchesOrigin, AnswerOK
  <2> USE DEF AnswerOK, Replied, SameKey
  <2>1. CASE z = r
    BY <1>1, <2>1
  <2>2. CASE z # r
    <3> SUFFICES ASSUME Replied(z, "replay") \/ Replied(z, "conflict")
                 PROVE  AnswerOK(z)'
      BY <1>1, <2>2
    <3>1. PICK y \in Requests : y = request[z].source
      BY RequestShape DEF Done
    <3>2. AnswerOK(z) /\ Replied(y, "origin")
      BY <3>1 DEF ReplayMatchesOrigin
    <3>3. request'[y] = request[y] /\ request'[z] = request[z]
      BY <1>1, <1>3, <2>2, <3>2
    <3> QED
      BY <3>1, <3>2, <3>3
  <2> QED
    BY <2>1, <2>2
<1> QED
  BY <1>2, <1>4, <1>5

\* Time passes, and nothing else.
LEMMA TickAnswers ==
  ASSUME AnswersInv, Tick
  PROVE  AnswersInv'
<1> USE DEF AnswersInv, Tick
<1>1. TypeOK'
  <2>1. clock \in Nat /\ clock' \in 0..MaxClock /\ clock' = clock + 1
    BY IdemAssumption DEF TypeOK
  <2>2. \A c \in Callers : \A i \in 1..Len(entries[c]) : entries[c][i].storedAt <= clock'
    <3>1. \A c \in Callers : \A i \in 1..Len(entries[c]) :
             entries[c][i].storedAt \in Nat /\ entries[c][i].storedAt <= clock
      <4>1. \A s \in Seq(Entry) : \A i \in 1..Len(s) : s[i] \in Entry
        BY ElementOfSeq
      <4>2. \A e \in Entry : e.storedAt \in Nat
        BY DEF Entry
      <4> QED
        BY <4>1, <4>2 DEF TypeOK
    <3> QED
      BY <2>1, <3>1
  <2> QED
    BY <2>1, <2>2 DEF TypeOK
<1>2. StoreInv'
  BY DEF StoreInv, EntryOK, Replied
<1>3. ReplayMatchesOrigin'
  BY DEF ReplayMatchesOrigin, SameKey, Replied
<1> QED
  BY <1>1, <1>2, <1>3

\* What FinishCacheable does, given that its request heads its queue.
LEMMA StoredAnswers ==
  ASSUME AnswersInv, NEW r \in Requests, FinishCacheable(r),
         queue' \in [Requests -> Seq(Requests)]
  PROVE  AnswersInv'
<1> USE DEF AnswersInv
<1>1. request[r] \in Asking
  BY RequestShape DEF FinishCacheable
<1>2. PICK c \in Callers, k \in IdemKeys, p \in Payloads :
         request[r].caller = c /\ request[r].key = k /\ request[r].payload = p
  BY <1>1 DEF Asking
<1>a. PICK x : x = Cached(k, p, r)
  OBVIOUS
<1>b. PICK s : s = AfterPut(entries[c], x)
  OBVIOUS
<1>3. /\ entries' = [entries EXCEPT ![c] = s]
      /\ locks' = [locks EXCEPT ![c] = Without(locks[c], KeysPutOut(entries[c], x))]
      /\ request' = [request EXCEPT ![r] = Answered(c, k, p, "origin", r)]
      /\ clock' = clock
  BY <1>2, <1>a, <1>b DEF FinishCacheable
<1>4. /\ x \in Entry
      /\ x.source = r /\ x.key = k /\ x.payload = p /\ x.storedAt = clock
  BY <1>a, IdemAssumption DEF Cached, Entry, TypeOK
<1>5. Stores(s, c, x)
  BY <1>4, <1>b, PutEffect
<1>6. /\ request'[r] = Answered(c, k, p, "origin", r)
      /\ \A y \in Requests : y # r => request'[y] = request[y]
  BY <1>3 DEF TypeOK
<1>7. ~ Replied(r, "origin") /\ ~ Replied(r, "replay") /\ ~ Replied(r, "conflict")
  BY DEF FinishCacheable, Replied
<1>8. \A y \in Requests : Replied(y, "origin") => request'[y] = request[y]
  BY <1>6, <1>7
<1>9. EntryOK(c, x)'
  BY <1>4, <1>6 DEF EntryOK, Replied, Answered
<1>10. TypeOK'
  <2>1. (clock \in 0..MaxClock)'
    BY <1>3 DEF TypeOK
  <2>2. (entries \in [Callers -> Seq(Entry)])'
    BY <1>3, <1>5 DEF TypeOK, Stores
  <2>3. (\A d \in Callers : \A i \in 1..Len(entries[d]) : entries[d][i].storedAt <= clock)'
    <3>1. clock \in Nat
      BY IdemAssumption DEF TypeOK
    <3>2. \A e \in Contents(entries[c]) : e.storedAt <= clock
      BY DEF TypeOK, Contents
    <3>3. \A e \in Contents(s) : e.storedAt <= clock
      BY <1>4, <1>5, <3>1, <3>2 DEF Stores
    <3> QED
      BY <1>3, <3>3 DEF TypeOK, Contents
  <2>4. (locks \in [Callers -> LockMaps])'
    <3>1. locks[c] \in LockMaps
      BY DEF TypeOK, LockMaps
    <3>2. Without(locks[c], KeysPutOut(entries[c], x)) \in LockMaps
      BY <3>1, LockMapProperties
    <3> QED
      BY <1>3, <3>2 DEF TypeOK, LockMaps
  <2>5. (request \in [Requests -> {Idle} \cup Asking \cup Done])'
    <3>1. Answered(c, k, p, "origin", r) \in Done
      BY DEF Answered, Done
    <3> QED
      BY <1>3, <3>1 DEF TypeOK
  <2> QED
    BY <2>1, <2>2, <2>3, <2>4, <2>5 DEF TypeOK, LockMaps
<1>11. StoreInv'
  <2> SUFFICES ASSUME NEW d \in Callers
               PROVE  /\ DistinctKeys(entries'[d])
                      /\ Len(entries'[d]) <= Cap
                      /\ \A e \in Contents(entries'[d]) : EntryOK(d, e)'
    BY DEF StoreInv
  <2>1. \A e \in Contents(entries[d]) : e \in Entry /\ EntryOK(d, e)
    BY ContentsType DEF StoreInv, TypeOK
  <2>2. \A e \in Contents(entries[d]) : EntryOK(d, e)'
    BY <1>8, <2>1 DEF EntryOK, Entry, Replied
  <2>3. CASE d = c
    BY <1>3, <1>5, <1>9, <2>2, <2>3 DEF TypeOK, Stores
  <2>4. CASE d # c
    BY <1>3, <2>2, <2>4 DEF TypeOK, StoreInv
  <2> QED
    BY <2>3, <2>4
<1>12. ReplayMatchesOrigin'
  <2> SUFFICES ASSUME NEW z \in Requests
               PROVE  AnswerOK(z)'
    BY DEF ReplayMatchesOrigin, AnswerOK
  <2> USE DEF AnswerOK, Replied, SameKey
  <2>1. CASE z = r
    BY <1>6, <2>1 DEF Answered
  <2>2. CASE z # r
    <3> SUFFICES ASSUME Replied(z, "replay") \/ Replied(z, "conflict")
                 PROVE  AnswerOK(z)'
      BY <1>6, <2>2
    <3>1. PICK y \in Requests : y = request[z].source
      BY RequestShape DEF Done
    <3>2. AnswerOK(z) /\ Replied(y, "origin")
      BY <3>1 DEF ReplayMatchesOrigin
    <3>3. request'[y] = request[y] /\ request'[z] = request[z]
      BY <1>6, <1>8, <2>2, <3>2
    <3> QED
      BY <3>1, <3>2, <3>3
  <2> QED
    BY <2>1, <2>2
<1> QED
  BY <1>10, <1>11, <1>12

-----------------------------------------------------------------------------
(* The lock of a key that nothing was evicted from.                        *)

AllStored(c, k) == \A q \in HasRun(c, k) : Stored(c, q)

\* While every stored response of a key is still there, the store has the lock
\* its requests use, and no handler runs beside a response.
LockOK(c, k) ==
    /\ \A r \in Requests :
           InLine(r) /\ request[r].caller = c /\ request[r].key = k =>
               k \in DOMAIN locks[c] /\ locks[c][k] = request[r].lock
    /\ InOrigin(c, k) # {} => HasRun(c, k) = {}

LockInv == \A c \in Callers, k \in IdemKeys : AllStored(c, k) => LockOK(c, k)

\* A response whose key is not in the store has been evicted.
LEMMA DroppedKey ==
  ASSUME StoreInv', NEW c \in Callers, NEW k, NEW q \in Requests,
         Replied(q, "origin")', request'[q].caller = c, request'[q].key = k,
         \A e \in Contents(entries'[c]) : e.key # k
  PROVE  ~ AllStored(c, k)'
<1> SUFFICES ASSUME AllStored(c, k)'
             PROVE  FALSE
  OBVIOUS
<1>1. PICK e \in Contents(entries'[c]) : e.source = q
  BY DEF AllStored, Stored, HasRun, Contents, Replied
<1>2. request'[q].key = e.key
  BY <1>1 DEF StoreInv, EntryOK
<1> QED
  BY <1>1, <1>2

\* What was evicted stays so.
LEMMA StillStored ==
  ASSUME NEW c \in Callers, NEW k,
         \A y \in Requests : Replied(y, "origin") => request'[y] = request[y],
         \A e \in Contents(entries'[c]) :
             e \in Contents(entries[c]) \/ ~ Replied(e.source, "origin"),
         AllStored(c, k)'
  PROVE  AllStored(c, k)
<1> SUFFICES ASSUME NEW q \in HasRun(c, k)
             PROVE  Stored(c, q)
  BY DEF AllStored
<1>1. q \in Requests /\ Replied(q, "origin") /\ q \in HasRun(c, k)'
  BY DEF HasRun, Replied
<1>2. PICK e \in Contents(entries'[c]) : e.source = q
  BY <1>1 DEF AllStored, Stored, Contents
<1> QED
  BY <1>1, <1>2 DEF Stored, Contents

\* A request that got the lock, of a key of which nothing was evicted, got the
\* one in the store, and runs its handler only if the key has no response.
LEMMA EnterLock ==
  ASSUME AnswersInv, StoreInv', LockInv, NEW r \in Requests, request[r].at # "answered",
         NEW c \in Callers, NEW k \in IdemKeys, NEW p, NEW l, NEW q, NEW lks,
         \A k2 \in DOMAIN locks[c] : k2 \in DOMAIN lks /\ lks[k2] = locks[c][k2],
         AllStored(c, k) => k \in DOMAIN lks /\ lks[k] = l,
         Enter(r, c, k, p, l, q, lks)
  PROVE  LockInv'
<1> USE DEF AnswersInv
<1>1. PICK s : /\ Evicted(s, c)
               /\ entries' = [entries EXCEPT ![c] = s]
               /\ locks' = [locks EXCEPT ![c] = Without(lks, EvictedKeys(entries[c]))]
               /\ clock' = clock
               /\ Hit(s, r, c, k, p, l, q) \/ Miss(s, r, c, k, p, l, q)
  BY EnterEffect
<1>2. /\ \A x \in Requests : x # r => request'[x] = request[x]
      /\ \A x \in Requests : Replied(x, "origin") <=> Replied(x, "origin")'
      /\ \A x \in Requests : Replied(x, "origin") => request'[x] = request[x]
  BY <1>1, EnterKeepsAnswers
<1>3. /\ entries'[c] = s
      /\ locks'[c] = Without(lks, EvictedKeys(entries[c]))
      /\ \A d \in Callers : d # c => entries'[d] = entries[d] /\ locks'[d] = locks[d]
  BY <1>1 DEF TypeOK
<1>4. InLine(r)' => /\ Miss(s, r, c, k, p, l, q)
                    /\ request'[r] = Running(c, k, p, l)
  <2>1. Hit(s, r, c, k, p, l, q) => ~ InLine(r)'
    BY DEF Hit, InLine, Answered, TypeOK
  <2>2. Miss(s, r, c, k, p, l, q) => request'[r] = Running(c, k, p, l)
    BY DEF Miss, TypeOK
  <2> QED
    BY <1>1, <2>1, <2>2
<1> SUFFICES ASSUME NEW d \in Callers, NEW k2 \in IdemKeys, AllStored(d, k2)'
             PROVE  LockOK(d, k2)'
  BY DEF LockInv
<1>5. AllStored(d, k2) /\ LockOK(d, k2)
  <2>1. Contents(entries'[d]) \subseteq Contents(entries[d])
    BY <1>1, <1>3 DEF Evicted
  <2>2. AllStored(d, k2)
    BY <1>2, <2>1, StillStored
  <2> QED
    BY <2>2 DEF LockInv
<1>6. \A y \in Requests : y \in HasRun(d, k2)' <=> y \in HasRun(d, k2)
  BY <1>2 DEF HasRun
<1>7. d = c => k2 \notin EvictedKeys(entries[c])
  <2> SUFFICES ASSUME d = c, k2 \in EvictedKeys(entries[c])
               PROVE  FALSE
    OBVIOUS
  <2>1. PICK e \in Contents(entries[c]) : e.key = k2
    BY <1>1 DEF Evicted
  <2>a. e \in Entry
    BY <2>1, ContentsType DEF TypeOK
  <2>2. e.source \in Requests /\ EntryOK(c, e)
    BY <2>1, <2>a DEF StoreInv, Entry
  <2>3. e.source \in HasRun(d, k2)'
    BY <1>6, <2>1, <2>2 DEF EntryOK, HasRun
  <2>4. \A f \in Contents(entries'[c]) : f.key # k2
    BY <1>1, <1>3 DEF Evicted
  <2> QED
    BY <2>2, <2>3, <2>4, DroppedKey DEF HasRun
<1>8. ASSUME NEW y \in Requests, InLine(y)', request'[y].caller = d, request'[y].key = k2
      PROVE  k2 \in DOMAIN locks'[d] /\ locks'[d][k2] = request'[y].lock
  <2>1. k2 \in DOMAIN (IF d = c THEN lks ELSE locks[d])
        /\ (IF d = c THEN lks ELSE locks[d])[k2] = request'[y].lock
    <3>1. CASE y # r
      <4>1. k2 \in DOMAIN locks[d] /\ locks[d][k2] = request'[y].lock
        BY <1>2, <1>5, <1>8, <3>1 DEF LockOK, InLine
      <4> QED
        BY <4>1
    <3>2. CASE y = r
      <4>1. d = c /\ k2 = k /\ request'[y].lock = l
        BY <1>4, <1>8, <3>2 DEF Running
      <4> QED
        BY <1>5, <4>1
    <3> QED
      BY <3>1, <3>2
  <2>2. CASE d = c
    BY <1>3, <1>7, <2>1, <2>2 DEF Without
  <2>3. CASE d # c
    BY <1>3, <2>1, <2>3
  <2> QED
    BY <2>2, <2>3
<1>9. ASSUME NEW y \in InOrigin(d, k2)', NEW z \in HasRun(d, k2)'
      PROVE  FALSE
  <2>1. CASE y # r
    <3>1. y \in InOrigin(d, k2) /\ z \in HasRun(d, k2)
      BY <1>2, <1>6, <2>1 DEF InOrigin, HasRun
    <3> QED
      BY <1>5, <3>1 DEF LockOK
  <2>2. CASE y = r
    <3>1. d = c /\ k2 = k /\ Miss(s, r, c, k, p, l, q)
      BY <1>4, <2>2 DEF InOrigin, InLine, Running
    <3>2. \A e \in Contents(entries'[c]) : e.key # k
      BY <1>3, <3>1 DEF Miss
    <3> QED
      BY <3>1, <3>2, DroppedKey DEF HasRun
  <2> QED
    BY <2>1, <2>2
<1> QED
  BY <1>8, <1>9 DEF LockOK

\* A request that waits, and one whose answer is not stored.
LEMMA UnstoredLock ==
  ASSUME AnswersInv, LockInv, NEW r \in Requests, request[r].at # "answered", NEW x,
         x.at = "lock" \/ (x.at = "answered" /\ x.reply = "retryable"),
         request' = [request EXCEPT ![r] = x],
         entries' = entries,
         \A c \in Callers : \A k \in DOMAIN locks[c] :
             k \in DOMAIN locks'[c] /\ locks'[c][k] = locks[c][k],
         x.at = "lock" =>
             x.key \in DOMAIN locks'[x.caller] /\ locks'[x.caller][x.key] = x.lock
  PROVE  LockInv'
<1> USE DEF AnswersInv
<1>1. /\ request'[r] = x
      /\ \A y \in Requests : y # r => request'[y] = request[y]
  BY DEF TypeOK
<1>2. /\ \A y \in Requests : Replied(y, "origin") <=> Replied(y, "origin")'
      /\ \A y \in Requests : Replied(y, "origin") => request'[y] = request[y]
  BY <1>1 DEF Replied
<1> SUFFICES ASSUME NEW d \in Callers, NEW k2 \in IdemKeys, AllStored(d, k2)'
             PROVE  LockOK(d, k2)'
  BY DEF LockInv
<1>3. LockOK(d, k2)
  <2>1. AllStored(d, k2)
    BY <1>2, StillStored
  <2> QED
    BY <2>1 DEF LockInv
<1>4. ASSUME NEW y \in Requests, InLine(y)', request'[y].caller = d, request'[y].key = k2
      PROVE  k2 \in DOMAIN locks'[d] /\ locks'[d][k2] = request'[y].lock
  <2>1. CASE y # r
    BY <1>1, <1>3, <1>4, <2>1 DEF LockOK, InLine
  <2>2. CASE y = r
    BY <1>1, <1>4, <2>2 DEF InLine
  <2> QED
    BY <2>1, <2>2
<1>5. ASSUME NEW y \in InOrigin(d, k2)', NEW z \in HasRun(d, k2)'
      PROVE  FALSE
  <2>1. y \in InOrigin(d, k2) /\ z \in HasRun(d, k2)
    BY <1>1, <1>2 DEF InOrigin, HasRun
  <2> QED
    BY <1>3, <2>1 DEF LockOK
<1> QED
  BY <1>4, <1>5 DEF LockOK

\* The handler of r has returned a response fit to store.
LEMMA StoredLock ==
  ASSUME AnswersInv, StoreInv', QueueInv, LockInv, NEW r \in Requests, FinishCacheable(r)
  PROVE  LockInv'
<1> USE DEF AnswersInv
<1>1. request[r] \in Asking
  BY RequestShape DEF FinishCacheable
<1>2. PICK c \in Callers, k \in IdemKeys, p \in Payloads :
         request[r].caller = c /\ request[r].key = k /\ request[r].payload = p
  BY <1>1 DEF Asking
<1>a. PICK x : x = Cached(k, p, r)
  OBVIOUS
<1>b. PICK s : s = AfterPut(entries[c], x)
  OBVIOUS
<1>3. /\ entries' = [entries EXCEPT ![c] = s]
      /\ locks' = [locks EXCEPT ![c] = Without(locks[c], KeysPutOut(entries[c], x))]
      /\ request' = [request EXCEPT ![r] = Answered(c, k, p, "origin", r)]
  BY <1>2, <1>a, <1>b DEF FinishCacheable
<1>4. x \in Entry /\ x.source = r /\ x.key = k
  BY <1>a, IdemAssumption DEF Cached, Entry, TypeOK
<1>5. Stores(s, c, x)
  BY <1>4, <1>b, PutEffect
<1>6. /\ request'[r] = Answered(c, k, p, "origin", r)
      /\ \A y \in Requests : y # r => request'[y] = request[y]
      /\ entries'[c] = s
      /\ locks'[c] = Without(locks[c], KeysPutOut(entries[c], x))
      /\ \A d \in Callers : d # c => entries'[d] = entries[d] /\ locks'[d] = locks[d]
  BY <1>3 DEF TypeOK
<1>7. request[r].at = "origin" /\ ~ Replied(r, "origin")
  BY DEF FinishCacheable, Replied
<1>8. \A y \in Requests : Replied(y, "origin") => request'[y] = request[y]
  BY <1>6, <1>7
<1> SUFFICES ASSUME NEW d \in Callers, NEW k2 \in IdemKeys, AllStored(d, k2)'
             PROVE  LockOK(d, k2)'
  BY DEF LockInv
<1>9. LockOK(d, k2)
  <2>1. \A e \in Contents(entries'[d]) :
           e \in Contents(entries[d]) \/ ~ Replied(e.source, "origin")
    BY <1>4, <1>5, <1>6, <1>7 DEF Stores
  <2>2. AllStored(d, k2)
    BY <1>8, <2>1, StillStored
  <2> QED
    BY <2>2 DEF LockInv
<1>10. d = c => k2 \notin KeysPutOut(entries[c], x)
  <2> SUFFICES ASSUME d = c, k2 \in KeysPutOut(entries[c], x)
               PROVE  FALSE
    OBVIOUS
  <2>1. PICK e \in Contents(entries[c]) \cup {x} : e.key = k2
    BY <1>5 DEF Stores
  <2>2. \A f \in Contents(entries'[c]) : f.key # k2
    BY <1>5, <1>6 DEF Stores
  <2>3. /\ e.source \in Requests /\ Replied(e.source, "origin")'
        /\ request'[e.source].caller = c /\ request'[e.source].key = k2
    <3>1. CASE e = x
      BY <1>4, <1>6, <2>1, <3>1 DEF Answered, Replied
    <3>2. CASE e \in Contents(entries[c])
      <4>1. e \in Entry
        BY <3>2, ContentsType DEF TypeOK
      <4>2. e.source \in Requests /\ EntryOK(c, e)
        BY <3>2, <4>1 DEF StoreInv, Entry
      <4> QED
        BY <1>8, <2>1, <4>2 DEF EntryOK, Replied
    <3> QED
      BY <2>1, <3>1, <3>2
  <2> QED
    BY <2>2, <2>3, DroppedKey
<1>11. ASSUME NEW y \in Requests, InLine(y)', request'[y].caller = d, request'[y].key = k2
       PROVE  k2 \in DOMAIN locks'[d] /\ locks'[d][k2] = request'[y].lock
  <2>1. y # r
    BY <1>6, <1>11 DEF InLine, Answered
  <2>2. k2 \in DOMAIN locks[d] /\ locks[d][k2] = request'[y].lock
    BY <1>6, <1>9, <1>11, <2>1 DEF LockOK, InLine
  <2> QED
    BY <1>6, <1>10, <2>2 DEF Without
<1>12. ASSUME NEW y \in InOrigin(d, k2)', NEW z \in HasRun(d, k2)'
       PROVE  FALSE
  <2>1. y # r /\ y \in InOrigin(d, k2)
    BY <1>6 DEF InOrigin, Answered
  <2>2. z = r
    <3>1. z \notin HasRun(d, k2)
      BY <1>9, <2>1 DEF LockOK
    <3> QED
      BY <1>6, <3>1 DEF HasRun, Replied
  <2>3. d = c /\ k2 = k
    BY <1>6, <2>2 DEF HasRun, Answered
  <2>4. /\ InLine(r) /\ InLine(y) /\ request[y].at = "origin"
        /\ request[y].lock = request[r].lock
    BY <1>2, <1>7, <1>9, <2>1, <2>3 DEF LockOK, InOrigin, InLine
  <2>5. queue[request[r].lock][1] = r /\ queue[request[y].lock][1] = y
    BY <1>7, <2>1, <2>4, HolderIsHead DEF InOrigin
  <2> QED
    BY <2>1, <2>4, <2>5
<1> QED
  BY <1>11, <1>12 DEF LockOK

-----------------------------------------------------------------------------
(* The inductive invariant, one lemma per action.                          *)

IInv == AnswersInv /\ QueueInv /\ LockInv

\* A process starts with no entries, no locks and no requests.
LEMMA InitIInv ==
  ASSUME Init
  PROVE  IInv
<1> USE DEF Init
<1>1. TypeOK
  <2>1. [k \in {} |-> k] \in LockMaps
    <3>1. [k \in {} |-> k] \in [{} -> Requests]
      OBVIOUS
    <3> QED
      BY <3>1 DEF LockMaps
  <2> QED
    BY <2>1, IdemAssumption DEF TypeOK, LockMaps
<1>2. \A r \in Requests : request[r].at = "client"
  BY DEF Idle
<1>3. StoreInv
  BY IdemAssumption DEF StoreInv, Contents, DistinctKeys
<1>4. ReplayMatchesOrigin
  BY <1>2 DEF ReplayMatchesOrigin, Replied
<1>5. QueueInv
  BY <1>2 DEF QueueInv, QueueOK, InItsQueue, InLine
<1>6. LockInv
  BY <1>2 DEF LockInv, LockOK, InLine, InOrigin
<1> QED
  BY <1>1, <1>3, <1>4, <1>5, <1>6 DEF IInv, AnswersInv

\* A request arrives: it gets the lock at once, or waits for it.
LEMMA ArriveIInv ==
  ASSUME IInv, NEW r \in Requests, NEW c \in Callers, NEW k \in IdemKeys, NEW p \in Payloads,
         Arrive(r, c, k, p)
  PROVE  IInv'
<1> USE DEF IInv
<1>1. TypeOK /\ locks[c] \in LockMaps /\ locks \in [Callers -> LockMaps]
  BY DEF AnswersInv, TypeOK, LockMaps
<1>2. request[r] = Idle /\ request[r].at # "answered" /\ ~ InLine(r)
  BY DEF Arrive, Idle, InLine
<1>3. PICK l \in Requests : l = LockFor(r, c, k)
  BY <1>1, LockMapProperties DEF LockFor
<1>a. PICK lks : lks = [x \in DOMAIN locks[c] \cup {k} |-> IF x = k THEN l ELSE locks[c][x]]
  OBVIOUS
<1>4. /\ lks \in LockMaps
      /\ k \in DOMAIN lks /\ lks[k] = l
      /\ \A k2 \in DOMAIN locks[c] : k2 \in DOMAIN lks /\ lks[k2] = locks[c][k2]
  BY <1>1, <1>3, <1>a, LockMapProperties DEF LockFor
<1>5. CASE queue[l] = << >>
  <2>1. Enter(r, c, k, p, l, <<r>>, lks)
    BY <1>3, <1>a, <1>5 DEF Arrive
  <2>2. <<r>> \in Seq(Requests) /\ <<r>> # << >> /\ Tail(<<r>>) = << >> /\ <<r>> = Append(<< >>, r)
    OBVIOUS
  <2>3. AnswersInv'
    BY <1>2, <1>4, <2>1, <2>2, EnterAnswers
  <2>4. QueueInv'
    <3>1. PICK s : Hit(s, r, c, k, p, l, <<r>>) \/ Miss(s, r, c, k, p, l, <<r>>)
      BY <1>1, <2>1, EnterEffect DEF AnswersInv
    <3>2. CASE Hit(s, r, c, k, p, l, <<r>>)
      <4>1. queue' = queue
        <5>1. queue' = [queue EXCEPT ![l] = << >>]
          BY <2>2, <3>2 DEF Hit
        <5> QED
          BY <1>1, <1>5, <5>1 DEF TypeOK
      <4>2. PICK x : x.at = "answered" /\ request' = [request EXCEPT ![r] = x]
        BY <3>2 DEF Hit, Answered
      <4> QED
        BY <1>1, <1>2, <4>1, <4>2, QueueStay
    <3>3. CASE Miss(s, r, c, k, p, l, <<r>>)
      <4>1. queue' = [queue EXCEPT ![l] = Append(queue[l], r)]
        BY <1>5, <2>2, <3>3 DEF Miss
      <4>2. PICK x : x.at = "origin" /\ x.lock = l /\ request' = [request EXCEPT ![r] = x]
        BY <3>3 DEF Miss, Running
      <4> QED
        BY <1>1, <1>2, <1>5, <4>1, <4>2, QueueJoin
    <3> QED
      BY <3>1, <3>2, <3>3
  <2>5. LockInv'
    BY <1>2, <1>4, <2>1, <2>3, EnterLock DEF AnswersInv
  <2> QED
    BY <2>3, <2>4, <2>5
<1>6. CASE queue[l] # << >>
  <2>a. PICK x : x = Waiting(c, k, p, l)
    OBVIOUS
  <2>1. /\ locks' = [locks EXCEPT ![c] = lks]
        /\ queue' = [queue EXCEPT ![l] = Append(queue[l], r)]
        /\ request' = [request EXCEPT ![r] = x]
        /\ clock' = clock /\ entries' = entries
    BY <1>3, <1>a, <1>6, <2>a DEF Arrive
  <2>2. x \in Asking /\ x.at = "lock" /\ x.caller = c /\ x.key = k /\ x.lock = l
    BY <2>a DEF Waiting, Asking
  <2>3. queue' \in [Requests -> Seq(Requests)]
    <3>1. Append(queue[l], r) \in Seq(Requests)
      BY <1>1 DEF TypeOK
    <3> QED
      BY <1>1, <2>1, <3>1 DEF TypeOK
  <2>4. locks' \in [Callers -> LockMaps] /\ locks'[c] = lks
        /\ \A d \in Callers : d # c => locks'[d] = locks[d]
    BY <1>1, <1>4, <2>1
  <2>5. AnswersInv'
    BY <1>2, <2>1, <2>2, <2>3, <2>4, UnstoredAnswers
  <2>6. QueueInv'
    BY <1>1, <1>2, <2>1, <2>2, QueueJoin
  <2>7. LockInv'
    <3>1. \A d \in Callers : \A k2 \in DOMAIN locks[d] :
             k2 \in DOMAIN locks'[d] /\ locks'[d][k2] = locks[d][k2]
      BY <1>4, <2>4
    <3> QED
      BY <1>2, <1>4, <2>1, <2>2, <2>4, <3>1, UnstoredLock
  <2> QED
    BY <2>5, <2>6, <2>7
<1> QED
  BY <1>5, <1>6

\* A request is handed the lock it waited for.
LEMMA ResumeIInv ==
  ASSUME IInv, NEW r \in Requests, Resume(r)
  PROVE  IInv'
<1> USE DEF IInv
<1>1. TypeOK /\ InLine(r) /\ request[r].at = "lock" /\ request[r] \in Asking
  BY RequestShape DEF AnswersInv, Resume, InLine
<1>2. PICK c \in Callers, k \in IdemKeys, p \in Payloads, l \in Requests :
         /\ request[r].caller = c /\ request[r].key = k
         /\ request[r].payload = p /\ request[r].lock = l
  BY <1>1 DEF Asking
<1>3. Enter(r, c, k, p, l, queue[l], locks[c]) /\ Head(queue[l]) = r
  BY <1>2 DEF Resume
<1>4. queue[l] \in Seq(Requests) /\ queue[l] # << >>
  BY <1>1, <1>2, HolderIsHead
<1>5. queue[l][1] = r
  BY <1>3, <1>4
<1>6. locks[c] \in LockMaps
  BY <1>1 DEF TypeOK, LockMaps
<1>7. AnswersInv'
  BY <1>1, <1>3, <1>4, <1>6, EnterAnswers
<1>8. QueueInv'
  <2>1. PICK s : Hit(s, r, c, k, p, l, queue[l]) \/ Miss(s, r, c, k, p, l, queue[l])
    BY <1>3, EnterEffect DEF AnswersInv
  <2>2. CASE Hit(s, r, c, k, p, l, queue[l])
    <3>1. PICK x : x.at = "answered" /\ request' = [request EXCEPT ![r] = x]
      BY <2>2 DEF Hit, Answered
    <3> QED
      BY <1>1, <1>2, <1>5, <2>2, <3>1, QueueLeave DEF Hit
  <2>3. CASE Miss(s, r, c, k, p, l, queue[l])
    <3>1. PICK x : x.at = "origin" /\ x.lock = l /\ request' = [request EXCEPT ![r] = x]
      BY <2>3 DEF Miss, Running
    <3>2. queue' = queue
      BY <1>1, <2>3 DEF Miss, TypeOK
    <3> QED
      BY <1>1, <1>2, <1>5, <3>1, <3>2, QueueStay
  <2> QED
    BY <2>1, <2>2, <2>3
<1>9. LockInv'
  <2>1. AllStored(c, k) => k \in DOMAIN locks[c] /\ locks[c][k] = l
    BY <1>1, <1>2 DEF LockInv, LockOK
  <2> QED
    BY <1>1, <1>3, <1>7, <2>1, EnterLock DEF AnswersInv
<1> QED
  BY <1>7, <1>8, <1>9

\* A request whose handler has returned releases the lock it heads the queue of.
LEMMA ReleaseQueue ==
  ASSUME TypeOK, QueueInv, NEW r \in Requests, request[r].at = "origin",
         NEW x, x.at = "answered",
         queue' = [queue EXCEPT ![request[r].lock] = Tail(queue[request[r].lock])],
         request' = [request EXCEPT ![r] = x]
  PROVE  QueueInv' /\ queue' \in [Requests -> Seq(Requests)]
<1>1. PICK l \in Requests : l = request[r].lock
  BY RequestShape DEF Asking
<1>2. InLine(r) /\ queue[l] \in Seq(Requests) /\ queue[l] # << >> /\ queue[l][1] = r
  BY <1>1, HolderIsHead DEF InLine
<1>3. Tail(queue[l]) \in Seq(Requests)
  BY <1>2, HeadTailProperties
<1>4. queue' = [queue EXCEPT ![l] = Tail(queue[l])]
  BY <1>1
<1> QED
  BY <1>1, <1>2, <1>3, <1>4, QueueLeave DEF TypeOK

\* The handler returned 408, 429 or 5xx: the lock is released, nothing is stored.
LEMMA FinishRetryableIInv ==
  ASSUME IInv, NEW r \in Requests, FinishRetryable(r)
  PROVE  IInv'
<1> USE DEF IInv
<1>1. TypeOK /\ request[r].at = "origin" /\ request[r] \in Asking
  BY RequestShape DEF AnswersInv, FinishRetryable
<1>2. PICK x : x = Answered(request[r].caller, request[r].key, request[r].payload,
                            "retryable", r)
  OBVIOUS
<1>3. /\ request' = [request EXCEPT ![r] = x]
      /\ queue' = [queue EXCEPT ![request[r].lock] = Tail(queue[request[r].lock])]
      /\ clock' = clock /\ entries' = entries /\ locks' = locks
  BY <1>2 DEF FinishRetryable
<1>4. x \in Done /\ x.at = "answered" /\ x.reply = "retryable"
  BY <1>1, <1>2 DEF Answered, Done, Asking
<1>5. QueueInv' /\ queue' \in [Requests -> Seq(Requests)]
  BY <1>1, <1>3, <1>4, ReleaseQueue
<1>6. AnswersInv'
  BY <1>1, <1>3, <1>4, <1>5, UnstoredAnswers DEF TypeOK, LockMaps
<1>7. LockInv'
  BY <1>1, <1>3, <1>4, UnstoredLock
<1> QED
  BY <1>5, <1>6, <1>7

\* The handler returned anything else: it is stored, and the lock is released.
LEMMA FinishCacheableIInv ==
  ASSUME IInv, NEW r \in Requests, FinishCacheable(r)
  PROVE  IInv'
<1> USE DEF IInv
<1>1. TypeOK /\ request[r].at = "origin"
  BY DEF AnswersInv, FinishCacheable
<1>2. PICK x : x = Answered(request[r].caller, request[r].key, request[r].payload, "origin", r)
  OBVIOUS
<1>3. /\ request' = [request EXCEPT ![r] = x]
      /\ queue' = [queue EXCEPT ![request[r].lock] = Tail(queue[request[r].lock])]
      /\ x.at = "answered"
  BY <1>2 DEF FinishCacheable, Answered
<1>4. QueueInv' /\ queue' \in [Requests -> Seq(Requests)]
  BY <1>1, <1>3, ReleaseQueue
<1>5. AnswersInv'
  BY <1>4, StoredAnswers
<1>6. LockInv'
  BY <1>5, StoredLock DEF AnswersInv
<1> QED
  BY <1>4, <1>5, <1>6

\* Neither the clock nor a stutter touches a queue or a lock.
LEMMA TickIInv ==
  ASSUME IInv, Tick
  PROVE  IInv'
<1> USE DEF IInv
<1>1. AnswersInv'
  BY TickAnswers
<1>2. QueueInv'
  BY DEF Tick, QueueInv, QueueOK, InItsQueue, InLine
<1>3. LockInv'
  BY DEF Tick, LockInv, LockOK, AllStored, Stored, HasRun, InOrigin, InLine, Replied
<1> QED
  BY <1>1, <1>2, <1>3

\* A step that changes nothing.
LEMMA StutterIInv ==
  ASSUME IInv, UNCHANGED vars
  PROVE  IInv'
<1> USE DEF IInv, vars
<1>1. AnswersInv'
  BY DEF AnswersInv, TypeOK, StoreInv, EntryOK, ReplayMatchesOrigin, SameKey, Replied
<1>2. QueueInv'
  BY DEF QueueInv, QueueOK, InItsQueue, InLine
<1>3. LockInv'
  BY DEF LockInv, LockOK, AllStored, Stored, HasRun, InOrigin, InLine, Replied
<1> QED
  BY <1>1, <1>2, <1>3

\* Every step keeps the invariant.
LEMMA NextIInv ==
  ASSUME IInv, [Next]_vars
  PROVE  IInv'
<1>1. ASSUME NEW r \in Requests, NEW c \in Callers, NEW k \in IdemKeys, NEW p \in Payloads,
             Arrive(r, c, k, p)
      PROVE  IInv'
  BY <1>1, ArriveIInv
<1>2. ASSUME NEW r \in Requests, Resume(r)
      PROVE  IInv'
  BY <1>2, ResumeIInv
<1>3. ASSUME NEW r \in Requests, Finish(r)
      PROVE  IInv'
  BY <1>3, FinishRetryableIInv, FinishCacheableIInv DEF Finish
<1>4. CASE Tick
  BY <1>4, TickIInv
<1>5. CASE UNCHANGED vars
  BY <1>5, StutterIInv
<1> QED
  BY <1>1, <1>2, <1>3, <1>4, <1>5 DEF Next

\* The invariant holds throughout every behaviour.
LEMMA Invariance == Spec => []IInv
<1>1. Init => IInv
  BY InitIInv
<1>2. IInv /\ [Next]_vars => IInv'
  BY NextIInv
<1> QED
  BY <1>1, <1>2, PTL DEF Spec

-----------------------------------------------------------------------------
(* The theorems.                                                           *)

\* The store, the locks and the requests keep their types, and no entry was
\* stored in the future.
THEOREM TypeCorrect == Spec => []TypeOK
<1>1. IInv => TypeOK
  BY DEF IInv, AnswersInv
<1> QED
  BY <1>1, Invariance, PTL

\* A replayed or a conflicting answer is that of an earlier request of the same
\* caller and key, whatever expires and whatever is pushed out of the store.
THEOREM ReplayCorrect == Spec => []ReplayMatchesOrigin
<1>1. IInv => ReplayMatchesOrigin
  BY DEF IInv, AnswersInv
<1> QED
  BY <1>1, Invariance, PTL

\* The cap on the entries of a caller holds in every state, for every cap, and
\* no key has two entries.
THEOREM CapCorrect == Spec => []CapRespected
<1>1. IInv => CapRespected
  BY DEF IInv, AnswersInv, StoreInv, DistinctKeys, CapRespected
<1> QED
  BY <1>1, Invariance, PTL

\* As long as no response of a key has been evicted, at most one request of the
\* key has been carried out or is in its handler.
THEOREM OnceCorrect == Spec => []CarriedOutOnce
<1>1. IInv => CarriedOutOnce
  <2> SUFFICES ASSUME IInv, NEW c \in Callers, NEW k \in IdemKeys, AllStored(c, k),
                      NEW q \in HasRun(c, k) \cup InOrigin(c, k),
                      NEW r \in HasRun(c, k) \cup InOrigin(c, k)
               PROVE  q = r
    BY DEF CarriedOutOnce, AllStored
  <2> USE DEF IInv, AnswersInv
  <2>1. LockOK(c, k)
    BY DEF LockInv
  <2>2. CASE q \in HasRun(c, k) /\ r \in HasRun(c, k)
    <3>1. PICK i \in 1..Len(entries[c]) : entries[c][i].source = q
      BY <2>2 DEF AllStored, Stored
    <3>2. PICK j \in 1..Len(entries[c]) : entries[c][j].source = r
      BY <2>2 DEF AllStored, Stored
    <3>3. entries[c][i].key = k /\ entries[c][j].key = k
      BY <2>2, <3>1, <3>2 DEF StoreInv, Contents, EntryOK, HasRun
    <3>4. i = j
      BY <3>3 DEF StoreInv, DistinctKeys
    <3> QED
      BY <3>1, <3>2, <3>4
  <2>3. CASE q \in InOrigin(c, k) /\ r \in InOrigin(c, k)
    <3>1. /\ q \in Requests /\ r \in Requests /\ InLine(q) /\ InLine(r)
          /\ request[q].at = "origin" /\ request[r].at = "origin"
      BY <2>3 DEF InOrigin, InLine
    <3>2. request[q].lock = request[r].lock
      BY <2>1, <2>3, <3>1 DEF LockOK, InOrigin
    <3>3. queue[request[q].lock][1] = q /\ queue[request[r].lock][1] = r
      BY <3>1, HolderIsHead
    <3> QED
      BY <3>2, <3>3
  <2> QED
    BY <2>1, <2>2, <2>3 DEF LockOK
<1> QED
  BY <1>1, Invariance, PTL

=============================================================================
