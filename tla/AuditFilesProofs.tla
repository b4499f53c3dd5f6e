-------------------------- MODULE AuditFilesProofs --------------------------
(***************************************************************************)
(* Theorems about what happens to the audit files beside write_event, for  *)
(* every value of the constants: the erasure of a caller (AuditErasure),   *)
(* edits by hand (AuditTamper) and the retention sweep (Retention).  They  *)
(* share what is proved of the log itself, and what is proved first here   *)
(* of a file rewritten without some of its lines.                          *)
(***************************************************************************)
EXTENDS AuditErasure, AuditTamper, Retention, AuditLogProofs, FiniteSetTheorems

-----------------------------------------------------------------------------
(* A file written anew without some lines.                                 *)

\* The function that gives the rank of a place among those that are kept.
Rank(kept) == [i \in kept |-> Cardinality({j \in kept : j <= i})]

\* Ranks number the places that are kept, each once.
LEMMA RankNumbers ==
  ASSUME NEW n \in Nat, NEW kept \in SUBSET (1..n)
  PROVE  /\ Cardinality(kept) \in Nat
         /\ Rank(kept) \in Injection(kept, 1..Cardinality(kept))
         /\ Rank(kept) \in Surjection(kept, 1..Cardinality(kept))
<1> DEFINE N == Cardinality(kept)
<1> DEFINE upTo(i) == {j \in kept : j <= i}
<1>1. IsFiniteSet(kept) /\ N \in Nat
  <2>1. IsFiniteSet(1..n)
    BY FS_Interval
  <2>2. IsFiniteSet(kept)
    BY <2>1, FS_Subset
  <2> QED
    BY <2>2, FS_CardinalityType
<1>2. \A i \in kept : IsFiniteSet(upTo(i)) /\ Cardinality(upTo(i)) \in 1..N
  <2> TAKE i \in kept
  <2>1. upTo(i) \in SUBSET kept /\ i \in upTo(i)
    OBVIOUS
  <2>2. IsFiniteSet(upTo(i)) /\ Cardinality(upTo(i)) <= N
    BY <1>1, <2>1, FS_Subset
  <2>3. Cardinality(upTo(i)) \in Nat /\ Cardinality(upTo(i)) # 0
    BY <2>1, <2>2, FS_CardinalityType, FS_EmptySet
  <2> QED
    BY <1>1, <2>2, <2>3
<1>3. \A i, k \in kept : i < k => Cardinality(upTo(i)) # Cardinality(upTo(k))
  <2> SUFFICES ASSUME NEW i \in kept, NEW k \in kept, i < k,
                      Cardinality(upTo(i)) = Cardinality(upTo(k))
               PROVE  FALSE
    OBVIOUS
  <2>1. upTo(i) \in SUBSET upTo(k)
    <3>1. \A j \in kept : j <= i => j <= k
      <4>1. kept \subseteq Int
        OBVIOUS
      <4> QED
        BY <4>1
    <3> QED
      BY <3>1
  <2>2. upTo(i) = upTo(k)
    BY <1>2, <2>1, FS_Subset
  <2>3. k \in upTo(k) /\ k \notin upTo(i)
    OBVIOUS
  <2> QED
    BY <2>2, <2>3
<1>4. Rank(kept) \in [kept -> 1..N] /\ \A i \in kept : Rank(kept)[i] = Cardinality(upTo(i))
  BY <1>2 DEF Rank
<1> HIDE DEF upTo
<1>5. \A i, k \in kept : Rank(kept)[i] = Rank(kept)[k] => i = k
  <2> TAKE i, k \in kept
  <2>1. i \in 1..n /\ k \in 1..n /\ (i < k \/ k < i \/ i = k)
    OBVIOUS
  <2> QED
    BY <1>3, <1>4, <2>1
<1>6. Rank(kept) \in Injection(kept, 1..N)
  BY <1>4, <1>5 DEF Injection, IsInjective
<1>7. IsFiniteSet(1..N) /\ Cardinality(1..N) = N
  BY <1>1, FS_Interval
<1> QED
  BY <1>1, <1>6, <1>7, FS_Injection

\* What is left are the lines that are kept, all of them and no other; with no
\* line gone the file is as it was.
LEMMA DroppedLines ==
  ASSUME NEW f, IsSeq(f), NEW gone
  PROVE  LET kept == (1..Len(f)) \ gone
             g == Dropped(f, gone)
         IN  /\ IsSeq(g)
             /\ Len(f) \in Nat /\ Len(g) \in Nat
             /\ \A k \in 1..Len(g) : \E i \in kept : g[k] = f[i]
             /\ \A i \in kept : \E k \in 1..Len(g) : g[k] = f[i]
             /\ kept = 1..Len(f) => g = f
<1> DEFINE T == {f[i] : i \in 1..Len(f)}
<1> DEFINE kept == (1..Len(f)) \ gone
<1> DEFINE N == Cardinality(kept)
<1> DEFINE Place(k) == CHOOSE i \in kept : Cardinality({j \in kept : j <= i}) = k
<1> DEFINE g == Dropped(f, gone)
<1>0. Len(f) \in Nat /\ f \in [1..Len(f) -> T]
  BY LenProperties DEF IsSeq
<1>1. /\ N \in Nat
      /\ Rank(kept) \in Injection(kept, 1..N)
      /\ Rank(kept) \in Surjection(kept, 1..N)
  BY <1>0, RankNumbers
<1>2. \A i \in kept : Rank(kept)[i] = Cardinality({j \in kept : j <= i})
  BY DEF Rank
<1>3. g = [k \in 1..N |-> f[Place(k)]]
  BY DEF Dropped
<1>4. \A k \in 1..N : Place(k) \in kept /\ Rank(kept)[Place(k)] = k
  <2> TAKE k \in 1..N
  <2>1. \E i \in kept : Rank(kept)[i] = k
    BY <1>1 DEF Surjection
  <2>2. \E i \in kept : Cardinality({j \in kept : j <= i}) = k
    BY <1>2, <2>1
  <2>3. Place(k) \in kept /\ Cardinality({j \in kept : j <= Place(k)}) = k
    BY <2>2
  <2> QED
    BY <1>2, <2>3
<1> HIDE DEF Place
<1>5. \A i \in kept : Rank(kept)[i] \in 1..N /\ Place(Rank(kept)[i]) = i
  <2> TAKE i \in kept
  <2>1. Rank(kept)[i] \in 1..N
    BY <1>1 DEF Injection
  <2> QED
    BY <1>1, <1>4, <2>1 DEF Injection, IsInjective
<1>6. g \in [1..N -> T]
  BY <1>0, <1>3, <1>4
<1> HIDE DEF T, N, g
<1>7. g \in Seq(T) /\ Len(g) = N
  BY <1>1, <1>6, SeqDef, LenProperties
<1>8. IsSeq(g)
  BY <1>7, IsSeqIntro
<1>9. \A k \in 1..Len(g) : \E i \in kept : g[k] = f[i]
  BY <1>3, <1>4, <1>7
<1>10. \A i \in kept : \E k \in 1..Len(g) : g[k] = f[i]
  BY <1>3, <1>5, <1>7
<1>11. ASSUME kept = 1..Len(f) PROVE g = f
  <2>1. \A i \in 1..Len(f) : Rank(kept)[i] = i
    <3> TAKE i \in 1..Len(f)
    <3>1. {j \in kept : j <= i} = 1..i
      BY <1>0, <1>11
    <3>2. Cardinality(1..i) = i
      BY <1>0, FS_Interval
    <3>3. i \in kept
      BY <1>11
    <3> HIDE DEF kept
    <3>4. Rank(kept)[i] = Cardinality({j \in kept : j <= i})
      BY <1>2, <3>3
    <3>5. Cardinality({j \in kept : j <= i}) = Cardinality(1..i)
      BY <3>1
    <3> QED
      BY <3>2, <3>4, <3>5
  <2>2. N = Len(f)
    <3>1. N = Cardinality(1..Len(f))
      BY <1>11 DEF N
    <3>2. 1 \in Int /\ Len(f) \in Int /\ (1 > Len(f) => Len(f) = 0)
      BY <1>0
    <3>3. Cardinality(1..Len(f)) = IF 1 > Len(f) THEN 0 ELSE Len(f) - 1 + 1
      BY <3>2, FS_Interval
    <3> QED
      BY <3>1, <3>2, <3>3
  <2>3. \A i \in 1..Len(f) : g[i] = f[i]
    BY <1>3, <1>5, <1>11, <2>1, <2>2
  <2>4. g \in [1..Len(f) -> T] 
    BY <1>6, <2>2
  <2> HIDE DEF kept
  <2> QED
    BY <1>0, <2>3, <2>4
<1> QED
  BY <1>0, <1>1, <1>7, <1>8, <1>9, <1>10, <1>11 DEF g

-----------------------------------------------------------------------------
(* Files of which no line is damaged, and the steps of a process that is   *)
(* not interrupted: they leave none damaged, and what a process remembers  *)
(* is the end of the active file.                                          *)

Whole(f) == \A i \in 1..Len(f) : Parses(f[i]) /\ f[i].ended

CacheIsEnd == \A k \in DOMAIN cache : cache[k] = ReadLastHash(Lines(0))

\* A whole file is complete, and ends in the digest of its last line.
LEMMA LastOfWhole ==
  ASSUME NEW f, IsSeq(f), Whole(f)
  PROVE  /\ Undamaged(f) /\ ~EndsOpen(f)
         /\ Len(f) \in Nat
         /\ Len(f) = 0 => ReadLastHash(f) = Genesis
         /\ Len(f) > 0 => ReadLastHash(f) = f[Len(f)].digest
<1>1. Undamaged(f)
  BY DEF Undamaged, Whole
<1>2. Len(f) \in Nat
  BY LenProperties DEF IsSeq
<1>3. ~EndsOpen(f)
  <2> SUFFICES ASSUME Len(f) > 0 PROVE f[Len(f)].ended
    BY DEF EndsOpen
  <2>1. Len(f) \in 1..Len(f)
    BY <1>2
  <2> QED
    BY <2>1 DEF Whole
<1> QED
  BY <1>1, <1>3, LastOfUndamaged

\* So is a new file.
LEMMA NoLinesWhole == Whole(<< >>) /\ ReadLastHash(<< >>) = Genesis
  BY NoLines, LastOfWhole DEF Whole

NoneDamaged == \A n \in DOMAIN files : Whole(files[n])

\* A set of numbers has a least one.
LEMMA LeastPlace ==
  ASSUME NEW T \in SUBSET Nat, T # {}
  PROVE  \E k \in T : \A m \in T : k <= m
<1> DEFINE Less == {ss \in Nat \X Nat : ss[1] < ss[2]}
<1>1. IsWellFoundedOn(Less, Nat)
  BY NatLessThanWellFounded DEF OpToRel
<1>2. \A x, y \in Nat : <<x, y>> \in Less <=> x < y
  OBVIOUS
<1> HIDE DEF Less
<1>3. PICK k \in T : \A m \in T : ~(<<m, k>> \in Less)
  BY <1>1, WFMin
<1>4. \A m \in T : m \in Nat /\ k \in Nat /\ ~(m < k)
  BY <1>2, <1>3
<1> QED
  BY <1>4

\* The verifier blames a line that does not verify, and none only if all do.
LEMMA BlamedLine ==
  ASSUME NEW f, IsSeq(f)
  PROVE  /\ FirstBadLine(f) = 0 => \A i \in 1..Len(f) : LineVerifies(f, i)
         /\ FirstBadLine(f) # 0 => /\ FirstBadLine(f) \in 1..Len(f)
                                   /\ ~LineVerifies(f, FirstBadLine(f))
<1>0. Len(f) \in Nat
  BY LenProperties DEF IsSeq
<1>1. CASE \A i \in 1..Len(f) : LineVerifies(f, i)
  BY <1>1 DEF FirstBadLine
<1>2. CASE ~ \A i \in 1..Len(f) : LineVerifies(f, i)
  <2> DEFINE bad == {i \in 1..Len(f) : ~LineVerifies(f, i)}
  <2>1. bad \in SUBSET Nat /\ bad # {}
    BY <1>0, <1>2
  <2>2. PICK k \in bad : \A m \in bad : k <= m
    BY <2>1, LeastPlace
  <2>3. \A j \in 1..(k - 1) : j \in 1..Len(f) /\ j \notin bad
    BY <1>0, <2>2
  <2>4. \E i \in 1..Len(f) : /\ \A j \in 1..(i - 1) : LineVerifies(f, j)
                             /\ ~LineVerifies(f, i)
    BY <2>2, <2>3
  <2>5. FirstBadLine(f) \in 1..Len(f) /\ ~LineVerifies(f, FirstBadLine(f))
    BY <1>2, <2>4 DEF FirstBadLine
  <2> QED
    BY <1>0, <2>5
<1> QED
  BY <1>1, <1>2

\* An entry appended to an undamaged file is a line behind the others, and
\* its digest is the new end of the file.
LEMMA AppendWhole ==
  ASSUME NEW f, IsSeq(f), Whole(f), NEW prev, NEW body
  PROVE  LET e == Entry(prev, body)
             g == AppendLine(f, e)
         IN  /\ g = Append(f, e)
             /\ IsSeq(g) /\ Whole(g)
             /\ Len(f) \in Nat /\ Len(g) = Len(f) + 1
             /\ g[Len(f) + 1] = e
             /\ \A i \in 1..Len(f) : g[i] = f[i]
             /\ ReadLastHash(g) = HashEntry(prev, body)
<1> DEFINE e == Entry(prev, body)
<1> DEFINE g == Append(f, e)
<1>1. Parses(e) /\ e.ended /\ e.digest = HashEntry(prev, body)
  BY DEF Parses, Entry
<1> HIDE DEF e
<1>2. /\ IsSeq(g) /\ Len(f) \in Nat /\ Len(g) = Len(f) + 1 /\ g[Len(f) + 1] = e
      /\ \A i \in 1..Len(f) : g[i] = f[i]
  BY AppendSeq
<1>3. ~EndsOpen(f)
  BY LastOfWhole
<1>4. AppendLine(f, e) = g
  BY <1>3 DEF AppendLine
<1> HIDE DEF g
<1>5. Whole(g)
  <2> SUFFICES ASSUME NEW i \in 1..Len(g) PROVE Parses(g[i]) /\ g[i].ended
    BY DEF Whole
  <2>1. i \in 1..Len(f) \/ i = Len(f) + 1
    BY <1>2
  <2> QED
    BY <1>1, <1>2, <2>1 DEF Whole
<1>6. ReadLastHash(g) = e.digest
  BY <1>2, <1>5, LastOfWhole
<1> QED
  BY <1>1, <1>2, <1>4, <1>5, <1>6 DEF e, g

\* The file an uninterrupted write appends to, and what it chains to.
LEMMA CleanTarget ==
  ASSUME TypeOK, NoneDamaged, NEW r \in Replicas
  PROVE  LET f == ActiveAfterRotation
         IN  /\ IsSeq(f) /\ Whole(f)
             /\ CacheIsEnd => PrevHash(r) = ReadLastHash(f)
             /\ f = << >> \/ (0 \in DOMAIN files /\ f = files[0])
<1>1. IsSeq(ActiveAfterRotation)
  BY ActiveFileType DEF LinesOK
<1>2. Whole(Lines(0))
  BY NoLinesWhole DEF Lines, NoneDamaged
<1>3. CASE NeedsRotation
  BY <1>1, <1>3, NoLinesWhole DEF ActiveAfterRotation, PrevHash
<1>4. CASE ~NeedsRotation
  <2>1. ActiveAfterRotation = Lines(0)
    BY <1>4 DEF ActiveAfterRotation
  <2>2. CacheIsEnd => PrevHash(r) = ReadLastHash(Lines(0))
    BY <1>2, <1>4 DEF PrevHash, CacheIsEnd
  <2> QED
    BY <1>1, <1>2, <2>1, <2>2 DEF Lines
<1> QED
  BY <1>3, <1>4

\* After an uninterrupted write every file but the active one is an old one.
LEMMA CleanWrite ==
  ASSUME TypeOK, NEW r \in Replicas, NEW body, Write(r, body)
  PROVE  /\ 0 \in DOMAIN files'
         /\ files'[0] = AppendLine(ActiveAfterRotation, Entry(PrevHash(r), body))
         /\ \A n \in DOMAIN files' \ {0} : \E k \in DOMAIN files : files'[n] = files[k]
<1> DEFINE f == AppendLine(ActiveAfterRotation, Entry(PrevHash(r), body))
<1>1. files' = WithActive(RotatedFiles, f)
  BY DEF Write
<1> HIDE DEF f
<1>2. /\ DOMAIN files' = DOMAIN RotatedFiles \cup {0}
      /\ files'[0] = f
      /\ \A n \in DOMAIN RotatedFiles \ {0} : files'[n] = RotatedFiles[n]
  BY <1>1 DEF WithActive
<1>3. DOMAIN files \subseteq 0..BackupCount
  BY DEF TypeOK
<1> QED
  BY <1>2, <1>3, RotatedFilesFromOld DEF f

\* An uninterrupted step leaves nothing damaged, and what the one process
\* remembers is the end of the active file.
LEMMA CleanStep ==
  ASSUME TypeOK, NoneDamaged, NEW r \in Replicas,
         \/ nextId <= MaxEvents /\ \E body \in NewBodies : Write(r, body)
         \/ Restart(r)
  PROVE  /\ TypeOK'
         /\ NoneDamaged'
         /\ OneProcess /\ ResolvedKeysOnly /\ CacheIsEnd
               => ResolvedKeysOnly' /\ CacheIsEnd'
<1>1. TypeOK'
  BY TypeStep DEF Next, Emit
<1>2. ASSUME NEW body \in NewBodies, Write(r, body)
      PROVE  /\ NoneDamaged'
             /\ OneProcess /\ ResolvedKeysOnly /\ CacheIsEnd
                   => ResolvedKeysOnly' /\ CacheIsEnd'
  <2> DEFINE f == AppendLine(ActiveAfterRotation, Entry(PrevHash(r), body))
  <2> DEFINE d == HashEntry(PrevHash(r), body)
  <2>1. Whole(f) /\ ReadLastHash(f) = d
    BY CleanTarget, AppendWhole
  <2>2. 0 \in DOMAIN files' /\ files'[0] = f
        /\ \A n \in DOMAIN files' \ {0} : \E k \in DOMAIN files : files'[n] = files[k]
    BY <1>2, CleanWrite
  <2>3. cache' = Remember(r, d)
    BY <1>2 DEF Write, Entry
  <2> HIDE DEF f, d
  <2>4. NoneDamaged'
    BY <2>1, <2>2 DEF NoneDamaged
  <2>5. Lines(0)' = f
    BY <2>2 DEF Lines
  <2>6. ASSUME OneProcess, ResolvedKeysOnly
        PROVE  ResolvedKeysOnly' /\ CacheIsEnd'
    <3>1. /\ \A k \in DOMAIN cache' : k[2] = "resolved"
          /\ \A k \in DOMAIN cache' : cache'[k] = d
      BY <2>3, <2>6, RememberOne
    <3> QED
      BY <2>1, <2>5, <3>1 DEF ResolvedKeysOnly, CacheIsEnd
  <2> QED
    BY <2>4, <2>6
<1>3. ASSUME Restart(r)
      PROVE  /\ NoneDamaged'
             /\ OneProcess /\ ResolvedKeysOnly /\ CacheIsEnd
                   => ResolvedKeysOnly' /\ CacheIsEnd'
  <2>1. Lines(0)' = Lines(0) /\ files' = files
    BY <1>3 DEF Restart, Lines
  <2>2. DOMAIN cache' \subseteq DOMAIN cache /\ \A k \in DOMAIN cache' : cache'[k] = cache[k]
    BY <1>3 DEF Restart
  <2> QED
    BY <2>1, <2>2 DEF NoneDamaged, CacheIsEnd, ResolvedKeysOnly
<1> QED
  BY <1>1, <1>2, <1>3

-----------------------------------------------------------------------------
(***************************************************************************)
(* The erasure of a caller.  That it is complete needs more than the lines *)
(* themselves: the walk reaches every file because the siblings have no    *)
(* gap, and every line is looked at because none is damaged, both of which *)
(* hold as long as no write is interrupted; and an event written after an  *)
(* erasure has a later number than the erasure.                            *)
(***************************************************************************)

NoGap == \A n \in DOMAIN files : \A m \in 0..n : m \in DOMAIN files

\* A line is older than the event next, and than no erasure of its actor.
Aged(l, next, since) ==
    /\ l.body.id < next
    /\ l.body.actor \in Actors => l.body.id > since[l.body.actor]

EraseInv ==
    /\ TypeOK
    /\ NoneDamaged
    /\ NoGap
    /\ erased \in [Actors -> 0..(nextId - 1)]
    /\ \A n \in DOMAIN files : \A i \in 1..Len(files[n]) : Aged(files[n][i], nextId, erased)

\* With no gap the walk of an erasure reaches every file.
LEMMA WalkReachesAll ==
  ASSUME TypeOK, NoGap
  PROVE  ReachedByWalk = DOMAIN files
<1>1. DOMAIN files \subseteq 0..BackupCount /\ BackupCount \in Nat
  BY AuditAssumption DEF TypeOK
<1>2. \A n \in DOMAIN files : n = 0 \/ n \in RotatedSiblings
  <2> TAKE n \in DOMAIN files
  <2>1. n \in 0..BackupCount
    BY <1>1
  <2>2. \A m \in 1..n : m \in DOMAIN files
    BY <2>1 DEF NoGap
  <2> QED
    BY <1>1, <2>1, <2>2 DEF RotatedSiblings
<1>3. \A n \in RotatedSiblings : n \in DOMAIN files
  BY <1>1 DEF RotatedSiblings
<1> QED
  BY <1>2, <1>3 DEF ReachedByWalk

\* A write leaves no gap: a rotation moves every sibling up by one.
LEMMA WriteLeavesNoGap ==
  ASSUME TypeOK, NoGap, NEW r \in Replicas, NEW body, Write(r, body)
  PROVE  NoGap'
<1> DEFINE D == DOMAIN files'
<1>0. DOMAIN files \subseteq 0..BackupCount /\ BackupCount \in Nat
  BY AuditAssumption DEF TypeOK
<1>1. D = DOMAIN RotatedFiles \cup {0}
  BY DEF Write, WithActive
<1>2. CASE NeedsRotation
  <2>1. DOMAIN RotatedFiles = {k \in DOMAIN files : k < 0} \cup
                              {k \in 1..BackupCount : k - 1 \in DOMAIN files}
    BY <1>2 DEF RotatedFiles, Vacated
  <2>2. ASSUME NEW n \in D, NEW m \in 0..n PROVE m \in D
    <3>1. CASE m = 0
      BY <1>1, <3>1
    <3>2. CASE m # 0
      <4>1. n \in 1..BackupCount /\ n - 1 \in DOMAIN files
        BY <1>0, <1>1, <2>1, <3>2
      <4>2. m - 1 \in 0..(n - 1) /\ m \in 1..BackupCount
        BY <1>0, <3>2, <4>1
      <4>3. m - 1 \in DOMAIN files
        BY <4>1, <4>2 DEF NoGap
      <4> QED
        BY <1>1, <2>1, <4>2, <4>3
    <3> QED
      BY <3>1, <3>2
  <2> QED
    BY <2>2 DEF NoGap
<1>3. CASE ~NeedsRotation
  <2>1. D = DOMAIN files \cup {0}
    BY <1>1, <1>3 DEF RotatedFiles
  <2> QED
    BY <1>0, <2>1 DEF NoGap
<1> QED
  BY <1>2, <1>3

\* What an erasure does to a whole line: nothing but the name of the actor changes.
RedactedFrom(l, k, a) ==
    /\ IsLine(l) /\ Parses(l) /\ l.ended
    /\ l.body.id = k.body.id
    /\ l.prev = k.prev /\ l.digest = k.digest
    /\ IF k.body.actor = a THEN l.body.actor = Redacted
                           ELSE l.body = k.body

\* A line is redacted in place.
LEMMA RedactedLine ==
  ASSUME NEW k, IsLine(k), Parses(k), k.ended, NEW a
  PROVE  RedactedFrom([RedactLine(k, a) EXCEPT !.ended = TRUE], k, a)
<1> DEFINE fields == {"kind", "prev", "body", "digest", "ended"}
<1>1. k.kind = "entry" /\ DOMAIN k = fields /\ k.body \in Body /\ k.ended \in BOOLEAN
  BY DEF IsLine, Parses
<1>2. CASE k.body.actor = a
  <2> DEFINE b == [k.body EXCEPT !.actor = Redacted]
  <2>1. b \in Body /\ b.id = k.body.id /\ b.actor = Redacted
    BY <1>1 DEF Body
  <2>2. RedactLine(k, a) = [k EXCEPT !.body = b]
    BY <1>1, <1>2 DEF RedactLine
  <2> HIDE DEF b
  <2> DEFINE l == [[k EXCEPT !.body = b] EXCEPT !.ended = TRUE]
  <2>3. /\ DOMAIN l = fields /\ l.ended = TRUE
        /\ l.kind = k.kind /\ l.prev = k.prev /\ l.digest = k.digest /\ l.body = b
    BY <1>1
  <2> HIDE DEF l
  <2>4. IsLine(l) /\ Parses(l)
    BY <1>1, <2>1, <2>3 DEF IsLine, Parses
  <2>5. RedactedFrom(l, k, a)
    BY <1>2, <2>1, <2>3, <2>4 DEF RedactedFrom
  <2> QED
    BY <2>2, <2>5 DEF l
<1>3. CASE k.body.actor # a
  <2> DEFINE l == [k EXCEPT !.ended = TRUE]
  <2>1. /\ DOMAIN l = fields /\ l.ended = TRUE
        /\ l.kind = k.kind /\ l.prev = k.prev /\ l.digest = k.digest /\ l.body = k.body
    BY <1>1
  <2>2. RedactLine(k, a) = k
    BY <1>3 DEF RedactLine
  <2> HIDE DEF l
  <2>3. IsLine(l) /\ Parses(l)
    BY <1>1, <2>1 DEF IsLine, Parses
  <2>4. RedactedFrom(l, k, a)
    BY <1>3, <2>1, <2>3 DEF RedactedFrom
  <2> QED
    BY <2>2, <2>4 DEF l
<1> QED
  BY <1>2, <1>3

\* A file with no damaged line is redacted line by line.
LEMMA RedactedFile ==
  ASSUME NEW f, LinesOK(f), Whole(f), NEW a
  PROVE  LET g == RedactFile(f, a)
         IN  /\ LinesOK(g) /\ Whole(g)
             /\ Len(g) = Len(f)
             /\ \A i \in 1..Len(f) : RedactedFrom(g[i], f[i], a)
<1> DEFINE gone == {i \in 1..Len(f) : ~Parses(f[i])}
<1> DEFINE g == [i \in 1..Len(f) |-> [RedactLine(f[i], a) EXCEPT !.ended = TRUE]]
<1>0. Len(f) \in Nat
  BY LenProperties DEF LinesOK, IsSeq
<1>1. (1..Len(f)) \ gone = 1..Len(f)
  BY DEF Whole
<1> HIDE DEF gone
<1>2. Dropped(f, gone) = f
  BY <1>1, DroppedLines DEF LinesOK
<1>3. RedactFile(f, a) = g
  BY <1>2 DEF RedactFile, gone
<1>4. \A i \in 1..Len(f) : RedactedFrom(g[i], f[i], a)
  BY RedactedLine DEF LinesOK, Whole
<1> DEFINE T == {g[i] : i \in 1..Len(f)}
<1>5. g \in [1..Len(f) -> T]
  OBVIOUS
<1> HIDE DEF g, T
<1>6. g \in Seq(T) /\ Len(g) = Len(f)
  BY <1>0, <1>5, SeqDef, LenProperties
<1>7. IsSeq(g)
  BY <1>6, IsSeqIntro
<1> QED
  BY <1>3, <1>4, <1>6, <1>7 DEF RedactedFrom, LinesOK, Whole

\* An erasure of any part of the walk: every line is redacted or as it was.
LEMMA RedactedFiles ==
  ASSUME TypeOK, NoneDamaged, NEW a, NEW reached, files' = RedactFiles(a, reached)
  PROVE  /\ DOMAIN files' = DOMAIN files
         /\ \A n \in DOMAIN files :
               /\ LinesOK(files'[n]) /\ Whole(files'[n])
               /\ Len(files'[n]) = Len(files[n]) /\ Len(files[n]) \in Nat
               /\ n \notin reached => files'[n] = files[n]
               /\ n \in reached =>
                     \A i \in 1..Len(files[n]) : RedactedFrom(files'[n][i], files[n][i], a)
<1>1. DOMAIN files' = DOMAIN files
  BY DEF RedactFiles
<1>2. ASSUME NEW n \in DOMAIN files
      PROVE  /\ LinesOK(files'[n]) /\ Whole(files'[n])
             /\ Len(files'[n]) = Len(files[n]) /\ Len(files[n]) \in Nat
             /\ n \notin reached => files'[n] = files[n]
             /\ n \in reached =>
                   \A i \in 1..Len(files[n]) : RedactedFrom(files'[n][i], files[n][i], a)
  <2>1. LinesOK(files[n]) /\ Whole(files[n])
    BY DEF TypeOK, LinesOK, NoneDamaged
  <2>2. Len(files[n]) \in Nat
    BY <2>1, LenProperties DEF LinesOK, IsSeq
  <2>3. files'[n] = IF n \in reached THEN RedactFile(files[n], a) ELSE files[n]
    BY DEF RedactFiles
  <2> QED
    BY <2>1, <2>2, <2>3, RedactedFile
<1> QED
  BY <1>1, <1>2

\* The log starts with nothing erased.
LEMMA EraseInvInit == EraseInit => EraseInv
<1> SUFFICES ASSUME EraseInit PROVE EraseInv
  OBVIOUS
<1>1. TypeOK
  BY TypeInit DEF EraseInit
<1> QED
  BY <1>1 DEF EraseInit, Init, EraseInv, NoneDamaged, NoGap

\* Every step keeps what the erasures have reached.
LEMMA EraseInvStep == EraseInv /\ [EraseNext]_eraseVars => EraseInv'
<1> SUFFICES ASSUME EraseInv, [EraseNext]_eraseVars PROVE EraseInv'
  OBVIOUS
<1>t. /\ TypeOK /\ NoneDamaged /\ NoGap /\ nextId \in Nat \ {0}
      /\ erased \in [Actors -> 0..(nextId - 1)]
      /\ \A n \in DOMAIN files : \A i \in 1..Len(files[n]) :
            /\ Aged(files[n][i], nextId, erased) /\ IsLine(files[n][i]) /\ Parses(files[n][i])
            /\ files[n][i].body.id \in Nat
  <2>1. TypeOK /\ NoneDamaged /\ NoGap /\ erased \in [Actors -> 0..(nextId - 1)]
        /\ nextId \in Nat \ {0}
    BY AuditAssumption DEF EraseInv, TypeOK
  <2>2. ASSUME NEW n \in DOMAIN files, NEW i \in 1..Len(files[n])
        PROVE  /\ Aged(files[n][i], nextId, erased) /\ IsLine(files[n][i]) /\ Parses(files[n][i])
               /\ files[n][i].body.id \in Nat
    <3>1. Aged(files[n][i], nextId, erased) /\ IsLine(files[n][i]) /\ Parses(files[n][i])
      BY DEF EraseInv, TypeOK, NoneDamaged, Whole
    <3>2. files[n][i].body \in Body
      BY <3>1 DEF IsLine, Parses
    <3> QED
      BY <3>1, <3>2 DEF Body
  <2> QED
    BY <2>1, <2>2
<1>1. CASE CleanLogStep
  <2>0. PICK r \in Replicas : \/ nextId <= MaxEvents /\ \E body \in NewBodies : Write(r, body)
                              \/ Restart(r)
    BY <1>1 DEF CleanLogStep
  <2>1. TypeOK' /\ NoneDamaged' /\ erased' = erased
    BY <1>t, <1>1, <2>0, CleanStep DEF CleanLogStep
  <2>2. ASSUME NEW body \in NewBodies, Write(r, body)
        PROVE  EraseInv'
    <3> DEFINE f == ActiveAfterRotation
    <3> DEFINE e == Entry(PrevHash(r), body)
    <3>1. nextId' = nextId + 1 /\ erased' \in [Actors -> 0..(nextId' - 1)]
      <4>1. nextId' = nextId + 1
        BY <2>2 DEF Write
      <4>2. 0..(nextId - 1) \subseteq 0..(nextId' - 1)
        BY <1>t, <4>1
      <4> QED
        BY <1>t, <2>1, <4>1, <4>2
    <3>2. NoGap'
      BY <1>t, <2>2, WriteLeavesNoGap
    <3>3. \A l : Aged(l, nextId, erased) /\ l.body.id \in Nat => Aged(l, nextId', erased')
      BY <1>t, <2>1, <3>1 DEF Aged
    <3>4. Aged(e, nextId', erased')
      <4>1. e.body = body /\ body.id = nextId /\ body.actor \in Actors
        BY DEF Entry, NewBodies
      <4>2. erased[body.actor] < nextId /\ nextId < nextId'
        BY <1>t, <3>1, <4>1
      <4> QED
        BY <2>1, <4>1, <4>2 DEF Aged
    <3>5. /\ 0 \in DOMAIN files' /\ files'[0] = AppendLine(f, e)
          /\ \A n \in DOMAIN files' \ {0} : \E k \in DOMAIN files : files'[n] = files[k]
      BY <1>t, <2>2, CleanWrite
    <3>6. /\ Len(f) \in Nat /\ Len(AppendLine(f, e)) = Len(f) + 1
          /\ AppendLine(f, e)[Len(f) + 1] = e
          /\ \A i \in 1..Len(f) : AppendLine(f, e)[i] = f[i]
      BY <1>t, CleanTarget, AppendWhole
    <3>7. f = << >> \/ (0 \in DOMAIN files /\ f = files[0])
      BY <1>t, CleanTarget
    <3> HIDE DEF f, e
    <3>8. ASSUME NEW n \in DOMAIN files', NEW i \in 1..Len(files'[n])
          PROVE  Aged(files'[n][i], nextId', erased')
      <4>1. CASE n = 0
        <5>1. i = Len(f) + 1 \/ i \in 1..Len(f)
          BY <3>5, <3>6, <4>1
        <5>2. CASE i = Len(f) + 1
          <6>1. files'[n][i] = e
            BY <3>5, <3>6, <4>1, <5>2
          <6> QED
            BY <3>4, <6>1 DEF Aged
        <5>3. CASE i \in 1..Len(f)
          <6>1. files'[n][i] = f[i]
            BY <3>5, <3>6, <4>1, <5>3
          <6>2. 0 \in DOMAIN files /\ f = files[0]
            BY <3>7, <5>3, NoLines
          <6>3. Aged(files[0][i], nextId, erased) /\ files[0][i].body.id \in Nat
            BY <1>t, <5>3, <6>2
          <6> QED
            BY <3>3, <6>1, <6>2, <6>3 DEF Aged
        <5> QED
          BY <5>1, <5>2, <5>3
      <4>2. CASE n # 0
        <5>1. PICK k \in DOMAIN files : files'[n] = files[k]
          BY <3>5, <4>2
        <5>2. Aged(files[k][i], nextId, erased) /\ files[k][i].body.id \in Nat
          BY <1>t, <5>1
        <5> QED
          BY <3>3, <5>1, <5>2 DEF Aged
      <4> QED
        BY <4>1, <4>2
    <3> QED
      BY <2>1, <3>1, <3>2, <3>8 DEF EraseInv
  <2>3. ASSUME Restart(r)
        PROVE  EraseInv'
    <3>1. files' = files /\ nextId' = nextId
      BY <2>3 DEF Restart
    <3> QED
      BY <1>t, <2>1, <3>1 DEF EraseInv, NoGap, Aged
  <2> QED
    BY <2>0, <2>2, <2>3
<1>r. ASSUME NEW a \in Actors, NEW reached \in SUBSET DOMAIN files,
             files' = RedactFiles(a, reached), UNCHANGED nextId, UNCHANGED logged,
             DOMAIN cache' \subseteq DOMAIN cache,
             \/ erased' = erased
             \/ reached = DOMAIN files /\ erased' = [erased EXCEPT ![a] = nextId - 1]
      PROVE  EraseInv'
  <2>1. /\ DOMAIN files' = DOMAIN files
        /\ \A n \in DOMAIN files :
              /\ LinesOK(files'[n]) /\ Whole(files'[n])
              /\ Len(files'[n]) = Len(files[n]) /\ Len(files[n]) \in Nat
              /\ n \notin reached => files'[n] = files[n]
              /\ n \in reached =>
                    \A i \in 1..Len(files[n]) : RedactedFrom(files'[n][i], files[n][i], a)
    BY <1>t, <1>r, RedactedFiles
  <2>2. TypeOK' /\ NoneDamaged' /\ NoGap'
    BY <1>t, <1>r, <2>1 DEF TypeOK, LinesOK, NoneDamaged, NoGap
  <2>3. erased' \in [Actors -> 0..(nextId' - 1)]
    BY <1>t, <1>r
  <2>4. ASSUME NEW n \in DOMAIN files', NEW i \in 1..Len(files'[n])
        PROVE  Aged(files'[n][i], nextId', erased')
    <3> DEFINE k == files[n][i]
    <3> DEFINE l == files'[n][i]
    <3>1. n \in DOMAIN files /\ i \in 1..Len(files[n])
      BY <2>1
    <3>2. Aged(k, nextId, erased)
      BY <1>t, <3>1
    <3>3. l = k \/ RedactedFrom(l, k, a)
      BY <2>1, <3>1
    <3>4. k.body.actor = a => erased' = erased \/ RedactedFrom(l, k, a)
      BY <1>r, <2>1, <3>1
    <3> SUFFICES Aged(l, nextId', erased')
      OBVIOUS
    <3> HIDE DEF k, l
    <3>5. CASE l = k /\ k.body.actor # a
      BY <1>t, <1>r, <3>2, <3>5 DEF Aged
    <3>6. CASE l = k /\ erased' = erased
      BY <1>r, <3>2, <3>6 DEF Aged
    <3>7. CASE RedactedFrom(l, k, a) /\ k.body.actor = a
      BY <1>r, <3>2, <3>7, EraseAssumption DEF Aged, RedactedFrom
    <3>8. CASE RedactedFrom(l, k, a) /\ k.body.actor # a
      BY <1>t, <1>r, <3>2, <3>8 DEF Aged, RedactedFrom
    <3> QED
      BY <3>3, <3>4, <3>5, <3>6, <3>7, <3>8
  <2> QED
    BY <2>2, <2>3, <2>4 DEF EraseInv
<1>2. ASSUME NEW a \in Actors, Redact(a)
      PROVE  EraseInv'
  <2>1. ReachedByWalk = DOMAIN files
    BY <1>t, WalkReachesAll
  <2> QED
    BY <1>2, <1>r, <2>1 DEF Redact
<1>3. ASSUME NEW r \in Replicas, NEW a \in Actors, InterruptedRedact(r, a)
      PROVE  EraseInv'
  <2>1. PICK done \in 0..(BackupCount + 1) :
            files' = RedactFiles(a, {n \in ReachedByWalk : n < done})
    BY <1>3 DEF InterruptedRedact
  <2>2. {n \in ReachedByWalk : n < done} \in SUBSET DOMAIN files
    BY <1>t, WalkReachesAll
  <2>3. DOMAIN cache' \subseteq DOMAIN cache
    BY <1>3 DEF InterruptedRedact
  <2> QED
    BY <1>3, <1>r, <2>1, <2>2, <2>3 DEF InterruptedRedact
<1>4. CASE UNCHANGED eraseVars
  <2>1. UNCHANGED vars /\ erased' = erased
    BY <1>4 DEF eraseVars
  <2>2. TypeOK'
    BY <1>t, <2>1, TypeStep
  <2> QED
    BY <1>t, <2>1, <2>2 DEF vars, EraseInv, NoneDamaged, NoGap, Aged
<1> QED
  BY <1>1, <1>2, <1>3, <1>4 DEF EraseNext

\* For one process, and any number of files and callers: once an erasure has
\* returned, no line on disk names the caller for an event before it
\* (privacy.redact_actor), across rotations, restarts and erasures cut short.
\* With one process no write comes between the reading of a file and its
\* rewriting, which have no await between them: that is what the hypothesis
\* stands for, and the proof does not need it.
THEOREM ErasureCorrect ==
  ASSUME OneReplica
  PROVE  EraseSpec => []ErasureComplete
<1>1. EraseInv => ErasureComplete
  <2> SUFFICES ASSUME EraseInv, NEW n \in DOMAIN files, NEW i \in 1..Len(files[n]),
                      NEW b \in EventsOf(files[n][i]), b.actor \in Actors
               PROVE  b.id > erased[b.actor]
    BY DEF ErasureComplete
  <2>1. b = files[n][i].body
    BY DEF EraseInv, NoneDamaged, Whole, EventsOf
  <2> QED
    BY <2>1 DEF EraseInv, Aged
<1> QED
  BY <1>1, EraseInvInit, EraseInvStep, PTL DEF EraseSpec

-----------------------------------------------------------------------------
(* What the verifier blames after erasures: with one process every line is *)
(* linked to the digest of the line before it, redacted or not, and one    *)
(* that was not redacted has its own digest.                               *)

LinkedLine(f, i) ==
    /\ f[i].prev = (IF i = 1 THEN Genesis ELSE f[i - 1].digest)
    /\ f[i].digest = HashEntry(f[i].prev, f[i].body) \/ f[i].body.actor = Redacted

Linked(f) == \A i \in 1..Len(f) : LinkedLine(f, i)

BlameInv ==
    /\ EraseInv
    /\ ResolvedKeysOnly
    /\ CacheIsEnd
    /\ \A n \in DOMAIN files : Linked(files[n])

\* An entry that is chained to the end of an undamaged file is linked.
LEMMA AppendLinked ==
  ASSUME NEW f, IsSeq(f), Whole(f), Linked(f), NEW body
  PROVE  Linked(AppendLine(f, Entry(ReadLastHash(f), body)))
<1> DEFINE e == Entry(ReadLastHash(f), body)
<1> DEFINE g == AppendLine(f, e)
<1>1. /\ Len(f) \in Nat /\ Len(g) = Len(f) + 1 /\ g[Len(f) + 1] = e
      /\ \A i \in 1..Len(f) : g[i] = f[i]
  BY AppendWhole
<1>2. e.prev = ReadLastHash(f) /\ e.digest = HashEntry(e.prev, e.body)
  BY DEF Entry
<1>3. ReadLastHash(f) = IF Len(f) = 0 THEN Genesis ELSE f[Len(f)].digest
  BY <1>1, LastOfWhole
<1> HIDE DEF e, g
<1>4. ASSUME NEW i \in 1..Len(g) PROVE LinkedLine(g, i)
  <2>1. CASE i = Len(f) + 1
    <3>1. i - 1 = Len(f) /\ (i = 1 <=> Len(f) = 0) /\ g[i] = e
      BY <1>1, <2>1
    <3>2. i # 1 => g[i - 1] = f[Len(f)]
      BY <1>1, <3>1
    <3> QED
      BY <1>2, <1>3, <3>1, <3>2 DEF LinkedLine
  <2>2. CASE i # Len(f) + 1
    <3>1. i \in 1..Len(f) /\ (i = 1 \/ i - 1 \in 1..Len(f))
      BY <1>1, <2>2
    <3>2. g[i] = f[i] /\ (i # 1 => g[i - 1] = f[i - 1])
      BY <1>1, <3>1
    <3> QED
      BY <3>1, <3>2 DEF Linked, LinkedLine
  <2> QED
    BY <2>1, <2>2
<1> QED
  BY <1>4 DEF Linked, g, e

\* Redaction keeps the links of a file and its end.
LEMMA RedactedLinked ==
  ASSUME NEW f, IsSeq(f), Whole(f), Linked(f), NEW a \in Actors,
         NEW g, IsSeq(g), Whole(g), Len(g) = Len(f),
         \A i \in 1..Len(f) : RedactedFrom(g[i], f[i], a)
  PROVE  Linked(g) /\ ReadLastHash(g) = ReadLastHash(f)
<1>1. Len(f) \in Nat
  BY LenProperties DEF IsSeq
<1>2. \A i \in 1..Len(f) : g[i].prev = f[i].prev /\ g[i].digest = f[i].digest
  BY DEF RedactedFrom
<1>3. ASSUME NEW i \in 1..Len(g) PROVE LinkedLine(g, i)
  <2>1. LinkedLine(f, i) /\ RedactedFrom(g[i], f[i], a)
    BY DEF Linked
  <2>2. g[i].prev = (IF i = 1 THEN Genesis ELSE g[i - 1].digest)
    <3>1. i = 1 \/ i - 1 \in 1..Len(f)
      BY <1>1
    <3> QED
      BY <1>2, <2>1, <3>1 DEF LinkedLine
  <2>3. g[i].digest = HashEntry(g[i].prev, g[i].body) \/ g[i].body.actor = Redacted
    BY <2>1 DEF LinkedLine, RedactedFrom
  <2> QED
    BY <2>2, <2>3 DEF LinkedLine
<1>4. ReadLastHash(g) = ReadLastHash(f)
  <2>1. Len(f) = 0 \/ (Len(f) > 0 /\ Len(f) \in 1..Len(f))
    BY <1>1
  <2> QED
    BY <1>2, <2>1, LastOfWhole
<1> QED
  BY <1>3, <1>4 DEF Linked

\* An erasure of any part of the walk keeps the links and what is remembered.
LEMMA RedactKeepsLinks ==
  ASSUME BlameInv, NEW a \in Actors, NEW reached, files' = RedactFiles(a, reached),
         DOMAIN cache' \subseteq DOMAIN cache,
         \A k \in DOMAIN cache' : cache'[k] = cache[k]
  PROVE  /\ ResolvedKeysOnly'
         /\ CacheIsEnd'
         /\ \A n \in DOMAIN files' : Linked(files'[n])
<1>1. TypeOK /\ NoneDamaged
  BY DEF BlameInv, EraseInv
<1>2. /\ DOMAIN files' = DOMAIN files
      /\ \A n \in DOMAIN files :
            /\ LinesOK(files'[n]) /\ Whole(files'[n])
            /\ Len(files'[n]) = Len(files[n])
            /\ n \notin reached => files'[n] = files[n]
            /\ n \in reached =>
                  \A i \in 1..Len(files[n]) : RedactedFrom(files'[n][i], files[n][i], a)
  BY <1>1, RedactedFiles
<1>3. ASSUME NEW n \in DOMAIN files
      PROVE  Linked(files'[n]) /\ ReadLastHash(files'[n]) = ReadLastHash(files[n])
  <2>1. IsSeq(files[n]) /\ Whole(files[n]) /\ Linked(files[n])
    BY <1>1 DEF TypeOK, NoneDamaged, BlameInv
  <2>2. CASE n \in reached
    BY <1>2, <2>1, <2>2, RedactedLinked DEF LinesOK
  <2>3. CASE n \notin reached
    BY <1>2, <2>1, <2>3
  <2> QED
    BY <2>2, <2>3
<1>4. ReadLastHash(Lines(0)') = ReadLastHash(Lines(0)) /\ Whole(Lines(0))
  BY <1>1, <1>2, <1>3, NoLinesWhole DEF Lines, NoneDamaged
<1>5. \A k \in DOMAIN cache' : cache'[k] = ReadLastHash(Lines(0)')
  BY <1>4 DEF BlameInv, CacheIsEnd
<1>6. \A k \in DOMAIN cache' : k[2] = "resolved"
  BY DEF BlameInv, ResolvedKeysOnly
<1> QED
  BY <1>2, <1>3, <1>5, <1>6 DEF CacheIsEnd, ResolvedKeysOnly

\* Every step of the one process keeps every line linked.
LEMMA BlameInvStep ==
  ASSUME OneProcess, BlameInv, [EraseNext]_eraseVars
  PROVE  BlameInv'
<1>t. EraseInv' /\ TypeOK /\ NoneDamaged /\ ResolvedKeysOnly /\ CacheIsEnd
  BY EraseInvStep DEF BlameInv, EraseInv
<1>1. CASE CleanLogStep
  <2>0. PICK r \in Replicas : \/ nextId <= MaxEvents /\ \E body \in NewBodies : Write(r, body)
                              \/ Restart(r)
    BY <1>1 DEF CleanLogStep
  <2>1. ResolvedKeysOnly' /\ CacheIsEnd'
    BY <1>t, <2>0, CleanStep
  <2>2. ASSUME NEW body \in NewBodies, Write(r, body)
        PROVE  \A n \in DOMAIN files' : Linked(files'[n])
    <3> DEFINE f == ActiveAfterRotation
    <3>1. /\ IsSeq(f) /\ Whole(f) /\ PrevHash(r) = ReadLastHash(f)
          /\ f = << >> \/ (0 \in DOMAIN files /\ f = files[0])
      BY <1>t, CleanTarget
    <3>2. Linked(f)
      BY <3>1, NoLines DEF BlameInv, Linked
    <3>3. Linked(AppendLine(f, Entry(PrevHash(r), body)))
      BY <3>1, <3>2, AppendLinked
    <3>4. /\ files'[0] = AppendLine(f, Entry(PrevHash(r), body))
          /\ \A n \in DOMAIN files' \ {0} : \E k \in DOMAIN files : files'[n] = files[k]
      BY <1>t, <2>2, CleanWrite
    <3> QED
      BY <3>3, <3>4 DEF BlameInv
  <2>3. ASSUME Restart(r)
        PROVE  \A n \in DOMAIN files' : Linked(files'[n])
    BY <2>3 DEF Restart, BlameInv
  <2>4. \A n \in DOMAIN files' : Linked(files'[n])
    BY <2>0, <2>2, <2>3
  <2> QED
    BY <1>t, <2>1, <2>4 DEF BlameInv
<1>2. ASSUME NEW a \in Actors, Redact(a)
      PROVE  BlameInv'
  <2>1. files' = RedactFiles(a, ReachedByWalk) /\ cache' = cache
    BY <1>2 DEF Redact
  <2> QED
    BY <1>t, <2>1, RedactKeepsLinks DEF BlameInv
<1>3. ASSUME NEW r \in Replicas, NEW a \in Actors, InterruptedRedact(r, a)
      PROVE  BlameInv'
  <2>1. PICK done \in 0..(BackupCount + 1) :
            files' = RedactFiles(a, {n \in ReachedByWalk : n < done})
    BY <1>3 DEF InterruptedRedact
  <2>2. DOMAIN cache' \subseteq DOMAIN cache /\ \A k \in DOMAIN cache' : cache'[k] = cache[k]
    BY <1>3 DEF InterruptedRedact
  <2> QED
    BY <1>t, <2>1, <2>2, RedactKeepsLinks DEF BlameInv
<1>4. CASE UNCHANGED eraseVars
  BY <1>t, <1>4 DEF eraseVars, vars, BlameInv, ResolvedKeysOnly, CacheIsEnd, Lines
<1> QED
  BY <1>1, <1>2, <1>3, <1>4 DEF EraseNext

\* For one process: whatever erasures, complete or cut short, fall among the
\* writes, the line the verifier blames is a redacted one
\* (privacy._redact_file against audit_verify._verify_one).
THEOREM BlameAfterErasure ==
  ASSUME OneProcess
  PROVE  EraseSpec => []OnlyRedactedBlamed
<1>1. EraseInit => BlameInv
  <2> SUFFICES ASSUME EraseInit PROVE BlameInv
    OBVIOUS
  <2>1. EraseInv
    BY EraseInvInit
  <2> QED
    BY <2>1 DEF EraseInit, Init, BlameInv, ResolvedKeysOnly, CacheIsEnd
<1>2. BlameInv /\ [EraseNext]_eraseVars => BlameInv'
  BY BlameInvStep
<1>3. BlameInv => OnlyRedactedBlamed
  <2> SUFFICES ASSUME BlameInv, NEW n \in DOMAIN files, FirstBadLine(files[n]) # 0
               PROVE  files[n][FirstBadLine(files[n])].body.actor = Redacted
    BY DEF OnlyRedactedBlamed
  <2> DEFINE f == files[n]
  <2> DEFINE i == FirstBadLine(f)
  <2>1. IsSeq(f) /\ Whole(f) /\ Linked(f)
    BY DEF BlameInv, EraseInv, TypeOK, NoneDamaged
  <2>2. i \in 1..Len(f) /\ ~LineVerifies(f, i)
    BY <2>1, BlamedLine
  <2> HIDE DEF f, i
  <2>3. Parses(f[i]) /\ LinkedLine(f, i)
    BY <2>1, <2>2 DEF Whole, Linked
  <2>4. f[i].body.actor = Redacted
    BY <2>2, <2>3 DEF LineVerifies, LinkedLine
  <2> QED
    BY <2>4 DEF f, i
<1> QED
  BY <1>1, <1>2, <1>3, PTL DEF EraseSpec

-----------------------------------------------------------------------------
(***************************************************************************)
(* Edits by hand, with one process.  A digest stands for everything before *)
(* it: two chains that verify and end in the same digest have the same     *)
(* bodies (ChainEndDecides).  The edits keep the end of each file, and the *)
(* writes go on from there, so beside each file there is always the chain  *)
(* the API would have written, ending in the same digest; if the file      *)
(* itself verifies, it is that chain.                                      *)
(***************************************************************************)

Chain(f) == IsSeq(f) /\ \A i \in 1..Len(f) : LineVerifies(f, i)

\* The digest at place i of a chain, place 0 being before its first line.
DigestAt(f, i) == IF i = 0 THEN Genesis ELSE f[i].digest

\* One line of a chain: its digest decides its body and the digest before it.
LEMMA ChainLine ==
  ASSUME NEW f, Chain(f), NEW i \in 1..Len(f)
  PROVE  DigestAt(f, i) = <<DigestAt(f, i - 1), f[i].body>>
<1>0. i \in Nat /\ i # 0 /\ (i - 1 = 0 <=> i = 1)
  BY LenProperties DEF Chain, IsSeq
<1>1. LineVerifies(f, i)
  BY DEF Chain
<1> QED
  BY <1>0, <1>1 DEF LineVerifies, DigestAt, HashEntry

\* What the file ends in is the digest at its last place.
LEMMA ChainEnd ==
  ASSUME NEW f, Chain(f)
  PROVE  Len(f) \in Nat /\ Undamaged(f) /\ ReadLastHash(f) = DigestAt(f, Len(f))
<1>1. IsSeq(f) /\ Undamaged(f)
  BY DEF Chain, Undamaged, LineVerifies
<1>2. /\ Len(f) \in Nat
      /\ Len(f) = 0 => ReadLastHash(f) = Genesis
      /\ Len(f) > 0 => ReadLastHash(f) = f[Len(f)].digest
  BY <1>1, LastOfUndamaged
<1> QED
  BY <1>1, <1>2 DEF DigestAt

\* Two chains with the same end are equal as far back as the shorter one goes.
LEMMA EqualBackwards ==
  ASSUME NEW f, NEW g, Chain(f), Chain(g), ReadLastHash(f) = ReadLastHash(g),
         NEW d \in Nat, d <= Len(f), d <= Len(g)
  PROVE  DigestAt(f, Len(f) - d) = DigestAt(g, Len(g) - d)
<1> DEFINE Differ == {k \in Nat : /\ k <= Len(f) /\ k <= Len(g)
                                  /\ DigestAt(f, Len(f) - k) # DigestAt(g, Len(g) - k)}
<1>0. Len(f) \in Nat /\ Len(g) \in Nat /\ DigestAt(f, Len(f)) = DigestAt(g, Len(g))
  BY ChainEnd
<1>1. CASE Differ = {}
  BY <1>1
<1>2. CASE Differ # {}
  <2>1. PICK k \in Differ : \A m \in Differ : k <= m
    BY <1>2, LeastPlace
  <2>2. k # 0
    BY <1>0, <2>1
  <2>3. k - 1 \in Nat /\ k - 1 <= Len(f) /\ k - 1 <= Len(g) /\ k - 1 \notin Differ
    BY <1>0, <2>1, <2>2
  <2>4. DigestAt(f, Len(f) - (k - 1)) = DigestAt(g, Len(g) - (k - 1))
    BY <2>3
  <2> DEFINE i == Len(f) - (k - 1)
  <2> DEFINE j == Len(g) - (k - 1)
  <2>5. /\ i \in 1..Len(f) /\ i - 1 = Len(f) - k
        /\ j \in 1..Len(g) /\ j - 1 = Len(g) - k
    BY <1>0, <2>1, <2>2
  <2>6. /\ DigestAt(f, i) = <<DigestAt(f, i - 1), f[i].body>>
        /\ DigestAt(g, j) = <<DigestAt(g, j - 1), g[j].body>>
    BY <2>5, ChainLine
  <2>7. DigestAt(f, i) = DigestAt(g, j)
    BY <2>4
  <2> HIDE DEF i, j
  <2>8. DigestAt(f, i - 1) = DigestAt(g, j - 1)
    BY <2>6, <2>7
  <2>9. DigestAt(f, Len(f) - k) = DigestAt(g, Len(g) - k)
    BY <2>5, <2>8
  <2> QED
    BY <2>1, <2>9
<1> QED
  BY <1>1, <1>2

\* So the chain that is not longer is not shorter either.
LEMMA NotLonger ==
  ASSUME NEW f, NEW g, Chain(f), Chain(g), ReadLastHash(f) = ReadLastHash(g)
  PROVE  Len(g) <= Len(f)
<1>0. Len(f) \in Nat /\ Len(g) \in Nat
  BY ChainEnd
<1> SUFFICES ASSUME Len(f) < Len(g) PROVE FALSE
  BY <1>0
<1>1. DigestAt(f, Len(f) - Len(f)) = DigestAt(g, Len(g) - Len(f))
  BY <1>0, EqualBackwards
<1>2. Len(f) - Len(f) = 0 /\ Len(g) - Len(f) \in 1..Len(g)
  BY <1>0
<1>3. DigestAt(f, 0) = << >>
  BY DEF DigestAt, Genesis
<1>4. PICK p, b : DigestAt(g, Len(g) - Len(f)) = <<p, b>>
  BY <1>2, ChainLine
<1>5. Len(<< >>) = 0 /\ Len(<<p, b>>) = 2
  OBVIOUS
<1>6. << >> = <<p, b>>
  <2>1. DigestAt(f, 0) = DigestAt(g, Len(g) - Len(f))
    BY <1>1, <1>2
  <2> QED
    BY <2>1, <1>3, <1>4
<1> QED
  BY <1>5, <1>6

\* The end of a chain decides its bodies.
LEMMA ChainEndDecides ==
  ASSUME NEW f, NEW g, Chain(f), Chain(g), ReadLastHash(f) = ReadLastHash(g)
  PROVE  Bodies(f) = Bodies(g)
<1>0. Len(f) \in Nat /\ Len(g) \in Nat
  BY ChainEnd
<1>1. Len(f) = Len(g)
  <2>1. Len(f) <= Len(g) /\ Len(g) <= Len(f)
    BY NotLonger
  <2> QED
    BY <1>0, <2>1
<1>2. ASSUME NEW i \in 1..Len(f) PROVE f[i].body = g[i].body
  <2>1. Len(f) - i \in Nat /\ Len(f) - i <= Len(f) /\ Len(f) - (Len(f) - i) = i
    BY <1>0
  <2>2. DigestAt(f, i) = DigestAt(g, i)
    BY <1>1, <2>1, EqualBackwards
  <2>3. /\ DigestAt(f, i) = <<DigestAt(f, i - 1), f[i].body>>
        /\ DigestAt(g, i) = <<DigestAt(g, i - 1), g[i].body>>
    BY <1>1, ChainLine
  <2>4. <<DigestAt(f, i - 1), f[i].body>> = <<DigestAt(g, i - 1), g[i].body>>
    BY <2>2, <2>3
  <2> QED
    BY <2>4
<1> QED
  BY <1>1, <1>2 DEF Bodies

\* An entry chained to the end of a chain makes it one line longer.
LEMMA ChainGrows ==
  ASSUME NEW f, Chain(f), NEW body
  PROVE  LET g == Append(f, Entry(ReadLastHash(f), body))
         IN  /\ Chain(g)
             /\ ReadLastHash(g) = HashEntry(ReadLastHash(f), body)
             /\ Bodies(g) = Append(Bodies(f), body)
<1> DEFINE e == Entry(ReadLastHash(f), body)
<1> DEFINE g == Append(f, e)
<1>1. IsSeq(f) /\ Undamaged(f) /\ ReadLastHash(f) = DigestAt(f, Len(f))
  BY ChainEnd DEF Chain
<1>2. /\ IsSeq(g) /\ Len(f) \in Nat /\ Len(g) = Len(f) + 1
      /\ g[Len(f) + 1] = e /\ \A i \in 1..Len(f) : g[i] = f[i]
  BY <1>1, AppendSeq
<1>3. /\ Parses(e) /\ e.prev = DigestAt(f, Len(f))
      /\ e.digest = HashEntry(ReadLastHash(f), body) /\ e.digest = HashEntry(e.prev, e.body)
  BY <1>1 DEF Entry, Parses
<1>4. e.body = body
  BY DEF Entry
<1> HIDE DEF e, g
<1>5. Chain(g)
  <2> SUFFICES ASSUME NEW i \in 1..Len(g) PROVE LineVerifies(g, i)
    BY <1>2 DEF Chain
  <2>1. CASE i = Len(f) + 1
    <3>1. g[i] = e /\ (i = 1 <=> Len(f) = 0) /\ i - 1 = Len(f)
      BY <1>2, <2>1
    <3>2. i # 1 => g[i - 1] = f[Len(f)]
      BY <1>2, <3>1
    <3> QED
      BY <1>3, <3>1, <3>2 DEF LineVerifies, DigestAt
  <2>2. CASE i # Len(f) + 1
    <3>1. i \in 1..Len(f) /\ (i = 1 \/ i - 1 \in 1..Len(f))
      BY <1>2, <2>2
    <3>2. g[i] = f[i] /\ (i # 1 => g[i - 1] = f[i - 1])
      BY <1>2, <3>1
    <3> QED
      BY <3>1, <3>2 DEF Chain, LineVerifies
  <2> QED
    BY <2>1, <2>2
<1>7. ReadLastHash(g) = HashEntry(ReadLastHash(f), body)
  <2>1. Len(g) > 0 /\ ReadLastHash(g) = DigestAt(g, Len(g))
    BY <1>2, <1>5, ChainEnd
  <2>2. DigestAt(g, Len(g)) = e.digest
    BY <1>2, <2>1 DEF DigestAt
  <2> QED
    BY <1>3, <2>1, <2>2
<1>6. Bodies(g) = Append(Bodies(f), body)
  <2> DEFINE B == {f[i].body : i \in 1..Len(f)} \cup {body}
  <2>1. Bodies(f) \in [1..Len(f) -> B]
    BY DEF Bodies
  <2>b. body \in B
    OBVIOUS
  <2> HIDE DEF B
  <2>2. Bodies(f) \in Seq(B) /\ Len(Bodies(f)) = Len(f)
    BY <1>2, <2>1, SeqDef, LenProperties
  <2> DEFINE b == Append(Bodies(f), body)
  <2>3. /\ b \in Seq(B) /\ Len(b) = Len(f) + 1 /\ b[Len(f) + 1] = body
        /\ \A i \in 1..Len(f) : b[i] = Bodies(f)[i]
    BY <1>2, <2>2, <2>b
  <2>4. b = [i \in 1..(Len(f) + 1) |-> b[i]]
    BY <2>3, LenProperties
  <2>5. \A i \in 1..(Len(f) + 1) : b[i] = g[i].body
    <3> HIDE DEF b
    <3> TAKE i \in 1..(Len(f) + 1)
    <3>1. CASE i = Len(f) + 1
      BY <1>2, <1>4, <2>3, <3>1
    <3>2. CASE i # Len(f) + 1
      <4>1. i \in 1..Len(f)
        BY <1>2, <3>2
      <4> QED
        BY <1>2, <2>3, <4>1 DEF Bodies
    <3> QED
      BY <3>1, <3>2
  <2> HIDE DEF b
  <2>6. Bodies(g) = [i \in 1..(Len(f) + 1) |-> g[i].body]
    BY <1>2 DEF Bodies
  <2>7. b = Bodies(g)
    BY <2>4, <2>5, <2>6
  <2> QED
    BY <2>7 DEF b
<1> QED
  BY <1>5, <1>6, <1>7 DEF g, e

\* What an edit by hand does not change: lines that parse, and the last digest.
EditedFrom(f, g) == LinesOK(g) /\ Whole(g) /\ ReadLastHash(g) = ReadLastHash(f)

\* Lines that parse, put together so that the last digest is the old one.
LEMMA EditedLines ==
  ASSUME NEW f, LinesOK(f), Whole(f), Len(f) > 0, NEW n \in Nat \ {0}, NEW g,
         g = [k \in 1..n |-> g[k]],
         \A k \in 1..n : IsLine(g[k]) /\ Parses(g[k]) /\ g[k].ended,
         g[n].digest = f[Len(f)].digest
  PROVE  EditedFrom(f, g)
<1> DEFINE T == {g[k] : k \in 1..n}
<1>1. g \in [1..n -> T]
  OBVIOUS
<1> HIDE DEF T
<1>2. g \in Seq(T) /\ Len(g) = n
  BY <1>1, SeqDef, LenProperties
<1>3. IsSeq(g)
  BY <1>2, IsSeqIntro
<1>4. Whole(g) /\ LinesOK(g)
  BY <1>2, <1>3 DEF Whole, LinesOK
<1>5. ReadLastHash(g) = g[n].digest
  BY <1>2, <1>3, <1>4, LastOfWhole
<1>6. ReadLastHash(f) = f[Len(f)].digest
  BY LastOfWhole DEF LinesOK
<1> QED
  BY <1>4, <1>5, <1>6 DEF EditedFrom

\* A file as a function of its places.
LEMMA LinesOfFile ==
  ASSUME NEW f, LinesOK(f)
  PROVE  Len(f) \in Nat /\ DOMAIN f = 1..Len(f) /\ f = [k \in 1..Len(f) |-> f[k]]
  BY LenProperties DEF LinesOK, IsSeq

\* A field of a line edited, its digests left as they are.
LEMMA EditEdits ==
  ASSUME NEW f, LinesOK(f), Whole(f), NEW i \in 1..Len(f), NEW a \in Actors
  PROVE  EditedFrom(f, [f EXCEPT ![i].body.actor = a])
<1> DEFINE b == [f[i].body EXCEPT !.actor = a]
<1> DEFINE l == [f[i] EXCEPT !.body = b]
<1> DEFINE g == [f EXCEPT ![i] = l]
<1>0. Len(f) \in Nat /\ DOMAIN f = 1..Len(f)
  BY LinesOfFile
<1>1. /\ f[i].kind = "entry" /\ DOMAIN f[i] = {"kind", "prev", "body", "digest", "ended"}
      /\ f[i].body \in Body /\ f[i].ended
  BY DEF LinesOK, Whole, IsLine, Parses
<1>2. [f EXCEPT ![i].body.actor = a] = g
  BY <1>0, <1>1
<1>3. b \in Body
  BY <1>1 DEF Body
<1> HIDE DEF b
<1>4. /\ DOMAIN l = {"kind", "prev", "body", "digest", "ended"} /\ l.ended = TRUE
      /\ l.kind = "entry" /\ l.digest = f[i].digest /\ l.body = b
  BY <1>1
<1> HIDE DEF l
<1>5. IsLine(l) /\ Parses(l) /\ l.ended
  BY <1>3, <1>4 DEF IsLine, Parses
<1>6. /\ g = [k \in 1..Len(f) |-> g[k]]
      /\ g[i] = l /\ \A k \in 1..Len(f) : k # i => g[k] = f[k]
  BY <1>0
<1> HIDE DEF g
<1>7. \A k \in 1..Len(f) : IsLine(g[k]) /\ Parses(g[k]) /\ g[k].ended
  BY <1>5, <1>6 DEF LinesOK, Whole
<1>8. Len(f) \in Nat \ {0} /\ Len(f) \in 1..Len(f) /\ Len(f) > 0
  BY <1>0
<1>9. g[Len(f)].digest = f[Len(f)].digest
  BY <1>4, <1>6, <1>8
<1>10. EditedFrom(f, g)
  BY <1>6, <1>7, <1>8, <1>9, EditedLines
<1> QED
  BY <1>2, <1>10

\* A line deleted that is not the last.
LEMMA DeleteEdits ==
  ASSUME NEW f, LinesOK(f), Whole(f), NEW i \in 1..(Len(f) - 1)
  PROVE  EditedFrom(f, [k \in 1..(Len(f) - 1) |-> IF k < i THEN f[k] ELSE f[k + 1]])
<1> DEFINE n == Len(f) - 1
<1> DEFINE g == [k \in 1..(Len(f) - 1) |-> IF k < i THEN f[k] ELSE f[k + 1]]
<1>0. Len(f) \in Nat /\ i \in Int
  BY LinesOfFile
<1>1. n \in Nat \ {0} /\ n + 1 = Len(f) /\ ~(n < i) /\ n \in 1..n /\ Len(f) > 0
  <2>1. i \in Int /\ i >= 1 /\ i <= Len(f) - 1
    BY <1>0
  <2>2. n \in Int /\ n >= 1
    BY <1>0, <2>1
  <2>3. n \in Nat \ {0} /\ n \in 1..n
    <3> HIDE DEF n
    <3> QED
      BY <2>2
  <2>4. n + 1 = Len(f) /\ Len(f) > 0
    BY <1>0, <2>2
  <2>5. ~(n < i)
    BY <1>0, <2>1
  <2> QED
    BY <2>3, <2>4, <2>5
<1>2. \A k \in 1..n : k \in 1..Len(f) /\ k + 1 \in 1..Len(f)
  BY <1>0
<1>3. \A k \in 1..n : g[k] = IF k < i THEN f[k] ELSE f[k + 1]
  OBVIOUS
<1>4. g = [k \in 1..n |-> g[k]]
  OBVIOUS
<1> HIDE DEF g
<1>5. \A k \in 1..n : IsLine(g[k]) /\ Parses(g[k]) /\ g[k].ended
  BY <1>2, <1>3 DEF LinesOK, Whole
<1>6. g[n] = f[Len(f)]
  BY <1>1, <1>3
<1> HIDE DEF n
<1>7. EditedFrom(f, g)
  BY <1>1, <1>4, <1>5, <1>6, EditedLines
<1> QED
  BY <1>7 DEF g

\* Two lines in the other order, the last one not among them.
LEMMA ReorderEdits ==
  ASSUME NEW f, LinesOK(f), Whole(f), NEW i \in 1..(Len(f) - 2)
  PROVE  EditedFrom(f, [f EXCEPT ![i] = f[i + 1], ![i + 1] = f[i]])
<1> DEFINE g == [f EXCEPT ![i] = f[i + 1], ![i + 1] = f[i]]
<1>0. Len(f) \in Nat /\ DOMAIN f = 1..Len(f)
  BY LinesOfFile
<1>1. /\ Len(f) \in Nat \ {0} /\ Len(f) \in 1..Len(f) /\ Len(f) > 0
      /\ i \in 1..Len(f) /\ i + 1 \in 1..Len(f) /\ i # Len(f) /\ i + 1 # Len(f) /\ i # i + 1
  <2>1. i \in Int /\ i >= 1 /\ i <= Len(f) - 2
    BY <1>0
  <2>2. Len(f) >= 3
    BY <1>0, <2>1
  <2>3. i \in 1..Len(f) /\ i + 1 \in 1..Len(f)
    BY <1>0, <2>1
  <2>4. Len(f) \in Nat \ {0} /\ Len(f) \in 1..Len(f) /\ Len(f) > 0
    BY <1>0, <2>2
  <2>5. i < Len(f) /\ i + 1 < Len(f) /\ i < i + 1
    BY <1>0, <2>1
  <2>6. i # Len(f) /\ i + 1 # Len(f) /\ i # i + 1
    <3>1. \A x, y \in Int : x < y => x # y
      OBVIOUS
    <3>2. i \in Int /\ i + 1 \in Int /\ Len(f) \in Int
      BY <1>0, <2>1
    <3> QED
      BY <2>5, <3>1, <3>2
  <2> QED
    BY <2>3, <2>4, <2>6
<1>2. /\ g = [k \in 1..Len(f) |-> g[k]]
      /\ \A k \in 1..Len(f) : g[k] = IF k = i THEN f[i + 1] ELSE IF k = i + 1 THEN f[i] ELSE f[k]
  BY <1>0, <1>1
<1> HIDE DEF g
<1>3. \A k \in 1..Len(f) : IsLine(g[k]) /\ Parses(g[k]) /\ g[k].ended
  BY <1>1, <1>2 DEF LinesOK, Whole
<1>4. g[Len(f)] = f[Len(f)]
  BY <1>1, <1>2
<1>5. EditedFrom(f, g)
  BY <1>1, <1>2, <1>3, <1>4, EditedLines
<1> QED
  BY <1>5 DEF g

\* Beside the file there is the chain of what the API wrote, with the same end.
Backed(f, bodies) ==
    \E o : Chain(o) /\ ReadLastHash(o) = ReadLastHash(f) /\ Bodies(o) = bodies

TamperInv ==
    /\ TypeOK
    /\ NoneDamaged
    /\ ResolvedKeysOnly
    /\ CacheIsEnd
    /\ DOMAIN genuine = DOMAIN files
    /\ \A n \in DOMAIN files : Backed(files[n], genuine[n])

\* No line is the chain of no event.
LEMMA NoLinesBacked == Backed(<< >>, << >>)
<1>1. Chain(<< >>)
  BY NoLines DEF Chain
<1>2. Bodies(<< >>) = << >>
  BY NoLines DEF Bodies
<1> QED
  BY <1>1, <1>2 DEF Backed

\* Every step of the one process, and every edit, keeps the files backed.
LEMMA TamperInvStep ==
  ASSUME OneProcess, TamperInv, [TamperNext]_tamperVars
  PROVE  TamperInv'
<1>t. /\ TypeOK /\ NoneDamaged /\ ResolvedKeysOnly /\ CacheIsEnd
      /\ DOMAIN genuine = DOMAIN files
      /\ \A n \in DOMAIN files :
            /\ Backed(files[n], genuine[n])
            /\ LinesOK(files[n]) /\ Whole(files[n])
  BY DEF TamperInv, TypeOK, LinesOK, NoneDamaged
<1>1. ASSUME NEW r \in Replicas, nextId <= MaxEvents, NEW body \in NewBodies, Write(r, body),
             genuine' = WithActive(IF NeedsRotation THEN Vacated(genuine, 0) ELSE genuine,
                                   Append(GenuineActive, body))
      PROVE  TamperInv'
  <2> DEFINE f == ActiveAfterRotation
  <2> DEFINE g == AppendLine(f, Entry(PrevHash(r), body))
  <2>1. TypeOK' /\ NoneDamaged' /\ ResolvedKeysOnly' /\ CacheIsEnd'
    BY <1>t, <1>1, CleanStep
  <2>2. IsSeq(f) /\ Whole(f) /\ PrevHash(r) = ReadLastHash(f)
    BY <1>t, CleanTarget
  <2>3. Backed(f, GenuineActive)
    BY <1>t, NoLinesBacked DEF GenuineActive, ActiveAfterRotation, Lines
  <2>4. Backed(g, Append(GenuineActive, body))
    <3>1. PICK o : Chain(o) /\ ReadLastHash(o) = ReadLastHash(f) /\ Bodies(o) = GenuineActive
      BY <2>3 DEF Backed
    <3> DEFINE p == Append(o, Entry(ReadLastHash(o), body))
    <3>2. /\ Chain(p)
          /\ ReadLastHash(p) = HashEntry(ReadLastHash(o), body)
          /\ Bodies(p) = Append(Bodies(o), body)
      BY <3>1, ChainGrows
    <3>3. ReadLastHash(g) = HashEntry(PrevHash(r), body)
      BY <2>2, AppendWhole
    <3> HIDE DEF p, g
    <3> QED
      BY <2>2, <3>1, <3>2, <3>3 DEF Backed
  <2>5. files' = WithActive(RotatedFiles, g)
    BY <1>1 DEF Write
  <2> HIDE DEF f, g
  <2> DEFINE old == IF NeedsRotation THEN Vacated(genuine, 0) ELSE genuine
  <2>6. /\ DOMAIN old = DOMAIN RotatedFiles
        /\ \A n \in DOMAIN RotatedFiles : Backed(RotatedFiles[n], old[n])
    <3>1. CASE NeedsRotation
      <4>1. RotatedFiles = Vacated(files, 0) /\ old = Vacated(genuine, 0)
        BY <3>1 DEF RotatedFiles
      <4>2. DOMAIN files \subseteq 0..BackupCount
        BY <1>t DEF TypeOK
      <4>3. /\ DOMAIN old = DOMAIN RotatedFiles
            /\ \A n \in DOMAIN RotatedFiles :
                  n - 1 \in DOMAIN files /\ RotatedFiles[n] = files[n - 1] /\ old[n] = genuine[n - 1]
        BY <1>t, <4>1, <4>2, AuditAssumption DEF Vacated
      <4> QED
        BY <1>t, <4>3
    <3>2. CASE ~NeedsRotation
      BY <1>t, <3>2 DEF RotatedFiles
    <3> QED
      BY <3>1, <3>2
  <2> DEFINE new == Append(GenuineActive, body)
  <2>7. genuine' = WithActive(old, new)
    BY <1>1
  <2> HIDE DEF old, new
  <2>8. /\ DOMAIN files' = DOMAIN RotatedFiles \cup {0} /\ files'[0] = g
        /\ \A n \in DOMAIN RotatedFiles \ {0} : files'[n] = RotatedFiles[n]
    BY <2>5 DEF WithActive
  <2>9. /\ DOMAIN genuine' = DOMAIN old \cup {0} /\ genuine'[0] = new
        /\ \A n \in DOMAIN old \ {0} : genuine'[n] = old[n]
    BY <2>7 DEF WithActive
  <2>10. DOMAIN genuine' = DOMAIN files'
         /\ \A n \in DOMAIN files' : Backed(files'[n], genuine'[n])
    BY <2>4, <2>6, <2>8, <2>9 DEF new
  <2> QED
    BY <2>1, <2>10 DEF TamperInv
<1>2. ASSUME NEW r \in Replicas, Restart(r), UNCHANGED genuine
      PROVE  TamperInv'
  <2>1. TypeOK' /\ NoneDamaged' /\ ResolvedKeysOnly' /\ CacheIsEnd'
    BY <1>t, <1>2, CleanStep
  <2>2. files' = files /\ genuine' = genuine
    BY <1>2 DEF Restart
  <2> QED
    BY <1>t, <2>1, <2>2 DEF TamperInv
<1>3. ASSUME NEW n \in DOMAIN files, NEW g, EditedFrom(files[n], g), Rewrite(n, g)
      PROVE  TamperInv'
  <2>1. /\ DOMAIN files' = DOMAIN files /\ files'[n] = g
        /\ \A m \in DOMAIN files \ {n} : files'[m] = files[m]
        /\ UNCHANGED <<cache, nextId, logged, genuine>>
    BY <1>3 DEF Rewrite
  <2>2. \A m \in DOMAIN files :
            /\ LinesOK(files'[m]) /\ Whole(files'[m])
            /\ ReadLastHash(files'[m]) = ReadLastHash(files[m])
    BY <1>t, <1>3, <2>1 DEF EditedFrom
  <2>3. TypeOK' /\ NoneDamaged'
    BY <1>t, <2>1, <2>2 DEF TypeOK, LinesOK, NoneDamaged
  <2>4. ReadLastHash(Lines(0)') = ReadLastHash(Lines(0)) /\ Whole(Lines(0))
    BY <1>t, <2>1, <2>2, NoLinesWhole DEF Lines
  <2>5. \A k \in DOMAIN cache' : cache'[k] = ReadLastHash(Lines(0)') /\ k[2] = "resolved"
    BY <1>t, <2>1, <2>4 DEF CacheIsEnd, ResolvedKeysOnly
  <2>6. \A m \in DOMAIN files' : Backed(files'[m], genuine'[m])
    BY <1>t, <2>1, <2>2 DEF Backed
  <2> QED
    BY <1>t, <2>1, <2>3, <2>5, <2>6 DEF TamperInv, CacheIsEnd, ResolvedKeysOnly
<1>4. ASSUME NEW n \in DOMAIN files, NEW i \in 1..Len(files[n]), EditLine(n, i)
      PROVE  TamperInv'
  BY <1>t, <1>3, <1>4, EditEdits DEF EditLine
<1>5. ASSUME NEW n \in DOMAIN files, NEW i \in 1..(Len(files[n]) - 1), DeleteLine(n, i)
      PROVE  TamperInv'
  BY <1>t, <1>3, <1>5, DeleteEdits DEF DeleteLine
<1>6. ASSUME NEW n \in DOMAIN files, NEW i \in 1..(Len(files[n]) - 2), ReorderLines(n, i)
      PROVE  TamperInv'
  BY <1>t, <1>3, <1>6, ReorderEdits DEF ReorderLines
<1>7. CASE UNCHANGED tamperVars
  <2>1. UNCHANGED vars /\ genuine' = genuine
    BY <1>7 DEF tamperVars
  <2>2. TypeOK'
    BY <1>t, <2>1, TypeStep
  <2> QED
    BY <1>t, <2>1, <2>2
    DEF vars, TamperInv, NoneDamaged, ResolvedKeysOnly, CacheIsEnd, Lines
<1> QED
  BY <1>1, <1>2, <1>4, <1>5, <1>6, <1>7 DEF TamperNext, ApiStep

\* For one process: a file that verifies holds exactly the events the API wrote
\* to it, in order, whatever was edited, deleted or reordered before its last
\* line, and whatever was written, rotated or restarted in between
\* (audit_verify._verify_one).
THEOREM VerifierSound ==
  ASSUME OneProcess
  PROVE  TamperSpec => []VerifiedIsGenuine
<1>1. TamperInit => TamperInv
  <2> SUFFICES ASSUME TamperInit PROVE TamperInv
    OBVIOUS
  <2>1. TypeOK
    BY TypeInit DEF TamperInit
  <2> QED
    BY <2>1
    DEF TamperInit, Init, TamperInv, NoneDamaged, ResolvedKeysOnly, CacheIsEnd
<1>2. TamperInv /\ [TamperNext]_tamperVars => TamperInv'
  BY TamperInvStep
<1>3. TamperInv => VerifiedIsGenuine
  <2> SUFFICES ASSUME TamperInv, NEW n \in DOMAIN files, FirstBadLine(files[n]) = 0
               PROVE  Bodies(files[n]) = genuine[n]
    BY DEF VerifiedIsGenuine
  <2>1. IsSeq(files[n])
    BY DEF TamperInv, TypeOK
  <2>2. Chain(files[n])
    BY <2>1, BlamedLine DEF Chain
  <2>3. PICK o : /\ Chain(o) /\ ReadLastHash(o) = ReadLastHash(files[n])
                 /\ Bodies(o) = genuine[n]
    BY DEF TamperInv, Backed
  <2> QED
    BY <2>2, <2>3, ChainEndDecides
<1> QED
  BY <1>1, <1>2, <1>3, PTL DEF TamperSpec

-----------------------------------------------------------------------------
(***************************************************************************)
(* Retention. A sweep takes rows by the tenant and the number in the row   *)
(* itself; that these are the event's own needs LogInv: what a row carries *)
(* is an event that was appended, and no two of those have one number.     *)
(* That the cutoff is the one granted, and the floor the one pinned, needs *)
(* StoresInv: a cache holds nothing or what is on disk.                    *)
(***************************************************************************)

\* What a row carries are events of the set from.
RowOK(l, from) == EventsOf(l) \subseteq from

RowsOK(f, from) == IsSeq(f) /\ \A i \in 1..Len(f) : RowOK(f[i], from)

LogInv ==
    /\ DOMAIN files \subseteq 0..BackupCount
    /\ \A n \in DOMAIN files : RowsOK(files[n], logged)
    /\ nextId \in Nat
    /\ \A b \in logged : b.id \in Nat /\ b.id < nextId
    /\ \A b, c \in logged : b.id = c.id => b = c

StoresInv ==
    /\ policy \in [Tenants -> Nat]
    /\ asked \in [Tenants -> Nat]
    /\ floor \in [Tenants -> Nat]
    /\ policyCache \in [Replicas -> {NotLoaded, policy}]
    /\ floorCache \in [Replicas -> {NotLoaded, floor}]
    /\ \A t \in Tenants : policy[t] \in {0, asked[t]}

\* Rows, old ones and new ones, each carrying an event of from.
LEMMA RowsFromOld ==
  ASSUME NEW f, NEW from, RowsOK(f, from), NEW g, IsSeq(g),
         \A i \in 1..Len(g) : RowOK(g[i], from) \/ \E j \in 1..Len(f) : g[i] = f[j]
  PROVE  RowsOK(g, from)
  BY DEF RowsOK

\* A row may stay when more events are appended.
LEMMA MoreEvents ==
  ASSUME NEW f, NEW from, NEW more, RowsOK(f, from), from \subseteq more
  PROVE  RowsOK(f, more)
  BY DEF RowsOK, RowOK

\* An append adds the events of its own line, also to a line that was left open.
LEMMA AppendedRows ==
  ASSUME NEW f, NEW from, RowsOK(f, from), NEW line, RowOK(line, from)
  PROVE  RowsOK(AppendLine(f, line), from)
<1> DEFINE n == IF EndsOpen(f) THEN Len(f) - 1 ELSE Len(f)
<1> DEFINE g == AppendLine(f, line)
<1>1. /\ IsSeq(g) /\ Len(f) \in Nat /\ n \in Nat /\ Len(g) = n + 1
      /\ g[n + 1] = LastAfter(f, line) /\ \A i \in 1..n : g[i] = f[i]
  BY AppendLineSeq DEF RowsOK
<1>2. RowOK(LastAfter(f, line), from)
  <2>1. CASE EndsOpen(f)
    <3>1. Len(f) \in 1..Len(f)
      BY <1>1, <2>1 DEF EndsOpen
    <3>2. RowOK(f[Len(f)], from)
      BY <3>1 DEF RowsOK
    <3> QED
      BY <2>1, <3>2 DEF LastAfter, RowOK, EventsOf, Scrap, Parses
  <2> QED
    BY <2>1 DEF LastAfter
<1>3. n <= Len(f)
  BY <1>1
<1> HIDE DEF g, n
<1>4. \A i \in 1..Len(g) : i = n + 1 \/ (i \in 1..n /\ i \in 1..Len(f))
  BY <1>1, <1>3
<1>5. \A i \in 1..Len(g) : RowOK(g[i], from) \/ \E j \in 1..Len(f) : g[i] = f[j]
  BY <1>1, <1>2, <1>4
<1> QED
  BY <1>1, <1>5, RowsFromOld DEF g

\* The events of what an append writes, cut short or not.
LEMMA PieceRows ==
  ASSUME NEW prev, NEW body, NEW from
  PROVE  /\ body \in from => RowOK(Entry(prev, body), from)
         /\ body \in from => RowOK(Unended(Entry(prev, body)), from)
         /\ RowOK(Torn, from)
  BY DEF Entry, Unended, Torn, Scrap, EventsOf, Parses, RowOK

\* The rows of the file an append goes to.
LEMMA ActiveRows ==
  ASSUME LogInv
  PROVE  RowsOK(ActiveAfterRotation, logged) /\ RowsOK(Lines(0), logged)
<1>1. RowsOK(<< >>, logged)
  BY NoLines DEF RowsOK
<1>2. RowsOK(Lines(0), logged)
  BY <1>1 DEF Lines, LogInv
<1> QED
  BY <1>1, <1>2 DEF ActiveAfterRotation

\* A directory rotated and given a new active file.
LEMMA RotatedRows ==
  ASSUME LogInv, NEW f, NEW from, RowsOK(f, from), logged \subseteq from
  PROVE  LET fs == WithActive(RotatedFiles, f)
         IN  /\ DOMAIN fs \subseteq 0..BackupCount
             /\ \A n \in DOMAIN fs : RowsOK(fs[n], from)
<1> DEFINE fs == WithActive(RotatedFiles, f)
<1>1. /\ DOMAIN fs = DOMAIN RotatedFiles \cup {0} /\ fs[0] = f
      /\ \A n \in DOMAIN RotatedFiles \ {0} : fs[n] = RotatedFiles[n]
  BY DEF WithActive
<1> HIDE DEF fs
<1>2. DOMAIN files \subseteq 0..BackupCount /\ 0 \in 0..BackupCount
  BY AuditAssumption DEF LogInv
<1>3. ASSUME NEW n \in DOMAIN fs PROVE RowsOK(fs[n], from)
  <2>1. CASE n = 0
    BY <1>1, <2>1
  <2>2. CASE n # 0
    <3>1. n \in DOMAIN RotatedFiles /\ fs[n] = RotatedFiles[n]
      BY <1>1, <2>2
    <3>2. PICK k \in DOMAIN files : RotatedFiles[n] = files[k]
      BY <1>2, <3>1, RotatedFilesFromOld
    <3>3. RowsOK(files[k], logged)
      BY DEF LogInv
    <3> QED
      BY <3>1, <3>2, <3>3, MoreEvents
  <2> QED
    BY <2>1, <2>2
<1>4. DOMAIN fs \subseteq 0..BackupCount
  BY <1>1, <1>2, RotatedFilesFromOld
<1> QED
  BY <1>3, <1>4 DEF fs

\* Whatever becomes of an event that is handed to write_event, it uses up a number.
LEMMA LogKeeps ==
  ASSUME LogInv, NEW r \in Replicas,
         \/ \E body \in NewBodies : Write(r, body) \/ InterruptedAppend(r, body)
         \/ InterruptedRotation
  PROVE  LogInv' /\ nextId' = nextId + 1
<1>t. /\ DOMAIN files \subseteq 0..BackupCount /\ nextId \in Nat
      /\ \A n \in DOMAIN files : RowsOK(files[n], logged)
      /\ \A b \in logged : b.id \in Nat /\ b.id < nextId
      /\ \A b, c \in logged : b.id = c.id => b = c
  BY DEF LogInv
<1>0. 0 \in 0..BackupCount
  BY AuditAssumption
<1>1. ASSUME NEW body \in NewBodies, logged' = logged \/ logged' = logged \cup {body},
             nextId' = nextId + 1, DOMAIN files' \subseteq 0..BackupCount,
             \A n \in DOMAIN files' : RowsOK(files'[n], logged')
      PROVE  LogInv' /\ nextId' = nextId + 1
  <2>1. body.id = nextId
    BY DEF NewBodies
  <2>2. nextId' \in Nat /\ \A b \in logged' : b.id \in Nat /\ b.id < nextId'
    BY <1>t, <1>1, <2>1
  <2>3. \A b, c \in logged' : b.id = c.id => b = c
    BY <1>t, <1>1, <2>1
  <2> QED
    BY <1>1, <2>2, <2>3 DEF LogInv
<1>2. ASSUME NEW body \in NewBodies, NEW line,
             logged' = logged \/ logged' = logged \cup {body}, RowOK(line, logged'),
             files' = WithActive(RotatedFiles, AppendLine(ActiveAfterRotation, line))
      PROVE  /\ DOMAIN files' \subseteq 0..BackupCount
             /\ \A n \in DOMAIN files' : RowsOK(files'[n], logged')
  <2> DEFINE f == AppendLine(ActiveAfterRotation, line)
  <2>1. logged \subseteq logged'
    BY <1>2
  <2>2. RowsOK(ActiveAfterRotation, logged')
    BY <2>1, ActiveRows, MoreEvents
  <2>3. RowsOK(f, logged')
    BY <1>2, <2>2, AppendedRows
  <2>4. files' = WithActive(RotatedFiles, f)
    BY <1>2
  <2> HIDE DEF f
  <2> QED
    BY <2>1, <2>3, <2>4, RotatedRows
<1>3. ASSUME NEW body \in NewBodies, Write(r, body)
      PROVE  LogInv' /\ nextId' = nextId + 1
  <2>1. logged' = logged \cup {body} /\ nextId' = nextId + 1
    BY <1>3 DEF Write
  <2>2. RowOK(Entry(PrevHash(r), body), logged')
    BY <2>1, PieceRows
  <2> QED
    BY <1>1, <1>2, <1>3, <2>1, <2>2 DEF Write
<1>4. ASSUME NEW body \in NewBodies, InterruptedAppend(r, body)
      PROVE  LogInv' /\ nextId' = nextId + 1
  <2>1. nextId' = nextId + 1
    BY <1>4 DEF InterruptedAppend
  <2>2. CASE StopBeforeAppend(r) /\ UNCHANGED logged
    <3>1. files' = RotatedFiles
      BY <2>2 DEF StopBeforeAppend
    <3>2. DOMAIN files' \subseteq 0..BackupCount /\ \A n \in DOMAIN files' : RowsOK(files'[n], logged)
      BY <1>t, <3>1, RotatedFilesFromOld
    <3> QED
      BY <1>1, <2>1, <2>2, <3>2
  <2>3. CASE StopInAppend(r, Torn) /\ UNCHANGED logged
    <3>1. RowOK(Torn, logged')
      BY PieceRows
    <3> QED
      BY <1>1, <1>2, <2>1, <2>3, <3>1 DEF StopInAppend
  <2>4. CASE StopInAppend(r, Unended(Entry(PrevHash(r), body))) /\ logged' = logged \cup {body}
    <3>1. RowOK(Unended(Entry(PrevHash(r), body)), logged')
      BY <2>4, PieceRows
    <3> QED
      BY <1>1, <1>2, <2>1, <2>4, <3>1 DEF StopInAppend
  <2> QED
    BY <1>4, <2>2, <2>3, <2>4 DEF InterruptedAppend
<1>5. CASE InterruptedRotation
  <2>1. nextId' = nextId + 1 /\ logged' = logged
    BY <1>5 DEF InterruptedRotation
  <2>2. /\ DOMAIN files' \subseteq 0..BackupCount
        /\ \A n \in DOMAIN files' : RowsOK(files'[n], logged)
    <3>1. CASE UNCHANGED <<files, cache>>
      BY <1>t, <3>1
    <3>2. CASE StopInRotation
      <4>1. PICK m \in 0..BackupCount : files' = Vacated(files, m)
        BY <3>2 DEF StopInRotation
      <4> QED
        BY <1>t, <4>1, VacatedFiles
    <3> QED
      BY <1>5, <3>1, <3>2 DEF InterruptedRotation
  <2>3. nextId' \in Nat /\ \A b \in logged' : b.id \in Nat /\ b.id < nextId'
    BY <1>t, <2>1
  <2> QED
    BY <1>t, <2>1, <2>2, <2>3 DEF LogInv
<1> QED
  BY <1>3, <1>4, <1>5

\* A sweep leaves rows that were there, and every event of a row it spares.
LEMMA SweptRows ==
  ASSUME NEW f, RowsOK(f, logged), NEW t, NEW cutoff
  PROVE  LET g == Purge(f, t, cutoff)
         IN  /\ RowsOK(g, logged)
             /\ \A i \in 1..Len(f) : \A id :
                   CarriesEvent(f[i], id) /\ ~Outlived(f[i], t, cutoff)
                      => \E k \in 1..Len(g) : CarriesEvent(g[k], id)
<1> DEFINE gone == {i \in 1..Len(f) : Outlived(f[i], t, cutoff)}
<1> DEFINE kept == Dropped(f, gone)
<1> DEFINE g == Purge(f, t, cutoff)
<1>1. /\ IsSeq(kept) /\ Len(kept) \in Nat
      /\ \A k \in 1..Len(kept) : \E i \in (1..Len(f)) \ gone : kept[k] = f[i]
      /\ \A i \in (1..Len(f)) \ gone : \E k \in 1..Len(kept) : kept[k] = f[i]
  BY DroppedLines DEF RowsOK
<1>2. g = IF EndsOpen(kept) THEN [kept EXCEPT ![Len(kept)].ended = TRUE] ELSE kept
  BY DEF Purge
<1>3. \A i \in 1..Len(f) : ~Outlived(f[i], t, cutoff) => i \in (1..Len(f)) \ gone
  OBVIOUS
<1> HIDE DEF gone, kept, g
<1>4. RowsOK(kept, logged)
  BY <1>1, RowsFromOld
<1>5. CASE ~EndsOpen(kept)
  <2>1. g = kept
    BY <1>2, <1>5
  <2> QED
    BY <1>1, <1>3, <1>4, <2>1 DEF g
<1>6. CASE EndsOpen(kept)
  <2> DEFINE last == [kept[Len(kept)] EXCEPT !.ended = TRUE]
  <2>1. Len(kept) > 0 /\ Len(kept) \in 1..Len(kept)
    BY <1>1, <1>6 DEF EndsOpen
  <2>2. /\ IsSeq(g) /\ Len(g) = Len(kept) /\ g[Len(kept)] = last
        /\ \A k \in 1..(Len(kept) - 1) : g[k] = kept[k]
    <3> DEFINE h == [kept EXCEPT ![Len(kept)] = last]
    <3>1. /\ IsSeq(h) /\ Len(h) = Len(kept) /\ h[Len(kept)] = last
          /\ \A k \in 1..(Len(kept) - 1) : h[k] = kept[k]
      BY <1>1, <2>1, ReplaceLastSeq
    <3>2. g = h
      BY <1>2, <1>6, <2>1
    <3> HIDE DEF h, last
    <3> QED
      BY <3>1, <3>2
  <2>3. \A k \in 1..Len(kept) : k = Len(kept) \/ k \in 1..(Len(kept) - 1)
    BY <1>1
  <2>4. EventsOf(last) = EventsOf(kept[Len(kept)])
    BY DEF EventsOf, Parses
  <2>5. RowOK(last, logged)
    BY <1>4, <2>1, <2>4 DEF RowOK, RowsOK
  <2> HIDE DEF last
  <2>6. \A k \in 1..Len(g) : RowOK(g[k], logged) \/ \E j \in 1..Len(kept) : g[k] = kept[j]
    BY <2>2, <2>3, <2>5
  <2>7. RowsOK(g, logged)
    BY <1>4, <2>2, <2>6, RowsFromOld
  <2>8. ASSUME NEW i \in 1..Len(f), NEW id, CarriesEvent(f[i], id), ~Outlived(f[i], t, cutoff)
        PROVE  \E k \in 1..Len(g) : CarriesEvent(g[k], id)
    <3>1. PICK k \in 1..Len(kept) : kept[k] = f[i]
      BY <1>1, <1>3, <2>8
    <3>2. EventsOf(g[k]) = EventsOf(kept[k])
      BY <2>2, <2>3, <2>4
    <3> QED
      BY <2>2, <2>8, <3>1, <3>2 DEF CarriesEvent
  <2> QED
    BY <2>7, <2>8 DEF g
<1> QED
  BY <1>5, <1>6

\* What a sweep for t takes is a dated event of t that is older than the cutoff.
LEMMA SweepTakesOwn ==
  ASSUME LogInv, NEW t, NEW cutoff, files' = AfterSweep(t, cutoff), logged' = logged
  PROVE  /\ DOMAIN files' \subseteq 0..BackupCount
         /\ \A n \in DOMAIN files' : RowsOK(files'[n], logged)
         /\ \A b \in Taken : b.tenant = t /\ b.id < cutoff /\ b.id \notin undated
<1> DEFINE f == Lines(0)
<1> DEFINE g == Purge(f, t, cutoff)
<1>1. /\ RowsOK(f, logged) /\ DOMAIN files \subseteq 0..BackupCount /\ 0 \in 0..BackupCount
      /\ \A n \in DOMAIN files : RowsOK(files[n], logged)
      /\ \A b, c \in logged : b.id = c.id => b = c
  BY ActiveRows, AuditAssumption DEF LogInv
<1>2. /\ RowsOK(g, logged)
      /\ \A i \in 1..Len(f) : \A id :
            CarriesEvent(f[i], id) /\ ~Outlived(f[i], t, cutoff)
               => \E k \in 1..Len(g) : CarriesEvent(g[k], id)
  BY <1>1, SweptRows
<1>3. files' = IF \E i \in 1..Len(f) : Outlived(f[i], t, cutoff) THEN WithActive(files, g) ELSE files
  BY DEF AfterSweep
<1>f. 0 \in DOMAIN files => f = files[0]
  BY DEF Lines
<1> HIDE DEF f, g
<1>4. CASE files' = files
  <2>1. Taken = {}
    BY <1>4 DEF Taken, OnDisk
  <2> QED
    BY <1>1, <1>4, <2>1
<1>5. CASE files' = WithActive(files, g)
  <2>1. /\ DOMAIN files' = DOMAIN files \cup {0} /\ files'[0] = g
        /\ \A n \in DOMAIN files \ {0} : files'[n] = files[n]
    BY <1>5 DEF WithActive
  <2>2. DOMAIN files' \subseteq 0..BackupCount /\ \A n \in DOMAIN files' : RowsOK(files'[n], logged)
    BY <1>1, <1>2, <2>1
  <2>3. ASSUME NEW b \in Taken
        PROVE  b.tenant = t /\ b.id < cutoff /\ b.id \notin undated
    <3>1. b \in logged /\ b \in OnDisk /\ b \notin OnDisk'
      BY DEF Taken, OnDisk
    <3>2. PICK n \in DOMAIN files : \E i \in 1..Len(files[n]) : CarriesEvent(files[n][i], b.id)
      BY <3>1 DEF OnDisk
    <3>3. PICK i \in 1..Len(files[n]) : CarriesEvent(files[n][i], b.id)
      BY <3>2
    <3>4. \A m \in DOMAIN files' : \A k \in 1..Len(files'[m]) : ~CarriesEvent(files'[m][k], b.id)
      <4>1. b \in logged'
        BY <3>1
      <4> QED
        BY <3>1, <4>1 DEF OnDisk, CarriesEvent
    <3>5. n = 0 /\ files[n] = f
      BY <1>f, <2>1, <3>3, <3>4
    <3>6. Outlived(f[i], t, cutoff)
      <4> SUFFICES ASSUME ~Outlived(f[i], t, cutoff) PROVE FALSE
        OBVIOUS
      <4>1. PICK k \in 1..Len(g) : CarriesEvent(g[k], b.id)
        BY <1>2, <3>3, <3>5
      <4> QED
        BY <2>1, <3>4, <4>1
    <3>7. f[i].body \in logged /\ f[i].body.id = b.id
      <4>1. Parses(f[i]) /\ EventsOf(f[i]) = {f[i].body}
        BY <3>6 DEF Outlived, EventsOf
      <4>2. RowOK(f[i], logged) /\ CarriesEvent(f[i], b.id)
        BY <1>1, <3>3, <3>5 DEF RowsOK
      <4> QED
        BY <4>1, <4>2 DEF RowOK, CarriesEvent
    <3>8. f[i].body = b
      BY <1>1, <3>1, <3>7
    <3> QED
      BY <3>6, <3>8 DEF Outlived
  <2> QED
    BY <2>2, <2>3
<1> QED
  BY <1>3, <1>4, <1>5

-----------------------------------------------------------------------------
(* The rows.                                                               *)

\* write_event, whatever becomes of the event.
LogWrite(r) ==
    \/ \E body \in NewBodies : Write(r, body) \/ InterruptedAppend(r, body)
    \/ InterruptedRotation

\* A sweep for t, which no hold forbids, with whatever policy it goes by.
Sweep(t) ==
    /\ ~OnHold(t)
    /\ \E cutoff : files' = AfterSweep(t, cutoff)
    /\ UNCHANGED <<nextId, logged>>

\* What a step does to the rows.
LEMMA RowsMove ==
  ASSUME [RetentionNext]_retentionVars
  PROVE  \/ UNCHANGED <<files, nextId, logged>>
         \/ \E r \in Replicas : LogWrite(r)
         \/ \E t \in Tenants : Sweep(t)
<1>1. ASSUME NEW r \in Replicas, NEW t \in Tenants, Enforce(r, t)
      PROVE  UNCHANGED <<files, nextId, logged>> \/ Sweep(t)
  <2> DEFINE days == Loaded(policyCache[r], policy)[t]
             cutoff == nextId - days
  <2>1. /\ ~OnHold(t) /\ UNCHANGED <<nextId, logged>>
        /\ files' = files \/ files' = AfterSweep(t, cutoff)
    BY <1>1 DEF Enforce
  <2> HIDE DEF cutoff
  <2> QED
    BY <2>1 DEF Sweep
<1>2. ASSUME NEW r \in Replicas, NEW t \in Tenants, LogOf(r, t)
      PROVE  UNCHANGED <<files, nextId, logged>> \/ LogWrite(r)
  <2>1. CASE UNCHANGED vars
    BY <2>1 DEF vars
  <2>2. CASE ~UNCHANGED vars
    BY <1>2, <2>2 DEF LogOf, LogWrite
  <2> QED
    BY <2>1, <2>2
<1>3. ASSUME NEW r \in Replicas, LogEvent(r)
      PROVE  LogWrite(r)
  BY <1>3 DEF LogEvent, Emit, LogWrite
<1>4. ASSUME NEW r \in Replicas, NEW t \in Tenants,
             \/ \E d \in Days : PutPolicy(r, t, d) \/ RejectPolicy(r, t, d)
             \/ Boot(r) \/ GetPolicy(r)
      PROVE  UNCHANGED <<files, nextId, logged>>
  BY <1>4 DEF PutPolicy, RejectPolicy, Boot, GetPolicy, vars
<1>5. ASSUME NEW r \in Replicas, Boot(r) \/ GetPolicy(r)
      PROVE  UNCHANGED <<files, nextId, logged>>
  BY <1>5 DEF Boot, GetPolicy, vars
<1>6. ASSUME NEW r \in Replicas, NEW t \in Tenants,
             \/ \E d \in FloorDays : PutFloor(r, t, d)
             \/ \E h \in HoldIds : PlaceHold(r, h, t) \/ ReleaseHold(r, h, t)
      PROVE  LogOf(r, t)
  BY <1>6 DEF PutFloor, PlaceHold, ReleaseHold, LogHold
<1>7. CASE UNCHANGED retentionVars
  BY <1>7 DEF retentionVars, vars
<1>8. CASE RetentionNext
  BY <1>1, <1>2, <1>3, <1>4, <1>5, <1>6, <1>8 DEF RetentionNext, Handle
<1> QED
  BY <1>7, <1>8

\* Every step keeps the rows as they should be.
LEMMA RowsStep == LogInv /\ [RetentionNext]_retentionVars => LogInv'
<1> SUFFICES ASSUME LogInv, [RetentionNext]_retentionVars PROVE LogInv'
  OBVIOUS
<1>1. CASE UNCHANGED <<files, nextId, logged>>
  BY <1>1 DEF LogInv
<1>2. ASSUME NEW r \in Replicas, LogWrite(r)
      PROVE  LogInv'
  BY <1>2, LogKeeps DEF LogWrite
<1>3. ASSUME NEW t \in Tenants, Sweep(t)
      PROVE  LogInv'
  <2>1. PICK cutoff : files' = AfterSweep(t, cutoff)
    BY <1>3 DEF Sweep
  <2>2. /\ DOMAIN files' \subseteq 0..BackupCount
        /\ \A n \in DOMAIN files' : RowsOK(files'[n], logged)
        /\ UNCHANGED <<nextId, logged>>
    BY <1>3, <2>1, SweepTakesOwn DEF Sweep
  <2> QED
    BY <2>2 DEF LogInv
<1> QED
  BY <1>1, <1>2, <1>3, RowsMove

LEMMA RowsStart == RetentionInit => LogInv
  BY AuditAssumption DEF RetentionInit, Init, LogInv

\* For one process: while a hold of a workspace stands, no step but a write takes
\* a row of that workspace away (legal_hold.is_on_hold in routes/retention.py),
\* whatever policy the process goes by.  With one process nothing comes between
\* the look at the holds and the rewrite of the file, which have no await between
\* them: that is what the hypothesis stands for, and the proof does not need it.
THEOREM HoldCorrect ==
  ASSUME OneReplica
  PROVE  RetentionSpec => HoldFreezesRows
<1>1. LogInv /\ [RetentionNext]_retentionVars =>
        [nextId' = nextId =>
           ~\E b \in Taken, h \in DOMAIN holds :
                holds[h].active /\ holds[h].tenant = b.tenant]_files
  <2> SUFFICES ASSUME LogInv, [RetentionNext]_retentionVars,
                      files' # files, nextId' = nextId, NEW b \in Taken, NEW h \in DOMAIN holds,
                      holds[h].active, holds[h].tenant = b.tenant
               PROVE  FALSE
    OBVIOUS
  <2>1. nextId' # nextId + 1
    BY DEF LogInv
  <2>2. ~\E r \in Replicas : LogWrite(r)
    BY <2>1, LogKeeps DEF LogWrite
  <2>3. PICK t \in Tenants : Sweep(t)
    BY <2>2, RowsMove
  <2>4. PICK cutoff : files' = AfterSweep(t, cutoff)
    BY <2>3 DEF Sweep
  <2>5. b.tenant = t
    BY <2>3, <2>4, SweepTakesOwn DEF Sweep
  <2> QED
    BY <2>3, <2>5 DEF Sweep, OnHold
<1> QED
  BY <1>1, RowsStart, RowsStep, PTL DEF RetentionSpec, HoldFreezesRows

-----------------------------------------------------------------------------
(* The stores and their caches.                                            *)

\* A cache, filled or not, answers with what is on disk.
LEMMA LoadedIsOnDisk ==
  ASSUME NEW store, NEW onDisk, store \in {NotLoaded, onDisk}
  PROVE  Loaded(store, onDisk) = onDisk
  BY DEF Loaded

\* The steps of the retention handlers, as far as the log and the policies see them.
QuietStep == UNCHANGED <<files, nextId, logged, policy>>

LogStep(r) ==
    LogWrite(r) /\ UNCHANGED policy

SweepStep(t) ==
    /\ ~OnHold(t)
    /\ policy[t] # 0
    /\ files' = AfterSweep(t, nextId - policy[t])
    /\ UNCHANGED <<nextId, logged, policy>>

GrantStep(t, days) ==
    /\ MeetsFloor(days, floor[t])
    /\ policy' = [u \in Tenants |-> IF u = t THEN days ELSE 0]
    /\ UNCHANGED <<files, nextId, logged>>

StepKind(r) ==
    \/ QuietStep
    \/ LogStep(r)
    \/ \E t \in Tenants : SweepStep(t)
    \/ \E t \in Tenants, d \in Days : GrantStep(t, d)

\* Every cache answers with what is on disk, before and after each step.
LEMMA StoresStep ==
  ASSUME OneReplica, StoresInv, NEW r \in Replicas, Boot(r) \/ Handle(r)
  PROVE  StoresInv' /\ StepKind(r)
<1>t. /\ policy \in [Tenants -> Nat] /\ asked \in [Tenants -> Nat] /\ floor \in [Tenants -> Nat]
      /\ policyCache \in [Replicas -> {NotLoaded, policy}]
      /\ floorCache \in [Replicas -> {NotLoaded, floor}]
      /\ \A t \in Tenants : policy[t] \in {0, asked[t]}
      /\ \A s \in Replicas : s = r
  BY DEF StoresInv, OneReplica
<1>l. Loaded(policyCache[r], policy) = policy /\ Loaded(floorCache[r], floor) = floor
  BY <1>t, LoadedIsOnDisk
<1>u. ASSUME UNCHANGED <<policy, asked, floor>>,
             policyCache' = policyCache \/ policyCache' = [policyCache EXCEPT ![r] = policy]
                \/ policyCache' = [policyCache EXCEPT ![r] = NotLoaded],
             floorCache' = floorCache \/ floorCache' = [floorCache EXCEPT ![r] = floor]
                \/ floorCache' = [floorCache EXCEPT ![r] = NotLoaded]
      PROVE  StoresInv'
  <2>1. policyCache' \in [Replicas -> {NotLoaded, policy}]
    BY <1>t, <1>u
  <2>2. floorCache' \in [Replicas -> {NotLoaded, floor}]
    BY <1>t, <1>u
  <2> QED
    BY <1>t, <1>u, <2>1, <2>2 DEF StoresInv
<1>1. CASE Boot(r)
  BY <1>1, <1>u DEF Boot, StepKind, QuietStep
<1>2. CASE LogEvent(r)
  <2>1. UNCHANGED <<policyVars, floorVars>> /\ Emit(r)
    BY <1>2 DEF LogEvent
  <2>2. StoresInv'
    BY <1>u, <2>1 DEF policyVars, floorVars
  <2> QED
    BY <2>1, <2>2 DEF Emit, StepKind, LogStep, LogWrite, policyVars
<1>3. CASE GetPolicy(r)
  <2>1. policyCache' = [policyCache EXCEPT ![r] = policy]
    BY <1>l, <1>3 DEF GetPolicy
  <2>2. StoresInv'
    BY <1>u, <1>3, <2>1 DEF GetPolicy, floorVars
  <2> QED
    BY <1>3, <2>2 DEF GetPolicy, StepKind, QuietStep, vars
<1>4. ASSUME NEW t \in Tenants, Enforce(r, t)
      PROVE  StoresInv' /\ StepKind(r)
  <2>1. /\ ~OnHold(t)
        /\ policyCache' = [policyCache EXCEPT ![r] = policy]
        /\ files' = IF policy[t] = 0 THEN files ELSE AfterSweep(t, nextId - policy[t])
        /\ UNCHANGED <<nextId, logged, policy, asked, floor, floorCache>>
    BY <1>l, <1>4 DEF Enforce, floorVars
  <2>2. StoresInv'
    BY <1>u, <2>1
  <2>3. CASE policy[t] = 0
    BY <2>1, <2>2, <2>3 DEF StepKind, QuietStep
  <2>4. CASE policy[t] # 0
    <3>1. SweepStep(t)
      BY <2>1, <2>4 DEF SweepStep
    <3> QED
      BY <2>2, <3>1 DEF StepKind
  <2> QED
    BY <2>3, <2>4
<1>5. ASSUME NEW t \in Tenants, NEW d \in Days, PutPolicy(r, t, d)
      PROVE  StoresInv' /\ StepKind(r)
  <2>1. /\ MeetsFloor(d, floor[t])
        /\ floorCache' = [floorCache EXCEPT ![r] = floor]
        /\ UNCHANGED <<files, nextId, logged, floor>>
    BY <1>l, <1>5 DEF PutPolicy, vars
  <2>2. CASE StorePolicy(r, t, d)
    <3>1. /\ policyCache[r] = NotLoaded
          /\ policy' = [u \in Tenants |-> IF u = t THEN d ELSE 0]
          /\ asked' = [asked EXCEPT ![t] = d]
          /\ policyCache' = policyCache
      BY <2>2 DEF StorePolicy
    <3>2. d \in Nat
      BY RetentionAssumption
    <3>3. policyCache' \in [Replicas -> {NotLoaded, policy'}]
      BY <1>t, <3>1
    <3>4. floorCache' \in [Replicas -> {NotLoaded, floor'}] /\ floor' \in [Tenants -> Nat]
      BY <1>t, <2>1
    <3>5. policy' \in [Tenants -> Nat] /\ asked' \in [Tenants -> Nat]
      BY <1>t, <3>1, <3>2
    <3>6. \A u \in Tenants : policy'[u] \in {0, asked'[u]}
      BY <1>t, <3>1
    <3>7. StoresInv'
      BY <3>3, <3>4, <3>5, <3>6 DEF StoresInv
    <3>8. GrantStep(t, d)
      BY <2>1, <3>1 DEF GrantStep
    <3> QED
      BY <3>7, <3>8 DEF StepKind
  <2>3. CASE BlockOnOwnLock(r)
    <3>1. UNCHANGED <<policy, policyCache, asked>>
      BY <2>3 DEF BlockOnOwnLock
    <3>2. StoresInv'
      BY <1>u, <2>1, <3>1
    <3> QED
      BY <2>1, <3>1, <3>2 DEF StepKind, QuietStep
  <2> QED
    BY <1>5, <2>2, <2>3 DEF PutPolicy
<1>6. ASSUME NEW t \in Tenants, NEW d \in Days, RejectPolicy(r, t, d)
      PROVE  StoresInv' /\ StepKind(r)
  <2>1. floorCache' = [floorCache EXCEPT ![r] = floor]
    BY <1>l, <1>6 DEF RejectPolicy
  <2>2. UNCHANGED <<files, nextId, logged, policy, policyCache, asked, floor>>
    BY <1>6 DEF RejectPolicy, vars, policyVars
  <2>3. StoresInv'
    BY <1>u, <2>1, <2>2
  <2> QED
    BY <2>2, <2>3 DEF StepKind, QuietStep
<1>o. ASSUME NEW t \in Tenants, LogOf(r, t), UNCHANGED policy
      PROVE  StepKind(r)
  <2>1. CASE UNCHANGED vars
    BY <1>o, <2>1 DEF StepKind, QuietStep, vars
  <2>2. CASE ~UNCHANGED vars
    BY <1>o, <2>2 DEF LogOf, StepKind, LogStep, LogWrite
  <2> QED
    BY <2>1, <2>2
<1>7. ASSUME NEW t \in Tenants, NEW d \in FloorDays, PutFloor(r, t, d)
      PROVE  StoresInv' /\ StepKind(r)
  <2>1. /\ floor' = [floor EXCEPT ![t] = d]
        /\ floorCache' = [floorCache EXCEPT ![r] = floor']
        /\ UNCHANGED <<policy, policyCache, asked>>
    BY <1>l, <1>7 DEF PutFloor, CachedFloor, policyVars
  <2>2. floor' \in [Tenants -> Nat]
    BY <1>t, <2>1, RetentionAssumption
  <2>3. floorCache' \in [Replicas -> {NotLoaded, floor'}]
    BY <1>t, <2>1
  <2>4. StoresInv'
    BY <1>t, <2>1, <2>2, <2>3 DEF StoresInv
  <2>5. StepKind(r)
    BY <1>7, <1>o, <2>1 DEF PutFloor
  <2> QED
    BY <2>4, <2>5
<1>8. ASSUME NEW t \in Tenants, NEW h \in HoldIds, PlaceHold(r, h, t) \/ ReleaseHold(r, h, t)
      PROVE  StoresInv' /\ StepKind(r)
  <2>1. LogOf(r, t) /\ UNCHANGED <<policyVars, floorVars>>
    BY <1>8 DEF PlaceHold, ReleaseHold, LogHold
  <2>2. StoresInv'
    BY <1>u, <2>1 DEF policyVars, floorVars
  <2>3. StepKind(r)
    BY <1>o, <2>1 DEF policyVars
  <2> QED
    BY <2>2, <2>3
<1> QED
  BY <1>1, <1>2, <1>3, <1>4, <1>5, <1>6, <1>7, <1>8 DEF Handle

\* Every step keeps the rows and the stores as they should be.
LEMMA RetentionStep ==
  ASSUME OneReplica, LogInv, StoresInv, [RetentionNext]_retentionVars
  PROVE  /\ LogInv' /\ StoresInv'
         /\ QuietStep \/ \E r \in Replicas : StepKind(r)
<1>1. LogInv'
  BY RowsStep
<1>2. CASE UNCHANGED retentionVars
  BY <1>1, <1>2
  DEF retentionVars, vars, policyVars, floorVars, StoresInv, QuietStep
<1>3. CASE RetentionNext
  <2>1. PICK r \in Replicas : Boot(r) \/ Handle(r)
    BY <1>3 DEF RetentionNext
  <2> QED
    BY <1>1, <2>1, StoresStep
<1> QED
  BY <1>2, <1>3

\* Both hold at the start.
LEMMA RetentionStart == RetentionInit => LogInv /\ StoresInv
<1> SUFFICES ASSUME RetentionInit PROVE LogInv /\ StoresInv
  OBVIOUS
<1>1. LogInv
  BY RowsStart
<1>2. StoresInv
  BY DEF RetentionInit, StoresInv
<1> QED
  BY <1>1, <1>2

\* For one process: what a step other than a write takes off the disk has
\* expired under the policy its own workspace was last granted, and is dated
\* (retention.enforce_policy).
THEOREM SweepCorrect ==
  ASSUME OneReplica
  PROVE  RetentionSpec => OnlyOwnExpiredTaken
<1>1. LogInv /\ StoresInv /\ [RetentionNext]_retentionVars => LogInv' /\ StoresInv'
  BY RetentionStep
<1>2. LogInv /\ StoresInv /\ [RetentionNext]_retentionVars =>
        [nextId' = nextId =>
           \A b \in Taken :
               /\ asked[b.tenant] # 0
               /\ b.id < nextId - asked[b.tenant]
               /\ b.id \notin undated]_files
  <2> SUFFICES ASSUME LogInv, StoresInv, [RetentionNext]_retentionVars,
                      files' # files, nextId' = nextId, NEW b \in Taken
               PROVE  /\ asked[b.tenant] # 0
                      /\ b.id < nextId - asked[b.tenant]
                      /\ b.id \notin undated
    OBVIOUS
  <2>1. PICK t \in Tenants : SweepStep(t)
    <3>1. PICK r \in Replicas : StepKind(r)
      BY RetentionStep DEF QuietStep
    <3>2. ~LogStep(r)
      <4>1. nextId' # nextId + 1
        BY DEF LogInv
      <4> QED
        BY <4>1, LogKeeps DEF LogStep, LogWrite
    <3> QED
      BY <3>1, <3>2 DEF StepKind, QuietStep, GrantStep
  <2>2. b.tenant = t /\ b.id < nextId - policy[t] /\ b.id \notin undated
    BY <2>1, SweepTakesOwn DEF SweepStep
  <2>3. policy[t] = asked[t] /\ policy[t] # 0
    BY <2>1 DEF SweepStep, StoresInv
  <2> QED
    BY <2>2, <2>3
<1> QED
  BY <1>1, <1>2, RetentionStart, PTL DEF RetentionSpec, OnlyOwnExpiredTaken

\* For one process: a policy is granted only if it meets the floor its
\* workspace has pinned, whichever cache answered
\* (retention_floor.assert_policy_meets_floor).
THEOREM FloorCorrect ==
  ASSUME OneReplica
  PROVE  RetentionSpec => GrantedMeetsFloor
<1>1. LogInv /\ StoresInv /\ [RetentionNext]_retentionVars => LogInv' /\ StoresInv'
  BY RetentionStep
<1>2. LogInv /\ StoresInv /\ [RetentionNext]_retentionVars =>
        [\A t \in Tenants :
           policy'[t] \notin {0, policy[t]} => policy'[t] >= floor[t]]_policy
  <2> SUFFICES ASSUME LogInv, StoresInv, [RetentionNext]_retentionVars,
                      policy' # policy, NEW t \in Tenants, policy'[t] \notin {0, policy[t]}
               PROVE  policy'[t] >= floor[t]
    OBVIOUS
  <2>1. PICK r \in Replicas : StepKind(r)
    BY RetentionStep DEF QuietStep
  <2>2. PICK u \in Tenants, d \in Days : GrantStep(u, d)
    BY <2>1 DEF StepKind, QuietStep, LogStep, SweepStep
  <2>3. u = t /\ policy'[t] = d /\ d # 0
    BY <2>2 DEF GrantStep
  <2> QED
    BY <2>2, <2>3 DEF GrantStep, MeetsFloor
<1> QED
  BY <1>1, <1>2, RetentionStart, PTL DEF RetentionSpec, GrantedMeetsFloor

=============================================================================
