--------------------------- MODULE AuditLogProofs ---------------------------
(***************************************************************************)
(* Theorems about AuditLog, for every value of its constants: the shape of *)
(* the log is kept (TypeCorrect), and, for one process that names the file *)
(* by a path resolving to itself, the verifier blames damage only          *)
(* (BlameCorrect) and the next event is chained to the end of the file     *)
(* (CacheCorrect). The last two need each other, and the key under which a *)
(* digest is remembered: ChainInv puts the three together. And the log of  *)
(* one process implements AuditLedger (LedgerImplemented).                 *)
(***************************************************************************)
EXTENDS AuditLog, TLAPS, SequenceTheorems

\* A sequence over some set is a sequence over its own elements.
LEMMA IsSeqIntro ==
  ASSUME NEW S, NEW f \in Seq(S)
  PROVE  IsSeq(f)
<1> DEFINE T == {f[i] : i \in 1..Len(f)}
<1>1. Len(f) \in Nat /\ f \in [1..Len(f) -> S]
  BY LenProperties
<1>2. f \in [1..Len(f) -> T]
  BY <1>1
<1> HIDE DEF T
<1>3. Seq(T) = UNION {[1..n -> T] : n \in Nat}
  BY SeqDef
<1>4. f \in Seq(T)
  BY <1>1, <1>2, <1>3, Zenon
<1> QED
  BY <1>4 DEF IsSeq, T

\* The content of a new file is a sequence of no lines.
LEMMA NoLines == IsSeq(<< >>) /\ Len(<< >>) = 0
  BY DEF IsSeq

\* Appending a line keeps the lines that were there.
LEMMA AppendSeq ==
  ASSUME NEW f, IsSeq(f), NEW e
  PROVE  /\ IsSeq(Append(f, e))
         /\ Len(f) \in Nat
         /\ Len(Append(f, e)) = Len(f) + 1
         /\ Append(f, e)[Len(f) + 1] = e
         /\ \A i \in 1..Len(f) : Append(f, e)[i] = f[i]
<1> DEFINE S == {f[i] : i \in 1..Len(f)} \cup {e}
<1> DEFINE g == Append(f, e)
<1>1. f \in Seq(S)
  BY DEF IsSeq
<1> HIDE DEF S
<1>e. e \in S
  BY DEF S
<1>2. g \in Seq(S) /\ Len(f) \in Nat /\ Len(g) = Len(f) + 1
      /\ g[Len(f) + 1] = e /\ \A i \in 1..Len(f) : g[i] = f[i]
  BY <1>1, <1>e
<1> QED
  BY <1>2, IsSeqIntro

\* Lengthening the last line keeps the lines before it.
LEMMA ReplaceLastSeq ==
  ASSUME NEW f, IsSeq(f), Len(f) > 0, NEW e
  PROVE  LET g == [f EXCEPT ![Len(f)] = e]
         IN  /\ IsSeq(g)
             /\ Len(f) \in Nat
             /\ Len(g) = Len(f)
             /\ g[Len(f)] = e
             /\ \A i \in 1..(Len(f) - 1) : g[i] = f[i]
<1> DEFINE S == {f[i] : i \in 1..Len(f)} \cup {e}
<1> DEFINE g == [f EXCEPT ![Len(f)] = e]
<1>1. f \in Seq(S)
  BY DEF IsSeq
<1> HIDE DEF S
<1>e. e \in S
  BY DEF S
<1>l. Len(f) \in Nat /\ Len(f) \in 1..Len(f)
  BY <1>1, LenProperties
<1>2. g \in Seq(S) /\ Len(g) = Len(f)
      /\ g[Len(f)] = e /\ \A i \in 1..(Len(f) - 1) : g[i] = f[i]
  BY <1>1, <1>e, <1>l, ExceptSeq
<1>3. IsSeq(g)
  BY <1>2, IsSeqIntro
<1> QED
  BY <1>2, <1>3, <1>l

-----------------------------------------------------------------------------
(* Type correctness.                                                       *)

LinesOK(f) == IsSeq(f) /\ \A i \in 1..Len(f) : IsLine(f[i])

\* The events a well-formed line holds are events.
LEMMA EventsType ==
  ASSUME NEW l, IsLine(l)
  PROVE  EventsOf(l) \subseteq Body /\ l.ended \in BOOLEAN
<1>1. CASE l.kind = "entry" /\ l.body \in Body /\ l.ended \in BOOLEAN
  BY <1>1 DEF EventsOf, Parses
<1>2. CASE l \in [kind : {"scrap"}, bodies : SUBSET Body, ended : BOOLEAN]
  BY <1>2 DEF EventsOf, Parses
<1> QED
  BY <1>1, <1>2 DEF IsLine

\* What write_event appends is a well-formed line, cut short or not.
LEMMA PieceType ==
  ASSUME NEW prev, NEW body \in Body
  PROVE  /\ IsLine(Entry(prev, body)) /\ Parses(Entry(prev, body))
         /\ EventsOf(Entry(prev, body)) = {body}
         /\ Entry(prev, body).prev = prev /\ Entry(prev, body).body = body
         /\ Entry(prev, body).digest = HashEntry(prev, body) /\ Entry(prev, body).ended
         /\ IsLine(Unended(Entry(prev, body))) /\ Parses(Unended(Entry(prev, body)))
         /\ EventsOf(Unended(Entry(prev, body))) = {body}
         /\ Unended(Entry(prev, body)).prev = prev
         /\ Unended(Entry(prev, body)).body = body
         /\ Unended(Entry(prev, body)).digest = HashEntry(prev, body)
         /\ ~Unended(Entry(prev, body)).ended
  BY DEF IsLine, Entry, Unended, Parses, EventsOf

LEMMA TornType == IsLine(Torn) /\ ~Parses(Torn) /\ EventsOf(Torn) = {} /\ ~Torn.ended
  BY DEF IsLine, Torn, Scrap, Parses, EventsOf

\* The line a file ends with after an append.
LastAfter(f, line) ==
    IF EndsOpen(f)
    THEN Scrap(EventsOf(f[Len(f)]) \cup EventsOf(line), line.ended)
    ELSE line

\* What an append does to the lines of a file: n of them stay.
LEMMA AppendLineSeq ==
  ASSUME NEW f, IsSeq(f), NEW line
  PROVE  LET g == AppendLine(f, line)
             n == IF EndsOpen(f) THEN Len(f) - 1 ELSE Len(f)
         IN  /\ IsSeq(g)
             /\ Len(f) \in Nat /\ n \in Nat
             /\ Len(g) = n + 1
             /\ g[n + 1] = LastAfter(f, line)
             /\ \A i \in 1..n : g[i] = f[i]
<1>1. CASE EndsOpen(f)
  <2>1. Len(f) > 0
    BY <1>1 DEF EndsOpen
  <2> DEFINE e == LastAfter(f, line)
  <2> DEFINE g == [f EXCEPT ![Len(f)] = e]
  <2>2. /\ IsSeq(g) /\ Len(g) = Len(f) /\ g[Len(f)] = e /\ Len(f) \in Nat
        /\ \A i \in 1..(Len(f) - 1) : g[i] = f[i]
    BY <2>1, ReplaceLastSeq
  <2>3. AppendLine(f, line) = g
    BY <1>1 DEF AppendLine, LastAfter
  <2> HIDE DEF g, e
  <2>4. Len(f) - 1 \in Nat /\ (Len(f) - 1) + 1 = Len(f)
    BY <2>1, <2>2
  <2> QED
    BY <1>1, <2>2, <2>3, <2>4 DEF e
<1>2. CASE ~EndsOpen(f)
  BY <1>2, AppendSeq DEF AppendLine, LastAfter
<1> QED
  BY <1>1, <1>2

\* An append leaves well-formed lines, also when it lengthens the last one.
LEMMA AppendLineType ==
  ASSUME NEW f, LinesOK(f), NEW line, IsLine(line)
  PROVE  LinesOK(AppendLine(f, line))
<1> DEFINE n == IF EndsOpen(f) THEN Len(f) - 1 ELSE Len(f)
<1> DEFINE g == AppendLine(f, line)
<1>1. /\ IsSeq(g) /\ Len(f) \in Nat /\ n \in Nat /\ Len(g) = n + 1
      /\ g[n + 1] = LastAfter(f, line) /\ \A i \in 1..n : g[i] = f[i]
  BY AppendLineSeq DEF LinesOK
<1>2. n <= Len(f)
  BY <1>1
<1>3. IsLine(LastAfter(f, line))
  <2>1. CASE EndsOpen(f)
    <3>1. Len(f) \in 1..Len(f)
      BY <1>1, <2>1 DEF EndsOpen
    <3>2. IsLine(f[Len(f)])
      BY <3>1 DEF LinesOK
    <3>3. EventsOf(f[Len(f)]) \cup EventsOf(line) \subseteq Body /\ line.ended \in BOOLEAN
      BY <3>2, EventsType
    <3> QED
      BY <2>1, <3>3 DEF LastAfter, Scrap, IsLine
  <2> QED
    BY <2>1 DEF LastAfter
<1> HIDE DEF g, n
<1>4. ASSUME NEW i \in 1..Len(g) PROVE IsLine(g[i])
  <2>1. CASE i = n + 1
    BY <2>1, <1>1, <1>3
  <2>2. CASE i # n + 1
    <3>1. i \in 1..n /\ i \in 1..Len(f)
      BY <1>1, <1>2, <2>2
    <3> QED
      BY <1>1, <3>1 DEF LinesOK
  <2> QED
    BY <2>1, <2>2
<1> QED
  BY <1>1, <1>4 DEF LinesOK, g

\* Renaming files invents no file contents.
LEMMA VacatedFiles ==
  ASSUME DOMAIN files \subseteq 0..BackupCount, NEW m \in 0..BackupCount
  PROVE  /\ DOMAIN Vacated(files, m) \subseteq 0..BackupCount
         /\ \A n \in DOMAIN Vacated(files, m) :
               \E k \in DOMAIN files : Vacated(files, m)[n] = files[k]
         /\ m \notin DOMAIN Vacated(files, m)
         /\ m > 0 /\ 0 \in DOMAIN files =>
               0 \in DOMAIN Vacated(files, m) /\ Vacated(files, m)[0] = files[0]
<1> DEFINE D == {k \in DOMAIN files : k < m} \cup
                {k \in (m + 1)..BackupCount : k - 1 \in DOMAIN files}
<1>1. DOMAIN Vacated(files, m) = D
  BY DEF Vacated
<1>2. \A n \in D : Vacated(files, m)[n] = IF n < m THEN files[n] ELSE files[n - 1]
  BY DEF Vacated
<1>3. BackupCount \in Nat
  BY AuditAssumption
<1>4. D \subseteq 0..BackupCount /\ m \notin D
  BY <1>3
<1>5. \A n \in D : IF n < m THEN n \in DOMAIN files ELSE n - 1 \in DOMAIN files
  BY <1>3
<1>6. m > 0 /\ 0 \in DOMAIN files => 0 \in D
  BY <1>3
<1> HIDE DEF D
<1>7. \A n \in D : \E k \in DOMAIN files : Vacated(files, m)[n] = files[k]
  BY <1>2, <1>5
<1> QED
  BY <1>1, <1>2, <1>4, <1>6, <1>7

\* A step that renames files and may put a new active file in place keeps
\* every per-file property P that the old files and the new one have.
LEMMA RotatedFilesFromOld ==
  ASSUME DOMAIN files \subseteq 0..BackupCount
  PROVE  /\ DOMAIN RotatedFiles \subseteq 0..BackupCount
         /\ \A n \in DOMAIN RotatedFiles : \E k \in DOMAIN files : RotatedFiles[n] = files[k]
         /\ NeedsRotation => 0 \notin DOMAIN RotatedFiles
<1>1. 0 \in 0..BackupCount
  BY AuditAssumption
<1>2. CASE NeedsRotation
  BY <1>1, <1>2, VacatedFiles DEF RotatedFiles
<1>3. CASE ~NeedsRotation
  BY <1>3 DEF RotatedFiles
<1> QED
  BY <1>2, <1>3

\* The file an append goes to, after the rotation if there is one, is well-formed.
LEMMA ActiveFileType ==
  ASSUME TypeOK
  PROVE  LinesOK(ActiveAfterRotation) /\ LinesOK(Lines(0))
<1>1. LinesOK(<< >>)
  BY NoLines DEF LinesOK
<1>2. LinesOK(Lines(0))
  BY <1>1 DEF Lines, TypeOK, LinesOK
<1> QED
  BY <1>1, <1>2 DEF ActiveAfterRotation

\* A directory rotated and given a new active file f has the files it had, and f.
LEMMA FilesType ==
  ASSUME TypeOK, NEW f, LinesOK(f)
  PROVE  LET fs == WithActive(RotatedFiles, f)
         IN  /\ DOMAIN fs \subseteq 0..BackupCount
             /\ \A n \in DOMAIN fs : LinesOK(fs[n])
<1> DEFINE fs == WithActive(RotatedFiles, f)
<1>1. DOMAIN fs = DOMAIN RotatedFiles \cup {0}
  BY DEF WithActive
<1>2. 0 \in 0..BackupCount
  BY AuditAssumption
<1>3. DOMAIN files \subseteq 0..BackupCount
  BY DEF TypeOK
<1>4. ASSUME NEW n \in DOMAIN fs PROVE LinesOK(fs[n])
  <2>1. CASE n = 0
    BY <2>1, <1>1 DEF WithActive
  <2>2. CASE n # 0
    <3>1. n \in DOMAIN RotatedFiles /\ fs[n] = RotatedFiles[n]
      BY <2>2, <1>1 DEF WithActive
    <3>2. PICK k \in DOMAIN files : RotatedFiles[n] = files[k]
      BY <3>1, <1>3, RotatedFilesFromOld
    <3> QED
      BY <3>1, <3>2 DEF TypeOK, LinesOK
  <2> QED
    BY <2>1, <2>2
<1> QED
  BY <1>1, <1>2, <1>3, <1>4, RotatedFilesFromOld

\* Remembering a digest adds a key of the process that writes.
LEMMA RememberType ==
  ASSUME DOMAIN cache \subseteq Keys, NEW r \in Replicas, NEW d
  PROVE  DOMAIN Remember(r, d) \subseteq Keys
<1>1. <<r, PathKey>> \in Keys
  BY DEF PathKey, Keys
<1> QED
  BY <1>1 DEF Remember

\* The log starts well-formed.
LEMMA TypeInit == Init => TypeOK
  BY AuditAssumption DEF Init, TypeOK

\* Every step keeps the log well-formed.
LEMMA TypeStep == TypeOK /\ [Next]_vars => TypeOK'
<1> SUFFICES ASSUME TypeOK, [Next]_vars PROVE TypeOK'
  OBVIOUS
<1> USE AuditAssumption
<1>d. DOMAIN files \subseteq 0..BackupCount /\ DOMAIN cache \subseteq Keys
      /\ nextId \in 1..(MaxEvents + 1) /\ logged \subseteq {b \in Body : b.id < nextId}
      /\ \A n \in DOMAIN files : LinesOK(files[n])
  BY DEF TypeOK, LinesOK
<1>1. ASSUME NEW r \in Replicas, nextId <= MaxEvents, NEW body \in NewBodies, Write(r, body)
      PROVE  TypeOK'
  <2>1. body \in Body /\ body.id = nextId
    BY <1>1, <1>d DEF NewBodies, Body
  <2>2. LinesOK(AppendLine(ActiveAfterRotation, Entry(PrevHash(r), body)))
    BY <2>1, ActiveFileType, PieceType, AppendLineType
  <2>3. /\ DOMAIN files' \subseteq 0..BackupCount
        /\ \A n \in DOMAIN files' : LinesOK(files'[n])
    BY <1>1, <2>2, FilesType DEF Write
  <2>4. DOMAIN cache' \subseteq Keys
    BY <1>1, <1>d, RememberType DEF Write
  <2>5. nextId' \in 1..(MaxEvents + 1) /\ logged' \subseteq {b \in Body : b.id < nextId'}
    BY <1>1, <1>d, <2>1 DEF Write, Body
  <2> QED
    BY <2>3, <2>4, <2>5 DEF TypeOK, LinesOK
<1>i. ASSUME nextId <= MaxEvents, nextId' = nextId + 1, UNCHANGED logged
      PROVE  nextId' \in 1..(MaxEvents + 1) /\ logged' \subseteq {b \in Body : b.id < nextId'}
  BY <1>i, <1>d DEF Body
<1>2. ASSUME nextId <= MaxEvents, InterruptedRotation
      PROVE  TypeOK'
  <2>1. /\ DOMAIN files' \subseteq 0..BackupCount
        /\ \A n \in DOMAIN files' : LinesOK(files'[n])
    <3>1. CASE UNCHANGED <<files, cache>>
      BY <3>1, <1>d
    <3>2. CASE StopInRotation
      <4>1. PICK m \in 0..BackupCount : files' = Vacated(files, m)
        BY <3>2 DEF StopInRotation
      <4> QED
        BY <4>1, <1>d, VacatedFiles
    <3> QED
      BY <1>2, <3>1, <3>2 DEF InterruptedRotation
  <2>2. UNCHANGED cache
    BY <1>2 DEF InterruptedRotation, StopInRotation
  <2> QED
    BY <1>2, <1>i, <1>d, <2>1, <2>2 DEF InterruptedRotation, TypeOK, LinesOK
<1>3. ASSUME NEW r \in Replicas, nextId <= MaxEvents, NEW body \in NewBodies,
             InterruptedAppend(r, body)
      PROVE  TypeOK'
  <2>0. body \in Body /\ body.id = nextId
    BY <1>3, <1>d DEF NewBodies, Body
  <2>1. DOMAIN cache' \subseteq Keys
    BY <1>3, <1>d, RememberType DEF InterruptedAppend, StopBeforeAppend, StopInAppend
  <2>2. ASSUME StopBeforeAppend(r)
        PROVE  /\ DOMAIN files' \subseteq 0..BackupCount
               /\ \A n \in DOMAIN files' : LinesOK(files'[n])
    BY <2>2, <1>d, RotatedFilesFromOld DEF StopBeforeAppend
  <2>3. ASSUME NEW piece, IsLine(piece), StopInAppend(r, piece)
        PROVE  /\ DOMAIN files' \subseteq 0..BackupCount
               /\ \A n \in DOMAIN files' : LinesOK(files'[n])
    <3>1. LinesOK(AppendLine(ActiveAfterRotation, piece))
      BY <2>3, ActiveFileType, AppendLineType
    <3> QED
      BY <2>3, <3>1, FilesType DEF StopInAppend
  <2>4. /\ DOMAIN files' \subseteq 0..BackupCount
        /\ \A n \in DOMAIN files' : LinesOK(files'[n])
    BY <1>3, <2>0, <2>2, <2>3, TornType, PieceType DEF InterruptedAppend
  <2>5. nextId' \in 1..(MaxEvents + 1) /\ logged' \subseteq {b \in Body : b.id < nextId'}
    BY <1>3, <1>d, <2>0 DEF InterruptedAppend, Body
  <2> QED
    BY <2>1, <2>4, <2>5 DEF TypeOK, LinesOK
<1>4. ASSUME NEW r \in Replicas, Restart(r)
      PROVE  TypeOK'
  BY <1>4, <1>d DEF Restart, TypeOK, LinesOK
<1>5. CASE UNCHANGED vars
  BY <1>5, <1>d DEF vars, TypeOK, LinesOK
<1> QED
  BY <1>1, <1>2, <1>3, <1>4, <1>5 DEF Next, Emit

\* Whatever the writers, the interruptions and the restarts, the log keeps its
\* shape: at most audit_backup_count siblings beside the active file, every
\* line one that write_event can have left behind.
THEOREM TypeCorrect == Spec => []TypeOK
  BY TypeInit, TypeStep, PTL DEF Spec

-----------------------------------------------------------------------------
(* The verifier blames damaged lines only.                                 *)

\* Line i verifies, or it is a first line that is chained to another file.
GoodLine(f, i) == LineVerifies(f, i) \/ (i = 1 /\ f[1].prev # Genesis)

GoodFile(f) ==
    \A i \in 1..Len(f) : (\A j \in 1..i : Parses(f[j])) => GoodLine(f, i)

\* _read_last_hash of an undamaged file is the digest of its last line.
LEMMA LastOfUndamaged ==
  ASSUME NEW f, IsSeq(f), Undamaged(f)
  PROVE  /\ Len(f) \in Nat
         /\ Len(f) = 0 => ReadLastHash(f) = Genesis
         /\ Len(f) > 0 => ReadLastHash(f) = f[Len(f)].digest
<1>1. Len(f) \in Nat
  BY LenProperties DEF IsSeq
<1>2. {i \in 1..Len(f) : Parses(f[i])} = 1..Len(f)
  BY DEF Undamaged
<1>3. CASE Len(f) = 0
  BY <1>1, <1>2, <1>3 DEF ReadLastHash
<1>4. CASE Len(f) > 0
  <2>1. Len(f) \in 1..Len(f) /\ \A j \in 1..Len(f) : j <= Len(f)
    BY <1>1, <1>4
  <2>2. \A i \in 1..Len(f) : (\A j \in 1..Len(f) : j <= i) => i = Len(f)
    BY <1>1, <2>1
  <2>3. (CHOOSE i \in 1..Len(f) : \A j \in 1..Len(f) : j <= i) = Len(f)
    BY <2>1, <2>2
  <2>4. 1..Len(f) # {}
    BY <2>1
  <2> QED
    BY <1>1, <1>2, <1>4, <2>3, <2>4 DEF ReadLastHash
<1> QED
  BY <1>1, <1>3, <1>4

\* A line verifies by itself and the line before it.
LEMMA GoodLineLocal ==
  ASSUME NEW f, NEW g, NEW i \in Nat \ {0}, g[i] = f[i], i > 1 => g[i - 1] = f[i - 1],
         GoodLine(f, i)
  PROVE  GoodLine(g, i)
  BY DEF GoodLine, LineVerifies

\* A new file verifies and ends at the genesis hash.
LEMMA NoLinesGood == GoodFile(<< >>) /\ Undamaged(<< >>) /\ ReadLastHash(<< >>) = Genesis
<1>1. GoodFile(<< >>) /\ Undamaged(<< >>)
  BY NoLines DEF GoodFile, Undamaged
<1> QED
  BY <1>1, NoLines, LastOfUndamaged

\* Lines added behind a good prefix leave that prefix good.
LEMMA GoodPrefix ==
  ASSUME NEW f, GoodFile(f), NEW g, NEW n \in Nat, n <= Len(f), Len(f) \in Nat,
         \A i \in 1..n : g[i] = f[i]
  PROVE  \A i \in 1..n : (\A j \in 1..i : Parses(g[j])) => GoodLine(g, i)
<1> TAKE i \in 1..n
<1> HAVE \A j \in 1..i : Parses(g[j])
<1>1. i \in 1..Len(f) /\ \A j \in 1..i : j \in 1..n
  OBVIOUS
<1>2. \A j \in 1..i : Parses(f[j])
  BY <1>1
<1>3. GoodLine(f, i)
  BY <1>1, <1>2 DEF GoodFile
<1>4. g[i] = f[i] /\ (i > 1 => g[i - 1] = f[i - 1])
  BY <1>1
<1> QED
  BY <1>3, <1>4, GoodLineLocal

\* A line chained to the end of a complete file verifies, and is its new end;
\* behind a damaged line, or one without its newline, anything may be appended.
LEMMA AppendLineGood ==
  ASSUME NEW f, IsSeq(f), GoodFile(f), NEW line,
         Parses(line) =>
             /\ line.digest = HashEntry(line.prev, line.body)
             /\ Complete(f) /\ Len(f) > 0 => line.prev = ReadLastHash(f)
  PROVE  LET g == AppendLine(f, line)
         IN  /\ GoodFile(g)
             /\ Complete(g) => line.ended /\ ReadLastHash(g) = line.digest
<1> DEFINE n == IF EndsOpen(f) THEN Len(f) - 1 ELSE Len(f)
<1> DEFINE g == AppendLine(f, line)
<1>1. /\ IsSeq(g) /\ Len(f) \in Nat /\ n \in Nat /\ Len(g) = n + 1
      /\ g[n + 1] = LastAfter(f, line) /\ \A i \in 1..n : g[i] = f[i]
  BY AppendLineSeq
<1>2. n <= Len(f) /\ (~EndsOpen(f) => n = Len(f))
  BY <1>1
<1> HIDE DEF g, n
<1>3. \A i \in 1..n : (\A j \in 1..i : Parses(g[j])) => GoodLine(g, i)
  BY <1>1, <1>2, GoodPrefix
<1>4. ASSUME Undamaged(g) PROVE ~EndsOpen(f) /\ Parses(line) /\ g[n + 1] = line
  <2>1. Parses(g[n + 1])
    BY <1>1, <1>4 DEF Undamaged
  <2> QED
    BY <1>1, <2>1 DEF LastAfter, Scrap, Parses
<1>5. ASSUME Undamaged(g) PROVE GoodLine(g, n + 1)
  <2>1. n = Len(f) /\ Parses(line) /\ g[n + 1] = line
    BY <1>2, <1>4, <1>5
  <2>2. CASE n = 0
    <3>1. line.prev = Genesis => LineVerifies(g, n + 1)
      BY <2>1, <2>2 DEF LineVerifies
    <3> QED
      BY <2>1, <2>2, <3>1 DEF GoodLine
  <2>3. CASE n > 0
    <3>1. Undamaged(f)
      BY <1>1, <1>5, <2>1 DEF Undamaged
    <3>2. Complete(f)
      BY <1>4, <1>5, <3>1 DEF Complete
    <3>3. line.prev = f[n].digest
      BY <2>1, <2>3, <3>1, <3>2, LastOfUndamaged
    <3>4. g[(n + 1) - 1] = f[n] /\ n + 1 # 1
      BY <1>1, <2>3
    <3> QED
      BY <2>1, <3>3, <3>4 DEF GoodLine, LineVerifies
  <2> QED
    BY <1>1, <2>2, <2>3
<1>6. GoodFile(g)
  <2> SUFFICES ASSUME NEW i \in 1..Len(g), \A j \in 1..i : Parses(g[j])
               PROVE  GoodLine(g, i)
    BY DEF GoodFile
  <2>1. CASE i = n + 1
    BY <1>1, <1>5, <2>1 DEF Undamaged
  <2>2. CASE i # n + 1
    <3>1. i \in 1..n
      BY <1>1, <2>2
    <3> QED
      BY <1>3, <3>1
  <2> QED
    BY <2>1, <2>2
<1>7. ASSUME Complete(g) PROVE line.ended /\ ReadLastHash(g) = line.digest
  <2>1. Undamaged(g) /\ ~EndsOpen(g)
    BY <1>7 DEF Complete
  <2>2. g[Len(g)] = line /\ Len(g) > 0
    BY <1>1, <1>4, <2>1
  <2> QED
    BY <1>1, <2>1, <2>2, LastOfUndamaged DEF EndsOpen
<1> QED
  BY <1>6, <1>7 DEF g

-----------------------------------------------------------------------------
(* The inductive invariant: the chain up to the first damaged line is      *)
(* intact in every file, and what is remembered is the end of the active   *)
(* file as long as there is one, and nothing of it is missing.             *)

CacheAgreesWithFile ==
    0 \in DOMAIN files /\ Complete(files[0]) =>
        \A k \in DOMAIN cache : cache[k] = ReadLastHash(files[0])

ResolvedKeysOnly == \A k \in DOMAIN cache : k[2] = "resolved"

ChainInv ==
    /\ TypeOK
    /\ ResolvedKeysOnly
    /\ \A n \in DOMAIN files : GoodFile(files[n])
    /\ CacheAgreesWithFile

\* The file a write appends to is good, and the digest it is given is its end.
LEMMA WriteTarget ==
  ASSUME ChainInv, NEW r \in Replicas
  PROVE  LET f == ActiveAfterRotation
         IN  /\ IsSeq(f)
             /\ GoodFile(f)
             /\ Complete(f) /\ Len(f) > 0 => PrevHash(r) = ReadLastHash(f)
             /\ ~NeedsRotation /\ 0 \in DOMAIN files /\ Complete(f)
                   => PrevHash(r) = ReadLastHash(f)
<1>1. LinesOK(ActiveAfterRotation)
  BY ActiveFileType DEF ChainInv
<1>2. GoodFile(Lines(0))
  BY NoLinesGood DEF ChainInv, Lines
<1>3. CASE NeedsRotation
  BY <1>1, <1>3, NoLines, NoLinesGood DEF ActiveAfterRotation, LinesOK
<1>4. CASE ~NeedsRotation
  <2>1. ActiveAfterRotation = Lines(0)
    BY <1>4 DEF ActiveAfterRotation
  <2>2. 0 \in DOMAIN files /\ Complete(Lines(0)) => PrevHash(r) = ReadLastHash(Lines(0))
    BY <1>4 DEF PrevHash, ChainInv, CacheAgreesWithFile, Lines
  <2>3. 0 \notin DOMAIN files => Len(Lines(0)) = 0
    BY NoLines DEF Lines
  <2> QED
    BY <1>1, <1>2, <2>1, <2>2, <2>3 DEF LinesOK
<1> QED
  BY <1>3, <1>4

\* What is appended for process r, cut short or not: a good file is left, whose
\* end is the new digest unless the line was cut short.
LEMMA WrittenGood ==
  ASSUME ChainInv, NEW r \in Replicas, NEW body \in Body,
         NEW line \in {Entry(PrevHash(r), body), Unended(Entry(PrevHash(r), body)), Torn}
  PROVE  LET f == AppendLine(ActiveAfterRotation, line)
         IN  /\ GoodFile(f)
             /\ Complete(f) => /\ line = Entry(PrevHash(r), body)
                               /\ ReadLastHash(f) = HashEntry(PrevHash(r), body)
<1> DEFINE d == PrevHash(r)
<1>1. /\ IsSeq(ActiveAfterRotation) /\ GoodFile(ActiveAfterRotation)
      /\ Complete(ActiveAfterRotation) /\ Len(ActiveAfterRotation) > 0
            => d = ReadLastHash(ActiveAfterRotation)
  BY WriteTarget
<1> HIDE DEF d
<1>2. /\ Parses(line) => line.prev = d /\ line.body = body /\ line.digest = HashEntry(d, body)
      /\ line.ended => line = Entry(d, body) /\ line.digest = HashEntry(d, body)
  BY PieceType, TornType DEF d
<1>3. LET f == AppendLine(ActiveAfterRotation, line)
      IN  GoodFile(f) /\ (Complete(f) => line.ended /\ ReadLastHash(f) = line.digest)
  BY <1>1, <1>2, AppendLineGood
<1> QED
  BY <1>2, <1>3 DEF d

\* With one process, remembering replaces everything that was remembered.
LEMMA RememberOne ==
  ASSUME TypeOK, ResolvedKeysOnly, OneProcess, NEW r \in Replicas, NEW d
  PROVE  /\ \A k \in DOMAIN Remember(r, d) : k[2] = "resolved"
         /\ \A k \in DOMAIN Remember(r, d) : Remember(r, d)[k] = d
<1>1. PathKey = "resolved"
  BY DEF PathKey, OneProcess
<1>2. \A k \in DOMAIN cache : k = <<r, "resolved">>
  <2> TAKE k \in DOMAIN cache
  <2>1. k \in Keys /\ k[2] = "resolved"
    BY DEF TypeOK, ResolvedKeysOnly
  <2>2. k[1] \in Replicas /\ k = <<k[1], k[2]>>
    BY <2>1 DEF Keys
  <2>3. k[1] = r
    BY <2>2 DEF OneProcess, OneReplica
  <2> QED
    BY <2>1, <2>2, <2>3
<1> QED
  BY <1>1, <1>2 DEF Remember

\* A directory rotated and given a good active file has good files only.
LEMMA FilesGood ==
  ASSUME ChainInv, NEW f, GoodFile(f)
  PROVE  LET fs == WithActive(RotatedFiles, f)
         IN  /\ 0 \in DOMAIN fs /\ fs[0] = f
             /\ \A n \in DOMAIN fs : GoodFile(fs[n])
<1> DEFINE fs == WithActive(RotatedFiles, f)
<1>1. DOMAIN fs = DOMAIN RotatedFiles \cup {0} /\ fs[0] = f
  BY DEF WithActive
<1>2. DOMAIN files \subseteq 0..BackupCount
  BY DEF ChainInv, TypeOK
<1>3. ASSUME NEW n \in DOMAIN fs, n # 0 PROVE GoodFile(fs[n])
  <2>1. n \in DOMAIN RotatedFiles /\ fs[n] = RotatedFiles[n]
    BY <1>3, <1>1 DEF WithActive
  <2>2. PICK k \in DOMAIN files : RotatedFiles[n] = files[k]
    BY <2>1, <1>2, RotatedFilesFromOld
  <2> QED
    BY <2>1, <2>2 DEF ChainInv
<1> QED
  BY <1>1, <1>3

\* The strengthened invariant holds of the empty log.
LEMMA ChainInit == Init => ChainInv
<1> SUFFICES ASSUME Init PROVE ChainInv
  OBVIOUS
<1>1. TypeOK
  BY TypeInit
<1> QED
  BY <1>1 DEF Init, ChainInv, ResolvedKeysOnly, CacheAgreesWithFile

\* Every step of the one process keeps the strengthened invariant.
LEMMA ChainStep ==
  ASSUME OneProcess, ChainInv, [Next]_vars
  PROVE  ChainInv'
<1>t. TypeOK /\ TypeOK'
  BY TypeStep DEF ChainInv
<1>b. \A body \in NewBodies : nextId <= MaxEvents => body \in Body
  BY <1>t DEF TypeOK, NewBodies, Body
<1>0. DOMAIN files \subseteq 0..BackupCount
  BY <1>t DEF TypeOK
<1>1. ASSUME NEW r \in Replicas, nextId <= MaxEvents, NEW body \in NewBodies, Write(r, body)
      PROVE  ChainInv'
  <2> DEFINE f == AppendLine(ActiveAfterRotation, Entry(PrevHash(r), body))
  <2> DEFINE d == HashEntry(PrevHash(r), body)
  <2>1. GoodFile(f) /\ (Complete(f) => ReadLastHash(f) = d)
    BY <1>1, <1>b, WrittenGood
  <2>2. files' = WithActive(RotatedFiles, f) /\ cache' = Remember(r, d)
    BY <1>1 DEF Write, Entry
  <2> HIDE DEF f, d
  <2>3. /\ (\A n \in DOMAIN files : GoodFile(files[n]))'
        /\ 0 \in DOMAIN files' /\ files'[0] = f
    BY <2>1, <2>2, FilesGood
  <2>4. ResolvedKeysOnly' /\ \A k \in DOMAIN cache' : cache'[k] = d
    BY <2>2, RememberOne DEF ChainInv, ResolvedKeysOnly
  <2>5. CacheAgreesWithFile'
    BY <2>1, <2>3, <2>4 DEF CacheAgreesWithFile
  <2> QED
    BY <1>t, <2>3, <2>4, <2>5 DEF ChainInv
<1>2. ASSUME InterruptedRotation
      PROVE  ChainInv'
  <2>1. cache' = cache
    BY <1>2 DEF InterruptedRotation, StopInRotation
  <2>2. ResolvedKeysOnly'
    BY <2>1 DEF ChainInv, ResolvedKeysOnly
  <2>3. CASE UNCHANGED <<files, cache>>
    BY <1>t, <2>3 DEF ChainInv, CacheAgreesWithFile, ResolvedKeysOnly
  <2>4. CASE StopInRotation
    <3>1. PICK m \in 0..BackupCount : files' = Vacated(files, m)
      BY <2>4 DEF StopInRotation
    <3>2. 0 \in DOMAIN files
      BY <2>4 DEF StopInRotation, NeedsRotation
    <3>3. (\A n \in DOMAIN files : GoodFile(files[n]))'
      BY <1>0, <3>1, VacatedFiles DEF ChainInv
    <3>4. 0 \in DOMAIN files' => files'[0] = files[0]
      BY <1>0, <3>1, <3>2, VacatedFiles
    <3>5. CacheAgreesWithFile'
      BY <2>1, <3>2, <3>4 DEF ChainInv, CacheAgreesWithFile
    <3> QED
      BY <1>t, <2>2, <3>3, <3>5 DEF ChainInv
  <2> QED
    BY <1>2, <2>3, <2>4 DEF InterruptedRotation
<1>3. ASSUME NEW r \in Replicas, nextId <= MaxEvents, NEW body \in NewBodies,
             InterruptedAppend(r, body)
      PROVE  ChainInv'
  <2>1. cache' = Remember(r, PrevHash(r))
    BY <1>3 DEF InterruptedAppend, StopBeforeAppend, StopInAppend
  <2>2. ResolvedKeysOnly' /\ \A k \in DOMAIN cache' : cache'[k] = PrevHash(r)
    BY <2>1, RememberOne DEF ChainInv, ResolvedKeysOnly
  <2>3. CASE StopBeforeAppend(r)
    <3>1. files' = RotatedFiles
      BY <2>3 DEF StopBeforeAppend
    <3>3. (\A n \in DOMAIN files : GoodFile(files[n]))'
      BY <1>0, <3>1, RotatedFilesFromOld DEF ChainInv
    <3>4. 0 \in DOMAIN files' =>
             ~NeedsRotation /\ 0 \in DOMAIN files /\ files'[0] = ActiveAfterRotation
      BY <1>0, <3>1, RotatedFilesFromOld DEF RotatedFiles, Lines, ActiveAfterRotation
    <3>5. CacheAgreesWithFile'
      BY <2>2, <3>4, WriteTarget DEF CacheAgreesWithFile
    <3> QED
      BY <1>t, <2>2, <3>3, <3>5 DEF ChainInv
  <2>4. ASSUME NEW piece \in {Torn, Unended(Entry(PrevHash(r), body))},
               StopInAppend(r, piece)
        PROVE  ChainInv'
    <3> DEFINE f == AppendLine(ActiveAfterRotation, piece)
    <3>0. body \in Body /\ piece # Entry(PrevHash(r), body)
      BY <1>3, <1>b, PieceType, TornType
    <3>1. GoodFile(f) /\ ~Complete(f)
      BY <3>0, WrittenGood
    <3>2. files' = WithActive(RotatedFiles, f)
      BY <2>4 DEF StopInAppend
    <3> HIDE DEF f
    <3>3. /\ (\A n \in DOMAIN files : GoodFile(files[n]))'
          /\ 0 \in DOMAIN files' /\ files'[0] = f
      BY <3>1, <3>2, FilesGood
    <3>4. CacheAgreesWithFile'
      BY <3>1, <3>3 DEF CacheAgreesWithFile
    <3> QED
      BY <1>t, <2>2, <3>3, <3>4 DEF ChainInv
  <2> QED
    BY <1>3, <2>3, <2>4 DEF InterruptedAppend
<1>4. ASSUME NEW r \in Replicas, Restart(r)
      PROVE  ChainInv'
  <2>1. files' = files
    BY <1>4 DEF Restart
  <2>2. DOMAIN cache' \subseteq DOMAIN cache /\ \A k \in DOMAIN cache' : cache'[k] = cache[k]
    BY <1>4 DEF Restart
  <2>3. CacheAgreesWithFile' /\ ResolvedKeysOnly'
    BY <2>1, <2>2 DEF ChainInv, CacheAgreesWithFile, ResolvedKeysOnly
  <2> QED
    BY <1>t, <2>1, <2>3 DEF ChainInv
<1>5. ASSUME UNCHANGED vars
      PROVE  ChainInv'
  BY <1>5, <1>t DEF vars, ChainInv, CacheAgreesWithFile, ResolvedKeysOnly
<1> QED
  BY <1>1, <1>2, <1>3, <1>4, <1>5 DEF Next, Emit

\* The strengthened invariant holds in every state.
LEMMA ChainInvAlways ==
  ASSUME OneProcess
  PROVE  Spec => []ChainInv
<1>1. Init => ChainInv
  BY ChainInit
<1>2. ChainInv /\ [Next]_vars => ChainInv'
  BY ChainStep
<1> QED
  BY <1>1, <1>2, PTL DEF Spec

\* For one process, whatever the rotation size, the number of backups and the
\* number of events: every line the verifier reaches before a damaged one
\* verifies, across interrupted writes, interrupted rotations and restarts, but
\* the first line of a file that was begun with the digest of the one before.
THEOREM BlameCorrect ==
  ASSUME OneProcess
  PROVE  Spec => []BlameOnlyDamage
<1>1. ChainInv => BlameOnlyDamage
  BY DEF ChainInv, BlameOnlyDamage, GoodFile, GoodLine
<1> QED
  BY <1>1, ChainInvAlways, PTL

\* For one process: the next event is chained to the end of the file it goes to,
\* or to the genesis hash, unless a rotation was stopped after its last rename
\* or the last line has lost its newline (_last_hash_by_path).
THEOREM CacheCorrect ==
  ASSUME OneProcess
  PROVE  Spec => []ChainContinues
<1>1. ChainInv => ChainContinues
  <2> SUFFICES ASSUME ChainInv, ~Stranded, Complete(ActiveAfterRotation), NEW r \in Replicas
               PROVE  PrevHash(r) = ReadLastHash(ActiveAfterRotation)
    BY DEF ChainContinues
  <2>1. CASE NeedsRotation
    BY <2>1, NoLinesGood DEF PrevHash, ActiveAfterRotation
  <2>2. CASE ~NeedsRotation /\ 0 \in DOMAIN files
    BY <2>2, WriteTarget
  <2>3. CASE ~NeedsRotation /\ 0 \notin DOMAIN files
    BY <2>3, NoLinesGood DEF Stranded, PrevHash, ActiveAfterRotation, Lines
  <2> QED
    BY <2>1, <2>2, <2>3
<1> QED
  BY <1>1, ChainInvAlways, PTL

-----------------------------------------------------------------------------
(***************************************************************************)
(* AuditLog implements AuditLedger, for one process. A rotation, complete  *)
(* or cut short, moves the files without changing their order and loses    *)
(* the content of the oldest one only; an append adds its own event to the *)
(* newest. So the events lost are older than those kept, given that older  *)
(* files hold older events: LedgerInv.                                     *)
(***************************************************************************)

\* The events that the lines of a file, or the files of a directory, carry.
Ids(f) == {id \in 1..MaxEvents : \E i \in 1..Len(f) : CarriesEvent(f[i], id)}
Carried(fs) == UNION {Ids(fs[n]) : n \in DOMAIN fs}

\* A file is older than those with a smaller number, and so are its events.
Ordered(fs) ==
    \A n, m \in DOMAIN fs : n < m => \A a \in Ids(fs[m]), b \in Ids(fs[n]) : a < b

LedgerInv ==
    /\ TypeOK
    /\ Ordered(files)
    /\ Carried(files) \subseteq 1..(nextId - 1)

\* What a rotation leaves: the content of every file but the oldest backup.
Spared == UNION {Ids(files[n]) : n \in DOMAIN files \ {BackupCount}}

\* The two ways of writing what is on disk agree.
LEMMA KeptIsCarried == Kept = Carried(files)
  BY DEF Kept, Carried, Ids

\* Renaming keeps the order of the files and the content of all but the oldest.
LEMMA VacatedLedger ==
  ASSUME DOMAIN files \subseteq 0..BackupCount, Ordered(files), BackupCount > 0,
         NEW m \in 0..BackupCount
  PROVE  LET g == Vacated(files, m)
         IN  /\ DOMAIN g \subseteq 0..BackupCount
             /\ m \notin DOMAIN g
             /\ Ordered(g)
             /\ Carried(g) = Spared
<1> DEFINE g == Vacated(files, m)
<1> DEFINE D == {k \in DOMAIN files : k < m} \cup
                {k \in (m + 1)..BackupCount : k - 1 \in DOMAIN files}
<1> DEFINE src(k) == IF k < m THEN k ELSE k - 1
<1>0. BackupCount \in Nat
  BY AuditAssumption
<1>1. DOMAIN g = D /\ \A k \in D : g[k] = files[src(k)]
  BY DEF Vacated
<1> HIDE DEF g
<1>2. D \subseteq 0..BackupCount /\ m \notin D
  BY <1>0
<1>3. \A k \in D : src(k) \in DOMAIN files \ {BackupCount}
  BY <1>0
<1>4. \A j, k \in D : j < k => src(j) < src(k)
  BY <1>0, <1>2
<1>5. \A n \in DOMAIN files \ {BackupCount} : \E k \in D : src(k) = n
  <2> TAKE n \in DOMAIN files \ {BackupCount}
  <2>1. CASE n < m
    BY <2>1
  <2>2. CASE ~(n < m)
    <3>1. n \in 0..BackupCount
      OBVIOUS
    <3>2. n + 1 \in (m + 1)..BackupCount /\ (n + 1) - 1 = n /\ ~(n + 1 < m)
      BY <1>0, <2>2, <3>1
    <3>3. n + 1 \in D /\ src(n + 1) = n
      BY <3>2
    <3> QED
      BY <3>3
  <2> QED
    BY <2>1, <2>2
<1> HIDE DEF D, src
<1>6. Ordered(g)
  <2> SUFFICES ASSUME NEW j \in D, NEW k \in D, j < k,
                      NEW a \in Ids(g[k]), NEW b \in Ids(g[j])
               PROVE  a < b
    BY <1>1 DEF Ordered
  <2>1. src(j) < src(k) /\ src(j) \in DOMAIN files /\ src(k) \in DOMAIN files
    BY <1>3, <1>4
  <2>2. a \in Ids(files[src(k)]) /\ b \in Ids(files[src(j)])
    BY <1>1
  <2> QED
    BY <2>1, <2>2 DEF Ordered
<1>7. Carried(g) \subseteq Spared
  BY <1>1, <1>3 DEF Carried, Spared
<1>8. Spared \subseteq Carried(g)
  <2> SUFFICES ASSUME NEW n \in DOMAIN files \ {BackupCount}, NEW id \in Ids(files[n])
               PROVE  id \in Carried(g)
    BY DEF Spared
  <2>1. PICK k \in D : src(k) = n
    BY <1>5
  <2> QED
    BY <1>1, <2>1 DEF Carried
<1> QED
  BY <1>1, <1>2, <1>6, <1>7, <1>8 DEF g

\* What a rotation loses is older than what it leaves.
LEMMA SparedIsRemainder ==
  ASSUME LedgerInv
  PROVE  Spared \in Ledger!Remainders /\ Kept \in Ledger!Remainders
<1>1. Kept = Carried(files) /\ Spared \subseteq Kept
  BY KeptIsCarried DEF Carried, Spared
<1>2. ASSUME NEW old \in Kept \ Spared, NEW e \in Spared PROVE old < e
  <2>1. BackupCount \in DOMAIN files /\ old \in Ids(files[BackupCount])
    BY <1>1 DEF Carried, Spared
  <2>2. PICK n \in DOMAIN files \ {BackupCount} : e \in Ids(files[n])
    BY DEF Spared
  <2>3. n < BackupCount
    BY <2>2, AuditAssumption DEF LedgerInv, TypeOK
  <2> QED
    BY <2>1, <2>2, <2>3 DEF LedgerInv, Ordered
<1> QED
  BY <1>1, <1>2 DEF Ledger!Remainders

-----------------------------------------------------------------------------
(* The append.                                                             *)

\* An append adds its events to those the file carries.
LEMMA AppendLineIds ==
  ASSUME NEW f, IsSeq(f), NEW line
  PROVE  Ids(AppendLine(f, line)) =
             Ids(f) \cup {id \in 1..MaxEvents : CarriesEvent(line, id)}
<1> DEFINE n == IF EndsOpen(f) THEN Len(f) - 1 ELSE Len(f)
<1> DEFINE g == AppendLine(f, line)
<1>1. /\ Len(f) \in Nat /\ n \in Nat /\ Len(g) = n + 1
      /\ g[n + 1] = LastAfter(f, line) /\ \A i \in 1..n : g[i] = f[i]
  BY AppendLineSeq
<1>2. /\ ~EndsOpen(f) => n = Len(f)
      /\ EndsOpen(f) => Len(f) = n + 1
  BY <1>1
<1>3. \A id : CarriesEvent(g[n + 1], id) <=>
                 CarriesEvent(line, id) \/ (EndsOpen(f) /\ CarriesEvent(f[Len(f)], id))
  BY <1>1 DEF LastAfter, Scrap, CarriesEvent, EventsOf, Parses
<1> HIDE DEF g, n
<1>4. ASSUME NEW id \in Ids(g)
      PROVE  id \in Ids(f) \/ CarriesEvent(line, id)
  <2>1. PICK i \in 1..Len(g) : CarriesEvent(g[i], id)
    BY <1>4 DEF Ids
  <2>2. CASE i = n + 1
    <3>1. EndsOpen(f) => Len(f) \in 1..Len(f)
      BY <1>1, <1>2
    <3> QED
      BY <1>3, <1>4, <2>1, <2>2, <3>1 DEF Ids
  <2>3. CASE i # n + 1
    <3>1. i \in 1..n /\ i \in 1..Len(f)
      BY <1>1, <1>2, <2>3
    <3> QED
      BY <1>1, <1>4, <2>1, <3>1 DEF Ids
  <2> QED
    BY <2>2, <2>3
<1>5. ASSUME NEW id \in Ids(f) PROVE id \in Ids(g)
  <2>1. PICK i \in 1..Len(f) : CarriesEvent(f[i], id)
    BY <1>5 DEF Ids
  <2>2. CASE i \in 1..n
    <3>1. i \in 1..Len(g)
      BY <1>1, <2>2
    <3> QED
      BY <1>1, <1>5, <2>1, <2>2, <3>1 DEF Ids
  <2>3. CASE i \notin 1..n
    <3>1. EndsOpen(f) /\ i = Len(f) /\ n + 1 \in 1..Len(g)
      BY <1>1, <1>2, <2>3
    <3> QED
      BY <1>3, <1>5, <2>1, <3>1 DEF Ids
  <2> QED
    BY <2>2, <2>3
<1>6. ASSUME NEW id \in 1..MaxEvents, CarriesEvent(line, id) PROVE id \in Ids(g)
  <2>1. n + 1 \in 1..Len(g)
    BY <1>1
  <2> QED
    BY <1>3, <1>6, <2>1 DEF Ids
<1>7. Ids(g) \subseteq 1..MaxEvents
  BY DEF Ids
<1> QED
  BY <1>4, <1>5, <1>6, <1>7 DEF g

\* The event of an append, and the event that a cut one leaves behind.
LEMMA PieceIds ==
  ASSUME NEW prev, NEW body \in Body
  PROVE  /\ {id \in 1..MaxEvents : CarriesEvent(Entry(prev, body), id)} = {body.id}
         /\ {id \in 1..MaxEvents : CarriesEvent(Unended(Entry(prev, body)), id)} = {body.id}
         /\ {id \in 1..MaxEvents : CarriesEvent(Torn, id)} = {}
<1>1. body.id \in 1..MaxEvents
  BY DEF Body
<1> QED
  BY <1>1, PieceType, TornType DEF CarriesEvent

\* A directory that was rotated if need be, with a new active file that
\* carries what it carried before and the events of X: all that is kept.
LEMMA ActiveLedger ==
  ASSUME LedgerInv, NEW f, NEW X \in SUBSET {nextId},
         Ids(f) = Ids(ActiveAfterRotation) \cup X
  PROVE  LET fs == WithActive(RotatedFiles, f)
         IN  /\ Ordered(fs)
             /\ \E rest \in Ledger!Remainders : Carried(fs) = rest \cup X
<1> DEFINE fs == WithActive(RotatedFiles, f)
<1>1. DOMAIN fs = DOMAIN RotatedFiles \cup {0} /\ fs[0] = f
      /\ \A n \in DOMAIN RotatedFiles \ {0} : fs[n] = RotatedFiles[n]
  BY DEF WithActive
<1> HIDE DEF fs
<1>2. DOMAIN files \subseteq 0..BackupCount /\ BackupCount \in Nat /\ nextId \in Nat
  BY AuditAssumption DEF LedgerInv, TypeOK
<1>n. Ids(<< >>) = {}
  BY NoLines DEF Ids
<1>3. CASE NeedsRotation
  <2>1. RotatedFiles = Vacated(files, 0) /\ ActiveAfterRotation = << >> /\ BackupCount > 0
    BY <1>3 DEF RotatedFiles, ActiveAfterRotation, NeedsRotation
  <2>2. /\ 0 \notin DOMAIN RotatedFiles /\ DOMAIN RotatedFiles \subseteq 0..BackupCount
        /\ Ordered(RotatedFiles) /\ Carried(RotatedFiles) = Spared
    BY <1>2, <2>1, VacatedLedger DEF LedgerInv
  <2>3. Ids(f) = X
    BY <1>n, <2>1
  <2>4. Carried(fs) = Spared \cup X
    BY <1>1, <2>2, <2>3 DEF Carried
  <2>5. Spared \subseteq 1..(nextId - 1)
    BY DEF LedgerInv, Carried, Spared
  <2>6. Ordered(fs)
    <3> SUFFICES ASSUME NEW n \in DOMAIN fs, NEW m \in DOMAIN fs, n < m,
                        NEW a \in Ids(fs[m]), NEW b \in Ids(fs[n])
                 PROVE  a < b
      BY DEF Ordered
    <3>1. m \in DOMAIN RotatedFiles /\ m # 0 /\ fs[m] = RotatedFiles[m]
      BY <1>1, <1>2, <2>2
    <3>2. a \in Spared
      BY <2>2, <3>1 DEF Carried
    <3>3. CASE n = 0
      <4>1. b = nextId
        BY <1>1, <2>3, <3>3
      <4>2. a \in 1..(nextId - 1)
        BY <2>5, <3>2
      <4> QED
        BY <1>2, <4>1, <4>2
    <3>4. CASE n # 0
      <4>1. n \in DOMAIN RotatedFiles /\ fs[n] = RotatedFiles[n]
        BY <1>1, <3>4
      <4> QED
        BY <2>2, <3>1, <4>1 DEF Ordered
    <3> QED
      BY <3>3, <3>4
  <2> QED
    BY <2>4, <2>6, SparedIsRemainder DEF fs
<1>4. CASE ~NeedsRotation
  <2>1. RotatedFiles = files /\ ActiveAfterRotation = Lines(0)
    BY <1>4 DEF RotatedFiles, ActiveAfterRotation
  <2>2. Ids(Lines(0)) = IF 0 \in DOMAIN files THEN Ids(files[0]) ELSE {}
    BY <1>n DEF Lines
  <2>3. Carried(fs) = Kept \cup X
    BY <1>1, <2>1, <2>2, KeptIsCarried DEF Carried
  <2>4. Kept \subseteq 1..(nextId - 1)
    BY KeptIsCarried DEF LedgerInv
  <2>5. Ordered(fs)
    <3> SUFFICES ASSUME NEW n \in DOMAIN fs, NEW m \in DOMAIN fs, n < m,
                        NEW a \in Ids(fs[m]), NEW b \in Ids(fs[n])
                 PROVE  a < b
      BY DEF Ordered
    <3>1. m \in DOMAIN files /\ m # 0 /\ fs[m] = files[m]
      BY <1>1, <1>2, <2>1
    <3>2. a \in Kept /\ a \in Ids(files[m])
      BY <3>1, KeptIsCarried DEF Carried
    <3>3. CASE n = 0 /\ b \in X
      BY <1>2, <2>4, <3>2, <3>3
    <3>4. CASE n = 0 /\ b \notin X
      <4>1. 0 \in DOMAIN files /\ b \in Ids(files[0])
        BY <1>1, <2>1, <2>2, <3>4
      <4> QED
        BY <3>1, <3>2, <3>4, <4>1 DEF LedgerInv, Ordered
    <3>5. CASE n # 0
      <4>1. n \in DOMAIN files /\ fs[n] = files[n]
        BY <1>1, <2>1, <3>5
      <4> QED
        BY <3>1, <4>1 DEF LedgerInv, Ordered
    <3> QED
      BY <3>3, <3>4, <3>5
  <2> QED
    BY <2>3, <2>5, SparedIsRemainder DEF fs
<1> QED
  BY <1>3, <1>4

-----------------------------------------------------------------------------
(* The refinement.                                                         *)

\* The empty log is the empty window.
LEMMA LedgerInit == Init => LedgerInv /\ Ledger!Init
<1> SUFFICES ASSUME Init PROVE LedgerInv /\ Ledger!Init
  OBVIOUS
<1>1. TypeOK
  BY TypeInit
<1>2. Carried(files) = {} /\ Ordered(files)
  BY DEF Init, Carried, Ordered
<1> QED
  BY <1>1, <1>2, KeptIsCarried DEF Init, LedgerInv, Ledger!Init

\* Every step of the log keeps the order of what is on disk, and is a step of
\* the window or changes nothing of it.
LEMMA LedgerStep ==
  ASSUME LedgerInv, [Next]_vars
  PROVE  LedgerInv' /\ [Ledger!Next]_<<Kept, nextId - 1>>
<1>t. TypeOK /\ TypeOK' /\ nextId \in Nat \ {0} /\ DOMAIN files \subseteq 0..BackupCount
  BY TypeStep, AuditAssumption DEF LedgerInv, TypeOK
<1>k. Kept = Carried(files) /\ Kept' = Carried(files')
  BY KeptIsCarried DEF Kept, Carried, Ids
<1>o. ASSUME Ordered(files'), Carried(files') \subseteq 1..(nextId' - 1)
      PROVE  LedgerInv'
  BY <1>t, <1>o DEF LedgerInv, Ordered, Carried, Ids, CarriesEvent
<1>a. ASSUME NEW rest \in Ledger!Remainders, nextId' = nextId + 1, Ordered(files'),
             Carried(files') = rest \/ Carried(files') = rest \cup {nextId}
      PROVE  LedgerInv' /\ Ledger!Next
  <2>1. rest \subseteq 1..(nextId - 1)
    BY <1>k DEF LedgerInv, Ledger!Remainders
  <2>2. Carried(files') \subseteq 1..(nextId' - 1)
    <3>1. 1..(nextId - 1) \subseteq 1..(nextId' - 1) /\ nextId \in 1..(nextId' - 1)
      BY <1>t, <1>a
    <3> QED
      BY <1>a, <2>1, <3>1
  <2>3. nextId' - 1 = (nextId - 1) + 1 /\ nextId' - 1 = nextId
    BY <1>t, <1>a
  <2>4. ASSUME Carried(files') = rest PROVE Ledger!Next
    BY <1>a, <1>k, <2>3, <2>4 DEF Ledger!Next, Ledger!Miss
  <2>5. ASSUME Carried(files') = rest \cup {nextId} PROVE Ledger!Next
    BY <1>a, <1>k, <2>3, <2>5 DEF Ledger!Next, Ledger!Record
  <2> QED
    BY <1>a, <1>o, <2>2, <2>4, <2>5
<1>f. IsSeq(ActiveAfterRotation)
  BY <1>t, ActiveFileType DEF LinesOK
<1>g. ASSUME NEW piece, NEW X \in SUBSET {nextId}, nextId' = nextId + 1,
             {id \in 1..MaxEvents : CarriesEvent(piece, id)} = X,
             files' = WithActive(RotatedFiles, AppendLine(ActiveAfterRotation, piece))
      PROVE  LedgerInv' /\ Ledger!Next
  <2> DEFINE f == AppendLine(ActiveAfterRotation, piece)
  <2>1. Ids(f) = Ids(ActiveAfterRotation) \cup X
    BY <1>f, <1>g, AppendLineIds
  <2> HIDE DEF f
  <2>2. /\ Ordered(files')
        /\ \E rest \in Ledger!Remainders : Carried(files') = rest \cup X
    BY <1>g, <2>1, ActiveLedger DEF f
  <2>3. X = {} \/ X = {nextId}
    OBVIOUS
  <2> QED
    BY <1>a, <1>g, <2>2, <2>3
<1>b. \A body \in NewBodies : nextId <= MaxEvents => body \in Body /\ body.id = nextId
  BY <1>t DEF NewBodies, Body
<1>s. ASSUME nextId' = nextId + 1, files' = files
      PROVE  LedgerInv' /\ Ledger!Next
  <2>1. Ordered(files') /\ Carried(files') = Kept
    BY <1>k, <1>s DEF LedgerInv
  <2> QED
    BY <1>a, <1>s, <2>1, SparedIsRemainder
<1>v. ASSUME NeedsRotation, nextId' = nextId + 1, NEW m \in 0..BackupCount,
             files' = Vacated(files, m)
      PROVE  LedgerInv' /\ Ledger!Next
  <2>1. BackupCount > 0
    BY <1>v DEF NeedsRotation
  <2>2. Ordered(files') /\ Carried(files') = Spared
    BY <1>t, <1>v, <2>1, VacatedLedger DEF LedgerInv
  <2> QED
    BY <1>a, <1>v, <2>2, SparedIsRemainder
<1>1. ASSUME NEW r \in Replicas, NEW body \in NewBodies, nextId <= MaxEvents, Write(r, body)
      PROVE  LedgerInv' /\ Ledger!Next
  <2>1. body \in Body /\ body.id = nextId
    BY <1>1, <1>b
  <2>2. {id \in 1..MaxEvents : CarriesEvent(Entry(PrevHash(r), body), id)} = {nextId}
    BY <2>1, PieceIds
  <2> QED
    BY <1>1, <1>g, <2>2 DEF Write
<1>2. ASSUME InterruptedRotation
      PROVE  LedgerInv' /\ Ledger!Next
  BY <1>2, <1>s, <1>v DEF InterruptedRotation, StopInRotation
<1>3. ASSUME NEW r \in Replicas, NEW body \in NewBodies, nextId <= MaxEvents,
             InterruptedAppend(r, body)
      PROVE  LedgerInv' /\ Ledger!Next
  <2>0. nextId' = nextId + 1
    BY <1>3 DEF InterruptedAppend
  <2>1. CASE StopBeforeAppend(r)
    <3>1. files' = IF NeedsRotation THEN Vacated(files, 0) ELSE files
      BY <2>1 DEF StopBeforeAppend, RotatedFiles
    <3>2. 0 \in 0..BackupCount
      BY AuditAssumption
    <3> QED
      BY <1>s, <1>v, <2>0, <3>1, <3>2
  <2>2. CASE StopInAppend(r, Torn)
    <3> DEFINE X == {id \in 1..MaxEvents : CarriesEvent(Torn, id)}
    <3>1. X = {}
      BY <1>b, <1>3, PieceIds
    <3>2. X \in SUBSET {nextId}
      BY <3>1
    <3> QED
      BY <1>g, <2>0, <2>2, <3>2 DEF StopInAppend
  <2>3. CASE StopInAppend(r, Unended(Entry(PrevHash(r), body)))
    <3>1. body \in Body /\ body.id = nextId
      BY <1>3, <1>b
    <3>2. {id \in 1..MaxEvents : CarriesEvent(Unended(Entry(PrevHash(r), body)), id)} = {nextId}
      BY <3>1, PieceIds
    <3> QED
      BY <1>g, <2>0, <2>3, <3>2 DEF StopInAppend
  <2> QED
    BY <1>3, <2>1, <2>2, <2>3 DEF InterruptedAppend
<1>4. ASSUME files' = files, nextId' = nextId
      PROVE  LedgerInv' /\ UNCHANGED <<Kept, nextId - 1>>
  BY <1>4, <1>k, <1>t DEF LedgerInv, Ordered, Carried, Ids
<1> QED
  BY <1>1, <1>2, <1>3, <1>4 DEF Next, Emit, Restart, vars

\* For one process, any rotation size and number of backups, whatever is
\* interrupted or restarted: the log is a window of events that grows at its new
\* end and is forgotten from its old end only (audit.rotate_if_needed).  The
\* hypothesis is what makes a rotation with its append one step.
THEOREM LedgerImplemented ==
  ASSUME OneReplica
  PROVE  Spec => ImplementsLedger
<1>1. Init => LedgerInv /\ Ledger!Init
  BY LedgerInit
<1>2. LedgerInv /\ [Next]_vars => LedgerInv' /\ [Ledger!Next]_<<Kept, nextId - 1>>
  BY LedgerStep
<1> QED
  BY <1>1, <1>2, PTL DEF Spec, ImplementsLedger, Ledger!Spec

=============================================================================
