------------------------------ MODULE AuditLog ------------------------------
(***************************************************************************)
(* The tamper-evident audit log (services/api/clawhum_api/audit.py): an    *)
(* append-only JSONL file whose lines form a hash chain, its size-based    *)
(* rotation, and the per-process cache of the last digest that lets        *)
(* write_event extend the chain without reading the file back.             *)
(*                                                                         *)
(* One process is a replica of the API.  Inside a process write_event runs *)
(* under audit._lock, so a write is one step of that process; between any  *)
(* two of its operations it may be interrupted (an error that write_event  *)
(* swallows, or a crash): InterruptedRotation and InterruptedAppend.  A    *)
(* crash is one of the two followed by Restart.  Closing a file after all  *)
(* of a line has been written is taken not to fail.                        *)
(*                                                                         *)
(* Nothing serialises two processes.  Those of Replicas take turns, write  *)
(* by write: that two writes overlap is not modelled, so what is claimed   *)
(* of the log is claimed for OneReplica.                                   *)
(*                                                                         *)
(* The digest of an entry is sha256(prev_hash | body).  It is modelled by  *)
(* the pair itself: an injective function of both, never the genesis hash. *)
(***************************************************************************)
EXTENDS Integers, Sequences, FiniteSets

CONSTANTS
    Replicas,       \* API processes that write this log file
    Actors,         \* actor digests recorded by the audit middleware
    Tenants,        \* workspaces
    MaxLines,       \* audit_max_bytes counted in lines; 0 disables rotation
    BackupCount,    \* audit_backup_count
    RelativePath,   \* audit_log_path is relative (its default) or goes through a link
    MaxEvents       \* bound: events handed to write_event

ASSUME AuditAssumption ==
    /\ MaxLines \in Nat
    /\ BackupCount \in Nat
    /\ MaxEvents \in Nat
    /\ RelativePath \in BOOLEAN

VARIABLES
    files,          \* files[0] is the active file, files[n] its sibling ".n"
    cache,          \* _last_hash_by_path of every process
    nextId,         \* identity of the next event (its request id)
    logged          \* history: the bodies written in full, newline or not

vars == <<files, cache, nextId, logged>>

-----------------------------------------------------------------------------
(* Lines, digests and bodies.                                              *)

Genesis == << >>

HashEntry(prev, body) == <<prev, body>>

Redacted == "redacted"

Body == [id : 1..MaxEvents, actor : Actors \cup {Redacted}, tenant : Tenants]

\* ended: the line has its newline.
Entry(prev, body) ==
    [kind |-> "entry", prev |-> prev, body |-> body,
     digest |-> HashEntry(prev, body), ended |-> TRUE]

\* One line on disk that no JSON parser accepts: the first bytes of an entry,
\* or what one append left without a newline and the bytes of later ones.  It
\* still holds the complete events that were written to it.
Scrap(bodies, ended) == [kind |-> "scrap", bodies |-> bodies, ended |-> ended]

\* What a partial write leaves: an entry cut inside its JSON, ...
Torn == Scrap({}, FALSE)

\* ... or one that lost no more than its newline.
Unended(entry) == [entry EXCEPT !.ended = FALSE]

IsLine(l) ==
    \/ /\ l.kind = "entry"
       /\ DOMAIN l = {"kind", "prev", "body", "digest", "ended"}
       /\ l.body \in Body
       /\ l.ended \in BOOLEAN
    \/ l \in [kind : {"scrap"}, bodies : SUBSET Body, ended : BOOLEAN]

Parses(l) == l.kind = "entry"

EventsOf(l) == IF Parses(l) THEN {l.body} ELSE l.bodies

\* A file that does not exist reads as an empty one.
Lines(n) == IF n \in DOMAIN files THEN files[n] ELSE << >>

\* The digest of the last line that parses; lines that do not are skipped.
ReadLastHash(f) ==
    LET parsed == {i \in 1..Len(f) : Parses(f[i])}
    IN  IF parsed = {}
        THEN Genesis
        ELSE f[CHOOSE i \in parsed : \A j \in parsed : j <= i].digest

\* The file f written anew without the lines at the places gone: the others
\* keep their order.  Nothing in audit.py does so; an erasure and a sweep do.
Dropped(f, gone) ==
    LET kept == (1..Len(f)) \ gone
        Place(k) == CHOOSE i \in kept : Cardinality({j \in kept : j <= i}) = k
    IN  [k \in 1..Cardinality(kept) |-> f[Place(k)]]

-----------------------------------------------------------------------------
(* Rotation.  Vacated(fs, m) is the directory fs once every file from the  *)
(* one before the oldest down to file m has been renamed to its successor: *)
(* with m = BackupCount only the oldest backup is gone, and m = 0 is the   *)
(* end of the rotation, when the active file itself has become ".1".       *)

NeedsRotation ==
    /\ MaxLines > 0
    /\ BackupCount > 0
    /\ 0 \in DOMAIN files
    /\ Len(files[0]) >= MaxLines

\* Mutant: the oldest backup is not unlinked but renamed like the others.
Vacated_KeepsOldest(fs, m) ==
    [n \in {k \in DOMAIN fs : k < m} \cup {k + 1 : k \in {j \in DOMAIN fs : j >= m}}
        |-> IF n < m THEN fs[n] ELSE fs[n - 1]]

\* Mutant: a rename that does not replace the oldest backup.
Vacated_NoReplace(fs, m) ==
    [n \in {k \in DOMAIN fs : k < m} \cup
           {k \in (m + 1)..BackupCount : k - 1 \in DOMAIN fs}
        |-> IF n < m \/ (n = BackupCount /\ n \in DOMAIN fs) THEN fs[n] ELSE fs[n - 1]]

Vacated(fs, m) ==
    [n \in {k \in DOMAIN fs : k < m} \cup
           {k \in (m + 1)..BackupCount : k - 1 \in DOMAIN fs}
        |-> IF n < m THEN fs[n] ELSE fs[n - 1]]

RotatedFiles == IF NeedsRotation THEN Vacated(files, 0) ELSE files

-----------------------------------------------------------------------------
(* write_event.                                                            *)

\* The cache is keyed by the resolved path, except that a path with no file
\* behind it is looked up as it was spelled.
PathKey ==
    IF 0 \in DOMAIN files \/ NeedsRotation \/ ~RelativePath
    THEN "resolved"
    ELSE "as_spelled"

Keys == Replicas \X {"resolved", "as_spelled"}

\* Mutant: the chain is not restarted by a rotation.
PrevHash_NotReset(r) ==
    IF <<r, PathKey>> \in DOMAIN cache THEN cache[<<r, PathKey>>]
    ELSE ReadLastHash(Lines(0))

\* prev_hash for the next entry of process r.
PrevHash(r) ==
    IF NeedsRotation THEN Genesis
    ELSE IF <<r, PathKey>> \in DOMAIN cache THEN cache[<<r, PathKey>>]
    ELSE ReadLastHash(Lines(0))

\* Mutant: a digest that is remembered is never replaced (setdefault).
Remember_First(r, digest) ==
    [k \in DOMAIN cache \cup {<<r, PathKey>>} |->
        IF k \in DOMAIN cache THEN cache[k] ELSE digest]

Remember(r, digest) ==
    [k \in DOMAIN cache \cup {<<r, PathKey>>} |->
        IF k = <<r, PathKey>> THEN digest ELSE cache[k]]

EndsOpen(f) == Len(f) > 0 /\ ~f[Len(f)].ended

\* Appending to a file whose last line has no newline lengthens that line.
AppendLine(f, line) ==
    IF EndsOpen(f)
    THEN [f EXCEPT ![Len(f)] = Scrap(EventsOf(@) \cup EventsOf(line), line.ended)]
    ELSE Append(f, line)

\* The directory fs with f as its active file.
WithActive(fs, f) ==
    [n \in DOMAIN fs \cup {0} |-> IF n = 0 THEN f ELSE fs[n]]

ActiveAfterRotation == IF NeedsRotation THEN << >> ELSE Lines(0)

Write(r, body) ==
    LET entry == Entry(PrevHash(r), body)
    IN  /\ files' = WithActive(RotatedFiles, AppendLine(ActiveAfterRotation, entry))
        /\ cache' = Remember(r, entry.digest)
        /\ nextId' = nextId + 1
        /\ logged' = logged \cup {body}

\* Stopped before a rename or after any of them, the last one too: the digest
\* of the file that has gone is still the one remembered.
StopInRotation ==
    /\ NeedsRotation
    /\ \E m \in 0..BackupCount : files' = Vacated(files, m)
    /\ UNCHANGED cache

\* Stopped once the previous digest is known and before a byte is written.
StopBeforeAppend(r) ==
    /\ files' = RotatedFiles
    /\ cache' = Remember(r, PrevHash(r))

\* Stopped in the middle of the append: the new digest is not remembered.
StopInAppend(r, piece) ==
    /\ files' = WithActive(RotatedFiles, AppendLine(ActiveAfterRotation, piece))
    /\ cache' = Remember(r, PrevHash(r))

\* write_event gives up on the event: it never raises and never retries.
InterruptedRotation ==
    /\ StopInRotation \/ UNCHANGED <<files, cache>>
    /\ nextId' = nextId + 1
    /\ UNCHANGED logged

InterruptedAppend(r, body) ==
    /\ \/ StopBeforeAppend(r) /\ UNCHANGED logged
       \/ StopInAppend(r, Torn) /\ UNCHANGED logged
       \/ /\ StopInAppend(r, Unended(Entry(PrevHash(r), body)))
          /\ logged' = logged \cup {body}
    /\ nextId' = nextId + 1

\* A process boots with an empty cache.
Restart(r) ==
    /\ cache' = [k \in {x \in DOMAIN cache : x[1] # r} |-> cache[k]]
    /\ UNCHANGED <<files, nextId, logged>>

NewBodies == [id : {nextId}, actor : Actors, tenant : Tenants]

\* A mutating request has ended and its event is handed to write_event.
Emit(r) ==
    /\ nextId <= MaxEvents
    /\ \/ \E body \in NewBodies : Write(r, body) \/ InterruptedAppend(r, body)
       \/ InterruptedRotation

Init ==
    /\ files = [n \in {} |-> << >>]
    /\ cache = [k \in {} |-> Genesis]
    /\ nextId = 1
    /\ logged = {}

Next == \E r \in Replicas : Emit(r) \/ Restart(r)

Spec == Init /\ [][Next]_vars

-----------------------------------------------------------------------------
(* The verifier (audit_verify.py).                                         *)

\* Mutant: only the digest of the line itself is compared.
LineVerifies_NoLink(f, i) ==
    Parses(f[i]) /\ f[i].digest = HashEntry(f[i].prev, f[i].body)

\* The line carries the digest of the line before it, and its own digest.
LineVerifies(f, i) ==
    /\ Parses(f[i])
    /\ f[i].prev = (IF i = 1 THEN Genesis ELSE f[i - 1].digest)
    /\ f[i].digest = HashEntry(f[i].prev, f[i].body)

\* The line the verifier blames, or 0 (first_bad_line is None).
FirstBadLine(f) ==
    IF \A i \in 1..Len(f) : LineVerifies(f, i)
    THEN 0
    ELSE CHOOSE i \in 1..Len(f) : /\ \A j \in 1..(i - 1) : LineVerifies(f, j)
                                  /\ ~LineVerifies(f, i)

\* Rotated siblings are found by counting up from ".1" to the first gap.
RotatedSiblings == {n \in 1..BackupCount : \A m \in 1..n : m \in DOMAIN files}

VerifyChain ==
    \A n \in {0} \cup RotatedSiblings : FirstBadLine(Lines(n)) = 0

-----------------------------------------------------------------------------
(* Properties.                                                             *)

IsSeq(f) == f \in Seq({f[i] : i \in 1..Len(f)})

TypeOK ==
    /\ DOMAIN files \subseteq 0..BackupCount
    /\ \A n \in DOMAIN files : /\ IsSeq(files[n])
                               /\ \A i \in 1..Len(files[n]) : IsLine(files[n][i])
    /\ DOMAIN cache \subseteq Keys
    /\ nextId \in 1..(MaxEvents + 1)
    /\ logged \subseteq {b \in Body : b.id < nextId}

Undamaged(f) == \A i \in 1..Len(f) : Parses(f[i])

\* ... and its last line has its newline.
Complete(f) == Undamaged(f) /\ ~EndsOpen(f)

\* The active file is gone, renamed by a rotation that was stopped before the
\* digest was reset.
Stranded == 0 \notin DOMAIN files /\ \E k \in DOMAIN cache : cache[k] # Genesis

\* In every file on disk, up to its first damaged line, every line verifies:
\* whatever was interrupted and whenever the process restarted, the verifier
\* never blames a line that was written in full after undamaged ones
\* (audit.write_event against audit_verify._verify_one).  The exception is the
\* first line of a file that was begun while Stranded: it is chained to the
\* file before, and ChainContinues says that no other line is.
BlameOnlyDamage ==
    \A n \in DOMAIN files : \A i \in 1..Len(files[n]) :
        (\A j \in 1..i : Parses(files[n][j])) =>
            \/ LineVerifies(files[n], i)
            \/ i = 1 /\ files[n][1].prev # Genesis

\* The next event is chained to the end of the file it will be appended to, and
\* to the genesis hash if that is a new one, however the remembered digest came
\* about: a write, a write that stopped half-way, a rotation, or a read on the
\* first write after a boot (_last_hash_by_path).  It needs a file whose last
\* line has its newline, and that the log is not Stranded.
ChainContinues ==
    ~Stranded /\ Complete(ActiveAfterRotation) =>
        \A r \in Replicas : PrevHash(r) = ReadLastHash(ActiveAfterRotation)

OneReplica == \A r, s \in Replicas : r = s

\* One process writes the file and names it by a path that resolves to itself:
\* the deployment for which the properties of the chain are promised.
OneProcess == ~RelativePath /\ OneReplica

CarriesEvent(l, id) == \E b \in EventsOf(l) : b.id = id

\* The events written that are still on disk, whether their line parses or not.
OnDisk ==
    {b \in logged : \E n \in DOMAIN files : \E i \in 1..Len(files[n]) :
                       CarriesEvent(files[n][i], b.id)}

\* The events the files carry.
Kept ==
    {id \in 1..MaxEvents : \E n \in DOMAIN files : \E i \in 1..Len(files[n]) :
                              CarriesEvent(files[n][i], id)}

Ledger == INSTANCE AuditLedger WITH kept <- Kept, last <- nextId - 1

\* For whoever reads it the log is a window of events that grows at its new end
\* and loses its oldest events only, also when a rotation is cut short between
\* two renames; an event that could not be written never appears afterwards
\* (audit.write_event, audit.rotate_if_needed).
ImplementsLedger == Ledger!Spec

=============================================================================
