---------------------------- MODULE AuditErasure ----------------------------
(***************************************************************************)
(* The erasure of one caller, DELETE /privacy/me (privacy.py): identifying *)
(* fields of the caller's events are overwritten in the active audit file  *)
(* and in the siblings beside it, one file after the other.  It does not   *)
(* hold audit._lock and does not touch the digests write_event remembers;  *)
(* it runs on the event loop without an await, so in a single process it   *)
(* is not interleaved with write_event, only with its steps.               *)
(***************************************************************************)
EXTENDS AuditLog

\* An actor is "anonymous" or starts with "key:" (actor_id_for): never the word
\* that replaces it.
ASSUME EraseAssumption == Redacted \notin Actors

VARIABLE
    erased      \* history: for each actor, the last event before its erasure

eraseVars == <<vars, erased>>

-----------------------------------------------------------------------------
(* Erasure of one actor.                                                   *)

RedactLine(l, a) ==
    IF l.body.actor = a THEN [l EXCEPT !.body.actor = Redacted] ELSE l

\* Mutant: the rows of the actor are dropped instead of redacted.
RedactFile_Drops(f, a) ==
    Dropped(f, {i \in 1..Len(f) : Parses(f[i]) => f[i].body.actor = a})

\* Lines that do not parse are not copied; digests are not recomputed.  Every
\* line is written with a newline.
RedactFile(f, a) ==
    LET parsed == Dropped(f, {i \in 1..Len(f) : ~Parses(f[i])})
    IN  [i \in 1..Len(parsed) |-> [RedactLine(parsed[i], a) EXCEPT !.ended = TRUE]]

\* Mutant: rotated files are not walked.
ReachedByWalk_ActiveOnly == {0} \cap DOMAIN files

\* The active file, if there is one, and the siblings up to the first gap.
ReachedByWalk == ({0} \cap DOMAIN files) \cup RotatedSiblings

RedactFiles(a, reached) ==
    [n \in DOMAIN files |-> IF n \in reached THEN RedactFile(files[n], a) ELSE files[n]]

Redact(a) ==
    /\ files' = RedactFiles(a, ReachedByWalk)
    /\ erased' = [erased EXCEPT ![a] = nextId - 1]
    /\ UNCHANGED <<cache, nextId, logged>>

\* A crash between two files: the newest ones are done, none is half done.
InterruptedRedact(r, a) ==
    /\ \E done \in 0..(BackupCount + 1) :
           files' = RedactFiles(a, {n \in ReachedByWalk : n < done})
    /\ cache' = [k \in {x \in DOMAIN cache : x[1] # r} |-> cache[k]]
    /\ UNCHANGED <<nextId, logged, erased>>

-----------------------------------------------------------------------------

EraseInit ==
    /\ Init
    /\ erased = [a \in Actors |-> 0]

\* Steps of the log itself, with no I/O error and no crash inside write_event:
\* a rotation cut short leaves a gap in the siblings that the walk stops at.
CleanLogStep ==
    /\ \E r \in Replicas : \/ /\ nextId <= MaxEvents
                              /\ \E body \in NewBodies : Write(r, body)
                           \/ Restart(r)
    /\ UNCHANGED erased

EraseNext ==
    \/ CleanLogStep
    \/ \E a \in Actors : Redact(a)
    \/ \E r \in Replicas, a \in Actors : InterruptedRedact(r, a)
EraseSpec == EraseInit /\ [][EraseNext]_eraseVars

-----------------------------------------------------------------------------
(* Properties.                                                             *)

\* "Walks the active audit file and every rotated sibling so erasure is
\* complete across the on disk history" (privacy.redact_actor): once the call
\* has returned, no line on disk names the actor for an event before it, whatever
\* rotations, restarts and erasures cut short came before and after.
ErasureComplete ==
    \A n \in DOMAIN files : \A i \in 1..Len(files[n]) :
        \A b \in EventsOf(files[n][i]) : b.actor \in Actors => b.id > erased[b.actor]

\* Redaction keeps every link of the chain: however erasures, interrupted
\* erasures, rotations and restarts fall among the writes, the line the
\* verifier blames is always a redacted one, so the report still tells an
\* erasure from a missing or reordered row (privacy._redact_file).
OnlyRedactedBlamed ==
    \A n \in DOMAIN files :
        LET f == files[n]
        IN  FirstBadLine(f) # 0 => f[FirstBadLine(f)].body.actor = Redacted

=============================================================================
