----------------------------- MODULE AuditTamper -----------------------------
(***************************************************************************)
(* What the hash chain promises: files edited by hand, outside the API, in *)
(* the ways audit.py and its tests name (a field of a persisted line       *)
(* edited, a line deleted, lines reordered) while the API keeps writing,   *)
(* rotating and restarting.  The digests are not recomputed by the edits.  *)
(***************************************************************************)
EXTENDS AuditLog

VARIABLE
    genuine         \* history: what the API wrote to each file, edits or not

tamperVars == <<vars, genuine>>

Bodies(f) == [i \in 1..Len(f) |-> f[i].body]

GenuineActive == IF NeedsRotation \/ 0 \notin DOMAIN genuine THEN << >> ELSE genuine[0]

\* An uninterrupted write or a restart of the API.
ApiStep ==
    \E r \in Replicas :
        \/ /\ nextId <= MaxEvents
           /\ \E body \in NewBodies :
                  /\ Write(r, body)
                  /\ genuine' = WithActive(IF NeedsRotation THEN Vacated(genuine, 0) ELSE genuine,
                                           Append(GenuineActive, body))
        \/ Restart(r) /\ UNCHANGED genuine

Rewrite(n, f) ==
    /\ files' = [files EXCEPT ![n] = f]
    /\ UNCHANGED <<cache, nextId, logged, genuine>>

\* One field of a line, its digests left as they are.
EditLine(n, i) ==
    \E a \in Actors \ {files[n][i].body.actor} :
        Rewrite(n, [files[n] EXCEPT ![i].body.actor = a])

DeleteLine(n, i) ==
    Rewrite(n, [k \in 1..(Len(files[n]) - 1) |->
                   IF k < i THEN files[n][k] ELSE files[n][k + 1]])

\* Two neighbouring lines in the other order.
ReorderLines(n, i) ==
    Rewrite(n, [files[n] EXCEPT ![i] = files[n][i + 1], ![i + 1] = files[n][i]])

TamperInit == Init /\ genuine = [n \in {} |-> << >>]

\* Every edit the documentation calls detectable, the newest line kept in its
\* place: a chain says nothing of what is cut off at its end.
TamperNext ==
    \/ ApiStep
    \/ \E n \in DOMAIN files : \E i \in 1..Len(files[n]) : EditLine(n, i)
    \/ \E n \in DOMAIN files : \E i \in 1..(Len(files[n]) - 1) : DeleteLine(n, i)
    \/ \E n \in DOMAIN files : \E i \in 1..(Len(files[n]) - 2) : ReorderLines(n, i)

TamperSpec == TamperInit /\ [][TamperNext]_tamperVars

-----------------------------------------------------------------------------
(* Properties.                                                             *)

\* "The chain proves no entry was edited, deleted, or reordered after it was
\* written" (audit_verify.py): a file that verifies holds exactly the events
\* the API wrote to it, in order, whatever edits, writes, rotations and
\* restarts came after one another.
VerifiedIsGenuine ==
    \A n \in DOMAIN files :
        FirstBadLine(files[n]) = 0 => Bodies(files[n]) = genuine[n]

=============================================================================
