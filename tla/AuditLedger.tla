---------------------------- MODULE AuditLedger -----------------------------
(***************************************************************************)
(* What the audit log promises to whoever reads it, without files, chains, *)
(* digests or processes: a window of events that grows at its new end, one *)
(* event at a time, and is forgotten from its old end only.  An event the  *)
(* log missed when it happened is never in the window later.               *)
(* AuditLog implements it (ImplementsLedger).                              *)
(***************************************************************************)
EXTENDS Integers

VARIABLES
    kept,       \* the events that can still be read
    last        \* the last event that was handed over

\* The window without its oldest events, any number of them.
Remainders ==
    {rest \in SUBSET kept : \A old \in kept \ rest, e \in rest : old < e}

Init == kept = {} /\ last = 0

Record ==
    /\ last' = last + 1
    /\ \E rest \in Remainders : kept' = rest \cup {last'}

\* write_event failed: the event is not in the log.
Miss ==
    /\ last' = last + 1
    /\ kept' \in Remainders

Next == Record \/ Miss

Spec == Init /\ [][Next]_<<kept, last>>

=============================================================================
