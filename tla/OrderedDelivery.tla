-------------------------- MODULE OrderedDelivery ---------------------------
(***************************************************************************)
(* What the delivery of an answer promises to the reader of the chat: the  *)
(* parts come one after the other, each at least once and at most          *)
(* MaxCopies times in a row, unless sending it is reported as failed, in   *)
(* which case it may be missing.  There is at least one part.              *)
(***************************************************************************)
EXTENDS Naturals, Sequences

CONSTANT MaxCopies

VARIABLES
    parts,   \* number of parts of the answer
    next,    \* the part to be delivered next
    shown,   \* what the chat shows of those before it
    failed   \* which of them were reported as failed

vars == <<parts, next, shown, failed>>

Init == parts \in Nat \ {0} /\ next = 1 /\ shown = << >> /\ failed = {}

Show(copies) == shown' = shown \o [i \in 1 .. copies |-> next]

Deliver ==
    /\ next <= parts
    /\ \/ failed' = failed /\ \E copies \in 1 .. MaxCopies : Show(copies)
       \/ failed' = failed \cup {next} /\ \E copies \in 0 .. MaxCopies : Show(copies)
    /\ next' = next + 1
    /\ parts' = parts

Spec == Init /\ [][Deliver]_vars
=============================================================================
