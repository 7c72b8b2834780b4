------------------------------ MODULE Archive ------------------------------
(***************************************************************************)
(* What the snapshot store promises to a process that boots, whenever the   *)
(* one before it died: load_latest finds nothing, or all parts of one       *)
(* state.  What it finds is replaced as a whole, by a later state only, and *)
(* a take that said it was done is never taken back.                        *)
(***************************************************************************)
EXTENDS Integers

CONSTANT Parts

VARIABLES
    latest,    \* the beat each part of what load_latest finds is of, or None
    take,      \* the take that wrote it, or 0
    returned   \* the last take that returned its target, or 0

vars == <<latest, take, returned>>

None == -1

Init == latest = [p \in Parts |-> None] /\ take = 0 /\ returned = 0

\* Beats are counted over all processes there have been.
Publish ==
    /\ take' \in Nat /\ take' > take
    /\ latest' \in [Parts -> Nat]
    /\ \A p, q \in Parts : latest'[p] = latest'[q]
    /\ \A p \in Parts : latest'[p] >= latest[p]
    /\ UNCHANGED returned

Confirm == returned' = take /\ UNCHANGED <<latest, take>>

Next == Publish \/ Confirm

Spec == Init /\ [][Next]_vars
=============================================================================
