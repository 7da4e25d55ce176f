----------------------------- MODULE DumpCursor -----------------------------
(***************************************************************************)
(* What the module dump (e3dcset -m <index>) promises about the DCB cell   *)
(* blocks of a battery: once the battery has said how many there are, they *)
(* are taken one after the other, none twice and none left out, and the    *)
(* walk ends exactly behind the last one.  How a block is obtained, how    *)
(* often it is asked for and when it is given up is left to Session.       *)
(***************************************************************************)
EXTENDS Naturals

CONSTANT Counts            \* the numbers of DCBs a battery may report

VARIABLES size,            \* number of DCBs of the walk under way, 0 when idle
          next             \* index of the DCB the walk is at, 0 when idle

vars == <<size, next>>

Init == size = 0 /\ next = 0

\* The battery reports its number of DCBs: the walk starts at the first.
Begin == /\ size = 0
         /\ \E n \in Counts \ {0} : size' = n
         /\ next' = 0

\* The block the walk is at is done with, another one follows.
Step == /\ next + 1 < size
        /\ next' = next + 1
        /\ UNCHANGED size

\* The last block is done with.
End == /\ size # 0
       /\ next + 1 = size
       /\ size' = 0
       /\ next' = 0

Next == Begin \/ Step \/ End

Spec == Init /\ [][Next]_vars
=============================================================================
