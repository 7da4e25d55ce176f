----------------------------- MODULE FrameQueue -----------------------------
(***************************************************************************)
(* What the receive path promises to the loop above it: the frames the     *)
(* station sends are handed on one by one, whole and in their order.       *)
(***************************************************************************)
EXTENDS Naturals, Sequences

CONSTANT Frames          \* the frames there may be

VARIABLES put,           \* the frames sent so far
          taken          \* the frames handed on so far

vars == <<put, taken>>

Init == put = <<>> /\ taken = <<>>

\* One frame more; Frames need not be finite.
Put == /\ put' # <<>>
       /\ LET f == put'[Len(put')]
          IN  f \in Frames /\ put' = Append(put, f)
       /\ UNCHANGED taken

Take == /\ Len(taken) < Len(put)
        /\ taken' = Append(taken, put[Len(taken) + 1])
        /\ UNCHANGED put

Next == Put \/ Take

Spec == Init /\ [][Next]_vars
=============================================================================
