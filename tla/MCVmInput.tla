----------------------------- MODULE MCVmInput -----------------------------
(***************************************************************************)
(* Instances of VmInput for TLC: one task that handles frames, or two.     *)
(* Nothing in VmInput tells the two apart, so they may be exchanged.       *)
(***************************************************************************)
EXTENDS VmInput, TLC

CONSTANTS transport, tcp

OneRxTask == {tcp}
BothRxTasks == {transport, tcp}
Exchange == Permutations(BothRxTasks)
=============================================================================
