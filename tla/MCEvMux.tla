------------------------------ MODULE MCEvMux ------------------------------
(***************************************************************************)
(* EvMux for TLC.  Everything at once is too much: a scenario says what is *)
(* submitted, on which targets, and what else happens meanwhile, and the   *)
(* state space is the sum over the scenarios.  What a frame, a buffer or a *)
(* target is to the others does not need more of them than these.          *)
(***************************************************************************)
EXTENDS EvMux

Kind(owned, vm, class, bytes, blocks) ==
  [owned |-> owned, vm |-> vm, class |-> class, bytes |-> bytes, blocks |-> blocks]
Hello == Kind(TRUE, FALSE, Session, 1, 0)
Answer == Kind(FALSE, FALSE, Control, 2, 2)
Output == Kind(TRUE, TRUE, Repl, 1, 1)

Scenario(normal, large, own, endless, kinds, targets, owners, generations, disturb, events) ==
  [normal |-> normal, large |-> large, preview |-> own, observer |-> endless, kinds |-> kinds,
   targets |-> targets, owners |-> owners, generations |-> generations, disturb |-> disturb,
   events |-> events]

\* Target 0 is the UART, 3 and 4 are TCP links.
MCScenarios ==
  {\* the quota that two TCP links share
   Scenario(3, 0, 0, 0, {Answer, Output}, {3, 4}, 1, 1, 0, {}),
   \* a large answer between queued frames, the session released or lost, the link rotated
   Scenario(1, 1, 0, 0, {Answer, Hello}, {3}, 1, 2, 1, {"end", "close", "release"}),
   \* a preview between queued frames, the VM reset
   Scenario(1, 0, 1, 0, {Answer}, {3}, 1, 2, 1, {"close", "reset"}),
   \* the previews of two owners in turn
   Scenario(0, 0, 3, 0, {}, {3}, 2, 1, 1, {"end"}),
   \* endless previews for observers, on two links and on one that is rotated
   Scenario(0, 0, 0, 1, {}, {3, 4}, 0, 1, 0, {}),
   Scenario(0, 0, 0, 1, {}, {3}, 0, 2, 1, {"close"}),
   \* the UART, paused for a change of the speed, and the VM reset
   Scenario(2, 0, 0, 0, {Output}, {0}, 1, 1, 2, {"pause", "reset"})}

MuxFairSpec == MuxSpec /\ MuxFairness
=============================================================================
