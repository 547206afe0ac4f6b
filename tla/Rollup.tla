------------------------------- MODULE Rollup -------------------------------
(***************************************************************************)
(* What a preconfirmation gateway promises: the blocks it preconfirms, and *)
(* those it finds, land on L1 in their order, and all of them do.          *)
(***************************************************************************)
EXTENDS Integers

VARIABLES
  tip,                (* the last preconfirmed L2 block                    *)
  inbox               (* the last L2 block that L1 knows                   *)

Init == tip = 0 /\ inbox = 0

Preconfirm == tip' = tip + 1 /\ UNCHANGED inbox

Land == inbox' \in inbox + 1 .. tip /\ UNCHANGED tip

Spec == Init /\ [][Preconfirm \/ Land]_<<tip, inbox>>

(* No block waits for ever.                                                *)
FairSpec == Spec /\ WF_<<tip, inbox>>(Land)

=============================================================================
