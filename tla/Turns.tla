-------------------------------- MODULE Turns --------------------------------
(***************************************************************************)
(* The phases of an operator's turn: what the three answers of             *)
(* LookaheadHandle (crates/common/src/taiko/lookahead.rs) say together.    *)
(*   off       in no lookahead (or next, before the handover buffer)       *)
(*   next      next operator, after the handover buffer                    *)
(*   current   current operator, before the handover window, whether the   *)
(*             lookahead was already updated in this epoch or not          *)
(*   clearing  current operator, in the handover window                    *)
(*   handed    the same, and the next operator's buffer has elapsed        *)
(*   disabled  in its own turn, but preconfs are disabled on the router or *)
(*             the last poll of the router failed                          *)
(* A gateway that is disabled while another operator may sequence is off.  *)
(*                                                                         *)
(* Module Sequencer takes the phases as its environment; module Lookahead  *)
(* derives them from the clock, the whitelist and the polls.               *)
(***************************************************************************)

Turns == {"off", "next", "current", "clearing", "handed", "disabled"}

MaySequence(t) == t \in {"next", "current"}
MayPropose(t) == t \in {"current", "clearing", "handed"}
ShouldClearProposal(t) == t \in {"clearing", "handed"}
PeersActive(t) == t \in {"off", "handed"}

FollowingTurns == [t \in Turns |->
  CASE t = "off" -> {"next", "handed", "disabled"}
    [] t = "next" -> {"current", "disabled"}
    [] t = "current" -> {"clearing", "disabled"}
    [] t = "clearing" -> {"handed", "disabled"}
    [] t = "handed" -> {"off"}
    [] t = "disabled" -> {"off", "next", "current", "clearing"}]

=============================================================================
