------------------------------ MODULE MCAccount ------------------------------
(* Two states of the fee market for TLC: quiet and busy.                   *)
EXTENDS Account

Quiet == [k \in Kinds |-> IF k = "fee" THEN 2 ELSE 1]
Busy == [k \in Kinds |-> IF k = "fee" THEN 8 ELSE 2]
QuietAndBusy == {Quiet, Busy}

=============================================================================
