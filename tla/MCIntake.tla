------------------------------ MODULE MCIntake ------------------------------
(* Two handlers, one restart and a midnight (tick 2); a reply whose signature *)
(* comes bare or padded, an admin proof, and one string for the limiter, the  *)
(* hex of the identity that signs the reply, which posts may carry as well.   *)
EXTENDS Intake, TLC

MCToken == {[kind |-> "admin", stamp |-> 2, who |-> "a1"],
            [kind |-> "reply", stamp |-> 0, who |-> "a1"]}
MCPadding == {"", " "}

HandlerSymmetry == Permutations(Handler)
=============================================================================
