--------------------------- MODULE MCPredictions ---------------------------
(***************************************************************************)
(* An instance of Predictions for TLC: r1 and r2 are requests of one chat, *)
(* r3 is one of another chat.                                              *)
(***************************************************************************)
EXTENDS Predictions

CONSTANTS r1, r2, r3, c1, c2

MCChatOf == [r \in Requests |-> IF r = r3 THEN c2 ELSE c1]

=============================================================================
