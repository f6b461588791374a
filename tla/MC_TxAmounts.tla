---------------------------- MODULE MC_TxAmounts ----------------------------
(* Three-bit amounts, so that 4 + 4 wraps to 0 and 4 + 7 to 3, and    *)
(* two-bit output indices with rings of three outputs.                      *)
EXTENDS TxAmounts

MCAmounts == {0, 4, 7}
=============================================================================
