----------------------------- MODULE MCDevice -----------------------------
(***************************************************************************)
(* Model-checking instance of Device: a primary slot of three rows (a     *)
(* copy can fail on the first, a middle or the last row), one power       *)
(* cycle, and the code's NETWORK_CONN_MAX_RETRY of 5.                     *)
(***************************************************************************)
EXTENDS Device

MCNChunks == 3
MCMaxResets == 1

=============================================================================
