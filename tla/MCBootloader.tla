---------------------------- MODULE MCBootloader ----------------------------
(***************************************************************************)
(* Model-checking instance of Bootloader: a primary slot of three rows    *)
(* (enough for a copy to fail before, in the middle of and at the end of  *)
(* the loop) and two power cycles per behaviour (enough to lose power in  *)
(* the middle of a rollback, in the middle of the rollback that follows,  *)
(* and boot once more).                                                    *)
(***************************************************************************)
EXTENDS Bootloader

MCNChunks == 3
MCMaxResets == 2

=============================================================================
