---------------------------- MODULE MCDifftest -----------------------------
(***************************************************************************)
(* Difftest on the programs of MCCore.                                     *)
(***************************************************************************)
EXTENDS Difftest, MCCore
=============================================================================
