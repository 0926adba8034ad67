--------------------------- MODULE MCEasyTransfer ----------------------------
(***************************************************************************)
(* Instances of EasyTransfer for TLC.                                      *)
(***************************************************************************)
EXTENDS EasyTransfer
==============================================================================
