---------------------------- MODULE MCEasyRequest ----------------------------
(***************************************************************************)
(* Instances of EasyRequest for TLC.                                       *)
(***************************************************************************)
EXTENDS EasyRequest

CONSTANTS body, file, stream
==============================================================================
