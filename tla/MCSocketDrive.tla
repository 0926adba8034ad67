---------------------------- MODULE MCSocketDrive ----------------------------
(***************************************************************************)
(* Instances of SocketDrive for TLC.                                       *)
(***************************************************************************)
EXTENDS SocketDrive, TLC

CONSTANTS f1, f2

Setting(w, l) == [waits |-> w, liberties |-> l]
MCSettings ==
  {Setting({"in", "out", "inout", "timer"}, {"vanish", "raise"}),
   Setting({"in", "timer", "hidden"}, {})}
==============================================================================
