--------------------------- MODULE MCSafeDownload ---------------------------
(***************************************************************************)
(* Instances of SafeDownload for TLC: one Multi.download of two files, the *)
(* second with :overwrite, and one Easy.download that wants the first.     *)
(***************************************************************************)
EXTENDS SafeDownload, TLC

CONSTANTS many, single, d1, d2, d3, p1, p2

TwoCalls == (many :> <<d1, d2>>) @@ (single :> <<d3>>)
PathsOf == (d1 :> p1) @@ (d2 :> p2) @@ (d3 :> p1)
Setting(l, o, r) == [linkable |-> l, onFailure |-> o, rescuing |-> r]
ThreeSettings ==
  {Setting(TRUE, {}, {}), Setting(FALSE, {}, {}), Setting(TRUE, {single}, {many})}
SecondOverwrites == (d1 :> FALSE) @@ (d2 :> TRUE) @@ (d3 :> FALSE)
==============================================================================
