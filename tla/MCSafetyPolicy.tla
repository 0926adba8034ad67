--------------------------- MODULE MCSafetyPolicy ----------------------------
(***************************************************************************)
(* Instances of SafetyPolicy for TLC: easies with different hosts,         *)
(* and configurations that differ in everything they can.                  *)
(***************************************************************************)
EXTENDS SafetyPolicy, TLC

CONSTANTS e1, e2, h1, h2, t1, t2

MCHostOf == (e1 :> h1) @@ (e2 :> h2)

MCTwoConfigs == {
  [protocols |-> {"http", "ftp"}, redirs |-> {"http"}, limit |-> 2,
   policy |-> "public", hosts |-> {}, permit |-> FALSE],
  [protocols |-> {"http"}, redirs |-> {}, limit |-> 0,
   policy |-> "nil", hosts |-> {h1}, permit |-> FALSE]}

MCThreeConfigs == {
  [protocols |-> {"http", "ftp"}, redirs |-> {"http"}, limit |-> 2,
   policy |-> "public", hosts |-> {h1}, permit |-> FALSE],
  [protocols |-> {"ftp"}, redirs |-> {}, limit |-> 0,
   policy |-> "none", hosts |-> {}, permit |-> FALSE],
  [protocols |-> {"http"}, redirs |-> {}, limit |-> 1,
   policy |-> "public", hosts |-> {}, permit |-> TRUE]}

MCRace == {
  [protocols |-> {"http"}, redirs |-> {}, limit |-> 0,
   policy |-> "public", hosts |-> {}, permit |-> p] : p \in BOOLEAN}

MCOneHost == {
  [protocols |-> {"http"}, redirs |-> {}, limit |-> 1,
   policy |-> "public", hosts |-> {h1}, permit |-> FALSE]}

\* Programs that set what takes effect at once, that set what setup installs,
\* that change the configuration in two threads, and that work with two easies.
MCUsed == [atOnce |-> {e1}, bySetup |-> {e1}, race |-> {e1}, two |-> {e1, e2}]
MCSettable == [atOnce |-> {"limit", "protocols"}, bySetup |-> {"policy", "routed"},
               race |-> {"proxied"}, two |-> {}]
MCConfigs == [atOnce |-> MCThreeConfigs, bySetup |-> MCTwoConfigs, race |-> MCRace,
              two |-> MCOneHost]
MCChangers == [atOnce |-> {t1}, bySetup |-> {t1}, race |-> {t1, t2}, two |-> {t1}]
==============================================================================
