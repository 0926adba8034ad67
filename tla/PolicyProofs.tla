---------------------------- MODULE PolicyProofs -----------------------------
(***************************************************************************)
(* Proofs about the two policies of an easy: SafetyPolicy, for any         *)
(* programs, easies, protocols, hosts and configurations, and after it     *)
(* NetworkPolicy, for any addresses and lists.                             *)
(***************************************************************************)
EXTENDS SafetyPolicy, NetworkPolicy, SequenceTheorems, TLAPS

Hosts == {HostOf[e] : e \in Easies}
SomeProtocols == (SUBSET AllProtocols) \ {{}}

Options ==
  [protocols : SomeProtocols, redirs : SomeProtocols, limit : Nat, policy : {"none", "public"},
   hosts : SUBSET Hosts, routed : BOOLEAN, proxied : BOOLEAN]
NativeOptions ==
  [policy : {"none", "public"}, hosts : SUBSET Hosts, routed : BOOLEAN, proxied : BOOLEAN]

\* An easy is in hand; what the thread does meanwhile, or goes back to.
Reading == pc \in {"signing", "dating"}
Phase == IF Reading THEN back ELSE pc

Applicable == Configs[program] \cup {NoConfig}

(***************************************************************************)
(* The types, where TypeOK gives only the parts that its run tells apart;  *)
(* and which variables are idle when.                                      *)
(***************************************************************************)
Typed ==
  /\ program \in Programs /\ config \in Applicable /\ generation \in 0 .. MaxGeneration
  /\ changing \in [Changers[program] -> {"no", "stored", "read"}]
  /\ was \in [Changers[program] -> Nat]
  /\ \A t \in Changers[program] : changing[t] = "read" => was[t] < MaxGeneration
  /\ attrs \in [Easies -> Options] /\ native \in [Easies -> NativeOptions]
  /\ under \in [Easies -> Applicable] /\ cleared \in [Easies -> Applicable \cup {Unseen}]
  /\ own \in [Easies -> SUBSET {"limit", "protocols"}]
  /\ override \in [Easies -> BOOLEAN] /\ overrideGen \in [Easies -> Nat]
  /\ attached \subseteq Easies /\ todo \subseteq attached /\ running \subseteq attached
  /\ pc \in {"idle", "applying", "signing", "dating", "running"}
  /\ back \in {"idle", "applying", "running"} /\ active \in BOOLEAN /\ overlapped \in BOOLEAN
  /\ (Phase # "applying" => todo = {}) /\ (Phase # "running" => running = {})
  /\ Reading => inHand \in attached /\ (back = "applying" => inHand \in todo)
  /\ ~Reading => inHand = Nobody
  /\ signature = [e \in Easies |-> signature[e]]

\* What safe! installed.
LEMMA ConfigFacts ==
  ASSUME Typed, config # NoConfig
  PROVE  /\ config.protocols \in SomeProtocols /\ config.redirs \in SUBSET AllProtocols
         /\ config.limit \in Nat /\ config.policy \in {"nil", "none", "public"}
         /\ config.hosts \in SUBSET Hosts /\ config.permit \in BOOLEAN
<1>1. config \in ConfigType BY SafetyAssumption DEF Typed, Applicable
<1> QED BY <1>1 DEF ConfigType, SomeProtocols, Hosts

\* The options of a new easy are options.
LEMMA FreshFacts == Fresh \in Options /\ Bare \in NativeOptions
<1>1. AllProtocols \in SomeProtocols BY SafetyAssumption DEF SomeProtocols
<1> QED BY <1>1 DEF Fresh, Bare, Options, NativeOptions

-----------------------------------------------------------------------------
(***************************************************************************)
(* apply_safety!: what it makes of the options of an easy.                 *)
(***************************************************************************)

\* The smaller limit counts, and zero is none.
LEMMA LimitedFacts ==
  ASSUME NEW old \in Nat, NEW new \in Nat
  PROVE  Limited(old, new) \in Nat /\ (new > 0 => Limited(old, new) \in 1 .. new)
BY DEF Limited

\* An override leaves nothing but HTTP, and nothing that was not there.
LEMMA IntersectFacts ==
  ASSUME NEW base, NEW ov \in BOOLEAN
  PROVE  Intersect(base, ov) \subseteq base /\ (ov => Intersect(base, ov) \subseteq HttpOnly)
BY DEF Intersect

\* The protocols of the configuration, narrowed by the override.
LEMMA ProtocolsFacts ==
  ASSUME Typed, NEW a \in Options, NEW ov \in BOOLEAN, ~NoProtocol(ov)
  PROVE  /\ Protocols(a, ov) \in Options
         /\ Protocols(a, ov).limit = a.limit /\ Protocols(a, ov).policy = a.policy
         /\ Protocols(a, ov).hosts = a.hosts /\ Protocols(a, ov).routed = a.routed
         /\ Protocols(a, ov).proxied = a.proxied
         /\ ~Idle(ov) => /\ Protocols(a, ov).protocols = Intersect(ConfigProtocols, ov)
                         /\ Protocols(a, ov).redirs = Intersect(ConfigRedirs, ov)
<1> DEFINE p == Intersect(ConfigProtocols, ov)
           r == Intersect(ConfigRedirs, ov)
<1>1. CASE Idle(ov) BY <1>1 DEF Protocols
<1>2. CASE ~Idle(ov)
  <2>1. ConfigProtocols \subseteq AllProtocols /\ ConfigRedirs \subseteq AllProtocols
    BY ConfigFacts DEF ConfigProtocols, ConfigRedirs, SomeProtocols
  <2>2. p # {} /\ r # {} BY <1>2 DEF NoProtocol
  <2>3. p \in SomeProtocols /\ r \in SomeProtocols
    BY <2>1, <2>2 DEF SomeProtocols, Intersect
  <2>4. Protocols(a, ov) = [a EXCEPT !.protocols = p, !.redirs = r] BY <1>2 DEF Protocols
  <2> HIDE DEF p, r
  <2>5. /\ [a EXCEPT !.protocols = p, !.redirs = r] \in Options
        /\ [a EXCEPT !.protocols = p, !.redirs = r].protocols = p
        /\ [a EXCEPT !.protocols = p, !.redirs = r].redirs = r
    BY <2>3 DEF Options
  <2> QED BY <2>4, <2>5 DEF Options, p, r
<1> QED BY <1>1, <1>2

\* The options are those of the configuration, where it says something.
LEMMA SettingsFacts ==
  ASSUME Typed, NEW a \in Options, NEW ov \in BOOLEAN, ~NoProtocol(ov), config # NoConfig
  PROVE  /\ Settings(a, ov) \in Options
         /\ Settings(a, ov).protocols = Protocols(a, ov).protocols
         /\ Settings(a, ov).redirs = Protocols(a, ov).redirs
         /\ Settings(a, ov).routed = a.routed
         /\ config.hosts # {} => Settings(a, ov).hosts = config.hosts
         /\ config.policy # "nil" => Settings(a, ov).policy = config.policy
         /\ Public /\ ~config.permit => ~Settings(a, ov).proxied
         /\ Settings(a, ov).limit = Limited(a.limit, config.limit)
<1> DEFINE b == Protocols(a, ov)
           h == IF config.hosts # {} THEN config.hosts ELSE b.hosts
           y == IF config.policy # "nil" THEN config.policy ELSE b.policy
           x == b.proxied /\ ~(Public /\ ~config.permit)
           l == Limited(b.limit, config.limit)
<1>1. b \in Options /\ b.limit = a.limit /\ b.routed = a.routed BY ProtocolsFacts
<1>2. Settings(a, ov) = [b EXCEPT !.hosts = h, !.policy = y, !.proxied = x, !.limit = l]
  BY DEF Settings
<1>3. h \in SUBSET Hosts /\ y \in {"none", "public"} /\ x \in BOOLEAN
  BY <1>1, ConfigFacts DEF Options
<1>4. l \in Nat BY <1>1, ConfigFacts, LimitedFacts DEF Options
<1>5. /\ config.hosts # {} => h = config.hosts
      /\ config.policy # "nil" => y = config.policy
      /\ Public /\ ~config.permit => ~x
      /\ l = Limited(a.limit, config.limit)
  BY <1>1
<1> HIDE DEF b, h, y, x, l
<1>6. Settings(a, ov) = [[[[b EXCEPT !.hosts = h] EXCEPT !.policy = y] EXCEPT !.proxied = x]
                           EXCEPT !.limit = l]
  BY <1>2
<1>7. ASSUME NEW o \in Options, NEW v, v \in SUBSET Hosts
      PROVE  /\ [o EXCEPT !.hosts = v] \in Options /\ [o EXCEPT !.hosts = v].hosts = v
             /\ \A f \in {"protocols", "redirs", "routed"} : [o EXCEPT !.hosts = v][f] = o[f]
  BY <1>7 DEF Options
<1>8. ASSUME NEW o \in Options, NEW v, v \in {"none", "public"}
      PROVE  /\ [o EXCEPT !.policy = v] \in Options /\ [o EXCEPT !.policy = v].policy = v
             /\ \A f \in {"protocols", "redirs", "routed", "hosts"} :
                  [o EXCEPT !.policy = v][f] = o[f]
  BY <1>8 DEF Options
<1>9. ASSUME NEW o \in Options, NEW v, v \in BOOLEAN
      PROVE  /\ [o EXCEPT !.proxied = v] \in Options /\ [o EXCEPT !.proxied = v].proxied = v
             /\ \A f \in {"protocols", "redirs", "routed", "hosts", "policy"} :
                  [o EXCEPT !.proxied = v][f] = o[f]
  BY <1>9 DEF Options
<1>10. ASSUME NEW o \in Options, NEW v, v \in Nat
       PROVE  /\ [o EXCEPT !.limit = v] \in Options /\ [o EXCEPT !.limit = v].limit = v
              /\ \A f \in {"protocols", "redirs", "routed", "hosts", "policy", "proxied"} :
                   [o EXCEPT !.limit = v][f] = o[f]
  BY <1>10 DEF Options
<1> DEFINE b1 == [b EXCEPT !.hosts = h]
           b2 == [b1 EXCEPT !.policy = y]
           b3 == [b2 EXCEPT !.proxied = x]
           b4 == [b3 EXCEPT !.limit = l]
<1>11. b1 \in Options /\ b1.hosts = h /\ b1.protocols = b.protocols /\ b1.redirs = b.redirs
       /\ b1.routed = b.routed
  BY <1>1, <1>3, <1>7
<1>12. b2 \in Options /\ b2.hosts = h /\ b2.protocols = b.protocols /\ b2.redirs = b.redirs
       /\ b2.routed = b.routed /\ b2.policy = y
  <2> HIDE DEF b1
  <2> QED BY <1>3, <1>8, <1>11
<1>13. b3 \in Options /\ b3.hosts = h /\ b3.protocols = b.protocols /\ b3.redirs = b.redirs
       /\ b3.routed = b.routed /\ b3.policy = y /\ b3.proxied = x
  <2> HIDE DEF b2
  <2> QED BY <1>3, <1>9, <1>12
<1>14. b4 \in Options /\ b4.hosts = h /\ b4.protocols = b.protocols /\ b4.redirs = b.redirs
       /\ b4.routed = b.routed /\ b4.policy = y /\ b4.proxied = x /\ b4.limit = l
  <2> HIDE DEF b3
  <2> QED BY <1>4, <1>10, <1>13
<1>15. Settings(a, ov) = b4 BY <1>6
<1> HIDE DEF b1, b2, b3, b4
<1> QED BY <1>1, <1>5, <1>14, <1>15 DEF b

\* Whatever apply_safety! leaves, where it raises too, are options.
LEMMA AppliedTyped ==
  ASSUME Typed, NEW e \in Easies, NEW a \in Options, NEW ov \in BOOLEAN
  PROVE  (IF Refused(e, a, ov) THEN AfterRefusal(e, a, ov) ELSE Settings(a, ov)) \in Options
<1>1. CASE NoProtocol(ov) BY <1>1 DEF Refused, AfterRefusal
<1>2. CASE ~NoProtocol(ov)
  <2>1. Protocols(a, ov) \in Options BY <1>2, ProtocolsFacts
  <2>2. Settings(a, ov) \in Options BY <1>2, <2>1, SettingsFacts DEF Settings
  <2> DEFINE s == Settings(a, ov)
  <2>3. [s EXCEPT !.proxied = a.proxied, !.limit = a.limit] \in Options
    <3> HIDE DEF s
    <3>1. s \in Options BY <2>2 DEF s
    <3> QED BY <3>1 DEF Options
  <2> QED BY <1>2, <2>1, <2>2, <2>3 DEF AfterRefusal
<1> QED BY <1>1, <1>2

(***************************************************************************)
(* Obeys: the options a of the easy e are within the configuration c and   *)
(* the override ov.                                                        *)
(***************************************************************************)
Obeys(e, a, ov, c) ==
  /\ ov => (a.protocols \cup a.redirs) \subseteq HttpOnly
  /\ c # NoConfig =>
       /\ a.protocols \subseteq c.protocols
       /\ a.redirs \subseteq (IF c.redirs = {} THEN c.protocols ELSE c.redirs)
       /\ c.limit > 0 => a.limit \in 1 .. c.limit
       /\ c.hosts # {} => HostOf[e] \in c.hosts /\ a.hosts = c.hosts
       /\ c.policy = "public" =>
            a.policy = "public" /\ (~c.permit => ~a.proxied /\ ~a.routed)

\* Where apply_safety! does not raise, the options obey.
LEMMA AppliedObeys ==
  ASSUME Typed, NEW e \in Easies, NEW a \in Options, NEW ov \in BOOLEAN, ~Refused(e, a, ov)
  PROVE  Obeys(e, Settings(a, ov), ov, config)
<1>1. ~NoProtocol(ov) /\ ~HostRefused(e) /\ ~RouteRefused(a) BY DEF Refused
<1> DEFINE s == Settings(a, ov)
<1>2. CASE config = NoConfig
  <2>1. s = Protocols(a, ov) BY <1>2 DEF Settings
  <2>2. ov => s.protocols \subseteq HttpOnly /\ s.redirs \subseteq HttpOnly
    <3> SUFFICES ASSUME ov PROVE s.protocols \subseteq HttpOnly /\ s.redirs \subseteq HttpOnly
      OBVIOUS
    <3>1. ~Idle(ov) BY DEF Idle
    <3> HIDE DEF s
    <3>2. /\ s.protocols = Intersect(ConfigProtocols, ov)
          /\ s.redirs = Intersect(ConfigRedirs, ov)
      BY <1>1, <2>1, <3>1, ProtocolsFacts
    <3> QED BY <3>2, IntersectFacts
  <2> QED BY <1>2, <2>2 DEF Obeys
<1>3. CASE config # NoConfig
  <2>1. ~Idle(ov) BY <1>3 DEF Idle
  <2>2. /\ s.protocols = Intersect(ConfigProtocols, ov)
        /\ s.redirs = Intersect(ConfigRedirs, ov)
    BY <1>1, <1>3, <2>1, ProtocolsFacts, SettingsFacts
  <2>3. /\ ov => s.protocols \subseteq HttpOnly /\ s.redirs \subseteq HttpOnly
        /\ s.protocols \subseteq config.protocols
        /\ s.redirs \subseteq (IF config.redirs = {} THEN config.protocols ELSE config.redirs)
    <3>1. ConfigProtocols = config.protocols BY <1>3 DEF ConfigProtocols
    <3>2. ConfigRedirs = IF config.redirs = {} THEN config.protocols ELSE config.redirs
      BY <1>3 DEF ConfigProtocols, ConfigRedirs
    <3> HIDE DEF s
    <3> QED BY <2>2, <3>1, <3>2, IntersectFacts
  <2>4. config.limit > 0 => s.limit \in 1 .. config.limit
    <3>1. s.limit = Limited(a.limit, config.limit) BY <1>1, <1>3, SettingsFacts
    <3>2. a.limit \in Nat /\ config.limit \in Nat BY <1>3, ConfigFacts DEF Options
    <3> HIDE DEF s
    <3> QED BY <3>1, <3>2, LimitedFacts
  <2>5. config.hosts # {} => HostOf[e] \in config.hosts /\ s.hosts = config.hosts
    BY <1>1, <1>3, SettingsFacts DEF HostRefused
  <2>6. config.policy = "public" =>
          s.policy = "public" /\ (~config.permit => ~s.proxied /\ ~s.routed)
    BY <1>1, <1>3, SettingsFacts DEF RouteRefused, Public
  <2> HIDE DEF s
  <2>7. Obeys(e, s, ov, config) BY <2>3, <2>4, <2>5, <2>6 DEF Obeys
  <2> QED BY <2>7 DEF s
<1> QED BY <1>2, <1>3

-----------------------------------------------------------------------------
(***************************************************************************)
(* Type correctness.                                                       *)
(***************************************************************************)

\* Outside add and perform nothing is in hand.
LEMMA RestFacts ==
  ASSUME Typed
  PROVE  /\ (AtRest \/ pc = "applying") => ~Reading /\ Phase = pc /\ inHand = Nobody
         /\ Reading => inHand \in Easies /\ inHand # Nobody /\ Phase = back
         /\ AtRest => todo = {}
BY SafetyAssumption DEF Typed, Reading, Phase, AtRest

\* A call of apply_safety! concerns one easy.
LEMMA ApplyFacts ==
  ASSUME Typed, NEW e \in Easies, NEW ov \in BOOLEAN, ApplySafety(e, ov)
  PROVE  /\ attrs' \in [Easies -> Options] /\ under' \in [Easies -> Applicable]
         /\ own' \in [Easies -> SUBSET {"limit", "protocols"}]
         /\ ~Refused(e, attrs[e], ov) => attrs'[e] = Settings(attrs[e], ov) /\ own'[e] = {}
         /\ Refused(e, attrs[e], ov) => own'[e] = {"limit", "protocols"}
         /\ under'[e] = config
         /\ \A x \in Easies \ {e} :
              attrs'[x] = attrs[x] /\ under'[x] = under[x] /\ own'[x] = own[x]
<1> DEFINE new == IF Refused(e, attrs[e], ov) THEN AfterRefusal(e, attrs[e], ov)
                  ELSE Settings(attrs[e], ov)
           mine == IF Refused(e, attrs[e], ov) THEN {"limit", "protocols"} ELSE {}
<1>1. attrs[e] \in Options BY DEF Typed
<1>2. new \in Options BY <1>1, AppliedTyped
<1>3. attrs' = [attrs EXCEPT ![e] = new] BY DEF ApplySafety
<1>4. ~Refused(e, attrs[e], ov) => new = Settings(attrs[e], ov) OBVIOUS
<1>5. own' = [own EXCEPT ![e] = mine] BY DEF ApplySafety
<1>6. /\ mine \in SUBSET {"limit", "protocols"}
      /\ Refused(e, attrs[e], ov) => mine = {"limit", "protocols"}
      /\ ~Refused(e, attrs[e], ov) => mine = {}
  OBVIOUS
<1> HIDE DEF new, mine
<1>7. /\ attrs' \in [Easies -> Options] /\ attrs'[e] = new
      /\ \A x \in Easies \ {e} : attrs'[x] = attrs[x]
  BY <1>2, <1>3 DEF Typed
<1>8. /\ under' \in [Easies -> Applicable] /\ under'[e] = config
      /\ \A x \in Easies \ {e} : under'[x] = under[x]
  BY DEF Typed, ApplySafety
<1>9. /\ own' \in [Easies -> SUBSET {"limit", "protocols"}] /\ own'[e] = mine
      /\ \A x \in Easies \ {e} : own'[x] = own[x]
  BY <1>5, <1>6 DEF Typed
<1> QED BY <1>4, <1>6, <1>7, <1>8, <1>9

\* The same of add and perform, which keep what they have applied.
LEMMA TakenFacts ==
  ASSUME Typed, NEW e \in Easies, Apply(e)
  PROVE  /\ ApplySafety(e, override[e]) /\ override[e] \in BOOLEAN
         /\ cleared' \in [Easies -> Applicable \cup {Unseen}] /\ cleared'[e] = config
         /\ \A x \in Easies \ {e} : cleared'[x] = cleared[x]
BY DEF Typed, Apply

\* setup gives libcurl options of the easy.
LEMMA SetupFacts ==
  ASSUME NEW a \in Options
  PROVE  /\ Setup(a) \in NativeOptions /\ Setup(a).policy = a.policy
         /\ Setup(a).hosts = a.hosts /\ Setup(a).proxied = a.proxied
         /\ Setup(a).routed = a.routed
BY DEF Setup, Options, NativeOptions

\* Setup of one easy.
LEMMA InstallFacts ==
  ASSUME Typed, NEW e \in Easies, NEW a \in Options, native' = [native EXCEPT ![e] = Setup(a)]
  PROVE  /\ native' \in [Easies -> NativeOptions] /\ native'[e] = Setup(a)
         /\ \A x \in Easies \ {e} : native'[x] = native[x]
BY SetupFacts DEF Typed

\* A signature, or none, for one easy.
LEMMA SignFacts ==
  ASSUME Typed, NEW e \in Easies, NEW s, signature' = [signature EXCEPT ![e] = s]
  PROVE  /\ signature' = [x \in Easies |-> signature'[x]] /\ signature'[e] = s
         /\ \A x \in Easies \ {e} : signature'[x] = signature[x]
<1>1. signature = [x \in Easies |-> signature[x]] BY DEF Typed
<1> QED BY <1>1

\* The program sets options that exist; where it sets one that takes effect at
\* once, it is its own.
LEMMA UserSetsFacts ==
  ASSUME Typed, NEW e \in Easies, UserSets(e)
  PROVE  /\ attrs' \in [Easies -> Options] /\ \A x \in Easies \ {e} : attrs'[x] = attrs[x]
         /\ own' \in [Easies -> SUBSET {"limit", "protocols"}]
         /\ \A x \in Easies : own[x] \subseteq own'[x]
         /\ "limit" \notin own'[e] => attrs'[e].limit = attrs[e].limit
         /\ "protocols" \notin own'[e] =>
              attrs'[e].protocols = attrs[e].protocols /\ attrs'[e].redirs = attrs[e].redirs
<1>1. AllProtocols \in SomeProtocols BY SafetyAssumption DEF SomeProtocols
<1>2. attrs[e] \in Options BY DEF Typed
<1> DEFINE Rest(new) ==
      /\ "limit" \notin own'[e] => new.limit = attrs[e].limit
      /\ "protocols" \notin own'[e] =>
           new.protocols = attrs[e].protocols /\ new.redirs = attrs[e].redirs
<1>3. ASSUME NEW new \in Options, attrs' = [attrs EXCEPT ![e] = new]
      PROVE  /\ attrs' \in [Easies -> Options] /\ attrs'[e] = new
             /\ \A x \in Easies \ {e} : attrs'[x] = attrs[x]
  BY <1>3 DEF Typed
<1>4. ASSUME NEW o \in {"limit", "protocols"}, own' = [own EXCEPT ![e] = @ \cup {o}]
      PROVE  /\ own' \in [Easies -> SUBSET {"limit", "protocols"}] /\ o \in own'[e]
             /\ \A x \in Easies : own[x] \subseteq own'[x]
  <2>1. own[e] \cup {o} \in SUBSET {"limit", "protocols"} BY DEF Typed
  <2> QED BY <1>4, <2>1 DEF Typed
<1>5. CASE \E l \in {0, 3} : attrs' = [attrs EXCEPT ![e].limit = l]
           /\ own' = [own EXCEPT ![e] = @ \cup {"limit"}]
  <2>1. PICK l \in {0, 3} : attrs' = [attrs EXCEPT ![e].limit = l] BY <1>5
  <2>2. "limit" \in own'[e] BY <1>4, <1>5
  <2> DEFINE new == [attrs[e] EXCEPT !.limit = l]
  <2>3. new \in Options /\ new.protocols = attrs[e].protocols /\ new.redirs = attrs[e].redirs
    BY <1>2 DEF Options
  <2>4. attrs' = [attrs EXCEPT ![e] = new] BY <2>1
  <2> HIDE DEF new
  <2>5. Rest(attrs'[e]) BY <1>3, <2>2, <2>3, <2>4
  <2> QED BY <1>3, <1>4, <1>5, <2>3, <2>4, <2>5
<1>6. CASE /\ attrs' = [attrs EXCEPT ![e].protocols = AllProtocols, ![e].redirs = AllProtocols]
           /\ own' = [own EXCEPT ![e] = @ \cup {"protocols"}]
  <2>1. "protocols" \in own'[e] BY <1>4, <1>6
  <2> DEFINE new == [attrs[e] EXCEPT !.protocols = AllProtocols, !.redirs = AllProtocols]
  <2>2. new \in Options /\ new.limit = attrs[e].limit BY <1>1, <1>2 DEF Options
  <2>3. attrs' = [attrs EXCEPT ![e] = new] BY <1>6 DEF Typed
  <2> HIDE DEF new
  <2>4. Rest(attrs'[e]) BY <1>3, <2>1, <2>2, <2>3
  <2> QED BY <1>3, <1>4, <1>6, <2>2, <2>3, <2>4
<1>7. ASSUME UNCHANGED own, NEW new \in Options, attrs' = [attrs EXCEPT ![e] = new],
             new.limit = attrs[e].limit, new.protocols = attrs[e].protocols,
             new.redirs = attrs[e].redirs
      PROVE  /\ attrs' \in [Easies -> Options] /\ \A x \in Easies \ {e} : attrs'[x] = attrs[x]
             /\ own' \in [Easies -> SUBSET {"limit", "protocols"}]
             /\ \A x \in Easies : own[x] \subseteq own'[x]
             /\ Rest(attrs'[e])
  BY <1>3, <1>7 DEF Typed
<1>8. CASE /\ \E y \in {"none", "public"} : attrs' = [attrs EXCEPT ![e].policy = y, ![e].hosts = {}]
           /\ UNCHANGED own
  <2>1. PICK y \in {"none", "public"} : attrs' = [attrs EXCEPT ![e].policy = y, ![e].hosts = {}]
    BY <1>8
  <2> DEFINE new == [attrs[e] EXCEPT !.policy = y, !.hosts = {}]
  <2>2. /\ new \in Options /\ new.limit = attrs[e].limit
        /\ new.protocols = attrs[e].protocols /\ new.redirs = attrs[e].redirs
    BY <1>2 DEF Options
  <2>3. attrs' = [attrs EXCEPT ![e] = new] BY <2>1 DEF Typed
  <2> HIDE DEF new
  <2> QED BY <1>7, <1>8, <2>2, <2>3
<1>9. CASE (\E r \in BOOLEAN : attrs' = [attrs EXCEPT ![e].routed = r]) /\ UNCHANGED own
  <2>1. PICK r \in BOOLEAN : attrs' = [attrs EXCEPT ![e].routed = r] BY <1>9
  <2> DEFINE new == [attrs[e] EXCEPT !.routed = r]
  <2>2. /\ new \in Options /\ new.limit = attrs[e].limit
        /\ new.protocols = attrs[e].protocols /\ new.redirs = attrs[e].redirs
    BY <1>2 DEF Options
  <2>3. attrs' = [attrs EXCEPT ![e] = new] BY <2>1
  <2> HIDE DEF new
  <2> QED BY <1>7, <1>9, <2>2, <2>3
<1>10. CASE attrs' = [attrs EXCEPT ![e].proxied = TRUE] /\ UNCHANGED own
  <2> DEFINE new == [attrs[e] EXCEPT !.proxied = TRUE]
  <2>1. /\ new \in Options /\ new.limit = attrs[e].limit
        /\ new.protocols = attrs[e].protocols /\ new.redirs = attrs[e].redirs
    BY <1>2 DEF Options
  <2>2. attrs' = [attrs EXCEPT ![e] = new] BY <1>10
  <2> HIDE DEF new
  <2> QED BY <1>7, <1>10, <2>1, <2>2
<1> QED BY <1>5, <1>6, <1>8, <1>9, <1>10 DEF UserSets

\* What the thread does with the easy it has in hand, and after it.
LEMMA Released ==
  ASSUME Typed, LetsGo, pc' \in {"idle", "applying", "running"}
  PROVE  ~Reading' /\ Phase' = pc' /\ inHand' = Nobody /\ back' \in {"idle", "applying", "running"}
         /\ active' \in BOOLEAN /\ overlapped' \in BOOLEAN
BY DEF LetsGo, Reading, Phase

LEMMA InHand ==
  ASSUME Typed, NEW e \in Easies, Takes(e), AtRest \/ pc = "applying", pc' = "signing"
  PROVE  Reading' /\ Phase' = pc /\ inHand' = e /\ back' = pc
         /\ active' \in BOOLEAN /\ overlapped' \in BOOLEAN
<1>1. Changing \in BOOLEAN BY DEF Changing
<1> QED BY <1>1 DEF Takes, Reading, Phase, AtRest, Typed

\* Every step of safe! keeps the types.
LEMMA ChangingTyped ==
  ASSUME Typed, UNCHANGED program, NEW t \in Changers[program], NEW c \in Applicable,
         StoreConfig(t, c) \/ ReadGeneration(t) \/ BumpGeneration(t)
  PROVE  Typed'
<1>1. /\ UNCHANGED <<easyVars, multiVars>> /\ config' \in Applicable /\ overlapped' \in BOOLEAN
      /\ changing' \in [Changers[program] -> {"no", "stored", "read"}]
      /\ was' \in [Changers[program] -> Nat] /\ generation' \in 0 .. MaxGeneration
      /\ \A x \in Changers[program] : changing'[x] = "read" => was'[x] < MaxGeneration
  <2>1. CASE StoreConfig(t, c) BY <2>1 DEF Typed, StoreConfig
  <2>2. CASE ReadGeneration(t) BY <2>2, SafetyAssumption DEF Typed, ReadGeneration
  <2>3. CASE BumpGeneration(t) BY <2>3, SafetyAssumption DEF Typed, BumpGeneration
  <2> QED BY <2>1, <2>2, <2>3
<1> QED BY <1>1 DEF Typed, easyVars, multiVars, Reading, Phase, Applicable

\* Every step keeps the types.
LEMMA TypedStep ==
  ASSUME Typed, [Next]_vars
  PROVE  Typed'
<1>1. \A e \in Used[program] : e \in Easies BY SafetyAssumption DEF Typed
<1>2. ASSUME UNCHANGED program, NEW t \in Changers[program],
             \/ \E c \in Configs[program] \cup {NoConfig} : StoreConfig(t, c)
             \/ ReadGeneration(t) \/ BumpGeneration(t)
      PROVE  Typed'
  <2>1. NoConfig \in Applicable BY DEF Applicable
  <2> QED BY <1>2, <2>1, ChangingTyped DEF Applicable
<1>3. ASSUME UNCHANGED <<program, confVars, attached, running, signature>>,
             /\ attrs' \in [Easies -> Options] /\ native' \in [Easies -> NativeOptions]
             /\ under' \in [Easies -> Applicable]
             /\ cleared' \in [Easies -> Applicable \cup {Unseen}]
             /\ own' \in [Easies -> SUBSET {"limit", "protocols"}]
             /\ override' \in [Easies -> BOOLEAN] /\ overrideGen' \in [Easies -> Nat],
             ~Reading, UNCHANGED <<pc, todo, inHand, active, back, overlapped>>
      PROVE  Typed'
  BY <1>3 DEF Typed, confVars, Reading, Phase, Applicable
<1>4. ASSUME NEW e \in Easies, SafeHttp(e), UNCHANGED program PROVE Typed'
  <2>1. ApplySafety(e, TRUE) /\ UNCHANGED <<confVars, native, cleared, multiVars, overlapped>>
    BY <1>4 DEF SafeHttp
  <2>2. /\ attrs' \in [Easies -> Options] /\ under' \in [Easies -> Applicable]
        /\ own' \in [Easies -> SUBSET {"limit", "protocols"}]
    BY <2>1, ApplyFacts
  <2>3. override' \in [Easies -> BOOLEAN] /\ overrideGen' \in [Easies -> Nat]
    BY <1>4 DEF Typed, SafeHttp
  <2>4. ~Reading BY <1>4, RestFacts DEF SafeHttp
  <2> QED BY <1>3, <1>4, <2>1, <2>2, <2>3, <2>4 DEF Typed, multiVars
<1>5. ASSUME NEW e \in Easies, UserSets(e), UNCHANGED program PROVE Typed'
  <2>1. attrs' \in [Easies -> Options] /\ own' \in [Easies -> SUBSET {"limit", "protocols"}]
    BY <1>5, UserSetsFacts
  <2>2. /\ UNCHANGED <<confVars, override, overrideGen, native, under, cleared, multiVars>>
        /\ UNCHANGED overlapped
    BY <1>5 DEF UserSets
  <2>3. ~Reading BY <1>5, RestFacts DEF UserSets
  <2> QED BY <1>3, <1>5, <2>1, <2>2, <2>3 DEF Typed, multiVars
<1>6. ASSUME NEW e \in Easies, Reset(e), UNCHANGED program PROVE Typed'
  <2>1. /\ attrs' \in [Easies -> Options] /\ native' \in [Easies -> NativeOptions]
        /\ override' \in [Easies -> BOOLEAN] /\ overrideGen' \in [Easies -> Nat]
    BY <1>6, FreshFacts DEF Typed, Reset
  <2>2. UNCHANGED <<confVars, under, own, cleared, multiVars, overlapped>> BY <1>6 DEF Reset
  <2>3. ~Reading BY <1>6, RestFacts DEF Reset
  <2> QED BY <1>3, <1>6, <2>1, <2>2, <2>3 DEF Typed, multiVars
<1>7. ASSUME NEW e \in Easies, Apply(e)
      PROVE  /\ attrs' \in [Easies -> Options] /\ under' \in [Easies -> Applicable]
             /\ cleared' \in [Easies -> Applicable \cup {Unseen}]
             /\ own' \in [Easies -> SUBSET {"limit", "protocols"}]
  BY <1>7, TakenFacts, ApplyFacts
<1>8. ASSUME NEW e \in Easies, Add(e), UNCHANGED program PROVE Typed'
  <2>1. /\ AtRest /\ e \notin attached /\ Apply(e)
        /\ UNCHANGED <<confVars, override, overrideGen, signature, todo, doubtful, spoiled>>
    BY <1>8 DEF Add
  <2>2. /\ attrs' \in [Easies -> Options] /\ under' \in [Easies -> Applicable]
        /\ cleared' \in [Easies -> Applicable \cup {Unseen}]
        /\ own' \in [Easies -> SUBSET {"limit", "protocols"}]
    BY <1>7, <2>1
  <2>3. PICK a \in Options : a = attrs'[e] BY <2>2
  <2>4. native' \in [Easies -> NativeOptions]
    <3>1. native' = native \/ native' = [native EXCEPT ![e] = Setup(a)] BY <1>8, <2>3 DEF Add
    <3> QED BY <3>1, InstallFacts DEF Typed
  <2>5. ~Reading /\ Phase = pc /\ todo = {} BY <2>1, RestFacts
  <2>6. CASE UNCHANGED <<attached, running, pc, inHand, active, back, overlapped>>
    BY <1>3, <1>8, <2>1, <2>2, <2>4, <2>5, <2>6 DEF Typed
  <2>7. CASE /\ attached' = attached \cup {e}
             /\ running' = IF pc = "running" THEN running \cup {e} ELSE running
             /\ pc' = "signing" /\ Takes(e)
    <3>1. /\ Reading' /\ Phase' = pc /\ inHand' = e /\ back' = pc
          /\ active' \in BOOLEAN /\ overlapped' \in BOOLEAN
      BY <2>1, <2>7, InHand
    <3>2. /\ attached' \subseteq Easies /\ running' \subseteq attached' /\ todo' \subseteq attached'
          /\ (Phase' # "running" => running' = {}) /\ todo' = {}
          /\ back' \in {"idle", "running"} /\ inHand' \in attached'
      BY <2>1, <2>5, <2>7, <3>1 DEF Typed, AtRest
    <3> QED BY <1>8, <2>1, <2>2, <2>4, <2>7, <3>1, <3>2 DEF Typed, confVars, Applicable
  <2> QED BY <1>8, <2>6, <2>7 DEF Add
<1>9. ASSUME NEW e \in Easies, Detach(e), AtRest, UNCHANGED program,
             UNCHANGED <<confVars, attrs, override, overrideGen, native, todo, pc>>,
             UNCHANGED <<inHand, active, back, overlapped>>
      PROVE  Typed'
  <2>1. ~Reading /\ Phase = pc /\ todo = {} BY <1>9, RestFacts
  <2>2. /\ attached' = attached \ {e} /\ running' = running \ {e}
        /\ signature' = [signature EXCEPT ![e] = NoSignature]
        /\ under' \in [Easies -> Applicable] /\ cleared' \in [Easies -> Applicable \cup {Unseen}]
        /\ own' \in [Easies -> SUBSET {"limit", "protocols"}]
    BY <1>9 DEF Typed, Detach, Applicable
  <2>3. signature' = [x \in Easies |-> signature'[x]] BY <2>2, SignFacts
  <2> QED BY <1>9, <2>1, <2>2, <2>3 DEF Typed, confVars, Reading, Phase, Applicable
<1>10. ASSUME NEW e \in Easies, RemoveEasy(e) \/ EndOne(e), UNCHANGED program PROVE Typed'
  BY <1>9, <1>10 DEF RemoveEasy, EndOne, AtRest
<1>11. ASSUME NEW e \in Easies, PerformOne(e), UNCHANGED program PROVE Typed'
  <2>1. /\ pc = "applying" /\ e \in todo /\ Apply(e)
        /\ UNCHANGED <<confVars, override, overrideGen, native, attached, signature, running>>
    BY <1>11 DEF PerformOne
  <2>2. /\ attrs' \in [Easies -> Options] /\ under' \in [Easies -> Applicable]
        /\ cleared' \in [Easies -> Applicable \cup {Unseen}]
        /\ own' \in [Easies -> SUBSET {"limit", "protocols"}]
    BY <1>7, <2>1
  <2>3. ~Reading /\ Phase = pc /\ running = {} BY <2>1, RestFacts DEF Typed
  <2>4. CASE pc' = "idle" /\ todo' = {} /\ UNCHANGED <<inHand, active, back, overlapped>>
    <3>1. ~Reading' /\ Phase' = "idle" BY <2>4 DEF Reading, Phase
    <3> QED BY <1>11, <2>1, <2>2, <2>3, <2>4, <3>1 DEF Typed, confVars, Applicable
  <2>5. CASE pc' = "signing" /\ UNCHANGED todo /\ Takes(e)
    <3>1. /\ Reading' /\ Phase' = pc /\ inHand' = e /\ back' = pc
          /\ active' \in BOOLEAN /\ overlapped' \in BOOLEAN
      BY <2>1, <2>5, InHand
    <3> QED BY <1>11, <2>1, <2>2, <2>3, <2>5, <3>1 DEF Typed, confVars, Applicable
  <2> QED BY <1>11, <2>4, <2>5 DEF PerformOne
<1>12. ASSUME Perform, UNCHANGED program PROVE Typed'
  <2>1. ~Reading /\ ~Reading' /\ Phase' = "applying" /\ running = {}
    BY <1>12 DEF Perform, Reading, Phase, Typed
  <2>2. /\ under' \in [Easies -> Applicable] /\ cleared' \in [Easies -> Applicable \cup {Unseen}]
        /\ own' \in [Easies -> SUBSET {"limit", "protocols"}]
    BY <1>12 DEF Perform, Applicable
  <2> QED BY <1>12, <2>1, <2>2 DEF Typed, Perform, ToApply, confVars, Applicable
<1>13. ASSUME AskActive, UNCHANGED program PROVE Typed'
  <2>1. active' \in BOOLEAN
    <3>1. inHand \in Easies BY <1>13, RestFacts DEF AskActive, Reading
    <3>2. Active(inHand) \in BOOLEAN BY <3>1 DEF Active, Typed
    <3> QED BY <1>13, <3>2 DEF AskActive
  <2>2. Reading /\ Reading' /\ Phase' = Phase BY <1>13 DEF AskActive, Reading, Phase
  <2> QED BY <1>13, <2>1, <2>2 DEF Typed, AskActive, confVars, easyVars, Applicable
<1>14. ASSUME RecordAdded, UNCHANGED program PROVE Typed'
  <2>1. /\ Reading /\ pc' = back /\ LetsGo /\ back # "applying"
        /\ UNCHANGED <<confVars, easyVars, attached, todo, running>>
    BY <1>14 DEF RecordAdded, Reading
  <2>2. ~Reading' /\ Phase' = Phase
    BY <2>1, Released, RestFacts DEF Typed
  <2>3. signature' = [x \in Easies |-> signature'[x]]
    <3>1. PICK s : s = Signature(inHand, attrs[inHand], active) OBVIOUS
    <3>2. signature' = [signature EXCEPT ![inHand] = s] BY <1>14, <3>1 DEF RecordAdded, Record
    <3> QED BY <2>1, <3>2, SignFacts, RestFacts
  <2> QED BY <1>14, <2>1, <2>2, <2>3, Released DEF Typed, confVars, easyVars, Applicable
<1>15. ASSUME SkipSetup, UNCHANGED program PROVE Typed'
  <2>1. /\ Reading /\ pc' = back /\ LetsGo /\ back = "applying" /\ todo' = todo \ {inHand}
        /\ UNCHANGED <<confVars, easyVars, attached, signature, running>>
    BY <1>15 DEF SkipSetup, Reading
  <2>2. ~Reading' /\ Phase' = Phase BY <2>1, Released, RestFacts DEF Typed
  <2> QED BY <1>15, <2>1, <2>2, Released DEF Typed, confVars, easyVars, Applicable
<1>16. ASSUME NEW o \in Outcomes, SetupAgain(o), UNCHANGED program PROVE Typed'
  <2>1. /\ Reading /\ LetsGo /\ back = "applying" /\ inHand \in Easies
        /\ UNCHANGED <<confVars, attrs, override, overrideGen, under, own, cleared>>
        /\ UNCHANGED <<attached, running>>
    BY <1>16, RestFacts DEF SetupAgain, Reading
  <2>2. running = {} BY <2>1, RestFacts DEF Typed
  <2>3. /\ pc' \in {"idle", "applying"} /\ todo' \subseteq todo
        /\ (pc' # "applying" => todo' = {})
    BY <1>16, <2>1 DEF SetupAgain
  <2>4. native' \in [Easies -> NativeOptions]
    <3>1. PICK a \in Options : a = attrs[inHand] BY <2>1 DEF Typed
    <3>2. native' = native \/ native' = [native EXCEPT ![inHand] = Setup(a)]
      BY <1>16, <3>1 DEF SetupAgain
    <3> QED BY <2>1, <3>2, InstallFacts DEF Typed
  <2>5. signature' = [x \in Easies |-> signature'[x]]
    <3>1. PICK s : s = Signature(inHand, attrs[inHand], active) OBVIOUS
    <3>2. signature' = Record(s, o) BY <1>16, <3>1 DEF SetupAgain
    <3>3. signature' = signature \/ signature' = [signature EXCEPT ![inHand] = s]
      BY <3>2 DEF Record
    <3> QED BY <2>1, <3>3, SignFacts DEF Typed
  <2>6. /\ ~Reading' /\ Phase' = pc' /\ inHand' = Nobody /\ back' \in {"idle", "applying", "running"}
        /\ active' \in BOOLEAN /\ overlapped' \in BOOLEAN
    BY <2>1, <2>3, Released
  <2> QED BY <1>16, <2>1, <2>2, <2>3, <2>4, <2>5, <2>6 DEF Typed, confVars, Applicable
<1>17. ASSUME NativePerform \/ PerformReturns, UNCHANGED program PROVE Typed'
  <2>1. ~Reading /\ ~Reading' /\ Phase = pc /\ Phase' = pc'
    BY <1>17 DEF NativePerform, PerformReturns, Reading, Phase
  <2>2. UNCHANGED <<confVars, easyVars, attached, signature, todo, inHand, active, back, overlapped>>
    BY <1>17 DEF NativePerform, PerformReturns
  <2>3. /\ running' \subseteq attached /\ todo = {} /\ (pc' # "running" => running' = {})
        /\ pc' \in {"idle", "running"}
    BY <1>17, <2>1 DEF NativePerform, PerformReturns, Typed
  <2> QED BY <1>17, <2>1, <2>2, <2>3 DEF Typed, confVars, easyVars, Applicable
<1>18. CASE UNCHANGED vars
  BY <1>18 DEF Typed, vars, confVars, easyVars, multiVars, Reading, Phase, Applicable
<1> QED BY <1>1, <1>2, <1>4, <1>5, <1>6, <1>8, <1>10, <1>11, <1>12, <1>13, <1>14, <1>15, <1>16,
           <1>17, <1>18 DEF Next

\* The types hold in every state.
LEMMA TypedInvariant == Spec => []Typed
<1>1. ASSUME Init PROVE Typed
  <2>1. /\ attrs \in [Easies -> Options] /\ native \in [Easies -> NativeOptions]
        /\ under \in [Easies -> Applicable] /\ cleared \in [Easies -> Applicable \cup {Unseen}]
        /\ own \in [Easies -> SUBSET {"limit", "protocols"}]
        /\ override \in [Easies -> BOOLEAN] /\ overrideGen \in [Easies -> Nat]
    BY <1>1, FreshFacts DEF Init, Applicable
  <2>2. /\ program \in Programs /\ config \in Applicable /\ generation \in 0 .. MaxGeneration
        /\ changing \in [Changers[program] -> {"no", "stored", "read"}]
        /\ was \in [Changers[program] -> Nat]
        /\ \A t \in Changers[program] : changing[t] = "read" => was[t] < MaxGeneration
    BY <1>1, SafetyAssumption DEF Init, Applicable
  <2>3. ~Reading /\ Phase = "idle" BY <1>1 DEF Init, Reading, Phase
  <2>4. /\ signature = [e \in Easies |-> signature[e]] /\ inHand = Nobody
        /\ attached = {} /\ todo = {} /\ running = {} /\ pc = "idle" /\ back = "idle"
        /\ active = FALSE /\ overlapped = FALSE
    BY <1>1 DEF Init
  <2> QED BY <2>1, <2>2, <2>3, <2>4 DEF Typed
<1> QED BY <1>1, TypedStep, PTL DEF Spec

-----------------------------------------------------------------------------
(***************************************************************************)
(* The easy in hand: nothing but safe! comes between the application of    *)
(* its safety and its signature.                                           *)
(***************************************************************************)

Within(n, c) ==
  c # NoConfig =>
    /\ c.hosts # {} => n.hosts = c.hosts
    /\ c.policy = "public" => n.policy = "public" /\ (~c.permit => ~n.proxied /\ ~n.routed)

\* What setup gives libcurl of options that obey.
LEMMA SetupWithin ==
  ASSUME NEW e, NEW a \in Options, NEW ov, NEW c, Obeys(e, a, ov, c)
  PROVE  Within(Setup(a), c)
BY SetupFacts DEF Obeys, Within

\* Its options obey what was applied; add has set them up; and unless safe! was
\* under way since, that is the configuration in force.
Hand == Reading =>
  /\ cleared[inHand] \in Applicable /\ under[inHand] = cleared[inHand] /\ own[inHand] = {}
  /\ Obeys(inHand, attrs[inHand], override[inHand], cleared[inHand])
  /\ back # "applying" => native[inHand] = Setup(attrs[inHand])
  /\ ~overlapped =>
       /\ ~Changing /\ config = cleared[inHand]
       /\ pc = "dating" => active = Active(inHand)

LEMMA HandStep ==
  ASSUME Typed, Hand, [Next]_vars
  PROVE  Hand'
<1> SUFFICES ASSUME Reading' PROVE Hand'
  BY DEF Hand
<1>1. ASSUME NEW t \in Changers[program], UNCHANGED <<program, easyVars, multiVars>>,
             changing[t] # "no", UNCHANGED overlapped
      PROVE  Hand'
  <2>1. Changing BY <1>1 DEF Changing
  <2>2. Reading BY <1>1 DEF multiVars, Reading
  <2>3. overlapped BY <2>1, <2>2 DEF Hand
  <2> QED BY <1>1, <2>2, <2>3 DEF Hand, easyVars, multiVars, Applicable
<1>2. ASSUME NEW t \in Changers[program], NEW c, StoreConfig(t, c), UNCHANGED program PROVE Hand'
  <2>1. UNCHANGED <<easyVars, multiVars>> BY <1>2 DEF StoreConfig
  <2>2. Reading BY <2>1 DEF multiVars, Reading
  <2>3. overlapped' BY <1>2, <2>2, RestFacts DEF StoreConfig
  <2> QED BY <1>2, <2>1, <2>2, <2>3 DEF Hand, easyVars, multiVars, Applicable
<1>3. ASSUME UNCHANGED pc, AtRest PROVE FALSE
  BY <1>3 DEF AtRest, Reading
<1>4. ASSUME pc' \in {"idle", "applying", "running"} PROVE FALSE BY <1>4 DEF Reading
<1>5. ASSUME NEW e \in Easies, Apply(e), ~Refused(e, attrs[e], override[e]), Takes(e),
             UNCHANGED <<program, confVars, override>>, pc' = "signing",
             back' # "applying" => native' = [native EXCEPT ![e] = Setup(attrs'[e])]
      PROVE  Hand'
  <2>1. /\ ApplySafety(e, override[e]) /\ cleared'[e] = config /\ override[e] \in BOOLEAN
        /\ cleared' \in [Easies -> Applicable \cup {Unseen}]
    BY <1>5, TakenFacts
  <2>2. /\ attrs'[e] = Settings(attrs[e], override[e]) /\ own'[e] = {} /\ under'[e] = config
        /\ attrs' \in [Easies -> Options]
    BY <1>5, <2>1, ApplyFacts
  <2>3. Obeys(e, attrs'[e], override'[e], cleared'[e])
    <3>1. attrs[e] \in Options BY DEF Typed
    <3>2. Obeys(e, Settings(attrs[e], override[e]), override[e], config)
      BY <1>5, <2>1, <3>1, AppliedObeys
    <3> QED BY <1>5, <2>1, <2>2, <3>2
  <2>4. back' # "applying" => native'[e] = Setup(attrs'[e])
    <3>1. PICK a \in Options : a = attrs'[e] BY <2>2
    <3> QED BY <1>5, <3>1, InstallFacts
  <2>5. inHand' = e /\ overlapped' = Changing BY <1>5 DEF Takes
  <2>6. cleared'[e] \in Applicable' /\ under'[e] = cleared'[e]
    BY <1>5, <2>1, <2>2 DEF Typed, Applicable
  <2>7. ~overlapped' => ~Changing' /\ config' = cleared'[e]
    BY <1>5, <2>1, <2>5 DEF Changing, confVars
  <2> QED BY <1>5, <2>2, <2>3, <2>4, <2>5, <2>6, <2>7 DEF Hand
<1>6. ASSUME NEW e \in Easies, Add(e), UNCHANGED program PROVE Hand'
  <2>1. /\ AtRest /\ Apply(e) /\ UNCHANGED <<confVars, override>> BY <1>6 DEF Add
  <2>2. CASE UNCHANGED pc BY <1>3, <2>1, <2>2
  <2>3. CASE /\ ~Refused(e, attrs[e], override[e]) /\ pc' = "signing" /\ Takes(e)
             /\ native' = [native EXCEPT ![e] = Setup(attrs'[e])]
    BY <1>5, <1>6, <2>1, <2>3
  <2> QED BY <1>6, <2>2, <2>3 DEF Add
<1>7. ASSUME NEW e \in Easies, PerformOne(e), UNCHANGED program PROVE Hand'
  <2>1. /\ pc = "applying" /\ Apply(e) /\ UNCHANGED <<confVars, override>>
    BY <1>7 DEF PerformOne
  <2>2. ~Refused(e, attrs[e], override[e]) /\ pc' = "signing" /\ Takes(e)
    BY <1>4, <1>7 DEF PerformOne
  <2>3. back' = "applying" BY <2>1, <2>2 DEF Takes
  <2> QED BY <1>5, <1>7, <2>1, <2>2, <2>3
<1>8. ASSUME AskActive, UNCHANGED program PROVE Hand'
  <2>1. /\ Reading /\ UNCHANGED <<confVars, easyVars, inHand, back, overlapped>>
        /\ active' = Active(inHand)
    BY <1>8 DEF AskActive, Reading
  <2>2. Changing' = Changing /\ Active(inHand)' = Active(inHand)
    BY <1>8, <2>1 DEF Changing, Active, confVars, easyVars
  <2> QED BY <1>8, <2>1, <2>2 DEF Hand, Applicable, confVars, easyVars
<1>9. ASSUME RecordAdded \/ SkipSetup \/ \E o \in Outcomes : SetupAgain(o) PROVE Hand'
  <2>1. pc' \in {back, "applying", "idle"} BY <1>9 DEF RecordAdded, SkipSetup, SetupAgain
  <2> QED BY <1>4, <2>1 DEF Typed
<1>10. ASSUME Perform \/ NativePerform \/ PerformReturns PROVE Hand'
  BY <1>4, <1>10 DEF Perform, NativePerform, PerformReturns
<1>11. CASE UNCHANGED vars
  <2>1. Reading /\ Changing' = Changing /\ Active(inHand)' = Active(inHand)
    BY <1>11 DEF vars, confVars, easyVars, multiVars, Reading, Changing, Active
  <2> QED BY <1>11, <2>1 DEF vars, confVars, easyVars, multiVars, Hand, Applicable
<1>12. ASSUME NEW e \in Easies,
              SafeHttp(e) \/ UserSets(e) \/ Reset(e) \/ RemoveEasy(e) \/ EndOne(e)
       PROVE  Hand'
  BY <1>3, <1>12 DEF SafeHttp, UserSets, Reset, RemoveEasy, EndOne, multiVars, AtRest
<1>13. ASSUME NEW t \in Changers[program], ReadGeneration(t) \/ BumpGeneration(t),
              UNCHANGED program
       PROVE  Hand'
  BY <1>1, <1>13 DEF ReadGeneration, BumpGeneration
<1>14. \A e \in Used[program] : e \in Easies BY SafetyAssumption DEF Typed
<1> QED BY <1>2, <1>6, <1>7, <1>8, <1>9, <1>10, <1>11, <1>12, <1>13, <1>14 DEF Next

-----------------------------------------------------------------------------
(***************************************************************************)
(* Signatures: what libcurl was given when one was recorded.               *)
(***************************************************************************)

Recorded(e) ==
  /\ signature[e] = <<signature[e][1], signature[e][2], signature[e][3]>>
  /\ e \notin spoiled => signature[e][2] = native[e].policy /\ signature[e][3] = native[e].hosts

\* Unless safe! came in between, libcurl is within the configuration of the
\* generation; a thread that is in safe! will write a later generation.
Dated(e) ==
  e \notin doubtful => \A g, o \in Nat : signature[e][1] = <<g, o>> =>
    /\ g <= generation
    /\ \A t \in Changers[program] : changing[t] = "read" => g <= was[t]
    /\ g = generation /\ ~Changing => Within(native[e], config)

\* All have a signature but the one that add has in hand.
WithSignature == {e \in attached : e = inHand => back = "applying"}
Signed == \A e \in WithSignature : Recorded(e) /\ Dated(e)

\* The parts of a signature, by name.
LEMMA SignatureFacts ==
  ASSUME NEW e, NEW a, NEW act \in BOOLEAN, NEW s, s = Signature(e, a, act)
  PROVE  /\ s = <<s[1], s[2], s[3]>> /\ s[2] = a.policy /\ s[3] = a.hosts
         /\ act => s[1] = <<generation, overrideGen[e]>>
         /\ \A g, o : s[1] = <<g, o>> => act /\ g = generation
<1> DEFINE d == IF act THEN <<generation, overrideGen[e]>> ELSE <<>>
<1>1. act => d = <<generation, overrideGen[e]>> OBVIOUS
<1>2. \A g, o : d = <<g, o>> => act /\ g = generation
  <2> SUFFICES ASSUME NEW g, NEW o, d = <<g, o>> PROVE act /\ g = generation OBVIOUS
  <2>1. CASE act BY <2>1
  <2>2. CASE ~act
    <3>1. d = <<>> BY <2>2
    <3> QED BY <3>1
  <2> QED BY <2>1, <2>2
<1>3. s = <<d, a.policy, a.hosts>> BY DEF Signature
<1> HIDE DEF d
<1>4. s[1] = d /\ s[2] = a.policy /\ s[3] = a.hosts BY <1>3
<1> QED BY <1>1, <1>2, <1>3, <1>4

\* safe! may come at any time.
LEMMA ChangingSigned ==
  ASSUME Typed, Signed, UNCHANGED program, NEW t \in Changers[program], NEW c \in Applicable,
         StoreConfig(t, c) \/ ReadGeneration(t) \/ BumpGeneration(t)
  PROVE  Signed'
<1>1. UNCHANGED <<easyVars, multiVars>> BY DEF StoreConfig, ReadGeneration, BumpGeneration
<1> SUFFICES ASSUME NEW e \in WithSignature PROVE Recorded(e)' /\ Dated(e)'
  BY <1>1 DEF Signed, WithSignature, multiVars
<1>2. Recorded(e) /\ Dated(e) BY DEF Signed
<1>3. Recorded(e)' BY <1>1, <1>2 DEF Recorded, easyVars, multiVars
<1> SUFFICES ASSUME e \notin doubtful, NEW g \in Nat, NEW o \in Nat, signature[e][1] = <<g, o>>
             PROVE  /\ g <= generation'
                    /\ \A x \in Changers[program] : changing'[x] = "read" => g <= was'[x]
                    /\ g = generation' /\ ~Changing' => Within(native[e], config')
  BY <1>1, <1>3 DEF Dated, easyVars, multiVars
<1>4. /\ g <= generation
      /\ \A x \in Changers[program] : changing[x] = "read" => g <= was[x]
      /\ g = generation /\ ~Changing => Within(native[e], config)
  BY <1>2 DEF Dated
<1>5. CASE StoreConfig(t, c)
  <2>1. generation' = generation /\ was' = was /\ changing' = [changing EXCEPT ![t] = "stored"]
    BY <1>5 DEF StoreConfig
  <2>2. Changing' BY <2>1 DEF Typed, Changing
  <2> QED BY <1>4, <2>1, <2>2 DEF Typed
<1>6. CASE ReadGeneration(t)
  <2>1. /\ generation' = generation /\ was' = [was EXCEPT ![t] = generation]
        /\ changing' = [changing EXCEPT ![t] = "read"]
    BY <1>6 DEF ReadGeneration
  <2>2. Changing' BY <2>1 DEF Typed, Changing
  <2>3. \A x \in Changers[program] : changing'[x] = "read" => g <= was'[x]
    BY <1>4, <2>1 DEF Typed
  <2> QED BY <1>4, <2>1, <2>2, <2>3
<1>7. CASE BumpGeneration(t)
  <2>1. /\ generation' = was[t] + 1 /\ was' = [was EXCEPT ![t] = 0] /\ changing[t] = "read"
        /\ changing' = [changing EXCEPT ![t] = "no"]
    BY <1>7 DEF BumpGeneration
  <2>2. g <= was[t] /\ was[t] \in Nat BY <1>4, <2>1 DEF Typed
  <2>3. g < generation' BY <2>1, <2>2
  <2>4. \A x \in Changers[program] : changing'[x] = "read" => g <= was'[x]
    BY <1>4, <2>1 DEF Typed
  <2> QED BY <2>1, <2>2, <2>3, <2>4
<1> QED BY <1>5, <1>6, <1>7

LEMMA SignedStep ==
  ASSUME Typed, Hand, Signed, [Next]_vars
  PROVE  Signed'
\* What the easies keep whose signature and libcurl options are not touched.
<1>1. ASSUME UNCHANGED <<program, confVars>>, NEW x \in WithSignature,
             signature'[x] = signature[x], native'[x] = native[x],
             x \in doubtful' <=> x \in doubtful, x \in spoiled' <=> x \in spoiled
      PROVE  Recorded(x)' /\ Dated(x)'
  <2>1. Recorded(x) /\ Dated(x) BY DEF Signed
  <2>2. Changing' = Changing BY <1>1 DEF Changing, confVars
  <2>3. Recorded(x)' BY <1>1, <2>1 DEF Recorded
  <2>4. Dated(x)' BY <1>1, <2>1, <2>2 DEF Dated, confVars
  <2> QED BY <2>3, <2>4
<1>2. ASSUME UNCHANGED <<program, confVars, signature, doubtful, spoiled>>,
             WithSignature' \subseteq WithSignature,
             \A x \in WithSignature : native'[x] = native[x]
      PROVE  Signed'
  BY <1>1, <1>2 DEF Signed
<1>3. ~Reading => WithSignature = attached BY SafetyAssumption DEF Typed, WithSignature
<1>4. back = "applying" => WithSignature = attached BY DEF WithSignature
<1>5. WithSignature \subseteq attached BY DEF WithSignature
<1>6. ASSUME NEW t \in Changers[program], UNCHANGED program,
             \/ \E c \in Configs[program] \cup {NoConfig} : StoreConfig(t, c)
             \/ ReadGeneration(t) \/ BumpGeneration(t)
      PROVE  Signed'
  <2>1. NoConfig \in Applicable BY DEF Applicable
  <2> QED BY <1>6, <2>1, ChangingSigned DEF Applicable
<1>7. ASSUME NEW e \in Easies, SafeHttp(e) \/ UserSets(e), UNCHANGED program PROVE Signed'
  <2>1. UNCHANGED <<confVars, native, multiVars>> BY <1>7 DEF SafeHttp, UserSets
  <2> QED BY <1>2, <1>7, <2>1 DEF WithSignature, multiVars
<1>8. ASSUME NEW e \in Easies, Reset(e), UNCHANGED program PROVE Signed'
  <2>1. UNCHANGED <<confVars, multiVars>> /\ native' = [native EXCEPT ![e] = Bare]
        /\ e \notin attached
    BY <1>8 DEF Reset
  <2>2. \A x \in WithSignature : native'[x] = native[x] BY <1>5, <2>1 DEF Typed
  <2> QED BY <1>2, <1>8, <2>1, <2>2 DEF WithSignature, multiVars
<1>9. ASSUME NEW e \in Easies, Add(e), UNCHANGED program PROVE Signed'
  <2>1. /\ AtRest /\ e \notin attached /\ Apply(e)
        /\ UNCHANGED <<confVars, signature, doubtful, spoiled>>
    BY <1>9 DEF Add
  <2>2. WithSignature = attached BY <1>3, <2>1, RestFacts
  <2>3. attrs' \in [Easies -> Options] BY <2>1, TakenFacts, ApplyFacts
  <2>4. \A x \in WithSignature : native'[x] = native[x]
    <3>1. PICK a \in Options : a = attrs'[e] BY <2>3
    <3>2. native' = native \/ native' = [native EXCEPT ![e] = Setup(a)]
      BY <1>9, <3>1 DEF Add
    <3> QED BY <1>5, <2>1, <3>2, InstallFacts DEF Typed
  <2>5. WithSignature' \subseteq WithSignature
    <3>1. CASE UNCHANGED <<attached, inHand, back>> BY <2>2, <3>1 DEF WithSignature
    <3>2. CASE attached' = attached \cup {e} /\ inHand' = e /\ back' # "applying"
      BY <2>2, <3>2 DEF WithSignature
    <3>3. pc # "applying" BY <2>1 DEF AtRest
    <3> QED BY <1>9, <3>1, <3>2, <3>3 DEF Add, Takes
  <2> QED BY <1>2, <1>9, <2>1, <2>4, <2>5
<1>10. ASSUME NEW e \in Easies, RemoveEasy(e) \/ EndOne(e), UNCHANGED program PROVE Signed'
  <2>1. /\ AtRest /\ Detach(e) /\ UNCHANGED <<confVars, native, inHand, back>>
    BY <1>10 DEF RemoveEasy, EndOne, AtRest
  <2>2. WithSignature = attached /\ WithSignature' = attached \ {e}
    BY <1>3, <2>1, RestFacts, SafetyAssumption DEF Detach, WithSignature
  <2>3. \A x \in attached \ {e} :
           /\ signature'[x] = signature[x]
           /\ x \in doubtful' <=> x \in doubtful
           /\ x \in spoiled' <=> x \in spoiled
    BY <2>1, SignFacts DEF Detach, Typed
  <2> QED BY <1>1, <1>10, <2>1, <2>2, <2>3 DEF Signed
<1>11. ASSUME NEW e \in Easies, PerformOne(e), UNCHANGED program PROVE Signed'
  <2>1. /\ pc = "applying"
        /\ UNCHANGED <<confVars, native, attached, signature, doubtful, spoiled>>
    BY <1>11 DEF PerformOne
  <2>2. WithSignature' \subseteq WithSignature BY <1>3, <2>1, RestFacts DEF WithSignature
  <2> QED BY <1>2, <1>11, <2>1, <2>2
<1>12. ASSUME AskActive \/ Perform \/ NativePerform \/ PerformReturns, UNCHANGED program
       PROVE  Signed'
  <2>1. UNCHANGED <<confVars, native, attached, signature, doubtful, spoiled, inHand, back>>
    BY <1>12 DEF AskActive, Perform, NativePerform, PerformReturns, easyVars
  <2> QED BY <1>2, <1>12, <2>1 DEF WithSignature
<1>13. ASSUME SkipSetup, UNCHANGED program PROVE Signed'
  <2>1. /\ back = "applying" /\ inHand' = Nobody /\ doubtful \subseteq doubtful'
        /\ UNCHANGED <<confVars, easyVars, attached, signature, spoiled>>
    BY <1>13 DEF SkipSetup, LetsGo
  <2>2. WithSignature' = attached BY <2>1, SafetyAssumption DEF Typed, WithSignature
  <2>3. Changing' = Changing BY <1>13, <2>1 DEF Changing, confVars
  <2>4. ASSUME NEW x \in attached PROVE Recorded(x)' /\ Dated(x)'
    <3>1. Recorded(x) /\ Dated(x) BY <1>4, <2>1 DEF Signed
    <3> QED BY <1>13, <2>1, <2>3, <3>1 DEF Recorded, Dated, confVars, easyVars
  <2> QED BY <2>2, <2>4 DEF Signed
\* What a new signature says, once libcurl has the options.
<1>14. ASSUME Reading, UNCHANGED <<program, confVars>>, pc = "dating", NEW e \in Easies, e = inHand,
              signature' = [signature EXCEPT ![e] = Signature(e, attrs[e], active)],
              native'[e] = Setup(attrs[e]), doubtful' = Doubt
       PROVE  Recorded(e)' /\ Dated(e)'
  <2>1. PICK a \in Options : a = attrs[e] BY DEF Typed
  <2>2. PICK s : s = Signature(e, a, active) OBVIOUS
  <2>3. signature'[e] = s BY <1>14, <2>1, <2>2, SignFacts
  <2>4. /\ s = <<s[1], s[2], s[3]>> /\ s[2] = a.policy /\ s[3] = a.hosts
        /\ \A g, o : s[1] = <<g, o>> => active /\ g = generation
    BY <2>2, SignatureFacts DEF Typed
  <2>5. Recorded(e)' BY <1>14, <2>1, <2>3, <2>4, SetupFacts DEF Recorded
  <2>6. ASSUME overlapped PROVE Dated(e)' BY <1>14, <2>6 DEF Doubt, Dated
  <2>7. ASSUME ~overlapped PROVE Dated(e)'
    <3>1. ~Changing /\ config = cleared[e] /\ Obeys(e, a, override[e], config)
      BY <1>14, <2>1, <2>7 DEF Hand
    <3>2. Within(native'[e], config) BY <1>14, <2>1, <3>1, SetupWithin
    <3>3. UNCHANGED <<config, generation, changing, was>> BY <1>14 DEF confVars
    <3>4. ASSUME NEW g \in Nat, NEW o \in Nat, signature'[e][1] = <<g, o>> PROVE g = generation
      BY <2>3, <2>4, <3>4
    <3>5. generation <= generation BY DEF Typed
    <3>6. \A t \in Changers[program] : changing[t] # "read" BY <3>1 DEF Changing
    <3> QED BY <1>14, <3>2, <3>3, <3>4, <3>5, <3>6 DEF Dated
  <2> QED BY <2>5, <2>6, <2>7
<1>15. ASSUME RecordAdded, UNCHANGED program PROVE Signed'
  <2>1. PICK e \in Easies : e = inHand BY <1>15, RestFacts DEF RecordAdded, Reading
  <2>2. /\ Reading /\ pc = "dating" /\ back # "applying" /\ inHand' = Nobody
        /\ signature' = [signature EXCEPT ![e] = Signature(e, attrs[e], active)]
        /\ doubtful' = Doubt /\ spoiled' = spoiled \ {e}
        /\ UNCHANGED <<confVars, easyVars, attached>>
    BY <1>15, <2>1 DEF RecordAdded, Record, LetsGo, Reading
  <2>3. native'[e] = Setup(attrs[e]) BY <2>1, <2>2 DEF Hand, easyVars
  <2>4. Recorded(e)' /\ Dated(e)' BY <1>14, <1>15, <2>1, <2>2, <2>3
  <2>5. ASSUME NEW x \in attached \ {e} PROVE Recorded(x)' /\ Dated(x)'
    <3>1. x \in WithSignature BY <2>1 DEF WithSignature
    <3>2. signature'[x] = signature[x]
      <4>1. PICK s : s = Signature(e, attrs[e], active) OBVIOUS
      <4> QED BY <2>2, <4>1, SignFacts DEF Typed
    <3>3. /\ native'[x] = native[x]
          /\ x \in doubtful' <=> x \in doubtful
          /\ x \in spoiled' <=> x \in spoiled
      BY <2>1, <2>2 DEF Doubt, easyVars
    <3> QED BY <1>1, <1>15, <2>2, <3>1, <3>2, <3>3
  <2>6. WithSignature' \subseteq attached BY <2>2 DEF WithSignature
  <2> QED BY <2>4, <2>5, <2>6 DEF Signed
<1>16. ASSUME NEW o \in Outcomes, SetupAgain(o), UNCHANGED program PROVE Signed'
  <2>1. PICK e \in Easies : e = inHand BY <1>16, RestFacts DEF SetupAgain, Reading
  <2>2. PICK s : s = Signature(e, attrs[e], active) OBVIOUS
  <2>3. PICK a \in Options : a = attrs[e] BY DEF Typed
  <2>4. /\ Reading /\ pc = "dating" /\ back = "applying" /\ inHand' = Nobody
        /\ UNCHANGED <<confVars, attached>>
        /\ signature' = IF o = "done" THEN [signature EXCEPT ![e] = s] ELSE signature
        /\ native' = IF o = "early" THEN native ELSE [native EXCEPT ![e] = Setup(a)]
        /\ doubtful' = IF o = "done" THEN Doubt ELSE doubtful \cup Doubt
    BY <1>16, <2>1, <2>2, <2>3 DEF SetupAgain, Record, LetsGo, Reading
  <2>5. /\ o = "done" => spoiled' = spoiled \ {e}
        /\ o = "early" => spoiled' = spoiled
        /\ o = "late" => spoiled' = spoiled \cup {e}
    BY <1>16, <2>1 DEF SetupAgain
  <2>6. WithSignature' \subseteq WithSignature BY <1>4, <2>4 DEF WithSignature
  <2>7. ASSUME NEW x \in WithSignature, x # e PROVE Recorded(x)' /\ Dated(x)'
    <3>1. x \in Easies BY <1>5 DEF Typed
    <3>2. signature'[x] = signature[x] BY <2>4, <2>7, <3>1, SignFacts
    <3>3. native'[x] = native[x] BY <2>4, <2>7, <3>1, InstallFacts
    <3>4. (x \in doubtful' <=> x \in doubtful) /\ (x \in spoiled' <=> x \in spoiled)
      BY <2>1, <2>4, <2>5, <2>7 DEF Doubt, Outcomes
    <3> QED BY <1>1, <1>16, <2>4, <3>2, <3>3, <3>4
  <2>8. e \in attached /\ Recorded(e) /\ Dated(e) BY <1>4, <2>1, <2>4 DEF Signed, Typed
  <2>9. CASE o = "done"
    <3>1. native'[e] = Setup(attrs[e]) BY <2>3, <2>4, <2>9, InstallFacts
    <3> QED BY <1>14, <1>16, <2>1, <2>2, <2>4, <2>6, <2>7, <2>9, <3>1 DEF Signed
  <2>10. CASE o # "done"
    <3>1. Changing' = Changing /\ signature' = signature
      BY <1>16, <2>4, <2>10 DEF Changing, confVars
    <3>2. Recorded(e)'
      BY <2>4, <2>5, <2>8, <2>10, <3>1 DEF Recorded, Outcomes
    <3>3. ASSUME overlapped PROVE Dated(e)' BY <2>1, <2>4, <2>10, <3>3 DEF Doubt, Dated
    <3>4. ASSUME ~overlapped PROVE Dated(e)'
      <4>1. config = cleared[e] /\ Obeys(e, a, override[e], config)
        BY <2>1, <2>3, <2>4, <3>4 DEF Hand
      <4>2. native'[e] = native[e] \/ Within(native'[e], config)
        BY <2>4, <4>1, InstallFacts, SetupWithin
      <4> QED BY <1>16, <2>4, <2>8, <2>10, <3>1, <4>2 DEF Dated, confVars
    <3>5. Dated(e)' BY <3>3, <3>4
    <3> QED BY <2>6, <2>7, <3>2, <3>5 DEF Signed
  <2> QED BY <2>9, <2>10
<1>17. CASE UNCHANGED vars
  BY <1>2, <1>17 DEF vars, easyVars, multiVars, WithSignature
<1>18. \A e \in Used[program] : e \in Easies BY SafetyAssumption DEF Typed
<1> QED BY <1>6, <1>7, <1>8, <1>9, <1>10, <1>11, <1>12, <1>13, <1>15, <1>16, <1>17, <1>18 DEF Next

\* Both invariants hold with the types.
LEMMA SignedInvariant == Spec => [](Typed /\ Hand /\ Signed)
<1>1. ASSUME Init PROVE Hand /\ Signed
  BY <1>1 DEF Init, Hand, Reading, Signed, WithSignature
<1> QED BY <1>1, TypedInvariant, HandStep, SignedStep, PTL DEF Spec

\* A signature that matches means that libcurl has the policy and the host list
\* of the easy, and is within the configuration in force, whatever the programs
\* do and wherever safe! comes (__curb_safety_signature_for, Multi#perform).
THEOREM SignaturesAreHonest == Spec => []SignatureIsHonest
<1>1. Typed => TypeOK
  <2> SUFFICES ASSUME Typed PROVE TypeOK OBVIOUS
  <2>1. ASSUME NEW e \in Easies
        PROVE  /\ DOMAIN attrs[e] = DOMAIN Fresh
               /\ attrs[e].protocols # {} /\ attrs[e].protocols \subseteq AllProtocols
               /\ attrs[e].redirs # {} /\ attrs[e].redirs \subseteq AllProtocols
               /\ attrs[e].policy \in {"none", "public"} /\ DOMAIN native[e] = DOMAIN Bare
               /\ under[e] \in Configs[program] \cup {NoConfig}
               /\ cleared[e] \in Configs[program] \cup {NoConfig, Unseen}
    <3>1. attrs[e] \in Options /\ native[e] \in NativeOptions
      BY DEF Typed
    <3>2. DOMAIN attrs[e] = DOMAIN Fresh BY <3>1, FreshFacts DEF Options
    <3>3. DOMAIN native[e] = DOMAIN Bare BY <3>1, FreshFacts DEF NativeOptions
    <3> QED BY <3>1, <3>2, <3>3 DEF Typed, Applicable, Options, SomeProtocols
  <2> QED BY <2>1 DEF Typed, TypeOK, Applicable
<1>2. Typed /\ Hand /\ Signed => SignatureIsHonest
  <2> SUFFICES ASSUME Typed, Signed, NEW e \in WithSignature,
                      signature[e] = Signature(e, attrs[e], Active(e))
               PROVE  /\ e \notin spoiled => /\ native[e].policy = attrs[e].policy
                                             /\ native[e].hosts = attrs[e].hosts
                      /\ ~Changing /\ e \notin doubtful => GivenAsAsked(e, config)
    BY <1>1 DEF SignatureIsHonest, WithSignature
  <2>1. Recorded(e) /\ Dated(e) /\ e \in Easies BY DEF Signed, WithSignature, Typed
  <2>2. Active(e) \in BOOLEAN BY <2>1 DEF Active, Typed
  <2>3. /\ signature[e][2] = attrs[e].policy /\ signature[e][3] = attrs[e].hosts
        /\ Active(e) => signature[e][1] = <<generation, overrideGen[e]>>
    BY <2>2, SignatureFacts
  <2>4. ASSUME ~Changing, e \notin doubtful, config # NoConfig PROVE Within(native[e], config)
    <3>1. generation \in Nat /\ overrideGen[e] \in Nat BY <2>1 DEF Typed
    <3> QED BY <2>1, <2>3, <2>4, <3>1 DEF Dated, Active
  <2> QED BY <2>1, <2>3, <2>4 DEF Recorded, GivenAsAsked, Within
<1> QED BY <1>2, SignedInvariant, PTL

-----------------------------------------------------------------------------
(***************************************************************************)
(* What runs: the easies that a perform has dealt with, and those that     *)
(* were added since.                                                       *)
(***************************************************************************)

Subjects == IF Phase = "applying" THEN attached \ todo ELSE running
Vetted == \A e \in Subjects : AtOnceWithin(e) /\ SetUpWithin(e)

LEMMA SubjectFacts ==
  ASSUME Typed
  PROVE  /\ Subjects \subseteq attached /\ running \subseteq Subjects
         /\ AtRest => Subjects = running
BY DEF Typed, Subjects, Phase, Reading, AtRest

\* The options that take effect at once stay within what was applied.
LEMMA AtOnceStep ==
  ASSUME Typed, NEW e \in Easies, SafeHttp(e) \/ UserSets(e),
         NEW x \in Easies, AtOnceWithin(x)
  PROVE  AtOnceWithin(x)'
<1>1. CASE SafeHttp(e)
  <2>1. ApplySafety(e, TRUE) /\ override' = [override EXCEPT ![e] = TRUE] BY <1>1 DEF SafeHttp
  <2>2. /\ ~Refused(e, attrs[e], TRUE) => attrs'[e] = Settings(attrs[e], TRUE)
        /\ Refused(e, attrs[e], TRUE) => own'[e] = {"limit", "protocols"}
        /\ under'[e] = config
        /\ \A y \in Easies \ {e} :
             attrs'[y] = attrs[y] /\ under'[y] = under[y] /\ own'[y] = own[y]
    BY <2>1, ApplyFacts
  <2>3. CASE x # e
    <3>1. override'[x] = override[x] BY <2>1, <2>3 DEF Typed
    <3> QED BY <2>2, <2>3, <3>1 DEF AtOnceWithin
  <2>4. CASE x = e /\ Refused(e, attrs[e], TRUE) BY <2>2, <2>4 DEF AtOnceWithin
  <2>5. CASE x = e /\ ~Refused(e, attrs[e], TRUE)
    <3>1. attrs[e] \in Options BY DEF Typed
    <3>2. Obeys(e, attrs'[e], TRUE, under'[e]) BY <2>2, <2>5, <3>1, AppliedObeys
    <3>3. override'[e] = TRUE BY <2>1 DEF Typed
    <3> QED BY <2>5, <3>2, <3>3 DEF Obeys, AtOnceWithin
  <2> QED BY <2>3, <2>4, <2>5
<1>2. CASE UserSets(e)
  <2>1. UNCHANGED <<under, override>> BY <1>2 DEF UserSets
  <2>2. own[x] \subseteq own'[x] BY <1>2, UserSetsFacts
  <2>3. CASE x # e
    <3>1. attrs'[x] = attrs[x] BY <1>2, <2>3, UserSetsFacts
    <3> QED BY <2>1, <2>2, <3>1 DEF AtOnceWithin
  <2>4. CASE x = e
    <3>1. /\ "limit" \notin own'[x] => attrs'[x].limit = attrs[x].limit
          /\ "protocols" \notin own'[x] =>
               attrs'[x].protocols = attrs[x].protocols /\ attrs'[x].redirs = attrs[x].redirs
      BY <1>2, <2>4, UserSetsFacts
    <3> QED BY <2>1, <2>2, <3>1 DEF AtOnceWithin
  <2> QED BY <2>3, <2>4
<1> QED BY <1>1, <1>2

LEMMA VettedStep ==
  ASSUME Typed, Hand, Signed, Vetted, [Next]_vars
  PROVE  Vetted'
\* What the easies keep whose options and records are not touched.
<1>1. ASSUME NEW x, cleared'[x] = cleared[x], native'[x] = native[x],
             x \in doubtful' <=> x \in doubtful, x \in spoiled' <=> x \in spoiled, SetUpWithin(x)
      PROVE  SetUpWithin(x)'
  BY <1>1 DEF SetUpWithin, GivenAsAsked
<1>2. ASSUME NEW x, attrs'[x] = attrs[x], under'[x] = under[x], own'[x] = own[x],
             override'[x] = override[x], AtOnceWithin(x)
      PROVE  AtOnceWithin(x)'
  BY <1>2 DEF AtOnceWithin
<1>3. ASSUME NEW S, Subjects' \subseteq S, S \subseteq Subjects,
             \A x \in S : /\ attrs'[x] = attrs[x] /\ under'[x] = under[x] /\ own'[x] = own[x]
                          /\ override'[x] = override[x]
                          /\ cleared'[x] = cleared[x] /\ native'[x] = native[x]
                          /\ x \in doubtful' <=> x \in doubtful
                          /\ x \in spoiled' <=> x \in spoiled
      PROVE  Vetted'
  BY <1>1, <1>2, <1>3 DEF Vetted
\* Options that obey are within what was applied once they are set up.
<1>4. ASSUME NEW e \in Easies, Obeys(e, attrs'[e], override'[e], cleared'[e]),
             cleared'[e] # Unseen, Within(native'[e], cleared'[e])
      PROVE  SetUpWithin(e)'
  BY <1>4 DEF SetUpWithin, GivenAsAsked, Within, Obeys
<1>5. Unseen \notin Applicable BY SafetyAssumption DEF Typed, Applicable
<1>6. ASSUME NEW e \in Easies, SafeHttp(e) \/ UserSets(e) PROVE Vetted'
  <2>1. UNCHANGED <<native, cleared, multiVars>> BY <1>6 DEF SafeHttp, UserSets
  <2>2. Subjects' = Subjects BY <2>1 DEF multiVars, Subjects, Phase, Reading
  <2>3. ASSUME NEW x \in Subjects PROVE AtOnceWithin(x)' /\ SetUpWithin(x)'
    <3>1. x \in Easies /\ AtOnceWithin(x) /\ SetUpWithin(x) BY SubjectFacts DEF Typed, Vetted
    <3> QED BY <1>1, <1>6, <2>1, <3>1, AtOnceStep DEF multiVars
  <2> QED BY <2>2, <2>3 DEF Vetted
<1>7. ASSUME NEW t \in Changers[program],
             \/ \E c \in Configs[program] \cup {NoConfig} : StoreConfig(t, c)
             \/ ReadGeneration(t) \/ BumpGeneration(t)
      PROVE  Vetted'
  <2>1. UNCHANGED <<easyVars, multiVars>>
    BY <1>7 DEF StoreConfig, ReadGeneration, BumpGeneration
  <2>2. Subjects' = Subjects BY <2>1 DEF multiVars, Subjects, Phase, Reading
  <2> QED BY <1>3, <2>1, <2>2 DEF easyVars, multiVars
<1>8. ASSUME NEW e \in Easies, Reset(e) PROVE Vetted'
  <2>1. /\ UNCHANGED <<under, own, cleared, multiVars>> /\ e \notin attached
        /\ attrs' = [attrs EXCEPT ![e] = Fresh] /\ native' = [native EXCEPT ![e] = Bare]
        /\ override' = [override EXCEPT ![e] = FALSE]
    BY <1>8 DEF Reset
  <2>2. Subjects' = Subjects BY <2>1 DEF multiVars, Subjects, Phase, Reading
  <2>3. \A x \in Subjects : attrs'[x] = attrs[x] /\ native'[x] = native[x]
                            /\ override'[x] = override[x]
    BY <2>1, SubjectFacts DEF Typed
  <2> QED BY <1>3, <2>1, <2>2, <2>3 DEF multiVars
<1>9. ASSUME NEW e \in Easies, Add(e), UNCHANGED program PROVE Vetted'
  <2>1. /\ AtRest /\ e \notin attached /\ Apply(e)
        /\ UNCHANGED <<confVars, override, overrideGen, signature, todo, doubtful, spoiled>>
    BY <1>9 DEF Add
  <2>2. /\ ApplySafety(e, override[e]) /\ override[e] \in BOOLEAN /\ cleared'[e] = config
        /\ \A x \in Easies \ {e} : cleared'[x] = cleared[x]
    BY <2>1, TakenFacts
  <2>3. /\ attrs' \in [Easies -> Options] /\ under'[e] = config
        /\ ~Refused(e, attrs[e], override[e]) => attrs'[e] = Settings(attrs[e], override[e])
        /\ \A x \in Easies \ {e} :
             attrs'[x] = attrs[x] /\ under'[x] = under[x] /\ own'[x] = own[x]
    BY <2>2, ApplyFacts
  <2>4. PICK a \in Options : a = attrs'[e] BY <2>3
  <2>5. native' = native \/ native' = [native EXCEPT ![e] = Setup(a)]
    BY <1>9, <2>4 DEF Add
  <2>6. Subjects = running /\ running \subseteq Easies \ {e} /\ Phase = pc
    BY <2>1, SubjectFacts, RestFacts DEF Typed
  <2>7. \A x \in Easies \ {e} : native'[x] = native[x] BY <2>5, InstallFacts
  <2>8. ASSUME NEW x \in running PROVE AtOnceWithin(x)' /\ SetUpWithin(x)'
    <3>1. AtOnceWithin(x) /\ SetUpWithin(x) /\ x \in Easies \ {e} BY <2>6 DEF Vetted
    <3> QED BY <1>1, <1>2, <2>1, <2>2, <2>3, <2>7, <3>1
  <2>9. CASE UNCHANGED <<running, pc, back>> /\ UNCHANGED attached
    <3>1. Subjects' = running BY <2>1, <2>6, <2>9 DEF Subjects, Phase, Reading
    <3> QED BY <2>8, <3>1 DEF Vetted
  <2>10. CASE /\ ~Refused(e, attrs[e], override[e]) /\ pc' = "signing" /\ Takes(e)
              /\ native' = [native EXCEPT ![e] = Setup(attrs'[e])]
              /\ running' \subseteq running \cup {e}
    <3>1. Subjects' \subseteq running \cup {e}
      BY <2>1, <2>10 DEF Subjects, Phase, Reading, Takes, AtRest
    <3>2. attrs[e] \in Options BY DEF Typed
    <3>3. Obeys(e, a, override'[e], config)
      BY <2>1, <2>2, <2>3, <2>4, <2>10, <3>2, AppliedObeys
    <3>4. Within(native'[e], config) BY <2>4, <2>10, <3>3, InstallFacts, SetupWithin
    <3>5. config \in Applicable BY DEF Typed
    <3>6. SetUpWithin(e)' BY <1>4, <1>5, <2>2, <2>4, <3>3, <3>4, <3>5
    <3>7. AtOnceWithin(e)' BY <2>3, <2>4, <3>3 DEF AtOnceWithin, Obeys
    <3> QED BY <2>8, <3>1, <3>6, <3>7 DEF Vetted
  <2> QED BY <1>9, <2>9, <2>10 DEF Add
<1>10. ASSUME NEW e \in Easies, RemoveEasy(e) \/ EndOne(e) PROVE Vetted'
  <2>1. /\ AtRest /\ Detach(e) /\ UNCHANGED <<attrs, override, native, pc, back>>
        /\ UNCHANGED todo
    BY <1>10 DEF RemoveEasy, EndOne, AtRest
  <2>2. Subjects = running /\ Subjects' = running \ {e}
    BY <2>1 DEF Detach, Subjects, Phase, Reading, AtRest
  <2>3. \A x \in running \ {e} :
          /\ under'[x] = under[x] /\ own'[x] = own[x] /\ cleared'[x] = cleared[x]
          /\ x \in doubtful' <=> x \in doubtful
          /\ x \in spoiled' <=> x \in spoiled
    BY <2>1 DEF Detach, Typed
  <2> QED BY <1>3, <2>1, <2>2, <2>3
<1>11. ASSUME NEW e \in Easies, PerformOne(e), UNCHANGED program PROVE Vetted'
  <2>1. /\ pc = "applying" /\ e \in todo /\ Apply(e)
        /\ UNCHANGED <<override, native, attached, running, doubtful, spoiled>>
    BY <1>11 DEF PerformOne
  <2>2. Phase = "applying" /\ running = {} BY <2>1, RestFacts DEF Typed
  <2>3. Subjects' \subseteq Subjects
    BY <1>11, <2>1, <2>2 DEF PerformOne, Subjects, Phase, Reading, Takes
  <2>4. \A x \in Subjects : x # e /\ x \in Easies BY <2>1, <2>2 DEF Subjects, Typed
  <2>5. \A x \in Easies \ {e} : cleared'[x] = cleared[x] BY <2>1, TakenFacts
  <2>6. \A x \in Easies \ {e} :
          attrs'[x] = attrs[x] /\ under'[x] = under[x] /\ own'[x] = own[x]
    BY <2>1, TakenFacts, ApplyFacts
  <2> QED BY <1>3, <2>1, <2>3, <2>4, <2>5, <2>6
<1>12. ASSUME Perform PROVE Vetted'
  <2>1. Subjects' = {} BY <1>12 DEF Perform, ToApply, Subjects, Phase, Reading
  <2> QED BY <2>1 DEF Vetted
<1>13. ASSUME AskActive PROVE Vetted'
  <2>1. Subjects' = Subjects BY <1>13 DEF AskActive, Subjects, Phase, Reading
  <2> QED BY <1>3, <1>13, <2>1 DEF AskActive, easyVars
\* The easy in hand when it is released, however it got its options.
<1>14. ASSUME NEW e \in Easies, e = inHand, Reading, UNCHANGED <<attrs, override, under, own, cleared>>,
              \/ Within(native'[e], cleared[e])
              \/ /\ e \in doubtful'
                 /\ e \notin spoiled' => /\ native'[e].policy = attrs[e].policy
                                         /\ native'[e].hosts = attrs[e].hosts
       PROVE  AtOnceWithin(e)' /\ SetUpWithin(e)'
  <2>1. /\ cleared[e] \in Applicable /\ under[e] = cleared[e]
        /\ Obeys(e, attrs[e], override[e], cleared[e])
    BY <1>14 DEF Hand
  <2>2. AtOnceWithin(e)' BY <1>14, <2>1 DEF AtOnceWithin, Obeys
  <2>3. ASSUME Within(native'[e], cleared[e]) PROVE SetUpWithin(e)'
    BY <1>4, <1>5, <1>14, <2>1, <2>3
  <2>4. ASSUME e \in doubtful',
               e \notin spoiled' => /\ native'[e].policy = attrs[e].policy
                                    /\ native'[e].hosts = attrs[e].hosts
        PROVE  SetUpWithin(e)'
    BY <1>5, <1>14, <2>1, <2>4 DEF SetUpWithin, GivenAsAsked, Obeys
  <2> QED BY <1>14, <2>2, <2>3, <2>4
<1>15. ASSUME RecordAdded PROVE Vetted'
  <2>1. PICK e \in Easies : e = inHand BY <1>15, RestFacts DEF RecordAdded, Reading
  <2>2. /\ Reading /\ back # "applying" /\ pc' = back
        /\ doubtful' = Doubt /\ spoiled' = spoiled \ {e}
        /\ UNCHANGED <<easyVars, attached, todo, running>>
    BY <1>15, <2>1 DEF RecordAdded, Reading
  <2>3. Subjects' = Subjects
    BY <2>2, Released, <1>15 DEF RecordAdded, Subjects, Phase, Reading, Typed
  <2>4. PICK a \in Options : a = attrs[e] BY DEF Typed
  <2>5. Within(native'[e], cleared[e])
    <3>1. native[e] = Setup(a) /\ Obeys(e, a, override[e], cleared[e])
      BY <2>1, <2>2, <2>4 DEF Hand
    <3> QED BY <2>2, <3>1, SetupWithin DEF easyVars
  <2>6. AtOnceWithin(e)' /\ SetUpWithin(e)' BY <1>14, <2>1, <2>2, <2>5 DEF easyVars
  <2>7. ASSUME NEW x \in Subjects, x # e PROVE AtOnceWithin(x)' /\ SetUpWithin(x)'
    <3>1. AtOnceWithin(x) /\ SetUpWithin(x) BY DEF Vetted
    <3> QED BY <1>1, <1>2, <2>1, <2>2, <2>7, <3>1 DEF Doubt, easyVars
  <2> QED BY <2>3, <2>6, <2>7 DEF Vetted
<1>16. ASSUME SkipSetup, UNCHANGED program PROVE Vetted'
  <2>1. PICK e \in Easies : e = inHand BY <1>16, RestFacts DEF SkipSetup, Reading
  <2>2. /\ Reading /\ pc = "dating" /\ back = "applying" /\ pc' = "applying"
        /\ todo' = todo \ {e} /\ doubtful' = doubtful \cup Doubt
        /\ signature[e] = Signature(e, attrs[e], active)
        /\ UNCHANGED <<easyVars, attached, running, spoiled>>
    BY <1>16, <2>1 DEF SkipSetup, Reading
  <2>3. Subjects' \subseteq Subjects \cup {e} /\ Subjects = attached \ todo
    BY <2>2 DEF Subjects, Phase, Reading
  <2>4. Recorded(e) /\ Dated(e) BY <2>1, <2>2 DEF Signed, WithSignature, Typed
  <2>5. /\ signature[e][2] = attrs[e].policy /\ signature[e][3] = attrs[e].hosts
        /\ active => signature[e][1] = <<generation, overrideGen[e]>>
    BY <2>2, SignatureFacts DEF Typed
  <2>6. ASSUME e \notin doubtful' PROVE Within(native'[e], cleared[e])
    <3>1. ~overlapped /\ e \notin doubtful BY <2>1, <2>2, <2>6 DEF Doubt
    <3>2. ~Changing /\ config = cleared[e] /\ active = Active(e) BY <2>1, <2>2, <3>1 DEF Hand
    <3>3. CASE config = NoConfig BY <3>2, <3>3 DEF Within
    <3>4. CASE config # NoConfig
      <4>1. signature[e][1] = <<generation, overrideGen[e]>> BY <2>5, <3>2, <3>4 DEF Active
      <4>2. generation \in Nat /\ overrideGen[e] \in Nat BY DEF Typed
      <4>3. Within(native[e], config) BY <2>4, <3>1, <3>2, <4>1, <4>2 DEF Dated
      <4> QED BY <2>2, <3>2, <4>3 DEF easyVars
    <3> QED BY <3>3, <3>4
  <2>7. e \notin spoiled' => native'[e].policy = attrs[e].policy /\ native'[e].hosts = attrs[e].hosts
    BY <2>2, <2>4, <2>5 DEF Recorded, easyVars
  <2>8. AtOnceWithin(e)' /\ SetUpWithin(e)' BY <1>14, <2>1, <2>2, <2>6, <2>7 DEF easyVars
  <2>9. ASSUME NEW x \in Subjects, x # e PROVE AtOnceWithin(x)' /\ SetUpWithin(x)'
    <3>1. AtOnceWithin(x) /\ SetUpWithin(x) BY DEF Vetted
    <3> QED BY <1>1, <1>2, <2>1, <2>2, <2>9, <3>1 DEF Doubt, easyVars
  <2> QED BY <2>3, <2>8, <2>9 DEF Vetted
<1>17. ASSUME NEW o \in Outcomes, SetupAgain(o) PROVE Vetted'
  <2>1. PICK e \in Easies : e = inHand BY <1>17, RestFacts DEF SetupAgain, Reading
  <2>2. PICK a \in Options : a = attrs[e] BY DEF Typed
  <2>3. /\ Reading /\ back = "applying" /\ UNCHANGED <<attached, running>>
        /\ UNCHANGED <<attrs, override, under, own, cleared>>
    BY <1>17 DEF SetupAgain, Reading
  <2>4. CASE o # "done"
    <3>1. pc' = "idle" /\ running = {}
      BY <1>17, <2>3, <2>4 DEF SetupAgain, Typed, Phase
    <3>2. Subjects' = {} BY <2>3, <3>1 DEF Subjects, Phase, Reading
    <3> QED BY <3>2 DEF Vetted
  <2>5. CASE o = "done"
    <3>1. /\ todo' = todo \ {e} /\ pc' = "applying"
          /\ native' = [native EXCEPT ![e] = Setup(a)]
          /\ doubtful' = Doubt /\ spoiled' = spoiled \ {e}
      BY <1>17, <2>1, <2>2, <2>3, <2>5 DEF SetupAgain
    <3>2. Subjects' \subseteq Subjects \cup {e} /\ Subjects = attached \ todo
      BY <2>3, <3>1 DEF Subjects, Phase, Reading
    <3>3. Obeys(e, a, override[e], cleared[e]) BY <2>1, <2>2, <2>3 DEF Hand
    <3>4. Within(native'[e], cleared[e]) BY <3>1, <3>3, InstallFacts, SetupWithin
    <3>5. AtOnceWithin(e)' /\ SetUpWithin(e)' BY <1>14, <2>1, <2>3, <3>4
    <3>6. ASSUME NEW x \in Subjects, x # e PROVE AtOnceWithin(x)' /\ SetUpWithin(x)'
      <4>1. AtOnceWithin(x) /\ SetUpWithin(x) BY DEF Vetted
      <4>2. native'[x] = native[x] BY <3>1, <3>2, <3>6, InstallFacts DEF Typed
      <4> QED BY <1>1, <1>2, <2>1, <2>3, <3>1, <3>6, <4>1, <4>2 DEF Doubt
    <3> QED BY <3>2, <3>5, <3>6 DEF Vetted
  <2> QED BY <2>4, <2>5
<1>18. ASSUME NativePerform \/ PerformReturns PROVE Vetted'
  <2>1. UNCHANGED <<easyVars, attached, doubtful, spoiled>>
    BY <1>18 DEF NativePerform, PerformReturns
  <2>2. Subjects' \subseteq Subjects
    BY <1>18 DEF NativePerform, PerformReturns, Subjects, Phase, Reading
  <2> QED BY <1>3, <2>1, <2>2 DEF easyVars
<1>19. CASE UNCHANGED vars
  <2>1. Subjects' = Subjects BY <1>19 DEF vars, multiVars, Subjects, Phase, Reading
  <2> QED BY <1>3, <1>19, <2>1 DEF vars, easyVars, multiVars
<1>20. \A e \in Used[program] : e \in Easies BY SafetyAssumption DEF Typed
<1> QED BY <1>6, <1>7, <1>8, <1>9, <1>10, <1>11, <1>12, <1>13, <1>15, <1>16, <1>17, <1>18,
           <1>19, <1>20 DEF Next

\* A transfer runs within the policy that was in force when perform was called,
\* or a later one: for any programs, configurations and easies, and however the
\* steps of safe! in other threads come between those of add and perform
\* (Multi#perform, apply_safety!, setup).
THEOREM AlwaysWithinPolicy == Spec => []RunsWithinPolicy
<1>1. ASSUME Init PROVE Vetted
  BY <1>1 DEF Init, Vetted, Subjects, Phase, Reading
<1>2. Typed /\ Vetted => RunsWithinPolicy
  BY SubjectFacts DEF Vetted, RunsWithinPolicy
<1> QED BY <1>1, <1>2, SignedInvariant, VettedStep, PTL DEF Spec

-----------------------------------------------------------------------------
(***************************************************************************)
(* NetworkPolicy, for any addresses, lists, URLs and order of the setters. *)
(* First the bits of a byte.                                               *)
(***************************************************************************)

\* The weights, one by one.
LEMMA WeightFacts ==
  /\ Weight[1] = 128 /\ Weight[2] = 64 /\ Weight[3] = 32 /\ Weight[4] = 16
  /\ Weight[5] = 8 /\ Weight[6] = 4 /\ Weight[7] = 2 /\ Weight[8] = 1
BY DEF Weight

\* The number that the first n bits of a byte spell.
Leading(b, n) == b \div Weight[n]

\* One bit more doubles it and adds the bit.
LEMMA LeadingFacts ==
  ASSUME NEW b \in Bytes
  PROVE  /\ Leading(b, 1) = BitOf(b, 1) /\ BitOf(b, 1) \in {0, 1}
         /\ \A n \in 1 .. 7 : /\ Leading(b, n) \in Nat /\ BitOf(b, n + 1) \in {0, 1}
                              /\ Leading(b, n + 1) = 2 * Leading(b, n) + BitOf(b, n + 1)
         /\ Leading(b, 8) = b
<1>1. Leading(b, 1) = BitOf(b, 1) /\ BitOf(b, 1) \in {0, 1} /\ Leading(b, 8) = b
  BY WeightFacts DEF Leading, BitOf, Bytes
<1>2. ASSUME NEW n \in 1 .. 7
      PROVE  /\ Leading(b, n) \in Nat /\ BitOf(b, n + 1) \in {0, 1}
             /\ Leading(b, n + 1) = 2 * Leading(b, n) + BitOf(b, n + 1)
  <2>1. CASE n = 1 BY <2>1, WeightFacts DEF Leading, BitOf, Bytes
  <2>2. CASE n = 2 BY <2>2, WeightFacts DEF Leading, BitOf, Bytes
  <2>3. CASE n = 3 BY <2>3, WeightFacts DEF Leading, BitOf, Bytes
  <2>4. CASE n = 4 BY <2>4, WeightFacts DEF Leading, BitOf, Bytes
  <2>5. CASE n = 5 BY <2>5, WeightFacts DEF Leading, BitOf, Bytes
  <2>6. CASE n = 6 BY <2>6, WeightFacts DEF Leading, BitOf, Bytes
  <2>7. CASE n = 7 BY <2>7, WeightFacts DEF Leading, BitOf, Bytes
  <2> QED BY <2>1, <2>2, <2>3, <2>4, <2>5, <2>6, <2>7
<1> QED BY <1>1, <1>2

\* Doubling and adding a bit loses nothing.
LEMMA DoubledFacts ==
  ASSUME NEW x \in Nat, NEW y \in Nat, NEW p \in {0, 1}, NEW q \in {0, 1}
  PROVE  2 * x + p = 2 * y + q <=> x = y /\ p = q
OBVIOUS

\* Two bytes agree on their first n bits exactly where the numbers do.
LEMMA LeadingBits ==
  ASSUME NEW b \in Bytes, NEW c \in Bytes, NEW n \in 1 .. 8
  PROVE  Leading(b, n) = Leading(c, n) <=> \A j \in 1 .. n : BitOf(b, j) = BitOf(c, j)
<1> DEFINE Same(m) == Leading(b, m) = Leading(c, m)
           Bits(m) == \A j \in 1 .. m : BitOf(b, j) = BitOf(c, j)
<1>1. Same(1) <=> Bits(1) BY LeadingFacts
<1>2. ASSUME NEW m \in 1 .. 7, Same(m) <=> Bits(m) PROVE Same(m + 1) <=> Bits(m + 1)
  <2>1. \A d \in {b, c} : /\ Leading(d, m) \in Nat /\ BitOf(d, m + 1) \in {0, 1}
                          /\ Leading(d, m + 1) = 2 * Leading(d, m) + BitOf(d, m + 1)
    BY LeadingFacts
  <2>2. Same(m + 1) <=> Same(m) /\ BitOf(b, m + 1) = BitOf(c, m + 1) BY <2>1, DoubledFacts
  <2>3. Bits(m + 1) <=> Bits(m) /\ BitOf(b, m + 1) = BitOf(c, m + 1) OBVIOUS
  <2> QED BY <1>2, <2>2, <2>3
<1> HIDE DEF Same, Bits
<1>3. Same(2) <=> Bits(2) BY <1>1, <1>2
<1>4. Same(3) <=> Bits(3) BY <1>2, <1>3
<1>5. Same(4) <=> Bits(4) BY <1>2, <1>4
<1>6. Same(5) <=> Bits(5) BY <1>2, <1>5
<1>7. Same(6) <=> Bits(6) BY <1>2, <1>6
<1>8. Same(7) <=> Bits(7) BY <1>2, <1>7
<1>9. Same(8) <=> Bits(8) BY <1>2, <1>8
<1>10. n \in {1, 2, 3, 4, 5, 6, 7, 8} OBVIOUS
<1>11. Same(n) <=> Bits(n) BY <1>1, <1>3, <1>4, <1>5, <1>6, <1>7, <1>8, <1>9, <1>10
<1> QED BY <1>11 DEF Same, Bits

\* A byte is its eight bits.
LEMMA ByteBits ==
  ASSUME NEW b \in Bytes, NEW c \in Bytes
  PROVE  b = c <=> \A j \in 1 .. 8 : BitOf(b, j) = BitOf(c, j)
<1>1. Leading(b, 8) = b /\ Leading(c, 8) = c BY LeadingFacts
<1>2. Leading(b, 8) = Leading(c, 8) <=> \A j \in 1 .. 8 : BitOf(b, j) = BitOf(c, j)
  BY LeadingBits
<1> QED BY <1>1, <1>2

\* What the mask of n leading ones keeps is the first n bits.
LEMMA MaskedBits ==
  ASSUME NEW b \in Bytes, NEW c \in Bytes, NEW n \in 1 .. 7
  PROVE  Masked(b, n) = Masked(c, n) <=> \A j \in 1 .. n : BitOf(b, j) = BitOf(c, j)
<1>1. Weight[n] \in {128, 64, 32, 16, 8, 4, 2} BY WeightFacts
<1>2. PICK w \in {128, 64, 32, 16, 8, 4, 2} : w = Weight[n] BY <1>1
<1>3. Masked(b, n) = Masked(c, n) <=> b \div w = c \div w
  <2>1. \A d \in {b, c} : d - (d % w) = w * (d \div w) /\ d \div w \in Nat BY DEF Bytes
  <2>2. \A x, y \in Nat : w * x = w * y <=> x = y OBVIOUS
  <2> QED BY <1>2, <2>1, <2>2 DEF Masked
<1>4. Leading(b, n) = Leading(c, n) <=> \A j \in 1 .. n : BitOf(b, j) = BitOf(c, j)
  BY LeadingBits
<1> QED BY <1>2, <1>3, <1>4 DEF Leading

\* Where the bit j of the byte k + 1 is.
LEMMA BitPlace ==
  ASSUME NEW k \in Nat, NEW j \in 1 .. 8
  PROVE  ((8 * k + j - 1) \div 8) + 1 = k + 1 /\ ((8 * k + j - 1) % 8) + 1 = j
<1>1. PICK m \in Nat : m = 8 * k + j - 1 OBVIOUS
<1>2. m = 8 * (m \div 8) + (m % 8) /\ m % 8 \in 0 .. 7 /\ m \div 8 \in Nat OBVIOUS
<1>3. PICK q \in Nat, r \in 0 .. 7 : q = m \div 8 /\ r = m % 8 /\ m = 8 * q + r BY <1>2
<1>4. q = k /\ r = j - 1 BY <1>1, <1>3
<1> QED BY <1>1, <1>3, <1>4

\* Which bit of which byte it is.
LEMMA BitAt ==
  ASSUME NEW s, NEW k \in Nat, NEW j \in 1 .. 8
  PROVE  Bit(s, 8 * k + j) = BitOf(s[k + 1], j)
<1>1. PICK n : n = 8 * k + j OBVIOUS
<1>2. ((n - 1) \div 8) + 1 = k + 1 /\ ((n - 1) % 8) + 1 = j BY <1>1, BitPlace
<1>3. Bit(s, n) = BitOf(s[((n - 1) \div 8) + 1], ((n - 1) % 8) + 1) BY Zenon DEF Bit
<1>4. Bit(s, n) = BitOf(s[k + 1], j) BY <1>2, <1>3, Zenon
<1> QED BY <1>1, <1>4, Zenon

\* Whole bytes and a mask agree with the definition of a CIDR block.
LEMMA PrefixIsBlock ==
  ASSUME NEW ip \in Seq(Bytes), NEW a \in Seq(Bytes), NEW bits \in Nat,
         bits <= 8 * Len(ip), bits <= 8 * Len(a)
  PROVE  PrefixMatches(ip, a, bits) <=> InBlock(ip, a, bits)
<1>1. PICK full \in Nat, rest \in 0 .. 7 : bits = 8 * full + rest /\ full = bits \div 8
      /\ rest = bits % 8
  <2>1. bits \div 8 \in Nat /\ bits % 8 \in 0 .. 7 OBVIOUS
  <2>2. bits = 8 * (bits \div 8) + (bits % 8) OBVIOUS
  <2> QED BY <2>1, <2>2
<1>2. ASSUME NEW i \in 1 .. full PROVE ip[i] \in Bytes /\ a[i] \in Bytes
  <2>1. PICK m \in Nat, n \in Nat : m = Len(ip) /\ n = Len(a) OBVIOUS
  <2>2. full <= m /\ full <= n BY <1>1, <2>1
  <2>3. i \in 1 .. Len(ip) /\ i \in 1 .. Len(a) BY <2>1, <2>2
  <2> QED BY <2>3
<1>3. ASSUME rest > 0 PROVE ip[full + 1] \in Bytes /\ a[full + 1] \in Bytes
  <2>1. bits > 8 * full BY <1>1, <1>3
  <2>2. PICK m \in Nat, n \in Nat : m = Len(ip) /\ n = Len(a) OBVIOUS
  <2>3. full < m /\ full < n BY <2>1, <2>2
  <2>4. full + 1 \in 1 .. Len(ip) /\ full + 1 \in 1 .. Len(a) BY <2>2, <2>3
  <2> QED BY <2>4
<1>4. PrefixMatches(ip, a, bits) <=>
        /\ \A i \in 1 .. full : ip[i] = a[i]
        /\ rest > 0 => Masked(ip[full + 1], rest) = Masked(a[full + 1], rest)
  BY <1>1 DEF PrefixMatches
<1>5. (\A i \in 1 .. full : ip[i] = a[i])
        <=> \A i \in 1 .. full : \A j \in 1 .. 8 : BitOf(ip[i], j) = BitOf(a[i], j)
  <2>1. ASSUME NEW i \in 1 .. full
        PROVE  ip[i] = a[i] <=> \A j \in 1 .. 8 : BitOf(ip[i], j) = BitOf(a[i], j)
    BY <1>2, ByteBits, Zenon
  <2> QED BY <2>1, Zenon
<1>6. rest > 0 => (Masked(ip[full + 1], rest) = Masked(a[full + 1], rest)
                     <=> \A j \in 1 .. rest : BitOf(ip[full + 1], j) = BitOf(a[full + 1], j))
  <2>1. ASSUME rest > 0 PROVE rest \in 1 .. 7 BY <2>1
  <2> QED BY <1>3, <2>1, MaskedBits, Zenon
<1>7. ASSUME InBlock(ip, a, bits) PROVE PrefixMatches(ip, a, bits)
  <2>1. \A i \in 1 .. bits : Bit(ip, i) = Bit(a, i) BY <1>7 DEF InBlock
  <2>2. ASSUME NEW i \in 1 .. full, NEW j \in 1 .. 8 PROVE BitOf(ip[i], j) = BitOf(a[i], j)
    <3>0. PICK k \in Nat : i = k + 1 BY <1>1
    <3>1. 8 * k + j \in 1 .. bits BY <1>1, <3>0
    <3>2. Bit(ip, 8 * k + j) = Bit(a, 8 * k + j) BY <2>1, <3>1
    <3>3. Bit(ip, 8 * k + j) = BitOf(ip[k + 1], j) /\ Bit(a, 8 * k + j) = BitOf(a[k + 1], j)
      BY BitAt
    <3> QED BY <3>0, <3>2, <3>3, Zenon
  <2>3. ASSUME NEW j \in 1 .. rest PROVE BitOf(ip[full + 1], j) = BitOf(a[full + 1], j)
    <3>1. 8 * full + j \in 1 .. bits BY <1>1
    <3>2. Bit(ip, 8 * full + j) = Bit(a, 8 * full + j) BY <2>1, <3>1
    <3>3. j \in 1 .. 8 BY <1>1
    <3>4. /\ Bit(ip, 8 * full + j) = BitOf(ip[full + 1], j)
          /\ Bit(a, 8 * full + j) = BitOf(a[full + 1], j)
      BY <1>1, <3>3, BitAt, Zenon
    <3> QED BY <3>2, <3>4, Zenon
  <2> QED BY <1>4, <1>5, <1>6, <2>2, <2>3
<1>8. ASSUME PrefixMatches(ip, a, bits), NEW i \in 1 .. bits PROVE Bit(ip, i) = Bit(a, i)
  <2>1. PICK k \in Nat, j \in 1 .. 8 : k = (i - 1) \div 8 /\ j = ((i - 1) % 8) + 1 OBVIOUS
  <2>2. i = 8 * k + j BY <2>1
  <2>3. CASE k < full
    <3>1. ip[k + 1] = a[k + 1] BY <1>4, <1>8, <2>3
    <3> QED BY <2>1, <3>1 DEF Bit
  <2>4. CASE ~(k < full)
    <3>1. k = full /\ j \in 1 .. rest BY <1>1, <2>2, <2>4
    <3>2. BitOf(ip[full + 1], j) = BitOf(a[full + 1], j) BY <1>4, <1>6, <1>8, <3>1
    <3> QED BY <2>1, <3>1, <3>2 DEF Bit
  <2> QED BY <2>3, <2>4
<1> QED BY <1>7, <1>8 DEF InBlock

\* The first k bytes are the same.
AgreeOn(ip, a, k) == \A i \in 1 .. k : ip[i] = a[i]

\* What the loop and the mask look at, for the lengths of the blocks: three
\* bits, as in 224.0.0.0/3.
LEMMA Block3 ==
  ASSUME NEW ip \in Seq(Bytes), NEW a \in Seq(Bytes), Len(ip) >= 1, Len(a) >= 1
  PROVE  /\ InBlock(ip, a, 3) <=> Masked(ip[1], 3) = Masked(a[1], 3)
         /\ PrefixMatches(ip, a, 3) <=> InBlock(ip, a, 3)
<1>1. InBlock(ip, a, 3) <=> PrefixMatches(ip, a, 3) BY PrefixIsBlock
<1>2. 3 \div 8 = 0 /\ 3 % 8 = 3 OBVIOUS
<1>3. PrefixMatches(ip, a, 3) <=> Masked(ip[1], 3) = Masked(a[1], 3)
  BY <1>2 DEF PrefixMatches
<1> QED BY <1>1, <1>3

\* Seven bits, as in fc00::/7.
LEMMA Block7 ==
  ASSUME NEW ip \in Seq(Bytes), NEW a \in Seq(Bytes), Len(ip) >= 1, Len(a) >= 1
  PROVE  /\ InBlock(ip, a, 7) <=> Masked(ip[1], 7) = Masked(a[1], 7)
         /\ PrefixMatches(ip, a, 7) <=> InBlock(ip, a, 7)
<1>1. InBlock(ip, a, 7) <=> PrefixMatches(ip, a, 7) BY PrefixIsBlock
<1>2. 7 \div 8 = 0 /\ 7 % 8 = 7 OBVIOUS
<1>3. PrefixMatches(ip, a, 7) <=> Masked(ip[1], 7) = Masked(a[1], 7)
  BY <1>2 DEF PrefixMatches
<1> QED BY <1>1, <1>3

\* One byte.
LEMMA Block8 ==
  ASSUME NEW ip \in Seq(Bytes), NEW a \in Seq(Bytes), Len(ip) >= 1, Len(a) >= 1
  PROVE  /\ InBlock(ip, a, 8) <=> ip[1] = a[1]
         /\ PrefixMatches(ip, a, 8) <=> InBlock(ip, a, 8)
<1>1. InBlock(ip, a, 8) <=> PrefixMatches(ip, a, 8) BY PrefixIsBlock
<1>2. 8 \div 8 = 1 /\ 8 % 8 = 0 OBVIOUS
<1>3. PrefixMatches(ip, a, 8) <=> ip[1] = a[1]
  BY <1>2 DEF PrefixMatches
<1> QED BY <1>1, <1>3

\* A byte and two bits.
LEMMA Block10 ==
  ASSUME NEW ip \in Seq(Bytes), NEW a \in Seq(Bytes), Len(ip) >= 2, Len(a) >= 2
  PROVE  /\ InBlock(ip, a, 10) <=> ip[1] = a[1] /\ Masked(ip[2], 2) = Masked(a[2], 2)
         /\ PrefixMatches(ip, a, 10) <=> InBlock(ip, a, 10)
<1>1. InBlock(ip, a, 10) <=> PrefixMatches(ip, a, 10) BY PrefixIsBlock
<1>2. 10 \div 8 = 1 /\ 10 % 8 = 2 OBVIOUS
<1>3. PrefixMatches(ip, a, 10) <=> ip[1] = a[1] /\ Masked(ip[2], 2) = Masked(a[2], 2)
  BY <1>2 DEF PrefixMatches
<1> QED BY <1>1, <1>3

\* A byte and four bits.
LEMMA Block12 ==
  ASSUME NEW ip \in Seq(Bytes), NEW a \in Seq(Bytes), Len(ip) >= 2, Len(a) >= 2
  PROVE  /\ InBlock(ip, a, 12) <=> ip[1] = a[1] /\ Masked(ip[2], 4) = Masked(a[2], 4)
         /\ PrefixMatches(ip, a, 12) <=> InBlock(ip, a, 12)
<1>1. InBlock(ip, a, 12) <=> PrefixMatches(ip, a, 12) BY PrefixIsBlock
<1>2. 12 \div 8 = 1 /\ 12 % 8 = 4 OBVIOUS
<1>3. PrefixMatches(ip, a, 12) <=> ip[1] = a[1] /\ Masked(ip[2], 4) = Masked(a[2], 4)
  BY <1>2 DEF PrefixMatches
<1> QED BY <1>1, <1>3

\* A byte and seven bits.
LEMMA Block15 ==
  ASSUME NEW ip \in Seq(Bytes), NEW a \in Seq(Bytes), Len(ip) >= 2, Len(a) >= 2
  PROVE  /\ InBlock(ip, a, 15) <=> ip[1] = a[1] /\ Masked(ip[2], 7) = Masked(a[2], 7)
         /\ PrefixMatches(ip, a, 15) <=> InBlock(ip, a, 15)
<1>1. InBlock(ip, a, 15) <=> PrefixMatches(ip, a, 15) BY PrefixIsBlock
<1>2. 15 \div 8 = 1 /\ 15 % 8 = 7 OBVIOUS
<1>3. PrefixMatches(ip, a, 15) <=> ip[1] = a[1] /\ Masked(ip[2], 7) = Masked(a[2], 7)
  BY <1>2 DEF PrefixMatches
<1> QED BY <1>1, <1>3

\* Two bytes.
LEMMA Block16 ==
  ASSUME NEW ip \in Seq(Bytes), NEW a \in Seq(Bytes), Len(ip) >= 2, Len(a) >= 2
  PROVE  /\ InBlock(ip, a, 16) <=> ip[1] = a[1] /\ ip[2] = a[2]
         /\ PrefixMatches(ip, a, 16) <=> InBlock(ip, a, 16)
<1>1. InBlock(ip, a, 16) <=> PrefixMatches(ip, a, 16) BY PrefixIsBlock
<1>2. 16 \div 8 = 2 /\ 16 % 8 = 0 OBVIOUS
<1>3. PrefixMatches(ip, a, 16) <=> ip[1] = a[1] /\ ip[2] = a[2]
  BY <1>2 DEF PrefixMatches
<1> QED BY <1>1, <1>3

\* Three bytes.
LEMMA Block24 ==
  ASSUME NEW ip \in Seq(Bytes), NEW a \in Seq(Bytes), Len(ip) >= 3, Len(a) >= 3
  PROVE  /\ InBlock(ip, a, 24) <=> ip[1] = a[1] /\ ip[2] = a[2] /\ ip[3] = a[3]
         /\ PrefixMatches(ip, a, 24) <=> InBlock(ip, a, 24)
<1>1. InBlock(ip, a, 24) <=> PrefixMatches(ip, a, 24) BY PrefixIsBlock
<1>2. 24 \div 8 = 3 /\ 24 % 8 = 0 OBVIOUS
<1>3. PrefixMatches(ip, a, 24) <=> ip[1] = a[1] /\ ip[2] = a[2] /\ ip[3] = a[3]
  BY <1>2 DEF PrefixMatches
<1> QED BY <1>1, <1>3

\* Four bytes.
LEMMA Block32 ==
  ASSUME NEW ip \in Seq(Bytes), NEW a \in Seq(Bytes), Len(ip) >= 4, Len(a) >= 4
  PROVE  /\ InBlock(ip, a, 32) <=> AgreeOn(ip, a, 4)
         /\ PrefixMatches(ip, a, 32) <=> InBlock(ip, a, 32)
<1>1. InBlock(ip, a, 32) <=> PrefixMatches(ip, a, 32) BY PrefixIsBlock
<1>2. 32 \div 8 = 4 /\ 32 % 8 = 0 OBVIOUS
<1>3. PrefixMatches(ip, a, 32) <=> AgreeOn(ip, a, 4)
  BY <1>2 DEF PrefixMatches, AgreeOn
<1> QED BY <1>1, <1>3

\* Six bytes.
LEMMA Block48 ==
  ASSUME NEW ip \in Seq(Bytes), NEW a \in Seq(Bytes), Len(ip) >= 6, Len(a) >= 6
  PROVE  /\ InBlock(ip, a, 48) <=> AgreeOn(ip, a, 6)
         /\ PrefixMatches(ip, a, 48) <=> InBlock(ip, a, 48)
<1>1. InBlock(ip, a, 48) <=> PrefixMatches(ip, a, 48) BY PrefixIsBlock
<1>2. 48 \div 8 = 6 /\ 48 % 8 = 0 OBVIOUS
<1>3. PrefixMatches(ip, a, 48) <=> AgreeOn(ip, a, 6)
  BY <1>2 DEF PrefixMatches, AgreeOn
<1> QED BY <1>1, <1>3

\* Twelve bytes.
LEMMA Block96 ==
  ASSUME NEW ip \in Seq(Bytes), NEW a \in Seq(Bytes), Len(ip) >= 12, Len(a) >= 12
  PROVE  /\ InBlock(ip, a, 96) <=> AgreeOn(ip, a, 12)
         /\ PrefixMatches(ip, a, 96) <=> InBlock(ip, a, 96)
<1>1. InBlock(ip, a, 96) <=> PrefixMatches(ip, a, 96) BY PrefixIsBlock
<1>2. 96 \div 8 = 12 /\ 96 % 8 = 0 OBVIOUS
<1>3. PrefixMatches(ip, a, 96) <=> AgreeOn(ip, a, 12)
  BY <1>2 DEF PrefixMatches, AgreeOn
<1> QED BY <1>1, <1>3

\* The blocks of IPv4 addresses, by their bytes: three bits.
LEMMA Ipv4Block3 ==
  ASSUME NEW ip \in Seq(Bytes), Len(ip) = 4, NEW b1 \in Bytes, NEW b2 \in Bytes, NEW b3 \in Bytes
  PROVE  InBlock(ip, <<b1, b2, b3, 0>>, 3) <=> Masked(ip[1], 3) = Masked(b1, 3)
<1>1. PICK a : a = <<b1, b2, b3, 0>> OBVIOUS
<1>2. a \in Seq(Bytes) /\ Len(a) = 4 /\ a[1] = b1 BY <1>1 DEF Bytes
<1>3. Len(ip) >= 1 /\ Len(a) >= 1 BY <1>2
<1>4. InBlock(ip, a, 3) <=> Masked(ip[1], 3) = Masked(a[1], 3) BY <1>2, <1>3, Block3, Zenon
<1> QED BY <1>1, <1>2, <1>4

\* One byte.
LEMMA Ipv4Block8 ==
  ASSUME NEW ip \in Seq(Bytes), Len(ip) = 4, NEW b1 \in Bytes, NEW b2 \in Bytes, NEW b3 \in Bytes
  PROVE  InBlock(ip, <<b1, b2, b3, 0>>, 8) <=> ip[1] = b1
<1>1. PICK a : a = <<b1, b2, b3, 0>> OBVIOUS
<1>2. a \in Seq(Bytes) /\ Len(a) = 4 /\ a[1] = b1 BY <1>1 DEF Bytes
<1>3. Len(ip) >= 1 /\ Len(a) >= 1 BY <1>2
<1>4. InBlock(ip, a, 8) <=> ip[1] = a[1] BY <1>2, <1>3, Block8, Zenon
<1> QED BY <1>1, <1>2, <1>4

\* A byte and two bits.
LEMMA Ipv4Block10 ==
  ASSUME NEW ip \in Seq(Bytes), Len(ip) = 4, NEW b1 \in Bytes, NEW b2 \in Bytes, NEW b3 \in Bytes
  PROVE  InBlock(ip, <<b1, b2, b3, 0>>, 10) <=> ip[1] = b1 /\ Masked(ip[2], 2) = Masked(b2, 2)
<1>1. PICK a : a = <<b1, b2, b3, 0>> OBVIOUS
<1>2. a \in Seq(Bytes) /\ Len(a) = 4 /\ a[1] = b1 /\ a[2] = b2 BY <1>1 DEF Bytes
<1>3. Len(ip) >= 2 /\ Len(a) >= 2 BY <1>2
<1>4. InBlock(ip, a, 10) <=> ip[1] = a[1] /\ Masked(ip[2], 2) = Masked(a[2], 2)
  BY <1>2, <1>3, Block10, Zenon
<1> QED BY <1>1, <1>2, <1>4

\* A byte and four bits.
LEMMA Ipv4Block12 ==
  ASSUME NEW ip \in Seq(Bytes), Len(ip) = 4, NEW b1 \in Bytes, NEW b2 \in Bytes, NEW b3 \in Bytes
  PROVE  InBlock(ip, <<b1, b2, b3, 0>>, 12) <=> ip[1] = b1 /\ Masked(ip[2], 4) = Masked(b2, 4)
<1>1. PICK a : a = <<b1, b2, b3, 0>> OBVIOUS
<1>2. a \in Seq(Bytes) /\ Len(a) = 4 /\ a[1] = b1 /\ a[2] = b2 BY <1>1 DEF Bytes
<1>3. Len(ip) >= 2 /\ Len(a) >= 2 BY <1>2
<1>4. InBlock(ip, a, 12) <=> ip[1] = a[1] /\ Masked(ip[2], 4) = Masked(a[2], 4)
  BY <1>2, <1>3, Block12, Zenon
<1> QED BY <1>1, <1>2, <1>4

\* A byte and seven bits.
LEMMA Ipv4Block15 ==
  ASSUME NEW ip \in Seq(Bytes), Len(ip) = 4, NEW b1 \in Bytes, NEW b2 \in Bytes, NEW b3 \in Bytes
  PROVE  InBlock(ip, <<b1, b2, b3, 0>>, 15) <=> ip[1] = b1 /\ Masked(ip[2], 7) = Masked(b2, 7)
<1>1. PICK a : a = <<b1, b2, b3, 0>> OBVIOUS
<1>2. a \in Seq(Bytes) /\ Len(a) = 4 /\ a[1] = b1 /\ a[2] = b2 BY <1>1 DEF Bytes
<1>3. Len(ip) >= 2 /\ Len(a) >= 2 BY <1>2
<1>4. InBlock(ip, a, 15) <=> ip[1] = a[1] /\ Masked(ip[2], 7) = Masked(a[2], 7)
  BY <1>2, <1>3, Block15, Zenon
<1> QED BY <1>1, <1>2, <1>4

\* Two bytes.
LEMMA Ipv4Block16 ==
  ASSUME NEW ip \in Seq(Bytes), Len(ip) = 4, NEW b1 \in Bytes, NEW b2 \in Bytes, NEW b3 \in Bytes
  PROVE  InBlock(ip, <<b1, b2, b3, 0>>, 16) <=> ip[1] = b1 /\ ip[2] = b2
<1>1. PICK a : a = <<b1, b2, b3, 0>> OBVIOUS
<1>2. a \in Seq(Bytes) /\ Len(a) = 4 /\ a[1] = b1 /\ a[2] = b2 BY <1>1 DEF Bytes
<1>3. Len(ip) >= 2 /\ Len(a) >= 2 BY <1>2
<1>4. InBlock(ip, a, 16) <=> ip[1] = a[1] /\ ip[2] = a[2] BY <1>2, <1>3, Block16, Zenon
<1> QED BY <1>1, <1>2, <1>4

\* Three bytes.
LEMMA Ipv4Block24 ==
  ASSUME NEW ip \in Seq(Bytes), Len(ip) = 4, NEW b1 \in Bytes, NEW b2 \in Bytes, NEW b3 \in Bytes
  PROVE  InBlock(ip, <<b1, b2, b3, 0>>, 24) <=> ip[1] = b1 /\ ip[2] = b2 /\ ip[3] = b3
<1>1. PICK a : a = <<b1, b2, b3, 0>> OBVIOUS
<1>2. a \in Seq(Bytes) /\ Len(a) = 4 /\ a[1] = b1 /\ a[2] = b2 /\ a[3] = b3 BY <1>1 DEF Bytes
<1>3. Len(ip) >= 3 /\ Len(a) >= 3 BY <1>2
<1>4. InBlock(ip, a, 24) <=> ip[1] = a[1] /\ ip[2] = a[2] /\ ip[3] = a[3]
  BY <1>2, <1>3, Block24, Zenon
<1> QED BY <1>1, <1>2, <1>4

\* The bytes that the masks of the blocks tell apart.
LEMMA MaskedValues ==
  ASSUME NEW x \in Bytes
  PROVE  /\ Masked(x, 3) = Masked(224, 3) <=> x >= 224
         /\ Masked(x, 4) = Masked(16, 4) <=> x >= 16 /\ x <= 31
         /\ Masked(x, 7) = Masked(18, 7) <=> x \in {18, 19}
         /\ x = 100 => Masked(x, 2) = 64
         /\ Masked(64, 2) = 64 /\ Masked(128, 2) = 128 /\ Masked(192, 2) = 192
         /\ Masked(252, 7) = 252
<1>1. /\ Masked(x, 3) = x - (x % 32) /\ Masked(x, 4) = x - (x % 16)
      /\ Masked(x, 7) = x - (x % 2) /\ Masked(x, 2) = x - (x % 64)
  BY WeightFacts DEF Masked
<1>2. x - (x % 32) = 224 <=> x >= 224 BY DEF Bytes
<1>3. x - (x % 16) = 16 <=> x >= 16 /\ x <= 31 BY DEF Bytes
<1>4. x - (x % 2) = 18 <=> x \in {18, 19} BY DEF Bytes
<1>5. Masked(224, 3) = 224 /\ Masked(16, 4) = 16 /\ Masked(18, 7) = 18 /\ Masked(252, 7) = 252
  BY WeightFacts DEF Masked
<1>6. Masked(64, 2) = 64 /\ Masked(128, 2) = 128 /\ Masked(192, 2) = 192 /\ Masked(100, 2) = 64
  BY WeightFacts DEF Masked
<1> QED BY <1>1, <1>2, <1>3, <1>4, <1>5, <1>6

\* The tests of curb_ipv4_is_unsafe_destination are the blocks of its comments.
LEMMA Ipv4Blocked ==
  ASSUME NEW ip \in Seq(Bytes), Len(ip) = 4
  PROVE  UnsafeIpv4(ip) <=> Ipv4Special(ip)
<1>1. /\ Masked(ip[1], 3) = Masked(224, 3) <=> ip[1] >= 224
      /\ Masked(ip[2], 4) = Masked(16, 4) <=> ip[2] >= 16 /\ ip[2] <= 31
      /\ Masked(ip[2], 7) = Masked(18, 7) <=> ip[2] \in {18, 19}
      /\ ip[2] = 100 => Masked(ip[2], 2) = 64
      /\ Masked(64, 2) = 64
  <2>1. 1 \in 1 .. Len(ip) /\ 2 \in 1 .. Len(ip) OBVIOUS
  <2>2. ip[1] \in Bytes /\ ip[2] \in Bytes BY <2>1, ElementOfSeq, Zenon
  <2>3. PICK x \in Bytes, y \in Bytes : x = ip[1] /\ y = ip[2] BY <2>2
  <2>4. Masked(x, 3) = Masked(224, 3) <=> x >= 224 BY MaskedValues
  <2>5. /\ Masked(y, 4) = Masked(16, 4) <=> y >= 16 /\ y <= 31
        /\ Masked(y, 7) = Masked(18, 7) <=> y \in {18, 19}
        /\ y = 100 => Masked(y, 2) = 64
        /\ Masked(64, 2) = 64
    BY MaskedValues
  <2> QED BY <2>3, <2>4, <2>5, SMTT(20)
<1>2. InBlock(ip, <<0, 0, 0, 0>>, 8) <=> ip[1] = 0
  <2>1. 0 \in Bytes BY DEF Bytes
  <2> QED BY <2>1, Ipv4Block8
<1>3. InBlock(ip, <<10, 0, 0, 0>>, 8) <=> ip[1] = 10
  <2>1. 0 \in Bytes /\ 10 \in Bytes BY DEF Bytes
  <2> QED BY <2>1, Ipv4Block8
<1>4. InBlock(ip, <<100, 64, 0, 0>>, 10) <=> ip[1] = 100 /\ Masked(ip[2], 2) = 64
  <2>1. 0 \in Bytes /\ 64 \in Bytes /\ 100 \in Bytes BY DEF Bytes
  <2> QED BY <2>1, Ipv4Block10, <1>1
<1>5. InBlock(ip, <<127, 0, 0, 0>>, 8) <=> ip[1] = 127
  <2>1. 0 \in Bytes /\ 127 \in Bytes BY DEF Bytes
  <2> QED BY <2>1, Ipv4Block8
<1>6. InBlock(ip, <<169, 254, 0, 0>>, 16) <=> ip[1] = 169 /\ ip[2] = 254
  <2>1. 0 \in Bytes /\ 169 \in Bytes /\ 254 \in Bytes BY DEF Bytes
  <2> QED BY <2>1, Ipv4Block16
<1>7. InBlock(ip, <<172, 16, 0, 0>>, 12) <=> ip[1] = 172 /\ ip[2] >= 16 /\ ip[2] <= 31
  <2>1. 0 \in Bytes /\ 16 \in Bytes /\ 172 \in Bytes BY DEF Bytes
  <2> QED BY <2>1, Ipv4Block12, <1>1
<1>8. InBlock(ip, <<192, 168, 0, 0>>, 16) <=> ip[1] = 192 /\ ip[2] = 168
  <2>1. 0 \in Bytes /\ 168 \in Bytes /\ 192 \in Bytes BY DEF Bytes
  <2> QED BY <2>1, Ipv4Block16
<1>9. InBlock(ip, <<192, 0, 0, 0>>, 24) <=> ip[1] = 192 /\ ip[2] = 0 /\ ip[3] = 0
  <2>1. 0 \in Bytes /\ 192 \in Bytes BY DEF Bytes
  <2> QED BY <2>1, Ipv4Block24
<1>10. InBlock(ip, <<192, 0, 2, 0>>, 24) <=> ip[1] = 192 /\ ip[2] = 0 /\ ip[3] = 2
  <2>1. 0 \in Bytes /\ 2 \in Bytes /\ 192 \in Bytes BY DEF Bytes
  <2> QED BY <2>1, Ipv4Block24
<1>11. InBlock(ip, <<198, 18, 0, 0>>, 15) <=> ip[1] = 198 /\ ip[2] \in {18, 19}
  <2>1. 0 \in Bytes /\ 18 \in Bytes /\ 198 \in Bytes BY DEF Bytes
  <2> QED BY <2>1, Ipv4Block15, <1>1
<1>12. InBlock(ip, <<198, 51, 100, 0>>, 24) <=> ip[1] = 198 /\ ip[2] = 51 /\ ip[3] = 100
  <2>1. 51 \in Bytes /\ 100 \in Bytes /\ 198 \in Bytes BY DEF Bytes
  <2> QED BY <2>1, Ipv4Block24
<1>13. InBlock(ip, <<203, 0, 113, 0>>, 24) <=> ip[1] = 203 /\ ip[2] = 0 /\ ip[3] = 113
  <2>1. 0 \in Bytes /\ 113 \in Bytes /\ 203 \in Bytes BY DEF Bytes
  <2> QED BY <2>1, Ipv4Block24
<1>14. InBlock(ip, <<224, 0, 0, 0>>, 3) <=> ip[1] >= 224
  <2>1. 0 \in Bytes /\ 224 \in Bytes BY DEF Bytes
  <2> QED BY <2>1, Ipv4Block3, <1>1
<1>15. Ipv4Special(ip) <=>
        \/ InBlock(ip, <<0, 0, 0, 0>>, 8)
        \/ InBlock(ip, <<10, 0, 0, 0>>, 8)
        \/ InBlock(ip, <<100, 64, 0, 0>>, 10)
        \/ InBlock(ip, <<127, 0, 0, 0>>, 8)
        \/ InBlock(ip, <<169, 254, 0, 0>>, 16)
        \/ InBlock(ip, <<172, 16, 0, 0>>, 12)
        \/ InBlock(ip, <<192, 168, 0, 0>>, 16)
        \/ InBlock(ip, <<192, 0, 0, 0>>, 24)
        \/ InBlock(ip, <<192, 0, 2, 0>>, 24)
        \/ InBlock(ip, <<198, 18, 0, 0>>, 15)
        \/ InBlock(ip, <<198, 51, 100, 0>>, 24)
        \/ InBlock(ip, <<203, 0, 113, 0>>, 24)
        \/ InBlock(ip, <<224, 0, 0, 0>>, 3)
  BY DEF Ipv4Special, Ipv4Blocks
<1>16. UnsafeIpv4(ip) <=>
        \/ ip[1] = 0
        \/ ip[1] = 10
        \/ ip[1] = 100 /\ Masked(ip[2], 2) = 64
        \/ ip[1] = 127
        \/ ip[1] = 169 /\ ip[2] = 254
        \/ ip[1] = 172 /\ ip[2] >= 16 /\ ip[2] <= 31
        \/ ip[1] = 192 /\ ip[2] = 168
        \/ ip[1] = 192 /\ ip[2] = 0 /\ ip[3] = 0
        \/ ip[1] = 192 /\ ip[2] = 0 /\ ip[3] = 2
        \/ ip[1] = 198 /\ ip[2] \in {18, 19}
        \/ ip[1] = 198 /\ ip[2] = 51 /\ ip[3] = 100
        \/ ip[1] = 203 /\ ip[2] = 0 /\ ip[3] = 113
        \/ ip[1] >= 224
  BY <1>1 DEF UnsafeIpv4
<1> QED BY <1>2, <1>3, <1>4, <1>5, <1>6, <1>7, <1>8, <1>9, <1>10, <1>11, <1>12, <1>13, <1>14,
           <1>15, <1>16

\* Zeroes are bytes.
LEMMA ZeroBytes ==
  /\ Zeroes(12) \in Seq(Bytes) /\ Len(Zeroes(12)) = 12
  /\ \A i \in 1 .. 12 : Zeroes(12)[i] = 0
  /\ \A i \in 1 .. 16 : Zeroes(16)[i] = 0
<1>1. Zeroes(12) \in [1 .. 12 -> Bytes] BY DEF Zeroes, Bytes
<1>2. Zeroes(12) \in Seq(Bytes) BY <1>1, SeqDef
<1>3. Len(Zeroes(12)) = 12
  <2>1. PICK n \in Nat : n = Len(Zeroes(12)) /\ DOMAIN Zeroes(12) = 1 .. n
    BY <1>2, LenProperties
  <2>2. 1 .. n = 1 .. 12 BY <2>1 DEF Zeroes
  <2>3. 12 \in 1 .. n BY <2>2
  <2>4. n \in 1 .. n BY <2>3
  <2>5. n \in 1 .. 12 BY <2>2, <2>4
  <2>6. n = 12 BY <2>3, <2>5
  <2> QED BY <2>1, <2>6, Zenon
<1>4. /\ \A i \in 1 .. 12 : Zeroes(12)[i] = 0
      /\ \A i \in 1 .. 16 : Zeroes(16)[i] = 0
  BY DEF Zeroes
<1> QED BY <1>2, <1>3, <1>4

\* The embedded IPv4 address.
LEMMA EmbeddedAddress ==
  ASSUME NEW ip \in Seq(Bytes), Len(ip) = 16
  PROVE  SubSeq(ip, 13, 16) \in Seq(Bytes) /\ Len(SubSeq(ip, 13, 16)) = 4
<1>1. \A i \in 13 .. 16 : i \in 1 .. Len(ip) OBVIOUS
<1>2. \A i \in 13 .. 16 : ip[i] \in Bytes BY <1>1, ElementOfSeq, Zenon
<1>3. /\ SubSeq(ip, 13, 16) \in Seq(Bytes)
      /\ Len(SubSeq(ip, 13, 16)) = IF 13 <= 16 THEN 16 - 13 + 1 ELSE 0
  BY <1>2, SubSeqProperties
<1> QED BY <1>3

\* The comparisons of whole prefixes that curb_ipv6_is_unsafe_destination makes.
LEMMA Ipv6Prefixes ==
  ASSUME NEW ip \in Seq(Bytes), Len(ip) = 16
  PROVE  /\ PrefixMatches(ip, Ipv4Mapped, 96) <=> InBlock(ip, Ipv4Mapped, 96)
         /\ PrefixMatches(ip, Nat64, 96) <=> InBlock(ip, Nat64, 96)
         /\ PrefixMatches(ip, Zeroes(12), 96) <=> InBlock(ip, Zeroes(12), 96)
         /\ PrefixMatches(ip, <<0, 100, 255, 155, 0, 1>>, 48)
              <=> InBlock(ip, <<0, 100, 255, 155, 0, 1>>, 48)
         /\ PrefixMatches(ip, <<32, 1, 13, 184>>, 32) <=> InBlock(ip, <<32, 1, 13, 184>>, 32)
         /\ PrefixMatches(ip, <<32, 1, 0, 2, 0, 0>>, 48)
              <=> InBlock(ip, <<32, 1, 0, 2, 0, 0>>, 48)
<1>1. PrefixMatches(ip, Ipv4Mapped, 96) <=> InBlock(ip, Ipv4Mapped, 96)
  <2>1. PICK a : a = Ipv4Mapped OBVIOUS
  <2>2. a \in Seq(Bytes) /\ Len(a) >= 12 /\ Len(ip) >= 12 BY <2>1 DEF Ipv4Mapped, Bytes
  <2>3. PrefixMatches(ip, a, 96) <=> InBlock(ip, a, 96) BY <2>2, Block96
  <2> QED BY <2>1, <2>3
<1>2. PrefixMatches(ip, Nat64, 96) <=> InBlock(ip, Nat64, 96)
  <2>1. PICK a : a = Nat64 OBVIOUS
  <2>2. a \in Seq(Bytes) /\ Len(a) >= 12 /\ Len(ip) >= 12 BY <2>1 DEF Nat64, Bytes
  <2>3. PrefixMatches(ip, a, 96) <=> InBlock(ip, a, 96) BY <2>2, Block96
  <2> QED BY <2>1, <2>3
<1>3. PrefixMatches(ip, Zeroes(12), 96) <=> InBlock(ip, Zeroes(12), 96)
  <2>1. PICK a : a = Zeroes(12) OBVIOUS
  <2>2. a \in Seq(Bytes) /\ Len(a) >= 12 /\ Len(ip) >= 12 BY <2>1, ZeroBytes
  <2>3. PrefixMatches(ip, a, 96) <=> InBlock(ip, a, 96) BY <2>2, Block96
  <2> QED BY <2>1, <2>3
<1>4. PrefixMatches(ip, <<0, 100, 255, 155, 0, 1>>, 48)
        <=> InBlock(ip, <<0, 100, 255, 155, 0, 1>>, 48)
  <2>1. PICK a : a = <<0, 100, 255, 155, 0, 1>> OBVIOUS
  <2>2. a \in Seq(Bytes) /\ Len(a) >= 6 /\ Len(ip) >= 6 BY <2>1 DEF Bytes
  <2>3. PrefixMatches(ip, a, 48) <=> InBlock(ip, a, 48) BY <2>2, Block48
  <2> QED BY <2>1, <2>3
<1>5. PrefixMatches(ip, <<32, 1, 13, 184>>, 32) <=> InBlock(ip, <<32, 1, 13, 184>>, 32)
  <2>1. PICK a : a = <<32, 1, 13, 184>> OBVIOUS
  <2>2. a \in Seq(Bytes) /\ Len(a) >= 4 /\ Len(ip) >= 4 BY <2>1 DEF Bytes
  <2>3. PrefixMatches(ip, a, 32) <=> InBlock(ip, a, 32) BY <2>2, Block32
  <2> QED BY <2>1, <2>3
<1>6. PrefixMatches(ip, <<32, 1, 0, 2, 0, 0>>, 48) <=> InBlock(ip, <<32, 1, 0, 2, 0, 0>>, 48)
  <2>1. PICK a : a = <<32, 1, 0, 2, 0, 0>> OBVIOUS
  <2>2. a \in Seq(Bytes) /\ Len(a) >= 6 /\ Len(ip) >= 6 BY <2>1 DEF Bytes
  <2>3. PrefixMatches(ip, a, 48) <=> InBlock(ip, a, 48) BY <2>2, Block48
  <2> QED BY <2>1, <2>3
<1> QED BY <1>1, <1>2, <1>3, <1>4, <1>5, <1>6

\* What the four tests of whole prefixes say of the bytes.
LEMMA Ipv6Bytes ==
  ASSUME NEW ip \in Seq(Bytes), Len(ip) = 16
  PROVE  /\ InBlock(ip, Ipv4Mapped, 96) => ip[1] = 0 /\ ip[2] = 0 /\ ip[11] = 255
         /\ InBlock(ip, Nat64, 96) => ip[1] = 0 /\ ip[2] = 100 /\ ip[6] = 0
         /\ InBlock(ip, Zeroes(12), 96) <=> \A i \in 1 .. 12 : ip[i] = 0
         /\ InBlock(ip, <<0, 100, 255, 155, 0, 1>>, 48) => ip[2] = 100 /\ ip[6] = 1
<1>1. InBlock(ip, Ipv4Mapped, 96) => ip[1] = 0 /\ ip[2] = 0 /\ ip[11] = 255
  <2>1. PICK a : a = Ipv4Mapped OBVIOUS
  <2>2. /\ a \in Seq(Bytes) /\ Len(a) >= 12 /\ Len(ip) >= 12
        /\ a[1] = 0 /\ a[2] = 0 /\ a[11] = 255
    BY <2>1 DEF Ipv4Mapped, Bytes
  <2>3. InBlock(ip, a, 96) <=> AgreeOn(ip, a, 12) BY <2>2, Block96
  <2>4. AgreeOn(ip, a, 12) => ip[1] = a[1] /\ ip[2] = a[2] /\ ip[11] = a[11] BY DEF AgreeOn
  <2> QED BY <2>1, <2>2, <2>3, <2>4
<1>2. InBlock(ip, Nat64, 96) => ip[1] = 0 /\ ip[2] = 100 /\ ip[6] = 0
  <2>1. PICK a : a = Nat64 OBVIOUS
  <2>2. /\ a \in Seq(Bytes) /\ Len(a) >= 12 /\ Len(ip) >= 12
        /\ a[1] = 0 /\ a[2] = 100 /\ a[6] = 0
    BY <2>1 DEF Nat64, Bytes
  <2>3. InBlock(ip, a, 96) <=> AgreeOn(ip, a, 12) BY <2>2, Block96
  <2>4. AgreeOn(ip, a, 12) => ip[1] = a[1] /\ ip[2] = a[2] /\ ip[6] = a[6] BY DEF AgreeOn
  <2> QED BY <2>1, <2>2, <2>3, <2>4
<1>3. InBlock(ip, Zeroes(12), 96) <=> \A i \in 1 .. 12 : ip[i] = 0
  <2>1. PICK a : a = Zeroes(12) OBVIOUS
  <2>2. /\ a \in Seq(Bytes) /\ Len(a) >= 12 /\ Len(ip) >= 12
        /\ \A i \in 1 .. 12 : a[i] = 0
    BY <2>1, ZeroBytes
  <2>3. InBlock(ip, a, 96) <=> AgreeOn(ip, a, 12) BY <2>2, Block96
  <2> QED BY <2>1, <2>2, <2>3 DEF AgreeOn
<1>4. InBlock(ip, <<0, 100, 255, 155, 0, 1>>, 48) => ip[2] = 100 /\ ip[6] = 1
  <2>1. PICK a : a = <<0, 100, 255, 155, 0, 1>> OBVIOUS
  <2>2. a \in Seq(Bytes) /\ Len(a) >= 6 /\ Len(ip) >= 6 /\ a[2] = 100 /\ a[6] = 1
    BY <2>1 DEF Bytes
  <2>3. InBlock(ip, a, 48) <=> AgreeOn(ip, a, 6) BY <2>2, Block48
  <2> QED BY <2>1, <2>2, <2>3 DEF AgreeOn
<1> QED BY <1>1, <1>2, <1>3, <1>4

\* No address is in two of the blocks that decide by the address in them, or
\* in one of those and in a block of whole bytes that is special by itself.
LEMMA Ipv6Apart ==
  ASSUME NEW ip \in Seq(Bytes), Len(ip) = 16
  PROVE  /\ ip = Zeroes(16) => InBlock(ip, Zeroes(12), 96)
         /\ InBlock(ip, Ipv4Mapped, 96) =>
              /\ ip[1] = 0
              /\ ~InBlock(ip, Nat64, 96) /\ ~InBlock(ip, Zeroes(12), 96)
              /\ ~InBlock(ip, <<0, 100, 255, 155, 0, 1>>, 48)
         /\ InBlock(ip, Nat64, 96) =>
              /\ ip[1] = 0 /\ ip[2] = 100
              /\ ~InBlock(ip, Zeroes(12), 96)
              /\ ~InBlock(ip, <<0, 100, 255, 155, 0, 1>>, 48)
<1>1. InBlock(ip, Zeroes(12), 96) => ip[2] = 0 /\ ip[11] = 0 BY Ipv6Bytes
<1>2. ip = Zeroes(16) => InBlock(ip, Zeroes(12), 96)
  <2>1. \A i \in 1 .. 12 : Zeroes(16)[i] = 0 BY DEF Zeroes
  <2>2. InBlock(ip, Zeroes(12), 96) <=> \A i \in 1 .. 12 : ip[i] = 0 BY Ipv6Bytes
  <2>3. ip = Zeroes(16) => \A i \in 1 .. 12 : ip[i] = 0 BY <2>1, Zenon
  <2> QED BY <2>2, <2>3, Zenon
<1> QED BY <1>1, <1>2, Ipv6Bytes, SMTT(20)

\* The blocks that one or two bytes decide: seven bits.
LEMMA ShortBlock7 ==
  ASSUME NEW ip \in Seq(Bytes), Len(ip) = 16, NEW b \in Bytes
  PROVE  InBlock(ip, <<b>>, 7) <=> Masked(ip[1], 7) = Masked(b, 7)
<1>1. PICK a : a = <<b>> OBVIOUS
<1>2. a \in Seq(Bytes) /\ Len(a) = 1 /\ a[1] = b BY <1>1
<1>3. Len(ip) >= 1 /\ Len(a) >= 1 BY <1>2
<1>4. InBlock(ip, a, 7) <=> Masked(ip[1], 7) = Masked(a[1], 7) BY <1>2, <1>3, Block7, Zenon
<1> QED BY <1>1, <1>2, <1>4

\* One byte.
LEMMA ShortBlock8 ==
  ASSUME NEW ip \in Seq(Bytes), Len(ip) = 16, NEW b \in Bytes
  PROVE  InBlock(ip, <<b>>, 8) <=> ip[1] = b
<1>1. PICK a : a = <<b>> OBVIOUS
<1>2. a \in Seq(Bytes) /\ Len(a) = 1 /\ a[1] = b BY <1>1
<1>3. Len(ip) >= 1 /\ Len(a) >= 1 BY <1>2
<1>4. InBlock(ip, a, 8) <=> ip[1] = a[1] BY <1>2, <1>3, Block8, Zenon
<1> QED BY <1>1, <1>2, <1>4

\* A byte and two bits.
LEMMA ShortBlock10 ==
  ASSUME NEW ip \in Seq(Bytes), Len(ip) = 16, NEW b \in Bytes, NEW c \in Bytes
  PROVE  InBlock(ip, <<b, c>>, 10) <=> ip[1] = b /\ Masked(ip[2], 2) = Masked(c, 2)
<1>1. PICK a : a = <<b, c>> OBVIOUS
<1>2. a \in Seq(Bytes) /\ Len(a) = 2 /\ a[1] = b /\ a[2] = c BY <1>1
<1>3. Len(ip) >= 2 /\ Len(a) >= 2 BY <1>2
<1>4. InBlock(ip, a, 10) <=> ip[1] = a[1] /\ Masked(ip[2], 2) = Masked(a[2], 2)
  BY <1>2, <1>3, Block10, Zenon
<1> QED BY <1>1, <1>2, <1>4

\* Two bytes.
LEMMA ShortBlock16 ==
  ASSUME NEW ip \in Seq(Bytes), Len(ip) = 16, NEW b \in Bytes, NEW c \in Bytes
  PROVE  InBlock(ip, <<b, c>>, 16) <=> ip[1] = b /\ ip[2] = c
<1>1. PICK a : a = <<b, c>> OBVIOUS
<1>2. a \in Seq(Bytes) /\ Len(a) = 2 /\ a[1] = b /\ a[2] = c BY <1>1
<1>3. Len(ip) >= 2 /\ Len(a) >= 2 BY <1>2
<1>4. InBlock(ip, a, 16) <=> ip[1] = a[1] /\ ip[2] = a[2]
  BY <1>2, <1>3, Block16, Zenon
<1> QED BY <1>1, <1>2, <1>4

\* The address is in no block whose first byte is not 0.
NoLaterBlock(ip) ==
  /\ ~InBlock(ip, <<252>>, 7) /\ ~InBlock(ip, <<254, 128>>, 10)
  /\ ~InBlock(ip, <<254, 192>>, 10) /\ ~InBlock(ip, <<255>>, 8)
  /\ ~InBlock(ip, <<32, 1, 13, 184>>, 32) /\ ~InBlock(ip, <<32, 1, 0, 2, 0, 0>>, 48)
  /\ ~InBlock(ip, <<32, 2>>, 16)

\* None of them holds an address that starts with 0.
LEMMA FirstByteZero ==
  ASSUME NEW ip \in Seq(Bytes), Len(ip) = 16, ip[1] = 0
  PROVE  NoLaterBlock(ip)
<1>1. Masked(0, 7) = 0 /\ Masked(252, 7) = 252 BY WeightFacts DEF Masked
<1>2. ~InBlock(ip, <<252>>, 7)
  <2>1. 252 \in Bytes BY DEF Bytes
  <2>2. InBlock(ip, <<252>>, 7) <=> Masked(ip[1], 7) = Masked(252, 7) BY <2>1, ShortBlock7
  <2> QED BY <1>1, <2>2
<1>3. ~InBlock(ip, <<254, 128>>, 10)
  <2>1. 254 \in Bytes /\ 128 \in Bytes BY DEF Bytes
  <2>2. InBlock(ip, <<254, 128>>, 10) <=> ip[1] = 254 /\ Masked(ip[2], 2) = Masked(128, 2)
    BY <2>1, ShortBlock10
  <2> QED BY <2>2
<1>4. ~InBlock(ip, <<254, 192>>, 10)
  <2>1. 254 \in Bytes /\ 192 \in Bytes BY DEF Bytes
  <2>2. InBlock(ip, <<254, 192>>, 10) <=> ip[1] = 254 /\ Masked(ip[2], 2) = Masked(192, 2)
    BY <2>1, ShortBlock10
  <2> QED BY <2>2
<1>5. ~InBlock(ip, <<255>>, 8)
  <2>1. 255 \in Bytes BY DEF Bytes
  <2>2. InBlock(ip, <<255>>, 8) <=> ip[1] = 255 BY <2>1, ShortBlock8
  <2> QED BY <2>2
<1>6. ~InBlock(ip, <<32, 1, 13, 184>>, 32)
  <2>1. PICK a : a = <<32, 1, 13, 184>> OBVIOUS
  <2>2. a \in Seq(Bytes) /\ Len(a) >= 4 /\ Len(ip) >= 4 /\ a[1] = 32 BY <2>1 DEF Bytes
  <2>3. InBlock(ip, a, 32) <=> AgreeOn(ip, a, 4) BY <2>2, Block32
  <2> QED BY <2>1, <2>2, <2>3 DEF AgreeOn
<1>7. ~InBlock(ip, <<32, 1, 0, 2, 0, 0>>, 48)
  <2>1. PICK a : a = <<32, 1, 0, 2, 0, 0>> OBVIOUS
  <2>2. a \in Seq(Bytes) /\ Len(a) >= 6 /\ Len(ip) >= 6 /\ a[1] = 32 BY <2>1 DEF Bytes
  <2>3. InBlock(ip, a, 48) <=> AgreeOn(ip, a, 6) BY <2>2, Block48
  <2> QED BY <2>1, <2>2, <2>3 DEF AgreeOn
<1>8. ~InBlock(ip, <<32, 2>>, 16)
  <2>1. 32 \in Bytes /\ 2 \in Bytes BY DEF Bytes
  <2>2. InBlock(ip, <<32, 2>>, 16) <=> ip[1] = 32 /\ ip[2] = 2 BY <2>1, ShortBlock16
  <2> QED BY <2>2
<1> QED BY <1>2, <1>3, <1>4, <1>5, <1>6, <1>7, <1>8 DEF NoLaterBlock

\* The tests of curb_ipv6_is_unsafe_destination, in their order, are the
\* blocks of its comments.
LEMMA Ipv6Blocked ==
  ASSUME NEW ip \in Seq(Bytes), Len(ip) = 16
  PROVE  UnsafeIpv6(ip) <=> Ipv6Special(ip)
<1>1. Masked(252, 7) = 252 BY WeightFacts DEF Masked
<1>2. Masked(128, 2) = 128 /\ Masked(192, 2) = 192 BY WeightFacts DEF Masked
<1>3. InBlock(ip, <<252>>, 7) <=> Masked(ip[1], 7) = 252
  <2>1. 252 \in Bytes BY DEF Bytes
  <2>2. InBlock(ip, <<252>>, 7) <=> Masked(ip[1], 7) = Masked(252, 7) BY <2>1, ShortBlock7
  <2> QED BY <1>1, <2>2
<1>4. InBlock(ip, <<254, 128>>, 10) <=> ip[1] = 254 /\ Masked(ip[2], 2) = 128
  <2>1. 254 \in Bytes /\ 128 \in Bytes BY DEF Bytes
  <2>2. InBlock(ip, <<254, 128>>, 10) <=> ip[1] = 254 /\ Masked(ip[2], 2) = Masked(128, 2)
    BY <2>1, ShortBlock10
  <2> QED BY <1>2, <2>2
<1>5. InBlock(ip, <<254, 192>>, 10) <=> ip[1] = 254 /\ Masked(ip[2], 2) = 192
  <2>1. 254 \in Bytes /\ 192 \in Bytes BY DEF Bytes
  <2>2. InBlock(ip, <<254, 192>>, 10) <=> ip[1] = 254 /\ Masked(ip[2], 2) = Masked(192, 2)
    BY <2>1, ShortBlock10
  <2> QED BY <1>2, <2>2
<1>6. InBlock(ip, <<255>>, 8) <=> ip[1] = 255
  <2>1. 255 \in Bytes BY DEF Bytes
  <2> QED BY <2>1, ShortBlock8
<1>7. InBlock(ip, <<32, 2>>, 16) <=> ip[1] = 32 /\ ip[2] = 2
  <2>1. 32 \in Bytes /\ 2 \in Bytes BY DEF Bytes
  <2> QED BY <2>1, ShortBlock16
<1>8. InBlock(ip, <<0, 0>>, 16) <=> ip[1] = 0 /\ ip[2] = 0
  <2>1. 0 \in Bytes BY DEF Bytes
  <2> QED BY <2>1, ShortBlock16
<1>9. Ipv6Special(ip) <=>
        \/ InBlock(ip, <<252>>, 7)
        \/ InBlock(ip, <<254, 128>>, 10)
        \/ InBlock(ip, <<254, 192>>, 10)
        \/ InBlock(ip, <<255>>, 8)
        \/ InBlock(ip, <<32, 1, 13, 184>>, 32)
        \/ InBlock(ip, <<32, 1, 0, 2, 0, 0>>, 48)
        \/ InBlock(ip, <<32, 2>>, 16)
        \/ InBlock(ip, Zeroes(12), 96)
        \/ InBlock(ip, <<0, 100, 255, 155, 0, 1>>, 48)
        \/ /\ InBlock(ip, Ipv4Mapped, 96) \/ InBlock(ip, Nat64, 96)
           /\ Ipv4Special(SubSeq(ip, 13, 16))
        \/ /\ InBlock(ip, <<0, 0>>, 16) /\ ~InBlock(ip, Ipv4Mapped, 96)
           /\ ip[15] = 0 /\ ip[16] = 1
  BY DEF Ipv6Special, Ipv6Blocks
<1>10. UnsafeIpv4(SubSeq(ip, 13, 16)) <=> Ipv4Special(SubSeq(ip, 13, 16))
  BY EmbeddedAddress, Ipv4Blocked
<1>11. CASE ip = Zeroes(16)
  <2>1. UnsafeIpv6(ip) BY <1>11 DEF UnsafeIpv6
  <2>2. InBlock(ip, Zeroes(12), 96) BY <1>11, Ipv6Apart
  <2> QED BY <1>9, <2>1, <2>2
<1>12. CASE InBlock(ip, Ipv4Mapped, 96)
  <2>1. /\ ip # Zeroes(16) /\ ip[1] = 0 /\ ~InBlock(ip, Nat64, 96)
        /\ ~InBlock(ip, Zeroes(12), 96) /\ ~InBlock(ip, <<0, 100, 255, 155, 0, 1>>, 48)
    BY <1>12, Ipv6Apart
  <2>2. UnsafeIpv6(ip) <=> UnsafeIpv4(SubSeq(ip, 13, 16))
    BY <1>12, <2>1, Ipv6Prefixes DEF UnsafeIpv6
  <2>3. NoLaterBlock(ip) BY <2>1, FirstByteZero
  <2> QED BY <1>9, <1>10, <1>12, <2>1, <2>2, <2>3 DEF NoLaterBlock
<1>13. CASE InBlock(ip, Nat64, 96)
  <2>1. /\ ip # Zeroes(16) /\ ip[1] = 0 /\ ip[2] = 100
        /\ ~InBlock(ip, Zeroes(12), 96) /\ ~InBlock(ip, <<0, 100, 255, 155, 0, 1>>, 48)
    BY <1>13, Ipv6Apart
  <2>2. UnsafeIpv6(ip) <=> UnsafeIpv4(SubSeq(ip, 13, 16))
    BY <1>13, <2>1, Ipv6Prefixes DEF UnsafeIpv6
  <2>3. NoLaterBlock(ip) BY <2>1, FirstByteZero
  <2>4. ~InBlock(ip, <<0, 0>>, 16) BY <1>8, <2>1
  <2> QED BY <1>9, <1>10, <1>13, <2>1, <2>2, <2>3, <2>4 DEF NoLaterBlock
<1>14. CASE ip # Zeroes(16) /\ ~InBlock(ip, Ipv4Mapped, 96) /\ ~InBlock(ip, Nat64, 96)
  <2>1. UnsafeIpv6(ip) <=>
          \/ InBlock(ip, <<0, 100, 255, 155, 0, 1>>, 48)
          \/ InBlock(ip, Zeroes(12), 96)
          \/ ip[1] = 0 /\ ip[2] = 0 /\ ip[15] = 0 /\ ip[16] = 1
          \/ Masked(ip[1], 7) = 252
          \/ ip[1] = 254 /\ Masked(ip[2], 2) \in {128, 192}
          \/ ip[1] = 255
          \/ InBlock(ip, <<32, 1, 13, 184>>, 32)
          \/ InBlock(ip, <<32, 1, 0, 2, 0, 0>>, 48)
          \/ ip[1] = 32 /\ ip[2] = 2
    BY <1>14, Ipv6Prefixes DEF UnsafeIpv6
  <2>2. Masked(ip[2], 2) \in {128, 192} <=> Masked(ip[2], 2) = 128 \/ Masked(ip[2], 2) = 192
    OBVIOUS
  <2>3. UnsafeIpv6(ip) <=>
          \/ InBlock(ip, <<0, 100, 255, 155, 0, 1>>, 48)
          \/ InBlock(ip, Zeroes(12), 96)
          \/ InBlock(ip, <<0, 0>>, 16) /\ ip[15] = 0 /\ ip[16] = 1
          \/ InBlock(ip, <<252>>, 7)
          \/ InBlock(ip, <<254, 128>>, 10) \/ InBlock(ip, <<254, 192>>, 10)
          \/ InBlock(ip, <<255>>, 8)
          \/ InBlock(ip, <<32, 1, 13, 184>>, 32)
          \/ InBlock(ip, <<32, 1, 0, 2, 0, 0>>, 48)
          \/ InBlock(ip, <<32, 2>>, 16)
    BY <1>3, <1>4, <1>5, <1>6, <1>7, <1>8, <2>1, <2>2, SMTT(30)
  <2> QED BY <1>9, <1>14, <2>3
<1> QED BY <1>11, <1>12, <1>13, <1>14

-----------------------------------------------------------------------------
\* What the parser makes of a text it does not refuse.
LEMMA ParsedFacts ==
  ASSUME NEW t, t.address \in Seq(Bytes), ParsedCidr(t) # Nil
  PROVE  /\ Len(t.address) \in {4, 16} /\ ParsedCidr(t).bits \in 0 .. 8 * Len(t.address)
         /\ ParsedCidr(t).family = Len(t.address) /\ ParsedCidr(t).address = t.address
<1>1. PICK most, bits : /\ most = 8 * Len(t.address)
                        /\ bits = IF t.slash = "absent" THEN most ELSE t.prefix
  OBVIOUS
<1>2. /\ Len(t.address) \in {4, 16} /\ bits \in 0 .. most
      /\ ParsedCidr(t) = [family |-> Len(t.address), address |-> t.address, bits |-> bits]
  BY <1>1 DEF ParsedCidr
<1> QED BY <1>1, <1>2

\* The lists of the options hold what their setters let through, and the
\* callback that asks for a socket is there under the public policy only.
NetworkInv ==
  /\ scenario \in Scenarios /\ RulesFollowOptions
  /\ cidrs # Nil => \A t \in cidrs : ParsedCidr(t) # Nil
  /\ hosts # Nil => Nil \notin hosts
  /\ transferring /\ "open" \in hooks => policy = "public"

\* The texts of a list that the setter let through are addresses that parse.
LEMMA CidrsFacts ==
  ASSUME NetworkInv, cidrs # Nil
  PROVE  \A t \in cidrs : t.address \in Seq(Bytes) /\ ParsedCidr(t) # Nil
<1>1. cidrs \in CidrLists[scenario] \ {Nil} /\ scenario \in Scenarios
  BY DEF NetworkInv, RulesFollowOptions, NetworkTypeOK
<1> QED BY <1>1, NetworkAssumption DEF NetworkInv

\* Rules rebuilt from a list that was let through have a family and a length.
LEMMA PreparedFit ==
  ASSUME NEW list, list \in CidrLists[scenario] \cup {Nil}, scenario \in Scenarios,
         list # Nil => \A t \in list : ParsedCidr(t) # Nil
  PROVE  \A r \in PreparedCidrs(list) : r.family \in {4, 16} /\ r.bits \in 0 .. 8 * r.family
<1>1. CASE list = Nil BY <1>1 DEF PreparedCidrs
<1>2. CASE list # Nil
  <2>1. \A t \in list : t.address \in Seq(Bytes) BY <1>2, NetworkAssumption
  <2>2. ASSUME NEW t \in list
        PROVE  /\ ParsedCidr(t).family \in {4, 16}
               /\ ParsedCidr(t).bits \in 0 .. 8 * ParsedCidr(t).family
    BY <1>2, <2>1, ParsedFacts
  <2> QED BY <1>2, <2>2 DEF PreparedCidrs
<1> QED BY <1>1, <1>2

\* While a transfer runs under the public policy, the rules of the handle
\* admit an address where the option does.
LEMMA RulesMatch ==
  ASSUME NetworkInv, transferring, policy = "public",
         NEW n \in {4, 16}, NEW ip \in Seq(Bytes), Len(ip) = n
  PROVE  CidrRulesMatch(n, ip) <=>
           (cidrs # Nil /\ cidrs # {} =>
              \E t \in cidrs : Len(t.address) = n /\ InBlock(ip, t.address, ParsedCidr(t).bits))
<1>1. cidrRules = PreparedCidrs(cidrs) BY DEF NetworkInv, RulesFollowOptions
<1>2. CASE cidrs = Nil BY <1>1, <1>2 DEF PreparedCidrs, CidrRulesMatch
<1>3. CASE cidrs # Nil
  <2>1. cidrRules = {ParsedCidr(t) : t \in cidrs} BY <1>1, <1>3 DEF PreparedCidrs
  <2>2. cidrRules = {} <=> cidrs = {} BY <2>1
  <2>3. ASSUME NEW t \in cidrs
        PROVE  /\ ParsedCidr(t).family = Len(t.address)
               /\ Len(t.address) = n =>
                    (PrefixMatches(ip, ParsedCidr(t).address, ParsedCidr(t).bits)
                       <=> InBlock(ip, t.address, ParsedCidr(t).bits))
    <3>1. /\ ParsedCidr(t).bits \in 0 .. 8 * Len(t.address)
          /\ ParsedCidr(t).family = Len(t.address) /\ ParsedCidr(t).address = t.address
      BY <1>3, CidrsFacts, ParsedFacts
    <3>2. PICK a \in Seq(Bytes) : a = t.address BY <1>3, CidrsFacts
    <3>3. PICK bits : bits = ParsedCidr(t).bits OBVIOUS
    <3>4. ASSUME Len(a) = n PROVE PrefixMatches(ip, a, bits) <=> InBlock(ip, a, bits)
      <4>1. bits \in Nat /\ bits <= 8 * Len(ip) /\ bits <= 8 * Len(a) BY <3>1, <3>2, <3>3, <3>4
      <4> QED BY <4>1, PrefixIsBlock
    <3> QED BY <3>1, <3>2, <3>3, <3>4, Zenon
  <2>4. (\E r \in cidrRules : r.family = n /\ PrefixMatches(ip, r.address, r.bits))
          <=> \E t \in cidrs : /\ ParsedCidr(t).family = n
                               /\ PrefixMatches(ip, ParsedCidr(t).address, ParsedCidr(t).bits)
    BY <2>1, Zenon
  <2>5. (\E r \in cidrRules : r.family = n /\ PrefixMatches(ip, r.address, r.bits))
          <=> \E t \in cidrs : Len(t.address) = n /\ InBlock(ip, t.address, ParsedCidr(t).bits)
    BY <2>3, <2>4, Zenon
  <2> QED BY <1>3, <2>2, <2>5, Zenon DEF CidrRulesMatch
<1> QED BY <1>2, <1>3

\* A socket is refused where the definition of the blocks says so.
LEMMA RefusedFacts ==
  ASSUME NetworkInv, transferring, policy = "public", NEW d \in Dests[scenario]
  PROVE  LET listed == cidrs # Nil /\ cidrs # {}
             inside == \E t \in cidrs : /\ Len(t.address) = d.family
                                        /\ InBlock(d.ip, t.address, ParsedCidr(t).bits)
         IN ~RefusedDest(d) <=> CASE d.family = 4 -> ~Ipv4Special(d.ip) /\ (listed => inside)
                                  [] d.family = 16 -> ~Ipv6Special(d.ip) /\ (listed => inside)
                                  [] OTHER -> ~listed
<1> DEFINE listed == cidrs # Nil /\ cidrs # {}
           inside == \E t \in cidrs : /\ Len(t.address) = d.family
                                      /\ InBlock(d.ip, t.address, ParsedCidr(t).bits)
<1>1. d.family \in {4, 16} => d.ip \in Seq(Bytes) /\ Len(d.ip) = d.family
  BY NetworkAssumption DEF NetworkInv
<1>2. CASE d.family \in {4, 16}
  <2>1. CidrRulesMatch(d.family, d.ip) <=> (listed => inside) BY <1>1, <1>2, RulesMatch
  <2> HIDE DEF listed, inside
  <2>2. CASE d.family = 4
    <3>1. UnsafeIpv4(d.ip) <=> Ipv4Special(d.ip) BY <1>1, <2>2, Ipv4Blocked
    <3>2. ~RefusedDest(d) <=> ~UnsafeIpv4(d.ip) /\ CidrRulesMatch(d.family, d.ip)
      BY <2>2 DEF RefusedDest
    <3>3. ~RefusedDest(d) <=> ~Ipv4Special(d.ip) /\ (listed => inside)
      BY <2>1, <3>1, <3>2, Zenon
    <3> QED BY <2>2, <3>3 DEF listed, inside
  <2>3. CASE d.family = 16
    <3>1. UnsafeIpv6(d.ip) <=> Ipv6Special(d.ip) BY <1>1, <2>3, Ipv6Blocked
    <3>2. ~RefusedDest(d) <=> ~UnsafeIpv6(d.ip) /\ CidrRulesMatch(d.family, d.ip)
      BY <2>3 DEF RefusedDest
    <3>3. ~RefusedDest(d) <=> ~Ipv6Special(d.ip) /\ (listed => inside)
      BY <2>1, <3>1, <3>2, Zenon
    <3> QED BY <2>3, <3>3 DEF listed, inside
  <2> QED BY <1>2, <2>2, <2>3 DEF listed, inside
<1>3. CASE d.family \notin {4, 16}
  <2>1. cidrRules = PreparedCidrs(cidrs) BY DEF NetworkInv, RulesFollowOptions
  <2>2. cidrRules # {} <=> listed BY <2>1 DEF PreparedCidrs
  <2> HIDE DEF listed
  <2>3. ~RefusedDest(d) <=> ~listed BY <1>3, <2>2 DEF RefusedDest
  <2> QED BY <1>3, <2>3 DEF listed
<1> QED BY <1>2, <1>3

\* The rules follow the options: the options are let through once and the
\* rules rebuilt from them wherever either changes.
LEMMA NetworkInvStep ==
  ASSUME NetworkInv, [NetworkNext]_networkVars
  PROVE  NetworkInv'
<1> USE DEF NetworkInv, RulesFollowOptions, NetworkTypeOK
<1>1. ASSUME NEW list \in CidrLists[scenario], SetAllowedCidrs(list), UNCHANGED scenario
      PROVE  NetworkInv'
  <2>1. \A r \in PreparedCidrs(list) : r.family \in {4, 16} /\ r.bits \in 0 .. 8 * r.family
    BY <1>1, PreparedFit DEF SetAllowedCidrs
  <2> QED BY <1>1, <2>1 DEF SetAllowedCidrs
<1>2. ASSUME NEW list \in HostLists[scenario], SetAllowedHosts(list), UNCHANGED scenario
      PROVE  NetworkInv'
  <2>1. hosts' # Nil => Nil \notin hosts' BY <1>2 DEF SetAllowedHosts
  <2>2. hostRules' = PreparedHosts(hosts') /\ Nil \notin hostRules'
    BY <1>2, <2>1 DEF SetAllowedHosts, PreparedHosts
  <2>3. UNCHANGED <<scenario, policy, cidrs, cidrRules, hooks, blocked, transferring, answers>>
    BY <1>2 DEF SetAllowedHosts
  <2> QED BY <2>1, <2>2, <2>3
<1>3. ASSUME SetNetworkPolicy, UNCHANGED scenario PROVE NetworkInv'
  BY <1>3 DEF SetNetworkPolicy
<1>4. ASSUME SetupNetwork, UNCHANGED scenario PROVE NetworkInv'
  <2>1. \A r \in PreparedCidrs(cidrs) : r.family \in {4, 16} /\ r.bits \in 0 .. 8 * r.family
    BY PreparedFit
  <2>2. Nil \notin PreparedHosts(hosts) BY DEF PreparedHosts
  <2> QED BY <1>4, <2>1, <2>2 DEF SetupNetwork
<1>5. ASSUME Finish, UNCHANGED scenario PROVE NetworkInv' BY <1>5 DEF Finish
<1>6. ASSUME NEW d, OpenSocket(d), UNCHANGED scenario PROVE NetworkInv' BY <1>6 DEF OpenSocket
<1>7. ASSUME NEW u, Prereq(u), UNCHANGED scenario PROVE NetworkInv' BY <1>7 DEF Prereq
<1>8. CASE UNCHANGED networkVars BY <1>8 DEF networkVars
<1> QED BY <1>1, <1>2, <1>3, <1>4, <1>5, <1>6, <1>7, <1>8 DEF NetworkNext

\* Each answer is the right one: only OpenSocket makes one, from the rules as
\* they are at that moment.
LEMMA OpensStep ==
  ASSUME NetworkInv, OpensRight, [NetworkNext]_networkVars
  PROVE  OpensRight'
<1>1. CASE last' = Nil BY <1>1 DEF OpensRight
<1>2. ASSUME NEW d \in Dests[scenario], OpenSocket(d), "open" \in hooks PROVE OpensRight'
  <2>1. transferring /\ policy = "public" BY <1>2 DEF OpenSocket, NetworkInv
  <2>2. last'.dest = d /\ last'.ok = ~RefusedDest(d) /\ cidrs' = cidrs
    BY <1>2 DEF OpenSocket
  <2> QED BY <2>1, <2>2, RefusedFacts DEF OpensRight
<1>3. ASSUME NEW d, OpenSocket(d), "open" \notin hooks PROVE OpensRight'
  <2>1. hooks' = hooks BY <1>3 DEF OpenSocket
  <2> QED BY <1>3, <2>1 DEF OpensRight
<1>4. ASSUME NEW u, Prereq(u) PROVE OpensRight'
  <2>1. PICK l : l = [url |-> u, ok |-> "prereq" \in hooks => Admitted(u)] OBVIOUS
  <2>2. "dest" \notin DOMAIN l BY <2>1
  <2>3. last' = l BY <1>4, <2>1 DEF Prereq
  <2> QED BY <2>2, <2>3 DEF OpensRight
<1>5. CASE UNCHANGED networkVars BY <1>5 DEF networkVars, OpensRight
<1> QED BY <1>1, <1>2, <1>3, <1>4, <1>5
  DEF NetworkNext, SetAllowedCidrs, SetAllowedHosts, SetNetworkPolicy, SetupNetwork, Finish

\* The record of a refusal is kept by all but a setup, which starts with none.
LEMMA RecordStep ==
  ASSUME NetworkInv, RefusalOnRecord, [NetworkNext]_networkVars
  PROVE  RefusalOnRecord'
<1>1. ASSUME blocked' = (blocked \/ ~last'.ok), answers' = answers \cup {last'.ok},
             last'.ok \in BOOLEAN
      PROVE  RefusalOnRecord'
  BY <1>1 DEF RefusalOnRecord, NetworkInv, RulesFollowOptions, NetworkTypeOK
<1>2. ASSUME NEW d, OpenSocket(d) PROVE RefusalOnRecord'
  <2>1. last'.ok = ("open" \in hooks => ~RefusedDest(d)) BY <1>2 DEF OpenSocket
  <2>2. last'.ok \in BOOLEAN BY <2>1
  <2> QED BY <1>1, <1>2, <2>2 DEF OpenSocket
<1>3. ASSUME NEW u, Prereq(u) PROVE RefusalOnRecord'
  <2>1. last'.ok = ("prereq" \in hooks => Admitted(u)) BY <1>3 DEF Prereq
  <2>2. last'.ok \in BOOLEAN BY <2>1
  <2> QED BY <1>1, <1>3, <2>2 DEF Prereq
<1>4. CASE SetupNetwork BY <1>4 DEF SetupNetwork, RefusalOnRecord
<1>5. CASE UNCHANGED <<blocked, answers>> BY <1>5 DEF RefusalOnRecord
<1> QED BY <1>2, <1>3, <1>4, <1>5
  DEF NetworkNext, networkVars, SetAllowedCidrs, SetAllowedHosts, SetNetworkPolicy, Finish

\* A handle starts without rules, callbacks and answers.
LEMMA NetworkInvInit == NetworkInit => NetworkInv /\ OpensOnlyAllowed
BY DEF NetworkInit, NetworkInv, RulesFollowOptions, NetworkTypeOK, OpensOnlyAllowed, OpensRight, RefusalOnRecord

\* Both are invariants.
LEMMA NetworkInvariants == NetworkSpec => []NetworkInv /\ []OpensOnlyAllowed
<1>1. NetworkInv /\ OpensOnlyAllowed /\ [NetworkNext]_networkVars
        => NetworkInv' /\ OpensOnlyAllowed'
  BY NetworkInvStep, OpensStep, RecordStep DEF OpensOnlyAllowed
<1> QED BY <1>1, NetworkInvInit, PTL DEF NetworkSpec

\* While a transfer runs, the native CIDR and host rules are those of the
\* options, whichever setters the program calls, before or within it
\* (curb_easy.c 456-538, 2382-2434, 3897-3938).
THEOREM RulesAreFollowed == NetworkSpec => []RulesFollowOptions
<1>1. NetworkInv => RulesFollowOptions BY DEF NetworkInv
<1> QED BY <1>1, NetworkInvariants, PTL

\* Under the public policy curb lets libcurl open a socket exactly where the
\* address is in no special block and in a listed range, if there are any:
\* for every address, not only those at the bounds of the blocks
\* (curb_easy.c 82-183, 540-552, 654-718).
THEOREM SocketsAreAllowed == NetworkSpec => []OpensOnlyAllowed
BY NetworkInvariants, PTL

\* curb_normalize_host_value_impl reads the host out of every URL met.
UrlsAreRead ==
  \A p \in Scenarios : \A u \in Urls[p] :
    HostValue(u.before \o u.host \o u.after) = Canonical[u.host] /\ Canonical[u.host] # Nil

\* Only Prereq answers for a request, from the rules as they are then.
LEMMA SendsStep ==
  ASSUME UrlsAreRead, NetworkInv, SendsOnlyToListedHosts, [NetworkNext]_networkVars
  PROVE  SendsOnlyToListedHosts'
<1>1. CASE last' = Nil BY <1>1 DEF SendsOnlyToListedHosts
<1>2. ASSUME NEW u \in Urls[scenario], Prereq(u), "prereq" \in hooks
      PROVE  SendsOnlyToListedHosts'
  <2>1. PICK host : host = HostValue(u.before \o u.host \o u.after) OBVIOUS
  <2>2. host = Canonical[u.host] /\ host # Nil
    BY <2>1, Zenon DEF UrlsAreRead, NetworkInv
  <2>3. hostRules = PreparedHosts(hosts) BY <1>2 DEF Prereq, NetworkInv, RulesFollowOptions
  <2>4. Admitted(u) <=> hostRules = {} \/ host \in hostRules
    BY <2>1, <2>2 DEF Admitted, HostRulesMatch
  <2>5. Admitted(u) <=> hosts \in {Nil, {}} \/ host \in hosts
    BY <2>3, <2>4 DEF PreparedHosts
  <2>6. last'.url = u /\ (last'.ok <=> Admitted(u)) /\ hosts' = hosts BY <1>2 DEF Prereq
  <2> QED BY <2>2, <2>5, <2>6 DEF SendsOnlyToListedHosts
<1>3. ASSUME NEW u, Prereq(u), "prereq" \notin hooks PROVE SendsOnlyToListedHosts'
  <2>1. hooks' = hooks BY <1>3 DEF Prereq
  <2> QED BY <1>3, <2>1 DEF SendsOnlyToListedHosts
<1>4. ASSUME NEW d, OpenSocket(d) PROVE SendsOnlyToListedHosts'
  <2>1. PICK l : l = [dest |-> d, ok |-> "open" \in hooks => ~RefusedDest(d)] OBVIOUS
  <2>2. "url" \notin DOMAIN l BY <2>1
  <2>3. last' = l BY <1>4, <2>1 DEF OpenSocket
  <2> QED BY <2>2, <2>3 DEF SendsOnlyToListedHosts
<1>5. CASE UNCHANGED networkVars BY <1>5 DEF networkVars, SendsOnlyToListedHosts
<1> QED BY <1>1, <1>2, <1>3, <1>4, <1>5
  DEF NetworkNext, SetAllowedCidrs, SetAllowedHosts, SetNetworkPolicy, SetupNetwork, Finish

\* Where the host is read out of the URL as the URL spells it, a request of a
\* transfer with a host list goes out exactly to the hosts of the list as it
\* is at that moment (curb_easy.c 329-426, 502-512, 611-650).
THEOREM RequestsAreListed ==
  ASSUME UrlsAreRead
  PROVE  NetworkSpec => []SendsOnlyToListedHosts
<1>1. NetworkInit => SendsOnlyToListedHosts BY DEF NetworkInit, SendsOnlyToListedHosts
<1>2. NetworkInv /\ SendsOnlyToListedHosts
      /\ [NetworkNext]_networkVars => SendsOnlyToListedHosts'
  BY UrlsAreRead, SendsStep
<1> QED BY <1>1, <1>2, NetworkInvariants, PTL DEF NetworkSpec
==============================================================================
