---------------------------- MODULE SafetyPolicy -----------------------------
(***************************************************************************)
(* Curl.safe! and Easy#safe_http!: when the configuration of the Ractor    *)
(* and the override of an easy reach the options of the easy, when they    *)
(* reach libcurl, and what a Multi#perform runs under.                     *)
(*                                                                         *)
(* Source: lib/curl.rb, lib/curl/easy.rb, lib/curl/multi.rb.  Protocols,   *)
(* redirect protocols and the body limit take effect when they are set;    *)
(* the network policy, the host list, the routes and the proxy when setup  *)
(* installs them.                                                          *)
(*                                                                         *)
(* One thread works with the easies; others may call safe! meanwhile.  A   *)
(* step ends wherever one reads or writes what the other writes: the       *)
(* configuration and the generation.  What a thread does to its own        *)
(* easies and locals in between commutes with the steps of the others.     *)
(***************************************************************************)
EXTENDS Naturals, FiniteSets

CONSTANTS
  Programs,       \* bound: programs p, and what each of them does:
  Used,           \* Used[p]: the easies it works with
  Configs,        \* Configs[p]: the configurations it gives to safe!
  Settable,       \* Settable[p]: the options that it sets itself, of
                  \* "limit", "protocols", "policy", "routed", "proxied"
  Easies,
  HostOf,         \* HostOf[e]: the host of the URL of e
  AllProtocols,
  HttpOnly,       \* what safe_http! allows
  Changers,       \* Changers[p]: the threads that call safe! and clear_safe!
  MaxGeneration,  \* bound: the generation, and calls of safe_http!
  NoConfig, NoSignature, Unseen, Nobody

\* A SafetyConfig.  redirs = {} stands for nil, limit = 0 for none, hosts =
\* {} for nil; permit is every allow_ switch of the configuration.
ConfigType ==
  [protocols : (SUBSET AllProtocols) \ {{}}, redirs : SUBSET AllProtocols,
   limit : Nat, policy : {"nil", "none", "public"},
   hosts : SUBSET {HostOf[e] : e \in Easies}, permit : BOOLEAN]

ASSUME SafetyAssumption ==
  /\ IsFiniteSet(Easies) /\ HttpOnly \subseteq AllProtocols /\ HttpOnly # {}
  /\ MaxGeneration \in Nat
  /\ \A p \in Programs :
       /\ Used[p] \subseteq Easies /\ {NoConfig, Unseen} \cap Configs[p] = {}
       /\ Configs[p] \subseteq ConfigType
  /\ Unseen # NoConfig /\ Nobody \notin Easies

VARIABLES
  program,     \* the program of this behaviour
  config, generation, \* ractor_local_state
  changing,    \* changing[t]: how far t is in safe!: "no", "stored" or "read"
  was,         \* was[t]: the generation that it has read
  attrs,       \* attrs[e]: the options of the easy
  override,    \* override[e]: @__curb_safety_override is set
  overrideGen, \* @__curb_safety_override_generation
  native,      \* native[e]: what setup last gave to libcurl
  attached,    \* Multi#requests
  signature,   \* __curb_native_safety_signatures
  todo,        \* the easies perform has still to look at
  running,     \* the transfers that libcurl runs
  pc,
  inHand,      \* the easy that add or perform deals with
  active,      \* what safety_active_for? has said of it
  back,        \* where the thread goes on after it
  \* History:
  under,       \* under[e]: the configuration that its last apply_safety! saw
  own,         \* own[e]: the options that the program has set since
  cleared,     \* cleared[e]: the configuration add, or this perform, applied
  overlapped,  \* safe! has been under way since the easy in hand was applied
  doubtful,    \* the easies this was true of, since setup gave them a signature
  spoiled      \* the easies whose setup has failed half way

confVars == <<config, generation, changing, was>>
easyVars == <<attrs, override, overrideGen, native, under, own, cleared>>
multiVars == <<attached, signature, todo, running, pc, inHand, active, back, doubtful, spoiled>>
vars == <<program, confVars, easyVars, multiVars, overlapped>>

\* The options of a new easy, and what libcurl has before the first setup.
Fresh == [protocols |-> AllProtocols, redirs |-> AllProtocols, limit |-> 0,
          policy |-> "none", hosts |-> {}, routed |-> FALSE, proxied |-> FALSE]
Bare == [policy |-> "none", hosts |-> {}, routed |-> FALSE, proxied |-> FALSE]

TypeOK ==
  /\ program \in Programs
  /\ config \in Configs[program] \cup {NoConfig} /\ generation \in 0 .. MaxGeneration
  /\ \A e \in Easies :
       /\ DOMAIN attrs[e] = DOMAIN Fresh
       /\ attrs[e].protocols # {} /\ attrs[e].protocols \subseteq AllProtocols
       /\ attrs[e].redirs # {} /\ attrs[e].redirs \subseteq AllProtocols
       /\ attrs[e].policy \in {"none", "public"} /\ DOMAIN native[e] = DOMAIN Bare
       /\ under[e] \in Configs[program] \cup {NoConfig}
       /\ cleared[e] \in Configs[program] \cup {NoConfig, Unseen}
  /\ changing \in [Changers[program] -> {"no", "stored", "read"}] /\ was \in [Changers[program] -> Nat]
  /\ override \in [Easies -> BOOLEAN] /\ overrideGen \in [Easies -> Nat]
  /\ attached \subseteq Easies /\ todo \subseteq attached /\ running \subseteq attached
  /\ pc \in {"idle", "applying", "signing", "dating", "running"}
  /\ back \in {"idle", "applying", "running"}

Init ==
  /\ program \in Programs
  /\ config = NoConfig /\ generation = 0
  /\ changing = [t \in Changers[program] |-> "no"] /\ was = [t \in Changers[program] |-> 0]
  /\ attrs = [e \in Easies |-> Fresh] /\ native = [e \in Easies |-> Bare]
  /\ override = [e \in Easies |-> FALSE] /\ overrideGen = [e \in Easies |-> 0]
  /\ under = [e \in Easies |-> NoConfig] /\ own = [e \in Easies |-> {}]
  /\ cleared = [e \in Easies |-> Unseen]
  /\ attached = {} /\ signature = [e \in Easies |-> NoSignature]
  /\ todo = {} /\ running = {} /\ pc = "idle"
  /\ inHand = Nobody /\ active = FALSE /\ back = "idle"
  /\ overlapped = FALSE /\ doubtful = {} /\ spoiled = {}

-----------------------------------------------------------------------------
\* apply_safety!

Public == config # NoConfig /\ config.policy = "public"

\* safety_protocol_intersection of the configuration and the override.
Intersect(base, ov) == IF ov THEN base \cap HttpOnly ELSE base

ConfigProtocols == IF config = NoConfig THEN AllProtocols ELSE config.protocols
ConfigRedirs ==
  IF config = NoConfig \/ config.redirs = {} THEN ConfigProtocols ELSE config.redirs

\* Neither a configuration nor an override: nothing is touched.
Idle(ov) == config = NoConfig /\ ~ov

\* The options that are set before anything is refused.
Protocols(a, ov) ==
  IF Idle(ov) THEN a
  ELSE [a EXCEPT !.protocols = Intersect(ConfigProtocols, ov),
                 !.redirs = Intersect(ConfigRedirs, ov)]

NoProtocol(ov) ==
  ~Idle(ov) /\ {} \in {Intersect(ConfigProtocols, ov), Intersect(ConfigRedirs, ov)}

\* apply_allowed_hosts! and the reject_ functions.
HostRefused(e) == config # NoConfig /\ config.hosts # {} /\ HostOf[e] \notin config.hosts
RouteRefused(a) == Public /\ ~config.permit /\ a.routed

\* apply_max_body_bytes!: the smaller limit counts.
Limited(old, new) == IF new = 0 \/ (old > 0 /\ old <= new) THEN old ELSE new

Settings(a, ov) ==
  IF config = NoConfig THEN Protocols(a, ov)
  ELSE [Protocols(a, ov) EXCEPT
          !.hosts = IF config.hosts # {} THEN config.hosts ELSE @,
          !.policy = IF config.policy # "nil" THEN config.policy ELSE @,
          !.proxied = @ /\ ~(Public /\ ~config.permit),
          !.limit = Limited(@, config.limit)]

\* Where it raises, the options up to there stay set: a host that is refused
\* leaves the protocols, an override of the routing the host list and policy.
AfterRefusal(e, a, ov) ==
  IF NoProtocol(ov) THEN a
  ELSE IF HostRefused(e) THEN Protocols(a, ov)
  ELSE [Settings(a, ov) EXCEPT !.proxied = a.proxied, !.limit = a.limit]

Refused(e, a, ov) == NoProtocol(ov) \/ HostRefused(e) \/ RouteRefused(a)

\* Where it raises, some options are the program's own, some not.
ApplySafety(e, ov) ==
  /\ attrs' = [attrs EXCEPT ![e] =
       IF Refused(e, @, ov) THEN AfterRefusal(e, @, ov) ELSE Settings(@, ov)]
  /\ under' = [under EXCEPT ![e] = config]
  /\ own' = [own EXCEPT ![e] =
       IF Refused(e, attrs[e], ov) THEN {"limit", "protocols"} ELSE {}]

\* What setup gives to libcurl.
Setup(a) == [policy |-> a.policy, hosts |-> a.hosts, routed |-> a.routed, proxied |-> a.proxied]

\* safety_active_for? and __curb_safety_signature_for, which reads the
\* generation after it.
Active(e) == config # NoConfig \/ override[e]
Signature(e, a, act) ==
  <<IF act THEN <<generation, overrideGen[e]>> ELSE <<>>, a.policy, a.hosts>>

-----------------------------------------------------------------------------
\* Curl.safe! and clear_safe!, from any thread at any time: the configuration
\* is stored, then the generation is read and written.  Two threads may lose
\* a generation.

Changing == \E t \in Changers[program] : changing[t] # "no"

StoreConfig(t, c) ==
  /\ changing[t] = "no" /\ generation < MaxGeneration
  /\ config' = c
  /\ changing' = [changing EXCEPT ![t] = "stored"]
  /\ overlapped' = (inHand # Nobody)
  /\ UNCHANGED <<generation, was, easyVars, multiVars>>

ReadGeneration(t) ==
  /\ changing[t] = "stored" /\ generation < MaxGeneration
  /\ was' = [was EXCEPT ![t] = generation]
  /\ changing' = [changing EXCEPT ![t] = "read"]
  /\ UNCHANGED <<config, generation, easyVars, multiVars, overlapped>>

BumpGeneration(t) ==
  /\ changing[t] = "read"
  /\ generation' = was[t] + 1
  /\ changing' = [changing EXCEPT ![t] = "no"] /\ was' = [was EXCEPT ![t] = 0]
  /\ UNCHANGED <<config, easyVars, multiVars, overlapped>>

-----------------------------------------------------------------------------
\* The program, between the calls and in the handlers of the transfers

AtRest == pc \in {"idle", "running"}

\* safe_http!, which also applies what is configured.
SafeHttp(e) ==
  /\ AtRest /\ overrideGen[e] < MaxGeneration
  /\ override' = [override EXCEPT ![e] = TRUE]
  /\ overrideGen' = [overrideGen EXCEPT ![e] = @ + 1]
  /\ ApplySafety(e, TRUE)
  /\ UNCHANGED <<confVars, native, cleared, multiVars, overlapped>>

\* The program sets options of its own, wider ones included.
UserSets(e) ==
  /\ AtRest
  /\ \/ /\ "limit" \in Settable[program]
        /\ \E l \in {0, 3} : attrs' = [attrs EXCEPT ![e].limit = l]
        /\ own' = [own EXCEPT ![e] = @ \cup {"limit"}]
     \/ /\ "protocols" \in Settable[program]
        /\ attrs' = [attrs EXCEPT ![e].protocols = AllProtocols, ![e].redirs = AllProtocols]
        /\ own' = [own EXCEPT ![e] = @ \cup {"protocols"}]
     \/ /\ "policy" \in Settable[program]
        /\ \E y \in {"none", "public"} :
             attrs' = [attrs EXCEPT ![e].policy = y, ![e].hosts = {}]
        /\ UNCHANGED own
     \/ /\ "routed" \in Settable[program]
        /\ \E r \in BOOLEAN : attrs' = [attrs EXCEPT ![e].routed = r]
        /\ UNCHANGED own
     \/ /\ "proxied" \in Settable[program]
        /\ attrs' = [attrs EXCEPT ![e].proxied = TRUE]
        /\ UNCHANGED own
  /\ UNCHANGED <<confVars, override, overrideGen, native, under, cleared, multiVars, overlapped>>

\* Easy#reset and Easy#close, of an easy that is not attached.
Reset(e) ==
  /\ AtRest /\ e \notin attached
  /\ attrs' = [attrs EXCEPT ![e] = Fresh] /\ native' = [native EXCEPT ![e] = Bare]
  /\ override' = [override EXCEPT ![e] = FALSE]
  /\ overrideGen' = [overrideGen EXCEPT ![e] =
       IF override[e] /\ @ < MaxGeneration THEN @ + 1 ELSE @]
  /\ UNCHANGED <<confVars, under, own, cleared, multiVars, overlapped>>

\* An easy that is applied is in hand until its signature is dealt with,
\* unless this raises.
LetsGo == inHand' = Nobody /\ active' = FALSE /\ back' = "idle" /\ overlapped' = FALSE
Takes(e) == inHand' = e /\ back' = pc /\ overlapped' = Changing /\ UNCHANGED active

Apply(e) == ApplySafety(e, override[e]) /\ cleared' = [cleared EXCEPT ![e] = config]

\* An easy that is detached has no record, and nothing to be said of.
Detach(e) ==
  /\ attached' = attached \ {e} /\ running' = running \ {e}
  /\ signature' = [signature EXCEPT ![e] = NoSignature]
  /\ doubtful' = doubtful \ {e} /\ spoiled' = spoiled \ {e}
  /\ under' = [under EXCEPT ![e] = NoConfig] /\ own' = [own EXCEPT ![e] = {}]
  /\ cleared' = [cleared EXCEPT ![e] = Unseen]

\* Multi#add applies and sets up; while perform runs, the transfer starts at
\* once.  The signature is computed and recorded after that.
Add(e) ==
  /\ AtRest /\ e \notin attached
  /\ Apply(e)
  /\ \/ /\ Refused(e, attrs[e], override[e])
        /\ UNCHANGED <<native, attached, running, pc, inHand, active, back, overlapped>>
     \/ /\ ~Refused(e, attrs[e], override[e])
        /\ native' = [native EXCEPT ![e] = Setup(attrs'[e])]
        /\ attached' = attached \cup {e}
        /\ running' = IF pc = "running" THEN running \cup {e} ELSE running
        /\ pc' = "signing" /\ Takes(e)
     \/ /\ ~Refused(e, attrs[e], override[e])
        /\ native' \in {native, [native EXCEPT ![e] = Setup(attrs'[e])]}
        /\ UNCHANGED <<attached, running, pc, inHand, active, back, overlapped>>
  /\ UNCHANGED <<confVars, override, overrideGen, signature, todo, doubtful, spoiled>>

RemoveEasy(e) ==
  /\ AtRest /\ e \in attached /\ Detach(e)
  /\ UNCHANGED <<confVars, attrs, override, overrideGen, native, todo, pc,
                 inHand, active, back, overlapped>>

-----------------------------------------------------------------------------
\* Multi#perform

NeverApplied == {e \in attached : signature[e] = NoSignature}
ToApply == attached

Perform ==
  /\ pc = "idle" /\ attached # {}
  /\ pc' = "applying" /\ todo' = ToApply
  /\ cleared' = [e \in Easies |-> Unseen]
  /\ under' = [e \in Easies |-> NoConfig] /\ own' = [e \in Easies |-> {}]
  /\ UNCHANGED <<confVars, attrs, override, overrideGen, native,
                 attached, signature, running, inHand, active, back, doubtful, spoiled, overlapped>>

\* The next easy of requests.each_value.
PerformOne(e) ==
  /\ pc = "applying" /\ e \in todo
  /\ Apply(e)
  /\ IF Refused(e, attrs[e], override[e])
     THEN pc' = "idle" /\ todo' = {} /\ UNCHANGED <<inHand, active, back, overlapped>>
     ELSE pc' = "signing" /\ UNCHANGED todo /\ Takes(e)
  /\ UNCHANGED <<confVars, override, overrideGen, native, attached, signature, running,
                 doubtful, spoiled>>

\* safety_active_for?, in add and in perform.
AskActive ==
  /\ pc = "signing"
  /\ active' = Active(inHand) /\ pc' = "dating"
  /\ UNCHANGED <<confVars, easyVars, attached, signature, todo, running, inHand, back,
                 doubtful, spoiled, overlapped>>

\* Setup is done, or raises before it gave libcurl any of the policy, or after.
Outcomes == {"done", "early", "late"}
RecordFirst(sig, o) == [signature EXCEPT ![inHand] = sig]
Record(sig, o) == IF o = "done" THEN [signature EXCEPT ![inHand] = sig] ELSE signature

\* The generation in the signature may not be that of what was applied.
Doubt == IF overlapped THEN doubtful \cup {inHand} ELSE doubtful \ {inHand}

\* Multi#add records.
RecordAdded ==
  /\ pc = "dating" /\ back # "applying"
  /\ signature' = Record(Signature(inHand, attrs[inHand], active), "done")
  /\ doubtful' = Doubt /\ spoiled' = spoiled \ {inHand}
  /\ pc' = back /\ LetsGo
  /\ UNCHANGED <<confVars, easyVars, attached, todo, running>>

\* Multi#perform compares; the same signature, so setup is skipped.
SkipSetup ==
  /\ pc = "dating" /\ back = "applying"
  /\ signature[inHand] = Signature(inHand, attrs[inHand], active)
  /\ todo' = todo \ {inHand} /\ pc' = back /\ LetsGo
  /\ doubtful' = doubtful \cup Doubt
  /\ UNCHANGED <<confVars, easyVars, attached, signature, running, spoiled>>

\* Another one: set up again and record, where setup does not raise.
SetupAgain(o) ==
  /\ pc = "dating" /\ back = "applying"
  /\ LET sig == Signature(inHand, attrs[inHand], active)
     IN signature[inHand] # sig /\ signature' = Record(sig, o)
  /\ native' = IF o = "early" THEN native
               ELSE [native EXCEPT ![inHand] = Setup(attrs[inHand])]
  /\ IF o = "done" THEN todo' = todo \ {inHand} /\ pc' = back ELSE todo' = {} /\ pc' = "idle"
  /\ doubtful' = IF o = "done" THEN Doubt ELSE doubtful \cup Doubt
  /\ spoiled' = CASE o = "done"  -> spoiled \ {inHand}
                  [] o = "early" -> spoiled
                  [] o = "late"  -> spoiled \cup {inHand}
  /\ LetsGo
  /\ UNCHANGED <<confVars, attrs, override, overrideGen, under, own, cleared, attached, running>>

NativePerform ==
  /\ pc = "applying" /\ todo = {}
  /\ pc' = "running" /\ running' = attached
  /\ UNCHANGED <<confVars, easyVars, attached, signature, todo, inHand, active, back,
                 doubtful, spoiled, overlapped>>

\* A transfer ends and is detached; perform returns when the last one has.
EndOne(e) ==
  /\ pc = "running" /\ e \in running /\ Detach(e)
  /\ UNCHANGED <<confVars, attrs, override, overrideGen, native, todo, pc,
                 inHand, active, back, overlapped>>

PerformReturns ==
  /\ pc = "running" /\ running = {}
  /\ pc' = "idle"
  /\ UNCHANGED <<confVars, easyVars, attached, signature, todo, running, inHand, active, back,
                 doubtful, spoiled, overlapped>>

Next ==
  /\ \/ \E t \in Changers[program] :
          \/ \E c \in Configs[program] \cup {NoConfig} : StoreConfig(t, c)
          \/ ReadGeneration(t) \/ BumpGeneration(t)
     \/ \E e \in Used[program] :
          \/ SafeHttp(e) \/ UserSets(e) \/ Reset(e) \/ Add(e) \/ RemoveEasy(e)
          \/ PerformOne(e) \/ EndOne(e)
     \/ \E o \in Outcomes : SetupAgain(o)
     \/ Perform \/ AskActive \/ RecordAdded \/ SkipSetup \/ NativePerform \/ PerformReturns
  /\ UNCHANGED program

Spec == Init /\ [][Next]_vars

-----------------------------------------------------------------------------
\* What libcurl was given forbids what the configuration c forbids.  An easy
\* is doubtful if add or perform applied a configuration to it while safe! was
\* under way: the generation in its signature may be that of another one.
GivenAsAsked(e, c) ==
  c \notin {NoConfig, Unseen} =>
    /\ ~(e \in doubtful /\ e \in spoiled) =>
         /\ c.hosts # {} => native[e].hosts = c.hosts
         /\ c.policy = "public" => native[e].policy = "public"
    /\ e \notin doubtful =>
         (c.policy = "public" /\ ~c.permit => ~native[e].proxied /\ ~native[e].routed)

\* The options that take effect at once are within the configuration that the
\* last apply_safety! saw and within the override, but for those that the
\* program has set since.
AtOnceWithin(e) ==
  LET a == attrs[e]  c == under[e]
  IN /\ "protocols" \notin own[e] =>
          /\ override[e] => (a.protocols \cup a.redirs) \subseteq HttpOnly
          /\ c # NoConfig =>
               /\ a.protocols \subseteq c.protocols
               /\ a.redirs \subseteq (IF c.redirs = {} THEN c.protocols ELSE c.redirs)
     /\ "limit" \notin own[e] => (c # NoConfig /\ c.limit > 0 => a.limit \in 1 .. c.limit)

\* Those that setup installs are within the configuration that the perform has
\* applied, or the add that started the transfer in this perform.
SetUpWithin(e) ==
  LET c == cleared[e]
  IN /\ c # Unseen /\ GivenAsAsked(e, c)
     /\ c # NoConfig /\ c.hosts # {} => HostOf[e] \in c.hosts

\* A transfer runs within the policy that was in force when perform was called,
\* or a later one, whatever the program set before, however safe! interleaves
\* with the steps of perform, and wherever setups failed (Multi#perform,
\* apply_safety!, curb_easy.c setup).
RunsWithinPolicy == \A e \in running : AtOnceWithin(e) /\ SetUpWithin(e)

\* A signature that matches means that libcurl has the policy and the host
\* list of the easy, and is within the configuration in force: skipping the
\* setup is right, when safe! is not under way (__curb_safety_signature_for).
\* An easy that add has in hand has no signature yet.
SignatureIsHonest ==
  /\ TypeOK
  /\ \A e \in attached :
       (e = inHand => back = "applying") /\ signature[e] = Signature(e, attrs[e], Active(e)) =>
         /\ e \notin spoiled =>
              native[e].policy = attrs[e].policy /\ native[e].hosts = attrs[e].hosts
         /\ ~Changing /\ e \notin doubtful => GivenAsAsked(e, config)
==============================================================================
