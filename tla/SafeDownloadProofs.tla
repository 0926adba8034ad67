------------------------- MODULE SafeDownloadProofs -------------------------
(***************************************************************************)
(* Proofs about SafeDownload, for any calls, downloads, paths, options,    *)
(* settings and faults.                                                    *)
(***************************************************************************)
EXTENDS SafeDownload, TLAPS

\* A download belongs to one call.
LEMMA CallOfIs ==
  ASSUME NEW c \in Calls, NEW d \in Of(c)
  PROVE  CallOf(d) = c /\ d \in Downloads /\ \A b \in Calls : d \in Of(b) => b = c
<1>1. Outputs[c] \in Seq(Downloads) BY DownloadAssumption
<1>2. d \in Downloads BY <1>1 DEF Of
<1>3. \A b \in Calls : d \in Of(b) => b = c BY <1>2, DownloadAssumption DEF Of
<1> QED BY <1>2, <1>3 DEF CallOf

\* What a download puts at a path is neither absent nor another program's.
LEMMA ContentFacts ==
  ASSUME NEW d \in Downloads, NEW n
  PROVE  Content(d, n) \in [by : Downloads, whole : BOOLEAN] /\ Content(d, n) # Absent
<1>1. (n = Chunks) \in BOOLEAN OBVIOUS
<1>2. Content(d, n) \in [by : Downloads, whole : BOOLEAN] BY <1>1 DEF Content
<1> QED BY <1>2, DownloadAssumption

-----------------------------------------------------------------------------
(***************************************************************************)
(* Type correctness, with the domain of opened, which TypeOK leaves open.  *)
(***************************************************************************)

Typed == TypeOK /\ opened \in [Calls -> Nat]

LEMMA NextOutput ==
  ASSUME Typed, NEW c \in Calls, opened[c] < Len(Outputs[c])
  PROVE  /\ Outputs[c][opened[c] + 1] \in Of(c)
         /\ Outputs[c][opened[c] + 1] \in Downloads
         /\ opened[c] + 1 \in 0 .. Len(Outputs[c])
<1>1. Outputs[c] \in Seq(Downloads) BY DownloadAssumption
<1>2. opened[c] \in Nat /\ Len(Outputs[c]) \in Nat BY <1>1 DEF Typed
<1>3. opened[c] + 1 \in 1 .. Len(Outputs[c]) BY <1>2
<1> QED BY <1>1, <1>2, <1>3 DEF Of

LEMMA TypedStep ==
  ASSUME Typed, [Next]_vars
  PROVE  Typed'
<1> USE DEF Typed, OutStates
<1>1. ASSUME NEW c \in Calls, Resolve(c) PROVE Typed'
  <2>1. Duplicates(c) \in BOOLEAN BY DEF Duplicates
  <2> QED BY <1>1, <2>1 DEF TypeOK, Resolve
<1>2. ASSUME NEW c \in Calls, OpenOutput(c) PROVE Typed'
  <2> DEFINE d == Outputs[c][opened[c] + 1]
  <2>1. phase[c] = "open" /\ d \in Downloads /\ opened[c] + 1 \in 0 .. Len(Outputs[c])
    BY <1>2, NextOutput DEF OpenOutput
  <2>2. CASE /\ out' = [out EXCEPT ![d] = "open"]
             /\ opened' = [opened EXCEPT ![c] = @ + 1]
             /\ files' = [files EXCEPT ![c] = @ \cup {d}]
             /\ UNCHANGED <<phase, raised>>
    <3> HIDE DEF d
    <3> QED BY <1>2, <2>1, <2>2 DEF TypeOK, OpenOutput
  <2>3. CASE /\ phase' = [phase EXCEPT ![c] = "ensure"]
             /\ raised' = [raised EXCEPT ![c] = TRUE]
             /\ UNCHANGED <<out, opened, files>>
    BY <1>2, <2>3 DEF TypeOK, OpenOutput
  <2> QED BY <1>2, <2>2, <2>3 DEF OpenOutput
<1>3. ASSUME NEW c \in Calls, StartTransfers(c) PROVE Typed'
  BY <1>3 DEF TypeOK, StartTransfers
<1>4. ASSUME NEW c \in Calls, HttpEnds(c) PROVE Typed'
  BY <1>4 DEF TypeOK, HttpEnds
<1>5. ASSUME NEW c \in Calls, CloseListed(c) PROVE Typed'
  <2>1. PICK d \in files[c] : /\ files' = [files EXCEPT ![c] = @ \ {d}]
                             /\ out' = [out EXCEPT ![d] = IF @ = "open" THEN "failure" ELSE @]
    BY <1>5 DEF CloseListed
  <2>2. files' \in [Calls -> SUBSET Downloads] /\ out' \in [Downloads -> OutStates]
    BY <2>1 DEF TypeOK
  <2> QED BY <1>5, <2>2 DEF TypeOK, CloseListed
<1>6. ASSUME NEW c \in Calls, EndCall(c) PROVE Typed'
  BY <1>6 DEF TypeOK, EndCall
<1>7. ASSUME NEW d \in Downloads, Write(d) PROVE Typed'
  <2>1. written[d] + 1 \in 0 .. Chunks BY <1>7, DownloadAssumption DEF TypeOK, Write
  <2> QED BY <1>7, <2>1 DEF TypeOK, Write
<1>8. ASSUME NEW d \in Downloads, NEW ok \in BOOLEAN, Complete(d, ok) PROVE Typed'
  <2>1. Succeeded(d, ok) \in BOOLEAN BY DEF Succeeded
  <2>2. out' \in [Downloads -> OutStates] /\ files' \in [Calls -> SUBSET Downloads]
    BY <1>8 DEF TypeOK, Complete, Reject
  <2>3. errors' \in [Calls -> BOOLEAN] /\ raised' \in [Calls -> BOOLEAN]
    BY <1>8, <2>1 DEF TypeOK, Complete
  <2> QED BY <1>8, <2>2, <2>3 DEF TypeOK, Complete
<1>9. ASSUME NEW d \in Downloads, CloseRaises(d)
      PROVE  errors' \in [Calls -> BOOLEAN] /\ raised' \in [Calls -> BOOLEAN]
  BY <1>9 DEF TypeOK, CloseRaises
<1>10. ASSUME NEW d \in Downloads, Flush(d) PROVE Typed'
  <2>1. errors' \in [Calls -> BOOLEAN] /\ raised' \in [Calls -> BOOLEAN]
    BY <1>9, <1>10 DEF TypeOK, Flush
  <2>2. out' \in [Downloads -> OutStates] BY <1>10 DEF TypeOK, Flush
  <2> QED BY <1>10, <2>1, <2>2 DEF TypeOK, Flush
<1>11. ASSUME NEW d \in Downloads, InstallTmpFile(d) PROVE Typed'
  <2>1. PathOf[d] \in Paths BY DownloadAssumption
  <2>2. target' \in [Paths -> {Absent, Foreign} \cup [by : Downloads, whole : BOOLEAN]]
    BY <1>11, <2>1, ContentFacts DEF TypeOK, InstallTmpFile
  <2> QED BY <1>11, <2>2 DEF TypeOK, InstallTmpFile
<1>12. ASSUME NEW d \in Downloads, InstallRaises(d) PROVE Typed'
  <2>1. errors' \in [Calls -> BOOLEAN] /\ raised' \in [Calls -> BOOLEAN]
    BY <1>9, <1>12 DEF InstallRaises
  <2> QED BY <1>12, <2>1 DEF TypeOK, InstallRaises
<1>13. ASSUME NEW d \in Downloads, CopyCreates(d) PROVE Typed'
  <2>1. PathOf[d] \in Paths BY DownloadAssumption
  <2>2. target' \in [Paths -> {Absent, Foreign} \cup [by : Downloads, whole : BOOLEAN]]
    BY <1>13, <2>1, ContentFacts DEF TypeOK, CopyCreates
  <2> QED BY <1>13, <2>2 DEF TypeOK, CopyCreates
<1>14. ASSUME NEW d \in Downloads, CopyStream(d) PROVE Typed'
  <2>1. CASE copied[d] < written[d]
    <3>1. PathOf[d] \in Paths BY DownloadAssumption
    <3>2. target' \in [Paths -> {Absent, Foreign} \cup [by : Downloads, whole : BOOLEAN]]
      <4>1. target' = [target EXCEPT ![PathOf[d]] = Content(d, copied[d] + 1)]
        BY <1>14, <2>1 DEF CopyStream
      <4>2. Content(d, copied[d] + 1) \in [by : Downloads, whole : BOOLEAN] BY ContentFacts
      <4> QED BY <3>1, <4>1, <4>2 DEF TypeOK
    <3>3. copied[d] + 1 \in 0 .. Chunks BY <2>1, DownloadAssumption DEF TypeOK
    <3> QED BY <1>14, <2>1, <3>2, <3>3 DEF TypeOK, CopyStream
  <2>2. CASE ~(copied[d] < written[d])
    <3>1. /\ out' = [out EXCEPT ![d] = "closing"]
          /\ installed' = installed \cup {d}
          /\ UNCHANGED <<copied, target, setting, phase, opened, files, written, errors, raised>>
      BY <1>14, <2>2 DEF CopyStream
    <3> QED BY <3>1 DEF TypeOK
  <2> QED BY <2>1, <2>2
<1>15. ASSUME NEW d \in Downloads, RemoveTmp(d) PROVE Typed'
  BY <1>15 DEF TypeOK, RemoveTmp
<1>16. ASSUME NEW p \in Paths, ForeignCreate(p) PROVE Typed'
  BY <1>16 DEF TypeOK, ForeignCreate
<1>17. CASE UNCHANGED vars BY <1>17 DEF TypeOK, vars
<1> QED
  BY <1>1, <1>2, <1>3, <1>4, <1>5, <1>6, <1>7, <1>8, <1>10, <1>11, <1>12, <1>13, <1>14, <1>15,
     <1>16, <1>17 DEF Next, CallStep, DownloadStep

LEMMA TypedInvariant == Spec => []Typed
<1>1. Init => Typed
  <2>1. \A c \in Calls : Len(Outputs[c]) \in Nat BY DownloadAssumption
  <2> QED BY <2>1, DownloadAssumption DEF Init, Typed, TypeOK, OutStates
<1>2. Typed /\ [Next]_vars => Typed'
  BY TypedStep
<1> QED BY <1>1, <1>2, PTL DEF Spec

\* The ensure clause closes one of the outputs on the list, if it is open.
LEMMA ListedFacts ==
  ASSUME Typed, NEW c \in Calls, CloseListed(c)
  PROVE  \E d \in Downloads :
           /\ d \in files[c] /\ files' = [files EXCEPT ![c] = @ \ {d}]
           /\ \/ out[d] = "open" /\ out' = [out EXCEPT ![d] = "failure"]
              \/ out[d] # "open" /\ out' = out
<1>1. PICK d \in files[c] : /\ files' = [files EXCEPT ![c] = @ \ {d}]
                           /\ out' = [out EXCEPT ![d] = IF @ = "open" THEN "failure" ELSE @]
  BY DEF CloseListed
<1>2. d \in Downloads /\ out \in [Downloads -> OutStates] BY DEF Typed, TypeOK
<1>3. CASE out[d] = "open" BY <1>1, <1>2, <1>3
<1>4. CASE out[d] # "open"
  <2>1. out' = out BY <1>1, <1>2, <1>4
  <2> QED BY <1>1, <1>2, <1>4, <2>1
<1> QED BY <1>3, <1>4

-----------------------------------------------------------------------------
(***************************************************************************)
(* One winner.  A download has claimed its path when it is installed or is *)
(* being copied there: a claimed path is occupied, and stays so.           *)
(***************************************************************************)

Claimed == installed \cup {d \in Downloads : out[d] = "copy"}

ClaimsHold ==
  /\ \A d \in Claimed : target[PathOf[d]] # Absent
  /\ \A d, e \in Claimed : d # e /\ PathOf[d] = PathOf[e] => Overwrite[d] \/ Overwrite[e]

\* A step that frees no path and claims no new one.
LEMMA ClaimsKept ==
  ASSUME Typed, ClaimsHold, Claimed' \subseteq Claimed,
         \A p \in Paths : target[p] # Absent => target'[p] # Absent
  PROVE  ClaimsHold'
<1>1. \A d \in Claimed : PathOf[d] \in Paths BY DownloadAssumption DEF Claimed, Typed, TypeOK
<1> QED BY <1>1 DEF ClaimsHold

\* A step that claims the path of d, which was free or may be overwritten.
LEMMA ClaimsNew ==
  ASSUME Typed, ClaimsHold, NEW d \in Downloads, NEW n, Claimed' \subseteq Claimed \cup {d},
         target' = [target EXCEPT ![PathOf[d]] = Content(d, n)],
         target[PathOf[d]] = Absent \/ Overwrite[d] \/ d \in Claimed
  PROVE  ClaimsHold'
<1>1. \A e \in Claimed \cup {d} : PathOf[e] \in Paths
  BY DownloadAssumption DEF Claimed, Typed, TypeOK
<1>2. \A p \in Paths : target'[p] = IF p = PathOf[d] THEN Content(d, n) ELSE target[p]
  BY DEF Typed, TypeOK
<1>3. \A e \in Claimed' : target'[PathOf[e]] # Absent
  BY <1>1, <1>2, ContentFacts DEF ClaimsHold
<1>4. ASSUME NEW e \in Claimed', NEW f \in Claimed', e # f, PathOf[e] = PathOf[f]
      PROVE  Overwrite[e] \/ Overwrite[f]
  <2>1. CASE e \in Claimed /\ f \in Claimed BY <1>4, <2>1 DEF ClaimsHold
  <2>2. CASE d \notin Claimed /\ (e = d \/ f = d)
    <3>1. PICK g \in Claimed : PathOf[g] = PathOf[d] BY <1>4, <2>2
    <3>2. Overwrite[d] BY <2>2, <3>1 DEF ClaimsHold
    <3> QED BY <2>2, <3>2
  <2> QED BY <1>4, <2>1, <2>2
<1> QED BY <1>3, <1>4 DEF ClaimsHold

LEMMA ClaimsStep ==
  ASSUME Typed, [Next]_vars, ClaimsHold
  PROVE  ClaimsHold'
<1>1. ASSUME UNCHANGED <<target, installed>>, NEW d \in Downloads, NEW s \in OutStates \ {"copy"},
             out' = [out EXCEPT ![d] = s]
      PROVE  ClaimsHold'
  <2>1. Claimed' \subseteq Claimed BY <1>1 DEF Claimed, Typed, TypeOK
  <2> QED BY <1>1, <2>1, ClaimsKept
<1>2. ASSUME UNCHANGED <<target, installed, out>> PROVE ClaimsHold'
  BY <1>2, ClaimsKept DEF Claimed
<1>3. ASSUME NEW c \in Calls, CallStep(c) PROVE ClaimsHold'
  <2>1. CASE OpenOutput(c)
    <3> DEFINE d == Outputs[c][opened[c] + 1]
    <3>1. d \in Downloads BY <2>1, NextOutput DEF OpenOutput
    <3>2. UNCHANGED <<target, installed>> /\ (out' = [out EXCEPT ![d] = "open"] \/ out' = out)
      BY <2>1 DEF OpenOutput
    <3> HIDE DEF d
    <3> QED BY <1>1, <1>2, <3>1, <3>2 DEF OutStates
  <2>2. CASE CloseListed(c)
    <3>1. PICK d \in Downloads : out' = [out EXCEPT ![d] = "failure"] \/ out' = out
      BY <2>2, ListedFacts
    <3> QED BY <1>1, <1>2, <2>2, <3>1 DEF CloseListed, OutStates
  <2>3. CASE Resolve(c) \/ StartTransfers(c) \/ HttpEnds(c) \/ EndCall(c)
    BY <1>2, <2>3 DEF Resolve, StartTransfers, HttpEnds, EndCall
  <2> QED BY <1>3, <2>1, <2>2, <2>3 DEF CallStep
<1>4. ASSUME NEW d \in Downloads, Write(d) PROVE ClaimsHold'
  BY <1>2, <1>4 DEF Write
<1>5. ASSUME NEW d \in Downloads, NEW ok \in BOOLEAN, Complete(d, ok) PROVE ClaimsHold'
  <2>1. out' = [out EXCEPT ![d] = "success"] \/ out' = [out EXCEPT ![d] = "failure"]
    BY <1>5 DEF Complete
  <2> QED BY <1>1, <1>5, <2>1 DEF Complete, OutStates
<1>6. ASSUME NEW d \in Downloads, Flush(d) PROVE ClaimsHold'
  <2>1. out' = [out EXCEPT ![d] = "link"] \/ out' = [out EXCEPT ![d] = "closing"]
    BY <1>6 DEF Flush
  <2> QED BY <1>1, <1>6, <2>1 DEF Flush, OutStates
<1>7. ASSUME NEW d \in Downloads, InstallRaises(d) \/ RemoveTmp(d) PROVE ClaimsHold'
  BY <1>1, <1>7 DEF InstallRaises, RemoveTmp, OutStates
<1>8. ASSUME NEW d \in Downloads, InstallTmpFile(d) PROVE ClaimsHold'
  <2>1. Claimed' \subseteq Claimed \cup {d}
    BY <1>8 DEF InstallTmpFile, Claimed, Typed, TypeOK
  <2> QED BY <1>8, <2>1, ClaimsNew DEF InstallTmpFile, Refused
<1>9. ASSUME NEW d \in Downloads, CopyCreates(d) PROVE ClaimsHold'
  <2>1. Claimed' \subseteq Claimed \cup {d}
    BY <1>9 DEF CopyCreates, Claimed, Typed, TypeOK
  <2> QED BY <1>9, <2>1, ClaimsNew DEF CopyCreates, Refused
<1>10. ASSUME NEW d \in Downloads, CopyStream(d) PROVE ClaimsHold'
  <2>1. d \in Claimed BY <1>10 DEF CopyStream, Claimed
  <2>2. Claimed' \subseteq Claimed \cup {d}
    BY <1>10 DEF CopyStream, Claimed, Typed, TypeOK
  <2>3. CASE target' = target BY <2>1, <2>2, <2>3, ClaimsKept
  <2>4. CASE target' = [target EXCEPT ![PathOf[d]] = Content(d, copied[d] + 1)]
    BY <2>1, <2>2, <2>4, ClaimsNew
  <2> QED BY <1>10, <2>3, <2>4 DEF CopyStream
<1>11. ASSUME NEW p \in Paths, ForeignCreate(p) PROVE ClaimsHold'
  <2>1. \A q \in Paths : target[q] # Absent => target'[q] # Absent
    BY <1>11, DownloadAssumption DEF ForeignCreate, Typed, TypeOK
  <2>2. Claimed' = Claimed BY <1>11 DEF ForeignCreate, Claimed
  <2> QED BY <2>1, <2>2, ClaimsKept
<1>12. CASE UNCHANGED vars BY <1>2, <1>12 DEF vars
<1> QED
  BY <1>3, <1>4, <1>5, <1>6, <1>7, <1>8, <1>9, <1>10, <1>11, <1>12 DEF Next, DownloadStep

\* Of the downloads to one path that may not overwrite, one at most reports
\* that it installed its file, whichever of link, rename and exclusive create
\* with copy the platform has, and whenever other programs create the path.
THEOREM OneWins == Spec => []OneWinner
<1>1. Init => ClaimsHold
  BY DEF Init, ClaimsHold, Claimed
<1>2. Typed /\ ClaimsHold /\ [Next]_vars => ClaimsHold'
  BY ClaimsStep
<1>3. ClaimsHold => OneWinner
  BY DEF ClaimsHold, Claimed, OneWinner
<1> QED BY <1>1, <1>2, <1>3, TypedInvariant, PTL DEF Spec

-----------------------------------------------------------------------------
(***************************************************************************)
(* The install.  Unless the circumstances are exempt, nothing is copied,   *)
(* and only whole temporary files are installed.                           *)
(***************************************************************************)

WholeFiles ==
  ~Exempt => \A d \in Downloads :
               /\ out[d] # "copy"
               /\ out[d] \in {"success", "link"} => written[d] = Chunks

LEMMA WholeStep ==
  ASSUME Typed, [Next]_vars, WholeFiles
  PROVE  WholeFiles'
<1> SUFFICES ASSUME ~Exempt, setting' = setting PROVE WholeFiles'
  <2>1. setting' = setting
    BY DEF Next, CallStep, DownloadStep, vars, Resolve, OpenOutput, StartTransfers, HttpEnds,
           CloseListed, EndCall, Write, Complete, Flush, InstallTmpFile, InstallRaises,
           CopyCreates, CopyStream, RemoveTmp, ForeignCreate
  <2>2. Exempt' = Exempt BY <2>1 DEF Exempt
  <2> QED BY <2>1, <2>2 DEF WholeFiles
<1>0. setting.linkable /\ setting.onFailure \cap Easy = {} BY DEF Exempt
<1>1. ASSUME NEW d \in Downloads, NEW s, out' = [out EXCEPT ![d] = s], written' = written, s # "copy",
             s \in {"success", "link"} => written[d] = Chunks
      PROVE  WholeFiles'
  BY <1>1 DEF WholeFiles, Typed, TypeOK
<1>2. ASSUME UNCHANGED <<out, written>> PROVE WholeFiles'
  BY <1>2 DEF WholeFiles
<1>3. ASSUME NEW c \in Calls, CallStep(c) PROVE WholeFiles'
  <2>1. CASE OpenOutput(c)
    <3> DEFINE d == Outputs[c][opened[c] + 1]
    <3>1. d \in Downloads BY <2>1, NextOutput DEF OpenOutput
    <3>2. UNCHANGED written /\ (out' = [out EXCEPT ![d] = "open"] \/ out' = out)
      BY <2>1 DEF OpenOutput
    <3> HIDE DEF d
    <3> QED BY <1>1, <1>2, <3>1, <3>2
  <2>2. CASE CloseListed(c)
    <3>1. PICK d \in Downloads : out' = [out EXCEPT ![d] = "failure"] \/ out' = out
      BY <2>2, ListedFacts
    <3> QED BY <1>1, <1>2, <2>2, <3>1 DEF CloseListed
  <2>3. CASE Resolve(c) \/ StartTransfers(c) \/ HttpEnds(c) \/ EndCall(c)
    BY <1>2, <2>3 DEF Resolve, StartTransfers, HttpEnds, EndCall
  <2> QED BY <1>3, <2>1, <2>2, <2>3 DEF CallStep
<1>4. ASSUME NEW d \in Downloads, Write(d) PROVE WholeFiles'
  BY <1>4 DEF Write, Transferring, WholeFiles, Typed, TypeOK
<1>5. ASSUME NEW d \in Downloads, NEW ok \in BOOLEAN, Complete(d, ok) PROVE WholeFiles'
  <2>1. Succeeded(d, ok) => ok BY <1>0 DEF Succeeded
  <2>2. CASE Succeeded(d, ok)
    BY <1>1, <1>5, <2>1, <2>2 DEF Complete
  <2>3. CASE ~Succeeded(d, ok)
    BY <1>1, <1>5, <2>3 DEF Complete
  <2> QED BY <2>2, <2>3
<1>6. ASSUME NEW d \in Downloads, Flush(d) PROVE WholeFiles'
  <2>1. \/ out' = [out EXCEPT ![d] = "closing"]
        \/ out[d] = "success" /\ out' = [out EXCEPT ![d] = "link"]
    BY <1>6 DEF Flush
  <2>2. written' = written BY <1>6 DEF Flush
  <2>3. out[d] = "success" => written[d] = Chunks BY DEF WholeFiles
  <2> QED BY <1>1, <2>1, <2>2, <2>3
<1>7. ASSUME NEW d \in Downloads, InstallRaises(d) \/ RemoveTmp(d) \/ InstallTmpFile(d) PROVE WholeFiles'
  BY <1>1, <1>7 DEF InstallRaises, RemoveTmp, InstallTmpFile
<1>8. ASSUME NEW d \in Downloads, CopyCreates(d) \/ CopyStream(d) PROVE FALSE
  BY <1>0, <1>8 DEF CopyCreates, CopyStream, WholeFiles
<1>9. ASSUME NEW p \in Paths, ForeignCreate(p) PROVE WholeFiles'
  BY <1>2, <1>9 DEF ForeignCreate
<1>10. CASE UNCHANGED vars BY <1>2, <1>10 DEF vars
<1> QED
  BY <1>3, <1>4, <1>5, <1>6, <1>7, <1>8, <1>9, <1>10 DEF Next, DownloadStep

\* Downloads implement AtomicInstall: a target appears whole, in one step, and
\* replaces what is there only with :overwrite, whatever happens to the path
\* between the early check and the install.
THEOREM InstallIsAtomic == Spec => InstallsAtomically
<1> DEFINE View == IF Exempt THEN [p \in Paths |-> Absent] ELSE target
<1>1. Init => WholeFiles /\ Contract!Init
  BY DEF Init, WholeFiles, Contract!Init
<1>2. Typed /\ WholeFiles /\ [Next]_vars => WholeFiles'
  BY WholeStep
<1>3. Typed /\ WholeFiles /\ [Next]_vars => [Contract!Next]_View
  <2> SUFFICES ASSUME Typed, WholeFiles, [Next]_vars PROVE Contract!Next \/ View' = View
    OBVIOUS
  <2>1. setting' = setting
    BY DEF Next, CallStep, DownloadStep, vars, Resolve, OpenOutput, StartTransfers, HttpEnds,
           CloseListed, EndCall, Write, Complete, Flush, InstallTmpFile, InstallRaises,
           CopyCreates, CopyStream, RemoveTmp, ForeignCreate
  <2>2. Exempt' = Exempt BY <2>1 DEF Exempt
  <2>3. CASE Exempt BY <2>2, <2>3
  <2>4. CASE ~Exempt
    <3>1. View = target /\ View' = target' BY <2>2, <2>4
    <3>2. setting.linkable BY <2>4 DEF Exempt
    <3>3. CASE target' = target BY <3>1, <3>3
    <3>4. ASSUME NEW d \in Downloads, InstallTmpFile(d) PROVE Contract!Next
      <4>1. written[d] = Chunks BY <2>4, <3>4 DEF InstallTmpFile, WholeFiles
      <4>2. target' = [target EXCEPT ![PathOf[d]] = [by |-> d, whole |-> TRUE]]
        BY <3>4, <4>1 DEF InstallTmpFile, Content
      <4>3. target[PathOf[d]] = Absent \/ Overwrite[d] BY <3>4 DEF InstallTmpFile, Refused
      <4>4. Contract!Install(d)
        BY <2>2, <2>4, <4>2, <4>3 DEF Contract!Install, Contract!Whole
      <4> QED BY <4>4 DEF Contract!Next
    <3>5. ASSUME NEW d \in Downloads, CopyCreates(d) \/ CopyStream(d) PROVE FALSE
      BY <2>4, <3>2, <3>5 DEF CopyCreates, CopyStream, WholeFiles
    <3>6. ASSUME NEW p \in Paths, ForeignCreate(p) PROVE Contract!Next
      BY <2>2, <2>4, <3>6 DEF ForeignCreate, Contract!Next, Contract!Create
    <3>7. ASSUME NEW c \in Calls, CallStep(c) PROVE target' = target
      BY <3>7 DEF CallStep, Resolve, OpenOutput, StartTransfers, HttpEnds, CloseListed, EndCall
    <3>8. ASSUME NEW d \in Downloads,
                 \/ Write(d) \/ (\E ok \in BOOLEAN : Complete(d, ok)) \/ Flush(d)
                 \/ InstallRaises(d) \/ RemoveTmp(d)
          PROVE  target' = target
      BY <3>8 DEF Write, Complete, Flush, InstallRaises, RemoveTmp
    <3>9. CASE UNCHANGED vars BY <3>3, <3>9 DEF vars
    <3> QED BY <3>3, <3>4, <3>5, <3>6, <3>7, <3>8, <3>9 DEF Next, DownloadStep
  <2> QED BY <2>3, <2>4
<1> QED BY <1>1, <1>2, <1>3, TypedInvariant, PTL DEF Spec, InstallsAtomically, Contract!Spec

-----------------------------------------------------------------------------
(***************************************************************************)
(* Ending a call.  Accounted says, for each download of a call, how far    *)
(* the call may be when its output is in a given state, and who answers    *)
(* for an output that was not installed: an exception on its way out of    *)
(* the call, or an entry in the list of errors.  What is open is on the    *)
(* list files of its call.                                                 *)
(***************************************************************************)

Answered(c, d) == d \in installed \/ errors[c] \/ raised[c]

Accounted(c, d) ==
  /\ out[d] = "open" => d \in files[c]
  /\ phase[c] = "start" => out[d] = "none"
  /\ phase[c] = "open" => out[d] \in {"none", "open"}
  /\ phase[c] = "ensure" /\ out[d] \in {"none", "open"} => raised[c]
  /\ phase[c] \in {"returned", "raised"} => out[d] \in {"none", "closed"}
  /\ out[d] \in {"failure", "closing", "closed"} => Answered(c, d)
  /\ phase[c] = "returned" /\ c \notin setting.rescuing => d \in installed

\* Only the downloads of a call have an output, and are on its list.
Listed ==
  /\ \A d \in Downloads : out[d] # "none" => \E c \in Calls : d \in Of(c)
  /\ \A c \in Calls : files[c] \subseteq Of(c)

Ended == Listed /\ \A c \in Calls : \A d \in Of(c) : Accounted(c, d)

\* A step that changes nothing of a call keeps it accounted for.
LEMMA AccountedKept ==
  ASSUME NEW c \in Calls, NEW d \in Of(c), Accounted(c, d), phase'[c] = phase[c],
         out'[d] = out[d], setting' = setting, installed \subseteq installed',
         errors[c] => errors'[c], raised[c] => raised'[c],
         d \in files[c] => d \in files'[c]
  PROVE  Accounted(c, d)'
BY DEF Accounted, Answered

\* A step of the download d, of the call c: the other downloads are as they
\* were, and the flags of other calls too.
LEMMA DownloadAccounted ==
  ASSUME Typed, Ended, NEW d \in Downloads, NEW s \in OutStates \ {"none"},
         out[d] # "none", out' = [out EXCEPT ![d] = s],
         phase' = phase, setting' = setting, installed \subseteq installed',
         \A c \in Calls : files'[c] \subseteq files[c] /\ files[c] \subseteq files'[c] \cup {d},
         \A c \in Calls : d \notin Of(c) => errors'[c] = errors[c] /\ raised'[c] = raised[c],
         \A c \in Calls : d \in Of(c) => /\ Accounted(c, d)'
                                         /\ errors[c] => errors'[c]
                                         /\ (raised[c] => raised'[c]) \/ Of(c) = {d}
  PROVE  Ended'
<1>1. ASSUME NEW c \in Calls, NEW x \in Of(c) PROVE Accounted(c, x)'
  <2>1. x \in Downloads /\ Accounted(c, x) BY CallOfIs DEF Ended
  <2>2. CASE x = d BY <2>2
  <2>3. CASE x # d
    <3>1. out'[x] = out[x] BY <2>1, <2>3 DEF Typed, TypeOK
    <3>2. errors[c] => errors'[c] OBVIOUS
    <3>3. raised[c] => raised'[c] BY <2>3
    <3>4. x \in files[c] => x \in files'[c] BY <2>3
    <3> QED BY <2>1, <3>1, <3>2, <3>3, <3>4, AccountedKept
  <2> QED BY <2>2, <2>3
<1>2. Listed' BY DEF Ended, Listed, Typed, TypeOK
<1> QED BY <1>1, <1>2 DEF Ended

\* A step of the call c that leaves its outputs alone.
LEMMA CallAccounted ==
  ASSUME Typed, Ended, NEW c \in Calls, out' = out, UNCHANGED <<setting, installed, errors, files>>,
         \A b \in Calls \ {c} : phase'[b] = phase[b] /\ raised'[b] = raised[b],
         \A d \in Of(c) : Accounted(c, d)'
  PROVE  Ended'
<1>1. ASSUME NEW b \in Calls, NEW x \in Of(b) PROVE Accounted(b, x)'
  <2>1. CASE b = c BY <2>1
  <2>2. CASE b # c BY <2>2, AccountedKept DEF Ended
  <2> QED BY <2>1, <2>2
<1> QED BY <1>1 DEF Ended, Listed

LEMMA EndedStep ==
  ASSUME Typed, [Next]_vars, Ended
  PROVE  Ended'
<1> USE DEF OutStates
<1>1. ASSUME NEW c \in Calls, Resolve(c) PROVE Ended'
  <2>1. /\ phase'[c] = IF Duplicates(c) THEN "ensure" ELSE "open"
        /\ raised'[c] = Duplicates(c)
        /\ \A b \in Calls \ {c} : phase'[b] = phase[b] /\ raised'[b] = raised[b]
    BY <1>1 DEF Resolve, Typed, TypeOK
  <2>2. \A d \in Of(c) : out[d] = "none" BY <1>1 DEF Resolve, Ended, Accounted
  <2>3. \A d \in Of(c) : Accounted(c, d)'
    BY <1>1, <2>1, <2>2 DEF Resolve, Accounted
  <2> QED BY <1>1, <2>1, <2>3, CallAccounted DEF Resolve
<1>2. ASSUME NEW c \in Calls, OpenOutput(c) PROVE Ended'
  <2> DEFINE d == Outputs[c][opened[c] + 1]
  <2>1. d \in Downloads /\ d \in Of(c) /\ phase[c] = "open" BY <1>2, NextOutput DEF OpenOutput
  <2>2. UNCHANGED <<setting, errors, installed>> BY <1>2 DEF OpenOutput
  <2>3. CASE /\ out' = [out EXCEPT ![d] = "open"] /\ UNCHANGED <<phase, raised>>
             /\ files' = [files EXCEPT ![c] = @ \cup {d}]
    <3> HIDE DEF d
    <3>1. /\ \A x \in Downloads : out'[x] = IF x = d THEN "open" ELSE out[x]
          /\ \A b \in Calls : files'[b] = IF b = c THEN files[b] \cup {d} ELSE files[b]
      BY <2>3 DEF Typed, TypeOK
    <3>2. ASSUME NEW b \in Calls, NEW x \in Of(b) PROVE Accounted(b, x)'
      <4>1. x \in Downloads /\ Accounted(b, x) BY CallOfIs DEF Ended
      <4>2. CASE x = d
        <5>1. b = c BY <2>1, <4>2, CallOfIs
        <5> QED BY <2>1, <2>2, <2>3, <3>1, <4>1, <4>2, <5>1 DEF Accounted
      <4>3. CASE x # d BY <2>2, <2>3, <3>1, <4>1, <4>3, AccountedKept
      <4> QED BY <4>2, <4>3
    <3>3. Listed' BY <2>1, <3>1 DEF Ended, Listed
    <3> QED BY <3>2, <3>3 DEF Ended
  <2>4. CASE /\ phase' = [phase EXCEPT ![c] = "ensure"] /\ raised' = [raised EXCEPT ![c] = TRUE]
             /\ out' = out /\ files' = files
    <3>1. /\ phase'[c] = "ensure" /\ raised'[c]
          /\ \A b \in Calls \ {c} : phase'[b] = phase[b] /\ raised'[b] = raised[b]
      BY <2>4 DEF Typed, TypeOK
    <3>2. \A x \in Of(c) : Accounted(c, x)' BY <2>4, <3>1 DEF Ended, Accounted, Answered
    <3> QED BY <2>2, <2>4, <3>1, <3>2, CallAccounted
  <2> QED BY <1>2, <2>3, <2>4 DEF OpenOutput
<1>3. ASSUME NEW c \in Calls, StartTransfers(c) PROVE Ended'
  <2>1. /\ phase[c] = "open" /\ phase'[c] = "transfer"
        /\ \A b \in Calls \ {c} : phase'[b] = phase[b]
        /\ UNCHANGED <<setting, out, files, errors, raised, installed>>
    BY <1>3 DEF StartTransfers, Typed, TypeOK
  <2>2. \A x \in Of(c) : Accounted(c, x)' BY <2>1 DEF Ended, Accounted
  <2> QED BY <2>1, <2>2, CallAccounted
<1>4. ASSUME NEW c \in Calls, HttpEnds(c) PROVE Ended'
  <2>1. /\ phase'[c] = "ensure"
        /\ \A b \in Calls \ {c} : phase'[b] = phase[b] /\ raised'[b] = raised[b]
        /\ UNCHANGED <<setting, out, files, errors, installed>>
        /\ raised'[c] \/ (raised'[c] = raised[c] /\ \A d \in Of(c) : out[d] = "closed")
    BY <1>4 DEF HttpEnds, Typed, TypeOK
  <2>2. \A x \in Of(c) : Accounted(c, x)' BY <2>1 DEF Ended, Accounted, Answered
  <2> QED BY <2>1, <2>2, CallAccounted
<1>5. ASSUME NEW c \in Calls, CloseListed(c) PROVE Ended'
  <2>1. PICK d \in Downloads :
          /\ d \in files[c] /\ files' = [files EXCEPT ![c] = @ \ {d}]
          /\ \/ out[d] = "open" /\ out' = [out EXCEPT ![d] = "failure"]
             \/ out[d] # "open" /\ out' = out
    BY <1>5, ListedFacts
  <2>2. /\ phase[c] = "ensure" /\ d \in Of(c)
        /\ UNCHANGED <<setting, phase, errors, raised, installed>>
    BY <1>5, <2>1 DEF CloseListed, Ended, Listed
  <2>3. \A b \in Calls : d \in Of(b) => b = c BY <2>2, CallOfIs
  <2>4. \A b \in Calls : files'[b] \subseteq files[b] /\ files[b] \subseteq files'[b] \cup {d}
    BY <2>1 DEF Typed, TypeOK
  <2>5. CASE out[d] = "open" /\ out' = [out EXCEPT ![d] = "failure"]
    <3>1. raised[c] /\ out'[d] = "failure" BY <2>2, <2>5 DEF Ended, Accounted, Typed, TypeOK
    <3>2. Accounted(c, d)' BY <2>2, <3>1 DEF Accounted, Answered
    <3> QED BY <2>2, <2>3, <2>4, <2>5, <3>2, DownloadAccounted
  <2>6. CASE out[d] # "open" /\ out' = out
    <3>1. ASSUME NEW b \in Calls, NEW x \in Of(b) PROVE Accounted(b, x)'
      <4>1. Accounted(b, x) BY DEF Ended
      <4>2. CASE x = d
        BY <2>2, <2>6, <4>1, <4>2 DEF Accounted, Answered
      <4>3. CASE x # d
        <5>1. x \in files[b] => x \in files'[b] BY <2>4, <4>3
        <5> QED BY <2>2, <2>6, <4>1, <5>1, AccountedKept
      <4> QED BY <4>2, <4>3
    <3>2. Listed' BY <2>4, <2>6 DEF Ended, Listed
    <3> QED BY <3>1, <3>2 DEF Ended
  <2> QED BY <2>1, <2>5, <2>6
<1>6. ASSUME NEW c \in Calls, EndCall(c) PROVE Ended'
  <2>1. /\ phase[c] = "ensure" /\ files[c] = {} /\ ~Closing(c)
        /\ phase'[c] = IF raised[c] \/ Reports(c) THEN "raised" ELSE "returned"
        /\ \A b \in Calls \ {c} : phase'[b] = phase[b]
        /\ UNCHANGED <<setting, out, files, errors, raised, installed>>
    BY <1>6 DEF EndCall, Typed, TypeOK
  \* What is still open would be on the list.
  <2>2. \A d \in Of(c) : out[d] \in {"none", "closed"}
    BY <2>1 DEF Closing, Ended, Accounted
  <2>3. ASSUME NEW d \in Of(c) PROVE Accounted(c, d)'
    <3>1. Accounted(c, d) BY DEF Ended
    <3>2. out[d] = "closed" => Answered(c, d) BY <3>1 DEF Accounted
    <3>3. out[d] = "none" => raised[c] BY <2>1, <3>1 DEF Accounted
    <3>4. phase'[c] = "returned" /\ c \notin setting.rescuing => d \in installed
      BY <2>1, <2>2, <3>2, <3>3 DEF Answered, Reports
    <3> QED BY <2>1, <2>2, <3>1, <3>2, <3>4 DEF Accounted, Answered
  <2> QED BY <2>1, <2>3, CallAccounted
<1>7. ASSUME NEW d \in Downloads, Write(d) PROVE Ended'
  BY <1>7, AccountedKept DEF Write, Ended, Listed
\* The call that a download with an output belongs to.
<1>8. ASSUME NEW d \in Downloads, out[d] # "none"
      PROVE  /\ CallOf(d) \in Calls /\ d \in Of(CallOf(d)) /\ Accounted(CallOf(d), d)
             /\ \A b \in Calls : d \in Of(b) => b = CallOf(d)
  BY <1>8, CallOfIs DEF Ended, Listed
\* Closing an output goes on, or raises.
<1>9. ASSUME NEW d \in Downloads, NEW s \in OutStates \ {"none", "open"},
             out[d] \in {"success", "failure", "link", "copy", "closing"},
             out' = [out EXCEPT ![d] = s], phase' = phase, setting' = setting, files' = files,
             installed \subseteq installed',
             UNCHANGED <<errors, raised>> \/ CloseRaises(d),
             s = "closing" => \/ out[d] = "failure" \/ d \in installed' \/ CloseRaises(d),
             s = "closed" => out[d] = "closing",
             s # "failure"
      PROVE  Ended'
  <2> DEFINE c == CallOf(d)
  <2>1. /\ c \in Calls /\ d \in Of(c) /\ Accounted(c, d)
        /\ \A b \in Calls : d \in Of(b) => b = c
    BY <1>8, <1>9
  <2>2. /\ \A b \in Calls \ {c} : errors'[b] = errors[b] /\ raised'[b] = raised[b]
        /\ errors[c] => errors'[c]
        /\ raised[c] => raised'[c]
    BY <1>9, <2>1 DEF CloseRaises, Typed, TypeOK
  <2>3. CloseRaises(d) => errors'[c] \/ raised'[c]
    BY <2>1 DEF CloseRaises, Typed, TypeOK
  <2>4. out'[d] = s BY <1>9 DEF Typed, TypeOK
  <2> HIDE DEF c
  <2>5. phase[c] \notin {"start", "open", "returned", "raised"}
    BY <1>9, <2>1 DEF Accounted
  <2>6. s \in {"closing", "closed"} => Answered(c, d)'
    BY <1>9, <2>1, <2>2, <2>3 DEF Accounted, Answered
  <2>7. Accounted(c, d)' BY <1>9, <2>4, <2>5, <2>6 DEF Accounted
  <2>8. \A b \in Calls : d \notin Of(b) => b # c BY <2>1
  <2> QED BY <1>9, <2>1, <2>2, <2>7, <2>8, DownloadAccounted
<1>10. ASSUME NEW d \in Downloads, NEW ok \in BOOLEAN, Complete(d, ok) PROVE Ended'
  <2> DEFINE c == CallOf(d)
             s == IF Succeeded(d, ok) THEN "success" ELSE "failure"
  <2>1. /\ phase[c] = "transfer" /\ out[d] = "open" /\ out' = [out EXCEPT ![d] = s]
        /\ UNCHANGED <<setting, phase, installed>>
        /\ files' = [files EXCEPT ![c] = Reject(c, d)]
    BY <1>10 DEF Complete, Transferring
  <2>2. /\ c \in Calls /\ d \in Of(c) /\ \A b \in Calls : d \in Of(b) => b = c
    BY <1>8, <2>1
  <2>3. Succeeded(d, ok) \in BOOLEAN BY DEF Succeeded
  <2>4. c \in Easy => Of(c) = {d}
    <3> SUFFICES ASSUME c \in Easy PROVE Of(c) = {d} OBVIOUS
    <3>1. Outputs[c] \in Seq(Downloads) /\ Len(Outputs[c]) = 1 BY <2>2, DownloadAssumption
    <3>2. DOMAIN Outputs[c] = {1} BY <3>1
    <3> QED BY <2>2, <3>2 DEF Of
  <2>5. /\ \A b \in Calls \ {c} : errors'[b] = errors[b] /\ raised'[b] = raised[b]
        /\ errors[c] => errors'[c]
        /\ (raised[c] => raised'[c]) \/ Of(c) = {d}
    <3>1. CASE c \in Easy
      BY <1>10, <2>2, <2>3, <2>4, <3>1 DEF Complete, Typed, TypeOK
    <3>2. CASE c \notin Easy
      BY <1>10, <2>2, <3>2 DEF Complete, Typed, TypeOK
    <3> QED BY <3>1, <3>2
  <2>6. ~Succeeded(d, ok) => errors'[c] \/ raised'[c]
    <3>1. CASE c \in Easy
      BY <1>10, <2>2, <3>1 DEF Complete, Typed, TypeOK
    <3>2. CASE c \notin Easy
      <4>1. ~Succeeded(d, ok) => ~ok BY DEF Succeeded
      <4>2. errors' = [errors EXCEPT ![c] = @ \/ ~ok] BY <1>10, <3>2 DEF Complete
      <4> QED BY <2>2, <4>1, <4>2 DEF Typed, TypeOK
    <3> QED BY <3>1, <3>2
  <2>7. out'[d] = s /\ s \in {"success", "failure"} /\ (s = "failure" => ~Succeeded(d, ok))
    BY <2>1 DEF Typed, TypeOK
  <2> HIDE DEF c, s
  <2>8. Accounted(c, d)' BY <2>1, <2>6, <2>7 DEF Accounted, Answered
  <2>9. \A b \in Calls : d \notin Of(b) => b # c BY <2>2
  <2>10. s \in OutStates \ {"none"} BY <2>7
  <2>11. \A b \in Calls : files'[b] \subseteq files[b] /\ files[b] \subseteq files'[b] \cup {d}
    BY <2>1, <2>2 DEF Reject, Typed, TypeOK
  <2>12. \A b \in Calls : d \notin Of(b) => errors'[b] = errors[b] /\ raised'[b] = raised[b]
    BY <2>5, <2>9
  <2>13. ASSUME NEW b \in Calls, d \in Of(b)
         PROVE  /\ Accounted(b, d)'
                /\ errors[b] => errors'[b]
                /\ (raised[b] => raised'[b]) \/ Of(b) = {d}
    <3>1. b = c BY <2>2, <2>13
    <3> QED BY <2>5, <2>8, <3>1
  <2>14. out[d] # "none" BY <2>1
  <2> QED BY <2>1, <2>10, <2>11, <2>12, <2>13, <2>14, DownloadAccounted
<1>11. ASSUME NEW d \in Downloads, Flush(d) PROVE Ended'
  <2>1. CASE out[d] = "success" /\ out' = [out EXCEPT ![d] = "link"] /\ UNCHANGED <<errors, raised>>
    BY <1>9, <1>11, <2>1 DEF Flush
  <2>2. CASE out[d] = "failure" /\ out' = [out EXCEPT ![d] = "closing"] /\ UNCHANGED <<errors, raised>>
    BY <1>9, <1>11, <2>2 DEF Flush
  <2>3. CASE out' = [out EXCEPT ![d] = "closing"] /\ CloseRaises(d)
    BY <1>9, <1>11, <2>3 DEF Flush
  <2> QED BY <1>11, <2>1, <2>2, <2>3 DEF Flush
<1>12. ASSUME NEW d \in Downloads, InstallTmpFile(d) PROVE Ended'
  BY <1>9, <1>12 DEF InstallTmpFile
<1>13. ASSUME NEW d \in Downloads, InstallRaises(d) PROVE Ended'
  BY <1>9, <1>13 DEF InstallRaises
<1>14. ASSUME NEW d \in Downloads, CopyCreates(d) PROVE Ended'
  BY <1>9, <1>14 DEF CopyCreates
<1>15. ASSUME NEW d \in Downloads, CopyStream(d) PROVE Ended'
  <2>1. CASE copied[d] < written[d]
    BY <1>15, <2>1, AccountedKept DEF CopyStream, Ended, Listed
  <2>2. CASE ~(copied[d] < written[d])
    BY <1>9, <1>15, <2>2 DEF CopyStream
  <2> QED BY <2>1, <2>2
<1>16. ASSUME NEW d \in Downloads, RemoveTmp(d) PROVE Ended'
  <2> DEFINE c == CallOf(d)
  <2>1. /\ out[d] = "closing" /\ out' = [out EXCEPT ![d] = "closed"]
        /\ UNCHANGED <<setting, phase, files, errors, installed>>
        /\ UNCHANGED raised \/ raised' = [raised EXCEPT ![c] = TRUE]
    BY <1>16 DEF RemoveTmp
  <2>2. /\ c \in Calls /\ d \in Of(c) /\ Accounted(c, d)
        /\ \A b \in Calls : d \in Of(b) => b = c
    BY <1>8, <2>1
  <2>3. /\ \A b \in Calls \ {c} : raised'[b] = raised[b]
        /\ raised[c] => raised'[c]
        /\ out'[d] = "closed"
    BY <2>1, <2>2 DEF Typed, TypeOK
  <2> HIDE DEF c
  <2>4. Accounted(c, d)' BY <2>1, <2>2, <2>3 DEF Accounted, Answered
  <2>5. \A b \in Calls : d \notin Of(b) => b # c BY <2>2
  <2> QED BY <2>1, <2>2, <2>3, <2>4, <2>5, DownloadAccounted
<1>17. ASSUME NEW p \in Paths, ForeignCreate(p) PROVE Ended'
  BY <1>17, AccountedKept DEF ForeignCreate, Ended, Listed
<1>18. CASE UNCHANGED vars
  BY <1>18, AccountedKept DEF vars, Ended, Listed
<1> QED
  BY <1>1, <1>2, <1>3, <1>4, <1>5, <1>6, <1>7, <1>10, <1>11, <1>12, <1>13, <1>14, <1>15, <1>16,
     <1>17, <1>18 DEF Next, CallStep, DownloadStep

LEMMA EndedInvariant == Spec => []Ended
<1>1. Init => Ended
  <2> SUFFICES ASSUME Init PROVE Ended OBVIOUS
  <2>1. ASSUME NEW c \in Calls, NEW d \in Of(c) PROVE Accounted(c, d)
    BY CallOfIs DEF Init, Accounted, Answered
  <2> QED BY <2>1 DEF Init, Ended, Listed
<1> QED BY <1>1, EndedStep, TypedInvariant, PTL DEF Spec

\* No temporary file outlives its call, however the call ends: what is open is
\* on the list files, from which only the completion of its own transfer and
\* the ensure clause take it (SafeDownloadOutput#close, Multi.download).
THEOREM TempsGone == Spec => []TempsRemoved
<1>1. Typed /\ Ended => TempsRemoved
  BY DEF Typed, Ended, Accounted, TempsRemoved
<1> QED BY <1>1, TypedInvariant, EndedInvariant, PTL

\* A call that returns without an exception has installed every file it was
\* asked for: each output that was not installed has put an entry in the list
\* of errors or an exception on its way out of the call.
THEOREM FailuresReported == Spec => []FailureReported
<1>1. Ended => FailureReported
  BY DEF Ended, Accounted, FailureReported
<1> QED BY <1>1, EndedInvariant, PTL
=============================================================================
