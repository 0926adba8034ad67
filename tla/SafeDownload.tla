---------------------------- MODULE SafeDownload ----------------------------
(***************************************************************************)
(* Curl::Multi.download, Curl::Easy.download and the SafeDownloadOutput    *)
(* they write through.  A call opens its outputs one after the other,      *)
(* transfers, finalizes each download when its transfer completes, and     *)
(* closes in its ensure clause what is still open.                         *)
(*                                                                         *)
(* Source: lib/curl/multi.rb, lib/curl/easy.rb, lib/curl/download.rb.      *)
(* Several calls run at once, in threads or processes, and other programs  *)
(* create files; every system call on a path is a step of its own.         *)
(***************************************************************************)
EXTENDS Naturals, Sequences, FiniteSets

CONSTANTS
  Calls,      \* calls of a download method
  Outputs,    \* Outputs[c]: the downloads of call c, in order
  Downloads,
  Paths, PathOf,
  Overwrite,  \* Overwrite[d]: the :overwrite option
  Easy,       \* the calls of Easy.download, the others are of Multi.download
  Settings,   \* the circumstances that are considered, of AllSettings
  Faults,     \* "io": a write, flush, link or copy fails; "block": the block raises
  Chunks,     \* bound: the chunks of a body
  Absent, Foreign

(***************************************************************************)
(* linkable:  File.link is implemented on this platform.                   *)
(* onFailure: the calls whose easies have an on_failure handler.           *)
(* rescuing:  the calls made while the caller is rescuing an exception.    *)
(***************************************************************************)
AllSettings == [linkable : BOOLEAN, onFailure : SUBSET Calls, rescuing : SUBSET Calls]

ASSUME DownloadAssumption ==
  /\ Outputs \in [Calls -> Seq(Downloads)]
  /\ PathOf \in [Downloads -> Paths] /\ Overwrite \in [Downloads -> BOOLEAN]
  /\ \A c \in Calls : \A d \in Downloads :
       (\E i \in DOMAIN Outputs[c] : Outputs[c][i] = d)
         => \A b \in Calls \ {c} : \A i \in DOMAIN Outputs[b] : Outputs[b][i] # d
  /\ Easy \subseteq Calls /\ \A c \in Easy : Len(Outputs[c]) = 1
  /\ Settings \subseteq AllSettings /\ Settings # {} /\ Faults \subseteq {"io", "block"}
  /\ Chunks \in Nat \ {0} /\ Absent # Foreign
  /\ {Absent, Foreign} \cap [by : Downloads, whole : BOOLEAN] = {}

VARIABLES
  setting,  \* the circumstances of this behaviour
  target,   \* target[p]: the file at the path
  phase,    \* phase[c]: where the call is
  opened,   \* opened[c]: how many outputs have been opened
  files,    \* files[c]: the list files, what the ensure clause will close; for
            \* an Easy.download its one output
  out,      \* out[d]: the state of the output, i.e. of its temporary file
  written,  \* written[d]: chunks in the temporary file
  copied,   \* copied[d]: chunks in the target, while copying
  errors,   \* errors[c]: an element of the list errors
  raised,   \* raised[c]: an exception is on its way out of the call
  installed \* history: the downloads whose output was closed as a success

vars == <<setting, target, phase, opened, files, out, written, copied, errors, raised, installed>>

Of(c) == {Outputs[c][i] : i \in DOMAIN Outputs[c]}
CallOf(d) == CHOOSE c \in Calls : d \in Of(c)
Content(d, n) == [by |-> d, whole |-> n = Chunks]

OutStates == {"none", "open", "success", "failure", "link", "copy", "closing", "closed"}

TypeOK ==
  /\ setting \in Settings
  /\ target \in [Paths -> {Absent, Foreign} \cup [by : Downloads, whole : BOOLEAN]]
  /\ phase \in [Calls -> {"start", "open", "transfer", "ensure", "returned", "raised"}]
  /\ \A c \in Calls : opened[c] \in 0..Len(Outputs[c])
                       /\ (phase[c] = "transfer" => opened[c] = Len(Outputs[c]))
  /\ files \in [Calls -> SUBSET Downloads] /\ out \in [Downloads -> OutStates]
  /\ written \in [Downloads -> 0..Chunks] /\ copied \in [Downloads -> 0..Chunks]
  /\ errors \in [Calls -> BOOLEAN] /\ raised \in [Calls -> BOOLEAN]
  /\ installed \subseteq Downloads

Init ==
  /\ setting \in Settings
  /\ target \in [Paths -> {Absent, Foreign}]
  /\ phase = [c \in Calls |-> "start"] /\ opened = [c \in Calls |-> 0]
  /\ files = [c \in Calls |-> {}] /\ out = [d \in Downloads |-> "none"]
  /\ written = [d \in Downloads |-> 0] /\ copied = [d \in Downloads |-> 0]
  /\ errors = [c \in Calls |-> FALSE] /\ raised = [c \in Calls |-> FALSE]
  /\ installed = {}

-----------------------------------------------------------------------------
\* resolve_download_output for every URL, and the check for duplicate paths.
Duplicates(c) ==
  \E i, j \in DOMAIN Outputs[c] : i # j /\ PathOf[Outputs[c][i]] = PathOf[Outputs[c][j]]

Resolve(c) ==
  /\ phase[c] = "start"
  /\ phase' = [phase EXCEPT ![c] = IF Duplicates(c) THEN "ensure" ELSE "open"]
  /\ raised' = [raised EXCEPT ![c] = Duplicates(c)]
  /\ UNCHANGED <<setting, target, opened, files, out, written, copied, errors, installed>>

\* SafeDownloadOutput.new: the early check of the target, then the temporary file.
Occupied(d) == ~Overwrite[d] /\ target[PathOf[d]] # Absent

OpenOutput(c) ==
  /\ phase[c] = "open" /\ opened[c] < Len(Outputs[c])
  /\ LET d == Outputs[c][opened[c] + 1] IN
     \/ /\ ~Occupied(d)
        /\ out' = [out EXCEPT ![d] = "open"]
        /\ opened' = [opened EXCEPT ![c] = @ + 1]
        /\ files' = [files EXCEPT ![c] = @ \cup {d}]
        /\ UNCHANGED <<phase, raised>>
     \/ /\ Occupied(d) \/ "io" \in Faults
        /\ phase' = [phase EXCEPT ![c] = "ensure"]
        /\ raised' = [raised EXCEPT ![c] = TRUE]
        /\ UNCHANGED <<out, opened, files>>
  /\ UNCHANGED <<setting, target, written, copied, errors, installed>>

StartTransfers(c) ==
  /\ phase[c] = "open" /\ opened[c] = Len(Outputs[c])
  /\ phase' = [phase EXCEPT ![c] = "transfer"]
  /\ UNCHANGED <<setting, target, opened, files, out, written, copied, errors, raised, installed>>

\* The thread of the call is closing one of its outputs.
Closing(c) == \E d \in Of(c) : out[d] \notin {"none", "open", "closed"}

Transferring(d) == phase[CallOf(d)] = "transfer" /\ ~Closing(CallOf(d)) /\ out[d] = "open"

\* The on_body handler of the download.
Write(d) ==
  /\ Transferring(d) /\ written[d] < Chunks
  /\ written' = [written EXCEPT ![d] = @ + 1]
  /\ UNCHANGED <<setting, target, phase, opened, files, out, copied, errors, raised, installed>>

\* Does the code take a completed transfer for a successful download?
\* finalize_download asks for last_result; Easy.download for Easy#perform not
\* having raised, and perform does not raise where there is an on_failure.
AlwaysSuccess(d, ok) == TRUE
Succeeded(d, ok) == ok \/ (CallOf(d) \in Easy /\ CallOf(d) \in setting.onFailure)

\* files.reject! of finalize_download.
RejectOthers(c, d) == {x \in files[c] : x = d}
Reject(c, d) == {x \in files[c] : x # d}

\* The transfer of d completes: finalize_download, or the ensure clause of
\* Easy.download, takes the output off the list and begins to close it.
Complete(d, ok) ==
  /\ Transferring(d)
  /\ ok => written[d] = Chunks
  /\ files' = [files EXCEPT ![CallOf(d)] = Reject(CallOf(d), d)]
  /\ out' = [out EXCEPT ![d] = IF Succeeded(d, ok) THEN "success" ELSE "failure"]
  /\ LET c == CallOf(d) IN
     IF c \in Easy
     THEN raised' = [raised EXCEPT ![c] = ~Succeeded(d, ok)] /\ UNCHANGED errors
     ELSE errors' = [errors EXCEPT ![c] = @ \/ ~ok] /\ UNCHANGED raised
  /\ UNCHANGED <<setting, target, phase, opened, written, copied, installed>>

-----------------------------------------------------------------------------
(***************************************************************************)
(* SafeDownloadOutput#close.                                               *)
(***************************************************************************)

\* Closing d raises: an element of errors, or the exception of Easy.download.
CloseRaises(d) ==
  LET c == CallOf(d) IN
  IF c \in Easy
  THEN raised' = [raised EXCEPT ![c] = TRUE] /\ UNCHANGED errors
  ELSE errors' = [errors EXCEPT ![c] = TRUE] /\ UNCHANGED raised

\* flush and close of the temporary file.
Flush(d) ==
  /\ out[d] \in {"success", "failure"}
  /\ \/ /\ out' = [out EXCEPT ![d] = IF @ = "success" THEN "link" ELSE "closing"]
        /\ UNCHANGED <<errors, raised>>
     \/ /\ "io" \in Faults
        /\ out' = [out EXCEPT ![d] = "closing"]
        /\ CloseRaises(d)
  /\ UNCHANGED <<setting, target, phase, opened, files, written, copied, installed>>

\* The system call of install_tmp_file refuses.
RenameAlways(d) == FALSE
Refused(d) == ~Overwrite[d] /\ target[PathOf[d]] # Absent

\* install_tmp_file: rename or link, and the rescue clause that copies.
InstallTmpFile(d) ==
  /\ out[d] = "link"
  /\ Overwrite[d] \/ setting.linkable
  /\ ~Refused(d)
  /\ target' = [target EXCEPT ![PathOf[d]] = Content(d, written[d])]
  /\ out' = [out EXCEPT ![d] = "closing"]
  /\ installed' = installed \cup {d}
  /\ UNCHANGED <<setting, phase, opened, files, written, copied, errors, raised>>

InstallRaises(d) ==
  /\ out[d] \in {"link", "copy"}
  /\ "io" \in Faults \/ (out[d] = "link" /\ Refused(d))
  /\ out' = [out EXCEPT ![d] = "closing"]
  /\ CloseRaises(d)
  /\ UNCHANGED <<setting, target, phase, opened, files, written, copied, installed>>

\* install_tmp_file_by_copy: an exclusive create, then copy_stream.
CopyCreates(d) ==
  /\ out[d] = "link" /\ ~Overwrite[d] /\ ~setting.linkable /\ ~Refused(d)
  /\ target' = [target EXCEPT ![PathOf[d]] = Content(d, 0)]
  /\ out' = [out EXCEPT ![d] = "copy"]
  /\ UNCHANGED <<setting, phase, opened, files, written, copied, errors, raised, installed>>

CopyStream(d) ==
  /\ out[d] = "copy"
  /\ IF copied[d] < written[d]
     THEN /\ copied' = [copied EXCEPT ![d] = @ + 1]
          /\ target' = [target EXCEPT ![PathOf[d]] = Content(d, copied[d] + 1)]
          /\ UNCHANGED <<out, installed>>
     ELSE /\ out' = [out EXCEPT ![d] = "closing"]
          /\ installed' = installed \cup {d}
          /\ UNCHANGED <<copied, target>>
  /\ UNCHANGED <<setting, phase, opened, files, written, errors, raised>>

\* The ensure clause: close! removes the temporary file.  The block of a
\* Multi.download that succeeded is called then, and may raise.
RemoveTmp(d) ==
  /\ out[d] = "closing"
  /\ out' = [out EXCEPT ![d] = "closed"]
  /\ \/ UNCHANGED raised
     \/ /\ "block" \in Faults /\ d \in installed /\ CallOf(d) \notin Easy
        /\ raised' = [raised EXCEPT ![CallOf(d)] = TRUE]
  /\ UNCHANGED <<setting, target, phase, opened, files, written, copied, errors, installed>>

-----------------------------------------------------------------------------
\* Multi.http returns when every transfer has completed; it raises then what
\* a block raised, or at once when the multi itself fails.
HttpEnds(c) ==
  /\ phase[c] = "transfer"
  /\ ~Closing(c)
  /\ \/ (\A d \in Of(c) : out[d] = "closed") /\ UNCHANGED raised
     \/ "io" \in Faults /\ c \notin Easy /\ raised' = [raised EXCEPT ![c] = TRUE]
  /\ phase' = [phase EXCEPT ![c] = "ensure"]
  /\ UNCHANGED <<setting, target, opened, files, out, written, copied, errors, installed>>

\* The ensure clause of the call walks the list; closing again does nothing.
CloseListed(c) ==
  /\ phase[c] = "ensure" /\ ~Closing(c)
  /\ \E d \in files[c] :
       /\ files' = [files EXCEPT ![c] = @ \ {d}]
       /\ out' = [out EXCEPT ![d] = IF @ = "open" THEN "failure" ELSE @]
  /\ UNCHANGED <<setting, target, phase, opened, written, copied, errors, raised, installed>>

\* Its end: errors are raised as a DownloadError unless $! is set, which it is
\* when an exception is leaving the call and when the caller is rescuing one.
NeverReports(c) == FALSE
Reports(c) == errors[c] /\ c \notin setting.rescuing

EndCall(c) ==
  /\ phase[c] = "ensure" /\ ~Closing(c) /\ files[c] = {}
  /\ phase' = [phase EXCEPT ![c] = IF raised[c] \/ Reports(c) THEN "raised" ELSE "returned"]
  /\ UNCHANGED <<setting, target, opened, files, out, written, copied, errors, raised, installed>>

\* Another program creates a file.
ForeignCreate(p) ==
  /\ target[p] = Absent
  /\ target' = [target EXCEPT ![p] = Foreign]
  /\ UNCHANGED <<setting, phase, opened, files, out, written, copied, errors, raised, installed>>

CallStep(c) ==
  \/ Resolve(c) \/ OpenOutput(c) \/ StartTransfers(c)
  \/ HttpEnds(c) \/ CloseListed(c) \/ EndCall(c)

DownloadStep(d) ==
  \/ Write(d) \/ (\E ok \in BOOLEAN : Complete(d, ok))
  \/ Flush(d) \/ InstallTmpFile(d) \/ InstallRaises(d)
  \/ CopyCreates(d) \/ CopyStream(d) \/ RemoveTmp(d)

Next ==
  \/ \E c \in Calls : CallStep(c)
  \/ \E d \in Downloads : DownloadStep(d)
  \/ \E p \in Paths : ForeignCreate(p)

Spec == Init /\ [][Next]_vars

-----------------------------------------------------------------------------
\* Where a target can be a part of a body: it is copied into place, or an
\* Easy.download takes a failed transfer for a success.
Exempt == ~setting.linkable \/ setting.onFailure \cap Easy # {}

Contract == INSTANCE AtomicInstall WITH
  target <- IF Exempt THEN [p \in Paths |-> Absent] ELSE target

\* A target appears whole, in one step, and replaces an existing file only
\* with :overwrite; whatever other programs and calls do to the path between
\* the early check of SafeDownloadOutput.new and the install.
InstallsAtomically == Contract!Spec

\* A call that returns without an exception has installed every file it was
\* asked for: a failed transfer, a refused install and an exception of the
\* finalizer all reach the caller (finalize_download, the ensure clause).
\* Exempt: a Multi.download within a rescue clause, whose $! hides its errors.
FailureReported ==
  \A c \in Calls : phase[c] = "returned" /\ c \notin setting.rescuing => Of(c) \subseteq installed

\* Two downloads that were told not to overwrite never both report that they
\* installed the same path, though both passed the early check.
OneWinner ==
  \A d, e \in installed :
    d # e /\ PathOf[d] = PathOf[e] => Overwrite[d] \/ Overwrite[e]

\* No temporary file outlives its call: an output that was opened is closed by
\* the end, by the finalizer or by the ensure clause, whatever raised in between
\* and however far the list files had been worked off (Multi.download,
\* SafeDownloadOutput#close).
TempsRemoved ==
  /\ TypeOK
  /\ \A c \in Calls : phase[c] \in {"returned", "raised"} =>
       \A d \in Of(c) : out[d] \in {"none", "closed"}
==============================================================================
