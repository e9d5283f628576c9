---------------------------- MODULE ArtifactSync ----------------------------
(***************************************************************************)
(* Synchronisation of ONE conversation's artifacts between the daemons of  *)
(* several machines: discovery and part 2 of pushConversation              *)
(* (internal/discovery, internal/syncer/push.go), part 2 of Pull           *)
(* (pull.go), the artifact documents of internal/firestore/fetch.go, and   *)
(* the source_machine that listener.go decides by.                         *)
(*                                                                         *)
(* An artifact's content is told apart by its version; its SHA256 stands   *)
(* for that version.  Hashing, reading and saving are separate steps, as   *)
(* are the files of one push or pull, of which at most Workers are in      *)
(* flight.  Writing a file raises a watcher event, whoever writes it.  No  *)
(* request fails, but a daemon may die anywhere; it then pushes again,     *)
(* which it does not do after a request that failed.  A pull command may   *)
(* be given on any machine, while its daemon is at rest.                   *)
(***************************************************************************)
EXTENDS Integers, FiniteSets

CONSTANTS
  Machine,     \* one daemon on each
  Author,      \* machines whose agent or user edits artifacts
  Pusher,      \* machines whose daemon pushes
  File,        \* the artifacts' relative paths
  Workers,     \* errgroup limit
  MaxVersion,  \* bound: number of edits
  MaxRestarts, \* bound: number of restarts
  NoMachine    \* the source_machine of no document

ASSUME ConstantsAssumption ==
  /\ Author \subseteq Machine
  /\ Pusher \subseteq Machine
  /\ Workers \in Nat \ {0}
  /\ MaxVersion \in Nat
  /\ MaxRestarts \in Nat
  /\ NoMachine \notin Machine

Version == 0 .. MaxVersion  \* 0: the file is not there

VARIABLES
  disk,   \* disk[m][f]: the version on m
  event,  \* event[m]: m's daemon has a pending reason to push
  src,    \* source_machine of the conversation document
  doc,    \* doc[f]: the artifact document: checksum and content
  pc,     \* pc[m]: where m's daemon stands
  batch,  \* batch[m]: files still to be looked at, or to be written
  copy,   \* copy[m][f]: hash and content m's call works with
  busy,   \* busy[m]: files a worker has begun with
  latest, \* the version of the latest edit
  restarts

vars == <<disk, event, src, doc, pc, batch, copy, busy, latest, restarts>>
call == <<batch, copy, busy, latest, restarts>>

Stages == {"idle", "begin", "push", "final", "pull", "command"}
Nothing == [sum |-> 0, body |-> 0]
NoCopy == [f \in File |-> Nothing]

Goto(m, from, to) == pc[m] = from /\ pc' = [pc EXCEPT ![m] = to]
Idle(m) ==
  /\ pc' = [pc EXCEPT ![m] = "idle"]
  /\ batch' = [batch EXCEPT ![m] = {}]
  /\ copy' = [copy EXCEPT ![m] = NoCopy]
  /\ busy' = [busy EXCEPT ![m] = {}]

(* The conversation's directory is on m.                                   *)
Discovered(m) == \E f \in File : disk[m][f] # 0

Init ==
  /\ disk = [m \in Machine |-> [f \in File |-> 0]]
  /\ event = [m \in Machine |-> FALSE]
  /\ src = NoMachine
  /\ doc = NoCopy
  /\ pc = [m \in Machine |-> "idle"]
  /\ batch = [m \in Machine |-> {}]
  /\ copy = [m \in Machine |-> NoCopy]
  /\ busy = [m \in Machine |-> {}]
  /\ latest = 0
  /\ restarts = 0

-----------------------------------------------------------------------------
(* Somebody edits an artifact: every edit gives a new content.             *)
Edit(m) ==
  /\ m \in Author
  /\ latest < MaxVersion
  /\ latest' = latest + 1
  /\ \E f \in File : disk' = [disk EXCEPT ![m][f] = latest + 1]
  /\ event' = [event EXCEPT ![m] = TRUE]
  /\ UNCHANGED <<src, doc, pc, batch, copy, busy, restarts>>

-----------------------------------------------------------------------------
(* Push.                                                                   *)

(* Discovery hashes the files; a missing document is created.              *)
PushBegin(m) ==
  LET present == {f \in File : disk[m][f] # 0} IN
  /\ m \in Pusher
  /\ event[m]
  /\ Goto(m, "idle", "begin")
  /\ event' = [event EXCEPT ![m] = FALSE]
  /\ batch' = [batch EXCEPT ![m] = present]
  /\ copy' = [copy EXCEPT ![m] = [f \in File |-> [sum |-> disk[m][f], body |-> 0]]]
  /\ src' = IF src = NoMachine THEN m ELSE src
  /\ UNCHANGED <<disk, doc, busy, latest, restarts>>

(* Steps are pushed first; when there were some, the document announces m. *)
PushSteps(m) ==
  /\ Goto(m, "begin", "push")
  /\ src' \in {src, m}
  /\ UNCHANGED <<disk, event, doc, call>>

(* A worker compares the stored checksum with the hash taken at discovery  *)
(* and reads the file only when they differ.                               *)
(* The definition above the one in use, here and below, is the slip a      *)
(* property is there to catch.                                             *)
AnyWorker(m) == TRUE
WorkerFree(m) == Cardinality(busy[m]) < Workers
HashStored(m, f) == doc[f].body # 0
HashUnchanged(m, f) == doc[f].sum = copy[m][f].sum
CheckArtifact(m) ==
  /\ pc[m] = "push"
  /\ WorkerFree(m)
  /\ \E f \in batch[m] :
       /\ batch' = [batch EXCEPT ![m] = @ \ {f}]
       /\ IF HashUnchanged(m, f)
          THEN UNCHANGED <<copy, busy>>
          ELSE /\ copy' = [copy EXCEPT ![m][f].body = disk[m][f]]
               /\ busy' = [busy EXCEPT ![m] = @ \cup {f}]
  /\ UNCHANGED <<disk, event, src, doc, pc, latest, restarts>>

SaveArtifact(m) ==
  /\ pc[m] = "push"
  /\ \E f \in busy[m] :
       /\ doc' = [doc EXCEPT ![f] = copy[m][f]]
       /\ busy' = [busy EXCEPT ![m] = @ \ {f}]
  /\ UNCHANGED <<disk, event, src, pc, batch, copy, latest, restarts>>

PushWait(m) ==
  /\ Goto(m, "push", "final")
  /\ batch[m] = {} /\ busy[m] = {}
  /\ UNCHANGED <<disk, event, src, doc, call>>

PushFinal(m) ==
  /\ pc[m] = "final"
  /\ src' = m
  /\ Idle(m)
  /\ UNCHANGED <<disk, event, doc, latest, restarts>>

-----------------------------------------------------------------------------
(* Pull: the list of all artifacts, then a file per worker, overwritten    *)
(* whatever it holds.                                                      *)

AnySource(m) == src # NoMachine
ShouldSync(m) == src \notin {m, NoMachine}
Missing(m) == {f \in File : doc[f] # Nothing /\ disk[m][f] = 0}
Listed(m) == {f \in File : doc[f] # Nothing}
Fetch(m, stage) ==
  /\ Goto(m, "idle", stage)
  /\ batch' = [batch EXCEPT ![m] = Listed(m)]
  /\ copy' = [copy EXCEPT ![m] = doc]
  /\ UNCHANGED <<disk, event, src, doc, busy, latest, restarts>>

(* The daemon pulls what another machine has announced; a pull command     *)
(* pulls whatever there is.                                                *)
PullBegin(m) == ShouldSync(m) /\ Fetch(m, "pull")
PullCommand(m) == src # NoMachine /\ Fetch(m, "command")

PullWrite(m) ==
  /\ pc[m] \in {"pull", "command"}
  /\ IF batch[m] = {}
     THEN Idle(m) /\ UNCHANGED <<disk, event>>
     ELSE /\ \E f \in batch[m] :
               /\ disk' = [disk EXCEPT ![m][f] = copy[m][f].body]
               /\ batch' = [batch EXCEPT ![m] = @ \ {f}]
          /\ event' = [event EXCEPT ![m] = TRUE]
          /\ UNCHANGED <<pc, copy, busy>>
  /\ UNCHANGED <<src, doc, latest, restarts>>

(* The daemon dies at any moment and is started again: it first pushes     *)
(* what it finds.                                                          *)
Restart(m) ==
  /\ pc[m] \notin {"idle", "command"}
  /\ restarts < MaxRestarts
  /\ restarts' = restarts + 1
  /\ Idle(m)
  /\ event' = [event EXCEPT ![m] = Discovered(m)]
  /\ UNCHANGED <<disk, src, doc, latest>>

PushStage(m) ==
  PushSteps(m) \/ CheckArtifact(m) \/ SaveArtifact(m) \/ PushWait(m) \/ PushFinal(m)
Work ==
  \E m \in Machine :
    \/ Edit(m) \/ PushBegin(m) \/ PushStage(m)
    \/ PullBegin(m) \/ PullCommand(m) \/ PullWrite(m)
Next == Work \/ \E m \in Machine : Restart(m)

Spec == Init /\ [][Next]_vars

(* Calls go on, and the select of the daemon passes over neither its       *)
(* events nor its ticks for ever.                                          *)
FairSpec ==
  /\ Spec
  /\ \A m \in Machine :
       /\ WF_vars(PushStage(m))
       /\ WF_vars(PullWrite(m))
       /\ SF_vars(PushBegin(m))
       /\ SF_vars(PullBegin(m))

-----------------------------------------------------------------------------
(* Properties.                                                             *)

Contents == [sum : Version, body : Version]
(* Types; the workers keep to their limit.                                 *)
TypeOK ==
  /\ disk \in [Machine -> [File -> Version]]
  /\ event \in [Machine -> BOOLEAN]
  /\ src \in Machine \cup {NoMachine}
  /\ doc \in [File -> Contents]
  /\ pc \in [Machine -> Stages]
  /\ batch \in [Machine -> SUBSET File]
  /\ copy \in [Machine -> [File -> Contents]]
  /\ busy \in [Machine -> SUBSET File]
  /\ latest \in Version
  /\ restarts \in 0 .. MaxRestarts
  /\ \A m \in Machine : Cardinality(busy[m]) <= Workers

(* A machine with nothing left to push has published the files as they are *)
(* on its disk, checksum and content: an edit between the hashing and the  *)
(* reading of a file, or a restart in mid-push, leaves no lasting trace.   *)
Published(m) == \A f \in File : doc[f] = [sum |-> disk[m][f], body |-> disk[m][f]]
RemoteMirrors ==
  \A m \in Author : pc[m] = "idle" /\ ~event[m] => Published(m)

(* A file falls back to an earlier content only where a pull command is    *)
(* given on a machine whose files are edited: no daemon undoes an edit,    *)
(* and no machine that only reads goes back, although a pull writes the    *)
(* list it fetched before later pushes.                                    *)
VersionsGrow ==
  [][\A m \in Machine, f \in File :
       disk[m][f] <= disk'[m][f] \/ (m \in Author /\ pc[m] = "command")]_disk

(* In the end all machines hold the same artifacts.                        *)
ArtifactsDelivered ==
  \A m, n \in Machine : <>[](disk[m] = disk[n])

(* Once nobody edits or pulls by hand any more the synchronisation comes   *)
(* to rest: a machine does not answer the files it has pulled with a push  *)
(* of its own.                                                             *)
ComesToRest ==
  <>[](\A m \in Machine : pc[m] # "command")
    => \E m \in Machine \cup {NoMachine} : <>[](src = m)

=============================================================================
