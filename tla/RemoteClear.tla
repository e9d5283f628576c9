----------------------------- MODULE RemoteClear -----------------------------
(***************************************************************************)
(* agy-sync clear beside the machines that push and pull: Engine.Clear     *)
(* (internal/syncer/clear.go), ClearAll and DeleteConversation             *)
(* (internal/firestore/client.go), and the view of agy-sync status         *)
(* (cmd/status.go), added to TranscriptSync.                               *)
(*                                                                         *)
(* A clear lists the step documents, hands a bulk writer the deletion of   *)
(* each and of the conversation document, and waits for it; nobody reads   *)
(* the writer's results.  Artifact and chunk documents are deleted by the  *)
(* same loop as the steps and are left out.  A merge into a document that  *)
(* is gone makes one without an ID, which UpsertConversation then refuses  *)
(* to overwrite with a copy of itself, and which no listener can pull.     *)
(***************************************************************************)
EXTENDS TranscriptSync

CONSTANT MaxClears  \* bound: number of clears

ASSUME MaxClearsAssumption == MaxClears \in Nat

VARIABLES
  stage,    \* the clear: none is running, it lists, or it deletes
  doomed,   \* the step documents whose deletion is queued
  docDoom,  \* the deletion of the conversation document is queued
  clears,   \* clears begun
  tainted,  \* the last clear met a push or did not delete everything
  seen,     \* what the last status command read of the document
  seenAt    \* the clears begun by then; -1 if one was running

clearVars == <<stage, doomed, docDoom, clears>>
statusVars == <<seen, seenAt>>
allVars == <<vars, clearVars, tainted, statusVars>>

ClearInit ==
  /\ Init
  /\ stage = "none"
  /\ doomed = {}
  /\ docDoom = FALSE
  /\ clears = 0
  /\ tainted = FALSE
  /\ seen = NoConv
  /\ seenAt = 0

Pushing(p) == pc[p] \in {"create", "parse", "append", "meta", "final"}
SomePush == \E p \in Proc : Pushing(p)

-----------------------------------------------------------------------------
(* Push and pull, with the documents a clear can leave.                    *)

NoId(c) == c # NoConv /\ c.src = NoMachine

(* UpsertConversation refuses a record without an ID: the push ends with   *)
(* an error.                                                               *)
Refused(p) == pc[p] \in {"meta", "final"} /\ NoId(snap[p])
PushRefused(p) ==
  /\ Refused(p)
  /\ Idle(p)
  /\ UNCHANGED <<local, remote>>

(* The listener takes the ID from the document: Pull wants one.            *)
Listed(p) == pc[p] = "idle" /\ p \in Daemon => ~NoId(conv)

Sync ==
  /\ \/ \E m \in Machine : AgentAppend(m) \/ Touch(m)
     \/ \E p \in Proc : ~Refused(p) /\ Push(p)
     \/ \E p \in Proc : Listed(p) /\ Pull(p)
     \/ \E p \in Proc : PushRefused(p)
     \/ Crash
  /\ tainted' = (tainted \/ (stage # "none" /\ SomePush'))
  /\ UNCHANGED <<clearVars, statusVars>>

-----------------------------------------------------------------------------
(* Clear.                                                                  *)

(* The command is confirmed; the conversation is named, or is among those  *)
(* listed: one without a document is, too, while it has steps.             *)
ClearBegin ==
  /\ stage = "none"
  /\ clears < MaxClears
  /\ stage' = "list"
  /\ clears' = clears + 1
  /\ tainted' = SomePush
  /\ UNCHANGED <<vars, doomed, docDoom, statusVars>>

(* The deletions are queued.  The definitions above the one in use, here   *)
(* and below, are the slips the properties are there to catch: indices     *)
(* counted from one, steps taken from the watermark.                       *)
DoomedFromOne(c) == {i + 1 : i \in Indices(stored)}
DoomedUpTo(c) == 0 .. c.lss
Doomed(c) == Indices(stored)
ListSteps ==
  /\ stage = "list"
  /\ stage' = "delete"
  /\ doomed' = Doomed(conv)
  /\ docDoom' = TRUE
  /\ UNCHANGED <<vars, clears, tainted, statusVars>>

(* The bulk writer deletes in any order.                                   *)
DeleteStep ==
  /\ \E i \in doomed :
       /\ stored' = {s \in stored : s.idx # i}
       /\ doomed' = doomed \ {i}
  /\ UNCHANGED <<local, conv, pc, snap, todo, mark, last>>
  /\ UNCHANGED <<stage, docDoom, clears, tainted, statusVars>>

DeleteDoc ==
  /\ docDoom
  /\ docDoom' = FALSE
  /\ conv' = NoConv
  /\ UNCHANGED <<local, stored, pc, snap, todo, mark, last>>
  /\ UNCHANGED <<stage, doomed, clears, tainted, statusVars>>

(* A deletion the server refuses.                                          *)
RefuseDelete ==
  /\ \/ \E i \in doomed : doomed' = doomed \ {i} /\ UNCHANGED docDoom
     \/ docDoom /\ docDoom' = FALSE /\ UNCHANGED doomed
  /\ tainted' = TRUE
  /\ UNCHANGED <<vars, stage, clears, statusVars>>

(* Flush waits for every deletion; the command reports success.            *)
ClearEnd ==
  /\ stage = "delete"
  /\ doomed = {} /\ ~docDoom
  /\ stage' = "none"
  /\ UNCHANGED <<vars, doomed, docDoom, clears, tainted, statusVars>>

(* A listing fails, or the command dies: what is queued may be lost.       *)
ClearFail ==
  /\ stage # "none"
  /\ stage' = "none"
  /\ doomed' = {}
  /\ docDoom' = FALSE
  /\ tainted' = TRUE
  /\ UNCHANGED <<vars, clears, statusVars>>

Clear ==
  ClearBegin \/ ListSteps \/ DeleteStep \/ DeleteDoc \/ RefuseDelete
    \/ ClearEnd \/ ClearFail

-----------------------------------------------------------------------------
(* Status reads the document, and later the transcripts.                   *)

StatusFetch ==
  /\ seen' = conv
  /\ seenAt' = IF stage = "none" THEN clears ELSE -1
  /\ UNCHANGED <<vars, clearVars, tainted>>

(* The verdict on m's transcript: step counts are compared.                *)
SyncedWithin(m) ==
  /\ seen # NoConv
  /\ seen.lss + 2 >= Len(transcript[m])
  /\ transcript[m] # <<>>
Synced(m) ==
  /\ seen # NoConv
  /\ seen.lss + 1 >= Len(transcript[m])
  /\ transcript[m] # <<>>

ClearNext == Sync \/ Clear \/ StatusFetch
ClearSpec == ClearInit /\ [][ClearNext]_allVars

-----------------------------------------------------------------------------
(* Properties.                                                             *)

ClearTypeOK ==
  /\ stage \in {"none", "list", "delete"}
  /\ doomed \subseteq Index
  /\ docDoom \in BOOLEAN
  /\ clears \in 0 .. MaxClears
  /\ tainted \in BOOLEAN
  /\ seen \in Conv \cup {NoConv}
  /\ seenAt \in -1 .. MaxClears

Settled == stage = "none" /\ ~tainted

(* A clear no push overlapped leaves nothing when it ends, not even the    *)
(* steps without a document that an earlier, overlapped one left.          *)
SweptClean ==
  [][stage = "delete" /\ stage' = "none" /\ ~tainted'
       => conv' = NoConv /\ stored' = {}]_allVars

(* Once such a clear is over, or before any, pushes that fail anywhere     *)
(* leave no hole below the watermark (WatermarkCovered), and no document   *)
(* is without an ID.                                                       *)
CoveredUnlessRaced == Settled => WatermarkCovered /\ ~NoId(conv)

(* A transcript that status calls synced is stored step by step, although  *)
(* status compares a count of lines with a watermark it read earlier: as   *)
(* long as no clear came in between.                                       *)
StatusTruthful ==
  Settled /\ seenAt = clears =>
    \A m \in Machine : Synced(m) => Indices(Lines(m)) \subseteq Indices(stored)

=============================================================================
