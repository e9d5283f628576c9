----------------------------- MODULE Repository -----------------------------
(***************************************************************************)
(* The two implementations of firestore.Repository: the Firestore client   *)
(* (client.go, steps.go, fetch.go, chunks.go of internal/firestore), with  *)
(* which agy-sync runs, and MemoryRepository (memory.go), with which all   *)
(* its tests run.  One engine (internal/syncer) makes its calls on both,   *)
(* one push or clear after the other, as the tests do.                     *)
(*                                                                         *)
(* A store is what an implementation keeps of one conversation: the        *)
(* document, its steps and its artifacts, as sets of records.  The two     *)
(* differ in which records they take for the same one, and in that the     *)
(* client queues writes and deletions whose failure nobody learns of.      *)
(***************************************************************************)
EXTENDS Integers, Sequences

CONSTANTS
  Conversation,  \* the conversation IDs
  ArtifactPath,  \* the relative paths of artifacts
  Content,       \* what a step or an artifact may hold
  RepoMachine,   \* the machine IDs
  TopStep        \* bound: the largest step index

ASSUME PathAssumption == ArtifactPath \subseteq Seq({"letter", "/", "_"})
ASSUME BoundAssumption == TopStep \in Nat

VARIABLES
  remote,   \* remote[c]: the client's store of c
  memory,   \* memory[c]: the in-memory one
  push,     \* the push under way, as a set of at most one
  dropped   \* history: the conversations of which a queued write or
            \* deletion was lost, or a clear failed, since the last clear

repoVars == <<remote, memory, push, dropped>>

Steps == [idx : 0 .. TopStep, body : Content]
Artifacts == [id : ArtifactPath, body : Content]
Docs == [lss : -1 .. TopStep, src : RepoMachine]
NoConversation == [lss |-> -2, src |-> ""]
EmptyStore == [doc |-> NoConversation, steps |-> {}, arts |-> {}]

(* The document key of an artifact: "/" becomes "__".                      *)
DocKey(path) ==
  LET key[n \in 0 .. Len(path)] ==
        IF n = 0 THEN <<>>
        ELSE key[n - 1] \o (IF path[n] = "/" THEN <<"_", "_">> ELSE <<path[n]>>)
  IN  key[Len(path)]

(* The largest index of a batch of steps.  The definition before it, as    *)
(* below, is a slip that a property is there to catch.                     *)
NextIndex(batch) ==
  1 + CHOOSE i \in {s.idx : s \in batch} : \A s \in batch : s.idx <= i
TopIndex(batch) ==
  CHOOSE i \in {s.idx : s \in batch} : \A s \in batch : s.idx <= i

-----------------------------------------------------------------------------
(* Writing calls, on a store.  Documents and map entries with the key of a *)
(* new one are replaced.                                                   *)

PutIndexed(docs, new) == {d \in docs : \A n \in new : d.idx # n.idx} \cup new

(* AppendSteps.  The client queues the steps and merges the largest index  *)
(* of the batch into the document, and ignores which of them fail: the     *)
(* steps in kept are stored, and the index if merged.  The double raises   *)
(* the watermark of a conversation it knows, and loses nothing.            *)
ClientAppend(st, batch, kept, merged) ==
  [st EXCEPT !.steps = PutIndexed(@, kept),
             !.doc = IF merged THEN [@ EXCEPT !.lss = TopIndex(batch)] ELSE @]
MemoryAppendOnly(st, batch) == [st EXCEPT !.steps = PutIndexed(@, batch)]
MemoryAppend(st, batch) ==
  [st EXCEPT !.steps = PutIndexed(@, batch),
             !.doc = IF @ # NoConversation /\ @.lss < TopIndex(batch)
                     THEN [@ EXCEPT !.lss = TopIndex(batch)] ELSE @]

ClientSave(st, art) ==
  [st EXCEPT !.arts = {a \in @ : DocKey(a.id) # DocKey(art.id)} \cup {art}]
MemorySave(st, art) == [st EXCEPT !.arts = {a \in @ : a.id # art.id} \cup {art}]

UpsertConversation(st, d) == [st EXCEPT !.doc = d]

(* What the client's deletions may leave: the listing of a collection can  *)
(* fail, and so can, without a word, each queued deletion.                 *)
Remains(st) ==
  [doc : {st.doc, NoConversation}, steps : SUBSET st.steps, arts : SUBSET st.arts]

-----------------------------------------------------------------------------
(* Reading calls.                                                          *)

StepsAfter(st, i) == {s \in st.steps : s.idx > i}
ClientArtifact(st, p) == {a \in st.arts : DocKey(a.id) = DocKey(p)}
MemoryArtifact(st, p) == {a \in st.arts : a.id = p}

-----------------------------------------------------------------------------
(* The engine.                                                             *)

RepoInit ==
  /\ remote = [c \in Conversation |-> EmptyStore]
  /\ memory = [c \in Conversation |-> EmptyStore]
  /\ push = {}
  /\ dropped = {}

Both(c, inRemote, inMemory) ==
  /\ remote' = [remote EXCEPT ![c] = inRemote]
  /\ memory' = [memory EXCEPT ![c] = inMemory]
PutDocument(c, d) ==
  Both(c, UpsertConversation(remote[c], d), UpsertConversation(memory[c], d))

(* pushConversation: the document is read, or made.                        *)
GetConversation(c) ==
  /\ push = {}
  /\ \E m \in RepoMachine :
       LET found == remote[c].doc
           copy == IF found = NoConversation THEN [lss |-> -1, src |-> m]
                                             ELSE found
       IN  /\ push' = {[conv |-> c, by |-> m, stage |-> "steps", copy |-> copy]}
           /\ IF found = NoConversation
              THEN PutDocument(c, copy)
              ELSE UNCHANGED <<remote, memory>>
  /\ UNCHANGED dropped

(* The steps above the watermark, whichever the transcript has.            *)
Batches(after) ==
  {b \in SUBSET {s \in Steps : s.idx > after} :
     b # {} /\ \A s, t \in b : s.idx = t.idx => s = t}
AppendSteps(p) ==
  /\ p.stage = "steps"
  /\ \E b \in Batches(p.copy.lss) : \E kept \in SUBSET b, merged \in BOOLEAN :
       /\ Both(p.conv, ClientAppend(remote[p.conv], b, kept, merged),
                       MemoryAppend(memory[p.conv], b))
       /\ dropped' = dropped \cup (IF kept = b /\ merged THEN {} ELSE {p.conv})
       /\ push' = {[p EXCEPT !.stage = "metadata",
                             !.copy = [lss |-> TopIndex(b), src |-> p.by]]}

PutMetadata(p) ==
  /\ p.stage = "metadata"
  /\ PutDocument(p.conv, p.copy)
  /\ push' = {[p EXCEPT !.stage = "files"]}
  /\ UNCHANGED dropped

SaveArtifact(p) ==
  /\ p.stage \in {"steps", "files"}
  /\ \E a \in Artifacts :
       Both(p.conv, ClientSave(remote[p.conv], a), MemorySave(memory[p.conv], a))
  /\ push' = {[p EXCEPT !.stage = "files"]}
  /\ UNCHANGED dropped

FinishPush(p) ==
  /\ p.stage \in {"steps", "files"}
  /\ PutDocument(p.conv, [p.copy EXCEPT !.src = p.by])
  /\ push' = {}
  /\ UNCHANGED dropped

(* The push ends with an error, or dies.                                   *)
AbandonPush(p) ==
  /\ push' = {}
  /\ UNCHANGED <<remote, memory, dropped>>

(* Clear, of one conversation or of all that have a document of any kind.  *)
DeleteConversation(c) ==
  /\ push = {}
  /\ \E rest \in Remains(remote[c]) :
       /\ Both(c, rest, EmptyStore)
       /\ dropped' = IF rest = EmptyStore THEN dropped \ {c} ELSE dropped \cup {c}
  /\ UNCHANGED push

ClearAll ==
  /\ push = {}
  /\ LET Rests == UNION {Remains(remote[c]) : c \in Conversation} IN
     remote' \in {f \in [Conversation -> Rests] :
                    \A c \in Conversation : f[c] \in Remains(remote[c])}
  /\ memory' = [c \in Conversation |-> EmptyStore]
  /\ dropped' = {c \in Conversation : remote'[c] # EmptyStore}
  /\ UNCHANGED push

PushStep(p) ==
  \/ AppendSteps(p) \/ PutMetadata(p) \/ SaveArtifact(p)
  \/ FinishPush(p) \/ AbandonPush(p)

RepoNext ==
  \/ \E c \in Conversation : GetConversation(c) \/ DeleteConversation(c)
  \/ \E p \in push : PushStep(p)
  \/ ClearAll

RepoSpec == RepoInit /\ [][RepoNext]_repoVars

-----------------------------------------------------------------------------
(* Properties.                                                             *)

Stores == [doc : Docs \cup {NoConversation}, steps : SUBSET Steps,
           arts : SUBSET Artifacts]
Pushes == [conv : Conversation, by : RepoMachine, copy : Docs,
           stage : {"steps", "metadata", "files"}]

RepoTypeOK ==
  /\ remote \in [Conversation -> Stores]
  /\ memory \in [Conversation -> Stores]
  /\ push \in SUBSET Pushes
  /\ \A p, q \in push : p = q
  /\ dropped \subseteq Conversation

(* What the double answers is what Firestore would answer, so that the     *)
(* tests speak of the program that runs, where pushes do not overlap and   *)
(* no write or deletion of the conversation was lost: although the two     *)
(* keep the watermark by different rules and take an artifact for another  *)
(* by different keys.  Only an artifact whose key is also that of another  *)
(* path can be missing from Firestore.  A loss the double never shows.     *)
KeyAlone ==
  {p \in ArtifactPath : \A q \in ArtifactPath : DocKey(q) = DocKey(p) => q = p}
SameAnswers ==
  \A c \in Conversation \ dropped :
    /\ remote[c].doc = memory[c].doc
    /\ \A i \in -1 .. TopStep : StepsAfter(remote[c], i) = StepsAfter(memory[c], i)
    /\ remote[c].arts \subseteq memory[c].arts
    /\ \A p \in KeyAlone :
         ClientArtifact(remote[c], p) = MemoryArtifact(memory[c], p)

=============================================================================
