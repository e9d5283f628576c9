----------------------------- MODULE DBSnapshot -----------------------------
(***************************************************************************)
(* Synchronisation of ONE conversation's SQLite database: part 4 of        *)
(* pushConversation (internal/syncer/push.go), part 3 of Pull (pull.go),   *)
(* the chunk documents of internal/firestore/chunks.go and the local       *)
(* reconstruction of internal/reconstructor.                               *)
(*                                                                         *)
(* A database is the set of its rows; its SHA256 stands for that set.  A   *)
(* snapshot is cut into chunks that carry RowsPerChunk rows each; a chunk  *)
(* is told apart by the snapshot it was cut from and its index.  There is  *)
(* one daemon per machine.  The conversation document and the chunk        *)
(* documents are written by separate requests, and the document is always  *)
(* overwritten as a whole by the copy the push read when it began.  The    *)
(* commands `push' and `pull' are left out.                                *)
(***************************************************************************)
EXTENDS Integers, FiniteSets

CONSTANTS
  Machine,       \* one daemon on each
  Author,        \* machines whose agent writes the conversation
  Pusher,        \* machines whose daemon pushes (all of them, in the code)
  Row,           \* the rows an agent may write
  RowsPerChunk,  \* the chunk size
  Prune,         \* whether agents also delete rows (the file shrinks)
  NoMachine      \* the source_machine of no document

ASSUME ConstantsAssumption ==
  /\ Machine # {}
  /\ Author \subseteq Machine
  /\ Pusher \subseteq Machine
  /\ IsFiniteSet(Row)
  /\ RowsPerChunk \in Nat \ {0}
  /\ Prune \in BOOLEAN
  /\ NoMachine \notin Machine

Image == SUBSET Row

(* A checksum, a chunk document or the result of a download: one image, or *)
(* none.                                                                   *)
None == {}
Some(rows) == {rows}
Maybe == {None} \cup {Some(rows) : rows \in Image}

Fresh(m) == [sum |-> None, count |-> 0, src |-> m]
NoConv == Fresh(NoMachine)  \* no conversation document

(* The number of chunks of a snapshot: rounded up, and never none.  The    *)
(* definition beside it, like those further down, is the slip a property   *)
(* is there to catch.                                                      *)
ChunksPlusOne(rows) == Cardinality(rows) \div RowsPerChunk + 1
Chunks(rows) ==
  LET n == (Cardinality(rows) + RowsPerChunk - 1) \div RowsPerChunk
  IN  IF n = 0 THEN 1 ELSE n
MaxChunks == Cardinality(Row)  \* a chunk has a row at least

VARIABLES
  db,         \* db[m]: rows of m's conversations/<id>.db
  log,        \* log[m]: rows whose step m's transcript holds
  event,      \* event[m]: m's daemon has a pending reason to push
  steps,      \* rows whose step is stored remotely
  conv,       \* the conversation document: checksum, chunk count, source
  chunk,      \* chunk[i]: the snapshot the i-th chunk document was cut from
  pc, snap, image, todo,
  clean       \* nothing has failed, no file has shrunk, and one machine's
              \* pushes are the only ones (history)

vars == <<db, log, event, steps, conv, chunk, pc, snap, image, todo, clean>>
local == <<db, log, event>>
remote == <<steps, conv, chunk>>

Stages == {"idle", "begin", "snapshot", "chunks", "final", "pull", "rebuild",
           "restore"}
ChunkIndex == 1 .. MaxChunks

Idle(m) ==
  /\ pc' = [pc EXCEPT ![m] = "idle"]
  /\ snap' = [snap EXCEPT ![m] = NoConv]
  /\ image' = [image EXCEPT ![m] = {}]
  /\ todo' = [todo EXCEPT ![m] = {}]

Goto(m, from, to) == pc[m] = from /\ pc' = [pc EXCEPT ![m] = to]

Init ==
  /\ db = [m \in Machine |-> {}]
  /\ log = [m \in Machine |-> {}]
  /\ event = [m \in Machine |-> FALSE]
  /\ steps = {}
  /\ conv = NoConv
  /\ chunk = [i \in ChunkIndex |-> None]
  /\ pc = [m \in Machine |-> "idle"]
  /\ snap = [m \in Machine |-> NoConv]
  /\ image = [m \in Machine |-> {}]
  /\ todo = [m \in Machine |-> {}]
  /\ clean = TRUE

-----------------------------------------------------------------------------
(* The agent.                                                              *)

Unused == Row \ UNION {db[n] \cup log[n] : n \in Machine}

(* A step: a row of the database and a line of the transcript; the         *)
(* transcript lies in the watched directory.  One machine starts the       *)
(* conversation, another continues it once it has pulled it.               *)
AgentStep(m) ==
  /\ m \in Author
  /\ log[m] # {} \/ \A n \in Machine : log[n] = {}
  /\ \E r \in Unused :
       /\ db' = [db EXCEPT ![m] = @ \cup {r}]
       /\ log' = [log EXCEPT ![m] = @ \cup {r}]
  /\ event' = [event EXCEPT ![m] = TRUE]
  /\ UNCHANGED <<remote, pc, snap, image, todo, clean>>

(* A row that is no step (a checkpoint, metadata): nothing watches the     *)
(* database.                                                               *)
AgentEdit(m) ==
  /\ m \in Author
  /\ log[m] # {}
  /\ \E r \in Unused : db' = [db EXCEPT ![m] = @ \cup {r}]
  /\ UNCHANGED <<log, event, remote, pc, snap, image, todo, clean>>

(* Such rows go away again: the file shrinks.                              *)
AgentPrune(m) ==
  /\ Prune
  /\ m \in Author
  /\ \E r \in db[m] \ log[m] : db' = [db EXCEPT ![m] = @ \ {r}]
  /\ clean' = FALSE
  /\ UNCHANGED <<log, event, remote, pc, snap, image, todo>>

Touch(m) ==
  /\ log[m] # {}
  /\ event' = [event EXCEPT ![m] = TRUE]
  /\ UNCHANGED <<db, log, remote, pc, snap, image, todo, clean>>

-----------------------------------------------------------------------------
(* Push.                                                                   *)

Pushing(m) == pc[m] \in {"begin", "snapshot", "chunks", "final"}
PushBegin(m) ==
  /\ m \in Pusher
  /\ event[m]
  /\ Goto(m, "idle", "begin")
  /\ snap' = [snap EXCEPT ![m] = IF conv = NoConv THEN Fresh(m) ELSE conv]
  /\ event' = [event EXCEPT ![m] = FALSE]
  /\ clean' = (clean /\ conv.src \in {m, NoMachine}
                     /\ \A n \in Machine \ {m} : ~Pushing(n))
  /\ UNCHANGED <<db, log, remote, image, todo>>

(* The steps are pushed.  The document is written when it is new or when   *)
(* there were steps to push: those that are not stored, and maybe others   *)
(* above a stale watermark.                                                *)
PushSteps(m) ==
  /\ Goto(m, "begin", "snapshot")
  /\ steps' = steps \cup log[m]
  /\ snap' = [snap EXCEPT ![m].src = m]
  /\ \/ /\ conv = NoConv \/ log[m] # {}
        /\ conv' = snap'[m]
     \/ /\ conv # NoConv
        /\ log[m] \subseteq steps
        /\ UNCHANGED conv
  /\ UNCHANGED <<local, chunk, image, todo, clean>>

(* The transcript's steps are merged into the local database, which is     *)
(* then copied; nothing is uploaded when there is no file or when the      *)
(* copy's checksum is the carried document's.                              *)
Rebuilt(m) == db[m] \cup log[m]
SnapshotDB(m) ==
  LET copy == Rebuilt(m) IN
  /\ db' = [db EXCEPT ![m] = copy]
  /\ IF copy = {} \/ Some(copy) = snap[m].sum
     THEN /\ Goto(m, "snapshot", "final")
          /\ UNCHANGED <<image, todo>>
     ELSE /\ Goto(m, "snapshot", "chunks")
          /\ image' = [image EXCEPT ![m] = copy]
          /\ todo' = [todo EXCEPT ![m] = 1 .. Chunks(copy)]
  /\ UNCHANGED <<log, event, remote, snap, clean>>

(* SaveDBChunks: the bulk writer sets the chunk documents in any order;    *)
(* documents of a longer snapshot stay where they are.                     *)
SaveChunk(m) ==
  /\ pc[m] = "chunks"
  /\ \E i \in todo[m] :
       /\ chunk' = [chunk EXCEPT ![i] = Some(image[m])]
       /\ todo' = [todo EXCEPT ![m] = @ \ {i}]
  /\ UNCHANGED <<local, steps, conv, pc, snap, image, clean>>

(* A chunk write the server refuses: the job's error is never looked at.   *)
DropChunk(m) ==
  /\ pc[m] = "chunks"
  /\ \E i \in todo[m] : todo' = [todo EXCEPT ![m] = @ \ {i}]
  /\ clean' = FALSE
  /\ UNCHANGED <<local, remote, pc, snap, image>>

ChunksUnsaved(m) == TRUE
ChunksSaved(m) == todo[m] = {}
ChunksDone(m) ==
  /\ ChunksSaved(m)
  /\ Goto(m, "chunks", "final")
  /\ snap' = [snap EXCEPT ![m].sum = Some(image[m]),
                             ![m].count = Chunks(image[m])]
  /\ UNCHANGED <<local, remote, image, todo, clean>>

PushFinal(m) ==
  /\ pc[m] = "final"
  /\ conv' = [snap[m] EXCEPT !.src = m]
  /\ Idle(m)
  /\ UNCHANGED <<local, steps, chunk, clean>>

-----------------------------------------------------------------------------
(* Pull.                                                                   *)

(* The document is read and the missing steps are appended.                *)
PullBegin(m) ==
  /\ conv # NoConv
  /\ conv.src # m
  /\ Goto(m, "idle", "pull")
  /\ snap' = [snap EXCEPT ![m] = conv]
  /\ log' = [log EXCEPT ![m] = @ \cup steps]
  /\ event' = [event EXCEPT ![m] = @ \/ steps \ log[m] # {}]
  /\ UNCHANGED <<db, remote, image, todo, clean>>

(* GetDBChunks and the concatenation: every chunk document there is, in    *)
(* the order of its index.                                                 *)
Present == {i \in ChunkIndex : chunk[i] # None}
Assembles(rows) ==
  /\ Present = 1 .. Chunks(rows)
  /\ \A i \in Present : chunk[i] = Some(rows)
Assembled == {rows \in Image : Assembles(rows)}

(* The chunks are read; the checksum decides between the restored file and *)
(* the reconstruction from the transcript.                                 *)
SumUnchecked(m) == TRUE
SumMatches(m) == Assembled = snap[m].sum
PullChunks(m) ==
  /\ pc[m] = "pull"
  /\ IF snap[m].count > 0 /\ Present # {} /\ SumMatches(m)
     THEN /\ image' = [image EXCEPT ![m] = UNION Assembled]
          /\ pc' = [pc EXCEPT ![m] = "restore"]
     ELSE /\ pc' = [pc EXCEPT ![m] = "rebuild"]
          /\ UNCHANGED image
  /\ UNCHANGED <<local, remote, snap, todo, clean>>

(* The file is replaced by a rename.                                       *)
Restore(m) ==
  /\ pc[m] = "restore"
  /\ db' = [db EXCEPT ![m] = image[m]]
  /\ Idle(m)
  /\ UNCHANGED <<log, event, remote, clean>>

(* The fallback merges the transcript into the local file.                 *)
Reconstruct(m) ==
  /\ pc[m] = "rebuild"
  /\ db' = [db EXCEPT ![m] = Rebuilt(m)]
  /\ Idle(m)
  /\ UNCHANGED <<log, event, remote, clean>>

-----------------------------------------------------------------------------
(* A call fails, or the process dies: nothing is undone; a restarted       *)
(* daemon pushes.                                                          *)
Fail(m) ==
  /\ pc[m] # "idle"
  /\ Idle(m)
  /\ clean' = FALSE
  /\ \/ UNCHANGED event
     \/ event' = [event EXCEPT ![m] = log[m] # {}]
  /\ UNCHANGED <<db, log, remote>>

PushStage(m) ==
  PushSteps(m) \/ SnapshotDB(m) \/ SaveChunk(m) \/ ChunksDone(m) \/ PushFinal(m)
PullStage(m) == PullChunks(m) \/ Restore(m) \/ Reconstruct(m)
Agent(m) == AgentStep(m) \/ AgentEdit(m) \/ AgentPrune(m) \/ Touch(m)

Work ==
  \E m \in Machine :
    Agent(m) \/ PushBegin(m) \/ PushStage(m) \/ PullBegin(m) \/ PullStage(m)
Next == Work \/ \E m \in Machine : Fail(m) \/ DropChunk(m)

Spec == Init /\ [][Next]_vars
WorkSpec == Init /\ [][Work]_vars

(* Calls that have begun go on; an event that stays queued and a tick that *)
(* stays due are taken (select chooses at random).                         *)
FairSpec ==
  /\ WorkSpec
  /\ \A m \in Machine :
       /\ WF_vars(PushStage(m))
       /\ WF_vars(PullStage(m))
       /\ SF_vars(PushBegin(m))
       /\ SF_vars(PullBegin(m))

-----------------------------------------------------------------------------
(* Properties.                                                             *)

(* Types; no chunk has an index beyond the last.                           *)
TypeOK ==
  /\ db \in [Machine -> Image]
  /\ log \in [Machine -> Image]
  /\ event \in [Machine -> BOOLEAN]
  /\ steps \in Image
  /\ conv \in [sum : Maybe, count : 0 .. MaxChunks,
               src : Machine \cup {NoMachine}]
  /\ chunk \in [ChunkIndex -> Maybe]
  /\ pc \in [Machine -> Stages]
  /\ snap \in [Machine -> [sum : Maybe, count : 0 .. MaxChunks,
                           src : Machine \cup {NoMachine}]]
  /\ image \in [Machine -> Image]
  /\ todo \in [Machine -> SUBSET ChunkIndex]
  /\ clean \in BOOLEAN

(* No pull installs a file no push has uploaded: neither a mixture of two  *)
(* uploads nor the part of one under way, although the document and the    *)
(* chunks are written and read by separate requests and machines push at   *)
(* the same time.  What it is about to install is the image its document   *)
(* names.                                                                  *)
WholeImages ==
  \A m \in Machine :
    pc[m] = "restore" => snap[m].sum = Some(image[m]) /\ image[m] # {}

(* When no push is under way, and as long as one machine pushes, nothing   *)
(* fails and no database shrinks, the chunk documents assemble to the      *)
(* snapshot the conversation document names: a pull restores the pushed    *)
(* file, not a part of it.                                                 *)
Quiet == \A m \in Machine : ~Pushing(m)
QuietRestorable == Quiet /\ clean /\ conv.count > 0 => Assembled = conv.sum

(* README.md:14 "without merge conflicts or context loss": a step an agent *)
(* has written is in its own machine's database in the end.                *)
OwnStepsKept == \A m \in Machine, r \in Row : r \in log[m] ~> r \in db[m]

=============================================================================
