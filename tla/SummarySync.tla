----------------------------- MODULE SummarySync -----------------------------
(***************************************************************************)
(* The row a conversation has in conversation_summaries.db on every        *)
(* machine, and the columns of the Firestore document it travels in: part  *)
(* 3 of pushConversation and of Pull, and internal/reconstructor/          *)
(* summary.go, which merges a pulled row into the local one column by      *)
(* column, each by a rule of its own.                                      *)
(*                                                                         *)
(* The columns are the step count and the index and the time of the last   *)
(* user input, which depend on one another and on the transcript; in the   *)
(* others the newest value wins, or the newest that is not empty.  Step i  *)
(* is written at time i + 1; time 0 is Go's zero time.  One agent writes,  *)
(* so a transcript is a prefix of its log.                                 *)
(*                                                                         *)
(* Every machine pushes and pulls, at any time: a daemon pushes whatever   *)
(* its watcher reports, the files of its own pull among it, and both are   *)
(* commands too.                                                           *)
(***************************************************************************)
EXTENDS Integers, FiniteSets

CONSTANTS
  SummaryMachine,  \* one push or pull at a time on each
  Writer,          \* the machine of the agent
  StepBound        \* bound: the agent writes so many steps

ASSUME SummaryAssumption ==
  /\ Writer \in SummaryMachine
  /\ StepBound \in Nat \ {0}

Summary == [count : 0 .. StepBound, idx : -1 .. StepBound - 1,
            at : 0 .. StepBound]
NoRow == [count |-> -1, idx |-> -1, at |-> 0]

(* The document: a summary, the watermark, and whether it has chunks.  A   *)
(* fresh one has Go's zero values, also for the index.                     *)
FreshDoc ==
  [sum |-> [count |-> 0, idx |-> 0, at |-> 0], lss |-> -1, chunks |-> FALSE]
NoDoc == [FreshDoc EXCEPT !.lss = -2]
Doc == [sum : Summary, lss : -1 .. StepBound - 1, chunks : BOOLEAN]

VARIABLES
  inputs,    \* indices of the agent's steps that are user input
  held,      \* held[m]: the number of steps in m's transcript
  row,       \* row[m]: m's row of conversation_summaries.db
  onDisk,    \* the machines that have the conversation's directory
  doc,       \* the conversation document
  published, \* the number of steps stored remotely
  stage,     \* stage[m]: where the push or pull on m stands
  copy       \* copy[m]: remoteConv, the document that call carries

summaryVars ==
  <<inputs, held, row, onDisk, doc, published, stage, copy>>
localState == <<inputs, held, row, onDisk>>
remoteState == <<doc, published>>

Larger(a, b) == IF a >= b THEN a ELSE b

(* The last user input among the first n steps, -1 when there is none.     *)
LastInput(n) ==
  LET seen == {i \in inputs : i < n}
  IN  IF seen = {} THEN -1 ELSE CHOOSE i \in seen : \A j \in seen : j <= i
InputTime(n) == LastInput(n) + 1

(* BuildSummaryFromSteps, for the first n steps; beside it, as elsewhere   *)
(* below, a slip that a property is there to catch.                        *)
CountsNextStep(n) ==
  [count |-> n + 1, idx |-> LastInput(n), at |-> InputTime(n)]
TimeOfLastStep(n) ==
  [count |-> n, idx |-> LastInput(n), at |-> n]
BuildSummary(n) ==
  [count |-> n, idx |-> LastInput(n), at |-> InputTime(n)]

(* UpsertSummary: s is merged into the row r.                              *)
NewestWins(r, s) == s
Upsert(r, s) ==
  IF r = NoRow THEN s
  ELSE [count |-> Larger(s.count, r.count),
        idx |-> Larger(s.idx, r.idx),
        at |-> IF s.idx >= 0 THEN s.at ELSE r.at]

(* The columns a push puts into the document it carries: what the local    *)
(* row r says, or, without one, what its n transcript lines give; the      *)
(* count covers the transcript either way.                                 *)
FromRow(s, r) ==
  [count |-> IF r.count > 0 THEN r.count ELSE s.count,
   idx |-> IF r.idx >= 0 THEN r.idx ELSE s.idx,
   at |-> IF r.at > 0 THEN r.at ELSE s.at]
PushedSummary(s, r, n) ==
  LET t == IF r # NoRow THEN FromRow(s, r)
           ELSE IF n > 0 THEN BuildSummary(n) ELSE s
  IN  [t EXCEPT !.count = Larger(IF r # NoRow THEN @ ELSE s.count, n)]

(* What a pull merges without a restored database: what the n local lines  *)
(* give, and the document's columns where they say something.              *)
Fallback(s, n) ==
  [count |-> n,
   idx |-> IF s.idx >= 0 THEN s.idx ELSE LastInput(n),
   at |-> IF s.at > 0 THEN s.at ELSE InputTime(n)]

Rest(m) ==
  /\ stage' = [stage EXCEPT ![m] = "idle"]
  /\ copy' = [copy EXCEPT ![m] = NoDoc]
Advance(m, from, to) == stage[m] = from /\ stage' = [stage EXCEPT ![m] = to]

SummaryInit ==
  /\ inputs = {}
  /\ held = [m \in SummaryMachine |-> 0]
  /\ row = [m \in SummaryMachine |-> NoRow]
  /\ onDisk = {Writer}
  /\ doc = NoDoc
  /\ published = 0
  /\ stage = [m \in SummaryMachine |-> "idle"]
  /\ copy = [m \in SummaryMachine |-> NoDoc]

-----------------------------------------------------------------------------
(* The agent.                                                              *)

(* It appends a step to the transcript.                                    *)
WriteStep ==
  /\ held[Writer] < StepBound
  /\ held' = [held EXCEPT ![Writer] = @ + 1]
  /\ inputs' \in {inputs, inputs \cup {held[Writer]}}
  /\ UNCHANGED <<row, onDisk, remoteState, stage, copy>>

(* It brings its row up to date, some time later: nothing watches that     *)
(* file.                                                                   *)
WriteRow ==
  /\ row[Writer].count < held[Writer]
  /\ row' = [row EXCEPT ![Writer] = BuildSummary(held[Writer])]
  /\ UNCHANGED <<inputs, held, onDisk, remoteState, stage, copy>>

-----------------------------------------------------------------------------
(* Push.                                                                   *)

SummaryPush(m) ==
  /\ m \in onDisk
  /\ \/ doc = NoDoc /\ Advance(m, "idle", "create")
     \/ doc # NoDoc /\ Advance(m, "idle", "steps")
  /\ copy' = [copy EXCEPT ![m] = IF doc = NoDoc THEN FreshDoc ELSE doc]
  /\ UNCHANGED <<localState, remoteState>>

(* The document of the call is stored: a fresh one, one whose watermark    *)
(* has moved, and in the end the one with the summary.                     *)
StoreDoc(m) ==
  /\ \/ Advance(m, "create", "steps") /\ UNCHANGED copy
     \/ Advance(m, "mark", "summary") /\ UNCHANGED copy
     \/ stage[m] = "final" /\ Rest(m)
  /\ doc' = copy[m]
  /\ UNCHANGED <<localState, published>>

(* The steps above the watermark are stored.                               *)
StoreSteps(m) ==
  /\ \/ /\ held[m] - 1 > copy[m].lss
        /\ Advance(m, "steps", "mark")
        /\ published' = Larger(published, held[m])
        /\ copy' = [copy EXCEPT ![m].lss = held[m] - 1]
     \/ /\ held[m] - 1 <= copy[m].lss
        /\ Advance(m, "steps", "summary")
        /\ UNCHANGED <<published, copy>>
  /\ UNCHANGED <<localState, doc>>

(* ReadLocalSummary, and the second parse of the transcript, which may     *)
(* have grown; the database of a transcript is snapshot as chunks.         *)
ReadSummary(m) ==
  /\ Advance(m, "summary", "final")
  /\ copy' = [copy EXCEPT ![m].sum = PushedSummary(@, row[m], held[m]),
                          ![m].chunks = @ \/ held[m] > 0]
  /\ UNCHANGED <<localState, remoteState>>

-----------------------------------------------------------------------------
(* Pull.                                                                   *)

SummaryPull(m) ==
  /\ doc # NoDoc
  /\ Advance(m, "idle", "fetch")
  /\ copy' = [copy EXCEPT ![m] = doc]
  /\ UNCHANGED <<localState, remoteState>>

FetchSteps(m) ==
  /\ Advance(m, "fetch", "merge")
  /\ onDisk' = onDisk \cup {m}
  /\ held' = [held EXCEPT ![m] = Larger(@, published)]
  /\ UNCHANGED <<inputs, row, remoteState, copy>>

(* The chunks are restored, or, without them or with a wrong checksum, the *)
(* database is reconstructed from the transcript.                          *)
MergeRow(m) ==
  /\ stage[m] = "merge"
  /\ \/ /\ copy[m].chunks
        /\ row' = [row EXCEPT ![m] = Upsert(@, copy[m].sum)]
     \/ /\ held[m] > 0
        /\ row' = [row EXCEPT ![m] = Upsert(@, Fallback(copy[m].sum, held[m]))]
  /\ Rest(m)
  /\ UNCHANGED <<inputs, held, onDisk, remoteState>>

(* A push or a pull ends where it stands: a request or a file fails, its   *)
(* process dies, or a pull has nothing to merge.  Nobody repeats it.       *)
GiveUp(m) ==
  /\ stage[m] # "idle"
  /\ Rest(m)
  /\ UNCHANGED <<localState, remoteState>>

PushOn(m) == StoreDoc(m) \/ StoreSteps(m) \/ ReadSummary(m)
PullOn(m) == FetchSteps(m) \/ MergeRow(m)

SummaryNext ==
  \/ WriteStep \/ WriteRow
  \/ \E m \in SummaryMachine :
       SummaryPush(m) \/ PushOn(m) \/ SummaryPull(m) \/ PullOn(m) \/ GiveUp(m)

SummarySpec == SummaryInit /\ [][SummaryNext]_summaryVars

-----------------------------------------------------------------------------
(* Properties.                                                             *)

(* Types of the rows, the document and its copies.                         *)
SummaryTypeOK ==
  /\ inputs \subseteq 0 .. StepBound - 1
  /\ held \in [SummaryMachine -> 0 .. StepBound]
  /\ row \in [SummaryMachine -> Summary \cup {NoRow}]
  /\ onDisk \subseteq SummaryMachine
  /\ doc \in Doc \cup {NoDoc}
  /\ published \in 0 .. StepBound
  /\ copy \in [SummaryMachine -> Doc \cup {NoDoc}]

(* However rows, documents and transcripts of different ages meet, no row  *)
(* and no document counts a step the agent has not written, and the index  *)
(* and the time of the last user input, two columns merged by two rules,   *)
(* are each those of an input the user entered.  They need not be of the   *)
(* same input: the larger index wins, and the newer time.  Index 0 says    *)
(* nothing: it is also what a document without an index is read as.        *)
Entered(s) ==
  /\ s.count <= held[Writer]
  /\ s.idx > 0 => s.idx \in inputs
  /\ s.at > 0 => s.at - 1 \in inputs
NothingInvented ==
  Entered(doc.sum) /\ \A m \in SummaryMachine : Entered(row[m])

(* A document that is older than the row it is merged into, of a push that *)
(* was overtaken or of a machine that is behind, sets neither the count    *)
(* nor the index of the last user input back, nor does the agent when it   *)
(* rebuilds a row that a pull has changed.                                 *)
RowsNeverSetBack ==
  [][\A m \in SummaryMachine :
       row[m] # NoRow =>
         /\ row'[m].count >= row[m].count
         /\ row[m].idx > 0 => row'[m].idx >= row[m].idx]_summaryVars

=============================================================================
