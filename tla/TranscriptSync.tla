--------------------------- MODULE TranscriptSync ---------------------------
(***************************************************************************)
(* Synchronisation of ONE conversation's transcript between machines that  *)
(* share a Firestore database: the transcript half of                      *)
(* internal/syncer/push.go (pushConversation) and pull.go (Pull), the loop *)
(* prevention of listener.go, and the Firestore calls they make.           *)
(*                                                                         *)
(* A process is one running agy-sync: the daemon of a machine, or a CLI    *)
(* command.  Every request to Firestore, every read of the transcript and  *)
(* every line written to it is a step of its own, so that the processes    *)
(* interleave where the code lets them.  A step has an index, a content,   *)
(* told apart by the machine whose agent wrote it, and its machine_id      *)
(* field, which every push fills in anew.                                  *)
(***************************************************************************)
EXTENDS Integers, Sequences

CONSTANTS
  Machine,    \* the machine IDs of the configurations
  Proc,       \* the running agy-sync processes
  Host,       \* Host[p]: the machine p runs on
  Origin,     \* the machine where the conversation was created
  Author,     \* the machines where an agent continues it
  Pusher,     \* the processes that push (a daemon, or a push command)
  Cli,        \* the processes that are commands: no event, no origin check
  NoMachine,  \* an absent machine: the source_machine of a document made by
              \* a merge, the machine_id of a line the agent wrote
  MaxIndex    \* bound: the agent writes steps 0 .. MaxIndex

ASSUME ConstantsAssumption ==
  /\ Host \in [Proc -> Machine]
  /\ Origin \in Author
  /\ Author \subseteq Machine
  /\ Pusher \subseteq Proc
  /\ Cli \subseteq Proc
  /\ NoMachine \notin Machine
  /\ MaxIndex \in Nat

Daemon == Proc \ Cli
Index == 0 .. MaxIndex
Step == [idx : Index, by : Machine, tag : Machine \cup {NoMachine}]
NoConv == [lss |-> -2, src |-> NoMachine]  \* no conversation document
Conv == [lss : -1 .. MaxIndex, src : Machine \cup {NoMachine}]

Stages == {"idle", "create", "parse", "append", "meta", "final",
           "pull", "fetch", "write"}

VARIABLES
  transcript,  \* transcript[m]: the lines of m's transcript.jsonl
  event,       \* event[m]: m's daemon has a pending reason to push
  conv,        \* the Firestore conversation document
  stored,      \* the documents of its steps subcollection
  pc,          \* pc[p]: where p's call stands
  snap,        \* snap[p]: the copy of conv that p's push carries
  todo,        \* todo[p]: steps p has still to write
  mark,        \* mark[p]: largest index of p's batch (AppendSteps)
  last         \* last[p]: index of the batch's last line, or localLastStep

vars == <<transcript, event, conv, stored, pc, snap, todo, mark, last>>
remote == <<conv, stored>>
local == <<transcript, event>>

Lines(m) == {transcript[m][k] : k \in DOMAIN transcript[m]}

(* The largest step index of a transcript, -1 when it has no step.         *)
LastIndex(t) ==
  IF t = <<>> THEN -1
  ELSE t[CHOOSE k \in DOMAIN t : \A j \in DOMAIN t : t[j].idx <= t[k].idx].idx

(* The lines a push selects, with the pusher's machine for machine_id      *)
(* whoever wrote them, and the index of the last of them in file order:    *)
(* the watermark it will write.  The definitions beside them, here and     *)
(* below, are the slips the properties are there to catch: a count taken   *)
(* for an index, the wrong end of the batch, a missing wait.               *)
Tagged(steps, m) == {[s EXCEPT !.tag = m] : s \in steps}
NewStepsFromCount(m, after) == Tagged({s \in Lines(m) : s.idx > after + 1}, m)
NewSteps(m, after) == Tagged({s \in Lines(m) : s.idx > after}, m)
LineCount(m, after) == Len(transcript[m])
FirstLine(m, after) ==
  LET new == {k \in DOMAIN transcript[m] : transcript[m][k].idx > after}
  IN  transcript[m][CHOOSE k \in new : \A j \in new : k <= j].idx
LastLine(m, after) ==
  LET new == {k \in DOMAIN transcript[m] : transcript[m][k].idx > after}
  IN  transcript[m][CHOOSE k \in new : \A j \in new : j <= k].idx

(* A step document is keyed by its index alone.                            *)
PutStep(docs, s) == {d \in docs : d.idx # s.idx} \cup {s}

Idle(p) ==
  /\ pc' = [pc EXCEPT ![p] = "idle"]
  /\ snap' = [snap EXCEPT ![p] = NoConv]
  /\ todo' = [todo EXCEPT ![p] = {}]
  /\ mark' = [mark EXCEPT ![p] = -1]
  /\ last' = [last EXCEPT ![p] = -1]

Goto(p, from, to) == pc[p] = from /\ pc' = [pc EXCEPT ![p] = to]

(* The conversation's directory exists on m, so that a push discovers it.  *)
Discovered(m) == m = Origin \/ transcript[m] # <<>>

Init ==
  /\ transcript = [m \in Machine |-> <<>>]
  /\ event \in {e \in [Machine -> BOOLEAN] : \A m \in Machine : e[m] => m = Origin}
  /\ conv = NoConv
  /\ stored = {}
  /\ pc = [p \in Proc |-> "idle"]
  /\ snap = [p \in Proc |-> NoConv]
  /\ todo = [p \in Proc |-> {}]
  /\ mark = [p \in Proc |-> -1]
  /\ last = [p \in Proc |-> -1]

-----------------------------------------------------------------------------
(* The machine around agy-sync.                                            *)

(* The agent appends the next step; the watcher turns it into an event.    *)
(* Another machine can go on once it has pulled the conversation.          *)
AgentAppend(m) ==
  /\ m \in Author
  /\ Discovered(m)
  /\ LastIndex(transcript[m]) < MaxIndex
  /\ transcript' = [transcript EXCEPT ![m] =
                      Append(@, [idx |-> LastIndex(@) + 1, by |-> m,
                                 tag |-> NoMachine])]
  /\ event' = [event EXCEPT ![m] = TRUE]
  /\ UNCHANGED <<remote, pc, snap, todo, mark, last>>

(* Another file of the conversation changes: an artifact is edited, or     *)
(* rewritten by a pull.                                                    *)
Touch(m) ==
  /\ Discovered(m)
  /\ event' = [event EXCEPT ![m] = TRUE]
  /\ UNCHANGED <<transcript, remote, pc, snap, todo, mark, last>>

-----------------------------------------------------------------------------
(* Push.                                                                   *)

(* GetConversation; a missing document is replaced by a fresh record.      *)
PushBegin(p) ==
  /\ p \in Pusher
  /\ IF p \in Cli THEN Discovered(Host[p]) ELSE event[Host[p]]
  /\ \/ conv = NoConv /\ Goto(p, "idle", "create")
     \/ conv # NoConv /\ Goto(p, "idle", "parse")
  /\ snap' = [snap EXCEPT ![p] =
                IF conv = NoConv THEN [lss |-> -1, src |-> Host[p]] ELSE conv]
  /\ event' = IF p \in Cli THEN event ELSE [event EXCEPT ![Host[p]] = FALSE]
  /\ UNCHANGED <<transcript, remote, todo, mark, last>>

PushCreate(p) ==
  /\ Goto(p, "create", "parse")
  /\ conv' = snap[p]
  /\ UNCHANGED <<local, stored, snap, todo, mark, last>>

PushParse(p) ==
  LET new == NewSteps(Host[p], snap[p].lss) IN
  /\ IF new = {}
     THEN /\ Goto(p, "parse", "final")
          /\ UNCHANGED <<mark, last>>
     ELSE /\ Goto(p, "parse", "append")
          /\ mark' = [mark EXCEPT ![p] = LastIndex(transcript[Host[p]])]
          /\ last' = [last EXCEPT ![p] = LastLine(Host[p], snap[p].lss)]
  /\ todo' = [todo EXCEPT ![p] = new]
  /\ UNCHANGED <<local, remote, snap>>

(* AppendSteps: the bulk writer sends the queued documents in any order.   *)
AppendStep(p) ==
  /\ pc[p] = "append"
  /\ \E s \in todo[p] :
       /\ stored' = PutStep(stored, s)
       /\ todo' = [todo EXCEPT ![p] = @ \ {s}]
  /\ UNCHANGED <<local, conv, pc, snap, mark, last>>

(* A write the server refuses: the bulk writer's job carries the error and *)
(* AppendSteps never looks at it.                                          *)
DropStep(p) ==
  /\ pc[p] = "append"
  /\ \E s \in todo[p] : todo' = [todo EXCEPT ![p] = @ \ {s}]
  /\ UNCHANGED <<local, remote, pc, snap, mark, last>>

(* AppendSteps, after the flush: last_synced_step is merged into the       *)
(* document, which a merge creates when it is missing; an error of this    *)
(* request is ignored.                                                     *)
Unflushed(p) == TRUE
Flushed(p) == todo[p] = {}
Watermark(p) ==
  IF conv = NoConv THEN [lss |-> mark[p], src |-> NoMachine]
                   ELSE [conv EXCEPT !.lss = mark[p]]
MergeWatermark(p) ==
  /\ Goto(p, "append", "meta")
  /\ Flushed(p)
  /\ \/ conv' = Watermark(p)
     \/ UNCHANGED conv
  /\ UNCHANGED <<local, stored, snap, todo, mark, last>>

(* The document is overwritten by the pusher's copy.                       *)
PushMeta(p) ==
  /\ Goto(p, "meta", "final")
  /\ snap' = [snap EXCEPT ![p] = [lss |-> last[p], src |-> Host[p]]]
  /\ conv' = snap'[p]
  /\ UNCHANGED <<local, stored, todo, mark, last>>

(* The last upsert, made by every push that gets here.                     *)
PushFinal(p) ==
  /\ pc[p] = "final"
  /\ conv' = [snap[p] EXCEPT !.src = Host[p]]
  /\ Idle(p)
  /\ UNCHANGED <<local, stored>>

-----------------------------------------------------------------------------
(* Pull.                                                                   *)

(* A tick of the daemon lists the conversations and pulls those whose      *)
(* source_machine is not its own.                                          *)
ShouldSync(p) == conv.src # Host[p]
SyncRemoteChanges(p) ==
  /\ p \in Daemon
  /\ conv # NoConv
  /\ ShouldSync(p)
  /\ Goto(p, "idle", "pull")
  /\ UNCHANGED <<local, remote, snap, todo, mark, last>>

PullCommand(p) ==
  /\ p \in Cli
  /\ Goto(p, "idle", "pull")
  /\ UNCHANGED <<local, remote, snap, todo, mark, last>>

(* GetConversation: a missing document ends the call with an error, else   *)
(* the local transcript is parsed.                                         *)
PullParse(p) ==
  /\ pc[p] = "pull"
  /\ IF conv = NoConv
     THEN Idle(p)
     ELSE /\ pc' = [pc EXCEPT ![p] = "fetch"]
          /\ last' = [last EXCEPT ![p] = LastIndex(transcript[Host[p]])]
          /\ UNCHANGED <<snap, todo, mark>>
  /\ UNCHANGED <<local, remote>>

(* GetStepsSince(localLastStep).                                           *)
StepsFrom(i) == {s \in stored : s.idx >= i}
StepsAfterNext(i) == {s \in stored : s.idx > i + 1}
StepsSince(i) == {s \in stored : s.idx > i}
PullFetch(p) ==
  LET new == StepsSince(last[p]) IN
  /\ pc[p] = "fetch"
  /\ IF new = {}
     THEN Idle(p)
     ELSE /\ pc' = [pc EXCEPT ![p] = "write"]
          /\ todo' = [todo EXCEPT ![p] = new]
          /\ UNCHANGED <<snap, mark, last>>
  /\ UNCHANGED <<local, remote>>

(* One line is appended; the steps were sorted by index.                   *)
Unsorted(p, s) == s \in todo[p]
NextLine(p, s) == s \in todo[p] /\ \A t \in todo[p] : s.idx <= t.idx
PullWrite(p) ==
  /\ pc[p] = "write"
  /\ \E s \in todo[p] :
       /\ NextLine(p, s)
       /\ transcript' = [transcript EXCEPT ![Host[p]] = Append(@, s)]
       /\ IF todo[p] = {s}
          THEN Idle(p)
          ELSE /\ todo' = [todo EXCEPT ![p] = @ \ {s}]
               /\ UNCHANGED <<pc, snap, mark, last>>
  /\ event' = [event EXCEPT ![Host[p]] = TRUE]
  /\ UNCHANGED remote

-----------------------------------------------------------------------------
(* Failures.                                                               *)

(* A call returns an error: the daemon logs nothing and goes on, and the   *)
(* event that caused a push is gone.                                       *)
Fail(p) ==
  /\ pc[p] # "idle"
  /\ Idle(p)
  /\ UNCHANGED <<local, remote>>

(* The daemon dies and is started again: it first pushes every             *)
(* conversation it finds.                                                  *)
Restart(p) ==
  /\ p \in Daemon
  /\ Idle(p)
  /\ event' = [event EXCEPT ![Host[p]] = Discovered(Host[p])]
  /\ UNCHANGED <<transcript, remote>>

Push(p) ==
  \/ PushBegin(p) \/ PushCreate(p) \/ PushParse(p) \/ AppendStep(p)
  \/ MergeWatermark(p) \/ PushMeta(p) \/ PushFinal(p)
PullStage(p) == PullParse(p) \/ PullFetch(p) \/ PullWrite(p)
Pull(p) == SyncRemoteChanges(p) \/ PullCommand(p) \/ PullStage(p)

Work ==
  \/ \E m \in Machine : AgentAppend(m) \/ Touch(m)
  \/ \E p \in Proc : Push(p) \/ Pull(p)
Crash == \E p \in Proc : Fail(p) \/ Restart(p)
Next == Work \/ Crash

Spec == Init /\ [][Next]_vars

(* With refused step writes.                                               *)
NextLossy == Next \/ \E p \in Proc : DropStep(p)
SpecLossy == Init /\ [][NextLossy]_vars

(* No failure at all, and a daemon that keeps running: a call that has     *)
(* begun goes on, a queued event is taken and the ticker fires.  The       *)
(* daemon's select chooses at random among its ready channels, so neither  *)
(* the events nor the ticks can be passed over for ever.                   *)
WorkSpec == Init /\ [][Work]_vars
FairSpec ==
  /\ WorkSpec
  /\ \A p \in Proc :
       /\ WF_vars(PushCreate(p) \/ PushParse(p) \/ AppendStep(p))
       /\ WF_vars(MergeWatermark(p) \/ PushMeta(p) \/ PushFinal(p))
       /\ WF_vars(PullStage(p))
  /\ \A p \in Daemon :
       /\ SF_vars(PushBegin(p))
       /\ SF_vars(SyncRemoteChanges(p))

(* What the transcripts promise while one machine's agent writes: one log, *)
(* published step by step and copied in order.  The log is made of what    *)
(* the steps say: a step that is pushed back from another machine gets     *)
(* that machine's machine_id.                                              *)
Content(s) == [idx |-> s.idx, by |-> s.by]
Contents(steps) == {Content(s) : s \in steps}
ContentsOf(t) == [k \in DOMAIN t |-> Content(t[k])]
Log == INSTANCE SharedLog
         WITH copy <- [m \in Machine |-> ContentsOf(transcript[m])],
              published <- Contents(stored)

-----------------------------------------------------------------------------
(* Properties.                                                             *)

TypeOK ==
  /\ transcript \in [Machine -> Seq(Step)]
  /\ event \in [Machine -> BOOLEAN]
  /\ conv \in Conv \cup {NoConv}
  /\ stored \subseteq Step
  /\ pc \in [Proc -> Stages]
  /\ snap \in [Proc -> Conv \cup {NoConv}]
  /\ todo \in [Proc -> SUBSET Step]
  /\ mark \in [Proc -> -1 .. MaxIndex]
  /\ last \in [Proc -> -1 .. MaxIndex]

Indices(steps) == {s.idx : s \in steps}

(* The watermark of the conversation document is never ahead of the steps: *)
(* the step it names is stored, whoever pushes, concurrently or not, and   *)
(* wherever a push fails (push.go writes the steps first).                 *)
WatermarkStored == conv.lss >= 0 => conv.lss \in Indices(stored)

(* Every step up to the watermark is stored, so none is skipped for ever   *)
(* by the pushes, which only send what lies above it.                      *)
WatermarkCovered == \A i \in Index : i <= conv.lss => i \in Indices(stored)

(* No machine has a step twice or out of order: parse, fetch and append    *)
(* are three requests, and nothing locks the file between them.            *)
Increasing(t) == \A i, j \in DOMAIN t : i < j => t[i].idx < t[j].idx
NoDuplicateSteps == \A m \in Machine : Increasing(transcript[m])

(* No machine's transcript has a hole: it holds all the steps below its    *)
(* last one.                                                               *)
NoGaps ==
  \A m \in Machine :
    0 .. LastIndex(transcript[m]) \subseteq Indices(Lines(m))

(* The watermark never moves back while the document exists.               *)
WatermarkMonotone == [][conv' # NoConv => conv'.lss >= conv.lss]_conv

(* The transcripts and the step documents behave as one shared log.        *)
ImplementsSharedLog == Log!Spec

(* Every step the agent writes is stored in the end.                       *)
EventuallyStored ==
  \A i \in Index :
    LastIndex(transcript[Origin]) >= i ~> i \in Indices(stored)

(* The last step written by an agent reaches every machine's transcript.   *)
CatchesUp(m) ==
  \A a \in Author, i \in Index :
    LastIndex(transcript[a]) >= i ~> LastIndex(transcript[m]) >= i
CatchUp == \A m \in Machine : CatchesUp(m)

(* A machine whose daemon runs is left behind in one way only: its own     *)
(* announcement stands, or keeps coming back, in the document (ShouldSync).*)
(* The left side stays true, so this says that each machine either gets    *)
(* the step or is named as the source again and again.                     *)
DeliveredUnlessOwn ==
  \A m \in Machine, i \in Index :
    LastIndex(transcript[Origin]) >= i ~>
      LastIndex(transcript[m]) >= i \/ conv.src = m

=============================================================================
