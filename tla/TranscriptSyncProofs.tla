------------------------ MODULE TranscriptSyncProofs ------------------------
(***************************************************************************)
(* Theorems about TranscriptSync, for every set of machines and processes  *)
(* and every number of steps.                                              *)
(***************************************************************************)
EXTENDS TranscriptSync, LargestElement, TLAPS

-----------------------------------------------------------------------------
(* Lemmas about the operators the actions are built from.                  *)

(* The lines of a transcript are steps.                                    *)
LEMMA LineType ==
  ASSUME NEW t \in Seq(Step), NEW k \in DOMAIN t
  PROVE  /\ t[k] \in Step
         /\ t[k].idx \in Int /\ 0 <= t[k].idx /\ t[k].idx <= MaxIndex
<1>1. t[k] \in Step
  OBVIOUS
<1> QED BY <1>1, ConstantsAssumption DEF Step, Index

(* LastIndex is an index or -1, bounds every line and is the index of one. *)
LEMMA LastIndexBounds ==
  ASSUME NEW t \in Seq(Step)
  PROVE  /\ LastIndex(t) \in -1 .. MaxIndex
         /\ \A j \in DOMAIN t : t[j].idx <= LastIndex(t)
         /\ t = <<>> => LastIndex(t) = -1
         /\ t # <<>> => \E k \in DOMAIN t : t[k].idx = LastIndex(t)
<1> USE ConstantsAssumption
<1>1. CASE t = <<>>
  BY <1>1 DEF LastIndex
<1>2. CASE t # <<>>
  <2> DEFINE S == {t[k].idx : k \in DOMAIN t}
  <2>1. \A k \in DOMAIN t : t[k].idx \in 0 .. MaxIndex
    BY LineType
  <2>2. PICK x \in S : \A y \in S : y <= x
    <3>1. S \subseteq Int /\ (\A s \in S : s <= MaxIndex) /\ MaxIndex \in Int
      BY <2>1
    <3>2. S # {}
      <4>1. 1 \in DOMAIN t
        BY <1>2
      <4> QED BY <4>1
    <3> HIDE DEF S
    <3> QED BY <3>1, <3>2, MaximumExists
  <2>3. \E k \in DOMAIN t : \A j \in DOMAIN t : t[j].idx <= t[k].idx
    BY <2>2
  <2> DEFINE c == CHOOSE k \in DOMAIN t : \A j \in DOMAIN t : t[j].idx <= t[k].idx
  <2>4. c \in DOMAIN t /\ \A j \in DOMAIN t : t[j].idx <= t[c].idx
    BY <2>3
  <2>5. LastIndex(t) = t[c].idx
    BY <1>2 DEF LastIndex
  <2> HIDE DEF c
  <2>6. t[c].idx \in -1 .. MaxIndex
    BY <2>1, <2>4
  <2> QED BY <1>2, <2>4, <2>5, <2>6
<1> QED BY <1>1, <1>2

(* Appending a step of a larger index makes it the last one.               *)
LEMMA LastIndexAppend ==
  ASSUME NEW t \in Seq(Step), NEW s \in Step, LastIndex(t) < s.idx
  PROVE  LastIndex(Append(t, s)) = s.idx
<1> DEFINE u == Append(t, s)
<1>1. /\ u \in Seq(Step) /\ u # <<>>
      /\ Len(t) + 1 \in DOMAIN u /\ u[Len(t) + 1] = s
      /\ \A k \in DOMAIN u : k = Len(t) + 1 \/ (k \in DOMAIN t /\ u[k] = t[k])
  OBVIOUS
<1>2. /\ LastIndex(t) \in Int /\ s.idx \in Int
      /\ \A j \in DOMAIN t : t[j].idx \in Int /\ t[j].idx <= LastIndex(t)
  <2>1. s.idx \in Int
    BY ConstantsAssumption DEF Step, Index
  <2>2. LastIndex(t) \in -1 .. MaxIndex
    BY LastIndexBounds
  <2>3. LastIndex(t) \in Int
    BY <2>2, ConstantsAssumption
  <2> QED BY <2>1, <2>3, LineType, LastIndexBounds
<1>3. /\ LastIndex(u) \in Int /\ u[Len(t) + 1].idx <= LastIndex(u)
      /\ \E k \in DOMAIN u : u[k].idx = LastIndex(u)
  <2> HIDE DEF u
  <2>1. LastIndex(u) \in -1 .. MaxIndex
    BY <1>1, LastIndexBounds
  <2>2. LastIndex(u) \in Int
    BY <2>1, ConstantsAssumption
  <2> QED BY <1>1, <2>2, LastIndexBounds
<1> HIDE DEF u
<1>4. \A k \in DOMAIN u : u[k].idx \in Int /\ u[k].idx <= s.idx
  BY <1>1, <1>2
<1> QED BY <1>1, <1>3, <1>4 DEF u

(* A push selects one record for every line above the watermark, with the  *)
(* line's index and content.                                               *)
LEMMA NewStepsOf ==
  ASSUME NEW m \in Machine, transcript[m] \in Seq(Step), NEW after \in Int
  PROVE  /\ NewSteps(m, after) \subseteq Step
         /\ \A s \in NewSteps(m, after) : \E k \in DOMAIN transcript[m] :
              /\ transcript[m][k].idx > after /\ s.idx = transcript[m][k].idx
              /\ Content(s) = Content(transcript[m][k])
         /\ \A k \in DOMAIN transcript[m] : transcript[m][k].idx > after =>
              \E s \in NewSteps(m, after) : s.idx = transcript[m][k].idx
<1> DEFINE t == transcript[m]
           tagged(k) == [t[k] EXCEPT !.tag = m]
<1>1. ASSUME NEW k \in DOMAIN t
      PROVE  /\ tagged(k) \in Step /\ tagged(k).idx = t[k].idx
             /\ Content(tagged(k)) = Content(t[k])
  <2>1. t[k] \in Step
    OBVIOUS
  <2> QED BY <2>1 DEF Step, Content
<1>2. \A s \in NewSteps(m, after) :
        \E k \in DOMAIN t : t[k].idx > after /\ s = tagged(k)
  BY DEF NewSteps, Tagged, Lines
<1>3. \A k \in DOMAIN t : t[k].idx > after => tagged(k) \in NewSteps(m, after)
  BY DEF NewSteps, Tagged, Lines
<1> HIDE DEF tagged
<1> QED BY <1>1, <1>2, <1>3

(* The watermark a push writes is the index of one of the selected lines.  *)
LEMMA LastLineOfBatch ==
  ASSUME NEW m \in Machine, transcript[m] \in Seq(Step), NEW after \in Int,
         NewSteps(m, after) # {}
  PROVE  LastLine(m, after) \in Indices(NewSteps(m, after))
<1> DEFINE t == transcript[m]
           K == {k \in DOMAIN t : t[k].idx > after}
           c == CHOOSE k \in K : \A j \in K : j <= k
<1>1. PICK k \in K : \A j \in K : j <= k
  <2>1. K \subseteq Int /\ Len(t) \in Int /\ \A k \in K : k <= Len(t)
    OBVIOUS
  <2>2. K # {}
    BY NewStepsOf
  <2> HIDE DEF K
  <2> QED BY <2>1, <2>2, MaximumExists
<1>2. c \in K
  BY <1>1
<1>3. LastLine(m, after) = t[c].idx
  BY DEF LastLine
<1> HIDE DEF c
<1>4. \E s \in NewSteps(m, after) : s.idx = t[c].idx
  BY <1>2, NewStepsOf
<1> QED BY <1>3, <1>4 DEF Indices

(* A write of a step document adds its index and removes none.             *)
LEMMA PutStepIndices ==
  ASSUME NEW docs, NEW s
  PROVE  Indices(PutStep(docs, s)) = Indices(docs) \cup {s.idx}
BY DEF Indices, PutStep

-----------------------------------------------------------------------------
(* Type correctness.                                                       *)

(* A push that has begun carries a real document, never the absence of     *)
(* one: what its upserts write is a document.                              *)
PushStages == {"create", "parse", "append", "meta", "final"}
Carries == \A p \in Proc : pc[p] \in PushStages => snap[p] \in Conv
Typed == TypeOK /\ Carries

LEMMA TypeInit == Init => Typed
<1> SUFFICES ASSUME Init PROVE Typed
  OBVIOUS
<1>2. Carries
  BY DEF Init, Carries, PushStages
<1>1. transcript \in [Machine -> Seq(Step)]
  BY DEF Init
<1> QED
  BY <1>1, <1>2, ConstantsAssumption
  DEF Init, Typed, TypeOK, Stages, Conv, NoConv

(* What a finished or failed call leaves in a process's variables.         *)
LEMMA IdleType ==
  ASSUME TypeOK, NEW p \in Proc, Idle(p)
  PROVE  /\ pc' \in [Proc -> Stages]
         /\ snap' \in [Proc -> Conv \cup {NoConv}]
         /\ todo' \in [Proc -> SUBSET Step]
         /\ mark' \in [Proc -> -1 .. MaxIndex]
         /\ last' \in [Proc -> -1 .. MaxIndex]
BY ConstantsAssumption DEF TypeOK, Idle, Stages

LEMMA TypeStep == Typed /\ [NextLossy]_vars => TypeOK'
<1> SUFFICES ASSUME TypeOK, Carries, [NextLossy]_vars PROVE TypeOK'
  BY DEF Typed
<1> USE ConstantsAssumption
<1>1. ASSUME NEW m \in Machine, AgentAppend(m) PROVE TypeOK'
  <2> DEFINE t == transcript[m]
             s == [idx |-> LastIndex(t) + 1, by |-> m, tag |-> NoMachine]
  <2>1. t \in Seq(Step) /\ LastIndex(t) < MaxIndex
    BY <1>1 DEF AgentAppend, TypeOK
  <2>2. LastIndex(t) \in -1 .. MaxIndex
    BY <2>1, LastIndexBounds
  <2>3. s \in Step
    BY <2>1, <2>2 DEF Step, Index
  <2>4. transcript' = [transcript EXCEPT ![m] = Append(t, s)]
    BY <1>1 DEF AgentAppend
  <2> HIDE DEF s
  <2>5. transcript' \in [Machine -> Seq(Step)]
    BY <2>1, <2>3, <2>4 DEF TypeOK
  <2> QED BY <1>1, <2>5 DEF AgentAppend, TypeOK, remote
<1>2. ASSUME NEW m \in Machine, Touch(m) PROVE TypeOK'
  BY <1>2 DEF Touch, TypeOK, remote
<1>3. ASSUME NEW p \in Proc, PushBegin(p) PROVE TypeOK'
  <2> DEFINE carried == IF conv = NoConv THEN [lss |-> -1, src |-> Host[p]]
                                         ELSE conv
  <2>1. carried \in Conv
    BY DEF TypeOK, Conv
  <2> HIDE DEF carried
  <2>2. snap' \in [Proc -> Conv \cup {NoConv}]
    BY <1>3, <2>1 DEF PushBegin, TypeOK, carried
  <2>3. pc' \in [Proc -> Stages] /\ event' \in [Machine -> BOOLEAN]
    BY <1>3 DEF PushBegin, Goto, Stages, TypeOK
  <2> QED BY <1>3, <2>2, <2>3 DEF PushBegin, TypeOK, remote
<1>4. ASSUME NEW p \in Proc, PushCreate(p) PROVE TypeOK'
  BY <1>4 DEF PushCreate, Goto, TypeOK, local, Stages
<1>5. ASSUME NEW p \in Proc, PushParse(p) PROVE TypeOK'
  <2> DEFINE m == Host[p]
             after == snap[p].lss
             new == NewSteps(m, after)
  <2>1. m \in Machine /\ transcript[m] \in Seq(Step) /\ after \in Int
    BY DEF TypeOK, Conv, NoConv
  <2>2. new \subseteq Step
    BY <2>1, NewStepsOf
  <2>3. LastIndex(transcript[m]) \in -1 .. MaxIndex
    BY <2>1, LastIndexBounds
  <2>4. new # {} => LastLine(m, after) \in -1 .. MaxIndex
    <3>1. new # {} => LastLine(m, after) \in Indices(new)
      BY <2>1, LastLineOfBatch
    <3> HIDE DEF new
    <3> QED BY <2>2, <3>1 DEF Indices, Step, Index
  <2> HIDE DEF new
  <2>5. /\ pc' \in [Proc -> Stages]
        /\ mark' \in [Proc -> -1 .. MaxIndex]
        /\ last' \in [Proc -> -1 .. MaxIndex]
        /\ todo' \in [Proc -> SUBSET Step]
    BY <1>5, <2>2, <2>3, <2>4, ZenonT(40) DEF PushParse, Goto, TypeOK, Stages, new
  <2> QED BY <1>5, <2>5 DEF PushParse, TypeOK, local, remote
<1>6. ASSUME NEW p \in Proc, AppendStep(p) PROVE TypeOK'
  <2>1. PICK s \in todo[p] : /\ stored' = PutStep(stored, s)
                             /\ todo' = [todo EXCEPT ![p] = @ \ {s}]
    BY <1>6 DEF AppendStep
  <2>2. stored' \subseteq Step
    BY <2>1 DEF PutStep, TypeOK
  <2> QED BY <1>6, <2>1, <2>2 DEF AppendStep, TypeOK, local
<1>7. ASSUME NEW p \in Proc, MergeWatermark(p) PROVE TypeOK'
  <2>1. Watermark(p) \in Conv
    BY DEF Watermark, TypeOK, Conv, NoConv
  <2> QED BY <1>7, <2>1 DEF MergeWatermark, Goto, TypeOK, Stages, local
<1>8. ASSUME NEW p \in Proc, PushMeta(p) PROVE TypeOK'
  BY <1>8 DEF PushMeta, Goto, TypeOK, Stages, local, Conv
<1>9. ASSUME NEW p \in Proc, PushFinal(p) PROVE TypeOK'
  <2>1. [snap[p] EXCEPT !.src = Host[p]] \in Conv
    BY <1>9 DEF PushFinal, Carries, PushStages, Conv, TypeOK
  <2> QED BY <1>9, <2>1, IdleType DEF PushFinal, TypeOK, local
<1>10. ASSUME NEW p \in Proc, SyncRemoteChanges(p) PROVE TypeOK'
  BY <1>10 DEF SyncRemoteChanges, Goto, TypeOK, Stages, local, remote
<1>11. ASSUME NEW p \in Proc, PullCommand(p) PROVE TypeOK'
  BY <1>11 DEF PullCommand, Goto, TypeOK, Stages, local, remote
<1>12. ASSUME NEW p \in Proc, PullParse(p) PROVE TypeOK'
  <2>1. LastIndex(transcript[Host[p]]) \in -1 .. MaxIndex
    BY LastIndexBounds DEF TypeOK
  <2>2. CASE conv = NoConv
    BY <1>12, <2>2, IdleType DEF PullParse, TypeOK, local, remote
  <2>3. CASE conv # NoConv
    BY <1>12, <2>1, <2>3, ZenonT(40) DEF PullParse, TypeOK, Stages, local, remote
  <2> QED BY <2>2, <2>3
<1>13. ASSUME NEW p \in Proc, PullFetch(p) PROVE TypeOK'
  <2>1. CASE StepsSince(last[p]) = {}
    BY <1>13, <2>1, IdleType DEF PullFetch, TypeOK, local, remote
  <2>2. CASE StepsSince(last[p]) # {}
    <3>1. StepsSince(last[p]) \subseteq Step
      BY DEF StepsSince, TypeOK
    <3> QED BY <1>13, <2>2, <3>1, ZenonT(40) DEF PullFetch, TypeOK, Stages, local, remote
  <2> QED BY <2>1, <2>2
<1>14. ASSUME NEW p \in Proc, PullWrite(p) PROVE TypeOK'
  <2>1. PICK s \in todo[p] :
          /\ transcript' = [transcript EXCEPT ![Host[p]] = Append(@, s)]
          /\ IF todo[p] = {s}
             THEN Idle(p)
             ELSE /\ todo' = [todo EXCEPT ![p] = @ \ {s}]
                  /\ UNCHANGED <<pc, snap, mark, last>>
    BY <1>14 DEF PullWrite
  <2>2. s \in Step /\ Host[p] \in Machine
    BY DEF TypeOK
  <2>3. transcript' \in [Machine -> Seq(Step)]
    BY <2>1, <2>2 DEF TypeOK
  <2>4. /\ pc' \in [Proc -> Stages]
        /\ snap' \in [Proc -> Conv \cup {NoConv}]
        /\ todo' \in [Proc -> SUBSET Step]
        /\ mark' \in [Proc -> -1 .. MaxIndex]
        /\ last' \in [Proc -> -1 .. MaxIndex]
    <3>1. CASE todo[p] = {s}
      BY <2>1, <3>1, IdleType
    <3>2. CASE todo[p] # {s}
      <4>1. todo' = [todo EXCEPT ![p] = @ \ {s}]
        BY <2>1, <3>2
      <4>2. pc' = pc /\ snap' = snap /\ mark' = mark /\ last' = last
        BY <2>1, <3>2
      <4> QED BY <4>1, <4>2 DEF TypeOK
    <3> QED BY <3>1, <3>2
  <2> QED BY <1>14, <2>3, <2>4 DEF PullWrite, TypeOK, remote
<1>15. ASSUME NEW p \in Proc, Fail(p) PROVE TypeOK'
  BY <1>15, IdleType DEF Fail, TypeOK, local, remote
<1>16. ASSUME NEW p \in Proc, Restart(p) PROVE TypeOK'
  BY <1>16, IdleType DEF Restart, Discovered, TypeOK, remote
<1>17. ASSUME NEW p \in Proc, DropStep(p) PROVE TypeOK'
  BY <1>17 DEF DropStep, TypeOK, local, remote
<1>18. CASE UNCHANGED vars
  BY <1>18 DEF vars, TypeOK
<1> QED
  BY <1>1, <1>2, <1>3, <1>4, <1>5, <1>6, <1>7, <1>8, <1>9, <1>10, <1>11,
     <1>12, <1>13, <1>14, <1>15, <1>16, <1>17, <1>18
  DEF NextLossy, Next, Work, Crash, Push, Pull, PullStage

LEMMA CarriesStep == Typed /\ [NextLossy]_vars => Carries'
<1> SUFFICES ASSUME TypeOK, Carries, [NextLossy]_vars,
                    NEW q \in Proc, pc'[q] \in PushStages
             PROVE  snap'[q] \in Conv
  BY DEF Typed, Carries
<1> USE ConstantsAssumption DEF PushStages
<1>1. ASSUME NEW p \in Proc, PushBegin(p) PROVE snap'[q] \in Conv
  BY <1>1 DEF PushBegin, Goto, TypeOK, Conv, Carries
<1>2. ASSUME NEW p \in Proc, PushMeta(p) PROVE snap'[q] \in Conv
  BY <1>2 DEF PushMeta, Goto, TypeOK, Conv, Carries
<1>3. ASSUME NEW p \in Proc, Idle(p) PROVE snap'[q] \in Conv
  BY <1>3 DEF Idle, TypeOK, Carries
<1>4. CASE UNCHANGED snap /\ pc'[q] \in {pc[q], "idle", "pull", "fetch", "write"}
  BY <1>4 DEF Carries
<1>5. ASSUME NEW p \in Proc,
             PushCreate(p) \/ PushParse(p) \/ MergeWatermark(p)
      PROVE  snap'[q] \in Conv
  BY <1>5 DEF PushCreate, PushParse, MergeWatermark, Goto, TypeOK, Carries
<1>6. ASSUME NEW p \in Proc,
             \/ SyncRemoteChanges(p) \/ PullCommand(p) \/ PullParse(p)
             \/ PullFetch(p) \/ PullWrite(p)
      PROVE  Idle(p) \/ (UNCHANGED snap /\ pc'[q] \in {pc[q], "pull", "fetch", "write"})
  BY <1>6 DEF SyncRemoteChanges, PullCommand, PullParse, PullFetch, PullWrite,
              Goto, TypeOK
<1>7. ASSUME NEW p \in Proc, PushFinal(p) \/ Fail(p) \/ Restart(p) PROVE Idle(p)
  BY <1>7 DEF PushFinal, Fail, Restart
<1>8. ASSUME \/ \E m \in Machine : AgentAppend(m) \/ Touch(m)
             \/ \E p \in Proc : AppendStep(p) \/ DropStep(p)
             \/ UNCHANGED vars
      PROVE  UNCHANGED snap /\ pc'[q] = pc[q]
  BY <1>8 DEF AgentAppend, Touch, AppendStep, DropStep, vars
<1> QED
  BY <1>1, <1>2, <1>3, <1>4, <1>5, <1>6, <1>7, <1>8
  DEF NextLossy, Next, Work, Crash, Push, Pull, PullStage

(* The variables keep their types, refused writes included: indices stay   *)
(* in range although they are taken from lines that other processes write. *)
THEOREM TypeCorrect == SpecLossy => []TypeOK
<1>1. Typed /\ [NextLossy]_vars => Typed'
  BY TypeStep, CarriesStep DEF Typed
<1>2. Typed => TypeOK
  BY DEF Typed
<1> QED BY <1>1, <1>2, TypeInit, PTL DEF SpecLossy

LEMMA TypedStep == Typed /\ [Next]_vars => Typed'
<1>1. [Next]_vars => [NextLossy]_vars
  BY DEF NextLossy
<1> QED BY <1>1, TypeStep, CarriesStep DEF Typed

LEMMA TypedInvariant == Spec => []Typed
BY TypeInit, TypedStep, PTL DEF Spec

-----------------------------------------------------------------------------
(* The watermark names a stored step.                                      *)

(* What makes it inductive: a push carries only watermarks of stored steps *)
(* and those of its own batch, which its writes turn into stored steps     *)
(* before the batch's watermark is written.                                *)
Promised(p) == Indices(stored) \cup Indices(todo[p])
SnapStored == \A p \in Proc : snap[p].lss >= 0 => snap[p].lss \in Indices(stored)
BatchPromised ==
  \A p \in Proc : pc[p] = "append" => mark[p] \in Promised(p) /\ last[p] \in Promised(p)
BatchStored == \A p \in Proc : pc[p] = "meta" => last[p] \in Indices(stored)
StoredInv == WatermarkStored /\ SnapStored /\ BatchPromised /\ BatchStored

(* The largest index of the transcript belongs to the batch.               *)
LEMMA LastIndexOfBatch ==
  ASSUME NEW m \in Machine, transcript[m] \in Seq(Step), NEW after \in Int,
         NewSteps(m, after) # {}
  PROVE  LastIndex(transcript[m]) \in Indices(NewSteps(m, after))
<1> DEFINE t == transcript[m]
<1>1. PICK j \in DOMAIN t : t[j].idx > after
  BY NewStepsOf
<1>2. t # <<>>
  BY <1>1
<1>3. PICK k \in DOMAIN t : t[k].idx = LastIndex(t)
  BY <1>2, LastIndexBounds
<1>4. t[j].idx <= t[k].idx
  BY <1>3, LastIndexBounds
<1>5. t[k].idx > after
  BY <1>1, <1>4, LineType
<1>6. \E s \in NewSteps(m, after) : s.idx = t[k].idx
  BY <1>5, NewStepsOf
<1> QED BY <1>3, <1>6 DEF Indices

(* No step of the specification takes an index out of the store.           *)
LEMMA IndicesGrow ==
  ASSUME [Next]_vars
  PROVE  Indices(stored) \subseteq Indices(stored')
<1>1. ASSUME NEW p \in Proc, AppendStep(p)
      PROVE  Indices(stored) \subseteq Indices(stored')
  BY <1>1, PutStepIndices DEF AppendStep
<1>2. CASE UNCHANGED stored
  BY <1>2
<1> QED
  BY <1>1, <1>2
  DEF Next, Work, Crash, Push, Pull, PullStage, AgentAppend, Touch, PushBegin,
      PushCreate, PushParse, MergeWatermark, PushMeta, PushFinal,
      SyncRemoteChanges, PullCommand, PullParse, PullFetch, PullWrite, Fail,
      Restart, vars, remote

LEMMA StoredInit == Init => StoredInv
BY DEF Init, StoredInv, WatermarkStored, SnapStored, BatchPromised,
       BatchStored, NoConv

LEMMA StoredStep == Typed /\ StoredInv /\ [Next]_vars => StoredInv'
<1> SUFFICES ASSUME TypeOK, StoredInv, [Next]_vars PROVE StoredInv'
  BY DEF Typed
<1> USE ConstantsAssumption
<1>g. Indices(stored) \subseteq Indices(stored')
  BY IndicesGrow
(* Steps that change neither the document, nor a carried copy, nor a batch.*)
<1>q. ASSUME NEW p \in Proc, conv' = conv,
             \/ Idle(p)
             \/ /\ UNCHANGED <<snap, mark, last>>
                /\ \A q \in Proc : \/ pc'[q] = pc[q] /\ todo'[q] = todo[q]
                                   \/ pc'[q] \notin {"append", "meta"}
      PROVE  StoredInv'
  <2>1. WatermarkStored'
    BY <1>g, <1>q DEF StoredInv, WatermarkStored
  <2>2. ASSUME NEW q \in Proc
        PROVE  /\ snap'[q] \in {snap[q], NoConv}
               /\ \/ /\ pc'[q] = pc[q] /\ todo'[q] = todo[q]
                     /\ mark'[q] = mark[q] /\ last'[q] = last[q]
                  \/ pc'[q] \notin {"append", "meta"}
    BY <1>q DEF Idle, TypeOK
  <2>3. SnapStored'
    BY <2>2, <1>g DEF StoredInv, SnapStored, NoConv
  <2>4. BatchPromised'
    <3>1. \A q \in Proc : todo'[q] = todo[q] => Promised(q) \subseteq Promised(q)'
      BY <1>g DEF Promised
    <3> QED BY <2>2, <3>1 DEF StoredInv, BatchPromised
  <2>5. BatchStored'
    BY <2>2, <1>g DEF StoredInv, BatchStored
  <2> QED BY <2>1, <2>3, <2>4, <2>5 DEF StoredInv
<1>1. ASSUME NEW m \in Machine, AgentAppend(m) \/ Touch(m) PROVE StoredInv'
  <2>1. UNCHANGED <<remote, pc, snap, todo, mark, last>>
    BY <1>1 DEF AgentAppend, Touch
  <2> QED BY <2>1 DEF remote, StoredInv, WatermarkStored, SnapStored,
                      BatchPromised, BatchStored, Promised
<1>2. ASSUME NEW p \in Proc, PushBegin(p) PROVE StoredInv'
  <2>1. /\ UNCHANGED <<conv, stored, todo, mark, last>>
        /\ snap'[p].lss \in {-1, conv.lss}
        /\ \A q \in Proc \ {p} : snap'[q] = snap[q]
        /\ \A q \in Proc : pc'[q] = pc[q] \/ pc'[q] \in {"create", "parse"}
    BY <1>2 DEF PushBegin, Goto, TypeOK, remote
  <2>2. SnapStored'
    BY <2>1 DEF StoredInv, SnapStored, WatermarkStored
  <2> QED BY <2>1, <2>2 DEF StoredInv, WatermarkStored, BatchPromised,
                            BatchStored, Promised
<1>3. ASSUME NEW p \in Proc, PushCreate(p) PROVE StoredInv'
  <2>1. /\ conv' = snap[p] /\ UNCHANGED <<stored, snap, todo, mark, last>>
        /\ \A q \in Proc : pc'[q] = pc[q] \/ pc'[q] = "parse"
    BY <1>3 DEF PushCreate, Goto, TypeOK
  <2> QED BY <2>1 DEF StoredInv, SnapStored, WatermarkStored, BatchPromised,
                      BatchStored, Promised
<1>4. ASSUME NEW p \in Proc, PushParse(p) PROVE StoredInv'
  <2> DEFINE m == Host[p]
             after == snap[p].lss
             new == NewSteps(m, after)
  <2>1. UNCHANGED <<conv, stored, snap>> /\ todo' = [todo EXCEPT ![p] = new]
    BY <1>4 DEF PushParse, remote
  <2>2. \A q \in Proc \ {p} : /\ pc'[q] = pc[q] /\ todo'[q] = todo[q]
                              /\ mark'[q] = mark[q] /\ last'[q] = last[q]
    BY <1>4 DEF PushParse, Goto, TypeOK
  <2>3. \/ pc'[p] = "final"
        \/ /\ pc'[p] = "append" /\ new # {}
           /\ mark'[p] = LastIndex(transcript[m]) /\ last'[p] = LastLine(m, after)
    BY <1>4 DEF PushParse, Goto, TypeOK
  <2>4. m \in Machine /\ transcript[m] \in Seq(Step) /\ after \in Int
    BY DEF TypeOK, Conv, NoConv
  <2>5. new # {} => /\ LastIndex(transcript[m]) \in Indices(new)
                    /\ LastLine(m, after) \in Indices(new)
    BY <2>4, LastLineOfBatch, LastIndexOfBatch
  <2>6. todo'[p] = new
    BY <2>1 DEF TypeOK
  <2> HIDE DEF new, after, m
  <2>7. BatchPromised'
    BY <2>1, <2>2, <2>3, <2>5, <2>6 DEF StoredInv, BatchPromised, Promised
  <2>8. BatchStored'
    BY <2>1, <2>2, <2>3 DEF StoredInv, BatchStored
  <2> QED BY <2>1, <2>7, <2>8 DEF StoredInv, WatermarkStored, SnapStored
<1>5. ASSUME NEW p \in Proc, AppendStep(p) PROVE StoredInv'
  <2>1. PICK s \in todo[p] : /\ stored' = PutStep(stored, s)
                             /\ todo' = [todo EXCEPT ![p] = @ \ {s}]
    BY <1>5 DEF AppendStep
  <2>2. Indices(stored') = Indices(stored) \cup {s.idx}
    BY <2>1, PutStepIndices
  <2>3. \A q \in Proc : Promised(q) \subseteq Promised(q)'
    BY <2>1, <2>2 DEF Promised, Indices, TypeOK
  <2>4. UNCHANGED <<conv, pc, snap, mark, last>>
    BY <1>5 DEF AppendStep
  <2> QED BY <2>3, <2>4, <1>g DEF StoredInv, WatermarkStored, SnapStored,
                                  BatchPromised, BatchStored
<1>6. ASSUME NEW p \in Proc, MergeWatermark(p) PROVE StoredInv'
  <2>1. /\ pc[p] = "append" /\ todo[p] = {}
        /\ conv' \in {Watermark(p), conv}
        /\ UNCHANGED <<stored, snap, todo, mark, last>>
        /\ \A q \in Proc : pc'[q] = IF q = p THEN "meta" ELSE pc[q]
    BY <1>6 DEF MergeWatermark, Flushed, Goto, TypeOK
  <2>2. mark[p] \in Indices(stored) /\ last[p] \in Indices(stored)
    BY <2>1 DEF StoredInv, BatchPromised, Promised, Indices
  <2>3. Watermark(p).lss = mark[p]
    BY DEF Watermark, TypeOK, Conv, NoConv
  <2>4. WatermarkStored'
    BY <2>1, <2>2, <2>3 DEF StoredInv, WatermarkStored
  <2> QED BY <2>1, <2>2, <2>4 DEF StoredInv, SnapStored, BatchPromised,
                                  BatchStored, Promised
<1>7. ASSUME NEW p \in Proc, PushMeta(p) PROVE StoredInv'
  <2>1. /\ pc[p] = "meta"
        /\ snap'[p].lss = last[p] /\ conv' = snap'[p]
        /\ \A q \in Proc \ {p} : snap'[q] = snap[q]
        /\ UNCHANGED <<stored, todo, mark, last>>
        /\ \A q \in Proc : pc'[q] = IF q = p THEN "final" ELSE pc[q]
    BY <1>7 DEF PushMeta, Goto, TypeOK
  <2> QED BY <2>1 DEF StoredInv, WatermarkStored, SnapStored, BatchPromised,
                      BatchStored, Promised
<1>8. ASSUME NEW p \in Proc, PushFinal(p) PROVE StoredInv'
  <2>1. conv'.lss = snap[p].lss /\ UNCHANGED stored
    BY <1>8 DEF PushFinal, TypeOK, Conv, NoConv
  <2>2. WatermarkStored'
    BY <2>1 DEF StoredInv, SnapStored, WatermarkStored
  <2>3. ASSUME NEW q \in Proc
        PROVE  /\ snap'[q] \in {snap[q], NoConv}
               /\ \/ /\ pc'[q] = pc[q] /\ todo'[q] = todo[q]
                     /\ mark'[q] = mark[q] /\ last'[q] = last[q]
                  \/ pc'[q] = "idle"
    BY <1>8 DEF PushFinal, Idle, TypeOK
  <2> QED BY <2>1, <2>2, <2>3 DEF StoredInv, SnapStored, BatchPromised,
                                  BatchStored, Promised, NoConv
<1>9. ASSUME NEW p \in Proc,
             SyncRemoteChanges(p) \/ PullCommand(p) \/ PullParse(p) \/ PullFetch(p)
      PROVE  StoredInv'
  <2>1. conv' = conv
    BY <1>9 DEF SyncRemoteChanges, PullCommand, PullParse, PullFetch, remote
  <2>2. \/ Idle(p)
        \/ /\ UNCHANGED snap /\ UNCHANGED mark
           /\ \A q \in Proc \ {p} : /\ pc'[q] = pc[q] /\ todo'[q] = todo[q]
                                     /\ last'[q] = last[q]
           /\ pc'[p] \notin {"append", "meta"}
    BY <1>9 DEF SyncRemoteChanges, PullCommand, PullParse, PullFetch, Goto, TypeOK
  <2>3. CASE Idle(p)
    BY <1>q, <2>1, <2>3
  <2>4. CASE ~ Idle(p)
    BY <2>1, <2>2, <2>4, <1>g DEF StoredInv, WatermarkStored, SnapStored,
                                  BatchPromised, BatchStored, Promised
  <2> QED BY <2>3, <2>4
<1>10. ASSUME NEW p \in Proc, PullWrite(p) PROVE StoredInv'
  <2>1. /\ conv' = conv /\ pc[p] = "write"
        /\ \/ Idle(p)
           \/ /\ UNCHANGED <<pc, snap, mark, last>>
              /\ \E s \in todo[p] : todo' = [todo EXCEPT ![p] = @ \ {s}]
    BY <1>10 DEF PullWrite, remote
  <2>2. CASE Idle(p)
    BY <1>q, <2>1, <2>2
  <2>3. CASE ~ Idle(p)
    <3>1. /\ UNCHANGED <<snap, mark, last>>
          /\ \A q \in Proc : \/ pc'[q] = pc[q] /\ todo'[q] = todo[q]
                             \/ pc'[q] \notin {"append", "meta"}
      BY <2>1, <2>3 DEF TypeOK
    <3> QED BY <1>q, <2>1, <3>1
  <2> QED BY <2>2, <2>3
<1>11. ASSUME NEW p \in Proc, Fail(p) \/ Restart(p) PROVE StoredInv'
  <2>1. Idle(p) /\ conv' = conv
    BY <1>11 DEF Fail, Restart, remote
  <2> QED BY <1>q, <2>1
<1>12. CASE UNCHANGED vars
  BY <1>12 DEF vars, StoredInv, WatermarkStored, SnapStored, BatchPromised,
               BatchStored, Promised
<1> QED
  BY <1>1, <1>2, <1>3, <1>4, <1>5, <1>6, <1>7, <1>8, <1>9, <1>10, <1>11, <1>12
  DEF Next, Work, Crash, Push, Pull, PullStage

(* The watermark of the document names a stored step, for any number of    *)
(* machines, agents and concurrent processes, and wherever calls fail.     *)
THEOREM WatermarkIsStored == Spec => []WatermarkStored
<1>1. StoredInv => WatermarkStored
  BY DEF StoredInv
<1> QED BY <1>1, StoredInit, StoredStep, TypedInvariant, PTL DEF Spec

-----------------------------------------------------------------------------
(* The refinement of SharedLog.  TranscriptSync implements it when one     *)
(* machine's agent writes the conversation and each machine runs one       *)
(* agy-sync: for any machines, any number of steps, with all of them       *)
(* pushing, with failed calls, restarts and refused writes.                *)

(* The hypothesis and the invariant.                                       *)

(* Two agents may give one index to two steps, and two pulls of one host   *)
(* may both append what they fetched: neither is claimed.                  *)
Alone ==
  /\ Author = {Origin}
  /\ \A p, q \in Proc : Host[p] = Host[q] => p = q

Entry(i) == [idx |-> i, by |-> Origin]

(* What the lines of a machine say, and what the step documents say.       *)
Known(m) == Contents(Lines(m))
Public == Contents(stored)

(* The origin's transcript is the log; what is stored is in it; what       *)
(* another machine holds is stored; an index names one document.           *)
Numbered ==
  \A k \in DOMAIN transcript[Origin] :
    Content(transcript[Origin][k]) = Entry(k - 1)
Published == Public \subseteq Known(Origin)
Copied == \A m \in Machine \ {Origin} : Known(m) \subseteq Public
Keyed(docs) == \A s, t \in docs : s.idx = t.idx => s = t

(* What a call has in hand.  A push sends lines of its machine: new ones   *)
(* from the origin, known ones from elsewhere.  A pull knows where its     *)
(* transcript ends, up to the moment it appends; the origin's finds        *)
(* nothing to append, since nobody else can publish while it reads.        *)
Sends(p) ==
  pc[p] = "append" =>
    Contents(todo[p]) \subseteq IF Host[p] = Origin THEN Known(Origin) ELSE Public
Asks(p) ==
  pc[p] = "fetch" =>
    IF Host[p] = Origin THEN \A s \in stored : s.idx <= last[p]
                        ELSE last[p] = LastIndex(transcript[Host[p]])
Appends(p) ==
  pc[p] = "write" =>
    /\ Host[p] # Origin
    /\ Contents(todo[p]) \subseteq Public
    /\ Keyed(todo[p])
    /\ \A s \in todo[p] : LastIndex(transcript[Host[p]]) < s.idx
InHand(p) == Sends(p) /\ Asks(p) /\ Appends(p)

LogInv ==
  /\ Numbered /\ Published /\ Copied /\ Keyed(stored) /\ NoDuplicateSteps
  /\ \A p \in Proc : InHand(p)

(* A step of the specification, as the log sees it.                        *)
LogCopy == [m \in Machine |-> ContentsOf(transcript[m])]
LogStep == [Log!Next]_<<LogCopy, Public>>

-----------------------------------------------------------------------------
(* Lemmas.                                                                 *)

(* Sequences: appending a step that lies beyond the last line.             *)
LEMMA AppendBeyond ==
  ASSUME NEW t \in Seq(Step), NEW s \in Step, LastIndex(t) < s.idx, Increasing(t)
  PROVE  /\ Append(t, s) \in Seq(Step)
         /\ Increasing(Append(t, s))
         /\ LastIndex(Append(t, s)) = s.idx
         /\ \A k \in DOMAIN t : t[k].idx < s.idx
<1> DEFINE u == Append(t, s)
<1>1. /\ u \in Seq(Step)
      /\ \A k \in DOMAIN u : \/ k = Len(t) + 1 /\ u[k] = s
                             \/ k \in DOMAIN t /\ u[k] = t[k] /\ k < Len(t) + 1
      /\ DOMAIN u \subseteq Int /\ Len(t) \in Int
  OBVIOUS
<1>2. LastIndex(u) = s.idx
  BY LastIndexAppend
<1>3. s.idx \in Int /\ LastIndex(t) \in Int
  <2>1. LastIndex(t) \in -1 .. MaxIndex
    BY LastIndexBounds
  <2> QED BY <2>1, ConstantsAssumption DEF Step, Index
<1>4. \A k \in DOMAIN t : t[k].idx \in Int /\ t[k].idx < s.idx
  BY <1>3, LastIndexBounds, LineType
<1> HIDE DEF u
<1>5. Increasing(u)
  BY <1>1, <1>3, <1>4 DEF Increasing
<1> QED BY <1>1, <1>2, <1>4, <1>5 DEF u

LEMMA LinesOfAppend ==
  ASSUME NEW m \in Machine, transcript[m] \in Seq(Step), NEW s \in Step,
         transcript'[m] = Append(transcript[m], s)
  PROVE  /\ Lines(m)' = Lines(m) \cup {s}
         /\ Known(m)' = Known(m) \cup {Content(s)}
<1> DEFINE t == transcript[m]
           u == Append(t, s)
<1>1. /\ DOMAIN u = DOMAIN t \cup {Len(t) + 1}
      /\ u[Len(t) + 1] = s /\ \A k \in DOMAIN t : u[k] = t[k]
  OBVIOUS
<1>2. Lines(m)' = Lines(m) \cup {s}
  BY <1>1 DEF Lines
<1> QED BY <1>2 DEF Known, Contents

(* What the log sees of a transcript: its contents, one after another.     *)
LEMMA LogOfAppend ==
  ASSUME NEW t \in Seq(Step), NEW s \in Step
  PROVE  ContentsOf(Append(t, s)) = Append(ContentsOf(t), Content(s))
<1> DEFINE u == Append(t, s)
           c == ContentsOf(t)
<1>1. /\ Len(t) \in Nat /\ DOMAIN t = 1 .. Len(t)
      /\ DOMAIN u = 1 .. (Len(t) + 1) /\ u[Len(t) + 1] = s
      /\ \A k \in 1 .. Len(t) : u[k] = t[k]
  OBVIOUS
<1>2. c = [k \in 1 .. Len(t) |-> Content(t[k])]
  BY <1>1 DEF ContentsOf
<1>3. Len(c) = Len(t)
  BY <1>1, <1>2
<1>4. ContentsOf(u) = [k \in 1 .. (Len(t) + 1) |-> Content(u[k])]
  BY <1>1 DEF ContentsOf
<1>5. Append(c, Content(s)) = [k \in 1 .. (Len(t) + 1) |->
                                 IF k = Len(t) + 1 THEN Content(s) ELSE c[k]]
  BY <1>1, <1>2, <1>3
<1>6. ASSUME NEW k \in 1 .. (Len(t) + 1)
      PROVE  Content(u[k]) = IF k = Len(t) + 1 THEN Content(s) ELSE c[k]
  <2>1. CASE k = Len(t) + 1
    BY <1>1, <2>1
  <2>2. CASE k # Len(t) + 1
    <3>1. k \in 1 .. Len(t)
      BY <1>1, <2>2
    <3> QED BY <1>1, <1>2, <2>2, <3>1
  <2> QED BY <2>1, <2>2
<1> HIDE DEF u, c
<1>7. ContentsOf(u) = Append(c, Content(s))
  BY <1>4, <1>5, <1>6
<1> QED BY <1>7 DEF u, c

LEMMA LogSees ==
  ASSUME TypeOK, NEW m \in Machine
  PROVE  /\ LogCopy[m] = ContentsOf(transcript[m])
         /\ Log!Steps(m) = Known(m)
         /\ Len(LogCopy[m]) = Len(transcript[m])
<1> DEFINE t == transcript[m]
<1>1. LogCopy[m] = ContentsOf(t)
  BY DEF LogCopy
<1>2. ContentsOf(t) = [k \in 1 .. Len(t) |-> Content(t[k])] /\ Len(t) \in Nat
  BY DEF ContentsOf, TypeOK
<1>3. Len(ContentsOf(t)) = Len(t)
  BY <1>2
<1>4. Log!Steps(m) = {ContentsOf(t)[k] : k \in DOMAIN ContentsOf(t)}
  BY <1>1 DEF Log!Steps, LogCopy
<1>5. Known(m) = {Content(t[k]) : k \in DOMAIN t}
  BY DEF Known, Contents, Lines
<1>6. /\ DOMAIN ContentsOf(t) = DOMAIN t
      /\ \A k \in DOMAIN t : ContentsOf(t)[k] = Content(t[k])
  BY DEF ContentsOf
<1>7. Log!Steps(m) = Known(m)
  BY <1>4, <1>5, <1>6
<1> QED BY <1>1, <1>3, <1>7

(* One line more on one machine is one entry more in the log's copy.       *)
LEMMA LogGrows ==
  ASSUME TypeOK, NEW m \in Machine, NEW s \in Step,
         transcript' = [transcript EXCEPT ![m] = Append(@, s)]
  PROVE  LogCopy' = [LogCopy EXCEPT ![m] = Append(@, Content(s))]
<1>1. transcript[m] \in Seq(Step)
  BY DEF TypeOK
<1>2. \A n \in Machine : transcript'[n] = IF n = m THEN Append(transcript[m], s)
                                                  ELSE transcript[n]
  BY DEF TypeOK
<1>3. LogCopy' = [n \in Machine |-> ContentsOf(transcript'[n])]
  BY DEF LogCopy, ContentsOf
<1>4. ASSUME NEW n \in Machine
      PROVE  ContentsOf(transcript'[n]) =
               IF n = m THEN Append(LogCopy[m], Content(s)) ELSE LogCopy[n]
  <2>1. CASE n = m
    BY <1>1, <1>2, <2>1, LogOfAppend DEF LogCopy
  <2>2. CASE n # m
    BY <1>2, <2>2 DEF LogCopy
  <2> QED BY <2>1, <2>2
<1>5. LogCopy = [n \in Machine |-> LogCopy[n]]
  BY DEF LogCopy
<1> HIDE DEF LogCopy
<1> QED BY <1>3, <1>4, <1>5

(* A log numbered from zero ends at its length less one.                   *)
LEMMA NumberedEnd ==
  ASSUME NEW t \in Seq(Step), \A k \in DOMAIN t : t[k].idx = k - 1
  PROVE  LastIndex(t) = Len(t) - 1
<1>1. CASE t = <<>>
  <2>1. LastIndex(t) = -1
    BY <1>1, LastIndexBounds
  <2>2. Len(t) = 0
    BY <1>1
  <2> QED BY <2>1, <2>2
<1>2. CASE t # <<>>
  <2>1. PICK k \in DOMAIN t : t[k].idx = LastIndex(t)
    BY <1>2, LastIndexBounds
  <2>2. t[Len(t)].idx <= LastIndex(t) /\ Len(t) \in DOMAIN t
    BY <1>2, LastIndexBounds
  <2>3. t[k].idx = k - 1 /\ t[Len(t)].idx = Len(t) - 1
    BY <2>1, <2>2
  <2>4. k \in 1 .. Len(t) /\ Len(t) \in Nat
    OBVIOUS
  <2> QED BY <2>1, <2>2, <2>3, <2>4
<1> QED BY <1>1, <1>2

LEMMA OriginEnds ==
  ASSUME TypeOK, Numbered, ConstantsAssumption
  PROVE  LastIndex(transcript[Origin]) = Len(transcript[Origin]) - 1
<1>1. transcript[Origin] \in Seq(Step)
  BY ConstantsAssumption DEF TypeOK
<1>2. ASSUME NEW k \in DOMAIN transcript[Origin]
      PROVE  transcript[Origin][k].idx = k - 1
  <2>1. Content(transcript[Origin][k]) = Entry(k - 1)
    BY DEF Numbered
  <2> QED BY <2>1 DEF Entry, Content
<1> QED BY <1>1, <1>2, NumberedEnd

(* In the log an index names one step.                                     *)
LEMMA OneStepPerIndex ==
  ASSUME Numbered, NEW s \in Known(Origin), NEW t \in Known(Origin),
         s.idx = t.idx
  PROVE  s = t
<1>1. PICK j, k \in DOMAIN transcript[Origin] :
        /\ s = Content(transcript[Origin][j])
        /\ t = Content(transcript[Origin][k])
  BY DEF Known, Contents, Lines
<1>2. s = Entry(j - 1) /\ t = Entry(k - 1)
  BY <1>1 DEF Numbered
<1> QED BY <1>2 DEF Entry

(* Storing a step of the log again changes nothing of what is public,      *)
(* although the document gets the pusher's machine_id; a new one adds it.  *)
LEMMA PutOfLog ==
  ASSUME Numbered, Published, Keyed(stored),
         NEW s, Content(s) \in Known(Origin)
  PROVE  /\ Contents(PutStep(stored, s)) = Public \cup {Content(s)}
         /\ Keyed(PutStep(stored, s))
         /\ \A d \in PutStep(stored, s) : d \in stored \/ d.idx = s.idx
<1>1. ASSUME NEW d \in stored, d.idx = s.idx PROVE Content(d) = Content(s)
  <2>1. Content(d) \in Known(Origin)
    BY DEF Published, Public, Contents
  <2>2. Content(d).idx = Content(s).idx
    BY <1>1 DEF Content
  <2> QED BY <2>1, <2>2, OneStepPerIndex
<1>2. Contents(PutStep(stored, s)) = Public \cup {Content(s)}
  BY <1>1 DEF Contents, Public, PutStep
<1>3. Keyed(PutStep(stored, s))
  BY DEF Keyed, PutStep
<1> QED BY <1>2, <1>3 DEF PutStep

(* What does not change with the transcripts and the documents.            *)
LEMMA SameLog ==
  ASSUME UNCHANGED <<transcript, stored>>
  PROVE  /\ UNCHANGED <<LogCopy, Public>>
         /\ \A m : Lines(m)' = Lines(m) /\ Known(m)' = Known(m)
BY DEF LogCopy, Public, Lines, Known

(* A call that neither begins a batch, nor reads where its transcript      *)
(* ends, nor fetches, keeps what it has in hand.                           *)
LEMMA Harmless ==
  ASSUME UNCHANGED <<transcript, stored>>, NEW q \in Proc, InHand(q),
         \/ pc'[q] = pc[q] /\ todo'[q] \subseteq todo[q] /\ last'[q] = last[q]
         \/ pc'[q] \notin {"append", "fetch", "write"}
  PROVE  InHand(q)'
BY SameLog DEF InHand, Sends, Asks, Appends, Contents, Keyed

-----------------------------------------------------------------------------
(* Every step of the code is a step of the log, or none.                   *)

LEMMA InitLogInv == Init => LogInv /\ Log!Init
<1> SUFFICES ASSUME Init PROVE LogInv /\ Log!Init
  OBVIOUS
<1>1. \A m \in Machine : transcript[m] = <<>> /\ DOMAIN transcript[m] = {}
  <2>1. DOMAIN <<>> = {}
    OBVIOUS
  <2> QED BY <2>1 DEF Init
<1>2. \A p \in Proc : InHand(p)
  BY DEF Init, InHand, Sends, Asks, Appends
<1>3. Numbered /\ Published /\ Copied /\ Keyed(stored) /\ NoDuplicateSteps
  BY <1>1, ConstantsAssumption
  DEF Init, Numbered, Published, Copied, NoDuplicateSteps, Known, Public,
      Contents, Keyed, Lines, Increasing
<1>4. Log!Init
  <2>1. ContentsOf(<<>>) = <<>>
    BY DEF ContentsOf
  <2> QED BY <2>1 DEF Init, Log!Init, Contents
<1> QED BY <1>2, <1>3, <1>4 DEF LogInv

(* The agent's step is the log's Write.                                    *)
LEMMA AgentWrites ==
  ASSUME Alone, TypeOK, LogInv, NEW m \in Machine, AgentAppend(m)
  PROVE  LogInv' /\ Log!Write
<1> DEFINE t == transcript[Origin]
           s == [idx |-> LastIndex(t) + 1, by |-> Origin, tag |-> NoMachine]
<1> USE ConstantsAssumption
<1>1. /\ m = Origin /\ Origin \in Machine /\ t \in Seq(Step)
      /\ LastIndex(t) < MaxIndex
      /\ transcript' = [transcript EXCEPT ![Origin] = Append(@, s)]
      /\ UNCHANGED <<stored, pc, snap, todo, mark, last>>
  BY DEF Alone, AgentAppend, TypeOK, remote
<1>2. LastIndex(t) \in -1 .. MaxIndex /\ LastIndex(t) = Len(t) - 1
  BY <1>1, LastIndexBounds, OriginEnds DEF LogInv
<1>3. s \in Step /\ s.idx = LastIndex(t) + 1 /\ Content(s) = Entry(Len(t))
  BY <1>1, <1>2 DEF Entry, Content, Step, Index
<1>4. transcript'[Origin] = Append(t, s)
  BY <1>1 DEF TypeOK
<1> HIDE DEF s
<1>5. /\ Increasing(Append(t, s)) /\ Append(t, s) \in Seq(Step)
      /\ Known(Origin)' = Known(Origin) \cup {Content(s)}
  <2>1. LastIndex(t) < s.idx
    BY <1>2, <1>3
  <2>2. Increasing(t)
    BY <1>1 DEF LogInv, NoDuplicateSteps
  <2>3. Increasing(Append(t, s)) /\ Append(t, s) \in Seq(Step)
    BY <1>1, <1>3, <2>1, <2>2, AppendBeyond
  <2>4. Known(Origin)' = Known(Origin) \cup {Content(s)}
    BY <1>1, <1>3, <1>4, LinesOfAppend
  <2> QED BY <2>3, <2>4
<1>6. Log!Write
  <2>1. Len(t) \in 0 .. MaxIndex
    BY <1>1, <1>2
  <2>2. LogCopy' = [LogCopy EXCEPT ![Origin] = Append(@, Content(s))]
    BY <1>1, <1>3, LogGrows
  <2>3. Len(LogCopy[Origin]) = Len(t)
    BY <1>1, LogSees
  <2>4. UNCHANGED Public
    BY <1>1 DEF Public
  <2>5. Content(s) = [idx |-> Len(t), by |-> Origin]
    BY <1>3 DEF Entry
  <2> QED BY <2>1, <2>2, <2>3, <2>4, <2>5 DEF Log!Write, LogCopy, Public
<1>7. Numbered'
  <2>1. ASSUME NEW k \in DOMAIN Append(t, s)
        PROVE  Content(Append(t, s)[k]) = Entry(k - 1)
    <3>1. \/ k = Len(t) + 1 /\ Append(t, s)[k] = s
          \/ k \in DOMAIN t /\ Append(t, s)[k] = t[k]
      BY <1>1, <1>3
    <3>2. k = Len(t) + 1 => k - 1 = Len(t)
      BY <1>1
    <3> QED BY <1>3, <3>1, <3>2 DEF LogInv, Numbered
  <2> QED BY <1>4, <2>1 DEF Numbered
<1>8. \A n \in Machine \ {Origin} :
        transcript'[n] = transcript[n] /\ Known(n)' = Known(n)
  BY <1>1 DEF Lines, Known, TypeOK
<1>9. Published' /\ Copied' /\ Keyed(stored)' /\ NoDuplicateSteps'
  BY <1>1, <1>4, <1>5, <1>8
  DEF LogInv, Published, Copied, Public, Keyed, NoDuplicateSteps
<1>10. ASSUME NEW p \in Proc PROVE InHand(p)'
  BY <1>1, <1>5, <1>8
  DEF LogInv, InHand, Sends, Asks, Appends, Public, Contents, Keyed
<1> QED BY <1>6, <1>7, <1>9, <1>10 DEF LogInv

(* The write of a step document is the log's Publish.                      *)
LEMMA PushPublishes ==
  ASSUME Alone, TypeOK, LogInv, NEW p \in Proc, AppendStep(p)
  PROVE  LogInv' /\ Log!Publish
<1> USE ConstantsAssumption
<1>1. PICK s \in todo[p] : /\ stored' = PutStep(stored, s)
                           /\ todo' = [todo EXCEPT ![p] = @ \ {s}]
  BY DEF AppendStep
<1>2. /\ pc[p] = "append"
      /\ UNCHANGED <<transcript, pc, snap, mark, last>>
  BY DEF AppendStep, local
<1>3. /\ Content(s) \in Known(Origin)
      /\ Host[p] # Origin => Content(s) \in Public
  <2>1. Content(s) \in Contents(todo[p])
    BY DEF Contents
  <2> QED BY <1>2, <2>1 DEF LogInv, InHand, Sends, Published
<1>4. /\ Public' = Public \cup {Content(s)} /\ Keyed(stored')
      /\ \A d \in stored' : d \in stored \/ d.idx = s.idx
  BY <1>1, <1>3, PutOfLog DEF LogInv, Public
<1>t. \A m : Lines(m)' = Lines(m) /\ Known(m)' = Known(m)
  BY <1>2 DEF Lines, Known
<1>5. Log!Publish
  <2>1. LogCopy' = LogCopy
    BY <1>2 DEF LogCopy
  <2>2. Content(s) \in Log!Steps(Origin)
    BY <1>3, LogSees
  <2> QED BY <1>4, <2>1, <2>2 DEF Log!Publish, LogCopy, Public
<1>6. Numbered' /\ Published' /\ Copied' /\ Keyed(stored)' /\ NoDuplicateSteps'
  BY <1>2, <1>3, <1>4, <1>t
  DEF LogInv, Numbered, Published, Copied, NoDuplicateSteps
<1>7. ASSUME NEW q \in Proc PROVE InHand(q)'
  <2>1. pc'[q] = pc[q] /\ last'[q] = last[q] /\ todo'[q] \subseteq todo[q]
    BY <1>1, <1>2 DEF TypeOK
  <2>2. Sends(q)' /\ Appends(q)'
    <3>1. Contents(todo'[q]) \subseteq Contents(todo[q])
      BY <2>1 DEF Contents
    <3>2. Sends(q)'
      BY <1>4, <1>t, <2>1, <3>1 DEF LogInv, InHand, Sends, Contents
    <3>3. Appends(q)'
      BY <1>2, <1>4, <2>1, <3>1 DEF LogInv, InHand, Appends, Contents, Keyed
    <3> QED BY <3>2, <3>3
  <2>3. Asks(q)'
    <3>1. CASE Host[q] = Origin /\ pc[q] = "fetch"
      <4>1. Host[p] # Origin
        BY <1>2, <3>1 DEF Alone
      <4>2. PICK d \in stored : Content(d) = Content(s)
        BY <1>3, <4>1 DEF Public, Contents
      <4>3. d.idx = s.idx
        BY <4>2 DEF Content
      <4>4. ASSUME NEW x \in stored' PROVE x.idx <= last[q]
        BY <1>4, <3>1, <4>3, <4>4 DEF LogInv, InHand, Asks
      <4> QED BY <2>1, <3>1, <4>4 DEF Asks
    <3>2. CASE ~ (Host[q] = Origin /\ pc[q] = "fetch")
      BY <1>2, <2>1, <3>2 DEF LogInv, InHand, Asks
    <3> QED BY <3>1, <3>2
  <2> QED BY <2>2, <2>3 DEF InHand
<1> QED BY <1>5, <1>6, <1>7 DEF LogInv

(* A line appended by a pull is the log's Learn.                           *)
LEMMA PullLearns ==
  ASSUME Alone, TypeOK, LogInv, NEW p \in Proc, PullWrite(p)
  PROVE  LogInv' /\ Log!Learn(Host[p])
<1> DEFINE m == Host[p]
           t == transcript[m]
<1> USE ConstantsAssumption
<1>1. PICK s \in todo[p] :
        /\ NextLine(p, s)
        /\ transcript' = [transcript EXCEPT ![m] = Append(@, s)]
        /\ IF todo[p] = {s}
           THEN Idle(p)
           ELSE /\ todo' = [todo EXCEPT ![p] = @ \ {s}]
                /\ UNCHANGED <<pc, snap, mark, last>>
  BY DEF PullWrite
<1>2. /\ pc[p] = "write" /\ m \in Machine /\ m # Origin
      /\ Contents(todo[p]) \subseteq Public /\ UNCHANGED <<conv, stored>>
      /\ Keyed(todo[p])
      /\ \A r \in todo[p] : LastIndex(t) < r.idx
  BY DEF PullWrite, LogInv, InHand, Appends, remote
<1>3. t \in Seq(Step) /\ s \in Step /\ transcript'[m] = Append(t, s)
  BY <1>1, <1>2 DEF TypeOK
<1>4. /\ Increasing(Append(t, s)) /\ LastIndex(Append(t, s)) = s.idx
      /\ \A k \in DOMAIN t : t[k].idx < s.idx
      /\ Known(m)' = Known(m) \cup {Content(s)}
  <2>1. Increasing(t) /\ LastIndex(t) < s.idx
    BY <1>1, <1>2 DEF LogInv, NoDuplicateSteps
  <2>2. Known(m)' = Known(m) \cup {Content(s)}
    BY <1>2, <1>3, LinesOfAppend
  <2> QED BY <1>3, <2>1, <2>2, AppendBeyond
<1> HIDE DEF t
<1>5. Log!Learn(m)
  <2>1. Content(s) \in Public
    BY <1>2 DEF Contents
  <2>2. ASSUME NEW c \in Known(m) PROVE c.idx < s.idx
    <3>1. PICK k \in DOMAIN t : c = Content(t[k])
      BY DEF Known, Contents, Lines, t
    <3> QED BY <1>4, <3>1 DEF Content
  <2>3. Log!Beyond(m, Content(s))
    BY <1>2, <2>2, LogSees DEF Log!Beyond, Content
  <2>4. LogCopy' = [LogCopy EXCEPT ![m] = Append(@, Content(s))]
    BY <1>1, <1>2, <1>3, LogGrows
  <2>5. UNCHANGED Public
    BY <1>2 DEF Public
  <2> QED BY <1>2, <2>1, <2>3, <2>4, <2>5 DEF Log!Learn, LogCopy, Public
<1>6. \A n \in Machine \ {m} :
        transcript'[n] = transcript[n] /\ Known(n)' = Known(n)
  BY <1>1, <1>2 DEF Lines, Known, TypeOK
<1>c. Content(s) \in Public /\ Public' = Public
  BY <1>2 DEF Contents, Public
<1>7. Numbered' /\ Published' /\ Copied' /\ Keyed(stored)' /\ NoDuplicateSteps'
  <2>1. Numbered' /\ Published' /\ Keyed(stored)'
    BY <1>2, <1>6, <1>c DEF LogInv, Numbered, Published, Keyed
  <2>2. Copied'
    BY <1>4, <1>6, <1>c DEF LogInv, Copied
  <2>3. NoDuplicateSteps'
    BY <1>3, <1>4, <1>6 DEF LogInv, NoDuplicateSteps
  <2> QED BY <2>1, <2>2, <2>3
<1>8. ASSUME NEW q \in Proc \ {p} PROVE InHand(q)'
  <2>1. /\ pc'[q] = pc[q] /\ todo'[q] = todo[q] /\ last'[q] = last[q]
        /\ Host[q] \in Machine \ {m}
    BY <1>1, <1>2 DEF Idle, TypeOK, Alone
  <2>2. Contents(todo'[q]) = Contents(todo[q]) /\ Contents(todo[q])' = Contents(todo'[q])
    BY <2>1 DEF Contents
  <2>3. Keyed(todo[q])' <=> Keyed(todo[q])
    BY <2>1 DEF Keyed
  <2> QED BY <1>2, <1>6, <1>c, <2>1, <2>2, <2>3
          DEF LogInv, InHand, Sends, Asks, Appends
<1>9. InHand(p)'
  <2>1. CASE todo[p] = {s}
    <3>1. pc'[p] = "idle"
      BY <1>1, <2>1 DEF Idle, TypeOK
    <3> QED BY <3>1 DEF InHand, Sends, Asks, Appends
  <2>2. CASE todo[p] # {s}
    <3>1. pc'[p] = "write" /\ todo'[p] = todo[p] \ {s}
      BY <1>1, <1>2, <2>2 DEF TypeOK
    <3>2. ASSUME NEW r \in todo[p] \ {s} PROVE s.idx < r.idx
      <4>2. s.idx # r.idx
        BY <1>2 DEF Keyed
      <4>3. s.idx <= r.idx
        BY <1>1 DEF NextLine
      <4>4. s.idx \in Int /\ r.idx \in Int
        BY <1>3 DEF TypeOK, Step, Index
      <4> QED BY <4>2, <4>3, <4>4
    <3>3. Contents(todo[p])' \subseteq Contents(todo[p]) /\ Keyed(todo[p])'
      BY <1>2, <3>1 DEF Contents, Keyed
    <3>4. Appends(p)'
      BY <1>2, <1>3, <1>4, <1>c, <3>1, <3>2, <3>3 DEF Appends
    <3> QED BY <3>1, <3>4 DEF InHand, Sends, Asks
  <2> QED BY <2>1, <2>2
<1> QED BY <1>5, <1>7, <1>8, <1>9 DEF LogInv

(* The steps in which a call reads something: the log does not move, and   *)
(* the call has in hand what the invariant says.                           *)
LEMMA ReadsKeep ==
  ASSUME Alone, TypeOK, LogInv, NEW p \in Proc,
         PushParse(p) \/ PullParse(p) \/ PullFetch(p)
  PROVE  InHand(p)'
<1> USE ConstantsAssumption
<1>1. CASE PushParse(p)
  <2>1. pc'[p] = "final" \/ pc'[p] = "append"
    BY <1>1 DEF PushParse, Goto, TypeOK
  <2>2. Contents(todo[p])' \subseteq Known(Host[p])
    <3>1. /\ Host[p] \in Machine /\ transcript[Host[p]] \in Seq(Step)
          /\ snap[p].lss \in Int
      BY DEF TypeOK, Conv, NoConv
    <3>2. todo'[p] = NewSteps(Host[p], snap[p].lss)
      BY <1>1 DEF PushParse, TypeOK
    <3>3. \A s \in todo'[p] : \E k \in DOMAIN transcript[Host[p]] :
            Content(s) = Content(transcript[Host[p]][k])
      BY <3>1, <3>2, NewStepsOf
    <3> QED BY <3>3 DEF Contents, Known, Lines
  <2>3. UNCHANGED <<transcript, stored>> /\ Host[p] \in Machine
    BY <1>1 DEF PushParse, local, remote
  <2>4. Sends(p)'
    BY <2>2, <2>3, SameLog DEF LogInv, Copied, Sends
  <2> QED BY <2>1, <2>4 DEF InHand, Asks, Appends
<1>2. CASE PullParse(p)
  <2>1. UNCHANGED <<transcript, stored>> /\ Host[p] \in Machine
    BY <1>2 DEF PullParse, local, remote
  <2>2. \/ pc'[p] = "idle"
        \/ pc'[p] = "fetch" /\ last'[p] = LastIndex(transcript[Host[p]])
    BY <1>2 DEF PullParse, Idle, TypeOK
  <2>3. ASSUME NEW s \in stored PROVE s.idx <= LastIndex(transcript[Origin])
    <3>1. Content(s) \in Known(Origin)
      BY DEF LogInv, Published, Public, Contents
    <3>2. PICK k \in DOMAIN transcript[Origin] :
            Content(s) = Content(transcript[Origin][k])
      BY <3>1 DEF Known, Contents, Lines
    <3>3. s.idx = transcript[Origin][k].idx
      BY <3>2 DEF Content
    <3> QED BY <3>3, LastIndexBounds DEF TypeOK
  <2> QED BY <2>1, <2>2, <2>3 DEF InHand, Sends, Asks, Appends
<1>3. CASE PullFetch(p)
  <2>1. UNCHANGED <<transcript, stored>> /\ Host[p] \in Machine
        /\ pc[p] = "fetch"
    BY <1>3 DEF PullFetch, local, remote
  <2>2. CASE StepsSince(last[p]) = {}
    <3>1. pc'[p] = "idle"
      BY <1>3, <2>2 DEF PullFetch, Idle, TypeOK
    <3> QED BY <3>1 DEF InHand, Sends, Asks, Appends
  <2>3. CASE StepsSince(last[p]) # {}
    <3>1. pc'[p] = "write" /\ todo'[p] = StepsSince(last[p])
      BY <1>3, <2>3 DEF PullFetch, TypeOK
    <3>2. Host[p] # Origin
      <4>1. ASSUME NEW s \in stored PROVE s.idx \in Int /\ last[p] \in Int
        BY DEF TypeOK, Step, Index
      <4> QED BY <2>1, <2>3, <4>1 DEF LogInv, InHand, Asks, StepsSince
    <3>3. last[p] = LastIndex(transcript[Host[p]])
      BY <2>1, <3>2 DEF LogInv, InHand, Asks
    <3>4. Contents(todo[p])' \subseteq Public' /\ Keyed(todo[p])'
      BY <2>1, <3>1 DEF LogInv, StepsSince, Contents, Public, Keyed
    <3>5. Appends(p)'
      BY <2>1, <3>1, <3>2, <3>3, <3>4 DEF Appends, StepsSince
    <3> QED BY <3>1, <3>5 DEF InHand, Sends, Asks
  <2> QED BY <2>2, <2>3
<1> QED BY <1>1, <1>2, <1>3

(* A step that neither writes a line nor a step document.                  *)
LEMMA QuietKeeps ==
  ASSUME LogInv, UNCHANGED <<transcript, stored>>, \A q \in Proc : InHand(q)'
  PROVE  LogInv' /\ LogStep
BY SameLog DEF LogInv, Numbered, Published, Copied, NoDuplicateSteps, LogStep

LEMMA StepLogInv ==
  ASSUME Alone, Typed, LogInv, [NextLossy]_vars
  PROVE  LogInv' /\ LogStep
<1> USE ConstantsAssumption
<1>0. TypeOK
  BY DEF Typed
<1>1. ASSUME NEW m \in Machine, AgentAppend(m) PROVE LogInv' /\ LogStep
  BY <1>0, <1>1, AgentWrites DEF LogStep, Log!Next
<1>2. ASSUME NEW p \in Proc, AppendStep(p) PROVE LogInv' /\ LogStep
  BY <1>0, <1>2, PushPublishes DEF LogStep, Log!Next
<1>3. ASSUME NEW p \in Proc, PullWrite(p) PROVE LogInv' /\ LogStep
  <2>1. Host[p] \in Machine
    OBVIOUS
  <2> QED BY <1>0, <1>3, <2>1, PullLearns DEF LogStep, Log!Next
<1>4. ASSUME NEW p \in Proc, PushParse(p) \/ PullParse(p) \/ PullFetch(p)
      PROVE  LogInv' /\ LogStep
  <2>1. UNCHANGED <<transcript, stored>>
    BY <1>4 DEF PushParse, PullParse, PullFetch, local, remote
  <2>2. ASSUME NEW q \in Proc \ {p} PROVE InHand(q)'
    <3>1. pc'[q] = pc[q] /\ todo'[q] = todo[q] /\ last'[q] = last[q]
      BY <1>0, <1>4 DEF PushParse, PullParse, PullFetch, Goto, Idle, TypeOK
    <3> QED BY <2>1, <3>1, Harmless DEF LogInv
  <2>3. InHand(p)'
    BY <1>0, <1>4, ReadsKeep
  <2> QED BY <2>1, <2>2, <2>3, QuietKeeps
<1>5. ASSUME NEW p \in Proc,
             \/ PushBegin(p) \/ PushCreate(p) \/ MergeWatermark(p)
             \/ PushMeta(p) \/ SyncRemoteChanges(p) \/ PullCommand(p)
      PROVE  LogInv' /\ LogStep
  <2>1. UNCHANGED <<transcript, stored, todo, mark, last>>
    BY <1>5 DEF PushBegin, PushCreate, MergeWatermark, PushMeta,
                SyncRemoteChanges, PullCommand, local, remote
  <2>2. \A q \in Proc :
          pc'[q] = pc[q] \/ pc'[q] \in {"create", "parse", "meta", "final", "pull"}
    BY <1>0, <1>5 DEF PushBegin, PushCreate, MergeWatermark, PushMeta,
                SyncRemoteChanges, PullCommand, Goto, TypeOK
  <2>3. ASSUME NEW q \in Proc PROVE InHand(q)'
    BY <2>1, <2>2, Harmless DEF LogInv
  <2> QED BY <2>1, <2>3, QuietKeeps
<1>6. ASSUME NEW p \in Proc, PushFinal(p) \/ Fail(p) \/ Restart(p)
      PROVE  LogInv' /\ LogStep
  <2>1. UNCHANGED <<transcript, stored>> /\ Idle(p)
    BY <1>6 DEF PushFinal, Fail, Restart, local, remote
  <2>2. ASSUME NEW q \in Proc PROVE InHand(q)'
    <3>1. \/ pc'[q] = pc[q] /\ todo'[q] = todo[q] /\ last'[q] = last[q]
          \/ pc'[q] = "idle"
      BY <1>0, <2>1 DEF Idle, TypeOK
    <3> QED BY <2>1, <3>1, Harmless DEF LogInv
  <2> QED BY <2>1, <2>2, QuietKeeps
<1>7. ASSUME NEW p \in Proc, DropStep(p) PROVE LogInv' /\ LogStep
  <2>1. /\ UNCHANGED <<transcript, stored, pc, last>>
        /\ \E s \in todo[p] : todo' = [todo EXCEPT ![p] = @ \ {s}]
    BY <1>7 DEF DropStep, local, remote
  <2>2. ASSUME NEW q \in Proc PROVE InHand(q)'
    <3>1. todo'[q] \subseteq todo[q]
      BY <1>0, <2>1 DEF TypeOK
    <3> QED BY <2>1, <3>1, Harmless DEF LogInv
  <2> QED BY <2>1, <2>2, QuietKeeps
<1>8. CASE (\E m \in Machine : Touch(m)) \/ UNCHANGED vars
  <2>1. UNCHANGED <<transcript, stored, pc, todo, last>>
    BY <1>8 DEF Touch, vars, remote
  <2>2. ASSUME NEW q \in Proc PROVE InHand(q)'
    BY <2>1, Harmless DEF LogInv
  <2> QED BY <2>1, <2>2, QuietKeeps
<1> QED
  BY <1>1, <1>2, <1>3, <1>4, <1>5, <1>6, <1>7, <1>8
  DEF NextLossy, Next, Work, Crash, Push, Pull, PullStage

-----------------------------------------------------------------------------
(* The theorems.                                                           *)

LEMMA TypedLossy == SpecLossy => []Typed
<1>1. Typed /\ [NextLossy]_vars => Typed'
  BY TypeStep, CarriesStep DEF Typed
<1> QED BY <1>1, TypeInit, PTL DEF SpecLossy

(* No transcript ever has a step twice or out of order, although a pull    *)
(* reads its end, fetches and appends in separate steps.                   *)
THEOREM NothingTwice ==
  ASSUME Alone PROVE SpecLossy => []NoDuplicateSteps
<1>1. Typed /\ LogInv /\ [NextLossy]_vars => LogInv'
  BY StepLogInv
<1>2. Init => LogInv
  BY InitLogInv
<1>3. LogInv => NoDuplicateSteps
  BY DEF LogInv
<1> QED BY <1>1, <1>2, <1>3, TypedLossy, PTL DEF SpecLossy

(* Push and pull, with every failure the code lets happen, behave as one   *)
(* log: the agent extends it, steps become public and keep what the agent  *)
(* wrote, the other machines' copies grow in order by public steps.  The   *)
(* machine_id of a step is no part of the log: a machine that pushes a     *)
(* pulled step back puts its own there.                                    *)
THEOREM TranscriptsAreOneLog ==
  ASSUME Alone PROVE SpecLossy => ImplementsSharedLog
<1>1. Typed /\ LogInv /\ [NextLossy]_vars => LogInv'
  BY StepLogInv
<1>2. Init => LogInv /\ Log!Init
  BY InitLogInv
<1>3. Typed /\ LogInv /\ [NextLossy]_vars => [Log!Next]_(Log!logVars)
  BY StepLogInv DEF LogStep, Log!logVars, LogCopy, Public
<1> QED
  BY <1>1, <1>2, <1>3, TypedLossy, PTL
  DEF SpecLossy, ImplementsSharedLog, Log!Spec
=============================================================================
