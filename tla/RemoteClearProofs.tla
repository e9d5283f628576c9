------------------------- MODULE RemoteClearProofs --------------------------
(***************************************************************************)
(* Theorems about RemoteClear: what a clear leaves, for any machines that  *)
(* push and pull, and what holds between clears while one machine pushes.  *)
(***************************************************************************)
EXTENDS RemoteClear, TranscriptSyncProofs

-----------------------------------------------------------------------------
(* Types.                                                                  *)

ClearTyped == Typed /\ ClearTypeOK

(* Push and pull are steps of TranscriptSync: a refused push is one that   *)
(* failed.                                                                 *)
LEMMA SyncIsNext ==
  ASSUME Sync
  PROVE  Next /\ UNCHANGED <<clearVars, statusVars>>
<1>1. ASSUME NEW p \in Proc, PushRefused(p) PROVE Fail(p)
  BY <1>1 DEF PushRefused, Refused, Fail
<1> QED BY <1>1 DEF Sync, Next, Work, Crash

(* A clear touches nothing but the store, which it makes smaller.          *)
LEMMA ClearShrinks ==
  ASSUME Clear
  PROVE  /\ UNCHANGED <<local, pc, snap, todo, mark, last, statusVars>>
         /\ stored' \subseteq stored
         /\ conv' \in {conv, NoConv}
<1>1. ASSUME DeleteStep \/ DeleteDoc
      PROVE  /\ UNCHANGED <<local, pc, snap, todo, mark, last, statusVars>>
             /\ stored' \subseteq stored
             /\ conv' \in {conv, NoConv}
  BY <1>1 DEF DeleteStep, DeleteDoc
<1>2. ASSUME ClearBegin \/ ListSteps \/ RefuseDelete \/ ClearEnd \/ ClearFail
      PROVE  UNCHANGED <<vars, statusVars>>
  BY <1>2 DEF ClearBegin, ListSteps, RefuseDelete, ClearEnd, ClearFail
<1> QED BY <1>1, <1>2 DEF Clear, vars, local

LEMMA ClearTypedInit == ClearInit => ClearTyped
<1>1. ClearInit => ClearTypeOK
  <2>1. 0 \in 0 .. MaxClears /\ 0 \in -1 .. MaxClears
    BY MaxClearsAssumption
  <2>2. ClearInit => docDoom \in BOOLEAN /\ tainted \in BOOLEAN
    BY DEF ClearInit
  <2> QED BY <2>1, <2>2 DEF ClearInit, ClearTypeOK
<1> QED BY <1>1, TypeInit DEF ClearInit, ClearTyped

LEMMA ClearTypedStep == ClearTyped /\ [ClearNext]_allVars => ClearTyped'
<1> SUFFICES ASSUME Typed, ClearTypeOK, [ClearNext]_allVars PROVE ClearTyped'
  BY DEF ClearTyped
<1> USE MaxClearsAssumption
<1>1. CASE Sync
  <2>1. Typed'
    BY <1>1, SyncIsNext, TypedStep
  <2>2. tainted' \in BOOLEAN
    BY <1>1 DEF Sync, ClearTypeOK
  <2>3. UNCHANGED <<clearVars, statusVars>>
    BY <1>1, SyncIsNext
  <2> QED BY <2>1, <2>2, <2>3 DEF ClearTyped, ClearTypeOK, clearVars, statusVars
<1>2. CASE Clear
  <2>1. /\ UNCHANGED <<local, pc, snap, todo, mark, last, statusVars>>
        /\ stored' \subseteq stored
        /\ conv' \in {conv, NoConv}
    BY <1>2, ClearShrinks
  <2>2. Typed'
    BY <2>1 DEF Typed, TypeOK, Carries, local
  <2>3. /\ stage' \in {"none", "list", "delete"}
        /\ clears' \in 0 .. MaxClears
    BY <1>2 DEF Clear, ClearBegin, ListSteps, DeleteStep, DeleteDoc,
      RefuseDelete, ClearEnd, ClearFail, ClearTypeOK
  <2>6. docDoom' \in BOOLEAN /\ tainted' \in BOOLEAN
    BY <1>2 DEF Clear, ClearBegin, ListSteps, DeleteStep, DeleteDoc,
      RefuseDelete, ClearEnd, ClearFail, ClearTypeOK, SomePush
  <2>4. Indices(stored) \subseteq Index
    BY DEF Typed, TypeOK, Indices, Step
  <2>5. doomed' \subseteq Index
    BY <1>2, <2>4 DEF Clear, ClearBegin, ListSteps, DeleteStep, DeleteDoc,
      RefuseDelete, ClearEnd, ClearFail, ClearTypeOK, Doomed
  <2> QED BY <2>1, <2>2, <2>3, <2>5, <2>6 DEF ClearTyped, ClearTypeOK, statusVars
<1>3. CASE StatusFetch
  BY <1>3 DEF StatusFetch, ClearTyped, ClearTypeOK, Typed, TypeOK, Carries,
              vars, clearVars
<1>4. CASE UNCHANGED allVars
  BY <1>4 DEF ClearTyped, ClearTypeOK, Typed, TypeOK, Carries,
              allVars, vars, clearVars, statusVars
<1> QED BY <1>1, <1>2, <1>3, <1>4 DEF ClearNext

LEMMA AlwaysClearTyped == ClearSpec => []ClearTyped
BY ClearTypedInit, ClearTypedStep, PTL DEF ClearSpec

(* The variables keep their types: what a clear queues for deletion is     *)
(* there to be deleted, under any number of pushes.                        *)
THEOREM ClearTypeCorrect == ClearSpec => []ClearTypeOK
<1>1. ClearTyped => ClearTypeOK
  BY DEF ClearTyped
<1> QED BY <1>1, AlwaysClearTyped, PTL

-----------------------------------------------------------------------------
(* What a clear leaves.                                                    *)

(* A clear that no push overlaps and whose deletions are not refused: what *)
(* is still stored is doomed.                                              *)
SweepInv ==
  /\ stage # "delete" => doomed = {} /\ ~docDoom
  /\ stage # "none" /\ ~tainted => ~SomePush
  /\ stage = "delete" /\ ~tainted =>
       /\ Indices(stored) \subseteq doomed
       /\ conv # NoConv => docDoom

(* Only a push writes into the store.                                      *)
LEMMA QuietStore ==
  ASSUME TypeOK, Sync, ~SomePush, ~SomePush'
  PROVE  UNCHANGED remote
<1> USE ConstantsAssumption
<1>1. ASSUME NEW p \in Proc, Push(p) PROVE FALSE
  <2>1. CASE PushBegin(p)
    <3>1. pc'[p] \in {"create", "parse"}
      BY <2>1 DEF PushBegin, Goto, TypeOK
    <3> QED BY <3>1 DEF SomePush, Pushing
  <2>2. CASE PushCreate(p) \/ PushParse(p) \/ AppendStep(p)
               \/ MergeWatermark(p) \/ PushMeta(p) \/ PushFinal(p)
    <3>1. pc[p] \in {"create", "parse", "append", "meta", "final"}
      BY <2>2 DEF PushCreate, PushParse, AppendStep, MergeWatermark, PushMeta,
                  PushFinal, Goto
    <3> QED BY <3>1 DEF SomePush, Pushing
  <2> QED BY <1>1, <2>1, <2>2 DEF Push
<1>2. ASSUME NEW m \in Machine, AgentAppend(m) \/ Touch(m) PROVE UNCHANGED remote
  BY <1>2 DEF AgentAppend, Touch
<1>3. ASSUME NEW p \in Proc, Pull(p) PROVE UNCHANGED remote
  BY <1>3 DEF Pull, PullStage, SyncRemoteChanges, PullCommand, PullParse,
              PullFetch, PullWrite
<1>4. ASSUME NEW p \in Proc, PushRefused(p) \/ Fail(p) \/ Restart(p)
      PROVE  UNCHANGED remote
  BY <1>4 DEF PushRefused, Fail, Restart
<1> QED BY <1>1, <1>2, <1>3, <1>4 DEF Sync, Crash

LEMMA SweepInit == ClearInit => SweepInv
BY DEF ClearInit, SweepInv

LEMMA SweepStep == ClearTyped /\ SweepInv /\ [ClearNext]_allVars => SweepInv'
<1> SUFFICES ASSUME Typed, ClearTypeOK, SweepInv, [ClearNext]_allVars
             PROVE  SweepInv'
  BY DEF ClearTyped
<1>1. CASE Sync
  <2>1. /\ UNCHANGED <<stage, doomed, docDoom>>
        /\ tainted' = (tainted \/ (stage # "none" /\ SomePush'))
    BY <1>1 DEF Sync, clearVars
  <2>2. CASE stage # "none" /\ ~tainted'
    <3>1. ~SomePush /\ ~SomePush' /\ ~tainted
      BY <2>1, <2>2 DEF SweepInv
    <3>2. UNCHANGED remote
      BY <1>1, <3>1, QuietStore DEF Typed
    <3> QED BY <2>1, <3>1, <3>2 DEF SweepInv, remote
  <2>3. CASE ~ (stage # "none" /\ ~tainted')
    BY <2>1, <2>3 DEF SweepInv
  <2> QED BY <2>2, <2>3
<1>2. CASE ClearBegin
  <2>1. /\ stage' = "list" /\ tainted' = SomePush
        /\ UNCHANGED <<pc, doomed, docDoom>> /\ stage = "none"
    BY <1>2 DEF ClearBegin, vars
  <2>2. SomePush' = SomePush
    BY <2>1 DEF SomePush, Pushing
  <2> QED BY <2>1, <2>2 DEF SweepInv
<1>3. CASE ListSteps
  <2>1. /\ stage = "list" /\ stage' = "delete" /\ docDoom'
        /\ doomed' = Indices(stored)
        /\ UNCHANGED <<pc, stored, conv, tainted>>
    BY <1>3 DEF ListSteps, vars, Doomed
  <2>2. SomePush' = SomePush
    BY <2>1 DEF SomePush, Pushing
  <2> QED BY <2>1, <2>2 DEF SweepInv
<1>4. CASE DeleteStep
  <2>1. PICK i \in doomed : /\ stored' = {s \in stored : s.idx # i}
                            /\ doomed' = doomed \ {i}
    BY <1>4 DEF DeleteStep
  <2>2. UNCHANGED <<pc, conv, stage, docDoom, tainted>>
    BY <1>4 DEF DeleteStep
  <2>3. Indices(stored') = Indices(stored) \ {i}
    BY <2>1 DEF Indices
  <2>4. SomePush' = SomePush
    BY <2>2 DEF SomePush, Pushing
  <2>5. stage = "delete"
    BY <2>1 DEF SweepInv
  <2> QED BY <2>1, <2>2, <2>3, <2>4, <2>5 DEF SweepInv
<1>5. CASE DeleteDoc
  <2>1. /\ docDoom /\ conv' = NoConv
        /\ UNCHANGED <<pc, stored, stage, doomed, tainted>>
    BY <1>5 DEF DeleteDoc
  <2>2. SomePush' = SomePush
    BY <2>1 DEF SomePush, Pushing
  <2>3. stage = "delete"
    BY <2>1 DEF SweepInv
  <2> QED BY <2>1, <2>2, <2>3 DEF SweepInv
<1>6. CASE RefuseDelete
  <2>1. tainted' /\ UNCHANGED stage /\ (doomed # {} \/ docDoom)
    BY <1>6 DEF RefuseDelete
  <2>2. stage = "delete"
    BY <2>1 DEF SweepInv
  <2> QED BY <2>1, <2>2 DEF SweepInv
<1>7. CASE ClearEnd
  BY <1>7 DEF ClearEnd, SweepInv
<1>8. CASE ClearFail
  BY <1>8 DEF ClearFail, SweepInv
<1>9. CASE StatusFetch \/ UNCHANGED allVars
  <2>1. UNCHANGED <<pc, stored, conv, stage, doomed, docDoom, tainted>>
    BY <1>9 DEF StatusFetch, vars, clearVars, allVars
  <2>2. SomePush' = SomePush
    BY <2>1 DEF SomePush, Pushing
  <2> QED BY <2>1, <2>2 DEF SweepInv
<1> QED
  BY <1>1, <1>2, <1>3, <1>4, <1>5, <1>6, <1>7, <1>8, <1>9 DEF ClearNext, Clear

(* A clear that ends with nothing doomed has left nothing.                 *)
LEMMA SweepEnds ==
  ASSUME SweepInv, [ClearNext]_allVars,
         stage = "delete", stage' = "none", ~tainted'
  PROVE  conv' = NoConv /\ stored' = {}
<1>1. CASE ClearEnd
  <2>1. /\ doomed = {} /\ ~docDoom /\ ~tainted
        /\ UNCHANGED <<conv, stored>>
    BY <1>1 DEF ClearEnd, vars
  <2>2. Indices(stored) = {} /\ conv = NoConv
    BY <2>1 DEF SweepInv
  <2> QED BY <2>1, <2>2 DEF Indices
<1>2. CASE ClearFail
  BY <1>2 DEF ClearFail
<1>3. CASE Sync
  BY <1>3 DEF Sync, clearVars
<1>4. CASE \/ ClearBegin \/ ListSteps \/ DeleteStep \/ DeleteDoc
           \/ RefuseDelete \/ StatusFetch \/ UNCHANGED allVars
  BY <1>4 DEF ClearBegin, ListSteps, DeleteStep, DeleteDoc, RefuseDelete,
              StatusFetch, allVars, clearVars
<1> QED BY <1>1, <1>2, <1>3, <1>4 DEF ClearNext, Clear

(* A clear that no push overlapped and no server refused leaves nothing,   *)
(* whatever earlier clears had left behind: for any number of machines,    *)
(* agents and processes.                                                   *)
THEOREM ClearSweeps == ClearSpec => SweptClean
<1>1. SweepInv /\ [ClearNext]_allVars
        => [stage = "delete" /\ stage' = "none" /\ ~tainted'
              => conv' = NoConv /\ stored' = {}]_allVars
  BY SweepEnds
<1>2. ClearSpec => []SweepInv
  BY SweepInit, SweepStep, AlwaysClearTyped, PTL DEF ClearSpec
<1> QED BY <1>1, <1>2, PTL DEF ClearSpec, SweptClean

-----------------------------------------------------------------------------
(* One machine pushes: the watermark only grows.                           *)

(* One machine's agent writes, one agy-sync runs there, and no other       *)
(* machine pushes; on those any number of them may pull.                   *)
OnePusher ==
  /\ Author = {Origin}
  /\ \A p \in Pusher : Host[p] = Origin
  /\ \A p, q \in Proc : Host[p] = Origin /\ Host[q] = Origin => p = q

(* The origin's lines are numbered from zero; what is stored, in another   *)
(* transcript or in hand is not beyond index b.                            *)
InLine == \A k \in DOMAIN transcript[Origin] : transcript[Origin][k].idx = k - 1
Within(b) ==
  /\ \A m \in Machine \ {Origin} : \A s \in Lines(m) : s.idx <= b
  /\ \A s \in stored : s.idx <= b
  /\ \A p \in Proc : \A s \in todo[p] : s.idx <= b
End == Len(transcript[Origin]) - 1

(* Only the origin pushes, and its own pulls find nothing.                 *)
AtOrigin(p) ==
  /\ pc[p] \in PushStages => Host[p] = Origin
  /\ Host[p] = Origin =>
       /\ pc[p] # "write"
       /\ pc[p] = "fetch" => \A s \in stored : s.idx <= last[p]

(* What a push is about to write is not below the watermark, and its batch *)
(* reaches beyond all that is known elsewhere.                             *)
Ahead(p) ==
  /\ pc[p] = "create" =>
       conv = NoConv /\ snap[p] = [lss |-> -1, src |-> Host[p]]
  /\ pc[p] \in {"parse", "append", "final"} => conv.lss <= snap[p].lss
  /\ pc[p] \in {"append", "meta"} =>
       /\ conv.lss <= mark[p]
       /\ snap[p].lss <= mark[p]
       /\ last[p] = mark[p]
       /\ Within(mark[p])

LineInv == InLine /\ Within(End) /\ \A p \in Proc : AtOrigin(p) /\ Ahead(p)

(* In a transcript that is numbered from zero, the batch ends at its end.  *)
LEMMA NumberedBatch ==
  ASSUME NEW m \in Machine, transcript[m] \in Seq(Step), NEW after \in Int,
         \A k \in DOMAIN transcript[m] : transcript[m][k].idx = k - 1,
         NewSteps(m, after) # {}
  PROVE  /\ LastLine(m, after) = Len(transcript[m]) - 1
         /\ after < Len(transcript[m]) - 1
         /\ \A s \in NewSteps(m, after) : s.idx <= Len(transcript[m]) - 1
<1> DEFINE t == transcript[m]
           n == Len(t)
           new == {k \in DOMAIN t : t[k].idx > after}
           c == CHOOSE k \in new : \A j \in new : j <= k
<1>1. n \in Nat /\ DOMAIN t = 1 .. n
  OBVIOUS
<1>2. \A k \in DOMAIN t : t[k].idx = k - 1 /\ k - 1 <= n - 1
  BY <1>1
<1>3. PICK k \in DOMAIN t : t[k].idx > after
  BY NewStepsOf
<1>4. after < n - 1 /\ n \in DOMAIN t /\ n \in new
  <2>1. k \in 1 .. n /\ k - 1 > after
    BY <1>1, <1>2, <1>3
  <2>2. n \in 1 .. n /\ n - 1 > after
    BY <1>1, <2>1
  <2> QED BY <1>1, <1>2, <2>2
<1>5. \A j \in new : j <= n
  BY <1>1
<1>6. c \in new /\ n <= c
  <2> HIDE DEF new
  <2> QED BY <1>4, <1>5
<1>7. c = n
  <2>1. c \in 1 .. n
    BY <1>1, <1>6
  <2> HIDE DEF c
  <2> QED BY <1>1, <1>6, <2>1
<1>8. LastLine(m, after) = t[c].idx
  BY DEF LastLine
<1>9. ASSUME NEW s \in NewSteps(m, after) PROVE s.idx <= n - 1
  <2>1. PICK j \in DOMAIN t : s.idx = t[j].idx
    BY NewStepsOf
  <2> QED BY <1>2, <2>1
<1> HIDE DEF c
<1> QED BY <1>2, <1>4, <1>7, <1>8, <1>9

(* A push under way is the only one.                                       *)
LEMMA OnlyPush ==
  ASSUME OnePusher, LineInv, NEW p \in Proc, pc[p] \in PushStages,
         NEW q \in Proc, q # p
  PROVE  Host[q] # Origin /\ pc[q] \notin PushStages
BY DEF OnePusher, LineInv, AtOrigin

(* What a call leaves alone.                                               *)
Same(q) == /\ pc'[q] = pc[q] /\ snap'[q] = snap[q] /\ todo'[q] = todo[q]
           /\ mark'[q] = mark[q] /\ last'[q] = last[q]

LEMMA OthersIdle ==
  ASSUME TypeOK, NEW p \in Proc, Idle(p)
  PROVE  /\ pc'[p] = "idle" /\ todo'[p] = {}
         /\ \A q \in Proc \ {p} : Same(q)
BY DEF Idle, TypeOK, Same

(* A step that writes nothing beyond what is known, no document and, of    *)
(* the calls, changes only p's, keeps what the others know.                *)
LEMMA Bystanders ==
  ASSUME LineInv, NEW p \in Proc, conv' = conv, stored' \subseteq stored,
         \A q \in Proc \ {p} : Same(q),
         \A m \in Machine \ {Origin} : Lines(m)' \subseteq Lines(m) \cup todo[p],
         todo'[p] \subseteq todo[p] \cup stored
  PROVE  /\ \A b : Within(b) => Within(b)'
         /\ \A q \in Proc \ {p} : AtOrigin(q)' /\ Ahead(q)'
<1>1. ASSUME NEW b, Within(b) PROVE Within(b)'
  BY <1>1 DEF Within, Same
<1>2. ASSUME NEW q \in Proc \ {p} PROVE AtOrigin(q)'
  BY DEF LineInv, AtOrigin, Same
<1>3. ASSUME NEW q \in Proc \ {p} PROVE Ahead(q)'
  <2>1. Ahead(q) /\ Same(q)
    BY DEF LineInv
  <2>2. Within(mark[q]) => Within(mark[q])'
    BY <1>1, <2>1 DEF Within, Same
  <2> QED BY <2>1, <2>2 DEF Ahead, Same
<1> QED BY <1>1, <1>2, <1>3

LEMMA LineInit ==
  ASSUME Init PROVE LineInv
<1>1. \A m \in Machine : transcript[m] = <<>> /\ Lines(m) = {}
  <2>1. DOMAIN <<>> = {}
    OBVIOUS
  <2>2. \A m \in Machine : transcript[m] = <<>>
    BY DEF Init
  <2> QED BY <2>1, <2>2 DEF Lines
<1>2. InLine
  BY <1>1, ConstantsAssumption DEF InLine
<1>3. Within(End)
  BY <1>1 DEF Init, Within
<1>4. \A p \in Proc : pc[p] = "idle"
  BY DEF Init
<1> QED BY <1>2, <1>3, <1>4 DEF LineInv, AtOrigin, Ahead, PushStages

(* Steps that only end a call, or begin or fail a pull.                    *)
LEMMA QuietLine ==
  ASSUME OnePusher, TypeOK, LineInv, NEW p \in Proc, UNCHANGED <<transcript, remote>>,
         \/ Idle(p)
         \/ /\ pc'[p] = "pull" /\ todo'[p] = todo[p]
            /\ \A q \in Proc \ {p} : Same(q)
  PROVE  LineInv'
<1>1. /\ pc'[p] \in {"idle", "pull"} /\ todo'[p] \subseteq todo[p]
      /\ \A q \in Proc \ {p} : Same(q)
  BY OthersIdle
<1>2. \A m \in Machine : Lines(m)' = Lines(m)
  BY DEF Lines
<1>3. /\ \A b : Within(b) => Within(b)'
      /\ \A q \in Proc \ {p} : AtOrigin(q)' /\ Ahead(q)'
  BY <1>1, <1>2, Bystanders DEF remote
<1>4. AtOrigin(p)' /\ Ahead(p)'
  BY <1>1 DEF AtOrigin, Ahead, PushStages
<1>5. InLine' /\ Within(End)'
  <2>1. InLine' /\ End' = End
    BY DEF LineInv, InLine, End
  <2>2. Within(End)'
    BY <1>3, <2>1 DEF LineInv, Within
  <2> QED BY <2>1, <2>2
<1> QED BY <1>3, <1>4, <1>5 DEF LineInv

LEMMA EndOfLine ==
  ASSUME TypeOK, InLine
  PROVE  /\ transcript[Origin] \in Seq(Step)
         /\ LastIndex(transcript[Origin]) = End
         /\ End \in Int /\ Len(transcript[Origin]) \in Nat
<1>1. transcript[Origin] \in Seq(Step)
  BY ConstantsAssumption DEF TypeOK
<1>2. \A k \in DOMAIN transcript[Origin] : transcript[Origin][k].idx = k - 1
  BY DEF InLine
<1> QED BY <1>1, <1>2, NumberedEnd DEF End

(* The agent writes on at the end of the line.                             *)
LEMMA AgentInLine ==
  ASSUME OnePusher, TypeOK, LineInv, NEW m \in Machine, AgentAppend(m)
  PROVE  LineInv'
<1> DEFINE t == transcript[Origin]
           s == [idx |-> LastIndex(t) + 1, by |-> Origin, tag |-> NoMachine]
<1> USE ConstantsAssumption
<1>1. /\ m = Origin /\ Origin \in Machine
      /\ transcript' = [transcript EXCEPT ![Origin] = Append(t, s)]
      /\ UNCHANGED <<conv, stored, pc, snap, todo, mark, last>>
  BY DEF OnePusher, AgentAppend, TypeOK, remote
<1>2. t \in Seq(Step) /\ LastIndex(t) = End /\ End \in Int /\ End = Len(t) - 1
      /\ Len(t) \in Nat
  BY EndOfLine DEF LineInv, End
<1>3. transcript'[Origin] = Append(t, s) /\ s.idx = Len(t)
  BY <1>1, <1>2 DEF TypeOK
<1> HIDE DEF s
<1>4. End' = End + 1
  BY <1>2, <1>3 DEF End
<1>5. InLine'
  <2>1. ASSUME NEW k \in DOMAIN Append(t, s) PROVE Append(t, s)[k].idx = k - 1
    <3>1. \/ k = Len(t) + 1 /\ Append(t, s)[k] = s
          \/ k \in DOMAIN t /\ Append(t, s)[k] = t[k]
      BY <1>2
    <3>2. k = Len(t) + 1 => k - 1 = Len(t)
      BY <1>2
    <3> QED BY <1>3, <3>1, <3>2 DEF LineInv, InLine
  <2> QED BY <1>3, <2>1 DEF InLine
<1>6. \A n \in Machine \ {Origin} : Lines(n)' = Lines(n)
  BY <1>1 DEF Lines, TypeOK
<1>7. Within(End)'
  <2>1. ASSUME NEW x \in Step, x.idx <= End PROVE x.idx <= End'
    <3>1. x.idx \in Int
      BY DEF Step, Index
    <3> QED BY <1>2, <1>4, <2>1, <3>1
  <2>2. ASSUME NEW n \in Machine \ {Origin}, NEW x \in Lines(n)
        PROVE  x.idx <= End'
    <3>1. x \in Step
      BY LineType DEF TypeOK, Lines
    <3> QED BY <2>1, <3>1 DEF LineInv, Within
  <2>3. ASSUME NEW x \in stored PROVE x.idx <= End'
    BY <2>1 DEF LineInv, Within, TypeOK
  <2>4. ASSUME NEW p \in Proc, NEW x \in todo[p] PROVE x.idx <= End'
    <3>1. x \in Step
      BY DEF TypeOK
    <3> QED BY <2>1, <3>1 DEF LineInv, Within
  <2> QED BY <1>1, <1>6, <2>2, <2>3, <2>4 DEF Within
<1>8. ASSUME NEW p \in Proc PROVE AtOrigin(p)' /\ Ahead(p)'
  <2>1. AtOrigin(p) /\ Ahead(p)
    BY DEF LineInv
  <2>2. Within(mark[p]) => Within(mark[p])'
    BY <1>1, <1>6 DEF Within
  <2> QED BY <1>1, <2>1, <2>2 DEF AtOrigin, Ahead
<1> QED BY <1>5, <1>7, <1>8 DEF LineInv

(* Push, up to its batch.                                                  *)
LEMMA PushInLine ==
  ASSUME OnePusher, TypeOK, LineInv, NEW p \in Proc,
         PushBegin(p) \/ PushCreate(p) \/ PushParse(p)
  PROVE  LineInv'
<1> USE ConstantsAssumption
<1>1. Host[p] = Origin /\ \A q \in Proc \ {p} : Host[q] # Origin /\ pc[q] \notin PushStages
  BY DEF PushBegin, PushCreate, PushParse, Goto, OnePusher, LineInv, AtOrigin,
         PushStages
<1>2. /\ UNCHANGED <<transcript, stored>>
      /\ \A q \in Proc \ {p} : Same(q)
      /\ \A m \in Machine : Lines(m)' = Lines(m)
  BY DEF PushBegin, PushCreate, PushParse, Goto, TypeOK, Same, local, remote, Lines
<1>3. InLine' /\ End' = End
  BY <1>2 DEF LineInv, InLine, End
<1>4. \A q \in Proc \ {p} : AtOrigin(q)' /\ Ahead(q)'
  BY <1>1, <1>2 DEF AtOrigin, Ahead, Same, PushStages
<1>5. CASE PushBegin(p)
  <2>1. /\ UNCHANGED <<conv, todo>>
        /\ \/ /\ pc'[p] = "create" /\ conv = NoConv
              /\ snap'[p] = [lss |-> -1, src |-> Host[p]]
           \/ pc'[p] = "parse" /\ conv # NoConv /\ snap'[p] = conv
    BY <1>5 DEF PushBegin, Goto, TypeOK, remote
  <2>2. conv.lss <= conv.lss
    BY DEF TypeOK, Conv, NoConv
  <2>3. Within(End)'
    BY <1>2, <1>3, <2>1 DEF LineInv, Within
  <2>4. AtOrigin(p)' /\ Ahead(p)'
    BY <1>1, <2>1, <2>2 DEF AtOrigin, Ahead
  <2> QED BY <1>3, <1>4, <2>3, <2>4 DEF LineInv
<1>6. CASE PushCreate(p)
  <2>1. conv' = snap[p] /\ UNCHANGED <<snap, todo>> /\ pc'[p] = "parse" /\ snap[p].lss = -1
    BY <1>6 DEF PushCreate, Goto, TypeOK, LineInv, Ahead
  <2>2. Within(End)'
    BY <1>2, <1>3, <2>1 DEF LineInv, Within
  <2>3. AtOrigin(p)' /\ Ahead(p)'
    BY <1>1, <2>1 DEF AtOrigin, Ahead
  <2> QED BY <1>3, <1>4, <2>2, <2>3 DEF LineInv
<1>7. CASE PushParse(p)
  <2> DEFINE after == snap[p].lss
             new == NewSteps(Origin, after)
  <2>1. /\ UNCHANGED <<conv, snap>> /\ todo'[p] = new
        /\ pc[p] = "parse" /\ pc'[p] \in {"append", "final"}
        /\ pc'[p] = "append" =>
             /\ new # {}
             /\ mark'[p] = LastIndex(transcript[Origin])
             /\ last'[p] = LastLine(Origin, after)
    BY <1>1, <1>7 DEF PushParse, Goto, TypeOK, remote
  <2>2. conv.lss <= after /\ after \in Int /\ conv.lss \in Int
    BY <2>1 DEF LineInv, Ahead, TypeOK, Conv, NoConv
  <2>3. /\ transcript[Origin] \in Seq(Step)
        /\ LastIndex(transcript[Origin]) = End /\ End \in Int
    BY EndOfLine DEF LineInv
  <2>4. new # {} =>
          /\ LastLine(Origin, after) = End /\ after < End
          /\ \A s \in new : s.idx <= End
    BY <2>2, <2>3, NumberedBatch DEF LineInv, InLine, End
  <2> HIDE DEF new, after
  <2>5. Within(End)'
    <3>1. ASSUME NEW q \in Proc, NEW s \in todo'[q] PROVE s.idx <= End
      BY <1>2, <2>1, <2>4, <3>1 DEF LineInv, Within, Same
    <3> QED BY <1>2, <1>3, <3>1 DEF LineInv, Within
  <2>6. AtOrigin(p)'
    BY <1>1, <2>1 DEF AtOrigin
  <2>7. CASE pc'[p] = "append"
    <3>1. mark'[p] = End' /\ last'[p] = mark'[p] /\ snap'[p].lss = after
      BY <1>3, <2>1, <2>3, <2>4, <2>7 DEF after
    <3>2. conv'.lss <= mark'[p] /\ snap'[p].lss <= mark'[p] /\ conv'.lss <= snap'[p].lss
      BY <1>3, <2>1, <2>2, <2>3, <2>4, <2>7, <3>1
    <3>3. Within(mark[p])'
      BY <2>5, <3>1 DEF Within
    <3> QED BY <1>3, <1>4, <2>5, <2>6, <2>7, <3>1, <3>2, <3>3 DEF LineInv, Ahead
  <2>8. CASE pc'[p] = "final"
    <3>1. conv'.lss <= snap'[p].lss
      BY <2>1, <2>2 DEF after
    <3> QED BY <1>3, <1>4, <2>5, <2>6, <2>8, <3>1 DEF LineInv, Ahead
  <2> QED BY <2>1, <2>7, <2>8
<1> QED BY <1>5, <1>6, <1>7

(* Push, from its batch to its end: no other push is under way.            *)
LEMMA BatchInLine ==
  ASSUME OnePusher, Typed, LineInv, NEW p \in Proc,
         \/ AppendStep(p) \/ MergeWatermark(p) \/ PushMeta(p) \/ PushFinal(p)
  PROVE  LineInv'
<1> USE ConstantsAssumption
<1>0. TypeOK
  BY DEF Typed
<1>1. pc[p] \in {"append", "meta", "final"}
  BY DEF AppendStep, MergeWatermark, PushMeta, PushFinal, Goto
<1>2. Host[p] = Origin /\ \A q \in Proc \ {p} : Host[q] # Origin /\ pc[q] \notin PushStages
  BY <1>1 DEF OnePusher, LineInv, AtOrigin, PushStages
<1>3. /\ transcript' = transcript /\ todo'[p] \subseteq todo[p]
      /\ \A q \in Proc \ {p} : Same(q)
      /\ pc'[p] \in {"append", "meta", "final", "idle"}
      /\ stored' \subseteq stored \cup todo[p]
  <2>1. CASE AppendStep(p)
    BY <1>0, <2>1 DEF AppendStep, TypeOK, Same, local, PutStep
  <2>2. CASE MergeWatermark(p) \/ PushMeta(p)
    BY <1>0, <2>2 DEF MergeWatermark, PushMeta, Goto, TypeOK, Same, local
  <2>3. CASE PushFinal(p)
    BY <1>0, <2>3, OthersIdle DEF PushFinal, local
  <2> QED BY <2>1, <2>2, <2>3
<1>4. ASSUME NEW b, Within(b) PROVE Within(b)'
  <2>1. \A m \in Machine \ {Origin} : Lines(m)' = Lines(m)
    BY <1>3 DEF Lines
  <2>2. \A s \in stored' : s.idx <= b
    BY <1>3, <1>4 DEF Within
  <2>3. \A q \in Proc : \A s \in todo'[q] : s.idx <= b
    BY <1>3, <1>4 DEF Within, Same
  <2> QED BY <1>4, <2>1, <2>2, <2>3 DEF Within
<1>5. InLine' /\ Within(End)'
  <2>1. InLine' /\ End' = End
    BY <1>3 DEF LineInv, InLine, End
  <2>2. Within(End)'
    BY <1>4, <2>1 DEF LineInv, Within
  <2> QED BY <2>1, <2>2
<1>6. \A q \in Proc \ {p} : AtOrigin(q)' /\ Ahead(q)'
  BY <1>2, <1>3 DEF AtOrigin, Ahead, Same, PushStages
<1>7. AtOrigin(p)'
  BY <1>2, <1>3 DEF AtOrigin
<1>8. Ahead(p)'
  <2>1. Ahead(p)
    BY DEF LineInv
  <2>2. CASE AppendStep(p)
    <3>1. /\ pc[p] = "append" /\ pc'[p] = "append"
          /\ UNCHANGED <<conv, snap, mark, last>>
      BY <2>2 DEF AppendStep
    <3>2. Within(mark[p])'
      BY <1>4, <2>1, <3>1 DEF Ahead, Within
    <3> QED BY <2>1, <3>1, <3>2 DEF Ahead
  <2>3. CASE MergeWatermark(p)
    <3>1. /\ pc[p] = "append" /\ pc'[p] = "meta"
          /\ UNCHANGED <<snap, mark, last>>
          /\ conv'.lss \in {mark[p], conv.lss}
      BY <1>0, <2>3 DEF MergeWatermark, Goto, Watermark, TypeOK, Conv, NoConv
    <3>2. Within(mark[p])'
      BY <1>4, <2>1, <3>1 DEF Ahead, Within
    <3>3. mark[p] <= mark[p]
      BY <1>0 DEF TypeOK
    <3> QED BY <2>1, <3>1, <3>2, <3>3 DEF Ahead
  <2>4. CASE PushMeta(p)
    <3>1. pc'[p] = "final" /\ conv'.lss = last[p] /\ snap'[p].lss = last[p]
      BY <1>0, <2>4 DEF PushMeta, Goto, TypeOK
    <3>2. last[p] <= last[p]
      BY <1>0 DEF TypeOK
    <3> QED BY <3>1, <3>2 DEF Ahead
  <2>5. CASE PushFinal(p)
    <3>1. pc'[p] = "idle"
      BY <1>0, <2>5, OthersIdle DEF PushFinal
    <3> QED BY <3>1 DEF Ahead
  <2> QED BY <2>2, <2>3, <2>4, <2>5
<1> QED BY <1>5, <1>6, <1>7, <1>8 DEF LineInv

(* Pull, from where it reads the end of its transcript.                    *)
LEMMA PullInLine ==
  ASSUME OnePusher, TypeOK, LineInv, NEW p \in Proc, PullStage(p)
  PROVE  LineInv'
<1> USE ConstantsAssumption
<1>1. CASE Idle(p) /\ UNCHANGED <<transcript, remote>>
  BY <1>1, QuietLine
<1>2. CASE PullParse(p) /\ conv # NoConv
  <2>1. /\ UNCHANGED <<transcript, conv, stored>>
        /\ \A q \in Proc \ {p} : Same(q)
        /\ pc'[p] = "fetch" /\ todo'[p] = todo[p]
        /\ last'[p] = LastIndex(transcript[Host[p]])
    BY <1>2 DEF PullParse, TypeOK, Same, local, remote
  <2>2. \A m \in Machine : Lines(m)' = Lines(m)
    BY <2>1 DEF Lines
  <2>3. /\ \A b : Within(b) => Within(b)'
        /\ \A q \in Proc \ {p} : AtOrigin(q)' /\ Ahead(q)'
    BY <2>1, <2>2, Bystanders
  <2>4. InLine' /\ End' = End
    BY <2>1 DEF LineInv, InLine, End
  <2>5. Within(End)'
    BY <2>3, <2>4 DEF LineInv, Within
  <2>6. LastIndex(transcript[Origin]) = End
    BY EndOfLine DEF LineInv
  <2>7. AtOrigin(p)' /\ Ahead(p)'
    BY <2>1, <2>6 DEF LineInv, Within, AtOrigin, Ahead, PushStages
  <2> QED BY <2>3, <2>4, <2>5, <2>7 DEF LineInv
<1>3. CASE PullFetch(p) /\ StepsSince(last[p]) # {}
  <2>1. /\ UNCHANGED <<transcript, conv, stored>> /\ pc[p] = "fetch"
        /\ \A q \in Proc \ {p} : Same(q)
        /\ pc'[p] = "write" /\ todo'[p] = StepsSince(last[p])
    BY <1>3 DEF PullFetch, TypeOK, Same, local, remote
  <2>2. Host[p] # Origin
    <3>1. PICK s \in stored : s.idx > last[p]
      BY <1>3 DEF StepsSince
    <3>2. s.idx \in Int /\ last[p] \in Int
      BY DEF TypeOK, Step, Index
    <3> QED BY <2>1, <3>1, <3>2 DEF LineInv, AtOrigin
  <2>3. \A m \in Machine : Lines(m)' = Lines(m)
    BY <2>1 DEF Lines
  <2>4. /\ \A b : Within(b) => Within(b)'
        /\ \A q \in Proc \ {p} : AtOrigin(q)' /\ Ahead(q)'
    BY <2>1, <2>3, Bystanders DEF StepsSince
  <2>5. InLine' /\ End' = End
    BY <2>1 DEF LineInv, InLine, End
  <2>6. Within(End)'
    BY <2>4, <2>5 DEF LineInv, Within
  <2>7. AtOrigin(p)' /\ Ahead(p)'
    BY <2>1, <2>2 DEF AtOrigin, Ahead, PushStages
  <2> QED BY <2>4, <2>5, <2>6, <2>7 DEF LineInv
<1>4. CASE PullWrite(p)
  <2> DEFINE m == Host[p]
  <2>1. PICK s \in todo[p] :
          /\ transcript' = [transcript EXCEPT ![m] = Append(@, s)]
          /\ IF todo[p] = {s}
             THEN Idle(p)
             ELSE /\ todo' = [todo EXCEPT ![p] = @ \ {s}]
                  /\ UNCHANGED <<pc, snap, mark, last>>
    BY <1>4 DEF PullWrite
  <2>2. /\ UNCHANGED <<conv, stored>> /\ pc[p] = "write"
        /\ m \in Machine /\ m # Origin
    BY <1>4 DEF PullWrite, remote, LineInv, AtOrigin
  <2>3. /\ \A q \in Proc \ {p} : Same(q)
        /\ todo'[p] \subseteq todo[p] /\ pc'[p] \in {"idle", "write"}
    <3>1. CASE todo[p] = {s}
      BY <2>1, <3>1, OthersIdle
    <3>2. CASE todo[p] # {s}
      BY <2>1, <2>2, <3>2 DEF TypeOK, Same
    <3> QED BY <3>1, <3>2
  <2>4. transcript'[Origin] = transcript[Origin]
        /\ \A n \in Machine \ {Origin} : Lines(n)' \subseteq Lines(n) \cup {s}
    <3>1. ASSUME NEW n \in Machine \ {m}
          PROVE  transcript'[n] = transcript[n] /\ Lines(n)' = Lines(n)
      BY <2>1 DEF TypeOK, Lines
    <3>2. transcript[m] \in Seq(Step) /\ s \in Step
          /\ transcript'[m] = Append(transcript[m], s)
      BY <2>1, <2>2 DEF TypeOK
    <3>3. Lines(m)' = Lines(m) \cup {s}
      BY <2>2, <3>2, LinesOfAppend
    <3> QED BY <2>2, <3>1, <3>3
  <2>5. /\ \A b : Within(b) => Within(b)'
        /\ \A q \in Proc \ {p} : AtOrigin(q)' /\ Ahead(q)'
    BY <2>2, <2>3, <2>4, Bystanders
  <2>6. InLine' /\ End' = End
    BY <2>4 DEF LineInv, InLine, End
  <2>7. Within(End)'
    BY <2>5, <2>6 DEF LineInv, Within
  <2>8. AtOrigin(p)' /\ Ahead(p)'
    BY <2>2, <2>3 DEF AtOrigin, Ahead, PushStages
  <2> QED BY <2>5, <2>6, <2>7, <2>8 DEF LineInv
<1> QED
  BY <1>1, <1>2, <1>3, <1>4
  DEF PullStage, PullParse, PullFetch, local, remote

(* Steps that take from the store, or leave everything in it as it was.    *)
LEMMA LessInLine ==
  ASSUME LineInv, TypeOK, UNCHANGED <<transcript, pc, snap, todo, mark, last>>,
         stored' \subseteq stored, conv' \in {conv, NoConv}
  PROVE  LineInv'
<1>1. ASSUME NEW b, Within(b) PROVE Within(b)'
  BY <1>1 DEF Within, Lines
<1>2. InLine' /\ End' = End
  BY DEF LineInv, InLine, End
<1>3. Within(End)'
  BY <1>1, <1>2 DEF LineInv, Within
<1>4. ASSUME NEW p \in Proc PROVE AtOrigin(p)' /\ Ahead(p)'
  <2>1. AtOrigin(p)'
    BY DEF LineInv, AtOrigin
  <2>2. Ahead(p) /\ (Within(mark[p]) => Within(mark[p])')
    BY <1>1 DEF LineInv, Within
  <2>3. /\ conv.lss \in Int /\ snap[p].lss \in -2 .. MaxIndex
        /\ mark[p] \in -1 .. MaxIndex /\ NoConv.lss = -2
    BY ConstantsAssumption DEF TypeOK, Conv, NoConv
  <2>4. conv' = conv \/ (conv' = NoConv /\ conv'.lss <= snap[p].lss /\ conv'.lss <= mark[p])
    BY <2>3, ConstantsAssumption
  <2>5. CASE conv' = conv
    BY <2>1, <2>2, <2>5 DEF Ahead
  <2>6. CASE conv' = NoConv /\ conv'.lss <= snap[p].lss /\ conv'.lss <= mark[p]
    BY <2>1, <2>2, <2>6 DEF Ahead
  <2> QED BY <2>1, <2>4, <2>5, <2>6
<1> QED BY <1>2, <1>3, <1>4 DEF LineInv

LEMMA LineStep ==
  ASSUME OnePusher, ClearTyped, LineInv, [ClearNext]_allVars
  PROVE  LineInv'
<1>0. Typed /\ TypeOK
  BY DEF ClearTyped, Typed
<1>1. CASE Sync
  <2>1. Next
    BY <1>1, SyncIsNext
  <2>2. ASSUME NEW m \in Machine, Touch(m) PROVE LineInv'
    BY <1>0, <2>2, LessInLine DEF Touch, remote
  <2>3. ASSUME NEW p \in Proc,
               SyncRemoteChanges(p) \/ PullCommand(p) \/ Fail(p) \/ Restart(p)
        PROVE  LineInv'
    <3>1. CASE Fail(p) \/ Restart(p)
      BY <1>0, <3>1, QuietLine DEF Fail, Restart, local, remote
    <3>2. CASE SyncRemoteChanges(p) \/ PullCommand(p)
      <4>1. /\ UNCHANGED <<transcript, remote>> /\ pc'[p] = "pull"
            /\ todo'[p] = todo[p] /\ \A q \in Proc \ {p} : Same(q)
        BY <1>0, <3>2 DEF SyncRemoteChanges, PullCommand, Goto, TypeOK, Same,
                          local, remote
      <4> QED BY <1>0, <4>1, QuietLine
    <3> QED BY <2>3, <3>1, <3>2
  <2> QED
    BY <1>0, <2>1, <2>2, <2>3, AgentInLine, PushInLine, BatchInLine, PullInLine
    DEF Next, Work, Crash, Push, Pull
<1>2. CASE Clear
  BY <1>0, <1>2, ClearShrinks, LessInLine DEF local
<1>3. CASE StatusFetch \/ UNCHANGED allVars
  BY <1>0, <1>3, LessInLine DEF StatusFetch, allVars, vars
<1> QED BY <1>1, <1>2, <1>3 DEF ClearNext

(* A document that is written over, and stays, gets no smaller watermark.  *)
LEMMA WatermarkGrows ==
  ASSUME OnePusher, ClearTyped, LineInv, [ClearNext]_allVars, conv' # NoConv
  PROVE  conv'.lss >= conv.lss
<1>0. TypeOK
  BY DEF ClearTyped, Typed
<1>1. conv.lss \in Int
  BY <1>0, ConstantsAssumption DEF TypeOK, Conv, NoConv
<1>2. CASE conv' = conv
  BY <1>1, <1>2
<1>3. ASSUME NEW p \in Proc, PushCreate(p) PROVE conv'.lss >= conv.lss
  <2>1. Ahead(p) /\ pc[p] = "create" /\ conv' = snap[p]
    BY <1>3 DEF PushCreate, Goto, LineInv
  <2>2. conv = NoConv /\ snap[p].lss = -1
    BY <2>1 DEF Ahead
  <2> QED BY <2>1, <2>2 DEF NoConv
<1>4. ASSUME NEW p \in Proc, MergeWatermark(p) PROVE conv'.lss >= conv.lss
  <2>1. conv.lss <= mark[p] /\ conv'.lss \in {mark[p], conv.lss}
    BY <1>0, <1>4 DEF MergeWatermark, Goto, Watermark, LineInv, Ahead, TypeOK,
                      Conv, NoConv
  <2>2. mark[p] \in Int
    BY <1>0, ConstantsAssumption DEF TypeOK
  <2> QED BY <1>1, <2>1, <2>2
<1>5. ASSUME NEW p \in Proc, PushMeta(p) PROVE conv'.lss >= conv.lss
  <2>1. conv.lss <= mark[p] /\ conv'.lss = mark[p]
    BY <1>0, <1>5 DEF PushMeta, Goto, LineInv, Ahead, TypeOK
  <2>2. mark[p] \in Int
    BY <1>0, ConstantsAssumption DEF TypeOK
  <2> QED BY <1>1, <2>1, <2>2
<1>6. ASSUME NEW p \in Proc, PushFinal(p) PROVE conv'.lss >= conv.lss
  <2>1. snap[p] \in Conv
    BY <1>6 DEF PushFinal, ClearTyped, Typed, Carries, PushStages
  <2>2. conv.lss <= snap[p].lss /\ conv'.lss = snap[p].lss
    BY <1>6, <2>1 DEF PushFinal, LineInv, Ahead, Conv
  <2>3. snap[p].lss \in Int
    BY <2>1, ConstantsAssumption DEF Conv
  <2> QED BY <1>1, <2>2, <2>3
<1>7. ASSUME Sync PROVE conv'.lss >= conv.lss
  <2>1. Next
    BY <1>7, SyncIsNext
  <2> QED
    BY <1>2, <1>3, <1>4, <1>5, <1>6, <2>1
    DEF Next, Work, Crash, Push, Pull, PullStage, AgentAppend, Touch, PushBegin,
        PushParse, AppendStep, SyncRemoteChanges, PullCommand, PullParse,
        PullFetch, PullWrite, Fail, Restart, local, remote
<1>8. ASSUME Clear \/ StatusFetch \/ UNCHANGED allVars PROVE conv' = conv
  BY <1>8, ClearShrinks DEF StatusFetch, allVars, vars
<1> QED BY <1>2, <1>7, <1>8 DEF ClearNext

LEMMA AlwaysInLine == ASSUME OnePusher PROVE ClearSpec => []LineInv
<1>1. ClearInit => LineInv
  BY LineInit DEF ClearInit
<1>2. ClearTyped /\ LineInv /\ [ClearNext]_allVars => LineInv'
  BY LineStep
<1> QED BY <1>1, <1>2, AlwaysClearTyped, PTL DEF ClearSpec

(* While one machine pushes, the watermark of a document never moves back: *)
(* not by a push that read it before a clear, nor by the record without an *)
(* ID that a merge after the clear makes.                                  *)
THEOREM WatermarkNeverBack ==
  ASSUME OnePusher PROVE ClearSpec => WatermarkMonotone
<1>1. ClearTyped /\ LineInv /\ [ClearNext]_allVars
        => [conv' # NoConv => conv'.lss >= conv.lss]_conv
  BY WatermarkGrows
<1> QED
  BY <1>1, AlwaysInLine, AlwaysClearTyped, PTL DEF ClearSpec, WatermarkMonotone

-----------------------------------------------------------------------------
(* One machine pushes: what is covered between clears, and the status.     *)

(* What the other machines have, or are about to write, is stored.         *)
ReadersStored ==
  /\ \A m \in Machine \ {Origin} : Indices(Lines(m)) \subseteq Indices(stored)
  /\ \A p \in Proc : pc[p] = "write" => Indices(todo[p]) \subseteq Indices(stored)

(* What a watermark tells whoever reads it.                                *)
Told(w) == w >= 0 => 0 .. w \subseteq Indices(stored) /\ ReadersStored

(* A push carries the document it read, and its batch covers what is       *)
(* between that watermark and its own.                                     *)
OnTheWay(p) ==
  /\ pc[p] \in {"parse", "append"} => conv = snap[p]
  /\ pc[p] = "append" => 0 .. mark[p] \subseteq Indices(stored) \cup Indices(todo[p])
  /\ pc[p] = "meta" => 0 .. mark[p] \subseteq Indices(stored)
  /\ pc[p] = "final" => Told(snap[p].lss)

SettledInv ==
  /\ Told(conv.lss)
  /\ ~NoId(conv)
  /\ seenAt = clears => Told(seen.lss)
  /\ \A p \in Proc : OnTheWay(p)

(* A status read before the last clear began does not count.               *)
EpochInv ==
  /\ seenAt <= clears
  /\ stage # "none" => seenAt < clears
  /\ Settled => SettledInv

(* A batch that covers all there is below its end covers the readers.      *)
LEMMA CoveredReaders ==
  ASSUME TypeOK, NEW p \in Proc, Within(mark[p]),
         0 .. mark[p] \subseteq Indices(stored)
  PROVE  ReadersStored
<1> USE ConstantsAssumption
<1>1. ASSUME NEW s \in Step, s.idx <= mark[p] PROVE s.idx \in Indices(stored)
  <2>1. s.idx \in 0 .. MaxIndex /\ mark[p] \in -1 .. MaxIndex
    BY DEF Step, Index, TypeOK
  <2>2. s.idx \in 0 .. mark[p]
    BY <1>1, <2>1
  <2> QED BY <2>2
<1>2. ASSUME NEW m \in Machine \ {Origin}, NEW s \in Lines(m)
      PROVE  s.idx \in Indices(stored)
  <2>1. s \in Step
    BY LineType DEF TypeOK, Lines
  <2> QED BY <1>1, <2>1 DEF Within
<1>3. ASSUME NEW q \in Proc, NEW s \in todo[q] PROVE s.idx \in Indices(stored)
  BY <1>1 DEF Within, TypeOK
<1> QED BY <1>2, <1>3 DEF ReadersStored, Indices

(* While nothing is taken from the store, what the readers have stays      *)
(* stored: a pull writes what it has fetched.                              *)
LEMMA ReadersKeep ==
  ASSUME OnePusher, TypeOK, LineInv, Next, ReadersStored
  PROVE  ReadersStored'
<1> USE ConstantsAssumption
<1>0. Indices(stored) \subseteq Indices(stored')
  BY IndicesGrow
<1>1. ASSUME \A m \in Machine \ {Origin} : Lines(m)' = Lines(m),
             \A q \in Proc : pc'[q] = "write" =>
               pc[q] = "write" /\ todo'[q] \subseteq todo[q]
      PROVE  ReadersStored'
  BY <1>0, <1>1 DEF ReadersStored, Indices
<1>2. ASSUME NEW m \in Machine, AgentAppend(m) PROVE ReadersStored'
  <2>1. \A n \in Machine \ {Origin} : Lines(n)' = Lines(n)
    BY <1>2 DEF AgentAppend, OnePusher, Lines, TypeOK
  <2> QED BY <1>1, <1>2, <2>1 DEF AgentAppend
<1>3. ASSUME NEW p \in Proc, PullFetch(p) PROVE ReadersStored'
  <2>1. /\ UNCHANGED <<transcript, stored>>
        /\ \A q \in Proc \ {p} : pc'[q] = pc[q] /\ todo'[q] = todo[q]
        /\ pc'[p] = "write" => todo'[p] \subseteq stored
    BY <1>3 DEF PullFetch, Idle, TypeOK, StepsSince, local, remote
  <2>2. \A m \in Machine : Lines(m)' = Lines(m)
    BY <2>1 DEF Lines
  <2>3. \A q \in Proc : pc'[q] = "write" => Indices(todo'[q]) \subseteq Indices(stored)
    BY <2>1 DEF ReadersStored, Indices
  <2>4. Indices(stored') = Indices(stored)
    BY <2>1
  <2> QED BY <2>2, <2>3, <2>4 DEF ReadersStored, Indices
<1>4. ASSUME NEW p \in Proc, PullWrite(p) PROVE ReadersStored'
  <2> DEFINE m == Host[p]
  <2>1. PICK s \in todo[p] :
          /\ transcript' = [transcript EXCEPT ![m] = Append(@, s)]
          /\ IF todo[p] = {s}
             THEN Idle(p)
             ELSE /\ todo' = [todo EXCEPT ![p] = @ \ {s}]
                  /\ UNCHANGED <<pc, snap, mark, last>>
    BY <1>4 DEF PullWrite
  <2>2. stored' = stored /\ pc[p] = "write" /\ m \in Machine
    BY <1>4 DEF PullWrite, remote
  <2>3. \A q \in Proc : todo'[q] \subseteq todo[q] /\ pc'[q] \in {pc[q], "idle"}
    <3>0. DOMAIN todo = Proc /\ DOMAIN pc = Proc
      BY DEF TypeOK
    <3>1. CASE todo[p] = {s}
      <4>1. pc' = [pc EXCEPT ![p] = "idle"] /\ todo' = [todo EXCEPT ![p] = {}]
        BY <2>1, <3>1 DEF Idle
      <4> QED BY <3>0, <4>1
    <3>2. CASE todo[p] # {s}
      <4>1. pc' = pc /\ todo' = [todo EXCEPT ![p] = @ \ {s}]
        BY <2>1, <3>2
      <4> QED BY <3>0, <4>1
    <3> QED BY <3>1, <3>2
  <2>4. \A n \in Machine : Lines(n)' \subseteq Lines(n) \cup {s}
    <3>1. ASSUME NEW n \in Machine \ {m} PROVE Lines(n)' = Lines(n)
      BY <2>1 DEF TypeOK, Lines
    <3>2. transcript[m] \in Seq(Step) /\ s \in Step
          /\ transcript'[m] = Append(transcript[m], s)
      BY <2>1, <2>2 DEF TypeOK
    <3>3. Lines(m)' = Lines(m) \cup {s}
      BY <2>2, <3>2, LinesOfAppend
    <3> QED BY <3>1, <3>3
  <2>5. s.idx \in Indices(stored)
    BY <2>1, <2>2 DEF ReadersStored, Indices
  <2>6. \A n \in Machine \ {Origin} : Indices(Lines(n)') \subseteq Indices(stored')
    BY <2>2, <2>4, <2>5 DEF ReadersStored, Indices
  <2>7. \A q \in Proc : pc'[q] = "write" => Indices(todo'[q]) \subseteq Indices(stored')
    BY <2>2, <2>3 DEF ReadersStored, Indices
  <2> QED BY <2>6, <2>7 DEF ReadersStored, Indices
<1>5. ASSUME NEW m \in Machine, Touch(m) PROVE ReadersStored'
  BY <1>1, <1>5 DEF Touch, Lines
<1>6. ASSUME NEW p \in Proc, Push(p) PROVE ReadersStored'
  <2>1. /\ transcript' = transcript
        /\ \A q \in Proc : pc'[q] = "write" =>
             pc[q] = "write" /\ todo'[q] \subseteq todo[q]
    BY <1>6 DEF Push, PushBegin, PushCreate, PushParse, AppendStep,
      MergeWatermark, PushMeta, PushFinal, Goto, Idle, TypeOK, local
  <2> QED BY <1>1, <2>1 DEF Lines
<1>7. ASSUME NEW p \in Proc, \/ SyncRemoteChanges(p) \/ PullCommand(p)
                             \/ PullParse(p) \/ Fail(p) \/ Restart(p)
      PROVE  ReadersStored'
  <2>1. /\ transcript' = transcript
        /\ \A q \in Proc : pc'[q] = "write" =>
             pc[q] = "write" /\ todo'[q] \subseteq todo[q]
    BY <1>7 DEF SyncRemoteChanges, PullCommand, PullParse, Fail, Restart, Goto,
      Idle, TypeOK, local
  <2> QED BY <1>1, <2>1 DEF Lines
<1> QED
  BY <1>2, <1>3, <1>4, <1>5, <1>6, <1>7
  DEF Next, Work, Crash, Pull, PullStage

LEMMA TellsAfter ==
  ASSUME OnePusher, TypeOK, LineInv, Next, NEW w, Told(w)
  PROVE  w >= 0 => 0 .. w \subseteq Indices(stored') /\ ReadersStored'
BY IndicesGrow, ReadersKeep DEF Told

(* A step that leaves the document alone and only ends or begins calls, or *)
(* appends to a transcript.                                                *)
LEMMA AsideSettled ==
  ASSUME OnePusher, TypeOK, LineInv, SettledInv, Next,
         UNCHANGED <<conv, seen, seenAt, clears>>,
         \A q \in Proc : pc'[q] \in PushStages => Same(q)
  PROVE  SettledInv'
<1>1. Told(conv.lss)' /\ ~NoId(conv')
  BY TellsAfter DEF SettledInv, Told, NoId
<1>2. seenAt' = clears' => Told(seen.lss)'
  BY TellsAfter DEF SettledInv, Told
<1>3. ASSUME NEW q \in Proc PROVE OnTheWay(q)'
  <2>1. CASE pc'[q] \in PushStages
    <3>1. OnTheWay(q) /\ Same(q)
      BY <2>1 DEF SettledInv
    <3>2. Indices(stored) \subseteq Indices(stored')
      BY IndicesGrow
    <3>3. Told(snap[q].lss) => Told(snap[q].lss)'
      BY <3>1, TellsAfter DEF Told, Same
    <3> QED BY <3>1, <3>2, <3>3 DEF OnTheWay, Same
  <2>2. CASE pc'[q] \notin PushStages
    BY <2>2 DEF OnTheWay, PushStages
  <2> QED BY <2>1, <2>2
<1> QED BY <1>1, <1>2, <1>3 DEF SettledInv

(* A push up to its batch: what it selects is all there is above the       *)
(* watermark it read.                                                      *)
LEMMA BeginSettled ==
  ASSUME OnePusher, TypeOK, LineInv, SettledInv, Next,
         UNCHANGED <<seen, seenAt, clears>>, NEW p \in Proc,
         PushBegin(p) \/ PushCreate(p) \/ PushParse(p)
  PROVE  SettledInv'
<1> USE ConstantsAssumption
<1>1. Host[p] = Origin /\ \A q \in Proc \ {p} : pc[q] \notin PushStages
  BY DEF PushBegin, PushCreate, PushParse, Goto, OnePusher, LineInv, AtOrigin,
         PushStages
<1>2. UNCHANGED <<transcript, stored>> /\ \A q \in Proc \ {p} : Same(q)
  BY DEF PushBegin, PushCreate, PushParse, Goto, TypeOK, Same, local, remote
<1>3. \A q \in Proc \ {p} : OnTheWay(q)'
  BY <1>1, <1>2 DEF OnTheWay, Same, PushStages
<1>4. seenAt' = clears' => Told(seen.lss)'
  BY TellsAfter DEF SettledInv, Told
<1>5. CASE PushBegin(p)
  <2>1. /\ conv' = conv
        /\ pc'[p] = "create" \/ (pc'[p] = "parse" /\ snap'[p] = conv)
    BY <1>5 DEF PushBegin, Goto, TypeOK, remote
  <2>2. Told(conv.lss)' /\ ~NoId(conv')
    BY <2>1, TellsAfter DEF SettledInv, Told, NoId
  <2>3. OnTheWay(p)'
    BY <2>1 DEF OnTheWay
  <2> QED BY <1>3, <1>4, <2>2, <2>3 DEF SettledInv
<1>6. CASE PushCreate(p)
  <2>1. /\ pc[p] = "create" /\ pc'[p] = "parse"
        /\ conv' = snap[p] /\ snap'[p] = snap[p]
    BY <1>6 DEF PushCreate, Goto, TypeOK
  <2>2. Ahead(p)
    BY DEF LineInv
  <2>3. snap[p].lss = -1 /\ snap[p].src \in Machine
    BY <2>1, <2>2 DEF Ahead
  <2>4. Told(conv.lss)' /\ ~NoId(conv')
    BY <2>1, <2>3 DEF Told, NoId
  <2>5. OnTheWay(p)'
    BY <2>1 DEF OnTheWay
  <2> QED BY <1>3, <1>4, <2>4, <2>5 DEF SettledInv
<1>7. CASE PushParse(p)
  <2> DEFINE after == conv.lss
             new == NewSteps(Origin, after)
  <2>1. /\ pc[p] = "parse" /\ conv' = conv /\ snap' = snap
        /\ conv = snap[p]
    BY <1>7 DEF PushParse, Goto, remote, SettledInv, OnTheWay
  <2>2. /\ todo'[p] = new /\ pc'[p] \in {"append", "final"}
        /\ pc'[p] = "append" => mark'[p] = LastIndex(transcript[Origin])
    BY <1>1, <1>7, <2>1 DEF PushParse, Goto, TypeOK
  <2>3. Told(conv.lss)' /\ ~NoId(conv')
    BY <2>1, TellsAfter DEF SettledInv, Told, NoId
  <2>4. /\ transcript[Origin] \in Seq(Step)
        /\ LastIndex(transcript[Origin]) = End
        /\ End \in Int /\ Len(transcript[Origin]) \in Nat
    BY EndOfLine DEF LineInv
  <2>5. ASSUME NEW i \in 0 .. End
        PROVE  i \in Indices(stored) \cup Indices(new)
    <3>1. after \in Int
      BY DEF TypeOK, Conv, NoConv
    <3>2. CASE i <= after
      <4>1. after >= 0 /\ i \in 0 .. after
        BY <3>1, <3>2
      <4> QED BY <4>1 DEF SettledInv, Told
    <3>3. CASE i > after
      <4>1. i + 1 \in DOMAIN transcript[Origin] /\ (i + 1) - 1 = i
        BY <2>4 DEF End
      <4>2. transcript[Origin][i + 1].idx = i
        BY <4>1 DEF LineInv, InLine
      <4>3. \E s \in new : s.idx = transcript[Origin][i + 1].idx
        <5>1. \A k \in DOMAIN transcript[Origin] :
                transcript[Origin][k].idx > after =>
                  \E s \in new : s.idx = transcript[Origin][k].idx
          BY <2>4, <3>1, NewStepsOf, ConstantsAssumption
        <5> HIDE DEF new, after
        <5> QED BY <3>3, <4>1, <4>2, <5>1
      <4> QED BY <4>2, <4>3 DEF Indices
    <3> QED BY <3>1, <3>2, <3>3
  <2>6. OnTheWay(p)'
    <3> HIDE DEF new, after
    <3>1. CASE pc'[p] = "append"
      BY <1>2, <2>1, <2>2, <2>4, <2>5, <3>1 DEF OnTheWay
    <3>2. CASE pc'[p] = "final"
      BY <2>1, <2>3, <3>2 DEF OnTheWay
    <3> QED BY <2>2, <3>1, <3>2
  <2> QED BY <1>3, <1>4, <2>3, <2>6 DEF SettledInv
<1> QED BY <1>5, <1>6, <1>7

(* A push from its batch on.                                               *)
LEMMA BatchSettled ==
  ASSUME OnePusher, Typed, LineInv, LineInv', SettledInv, Next,
         UNCHANGED <<seen, seenAt, clears>>, NEW p \in Proc,
         \/ AppendStep(p) \/ MergeWatermark(p) \/ PushMeta(p) \/ PushFinal(p)
  PROVE  SettledInv'
<1> USE ConstantsAssumption
<1>0. TypeOK
  BY DEF Typed
<1>1. /\ pc[p] \in {"append", "meta", "final"}
      /\ \A q \in Proc \ {p} : pc[q] \notin PushStages
  <2>1. pc[p] \in {"append", "meta", "final"}
    BY DEF AppendStep, MergeWatermark, PushMeta, PushFinal, Goto
  <2> QED BY <2>1, OnlyPush DEF PushStages
<1>2. transcript' = transcript /\ \A q \in Proc \ {p} : Same(q)
  BY <1>0 DEF AppendStep, MergeWatermark, PushMeta, PushFinal, Goto, Idle,
              TypeOK, Same, local
<1>3. \A q \in Proc \ {p} : OnTheWay(q)'
  BY <1>1, <1>2 DEF OnTheWay, Same, PushStages
<1>4. seenAt' = clears' => Told(seen.lss)'
  BY <1>0, TellsAfter DEF SettledInv, Told
<1>5. OnTheWay(p) /\ Ahead(p) /\ snap[p] \in Conv
  BY <1>1 DEF SettledInv, LineInv, Typed, Carries, PushStages
<1>6. CASE AppendStep(p)
  <2>1. PICK s \in todo[p] : /\ stored' = PutStep(stored, s)
                             /\ todo' = [todo EXCEPT ![p] = @ \ {s}]
    BY <1>6 DEF AppendStep
  <2>2. /\ pc[p] = "append" /\ UNCHANGED <<conv, pc, snap, mark>>
    BY <1>6 DEF AppendStep
  <2>3. Told(conv.lss)' /\ ~NoId(conv')
    BY <1>0, <2>2, TellsAfter DEF SettledInv, Told, NoId
  <2>4. Indices(stored') = Indices(stored) \cup {s.idx}
        /\ todo'[p] = todo[p] \ {s}
    BY <1>0, <2>1, PutStepIndices DEF TypeOK
  <2>5. Indices(todo[p]) \subseteq Indices(todo'[p]) \cup {s.idx}
    BY <2>4 DEF Indices
  <2>6. OnTheWay(p)'
    BY <1>5, <2>2, <2>4, <2>5 DEF OnTheWay
  <2> QED BY <1>3, <1>4, <2>3, <2>6 DEF SettledInv
<1>7. CASE MergeWatermark(p)
  <2>1. /\ pc[p] = "append" /\ pc'[p] = "meta" /\ todo[p] = {}
        /\ conv' = conv \/ conv' = Watermark(p)
        /\ UNCHANGED <<stored, snap, todo, mark>>
    BY <1>0, <1>7 DEF MergeWatermark, Goto, Flushed, TypeOK
  <2>2. 0 .. mark[p] \subseteq Indices(stored)
    BY <1>5, <2>1 DEF OnTheWay, Indices
  <2>3. ReadersStored
    BY <1>0, <1>5, <2>1, <2>2, CoveredReaders DEF Ahead
  <2>4. ReadersStored' /\ OnTheWay(p)'
    BY <1>0, <2>1, <2>2, <2>3, ReadersKeep DEF OnTheWay
  <2>5. Told(conv.lss)' /\ ~NoId(conv')
    <3>1. CASE conv' = conv
      BY <1>0, <3>1, TellsAfter DEF SettledInv, Told, NoId
    <3>2. CASE conv' = Watermark(p)
      <4>1. conv \in Conv /\ conv # NoConv
        BY <1>5, <2>1 DEF OnTheWay, Conv, NoConv
      <4>2. conv' = [conv EXCEPT !.lss = mark[p]]
        BY <3>2, <4>1 DEF Watermark
      <4>3. conv'.lss = mark[p] /\ conv'.src = conv.src
        BY <4>1, <4>2 DEF Conv
      <4>4. Told(conv.lss)'
        BY <2>1, <2>2, <2>4, <4>3 DEF Told
      <4>5. ~NoId(conv')
        BY <4>1, <4>3 DEF SettledInv, NoId
      <4> QED BY <4>4, <4>5
    <3> QED BY <2>1, <3>1, <3>2
  <2> QED BY <1>3, <1>4, <2>4, <2>5 DEF SettledInv
<1>8. CASE PushMeta(p)
  <2>1. /\ pc[p] = "meta" /\ pc'[p] = "final" /\ stored' = stored
        /\ conv' = [lss |-> last[p], src |-> Host[p]] /\ snap'[p] = conv'
    BY <1>0, <1>8 DEF PushMeta, Goto, TypeOK
  <2>2. last[p] = mark[p] /\ 0 .. mark[p] \subseteq Indices(stored)
    BY <1>5, <2>1 DEF OnTheWay, Ahead
  <2>3. ReadersStored'
    <3>1. ReadersStored
      BY <1>0, <1>5, <2>1, <2>2, CoveredReaders DEF Ahead
    <3> QED BY <1>0, <3>1, ReadersKeep
  <2>4. conv'.lss = last[p] /\ conv'.src \in Machine
    BY <2>1
  <2>5. Told(conv.lss)' /\ Told(snap[p].lss)' /\ ~NoId(conv')
    BY <2>1, <2>2, <2>3, <2>4 DEF Told, NoId
  <2>6. OnTheWay(p)'
    BY <2>1, <2>5 DEF OnTheWay
  <2> QED BY <1>3, <1>4, <2>5, <2>6 DEF SettledInv
<1>9. CASE PushFinal(p)
  <2>1. pc[p] = "final" /\ conv' = [snap[p] EXCEPT !.src = Host[p]] /\ Idle(p)
        /\ stored' = stored
    BY <1>9 DEF PushFinal
  <2>2. conv'.lss = snap[p].lss /\ conv'.src \in Machine
    BY <1>5, <2>1 DEF Conv
  <2>3. Told(snap[p].lss)
    BY <1>5, <2>1 DEF OnTheWay
  <2>4. Told(conv.lss)' /\ ~NoId(conv')
    BY <1>0, <2>2, <2>3, TellsAfter DEF Told, NoId
  <2>5. OnTheWay(p)'
    BY <1>0, <2>1, OthersIdle DEF OnTheWay
  <2> QED BY <1>3, <1>4, <2>4, <2>5 DEF SettledInv
<1> QED BY <1>6, <1>7, <1>8, <1>9

LEMMA SyncSettled ==
  ASSUME OnePusher, Typed, LineInv, LineInv', SettledInv, Sync
  PROVE  SettledInv'
<1>0. TypeOK /\ Next /\ UNCHANGED <<seen, seenAt, clears>>
  BY SyncIsNext DEF Typed, clearVars, statusVars
<1>1. ASSUME NEW m \in Machine, AgentAppend(m) \/ Touch(m) PROVE SettledInv'
  <2>1. conv' = conv /\ \A q \in Proc : Same(q)
    BY <1>1 DEF AgentAppend, Touch, Same, remote
  <2> QED BY <1>0, <2>1, AsideSettled
<1>2. ASSUME NEW p \in Proc, Pull(p) PROVE SettledInv'
  <2>1. conv' = conv /\ \A q \in Proc : pc'[q] \in PushStages => Same(q)
    <3>1. CASE SyncRemoteChanges(p) \/ PullCommand(p) \/ PullParse(p) \/ PullFetch(p)
      BY <1>0, <3>1 DEF SyncRemoteChanges, PullCommand, PullParse, PullFetch,
        Goto, Idle, TypeOK, Same, PushStages, remote
    <3>2. CASE PullWrite(p)
      <4>1. conv' = conv /\ pc[p] = "write"
        BY <3>2 DEF PullWrite, remote
      <4>2. PICK s \in todo[p] :
              IF todo[p] = {s}
              THEN Idle(p)
              ELSE /\ todo' = [todo EXCEPT ![p] = @ \ {s}]
                   /\ UNCHANGED <<pc, snap, mark, last>>
        BY <3>2 DEF PullWrite
      <4>3. CASE todo[p] = {s}
        BY <1>0, <4>1, <4>2, <4>3, OthersIdle DEF PushStages
      <4>4. CASE todo[p] # {s}
        BY <1>0, <4>1, <4>2, <4>4 DEF TypeOK, Same, PushStages
      <4> QED BY <4>3, <4>4
    <3> QED BY <1>2, <3>1, <3>2 DEF Pull, PullStage
  <2> QED BY <1>0, <2>1, AsideSettled
<1>3. ASSUME NEW p \in Proc, Fail(p) \/ Restart(p) PROVE SettledInv'
  <2>1. conv' = conv /\ Idle(p)
    BY <1>3 DEF Fail, Restart, remote
  <2>2. \A q \in Proc : pc'[q] \in PushStages => Same(q)
    BY <1>0, <2>1, OthersIdle DEF PushStages
  <2> QED BY <1>0, <2>1, <2>2, AsideSettled
<1> QED
  BY <1>0, <1>1, <1>2, <1>3, BeginSettled, BatchSettled
  DEF Next, Work, Crash, Push

LEMMA EpochInit == ASSUME ClearInit PROVE EpochInv
<1>1. conv = NoConv /\ seen = NoConv /\ clears = 0 /\ seenAt = 0 /\ stage = "none"
  BY DEF ClearInit, Init
<1>2. \A p \in Proc : pc[p] = "idle"
  BY DEF ClearInit, Init
<1>3. ~NoId(conv)
  BY <1>1 DEF NoId
<1>4. Told(conv.lss) /\ Told(seen.lss)
  BY <1>1 DEF Told, NoConv
<1> QED BY <1>1, <1>2, <1>3, <1>4 DEF EpochInv, SettledInv, OnTheWay

LEMMA EpochStep ==
  ASSUME OnePusher, ClearTyped, LineInv, LineInv', SweepInv, EpochInv,
         [ClearNext]_allVars
  PROVE  EpochInv'
<1> USE MaxClearsAssumption
<1>0. /\ Typed /\ TypeOK /\ clears \in Int /\ seenAt \in Int /\ -1 < clears
  BY DEF ClearTyped, ClearTypeOK, Typed
<1>1. CASE Sync
  <2>1. /\ UNCHANGED <<stage, clears, seenAt>>
        /\ Settled' => Settled
    BY <1>1 DEF Sync, clearVars, statusVars, Settled
  <2>2. Settled' => SettledInv'
    BY <1>0, <1>1, <2>1, SyncSettled DEF EpochInv
  <2> QED BY <2>1, <2>2 DEF EpochInv
<1>2. CASE ClearBegin
  <2>1. stage' # "none" /\ clears' = clears + 1 /\ seenAt' = seenAt
    BY <1>2 DEF ClearBegin, statusVars
  <2> QED BY <1>0, <2>1 DEF EpochInv, Settled
<1>3. CASE ListSteps \/ DeleteStep \/ DeleteDoc \/ RefuseDelete
  <2>1. /\ stage # "none" /\ stage' # "none"
        /\ UNCHANGED <<clears, seenAt>>
    BY <1>3 DEF ListSteps, DeleteStep, DeleteDoc, RefuseDelete, SweepInv, statusVars
  <2> QED BY <2>1 DEF EpochInv, Settled
<1>4. CASE ClearEnd
  <2>1. /\ stage = "delete" /\ stage' = "none"
        /\ UNCHANGED <<conv, stored, pc, clears, seenAt, tainted>>
    BY <1>4 DEF ClearEnd, vars, statusVars
  <2>2. seenAt < clears
    BY <2>1 DEF EpochInv
  <2>3. seenAt' < clears'
    BY <2>1, <2>2
  <2>4. ASSUME ~tainted PROVE SettledInv'
    <3>1. conv' = NoConv
      BY <1>4, <2>1, <2>4, SweepEnds
    <3>2. \A p \in Proc : pc'[p] \notin {"parse", "append", "meta", "final"}
      BY <2>1, <2>4 DEF SweepInv, SomePush, Pushing
    <3>3. Told(conv.lss)' /\ ~NoId(conv')
      BY <3>1 DEF Told, NoId, NoConv
    <3>4. \A p \in Proc : OnTheWay(p)'
      BY <3>2 DEF OnTheWay
    <3>5. seenAt' # clears'
      BY <1>0, <2>1, <2>2
    <3> QED BY <3>3, <3>4, <3>5 DEF SettledInv
  <2>5. seenAt' <= clears'
    BY <1>0, <2>1, <2>2
  <2> QED BY <2>1, <2>3, <2>4, <2>5 DEF EpochInv, Settled
<1>5. CASE ClearFail
  <2>1. /\ tainted' /\ stage' = "none" /\ UNCHANGED <<clears, seenAt>>
    BY <1>5 DEF ClearFail, statusVars
  <2> QED BY <2>1 DEF EpochInv, Settled
<1>6. CASE StatusFetch
  <2>1. /\ seen' = conv /\ seenAt' = (IF stage = "none" THEN clears ELSE -1)
        /\ UNCHANGED <<transcript, conv, stored, pc, snap, todo, mark>>
        /\ UNCHANGED <<stage, clears, tainted>>
    BY <1>6 DEF StatusFetch, vars, clearVars
  <2>2. seenAt' <= clears' /\ (stage' # "none" => seenAt' < clears')
    BY <1>0, <2>1
  <2>3. ReadersStored' = ReadersStored
    BY <2>1 DEF ReadersStored, Lines
  <2>4. ASSUME Settled PROVE SettledInv'
    <3>1. SettledInv
      BY <2>4 DEF EpochInv
    <3>2. Told(conv.lss)' /\ Told(seen.lss)' /\ ~NoId(conv')
      BY <2>1, <2>3, <3>1 DEF SettledInv, Told, NoId
    <3>3. \A p \in Proc : OnTheWay(p)'
      BY <2>1, <2>3, <3>1 DEF SettledInv, OnTheWay, Told
    <3> QED BY <3>2, <3>3 DEF SettledInv
  <2>5. Settled' = Settled
    BY <2>1 DEF Settled
  <2> QED BY <2>2, <2>4, <2>5 DEF EpochInv
<1>7. CASE UNCHANGED allVars
  <2>1. /\ UNCHANGED <<transcript, conv, stored, pc, snap, todo, mark>>
        /\ UNCHANGED <<stage, clears, tainted, seen, seenAt>>
    BY <1>7 DEF allVars, vars, clearVars, statusVars
  <2>2. SettledInv' = SettledInv
    BY <2>1 DEF SettledInv, OnTheWay, Told, ReadersStored, NoId, Lines
  <2>3. Settled' = Settled
    BY <2>1 DEF Settled
  <2> QED BY <2>1, <2>2, <2>3 DEF EpochInv
<1> QED
  BY <1>1, <1>2, <1>3, <1>4, <1>5, <1>6, <1>7 DEF ClearNext, Clear

LEMMA AlwaysEpoch == ASSUME OnePusher PROVE ClearSpec => []EpochInv
<1>1. ClearInit => EpochInv
  BY EpochInit
<1>2. /\ ClearTyped /\ LineInv /\ LineInv' /\ SweepInv /\ EpochInv
      /\ [ClearNext]_allVars
      => EpochInv'
  BY EpochStep
<1>3. ClearSpec => []SweepInv
  BY SweepInit, SweepStep, AlwaysClearTyped, PTL DEF ClearSpec
<1> QED
  BY <1>1, <1>2, <1>3, AlwaysInLine, AlwaysClearTyped, PTL DEF ClearSpec

(* Until a push and a clear overlap, and again once a clear that none      *)
(* overlapped is over, every step up to the watermark is stored, wherever  *)
(* pushes and pulls fail, and the document can be pulled.                  *)
THEOREM CoveredBetweenClears ==
  ASSUME OnePusher PROVE ClearSpec => []CoveredUnlessRaced
<1>1. ASSUME ClearTyped, EpochInv, Settled PROVE WatermarkCovered /\ ~NoId(conv)
  <2>1. Told(conv.lss) /\ ~NoId(conv)
    BY <1>1 DEF EpochInv, SettledInv
  <2>2. conv.lss \in Int
    BY <1>1, ConstantsAssumption DEF ClearTyped, Typed, TypeOK, Conv, NoConv
  <2>3. ASSUME NEW i \in Index, i <= conv.lss PROVE i \in Indices(stored)
    <3>1. conv.lss >= 0 /\ i \in 0 .. conv.lss
      BY <2>2, <2>3, ConstantsAssumption DEF Index
    <3> QED BY <2>1, <3>1 DEF Told
  <2> QED BY <2>1, <2>3 DEF WatermarkCovered
<1>2. ClearTyped /\ EpochInv => CoveredUnlessRaced
  BY <1>1 DEF CoveredUnlessRaced
<1> QED BY <1>2, AlwaysEpoch, AlwaysClearTyped, PTL

(* A transcript that status calls synced is stored, on the machine that    *)
(* pushes and on those that only read, although status compares a watermark*)
(* it read earlier with a count of lines.                                  *)
THEOREM StatusTellsTruth ==
  ASSUME OnePusher PROVE ClearSpec => []StatusTruthful
<1>1. ASSUME ClearTyped, LineInv, EpochInv, Settled, seenAt = clears,
             NEW m \in Machine, Synced(m), NEW s \in Lines(m)
      PROVE  s.idx \in Indices(stored)
  <2> DEFINE t == transcript[m]
             w == seen.lss
  <2>1. /\ t \in Seq(Step) /\ t # <<>> /\ w + 1 >= Len(t) /\ seen # NoConv
    BY <1>1 DEF ClearTyped, Typed, TypeOK, Synced
  <2>2. Len(t) \in Nat /\ Len(t) > 0
    BY <2>1
  <2>3. w \in Int
    BY <1>1, ConstantsAssumption DEF ClearTyped, ClearTypeOK, Conv, NoConv
  <2>4. w >= 0
    <3> HIDE DEF w, t
    <3> QED BY <2>1, <2>2, <2>3
  <2>5. 0 .. w \subseteq Indices(stored) /\ ReadersStored
    BY <1>1, <2>4 DEF EpochInv, SettledInv, Told
  <2>6. CASE m = Origin
    <3>1. PICK k \in DOMAIN t : s = t[k]
      BY <1>1 DEF Lines
    <3>2. s.idx = k - 1
      BY <1>1, <2>6, <3>1 DEF LineInv, InLine
    <3>3. k \in 1 .. Len(t)
      BY <2>1
    <3>4. k - 1 \in 0 .. w
      <4> HIDE DEF w, t
      <4> QED BY <2>1, <2>2, <2>3, <3>3
    <3> QED BY <2>5, <3>2, <3>4
  <2>7. CASE m # Origin
    BY <1>1, <2>5, <2>7 DEF ReadersStored, Indices
  <2> QED BY <2>6, <2>7
<1>2. ClearTyped /\ LineInv /\ EpochInv => StatusTruthful
  BY <1>1 DEF StatusTruthful, Indices
<1> QED BY <1>2, AlwaysEpoch, AlwaysInLine, AlwaysClearTyped, PTL

=============================================================================
