------------------------- MODULE ArtifactSyncProofs -------------------------
(***************************************************************************)
(* Theorems about ArtifactSync: the types and the limit of the workers for *)
(* any machines; what is published, and what the readers have, while one   *)
(* machine edits and pushes.                                               *)
(***************************************************************************)
EXTENDS ArtifactSync, FiniteSetTheorems, TLAPS

-----------------------------------------------------------------------------
(* Types, and the workers' limit.                                          *)

(* The parts of TypeOK; a set that is counted must be known to be finite.  *)
DiskType ==
  /\ disk \in [Machine -> [File -> Version]]
  /\ event \in [Machine -> BOOLEAN]
  /\ src \in Machine \cup {NoMachine}
  /\ doc \in [File -> Contents]
CallType ==
  /\ pc \in [Machine -> Stages]
  /\ batch \in [Machine -> SUBSET File]
  /\ copy \in [Machine -> [File -> Contents]]
  /\ busy \in [Machine -> SUBSET File]
  /\ latest \in Version
  /\ restarts \in 0 .. MaxRestarts
Crew(m) == IsFiniteSet(busy[m]) /\ Cardinality(busy[m]) <= Workers
Limited == \A m \in Machine : Crew(m)
Typed == DiskType /\ CallType

LEMMA VersionType ==
  /\ Version \subseteq Nat /\ 0 \in Version
  /\ Nothing \in Contents /\ NoCopy \in [File -> Contents]
<1>1. Version \subseteq Nat /\ 0 \in Version
  BY ConstantsAssumption DEF Version
<1> QED BY <1>1 DEF Nothing, NoCopy, Contents

LEMMA TypedInit == Init => Typed
<1>1. 0 \in 0 .. MaxRestarts
  BY ConstantsAssumption
<1> QED BY <1>1, VersionType DEF Init, Typed, DiskType, CallType, Stages

LEMMA IdleTyped ==
  ASSUME CallType, NEW m \in Machine, Idle(m)
  PROVE  /\ pc' \in [Machine -> Stages]
         /\ batch' \in [Machine -> SUBSET File]
         /\ copy' \in [Machine -> [File -> Contents]]
         /\ busy' \in [Machine -> SUBSET File]
BY VersionType DEF CallType, Idle, Stages

LEMMA TypedStep == Typed /\ [Next]_vars => Typed'
<1> SUFFICES ASSUME DiskType, CallType, [Next]_vars PROVE Typed'
  BY DEF Typed
<1> USE ConstantsAssumption, VersionType
<1>1. ASSUME NEW m \in Machine, Edit(m) PROVE Typed'
  <2>1. latest' \in Version /\ latest' = latest + 1
    BY <1>1 DEF Edit, CallType, Version
  <2>2. PICK f \in File : disk' = [disk EXCEPT ![m][f] = latest']
    BY <1>1, <2>1 DEF Edit
  <2>3. disk' \in [Machine -> [File -> Version]]
    BY <2>1, <2>2 DEF DiskType
  <2>4. event' \in [Machine -> BOOLEAN]
    BY <1>1 DEF Edit, DiskType
  <2> QED BY <1>1, <2>1, <2>3, <2>4 DEF Edit, Typed, DiskType, CallType
<1>2. ASSUME NEW m \in Machine, PushBegin(m) PROVE Typed'
  <2>1. [f \in File |-> [sum |-> disk[m][f], body |-> 0]] \in [File -> Contents]
    BY DEF DiskType, Contents
  <2>2. copy' \in [Machine -> [File -> Contents]]
    BY <1>2, <2>1 DEF PushBegin, CallType
  <2>3. /\ pc' \in [Machine -> Stages]
        /\ event' \in [Machine -> BOOLEAN]
        /\ src' \in Machine \cup {NoMachine}
    BY <1>2 DEF PushBegin, Goto, DiskType, CallType, Stages
  <2>4. batch' \in [Machine -> SUBSET File]
    BY <1>2 DEF PushBegin, CallType
  <2> QED BY <1>2, <2>2, <2>3, <2>4 DEF PushBegin, Typed, DiskType, CallType
<1>3. ASSUME NEW m \in Machine, PushSteps(m) PROVE Typed'
  BY <1>3 DEF PushSteps, Goto, call, Typed, DiskType, CallType, Stages
<1>4. ASSUME NEW m \in Machine, CheckArtifact(m) PROVE Typed'
  <2>1. PICK f \in batch[m] :
          /\ batch' = [batch EXCEPT ![m] = @ \ {f}]
          /\ \/ UNCHANGED <<copy, busy>>
             \/ /\ copy' = [copy EXCEPT ![m][f].body = disk[m][f]]
                /\ busy' = [busy EXCEPT ![m] = @ \cup {f}]
    BY <1>4 DEF CheckArtifact
  <2>2. f \in File /\ disk[m][f] \in Version
    BY DEF DiskType, CallType
  <2>3. copy[m][f] \in Contents
    BY <2>2 DEF CallType
  <2> DEFINE c == [copy[m] EXCEPT ![f].body = disk[m][f]]
  <2>4. c \in [File -> Contents]
    <3>1. [copy[m][f] EXCEPT !.body = disk[m][f]] \in Contents
      BY <2>2, <2>3 DEF Contents
    <3>2. c = [copy[m] EXCEPT ![f] = [copy[m][f] EXCEPT !.body = disk[m][f]]]
      OBVIOUS
    <3> QED BY <3>1, <3>2 DEF CallType
  <2>5. copy' \in [Machine -> [File -> Contents]]
    <3>1. copy' = copy \/ copy' = [copy EXCEPT ![m] = c]
      BY <2>1
    <3> HIDE DEF c
    <3> QED BY <2>4, <3>1 DEF CallType
  <2>6. /\ batch' \in [Machine -> SUBSET File]
        /\ busy' \in [Machine -> SUBSET File]
    BY <2>1, <2>2 DEF CallType
  <2> QED BY <1>4, <2>5, <2>6 DEF CheckArtifact, Typed, DiskType, CallType
<1>5. ASSUME NEW m \in Machine, SaveArtifact(m) PROVE Typed'
  <2>1. PICK f \in busy[m] : /\ doc' = [doc EXCEPT ![f] = copy[m][f]]
                             /\ busy' = [busy EXCEPT ![m] = @ \ {f}]
    BY <1>5 DEF SaveArtifact
  <2>2. f \in File /\ copy[m][f] \in Contents
    BY DEF CallType
  <2>3. doc' \in [File -> Contents] /\ busy' \in [Machine -> SUBSET File]
    BY <2>1, <2>2 DEF DiskType, CallType
  <2> QED BY <1>5, <2>3 DEF SaveArtifact, Typed, DiskType, CallType
<1>6. ASSUME NEW m \in Machine, PushWait(m) PROVE Typed'
  BY <1>6 DEF PushWait, Goto, call, Typed, DiskType, CallType, Stages
<1>7. ASSUME NEW m \in Machine, PushFinal(m) PROVE Typed'
  BY <1>7, IdleTyped DEF PushFinal, Typed, DiskType, CallType
<1>8. ASSUME NEW m \in Machine, PullBegin(m) \/ PullCommand(m) PROVE Typed'
  <2>1. Fetch(m, "pull") \/ Fetch(m, "command")
    BY <1>8 DEF PullBegin, PullCommand
  <2>2. pc' \in [Machine -> Stages]
    BY <2>1 DEF Fetch, Goto, CallType, Stages
  <2>3. batch' \in [Machine -> SUBSET File]
    <3>1. Listed(m) \in SUBSET File
      BY DEF Listed
    <3>2. batch' = [batch EXCEPT ![m] = Listed(m)]
      BY <2>1 DEF Fetch
    <3> QED BY <3>1, <3>2 DEF CallType
  <2>4. copy' \in [Machine -> [File -> Contents]]
    BY <2>1 DEF Fetch, DiskType, CallType
  <2> QED BY <2>4, <2>1, <2>2, <2>3 DEF Fetch, Typed, DiskType, CallType
<1>9. ASSUME NEW m \in Machine, PullWrite(m) PROVE Typed'
  <2>1. CASE batch[m] = {}
    BY <1>9, <2>1, IdleTyped DEF PullWrite, Typed, DiskType, CallType
  <2>2. CASE batch[m] # {}
    <3>1. PICK f \in batch[m] :
            /\ disk' = [disk EXCEPT ![m][f] = copy[m][f].body]
            /\ batch' = [batch EXCEPT ![m] = @ \ {f}]
      BY <1>9, <2>2 DEF PullWrite
    <3>2. f \in File /\ copy[m][f] \in Contents
      BY DEF CallType
    <3>3. copy[m][f].body \in Version
      BY <3>2 DEF Contents
    <3>4. /\ disk' \in [Machine -> [File -> Version]]
          /\ batch' \in [Machine -> SUBSET File]
      BY <3>1, <3>3 DEF DiskType, CallType
    <3> QED BY <1>9, <2>2, <3>4 DEF PullWrite, Typed, DiskType, CallType
  <2> QED BY <2>1, <2>2
<1>10. ASSUME NEW m \in Machine, Restart(m) PROVE Typed'
  <2>1. restarts' \in 0 .. MaxRestarts
    BY <1>10 DEF Restart, CallType
  <2>2. event' \in [Machine -> BOOLEAN]
    BY <1>10 DEF Restart, DiskType, Discovered
  <2> QED BY <1>10, <2>1, <2>2, IdleTyped DEF Restart, Typed, DiskType, CallType
<1>11. CASE UNCHANGED vars
  BY <1>11 DEF vars, Typed, DiskType, CallType
<1> QED
  BY <1>1, <1>2, <1>3, <1>4, <1>5, <1>6, <1>7, <1>8, <1>9, <1>10, <1>11
  DEF Next, Work, PushStage

(* A worker begins only while one is free.                                 *)
LEMMA LimitedStep == Typed /\ Limited /\ [Next]_vars => Limited'
<1> SUFFICES ASSUME CallType, Limited, [Next]_vars, NEW n \in Machine
             PROVE  Crew(n)'
  BY DEF Typed, Limited
<1> USE ConstantsAssumption
<1>1. Crew(n) /\ Cardinality(busy[n]) \in Nat
  BY FS_CardinalityType DEF Limited, Crew
<1>2. CASE busy'[n] = busy[n]
  BY <1>1, <1>2 DEF Crew
<1>3. CASE busy'[n] = {}
  BY <1>3, FS_EmptySet DEF Crew
<1>4. ASSUME NEW m \in Machine, CheckArtifact(m) PROVE Crew(n)'
  <2>1. PICK f : busy' = busy \/ busy' = [busy EXCEPT ![m] = @ \cup {f}]
    BY <1>4 DEF CheckArtifact
  <2>2. CASE busy'[n] # busy[n]
    <3>1. n = m /\ busy'[n] = busy[n] \cup {f}
      BY <2>1, <2>2 DEF CallType
    <3>2. Cardinality(busy[n]) < Workers
      BY <1>4, <3>1 DEF CheckArtifact, WorkerFree
    <3>3. /\ IsFiniteSet(busy'[n])
          /\ Cardinality(busy'[n]) <= Cardinality(busy[n]) + 1
          /\ Cardinality(busy'[n]) \in Nat
      <4>1. /\ IsFiniteSet(busy[n] \cup {f})
            /\ Cardinality(busy[n] \cup {f}) =
                 IF f \in busy[n] THEN Cardinality(busy[n]) ELSE Cardinality(busy[n]) + 1
        BY <1>1, FS_AddElement DEF Crew
      <4> QED BY <1>1, <3>1, <4>1
    <3>4. Cardinality(busy'[n]) <= Workers
      BY <1>1, <3>2, <3>3
    <3> QED BY <3>3, <3>4 DEF Crew
  <2> QED BY <1>2, <2>2
<1>5. ASSUME NEW m \in Machine, SaveArtifact(m) PROVE Crew(n)'
  <2>1. PICK f : busy' = [busy EXCEPT ![m] = @ \ {f}]
    BY <1>5 DEF SaveArtifact
  <2>2. CASE busy'[n] # busy[n]
    <3>1. busy'[n] = busy[n] \ {f}
      BY <2>1, <2>2 DEF CallType
    <3>2. /\ IsFiniteSet(busy'[n])
          /\ Cardinality(busy'[n]) <= Cardinality(busy[n])
          /\ Cardinality(busy'[n]) \in Nat
      <4>1. /\ IsFiniteSet(busy[n] \ {f})
            /\ Cardinality(busy[n] \ {f}) =
                 IF f \in busy[n] THEN Cardinality(busy[n]) - 1 ELSE Cardinality(busy[n])
        BY <1>1, FS_RemoveElement DEF Crew
      <4>2. Cardinality(busy[n] \ {f}) \in Nat
        BY <4>1, FS_CardinalityType
      <4> QED BY <1>1, <3>1, <4>1, <4>2
    <3>3. Cardinality(busy'[n]) <= Workers
      BY <1>1, <3>2 DEF Crew
    <3> QED BY <3>2, <3>3 DEF Crew
  <2> QED BY <1>2, <2>2
<1>6. ASSUME NEW m \in Machine, Idle(m) PROVE Crew(n)'
  BY <1>2, <1>3, <1>6 DEF Idle, CallType
<1>7. ASSUME NEW m \in Machine,
             PushFinal(m) \/ Restart(m) \/ (PullWrite(m) /\ batch[m] = {})
      PROVE  Crew(n)'
  BY <1>6, <1>7 DEF PushFinal, Restart, PullWrite
<1>8. ASSUME NEW m \in Machine,
             \/ Edit(m) \/ PushBegin(m) \/ PushSteps(m) \/ PushWait(m)
             \/ PullBegin(m) \/ PullCommand(m) \/ (PullWrite(m) /\ batch[m] # {})
      PROVE  Crew(n)'
  BY <1>2, <1>8 DEF Edit, PushBegin, PushSteps, PushWait, PullBegin, PullCommand,
                    Fetch, PullWrite, call
<1>9. CASE UNCHANGED vars
  BY <1>2, <1>9 DEF vars
<1> QED
  BY <1>4, <1>5, <1>7, <1>8, <1>9 DEF Next, Work, PushStage

LEMMA AlwaysTyped == Spec => []Typed
BY TypedInit, TypedStep, PTL DEF Spec

(* The variables keep their types, and no call has more workers in flight  *)
(* than the errgroup's limit, for any machines that edit, push and pull.   *)
THEOREM ArtifactTypes == Spec => []TypeOK
<1>1. Init => Limited
  BY FS_EmptySet, ConstantsAssumption DEF Init, Limited, Crew
<1>2. Typed /\ Limited => TypeOK
  BY DEF Typed, DiskType, CallType, Limited, Crew, TypeOK
<1> QED BY <1>1, <1>2, AlwaysTyped, LimitedStep, PTL DEF Spec

-----------------------------------------------------------------------------
(* One machine edits and pushes.                                           *)

(* Machine w is the only one that edits and pushes; the others pull.       *)
OneWriter(w) == Author \subseteq {w} /\ Pusher \subseteq {w}

(* A reader is never ahead of what is published, nor what it writes behind *)
(* what it has.                                                            *)
Reader(m) ==
  /\ pc[m] \in {"idle", "pull", "command"}
  /\ \A f \in File : disk[m][f] <= doc[f].body
  /\ pc[m] # "idle" =>
       \A f \in batch[m] :
         disk[m][f] <= copy[m][f].body /\ copy[m][f].body <= doc[f].body

(* A checksum is never newer than the content saved or read with it, which *)
(* is never newer than the file.                                           *)
Ordered(w, f) ==
  /\ doc[f].sum <= doc[f].body /\ doc[f].body <= disk[w][f]
  /\ pc[w] \in {"begin", "push"} => copy[w][f].sum <= disk[w][f]
  /\ f \in busy[w] =>
       /\ pc[w] = "push"
       /\ copy[w][f].sum <= copy[w][f].body
       /\ doc[f].body <= copy[w][f].body /\ copy[w][f].body <= disk[w][f]

(* Unless an event waits, the hashes are those of the files, and a file    *)
(* that is not published is still in the hands of the push.                *)
InHand(w, f) == pc[w] \in {"begin", "push"} /\ f \in batch[w] \cup busy[w]
Fresh(w, f) ==
  /\ pc[w] \in {"begin", "push"} => copy[w][f].sum = disk[w][f]
  /\ doc[f] = [sum |-> disk[w][f], body |-> disk[w][f]] \/ InHand(w, f)

(* A pull command on the writer's machine puts back what is published.     *)
PutsBack(w) ==
  pc[w] = "command" => \A f \in batch[w] : copy[w][f].body = doc[f].body

Writer(w) ==
  /\ src \in {NoMachine, w}
  /\ pc[w] # "pull"
  /\ PutsBack(w)
  /\ \A f \in File : disk[w][f] <= latest
  /\ \A f \in File : Ordered(w, f)
  /\ ~event[w] => \A f \in File : Fresh(w, f)

ArtifactInv(w) == Writer(w) /\ \A m \in Machine \ {w} : Reader(m)

LEMMA Numbers ==
  ASSUME Typed, NEW m \in Machine, NEW f \in File
  PROVE  /\ disk[m][f] \in Nat
         /\ doc[f].sum \in Nat /\ doc[f].body \in Nat
         /\ copy[m][f].sum \in Nat /\ copy[m][f].body \in Nat
<1>1. /\ disk[m][f] \in Version /\ doc[f] \in Contents
      /\ copy[m][f] \in Contents
  BY DEF Typed, DiskType, CallType
<1> QED BY <1>1, VersionType DEF Contents

(* A document, or a copy, is its checksum and its content.                 *)
LEMMA SumAndBody ==
  ASSUME Typed, NEW m \in Machine, NEW f \in File, NEW v
  PROVE  /\ doc[f].sum = v /\ doc[f].body = v => doc[f] = [sum |-> v, body |-> v]
         /\ copy[m][f].sum = v /\ copy[m][f].body = v
              => copy[m][f] = [sum |-> v, body |-> v]
<1>1. doc[f] \in Contents /\ copy[m][f] \in Contents
  BY DEF Typed, DiskType, CallType
<1> QED BY <1>1 DEF Contents

(* What the writer does lets the readers be, unless it takes back content. *)
LEMMA ReadersStay ==
  ASSUME Typed, NEW w \in Machine, \A m \in Machine \ {w} : Reader(m),
         \A m \in Machine \ {w} :
           /\ disk'[m] = disk[m] /\ pc'[m] = pc[m]
           /\ batch'[m] = batch[m] /\ copy'[m] = copy[m],
         \A f \in File : doc'[f].body \in Nat /\ doc[f].body <= doc'[f].body
  PROVE  \A m \in Machine \ {w} : Reader(m)'
<1> SUFFICES ASSUME NEW m \in Machine \ {w} PROVE Reader(m)'
  OBVIOUS
<1>1. Reader(m)
  OBVIOUS
<1>2. ASSUME NEW f \in File PROVE disk[m][f] <= doc'[f].body
  <2>1. disk[m][f] <= doc[f].body
    BY <1>1 DEF Reader
  <2> QED BY <2>1, Numbers
<1>3. ASSUME pc[m] # "idle", NEW f \in batch[m]
      PROVE  disk[m][f] <= copy[m][f].body /\ copy[m][f].body <= doc'[f].body
  <2>1. f \in File
    BY DEF Typed, CallType
  <2>2. disk[m][f] <= copy[m][f].body /\ copy[m][f].body <= doc[f].body
    BY <1>1, <1>3 DEF Reader
  <2> QED BY <2>1, <2>2, Numbers
<1> QED BY <1>1, <1>2, <1>3 DEF Reader

(* What a reader does leaves the writer and the other readers alone.       *)
LEMMA WriterStays ==
  ASSUME Typed, NEW w \in Machine, ArtifactInv(w), NEW m \in Machine \ {w},
         UNCHANGED <<src, doc, latest>>, Reader(m)',
         \A n \in Machine \ {m} :
           /\ disk'[n] = disk[n] /\ event'[n] = event[n] /\ pc'[n] = pc[n]
           /\ batch'[n] = batch[n] /\ copy'[n] = copy[n] /\ busy'[n] = busy[n]
  PROVE  ArtifactInv(w)'
<1>1. Writer(w)'
  BY DEF ArtifactInv, Writer, PutsBack, Ordered, Fresh, InHand
<1>2. ASSUME NEW n \in Machine \ {w, m} PROVE Reader(n)'
  BY DEF ArtifactInv, Reader
<1> QED BY <1>1, <1>2 DEF ArtifactInv

LEMMA OneWriterInit ==
  ASSUME NEW w \in Machine, Init PROVE ArtifactInv(w)
<1>1. \A f \in File : doc[f] = Nothing /\ \A m \in Machine : disk[m][f] = 0
  BY DEF Init, NoCopy
<1>2. \A m \in Machine : pc[m] = "idle" /\ busy[m] = {}
  BY DEF Init
<1>3. src = NoMachine /\ latest = 0
  BY DEF Init
<1> QED
  BY <1>1, <1>2, <1>3
  DEF ArtifactInv, Writer, PutsBack, Reader, Ordered, Fresh, Nothing

(* Edits and pushes are the writer's.                                      *)
LEMMA EditKeeps ==
  ASSUME Typed, NEW w \in Machine, ArtifactInv(w), Edit(w)
  PROVE  ArtifactInv(w)'
<1> DEFINE v == latest + 1
<1>1. PICK g \in File : disk' = [disk EXCEPT ![w][g] = v]
  BY DEF Edit
<1>2. /\ \A m \in Machine \ {w} : disk'[m] = disk[m]
      /\ disk'[w][g] = v /\ \A f \in File \ {g} : disk'[w][f] = disk[w][f]
      /\ UNCHANGED <<src, doc, pc, batch, copy, busy>>
      /\ event'[w] /\ latest' = v
  BY <1>1 DEF Edit, Typed, DiskType
<1>3. latest \in Nat /\ \A f \in File : disk[w][f] <= latest
  BY VersionType DEF Typed, CallType, ArtifactInv, Writer
<1>4. ASSUME NEW f \in File
      PROVE  disk[w][f] <= disk'[w][f] /\ disk'[w][f] \in Nat /\ disk'[w][f] <= latest'
  BY <1>2, <1>3, Numbers
<1>5. ASSUME NEW f \in File PROVE Ordered(w, f)'
  <2>1. Ordered(w, f)
    BY DEF ArtifactInv, Writer
  <2> QED BY <1>2, <1>4, <2>1, Numbers DEF Ordered
<1>6. Writer(w)'
  BY <1>2, <1>4, <1>5 DEF ArtifactInv, Writer, PutsBack
<1>7. \A m \in Machine \ {w} : Reader(m)'
  BY <1>2 DEF ArtifactInv, Reader
<1> QED BY <1>6, <1>7 DEF ArtifactInv

LEMMA BeginKeeps ==
  ASSUME Typed, NEW w \in Machine, ArtifactInv(w), PushBegin(w)
  PROVE  ArtifactInv(w)'
<1>1. /\ UNCHANGED <<disk, doc, busy, latest>> /\ src' \in {NoMachine, w}
      /\ pc[w] = "idle" /\ pc'[w] = "begin"
      /\ batch'[w] = {f \in File : disk[w][f] # 0}
      /\ \A m \in Machine \ {w} :
           pc'[m] = pc[m] /\ batch'[m] = batch[m] /\ copy'[m] = copy[m]
  BY DEF PushBegin, Goto, Typed, DiskType, CallType, ArtifactInv, Writer
<1>2. \A f \in File : copy'[w][f].sum = disk[w][f]
  <2>1. copy'[w] = [f \in File |-> [sum |-> disk[w][f], body |-> 0]]
    BY DEF PushBegin, Typed, CallType
  <2> QED BY <2>1
<1>3. ASSUME NEW f \in File PROVE Ordered(w, f)' /\ Fresh(w, f)'
  <2>1. Ordered(w, f) /\ f \notin busy[w]
    BY <1>1 DEF ArtifactInv, Writer, Ordered
  <2>2. Ordered(w, f)'
    BY <1>1, <1>2, <2>1, Numbers DEF Ordered
  <2>3. CASE disk[w][f] = 0
    <3>1. doc[f].sum = 0 /\ doc[f].body = 0
      BY <2>1, <2>3, Numbers DEF Ordered
    <3>2. doc[f] = [sum |-> disk[w][f], body |-> disk[w][f]]
      BY <2>3, <3>1, SumAndBody
    <3> QED BY <1>1, <1>2, <2>2, <3>2 DEF Fresh
  <2>4. CASE disk[w][f] # 0
    BY <1>1, <1>2, <2>2, <2>4 DEF Fresh, InHand
  <2> QED BY <2>3, <2>4
<1>4. Writer(w)'
  BY <1>1, <1>3 DEF ArtifactInv, Writer, PutsBack
<1>5. \A m \in Machine \ {w} : Reader(m)'
  BY <1>1 DEF ArtifactInv, Reader
<1> QED BY <1>4, <1>5 DEF ArtifactInv

(* A worker reads the file it finds changed, or finds it as it was.        *)
LEMMA CheckKeeps ==
  ASSUME Typed, NEW w \in Machine, ArtifactInv(w), CheckArtifact(w)
  PROVE  ArtifactInv(w)'
<1>1. PICK g \in batch[w] :
        /\ batch' = [batch EXCEPT ![w] = @ \ {g}]
        /\ IF HashUnchanged(w, g)
           THEN UNCHANGED <<copy, busy>>
           ELSE /\ copy' = [copy EXCEPT ![w][g].body = disk[w][g]]
                /\ busy' = [busy EXCEPT ![w] = @ \cup {g}]
  BY DEF CheckArtifact
<1>2. /\ UNCHANGED <<disk, event, src, doc, pc, latest>> /\ pc[w] = "push"
      /\ batch'[w] = batch[w] \ {g} /\ g \in File
      /\ \A m \in Machine \ {w} : batch'[m] = batch[m] /\ copy'[m] = copy[m]
  BY <1>1 DEF CheckArtifact, Typed, CallType
<1>3. /\ \A f \in File : copy'[w][f].sum = copy[w][f].sum
      /\ \A f \in File \ {g} : copy'[w][f].body = copy[w][f].body
      /\ \/ /\ doc[g].sum = copy[w][g].sum
            /\ copy'[w][g].body = copy[w][g].body
            /\ busy'[w] = busy[w]
         \/ /\ copy'[w][g].body = disk[w][g]
            /\ busy'[w] = busy[w] \cup {g}
  <2>1. CASE HashUnchanged(w, g)
    BY <1>1, <2>1 DEF HashUnchanged
  <2>2. CASE ~HashUnchanged(w, g)
    <3>1. copy'[w] = [copy[w] EXCEPT ![g].body = disk[w][g]]
      BY <1>1, <2>2 DEF Typed, CallType
    <3>2. \A f \in File \ {g} : copy'[w][f] = copy[w][f]
      BY <3>1 DEF Typed, CallType
    <3>3. copy'[w][g] = [copy[w][g] EXCEPT !.body = disk[w][g]]
      BY <1>2, <3>1 DEF Typed, CallType
    <3>4. copy[w][g] \in Contents
      BY <1>2 DEF Typed, CallType
    <3>5. copy'[w][g].sum = copy[w][g].sum /\ copy'[w][g].body = disk[w][g]
      BY <3>3, <3>4 DEF Contents
    <3>6. busy'[w] = busy[w] \cup {g}
      BY <1>1, <2>2 DEF Typed, CallType
    <3> QED BY <3>2, <3>5, <3>6
  <2> QED BY <2>1, <2>2
<1>4. ASSUME NEW f \in File PROVE Ordered(w, f)'
  <2>1. Ordered(w, f)
    BY DEF ArtifactInv, Writer
  <2>2. CASE f # g
    BY <1>2, <1>3, <2>1, <2>2 DEF Ordered
  <2>3. CASE f = g
    <3>1. copy[w][f].sum <= disk[w][f] /\ doc[f].body <= disk[w][f]
      BY <1>2, <2>1 DEF Ordered
    <3>2. disk[w][f] <= disk[w][f]
      BY Numbers
    <3> QED BY <1>2, <1>3, <2>1, <2>3, <3>1, <3>2 DEF Ordered
  <2> QED BY <2>2, <2>3
<1>5. ASSUME ~event[w], NEW f \in File PROVE Fresh(w, f)'
  <2>1. Fresh(w, f) /\ Ordered(w, f)
    BY <1>5 DEF ArtifactInv, Writer
  <2>2. CASE f # g \/ busy'[w] = busy[w] \cup {g}
    BY <1>2, <1>3, <2>1, <2>2 DEF Fresh, InHand
  <2>3. CASE f = g /\ doc[g].sum = copy[w][g].sum
    <3>1. doc[f].sum = disk[w][f] /\ doc[f].body = disk[w][f]
      BY <1>2, <2>1, <2>3, Numbers DEF Fresh, Ordered
    <3>2. doc[f] = [sum |-> disk[w][f], body |-> disk[w][f]]
      BY <3>1, SumAndBody
    <3> QED BY <1>2, <1>3, <2>1, <3>2 DEF Fresh
  <2> QED BY <1>3, <2>2, <2>3
<1>6. Writer(w)'
  BY <1>2, <1>3, <1>4, <1>5 DEF ArtifactInv, Writer, PutsBack
<1>7. \A m \in Machine \ {w} : Reader(m)'
  BY <1>2 DEF ArtifactInv, Reader
<1> QED BY <1>6, <1>7 DEF ArtifactInv

(* What is saved is no older than what was there.                          *)
LEMMA SaveKeeps ==
  ASSUME Typed, NEW w \in Machine, ArtifactInv(w), SaveArtifact(w)
  PROVE  ArtifactInv(w)'
<1>1. PICK g \in busy[w] : /\ doc' = [doc EXCEPT ![g] = copy[w][g]]
                           /\ busy' = [busy EXCEPT ![w] = @ \ {g}]
  BY DEF SaveArtifact
<1>2. /\ UNCHANGED <<disk, event, src, pc, batch, copy, latest>>
      /\ busy'[w] = busy[w] \ {g} /\ g \in File
      /\ doc'[g] = copy[w][g] /\ \A f \in File \ {g} : doc'[f] = doc[f]
  BY <1>1 DEF SaveArtifact, Typed, DiskType, CallType
<1>3. /\ pc[w] = "push" /\ copy[w][g].sum <= copy[w][g].body
      /\ doc[g].body <= copy[w][g].body /\ copy[w][g].body <= disk[w][g]
  BY <1>2 DEF ArtifactInv, Writer, Ordered
<1>4. ASSUME NEW f \in File PROVE Ordered(w, f)'
  <2>1. Ordered(w, f)
    BY DEF ArtifactInv, Writer
  <2>2. CASE f # g
    BY <1>2, <2>1, <2>2 DEF Ordered
  <2>3. CASE f = g
    BY <1>2, <1>3, <2>1, <2>3 DEF Ordered
  <2> QED BY <2>2, <2>3
<1>5. ASSUME ~event[w], NEW f \in File PROVE Fresh(w, f)'
  <2>1. Fresh(w, f)
    BY <1>5 DEF ArtifactInv, Writer
  <2>2. CASE f # g
    BY <1>2, <2>1, <2>2 DEF Fresh, InHand
  <2>3. CASE f = g
    <3>1. copy[w][g].sum = disk[w][g] /\ copy[w][g].body = disk[w][g]
      BY <1>2, <1>3, <2>1, <2>3, Numbers DEF Fresh
    <3>2. doc'[g] = [sum |-> disk[w][g], body |-> disk[w][g]]
      BY <1>2, <3>1, SumAndBody
    <3> QED BY <1>2, <2>1, <2>3, <3>2 DEF Fresh
  <2> QED BY <2>2, <2>3
<1>6. Writer(w)'
  BY <1>2, <1>3, <1>4, <1>5 DEF ArtifactInv, Writer, PutsBack
<1>7. \A f \in File : doc'[f].body \in Nat /\ doc[f].body <= doc'[f].body
  <2>1. ASSUME NEW f \in File
        PROVE  doc'[f].body \in Nat /\ doc[f].body <= doc'[f].body
    BY <1>2, <1>3, Numbers
  <2> QED BY <2>1
<1>8. \A m \in Machine \ {w} : Reader(m)'
  BY <1>2, <1>7, ReadersStay DEF ArtifactInv
<1> QED BY <1>6, <1>8 DEF ArtifactInv

(* The other steps of the writer change neither files nor documents.       *)
LEMMA WriterMoves ==
  ASSUME Typed, NEW w \in Machine, ArtifactInv(w),
         \/ PushSteps(w) \/ PushWait(w) \/ PushFinal(w) \/ Restart(w)
  PROVE  ArtifactInv(w)'
<1>1. /\ UNCHANGED <<disk, doc, latest>> /\ src' \in {NoMachine, w}
      /\ \A m \in Machine \ {w} :
           pc'[m] = pc[m] /\ batch'[m] = batch[m] /\ copy'[m] = copy[m]
  BY DEF PushSteps, PushWait, PushFinal, Restart, Goto, Idle, call, Typed,
         CallType, ArtifactInv, Writer
<1>2. \A m \in Machine \ {w} : Reader(m)'
  BY <1>1 DEF ArtifactInv, Reader
<1>3. CASE PushSteps(w)
  <2>1. /\ pc[w] = "begin" /\ pc'[w] = "push" /\ UNCHANGED <<event, batch, copy, busy>>
    BY <1>3 DEF PushSteps, Goto, call, Typed, CallType
  <2>2. ASSUME NEW f \in File
        PROVE  Ordered(w, f)' /\ (Fresh(w, f) => Fresh(w, f)')
    BY <1>1, <2>1 DEF ArtifactInv, Writer, Ordered, Fresh, InHand
  <2> QED BY <1>1, <1>2, <2>1, <2>2 DEF ArtifactInv, Writer, PutsBack
<1>4. CASE PushWait(w)
  <2>1. /\ batch[w] = {} /\ busy[w] = {} /\ pc'[w] = "final"
        /\ UNCHANGED <<event, batch, copy, busy>>
    BY <1>4 DEF PushWait, Goto, call, Typed, CallType
  <2>2. ASSUME NEW f \in File
        PROVE  Ordered(w, f)' /\ (Fresh(w, f) => Fresh(w, f)')
    BY <1>1, <2>1 DEF ArtifactInv, Writer, Ordered, Fresh, InHand
  <2> QED BY <1>1, <1>2, <2>1, <2>2 DEF ArtifactInv, Writer, PutsBack
<1>5. CASE PushFinal(w)
  <2>1. /\ pc[w] = "final" /\ pc'[w] = "idle" /\ busy'[w] = {} /\ event' = event
    BY <1>5 DEF PushFinal, Idle, Typed, CallType
  <2>2. ASSUME NEW f \in File
        PROVE  Ordered(w, f)' /\ (Fresh(w, f) => Fresh(w, f)')
    BY <1>1, <2>1 DEF ArtifactInv, Writer, Ordered, Fresh, InHand
  <2> QED BY <1>1, <1>2, <2>1, <2>2 DEF ArtifactInv, Writer, PutsBack
<1>6. CASE Restart(w)
  <2>1. pc'[w] = "idle" /\ busy'[w] = {} /\ event'[w] = Discovered(w)
    BY <1>6 DEF Restart, Idle, Typed, CallType, DiskType
  <2>2. ASSUME NEW f \in File PROVE Ordered(w, f)'
    BY <1>1, <2>1 DEF ArtifactInv, Writer, Ordered
  <2>3. ASSUME ~event'[w], NEW f \in File PROVE Fresh(w, f)'
    <3>1. disk[w][f] = 0 /\ Ordered(w, f)
      BY <2>1, <2>3 DEF Discovered, ArtifactInv, Writer
    <3>2. doc[f].sum = 0 /\ doc[f].body = 0
      BY <3>1, Numbers DEF Ordered
    <3>3. doc[f] = [sum |-> disk[w][f], body |-> disk[w][f]]
      BY <3>1, <3>2, SumAndBody
    <3> QED BY <1>1, <2>1, <3>3 DEF Fresh
  <2> QED BY <1>1, <1>2, <2>1, <2>2, <2>3 DEF ArtifactInv, Writer, PutsBack
<1> QED BY <1>3, <1>4, <1>5, <1>6

(* A pull: what is fetched at once is written file by file.                *)
LEMMA ReaderMoves ==
  ASSUME Typed, NEW w \in Machine, ArtifactInv(w), NEW m \in Machine \ {w},
         PullBegin(m) \/ PullCommand(m) \/ PullWrite(m) \/ Restart(m)
  PROVE  ArtifactInv(w)'
<1>1. Reader(m)
  BY DEF ArtifactInv
<1>2. CASE PullBegin(m) \/ PullCommand(m)
  <2>1. /\ UNCHANGED <<disk, event, src, doc, busy, latest>> /\ pc'[m] \in {"pull", "command"}
        /\ batch'[m] \subseteq File /\ copy'[m] = doc
        /\ \A n \in Machine \ {m} :
             pc'[n] = pc[n] /\ batch'[n] = batch[n] /\ copy'[n] = copy[n]
    BY <1>2 DEF PullBegin, PullCommand, Fetch, Goto, Listed, Typed, CallType
  <2>2. \A f \in File : doc[f].body <= doc[f].body
    BY Numbers
  <2>3. Reader(m)'
    BY <1>1, <2>1, <2>2 DEF Reader
  <2> QED BY <2>1, <2>3, WriterStays
<1>3. CASE Idle(m) /\ UNCHANGED <<disk, src, doc, latest>>
           /\ \A n \in Machine \ {m} : event'[n] = event[n]
  <2>1. /\ pc'[m] = "idle"
        /\ \A n \in Machine \ {m} :
             pc'[n] = pc[n] /\ batch'[n] = batch[n] /\ copy'[n] = copy[n]
               /\ busy'[n] = busy[n]
    BY <1>3 DEF Idle, Typed, CallType
  <2>2. Reader(m)'
    BY <1>1, <1>3, <2>1 DEF Reader
  <2> QED BY <1>3, <2>1, <2>2, WriterStays
<1>4. CASE PullWrite(m) /\ batch[m] # {}
  <2>1. PICK g \in batch[m] :
          /\ disk' = [disk EXCEPT ![m][g] = copy[m][g].body]
          /\ batch' = [batch EXCEPT ![m] = @ \ {g}]
    BY <1>4 DEF PullWrite
  <2>2. /\ UNCHANGED <<src, doc, pc, copy, busy, latest>> /\ pc[m] # "idle" /\ g \in File
        /\ \A n \in Machine \ {m} :
             disk'[n] = disk[n] /\ batch'[n] = batch[n] /\ event'[n] = event[n]
        /\ batch'[m] = batch[m] \ {g}
        /\ disk'[m][g] = copy[m][g].body
        /\ \A f \in File \ {g} : disk'[m][f] = disk[m][f]
    BY <1>4, <2>1 DEF PullWrite, Typed, DiskType, CallType
  <2>3. copy[m][g].body <= doc[g].body
    BY <1>1, <2>2 DEF Reader
  <2>4. Reader(m)'
    BY <1>1, <2>2, <2>3 DEF Reader, Typed, CallType
  <2> QED BY <2>2, <2>4, WriterStays
<1>5. CASE PullWrite(m) /\ batch[m] = {}
  BY <1>3, <1>5 DEF PullWrite
<1>6. CASE Restart(m)
  BY <1>3, <1>6 DEF Restart, Typed, DiskType
<1> QED BY <1>2, <1>4, <1>5, <1>6

(* A pull command on the writer's machine: a file it takes back is due to  *)
(* be pushed.                                                              *)
LEMMA CommandKeeps ==
  ASSUME Typed, NEW w \in Machine, ArtifactInv(w), PullCommand(w) \/ PullWrite(w)
  PROVE  ArtifactInv(w)'
<1>1. CASE PullCommand(w)
  <2>1. /\ UNCHANGED <<disk, event, src, doc, busy, latest>>
        /\ pc[w] = "idle" /\ pc'[w] = "command" /\ copy'[w] = doc
        /\ batch'[w] \subseteq File
        /\ \A m \in Machine \ {w} :
             pc'[m] = pc[m] /\ batch'[m] = batch[m] /\ copy'[m] = copy[m]
    BY <1>1 DEF PullCommand, Fetch, Goto, Listed, Typed, CallType
  <2>2. ASSUME NEW f \in File PROVE Ordered(w, f)' /\ (Fresh(w, f) => Fresh(w, f)')
    BY <2>1 DEF ArtifactInv, Writer, Ordered, Fresh, InHand
  <2>3. Writer(w)'
    BY <2>1, <2>2 DEF ArtifactInv, Writer, PutsBack
  <2>4. \A m \in Machine \ {w} : Reader(m)'
    BY <2>1 DEF ArtifactInv, Reader
  <2> QED BY <2>3, <2>4 DEF ArtifactInv
<1>2. CASE PullWrite(w) /\ batch[w] = {}
  <2>1. /\ UNCHANGED <<disk, event, src, doc, latest>>
        /\ pc[w] \in {"pull", "command"} /\ pc'[w] = "idle" /\ busy'[w] = {}
        /\ \A m \in Machine \ {w} :
             pc'[m] = pc[m] /\ batch'[m] = batch[m] /\ copy'[m] = copy[m]
    BY <1>2 DEF PullWrite, Idle, Typed, CallType
  <2>2. ASSUME NEW f \in File PROVE Ordered(w, f)' /\ (Fresh(w, f) => Fresh(w, f)')
    BY <2>1 DEF ArtifactInv, Writer, Ordered, Fresh, InHand
  <2>3. Writer(w)'
    BY <2>1, <2>2 DEF ArtifactInv, Writer, PutsBack
  <2>4. \A m \in Machine \ {w} : Reader(m)'
    BY <2>1 DEF ArtifactInv, Reader
  <2> QED BY <2>3, <2>4 DEF ArtifactInv
<1>3. CASE PullWrite(w) /\ batch[w] # {}
  <2>1. PICK g \in batch[w] :
          /\ disk' = [disk EXCEPT ![w][g] = copy[w][g].body]
          /\ batch' = [batch EXCEPT ![w] = @ \ {g}]
    BY <1>3 DEF PullWrite
  <2>2. /\ UNCHANGED <<src, doc, pc, copy, busy, latest>> /\ g \in File /\ event'[w]
        /\ pc[w] = "command"
        /\ \A m \in Machine \ {w} : disk'[m] = disk[m] /\ batch'[m] = batch[m]
        /\ batch'[w] = batch[w] \ {g}
        /\ disk'[w][g] = copy[w][g].body
        /\ \A f \in File \ {g} : disk'[w][f] = disk[w][f]
    BY <1>3, <2>1 DEF PullWrite, ArtifactInv, Writer, Typed, DiskType, CallType
  <2>3. disk'[w][g] = doc[g].body
    BY <2>2 DEF ArtifactInv, Writer, PutsBack
  <2>4. ASSUME NEW f \in File PROVE Ordered(w, f)'
    <3>1. Ordered(w, f) /\ f \notin busy[w]
      BY <2>2 DEF ArtifactInv, Writer, Ordered
    <3>2. doc[f].body <= disk'[w][f]
      BY <2>2, <2>3, <3>1, Numbers DEF Ordered
    <3> QED BY <2>2, <3>1, <3>2 DEF Ordered
  <2>5. ASSUME NEW f \in File PROVE disk'[w][f] <= latest
    <3>1. disk[w][f] <= latest /\ disk[w][g] <= latest /\ doc[g].body <= disk[w][g]
      BY <2>2 DEF ArtifactInv, Writer, Ordered
    <3>2. latest \in Nat
      BY VersionType DEF Typed, CallType
    <3>3. disk'[w][f] = disk[w][f] \/ disk'[w][f] = doc[g].body
      BY <2>2, <2>3
    <3> QED BY <2>2, <3>1, <3>2, <3>3, Numbers
  <2>7. PutsBack(w)'
    BY <2>2 DEF ArtifactInv, Writer, PutsBack
  <2>8. Writer(w)'
    BY <2>2, <2>4, <2>5, <2>7 DEF ArtifactInv, Writer
  <2>6. \A m \in Machine \ {w} : Reader(m)'
    BY <2>2 DEF ArtifactInv, Reader
  <2> QED BY <2>6, <2>8 DEF ArtifactInv
<1> QED BY <1>1, <1>2, <1>3

LEMMA OneWriterStep ==
  ASSUME NEW w \in Machine, OneWriter(w), Typed, ArtifactInv(w), [Next]_vars
  PROVE  ArtifactInv(w)'
<1>1. ASSUME NEW m \in Machine, Edit(m) \/ PushBegin(m) PROVE ArtifactInv(w)'
  <2>1. m = w
    BY <1>1 DEF Edit, PushBegin, OneWriter
  <2> QED BY <1>1, <2>1, EditKeeps, BeginKeeps
<1>2. ASSUME NEW m \in Machine, PushStage(m) PROVE ArtifactInv(w)'
  <2>1. pc[m] \in {"begin", "push", "final"}
    BY <1>2 DEF PushStage, PushSteps, CheckArtifact, SaveArtifact, PushWait,
                PushFinal, Goto
  <2>2. m = w
    BY <2>1 DEF ArtifactInv, Reader
  <2> QED BY <1>2, <2>2, CheckKeeps, SaveKeeps, WriterMoves DEF PushStage
<1>3. ASSUME NEW m \in Machine, PullBegin(m) \/ PullCommand(m) \/ PullWrite(m)
      PROVE  ArtifactInv(w)'
  <2>1. ~PullBegin(w)
    BY DEF PullBegin, ShouldSync, ArtifactInv, Writer
  <2>2. CASE m = w
    BY <1>3, <2>1, <2>2, CommandKeeps
  <2>3. CASE m # w
    BY <1>3, <2>3, ReaderMoves
  <2> QED BY <2>2, <2>3
<1>4. ASSUME NEW m \in Machine, Restart(m) PROVE ArtifactInv(w)'
  BY <1>4, WriterMoves, ReaderMoves
<1>5. CASE UNCHANGED vars
  BY <1>5 DEF vars, ArtifactInv, Writer, PutsBack, Reader, Ordered, Fresh, InHand
<1> QED BY <1>1, <1>2, <1>3, <1>4, <1>5 DEF Next, Work

LEMMA AlwaysOneWriter ==
  ASSUME NEW w \in Machine, OneWriter(w) PROVE Spec => []ArtifactInv(w)
<1>1. Init => ArtifactInv(w)
  BY OneWriterInit
<1>2. Typed /\ ArtifactInv(w) /\ [Next]_vars => ArtifactInv(w)'
  BY OneWriterStep
<1> QED BY <1>1, <1>2, AlwaysTyped, PTL DEF Spec

(* A machine with nothing left to push has published its files as they are *)
(* on disk, although they are hashed, read and saved in separate steps, by *)
(* several workers, and the daemon may die between any two of them.        *)
THEOREM PublishedIsOnDisk ==
  ASSUME NEW w \in Machine, OneWriter(w) PROVE Spec => []RemoteMirrors
<1>1. ASSUME ArtifactInv(w), NEW m \in Author, pc[m] = "idle", ~event[m],
             NEW f \in File
      PROVE  doc[f] = [sum |-> disk[m][f], body |-> disk[m][f]]
  <2>1. m = w
    BY DEF OneWriter
  <2> QED BY <1>1, <2>1 DEF ArtifactInv, Writer, Fresh, InHand
<1>2. ArtifactInv(w) => RemoteMirrors
  BY <1>1 DEF RemoteMirrors, Published
<1> QED BY <1>2, AlwaysOneWriter, PTL

(* No file falls back to an older content, whatever a pull listed before   *)
(* a later push, but on the writer's machine, by a pull command.           *)
THEOREM NothingFallsBack ==
  ASSUME NEW w \in Machine, OneWriter(w), w \in Author PROVE Spec => VersionsGrow
<1> DEFINE Kept(n, f) == disk[n][f] <= disk'[n][f] \/ (n \in Author /\ pc[n] = "command")
<1>1. ASSUME Typed, ArtifactInv(w), [Next]_vars, NEW n \in Machine, NEW f \in File
      PROVE  Kept(n, f)
  <2>1. disk[n][f] \in Nat
    BY <1>1, Numbers
  <2>2. ASSUME disk' = disk PROVE Kept(n, f)
    BY <2>1, <2>2
  <2>3. ASSUME NEW m \in Machine, Edit(m) PROVE Kept(n, f)
    <3>1. m = w
      BY <2>3 DEF Edit, OneWriter
    <3>2. PICK g \in File : disk' = [disk EXCEPT ![m][g] = latest + 1]
      BY <2>3 DEF Edit
    <3>3. disk'[n][f] = disk[n][f] \/ (n = m /\ f = g /\ disk'[n][f] = latest + 1)
      BY <1>1, <3>2 DEF Typed, DiskType
    <3>4. disk[w][f] <= latest /\ latest \in Nat
      BY <1>1, VersionType DEF ArtifactInv, Writer, Typed, CallType
    <3> QED BY <2>1, <3>1, <3>3, <3>4
  <2>4. ASSUME NEW m \in Machine, PullWrite(m) PROVE Kept(n, f)
    <3>1. CASE batch[m] = {}
      BY <2>2, <2>4, <3>1 DEF PullWrite
    <3>2. CASE batch[m] # {}
      <4>1. PICK g \in batch[m] : disk' = [disk EXCEPT ![m][g] = copy[m][g].body]
        BY <2>4, <3>2 DEF PullWrite
      <4>2. \/ disk'[n][f] = disk[n][f]
            \/ n = m /\ f = g /\ disk'[n][f] = copy[m][g].body
        BY <1>1, <4>1 DEF Typed, DiskType
      <4>3. CASE m = w
        <5>1. pc[w] = "command"
          BY <1>1, <2>4, <4>3 DEF PullWrite, ArtifactInv, Writer
        <5> QED BY <2>1, <4>2, <4>3, <5>1
      <4>4. CASE m # w
        <5>1. disk[m][g] <= copy[m][g].body
          BY <1>1, <2>4, <4>4 DEF PullWrite, ArtifactInv, Reader
        <5> QED BY <2>1, <4>2, <5>1
      <4> QED BY <4>3, <4>4
    <3> QED BY <3>1, <3>2
  <2> HIDE DEF Kept
  <2> QED
    BY <1>1, <2>2, <2>3, <2>4
    DEF Next, Work, PushStage, PushBegin, PushSteps, CheckArtifact, SaveArtifact,
        PushWait, PushFinal, PullBegin, PullCommand, Fetch, Restart, vars
<1>2. Typed /\ ArtifactInv(w) /\ [Next]_vars
        => [\A m \in Machine, f \in File :
              disk[m][f] <= disk'[m][f] \/ (m \in Author /\ pc[m] = "command")]_disk
  BY <1>1
<1> QED BY <1>2, AlwaysOneWriter, AlwaysTyped, PTL DEF Spec, VersionsGrow

=============================================================================
