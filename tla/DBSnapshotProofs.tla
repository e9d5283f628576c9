-------------------------- MODULE DBSnapshotProofs --------------------------
(***************************************************************************)
(* Theorems about DBSnapshot, for any machines, agents, rows and chunk     *)
(* size, with refused writes and failures anywhere.                        *)
(***************************************************************************)
EXTENDS DBSnapshot, FiniteSetTheorems, TLAPS

-----------------------------------------------------------------------------
(* The invariant.                                                          *)

(* A document that announces chunks names the checksum of a real file: a   *)
(* download can only match it by being that file.                          *)
Announces(doc) ==
  doc.count > 0 => \E rows \in Image : rows # {} /\ doc.sum = Some(rows)

(* What a machine has in hand: the document it carries, the copy it cuts   *)
(* into chunks, the file it has verified.                                  *)
InHand(m) ==
  /\ Announces(snap[m])
  /\ pc[m] = "chunks" => image[m] # {}
  /\ pc[m] = "restore" => snap[m].sum = Some(image[m]) /\ image[m] # {}

SnapshotInv == TypeOK /\ Announces(conv) /\ \A m \in Machine : InHand(m)

-----------------------------------------------------------------------------
(* Lemmas.                                                                 *)

(* A rounded-up quotient is between one and the number that is divided.    *)
LEMMA RoundedUp ==
  ASSUME NEW c \in Nat \ {0}, NEW k \in Nat \ {0}
  PROVE  (c + k - 1) \div k \in 1 .. c
<1> DEFINE n == (c + k - 1) \div k
           r == (c + k - 1) % k
<1>1. n \in Int /\ r \in 0 .. (k - 1) /\ c + k - 1 = k * n + r
  OBVIOUS
<1> HIDE DEF n, r
<1>2. n >= 1
  <2>1. ASSUME n <= 0 PROVE FALSE
    <3>1. k * n <= 0
      BY <1>1, <2>1
    <3> QED BY <1>1, <3>1
  <2> QED BY <1>1, <2>1
<1>3. n <= c
  <2>1. ASSUME n >= c + 1 PROVE FALSE
    <3>1. k * n >= k * (c + 1)
      BY <1>1, <2>1
    <3>2. k * (c + 1) = k * c + k
      OBVIOUS
    <3>3. k * c >= c
      OBVIOUS
    <3>4. k * c \in Int
      OBVIOUS
    <3> QED BY <1>1, <3>1, <3>2, <3>3, <3>4
  <2> QED BY <1>1, <2>1
<1> QED BY <1>1, <1>2, <1>3 DEF n

(* A snapshot of a file that is not empty has a chunk, and no more of them *)
(* than there are rows.                                                    *)
LEMMA ChunksBounded ==
  ASSUME NEW rows \in Image, rows # {}
  PROVE  Chunks(rows) \in 1 .. MaxChunks
<1>1. IsFiniteSet(rows) /\ Cardinality(rows) <= MaxChunks
  BY FS_Subset, ConstantsAssumption DEF Image, MaxChunks
<1>2. Cardinality(rows) \in Nat \ {0} /\ MaxChunks \in Nat
  BY <1>1, FS_CardinalityType, FS_EmptySet, ConstantsAssumption DEF MaxChunks
<1>3. (Cardinality(rows) + RowsPerChunk - 1) \div RowsPerChunk
        \in 1 .. Cardinality(rows)
  BY <1>2, RoundedUp, ConstantsAssumption
<1> QED BY <1>1, <1>2, <1>3 DEF Chunks

(* An idle machine has nothing in hand.                                    *)
LEMMA IdleHoldsNothing ==
  ASSUME SnapshotInv, NEW m \in Machine, Idle(m)
  PROVE  /\ \A n \in Machine : InHand(n)'
         /\ pc' \in [Machine -> Stages]
         /\ snap' \in [Machine -> [sum : Maybe, count : 0 .. MaxChunks,
                                   src : Machine \cup {NoMachine}]]
         /\ image' \in [Machine -> Image]
         /\ todo' \in [Machine -> SUBSET ChunkIndex]
<1>1. MaxChunks \in Nat
  BY FS_CardinalityType, ConstantsAssumption DEF MaxChunks
<1>2. NoConv \in [sum : Maybe, count : 0 .. MaxChunks,
                  src : Machine \cup {NoMachine}]
  BY <1>1 DEF NoConv, Fresh, Maybe
<1>3. InHand(m)'
  BY DEF Idle, SnapshotInv, TypeOK, InHand, Announces, NoConv, Fresh
<1>4. ASSUME NEW n \in Machine \ {m} PROVE InHand(n)'
  BY DEF Idle, SnapshotInv, TypeOK, InHand, Announces
<1> QED
  BY <1>2, <1>3, <1>4 DEF Idle, SnapshotInv, TypeOK, Stages, Image

-----------------------------------------------------------------------------
(* Every step preserves the invariant.                                     *)

LEMMA InitSnapshotInv == Init => SnapshotInv
<1> SUFFICES ASSUME Init PROVE SnapshotInv
  OBVIOUS
<1>1. MaxChunks \in Nat
  BY FS_CardinalityType, ConstantsAssumption DEF MaxChunks
<1>2. TypeOK
  BY <1>1 DEF Init, TypeOK, Image, Maybe, NoConv, Fresh, Stages
<1>3. Announces(conv) /\ \A m \in Machine : InHand(m)
  BY DEF Init, Announces, InHand, NoConv, Fresh
<1> QED BY <1>2, <1>3 DEF SnapshotInv

(* The agent and the environment touch neither a document nor a call.      *)
LEMMA AgentKeeps ==
  ASSUME SnapshotInv, NEW m \in Machine, Agent(m)
  PROVE  SnapshotInv'
<1>1. UNCHANGED <<remote, pc, snap, image, todo>>
  BY DEF Agent, AgentStep, AgentEdit, AgentPrune, Touch
<1>2. (db \in [Machine -> Image] /\ log \in [Machine -> Image]
        /\ event \in [Machine -> BOOLEAN] /\ clean \in BOOLEAN)'
  <2> USE DEF SnapshotInv, TypeOK, Image
  <2>1. CASE AgentStep(m)
    BY <2>1 DEF AgentStep, Unused
  <2>2. CASE AgentEdit(m)
    BY <2>2 DEF AgentEdit, Unused
  <2>3. CASE AgentPrune(m)
    BY <2>3 DEF AgentPrune
  <2>4. CASE Touch(m)
    BY <2>4 DEF Touch
  <2> QED BY <2>1, <2>2, <2>3, <2>4 DEF Agent
<1> QED
  BY <1>1, <1>2 DEF SnapshotInv, TypeOK, remote, InHand, Announces

LEMMA PushKeeps ==
  ASSUME SnapshotInv, NEW m \in Machine, PushBegin(m) \/ PushStage(m)
  PROVE  SnapshotInv'
<1> USE DEF SnapshotInv, Goto, local, remote
<1>1. CASE PushBegin(m)
  <2>1. MaxChunks \in Nat
    BY FS_CardinalityType, ConstantsAssumption DEF MaxChunks
  <2>2. Announces(Fresh(m))
    BY DEF Announces, Fresh
  <2>3. Announces(snap'[m])
    BY <1>1, <2>2 DEF PushBegin, TypeOK
  <2>4. TypeOK'
    BY <1>1, <2>1 DEF PushBegin, TypeOK, Fresh, Maybe, Stages
  <2> QED BY <1>1, <2>3, <2>4 DEF PushBegin, TypeOK, InHand, Announces
<1>2. CASE PushSteps(m)
  <2>1. TypeOK'
    BY <1>2 DEF PushSteps, TypeOK, Image, Stages
  <2>2. Announces(snap'[m])
    BY <1>2 DEF PushSteps, TypeOK, InHand, Announces
  <2> QED BY <1>2, <2>1, <2>2 DEF PushSteps, TypeOK, InHand, Announces
<1>3. CASE SnapshotDB(m)
  <2>1. Rebuilt(m) \in Image
    BY DEF Rebuilt, TypeOK, Image
  <2>2. Rebuilt(m) # {} => 1 .. Chunks(Rebuilt(m)) \subseteq ChunkIndex
    <3>1. Rebuilt(m) # {} => Chunks(Rebuilt(m)) \in 1 .. MaxChunks
      BY <2>1, ChunksBounded
    <3>2. MaxChunks \in Nat
      BY FS_CardinalityType, ConstantsAssumption DEF MaxChunks
    <3> QED BY <3>1, <3>2 DEF ChunkIndex
  <2>3. TypeOK'
    <3>1. db' \in [Machine -> Image]
      BY <1>3, <2>1 DEF SnapshotDB, TypeOK
    <3>4. pc' \in [Machine -> Stages]
      <4>1. pc' = [pc EXCEPT ![m] = "final"] \/ pc' = [pc EXCEPT ![m] = "chunks"]
        BY <1>3 DEF SnapshotDB
      <4> QED BY <4>1 DEF TypeOK, Stages
    <3>2. image' \in [Machine -> Image]
      BY <1>3, <2>1 DEF SnapshotDB, TypeOK
    <3>3. todo' \in [Machine -> SUBSET ChunkIndex]
      <4>1. UNCHANGED todo \/
              \E s \in SUBSET ChunkIndex : todo' = [todo EXCEPT ![m] = s]
        BY <1>3, <2>2 DEF SnapshotDB
      <4> QED BY <4>1 DEF TypeOK
    <3> QED BY <1>3, <3>1, <3>2, <3>3, <3>4 DEF SnapshotDB, TypeOK
  <2>4. pc'[m] = "chunks" => image'[m] # {}
    BY <1>3 DEF SnapshotDB, TypeOK
  <2>5. pc'[m] # "restore"
    BY <1>3 DEF SnapshotDB, TypeOK
  <2>6. InHand(m)'
    BY <1>3, <2>4, <2>5 DEF SnapshotDB, InHand, Announces
  <2>7. ASSUME NEW n \in Machine \ {m} PROVE InHand(n)'
    <3>1. /\ pc'[n] = pc[n] /\ snap'[n] = snap[n] /\ image'[n] = image[n]
      BY <1>3 DEF SnapshotDB, TypeOK
    <3> QED BY <3>1 DEF InHand, Announces
  <2>8. Announces(conv)'
    BY <1>3 DEF SnapshotDB, Announces
  <2> QED BY <2>3, <2>6, <2>7, <2>8
<1>4. CASE SaveChunk(m)
  <2>1. Some(image[m]) \in Maybe
    BY DEF TypeOK, Maybe
  <2> QED BY <1>4, <2>1 DEF SaveChunk, TypeOK, InHand, Announces
<1>5. CASE ChunksDone(m)
  <2>1. image[m] \in Image /\ image[m] # {}
    BY <1>5 DEF ChunksDone, TypeOK, InHand
  <2>2. Chunks(image[m]) \in 1 .. MaxChunks
    BY <2>1, ChunksBounded
  <2>3. TypeOK'
    <3>1. Some(image[m]) \in Maybe
      BY <2>1 DEF Maybe
    <3>2. Chunks(image[m]) \in 0 .. MaxChunks
      BY <2>2
    <3> QED BY <1>5, <3>1, <3>2 DEF ChunksDone, TypeOK, Stages
  <2>4. Announces(snap'[m])
    BY <1>5, <2>1 DEF ChunksDone, TypeOK, Announces
  <2> QED BY <1>5, <2>3, <2>4 DEF ChunksDone, TypeOK, InHand, Announces
<1>6. CASE PushFinal(m)
  <2>1. conv' \in [sum : Maybe, count : 0 .. MaxChunks,
                   src : Machine \cup {NoMachine}]
    BY <1>6 DEF PushFinal, TypeOK
  <2>2. Announces(conv')
    BY <1>6 DEF PushFinal, TypeOK, InHand, Announces
  <2> QED
    BY <1>6, <2>1, <2>2, IdleHoldsNothing DEF PushFinal, TypeOK, Announces
<1> QED BY <1>1, <1>2, <1>3, <1>4, <1>5, <1>6 DEF PushStage

LEMMA PullKeeps ==
  ASSUME SnapshotInv, NEW m \in Machine, PullBegin(m) \/ PullStage(m)
  PROVE  SnapshotInv'
<1> USE DEF SnapshotInv, Goto, local, remote
<1>1. CASE PullBegin(m)
  <2>1. TypeOK'
    BY <1>1 DEF PullBegin, TypeOK, Image, Stages
  <2> QED BY <1>1, <2>1 DEF PullBegin, TypeOK, InHand, Announces
<1>2. CASE PullChunks(m)
  <2>1. Announces(snap[m])
    BY DEF InHand
  <2>2. ASSUME snap[m].count > 0, SumMatches(m)
        PROVE  /\ UNION Assembled \in Image
               /\ UNION Assembled # {}
               /\ snap[m].sum = Some(UNION Assembled)
    <3>1. PICK rows \in Image : rows # {} /\ snap[m].sum = Some(rows)
      BY <2>1, <2>2 DEF Announces
    <3>2. UNION Assembled = rows
      BY <2>2, <3>1 DEF SumMatches, Some
    <3> QED BY <3>1, <3>2
  <2>3. TypeOK'
    <3>1. image' \in [Machine -> Image]
      BY <1>2, <2>2 DEF PullChunks, TypeOK
    <3>2. pc' \in [Machine -> Stages]
      BY <1>2 DEF PullChunks, TypeOK, Stages
    <3> QED BY <1>2, <3>1, <3>2 DEF PullChunks, TypeOK
  <2>4. InHand(m)'
    BY <1>2, <2>1, <2>2 DEF PullChunks, TypeOK, InHand, Announces
  <2> QED BY <1>2, <2>3, <2>4 DEF PullChunks, TypeOK, InHand, Announces
<1>3. CASE Restore(m)
  BY <1>3, IdleHoldsNothing DEF Restore, TypeOK, Announces
<1>4. CASE Reconstruct(m)
  <2>1. Rebuilt(m) \in Image
    BY DEF Rebuilt, TypeOK, Image
  <2> QED BY <1>4, <2>1, IdleHoldsNothing DEF Reconstruct, TypeOK, Announces
<1> QED BY <1>1, <1>2, <1>3, <1>4 DEF PullStage

(* A failure or a write the server refuses.                                *)
LEMMA MishapKeeps ==
  ASSUME SnapshotInv, NEW m \in Machine, Fail(m) \/ DropChunk(m)
  PROVE  SnapshotInv'
<1> USE DEF SnapshotInv, local, remote
<1>1. CASE Fail(m)
  <2>1. Idle(m) /\ UNCHANGED <<db, log, remote>> /\ clean' \in BOOLEAN
    BY <1>1 DEF Fail
  <2>2. event' \in [Machine -> BOOLEAN]
    BY <1>1 DEF Fail, TypeOK
  <2>3. Announces(conv)'
    BY <2>1 DEF Announces
  <2>4. \A n \in Machine : InHand(n)'
    BY <2>1, IdleHoldsNothing
  <2> QED BY <2>1, <2>2, <2>3, <2>4, IdleHoldsNothing DEF TypeOK
<1>2. CASE DropChunk(m)
  <2>1. UNCHANGED <<local, remote, pc, snap, image>> /\ clean' \in BOOLEAN
    BY <1>2 DEF DropChunk
  <2>2. todo' \in [Machine -> SUBSET ChunkIndex]
    BY <1>2 DEF DropChunk, TypeOK
  <2> QED BY <2>1, <2>2 DEF TypeOK, InHand, Announces
<1> QED BY <1>1, <1>2

LEMMA StepSnapshotInv == SnapshotInv /\ [Next]_vars => SnapshotInv'
<1> SUFFICES ASSUME SnapshotInv, [Next]_vars PROVE SnapshotInv'
  OBVIOUS
<1>1. ASSUME NEW m \in Machine, Agent(m) PROVE SnapshotInv'
  BY <1>1, AgentKeeps
<1>2. ASSUME NEW m \in Machine, PushBegin(m) \/ PushStage(m)
      PROVE  SnapshotInv'
  BY <1>2, PushKeeps
<1>3. ASSUME NEW m \in Machine, PullBegin(m) \/ PullStage(m)
      PROVE  SnapshotInv'
  BY <1>3, PullKeeps
<1>4. ASSUME NEW m \in Machine, Fail(m) \/ DropChunk(m) PROVE SnapshotInv'
  BY <1>4, MishapKeeps
<1>5. CASE UNCHANGED vars
  BY <1>5 DEF vars, SnapshotInv, TypeOK, InHand, Announces
<1> QED BY <1>1, <1>2, <1>3, <1>4, <1>5 DEF Next, Work

LEMMA AlwaysSnapshotInv == Spec => []SnapshotInv
BY InitSnapshotInv, StepSnapshotInv, PTL DEF Spec

-----------------------------------------------------------------------------
(* The theorems.                                                           *)

(* All state keeps its type; in particular no snapshot is ever cut into    *)
(* more chunks than it has rows, or into none, for any chunk size          *)
(* (totalChunks of pushConversation).                                      *)
THEOREM DBTypeCorrect == Spec => []TypeOK
<1>1. SnapshotInv => TypeOK
  BY DEF SnapshotInv
<1> QED BY <1>1, AlwaysSnapshotInv, PTL

(* Whatever uploads are under way, no pull installs a mixture of them or a *)
(* part of one: what it is about to rename into place is, as a whole, the  *)
(* image that the document it read names.                                  *)
THEOREM OnlyWholeImages == Spec => []WholeImages
<1>1. SnapshotInv => WholeImages
  BY DEF SnapshotInv, InHand, WholeImages
<1> QED BY <1>1, AlwaysSnapshotInv, PTL

-----------------------------------------------------------------------------
(* As long as nothing has gone wrong and one machine pushes.               *)

(* The chunk documents are those of the snapshot a document names, and     *)
(* there are none if it names none.                                        *)
Holds(doc) ==
  \/ doc.count = 0 /\ doc.sum = None /\ Present = {}
  \/ \E rows \in Image :
       /\ rows # {} /\ doc.sum = Some(rows) /\ doc.count = Chunks(rows)
       /\ Assembles(rows)

(* The snapshot a document names is of rows the file still has.            *)
Within(doc, m) == \A rows \in Image : doc.sum = Some(rows) => rows \subseteq db[m]

(* Before the upload the stored document and the carried one name the      *)
(* stored chunks; during the upload the new chunks are those that are not  *)
(* left to do, and no older one has a higher index; after it the carried   *)
(* document names them.                                                    *)
UploadInv(w) ==
  /\ conv.src \in {w, NoMachine}
  /\ conv.src = NoMachine => conv = NoConv
  /\ \A m \in Machine \ {w} : pc[m] \in {"idle", "pull", "rebuild", "restore"}
  /\ pc[w] \in {"idle", "begin", "snapshot", "chunks", "final"}
  /\ Within(conv, w)
  /\ pc[w] \in {"idle", "begin", "snapshot"} => Holds(conv)
  /\ pc[w] \in {"begin", "snapshot"} =>
       snap[w].sum = conv.sum /\ snap[w].count = conv.count
  /\ pc[w] = "chunks" =>
       /\ image[w] # {} /\ image[w] \subseteq db[w]
       /\ todo[w] \subseteq 1 .. Chunks(image[w])
       /\ Present \subseteq 1 .. Chunks(image[w])
       /\ \A i \in (1 .. Chunks(image[w])) \ todo[w] : chunk[i] = Some(image[w])
  /\ pc[w] = "final" => Holds(snap[w]) /\ Within(snap[w], w)

LEMMA QuotientGrows ==
  ASSUME NEW x \in Nat, NEW y \in Nat, NEW k \in Nat \ {0}, x <= y
  PROVE  x \div k <= y \div k
<1> DEFINE a == x \div k
           b == y \div k
           r == x % k
           s == y % k
<1>1. /\ a \in Int /\ r \in 0 .. (k - 1) /\ x = k * a + r
      /\ b \in Int /\ s \in 0 .. (k - 1) /\ y = k * b + s
  OBVIOUS
<1> HIDE DEF a, b, r, s
<1>2. ASSUME a >= b + 1 PROVE FALSE
  <2>1. k * a >= k * (b + 1)
    BY <1>1, <1>2, Z3
  <2>2. k * (b + 1) = k * b + k
    BY <1>1, Z3
  <2>3. k * a \in Int /\ k * b \in Int
    BY <1>1, Z3
  <2> QED BY <1>1, <2>1, <2>2, <2>3
<1> QED BY <1>1, <1>2 DEF a, b

(* A file that grows needs no fewer chunks.                                *)
LEMMA ChunksGrow ==
  ASSUME NEW old \in Image, NEW new \in Image, old # {}, old \subseteq new
  PROVE  Chunks(old) <= Chunks(new)
<1> DEFINE c == Cardinality(old)
           d == Cardinality(new)
           k == RowsPerChunk
<1>1. IsFiniteSet(new) /\ IsFiniteSet(old)
  BY FS_Subset, ConstantsAssumption DEF Image
<1>2. c <= d /\ c \in Nat \ {0} /\ d \in Nat /\ k \in Nat \ {0}
  <2>1. c <= d
    BY <1>1, FS_Subset
  <2>2. c \in Nat /\ d \in Nat /\ c # 0
    BY <1>1, FS_CardinalityType, FS_EmptySet
  <2> QED BY <2>1, <2>2, ConstantsAssumption
<1> DEFINE m == (c + k - 1) \div k
           n == (d + k - 1) \div k
<1>3. Chunks(old) = (IF m = 0 THEN 1 ELSE m) /\ Chunks(new) = (IF n = 0 THEN 1 ELSE n)
  BY DEF Chunks
<1> HIDE DEF c, d, k
<1>4. m <= n
  <2>1. c + k - 1 \in Nat /\ d + k - 1 \in Nat /\ c + k - 1 <= d + k - 1
    BY <1>2
  <2> QED BY <1>2, <2>1, QuotientGrows
<1>5. m \in 1 .. c /\ n \in 1 .. d
  BY <1>2, RoundedUp
<1> HIDE DEF m, n
<1> QED BY <1>2, <1>3, <1>4, <1>5

LEMMA InitUpload == ASSUME NEW w \in Machine PROVE Init => UploadInv(w)
<1> SUFFICES ASSUME Init PROVE UploadInv(w)
  OBVIOUS
<1>2. conv = NoConv /\ \A m \in Machine : pc[m] = "idle"
  BY DEF Init
<1>3. NoConv.sum = None /\ NoConv.count = 0 /\ NoConv.src = NoMachine
  BY DEF NoConv, Fresh
<1>4. Present = {}
  BY DEF Init, Present
<1>5. Within(conv, w)
  BY <1>2, <1>3 DEF Within, Some, None
<1> QED BY <1>2, <1>3, <1>4, <1>5 DEF UploadInv, Holds

(* A step that leaves the document, the chunks and the pusher's call alone *)
(* and takes nothing from its file.                                        *)
LEMMA Undisturbed ==
  ASSUME NEW w \in Machine, UploadInv(w),
         conv' = conv, chunk' = chunk, pc'[w] = pc[w], snap'[w] = snap[w],
         image'[w] = image[w], todo'[w] = todo[w], db[w] \subseteq db'[w],
         \A m \in Machine \ {w} : pc'[m] \in {"idle", "pull", "rebuild", "restore"}
  PROVE  UploadInv(w)'
<1>1. Present' = Present
  BY DEF Present
<1>2. \A rows \in Image : Assembles(rows)' <=> Assembles(rows)
  BY <1>1 DEF Assembles
<1>3. Holds(conv) => Holds(conv)'
  BY <1>1, <1>2 DEF Holds
<1>4. Holds(snap[w]) => Holds(snap[w])'
  BY <1>1, <1>2 DEF Holds
<1>5. (Within(conv, w) => Within(conv, w)') /\ (Within(snap[w], w) => Within(snap[w], w)')
  BY DEF Within
<1> QED BY <1>1, <1>3, <1>4, <1>5 DEF UploadInv

LEMMA OthersUpload ==
  ASSUME NEW w \in Machine, SnapshotInv, UploadInv(w), NEW m \in Machine \ {w},
         Agent(m) \/ PushStage(m) \/ PullBegin(m) \/ PullStage(m)
  PROVE  UploadInv(w)'
<1> USE DEF Goto, Idle
<1>1. m # w /\ TypeOK
  BY DEF SnapshotInv
<1>2. pc[m] \in {"idle", "pull", "rebuild", "restore"}
  BY DEF UploadInv
<1>4. ~PushStage(m)
  BY <1>2 DEF PushStage, PushSteps, SnapshotDB, SaveChunk, ChunksDone, PushFinal
<1>5. CASE Agent(m)
  <2>1. UNCHANGED <<remote, pc, snap, image, todo>>
    BY <1>5 DEF Agent, AgentStep, AgentEdit, AgentPrune, Touch
  <2>2. db'[w] = db[w]
    BY <1>1, <1>5 DEF Agent, AgentStep, AgentEdit, AgentPrune, Touch, TypeOK
  <2>3. \A n \in Machine \ {w} : pc'[n] \in {"idle", "pull", "rebuild", "restore"}
    BY <2>1 DEF UploadInv
  <2> QED BY <2>1, <2>2, <2>3, Undisturbed DEF remote
<1>6. CASE PullBegin(m) \/ PullStage(m)
  <2>1. /\ conv' = conv /\ chunk' = chunk /\ pc'[w] = pc[w] /\ snap'[w] = snap[w]
        /\ image'[w] = image[w] /\ todo'[w] = todo[w] /\ db'[w] = db[w]
    BY <1>1, <1>6
       DEF PullBegin, PullStage, PullChunks, Restore, Reconstruct, TypeOK, local, remote
  <2>2. /\ pc'[m] \in {"idle", "pull", "rebuild", "restore"}
        /\ \A n \in Machine \ {m} : pc'[n] = pc[n]
    BY <1>1, <1>6
       DEF PullBegin, PullStage, PullChunks, Restore, Reconstruct, TypeOK
  <2>3. \A n \in Machine \ {w} : pc'[n] \in {"idle", "pull", "rebuild", "restore"}
    BY <2>2 DEF UploadInv
  <2> QED BY <2>1, <2>3, Undisturbed
<1> QED BY <1>4, <1>5, <1>6

LEMMA PusherUpload ==
  ASSUME NEW w \in Machine, SnapshotInv, UploadInv(w), clean',
         Agent(w) \/ PushBegin(w) \/ PushStage(w) \/ PullBegin(w) \/ PullStage(w)
  PROVE  UploadInv(w)'
<1> USE DEF Goto
<1>1. TypeOK /\ NoMachine # w
  BY ConstantsAssumption DEF SnapshotInv
<1>2. pc[w] \in {"idle", "begin", "snapshot", "chunks", "final"}
  BY DEF UploadInv
<1>3. ~PullBegin(w) /\ ~PullStage(w)
  BY <1>2 DEF UploadInv, PullBegin, PullStage, PullChunks, Restore, Reconstruct
<1> DEFINE Still == \A n \in Machine \ {w} : pc'[n] \in {"idle", "pull", "rebuild", "restore"}
<1>4. CASE Agent(w)
  <2>1. UNCHANGED <<remote, pc, snap, image, todo>>
    BY <1>4 DEF Agent, AgentStep, AgentEdit, AgentPrune, Touch
  <2>2. db[w] \subseteq db'[w]
    <3>1. ~AgentPrune(w)
      BY DEF AgentPrune
    <3>2. db \in [Machine -> Image]
      BY <1>1 DEF TypeOK
    <3>3. CASE AgentStep(w)
      BY <3>2, <3>3 DEF AgentStep
    <3>4. CASE AgentEdit(w)
      BY <3>2, <3>4 DEF AgentEdit
    <3>5. CASE Touch(w)
      BY <3>5 DEF Touch
    <3> QED BY <1>4, <3>1, <3>3, <3>4, <3>5 DEF Agent
  <2>3. Still
    BY <2>1 DEF UploadInv
  <2> QED BY <2>1, <2>2, <2>3, Undisturbed DEF remote
<1>5. CASE PushBegin(w)
  <2>1. /\ conv' = conv /\ chunk' = chunk /\ db' = db /\ pc[w] = "idle"
        /\ pc' = [pc EXCEPT ![w] = "begin"]
        /\ snap'[w] = IF conv = NoConv THEN Fresh(w) ELSE conv
    BY <1>1, <1>5 DEF PushBegin, TypeOK, remote
  <2>2. snap'[w].sum = conv.sum /\ snap'[w].count = conv.count
    BY <2>1 DEF NoConv, Fresh
  <2>3. pc'[w] = "begin" /\ Still
    BY <1>1, <2>1 DEF TypeOK, UploadInv
  <2>4. Holds(conv) /\ Within(conv, w)
    BY <2>1 DEF UploadInv
  <2>5. Holds(conv)' /\ Within(conv, w)'
    BY <2>1, <2>4 DEF Holds, Within, Assembles, Present
  <2> QED BY <2>1, <2>2, <2>3, <2>5 DEF UploadInv
<1>6. CASE PushSteps(w)
  <2>1. /\ chunk' = chunk /\ db' = db /\ pc[w] = "begin"
        /\ pc' = [pc EXCEPT ![w] = "snapshot"]
        /\ snap' = [snap EXCEPT ![w].src = w]
        /\ conv' = snap'[w] \/ (conv # NoConv /\ conv' = conv)
    BY <1>6 DEF PushSteps, local
  <2>2. snap[w].sum = conv.sum /\ snap[w].count = conv.count
    BY <2>1 DEF UploadInv
  <2>3. /\ snap'[w].sum = conv.sum /\ snap'[w].count = conv.count
        /\ snap'[w].src = w
    BY <1>1, <2>1, <2>2 DEF TypeOK
  <2>4. /\ conv'.sum = conv.sum /\ conv'.count = conv.count
        /\ conv'.src \in {w, NoMachine} /\ (conv'.src = NoMachine => conv' = NoConv)
    BY <1>1, <2>1, <2>3 DEF UploadInv
  <2>5. pc'[w] = "snapshot" /\ Still
    BY <1>1, <2>1 DEF TypeOK, UploadInv
  <2>6. Holds(conv) /\ Within(conv, w)
    BY <2>1 DEF UploadInv
  <2>7. Holds(conv)' /\ Within(conv, w)'
    BY <2>1, <2>4, <2>6 DEF Holds, Within, Assembles, Present
  <2> QED BY <2>3, <2>4, <2>5, <2>7 DEF UploadInv
<1>7. CASE SnapshotDB(w)
  <2> DEFINE copy == Rebuilt(w)
  <2>1. /\ conv' = conv /\ chunk' = chunk /\ pc[w] = "snapshot" /\ snap' = snap
        /\ db' = [db EXCEPT ![w] = copy]
        /\ \/ (copy = {} \/ Some(copy) = snap[w].sum) /\ pc' = [pc EXCEPT ![w] = "final"]
           \/ /\ copy # {} /\ pc' = [pc EXCEPT ![w] = "chunks"]
              /\ image' = [image EXCEPT ![w] = copy]
              /\ todo' = [todo EXCEPT ![w] = 1 .. Chunks(copy)]
    BY <1>7 DEF SnapshotDB, remote
  <2>2. db'[w] = copy /\ db[w] \subseteq copy /\ copy \in Image
    BY <1>1, <2>1 DEF TypeOK, Rebuilt, Image
  <2>3. Holds(conv) /\ Within(conv, w) /\ snap[w].sum = conv.sum /\ snap[w].count = conv.count
    BY <2>1 DEF UploadInv
  <2>4. Within(conv, w)'
    BY <2>1, <2>2, <2>3 DEF Within
  <2> HIDE DEF copy
  <2>5. CASE pc' = [pc EXCEPT ![w] = "final"]
    <3>1. pc'[w] = "final" /\ Still
      BY <1>1, <2>5 DEF TypeOK, UploadInv
    <3>2. Holds(snap[w])'
      BY <2>1, <2>3 DEF Holds, Assembles, Present
    <3>3. Within(snap[w], w)'
      BY <2>1, <2>2, <2>3 DEF Within
    <3> QED BY <2>1, <2>4, <3>1, <3>2, <3>3 DEF UploadInv
  <2>6. CASE /\ copy # {} /\ pc' = [pc EXCEPT ![w] = "chunks"]
             /\ image' = [image EXCEPT ![w] = copy]
             /\ todo' = [todo EXCEPT ![w] = 1 .. Chunks(copy)]
    <3>1. /\ pc'[w] = "chunks" /\ image'[w] = copy /\ todo'[w] = 1 .. Chunks(copy)
          /\ Still
      BY <1>1, <2>6 DEF TypeOK, UploadInv
    <3>2. Present' = Present
      BY <2>1 DEF Present
    <3>3. Present \subseteq 1 .. Chunks(copy)
      <4>1. CASE Present = {}
        BY <4>1
      <4>2. CASE \E rows \in Image : rows # {} /\ conv.sum = Some(rows) /\ Assembles(rows)
        <5>1. PICK rows \in Image : rows # {} /\ conv.sum = Some(rows) /\ Assembles(rows)
          BY <4>2
        <5>2. rows \subseteq copy
          BY <2>2, <2>3, <5>1 DEF Within
        <5>3. Chunks(rows) <= Chunks(copy)
          BY <2>2, <5>1, <5>2, ChunksGrow
        <5>4. Chunks(rows) \in 1 .. MaxChunks /\ Chunks(copy) \in 1 .. MaxChunks
          BY <2>2, <2>6, <5>1, ChunksBounded
        <5>5. MaxChunks \in Nat
          BY FS_CardinalityType, ConstantsAssumption DEF MaxChunks
        <5>6. Present = 1 .. Chunks(rows)
          BY <5>1 DEF Assembles
        <5> QED BY <5>3, <5>4, <5>5, <5>6
      <4> QED BY <2>3, <4>1, <4>2 DEF Holds
    <3> QED BY <2>1, <2>2, <2>4, <2>6, <3>1, <3>2, <3>3 DEF UploadInv
  <2> QED BY <2>1, <2>5, <2>6
<1>8. CASE SaveChunk(w)
  <2> DEFINE c == Chunks(image[w])
             s == Some(image[w])
  <2>1. PICK i \in todo[w] :
          /\ chunk' = [chunk EXCEPT ![i] = s]
          /\ todo' = [todo EXCEPT ![w] = @ \ {i}]
    BY <1>8 DEF SaveChunk
  <2>2. /\ conv' = conv /\ pc' = pc /\ snap' = snap /\ image' = image /\ db' = db
        /\ pc[w] = "chunks"
    BY <1>8 DEF SaveChunk, local
  <2>3. /\ image[w] # {} /\ image[w] \subseteq db[w]
        /\ todo[w] \subseteq 1 .. c
        /\ Present \subseteq 1 .. c
        /\ \A j \in (1 .. c) \ todo[w] : chunk[j] = s
    BY <2>2 DEF UploadInv
  <2>4. todo'[w] = todo[w] \ {i} /\ i \in ChunkIndex
    BY <1>1, <2>1 DEF TypeOK
  <2>5. Present' \subseteq Present \cup {i}
    BY <1>1, <2>1 DEF Present, TypeOK
  <2> HIDE DEF c, s
  <2>6. \A j \in (1 .. c) \ todo'[w] : chunk'[j] = s
    <3>1. ASSUME NEW j \in (1 .. c) \ todo'[w] PROVE chunk'[j] = s
      <4>1. CASE j = i
        BY <1>1, <2>1, <2>4, <4>1 DEF TypeOK
      <4>2. CASE j # i
        <5>1. chunk[j] = s
          BY <2>3, <2>4, <4>2
        <5>2. Some(image[w]) # None
          BY DEF Some, None
        <5>3. j \in DOMAIN chunk
          <6>1. c \in 1 .. MaxChunks
            <7>1. image[w] \in Image
              BY <1>1 DEF TypeOK
            <7> QED BY <2>3, <7>1, ChunksBounded DEF c
          <6>2. MaxChunks \in Nat
            BY FS_CardinalityType, ConstantsAssumption DEF MaxChunks
          <6> QED BY <1>1, <6>1, <6>2 DEF TypeOK, ChunkIndex
        <5> QED BY <2>1, <4>2, <5>1, <5>3
      <4> QED BY <4>1, <4>2
    <3> QED BY <3>1
  <2>7. Present' \subseteq 1 .. c /\ todo'[w] \subseteq 1 .. c
    BY <2>1, <2>3, <2>4, <2>5
  <2>8. Within(conv, w)'
    BY <2>2 DEF Within, UploadInv
  <2>9. Still
    BY <2>2 DEF UploadInv
  <2>10. Chunks(image'[w]) = c /\ Some(image'[w]) = s
    BY <2>2 DEF c, s
  <2> HIDE DEF Still
  <2> QED BY <2>2, <2>3, <2>6, <2>7, <2>8, <2>9, <2>10 DEF UploadInv, Still
<1>9. CASE ChunksDone(w)
  <2> DEFINE rows == image[w]
  <2>1. /\ conv' = conv /\ chunk' = chunk /\ db' = db /\ pc[w] = "chunks"
        /\ pc' = [pc EXCEPT ![w] = "final"] /\ todo[w] = {}
        /\ snap' = [snap EXCEPT ![w].sum = Some(rows), ![w].count = Chunks(rows)]
    BY <1>9 DEF ChunksDone, ChunksSaved, local, remote
  <2>2. snap'[w].sum = Some(rows) /\ snap'[w].count = Chunks(rows) /\ pc'[w] = "final" /\ Still
    BY <1>1, <2>1 DEF TypeOK, UploadInv
  <2>3. /\ rows # {} /\ rows \subseteq db[w] /\ rows \in Image
        /\ Present \subseteq 1 .. Chunks(rows)
        /\ \A i \in 1 .. Chunks(rows) : chunk[i] = Some(rows)
    BY <1>1, <2>1 DEF UploadInv, TypeOK
  <2>4. 1 .. Chunks(rows) \subseteq ChunkIndex
    <3>1. Chunks(rows) \in 1 .. MaxChunks
      BY <2>3, ChunksBounded
    <3>2. MaxChunks \in Nat
      BY FS_CardinalityType, ConstantsAssumption DEF MaxChunks
    <3> QED BY <3>1, <3>2 DEF ChunkIndex
  <2> HIDE DEF rows
  <2>5. Present = 1 .. Chunks(rows)
    <3>1. Some(rows) # None
      BY DEF Some, None
    <3> QED BY <2>3, <2>4, <3>1 DEF Present
  <2>6. Assembles(rows)
    BY <2>3, <2>5 DEF Assembles
  <2>8. Holds(snap[w])'
    <3>1. ASSUME NEW x \in Image, x # {}, Assembles(x)', snap'[w].sum = Some(x),
                 snap'[w].count = Chunks(x)
          PROVE  Holds(snap[w])'
      BY <3>1 DEF Holds
    <3>2. PICK x \in Image : x = rows
      BY <2>3
    <3>3. Assembles(x)'
      BY <2>1, <2>6, <3>2 DEF Assembles, Present
    <3> QED BY <2>2, <2>3, <3>1, <3>2, <3>3
  <2>9. Within(snap[w], w)'
    BY <2>1, <2>2, <2>3 DEF Within, Some
  <2>10. Within(conv, w)'
    BY <2>1 DEF Within, UploadInv
  <2> QED BY <2>1, <2>2, <2>8, <2>9, <2>10 DEF UploadInv
<1>10. CASE PushFinal(w)
  <2>1. /\ chunk' = chunk /\ db' = db /\ pc[w] = "final"
        /\ conv' = [snap[w] EXCEPT !.src = w]
        /\ pc' = [pc EXCEPT ![w] = "idle"]
    BY <1>10 DEF PushFinal, Idle, local
  <2>2. conv'.sum = snap[w].sum /\ conv'.count = snap[w].count /\ conv'.src = w
    BY <1>1, <2>1 DEF TypeOK
  <2>3. pc'[w] = "idle" /\ Still
    BY <1>1, <2>1 DEF TypeOK, UploadInv
  <2>4. Holds(snap[w]) /\ Within(snap[w], w)
    BY <2>1 DEF UploadInv
  <2>5. Holds(conv)' /\ Within(conv, w)'
    BY <2>1, <2>2, <2>4 DEF Holds, Within, Assembles, Present
  <2> QED BY <1>1, <2>2, <2>3, <2>5 DEF UploadInv
<1> QED BY <1>3, <1>4, <1>5, <1>6, <1>7, <1>8, <1>9, <1>10 DEF PushStage

(* Another machine's first push takes over only where nothing is stored    *)
(* and nothing is under way.                                               *)
LEMMA NextPusher ==
  ASSUME NEW w \in Machine, SnapshotInv, UploadInv(w), clean',
         NEW m \in Machine \ {w}, PushBegin(m)
  PROVE  UploadInv(m)'
<1> USE DEF Goto
<1>1. TypeOK /\ m # NoMachine
  BY ConstantsAssumption DEF SnapshotInv
<1>2. /\ conv' = conv /\ chunk' = chunk /\ db' = db
      /\ pc' = [pc EXCEPT ![m] = "begin"]
      /\ snap'[m] = IF conv = NoConv THEN Fresh(m) ELSE conv
      /\ conv.src \in {m, NoMachine} /\ ~Pushing(w)
  BY <1>1 DEF PushBegin, TypeOK, remote
<1>3. conv = NoConv
  BY <1>1, <1>2 DEF UploadInv
<1>4. conv.sum = None /\ conv.count = 0 /\ conv.src = NoMachine
  BY <1>3 DEF NoConv, Fresh
<1>5. snap'[m].sum = conv.sum /\ snap'[m].count = conv.count
  BY <1>2, <1>3 DEF NoConv, Fresh
<1>6. pc[w] = "idle"
  BY <1>2 DEF Pushing, UploadInv
<1>7. Holds(conv)
  BY <1>6 DEF UploadInv
<1>8. Holds(conv)'
  BY <1>2, <1>7 DEF Holds, Assembles, Present
<1>9. Within(conv, m)'
  BY <1>2, <1>4 DEF Within, Some, None
<1>10. pc'[m] = "begin"
  BY <1>1, <1>2 DEF TypeOK
<1>11. \A n \in Machine \ {m} : pc'[n] \in {"idle", "pull", "rebuild", "restore"}
  <2>1. ASSUME NEW n \in Machine \ {m} PROVE pc'[n] = pc[n]
    BY <1>1, <1>2 DEF TypeOK
  <2> QED BY <1>6, <2>1 DEF UploadInv
<1> QED BY <1>2, <1>3, <1>4, <1>5, <1>8, <1>9, <1>10, <1>11 DEF UploadInv

CleanInv == clean => \E w \in Machine : UploadInv(w)

LEMMA StepClean == SnapshotInv /\ CleanInv /\ [Next]_vars => CleanInv'
<1> SUFFICES ASSUME SnapshotInv, CleanInv, [Next]_vars, clean'
             PROVE  \E w \in Machine : UploadInv(w)'
  BY DEF CleanInv
<1>1. ASSUME NEW m \in Machine PROVE ~Fail(m) /\ ~DropChunk(m) /\ ~AgentPrune(m)
  BY DEF Fail, DropChunk, AgentPrune
<1>2. clean
  <2>1. CASE Work
    <3>1. PICK m \in Machine :
            Agent(m) \/ PushBegin(m) \/ PushStage(m) \/ PullBegin(m) \/ PullStage(m)
      BY <2>1 DEF Work
    <3>2. CASE Agent(m)
      BY <1>1, <3>2 DEF Agent, AgentStep, AgentEdit, Touch
    <3>3. CASE PushBegin(m)
      BY <3>3 DEF PushBegin
    <3>4. CASE PushStage(m)
      BY <3>4 DEF PushStage, PushSteps, SnapshotDB, SaveChunk, ChunksDone, PushFinal
    <3>5. CASE PullBegin(m) \/ PullStage(m)
      BY <3>5 DEF PullBegin, PullStage, PullChunks, Restore, Reconstruct
    <3> QED BY <3>1, <3>2, <3>3, <3>4, <3>5
  <2>2. CASE UNCHANGED vars
    BY <2>2 DEF vars
  <2> QED BY <1>1, <2>1, <2>2 DEF Next
<1>3. PICK w \in Machine : UploadInv(w)
  BY <1>2 DEF CleanInv
<1>4. ASSUME NEW m \in Machine,
             Agent(m) \/ PushBegin(m) \/ PushStage(m) \/ PullBegin(m) \/ PullStage(m)
      PROVE  \E v \in Machine : UploadInv(v)'
  <2>1. CASE m = w
    BY <1>3, <1>4, <2>1, PusherUpload
  <2>2. CASE m # w /\ PushBegin(m)
    BY <1>3, <2>2, NextPusher
  <2>3. CASE m # w /\ ~PushBegin(m)
    BY <1>3, <1>4, <2>3, OthersUpload
  <2> QED BY <2>1, <2>2, <2>3
<1>5. CASE UNCHANGED vars
  <2>1. UploadInv(w)'
    BY <1>3, <1>5, Undisturbed DEF vars, UploadInv
  <2> QED BY <2>1
<1> QED BY <1>1, <1>4, <1>5 DEF Next, Work

(* A pull that begins when no push is under way finds the chunks of the    *)
(* snapshot the document names, as long as one machine pushes, nothing     *)
(* fails, no write is refused and no database shrinks: for any machines,   *)
(* rows and chunk size.                                                    *)
THEOREM QuietIsRestorable == Spec => []QuietRestorable
<1>1. ASSUME SnapshotInv, CleanInv PROVE QuietRestorable
  <2> SUFFICES ASSUME Quiet, clean, conv.count > 0 PROVE Assembled = conv.sum
    BY DEF QuietRestorable
  <2>1. PICK w \in Machine : UploadInv(w)
    BY <1>1 DEF CleanInv
  <2>2. pc[w] = "idle"
    BY <2>1 DEF Quiet, Pushing, UploadInv
  <2>3. conv.count # 0
    OBVIOUS
  <2>4. PICK rows \in Image : rows # {} /\ conv.sum = Some(rows) /\ Assembles(rows)
    BY <2>1, <2>2, <2>3 DEF UploadInv, Holds
  <2>5. Chunks(rows) \in 1 .. MaxChunks /\ MaxChunks \in Nat
    BY <2>4, ChunksBounded, FS_CardinalityType, ConstantsAssumption DEF MaxChunks
  <2>6. 1 \in Present
    BY <2>4, <2>5 DEF Assembles
  <2>7. ASSUME NEW other \in Image, Assembles(other) PROVE other = rows
    BY <2>4, <2>6, <2>7 DEF Assembles, Some
  <2> QED BY <2>4, <2>7 DEF Assembled, Some
<1>2. Init => CleanInv
  <2> SUFFICES ASSUME Init PROVE CleanInv
    OBVIOUS
  <2>1. PICK w \in Machine : TRUE
    BY ConstantsAssumption
  <2> QED BY <2>1, InitUpload DEF CleanInv
<1> QED BY <1>1, <1>2, InitSnapshotInv, StepSnapshotInv, StepClean, PTL DEF Spec

=============================================================================
