-------------------------- MODULE WorkstationProofs --------------------------
(***************************************************************************)
(* Theorems about the parts of agy-sync that share no state and are run    *)
(* side by side by MCWorkstation: the setup of the cloud project, the two  *)
(* repositories, the summary rows, the pager and the transaction log.      *)
(***************************************************************************)
EXTENDS Setup, Repository, SummarySync, Pager, TransactionLog, LargestElement,
        SequenceTheorems, FiniteSetTheorems, TLAPS

-----------------------------------------------------------------------------
(* Setup: the invariant.                                                   *)

PastStorage == {"local", "confirm", "create", "recalculate", "done"}
PastDatabase == {"storage"} \cup PastStorage
PastApis == {"database"} \cup PastDatabase
PastProject == {"apis"} \cup PastApis
PastCredentials == {"project"} \cup PastProject

(* What a run has checked is there, if nobody changed it since it began:   *)
(* what no failure was reported of, and what nothing was reported of.      *)
Seen(o) ==
  /\ since[o] <= changes
  /\ since[o] = changes /\ worst[o] # "FAIL" =>
       /\ at[o] \in PastCredentials => "credentials" \in granted
       /\ at[o] \in PastProject => "project" \in granted
  /\ since[o] = changes /\ worst[o] = "PASS" =>
       (at[o] \in PastApis => "apis" \in granted)

(* The item of the database.  A run without a project does not look for    *)
(* one, and has failed.                                                    *)
ItemTrue(o) ==
  /\ at[o] \in PastDatabase /\ worst[o] # "FAIL" /\ item[o] = "PASS" =>
       database # Nowhere
  /\ at[o] \in {"recalculate", "done"} /\ item[o] = "WARN" =>
       options[o].dryRun \/ Declined(o)

Told(o) == ~options[o].dryRun /\ (options[o].yes \/ answer[o] = "y")
CreationTold(o) ==
  /\ at[o] = "create" => Told(o)
  /\ created[o] =>
       /\ at[o] \in {"recalculate", "done"}
       /\ database = options[o].location
       /\ Told(o)

VerdictOfItems(o) == at[o] = "done" => passed[o] = AllPassed(o)

OperatorInv(o) == Seen(o) /\ ItemTrue(o) /\ CreationTold(o) /\ VerdictOfItems(o)
OneCreator == \A o, q \in Operator : created[o] /\ created[q] => o = q
SetupInv == SetupTypeOK /\ (\A o \in Operator : OperatorInv(o)) /\ OneCreator

-----------------------------------------------------------------------------
(* Setup: lemmas.                                                          *)

LEMMA WorseOf ==
  ASSUME NEW s \in Status, NEW t \in Status
  PROVE  /\ Worse(s, t) \in Status
         /\ Worse(s, t) # "FAIL" <=> s # "FAIL" /\ t # "FAIL"
         /\ Worse(s, t) = "PASS" <=> s = "PASS" /\ t = "PASS"
BY DEF Worse, Status

(* A check says only of what is granted that it is in order.               *)
LEMMA OutcomesOf ==
  ASSUME NEW c \in {"credentials", "project", "apis", "storage"},
         NEW s \in Outcomes(c)
  PROVE  /\ s \in Status
         /\ s = "PASS" /\ c # "storage" => c \in granted
         /\ c \in {"credentials", "project"} /\ s # "FAIL" => c \in granted
BY DEF Outcomes, LooksFor, Status

(* A database that was made is in a region.                                *)
LEMMA CreatedSomewhere ==
  ASSUME SetupInv, NEW o \in Operator, created[o]
  PROVE  database = options[o].location /\ database # Nowhere
<1>1. database = options[o].location /\ options[o] \in Options
  BY DEF SetupInv, SetupTypeOK, OperatorInv, CreationTold
<1>2. options[o].location \in Location
  BY <1>1, SetupAssumption
<1> QED BY <1>1, <1>2, SetupAssumption

(* The report of one operator, as a step leaves it alone.                  *)
SameReport(q) ==
  /\ at'[q] = at[q] /\ options'[q] = options[q] /\ worst'[q] = worst[q]
  /\ item'[q] = item[q] /\ answer'[q] = answer[q] /\ created'[q] = created[q]
  /\ passed'[q] = passed[q] /\ since'[q] = since[q]

(* A step of one operator disturbs no other's part of the invariant: the   *)
(* only thing they share that it changes is a database that was missing.   *)
LEMMA OthersKeep ==
  ASSUME SetupInv, NEW o \in Operator, SetupTypeOK', OperatorInv(o)',
         granted' = granted, changes' = changes,
         database' = database \/ (database = Nowhere /\ database' # Nowhere),
         \A q \in Operator \ {o} : SameReport(q),
         created'[o] => created[o] \/ database = Nowhere
  PROVE  SetupInv'
<1>1. ASSUME NEW q \in Operator \ {o} PROVE OperatorInv(q)'
  <2>1. OperatorInv(q) /\ SameReport(q)
    BY DEF SetupInv
  <2>2. Seen(q)'
    BY <2>1 DEF OperatorInv, Seen, SameReport
  <2>3. ItemTrue(q)'
    BY <2>1 DEF OperatorInv, ItemTrue, SameReport, Declined
  <2>4. CreationTold(q)'
    <3>1. created[q] => database' = database
      BY CreatedSomewhere
    <3> QED BY <2>1, <3>1 DEF OperatorInv, CreationTold, SameReport, Told
  <2>5. VerdictOfItems(q)'
    BY <2>1 DEF OperatorInv, VerdictOfItems, SameReport, AllPassed
  <2> QED BY <2>2, <2>3, <2>4, <2>5 DEF OperatorInv
<1>2. OneCreator'
  <2>1. ASSUME NEW q \in Operator, created'[q], created'[o] PROVE q = o
    <3>1. CASE database = Nowhere
      <4>1. q # o => created[q]
        BY <2>1 DEF SameReport
      <4> QED BY <3>1, <4>1, CreatedSomewhere
    <3>2. CASE database # Nowhere
      BY <2>1, <3>2 DEF SameReport, SetupInv, OneCreator
    <3> QED BY <3>1, <3>2
  <2>2. \A p, q \in Operator \ {o} : created'[p] /\ created'[q] => p = q
    BY DEF SameReport, SetupInv, OneCreator
  <2> QED BY <2>1, <2>2 DEF OneCreator
<1> QED BY <1>1, <1>2 DEF SetupInv

-----------------------------------------------------------------------------
(* Setup: the invariant is inductive.                                      *)

LEMMA SetupInvInit == SetupInit => SetupInv
<1> SUFFICES ASSUME SetupInit PROVE SetupInv
  OBVIOUS
<1>1. SetupTypeOK
  <2>1. (CHOOSE f \in Options : TRUE) \in Options
    BY SetupAssumption
  <2>2. granted \subseteq Grants /\ database \in Location \cup {Nowhere}
    BY SetupAssumption DEF SetupInit
  <2>3. changes \in 0 .. OwnerBound /\ since \in [Operator -> 0 .. OwnerBound]
    <3>1. OwnerBound \in Nat
      BY SetupAssumption
    <3>2. changes = 0 /\ since = [o \in Operator |-> 0]
      BY DEF SetupInit
    <3> QED BY <3>1, <3>2
  <2>4. options \in [Operator -> Options]
    BY <2>1 DEF SetupInit
  <2>5. /\ at \in [Operator -> SetupStages]
        /\ worst \in [Operator -> Status]
        /\ item \in [Operator -> Status \ {"SKIPPED"}]
        /\ answer \in [Operator -> Answers]
        /\ created \in [Operator -> BOOLEAN] /\ passed \in [Operator -> BOOLEAN]
    BY DEF SetupInit, SetupStages, Status, Answers
  <2>6. \A o \in Operator : answer[o] = ""
    BY DEF SetupInit
  <2> QED BY <2>2, <2>3, <2>4, <2>5, <2>6 DEF SetupTypeOK
<1>2. ASSUME NEW o \in Operator PROVE OperatorInv(o)
  <2>1. /\ at[o] = "idle" /\ since[o] = 0 /\ changes = 0 /\ created[o] = FALSE
    BY DEF SetupInit
  <2>2. Seen(o)
    BY <2>1 DEF Seen, PastCredentials, PastProject, PastApis, PastDatabase, PastStorage
  <2>3. ItemTrue(o) /\ CreationTold(o) /\ VerdictOfItems(o)
    BY <2>1 DEF ItemTrue, CreationTold, VerdictOfItems, PastDatabase, PastStorage
  <2> QED BY <2>2, <2>3 DEF OperatorInv
<1>3. OneCreator
  BY DEF SetupInit, OneCreator
<1> QED BY <1>1, <1>2, <1>3 DEF SetupInv

(* The owner: nothing that was seen since counts any more.                 *)
LEMMA ChangeKeeps == SetupInv /\ Change => SetupInv'
<1> SUFFICES ASSUME SetupInv, Change PROVE SetupInv'
  OBVIOUS
<1>1. SetupTypeOK'
  <2>1. granted' \subseteq Grants
    BY DEF Change, SetupInv, SetupTypeOK
  <2>2. changes' \in 0 .. OwnerBound
    <3>1. OwnerBound \in Nat
      BY SetupAssumption
    <3>2. changes \in 0 .. OwnerBound
      BY DEF SetupInv, SetupTypeOK
    <3>3. changes < OwnerBound /\ changes' = changes + 1
      BY DEF Change
    <3> QED BY <3>1, <3>2, <3>3
  <2> QED BY <2>1, <2>2 DEF Change, SetupInv, SetupTypeOK
<1>2. ASSUME NEW o \in Operator PROVE OperatorInv(o)'
  <2>1. OperatorInv(o) /\ SameReport(o) /\ database' = database
    BY DEF SetupInv, Change, SameReport
  <2>2. Seen(o)'
    <3>1. since[o] <= changes /\ since[o] \in Int /\ changes \in Int
      <4>1. OwnerBound \in Nat
        BY SetupAssumption
      <4>2. since[o] \in 0 .. OwnerBound /\ changes \in 0 .. OwnerBound
        BY DEF SetupInv, SetupTypeOK
      <4> QED BY <2>1, <4>1, <4>2 DEF OperatorInv, Seen
    <3>2. since'[o] = since[o] /\ changes' = changes + 1
      BY DEF Change
    <3> QED BY <3>1, <3>2 DEF Seen
  <2>3. ItemTrue(o)' /\ CreationTold(o)' /\ VerdictOfItems(o)'
    BY <2>1 DEF OperatorInv, ItemTrue, CreationTold, VerdictOfItems, SameReport,
               Declined, Told, AllPassed
  <2> QED BY <2>2, <2>3 DEF OperatorInv
<1>3. OneCreator'
  BY DEF SetupInv, OneCreator, Change
<1> QED BY <1>1, <1>2, <1>3 DEF SetupInv

LEMMA BeginKeeps ==
  ASSUME SetupInv, NEW o \in Operator, BeginSetup(o)
  PROVE  SetupInv'
<1>1. SetupTypeOK'
  BY DEF SetupInv, SetupTypeOK, BeginSetup, project, SetupStages, Status, Answers
<1>2. /\ at'[o] = "credentials" /\ since'[o] = changes /\ created'[o] = FALSE
      /\ UNCHANGED <<granted, database, changes>>
  BY DEF SetupInv, SetupTypeOK, BeginSetup, project
<1>3. changes \in Int
  <2>1. OwnerBound \in Nat
    BY SetupAssumption
  <2>2. changes \in 0 .. OwnerBound
    BY DEF SetupInv, SetupTypeOK
  <2> QED BY <2>1, <2>2
<1>4. OperatorInv(o)'
  <2>1. Seen(o)'
    BY <1>2, <1>3 DEF Seen, PastCredentials, PastProject, PastApis, PastDatabase, PastStorage
  <2>2. ItemTrue(o)' /\ CreationTold(o)' /\ VerdictOfItems(o)'
    BY <1>2 DEF ItemTrue, CreationTold, VerdictOfItems, PastDatabase, PastStorage
  <2> QED BY <2>1, <2>2 DEF OperatorInv
<1>5. \A q \in Operator \ {o} : SameReport(q)
  BY DEF SetupInv, SetupTypeOK, BeginSetup, SameReport
<1> QED BY <1>1, <1>2, <1>4, <1>5, OthersKeep

(* A check of what the owner grants.                                       *)
LEMMA CheckKeeps ==
  ASSUME SetupInv, NEW o \in Operator,
         NEW c \in {"credentials", "project", "apis", "storage"}, NEW next,
         <<c, next>> \in {<<"credentials", "project">>, <<"project", "apis">>,
                         <<"apis", "database">>, <<"storage", "local">>},
         Check(o, c, next)
  PROVE  SetupInv'
<1>1. PICK s \in Outcomes(c) : worst' = [worst EXCEPT ![o] = Worse(@, s)]
  BY DEF Check
<1>2. worst[o] \in Status /\ s \in Status
  BY OutcomesOf DEF SetupInv, SetupTypeOK
<1>3. Worse(worst[o], s) \in Status
  BY <1>2, WorseOf
<1>4. SetupTypeOK'
  <2>1. worst' \in [Operator -> Status]
    BY <1>1, <1>3 DEF SetupInv, SetupTypeOK
  <2>2. at' \in [Operator -> SetupStages]
    BY DEF SetupInv, SetupTypeOK, Check, Go, SetupStages
  <2> QED BY <2>1, <2>2 DEF SetupInv, SetupTypeOK, Check, project
<1>5. /\ at[o] = c /\ at'[o] = next
      /\ worst'[o] = Worse(worst[o], s)
      /\ UNCHANGED <<granted, database, changes, options, item, answer, created, passed, since>>
  BY <1>1 DEF SetupInv, SetupTypeOK, Check, Go, project
<1>6. OperatorInv(o)
  BY DEF SetupInv
<1>7. Seen(o)'
  <2>1. /\ worst'[o] # "FAIL" <=> worst[o] # "FAIL" /\ s # "FAIL"
        /\ worst'[o] = "PASS" <=> worst[o] = "PASS" /\ s = "PASS"
    BY <1>2, <1>5, WorseOf
  <2>2. /\ s = "PASS" /\ c # "storage" => c \in granted
        /\ c \in {"credentials", "project"} /\ s # "FAIL" => c \in granted
    BY OutcomesOf
  <2> QED BY <1>5, <1>6, <2>1, <2>2
          DEF OperatorInv, Seen, PastCredentials, PastProject, PastApis,
              PastDatabase, PastStorage
<1>8. ItemTrue(o)'
  <2>1. worst'[o] # "FAIL" => worst[o] # "FAIL"
    BY <1>2, <1>5, WorseOf
  <2> QED BY <1>5, <1>6, <2>1 DEF OperatorInv, ItemTrue, PastDatabase, PastStorage
<1>9. CreationTold(o)' /\ VerdictOfItems(o)'
  BY <1>5, <1>6 DEF OperatorInv, CreationTold, VerdictOfItems
<1>10. \A q \in Operator \ {o} : SameReport(q)
  BY <1>1 DEF SetupInv, SetupTypeOK, Check, Go, SameReport
<1> QED BY <1>4, <1>5, <1>7, <1>8, <1>9, <1>10, OthersKeep DEF OperatorInv

LEMMA UnconfiguredKeeps ==
  ASSUME SetupInv, NEW o \in Operator, Unconfigured(o)
  PROVE  SetupInv'
<1>1. SetupTypeOK'
  BY DEF SetupInv, SetupTypeOK, Unconfigured, Go, project, SetupStages, Status
<1>2. /\ at[o] = "project" /\ at'[o] = "local" /\ worst'[o] = "FAIL"
      /\ UNCHANGED <<granted, database, changes, options, item, answer, created, passed, since>>
  BY DEF SetupInv, SetupTypeOK, Unconfigured, Go, project
<1>3. OperatorInv(o)
  BY DEF SetupInv
<1>4. Seen(o)'
  BY <1>2, <1>3 DEF OperatorInv, Seen
<1>5. ItemTrue(o)' /\ CreationTold(o)' /\ VerdictOfItems(o)'
  BY <1>2, <1>3 DEF OperatorInv, ItemTrue, CreationTold, VerdictOfItems
<1>6. \A q \in Operator \ {o} : SameReport(q)
  BY DEF SetupInv, SetupTypeOK, Unconfigured, Go, SameReport
<1> QED BY <1>1, <1>2, <1>4, <1>5, <1>6, OthersKeep DEF OperatorInv

LEMMA CheckDatabaseKeeps ==
  ASSUME SetupInv, NEW o \in Operator, CheckDatabase(o)
  PROVE  SetupInv'
<1>1. PICK s \in {"WARN", "FAIL"} \cup (IF database = Nowhere THEN {} ELSE {"PASS"}) :
        item' = [item EXCEPT ![o] = s]
  BY DEF CheckDatabase
<1>2. SetupTypeOK'
  <2>1. item' \in [Operator -> Status \ {"SKIPPED"}]
    BY <1>1 DEF SetupInv, SetupTypeOK, Status
  <2> QED BY <2>1 DEF SetupInv, SetupTypeOK, CheckDatabase, Go, project, SetupStages
<1>3. /\ at[o] = "database" /\ at'[o] = "storage" /\ item'[o] = s
      /\ UNCHANGED <<granted, database, changes, options, worst, answer, created, passed, since>>
  BY <1>1 DEF SetupInv, SetupTypeOK, CheckDatabase, Go, project
<1>4. OperatorInv(o)
  BY DEF SetupInv
<1>5. Seen(o)'
  BY <1>3, <1>4 DEF OperatorInv, Seen, PastCredentials, PastProject, PastApis,
                    PastDatabase, PastStorage
<1>6. ItemTrue(o)' /\ CreationTold(o)' /\ VerdictOfItems(o)'
  BY <1>1, <1>3, <1>4 DEF OperatorInv, ItemTrue, CreationTold, VerdictOfItems
<1>7. \A q \in Operator \ {o} : SameReport(q)
  BY <1>1 DEF SetupInv, SetupTypeOK, CheckDatabase, Go, SameReport
<1> QED BY <1>2, <1>3, <1>5, <1>6, <1>7, OthersKeep DEF OperatorInv

LEMMA CheckLocalKeeps ==
  ASSUME SetupInv, NEW o \in Operator, CheckLocal(o)
  PROVE  SetupInv'
<1>1. PICK s \in {"PASS", "WARN"} : worst' = [worst EXCEPT ![o] = Worse(@, s)]
  BY DEF CheckLocal
<1>2. worst[o] \in Status /\ s \in Status
  BY DEF SetupInv, SetupTypeOK, Status
<1>3. Worse(worst[o], s) \in Status
  BY <1>2, WorseOf
<1>4. SetupTypeOK'
  <2>1. worst' \in [Operator -> Status]
    BY <1>1, <1>3 DEF SetupInv, SetupTypeOK
  <2>2. AllPassed(o)' \in BOOLEAN /\ AllPassed(o) \in BOOLEAN
    BY DEF AllPassed
  <2>3. passed' \in [Operator -> BOOLEAN]
    BY <2>2 DEF CheckLocal, SetupInv, SetupTypeOK
  <2> QED BY <2>1, <2>3 DEF SetupInv, SetupTypeOK, CheckLocal, Go, project, SetupStages
<1>5. /\ at[o] = "local" /\ at'[o] = "confirm"
      /\ worst'[o] = Worse(worst[o], s)
      /\ UNCHANGED <<granted, database, changes, options, item, answer, created, since>>
  BY <1>1 DEF SetupInv, SetupTypeOK, CheckLocal, Go, project
<1>6. OperatorInv(o)
  BY DEF SetupInv
<1>7. /\ worst'[o] # "FAIL" => worst[o] # "FAIL"
      /\ worst'[o] = "PASS" => worst[o] = "PASS"
  <2>1. /\ Worse(worst[o], s) # "FAIL" => worst[o] # "FAIL"
        /\ Worse(worst[o], s) = "PASS" => worst[o] = "PASS"
    BY <1>2, WorseOf
  <2>2. worst'[o] = Worse(worst[o], s)
    BY <1>5
  <2> QED BY <2>1, <2>2
<1>8. /\ at[o] \in PastCredentials /\ at[o] \in PastProject
      /\ at[o] \in PastApis /\ at[o] \in PastDatabase
  BY <1>5 DEF PastCredentials, PastProject, PastApis, PastDatabase, PastStorage
<1>9. Seen(o)'
  <2>1. Seen(o)
    BY <1>6 DEF OperatorInv
  <2> QED BY <1>5, <1>7, <1>8, <2>1 DEF Seen
<1>10. ItemTrue(o)' /\ CreationTold(o)' /\ VerdictOfItems(o)'
  <2>1. ItemTrue(o) /\ CreationTold(o)
    BY <1>6 DEF OperatorInv
  <2>2. ItemTrue(o)'
    BY <1>5, <1>7, <1>8, <2>1 DEF ItemTrue
  <2>3. CreationTold(o)'
    BY <1>5, <2>1 DEF CreationTold
  <2> QED BY <1>5, <2>2, <2>3 DEF VerdictOfItems
<1>11. \A q \in Operator \ {o} : SameReport(q)
  BY <1>1 DEF SetupInv, SetupTypeOK, CheckLocal, Go, SameReport
<1> QED BY <1>4, <1>5, <1>9, <1>10, <1>11, OthersKeep DEF OperatorInv

LEMMA ConfirmKeeps ==
  ASSUME SetupInv, NEW o \in Operator, Confirm(o)
  PROVE  SetupInv'
<1>1. /\ at[o] = "confirm"
      /\ at'[o] \in {"create", "recalculate"}
      /\ \A q \in Operator \ {o} : SameReport(q)
      /\ UNCHANGED <<granted, database, changes, options, worst, created, passed, since>>
  BY DEF SetupInv, SetupTypeOK, Confirm, Go, project, SameReport
<1>2. SetupTypeOK'
  <2>1. at' \in [Operator -> SetupStages]
    BY DEF SetupInv, SetupTypeOK, Confirm, Go, SetupStages
  <2>2. answer' \in [Operator -> Answers]
    <3>1. answer \in [Operator -> Answers]
      BY DEF SetupInv, SetupTypeOK
    <3>2. UNCHANGED answer \/ \E a \in Answers : answer' = [answer EXCEPT ![o] = a]
      BY DEF Confirm
    <3> QED BY <3>1, <3>2
  <2>3. item' \in [Operator -> Status \ {"SKIPPED"}]
    <3>1. item \in [Operator -> Status \ {"SKIPPED"}]
      BY DEF SetupInv, SetupTypeOK
    <3>2. \/ UNCHANGED item
          \/ \E a : item' = [item EXCEPT ![o] = IF a = "unreadable" THEN "FAIL" ELSE @]
      BY DEF Confirm
    <3> QED BY <3>1, <3>2 DEF Status
  <2>4. \A q \in Operator :
          answer'[q] # "" => ~options'[q].yes /\ ~options'[q].dryRun
    <3>1. answer'[o] # "" => ~options[o].yes /\ ~options[o].dryRun
      BY DEF SetupInv, SetupTypeOK, Confirm, AutoApprove
    <3> QED BY <1>1, <3>1 DEF SetupInv, SetupTypeOK, SameReport
  <2> QED BY <1>1, <2>1, <2>2, <2>3, <2>4 DEF SetupInv, SetupTypeOK
<1>3. OperatorInv(o)
  BY DEF SetupInv
<1>4. Seen(o)'
  BY <1>1, <1>3 DEF OperatorInv, Seen, PastCredentials, PastProject, PastApis,
                    PastDatabase, PastStorage
(* The three ways: no creation, one without asking, the prompt's answer.   *)
<1>5. CASE item[o] # "WARN" \/ options[o].dryRun
  <2>1. at'[o] = "recalculate" /\ item'[o] = item[o] /\ answer'[o] = answer[o]
    BY <1>5 DEF SetupInv, SetupTypeOK, Confirm, AutoApprove, Go
  <2>2. ItemTrue(o)' /\ CreationTold(o)' /\ VerdictOfItems(o)'
    BY <1>1, <1>3, <1>5, <2>1
       DEF OperatorInv, ItemTrue, CreationTold, VerdictOfItems, PastDatabase, PastStorage
  <2> QED BY <1>1, <1>2, <1>4, <2>2, OthersKeep DEF OperatorInv
<1>6. CASE ~(item[o] # "WARN" \/ options[o].dryRun) /\ options[o].yes
  <2>1. at'[o] = "create" /\ item'[o] = item[o] /\ answer'[o] = answer[o]
    BY <1>6 DEF SetupInv, SetupTypeOK, Confirm, AutoApprove, Go
  <2>2. ItemTrue(o)' /\ CreationTold(o)' /\ VerdictOfItems(o)'
    BY <1>1, <1>3, <1>6, <2>1
       DEF OperatorInv, ItemTrue, CreationTold, VerdictOfItems, Told, PastDatabase, PastStorage
  <2> QED BY <1>1, <1>2, <1>4, <2>2, OthersKeep DEF OperatorInv
<1>7. CASE ~(item[o] # "WARN" \/ options[o].dryRun) /\ ~options[o].yes
  <2>1. PICK a \in Answers :
          /\ answer'[o] = a
          /\ at'[o] = (IF Agrees(a) THEN "create" ELSE "recalculate")
          /\ item'[o] = (IF a = "unreadable" THEN "FAIL" ELSE item[o])
    BY <1>7 DEF SetupInv, SetupTypeOK, Confirm, AutoApprove, Go
  <2>2. ItemTrue(o)' /\ CreationTold(o)' /\ VerdictOfItems(o)'
    BY <1>1, <1>3, <1>7, <2>1
       DEF OperatorInv, ItemTrue, CreationTold, VerdictOfItems, Told, Declined,
           Agrees, PastDatabase, PastStorage
  <2> QED BY <1>1, <1>2, <1>4, <2>2, OthersKeep DEF OperatorInv
<1> QED BY <1>5, <1>6, <1>7

(* The creation: who makes the database finds none, and so nobody else has *)
(* made it.                                                                *)
LEMMA CreateKeeps ==
  ASSUME SetupInv, NEW o \in Operator, CreateDatabase(o)
  PROVE  SetupInv'
<1>1. /\ at[o] = "create" /\ at'[o] = "recalculate"
      /\ item'[o] = (IF database' # database THEN "PASS" ELSE "FAIL")
      /\ created'[o] = (database' # database)
      /\ UNCHANGED <<granted, changes, options, worst, answer, passed, since>>
      /\ \A q \in Operator \ {o} : SameReport(q)
  BY DEF SetupInv, SetupTypeOK, CreateDatabase, CreatedNow, Go, SameReport
<1>2. options[o].location \in Location /\ options[o].location # Nowhere
  <2>1. options[o] \in Options
    BY DEF SetupInv, SetupTypeOK
  <2> QED BY <2>1, SetupAssumption
<1>3. \/ database = Nowhere /\ database' = options[o].location
      \/ database' = database
  BY DEF CreateDatabase
<1>4. SetupTypeOK'
  <2>1. database' \in Location \cup {Nowhere}
    BY <1>2, <1>3 DEF SetupInv, SetupTypeOK
  <2>2. at' \in [Operator -> SetupStages]
    BY DEF SetupInv, SetupTypeOK, CreateDatabase, Go, SetupStages
  <2>3. item' \in [Operator -> Status \ {"SKIPPED"}] /\ created' \in [Operator -> BOOLEAN]
    BY DEF SetupInv, SetupTypeOK, CreateDatabase, CreatedNow, Status
  <2> QED BY <1>1, <2>1, <2>2, <2>3 DEF SetupInv, SetupTypeOK
<1>5. OperatorInv(o)
  BY DEF SetupInv
<1>6. Seen(o)'
  BY <1>1, <1>5 DEF OperatorInv, Seen, PastCredentials, PastProject, PastApis,
                    PastDatabase, PastStorage
<1>7. ItemTrue(o)' /\ CreationTold(o)' /\ VerdictOfItems(o)'
  BY <1>1, <1>2, <1>3, <1>5 DEF OperatorInv, ItemTrue, CreationTold, VerdictOfItems, Told
<1> QED BY <1>1, <1>2, <1>3, <1>4, <1>6, <1>7, OthersKeep DEF OperatorInv

LEMMA RecalculateKeeps ==
  ASSUME SetupInv, NEW o \in Operator, Recalculate(o)
  PROVE  SetupInv'
<1>1. /\ at[o] = "recalculate" /\ at'[o] = "done"
      /\ passed'[o] = AllPassed(o)
      /\ UNCHANGED <<granted, database, changes, options, worst, item, answer, created, since>>
      /\ \A q \in Operator \ {o} : SameReport(q)
  BY DEF SetupInv, SetupTypeOK, Recalculate, FinalVerdict, Go, project, SameReport
<1>2. SetupTypeOK'
  <2>1. AllPassed(o) \in BOOLEAN
    BY DEF AllPassed
  <2>2. passed' \in [Operator -> BOOLEAN]
    BY <2>1 DEF Recalculate, FinalVerdict, SetupInv, SetupTypeOK
  <2> QED BY <1>1, <2>2 DEF SetupInv, SetupTypeOK, Recalculate, Go, SetupStages
<1>3. OperatorInv(o)
  BY DEF SetupInv
<1>4. Seen(o)'
  BY <1>1, <1>3 DEF OperatorInv, Seen, PastCredentials, PastProject, PastApis,
                    PastDatabase, PastStorage
<1>5. ItemTrue(o)' /\ CreationTold(o)'
  BY <1>1, <1>3 DEF OperatorInv, ItemTrue, CreationTold, Told, Declined,
                    PastDatabase, PastStorage
<1>6. VerdictOfItems(o)'
  BY <1>1 DEF VerdictOfItems, AllPassed
<1> QED BY <1>1, <1>2, <1>4, <1>5, <1>6, OthersKeep DEF OperatorInv

LEMMA SetupInvNext == SetupInv /\ [SetupNext]_setupVars => SetupInv'
<1> SUFFICES ASSUME SetupInv, [SetupNext]_setupVars PROVE SetupInv'
  OBVIOUS
<1>1. CASE Change
  BY <1>1, ChangeKeeps
<1>2. CASE \E o \in Operator : SetupStep(o)
  <2>1. PICK o \in Operator : SetupStep(o)
    BY <1>2
  <2>2. CASE BeginSetup(o)
    BY <2>2, BeginKeeps
  <2>3. CASE Check(o, "credentials", "project") \/ Check(o, "project", "apis")
    BY <2>3, CheckKeeps
  <2>4. CASE Check(o, "apis", "database") \/ Check(o, "storage", "local")
    BY <2>4, CheckKeeps
  <2>5. CASE Unconfigured(o) \/ CheckDatabase(o) \/ CheckLocal(o)
    BY <2>5, UnconfiguredKeeps, CheckDatabaseKeeps, CheckLocalKeeps
  <2>6. CASE Confirm(o) \/ CreateDatabase(o) \/ Recalculate(o)
    BY <2>6, ConfirmKeeps, CreateKeeps, RecalculateKeeps
  <2> QED BY <2>1, <2>2, <2>3, <2>4, <2>5, <2>6 DEF SetupStep
<1>3. CASE UNCHANGED setupVars
  BY <1>3 DEF setupVars, SetupInv, SetupTypeOK, OperatorInv, Seen, ItemTrue,
              Declined, CreationTold, Told, VerdictOfItems, AllPassed, OneCreator
<1> QED BY <1>1, <1>2, <1>3 DEF SetupNext

-----------------------------------------------------------------------------
(* Setup: the theorems.                                                    *)

(* The items of a report have a status and a run stands at one of its      *)
(* stages; nobody is asked who gave --yes or wants a dry run.              *)
THEOREM SetupTypeCorrect == SetupSpec => []SetupTypeOK
<1>1. SetupInv => SetupTypeOK
  BY DEF SetupInv
<1> QED BY <1>1, SetupInvInit, SetupInvNext, PTL DEF SetupSpec

(* Whatever fails, whoever else runs setup and whatever the owner changes: *)
(* an exit status of 0 means what it says.                                 *)
THEOREM ExitStatusHonest == SetupSpec => []VerdictHonest
<1>1. SetupInv => VerdictHonest
  <2> SUFFICES ASSUME SetupInv, NEW o \in Operator, at[o] = "done", passed[o]
               PROVE  /\ database # Nowhere \/ options[o].dryRun \/ Declined(o)
                      /\ since[o] = changes =>
                           /\ {"credentials", "project"} \subseteq granted
                           /\ worst[o] = "PASS" => "apis" \in granted
    BY DEF VerdictHonest
  <2>1. OperatorInv(o) /\ item[o] \in {"PASS", "WARN", "FAIL"} /\ granted \subseteq Grants
    BY DEF SetupInv, SetupTypeOK, Status
  <2>2. worst[o] # "FAIL" /\ item[o] # "FAIL"
    BY <2>1 DEF OperatorInv, VerdictOfItems, AllPassed
  <2>3. database # Nowhere \/ options[o].dryRun \/ Declined(o)
    BY <2>1, <2>2 DEF OperatorInv, ItemTrue, Status, PastDatabase, PastStorage
  <2>4. since[o] = changes => {"credentials", "project"} \subseteq granted
    BY <2>1, <2>2 DEF OperatorInv, Seen, PastCredentials, PastProject, PastApis,
                      PastDatabase, PastStorage
  <2>5. since[o] = changes /\ worst[o] = "PASS" => "apis" \in granted
    BY <2>1 DEF OperatorInv, Seen, PastApis, PastDatabase, PastStorage
  <2> QED BY <2>3, <2>4, <2>5
<1> QED BY <1>1, SetupInvInit, SetupInvNext, PTL DEF SetupSpec

(* One operator makes the database, one who was told to, and no other is   *)
(* told that he did.                                                       *)
THEOREM CreationIsTruthful == SetupSpec => []CreationTruthful
<1>1. SetupInv => CreationTruthful
  <2> SUFFICES ASSUME SetupInv, NEW o \in Operator, created[o]
               PROVE  /\ database = options[o].location
                      /\ ~options[o].dryRun /\ (options[o].yes \/ answer[o] = "y")
                      /\ \A q \in Operator : created[q] => q = o
    BY DEF CreationTruthful
  <2> QED BY DEF SetupInv, OperatorInv, CreationTold, Told, OneCreator
<1> QED BY <1>1, SetupInvInit, SetupInvNext, PTL DEF SetupSpec

-----------------------------------------------------------------------------
(* Repositories: the invariant.                                            *)

(* The two stores of a conversation, compared by what they keep.           *)
SameArtifact(r, m, p) ==
  {a \in r.arts : a.id = p} = {a \in m.arts : a.id = p}
AlikeStores(r, m) ==
  /\ r.doc = m.doc
  /\ r.steps = m.steps
  /\ r.arts \subseteq m.arts
  /\ \A p \in KeyAlone : SameArtifact(r, m, p)
Alike == \A c \in Conversation \ dropped : AlikeStores(remote[c], memory[c])

(* A push that has not appended its steps holds the document as it is:     *)
(* what its batch is above is the watermark of both stores.                *)
CopyCurrent ==
  \A p \in push : p.stage = "steps" => remote[p.conv].doc = p.copy

RepoInv == RepoTypeOK /\ Alike /\ CopyCurrent

-----------------------------------------------------------------------------
(* Repositories: lemmas about the calls.                                   *)

(* The largest index of a batch above a watermark is one of its indices.   *)
LEMMA TopIndexOfBatch ==
  ASSUME NEW w \in -1 .. TopStep, NEW b \in Batches(w)
  PROVE  /\ TopIndex(b) \in 0 .. TopStep
         /\ w < TopIndex(b)
         /\ b \subseteq Steps
<1> DEFINE S == {s.idx : s \in b}
<1>1. b \subseteq Steps /\ b # {} /\ \A s \in b : s.idx > w
  BY DEF Batches
<1>2. S \subseteq 0 .. TopStep /\ S # {}
  BY <1>1 DEF Steps
<1>3. \E x \in S : \A y \in S : y <= x
  <2> HIDE DEF S
  <2>1. S \subseteq Int /\ TopStep \in Int /\ \A s \in S : s <= TopStep
    BY <1>2, BoundAssumption
  <2> QED BY <1>2, <2>1, MaximumExists
<1>4. TopIndex(b) \in S
  <2>1. TopIndex(b) = CHOOSE i \in S : \A y \in S : y <= i
    BY DEF TopIndex
  <2> HIDE DEF S
  <2> QED BY <1>3, <2>1
<1> QED BY <1>1, <1>2, <1>4

(* The conversation's document is no document only when there is none.     *)
LEMMA DocIsThere ==
  ASSUME NEW d \in Docs
  PROVE  d # NoConversation /\ d.lss \in -1 .. TopStep /\ d.src \in RepoMachine
<1>1. d.lss \in -1 .. TopStep /\ d.src \in RepoMachine
  BY DEF Docs
<1>2. d.lss # NoConversation.lss
  BY <1>1, BoundAssumption DEF NoConversation
<1> QED BY <1>1, <1>2

(* The fields of a store.                                                  *)
LEMMA StoreFields ==
  ASSUME NEW st \in Stores
  PROVE  /\ st.doc \in Docs \cup {NoConversation}
         /\ st.steps \in SUBSET Steps
         /\ st.arts \in SUBSET Artifacts
BY DEF Stores

(* What an append leaves is a store, whatever of it is lost.               *)
LEMMA AppendTyped ==
  ASSUME NEW r \in Stores, NEW m \in Stores, r.doc \in Docs,
         NEW b \in Batches(r.doc.lss), NEW kept \in SUBSET b, NEW merged \in BOOLEAN
  PROVE  /\ ClientAppend(r, b, kept, merged) \in Stores
         /\ MemoryAppend(m, b) \in Stores
<1>1. TopIndex(b) \in 0 .. TopStep /\ b \subseteq Steps
  BY DocIsThere, TopIndexOfBatch
<1>2. [r.doc EXCEPT !.lss = TopIndex(b)] \in Docs
  BY <1>1 DEF Docs
<1>3. /\ PutIndexed(r.steps, kept) \in SUBSET Steps
      /\ PutIndexed(m.steps, b) \in SUBSET Steps
  BY <1>1, StoreFields DEF PutIndexed
<1>4. ClientAppend(r, b, kept, merged) \in Stores
  BY <1>2, <1>3 DEF ClientAppend, Stores
<1>5. m.doc # NoConversation => [m.doc EXCEPT !.lss = TopIndex(b)] \in Docs
  BY <1>1, StoreFields DEF Docs
<1>6. MemoryAppend(m, b) \in Stores
  BY <1>3, <1>5 DEF MemoryAppend, Stores
<1> QED BY <1>4, <1>6

(* A batch above the watermark of both stores leaves them alike, when      *)
(* nothing of it is lost.                                                  *)
LEMMA AppendAlike ==
  ASSUME NEW r \in Stores, NEW m \in Stores, AlikeStores(r, m),
         r.doc \in Docs, NEW b \in Batches(r.doc.lss)
  PROVE  AlikeStores(ClientAppend(r, b, b, TRUE), MemoryAppend(m, b))
<1> DEFINE d == [r.doc EXCEPT !.lss = TopIndex(b)]
<1>1. r.doc.lss < TopIndex(b)
  BY DocIsThere, TopIndexOfBatch
<1>2. ClientAppend(r, b, b, TRUE) = [r EXCEPT !.steps = PutIndexed(r.steps, b), !.doc = d]
  BY DEF ClientAppend
<1>3. MemoryAppend(m, b) = [m EXCEPT !.steps = PutIndexed(r.steps, b), !.doc = d]
  <2>1. m.doc = r.doc /\ m.steps = r.steps /\ m.doc # NoConversation
    BY DocIsThere DEF AlikeStores
  <2> QED BY <1>1, <2>1 DEF MemoryAppend
<1> HIDE DEF d
<1>4. /\ ClientAppend(r, b, b, TRUE).doc = d /\ MemoryAppend(m, b).doc = d
      /\ ClientAppend(r, b, b, TRUE).steps = MemoryAppend(m, b).steps
      /\ ClientAppend(r, b, b, TRUE).arts = r.arts /\ MemoryAppend(m, b).arts = m.arts
  BY <1>2, <1>3 DEF Stores
<1> QED BY <1>4 DEF AlikeStores, SameArtifact

(* A saved artifact replaces at least what the double replaces, and of a   *)
(* path with a key of its own nothing else.                                *)
LEMMA SaveTyped ==
  ASSUME NEW r \in Stores, NEW m \in Stores, NEW a \in Artifacts
  PROVE  ClientSave(r, a) \in Stores /\ MemorySave(m, a) \in Stores
BY StoreFields DEF ClientSave, MemorySave, Stores

LEMMA SaveAlike ==
  ASSUME NEW r \in Stores, NEW m \in Stores, AlikeStores(r, m),
         NEW a \in Artifacts
  PROVE  AlikeStores(ClientSave(r, a), MemorySave(m, a))
<1> DEFINE R == {x \in r.arts : DocKey(x.id) # DocKey(a.id)} \cup {a}
           M == {x \in m.arts : x.id # a.id} \cup {a}
<1>1. ClientSave(r, a) = [r EXCEPT !.arts = R] /\ MemorySave(m, a) = [m EXCEPT !.arts = M]
  BY DEF ClientSave, MemorySave
<1>2. R \subseteq M
  BY DEF AlikeStores
<1>3. ASSUME NEW p \in KeyAlone
      PROVE  {x \in R : x.id = p} = {x \in M : x.id = p}
  <2>1. {x \in r.arts : x.id = p} = {x \in m.arts : x.id = p}
    BY DEF AlikeStores, SameArtifact
  <2>2. a.id \in ArtifactPath /\ p \in ArtifactPath
    BY DEF Artifacts, KeyAlone
  <2>3. DocKey(a.id) = DocKey(p) => a.id = p
    BY <2>2 DEF KeyAlone
  <2>4. CASE a.id = p
    BY <2>4
  <2>5. CASE a.id # p
    BY <2>1, <2>3, <2>5
  <2> QED BY <2>4, <2>5
<1> HIDE DEF R, M
<1>4. /\ ClientSave(r, a).doc = r.doc /\ MemorySave(m, a).doc = m.doc
      /\ ClientSave(r, a).steps = r.steps /\ MemorySave(m, a).steps = m.steps
      /\ ClientSave(r, a).arts = R /\ MemorySave(m, a).arts = M
  BY <1>1 DEF Stores
<1> QED BY <1>2, <1>3, <1>4 DEF AlikeStores, SameArtifact

(* Documents are put the same way in both.                                 *)
LEMMA PutTyped ==
  ASSUME NEW st \in Stores, NEW d \in Docs
  PROVE  UpsertConversation(st, d) \in Stores /\ UpsertConversation(st, d).doc = d
BY DEF UpsertConversation, Stores

LEMMA PutAlike ==
  ASSUME NEW r \in Stores, NEW m \in Stores, AlikeStores(r, m), NEW d \in Docs
  PROVE  AlikeStores(UpsertConversation(r, d), UpsertConversation(m, d))
BY DEF UpsertConversation, Stores, AlikeStores, SameArtifact

LEMMA EmptyAlike ==
  EmptyStore \in Stores /\ AlikeStores(EmptyStore, EmptyStore)
BY DEF EmptyStore, Stores, AlikeStores, SameArtifact

(* What a deletion leaves is a store.                                      *)
LEMMA RemainsTyped ==
  ASSUME NEW st \in Stores, NEW rest \in Remains(st)
  PROVE  rest \in Stores
BY StoreFields DEF Remains, Stores

-----------------------------------------------------------------------------
(* A call on both stores of one conversation, by a push or by nobody.      *)

LEMMA BothKeep ==
  ASSUME RepoInv, NEW c \in Conversation,
         NEW r \in Stores, NEW m \in Stores,
         c \notin dropped' => AlikeStores(r, m),
         dropped \ {c} \subseteq dropped', dropped' \subseteq Conversation,
         Both(c, r, m), push' \in SUBSET Pushes,
         \A p, q \in push' : p = q,
         \A p \in push' : p.stage = "steps" => p.conv = c /\ r.doc = p.copy
  PROVE  RepoInv'
<1>1. /\ remote' \in [Conversation -> Stores]
      /\ memory' \in [Conversation -> Stores]
      /\ remote'[c] = r /\ memory'[c] = m
      /\ \A k \in Conversation : k # c => remote'[k] = remote[k] /\ memory'[k] = memory[k]
  BY DEF RepoInv, RepoTypeOK, Both
<1>2. Alike'
  BY <1>1 DEF RepoInv, Alike
<1>3. CopyCurrent'
  BY <1>1 DEF CopyCurrent
<1> QED BY <1>1, <1>2, <1>3 DEF RepoInv, RepoTypeOK

(* A call that leaves the stores alone.                                    *)
LEMMA StoresKeep ==
  ASSUME RepoInv, UNCHANGED <<remote, memory, dropped>>, push' \in SUBSET Pushes,
         \A p, q \in push' : p = q,
         \A p \in push' : p.stage = "steps" => remote[p.conv].doc = p.copy
  PROVE  RepoInv'
<1>1. Alike' /\ CopyCurrent'
  BY DEF RepoInv, Alike, CopyCurrent
<1> QED BY <1>1 DEF RepoInv, RepoTypeOK

-----------------------------------------------------------------------------
(* Repositories: the invariant is inductive.                               *)

LEMMA RepoInvInit == RepoInit => RepoInv
<1> SUFFICES ASSUME RepoInit PROVE RepoInv
  OBVIOUS
<1>1. RepoTypeOK
  BY EmptyAlike DEF RepoInit, RepoTypeOK
<1>2. Alike /\ CopyCurrent
  BY EmptyAlike DEF RepoInit, Alike, CopyCurrent
<1> QED BY <1>1, <1>2 DEF RepoInv

(* The push under way, its stores and its document.                        *)
LEMMA PushState ==
  ASSUME RepoInv, NEW p \in push
  PROVE  /\ push = {p}
         /\ p \in Pushes
         /\ p.conv \in Conversation /\ p.by \in RepoMachine /\ p.copy \in Docs
         /\ p.stage \in {"steps", "metadata", "files"}
         /\ remote[p.conv] \in Stores /\ memory[p.conv] \in Stores
         /\ p.conv \notin dropped => AlikeStores(remote[p.conv], memory[p.conv])
         /\ dropped \subseteq Conversation
<1>1. p \in Pushes /\ push = {p}
  BY DEF RepoInv, RepoTypeOK
<1>2. p.conv \in Conversation /\ p.by \in RepoMachine /\ p.copy \in Docs
      /\ p.stage \in {"steps", "metadata", "files"}
  BY <1>1 DEF Pushes
<1> QED BY <1>1, <1>2 DEF RepoInv, RepoTypeOK, Alike

LEMMA GetKeeps ==
  ASSUME RepoInv, NEW c \in Conversation, GetConversation(c)
  PROVE  RepoInv'
<1> DEFINE found == remote[c].doc
<1>1. /\ remote[c] \in Stores /\ memory[c] \in Stores
      /\ c \notin dropped => AlikeStores(remote[c], memory[c])
      /\ dropped \subseteq Conversation /\ UNCHANGED dropped
  BY DEF RepoInv, RepoTypeOK, Alike, GetConversation
<1>2. found \in Docs \cup {NoConversation}
  BY <1>1, StoreFields
<1>3. PICK m \in RepoMachine :
        LET carried == IF found = NoConversation THEN [lss |-> -1, src |-> m] ELSE found
        IN  /\ push' = {[conv |-> c, by |-> m, stage |-> "steps", copy |-> carried]}
            /\ IF found = NoConversation
               THEN PutDocument(c, carried) ELSE UNCHANGED <<remote, memory>>
  BY DEF GetConversation
<1> DEFINE carried == IF found = NoConversation THEN [lss |-> -1, src |-> m] ELSE found
           p == [conv |-> c, by |-> m, stage |-> "steps", copy |-> carried]
<1>4. [lss |-> -1, src |-> m] \in Docs
  BY BoundAssumption DEF Docs
<1>5. carried \in Docs
  BY <1>2, <1>4
<1>6. /\ push' = {p}
      /\ IF found = NoConversation THEN PutDocument(c, carried)
         ELSE UNCHANGED <<remote, memory>>
  BY <1>3
<1>7. found # NoConversation => carried = found
  OBVIOUS
<1> HIDE DEF carried
<1>8. p \in Pushes /\ p.conv = c /\ p.copy = carried
  BY <1>5 DEF Pushes
<1> HIDE DEF p
<1>9. CASE found = NoConversation
  <2> DEFINE r == UpsertConversation(remote[c], carried)
             m2 == UpsertConversation(memory[c], carried)
  <2>1. Both(c, r, m2)
    BY <1>6, <1>9 DEF PutDocument
  <2>2. r \in Stores /\ m2 \in Stores /\ r.doc = carried
    BY <1>1, <1>5, PutTyped
  <2>3. c \notin dropped' => AlikeStores(r, m2)
    BY <1>1, <1>5, PutAlike
  <2> HIDE DEF r, m2
  <2> QED BY <1>1, <1>6, <1>8, <2>1, <2>2, <2>3, BothKeep
<1>10. CASE found # NoConversation
  BY <1>1, <1>6, <1>7, <1>8, <1>10, StoresKeep
<1> QED BY <1>9, <1>10

LEMMA AppendKeeps ==
  ASSUME RepoInv, NEW p \in push, AppendSteps(p)
  PROVE  RepoInv'
<1> DEFINE r == remote[p.conv]
           m == memory[p.conv]
<1>1. r.doc = p.copy /\ r.doc \in Docs
  BY PushState DEF RepoInv, CopyCurrent, AppendSteps
<1>2. PICK b \in Batches(p.copy.lss) : \E kept \in SUBSET b, merged \in BOOLEAN :
        /\ Both(p.conv, ClientAppend(r, b, kept, merged), MemoryAppend(m, b))
        /\ dropped' = dropped \cup (IF kept = b /\ merged THEN {} ELSE {p.conv})
        /\ push' = {[p EXCEPT !.stage = "metadata",
                              !.copy = [lss |-> TopIndex(b), src |-> p.by]]}
  BY DEF AppendSteps
<1>3. PICK kept \in SUBSET b, merged \in BOOLEAN :
        /\ Both(p.conv, ClientAppend(r, b, kept, merged), MemoryAppend(m, b))
        /\ dropped' = dropped \cup (IF kept = b /\ merged THEN {} ELSE {p.conv})
        /\ push' = {[p EXCEPT !.stage = "metadata",
                              !.copy = [lss |-> TopIndex(b), src |-> p.by]]}
  BY <1>2
<1>4. TopIndex(b) \in 0 .. TopStep
  BY PushState, DocIsThere, TopIndexOfBatch
<1>5. [lss |-> TopIndex(b), src |-> p.by] \in Docs
  BY <1>4, PushState DEF Docs
<1>6. push' \in SUBSET Pushes /\ (\A q, t \in push' : q = t)
      /\ \A q \in push' : q.stage = "metadata"
  BY <1>3, <1>5, PushState DEF Pushes
<1> DEFINE after == ClientAppend(r, b, kept, merged)
           double == MemoryAppend(m, b)
<1>7. after \in Stores /\ double \in Stores
  BY <1>1, PushState, AppendTyped
<1>8. p.conv \notin dropped' => AlikeStores(after, double)
  <2>1. ASSUME p.conv \notin dropped' PROVE p.conv \notin dropped /\ kept = b /\ merged
    BY <1>3, <2>1
  <2>2. p.conv \notin dropped => AlikeStores(ClientAppend(r, b, b, TRUE), double)
    BY <1>1, PushState, AppendAlike
  <2> QED BY <2>1, <2>2
<1>9. dropped \ {p.conv} \subseteq dropped' /\ dropped' \subseteq Conversation
  BY <1>3, PushState
<1>10. Both(p.conv, after, double)
  BY <1>3
<1> HIDE DEF after, double
<1> QED BY <1>6, <1>7, <1>8, <1>9, <1>10, PushState, BothKeep

(* The other steps of a push: what they save leaves the stores alike.      *)
LEMMA OtherStepsKeep ==
  ASSUME RepoInv, NEW p \in push,
         PutMetadata(p) \/ SaveArtifact(p) \/ FinishPush(p)
  PROVE  RepoInv'
<1> DEFINE c == p.conv
<1>1. PICK r \in Stores, m \in Stores :
        Both(c, r, m) /\ (c \notin dropped => AlikeStores(r, m))
  <2>1. ASSUME NEW d \in Docs, PutDocument(c, d)
        PROVE  \E r \in Stores, m \in Stores :
                 Both(c, r, m) /\ (c \notin dropped => AlikeStores(r, m))
    <3>1. /\ UpsertConversation(remote[c], d) \in Stores
          /\ UpsertConversation(memory[c], d) \in Stores
      BY PushState, PutTyped
    <3>2. c \notin dropped =>
            AlikeStores(UpsertConversation(remote[c], d), UpsertConversation(memory[c], d))
      BY PushState, PutAlike
    <3> QED BY <2>1, <3>1, <3>2 DEF PutDocument
  <2>2. CASE PutMetadata(p)
    BY <2>1, <2>2, PushState DEF PutMetadata
  <2>3. CASE SaveArtifact(p)
    <3>1. PICK a \in Artifacts :
            Both(c, ClientSave(remote[c], a), MemorySave(memory[c], a))
      BY <2>3 DEF SaveArtifact
    <3>2. ClientSave(remote[c], a) \in Stores /\ MemorySave(memory[c], a) \in Stores
      BY PushState, SaveTyped
    <3>3. c \notin dropped =>
            AlikeStores(ClientSave(remote[c], a), MemorySave(memory[c], a))
      BY PushState, SaveAlike
    <3> QED BY <3>1, <3>2, <3>3
  <2>4. CASE FinishPush(p)
    <3>1. [p.copy EXCEPT !.src = p.by] \in Docs
      BY PushState DEF Docs
    <3> QED BY <2>1, <2>4, <3>1 DEF FinishPush
  <2> QED BY <2>2, <2>3, <2>4
<1>2. push' \in {{}, {[p EXCEPT !.stage = "files"]}} /\ UNCHANGED dropped
  BY DEF PutMetadata, SaveArtifact, FinishPush
<1>3. push' \in SUBSET Pushes /\ (\A q, t \in push' : q = t)
      /\ \A q \in push' : q.stage # "steps"
  BY <1>2, PushState DEF Pushes
<1> QED BY <1>1, <1>2, <1>3, PushState, BothKeep

LEMMA ClearKeeps ==
  ASSUME RepoInv, (\E c \in Conversation : DeleteConversation(c)) \/ ClearAll
  PROVE  RepoInv'
<1>1. CASE \E c \in Conversation : DeleteConversation(c)
  <2>1. PICK c \in Conversation : DeleteConversation(c)
    BY <1>1
  <2>2. PICK rest \in Remains(remote[c]) :
          /\ Both(c, rest, EmptyStore)
          /\ dropped' = IF rest = EmptyStore THEN dropped \ {c} ELSE dropped \cup {c}
    BY <2>1 DEF DeleteConversation
  <2>3. rest \in Stores
    BY RemainsTyped DEF RepoInv, RepoTypeOK
  <2>4. c \notin dropped' => AlikeStores(rest, EmptyStore)
    BY <2>2, EmptyAlike
  <2>5. dropped \ {c} \subseteq dropped' /\ dropped' \subseteq Conversation
    BY <2>2 DEF RepoInv, RepoTypeOK
  <2>6. push' = {}
    BY <2>1 DEF DeleteConversation
  <2> QED BY <2>2, <2>3, <2>4, <2>5, <2>6, EmptyAlike, BothKeep
<1>2. CASE ClearAll
  <2>1. /\ push' = {} /\ memory' = [c \in Conversation |-> EmptyStore]
        /\ dropped' = {c \in Conversation : remote'[c] # EmptyStore}
    BY <1>2 DEF ClearAll
  <2>2. remote' \in [Conversation -> Stores]
    <3> DEFINE Left == UNION {Remains(remote[c]) : c \in Conversation}
    <3>1. /\ remote' \in [Conversation -> Left]
          /\ \A c \in Conversation : remote'[c] \in Remains(remote[c])
      BY <1>2 DEF ClearAll
    <3>2. \A c \in Conversation : remote'[c] \in Stores
      BY <3>1, RemainsTyped DEF RepoInv, RepoTypeOK
    <3> HIDE DEF Left
    <3> QED BY <3>1, <3>2
  <2>3. Alike' /\ CopyCurrent'
    BY <2>1, EmptyAlike DEF Alike, CopyCurrent
  <2> QED BY <2>1, <2>2, <2>3, EmptyAlike DEF RepoInv, RepoTypeOK
<1> QED BY <1>1, <1>2

LEMMA RepoInvNext == RepoInv /\ [RepoNext]_repoVars => RepoInv'
<1> SUFFICES ASSUME RepoInv, [RepoNext]_repoVars PROVE RepoInv'
  OBVIOUS
<1>1. CASE \E c \in Conversation : GetConversation(c)
  BY <1>1, GetKeeps
<1>2. CASE (\E c \in Conversation : DeleteConversation(c)) \/ ClearAll
  BY <1>2, ClearKeeps
<1>3. CASE \E p \in push : PushStep(p)
  <2>1. PICK p \in push : PushStep(p)
    BY <1>3
  <2>2. CASE AppendSteps(p)
    BY <2>2, AppendKeeps
  <2>3. CASE PutMetadata(p) \/ SaveArtifact(p) \/ FinishPush(p)
    BY <2>3, OtherStepsKeep
  <2>4. CASE AbandonPush(p)
    <3>1. push' = {} /\ UNCHANGED <<remote, memory, dropped>>
      BY <2>4 DEF AbandonPush
    <3> QED BY <3>1, StoresKeep
  <2> QED BY <2>1, <2>2, <2>3, <2>4 DEF PushStep
<1>4. CASE UNCHANGED repoVars
  <2>1. UNCHANGED <<remote, memory, push, dropped>>
    BY <1>4 DEF repoVars
  <2> QED BY <2>1 DEF RepoInv, RepoTypeOK, Alike, CopyCurrent
<1> QED BY <1>1, <1>2, <1>3, <1>4 DEF RepoNext

-----------------------------------------------------------------------------
(* Repositories: the theorems.                                             *)

(* Both stores keep their types, and no push ever holds a document, an     *)
(* index or a stage that is none.                                          *)
THEOREM RepoTypeCorrect == RepoSpec => []RepoTypeOK
<1>1. RepoInv => RepoTypeOK
  BY DEF RepoInv
<1> QED BY <1>1, RepoInvInit, RepoInvNext, PTL DEF RepoSpec

(* The double answers as the client does, for any conversations, paths and *)
(* contents, about each conversation none of whose queued writes and       *)
(* deletions was lost: there the tests that run on it speak of the program.*)
THEOREM DoubleAnswersAlike == RepoSpec => []SameAnswers
<1>1. RepoInv => SameAnswers
  <2> SUFFICES ASSUME RepoInv, NEW c \in Conversation \ dropped
               PROVE  /\ remote[c].doc = memory[c].doc
                      /\ \A i \in -1 .. TopStep :
                           StepsAfter(remote[c], i) = StepsAfter(memory[c], i)
                      /\ remote[c].arts \subseteq memory[c].arts
                      /\ \A p \in KeyAlone :
                           ClientArtifact(remote[c], p) = MemoryArtifact(memory[c], p)
    BY DEF SameAnswers
  <2>1. AlikeStores(remote[c], memory[c]) /\ remote[c] \in Stores
    BY DEF RepoInv, RepoTypeOK, Alike
  <2>2. ASSUME NEW p \in KeyAlone
        PROVE  ClientArtifact(remote[c], p) = MemoryArtifact(memory[c], p)
    <3>1. {a \in remote[c].arts : a.id = p} = {a \in memory[c].arts : a.id = p}
      BY <2>1 DEF AlikeStores, SameArtifact
    <3>2. \A a \in remote[c].arts : a.id \in ArtifactPath
      BY <2>1, StoreFields DEF Artifacts
    <3>3. \A a \in remote[c].arts : DocKey(a.id) = DocKey(p) <=> a.id = p
      BY <3>2 DEF KeyAlone
    <3> QED BY <3>1, <3>3 DEF ClientArtifact, MemoryArtifact
  <2> QED BY <2>1, <2>2 DEF AlikeStores, StepsAfter
<1> QED BY <1>1, RepoInvInit, RepoInvNext, PTL DEF RepoSpec

-----------------------------------------------------------------------------
(* Summaries: the operators.                                               *)

(* The last user input among n steps is an input among them, and no        *)
(* earlier one; or there is none.                                          *)
LEMMA LastInputIs ==
  ASSUME inputs \subseteq Nat, NEW n \in Int
  PROVE  /\ LastInput(n) = -1 \/ (LastInput(n) \in inputs /\ LastInput(n) < n)
         /\ LastInput(n) \in Int /\ LastInput(n) >= -1
         /\ \A j \in inputs : j < n => j <= LastInput(n)
<1> DEFINE Under == {i \in inputs : i < n}
<1>1. CASE Under = {}
  <2>1. LastInput(n) = -1
    BY <1>1 DEF LastInput
  <2> QED BY <1>1, <2>1
<1>2. CASE Under # {}
  <2>1. ASSUME NEW s \in Under PROVE s \in Int /\ s <= n
    <3>1. s \in Nat /\ s < n
      OBVIOUS
    <3> QED BY <3>1
  <2>2. \E x \in Under : \A y \in Under : y <= x
    <3> HIDE DEF Under
    <3> QED BY <1>2, <2>1, MaximumExists, SMT
  <2>3. LastInput(n) = CHOOSE x \in Under : \A y \in Under : y <= x
    BY <1>2 DEF LastInput
  <2>4. LastInput(n) \in Under /\ \A y \in Under : y <= LastInput(n)
    <3> HIDE DEF Under
    <3> QED BY <2>2, <2>3
  <2>5. LastInput(n) \in inputs /\ LastInput(n) < n
    BY <2>4
  <2>6. LastInput(n) \in Nat
    BY <2>5
  <2>7. ASSUME NEW j \in inputs, j < n PROVE j <= LastInput(n)
    <3>1. j \in Under
      BY <2>7
    <3> QED BY <2>4, <3>1
  <2> QED BY <2>5, <2>6, <2>7
<1> QED BY <1>1, <1>2

(* An input that is added at or beyond n does not change it.               *)
LEMMA LastInputStays ==
  ASSUME NEW n \in Int, NEW k \in Int, n <= k,
         inputs' = inputs \/ inputs' = inputs \cup {k}
  PROVE  LastInput(n)' = LastInput(n)
<1> DEFINE Pick(S) == IF S = {} THEN -1 ELSE CHOOSE x \in S : \A y \in S : y <= x
<1>1. {j \in inputs' : j < n} = {j \in inputs : j < n}
  OBVIOUS
<1>2. LastInput(n) = Pick({j \in inputs : j < n})
  BY DEF LastInput
<1>3. LastInput(n)' = Pick({j \in inputs' : j < n})
  BY DEF LastInput
<1> HIDE DEF Pick
<1> QED BY <1>1, <1>2, <1>3

LEMMA SummaryFields ==
  ASSUME NEW c \in 0 .. StepBound, NEW i \in -1 .. StepBound - 1,
         NEW t \in 0 .. StepBound
  PROVE  [count |-> c, idx |-> i, at |-> t] \in Summary
BY DEF Summary

(* The merges keep the types.                                              *)
LEMMA BuiltTyped ==
  ASSUME inputs \subseteq 0 .. StepBound - 1, NEW n \in 0 .. StepBound
  PROVE  /\ LastInput(n) \in -1 .. StepBound - 1
         /\ InputTime(n) \in 0 .. StepBound
         /\ BuildSummary(n) \in Summary
<1>1. StepBound \in Nat \ {0}
  BY SummaryAssumption
<1>2. inputs \subseteq Nat /\ n \in Int
  BY <1>1
<1>3. LastInput(n) \in -1 .. StepBound - 1
  BY <1>1, <1>2, LastInputIs
<1>4. InputTime(n) \in 0 .. StepBound
  BY <1>1, <1>3 DEF InputTime
<1> QED BY <1>1, <1>3, <1>4 DEF BuildSummary, Summary

LEMMA UpsertTyped ==
  ASSUME NEW r \in Summary \cup {NoRow}, NEW s \in Summary
  PROVE  Upsert(r, s) \in Summary
<1>1. StepBound \in Nat \ {0}
  BY SummaryAssumption
<1>2. CASE r = NoRow
  BY <1>2 DEF Upsert
<1>3. CASE r # NoRow
  <2>1. r \in Summary
    BY <1>3
  <2>2. Larger(s.count, r.count) \in 0 .. StepBound
    BY <1>1, <2>1 DEF Larger, Summary
  <2>3. Larger(s.idx, r.idx) \in -1 .. StepBound - 1
    BY <1>1, <2>1 DEF Larger, Summary
  <2>4. (IF s.idx >= 0 THEN s.at ELSE r.at) \in 0 .. StepBound
    BY <1>1, <2>1 DEF Summary
  <2> QED BY <1>3, <2>2, <2>3, <2>4 DEF Upsert, Summary
<1> QED BY <1>2, <1>3

LEMMA FallbackTyped ==
  ASSUME inputs \subseteq 0 .. StepBound - 1, NEW n \in 0 .. StepBound,
         NEW s \in Summary
  PROVE  Fallback(s, n) \in Summary
BY BuiltTyped DEF Fallback, Summary

LEMMA PushedTyped ==
  ASSUME inputs \subseteq 0 .. StepBound - 1, NEW n \in 0 .. StepBound,
         NEW s \in Summary, NEW r \in Summary \cup {NoRow}
  PROVE  PushedSummary(s, r, n) \in Summary
<1>1. StepBound \in Nat \ {0}
  BY SummaryAssumption
<1>2. FromRow(s, r) \in Summary
  BY <1>1 DEF FromRow, Summary, NoRow
<1> DEFINE t == IF r # NoRow THEN FromRow(s, r)
                ELSE IF n > 0 THEN BuildSummary(n) ELSE s
           c == Larger(IF r # NoRow THEN t.count ELSE s.count, n)
<1>3. t \in Summary
  BY <1>2, BuiltTyped
<1>4. PushedSummary(s, r, n) = [t EXCEPT !.count = c]
  BY DEF PushedSummary
<1>5. c \in 0 .. StepBound
  <2> HIDE DEF t
  <2> QED BY <1>1, <1>3 DEF Larger, Summary
<1> HIDE DEF t, c
<1> QED BY <1>3, <1>4, <1>5 DEF Summary
-----------------------------------------------------------------------------
(* Summaries: types.                                                       *)

SummaryStage == {"create", "steps", "mark", "summary", "final", "fetch", "merge"}

(* A call that has begun carries a real document.                          *)
Carrying ==
  /\ stage \in [SummaryMachine -> {"idle"} \cup SummaryStage]
  /\ \A m \in SummaryMachine : stage[m] # "idle" => copy[m] \in Doc
SummaryTyped == SummaryTypeOK /\ Carrying

LEMMA FreshIsDoc == FreshDoc \in Doc
<1>1. StepBound \in Nat \ {0}
  BY SummaryAssumption
<1>2. [count |-> 0, idx |-> 0, at |-> 0] \in Summary
  BY <1>1, SummaryFields
<1> QED BY <1>1, <1>2 DEF FreshDoc, Doc

LEMMA SummaryTypedInit == SummaryInit => SummaryTyped
<1>1. StepBound \in Nat \ {0} /\ Writer \in SummaryMachine
  BY SummaryAssumption
<1> SUFFICES ASSUME SummaryInit PROVE SummaryTyped
  OBVIOUS
<1>2. SummaryTypeOK
  BY <1>1 DEF SummaryInit, SummaryTypeOK
<1>3. Carrying
  BY DEF SummaryInit, Carrying
<1> QED BY <1>2, <1>3 DEF SummaryTyped

(* A call's step that leaves what is on the machines alone.                *)
LEMMA CallTyped ==
  ASSUME SummaryTyped, UNCHANGED localState,
         doc' \in Doc \cup {NoDoc}, published' \in 0 .. StepBound,
         copy' \in [SummaryMachine -> Doc \cup {NoDoc}], Carrying'
  PROVE  SummaryTyped'
BY DEF SummaryTyped, SummaryTypeOK, localState

LEMMA SummaryTypedPush ==
  ASSUME SummaryTyped, NEW m \in SummaryMachine, SummaryPush(m) \/ PushOn(m)
  PROVE  SummaryTyped'
<1> USE DEF SummaryTyped
<1>0. StepBound \in Nat \ {0}
  BY SummaryAssumption
<1>1. CASE SummaryPush(m)
  <2>1. copy'[m] \in Doc /\ copy' \in [SummaryMachine -> Doc \cup {NoDoc}]
    BY <1>1, FreshIsDoc DEF SummaryPush, SummaryTypeOK
  <2>2. Carrying'
    BY <1>1, <2>1 DEF SummaryPush, Carrying, SummaryTypeOK, SummaryStage, Advance
  <2> QED BY <1>1, <2>1, <2>2, CallTyped DEF SummaryPush, remoteState, SummaryTypeOK
<1>2. CASE StoreDoc(m)
  <2>1. copy[m] \in Doc
    BY <1>2 DEF StoreDoc, Advance, Carrying
  <2>2. copy' \in [SummaryMachine -> Doc \cup {NoDoc}]
    BY <1>2 DEF StoreDoc, Rest, SummaryTypeOK
  <2>3. Carrying'
    BY <1>2, <2>1 DEF StoreDoc, Carrying, Rest, Advance, SummaryStage, SummaryTypeOK
  <2> QED BY <1>2, <2>1, <2>2, <2>3, CallTyped DEF StoreDoc, SummaryTypeOK
<1>3. CASE StoreSteps(m)
  <2>1. copy[m] \in Doc /\ held[m] \in 0 .. StepBound
    BY <1>3 DEF StoreSteps, Advance, Carrying, SummaryTypeOK
  <2>2. published' \in 0 .. StepBound
    BY <1>0, <1>3, <2>1 DEF StoreSteps, Larger, SummaryTypeOK
  <2>3. copy'[m] \in Doc /\ copy' \in [SummaryMachine -> Doc \cup {NoDoc}]
    <3>1. CASE copy' = [copy EXCEPT ![m].lss = held[m] - 1]
      <4>1. held[m] - 1 \in -1 .. StepBound - 1
        BY <1>0, <2>1
      <4>2. [copy[m] EXCEPT !.lss = held[m] - 1] \in Doc
        BY <2>1, <4>1 DEF Doc
      <4> QED BY <3>1, <4>2 DEF SummaryTypeOK
    <3>2. CASE copy' = copy
      BY <2>1, <3>2 DEF SummaryTypeOK
    <3> QED BY <1>3, <3>1, <3>2 DEF StoreSteps
  <2>4. Carrying'
    BY <1>3, <2>3 DEF StoreSteps, Carrying, Advance, SummaryStage, SummaryTypeOK
  <2> QED BY <1>3, <2>2, <2>3, <2>4, CallTyped DEF StoreSteps, SummaryTypeOK
<1>4. CASE ReadSummary(m)
  <2>1. copy[m] \in Doc
    BY <1>4 DEF ReadSummary, Advance, Carrying
  <2> DEFINE p == PushedSummary(copy[m].sum, row[m], held[m])
  <2>2. p \in Summary
    BY <2>1, PushedTyped DEF SummaryTypeOK, Doc
  <2>3. copy' = [copy EXCEPT ![m].sum = p, ![m].chunks = @ \/ held[m] > 0]
    BY <1>4 DEF ReadSummary
  <2> HIDE DEF p
  <2>4. copy'[m] \in Doc /\ copy' \in [SummaryMachine -> Doc \cup {NoDoc}]
    <3>1. [copy[m] EXCEPT !.sum = p, !.chunks = @ \/ held[m] > 0] \in Doc
      BY <2>1, <2>2 DEF Doc
    <3> QED BY <2>3, <3>1 DEF SummaryTypeOK
  <2>5. Carrying'
    BY <1>4, <2>4 DEF ReadSummary, Carrying, SummaryStage, Advance, SummaryTypeOK
  <2> QED BY <1>4, <2>4, <2>5, CallTyped DEF ReadSummary, remoteState, SummaryTypeOK
<1> QED BY <1>1, <1>2, <1>3, <1>4 DEF PushOn

LEMMA SummaryTypedPull ==
  ASSUME SummaryTyped, NEW m \in SummaryMachine,
         SummaryPull(m) \/ PullOn(m) \/ GiveUp(m)
  PROVE  SummaryTyped'
<1> USE DEF SummaryTyped
<1>0. StepBound \in Nat \ {0}
  BY SummaryAssumption
<1>1. CASE SummaryPull(m)
  <2>1. copy'[m] \in Doc /\ copy' \in [SummaryMachine -> Doc \cup {NoDoc}]
    BY <1>1 DEF SummaryPull, SummaryTypeOK
  <2>2. Carrying'
    BY <1>1, <2>1 DEF SummaryPull, Carrying, SummaryStage, Advance, SummaryTypeOK
  <2> QED BY <1>1, <2>1, <2>2, CallTyped DEF SummaryPull, remoteState, SummaryTypeOK
<1>2. CASE FetchSteps(m)
  <2>1. Larger(held[m], published) \in 0 .. StepBound
    BY DEF Larger, SummaryTypeOK
  <2>2. SummaryTypeOK'
    BY <1>2, <2>1 DEF FetchSteps, SummaryTypeOK, remoteState
  <2>3. Carrying'
    BY <1>2 DEF FetchSteps, Carrying, SummaryStage, Advance
  <2> QED BY <2>2, <2>3
<1>3. CASE MergeRow(m)
  <2>1. copy[m] \in Doc
    BY <1>3 DEF MergeRow, Carrying
  <2>2. copy[m].sum \in Summary /\ row[m] \in Summary \cup {NoRow}
    BY <2>1 DEF Doc, SummaryTypeOK
  <2>3. Fallback(copy[m].sum, held[m]) \in Summary
    BY <2>2, FallbackTyped DEF SummaryTypeOK
  <2>4. /\ Upsert(row[m], copy[m].sum) \in Summary
        /\ Upsert(row[m], Fallback(copy[m].sum, held[m])) \in Summary
    BY <2>2, <2>3, UpsertTyped
  <2>5. row' \in [SummaryMachine -> Summary \cup {NoRow}]
    BY <1>3, <2>4 DEF MergeRow, SummaryTypeOK
  <2>6. SummaryTypeOK'
    BY <1>3, <2>5 DEF MergeRow, SummaryTypeOK, remoteState, Rest
  <2>7. Carrying'
    BY <1>3 DEF MergeRow, Carrying, Rest, SummaryTypeOK
  <2> QED BY <2>6, <2>7
<1>4. CASE GiveUp(m)
  <2>1. Carrying' /\ copy' \in [SummaryMachine -> Doc \cup {NoDoc}]
    BY <1>4 DEF GiveUp, Carrying, Rest, SummaryTypeOK
  <2> QED BY <1>4, <2>1, CallTyped DEF GiveUp, remoteState, SummaryTypeOK
<1> QED BY <1>1, <1>2, <1>3, <1>4 DEF PullOn

LEMMA SummaryTypedStep == SummaryTyped /\ [SummaryNext]_summaryVars => SummaryTyped'
<1> SUFFICES ASSUME SummaryTyped, [SummaryNext]_summaryVars PROVE SummaryTyped'
  OBVIOUS
<1> USE DEF SummaryTyped
<1>0. StepBound \in Nat \ {0} /\ Writer \in SummaryMachine
  BY SummaryAssumption
<1>1. CASE WriteStep
  <2>1. held[Writer] \in 0 .. StepBound - 1
    BY <1>0, <1>1 DEF WriteStep, SummaryTypeOK
  <2>2. SummaryTypeOK'
    BY <1>0, <1>1, <2>1 DEF WriteStep, SummaryTypeOK, remoteState
  <2>3. Carrying'
    BY <1>1 DEF WriteStep, Carrying
  <2> QED BY <2>2, <2>3
<1>2. CASE WriteRow
  <2>1. BuildSummary(held[Writer]) \in Summary
    BY <1>0, BuiltTyped DEF SummaryTypeOK
  <2>2. SummaryTypeOK'
    BY <1>0, <1>2, <2>1 DEF WriteRow, SummaryTypeOK, remoteState
  <2>3. Carrying'
    BY <1>2 DEF WriteRow, Carrying
  <2> QED BY <2>2, <2>3
<1>3. CASE UNCHANGED summaryVars
  BY <1>3 DEF summaryVars, SummaryTypeOK, Carrying
<1> QED
  BY <1>1, <1>2, <1>3, SummaryTypedPush, SummaryTypedPull DEF SummaryNext

LEMMA AlwaysSummaryTyped == SummarySpec => []SummaryTyped
BY SummaryTypedInit, SummaryTypedStep, PTL DEF SummarySpec

(* Rows, documents, transcripts and the copies of every call hold what     *)
(* they may, on any machines.                                              *)
THEOREM SummaryTypeCorrect == SummarySpec => []SummaryTypeOK
<1>1. SummaryTyped => SummaryTypeOK
  BY DEF SummaryTyped
<1> QED BY <1>1, AlwaysSummaryTyped, PTL

-----------------------------------------------------------------------------
(* Summaries: nothing is invented.                                         *)

(* The writer's transcript is ahead of every other, and the inputs are in  *)
(* it; the copies in flight name nothing else either.                      *)
Leads ==
  /\ \A i \in inputs : i < held[Writer]
  /\ \A m \in SummaryMachine : held[m] <= held[Writer]
  /\ published <= held[Writer]
CopiesEntered == \A m \in SummaryMachine : Entered(copy[m].sum)
EnteredInv == Leads /\ NothingInvented /\ CopiesEntered

(* What lines of any transcript give is entered.                           *)
LEMMA BuiltEntered ==
  ASSUME SummaryTyped, Leads, NEW n \in 0 .. held[Writer]
  PROVE  Entered(BuildSummary(n))
<1>1. Writer \in SummaryMachine /\ StepBound \in Nat \ {0}
  BY SummaryAssumption
<1>2. held[Writer] \in Nat /\ inputs \subseteq Nat /\ n \in Int /\ n <= held[Writer]
  BY <1>1 DEF SummaryTyped, SummaryTypeOK
<1>3. /\ LastInput(n) = -1 \/ (LastInput(n) \in inputs /\ LastInput(n) < n)
      /\ LastInput(n) \in Int
  BY <1>2, LastInputIs
<1>4. /\ BuildSummary(n).idx = LastInput(n)
      /\ BuildSummary(n).at = LastInput(n) + 1
      /\ BuildSummary(n).count = n
  BY DEF BuildSummary, InputTime
<1>5. BuildSummary(n).at - 1 = LastInput(n)
  BY <1>3, <1>4
<1> HIDE DEF BuildSummary
<1>6. BuildSummary(n).idx > 0 => BuildSummary(n).idx \in inputs
  BY <1>3, <1>4
<1>7. BuildSummary(n).at > 0 => BuildSummary(n).at - 1 \in inputs
  BY <1>3, <1>4, <1>5
<1> QED BY <1>2, <1>4, <1>6, <1>7 DEF Entered

(* Merging and pushing choose among the columns they are given, and a      *)
(* count of lines is one of a transcript's.                                *)
LEMMA UpsertEntered ==
  ASSUME SummaryTyped, NEW r \in Summary \cup {NoRow}, NEW s \in Summary,
         Entered(r), Entered(s)
  PROVE  Entered(Upsert(r, s))
<1> DEFINE u == Upsert(r, s)
<1>1. CASE r = NoRow
  BY <1>1 DEF Upsert
<1>2. CASE r # NoRow
  <2>1. /\ u.count = s.count \/ u.count = r.count
        /\ u.idx = s.idx \/ u.idx = r.idx
        /\ u.at = s.at \/ u.at = r.at
    BY <1>2 DEF Upsert, Larger
  <2> HIDE DEF u
  <2> QED BY <2>1 DEF Entered, u
<1> QED BY <1>1, <1>2

LEMMA FallbackEntered ==
  ASSUME SummaryTyped, Leads, NEW n \in 0 .. held[Writer],
         NEW s \in Summary, Entered(s)
  PROVE  Entered(Fallback(s, n))
<1> DEFINE f == Fallback(s, n)
           b == BuildSummary(n)
<1>1. /\ f.count = b.count
      /\ f.idx = s.idx \/ f.idx = b.idx
      /\ f.at = s.at \/ f.at = b.at
  BY DEF Fallback, BuildSummary
<1>2. Entered(b)
  BY BuiltEntered
<1> HIDE DEF f, b
<1> QED BY <1>1, <1>2 DEF Entered, f

LEMMA PushedEntered ==
  ASSUME SummaryTyped, Leads, NEW n \in 0 .. held[Writer],
         NEW s \in Summary, NEW r \in Summary \cup {NoRow},
         Entered(s), Entered(r)
  PROVE  Entered(PushedSummary(s, r, n))
<1> DEFINE t == IF r # NoRow THEN FromRow(s, r)
                ELSE IF n > 0 THEN BuildSummary(n) ELSE s
           c == Larger(IF r # NoRow THEN t.count ELSE s.count, n)
           p == PushedSummary(s, r, n)
<1>1. p = [t EXCEPT !.count = c]
  BY DEF PushedSummary
<1>2. Writer \in SummaryMachine /\ StepBound \in Nat \ {0}
  BY SummaryAssumption
<1>3. held[Writer] \in 0 .. StepBound /\ inputs \subseteq 0 .. StepBound - 1
  BY <1>2 DEF SummaryTyped, SummaryTypeOK
<1>4. n \in 0 .. StepBound /\ n <= held[Writer]
  BY <1>2, <1>3
<1>5. FromRow(s, r) \in Summary /\ Entered(FromRow(s, r))
  <2>1. FromRow(s, r) \in Summary
    BY <1>2 DEF FromRow, Summary, NoRow
  <2>2. /\ FromRow(s, r).count = s.count \/ FromRow(s, r).count = r.count
        /\ FromRow(s, r).idx = s.idx \/ FromRow(s, r).idx = r.idx
        /\ FromRow(s, r).at = s.at \/ FromRow(s, r).at = r.at
    BY DEF FromRow
  <2> QED BY <2>1, <2>2 DEF Entered
<1>6. t \in Summary
  BY <1>3, <1>4, <1>5, BuiltTyped
<1>7. Entered(t)
  BY <1>5, BuiltEntered
<1>8. c <= held[Writer]
  <2>1. (IF r # NoRow THEN t.count ELSE s.count) <= held[Writer]
    BY <1>7 DEF Entered
  <2> HIDE DEF t
  <2> QED BY <1>4, <2>1 DEF Larger
<1> HIDE DEF t, c, p
<1>9. p.count = c /\ p.idx = t.idx /\ p.at = t.at
  BY <1>1, <1>6 DEF Summary
<1> QED BY <1>7, <1>8, <1>9 DEF Entered, p

LEMMA EnteredInit == SummaryInit => EnteredInv
<1> SUFFICES ASSUME SummaryInit PROVE EnteredInv
  OBVIOUS
<1>1. Writer \in SummaryMachine
  BY SummaryAssumption
<1>2. held[Writer] = 0 /\ Leads
  BY <1>1 DEF SummaryInit, Leads
<1>3. Entered(NoDoc.sum) /\ Entered(NoRow)
  BY <1>2 DEF Entered, NoDoc, FreshDoc, NoRow
<1>4. NothingInvented /\ CopiesEntered
  BY <1>3 DEF SummaryInit, NothingInvented, CopiesEntered
<1> QED BY <1>2, <1>4 DEF EnteredInv

LEMMA EnteredAgent ==
  ASSUME SummaryTyped, EnteredInv, WriteStep \/ WriteRow
  PROVE  EnteredInv'
<1> USE DEF EnteredInv
<1> DEFINE h == held[Writer]
<1>1. Writer \in SummaryMachine /\ StepBound \in Nat \ {0}
  BY SummaryAssumption
<1>2. h \in Nat /\ held \in [SummaryMachine -> 0 .. StepBound]
        /\ inputs \subseteq 0 .. StepBound - 1
        /\ row \in [SummaryMachine -> Summary \cup {NoRow}]
        /\ copy \in [SummaryMachine -> Doc \cup {NoDoc}]
        /\ doc \in Doc \cup {NoDoc} /\ published \in Nat
  BY <1>1 DEF SummaryTyped, SummaryTypeOK
<1>3. CASE WriteStep
  <2>1. /\ held' = [held EXCEPT ![Writer] = h + 1]
        /\ inputs' = inputs \/ inputs' = inputs \cup {h}
        /\ UNCHANGED <<row, doc, copy, published>>
    BY <1>3 DEF WriteStep, remoteState
  <2>2. held'[Writer] = h + 1 /\ inputs \subseteq inputs'
    BY <1>1, <1>2, <2>1
  <2>3. Leads'
    <3>1. ASSUME NEW i \in inputs' PROVE i < held'[Writer]
      <4>1. i \in inputs => i \in Int /\ i < h
        BY <1>1, <1>2 DEF Leads
      <4> QED BY <1>2, <2>1, <2>2, <4>1
    <3>2. ASSUME NEW m \in SummaryMachine PROVE held'[m] <= held'[Writer]
      BY <1>1, <1>2, <2>1, <2>2 DEF Leads
    <3>3. published' <= held'[Writer]
      BY <1>2, <2>1, <2>2 DEF Leads
    <3> QED BY <3>1, <3>2, <3>3 DEF Leads
  <2>4. ASSUME NEW s, s.count \in Int, Entered(s) PROVE Entered(s)'
    <3>1. s.count <= held'[Writer]
      BY <1>2, <2>2, <2>4 DEF Entered
    <3> QED BY <2>2, <2>4, <3>1 DEF Entered
  <2>5. /\ \A m \in SummaryMachine : row[m].count \in Int /\ copy[m].sum.count \in Int
        /\ doc.sum.count \in Int
    BY <1>1, <1>2 DEF Summary, NoRow, Doc, NoDoc, FreshDoc
  <2>6. /\ \A m \in SummaryMachine : Entered(row[m])' /\ Entered(copy[m].sum)'
        /\ Entered(doc.sum)'
    <3>1. \A m \in SummaryMachine : Entered(row[m]) /\ Entered(copy[m].sum)
      BY DEF NothingInvented, CopiesEntered
    <3>2. Entered(doc.sum)
      BY DEF NothingInvented
    <3>3. ASSUME NEW m \in SummaryMachine
          PROVE  /\ row[m].count <= held'[Writer] /\ copy[m].sum.count <= held'[Writer]
      BY <1>2, <2>2, <2>5, <3>1 DEF Entered
    <3>4. doc.sum.count <= held'[Writer]
      BY <1>2, <2>2, <2>5, <3>2 DEF Entered
    <3> QED BY <2>1, <2>2, <3>1, <3>2, <3>3, <3>4 DEF Entered
  <2> QED BY <2>3, <2>6 DEF NothingInvented, CopiesEntered
<1>4. CASE WriteRow
  <2>1. /\ row' = [row EXCEPT ![Writer] = BuildSummary(h)]
        /\ UNCHANGED <<inputs, held, doc, copy, published>>
    BY <1>4 DEF WriteRow, remoteState
  <2>2. Entered(BuildSummary(h))
    BY <1>2, BuiltEntered
  <2>3. \A m \in SummaryMachine : Entered(row'[m])
    BY <1>2, <2>1, <2>2 DEF NothingInvented
  <2> QED BY <2>1, <2>3 DEF Leads, NothingInvented, CopiesEntered, Entered
<1> QED BY <1>3, <1>4

(* A call's step that leaves transcripts and rows alone.                   *)
LEMMA EnteredCall ==
  ASSUME EnteredInv, UNCHANGED localState, published' <= held[Writer],
         Entered(doc'.sum), \A m \in SummaryMachine : Entered(copy'[m].sum)
  PROVE  EnteredInv'
BY DEF EnteredInv, Leads, NothingInvented, CopiesEntered, Entered, localState

LEMMA EnteredPush ==
  ASSUME SummaryTyped, EnteredInv, NEW m \in SummaryMachine,
         SummaryPush(m) \/ PushOn(m) \/ SummaryPull(m) \/ GiveUp(m)
  PROVE  EnteredInv'
<1> USE DEF EnteredInv
<1>1. Writer \in SummaryMachine /\ StepBound \in Nat \ {0}
  BY SummaryAssumption
<1>2. /\ \A n \in SummaryMachine : held[n] \in 0 .. StepBound /\ held[n] <= held[Writer]
      /\ published <= held[Writer]
      /\ copy \in [SummaryMachine -> Doc \cup {NoDoc}]
  BY DEF SummaryTyped, SummaryTypeOK, Leads
<1>3. /\ Entered(doc.sum) /\ \A n \in SummaryMachine : Entered(copy[n].sum)
      /\ Entered(row[m])
  BY DEF NothingInvented, CopiesEntered
<1>4. Entered(NoDoc.sum) /\ Entered(FreshDoc.sum)
  <2>1. 0 <= held[Writer]
    BY <1>1, <1>2
  <2> QED BY <2>1 DEF Entered, NoDoc, FreshDoc
<1>5. CASE SummaryPush(m) \/ SummaryPull(m) \/ GiveUp(m)
  <2>1. \A n \in SummaryMachine : copy'[n] \in {copy[n], FreshDoc, NoDoc, doc}
    BY <1>2, <1>5 DEF SummaryPush, SummaryPull, GiveUp, Rest
  <2>2. \A n \in SummaryMachine : Entered(copy'[n].sum)
    BY <1>3, <1>4, <2>1
  <2>3. UNCHANGED localState /\ UNCHANGED remoteState
    BY <1>5 DEF SummaryPush, SummaryPull, GiveUp
  <2> QED BY <1>2, <1>3, <2>2, <2>3, EnteredCall DEF remoteState
<1>6. CASE StoreDoc(m)
  <2>1. \A n \in SummaryMachine : copy'[n] \in {copy[n], NoDoc}
    BY <1>2, <1>6 DEF StoreDoc, Rest
  <2>2. \A n \in SummaryMachine : Entered(copy'[n].sum)
    BY <1>3, <1>4, <2>1
  <2> QED BY <1>2, <1>3, <1>6, <2>2, EnteredCall DEF StoreDoc
<1>7. CASE StoreSteps(m)
  <2>1. copy[m] \in Doc
    BY <1>7 DEF StoreSteps, Advance, SummaryTyped, Carrying
  <2>2. published' <= held[Writer]
    BY <1>1, <1>2, <1>7 DEF StoreSteps, Larger
  <2>3. \A n \in SummaryMachine : copy'[n].sum = copy[n].sum
    BY <1>2, <1>7, <2>1 DEF StoreSteps, Doc
  <2>4. \A n \in SummaryMachine : Entered(copy'[n].sum)
    BY <1>3, <2>3
  <2> QED BY <1>3, <1>7, <2>2, <2>4, EnteredCall DEF StoreSteps
<1>8. CASE ReadSummary(m)
  <2>1. copy[m] \in Doc
    BY <1>8 DEF ReadSummary, Advance, SummaryTyped, Carrying
  <2> DEFINE p == PushedSummary(copy[m].sum, row[m], held[m])
  <2>2. Entered(p)
    <3>1. held[m] \in 0 .. held[Writer]
      BY <1>1, <1>2
    <3>2. copy[m].sum \in Summary /\ row[m] \in Summary \cup {NoRow}
      BY <2>1 DEF Doc, SummaryTyped, SummaryTypeOK
    <3> QED BY <1>3, <3>1, <3>2, PushedEntered
  <2>3. copy' = [copy EXCEPT ![m].sum = p, ![m].chunks = @ \/ held[m] > 0]
    BY <1>8 DEF ReadSummary
  <2> HIDE DEF p
  <2>4. copy'[m].sum = p /\ \A n \in SummaryMachine : n # m => copy'[n] = copy[n]
    BY <1>2, <2>1, <2>3 DEF Doc
  <2>5. \A n \in SummaryMachine : Entered(copy'[n].sum)
    BY <1>3, <2>2, <2>4
  <2> QED BY <1>2, <1>3, <1>8, <2>5, EnteredCall DEF ReadSummary, remoteState
<1> QED BY <1>5, <1>6, <1>7, <1>8 DEF PushOn

LEMMA EnteredPull ==
  ASSUME SummaryTyped, EnteredInv, NEW m \in SummaryMachine, PullOn(m)
  PROVE  EnteredInv'
<1> USE DEF EnteredInv
<1>1. Writer \in SummaryMachine /\ StepBound \in Nat \ {0}
  BY SummaryAssumption
<1>2. /\ held \in [SummaryMachine -> 0 .. StepBound] /\ published \in 0 .. StepBound
      /\ \A n \in SummaryMachine : held[n] <= held[Writer]
      /\ published <= held[Writer]
      /\ copy \in [SummaryMachine -> Doc \cup {NoDoc}]
      /\ row \in [SummaryMachine -> Summary \cup {NoRow}]
  BY DEF SummaryTyped, SummaryTypeOK, Leads
<1>3. CASE FetchSteps(m)
  <2>1. /\ held' = [held EXCEPT ![m] = Larger(@, published)]
        /\ UNCHANGED <<inputs, row, doc, published, copy>>
    BY <1>3 DEF FetchSteps, remoteState
  <2>2. held'[Writer] = held[Writer]
    <3>1. Larger(held[Writer], published) = held[Writer]
      BY <1>1, <1>2 DEF Larger
    <3> QED BY <1>1, <1>2, <2>1, <3>1
  <2>3. \A n \in SummaryMachine : held'[n] <= held'[Writer]
    BY <1>1, <1>2, <2>1, <2>2 DEF Larger
  <2> QED BY <2>1, <2>2, <2>3 DEF Leads, NothingInvented, CopiesEntered, Entered
<1>4. CASE MergeRow(m)
  <2>1. copy[m] \in Doc
    BY <1>4 DEF MergeRow, SummaryTyped, Carrying
  <2> DEFINE s == copy[m].sum
             f == Fallback(s, held[m])
  <2>2. s \in Summary /\ Entered(s) /\ row[m] \in Summary \cup {NoRow} /\ Entered(row[m])
    BY <1>2, <2>1 DEF Doc, NothingInvented, CopiesEntered
  <2>3. held[m] \in 0 .. held[Writer] /\ held[m] \in 0 .. StepBound
    BY <1>1, <1>2
  <2>4. f \in Summary /\ Entered(f)
    BY <2>2, <2>3, FallbackTyped, FallbackEntered DEF SummaryTyped, SummaryTypeOK
  <2>5. row' = [row EXCEPT ![m] = Upsert(row[m], s)] \/ row' = [row EXCEPT ![m] = Upsert(row[m], f)]
    BY <1>4 DEF MergeRow
  <2>6. Entered(Upsert(row[m], s)) /\ Entered(Upsert(row[m], f))
    <3> HIDE DEF f, s
    <3> QED BY <2>2, <2>4, UpsertEntered
  <2>7. \A n \in SummaryMachine : Entered(row'[n])
    <3> HIDE DEF f, s
    <3> QED BY <1>2, <2>5, <2>6 DEF NothingInvented
  <2>8. Entered(NoDoc.sum)
    <3>1. 0 <= held[Writer]
      BY <1>1, <1>2
    <3> QED BY <3>1 DEF Entered, NoDoc, FreshDoc
  <2>9. /\ \A n \in SummaryMachine : Entered(copy'[n].sum)
        /\ UNCHANGED <<inputs, held, doc, published>>
    BY <1>2, <1>4, <2>8 DEF MergeRow, Rest, remoteState, CopiesEntered
  <2> QED BY <2>7, <2>9 DEF Leads, NothingInvented, CopiesEntered, Entered
<1> QED BY <1>3, <1>4 DEF PullOn

LEMMA EnteredStep ==
  SummaryTyped /\ EnteredInv /\ [SummaryNext]_summaryVars => EnteredInv'
<1> SUFFICES ASSUME SummaryTyped, EnteredInv, [SummaryNext]_summaryVars PROVE EnteredInv'
  OBVIOUS
<1>1. CASE UNCHANGED summaryVars
  BY <1>1 DEF summaryVars, EnteredInv, Leads, NothingInvented, CopiesEntered, Entered
<1> QED BY <1>1, EnteredAgent, EnteredPush, EnteredPull DEF SummaryNext

LEMMA AlwaysEntered == SummarySpec => []EnteredInv
BY EnteredInit, EnteredStep, AlwaysSummaryTyped, PTL DEF SummarySpec

(* On any machines and however calls fail and overtake one another: no row *)
(* and no document counts a step that was never written, and the index and *)
(* the time of a last user input are those of inputs.                      *)
THEOREM NothingIsInvented == SummarySpec => []NothingInvented
<1>1. EnteredInv => NothingInvented
  BY DEF EnteredInv
<1> QED BY <1>1, AlwaysEntered, PTL

(* A merge keeps the larger count and the larger index.                    *)
LEMMA UpsertKeeps ==
  ASSUME NEW r \in Summary, NEW s \in Summary, r # NoRow
  PROVE  Upsert(r, s).count >= r.count /\ Upsert(r, s).idx >= r.idx
<1>1. StepBound \in Nat \ {0}
  BY SummaryAssumption
<1>2. r.count \in Int /\ s.count \in Int /\ r.idx \in Int /\ s.idx \in Int
  BY <1>1 DEF Summary
<1>3. Upsert(r, s).count = Larger(s.count, r.count) /\ Upsert(r, s).idx = Larger(s.idx, r.idx)
  BY DEF Upsert
<1> HIDE DEF Upsert
<1> QED BY <1>2, <1>3 DEF Larger

(* No document, however old, and no rebuilt row sets a row's count or its  *)
(* last user input back.                                                   *)
THEOREM NoRowSetBack == SummarySpec => RowsNeverSetBack
<1> DEFINE Kept ==
      \A m \in SummaryMachine :
        row[m] # NoRow =>
          /\ row'[m].count >= row[m].count
          /\ row[m].idx > 0 => row'[m].idx >= row[m].idx
<1>1. SummaryTyped /\ EnteredInv /\ [SummaryNext]_summaryVars => [Kept]_summaryVars
  <2> SUFFICES ASSUME SummaryTyped, EnteredInv, SummaryNext PROVE Kept
    OBVIOUS
  <2>1. Writer \in SummaryMachine /\ StepBound \in Nat \ {0}
    BY SummaryAssumption
  <2>2. /\ row \in [SummaryMachine -> Summary \cup {NoRow}]
        /\ held \in [SummaryMachine -> 0 .. StepBound]
        /\ inputs \subseteq Nat
    BY <2>1 DEF SummaryTyped, SummaryTypeOK
  <2>3. ASSUME NEW m \in SummaryMachine, row[m] # NoRow
        PROVE  row[m] \in Summary /\ row[m].count \in Int /\ row[m].idx \in Int
    BY <2>1, <2>2, <2>3 DEF Summary
  <2>4. CASE row' = row
    <3> SUFFICES ASSUME NEW m \in SummaryMachine, row[m] # NoRow
                 PROVE  row'[m].count >= row[m].count /\ row'[m].idx >= row[m].idx
      OBVIOUS
    <3> QED BY <2>3, <2>4
  <2>5. CASE WriteRow
    <3> DEFINE h == held[Writer]
    <3>1. /\ row' = [row EXCEPT ![Writer] = BuildSummary(h)]
          /\ row[Writer].count < h
      BY <2>5 DEF WriteRow
    <3>2. BuildSummary(h).count = h /\ BuildSummary(h).idx = LastInput(h)
      BY DEF BuildSummary
    <3> HIDE DEF BuildSummary
    <3>3. h \in Int /\ \A i \in inputs : i <= LastInput(h)
      BY <2>1, <2>2, LastInputIs DEF EnteredInv, Leads
    <3>4. row[Writer].idx > 0 => row[Writer].idx <= LastInput(h)
      BY <2>1, <3>3 DEF EnteredInv, NothingInvented, Entered
    <3>5. LastInput(h) \in Int
      BY <2>2, <3>3, LastInputIs
    <3>6. ASSUME NEW m \in SummaryMachine, row[m] # NoRow
          PROVE  /\ row'[m].count >= row[m].count
                 /\ row[m].idx > 0 => row'[m].idx >= row[m].idx
      <4>1. row[m].count \in Int /\ row[m].idx \in Int
        BY <2>3, <3>6
      <4>2. CASE m = Writer
        <5>1. row'[m].count = h /\ row'[m].idx = LastInput(h)
          BY <2>2, <3>1, <3>2, <4>2
        <5> QED BY <3>1, <3>3, <3>4, <3>5, <4>1, <4>2, <5>1
      <4>3. CASE m # Writer
        <5>1. row'[m] = row[m]
          BY <2>2, <3>1, <4>3
        <5> QED BY <4>1, <5>1
      <4> QED BY <4>2, <4>3
    <3> QED BY <3>6
  <2>6. ASSUME NEW n \in SummaryMachine, MergeRow(n) PROVE Kept
    <3>1. copy[n] \in Doc /\ held[n] \in 0 .. StepBound
      BY <2>2, <2>6 DEF MergeRow, SummaryTyped, Carrying
    <3>2. /\ copy[n].sum \in Summary
          /\ Fallback(copy[n].sum, held[n]) \in Summary
      BY <3>1, FallbackTyped DEF Doc, SummaryTyped, SummaryTypeOK
    <3>3. \E s \in Summary : row' = [row EXCEPT ![n] = Upsert(row[n], s)]
      BY <2>6, <3>2 DEF MergeRow
    <3>4. PICK s \in Summary : row' = [row EXCEPT ![n] = Upsert(row[n], s)]
      BY <3>3
    <3>5. ASSUME NEW m \in SummaryMachine, row[m] # NoRow
          PROVE  row'[m].count >= row[m].count /\ row'[m].idx >= row[m].idx
      <4>1. row[m] \in Summary /\ row[m].count \in Int /\ row[m].idx \in Int
        BY <2>3, <3>5
      <4>2. CASE m = n
        <5>1. row'[m] = Upsert(row[m], s)
          BY <2>2, <3>4, <4>2
        <5> QED BY <3>5, <4>1, <5>1, UpsertKeeps
      <4>3. CASE m # n
        <5>1. row'[m] = row[m]
          BY <2>2, <3>4, <4>3
        <5> QED BY <4>1, <5>1
      <4> QED BY <4>2, <4>3
    <3> QED BY <3>5
  <2> QED
    BY <2>4, <2>5, <2>6
    DEF SummaryNext, WriteStep, SummaryPush, PushOn, StoreDoc, StoreSteps, ReadSummary,
        SummaryPull, PullOn, FetchSteps, GiveUp, localState
<1> QED BY <1>1, AlwaysSummaryTyped, AlwaysEntered, PTL DEF SummarySpec, RowsNeverSetBack
-----------------------------------------------------------------------------
(* Pager: the page of a row.                                               *)

LEMMA Division ==
  ASSUME NEW a \in Nat, NEW n \in Nat \ {0}
  PROVE  /\ a \div n \in Nat /\ a % n \in 0 .. n - 1
         /\ a = n * (a \div n) + (a % n)
<1> DEFINE q == a \div n
           r == a % n
<1>1. q \in Int /\ r \in 0 .. n - 1 /\ a = n * q + r
  OBVIOUS
<1> HIDE DEF q, r
<1>2. q >= 0
  <2>1. ASSUME q < 0 PROVE FALSE
    <3>1. n * q <= -n
      BY <1>1, <2>1, Z3
    <3> QED BY <1>1, <3>1
  <2> QED BY <1>1, <2>1
<1> QED BY <1>1, <1>2 DEF q, r

(* Products keep the order.                                                *)
LEMMA TimesKeeps ==
  ASSUME NEW p \in Nat, NEW q \in Nat, NEW n \in Nat \ {0}, p < q
  PROVE  p * n + n <= q * n
<1>1. q - p - 1 \in Nat
  OBVIOUS
<1>2. (q - p - 1) * n >= 0
  BY <1>1, Z3
<1>3. (q - p - 1) * n = q * n - p * n - n
  BY <1>1, Z3
<1>4. p * n \in Nat /\ q * n \in Nat
  BY Z3
<1> QED BY <1>2, <1>3, <1>4

(* The page of row r is where r lies, and no other.                        *)
LEMMA PageOfRow ==
  ASSUME NEW r \in Nat, NEW n \in Nat \ {0}
  PROVE  /\ r \div n \in Nat
         /\ (r \div n) * n \in Nat
         /\ (r \div n) * n <= r /\ r < (r \div n) * n + n
         /\ \A p \in Nat : p * n <= r /\ r < p * n + n => p = r \div n
<1> DEFINE q == r \div n
<1>1. q \in Nat /\ r % n \in 0 .. n - 1 /\ r = n * q + (r % n)
  BY Division
<1>2. n * q = q * n /\ q * n \in Nat
  BY <1>1, Z3
<1>3. q * n <= r /\ r < q * n + n
  BY <1>1, <1>2
<1> HIDE DEF q
<1>4. ASSUME NEW p \in Nat, p * n <= r, r < p * n + n PROVE p = q
  <2>1. p * n \in Nat
    BY Z3
  <2>2. CASE p < q
    <3>1. p * n + n <= q * n
      BY <1>1, <2>2, TimesKeeps
    <3> QED BY <1>2, <1>3, <1>4, <2>1, <3>1
  <2>3. CASE q < p
    <3>1. q * n + n <= p * n
      BY <1>1, <2>3, TimesKeeps
    <3> QED BY <1>2, <1>3, <1>4, <2>1, <3>1
  <2> QED BY <1>1, <2>2, <2>3
<1> QED BY <1>1, <1>2, <1>3, <1>4 DEF q

(* The pages are those of the rows: 0 .. TotalPages - 1.                   *)
LEMMA PagesOfRows ==
  ASSUME NEW n \in Nat \ {0}
  PROVE  /\ TotalPages(n) \in Nat \ {0}
         /\ \A r \in 0 .. Items - 1 : r \div n \in 0 .. TotalPages(n) - 1
         /\ \A p \in 0 .. TotalPages(n) - 1 :
              /\ p * n \in 0 .. Items - 1
              /\ (p * n) \div n = p
<1> DEFINE d == Items \div n
           m == Items % n
           t == TotalPages(n)
<1>1. Items \in Nat \ {0}
  BY PagerAssumption
<1>2. d \in Nat /\ m \in 0 .. n - 1 /\ Items = n * d + m
  BY <1>1, Division
<1>3. n * d = d * n /\ d * n \in Nat
  BY <1>2, Z3
<1>4. t = d + (IF m = 0 THEN 0 ELSE 1)
  BY DEF TotalPages
<1> HIDE DEF d, m, t
<1>5. t \in Nat /\ t * n \in Nat
  BY <1>2, <1>4, Z3
<1>6. Items <= t * n /\ t * n < Items + n
  <2>1. CASE m = 0
    BY <1>1, <1>2, <1>3, <1>4, <2>1
  <2>2. CASE m # 0
    <3>1. t = d + 1
      BY <1>4, <2>2
    <3>2. t * n = d * n + n
      BY <1>2, <3>1, Z3
    <3> QED BY <1>2, <1>3, <2>2, <3>2
  <2> QED BY <2>1, <2>2
<1>7. t # 0
  <2> SUFFICES ASSUME t = 0 PROVE FALSE
    OBVIOUS
  <2>1. t * n = 0
    BY Z3
  <2> QED BY <1>1, <1>6, <2>1
<1>8. ASSUME NEW r \in 0 .. Items - 1 PROVE r \div n \in 0 .. t - 1
  <2> DEFINE q == r \div n
  <2>1. q \in Nat /\ q * n \in Nat /\ q * n <= r
    BY <1>1, PageOfRow
  <2> HIDE DEF q
  <2>2. CASE t = q
    BY <1>1, <1>6, <2>1, <2>2
  <2>3. CASE t < q
    <3>1. t * n + n <= q * n
      BY <1>5, <2>1, <2>3, TimesKeeps
    <3> QED BY <1>1, <1>5, <1>6, <2>1, <3>1
  <2>4. q \in 0 .. t - 1
    BY <1>5, <2>1, <2>2, <2>3
  <2> QED BY <2>4 DEF q
<1>9. ASSUME NEW p \in 0 .. t - 1 PROVE p * n \in 0 .. Items - 1 /\ (p * n) \div n = p
  <2>1. p \in Nat /\ p < t
    BY <1>5
  <2>2. p * n + n <= t * n
    BY <1>5, <2>1, TimesKeeps
  <2>3. p * n \in Nat
    BY <2>1, Z3
  <2>4. p * n \in 0 .. Items - 1
    BY <1>1, <1>5, <1>6, <2>2, <2>3
  <2>5. p * n <= p * n /\ p * n < p * n + n
    BY <2>3
  <2>6. (p * n) \div n = p
    BY <2>1, <2>3, <2>5, PageOfRow
  <2> QED BY <2>4, <2>6
<1> QED BY <1>5, <1>7, <1>8, <1>9 DEF t
-----------------------------------------------------------------------------
(* Pager: the invariant.                                                   *)

(* The current page is the selected row's, and the decoder has a byte to   *)
(* look at.                                                                *)
PagerInv ==
  /\ PagerTypeOK
  /\ page = cursor \div size
  /\ screen = "obey" => pending # <<>>

LEMMA HeightFits == ASSUME NEW h \in Heights PROVE DerivePageSize(h) \in Nat \ {0}
BY PagerAssumption DEF DerivePageSize

(* The table of keys, entry by entry.                                      *)
KeyName ==
  {"j", "k", "h", "l", "g", "G", "q", "Space", "CtrlC", "CtrlF", "CtrlB",
   "Escape", "Down", "Up", "Right", "Left", "Home", "End", "PageUp", "PageDown"}

LEMMA OneByteKeys ==
  /\ DOMAIN KeyBytes = KeyName
  /\ KeyBytes["j"] = <<"j">> /\ KeyBytes["k"] = <<"k">>
  /\ KeyBytes["h"] = <<"h">> /\ KeyBytes["l"] = <<"l">>
  /\ KeyBytes["g"] = <<"g">> /\ KeyBytes["G"] = <<"G">>
  /\ KeyBytes["q"] = <<"q">> /\ KeyBytes["Escape"] = <<Esc>>
  /\ KeyBytes["Space"] = <<"Space">> /\ KeyBytes["CtrlC"] = <<"CtrlC">>
  /\ KeyBytes["CtrlF"] = <<"CtrlF">> /\ KeyBytes["CtrlB"] = <<"CtrlB">>
BY DEF KeyBytes, KeyName

LEMMA ArrowKeys ==
  /\ KeyBytes["Down"] = <<Esc, "[", "B">> /\ KeyBytes["Up"] = <<Esc, "[", "A">>
  /\ KeyBytes["Right"] = <<Esc, "[", "C">> /\ KeyBytes["Left"] = <<Esc, "[", "D">>
  /\ KeyBytes["Home"] = <<Esc, "[", "H">> /\ KeyBytes["End"] = <<Esc, "[", "F">>
  /\ KeyBytes["PageUp"] = <<Esc, "[", "5", "~">>
  /\ KeyBytes["PageDown"] = <<Esc, "[", "6", "~">>
BY DEF KeyBytes

LEMMA KeysAreBytes ==
  ASSUME NEW k \in Keys
  PROVE  /\ KeyBytes[k] \in Seq(Byte) /\ KeyBytes[k] # <<>>
         /\ Effect[k] \in Action
<1>1. k \in KeyName
  BY PagerAssumption, OneByteKeys
<1>2. \E S : KeyBytes[k] \in Seq(S) /\ KeyBytes[k] # <<>>
  <2>1. CASE k \in {"j", "k", "h", "l", "g", "G", "q", "Space", "CtrlC", "CtrlF",
                    "CtrlB", "Escape"}
    <3>1. PICK x : KeyBytes[k] = <<x>>
      BY <2>1, OneByteKeys, Zenon
    <3>2. KeyBytes[k] \in Seq({x}) /\ KeyBytes[k] # <<>>
      BY <3>1
    <3> QED BY <3>2
  <2>2. CASE k \in {"Down", "Up", "Right", "Left", "Home", "End"}
    <3>1. PICK x, y, z : KeyBytes[k] = <<x, y, z>>
      BY <2>2, ArrowKeys, Zenon
    <3>2. KeyBytes[k] \in Seq({x, y, z}) /\ KeyBytes[k] # <<>>
      BY <3>1
    <3> QED BY <3>2
  <2>3. CASE k \in {"PageUp", "PageDown"}
    <3>1. PICK x, y, z, u : KeyBytes[k] = <<x, y, z, u>>
      BY <2>3, ArrowKeys, Zenon
    <3>2. KeyBytes[k] \in Seq({x, y, z, u}) /\ KeyBytes[k] # <<>>
      BY <3>1
    <3> QED BY <3>2
  <2> QED BY <1>1, <2>1, <2>2, <2>3 DEF KeyName
<1>3. \A i \in DOMAIN KeyBytes[k] : KeyBytes[k][i] \in Byte
  BY DEF Byte
<1>4. KeyBytes[k] \in Seq(Byte)
  BY <1>2, <1>3
<1> QED BY <1>2, <1>4 DEF Action
LEMMA ParsedLength ==
  ASSUME NEW b PROVE ParseKey(b)[2] \in 1 .. 4
<1>1. SequenceLength(b) \in 3 .. 4
  BY DEF SequenceLength
<1> DEFINE known == b[1] = Esc /\ IsSequence(b)
           escape == b[1] = Esc /\ ~IsSequence(b)
           plain == b[1] \in DOMAIN OneByte
           p == ParseKey(b)
<1>2. CASE known
  <2>1. p = <<Sequence[b[3]], SequenceLength(b)>>
    BY <1>2 DEF ParseKey, Esc, OneByte
  <2> HIDE DEF p
  <2> QED BY <1>1, <2>1 DEF p
<1>3. CASE escape
  <2>1. p = <<"Quit", 1>>
    BY <1>3 DEF ParseKey, Esc, OneByte
  <2> HIDE DEF p
  <2> QED BY <2>1 DEF p
<1>4. CASE plain /\ b[1] # Esc
  <2>1. p = <<OneByte[b[1]], 1>>
    BY <1>4 DEF ParseKey
  <2> HIDE DEF p
  <2> QED BY <2>1 DEF p
<1>5. CASE ~plain /\ b[1] # Esc
  <2>1. p = <<"None", 1>>
    BY <1>5 DEF ParseKey
  <2> HIDE DEF p
  <2> QED BY <2>1 DEF p
<1> QED BY <1>2, <1>3, <1>4, <1>5

(* Every move ends on a row, and on its page.                              *)
LEMMA MoveKeeps ==
  ASSUME PagerInv, NEW action
  PROVE  /\ Move(action)[2] \in 0 .. Items - 1
         /\ Move(action)[1] = Move(action)[2] \div size
<1> DEFINE v == Move(action)
           t == TotalPages(size)
           Good(w) == w[2] \in 0 .. Items - 1 /\ w[1] = w[2] \div size
<1>1. size \in Nat \ {0} /\ page \in 0 .. t - 1 /\ cursor \in 0 .. Items - 1
        /\ page = cursor \div size /\ Items \in Nat \ {0}
  BY PagerAssumption DEF PagerInv, PagerTypeOK
<1>2. t \in Nat \ {0}
  BY <1>1, PagesOfRows
<1>3. ASSUME NEW p \in 0 .. t - 1 PROVE Good(AtPage(p))
  <2>1. p * size \in 0 .. Items - 1 /\ (p * size) \div size = p
    BY <1>1, PagesOfRows
  <2> QED BY <2>1 DEF AtPage
<1>4. ASSUME NEW r \in 0 .. Items - 1 PROVE Good(AtRow(r))
  BY DEF AtRow
<1>5. Good(<<page, cursor>>)
  BY <1>1
<1>6. \/ v = AtPage(page + 1) /\ page < t - 1
      \/ v = AtPage(page - 1) /\ page > 0
      \/ v = AtPage(0)
      \/ v = AtPage(t - 1)
      \/ v = AtRow(cursor + 1) /\ cursor < Items - 1
      \/ v = AtRow(cursor - 1) /\ cursor > 0
      \/ v = <<page, cursor>>
  BY DEF Move
<1> HIDE DEF v, t, Good
<1>7. CASE v = AtPage(page + 1) /\ page < t - 1
  <2>1. page + 1 \in 0 .. t - 1
    BY <1>1, <1>2, <1>7
  <2> QED BY <1>3, <1>7, <2>1 DEF Good, v
<1>8. CASE v = AtPage(page - 1) /\ page > 0
  <2>1. page - 1 \in 0 .. t - 1
    BY <1>1, <1>2, <1>8
  <2> QED BY <1>3, <1>8, <2>1 DEF Good, v
<1>9. CASE v = AtPage(0) \/ v = AtPage(t - 1)
  <2>1. 0 \in 0 .. t - 1 /\ t - 1 \in 0 .. t - 1
    BY <1>2
  <2> QED BY <1>3, <1>9, <2>1 DEF Good, v
<1>10. CASE v = AtRow(cursor + 1) /\ cursor < Items - 1
  <2>1. cursor + 1 \in 0 .. Items - 1
    BY <1>1, <1>10
  <2> QED BY <1>4, <1>10, <2>1 DEF Good, v
<1>11. CASE v = AtRow(cursor - 1) /\ cursor > 0
  <2>1. cursor - 1 \in 0 .. Items - 1
    BY <1>1, <1>11
  <2> QED BY <1>4, <1>11, <2>1 DEF Good, v
<1>12. CASE v = <<page, cursor>>
  BY <1>5, <1>12 DEF Good, v
<1> QED BY <1>6, <1>7, <1>8, <1>9, <1>10, <1>11, <1>12

LEMMA PagerInvInit == PagerInit => PagerInv
<1> SUFFICES ASSUME PagerInit PROVE PagerInv
  OBVIOUS
<1>1. size \in Nat \ {0}
  BY HeightFits DEF PagerInit
<1>2. 0 \in 0 .. Items - 1
  BY PagerAssumption
<1>3. 0 \div size \in 0 .. TotalPages(size) - 1
  BY <1>1, <1>2, PagesOfRows
<1>4. 0 \div size = 0
  <2>1. 0 * size = 0
    BY <1>1, Z3
  <2> QED BY <1>1, <2>1, PageOfRow
<1>5. page \in 0 .. TotalPages(size) - 1 /\ cursor \in 0 .. Items - 1
  <2>1. page = 0 /\ cursor = 0
    BY DEF PagerInit
  <2> QED BY <1>2, <1>3, <1>4, <2>1
<1>6. <<>> \in Seq(Byte) /\ <<>> \in Seq(Action)
  OBVIOUS
<1>7. PagerTypeOK
  BY <1>1, <1>5, <1>6, Zenon DEF PagerInit, PagerTypeOK
<1> QED BY <1>4, <1>7 DEF PagerInit, PagerInv

LEMMA PagerInvStep == PagerInv /\ [PagerNext]_pagerVars => PagerInv'
<1> SUFFICES ASSUME PagerInv, [PagerNext]_pagerVars PROVE PagerInv'
  OBVIOUS
<1> USE DEF PagerInv
<1>1. CASE Press
  <2>1. PICK key \in Keys : /\ tty' = tty \o KeyBytes[key]
                            /\ asked' = Append(asked, Effect[key])
    BY <1>1 DEF Press
  <2>2. tty' \in Seq(Byte) /\ asked' \in Seq(Action)
    BY <2>1, KeysAreBytes DEF PagerTypeOK
  <2> QED BY <1>1, <2>2 DEF Press, PagerTypeOK, view
<1>2. CASE Resize
  BY <1>2 DEF Resize, PagerTypeOK, view
<1>3. CASE Draw
  <2> DEFINE n == DerivePageSize(height)
  <2>1. n \in Nat \ {0}
    BY HeightFits DEF PagerTypeOK
  <2>2. cursor \div n \in 0 .. TotalPages(n) - 1
    BY <2>1, PagesOfRows DEF PagerTypeOK
  <2>3. \/ size' = n /\ page' = cursor \div n
        \/ size' = size /\ page' = page
    BY <1>3 DEF Draw, PageOfCursor
  <2> HIDE DEF n
  <2>4. size' \in Nat \ {0} /\ page' \in 0 .. TotalPages(size') - 1
          /\ page' = cursor \div size'
    BY <2>1, <2>2, <2>3 DEF PagerTypeOK
  <2>5. /\ screen' \in {"read", "obey"} /\ (screen' = "obey" => pending # <<>>)
        /\ UNCHANGED <<height, cursor, tty, pending, asked, split>>
    BY <1>3 DEF Draw
  <2> QED BY <2>4, <2>5 DEF PagerTypeOK, TotalPages
<1>4. CASE ReadTTY
  <2> DEFINE n == IF Len(tty) < ReadSize THEN Len(tty) ELSE ReadSize
  <2>1. tty \in Seq(Byte) /\ tty # <<>>
    BY <1>4 DEF ReadTTY, PagerTypeOK
  <2>2. n \in 1 .. Len(tty)
    BY <2>1, PagerAssumption
  <2>3. pending' = SubSeq(tty, 1, n) /\ tty' = SubSeq(tty, n + 1, Len(tty))
    BY <1>4 DEF ReadTTY
  <2> HIDE DEF n
  <2>4. pending' \in Seq(Byte) /\ pending' # <<>> /\ tty' \in Seq(Byte)
    <3>1. n \in Int /\ Len(tty) \in Nat /\ 1 \in Int /\ n >= 1 /\ n + 1 \in Int
      BY <2>1, <2>2
    <3>2. \A i \in 1 .. n : tty[i] \in Byte
      BY <2>1, <2>2
    <3>3. pending' \in Seq(Byte) /\ Len(pending') = n
      BY <2>3, <3>1, <3>2, SubSeqProperties
    <3>4. pending' # <<>>
      BY <3>1, <3>3
    <3>5. \A i \in n + 1 .. Len(tty) : tty[i] \in Byte
      BY <2>1, <2>2
    <3>6. tty' \in Seq(Byte)
      BY <2>3, <3>1, <3>5, SubSeqProperties
    <3> QED BY <3>3, <3>4, <3>6
  <2>5. split' \in BOOLEAN
    BY <1>4, Zenon DEF ReadTTY, PagerTypeOK
  <2> QED BY <1>4, <2>4, <2>5 DEF ReadTTY, PagerTypeOK, view
<1>5. CASE Obey
  <2> DEFINE key == ParseKey(pending)
             k == key[2]
  <2>1. k \in 1 .. 4
    BY ParsedLength
  <2>2. pending' = SubSeq(pending, k + 1, Len(pending))
    BY <1>5 DEF Obey
  <2>3. pending' \in Seq(Byte)
    <3> HIDE DEF k
    <3> QED BY <2>1, <2>2 DEF PagerTypeOK
  <2>4. asked' \in Seq(Action)
    BY <1>5 DEF Obey, PagerTypeOK
  <2>5. UNCHANGED <<height, size, tty, split>>
    BY <1>5 DEF Obey
  <2>6. \/ screen' = "over" /\ UNCHANGED <<page, cursor>>
        \/ screen' = "draw" /\ page' = Move(key[1])[1] /\ cursor' = Move(key[1])[2]
    BY <1>5 DEF Obey
  <2>7. page' = cursor' \div size /\ cursor' \in 0 .. Items - 1
    <3> HIDE DEF key
    <3> QED BY <2>6, MoveKeeps DEF PagerTypeOK
  <2>8. page' \in 0 .. TotalPages(size) - 1
    BY <2>7, PagesOfRows DEF PagerTypeOK
  <2> HIDE DEF k, key
  <2> QED BY <2>3, <2>4, <2>5, <2>6, <2>7, <2>8 DEF PagerTypeOK, TotalPages
<1>6. CASE Hangup
  BY <1>6 DEF Hangup, PagerTypeOK, view
<1>7. CASE UNCHANGED pagerVars
  BY <1>7 DEF pagerVars, PagerTypeOK, view
<1> QED BY <1>1, <1>2, <1>3, <1>4, <1>5, <1>6, <1>7 DEF PagerNext

LEMMA AlwaysPagerInv == PagerSpec => []PagerInv
BY PagerInvInit, PagerInvStep, PTL DEF PagerSpec

(* For a list and a window of any size, and any keys, the current page     *)
(* exists and the selected row is one of the list.                         *)
THEOREM PagerTypeCorrect == PagerSpec => []PagerTypeOK
<1>1. PagerInv => PagerTypeOK
  BY DEF PagerInv
<1> QED BY <1>1, AlwaysPagerInv, PTL

(* The selected row is on the screen, after any moves and resizes.         *)
THEOREM SelectionIsShown == PagerSpec => []SelectionShown
<1>1. ASSUME PagerInv PROVE SelectionShown
  <2>1. size \in Nat \ {0} /\ cursor \in Nat /\ cursor < Items /\ Items \in Nat
    BY <1>1, PagerAssumption DEF PagerInv, PagerTypeOK
  <2> DEFINE first == page * size
  <2>2. first \in Nat /\ first <= cursor /\ cursor < first + size
    BY <1>1, <2>1, PageOfRow DEF PagerInv
  <2>3. PageStart = IF first < Items THEN first ELSE Items
    BY DEF PageStart
  <2> HIDE DEF first
  <2>4. PageStart = first
    BY <2>1, <2>2, <2>3
  <2> QED BY <2>1, <2>2, <2>4 DEF PageEnd, SelectionShown
<1> QED BY <1>1, AlwaysPagerInv, PTL
-----------------------------------------------------------------------------
(* Pager: keys and bytes.                                                  *)

Plain == {"j", "k", "h", "l", "g", "G", "q", "Space", "CtrlC"}
Single == Plain \cup Unknown
Arrow == {"Down", "Up", "Right", "Left", "Home", "End"}
Turn == {"PageUp", "PageDown"}

LEMMA Meanings ==
  /\ \A k \in Single : KeyBytes[k] = <<k>>
  /\ \A k \in Plain : Effect[k] = OneByte[k] /\ k \in DOMAIN OneByte
  /\ \A k \in Unknown : Effect[k] = "None" /\ k \notin DOMAIN OneByte
  /\ Effect["Escape"] = "Quit"
  /\ Effect["Down"] = Sequence["B"] /\ Effect["Up"] = Sequence["A"]
  /\ Effect["Right"] = Sequence["C"] /\ Effect["Left"] = Sequence["D"]
  /\ Effect["Home"] = Sequence["H"] /\ Effect["End"] = Sequence["F"]
  /\ Effect["PageUp"] = Sequence["5"] /\ Effect["PageDown"] = Sequence["6"]
<1>1. \A k \in Single : KeyBytes[k] = <<k>>
  BY OneByteKeys DEF Single, Plain, Unknown
<1>2. \A k \in Plain : Effect[k] = OneByte[k] /\ k \in DOMAIN OneByte
  <2>1. \A k \in Plain : k \in DOMAIN KeyMeaning /\ k \notin Unknown
    BY DEF KeyMeaning, Plain, Unknown
  <2>2. \A k \in Plain : KeyMeaning[k] = OneByte[k] /\ k \in DOMAIN OneByte
    BY DEF KeyMeaning, OneByte, Plain
  <2> QED BY <2>1, <2>2 DEF Effect
<1>3. \A k \in Unknown : Effect[k] = "None" /\ k \notin DOMAIN OneByte
  <2>1. \A k \in Unknown : k \in DOMAIN KeyMeaning /\ k \notin DOMAIN OneByte
    BY DEF KeyMeaning, OneByte, Unknown
  <2> QED BY <2>1 DEF Effect
<1>4. \A k \in {"Escape"} \cup Arrow \cup Turn : Effect[k] = KeyMeaning[k]
  BY DEF Effect, KeyMeaning, Arrow, Turn, Unknown
<1>5. /\ KeyMeaning["Escape"] = "Quit"
      /\ KeyMeaning["Down"] = Sequence["B"] /\ KeyMeaning["Up"] = Sequence["A"]
      /\ KeyMeaning["Right"] = Sequence["C"] /\ KeyMeaning["Left"] = Sequence["D"]
  BY DEF KeyMeaning, Sequence
<1>6. /\ KeyMeaning["Home"] = Sequence["H"] /\ KeyMeaning["End"] = Sequence["F"]
      /\ KeyMeaning["PageUp"] = Sequence["5"] /\ KeyMeaning["PageDown"] = Sequence["6"]
  BY DEF KeyMeaning, Sequence
<1> QED BY <1>1, <1>2, <1>3, <1>4, <1>5, <1>6 DEF Arrow, Turn

LEMMA Sorts ==
  /\ KeyName = Single \cup {"Escape"} \cup Arrow \cup Turn
  /\ \A k \in Arrow : \E c \in {"A", "B", "C", "D", "H", "F"} :
        KeyBytes[k] = <<Esc, "[", c>> /\ Effect[k] = Sequence[c]
  /\ \A k \in Turn : \E c \in {"5", "6"} :
        KeyBytes[k] = <<Esc, "[", c, "~">> /\ Effect[k] = Sequence[c]
<1>1. KeyName = Single \cup {"Escape"} \cup Arrow \cup Turn
  BY DEF KeyName, Single, Plain, Unknown, Arrow, Turn
<1>2. ASSUME NEW k \in Arrow
      PROVE  \E c \in {"A", "B", "C", "D", "H", "F"} :
               KeyBytes[k] = <<Esc, "[", c>> /\ Effect[k] = Sequence[c]
  BY ArrowKeys, Meanings, Zenon DEF Arrow
<1>3. ASSUME NEW k \in Turn
      PROVE  \E c \in {"5", "6"} :
               KeyBytes[k] = <<Esc, "[", c, "~">> /\ Effect[k] = Sequence[c]
  BY ArrowKeys, Meanings, Zenon DEF Turn
<1> QED BY <1>1, <1>2, <1>3

(* The bytes that begin a key begin it only: none of them is inside one.   *)
LEMMA Starts ==
  /\ KeyStart \subseteq Single \cup {Esc}
  /\ \A k \in Keys : KeyBytes[k][1] \in KeyStart
  /\ \A k \in Keys : \A j \in 2 .. Len(KeyBytes[k]) : KeyBytes[k][j] \notin KeyStart
<1>1. \A k \in Keys : KeyBytes[k][1] \in KeyStart
  BY DEF KeyStart
<1>2. Keys \subseteq KeyName
  BY PagerAssumption, OneByteKeys
<1>3. ASSUME NEW k \in Keys
      PROVE  KeyBytes[k][1] \in Single \cup {Esc}
               /\ \A j \in 2 .. Len(KeyBytes[k]) : KeyBytes[k][j] \notin Single \cup {Esc}
  <2>1. CASE k \in Single
    <3>1. KeyBytes[k] = <<k>>
      BY <2>1, Meanings
    <3> QED BY <2>1, <3>1
  <2>2. CASE k = "Escape"
    <3>1. KeyBytes[k] = <<Esc>>
      BY <2>2, OneByteKeys
    <3> QED BY <3>1
  <2>3. CASE k \in Arrow
    <3>1. PICK c \in {"A", "B", "C", "D", "H", "F"} : KeyBytes[k] = <<Esc, "[", c>>
      BY <2>3, Sorts
    <3>2. "[" \notin Single \cup {Esc} /\ c \notin Single \cup {Esc}
      BY DEF Single, Plain, Unknown, Esc
    <3> QED BY <3>1, <3>2
  <2>4. CASE k \in Turn
    <3>1. PICK c \in {"5", "6"} : KeyBytes[k] = <<Esc, "[", c, "~">>
      BY <2>4, Sorts
    <3>2. "[" \notin Single \cup {Esc} /\ c \notin Single \cup {Esc} /\ "~" \notin Single \cup {Esc}
      BY DEF Single, Plain, Unknown, Esc
    <3> QED BY <3>1, <3>2
  <2> QED BY <1>2, <2>1, <2>2, <2>3, <2>4, Sorts
<1>4. KeyStart \subseteq Single \cup {Esc}
  BY <1>3 DEF KeyStart
<1> QED BY <1>1, <1>3, <1>4
(* The decoder finds the key that heads the bytes, whatever key follows.   *)
LEMMA Decodes ==
  ASSUME NEW b \in Seq(Byte), NEW k \in Keys,
         Len(b) >= Len(KeyBytes[k]),
         \A j \in 1 .. Len(KeyBytes[k]) : b[j] = KeyBytes[k][j],
         Len(b) > Len(KeyBytes[k]) => b[Len(KeyBytes[k]) + 1] \in KeyStart
  PROVE  ParseKey(b) = <<Effect[k], Len(KeyBytes[k])>>
<1>1. k \in Single \cup {"Escape"} \cup Arrow \cup Turn
  BY PagerAssumption, OneByteKeys, Sorts
<1>2. CASE k \in Plain
  <2>1. KeyBytes[k] = <<k>> /\ Effect[k] = OneByte[k] /\ k \in DOMAIN OneByte /\ k # Esc
    BY <1>2, Meanings DEF Plain, Single, Esc
  <2>2. Len(KeyBytes[k]) = 1 /\ b[1] = k
    BY <2>1
  <2> QED BY <2>1, <2>2 DEF ParseKey
<1>3. CASE k = "Escape"
  <2>1. KeyBytes[k] = <<Esc>> /\ Effect[k] = "Quit"
    BY <1>3, OneByteKeys, Meanings
  <2>2. Len(KeyBytes[k]) = 1 /\ b[1] = Esc
    BY <2>1
  <2>3. Len(b) >= 3 => b[2] # "["
    <3>1. "[" \notin KeyStart
      BY Starts DEF Single, Plain, Unknown, Esc
    <3> QED BY <2>2, <3>1
  <2>4. ~IsSequence(b) /\ Esc \notin DOMAIN OneByte
    BY <2>3 DEF IsSequence, OneByte, Esc
  <2> QED BY <2>1, <2>2, <2>4 DEF ParseKey
<1>4. CASE k \in Arrow
  <2>1. PICK c \in {"A", "B", "C", "D", "H", "F"} :
          KeyBytes[k] = <<Esc, "[", c>> /\ Effect[k] = Sequence[c]
    BY <1>4, Sorts
  <2>2. Len(KeyBytes[k]) = 3 /\ b[1] = Esc /\ b[2] = "[" /\ b[3] = c
    BY <2>1
  <2>3. IsSequence(b) /\ SequenceLength(b) = 3 /\ Esc \notin DOMAIN OneByte
    BY <2>2 DEF IsSequence, SequenceLength, Sequence, OneByte, Esc
  <2> QED BY <2>1, <2>2, <2>3 DEF ParseKey
<1>6. CASE k \in Unknown
  <2>1. KeyBytes[k] = <<k>> /\ Effect[k] = "None" /\ k \notin DOMAIN OneByte /\ k # Esc
    BY <1>6, Meanings DEF Unknown, Single, Esc
  <2>2. Len(KeyBytes[k]) = 1 /\ b[1] = k
    BY <2>1
  <2> QED BY <2>1, <2>2 DEF ParseKey
<1>5. CASE k \in Turn
  <2>1. PICK c \in {"5", "6"} :
          KeyBytes[k] = <<Esc, "[", c, "~">> /\ Effect[k] = Sequence[c]
    BY <1>5, Sorts
  <2>2. Len(KeyBytes[k]) = 4 /\ b[1] = Esc /\ b[2] = "[" /\ b[3] = c /\ b[4] = "~"
    BY <2>1
  <2>3. IsSequence(b) /\ SequenceLength(b) = 4 /\ Esc \notin DOMAIN OneByte
    BY <2>2 DEF IsSequence, SequenceLength, Sequence, OneByte, Esc
  <2> QED BY <2>1, <2>2, <2>3 DEF ParseKey
<1> QED BY <1>1, <1>2, <1>3, <1>4, <1>5, <1>6 DEF Single

-----------------------------------------------------------------------------
(* Pager: bytes that spell keys.                                           *)

(* The bytes b are those of the keys ks, and cut[i] is where the i-th ends. *)
Cuts(b, ks, cut) ==
  /\ cut \in [0 .. Len(ks) -> 0 .. Len(b)]
  /\ cut[0] = 0 /\ cut[Len(ks)] = Len(b)
  /\ \A i \in 1 .. Len(ks) :
       /\ cut[i] = cut[i - 1] + Len(KeyBytes[ks[i]])
       /\ \A j \in 1 .. Len(KeyBytes[ks[i]]) : b[cut[i - 1] + j] = KeyBytes[ks[i]][j]
  /\ \A i, j \in 0 .. Len(ks) : i <= j => cut[i] <= cut[j]
Spelled(b, ks) == \E cut : Cuts(b, ks, cut)

LEMMA KeyLength == \A k \in Keys : Len(KeyBytes[k]) \in Nat \ {0}
<1> SUFFICES ASSUME NEW k \in Keys PROVE Len(KeyBytes[k]) \in Nat \ {0}
  OBVIOUS
<1>1. KeyBytes[k] \in Seq(Byte) /\ KeyBytes[k] # <<>>
  BY KeysAreBytes
<1> QED BY <1>1

LEMMA NothingSpelled == Spelled(<<>>, <<>>)
<1> DEFINE cut == [i \in 0 .. 0 |-> 0]
<1>1. Len(<<>>) = 0
  OBVIOUS
<1>2. Cuts(<<>>, <<>>, cut)
  BY <1>1 DEF Cuts
<1> QED BY <1>2 DEF Spelled

LEMMA OneMore ==
  ASSUME NEW b \in Seq(Byte), NEW ks \in Seq(Keys), NEW k \in Keys, Spelled(b, ks)
  PROVE  Spelled(b \o KeyBytes[k], Append(ks, k))
<1>1. PICK cut : Cuts(b, ks, cut)
  BY DEF Spelled
<1> DEFINE s == KeyBytes[k]
           n == Len(ks)
           l == Len(s)
           c == b \o s
           new == [i \in 0 .. n + 1 |-> IF i <= n THEN cut[i] ELSE Len(b) + l]
<1>2. s \in Seq(Byte) /\ l \in Nat \ {0} /\ n \in Nat /\ Len(b) \in Nat
  BY KeysAreBytes, KeyLength
<1>3. Len(c) = Len(b) + l /\ Len(Append(ks, k)) = n + 1
  BY <1>2
<1>4. /\ \A i \in 1 .. Len(b) : c[i] = b[i]
      /\ \A j \in 1 .. l : c[Len(b) + j] = s[j]
  BY <1>2
<1>5. /\ \A i \in 1 .. n : Append(ks, k)[i] = ks[i]
      /\ Append(ks, k)[n + 1] = k
  BY <1>2
<1>6. /\ cut \in [0 .. n -> 0 .. Len(b)] /\ cut[0] = 0 /\ cut[n] = Len(b)
      /\ \A i \in 1 .. n :
           /\ cut[i] = cut[i - 1] + Len(KeyBytes[ks[i]])
           /\ \A j \in 1 .. Len(KeyBytes[ks[i]]) : b[cut[i - 1] + j] = KeyBytes[ks[i]][j]
      /\ \A i, j \in 0 .. n : i <= j => cut[i] <= cut[j]
  BY <1>1 DEF Cuts
<1>7. /\ \A i \in 0 .. n : new[i] = cut[i]
      /\ new[n + 1] = Len(b) + l
      /\ new \in [0 .. n + 1 -> 0 .. Len(b) + l]
  BY <1>2, <1>6
<1> HIDE DEF new, c, l, n, s
<1>8. ASSUME NEW i \in 1 .. n + 1
      PROVE  /\ new[i] = new[i - 1] + Len(KeyBytes[Append(ks, k)[i]])
             /\ \A j \in 1 .. Len(KeyBytes[Append(ks, k)[i]]) :
                  c[new[i - 1] + j] = KeyBytes[Append(ks, k)[i]][j]
  <2>1. CASE i = n + 1
    <3>1. i - 1 = n /\ n \in 0 .. n
      BY <1>2, <2>1
    <3>2. new[n] = Len(b) /\ new[n + 1] = Len(b) + l /\ Append(ks, k)[n + 1] = k
      BY <1>5, <1>6, <1>7, <3>1
    <3> QED BY <1>4, <2>1, <3>1, <3>2 DEF l, s
  <2>2. CASE i # n + 1
    <3>1. i \in 1 .. n /\ i \in 0 .. n /\ i - 1 \in 0 .. n
      BY <1>2, <2>2
    <3>2. new[i - 1] = cut[i - 1] /\ new[i] = cut[i] /\ Append(ks, k)[i] = ks[i]
      BY <1>5, <1>7, <3>1
    <3> DEFINE m == Len(KeyBytes[ks[i]])
    <3>3. cut[i] = cut[i - 1] + m /\ cut[i] \in 0 .. Len(b) /\ cut[i - 1] \in 0 .. Len(b)
      BY <1>6, <3>1
    <3>4. m \in Nat
      <4>1. ks[i] \in Keys
        BY <3>1 DEF n
      <4> QED BY <4>1, KeyLength
    <3>5. ASSUME NEW j \in 1 .. m PROVE c[cut[i - 1] + j] = KeyBytes[ks[i]][j]
      <4>1. cut[i - 1] + j \in 1 .. Len(b)
        BY <1>2, <3>3, <3>4, SMTT(30)
      <4>2. b[cut[i - 1] + j] = KeyBytes[ks[i]][j]
        BY <1>6, <3>1
      <4> QED BY <1>4, <4>1, <4>2
    <3> QED BY <3>2, <3>3, <3>5
  <2> QED BY <2>1, <2>2
<1>9. ASSUME NEW i \in 0 .. n + 1, NEW j \in 0 .. n + 1, i <= j PROVE new[i] <= new[j]
  <2>1. CASE j = n + 1
    <3>1. new[i] \in 0 .. Len(b) + l
      BY <1>7
    <3> QED BY <1>2, <1>7, <2>1, <3>1
  <2>2. CASE j # n + 1
    <3>1. i \in 0 .. n /\ j \in 0 .. n
      BY <1>2, <1>9, <2>2
    <3> QED BY <1>6, <1>7, <1>9, <3>1
  <2> QED BY <2>1, <2>2
<1>10. Cuts(c, Append(ks, k), new)
  <2>1. new[0] = 0 /\ new[n + 1] = Len(b) + l
    BY <1>2, <1>6, <1>7
  <2> QED BY <1>3, <1>7, <1>8, <1>9, <2>1 DEF Cuts
<1> QED BY <1>10 DEF Spelled, c, s
(* Bytes that are cut where a key ends spell the keys before and those     *)
(* after.                                                                  *)
LEMMA Divided ==
  ASSUME NEW b \in Seq(Byte), NEW ks \in Seq(Keys), NEW cut, Cuts(b, ks, cut),
         NEW i \in 0 .. Len(ks)
  PROVE  /\ Spelled(SubSeq(b, 1, cut[i]), SubSeq(ks, 1, i))
         /\ Spelled(SubSeq(b, cut[i] + 1, Len(b)), SubSeq(ks, i + 1, Len(ks)))
<1> DEFINE n == cut[i]
           t == Len(ks)
           l == Len(b)
           b1 == SubSeq(b, 1, n)
           b2 == SubSeq(b, n + 1, l)
           k1 == SubSeq(ks, 1, i)
           k2 == SubSeq(ks, i + 1, t)
           c1 == [a \in 0 .. i |-> cut[a]]
           c2 == [a \in 0 .. t - i |-> cut[i + a] - n]
<1>1. /\ cut \in [0 .. t -> 0 .. l] /\ cut[0] = 0 /\ cut[t] = l
      /\ \A a \in 1 .. t :
           /\ cut[a] = cut[a - 1] + Len(KeyBytes[ks[a]])
           /\ \A j \in 1 .. Len(KeyBytes[ks[a]]) : b[cut[a - 1] + j] = KeyBytes[ks[a]][j]
      /\ \A a, j \in 0 .. t : a <= j => cut[a] <= cut[j]
  BY DEF Cuts
<1>2. t \in Nat /\ l \in Nat /\ i \in 0 .. t /\ n \in 0 .. l
  BY <1>1
<1>3. /\ \A a \in 1 .. t : ks[a] \in Keys
      /\ \A a \in 1 .. l : b[a] \in Byte
  OBVIOUS
<1>4. Len(b1) = n /\ \A a \in 1 .. n : b1[a] = b[a]
  <2>1. n \in Int /\ 1 \in Int /\ \A a \in 1 .. n : b[a] \in Byte
    BY <1>2, <1>3
  <2> HIDE DEF n
  <2>2. /\ Len(b1) = IF 1 <= n THEN n - 1 + 1 ELSE 0
        /\ \A a \in 1 .. n - 1 + 1 : b1[a] = b[1 + a - 1]
    BY <2>1, SubSeqProperties
  <2> HIDE DEF b1
  <2> QED BY <1>2, <2>2
<1>5. Len(b2) = l - n /\ \A a \in 1 .. l - n : b2[a] = b[n + a]
  <2>1. n + 1 \in Int /\ l \in Int /\ \A a \in n + 1 .. l : b[a] \in Byte
    BY <1>2, <1>3
  <2> HIDE DEF n, l
  <2>2. /\ Len(b2) = IF n + 1 <= l THEN l - (n + 1) + 1 ELSE 0
        /\ \A a \in 1 .. l - (n + 1) + 1 : b2[a] = b[(n + 1) + a - 1]
    BY <2>1, SubSeqProperties
  <2> HIDE DEF b2
  <2> QED BY <1>2, <2>2
<1>6. Len(k1) = i /\ \A a \in 1 .. i : k1[a] = ks[a]
  <2>1. i \in Int /\ 1 \in Int /\ \A a \in 1 .. i : ks[a] \in Keys
    BY <1>2, <1>3
  <2>2. /\ Len(k1) = IF 1 <= i THEN i - 1 + 1 ELSE 0
        /\ \A a \in 1 .. i - 1 + 1 : k1[a] = ks[1 + a - 1]
    BY <2>1, SubSeqProperties
  <2> HIDE DEF k1
  <2> QED BY <1>2, <2>2
<1>7. Len(k2) = t - i /\ \A a \in 1 .. t - i : k2[a] = ks[i + a]
  <2>1. i + 1 \in Int /\ t \in Int /\ \A a \in i + 1 .. t : ks[a] \in Keys
    BY <1>2, <1>3
  <2> HIDE DEF t
  <2> DEFINE f == i + 1
  <2>2. f \in Int /\ \A a \in f .. t : ks[a] \in Keys
    BY <2>1
  <2> HIDE DEF f
  <2>3. /\ Len(SubSeq(ks, f, t)) = IF f <= t THEN t - f + 1 ELSE 0
        /\ \A a \in 1 .. t - f + 1 : SubSeq(ks, f, t)[a] = ks[f + a - 1]
    BY <2>1, <2>2, SubSeqProperties
  <2>4. k2 = SubSeq(ks, f, t)
    BY DEF f
  <2> HIDE DEF k2
  <2>5. Len(k2) = t - i
    BY <1>2, <2>3, <2>4 DEF f
  <2>6. ASSUME NEW a \in 1 .. t - i PROVE k2[a] = ks[i + a]
    <3>1. a \in 1 .. t - f + 1 /\ f + a - 1 = i + a
      BY <1>2 DEF f
    <3> QED BY <2>3, <2>4, <3>1
  <2> QED BY <2>5, <2>6
<1>8. \A a \in 1 .. t : Len(KeyBytes[ks[a]]) \in Nat
  BY <1>3, KeyLength
<1> HIDE DEF n, t, l, b1, b2, k1, k2
<1>9. Cuts(b1, k1, c1)
  <2>1. c1 \in [0 .. i -> 0 .. n] /\ c1[0] = 0 /\ c1[i] = n
          /\ \A a, j \in 0 .. i : a <= j => c1[a] <= c1[j]
    <3>1. ASSUME NEW a \in 0 .. i
          PROVE  a \in 0 .. t /\ c1[a] = cut[a] /\ c1[a] \in 0 .. n
      <4>1. a \in 0 .. t /\ i \in 0 .. t /\ a <= i
        BY <1>2
      <4>2. cut[a] \in 0 .. l /\ cut[a] <= cut[i]
        BY <1>1, <4>1
      <4> QED BY <1>2, <4>1, <4>2 DEF n
    <3>2. 0 \in 0 .. i /\ i \in 0 .. i
      BY <1>2
    <3>3. c1 \in [0 .. i -> 0 .. n]
      BY <3>1
    <3>4. c1[0] = 0 /\ c1[i] = n
      BY <1>1, <3>1, <3>2 DEF n
    <3>5. ASSUME NEW a \in 0 .. i, NEW j \in 0 .. i, a <= j PROVE c1[a] <= c1[j]
      BY <1>1, <3>1, <3>5
    <3> QED BY <3>3, <3>4, <3>5
  <2>2. ASSUME NEW a \in 1 .. i
        PROVE  /\ c1[a] = c1[a - 1] + Len(KeyBytes[k1[a]])
               /\ \A j \in 1 .. Len(KeyBytes[k1[a]]) : b1[c1[a - 1] + j] = KeyBytes[k1[a]][j]
    <3> DEFINE m == Len(KeyBytes[ks[a]])
    <3>1. a \in 1 .. t /\ a \in 0 .. i /\ a - 1 \in 0 .. i /\ a - 1 \in 0 .. t
      BY <1>2
    <3>2. c1[a] = cut[a] /\ c1[a - 1] = cut[a - 1] /\ k1[a] = ks[a]
      BY <1>6, <3>1
    <3>3. m \in Nat /\ cut[a] = cut[a - 1] + m /\ cut[a] \in 0 .. n /\ cut[a - 1] \in Nat
      BY <1>1, <1>2, <1>8, <2>1, <3>1, <3>2, SMTT(30)
    <3>4. ASSUME NEW j \in 1 .. m PROVE b1[cut[a - 1] + j] = KeyBytes[ks[a]][j]
      <4>1. cut[a - 1] + j \in 1 .. n
        BY <1>2, <3>3, SMTT(30)
      <4>2. b[cut[a - 1] + j] = KeyBytes[ks[a]][j]
        BY <1>1, <3>1
      <4> QED BY <1>4, <4>1, <4>2
    <3> QED BY <3>2, <3>3, <3>4
  <2> HIDE DEF c1
  <2> QED BY <1>4, <1>6, <2>1, <2>2 DEF Cuts
<1>10. Cuts(b2, k2, c2)
  <2>1. ASSUME NEW a \in 0 .. t - i
        PROVE  i + a \in 0 .. t /\ c2[a] = cut[i + a] - n /\ c2[a] \in 0 .. l - n
    <3>1. i + a \in 0 .. t /\ i <= i + a
      BY <1>2
    <3>2. cut[i + a] \in 0 .. l /\ cut[i + a] >= n
      BY <1>1, <1>2, <3>1 DEF n
    <3> QED BY <1>2, <3>1, <3>2
  <2>2. c2 \in [0 .. t - i -> 0 .. l - n]
    BY <2>1
  <2>3. c2[0] = 0 /\ c2[t - i] = l - n
    <3>1. 0 \in 0 .. t - i /\ t - i \in 0 .. t - i /\ i + 0 = i /\ i + (t - i) = t
      BY <1>2
    <3>2. c2[0] = cut[i] - n /\ c2[t - i] = cut[t] - n
      BY <3>1
    <3> QED BY <1>1, <1>2, <3>2 DEF n
  <2>4. ASSUME NEW a \in 0 .. t - i, NEW j \in 0 .. t - i, a <= j PROVE c2[a] <= c2[j]
    <3>1. i + a \in 0 .. t /\ i + j \in 0 .. t /\ i + a <= i + j
      BY <1>2, <2>4
    <3>2. cut[i + a] <= cut[i + j] /\ cut[i + a] \in Int /\ cut[i + j] \in Int
      BY <1>1, <1>2, <3>1
    <3>3. c2[a] = cut[i + a] - n /\ c2[j] = cut[i + j] - n
      OBVIOUS
    <3> HIDE DEF c2
    <3> QED BY <1>2, <3>2, <3>3
  <2>5. ASSUME NEW a \in 1 .. t - i
        PROVE  /\ c2[a] = c2[a - 1] + Len(KeyBytes[k2[a]])
               /\ \A j \in 1 .. Len(KeyBytes[k2[a]]) : b2[c2[a - 1] + j] = KeyBytes[k2[a]][j]
    <3> DEFINE m == Len(KeyBytes[ks[i + a]])
    <3>1. /\ a \in 0 .. t - i /\ a - 1 \in 0 .. t - i /\ i + a \in 1 .. t
          /\ i + a - 1 \in 0 .. t /\ i + (a - 1) = i + a - 1 /\ i + a \in 0 .. t
      BY <1>2
    <3>2. c2[a] = cut[i + a] - n /\ c2[a - 1] = cut[i + a - 1] - n /\ k2[a] = ks[i + a]
      BY <1>7, <3>1
    <3>3. /\ m \in Nat /\ cut[i + a] = cut[i + a - 1] + m
          /\ cut[i + a] \in 0 .. l /\ cut[i + a - 1] \in 0 .. l /\ cut[i + a - 1] >= n
      <4>1. m \in Nat /\ cut[i + a] = cut[i + a - 1] + m
        BY <1>1, <1>8, <3>1
      <4>2. c2[a - 1] \in 0 .. l - n
        BY <2>1, <3>1
      <4>3. cut[i + a] \in 0 .. l /\ cut[i + a - 1] \in 0 .. l
        BY <1>1, <3>1
      <4> HIDE DEF c2, m
      <4>4. cut[i + a - 1] >= n
        BY <1>2, <3>2, <4>2, <4>3, SMTT(30)
      <4> QED BY <4>1, <4>3, <4>4
    <3>4. ASSUME NEW j \in 1 .. m PROVE b2[cut[i + a - 1] - n + j] = KeyBytes[ks[i + a]][j]
      <4> DEFINE x == cut[i + a - 1] - n + j
      <4>1. x \in 1 .. l - n /\ n + x = cut[i + a - 1] + j
        <5> DEFINE e == cut[i + a - 1]
                   z == cut[i + a]
        <5>1. m \in Nat /\ z = e + m /\ z \in 0 .. l /\ e \in 0 .. l /\ e >= n
          BY <3>3
        <5>2. j \in 1 .. m /\ x = e - n + j
          OBVIOUS
        <5> HIDE DEF e, z, m, x
        <5>3. x \in 1 .. l - n /\ n + x = e + j
          BY <1>2, <5>1, <5>2
        <5> QED BY <5>3 DEF e
      <4>2. b[cut[i + a - 1] + j] = KeyBytes[ks[i + a]][j]
        BY <1>1, <3>1
      <4> HIDE DEF x
      <4>3. b2[x] = b[n + x]
        BY <1>5, <4>1
      <4> QED BY <4>1, <4>2, <4>3 DEF x
    <3> HIDE DEF c2
    <3>5. c2[a] = c2[a - 1] + m
      <4> HIDE DEF m
      <4> QED BY <1>2, <3>2, <3>3
    <3> QED BY <3>2, <3>4, <3>5
  <2> HIDE DEF c2
  <2> QED BY <1>5, <1>7, <2>2, <2>3, <2>4, <2>5 DEF Cuts
<1> QED BY <1>9, <1>10 DEF Spelled, n, t, l, b1, b2, k1, k2

LEMMA SpelledNothing ==
  ASSUME NEW b \in Seq(Byte), NEW ks \in Seq(Keys), NEW cut, Cuts(b, ks, cut)
  PROVE  b = <<>> <=> ks = <<>>
<1>1. /\ cut[0] = 0 /\ cut[Len(ks)] = Len(b) /\ Len(ks) \in Nat /\ Len(b) \in Nat
      /\ (b = <<>> <=> Len(b) = 0) /\ (ks = <<>> <=> Len(ks) = 0)
  BY DEF Cuts
<1>2. ASSUME Len(ks) # 0 PROVE Len(b) # 0
  <2>1. 1 \in 1 .. Len(ks) /\ 1 \in 0 .. Len(ks) /\ Len(ks) \in 0 .. Len(ks) /\ 1 <= Len(ks)
    BY <1>1, <1>2
  <2>2. cut[1] = cut[1 - 1] + Len(KeyBytes[ks[1]]) /\ cut[1] <= cut[Len(ks)]
    BY <2>1 DEF Cuts
  <2>3. Len(KeyBytes[ks[1]]) \in Nat \ {0}
    BY <2>1, KeyLength
  <2> QED BY <1>1, <2>2, <2>3
<1> QED BY <1>1, <1>2

(* What the decoder takes is the first of the keys that are spelled.       *)
LEMMA HeadDecoded ==
  ASSUME NEW b \in Seq(Byte), b # <<>>, NEW ks \in Seq(Keys), NEW cut, Cuts(b, ks, cut)
  PROVE  /\ Len(ks) >= 1
         /\ ParseKey(b) = <<Effect[ks[1]], cut[1]>>
<1> DEFINE m == Len(KeyBytes[ks[1]])
<1>1. Len(ks) \in Nat /\ Len(ks) >= 1 /\ Len(b) \in Nat
  BY SpelledNothing
<1>2. /\ cut[0] = 0 /\ cut[Len(ks)] = Len(b)
      /\ \A i \in 1 .. Len(ks) :
           /\ cut[i] = cut[i - 1] + Len(KeyBytes[ks[i]])
           /\ \A j \in 1 .. Len(KeyBytes[ks[i]]) : b[cut[i - 1] + j] = KeyBytes[ks[i]][j]
      /\ \A i, j \in 0 .. Len(ks) : i <= j => cut[i] <= cut[j]
  BY DEF Cuts
<1>3. 1 \in 1 .. Len(ks) /\ ks[1] \in Keys /\ m \in Nat \ {0}
  BY <1>1, KeyLength
<1>4. cut[1] = m /\ \A j \in 1 .. m : b[j] = KeyBytes[ks[1]][j]
  <2>1. cut[1] = cut[1 - 1] + m /\ \A j \in 1 .. m : b[cut[1 - 1] + j] = KeyBytes[ks[1]][j]
    BY <1>2, <1>3
  <2>2. cut[1 - 1] = 0
    BY <1>2
  <2> HIDE DEF m
  <2> QED BY <1>3, <2>1, <2>2
<1>5. Len(b) >= m
  <2>1. 1 \in 0 .. Len(ks) /\ Len(ks) \in 0 .. Len(ks)
    BY <1>1
  <2>2. cut[1] <= cut[Len(ks)]
    BY <1>1, <1>2, <2>1
  <2> QED BY <1>2, <1>4, <2>2
<1>6. ASSUME Len(b) > m PROVE b[m + 1] \in KeyStart
  <2>1. Len(ks) # 1
    BY <1>2, <1>4, <1>6, <1>3
  <2>2. 2 \in 1 .. Len(ks) /\ ks[2] \in Keys
    <3> DEFINE h == Len(ks)
    <3>1. 2 \in 1 .. Len(ks)
      <4>1. h \in Nat /\ h >= 1 /\ h # 1
        BY <1>1, <2>1
      <4> HIDE DEF h
      <4>2. 2 \in 1 .. h
        BY <4>1
      <4> QED BY <4>2 DEF h
    <3> QED BY <3>1
  <2>3. 1 \in 1 .. Len(KeyBytes[ks[2]])
    BY <2>2, KeyLength
  <2>4. b[cut[2 - 1] + 1] = KeyBytes[ks[2]][1]
    BY <1>2, <2>2, <2>3
  <2>5. cut[2 - 1] = m
    BY <1>4
  <2> HIDE DEF m
  <2> QED BY <2>2, <2>4, <2>5, Starts
<1>7. ParseKey(b) = <<Effect[ks[1]], m>>
  BY <1>3, <1>4, <1>5, <1>6, Decodes
<1> QED BY <1>1, <1>4, <1>7

(* A read that no key straddles ends where a key ends.                     *)
LEMMA WholeKeys ==
  ASSUME NEW b \in Seq(Byte), NEW ks \in Seq(Keys), NEW cut, Cuts(b, ks, cut),
         NEW n \in 0 .. Len(b), n = Len(b) \/ b[n + 1] \in KeyStart
  PROVE  \E i \in 0 .. Len(ks) : cut[i] = n
<1> DEFINE l == Len(ks)
           S == {i \in 0 .. l : cut[i] <= n}
<1>1. /\ cut \in [0 .. l -> 0 .. Len(b)] /\ cut[0] = 0 /\ cut[l] = Len(b)
      /\ \A i \in 1 .. l :
           /\ cut[i] = cut[i - 1] + Len(KeyBytes[ks[i]])
           /\ \A j \in 1 .. Len(KeyBytes[ks[i]]) : b[cut[i - 1] + j] = KeyBytes[ks[i]][j]
  BY DEF Cuts
<1>2. l \in Nat /\ Len(b) \in Nat /\ n \in 0 .. Len(b)
  OBVIOUS
<1> HIDE DEF l
<1>3. 0 \in S
  BY <1>1, <1>2
<1>4. PICK i \in S : \A j \in S : j <= i
  <2>1. S \subseteq Int /\ S # {} /\ \A j \in S : j <= l
    BY <1>2, <1>3
  <2>2. l \in Int
    BY <1>2
  <2> HIDE DEF S
  <2>3. \E i \in S : \A j \in S : j <= i
    BY <2>1, <2>2, MaximumExists
  <2> QED BY <2>3
<1>5. i \in 0 .. l /\ cut[i] <= n /\ cut[i] \in 0 .. Len(b)
  BY <1>1, <1>4
<1>6. ASSUME cut[i] # n PROVE FALSE
  <2>1. i # l
    BY <1>1, <1>2, <1>5, <1>6
  <2>2. i + 1 \in 1 .. l /\ i + 1 \in 0 .. l /\ i + 1 - 1 = i
    BY <1>2, <1>5, <2>1
  <2> DEFINE k == ks[i + 1]
             m == Len(KeyBytes[k])
             j == n + 1 - cut[i]
  <2>3. k \in Keys /\ m \in Nat \ {0}
    BY <2>2, KeyLength DEF l
  <2>4. /\ cut[i + 1] = cut[i] + m /\ cut[i + 1] \in 0 .. Len(b)
        /\ \A x \in 1 .. m : b[cut[i] + x] = KeyBytes[k][x]
    <3> DEFINE y == i + 1
    <3>1. y \in 1 .. l
      BY <2>2
    <3> HIDE DEF y
    <3>2. /\ cut[y] = cut[y - 1] + Len(KeyBytes[ks[y]])
          /\ \A x \in 1 .. Len(KeyBytes[ks[y]]) : b[cut[y - 1] + x] = KeyBytes[ks[y]][x]
      BY <1>1, <3>1
    <3>3. /\ cut[i + 1] = cut[i + 1 - 1] + m
          /\ \A x \in 1 .. m : b[cut[i + 1 - 1] + x] = KeyBytes[k][x]
      BY <3>2 DEF y
    <3> HIDE DEF k, m
    <3> QED BY <1>1, <2>2, <3>3
  <2>5. ~ (cut[i + 1] <= n)
    <3>1. ~ (i + 1 <= i)
      BY <1>5, <1>2
    <3>2. i + 1 \notin S
      BY <1>4, <3>1
    <3> QED BY <2>2, <3>2
  <2> HIDE DEF k, m, j
  <2>6. n < cut[i] + m /\ cut[i] < n /\ n # Len(b)
    BY <1>2, <1>5, <1>6, <2>3, <2>4, <2>5
  <2>7. j \in 2 .. m /\ cut[i] + j = n + 1
    BY <1>2, <1>5, <2>3, <2>6, SMTT(30) DEF j
  <2>8. b[n + 1] = KeyBytes[k][j]
    <3>1. j \in 1 .. m
      BY <2>3, <2>7
    <3> QED BY <2>4, <2>7, <3>1
  <2>9. b[n + 1] \notin KeyStart
    BY <2>3, <2>7, <2>8, Starts DEF m
  <2> QED BY <2>6, <2>9
<1> QED BY <1>5, <1>6 DEF l
-----------------------------------------------------------------------------
(* Pager: the keys that are owed.                                          *)

(* The bytes p and then t spell keys, and the actions a are what they ask. *)
Owes(p, t, a, k1, k2) ==
  /\ Spelled(p, k1) /\ Spelled(t, k2)
  /\ Len(a) = Len(k1) + Len(k2)
  /\ \A i \in 1 .. Len(k1) : a[i] = Effect[k1[i]]
  /\ \A i \in 1 .. Len(k2) : a[Len(k1) + i] = Effect[k2[i]]

(* Unless a read has split a key, the bytes that are not decoded yet, and  *)
(* those that are not read yet, spell the outstanding keys; bytes are read *)
(* only when none is left to decode.                                       *)
KeysInv ==
  /\ screen = "read" => pending = <<>>
  /\ ~split => \E k1, k2 \in Seq(Keys) : Owes(pending, tty, asked, k1, k2)

LEMMA OwesMore ==
  ASSUME NEW p \in Seq(Byte), NEW t \in Seq(Byte), NEW a \in Seq(Action),
         NEW k1 \in Seq(Keys), NEW k2 \in Seq(Keys), NEW k \in Keys,
         Owes(p, t, a, k1, k2)
  PROVE  Owes(p, t \o KeyBytes[k], Append(a, Effect[k]), k1, Append(k2, k))
<1> DEFINE b == Append(a, Effect[k])
           l == Append(k2, k)
<1>1. Spelled(p, k1) /\ Spelled(t \o KeyBytes[k], l)
  BY OneMore DEF Owes
<1>2. /\ Len(a) = Len(k1) + Len(k2) /\ Len(k1) \in Nat /\ Len(k2) \in Nat
      /\ \A i \in 1 .. Len(k1) : a[i] = Effect[k1[i]]
      /\ \A i \in 1 .. Len(k2) : a[Len(k1) + i] = Effect[k2[i]]
  BY DEF Owes
<1>3. /\ Len(b) = Len(a) + 1 /\ Len(l) = Len(k2) + 1
      /\ \A i \in 1 .. Len(a) : b[i] = a[i]
      /\ b[Len(a) + 1] = Effect[k]
      /\ \A i \in 1 .. Len(k2) : l[i] = k2[i]
      /\ l[Len(k2) + 1] = k
  OBVIOUS
<1> HIDE DEF b, l
<1>4. ASSUME NEW i \in 1 .. Len(k1) PROVE b[i] = Effect[k1[i]]
  <2>1. i \in 1 .. Len(a)
    BY <1>2
  <2> QED BY <1>2, <1>3, <2>1
<1>5. ASSUME NEW i \in 1 .. Len(l) PROVE b[Len(k1) + i] = Effect[l[i]]
  <2>1. CASE i = Len(k2) + 1
    <3>1. Len(k1) + i = Len(a) + 1
      BY <1>2, <2>1
    <3> QED BY <1>3, <2>1, <3>1
  <2>2. CASE i # Len(k2) + 1
    <3>1. i \in 1 .. Len(k2)
      BY <1>2, <1>3, <2>2
    <3>2. Len(k1) + i \in 1 .. Len(a)
      BY <1>2, <3>1
    <3> QED BY <1>2, <1>3, <3>1, <3>2
  <2> QED BY <2>1, <2>2
<1>6. Len(b) = Len(k1) + Len(l)
  BY <1>2, <1>3
<1> QED BY <1>1, <1>4, <1>5, <1>6 DEF Owes, b, l

LEMMA OwesLess ==
  ASSUME NEW p \in Seq(Byte), p # <<>>, NEW t \in Seq(Byte), NEW a \in Seq(Action),
         NEW k1 \in Seq(Keys), NEW k2 \in Seq(Keys), Owes(p, t, a, k1, k2)
  PROVE  /\ a # <<>> /\ ParseKey(p)[1] = Head(a)
         /\ \E l1 \in Seq(Keys) :
              Owes(SubSeq(p, ParseKey(p)[2] + 1, Len(p)), t, Tail(a), l1, k2)
<1>1. PICK cut : Cuts(p, k1, cut)
  BY DEF Owes, Spelled
<1> DEFINE n == cut[1]
           l1 == SubSeq(k1, 2, Len(k1))
           q == SubSeq(p, n + 1, Len(p))
           d == Tail(a)
<1>2. Len(k1) >= 1 /\ ParseKey(p) = <<Effect[k1[1]], n>>
  BY <1>1, HeadDecoded
<1>3. /\ Spelled(t, k2)
      /\ Len(a) = Len(k1) + Len(k2) /\ Len(k1) \in Nat /\ Len(k2) \in Nat
      /\ \A i \in 1 .. Len(k1) : a[i] = Effect[k1[i]]
      /\ \A i \in 1 .. Len(k2) : a[Len(k1) + i] = Effect[k2[i]]
  BY DEF Owes
<1>4. a # <<>> /\ Head(a) = a[1] /\ a[1] = Effect[k1[1]]
  BY <1>2, <1>3
<1>5. Spelled(q, l1)
  <2>1. 1 \in 0 .. Len(k1)
    BY <1>2, <1>3
  <2>2. Spelled(SubSeq(p, cut[1] + 1, Len(p)), SubSeq(k1, 1 + 1, Len(k1)))
    BY <1>1, <2>1, Divided
  <2>3. 1 + 1 = 2
    OBVIOUS
  <2> QED BY <2>2, <2>3
<1>6. /\ l1 \in Seq(Keys) /\ Len(l1) = Len(k1) - 1
      /\ \A i \in 1 .. Len(k1) - 1 : l1[i] = k1[i + 1]
  <2>1. 2 \in Int /\ Len(k1) \in Int /\ \A i \in 2 .. Len(k1) : k1[i] \in Keys
    BY <1>3
  <2>2. /\ l1 \in Seq(Keys)
        /\ Len(l1) = IF 2 <= Len(k1) THEN Len(k1) - 2 + 1 ELSE 0
        /\ \A i \in 1 .. Len(k1) - 2 + 1 : l1[i] = k1[2 + i - 1]
    BY <2>1, SubSeqProperties
  <2> HIDE DEF l1
  <2>3. Len(l1) = Len(k1) - 1
    <3> DEFINE x == Len(k1)
               y == Len(l1)
    <3>1. x \in Nat /\ x >= 1 /\ y = IF 2 <= x THEN x - 2 + 1 ELSE 0
      BY <1>2, <1>3, <2>2
    <3> HIDE DEF x, y
    <3>2. y = x - 1
      BY <3>1
    <3> QED BY <3>2 DEF x, y
  <2>4. ASSUME NEW i \in 1 .. Len(k1) - 1 PROVE l1[i] = k1[i + 1]
    <3>1. i \in 1 .. Len(k1) - 2 + 1 /\ 2 + i - 1 = i + 1
      BY <1>2, <1>3
    <3> QED BY <2>2, <3>1
  <2> QED BY <2>2, <2>3, <2>4
<1>7. Len(d) = Len(a) - 1 /\ \A i \in 1 .. Len(a) - 1 : d[i] = a[i + 1]
  BY <1>4
<1> HIDE DEF l1, d, q
<1>8. Len(d) = Len(l1) + Len(k2)
  BY <1>2, <1>3, <1>6, <1>7
<1>9. ASSUME NEW i \in 1 .. Len(l1) PROVE d[i] = Effect[l1[i]]
  <2>1. i \in 1 .. Len(k1) - 1 /\ i \in 1 .. Len(a) - 1 /\ i + 1 \in 1 .. Len(k1)
    BY <1>2, <1>3, <1>6
  <2> QED BY <1>3, <1>6, <1>7, <2>1
<1>10. ASSUME NEW i \in 1 .. Len(k2) PROVE d[Len(l1) + i] = Effect[k2[i]]
  <2>1. Len(l1) + i \in 1 .. Len(a) - 1 /\ Len(l1) + i + 1 = Len(k1) + i
    BY <1>2, <1>3, <1>6
  <2> QED BY <1>3, <1>7, <2>1
<1>11. Owes(q, t, d, l1, k2)
  BY <1>3, <1>5, <1>8, <1>9, <1>10 DEF Owes
<1>12. ParseKey(p)[1] = Effect[k1[1]] /\ ParseKey(p)[2] = n
  BY <1>2
<1> QED BY <1>4, <1>6, <1>11, <1>12 DEF q, d

LEMMA OwesRead ==
  ASSUME NEW t \in Seq(Byte), NEW a \in Seq(Action),
         NEW k1 \in Seq(Keys), NEW k2 \in Seq(Keys), Owes(<<>>, t, a, k1, k2),
         NEW n \in 0 .. Len(t), n = Len(t) \/ t[n + 1] \in KeyStart
  PROVE  \E l1, l2 \in Seq(Keys) : Owes(SubSeq(t, 1, n), SubSeq(t, n + 1, Len(t)), a, l1, l2)
<1>1. k1 = <<>>
  <2>1. PICK cut : Cuts(<<>>, k1, cut)
    BY DEF Owes, Spelled
  <2>2. <<>> \in Seq(Byte)
    OBVIOUS
  <2> QED BY <2>1, <2>2, SpelledNothing
<1>2. Len(a) = Len(k2) /\ Len(k2) \in Nat /\ \A i \in 1 .. Len(k2) : a[i] = Effect[k2[i]]
  <2>1. Len(k1) = 0
    BY <1>1
  <2>2. /\ Len(a) = Len(k1) + Len(k2) /\ Len(k2) \in Nat
        /\ \A i \in 1 .. Len(k2) : a[Len(k1) + i] = Effect[k2[i]]
    BY DEF Owes
  <2> QED BY <2>1, <2>2
<1>3. PICK cut : Cuts(t, k2, cut)
  BY DEF Owes, Spelled
<1>4. PICK x \in 0 .. Len(k2) : cut[x] = n
  BY <1>3, WholeKeys
<1> DEFINE f == x + 1
           l1 == SubSeq(k2, 1, x)
           l2 == SubSeq(k2, f, Len(k2))
<1>5. Spelled(SubSeq(t, 1, n), l1) /\ Spelled(SubSeq(t, n + 1, Len(t)), l2)
  BY <1>3, <1>4, Divided
<1>6. /\ l1 \in Seq(Keys) /\ Len(l1) = x
      /\ \A i \in 1 .. x : l1[i] = k2[i]
  <2>1. x \in Int /\ 1 \in Int /\ \A i \in 1 .. x : k2[i] \in Keys
    BY <1>2
  <2>2. /\ l1 \in Seq(Keys)
        /\ Len(l1) = IF 1 <= x THEN x - 1 + 1 ELSE 0
        /\ \A i \in 1 .. x - 1 + 1 : l1[i] = k2[1 + i - 1]
    BY <2>1, SubSeqProperties
  <2> HIDE DEF l1
  <2> QED BY <1>2, <2>2
<1>7. /\ l2 \in Seq(Keys) /\ Len(l2) = Len(k2) - x
      /\ \A i \in 1 .. Len(k2) - x : l2[i] = k2[x + i]
  <2>1. f \in Int /\ Len(k2) \in Int /\ \A i \in f .. Len(k2) : k2[i] \in Keys
    BY <1>2
  <2> HIDE DEF f
  <2>2. /\ l2 \in Seq(Keys)
        /\ Len(l2) = IF f <= Len(k2) THEN Len(k2) - f + 1 ELSE 0
        /\ \A i \in 1 .. Len(k2) - f + 1 : l2[i] = k2[f + i - 1]
    BY <2>1, SubSeqProperties
  <2> HIDE DEF l2
  <2>3. Len(l2) = Len(k2) - x
    BY <1>2, <2>2 DEF f
  <2>4. ASSUME NEW i \in 1 .. Len(k2) - x PROVE l2[i] = k2[x + i]
    <3>1. i \in 1 .. Len(k2) - f + 1 /\ f + i - 1 = x + i
      BY <1>2 DEF f
    <3> QED BY <2>2, <3>1
  <2> QED BY <2>2, <2>3, <2>4
<1> HIDE DEF l1, l2
<1>8. Len(a) = Len(l1) + Len(l2)
  BY <1>2, <1>6, <1>7
<1>9. ASSUME NEW i \in 1 .. Len(l1) PROVE a[i] = Effect[l1[i]]
  <2>1. i \in 1 .. x /\ i \in 1 .. Len(k2)
    BY <1>2, <1>6
  <2> QED BY <1>2, <1>6, <2>1
<1>10. ASSUME NEW i \in 1 .. Len(l2) PROVE a[Len(l1) + i] = Effect[l2[i]]
  <2>1. i \in 1 .. Len(k2) - x /\ x + i \in 1 .. Len(k2)
    BY <1>2, <1>7
  <2> QED BY <1>2, <1>6, <1>7, <2>1
<1> QED BY <1>5, <1>6, <1>7, <1>8, <1>9, <1>10 DEF Owes

LEMMA KeysInvInit == PagerInit => KeysInv
<1> SUFFICES ASSUME PagerInit PROVE KeysInv
  OBVIOUS
<1>1. <<>> \in Seq(Keys) /\ Len(<<>>) = 0 /\ 1 .. 0 = {}
  OBVIOUS
<1>2. Owes(<<>>, <<>>, <<>>, <<>>, <<>>)
  BY <1>1, NothingSpelled DEF Owes
<1>3. pending = <<>> /\ tty = <<>> /\ asked = <<>> /\ screen = "draw"
  BY DEF PagerInit
<1> QED BY <1>1, <1>2, <1>3 DEF KeysInv

LEMMA KeysInvStep == PagerInv /\ KeysInv /\ [PagerNext]_pagerVars => KeysInv'
<1> SUFFICES ASSUME PagerInv, KeysInv, [PagerNext]_pagerVars PROVE KeysInv'
  OBVIOUS
<1> DEFINE Some(p, t, a) == \E k1, k2 \in Seq(Keys) : Owes(p, t, a, k1, k2)
<1>1. /\ screen = "read" => pending = <<>>
      /\ ~split => Some(pending, tty, asked)
  BY DEF KeysInv
<1>2. tty \in Seq(Byte) /\ pending \in Seq(Byte) /\ asked \in Seq(Action)
  BY DEF PagerInv, PagerTypeOK
<1>3. CASE Press
  <2>1. PICK key \in Keys : /\ tty' = tty \o KeyBytes[key]
                            /\ asked' = Append(asked, Effect[key])
    BY <1>3 DEF Press
  <2>2. UNCHANGED <<screen, pending, split>>
    BY <1>3 DEF Press
  <2>3. ASSUME ~split PROVE Some(pending', tty', asked')
    <3>1. PICK k1 \in Seq(Keys), k2 \in Seq(Keys) : Owes(pending, tty, asked, k1, k2)
      BY <1>1, <2>3
    <3>2. Owes(pending, tty', asked', k1, Append(k2, key))
      BY <1>2, <2>1, <3>1, OwesMore
    <3>3. Append(k2, key) \in Seq(Keys)
      OBVIOUS
    <3> QED BY <2>2, <3>2, <3>3
  <2> QED BY <1>1, <2>2, <2>3 DEF KeysInv
<1>4. CASE Resize
  BY <1>1, <1>4 DEF Resize, KeysInv
<1>5. CASE Draw
  <2>1. screen' = "read" => pending = <<>>
    BY <1>5 DEF Draw
  <2>2. UNCHANGED <<tty, pending, asked, split>>
    BY <1>5 DEF Draw
  <2> QED BY <1>1, <2>1, <2>2 DEF KeysInv
<1>6. CASE ReadTTY
  <2> DEFINE n == IF Len(tty) < ReadSize THEN Len(tty) ELSE ReadSize
             m == n + 1
             rest == SubSeq(tty, m, Len(tty))
  <2>1. /\ pending = <<>> /\ pending' = SubSeq(tty, 1, n) /\ tty' = rest
        /\ split' = (split \/ (rest # <<>> /\ rest[1] \notin KeyStart))
        /\ screen' = "obey" /\ asked' = asked
    BY <1>1, <1>6 DEF ReadTTY
  <2>2. n \in 0 .. Len(tty) /\ Len(tty) \in Nat
    BY <1>2, PagerAssumption
  <2> HIDE DEF n
  <2>3. n # Len(tty) => rest # <<>> /\ rest[1] = tty[n + 1]
    <3>1. m \in Int /\ Len(tty) \in Int /\ \A i \in m .. Len(tty) : tty[i] \in Byte
      BY <1>2, <2>2
    <3> HIDE DEF m
    <3>2. /\ rest \in Seq(Byte)
          /\ Len(rest) = IF m <= Len(tty) THEN Len(tty) - m + 1 ELSE 0
          /\ \A i \in 1 .. Len(tty) - m + 1 : rest[i] = tty[m + i - 1]
      BY <3>1, SubSeqProperties
    <3> HIDE DEF rest
    <3> SUFFICES ASSUME n # Len(tty) PROVE rest # <<>> /\ rest[1] = tty[n + 1]
      OBVIOUS
    <3>3. m <= Len(tty) /\ 1 \in 1 .. Len(tty) - m + 1 /\ m + 1 - 1 = n + 1
      BY <2>2 DEF m
    <3> QED BY <3>1, <3>2, <3>3
  <2>4. ASSUME ~split' PROVE Some(pending', tty', asked')
    <3> HIDE DEF rest
    <3>1. ~split /\ (n = Len(tty) \/ tty[n + 1] \in KeyStart)
      BY <2>1, <2>3, <2>4
    <3>2. PICK k1 \in Seq(Keys), k2 \in Seq(Keys) : Owes(<<>>, tty, asked, k1, k2)
      BY <1>1, <2>1, <3>1
    <3>3. Some(SubSeq(tty, 1, n), SubSeq(tty, n + 1, Len(tty)), asked)
      BY <1>2, <2>2, <3>1, <3>2, OwesRead
    <3> QED BY <2>1, <3>3 DEF rest
  <2> QED BY <2>1, <2>4 DEF KeysInv
<1>7. CASE Obey
  <2>1. pending # <<>>
    BY <1>7 DEF Obey, PagerInv
  <2>2. /\ pending' = SubSeq(pending, ParseKey(pending)[2] + 1, Len(pending))
        /\ screen' # "read" /\ tty' = tty /\ split' = split
        /\ asked' = IF asked = <<>> THEN asked ELSE Tail(asked)
    BY <1>7 DEF Obey
  <2>3. ASSUME ~split PROVE Some(pending', tty', asked')
    <3>1. PICK k1 \in Seq(Keys), k2 \in Seq(Keys) : Owes(pending, tty, asked, k1, k2)
      BY <1>1, <2>3
    <3>2. /\ asked # <<>>
          /\ \E l1 \in Seq(Keys) :
               Owes(SubSeq(pending, ParseKey(pending)[2] + 1, Len(pending)), tty, Tail(asked), l1, k2)
      BY <1>2, <2>1, <3>1, OwesLess
    <3> QED BY <2>2, <3>2
  <2> QED BY <2>2, <2>3 DEF KeysInv
<1>8. CASE Hangup
  BY <1>1, <1>8 DEF Hangup, KeysInv
<1>9. CASE UNCHANGED pagerVars
  BY <1>1, <1>9 DEF pagerVars, KeysInv
<1> QED BY <1>3, <1>4, <1>5, <1>6, <1>7, <1>8, <1>9 DEF PagerNext

(* Whatever the keys, and however many of them a read delivers, the next   *)
(* action the decoder finds is the next one the user asked for, unless a   *)
(* read has split a key.                                                   *)
THEOREM EveryKeyObeyed == PagerSpec => []KeysObeyed
<1>1. ASSUME PagerInv, KeysInv PROVE KeysObeyed
  <2> SUFFICES ASSUME screen = "obey", ~split
               PROVE  asked # <<>> /\ ParseKey(pending)[1] = Head(asked)
    BY DEF KeysObeyed
  <2>1. PICK k1 \in Seq(Keys), k2 \in Seq(Keys) : Owes(pending, tty, asked, k1, k2)
    BY <1>1 DEF KeysInv
  <2>2. pending # <<>> /\ tty \in Seq(Byte) /\ pending \in Seq(Byte) /\ asked \in Seq(Action)
    BY <1>1 DEF PagerInv, PagerTypeOK
  <2> QED BY <2>1, <2>2, OwesLess
<1> QED BY <1>1, PagerInvInit, PagerInvStep, KeysInvInit, KeysInvStep, PTL DEF PagerSpec

-----------------------------------------------------------------------------
(* The transaction log: the order of times as text.                        *)

(* Where a time stands among those of its second, and among all.           *)
Place(r) == CASE r = 1 -> 0 [] r = 3 -> 1 [] r = 2 -> 2 [] r = 0 -> 3
TextKey(t) == 4 * (t \div 4) + Place(t % 4)

LEMMA Quarters ==
  ASSUME NEW t \in Nat
  PROVE  /\ t \div 4 \in Int /\ t % 4 \in {0, 1, 2, 3}
         /\ t = 4 * (t \div 4) + (t % 4)
OBVIOUS

LEMMA TextForms ==
  ASSUME NEW t \in Nat
  PROVE  /\ Text(t) \in Seq(Int) /\ Text(t)[1] = t \div 4
         /\ t % 4 = 0 => Len(Text(t)) = 2 /\ Text(t)[2] = Zulu
         /\ t % 4 # 0 => Len(Text(t)) >= 4 /\ Text(t)[2] = Point
         /\ t % 4 = 1 => Text(t)[3] = 0
         /\ t % 4 = 2 => Text(t)[3] = 1 /\ Text(t)[4] = Zulu
         /\ t % 4 = 3 => Text(t)[3] = 1 /\ Text(t)[4] = 1
<1> DEFINE s == t \div 4
<1>1. s \in Int /\ t % 4 \in {0, 1, 2, 3} /\ Point \in Int /\ Zulu \in Int
  BY DEF Point, Zulu
<1>2. CASE t % 4 = 0
  <2> DEFINE w == <<s>> \o <<>> \o <<Zulu>>
  <2>1. t % 2 = 0 /\ (t % 4) \div 2 = 0
    BY <1>2
  <2>2. Text(t) = w
    BY <1>2, <2>1 DEF Text
  <2> HIDE DEF s
  <2>3. /\ w \in Seq(Int) /\ Len(w) = 2
        /\ w[1] = s /\ w[2] = Zulu
    BY <1>1
  <2> HIDE DEF w
  <2> QED BY <1>2, <2>2, <2>3 DEF s
<1>3. CASE t % 4 = 1
  <2> DEFINE w == <<s>> \o <<Point, 0, 1>> \o <<Zulu>>
  <2>1. t % 2 = 1 /\ (t % 4) \div 2 = 0
    BY <1>3
  <2>2. Text(t) = w
    BY <1>3, <2>1 DEF Text
  <2> HIDE DEF s
  <2>3. /\ w \in Seq(Int) /\ Len(w) = 5
        /\ w[1] = s /\ w[2] = Point /\ w[3] = 0 /\ w[4] = 1 /\ w[5] = Zulu
    BY <1>1
  <2> HIDE DEF w
  <2> QED BY <1>3, <2>2, <2>3 DEF s
<1>4. CASE t % 4 = 2
  <2> DEFINE w == <<s>> \o <<Point, 1>> \o <<Zulu>>
  <2>1. t % 2 = 0 /\ (t % 4) \div 2 = 1
    BY <1>4
  <2>2. Text(t) = w
    BY <1>4, <2>1 DEF Text
  <2> HIDE DEF s
  <2>3. /\ w \in Seq(Int) /\ Len(w) = 4
        /\ w[1] = s /\ w[2] = Point /\ w[3] = 1 /\ w[4] = Zulu
    BY <1>1
  <2> HIDE DEF w
  <2> QED BY <1>4, <2>2, <2>3 DEF s
<1>5. CASE t % 4 = 3
  <2> DEFINE w == <<s>> \o <<Point, 1, 1>> \o <<Zulu>>
  <2>1. t % 2 = 1 /\ (t % 4) \div 2 = 1
    BY <1>5
  <2>2. Text(t) = w
    BY <1>5, <2>1 DEF Text
  <2> HIDE DEF s
  <2>3. /\ w \in Seq(Int) /\ Len(w) = 5
        /\ w[1] = s /\ w[2] = Point /\ w[3] = 1 /\ w[4] = 1 /\ w[5] = Zulu
    BY <1>1
  <2> HIDE DEF w
  <2> QED BY <1>5, <2>2, <2>3 DEF s
<1> QED BY <1>1, <1>2, <1>3, <1>4, <1>5

(* The bytes are numbers, so no text comes before one that comes before    *)
(* it.                                                                     *)
LEMMA TextLessOneWay ==
  ASSUME NEW a \in Seq(Int), NEW b \in Seq(Int), TextLess(a, b)
  PROVE  ~ TextLess(b, a) /\ a # b
<1>1. PICK k \in DOMAIN a \cap DOMAIN b :
        (\A j \in 1 .. k - 1 : a[j] = b[j]) /\ a[k] < b[k]
  BY DEF TextLess
<1>2. k \in Nat \ {0} /\ a[k] \in Int /\ b[k] \in Int
  OBVIOUS
<1>3. ASSUME TextLess(b, a) PROVE FALSE
  <2>1. PICK n \in DOMAIN a \cap DOMAIN b :
          (\A j \in 1 .. n - 1 : b[j] = a[j]) /\ b[n] < a[n]
    BY <1>3 DEF TextLess
  <2>2. n \in Nat \ {0} /\ a[n] \in Int /\ b[n] \in Int
    OBVIOUS
  <2>3. CASE k < n
    <3>1. k \in 1 .. n - 1
      BY <1>2, <2>2, <2>3
    <3> QED BY <1>1, <1>2, <2>1, <3>1
  <2>4. CASE n < k
    <3>1. n \in 1 .. k - 1
      BY <1>2, <2>2, <2>4
    <3> QED BY <1>1, <2>1, <2>2, <3>1
  <2>5. CASE n = k
    BY <1>1, <1>2, <2>1, <2>5
  <2> QED BY <1>2, <2>2, <2>3, <2>4, <2>5
<1> QED BY <1>1, <1>2, <1>3

LEMMA KeyLessIsTextLess ==
  ASSUME NEW x \in Nat, NEW y \in Nat, TextKey(x) < TextKey(y)
  PROVE  TextLess(Text(x), Text(y))
<1> DEFINE a == Text(x)
           b == Text(y)
           s == x \div 4
           u == y \div 4
           p == x % 4
           q == y % 4
<1>1. s \in Int /\ u \in Int /\ p \in {0, 1, 2, 3} /\ q \in {0, 1, 2, 3}
  OBVIOUS
<1>2. /\ a \in Seq(Int) /\ a[1] = s
      /\ p = 0 => Len(a) = 2 /\ a[2] = Zulu
      /\ p # 0 => Len(a) >= 4 /\ a[2] = Point
      /\ p = 1 => a[3] = 0
      /\ p = 2 => a[3] = 1 /\ a[4] = Zulu
      /\ p = 3 => a[3] = 1 /\ a[4] = 1
  BY TextForms
<1>3. /\ b \in Seq(Int) /\ b[1] = u
      /\ q = 0 => Len(b) = 2 /\ b[2] = Zulu
      /\ q # 0 => Len(b) >= 4 /\ b[2] = Point
      /\ q = 1 => b[3] = 0
      /\ q = 2 => b[3] = 1 /\ b[4] = Zulu
      /\ q = 3 => b[3] = 1 /\ b[4] = 1
  BY TextForms
<1>4. 4 * s + Place(p) < 4 * u + Place(q)
  BY DEF TextKey
<1> HIDE DEF a, b, s, u, p, q
<1>5. Place(p) \in 0 .. 3 /\ Place(q) \in 0 .. 3
  BY <1>1 DEF Place
<1>6. /\ {1, 2} \subseteq DOMAIN a /\ {1, 2} \subseteq DOMAIN b
      /\ p # 0 => {1, 2, 3, 4} \subseteq DOMAIN a
      /\ q # 0 => {1, 2, 3, 4} \subseteq DOMAIN b
  <2>1. ASSUME NEW w \in Seq(Int) PROVE /\ Len(w) >= 2 => {1, 2} \subseteq DOMAIN w
                                        /\ Len(w) >= 4 => {1, 2, 3, 4} \subseteq DOMAIN w
    <3>1. DOMAIN w = 1 .. Len(w) /\ Len(w) \in Nat
      OBVIOUS
    <3> QED BY <3>1
  <2>2. a \in Seq(Int) /\ b \in Seq(Int) /\ Len(a) \in Nat /\ Len(b) \in Nat
    BY <1>2, <1>3
  <2> QED BY <1>2, <1>3, <2>1, <2>2, SMTT(30)
<1>7. s < u \/ (s = u /\ Place(p) < Place(q))
  BY <1>1, <1>4, <1>5
<1>8. CASE s < u
  <2>1. 1 \in DOMAIN a /\ 1 \in DOMAIN b /\ a[1] = s /\ b[1] = u
    BY <1>2, <1>3, <1>6
  <2>2. 1 .. 1 - 1 = {}
    OBVIOUS
  <2> QED BY <1>8, <2>1, <2>2 DEF TextLess, a, b
<1>9. CASE s = u /\ Place(p) < Place(q)
  <2>1. \/ p # 0 /\ q = 0
        \/ p = 1 /\ q \in {2, 3}
        \/ p = 3 /\ q = 2
    BY <1>1, <1>9 DEF Place
  <2>2. CASE p # 0 /\ q = 0
    <3>1. a[1] = s /\ a[2] = Point /\ {1, 2} \subseteq DOMAIN a
      BY <1>1, <1>2, <1>6, <2>2
    <3>2. b[1] = s /\ b[2] = Zulu /\ {1, 2} \subseteq DOMAIN b
      BY <1>3, <1>9, <1>6, <2>2
    <3>3. 1 .. 2 - 1 = {1} /\ Point < Zulu
      BY DEF Point, Zulu
    <3> QED BY <3>1, <3>2, <3>3 DEF TextLess, a, b
  <2>3. CASE p = 1 /\ q \in {2, 3}
    <3>1. a[1] = s /\ a[2] = Point /\ a[3] = 0 /\ {1, 2, 3} \subseteq DOMAIN a
      BY <1>2, <1>6, <2>3
    <3>2. b[1] = s /\ b[2] = Point /\ b[3] = 1 /\ {1, 2, 3} \subseteq DOMAIN b
      BY <1>3, <1>9, <1>6, <2>3
    <3>3. 1 .. 3 - 1 = {1, 2}
      OBVIOUS
    <3> QED BY <3>1, <3>2, <3>3 DEF TextLess, a, b
  <2>4. CASE p = 3 /\ q = 2
    <3>1. a[1] = s /\ a[2] = Point /\ a[3] = 1 /\ a[4] = 1 /\ {1, 2, 3, 4} \subseteq DOMAIN a
      BY <1>2, <1>6, <2>4
    <3>2. b[1] = s /\ b[2] = Point /\ b[3] = 1 /\ b[4] = Zulu /\ {1, 2, 3, 4} \subseteq DOMAIN b
      BY <1>3, <1>9, <1>6, <2>4
    <3>3. 1 .. 4 - 1 = {1, 2, 3} /\ 1 < Zulu
      BY DEF Zulu
    <3> QED BY <3>1, <3>2, <3>3 DEF TextLess, a, b
  <2> QED BY <2>1, <2>2, <2>3, <2>4
<1> QED BY <1>7, <1>8, <1>9

(* Different times differ in their keys.                                   *)
LEMMA KeysDiffer ==
  ASSUME NEW x \in Nat, NEW y \in Nat
  PROVE  /\ TextKey(x) \in Int
         /\ TextKey(x) = TextKey(y) => x = y
         /\ x \div 4 < y \div 4 => TextKey(x) < TextKey(y)
<1> DEFINE s == x \div 4
           u == y \div 4
           p == x % 4
           q == y % 4
<1>1. /\ s \in Int /\ u \in Int /\ p \in {0, 1, 2, 3} /\ q \in {0, 1, 2, 3}
      /\ x = 4 * s + p /\ y = 4 * u + q
  OBVIOUS
<1>2. TextKey(x) = 4 * s + Place(p) /\ TextKey(y) = 4 * u + Place(q)
  BY DEF TextKey
<1> HIDE DEF s, u, p, q
<1>3. /\ Place(p) \in 0 .. 3 /\ Place(q) \in 0 .. 3
      /\ Place(p) = Place(q) => p = q
  BY <1>1 DEF Place
<1>4. TextKey(x) \in Int
  BY <1>1, <1>2, <1>3
<1>5. ASSUME TextKey(x) = TextKey(y) PROVE x = y
  <2>1. s = u /\ Place(p) = Place(q)
    BY <1>1, <1>2, <1>3, <1>5
  <2> QED BY <1>1, <1>3, <2>1
<1>6. ASSUME s < u PROVE TextKey(x) < TextKey(y)
  BY <1>1, <1>2, <1>3, <1>6
<1> QED BY <1>4, <1>5, <1>6 DEF s, u

(* The order of the log: by key, and by id among equals.                   *)
LEMMA BeforeIsKeyOrder ==
  ASSUME rows \in Seq(LogRow), NEW i \in DOMAIN rows, NEW j \in DOMAIN rows
  PROVE  /\ TextKey(rows[i].time) \in Int /\ i \in Int
         /\ \/ Before(i, j) /\ TextKey(rows[j].time) < TextKey(rows[i].time)
            \/ Before(i, j) /\ TextKey(rows[j].time) = TextKey(rows[i].time) /\ j < i
            \/ ~Before(i, j) /\ TextKey(rows[i].time) < TextKey(rows[j].time)
            \/ ~Before(i, j) /\ TextKey(rows[j].time) = TextKey(rows[i].time) /\ i <= j
<1> DEFINE x == rows[i].time
           y == rows[j].time
<1>1. rows[i] \in LogRow /\ rows[j] \in LogRow /\ i \in Int /\ j \in Int
  OBVIOUS
<1>2. x \in Nat /\ y \in Nat
  BY <1>1, TransactionAssumption DEF LogRow
<1>3. Before(i, j) <=> TextLess(Text(y), Text(x)) \/ (Text(x) = Text(y) /\ i > j)
  BY DEF Before
<1> HIDE DEF x, y
<1>4. TextKey(x) \in Int /\ TextKey(y) \in Int /\ (TextKey(x) = TextKey(y) => x = y)
  BY <1>2, KeysDiffer
<1>5. Text(x) \in Seq(Int) /\ Text(y) \in Seq(Int)
  BY <1>2, TextForms
<1>6. CASE TextKey(y) < TextKey(x)
  <2>1. Before(i, j)
    BY <1>2, <1>3, <1>6, KeyLessIsTextLess
  <2> QED BY <1>1, <1>4, <1>6, <2>1 DEF x, y
<1>7. CASE TextKey(x) < TextKey(y)
  <2>1. TextLess(Text(x), Text(y))
    BY <1>2, <1>7, KeyLessIsTextLess
  <2>2. ~Before(i, j)
    BY <1>3, <1>5, <2>1, TextLessOneWay
  <2> QED BY <1>1, <1>4, <1>7, <2>2 DEF x, y
<1>8. CASE TextKey(x) = TextKey(y)
  <2>1. x = y
    BY <1>4, <1>8
  <2>2. ~TextLess(Text(y), Text(x))
    BY <1>5, <2>1, TextLessOneWay
  <2>3. Before(i, j) <=> i > j
    BY <1>3, <2>1, <2>2
  <2> QED BY <1>1, <1>4, <1>8, <2>3 DEF x, y
<1> QED BY <1>4, <1>6, <1>7, <1>8

(* It is a strict total order.                                             *)
LEMMA LogIsOrdered ==
  ASSUME rows \in Seq(LogRow),
         NEW i \in DOMAIN rows, NEW j \in DOMAIN rows, NEW k \in DOMAIN rows
  PROVE  /\ ~Before(i, i)
         /\ Before(i, j) /\ Before(j, k) => Before(i, k)
         /\ i # j => Before(i, j) \/ Before(j, i)
         /\ Before(i, j) => ~Before(j, i)
<1> DEFINE a == TextKey(rows[i].time)
           b == TextKey(rows[j].time)
           c == TextKey(rows[k].time)
           Is(x, m, y, n) == Before(x, y) <=> n < m \/ (n = m /\ y < x)
<1>1. a \in Int /\ b \in Int /\ c \in Int /\ i \in Int /\ j \in Int /\ k \in Int
  BY BeforeIsKeyOrder
<1>2. (Before(i, j) <=> b < a \/ (b = a /\ j < i))
  BY <1>1, BeforeIsKeyOrder
<1>3. (Before(j, k) <=> c < b \/ (c = b /\ k < j))
  BY <1>1, BeforeIsKeyOrder
<1>4. (Before(i, k) <=> c < a \/ (c = a /\ k < i))
  BY <1>1, BeforeIsKeyOrder
<1>5. (Before(j, i) <=> a < b \/ (a = b /\ i < j))
  BY <1>1, BeforeIsKeyOrder
<1>6. ~Before(i, i)
  BY <1>1, BeforeIsKeyOrder
<1> HIDE DEF a, b, c
<1> QED BY <1>1, <1>2, <1>3, <1>4, <1>5, <1>6
-----------------------------------------------------------------------------
(* The transaction log: ranks.                                             *)

LEMMA RankTyped ==
  ASSUME rows \in Seq(LogRow), NEW f, NEW i
  PROVE  /\ IsFiniteSet(Matching(f)) /\ Matching(f) \subseteq DOMAIN rows
         /\ IsFiniteSet({j \in Matching(f) : Before(j, i)})
         /\ Rank(i, f) \in Nat
<1>1. Matching(f) \in SUBSET (1 .. Len(rows))
  BY DEF Matching
<1>2. IsFiniteSet(1 .. Len(rows))
  <2>1. Len(rows) \in Int /\ 1 \in Int
    OBVIOUS
  <2> QED BY <2>1, FS_Interval
<1>3. IsFiniteSet(Matching(f))
  BY <1>1, <1>2, FS_Subset
<1> DEFINE P == {j \in Matching(f) : Before(j, i)}
<1>4. P \in SUBSET Matching(f)
  OBVIOUS
<1>5. IsFiniteSet(P)
  BY <1>3, <1>4, FS_Subset
<1>6. Cardinality(P) \in Nat
  BY <1>5, FS_CardinalityType
<1> QED BY <1>1, <1>3, <1>5, <1>6 DEF Rank

(* A row has a higher rank than the rows before it.                        *)
LEMMA RankGrows ==
  ASSUME rows \in Seq(LogRow), NEW f,
         NEW i \in Matching(f), NEW j \in Matching(f), Before(i, j)
  PROVE  Rank(i, f) < Rank(j, f)
<1> DEFINE P == {k \in Matching(f) : Before(k, i)}
           Q == {k \in Matching(f) : Before(k, j)}
<1>1. IsFiniteSet(P) /\ IsFiniteSet(Q) /\ Matching(f) \subseteq DOMAIN rows
  BY RankTyped
<1>2. P \in SUBSET Q
  BY <1>1, LogIsOrdered
<1>3. i \in Q /\ i \notin P
  BY <1>1, LogIsOrdered
<1>4. Rank(i, f) = Cardinality(P) /\ Rank(j, f) = Cardinality(Q)
  BY DEF Rank
<1> HIDE DEF P, Q
<1>5. Cardinality(P) <= Cardinality(Q) /\ (Cardinality(Q) = Cardinality(P) => Q = P)
  BY <1>1, <1>2, FS_Subset
<1>6. Cardinality(P) \in Nat /\ Cardinality(Q) \in Nat
  BY <1>1, FS_CardinalityType
<1> QED BY <1>3, <1>4, <1>5, <1>6

(* The row just before one that is not the first.                          *)
LEMMA RankBelow ==
  ASSUME rows \in Seq(LogRow), NEW f, NEW i \in Matching(f), Rank(i, f) > 0
  PROVE  \E j \in Matching(f) : Rank(j, f) = Rank(i, f) - 1
<1> DEFINE M == Matching(f)
           P == {k \in M : Before(k, i)}
           R == {Rank(k, f) : k \in P}
<1>1. IsFiniteSet(P) /\ M \subseteq DOMAIN rows /\ Rank(i, f) = Cardinality(P)
        /\ \A k \in M : Rank(k, f) \in Nat
  BY RankTyped DEF Rank
<1>2. P # {}
  BY <1>1, FS_EmptySet
<1>3. PICK r \in R : \A x \in R : x <= r
  <2>1. R \subseteq Int /\ R # {}
    <3>1. P \subseteq M
      OBVIOUS
    <3> HIDE DEF P
    <3> QED BY <1>1, <1>2, <3>1
  <2>2. Rank(i, f) \in Int /\ \A x \in R : x <= Rank(i, f)
    <3>1. Rank(i, f) \in Nat
      BY RankTyped
    <3>2. ASSUME NEW k \in P PROVE Rank(k, f) <= Rank(i, f)
      <4>1. k \in Matching(f) /\ Before(k, i) /\ Rank(k, f) \in Nat
        BY <1>1
      <4>2. Rank(k, f) < Rank(i, f)
        BY <4>1, RankGrows
      <4> QED BY <3>1, <4>1, <4>2
    <3> HIDE DEF P
    <3> QED BY <3>1, <3>2
  <2> HIDE DEF R
  <2>3. \E r \in R : \A x \in R : x <= r
    BY <2>1, <2>2, MaximumExists
  <2> QED BY <2>3
<1>4. PICK j \in P : r = Rank(j, f)
  BY <1>3
<1> DEFINE Q == {k \in M : Before(k, j)}
<1>5. Q = P \ {j}
  <2>1. ASSUME NEW k \in P, k # j PROVE Before(k, j)
    <3>1. Rank(k, f) <= Rank(j, f)
      BY <1>3, <1>4
    <3>2. ~Before(j, k)
      <4>1. ASSUME Before(j, k) PROVE FALSE
        <5>1. Rank(j, f) < Rank(k, f)
          BY <4>1, RankGrows
        <5> QED BY <1>1, <3>1, <5>1
      <4> QED BY <4>1
    <3> QED BY <1>1, <2>1, <3>2, LogIsOrdered
  <2>2. ASSUME NEW k \in Q PROVE k \in P /\ k # j
    BY <1>1, LogIsOrdered
  <2> QED BY <2>1, <2>2
<1>6. Rank(j, f) = Cardinality(Q)
  BY DEF Rank
<1> HIDE DEF P, Q
<1>7. Cardinality(P \ {j}) = Cardinality(P) - 1
  BY <1>1, <1>4, FS_RemoveElement
<1> QED BY <1>1, <1>4, <1>5, <1>6, <1>7 DEF P

(* No rank below that of a row is missing.                                 *)
LEMMA RanksHaveNoGap ==
  ASSUME rows \in Seq(LogRow), NEW f, NEW i \in Matching(f),
         NEW r \in Nat, r <= Rank(i, f)
  PROVE  \E j \in Matching(f) : Rank(j, f) = r
<1> DEFINE S == {- Rank(k, f) : k \in {k \in Matching(f) : Rank(k, f) >= r}}
<1>1. \A k \in Matching(f) : Rank(k, f) \in Nat
  BY RankTyped
<1>2. PICK x \in S : \A y \in S : y <= x
  <2>1. S \subseteq Int
    BY <1>1
  <2>2. S # {}
    OBVIOUS
  <2>3. 0 \in Int /\ \A y \in S : y <= 0
    BY <1>1
  <2> HIDE DEF S
  <2>4. \E x \in S : \A y \in S : y <= x
    BY <2>1, <2>2, <2>3, MaximumExists
  <2> QED BY <2>4
<1>3. PICK k \in Matching(f) : Rank(k, f) >= r /\ x = - Rank(k, f)
  BY <1>2
<1>4. ASSUME Rank(k, f) # r PROVE FALSE
  <2>1. Rank(k, f) \in Nat /\ Rank(k, f) > r
    BY <1>1, <1>3, <1>4
  <2>2. Rank(k, f) > 0
    BY <2>1
  <2>3. PICK j \in Matching(f) : Rank(j, f) = Rank(k, f) - 1
    BY <2>2, RankBelow
  <2>4. Rank(j, f) >= r
    BY <2>1, <2>3
  <2>5. - Rank(j, f) \in S
    BY <2>4
  <2>6. - Rank(j, f) <= x
    BY <1>2, <2>5
  <2> QED BY <1>3, <2>1, <2>3, <2>6
<1> QED BY <1>4

(* A page that leaves out a row of a later rank is full.                   *)
LEMMA FullPage ==
  ASSUME rows \in Seq(LogRow), NEW f, NEW from \in Nat,
         NEW i \in Matching(f), Rank(i, f) >= from + Limit
  PROVE  Cardinality(Query(f, from)) >= Limit
<1> DEFINE L == Query(f, from)
           n == Limit
           I == 1 .. n
           Row(r) == CHOOSE j \in Matching(f) : Rank(j, f) = from + r - 1
           g == [r \in I |-> Row(r)]
<1>1. n \in Nat \ {0}
  BY TransactionAssumption DEF Limit
<1>2. IsFiniteSet(L)
  <2>1. L \in SUBSET Matching(f)
    BY DEF Query
  <2>2. IsFiniteSet(Matching(f))
    BY RankTyped
  <2> HIDE DEF L
  <2> QED BY <2>1, <2>2, FS_Subset
<1>3. Rank(i, f) \in Nat /\ Rank(i, f) >= from + n
  BY RankTyped
<1> HIDE DEF n
<1>4. ASSUME NEW r \in I
      PROVE  Row(r) \in L /\ Rank(Row(r), f) = from + r - 1
  <2>1. from + r - 1 \in Nat /\ from + r - 1 <= Rank(i, f)
    BY <1>1, <1>3
  <2>2. \E j \in Matching(f) : Rank(j, f) = from + r - 1
    BY <2>1, RanksHaveNoGap
  <2>3. Row(r) \in Matching(f) /\ Rank(Row(r), f) = from + r - 1
    BY <2>2
  <2> HIDE DEF Row
  <2>4. from <= Rank(Row(r), f) /\ Rank(Row(r), f) < from + n
    BY <1>1, <2>3
  <2> QED BY <2>3, <2>4 DEF Query, Offset, n
<1> HIDE DEF L, Row
<1>5. g \in Injection(I, L)
  <2>1. g \in [I -> L]
    BY <1>4
  <2>2. ASSUME NEW x \in I, NEW y \in I, g[x] = g[y] PROVE x = y
    <3>1. Rank(Row(x), f) = Rank(Row(y), f)
      BY <2>2
    <3>2. from + x - 1 = from + y - 1
      BY <1>4, <3>1
    <3> QED BY <1>1, <3>2
  <2> QED BY <2>1, <2>2 DEF Injection, IsInjective
<1>6. Cardinality(I) <= Cardinality(L)
  <2> HIDE DEF g
  <2> QED BY <1>2, <1>5, FS_Injection
<1>7. Cardinality(I) = n
  <2>1. n \in Int /\ 1 \in Int
    BY <1>1
  <2>2. Cardinality(1 .. n) = IF 1 > n THEN 0 ELSE n - 1 + 1
    BY <2>1, FS_Interval
  <2> QED BY <1>1, <2>2
<1>8. Cardinality(L) \in Nat
  BY <1>2, FS_CardinalityType
<1> QED BY <1>1, <1>6, <1>7, <1>8 DEF L, n
-----------------------------------------------------------------------------
(* The transaction log: the invariant.                                     *)

(* A row that is owed to the listing has not been passed: inserts can only *)
(* move it down.  What a page shows its filter selects.                    *)
TxInv ==
  /\ rows \in Seq(LogRow)
  /\ clock \in 0 .. ClockBound
  /\ \A w \in Recorder : stamped[w] \subseteq LogRow
  /\ DOMAIN stamped = Recorder
  /\ offset \in Nat
  /\ flags \subseteq Listings /\ \A g, h \in flags : g = h
  /\ flags = {} => owed = {}
  /\ \A g \in flags :
       /\ \A i \in owed : i \in Matching(ToFilter(g)) /\ Rank(i, ToFilter(g)) >= offset
       /\ shown \subseteq Matching(ToFilter(g))

LEMMA TxInvInit == TxInit => TxInv
BY TransactionAssumption DEF TxInit, TxInv

(* A row that is inserted takes nothing from a filter, and pushes rows to  *)
(* later places only.                                                      *)
LEMMA InsertKeepsRanks ==
  ASSUME rows \in Seq(LogRow), NEW r \in LogRow, rows' = Append(rows, r), NEW f
  PROVE  /\ Matching(f) \subseteq Matching(f)'
         /\ \A i \in Matching(f) :
              Rank(i, f) \in Nat /\ Rank(i, f)' \in Nat /\ Rank(i, f) <= Rank(i, f)'
<1>1. rows' \in Seq(LogRow) /\ DOMAIN rows \subseteq DOMAIN rows'
        /\ \A i \in DOMAIN rows : rows'[i] = rows[i]
  OBVIOUS
<1>2. Matching(f) \subseteq Matching(f)'
  BY <1>1 DEF Matching, Matches
<1>3. \A i, j \in DOMAIN rows : Before(j, i) => Before(j, i)'
  BY <1>1 DEF Before
<1>4. ASSUME NEW i \in Matching(f)
      PROVE  Rank(i, f) \in Nat /\ Rank(i, f)' \in Nat /\ Rank(i, f) <= Rank(i, f)'
  <2> DEFINE P == {j \in Matching(f) : Before(j, i)}
             Q == {j \in Matching(f)' : Before(j, i)'}
  <2>1. P \in SUBSET Q
    BY <1>2, <1>3 DEF Matching
  <2>2. IsFiniteSet(Q)
    <3>1. IsFiniteSet(DOMAIN rows')
      <4>1. DOMAIN rows' = 1 .. Len(rows') /\ 1 \in Int /\ Len(rows') \in Int
        BY <1>1
      <4> QED BY <4>1, FS_Interval
    <3>2. Q \in SUBSET DOMAIN rows'
      BY DEF Matching
    <3> HIDE DEF Q
    <3> QED BY <3>1, <3>2, FS_Subset
  <2>3. Rank(i, f) = Cardinality(P) /\ Rank(i, f)' = Cardinality(Q)
    BY DEF Rank
  <2> HIDE DEF P, Q
  <2>4. IsFiniteSet(P) /\ Cardinality(P) <= Cardinality(Q)
    BY <2>1, <2>2, FS_Subset
  <2>5. Cardinality(P) \in Nat /\ Cardinality(Q) \in Nat
    BY <2>2, <2>4, FS_CardinalityType
  <2> QED BY <2>3, <2>4, <2>5
<1> QED BY <1>2, <1>4

LEMMA SameRows ==
  ASSUME rows' = rows, NEW f
  PROVE  Matching(f)' = Matching(f) /\ \A i : Rank(i, f)' = Rank(i, f)
BY DEF Rank, Before, Matching, Matches

LEMMA TxInvStep == TxInv /\ [TxNext]_txVars => TxInv'
<1> SUFFICES ASSUME TxInv, [TxNext]_txVars PROVE TxInv'
  OBVIOUS
<1>1. rows \in Seq(LogRow) /\ offset \in Nat /\ Limit \in Nat
  BY TransactionAssumption DEF TxInv, Limit
<1>2. ASSUME UNCHANGED <<rows, flags, offset, shown, owed>>,
             clock' \in 0 .. ClockBound, DOMAIN stamped' = Recorder,
             \A w \in Recorder : stamped'[w] \subseteq LogRow
      PROVE  TxInv'
  <2>1. ASSUME NEW g \in flags
        PROVE  /\ \A i \in owed : /\ i \in Matching(ToFilter(g))'
                                  /\ Rank(i, ToFilter(g))' >= offset
               /\ shown \subseteq Matching(ToFilter(g))'
    <3> DEFINE f == ToFilter(g)
    <3>1. Matching(f)' = Matching(f) /\ \A i : Rank(i, f)' = Rank(i, f)
      BY <1>2, SameRows
    <3>2. /\ \A i \in owed : i \in Matching(f) /\ Rank(i, f) >= offset
          /\ shown \subseteq Matching(f)
      BY DEF TxInv
    <3> HIDE DEF f
    <3> QED BY <3>1, <3>2 DEF f
  <2> QED BY <1>2, <2>1 DEF TxInv
<1>3. CASE Tick
  <2>1. clock' \in 0 .. ClockBound
    BY <1>3, TransactionAssumption DEF Tick, TxInv
  <2> QED BY <1>3, <1>2, <2>1 DEF Tick, TxInv, listing
<1>4. ASSUME NEW w \in Recorder, Stamp(w) PROVE TxInv'
  <2>1. PICK e \in Events :
          stamped' = [stamped EXCEPT ![w] =
                        {[time |-> clock, dir |-> e.dir, type |-> e.type]}]
    BY <1>4 DEF Stamp
  <2>2. [time |-> clock, dir |-> e.dir, type |-> e.type] \in LogRow
    BY TransactionAssumption DEF LogRow, TxInv
  <2>3. UNCHANGED <<clock, rows, flags, offset, shown, owed>>
    BY <1>4 DEF Stamp, listing
  <2>4. DOMAIN stamped' = Recorder /\ \A v \in Recorder : stamped'[v] \subseteq LogRow
    BY <2>1, <2>2 DEF TxInv
  <2> QED BY <1>2, <2>3, <2>4 DEF TxInv
<1>5. ASSUME NEW w \in Recorder, Record(w) PROVE TxInv'
  <2>1. PICK r \in stamped[w] : rows' = Append(rows, r) \/ rows' = rows
    BY <1>5 DEF Record
  <2>2. r \in LogRow
    BY <2>1 DEF TxInv
  <2>3. stamped' = [stamped EXCEPT ![w] = {}]
          /\ UNCHANGED <<clock, flags, offset, shown, owed>>
    BY <1>5 DEF Record, listing
  <2>4. rows' \in Seq(LogRow)
    BY <1>1, <2>1, <2>2
  <2>5. DOMAIN stamped' = Recorder /\ \A v \in Recorder : stamped'[v] \subseteq LogRow
    BY <2>3 DEF TxInv
  <2>6. ASSUME NEW g \in flags
        PROVE  /\ \A i \in owed : /\ i \in Matching(ToFilter(g))'
                                  /\ Rank(i, ToFilter(g))' >= offset
               /\ shown \subseteq Matching(ToFilter(g))'
    <3> DEFINE f == ToFilter(g)
    <3>1. /\ \A i \in owed : i \in Matching(f) /\ Rank(i, f) >= offset
          /\ shown \subseteq Matching(f)
      BY DEF TxInv
    <3>2. /\ Matching(f) \subseteq Matching(f)'
          /\ \A i \in Matching(f) : Rank(i, f) <= Rank(i, f)'
               /\ Rank(i, f) \in Int /\ Rank(i, f)' \in Int
      <4>2. CASE rows' = Append(rows, r)
        BY <1>1, <2>2, <4>2, InsertKeepsRanks
      <4>3. CASE rows' = rows
        <5>1. Matching(f)' = Matching(f) /\ \A i : Rank(i, f)' = Rank(i, f)
          BY <4>3, SameRows
        <5>2. ASSUME NEW i \in Matching(f) PROVE Rank(i, f) \in Int
          <6>1. Rank(i, f) \in Nat
            BY <1>1, RankTyped
          <6> HIDE DEF f
          <6> QED BY <6>1
        <5> HIDE DEF f
        <5> QED BY <5>1, <5>2
      <4> QED BY <2>1, <4>2, <4>3
    <3> HIDE DEF f
    <3> QED BY <1>1, <3>1, <3>2 DEF f
  <2> QED BY <2>3, <2>4, <2>5, <2>6 DEF TxInv
<1>6. CASE BeginListing
  <2>1. PICK g \in Listings : flags' = {g} /\ owed' = Matching(ToFilter(g))
    BY <1>6 DEF BeginListing
  <2>2. offset' = 0 /\ shown' = {} /\ UNCHANGED <<clock, stamped, rows>>
    BY <1>6 DEF BeginListing
  <2> DEFINE f == ToFilter(g)
  <2>3. Matching(f)' = Matching(f) /\ \A i : Rank(i, f)' = Rank(i, f)
    BY <2>2, SameRows
  <2>4. ASSUME NEW i PROVE Rank(i, f) >= 0
    <3>1. Rank(i, f) \in Nat
      BY <1>1, RankTyped
    <3> HIDE DEF f
    <3> QED BY <3>1
  <2> HIDE DEF f
  <2>5. \A h \in flags' :
          /\ \A i \in owed' : i \in Matching(ToFilter(h))' /\ Rank(i, ToFilter(h))' >= offset'
          /\ shown' \subseteq Matching(ToFilter(h))'
    BY <2>1, <2>2, <2>3, <2>4 DEF f
  <2> QED BY <2>1, <2>2, <2>5 DEF TxInv
<1>7. CASE ListPage
  <2>1. PICK g \in flags :
          LET list == Query(ToFilter(g), offset) IN
          /\ shown' = list
          /\ owed' = owed \ list
          /\ flags' = IF Cardinality(list) < Limit THEN {} ELSE flags
    BY <1>7 DEF ListPage
  <2> DEFINE f == ToFilter(g)
             list == Query(f, offset)
  <2>2. offset' = offset + Limit /\ UNCHANGED <<clock, stamped, rows>>
    BY <1>7 DEF ListPage
  <2>3. Matching(f)' = Matching(f) /\ \A i : Rank(i, f)' = Rank(i, f)
    BY <2>2, SameRows
  <2>4. ASSUME NEW i \in owed \ list
        PROVE  i \in Matching(f) /\ Rank(i, f) >= offset + Limit
    <3>1. i \in Matching(f) /\ Rank(i, f) >= offset
      BY <2>1 DEF TxInv
    <3>2. Rank(i, f) \in Nat
      BY <1>1, RankTyped
    <3>3. ~ (Rank(i, f) < offset + Limit)
      BY <2>4, <3>1 DEF Query, Offset
    <3> QED BY <1>1, <3>1, <3>2, <3>3
  <2>5. ASSUME NEW i \in owed \ list PROVE ~ (Cardinality(list) < Limit)
    <3>1. Cardinality(list) >= Limit
      BY <1>1, <2>4, FullPage
    <3>2. list \in SUBSET Matching(f) /\ IsFiniteSet(Matching(f))
      BY <1>1, RankTyped DEF Query
    <3> HIDE DEF list
    <3>3. IsFiniteSet(list)
      BY <3>2, FS_Subset
    <3>4. Cardinality(list) \in Nat
      BY <3>3, FS_CardinalityType
    <3> QED BY <1>1, <3>1, <3>4
  <2>6. flags' = {} => owed' = {}
    <3>1. flags' = {} => Cardinality(list) < Limit
      BY <2>1
    <3>2. owed' = owed \ list
      BY <2>1
    <3> HIDE DEF list
    <3> QED BY <2>5, <3>1, <3>2
  <2>7. list \subseteq Matching(f)
    BY DEF Query
  <2>8. flags' \subseteq flags /\ shown' = list /\ owed' = owed \ list
    BY <2>1
  <2>9. \A h \in flags' : h = g
    BY <2>8 DEF TxInv
  <2> HIDE DEF f, list
  <2>10. \A h \in flags' :
          /\ \A i \in owed' : i \in Matching(ToFilter(h))' /\ Rank(i, ToFilter(h))' >= offset'
          /\ shown' \subseteq Matching(ToFilter(h))'
    BY <2>2, <2>3, <2>4, <2>7, <2>8, <2>9 DEF f
  <2>11. offset' \in Nat
    BY <1>1, <2>2
  <2> QED BY <2>2, <2>6, <2>8, <2>10, <2>11 DEF TxInv
<1>8. CASE UNCHANGED txVars
  BY <1>8, <1>2 DEF txVars, TxInv
<1> QED BY <1>3, <1>4, <1>5, <1>6, <1>7, <1>8 DEF TxNext

LEMMA AlwaysTxInv == TxSpec => []TxInv
BY TxInvInit, TxInvStep, PTL DEF TxSpec

(* Whoever pages through the log to the end, for pages of any size and     *)
(* whatever is recorded meanwhile, has seen every row there was when he    *)
(* began.                                                                  *)
THEOREM NothingIsMissed == TxSpec => []PagesMissNothing
<1>1. TxInv => PagesMissNothing
  BY DEF TxInv, PagesMissNothing
<1> QED BY <1>1, AlwaysTxInv, PTL

(* The texts order the seconds.                                            *)
LEMMA LaterSecondBefore ==
  ASSUME rows \in Seq(LogRow), NEW i \in DOMAIN rows, NEW j \in DOMAIN rows,
         rows[i].time \div 4 > rows[j].time \div 4
  PROVE  Before(i, j)
<1> DEFINE x == rows[i].time
           y == rows[j].time
<1>1. rows[i] \in LogRow /\ rows[j] \in LogRow
  OBVIOUS
<1>2. x \in Nat /\ y \in Nat
  BY <1>1, TransactionAssumption DEF LogRow
<1> DEFINE s == x \div 4
           u == y \div 4
<1>3. s \in Int /\ u \in Int /\ u < s
  BY <1>2
<1>4. TextKey(y) < TextKey(x) /\ TextKey(x) \in Int /\ TextKey(y) \in Int
  <2>1. y \div 4 < x \div 4
    BY <1>3
  <2> HIDE DEF x, y
  <2> QED BY <1>2, <2>1, KeysDiffer
<1>5. \/ Before(i, j)
      \/ TextKey(x) < TextKey(y)
      \/ TextKey(y) = TextKey(x)
  BY <1>1, BeforeIsKeyOrder
<1> HIDE DEF x, y
<1> QED BY <1>4, <1>5

(* What the step that lists a page shows.                                  *)
LEMMA PageShown ==
  ASSUME TxInv, NEW g \in flags, TxNext, offset' # offset, offset' # 0
  PROVE  shown' = Query(ToFilter(g), offset)
<1>1. \A h \in flags : h = g
  BY DEF TxInv
<1>2. ListPage
  BY DEF TxNext, Tick, BeginListing, Stamp, Record, listing
<1> QED BY <1>1, <1>2 DEF ListPage

(* Of the events asked for, the first page shows the latest, by the        *)
(* second, for any times and any order of the inserts.                     *)
THEOREM LatestOnFirstPage == TxSpec => FirstPageLatest
<1> DEFINE Latest ==
      \A g \in flags :
        offset = 0 /\ offset' > 0 =>
          \A i \in shown', j \in Matching(ToFilter(g)) \ shown' :
            rows[j].time \div 4 <= rows[i].time \div 4
<1>1. TxInv /\ TxInv' /\ [TxNext]_txVars => [Latest]_txVars
  <2> SUFFICES ASSUME TxInv, TxInv', TxNext, NEW g \in flags,
                      offset = 0, offset' > 0,
                      NEW i \in shown', NEW j \in Matching(ToFilter(g)) \ shown'
               PROVE  rows[j].time \div 4 <= rows[i].time \div 4
    OBVIOUS
  <2> DEFINE f == ToFilter(g)
             x == rows[j].time
             y == rows[i].time
  <2>1. rows \in Seq(LogRow) /\ Limit \in Nat
    BY TransactionAssumption DEF TxInv, Limit
  <2>2. shown' = Query(f, 0)
    BY PageShown
  <2>3. i \in Matching(f) /\ Rank(i, f) < Limit
    BY <2>1, <2>2 DEF Query, Offset
  <2>4. Rank(i, f) \in Nat /\ Rank(j, f) \in Nat /\ Matching(f) \subseteq DOMAIN rows
    BY <2>1, RankTyped
  <2>5. ~ (Rank(j, f) < Limit)
    BY <2>1, <2>2, <2>4 DEF Query, Offset
  <2>6. ~ Before(j, i)
    BY <2>1, <2>3, <2>4, <2>5, RankGrows
  <2>7. i \in DOMAIN rows /\ j \in DOMAIN rows
    BY <2>3, <2>4
  <2>8. x \in Nat /\ y \in Nat
    <3>1. rows[i] \in LogRow /\ rows[j] \in LogRow
      BY <2>1, <2>7
    <3> QED BY <3>1, TransactionAssumption DEF LogRow
  <2>9. ~ (x \div 4 > y \div 4)
    BY <2>1, <2>6, <2>7, LaterSecondBefore
  <2> HIDE DEF x, y
  <2> DEFINE s == x \div 4
             u == y \div 4
  <2>10. s \in Int /\ u \in Int
    BY <2>8
  <2>11. ~ (s > u)
    BY <2>9
  <2> HIDE DEF s, u
  <2>12. s <= u
    BY <2>10, <2>11
  <2> QED BY <2>12 DEF s, u, x, y
<1> QED BY <1>1, AlwaysTxInv, PTL DEF TxSpec, FirstPageLatest

(* Whichever form of the flags names an entity type, no page lists another *)
(* type.                                                                   *)
THEOREM OnlyTypesAsked == TxSpec => TypesRespected
<1> DEFINE Respected ==
      \A g \in flags :
        offset' > offset /\ TypesAsked(g) # {} =>
          \A i \in shown' : rows[i].type \in TypesAsked(g)
<1>1. TxInv /\ TxInv' /\ [TxNext]_txVars => [Respected]_txVars
  <2> SUFFICES ASSUME TxInv, TxInv', TxNext, NEW g \in flags,
                      offset' > offset, TypesAsked(g) # {}, NEW i \in shown'
               PROVE  rows[i].type \in TypesAsked(g)
    OBVIOUS
  <2> DEFINE f == ToFilter(g)
  <2>1. offset' # offset /\ offset' # 0
    BY DEF TxInv
  <2>2. shown' = Query(f, offset)
    BY <2>1, PageShown
  <2>3. i \in Matching(f) /\ g \in Flags
    BY <2>2, TransactionAssumption DEF Query, TxInv
  <2>4. f.type = "" \/ rows[i].type = f.type
    BY <2>3 DEF Matching, Matches
  <2>5. f.type = IF g.type # "" THEN g.type
                 ELSE IF g.types = {} THEN "" ELSE CHOOSE t \in g.types : TRUE
    BY DEF ToFilter
  <2>6. g.types \subseteq EntityType /\ "" \notin EntityType
    BY <2>3 DEF Flags, EntityType
  <2> HIDE DEF f
  <2>7. CASE g.type # ""
    BY <2>4, <2>5, <2>7 DEF TypesAsked
  <2>8. CASE g.type = "" /\ g.types = {}
    BY <2>8 DEF TypesAsked
  <2>9. CASE g.type = "" /\ g.types # {}
    <3>1. f.type \in g.types
      BY <2>5, <2>9
    <3> QED BY <2>4, <2>6, <3>1 DEF TypesAsked
  <2> QED BY <2>7, <2>8, <2>9
<1> QED BY <1>1, AlwaysTxInv, PTL DEF TxSpec, TypesRespected

=============================================================================
