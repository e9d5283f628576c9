-------------------------------- MODULE Setup --------------------------------
(***************************************************************************)
(* agy-sync setup: the diagnosis of a Google Cloud project and of the      *)
(* local environment, and the creation of the Firestore database           *)
(* (internal/setup/checker.go and provision.go, cmd/setup.go), run by      *)
(* several operators of one project while its owner grants and revokes     *)
(* what the checks ask for.                                                *)
(*                                                                         *)
(* Each check is one request, and so is the creation; between them a run   *)
(* knows only what it has seen.  Of its report the model keeps the item of *)
(* the database and the worst status of the others.                        *)
(***************************************************************************)
EXTENDS Integers

CONSTANTS
  Operator,   \* those who run setup
  Location,   \* the regions they may ask for
  Nowhere,    \* the region of a database that does not exist
  Options,    \* the flags they may give
  AtFirst,    \* what is granted at first
  OwnerBound  \* bound: changes the project's owner makes

Grants == {"credentials", "project", "apis"}
Status == {"PASS", "SKIPPED", "WARN", "FAIL"}
Answers == {"y", "n", "", "unreadable"}

ASSUME SetupAssumption ==
  /\ Nowhere \notin Location
  /\ Options \subseteq [dryRun : BOOLEAN, yes : BOOLEAN, location : Location]
  /\ Options # {}
  /\ AtFirst \subseteq Grants
  /\ OwnerBound \in Nat

VARIABLES
  granted,   \* what the checks would find in order
  database,  \* the region of the database, or Nowhere
  changes,   \* changes the owner has made
  at,        \* at[o]: where o's run stands
  options,   \* options[o]: its flags
  worst,     \* worst[o]: the worst status of the items but the database's
  item,      \* item[o]: the status of the database
  answer,    \* answer[o]: what o typed at the prompt
  created,   \* created[o]: whether the report says it made the database
  passed,    \* passed[o]: AllPassed
  since      \* since[o]: the owner's changes when the run began

setupVars == <<granted, database, changes, at, options, worst, item, answer,
               created, passed, since>>
project == <<granted, database, changes>>

SetupStages ==
  {"idle", "credentials", "project", "apis", "database", "storage", "local",
   "confirm", "create", "recalculate", "done"}

SetupInit ==
  /\ granted = AtFirst
  /\ database = Nowhere
  /\ changes = 0
  /\ at = [o \in Operator |-> "idle"]
  /\ options = [o \in Operator |-> CHOOSE f \in Options : TRUE]
  /\ worst = [o \in Operator |-> "PASS"]
  /\ item = [o \in Operator |-> "PASS"]
  /\ answer = [o \in Operator |-> ""]
  /\ created = [o \in Operator |-> FALSE]
  /\ passed = [o \in Operator |-> FALSE]
  /\ since = [o \in Operator |-> 0]

Go(o, from, to) == at[o] = from /\ at' = [at EXCEPT ![o] = to]

(* The owner of the project, or the user, changes something.               *)
Change ==
  /\ changes < OwnerBound
  /\ changes' = changes + 1
  /\ \E g \in Grants :
       granted' = IF g \in granted THEN granted \ {g} ELSE granted \cup {g}
  /\ UNCHANGED <<database, at, options, worst, item, answer, created, passed>>
  /\ UNCHANGED since

-----------------------------------------------------------------------------
(* The checks.                                                             *)

BeginSetup(o) ==
  /\ at[o] \in {"idle", "done"}
  /\ at' = [at EXCEPT ![o] = "credentials"]
  /\ \E f \in Options : options' = [options EXCEPT ![o] = f]
  /\ worst' = [worst EXCEPT ![o] = "PASS"]
  /\ item' = [item EXCEPT ![o] = "PASS"]
  /\ answer' = [answer EXCEPT ![o] = ""]
  /\ created' = [created EXCEPT ![o] = FALSE]
  /\ passed' = [passed EXCEPT ![o] = FALSE]
  /\ since' = [since EXCEPT ![o] = changes]
  /\ UNCHANGED project

(* What a check can say of what is granted or not: a request can fail.     *)
(* For the APIs that is a warning, or for one of them the same as disabled.*)
(* The storage check asks nobody for the storage: it looks for credentials.*)
LooksFor(c) == IF c = "storage" THEN "credentials" ELSE c
Outcomes(c) ==
  (CASE c \in {"credentials", "project"} -> {"FAIL"}
     [] c = "apis" -> {"FAIL", "WARN"}
     [] c = "storage" -> {"WARN"})
  \cup (IF LooksFor(c) \in granted THEN {"PASS"} ELSE {})

Worse(s, t) ==
  IF "FAIL" \in {s, t} THEN "FAIL"
  ELSE IF "WARN" \in {s, t} THEN "WARN"
  ELSE IF "SKIPPED" \in {s, t} THEN "SKIPPED" ELSE "PASS"

Check(o, c, next) ==
  /\ Go(o, c, next)
  /\ \E s \in Outcomes(c) : worst' = [worst EXCEPT ![o] = Worse(@, s)]
  /\ UNCHANGED <<project, options, item, answer, created, passed, since>>

(* No project is configured: nothing of the cloud is checked.              *)
Unconfigured(o) ==
  /\ Go(o, "project", "local")
  /\ worst' = [worst EXCEPT ![o] = "FAIL"]
  /\ UNCHANGED <<project, options, item, answer, created, passed, since>>

(* A missing database is a warning, of a dry run as well.  A request that  *)
(* fails is a failure, unless its error has "404" or "not found" in it,    *)
(* for whatever reason: then the database counts as missing.               *)
CheckDatabase(o) ==
  /\ Go(o, "database", "storage")
  /\ \E s \in {"WARN", "FAIL"} \cup (IF database = Nowhere THEN {} ELSE {"PASS"}) :
       item' = [item EXCEPT ![o] = s]
  /\ UNCHANGED <<project, options, worst, answer, created, passed, since>>

(* The configuration file and the directories, and the first verdict.      *)
AllPassed(o) == worst[o] # "FAIL" /\ item[o] # "FAIL"
CheckLocal(o) ==
  /\ Go(o, "local", "confirm")
  /\ \E s \in {"PASS", "WARN"} : worst' = [worst EXCEPT ![o] = Worse(@, s)]
  /\ passed' = [passed EXCEPT ![o] = AllPassed(o)]
  /\ UNCHANGED <<project, options, item, answer, created, since>>

-----------------------------------------------------------------------------
(* The creation of a missing database.                                     *)

(* --yes answers for the user.  The definition above the one in use, here  *)
(* and below, is a slip a property is there to catch.                      *)
AlwaysAsks(o) == FALSE
AutoApprove(o) == options[o].yes
Agrees(a) == a = "y"
Confirm(o) ==
  /\ IF item[o] # "WARN" \/ options[o].dryRun
     THEN Go(o, "confirm", "recalculate") /\ UNCHANGED <<item, answer>>
     ELSE IF AutoApprove(o)
     THEN Go(o, "confirm", "create") /\ UNCHANGED <<item, answer>>
     ELSE \E a \in Answers :
            /\ answer' = [answer EXCEPT ![o] = a]
            /\ Go(o, "confirm", IF Agrees(a) THEN "create" ELSE "recalculate")
            /\ item' = [item EXCEPT ![o] = IF a = "unreadable" THEN "FAIL" ELSE @]
  /\ UNCHANGED <<project, options, worst, created, passed, since>>

(* Firestore makes the database unless there is one by now, or the request *)
(* fails: both are errors.                                                 *)
CreatedOrThere(o) == database' # Nowhere
CreatedNow(o) == database' # database
CreateDatabase(o) ==
  /\ Go(o, "create", "recalculate")
  /\ \/ database = Nowhere /\ database' = options[o].location
     \/ UNCHANGED database
  /\ item' = [item EXCEPT ![o] = IF CreatedNow(o) THEN "PASS" ELSE "FAIL"]
  /\ created' = [created EXCEPT ![o] = CreatedNow(o)]
  /\ UNCHANGED <<granted, changes, options, worst, answer, passed, since>>

(* The verdict is taken again, printed and returned.                       *)
FirstVerdict(o) == passed[o]
FinalVerdict(o) == AllPassed(o)
Recalculate(o) ==
  /\ Go(o, "recalculate", "done")
  /\ passed' = [passed EXCEPT ![o] = FinalVerdict(o)]
  /\ UNCHANGED <<project, options, worst, item, answer, created, since>>

SetupStep(o) ==
  \/ BeginSetup(o)
  \/ Check(o, "credentials", "project") \/ Check(o, "project", "apis")
  \/ Unconfigured(o)
  \/ Check(o, "apis", "database") \/ CheckDatabase(o)
  \/ Check(o, "storage", "local") \/ CheckLocal(o)
  \/ Confirm(o) \/ CreateDatabase(o) \/ Recalculate(o)

SetupNext == Change \/ \E o \in Operator : SetupStep(o)
SetupSpec == SetupInit /\ [][SetupNext]_setupVars

-----------------------------------------------------------------------------
(* Properties.                                                             *)

(* Types; nobody is asked who gave --yes or wants a dry run.               *)
SetupTypeOK ==
  /\ granted \subseteq Grants
  /\ database \in Location \cup {Nowhere}
  /\ changes \in 0 .. OwnerBound
  /\ at \in [Operator -> SetupStages]
  /\ options \in [Operator -> Options]
  /\ worst \in [Operator -> Status]
  /\ item \in [Operator -> Status \ {"SKIPPED"}]
  /\ answer \in [Operator -> Answers]
  /\ created \in [Operator -> BOOLEAN]
  /\ passed \in [Operator -> BOOLEAN]
  /\ since \in [Operator -> 0 .. OwnerBound]
  /\ \A o \in Operator :
       answer[o] # "" => ~options[o].yes /\ ~options[o].dryRun

(* The exit status is honest, whatever fails on the way and whoever else   *)
(* sets up the project: 0 means that there is a database, unless the user  *)
(* declined to make it or asked for a dry run, and that the credentials    *)
(* and the project can be used, unless that was changed meanwhile.  A      *)
(* report without a warning means that the APIs are enabled as well.  Of   *)
(* access to the storage it says nothing.                                  *)
Declined(o) == ~options[o].yes /\ ~Agrees(answer[o])
VerdictHonest ==
  \A o \in Operator :
    at[o] = "done" /\ passed[o] =>
      /\ database # Nowhere \/ options[o].dryRun \/ Declined(o)
      /\ since[o] = changes =>
           /\ {"credentials", "project"} \subseteq granted
           /\ worst[o] = "PASS" => "apis" \in granted

(* A run that says it made the database has made it, in its own region and *)
(* alone, and was told to: of two operators who both find none, the later  *)
(* learns that its creation failed.                                        *)
CreationTruthful ==
  \A o \in Operator :
    created[o] =>
      /\ database = options[o].location
      /\ ~options[o].dryRun /\ (options[o].yes \/ answer[o] = "y")
      /\ \A q \in Operator : created[q] => q = o

=============================================================================
