---- MODULE MCWorkstation ----
(***************************************************************************)
(* The parts of agy-sync that share no state: the life of the daemon, the  *)
(* setup of the cloud project, the two repositories, the summary rows, the *)
(* pager and the transaction log.  A behaviour is one of any of them.      *)
(***************************************************************************)
EXTENDS DaemonPid, Setup, Repository, SummarySync, Pager, TransactionLog,
        TLC

CONSTANTS europe, us

VARIABLE part

(* A step of one part leaves the others where they started.                *)
Others(p) ==
  /\ p # "daemons" => UNCHANGED vars
  /\ p # "setup" => UNCHANGED setupVars
  /\ p # "repository" => UNCHANGED repoVars
  /\ p # "summaries" => UNCHANGED summaryVars
  /\ p # "pager" => UNCHANGED pagerVars
  /\ p # "log" => UNCHANGED txVars

WorkInit ==
  /\ part \in {"daemons", "setup", "repository", "summaries", "pager", "log"}
  /\ Init
  /\ SetupInit
  /\ RepoInit
  /\ SummaryInit
  /\ PagerInit
  /\ part # "pager" => height = 0
  /\ TxInit

WorkNext ==
  /\ \/ part = "daemons" /\ Next
     \/ part = "setup" /\ SetupNext
     \/ part = "repository" /\ RepoNext
     \/ part = "summaries" /\ SummaryNext
     \/ part = "pager" /\ PagerNext
     \/ part = "log" /\ TxNext
  /\ Others(part)
  /\ UNCHANGED part

WorkSpec ==
  WorkInit
    /\ [][WorkNext]_<<part, vars, setupVars, repoVars, summaryVars, pagerVars, txVars>>

(* The same two stand for commands, operators and goroutines, and are      *)
(* interchangeable.                                                        *)
Interchangeable == Permutations(Command)

Everything == {"credentials", "project", "apis"}
SetupFlags ==
  {[dryRun |-> TRUE, yes |-> FALSE, location |-> europe],
   [dryRun |-> FALSE, yes |-> TRUE, location |-> europe],
   [dryRun |-> FALSE, yes |-> FALSE, location |-> us]}

(* The second path has the document key of the first.                      *)
Paths == {<<"letter", "/", "letter">>, <<"letter", "_", "_", "letter">>, <<"letter">>}

Recorded ==
  {[dir |-> "in", type |-> "conv"], [dir |-> "out", type |-> "brain"]}
NoFlags ==
  [in |-> FALSE, out |-> FALSE, direction |-> "", types |-> {}, type |-> ""]
UserListings ==
  {NoFlags, [NoFlags EXCEPT !.types = {"brain"}],
   [NoFlags EXCEPT !.in = TRUE, !.direction = "out", !.type = "conv"],
   [NoFlags EXCEPT !.types = {"brain"}, !.type = "conv"]}
====
