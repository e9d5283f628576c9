------------------------------ MODULE DaemonPid ------------------------------
(***************************************************************************)
(* The life of the background daemon: the start, stop and status commands, *)
(* the daemon processes and the PID file they all read and write           *)
(* (internal/daemon/daemon.go, cmd/start.go, cmd/stop.go).                 *)
(*                                                                         *)
(* Commands and daemons are processes of their own; each access to the     *)
(* file, to a process or to the process table is a step.  A write          *)
(* truncates the file first (os.WriteFile).  The kernel gives a free PID   *)
(* to any new process, related or not.                                     *)
(***************************************************************************)
EXTENDS FiniteSets

CONSTANTS
  Command,   \* the command invocations there may be at a time
  Pid,       \* the process IDs
  NoFile,    \* content: there is no PID file
  Empty,     \* content: the file has been truncated
  Overlap    \* whether commands overlap one another and a daemon's start

ASSUME ConstantsAssumption ==
  /\ NoFile \notin Pid /\ Empty \notin Pid /\ NoFile # Empty
  /\ Overlap \in BOOLEAN

VARIABLES
  file,    \* content of the PID file
  proc,    \* proc[p]: what the process with ID p is
  pc,      \* pc[c]: where command c stands
  task,    \* task[c]: which command it is
  seen,    \* seen[c]: the file content or PID it works with
  astray   \* history: start -f was given beside a daemon, or SIGKILL missed

vars == <<file, proc, pc, task, seen, astray>>
command == <<pc, task, seen>>

Tasks == {"start", "stop", "status"}
Stages == {"idle", "read", "probe", "clean", "again", "probe again",
           "clean again", "launch", "truncate", "record", "signal", "wait",
           "kill", "missed", "forget"}

(* A daemon's life: launched, with the file truncated, in its loop, on its *)
(* way out, past the removal of the file.                                  *)
Life == {"launched", "writing", "running", "leaving", "gone"}
Alive == {p \in Pid : proc[p] # "free"}
Strangers == {p \in Pid : proc[p] = "other"}
Daemons == {p \in Pid : proc[p] \in Life \ {"gone"}}

Goto(c, from, to) == pc[c] = from /\ pc' = [pc EXCEPT ![c] = to]
End(c) == pc' = [pc EXCEPT ![c] = "idle"] /\ seen' = [seen EXCEPT ![c] = NoFile]
Become(p, from, to) == proc[p] \in from /\ proc' = [proc EXCEPT ![p] = to]
Die(p) == proc' = [proc EXCEPT ![p] = "free"]

Init ==
  /\ file = NoFile
  /\ proc = [p \in Pid |-> "free"]
  /\ pc = [c \in Command |-> "idle"]
  /\ task \in [Command -> {"status"}]
  /\ seen = [c \in Command |-> NoFile]
  /\ astray = FALSE

(* One user types one command after the other, and lets a daemon start.    *)
Settled ==
  /\ \A c \in Command : pc[c] = "idle"
  /\ \A p \in Pid : proc[p] \notin {"launched", "writing"}

Invoke(c) ==
  /\ Goto(c, "idle", "read")
  /\ Overlap \/ Settled
  /\ \E t \in Tasks : task' = [task EXCEPT ![c] = t]
  /\ UNCHANGED <<file, proc, seen, astray>>

(* start -f runs the daemon without looking at the PID file.               *)
StartForeground(p) ==
  /\ Overlap \/ Settled
  /\ Become(p, {"free"}, "launched")
  /\ astray' = (astray \/ Daemons # {})
  /\ UNCHANGED <<file, command>>

-----------------------------------------------------------------------------
(* IsRunning.  start and stop call it twice, first in the command and then *)
(* in StartBackground or Stop.                                             *)

ReadPid(c) ==
  /\ \/ /\ Goto(c, "read", "probe") \/ Goto(c, "again", "probe again")
        /\ seen' = [seen EXCEPT ![c] = file]
     \/ pc[c] \in {"read", "again"} /\ End(c)  \* the file is unreadable
  /\ UNCHANGED <<file, proc, task, astray>>

(* What follows the answer that a daemon runs, or that none does.          *)
OnRunning(c, second) ==
  \/ /\ task[c] = "stop"
     /\ pc' = [pc EXCEPT ![c] = IF second THEN "signal" ELSE "again"]
     /\ UNCHANGED seen
  \/ /\ task[c] # "stop"
     /\ End(c)
OnStopped(c, second) ==
  \/ /\ task[c] = "start"
     /\ pc' = [pc EXCEPT ![c] = IF second THEN "launch" ELSE "again"]
     /\ UNCHANGED seen
  \/ /\ task[c] # "start"
     /\ End(c)

(* The liveness probe: a missing file means stopped; an unreadable number  *)
(* or a dead process means a stale file, which is removed.  The           *)
(* definitions beside it, like those below that no action uses, are the    *)
(* slips the properties are there to catch.                                *)
PidGiven(p) == p # NoFile
PidLooping(p) == p \in Pid /\ proc[p] \in {"running", "other"}
PidAlive(p) == p \in Alive
Probe(c) ==
  /\ pc[c] \in {"probe", "probe again"}
  /\ LET second == pc[c] = "probe again" IN
     \/ PidAlive(seen[c]) /\ OnRunning(c, second)
     \/ seen[c] = NoFile /\ OnStopped(c, second)
     \/ /\ seen[c] # NoFile /\ ~PidAlive(seen[c])
        /\ pc' = [pc EXCEPT ![c] = IF second THEN "clean again" ELSE "clean"]
        /\ UNCHANGED seen
  /\ UNCHANGED <<file, proc, task, astray>>

RemoveStale(c) ==
  /\ pc[c] \in {"clean", "clean again"}
  /\ file' = NoFile
  /\ OnStopped(c, pc[c] = "clean again")
  /\ UNCHANGED <<proc, task, astray>>

-----------------------------------------------------------------------------
(* start: the rest of StartBackground.                                     *)

Launch(c) ==
  /\ \/ \E p \in Pid :
          /\ Goto(c, "launch", "truncate")
          /\ Become(p, {"free"}, "launched")
          /\ seen' = [seen EXCEPT ![c] = p]
     \/ pc[c] = "launch" /\ End(c) /\ UNCHANGED proc  \* fork or log fails
  /\ UNCHANGED <<file, task, astray>>

TruncatePid(c) ==
  /\ Goto(c, "truncate", "record")
  /\ file' = Empty
  /\ UNCHANGED <<proc, task, seen, astray>>

(* The child's PID is written; when that fails the child is killed.        *)
RecordUnchecked(c) ==
  /\ \/ pc[c] = "record" /\ file' = seen[c]
     \/ pc[c] \in {"truncate", "record"} /\ UNCHANGED file
  /\ End(c)
  /\ UNCHANGED <<proc, task, astray>>
RecordPid(c) ==
  /\ \/ pc[c] = "record" /\ file' = seen[c] /\ UNCHANGED proc
     \/ pc[c] \in {"truncate", "record"} /\ Die(seen[c]) /\ UNCHANGED file
  /\ End(c)
  /\ UNCHANGED <<task, astray>>

-----------------------------------------------------------------------------
(* stop: the rest of Stop.                                                 *)

(* SIGTERM; a process that is gone already only leaves its file, and one  *)
(* of another user cannot be signalled.  What the process does about the   *)
(* signal is its own step: see DaemonLeaves, Exit.                         *)
Terminate(c) ==
  /\ \/ seen[c] \in Alive /\ Goto(c, "signal", "wait") /\ UNCHANGED seen
     \/ seen[c] \notin Alive /\ Goto(c, "signal", "forget") /\ UNCHANGED seen
     \/ pc[c] = "signal" /\ seen[c] \in Strangers /\ End(c)
  /\ UNCHANGED <<file, proc, task, astray>>

(* Polls until the process is gone, and looks once more at the deadline.   *)
LoopLeft(p) == proc[p] \in {"free", "leaving", "gone"}
Exited(p) == proc[p] = "free"
Await(c) ==
  /\ \/ Goto(c, "wait", "forget") /\ Exited(seen[c])
     \/ Goto(c, "wait", "kill") /\ ~Exited(seen[c])
  /\ UNCHANGED <<file, proc, task, seen, astray>>

(* SIGKILL and a short sleep.  The error is ignored and nobody looks again: *)
(* the signal may be refused, or the process still be there afterwards.    *)
Kill(c) ==
  /\ \/ Goto(c, "kill", "forget") /\ Die(seen[c]) /\ UNCHANGED astray
     \/ /\ Goto(c, "kill", "missed") /\ seen[c] \in Alive
        /\ astray' = TRUE /\ UNCHANGED proc
  /\ UNCHANGED <<file, task, seen>>

ForgetPid(c) ==
  /\ pc[c] \in {"missed", "forget"}
  /\ file' = NoFile
  /\ End(c)
  /\ UNCHANGED <<proc, task, astray>>

-----------------------------------------------------------------------------
(* The daemon.                                                             *)

(* It loads its configuration and writes its own PID, whoever started it.  *)
DaemonTruncates(p) ==
  /\ Become(p, {"launched"}, "writing")
  /\ file' = Empty
  /\ UNCHANGED <<command, astray>>

DaemonWrites(p) ==
  /\ Become(p, {"writing"}, "running")
  /\ file' = p
  /\ UNCHANGED <<command, astray>>

(* Firestore or the watcher fails, or the context is cancelled: by SIGTERM *)
(* or by an interrupt from the terminal.                                   *)
DaemonLeaves(p) ==
  /\ Become(p, {"running"}, "leaving")
  /\ UNCHANGED <<file, command, astray>>

(* The deferred RemovePID removes the file whoever it names.               *)
DaemonRemovesPid(p) ==
  /\ Become(p, {"leaving"}, "gone")
  /\ file' = NoFile
  /\ UNCHANGED <<command, astray>>

(* A process ends: a daemon past its cleanup, one that finds no usable     *)
(* configuration or is signalled before it handles signals, or, at any     *)
(* moment, one that crashes or is killed.                                  *)
Exit(p) ==
  /\ p \in Alive
  /\ Die(p)
  /\ UNCHANGED <<file, command, astray>>

(* Another program gets the PID.                                           *)
Reuse(p) ==
  /\ Become(p, {"free"}, "other")
  /\ UNCHANGED <<file, command, astray>>

CommandStep(c) ==
  \/ Invoke(c) \/ ReadPid(c) \/ Probe(c) \/ RemoveStale(c)
  \/ Launch(c) \/ TruncatePid(c) \/ RecordPid(c)
  \/ Terminate(c) \/ Await(c) \/ Kill(c) \/ ForgetPid(c)
ProcessStep(p) ==
  \/ StartForeground(p) \/ DaemonTruncates(p) \/ DaemonWrites(p)
  \/ DaemonLeaves(p) \/ DaemonRemovesPid(p) \/ Exit(p) \/ Reuse(p)

Next == (\E c \in Command : CommandStep(c)) \/ (\E p \in Pid : ProcessStep(p))
Spec == Init /\ [][Next]_vars

-----------------------------------------------------------------------------
(* Properties.                                                             *)

(* Types; a command only launches, signals and waits for real PIDs.        *)
TypeOK ==
  /\ file \in Pid \cup {NoFile, Empty}
  /\ proc \in [Pid -> Life \cup {"free", "other"}]
  /\ pc \in [Command -> Stages]
  /\ task \in [Command -> Tasks]
  /\ seen \in [Command -> Pid \cup {NoFile, Empty}]
  /\ astray \in BOOLEAN
  /\ \A c \in Command :
       pc[c] \in {"truncate", "record", "signal", "wait", "kill", "missed",
                  "forget"} => seen[c] \in Pid

(* There are never two daemons, although starts, stops, crashes, stale     *)
(* files and reused PIDs come in any order: unless someone gave start -f   *)
(* beside a daemon, or a daemon outlived stop's SIGKILL.                   *)
SingleDaemon == ~astray => \A p, q \in Daemons : p = q

(* Between commands the PID file names the daemon that is in its loop, so  *)
(* that status and stop find it, under the same condition.                 *)
DaemonNamed ==
  ~astray /\ (\A c \in Command : pc[c] = "idle") =>
    \A p \in Pid : proc[p] = "running" => file = p

(* When stop has done its work, the process it found is no daemon any      *)
(* more, however slowly that one reacts to SIGTERM and whatever else runs: *)
(* only a SIGKILL without effect ends a stop in another way.               *)
StopStops ==
  [][\A c \in Command :
       pc[c] = "forget" /\ pc'[c] = "idle" => seen[c] \notin Daemons']_vars

=============================================================================
