--------------------------- MODULE DaemonPidProofs ---------------------------
(***************************************************************************)
(* Theorems about DaemonPid, for any set of commands and of PIDs: its      *)
(* types, and, when commands follow one another, that stop stops the       *)
(* daemon it found and, unless start -f or a missed SIGKILL interferes,    *)
(* that there is one daemon at most and that the PID file names it.        *)
(***************************************************************************)
EXTENDS DaemonPid, TLAPS

-----------------------------------------------------------------------------
(* Types.                                                                  *)

HasPid ==
  {"truncate", "record", "signal", "wait", "kill", "missed", "forget"}

LEMMA TypeInit == Init => TypeOK
<1> SUFFICES ASSUME Init PROVE TypeOK
  OBVIOUS
<1>1. file \in Pid \cup {NoFile, Empty} /\ astray \in BOOLEAN
  BY DEF Init
<1>2. /\ proc \in [Pid -> Life \cup {"free", "other"}]
      /\ task \in [Command -> Tasks]
      /\ seen \in [Command -> Pid \cup {NoFile, Empty}]
  BY DEF Init, Tasks, Life
<1>3. pc = [c \in Command |-> "idle"]
  BY DEF Init
<1> QED BY <1>1, <1>2, <1>3 DEF TypeOK, Stages

(* A command that ends has no PID any more.                                *)
LEMMA EndType ==
  ASSUME TypeOK, NEW c \in Command, End(c)
  PROVE  /\ pc' \in [Command -> Stages]
         /\ seen' \in [Command -> Pid \cup {NoFile, Empty}]
         /\ \A d \in Command : pc'[d] \in HasPid => seen'[d] \in Pid
<1>1. pc' = [pc EXCEPT ![c] = "idle"] /\ seen' = [seen EXCEPT ![c] = NoFile]
  BY DEF End
<1>2. \A d \in Command : pc[d] \in HasPid => seen[d] \in Pid
  BY DEF TypeOK, HasPid
<1> QED BY <1>1, <1>2 DEF TypeOK, Stages, HasPid

LEMMA TypeStep == TypeOK /\ [Next]_vars => TypeOK'
<1> SUFFICES ASSUME TypeOK, [Next]_vars PROVE TypeOK'
  OBVIOUS
<1>1. /\ file \in Pid \cup {NoFile, Empty}
      /\ proc \in [Pid -> Life \cup {"free", "other"}]
      /\ pc \in [Command -> Stages]
      /\ task \in [Command -> Tasks]
      /\ seen \in [Command -> Pid \cup {NoFile, Empty}]
      /\ astray \in BOOLEAN
      /\ \A d \in Command : pc[d] \in HasPid => seen[d] \in Pid
  BY DEF TypeOK, HasPid
<1> USE <1>1 DEF HasPid
<1>2. ASSUME NEW c \in Command, Invoke(c) PROVE TypeOK'
  BY <1>2 DEF Invoke, Goto, TypeOK, Stages, Tasks
<1>3. ASSUME NEW c \in Command, ReadPid(c) PROVE TypeOK'
  <2>1. CASE End(c)
    BY <1>3, <2>1, EndType DEF ReadPid, TypeOK
  <2>2. CASE /\ Goto(c, "read", "probe") \/ Goto(c, "again", "probe again")
             /\ seen' = [seen EXCEPT ![c] = file]
    BY <1>3, <2>2 DEF ReadPid, Goto, TypeOK, Stages
  <2> QED BY <1>3, <2>1, <2>2 DEF ReadPid
<1>4. ASSUME NEW c \in Command, Probe(c) PROVE TypeOK'
  <2>1. CASE End(c)
    BY <1>4, <2>1, EndType DEF Probe, TypeOK
  <2>2. CASE /\ PidAlive(seen[c])
             /\ pc' = [pc EXCEPT ![c] = IF pc[c] = "probe again" THEN "signal" ELSE "again"]
             /\ UNCHANGED seen
    <3>1. seen[c] \in Pid
      BY <2>2 DEF PidAlive, Alive
    <3> QED BY <1>4, <2>2, <3>1 DEF Probe, TypeOK, Stages
  <2>3. CASE /\ pc' = [pc EXCEPT ![c] = IF pc[c] = "probe again" THEN "launch" ELSE "again"]
             /\ UNCHANGED seen
    BY <1>4, <2>3 DEF Probe, TypeOK, Stages
  <2>4. CASE /\ pc' = [pc EXCEPT ![c] = IF pc[c] = "probe again" THEN "clean again" ELSE "clean"]
             /\ UNCHANGED seen
    BY <1>4, <2>4 DEF Probe, TypeOK, Stages
  <2> QED BY <1>4, <2>1, <2>2, <2>3, <2>4 DEF Probe, OnRunning, OnStopped
<1>5. ASSUME NEW c \in Command, RemoveStale(c) PROVE TypeOK'
  <2>1. CASE End(c)
    BY <1>5, <2>1, EndType DEF RemoveStale, TypeOK
  <2>2. CASE /\ pc' = [pc EXCEPT ![c] = IF pc[c] = "clean again" THEN "launch" ELSE "again"]
             /\ UNCHANGED seen
    BY <1>5, <2>2 DEF RemoveStale, TypeOK, Stages
  <2> QED BY <1>5, <2>1, <2>2 DEF RemoveStale, OnStopped
<1>6. ASSUME NEW c \in Command, Launch(c) PROVE TypeOK'
  <2>1. CASE End(c) /\ UNCHANGED proc
    BY <1>6, <2>1, EndType DEF Launch, TypeOK
  <2>2. ASSUME NEW p \in Pid,
               Goto(c, "launch", "truncate"),
               Become(p, {"free"}, "launched"),
               seen' = [seen EXCEPT ![c] = p]
        PROVE  TypeOK'
    BY <1>6, <2>2 DEF Launch, Goto, Become, TypeOK, Stages, Life
  <2> QED BY <1>6, <2>1, <2>2 DEF Launch
<1>7. ASSUME NEW c \in Command, TruncatePid(c) PROVE TypeOK'
  BY <1>7 DEF TruncatePid, Goto, TypeOK, Stages
<1>8. ASSUME NEW c \in Command, RecordPid(c) PROVE TypeOK'
  <2>1. End(c) /\ UNCHANGED <<task, astray>> /\ seen[c] \in Pid
    BY <1>8 DEF RecordPid
  <2>2. file' \in Pid \cup {NoFile, Empty}
    BY <1>8, <2>1 DEF RecordPid
  <2>3. proc' \in [Pid -> Life \cup {"free", "other"}]
    BY <1>8 DEF RecordPid, Die
  <2> QED BY <2>1, <2>2, <2>3, EndType DEF TypeOK
<1>9. ASSUME NEW c \in Command, Terminate(c) PROVE TypeOK'
  <2>1. CASE End(c)
    BY <1>9, <2>1, EndType DEF Terminate, TypeOK
  <2>2. CASE /\ Goto(c, "signal", "wait") \/ Goto(c, "signal", "forget")
             /\ UNCHANGED seen
    BY <1>9, <2>2 DEF Terminate, Goto, TypeOK, Stages
  <2> QED BY <1>9, <2>1, <2>2 DEF Terminate
<1>10. ASSUME NEW c \in Command, Await(c) PROVE TypeOK'
  BY <1>10 DEF Await, Goto, TypeOK, Stages
<1>14. ASSUME NEW c \in Command, Kill(c) PROVE TypeOK'
  <2>1. proc' \in [Pid -> Life \cup {"free", "other"}] /\ astray' \in BOOLEAN
    BY <1>14 DEF Kill, Die
  <2>2. /\ pc' \in [Command -> Stages]
        /\ \A d \in Command : pc'[d] \in HasPid => seen[d] \in Pid
    BY <1>14 DEF Kill, Goto, Stages
  <2> QED BY <1>14, <2>1, <2>2 DEF Kill, TypeOK
<1>11. ASSUME NEW c \in Command, ForgetPid(c) PROVE TypeOK'
  BY <1>11, EndType DEF ForgetPid, TypeOK
<1>12. ASSUME NEW p \in Pid, ProcessStep(p) PROVE TypeOK'
  BY <1>12
  DEF ProcessStep, StartForeground, DaemonTruncates, DaemonWrites, DaemonLeaves,
      DaemonRemovesPid, Exit, Reuse, Become, Die, command, Life, TypeOK
<1>13. CASE UNCHANGED vars
  BY <1>13 DEF vars, TypeOK
<1> QED
  BY <1>2, <1>3, <1>4, <1>5, <1>6, <1>7, <1>8, <1>9, <1>10, <1>11, <1>12, <1>13,
     <1>14
  DEF Next, CommandStep

(* The variables keep their types, and no command ever launches, signals   *)
(* or waits for anything but a PID: not for the text of a file that is     *)
(* empty or not there.                                                     *)
THEOREM PidTypeCorrect == Spec => []TypeOK
<1> QED BY TypeInit, TypeStep, PTL DEF Spec

-----------------------------------------------------------------------------
(* Commands that follow one another; what stop has ended.                  *)

OneCommand == \A c, d \in Command : pc[c] # "idle" /\ pc[d] # "idle" => c = d
Ended == \A c \in Command : pc[c] = "forget" => seen[c] \notin Daemons

(* A command leaves the stage and the PID of another one alone.            *)
LEMMA OthersWait ==
  ASSUME TypeOK, NEW c \in Command, NEW d \in Command, c # d, CommandStep(d)
  PROVE  pc'[c] = pc[c] /\ seen'[c] = seen[c]
<1>1. /\ pc \in [Command -> Stages]
      /\ seen \in [Command -> Pid \cup {NoFile, Empty}]
  BY DEF TypeOK
<1> QED
  BY <1>1
  DEF CommandStep, Invoke, ReadPid, Probe, RemoveStale, Launch, TruncatePid,
      RecordPid, Terminate, Await, Kill, ForgetPid, Goto, End, OnRunning, OnStopped

(* Processes leave the commands alone.                                     *)
LEMMA CommandsKept ==
  ASSUME NEW p \in Pid, ProcessStep(p)
  PROVE  UNCHANGED command
BY DEF ProcessStep, StartForeground, DaemonTruncates, DaemonWrites, DaemonLeaves,
       DaemonRemovesPid, Exit, Reuse

LEMMA CommandOrder ==
  ASSUME TypeOK, OneCommand, ~Overlap, NEW c \in Command, CommandStep(c)
  PROVE  /\ OneCommand'
         /\ \A d \in Command : d # c => pc[d] = "idle" /\ pc'[d] = "idle"
<1>1. \A d \in Command : d # c => pc[d] = "idle"
  <2>1. CASE Invoke(c)
    BY <2>1 DEF Invoke, Settled
  <2>2. CASE ~Invoke(c)
    <3>1. pc[c] # "idle"
      BY <2>2
      DEF CommandStep, ReadPid, Probe, RemoveStale, Launch, TruncatePid, RecordPid,
          Terminate, Await, Kill, ForgetPid, Goto
    <3> QED BY <3>1 DEF OneCommand
  <2> QED BY <2>1, <2>2
<1>2. \A d \in Command : d # c => pc'[d] = "idle"
  BY <1>1, OthersWait
<1> QED BY <1>1, <1>2 DEF OneCommand

(* A command gets to the removal of the file once its process is gone, and *)
(* nobody starts a daemon before it is done.                               *)
LEMMA EndedStep ==
  ASSUME TypeOK, OneCommand, Ended, ~Overlap, [Next]_vars
  PROVE  OneCommand' /\ Ended'
<1>1. /\ pc \in [Command -> Stages]
      /\ seen \in [Command -> Pid \cup {NoFile, Empty}]
      /\ proc \in [Pid -> Life \cup {"free", "other"}]
      /\ \A d \in Command : pc[d] \in HasPid => seen[d] \in Pid
  BY DEF TypeOK, HasPid
<1>2. ASSUME NEW c \in Command, CommandStep(c) PROVE OneCommand' /\ Ended'
  <2>1. OneCommand' /\ \A d \in Command : d # c => pc'[d] = "idle"
    BY <1>2, CommandOrder
  <2>2. SUFFICES ASSUME pc'[c] = "forget" PROVE seen'[c] \notin Daemons'
    BY <2>1 DEF Ended
  <2>3. CASE Terminate(c)
    <3>1. seen[c] \notin Alive /\ UNCHANGED <<seen, proc>>
      BY <1>1, <2>2, <2>3 DEF Terminate, Goto, End
    <3> QED BY <3>1 DEF Alive, Daemons, Life
  <2>4. CASE Await(c)
    <3>1. Exited(seen[c]) /\ UNCHANGED <<seen, proc>>
      BY <1>1, <2>2, <2>4 DEF Await, Goto
    <3> QED BY <3>1 DEF Exited, Daemons, Life
  <2>5. CASE Kill(c)
    <3>1. Die(seen[c]) /\ UNCHANGED seen
      BY <1>1, <2>2, <2>5 DEF Kill, Goto
    <3> QED BY <1>1, <3>1 DEF Die, Daemons, Life
  <2>6. pc[c] # "forget" => Terminate(c) \/ Await(c) \/ Kill(c)
    BY <1>1, <1>2, <2>2
    DEF CommandStep, Invoke, ReadPid, Probe, RemoveStale, Launch, TruncatePid,
        RecordPid, ForgetPid, Goto, End, OnRunning, OnStopped
  <2>7. pc[c] # "forget"
    BY <1>1, <1>2, <2>2
    DEF CommandStep, Invoke, ReadPid, Probe, RemoveStale, Launch, TruncatePid,
        RecordPid, Terminate, Await, Kill, ForgetPid, Goto, End
  <2> QED BY <2>3, <2>4, <2>5, <2>6, <2>7
<1>3. ASSUME NEW p \in Pid, ProcessStep(p) PROVE OneCommand' /\ Ended'
  <2>1. UNCHANGED <<pc, seen>>
    BY <1>3, CommandsKept DEF command
  <2>2. CASE StartForeground(p)
    BY <2>1, <2>2 DEF StartForeground, Settled, OneCommand, Ended
  <2>3. CASE ~StartForeground(p)
    <3>1. Daemons' \subseteq Daemons
      BY <1>1, <1>3, <2>3
      DEF ProcessStep, DaemonTruncates, DaemonWrites, DaemonLeaves, DaemonRemovesPid,
          Exit, Reuse, Become, Die, Daemons, Life
    <3> QED BY <2>1, <3>1 DEF OneCommand, Ended
  <2> QED BY <2>2, <2>3
<1>4. CASE UNCHANGED vars
  BY <1>4 DEF vars, OneCommand, Ended, Daemons
<1> QED BY <1>2, <1>3, <1>4 DEF Next

-----------------------------------------------------------------------------
(* One daemon, as long as nothing went astray.                             *)

OneOnly == \A p, q \in Daemons : p = q

Looping == {p \in Pid : proc[p] \in {"running", "leaving"}}
Starting == {p \in Pid : proc[p] \in {"launched", "writing"}}

(* The file names the daemon past its start, except while start writes it. *)
FileNames ==
  (\A c \in Command : pc[c] # "record") => \A p \in Looping : file = p

(* No daemon starts during a command, unless the command launched it.      *)
LaunchStages == {"truncate", "record"}
Quiet ==
  \A c \in Command : pc[c] \notin LaunchStages \cup {"idle"} => Starting = {}

(* A command that has read the file knows the daemon, if there is one.     *)
KnownStages == {"probe", "probe again", "signal", "wait", "kill"}
Known ==
  \A c \in Command : pc[c] \in KnownStages => \A p \in Looping : seen[c] = p

(* When it removes the file, or launches a daemon, there is none.          *)
GoneStages == {"clean", "clean again", "launch", "missed", "forget"}
Gone == \A c \in Command : pc[c] \in GoneStages => Daemons = {}

(* While start records its child there is no other daemon.                 *)
Child ==
  \A c \in Command : pc[c] \in LaunchStages => \A p \in Daemons : p = seen[c]

SettledInv ==
  /\ OneCommand /\ OneOnly /\ FileNames
  /\ Quiet /\ Known /\ Gone /\ Child

LEMMA SettledInit == Init => SettledInv
BY DEF Init, SettledInv, OneCommand, OneOnly, FileNames, Quiet, Known, Gone,
       Child, Looping, Starting, Daemons, Life, LaunchStages, KnownStages, GoneStages

(* While command c is the only one under way, its stage decides which      *)
(* parts of the invariant say anything.                                    *)
LEMMA OnlyCommand ==
  ASSUME NEW c \in Command,
         \A d \in Command : d # c => pc'[d] = "idle",
         OneOnly',
         pc'[c] # "record" => \A p \in Looping' : file' = p,
         pc'[c] \notin LaunchStages \cup {"idle"} => Starting' = {},
         pc'[c] \in KnownStages => \A p \in Looping' : seen'[c] = p,
         pc'[c] \in GoneStages => Daemons' = {},
         pc'[c] \in LaunchStages => \A p \in Daemons' : p = seen'[c]
  PROVE  SettledInv'
BY DEF SettledInv, OneCommand, FileNames, Quiet, Known, Gone, Child, LaunchStages,
       KnownStages, GoneStages

(* A step of a command that leaves the processes alone.                    *)
LEMMA ProcessesKept ==
  ASSUME SettledInv, UNCHANGED proc
  PROVE  /\ OneOnly' /\ Looping' = Looping
         /\ Starting' = Starting /\ Daemons' = Daemons
BY DEF SettledInv, OneOnly, Looping, Starting, Daemons

LEMMA CommandSettled ==
  ASSUME TypeOK, SettledInv, ~Overlap, ~astray', NEW c \in Command, CommandStep(c)
  PROVE  SettledInv'
<1>1. /\ pc \in [Command -> Stages] /\ seen \in [Command -> Pid \cup {NoFile, Empty}]
      /\ proc \in [Pid -> Life \cup {"free", "other"}]
  BY DEF TypeOK
<1>2. Looping \subseteq Pid /\ Looping \subseteq Daemons /\ Looping \subseteq Alive
  BY DEF Looping, Daemons, Alive, Life
<1>3. ASSUME pc[c] # "idle", NEW d \in Command, d # c PROVE pc[d] = "idle"
  BY <1>3 DEF SettledInv, OneCommand
<1>4. pc[c] # "record" /\ pc[c] # "idle" => \A p \in Looping : file = p
  BY <1>3 DEF SettledInv, FileNames
<1>5. pc[c] \notin LaunchStages \cup {"idle"} => Starting = {}
  BY DEF SettledInv, Quiet
<1>6. pc[c] \in KnownStages => \A p \in Looping : seen[c] = p
  BY DEF SettledInv, Known
<1>7. pc[c] \in GoneStages => Daemons = {}
  BY DEF SettledInv, Gone
<1>8. pc[c] \in LaunchStages => \A p \in Daemons : p = seen[c]
  BY DEF SettledInv, Child
<1>9. Daemons = Looping \cup Starting
  BY <1>1 DEF Looping, Starting, Daemons, Life
<1>10. CASE Invoke(c)
  <2>1. \A d \in Command : pc[d] = "idle"
    BY <1>10 DEF Invoke, Settled
  <2>2. Starting = {}
    BY <1>10 DEF Invoke, Settled, Starting
  <2>3. \A p \in Looping : file = p
    BY <2>1 DEF SettledInv, FileNames
  <2> QED
    BY <1>1, <1>10, <2>1, <2>2, <2>3, ProcessesKept, OnlyCommand
    DEF Invoke, Goto, LaunchStages, KnownStages, GoneStages
<1>11. CASE ReadPid(c)
  <2>1. Starting = {} /\ \A p \in Looping : file = p
    BY <1>4, <1>5, <1>11 DEF ReadPid, Goto, LaunchStages
  <2>2. pc[c] # "idle" /\ UNCHANGED <<file, proc>>
    BY <1>11 DEF ReadPid, Goto
  <2>3. CASE End(c)
    BY <1>1, <1>3, <2>1, <2>2, <2>3, ProcessesKept, OnlyCommand
    DEF End, LaunchStages, KnownStages, GoneStages
  <2>4. CASE /\ Goto(c, "read", "probe") \/ Goto(c, "again", "probe again")
             /\ seen' = [seen EXCEPT ![c] = file]
    <3>1. /\ pc'[c] \in KnownStages /\ seen'[c] = file
          /\ \A d \in Command : d # c => pc'[d] = "idle"
      BY <1>1, <1>3, <2>2, <2>4 DEF Goto, KnownStages
    <3> QED
      BY <2>1, <2>2, <3>1, ProcessesKept, OnlyCommand
      DEF LaunchStages, KnownStages, GoneStages
  <2> QED BY <1>11, <2>3, <2>4 DEF ReadPid
<1>12. CASE Probe(c)
  <2>1. pc[c] \in KnownStages /\ pc[c] # "idle" /\ Starting = {}
    BY <1>5, <1>12 DEF Probe, KnownStages, LaunchStages
  <2>2. ~PidAlive(seen[c]) => Daemons = {}
    BY <1>2, <1>6, <1>9, <2>1 DEF PidAlive
  <2>3. CASE End(c)
    BY <1>1, <1>3, <1>4, <1>12, <2>1, <2>3, ProcessesKept, OnlyCommand
    DEF Probe, End, LaunchStages, KnownStages, GoneStages
  <2>4. CASE /\ PidAlive(seen[c])
             /\ pc' = [pc EXCEPT ![c] = IF pc[c] = "probe again" THEN "signal" ELSE "again"]
             /\ UNCHANGED seen
    BY <1>1, <1>3, <1>4, <1>6, <1>12, <2>1, <2>4, ProcessesKept, OnlyCommand
    DEF Probe, LaunchStages, KnownStages, GoneStages
  <2>5. CASE /\ ~PidAlive(seen[c])
             /\ \/ pc' = [pc EXCEPT ![c] = IF pc[c] = "probe again" THEN "launch" ELSE "again"]
                \/ pc' = [pc EXCEPT ![c] = IF pc[c] = "probe again" THEN "clean again" ELSE "clean"]
             /\ UNCHANGED seen
    BY <1>1, <1>3, <1>4, <1>12, <2>1, <2>2, <2>5, ProcessesKept, OnlyCommand
    DEF Probe, LaunchStages, KnownStages, GoneStages
  <2>6. seen[c] = NoFile => ~PidAlive(seen[c])
    BY ConstantsAssumption DEF PidAlive, Alive
  <2> QED BY <1>12, <2>3, <2>4, <2>5, <2>6 DEF Probe, OnRunning, OnStopped
<1>13. CASE RemoveStale(c)
  <2>1. Daemons = {} /\ Looping = {} /\ Starting = {} /\ pc[c] # "idle"
    BY <1>2, <1>7, <1>9, <1>13 DEF RemoveStale, GoneStages
  <2> QED
    BY <1>1, <1>3, <1>13, <2>1, ProcessesKept, OnlyCommand
    DEF RemoveStale, OnStopped, End, LaunchStages, KnownStages, GoneStages
<1>14. CASE Launch(c)
  <2>1. Daemons = {} /\ Looping = {} /\ pc[c] = "launch"
    BY <1>2, <1>7, <1>14 DEF Launch, Goto, GoneStages
  <2>2. CASE End(c) /\ UNCHANGED proc
    BY <1>1, <1>3, <2>1, <2>2, ProcessesKept, OnlyCommand
    DEF End, LaunchStages, KnownStages, GoneStages
  <2>3. ASSUME NEW p \in Pid,
               Goto(c, "launch", "truncate"),
               Become(p, {"free"}, "launched"),
               seen' = [seen EXCEPT ![c] = p]
        PROVE  SettledInv'
    <3>1. Daemons' = {p} /\ Looping' = {} /\ OneOnly'
      BY <1>1, <2>1, <2>3 DEF Become, Daemons, Looping, OneOnly, Life
    <3> QED
      BY <1>1, <1>3, <2>1, <2>3, <3>1, OnlyCommand
      DEF Goto, LaunchStages, KnownStages, GoneStages
  <2> QED BY <1>14, <2>2, <2>3 DEF Launch
<1>15. CASE TruncatePid(c)
  BY <1>1, <1>3, <1>8, <1>15, ProcessesKept, OnlyCommand
  DEF TruncatePid, Goto, LaunchStages, KnownStages, GoneStages
<1>16. CASE RecordPid(c)
  <2>1. pc[c] \in LaunchStages /\ pc[c] # "idle" /\ End(c)
    BY <1>16 DEF RecordPid, LaunchStages
  <2>2. CASE file' = seen[c] /\ UNCHANGED proc
    BY <1>1, <1>2, <1>3, <1>8, <2>1, <2>2, ProcessesKept, OnlyCommand
    DEF End, LaunchStages, KnownStages, GoneStages
  <2>3. CASE Die(seen[c])
    <3>1. Daemons' = {} /\ Looping' = {} /\ OneOnly'
      BY <1>1, <1>8, <2>1, <2>3 DEF Die, Daemons, Looping, OneOnly, Life
    <3> QED
      BY <1>1, <1>3, <2>1, <3>1, OnlyCommand
      DEF End, LaunchStages, KnownStages, GoneStages
  <2> QED BY <1>16, <2>2, <2>3 DEF RecordPid
<1>17. CASE Terminate(c)
  <2>1. pc[c] = "signal" /\ Starting = {} /\ \A p \in Looping : seen[c] = p
    BY <1>5, <1>6, <1>17 DEF Terminate, Goto, KnownStages, LaunchStages
  <2>2. seen[c] \notin Alive => Daemons = {}
    BY <1>2, <1>9, <2>1
  <2> QED
    <3>1. /\ OneOnly' /\ Looping' = Looping /\ Starting' = Starting
          /\ Daemons' = Daemons /\ UNCHANGED file
      BY <1>17, ProcessesKept DEF Terminate
    <3>2. CASE Goto(c, "signal", "wait") /\ UNCHANGED seen
      BY <1>1, <1>3, <1>4, <2>1, <3>1, <3>2, OnlyCommand
      DEF Goto, LaunchStages, KnownStages, GoneStages
    <3>3. CASE seen[c] \notin Alive /\ Goto(c, "signal", "forget") /\ UNCHANGED seen
      BY <1>1, <1>3, <1>4, <2>1, <2>2, <3>1, <3>3, OnlyCommand
      DEF Goto, LaunchStages, KnownStages, GoneStages
    <3>4. CASE End(c)
      BY <1>1, <1>3, <1>4, <2>1, <3>1, <3>4, OnlyCommand
      DEF End, LaunchStages, KnownStages, GoneStages
    <3> QED BY <1>17, <3>2, <3>3, <3>4 DEF Terminate
<1>18. CASE Await(c)
  <2>1. pc[c] = "wait" /\ Starting = {} /\ \A p \in Looping : seen[c] = p
    BY <1>5, <1>6, <1>18 DEF Await, Goto, KnownStages, LaunchStages
  <2>2. Exited(seen[c]) => Daemons = {}
    BY <1>1, <1>9, <2>1 DEF Exited, Looping
  <2>3. /\ OneOnly' /\ Looping' = Looping /\ Starting' = Starting
        /\ Daemons' = Daemons /\ UNCHANGED <<file, seen>>
    BY <1>18, ProcessesKept DEF Await
  <2>4. CASE Exited(seen[c]) /\ Goto(c, "wait", "forget")
    BY <1>1, <1>3, <1>4, <2>1, <2>2, <2>3, <2>4, OnlyCommand
    DEF Goto, LaunchStages, KnownStages, GoneStages
  <2>5. CASE Goto(c, "wait", "kill")
    BY <1>1, <1>3, <1>4, <2>1, <2>3, <2>5, OnlyCommand
    DEF Goto, LaunchStages, KnownStages, GoneStages
  <2> QED BY <1>18, <2>4, <2>5 DEF Await
<1>19. CASE Kill(c)
  <2>1. pc[c] = "kill" /\ Starting = {} /\ \A p \in Looping : seen[c] = p
    BY <1>5, <1>6, <1>19 DEF Kill, Goto, KnownStages, LaunchStages
  <2>2. Goto(c, "kill", "forget") /\ Die(seen[c]) /\ UNCHANGED <<file, seen>>
    BY <1>19 DEF Kill
  <2>3. Daemons' = {} /\ Looping' = {} /\ Starting' = {} /\ OneOnly'
    BY <1>1, <1>9, <2>1, <2>2 DEF Die, Daemons, Looping, Starting, OneOnly, Life
  <2> QED
    BY <1>1, <1>3, <2>1, <2>2, <2>3, OnlyCommand
    DEF Goto, LaunchStages, KnownStages, GoneStages
<1>20. CASE ForgetPid(c)
  <2>1. pc[c] \in {"missed", "forget"} /\ Daemons = {} /\ Looping = {}
    BY <1>2, <1>7, <1>20 DEF ForgetPid, GoneStages
  <2> QED
    BY <1>1, <1>3, <1>20, <2>1, ProcessesKept, OnlyCommand
    DEF ForgetPid, End, LaunchStages, KnownStages, GoneStages
<1> QED
  BY <1>10, <1>11, <1>12, <1>13, <1>14, <1>15, <1>16, <1>17, <1>18, <1>19,
     <1>20
  DEF CommandStep

(* A process that ends, loses its cleanup or its PID only makes the        *)
(* daemons fewer; one that starts its loop stays the only one.             *)
LEMMA ProcessSettled ==
  ASSUME TypeOK, SettledInv, ~Overlap, ~astray', NEW p \in Pid, ProcessStep(p)
  PROVE  SettledInv'
<1>1. proc \in [Pid -> Life \cup {"free", "other"}]
  BY DEF TypeOK
<1>2. UNCHANGED command
  BY CommandsKept
<1>3. CASE StartForeground(p)
  <2>1. /\ \A d \in Command : pc[d] = "idle"
        /\ Daemons = {} /\ Looping = {}
    BY <1>3 DEF StartForeground, Settled, Daemons, Looping, Life
  <2>2. Daemons' = {p} /\ Looping' = {} /\ OneOnly'
    BY <1>1, <1>3, <2>1
    DEF StartForeground, Become, Daemons, Looping, OneOnly, Life
  <2> QED
    BY <1>2, <2>1, <2>2
    DEF command, SettledInv, OneCommand, FileNames, Quiet, Known, Gone, Child,
        LaunchStages, KnownStages, GoneStages
<1>4. CASE Exit(p) \/ Reuse(p)
  <2>1. /\ Daemons' \subseteq Daemons /\ Looping' \subseteq Looping
        /\ Starting' \subseteq Starting /\ UNCHANGED file
    BY <1>1, <1>4 DEF Exit, Reuse, Become, Die, Daemons, Looping, Starting, Life
  <2> QED
    BY <1>2, <2>1
    DEF command, SettledInv, OneCommand, OneOnly, FileNames, Quiet, Known,
        Gone, Child
<1>5. CASE DaemonLeaves(p)
  <2>1. /\ Daemons' = Daemons /\ Looping' = Looping
        /\ Starting' = Starting /\ UNCHANGED file
    BY <1>1, <1>5 DEF DaemonLeaves, Become, Daemons, Looping, Starting, Life
  <2> QED
    BY <1>2, <2>1
    DEF command, SettledInv, OneCommand, OneOnly, FileNames, Quiet, Known,
        Gone, Child
<1>6. CASE DaemonRemovesPid(p)
  <2>1. p \in Daemons /\ \A q \in Daemons : q = p
    BY <1>6 DEF DaemonRemovesPid, Become, Daemons, Life, SettledInv, OneOnly
  <2>2. Daemons' = {} /\ Looping' = {} /\ Starting' = {}
    BY <1>1, <1>6, <2>1
    DEF DaemonRemovesPid, Become, Daemons, Looping, Starting, Life
  <2> QED
    BY <1>2, <2>2
    DEF command, SettledInv, OneCommand, OneOnly, FileNames, Quiet, Known,
        Gone, Child
<1>7. CASE DaemonTruncates(p) \/ DaemonWrites(p)
  <2>1. p \in Starting /\ p \in Daemons /\ \A q \in Daemons : q = p
    BY <1>7
    DEF DaemonTruncates, DaemonWrites, Become, Starting, Daemons, Life, SettledInv,
        OneOnly
  <2>2. Daemons' = {p}
    BY <1>1, <1>7, <2>1 DEF DaemonTruncates, DaemonWrites, Become, Daemons, Life
  <2>3. \A q \in Looping' : file' = q
    BY <1>1, <1>7, <2>2
    DEF DaemonTruncates, DaemonWrites, Become, Daemons, Looping, Life
  <2>4. \A d \in Command : pc[d] \in LaunchStages \cup {"idle"}
    BY <2>1 DEF SettledInv, Quiet
  <2>5. \A d \in Command : pc[d] \in LaunchStages => p = seen[d]
    BY <2>1 DEF SettledInv, Child
  <2> QED
    BY <1>2, <2>2, <2>3, <2>4, <2>5
    DEF command, SettledInv, OneCommand, OneOnly, FileNames, Quiet, Known,
        Gone, Child, LaunchStages, KnownStages, GoneStages
<1> QED BY <1>3, <1>4, <1>5, <1>6, <1>7 DEF ProcessStep

(* The invariant: what holds always, and what holds until something goes   *)
(* astray.                                                                 *)
OrderInv == OneCommand /\ Ended /\ (~astray => SettledInv)

LEMMA OrderStep ==
  ASSUME ~Overlap
  PROVE  TypeOK /\ OrderInv /\ [Next]_vars => OrderInv'
<1> SUFFICES ASSUME TypeOK, OrderInv, [Next]_vars PROVE OrderInv'
  OBVIOUS
<1>1. OneCommand' /\ Ended'
  BY EndedStep DEF OrderInv
<1>2. ASSUME ~astray' PROVE SettledInv'
  <2>1. ~astray
    BY <1>2
    DEF Next, CommandStep, Invoke, ReadPid, Probe, RemoveStale, Launch, TruncatePid,
        RecordPid, Terminate, Await, Kill, ForgetPid, ProcessStep, StartForeground,
        DaemonTruncates, DaemonWrites, DaemonLeaves, DaemonRemovesPid, Exit, Reuse,
        vars
  <2>2. SettledInv
    BY <2>1 DEF OrderInv
  <2>3. CASE UNCHANGED vars
    BY <2>2, <2>3
    DEF vars, SettledInv, OneCommand, OneOnly, FileNames, Quiet, Known, Gone, Child,
        Looping, Starting, Daemons
  <2>4. CASE Next
    BY <1>2, <2>2, <2>4, CommandSettled, ProcessSettled DEF Next
  <2> QED BY <2>3, <2>4
<1> QED BY <1>1, <1>2 DEF OrderInv

LEMMA OrderInvariant ==
  ASSUME ~Overlap
  PROVE  Spec => [](TypeOK /\ OrderInv)
<1>1. Init => TypeOK /\ OrderInv
  BY TypeInit, SettledInit DEF OrderInv, SettledInv, Init, Ended
<1>2. TypeOK /\ OrderInv /\ [Next]_vars => (TypeOK /\ OrderInv)'
  BY TypeStep, OrderStep
<1> QED BY <1>1, <1>2, PTL DEF Spec

(* There are never two daemons when commands follow one another, although  *)
(* daemons crash, leave late, are killed, and PIDs are given to others:    *)
(* unless start -f is given beside a daemon or a SIGKILL has no effect.    *)
THEOREM OneDaemon ==
  ASSUME ~Overlap
  PROVE  Spec => []SingleDaemon
<1>1. TypeOK /\ OrderInv => SingleDaemon
  BY DEF OrderInv, SettledInv, OneOnly, SingleDaemon
<1> QED BY <1>1, OrderInvariant, PTL

(* Between commands the PID file names the daemon in its loop, under the   *)
(* same condition.                                                         *)
THEOREM FileNamesDaemon ==
  ASSUME ~Overlap
  PROVE  Spec => []DaemonNamed
<1>1. TypeOK /\ OrderInv => DaemonNamed
  BY DEF OrderInv, SettledInv, FileNames, DaemonNamed, Looping
<1> QED BY <1>1, OrderInvariant, PTL

(* When stop has done its work the process it found is no daemon, whatever *)
(* else was started or missed.                                             *)
THEOREM StopWorks ==
  ASSUME ~Overlap
  PROVE  Spec => StopStops
<1>1. TypeOK /\ OrderInv /\ [Next]_vars =>
        [\A c \in Command :
           pc[c] = "forget" /\ pc'[c] = "idle" => seen[c] \notin Daemons']_vars
  <2> SUFFICES ASSUME TypeOK, OrderInv, [Next]_vars,
                      NEW c \in Command, pc[c] = "forget", pc'[c] = "idle"
               PROVE  seen[c] \notin Daemons'
    OBVIOUS
  <2>1. seen[c] \notin Daemons
    BY DEF OrderInv, Ended
  <2>2. ASSUME NEW p \in Pid, ProcessStep(p) PROVE FALSE
    BY <2>2, CommandsKept DEF command
  <2>3. ASSUME NEW d \in Command, CommandStep(d), d # c PROVE FALSE
    BY <2>3, OthersWait
  <2>4. ASSUME CommandStep(c) PROVE UNCHANGED proc
    BY <2>4
    DEF CommandStep, Invoke, ReadPid, Probe, RemoveStale, Launch, TruncatePid,
        RecordPid, Terminate, Await, Kill, ForgetPid, Goto, End
  <2>5. CASE UNCHANGED vars
    BY <2>1, <2>5 DEF vars, Daemons
  <2>6. CASE Next
    BY <2>1, <2>2, <2>3, <2>4, <2>6 DEF Next, Daemons
  <2> QED BY <2>5, <2>6
<1> QED BY <1>1, OrderInvariant, PTL DEF Spec, StopStops

=============================================================================
