------------------------------ MODULE WatchLoop ------------------------------
(***************************************************************************)
(* The daemon of one machine between the file system and the engine:       *)
(* internal/watcher/watcher.go (directory registration, the event loop,    *)
(* the debounce timers and their callbacks) and the select loop of         *)
(* cmd/start.go, for one conversation.                                     *)
(*                                                                         *)
(* A file's content is a version number.  The event loop, every timer      *)
(* callback and the daemon's loop run concurrently; what the timer mutex   *)
(* protects is one step.  A push reads the files in one step and succeeds  *)
(* (TranscriptSync and ArtifactSync look inside it).  Of fsnotify's events *)
(* those the event loop passes over (changes of mode) are left out.        *)
(***************************************************************************)
EXTENDS Integers, Sequences, FiniteSets

CONSTANTS
  Dir,          \* the directories below the brain directory
  Root,         \* the brain directory
  Parent,       \* Parent[d]: the directory d lies in
  File,         \* the files that are written
  DirOf,        \* DirOf[f]: the directory f lies in
  Overflow,     \* fsnotify's error: the kernel's queue was full
  KernelQueue,  \* the events the kernel keeps for fsnotify
  Capacity,     \* capacity of the event channel
  ErrCapacity,  \* capacity of the error channel
  MaxWrites,    \* bound: number of writes
  MaxMishaps    \* bound: directories removed and ends of the daemon

Name == File \cup Dir

ASSUME ConstantsAssumption ==
  /\ Root \notin Dir
  /\ Overflow \notin Name
  /\ KernelQueue \in Nat \ {0}
  /\ ErrCapacity \in Nat \ {0}
  /\ Parent \in [Dir -> Dir \cup {Root}]
  /\ DirOf \in [File -> Dir]
  /\ Dir \cap File = {}
  /\ Capacity \in Nat \ {0}
  /\ MaxWrites \in Nat
  /\ MaxMishaps \in Nat

VARIABLES
  exists,    \* the directories there are
  version,   \* version[f]: writes f has seen
  writes,    \* writes there have been, to bound them
  pushed,    \* pushed[f]: the version the last push read
  noticed,   \* noticed[f]: the last version fsnotify reported
  watched,   \* the directories the kernel watches for fsnotify
  known,     \* watchedDirs: those the watcher has registered
  raw,       \* fsnotify's events and errors: names and Overflow
  entry,     \* entry[f]: f's timer in the map: none, armed, or fired
  orphan,    \* orphan[f]: armed timers that are not in the map any more
  begun,     \* begun[f]: callbacks that have not taken the mutex yet
  sending,   \* sending[f]: callbacks waiting to send
  queue,     \* the event channel
  reporting, \* whether the event loop is sending an error
  errs,      \* the errors in the error channel
  closed,    \* whether the channels are closed
  cancelled, \* whether the daemon's context is cancelled
  daemon,    \* where the daemon's loop stands
  mishaps

disk == <<exists, version, writes, noticed>>
watches == <<watched, known>>
timers == <<entry, orphan, begun, sending>>
errors == <<reporting, errs>>
channel == <<queue, errors, closed>>
loop == <<cancelled, daemon>>
world == <<disk, pushed, mishaps>>
vars == <<world, watches, raw, timers, channel, loop>>

Zero == [f \in File |-> 0]
NoTimer == [n \in Name |-> 0]

Init ==
  /\ exists \in SUBSET Dir
  /\ \A d \in exists : Parent[d] \in exists \cup {Root}
  /\ version = Zero /\ pushed = Zero /\ noticed = Zero
  /\ writes = 0
  /\ watched = {} /\ known = {}
  /\ raw = <<>>
  /\ entry = [n \in Name |-> "none"]
  /\ orphan = NoTimer /\ begun = NoTimer /\ sending = NoTimer
  /\ queue = <<>> /\ closed = FALSE
  /\ reporting = FALSE /\ errs = 0
  /\ cancelled = FALSE
  /\ daemon = "exited"
  /\ mishaps = 0

(* The process ends and everything but the files ends with it.             *)
Die ==
  /\ watched' = {} /\ known' = {}
  /\ raw' = <<>>
  /\ entry' = [n \in Name |-> "none"]
  /\ orphan' = NoTimer /\ begun' = NoTimer /\ sending' = NoTimer
  /\ queue' = <<>> /\ closed' = FALSE
  /\ reporting' = FALSE /\ errs' = 0
  /\ cancelled' = FALSE
  /\ daemon' = "exited"

-----------------------------------------------------------------------------
(* The file system.                                                        *)

(* What happens in a watched directory is reported, unless the kernel's    *)
(* queue is full: then the overflow is, once.                              *)
Reported(d) == d \in watched /\ Len(raw) < KernelQueue
Report(d, name) ==
  raw' = IF Reported(d) THEN Append(raw, name)
         ELSE IF d \in watched /\ raw[Len(raw)] # Overflow
         THEN Append(raw, Overflow) ELSE raw

MakeDir(d) ==
  /\ d \notin exists
  /\ Parent[d] \in exists \cup {Root}
  /\ exists' = exists \cup {d}
  /\ Report(Parent[d], d)
  /\ UNCHANGED <<version, writes, noticed, pushed, watches, timers, channel>>
  /\ UNCHANGED <<mishaps, loop>>

(* The kernel forgets its watch of a removed directory; the watcher keeps  *)
(* it registered.  Of the files in it nothing is left to push.             *)
RemoveDir(d) ==
  /\ d \in exists
  /\ \A e \in exists : Parent[e] # d
  /\ mishaps < MaxMishaps
  /\ mishaps' = mishaps + 1
  /\ exists' = exists \ {d}
  /\ watched' = watched \ {d}
  /\ pushed' = [f \in File |-> IF DirOf[f] = d THEN version[f] ELSE pushed[f]]
  /\ UNCHANGED <<version, writes, noticed, known, raw, timers, channel, loop>>

(* Anybody writes a file: the agent, or a pull of this daemon.             *)
Write(f) ==
  /\ DirOf[f] \in exists
  /\ writes < MaxWrites
  /\ writes' = writes + 1
  /\ version' = [version EXCEPT ![f] = @ + 1]
  /\ Report(DirOf[f], f)
  /\ noticed' = [noticed EXCEPT ![f] = IF Reported(DirOf[f]) THEN version'[f] ELSE @]
  /\ UNCHANGED <<exists, pushed, watches, timers, channel, mishaps, loop>>

-----------------------------------------------------------------------------
(* The watcher's event loop and the timers.                                *)

Handle(kind) ==
  /\ raw # <<>> /\ Head(raw) \in kind
  /\ ~closed /\ ~reporting
  /\ raw' = Tail(raw)

(* A new directory is registered, that directory alone, unless one of that *)
(* name is already.                                                        *)
Register ==
  /\ Handle(exists)
  /\ known' = known \cup {Head(raw)}
  /\ watched' = IF Head(raw) \in known THEN watched ELSE watched \cup {Head(raw)}
  /\ UNCHANGED <<world, timers, channel, loop>>

(* A write re-arms the file's timer, and so does the event of a directory  *)
(* that is gone by now; Stop does nothing to a timer that has fired.  The  *)
(* definition above the one in use, here and below, is the slip a property *)
(* is there to catch.                                                      *)
StopOnly(f) == IF entry[f] = "none" THEN "armed" ELSE "none"
Rearmed(f) == "armed"
Debounce ==
  /\ Handle(Name \ exists)
  /\ entry' = [entry EXCEPT ![Head(raw)] = Rearmed(Head(raw))]
  /\ UNCHANGED <<world, watches, orphan, begun, sending, channel, loop>>

(* An error is passed on, and the loop waits for room.                     *)
TakeOverflow ==
  /\ Handle({Overflow})
  /\ reporting' = TRUE
  /\ UNCHANGED <<world, watches, timers, queue, errs, closed, loop>>

SendError ==
  /\ reporting
  /\ errs < ErrCapacity
  /\ reporting' = FALSE
  /\ errs' = errs + 1
  /\ UNCHANGED <<world, watches, raw, timers, queue, closed, loop>>

Fire(f) ==
  /\ \/ /\ entry[f] = "armed"
        /\ entry' = [entry EXCEPT ![f] = "fired"]
        /\ UNCHANGED orphan
     \/ /\ orphan[f] > 0
        /\ orphan' = [orphan EXCEPT ![f] = @ - 1]
        /\ UNCHANGED entry
  /\ begun' = [begun EXCEPT ![f] = @ + 1]
  /\ UNCHANGED <<world, watches, raw, sending, channel, loop>>

(* The callback deletes the map's entry, which may be that of a timer      *)
(* armed since: that one can then not be stopped any more.                 *)
Callback(f) ==
  /\ begun[f] > 0
  /\ begun' = [begun EXCEPT ![f] = @ - 1]
  /\ sending' = [sending EXCEPT ![f] = @ + 1]
  /\ entry' = [entry EXCEPT ![f] = "none"]
  /\ orphan' = [orphan EXCEPT ![f] = IF entry[f] = "armed" THEN @ + 1 ELSE @]
  /\ UNCHANGED <<world, watches, raw, channel, loop>>

(* It sends, waiting for room, unless the context is cancelled.  A send on *)
(* the closed channel, which select may choose, panics: the process dies.  *)
AnyRoom(f) == TRUE
RoomForTwo(f) == Len(queue) + 1 < Capacity
HasRoom(f) == Len(queue) < Capacity
Send(f) ==
  /\ sending[f] > 0
  /\ sending' = [sending EXCEPT ![f] = @ - 1]
  /\ \/ cancelled /\ UNCHANGED queue
     \/ ~closed /\ HasRoom(f) /\ queue' = Append(queue, f)
  /\ UNCHANGED <<world, watches, raw, entry, orphan, begun, errors, closed, loop>>

SendOnClosed(f) ==
  /\ sending[f] > 0
  /\ closed
  /\ Die
  /\ UNCHANGED world

CloseChannel ==
  /\ cancelled /\ ~closed /\ ~reporting
  /\ closed' = TRUE
  /\ UNCHANGED <<world, watches, raw, timers, queue, errors, loop>>

-----------------------------------------------------------------------------
(* The daemon.                                                             *)

(* The daemon starts and registers the directories it finds, then pushes   *)
(* all conversations.                                                      *)
Start ==
  /\ daemon = "exited"
  /\ daemon' = "initial push"
  /\ watched' = exists \cup {Root}
  /\ known' = exists \cup {Root}
  /\ UNCHANGED <<world, raw, timers, channel, cancelled>>

InitialPush ==
  /\ daemon = "initial push"
  /\ daemon' = "select"
  /\ pushed' = IF cancelled THEN pushed ELSE version
  /\ UNCHANGED <<disk, watches, raw, timers, channel, cancelled, mishaps>>

(* An event pushes its conversation as it is when the push reads it.       *)
TakeEvent ==
  /\ daemon = "select"
  /\ queue # <<>>
  /\ queue' = Tail(queue)
  /\ daemon' = "push"
  /\ UNCHANGED <<world, watches, raw, timers, errors, closed, cancelled>>

ReadFiles ==
  /\ daemon = "push"
  /\ daemon' = "select"
  /\ pushed' = IF cancelled THEN pushed ELSE version
  /\ UNCHANGED <<disk, watches, raw, timers, channel, cancelled, mishaps>>

TakeError ==
  /\ daemon = "select"
  /\ errs > 0
  /\ errs' = errs - 1
  /\ UNCHANGED <<world, watches, raw, timers, queue, reporting, closed, loop>>

Tick ==
  /\ \/ daemon = "select" /\ daemon' = "poll"
     \/ daemon = "poll" /\ daemon' = "select"
  /\ UNCHANGED <<world, watches, raw, timers, channel, cancelled>>

(* SIGTERM or an interrupt; the loop leaves when it sees the context or    *)
(* the closed channel, its cleanup runs, and the process ends.  It may     *)
(* also be killed.                                                         *)
Cancel ==
  /\ daemon # "exited"
  /\ mishaps < MaxMishaps
  /\ mishaps' = mishaps + 1
  /\ \/ /\ cancelled' = TRUE
        /\ UNCHANGED <<watches, raw, timers, channel, daemon>>
     \/ Die
  /\ UNCHANGED <<disk, pushed>>

Leave ==
  /\ daemon = "select"
  /\ cancelled
  /\ daemon' = "leaving"
  /\ UNCHANGED <<world, watches, raw, timers, channel, cancelled>>

Exit ==
  /\ daemon = "leaving"
  /\ Die
  /\ UNCHANGED world

Next ==
  \/ \E d \in Dir : MakeDir(d) \/ RemoveDir(d)
  \/ \E f \in File : Write(f)
  \/ \E n \in Name : Fire(n) \/ Callback(n) \/ Send(n) \/ SendOnClosed(n)
  \/ Register \/ Debounce \/ TakeOverflow \/ SendError \/ CloseChannel
  \/ Start \/ InitialPush \/ TakeEvent \/ ReadFiles \/ TakeError \/ Tick
  \/ Cancel \/ Leave \/ Exit

Spec == Init /\ [][Next]_vars

(* The goroutines run, timers expire, and the loop's select does not pass  *)
(* over an event, or over the cancelled context, for ever.                 *)
FairSpec ==
  /\ Spec
  /\ WF_vars(Register \/ Debounce \/ TakeOverflow \/ SendError)
  /\ \A f \in File :
       WF_vars(Fire(f)) /\ WF_vars(Callback(f)) /\ SF_vars(Send(f))
  /\ WF_vars(Start \/ InitialPush \/ ReadFiles \/ Tick \/ Exit)
  /\ SF_vars(TakeEvent)
  /\ SF_vars(TakeError)
  /\ SF_vars(Leave)

-----------------------------------------------------------------------------
(* Properties.                                                             *)

(* Types; the channels keep to their capacities, and what the kernel       *)
(* watches is registered and there.                                        *)
TypeOK ==
  /\ exists \subseteq Dir
  /\ watched \subseteq exists \cup {Root}
  /\ writes \in 0 .. MaxWrites
  /\ version \in [File -> 0 .. MaxWrites]
  /\ pushed \in [File -> 0 .. MaxWrites]
  /\ noticed \in [File -> 0 .. MaxWrites]
  /\ watched \subseteq known /\ known \subseteq Dir \cup {Root}
  /\ raw \in Seq(Name \cup {Overflow}) /\ Len(raw) <= KernelQueue + 1
  /\ entry \in [Name -> {"none", "armed", "fired"}]
  /\ orphan \in [Name -> Nat] /\ begun \in [Name -> Nat] /\ sending \in [Name -> Nat]
  /\ queue \in Seq(Name) /\ Len(queue) <= Capacity
  /\ reporting \in BOOLEAN /\ errs \in 0 .. ErrCapacity
  /\ closed \in BOOLEAN /\ cancelled \in BOOLEAN
  /\ daemon \in {"exited", "initial push", "select", "push", "poll", "leaving"}
  /\ mishaps \in 0 .. MaxMishaps

(* A change fsnotify reported and no push has read is still on its way     *)
(* through the watcher: neither the debounce timers, whose entries old     *)
(* callbacks delete, nor a full channel, nor a restart lose it.            *)
OnItsWay(f) ==
  \/ \E i \in DOMAIN raw : raw[i] = f
  \/ entry[f] = "armed" \/ orphan[f] > 0 \/ begun[f] > 0 \/ sending[f] > 0
  \/ queue # <<>>
NothingForgotten ==
  \A f \in File :
    pushed[f] < noticed[f] =>
      OnItsWay(f) \/ cancelled \/ daemon \in {"exited", "initial push", "push"}

(* Every change that fsnotify reported is pushed in the end, by its own    *)
(* event, by a later one or by the push of the next start.                 *)
EventuallyPushed ==
  \A f \in File, v \in 1 .. MaxWrites : noticed[f] >= v ~> pushed[f] >= v

(* Every change is pushed in the end, reported or not.  It is not: what is *)
(* written into a new directory before the event loop has registered it,   *)
(* or into a directory made in it by then, waits for another event of the  *)
(* conversation or for the daemon's next start.                            *)
EveryChangePushed ==
  \A f \in File, v \in 1 .. MaxWrites : version[f] >= v ~> pushed[f] >= v

=============================================================================
