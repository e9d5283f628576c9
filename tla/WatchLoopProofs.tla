-------------------------- MODULE WatchLoopProofs ---------------------------
(***************************************************************************)
(* Theorems about WatchLoop, for any directories and files, any channel    *)
(* capacities, and any number of writes, deleted directories and ends of   *)
(* the daemon.                                                             *)
(***************************************************************************)
EXTENDS WatchLoop, TLAPS

-----------------------------------------------------------------------------
(* The invariant.                                                          *)

(* The types the argument needs, without the bounds of TypeOK.             *)
Count == [Name -> Nat]
Notice == Name \cup {Overflow}
Sorts ==
  /\ exists \subseteq Dir
  /\ version \in [File -> Nat] /\ noticed \in [File -> Nat]
  /\ pushed \in [File -> Nat]
  /\ raw \in Seq(Notice)
  /\ entry \in [Name -> {"none", "armed", "fired"}]
  /\ orphan \in Count /\ begun \in Count /\ sending \in Count
  /\ queue \in Seq(Name)

(* A push that reads the files reads what was reported.                    *)
ReportedIsWritten == \A f \in File : noticed[f] <= version[f]

(* Where a change that is not pushed yet may be: on its way through the    *)
(* watcher, or left to the push of a next start.                           *)
Sheltered(f) ==
  OnItsWay(f) \/ cancelled \/ daemon \in {"exited", "initial push", "push"}
Accounted(f) == pushed[f] < noticed[f] => Sheltered(f)

WatchInv == Sorts /\ ReportedIsWritten /\ \A f \in File : Accounted(f)

-----------------------------------------------------------------------------
(* Lemmas.                                                                 *)

(* x is one of the sequence's elements.                                    *)
Holds(s, x) == \E i \in DOMAIN s : s[i] = x

LEMMA HeadAndTail ==
  ASSUME NEW S, NEW s \in Seq(S), s # <<>>
  PROVE  /\ Head(s) \in S /\ Tail(s) \in Seq(S)
         /\ \A x : Holds(s, x) => x = Head(s) \/ Holds(Tail(s), x)
<1>1. Head(s) \in S /\ Tail(s) \in Seq(S) /\ Head(s) = s[1]
  OBVIOUS
<1>2. \A i \in DOMAIN s : i = 1 \/ (i - 1 \in DOMAIN Tail(s) /\ Tail(s)[i - 1] = s[i])
  OBVIOUS
<1> QED BY <1>1, <1>2 DEF Holds

LEMMA LineGrows ==
  ASSUME NEW S, NEW s \in Seq(S), NEW y \in S
  PROVE  /\ Append(s, y) \in Seq(S) /\ Append(s, y) # <<>>
         /\ Holds(Append(s, y), y)
         /\ \A x : Holds(s, x) => Holds(Append(s, y), x)
<1>1. /\ Append(s, y) \in Seq(S) /\ Append(s, y) # <<>>
      /\ Len(s) + 1 \in DOMAIN Append(s, y) /\ Append(s, y)[Len(s) + 1] = y
      /\ \A i \in DOMAIN s : i \in DOMAIN Append(s, y) /\ Append(s, y)[i] = s[i]
  OBVIOUS
<1> QED BY <1>1 DEF Holds

(* What the kernel keeps for the event loop only grows by a report.        *)
LEMMA ReportKeeps ==
  ASSUME Sorts, NEW d, NEW n \in Name, Report(d, n)
  PROVE  /\ raw' \in Seq(Notice)
         /\ \A x : Holds(raw, x) => Holds(raw', x)
         /\ Reported(d) => Holds(raw', n)
<1>1. raw' \in {Append(raw, n), Append(raw, Overflow), raw}
  BY DEF Report
<1>2. Reported(d) => raw' = Append(raw, n)
  BY DEF Report
<1>3. ASSUME NEW y \in Notice
      PROVE  /\ Append(raw, y) \in Seq(Notice)
             /\ Holds(Append(raw, y), y)
             /\ \A x : Holds(raw, x) => Holds(Append(raw, y), x)
  <2>1. raw \in Seq(Notice)
    BY DEF Sorts
  <2> QED BY <2>1, LineGrows
<1>4. n \in Notice /\ Overflow \in Notice
  BY DEF Notice
<1> QED BY <1>1, <1>2, <1>3, <1>4 DEF Sorts

(* The process is gone: the next start pushes everything.                  *)
LEMMA DeathKeeps ==
  ASSUME WatchInv, Die, UNCHANGED <<disk, pushed>>
  PROVE  WatchInv'
<1>1. Sorts'
  BY DEF WatchInv, Sorts, Die, disk, NoTimer, Count
<1>2. \A f \in File : Sheltered(f)'
  BY DEF Die, Sheltered
<1> QED
  BY <1>1, <1>2 DEF WatchInv, Accounted, ReportedIsWritten, disk

LEMMA InitWatchInv == Init => WatchInv
<1> SUFFICES ASSUME Init PROVE WatchInv
  OBVIOUS
<1>1. Sorts
  BY DEF Init, Sorts, Zero, NoTimer, Count
<1> QED
  BY <1>1 DEF Init, WatchInv, ReportedIsWritten, Accounted, Sheltered, Zero

(* The file system.                                                        *)
LEMMA DiskKeeps ==
  ASSUME WatchInv,
         \/ \E d \in Dir : MakeDir(d) \/ RemoveDir(d)
         \/ \E f \in File : Write(f)
  PROVE  WatchInv'
<1> USE ConstantsAssumption DEF Name
<1>1. ASSUME NEW d \in Dir, MakeDir(d) PROVE WatchInv'
  <2>1. /\ raw' \in Seq(Notice)
        /\ \A x : Holds(raw, x) => Holds(raw', x)
    BY <1>1, ReportKeeps DEF MakeDir, WatchInv
  <2>2. /\ exists' = exists \cup {d}
        /\ UNCHANGED <<version, noticed, pushed, timers, channel, loop>>
    BY <1>1 DEF MakeDir
  <2>3. Sorts'
    BY <2>1, <2>2 DEF WatchInv, Sorts, timers, channel
  <2>4. \A f \in File : Sheltered(f) => Sheltered(f)'
    BY <2>1, <2>2 DEF Sheltered, OnItsWay, Holds, timers, channel, loop
  <2> QED BY <2>2, <2>3, <2>4 DEF WatchInv, ReportedIsWritten, Accounted
<1>2. ASSUME NEW d \in Dir, RemoveDir(d) PROVE WatchInv'
  <2>1. /\ exists' = exists \ {d}
        /\ pushed' = [f \in File |-> IF DirOf[f] = d THEN version[f] ELSE pushed[f]]
        /\ UNCHANGED <<version, noticed, raw, timers, channel, loop>>
    BY <1>2 DEF RemoveDir
  <2>2. Sorts'
    BY <2>1 DEF WatchInv, Sorts, timers, channel
  <2>3. \A f \in File : Sheltered(f) => Sheltered(f)'
    BY <2>1 DEF Sheltered, OnItsWay, Holds, timers, channel, loop
  <2>4. ASSUME NEW f \in File PROVE Accounted(f)'
    <3>1. pushed'[f] = version[f] \/ pushed'[f] = pushed[f]
      BY <2>1
    <3>2. noticed[f] <= version[f] /\ noticed[f] \in Nat /\ version[f] \in Nat
      BY DEF WatchInv, ReportedIsWritten, Sorts
    <3> QED BY <2>1, <2>3, <3>1, <3>2 DEF WatchInv, Accounted
  <2> QED BY <2>1, <2>2, <2>4 DEF WatchInv, ReportedIsWritten
<1>3. ASSUME NEW f \in File, Write(f) PROVE WatchInv'
  <2>1. /\ raw' \in Seq(Notice)
        /\ \A x : Holds(raw, x) => Holds(raw', x)
        /\ Reported(DirOf[f]) => Holds(raw', f)
    BY <1>3, ReportKeeps DEF Write, WatchInv
  <2>2. /\ version' = [version EXCEPT ![f] = @ + 1]
        /\ noticed' = [noticed EXCEPT ![f] =
                         IF Reported(DirOf[f]) THEN version'[f] ELSE @]
        /\ UNCHANGED <<exists, pushed, timers, channel, loop>>
    BY <1>3 DEF Write
  <2>3. \A g \in File : version[g] \in Nat /\ noticed[g] \in Nat /\ noticed[g] <= version[g]
    BY DEF WatchInv, Sorts, ReportedIsWritten
  <2>4. version'[f] = version[f] + 1 /\ version' \in [File -> Nat]
    BY <2>2, <2>3 DEF WatchInv, Sorts
  <2>5. noticed' \in [File -> Nat]
    BY <2>2, <2>3, <2>4 DEF WatchInv, Sorts
  <2>6. Sorts'
    BY <2>1, <2>2, <2>4, <2>5 DEF WatchInv, Sorts, timers, channel
  <2>7. \A g \in File : Sheltered(g) => Sheltered(g)'
    BY <2>1, <2>2 DEF Sheltered, OnItsWay, Holds, timers, channel, loop
  <2>8. ReportedIsWritten'
    BY <2>2, <2>3, <2>4 DEF WatchInv, Sorts, ReportedIsWritten
  <2>9. ASSUME NEW g \in File PROVE Accounted(g)'
    <3>1. CASE g = f /\ Reported(DirOf[f])
      BY <2>1, <3>1 DEF Accounted, Sheltered, OnItsWay, Holds
    <3>2. CASE ~ (g = f /\ Reported(DirOf[f]))
      <4>1. noticed'[g] = noticed[g] /\ pushed'[g] = pushed[g]
        BY <2>2, <3>2 DEF WatchInv, Sorts
      <4> QED BY <2>7, <4>1 DEF WatchInv, Accounted
    <3> QED BY <3>1, <3>2
  <2> QED BY <2>6, <2>8, <2>9 DEF WatchInv
<1> QED BY <1>1, <1>2, <1>3

(* The event loop takes the first event: a file's arms its timer, others   *)
(* are not the file's.                                                     *)
LEMMA EventLoopKeeps ==
  ASSUME WatchInv, Register \/ Debounce \/ TakeOverflow \/ SendError
  PROVE  WatchInv'
<1> USE ConstantsAssumption DEF Name
<1>1. UNCHANGED <<world, orphan, begun, sending, queue, loop>>
  BY DEF Register, Debounce, TakeOverflow, SendError, timers, channel, world
<1>2. CASE SendError
  <2>1. UNCHANGED <<world, raw, timers, queue, loop>>
    BY <1>2 DEF SendError
  <2>2. Sorts' /\ \A f \in File : Sheltered(f) => Sheltered(f)'
    BY <2>1 DEF WatchInv, Sorts, Sheltered, OnItsWay, world, disk, timers, loop
  <2> QED BY <2>1, <2>2 DEF WatchInv, ReportedIsWritten, Accounted, world, disk
<1>3. CASE Register \/ Debounce \/ TakeOverflow
  <2>1. raw # <<>> /\ raw' = Tail(raw)
    BY <1>3 DEF Register, Debounce, TakeOverflow, Handle
  <2>2. /\ Head(raw) \in Notice /\ raw' \in Seq(Notice)
        /\ \A x : Holds(raw, x) => x = Head(raw) \/ Holds(raw', x)
    <3>1. raw \in Seq(Notice)
      BY DEF WatchInv, Sorts
    <3> QED BY <2>1, <3>1, HeadAndTail
  <2>3. \/ Head(raw) \in exists \cup {Overflow} /\ UNCHANGED entry
        \/ Head(raw) \in Name /\ entry' = [entry EXCEPT ![Head(raw)] = "armed"]
    BY <1>3 DEF Register, Debounce, TakeOverflow, Handle, Rearmed, timers
  <2>4. Sorts'
    BY <1>1, <2>2, <2>3 DEF WatchInv, Sorts, world, disk
  <2>5. ASSUME NEW f \in File, Sheltered(f) PROVE Sheltered(f)'
    <3>1. f # Overflow /\ f \notin exists /\ f \in Name
      BY DEF WatchInv, Sorts
    <3>2. CASE Head(raw) = f
      <4>1. entry'[f] = "armed"
        BY <2>3, <3>1, <3>2 DEF WatchInv, Sorts
      <4> QED BY <4>1 DEF Sheltered, OnItsWay
    <3>3. CASE Head(raw) # f
      <4>1. entry'[f] = entry[f]
        BY <2>3, <3>1, <3>3 DEF WatchInv, Sorts
      <4> QED BY <1>1, <2>2, <2>5, <3>3, <4>1 DEF Sheltered, OnItsWay, Holds, loop
    <3> QED BY <3>2, <3>3
  <2> QED
    BY <1>1, <2>4, <2>5 DEF WatchInv, ReportedIsWritten, Accounted, world, disk
<1> QED BY <1>2, <1>3

(* Timers and callbacks: one place hands a change to the next.             *)
LEMMA TimersKeep ==
  ASSUME WatchInv, NEW n \in Name, Fire(n) \/ Callback(n) \/ Send(n)
  PROVE  WatchInv'
<1>1. UNCHANGED <<world, watches, raw, errors, closed, loop>>
  BY DEF Fire, Callback, Send, channel
<1>2. CASE Fire(n)
  <2>1. /\ begun' = [begun EXCEPT ![n] = @ + 1] /\ UNCHANGED <<sending, queue>>
        /\ begun'[n] > 0
    BY <1>2 DEF Fire, channel, WatchInv, Sorts, Count
  <2>2. /\ entry' \in [Name -> {"none", "armed", "fired"}] /\ orphan' \in Count
        /\ \A m \in Name \ {n} : entry'[m] = entry[m] /\ orphan'[m] = orphan[m]
    <3>1. CASE entry[n] = "armed" /\ entry' = [entry EXCEPT ![n] = "fired"]
               /\ UNCHANGED orphan
      BY <3>1 DEF WatchInv, Sorts
    <3>2. CASE orphan[n] > 0 /\ orphan' = [orphan EXCEPT ![n] = @ - 1]
               /\ UNCHANGED entry
      BY <3>2 DEF WatchInv, Sorts, Count
    <3> QED BY <1>2, <3>1, <3>2 DEF Fire
  <2>3. Sorts'
    <3>1. begun' \in Count /\ sending' \in Count
      BY <2>1, <2>2 DEF WatchInv, Sorts, Count
    <3> QED BY <1>1, <2>1, <2>2, <3>1 DEF WatchInv, Sorts, world, disk
  <2>4. ASSUME NEW f \in File, Sheltered(f) PROVE Sheltered(f)'
    <3>1. CASE f = n
      BY <2>1, <3>1 DEF Sheltered, OnItsWay
    <3>2. CASE f # n
      <4>1. begun'[f] = begun[f] /\ entry'[f] = entry[f] /\ orphan'[f] = orphan[f]
        BY <2>1, <2>2, <3>2 DEF WatchInv, Sorts, Count, Name
      <4> QED BY <1>1, <2>1, <2>4, <4>1 DEF Sheltered, OnItsWay, loop
    <3> QED BY <3>1, <3>2
  <2> QED
    BY <1>1, <2>3, <2>4 DEF WatchInv, ReportedIsWritten, Accounted, world, disk
<1>3. CASE Callback(n)
  <2>1. /\ sending' = [sending EXCEPT ![n] = @ + 1] /\ UNCHANGED queue
        /\ sending'[n] > 0
    BY <1>3 DEF Callback, channel, WatchInv, Sorts, Count
  <2>2. /\ entry' \in [Name -> {"none", "armed", "fired"}]
        /\ orphan' \in Count /\ begun' \in Count
        /\ \A m \in Name \ {n} : /\ entry'[m] = entry[m]
                                 /\ orphan'[m] = orphan[m] /\ begun'[m] = begun[m]
    <3>1. entry' = [entry EXCEPT ![n] = "none"]
      BY <1>3 DEF Callback
    <3>2. begun[n] > 0 /\ begun' = [begun EXCEPT ![n] = @ - 1]
      BY <1>3 DEF Callback
    <3>3. orphan' = [orphan EXCEPT ![n] = IF entry[n] = "armed" THEN @ + 1 ELSE @]
      BY <1>3 DEF Callback
    <3>4. orphan' \in Count /\ begun' \in Count
      BY <3>2, <3>3 DEF WatchInv, Sorts, Count
    <3>5. \A m \in Name \ {n} : orphan'[m] = orphan[m] /\ begun'[m] = begun[m]
      BY <3>2, <3>3 DEF WatchInv, Sorts, Count
    <3> QED BY <3>1, <3>4, <3>5 DEF WatchInv, Sorts
  <2>3. Sorts'
    <3>1. sending' \in Count
      BY <2>1 DEF WatchInv, Sorts, Count
    <3> QED BY <1>1, <2>1, <2>2, <3>1 DEF WatchInv, Sorts, world, disk
  <2>4. ASSUME NEW f \in File, Sheltered(f) PROVE Sheltered(f)'
    <3>1. CASE f = n
      BY <2>1, <3>1 DEF Sheltered, OnItsWay
    <3>2. CASE f # n
      <4>1. /\ sending'[f] = sending[f] /\ entry'[f] = entry[f]
            /\ orphan'[f] = orphan[f] /\ begun'[f] = begun[f]
        BY <2>1, <2>2, <3>2 DEF WatchInv, Sorts, Count, Name
      <4> QED BY <1>1, <2>1, <2>4, <4>1 DEF Sheltered, OnItsWay, loop
    <3> QED BY <3>1, <3>2
  <2> QED
    BY <1>1, <2>3, <2>4 DEF WatchInv, ReportedIsWritten, Accounted, world, disk
<1>4. CASE Send(n)
  <2>1. /\ sending' = [sending EXCEPT ![n] = @ - 1] /\ sending[n] > 0
        /\ UNCHANGED <<entry, orphan, begun>>
        /\ (cancelled /\ UNCHANGED queue) \/ queue' = Append(queue, n)
    BY <1>4 DEF Send
  <2>2. sending' \in Count
    BY <2>1 DEF WatchInv, Sorts, Count
  <2>3. queue' \in Seq(Name) /\ (cancelled \/ queue' # <<>>)
    <3>1. queue \in Seq(Name)
      BY DEF WatchInv, Sorts
    <3>2. Append(queue, n) \in Seq(Name) /\ Append(queue, n) # <<>>
      BY <3>1, LineGrows
    <3> QED BY <2>1, <3>1, <3>2
  <2>4. Sorts'
    BY <1>1, <2>1, <2>2, <2>3 DEF WatchInv, Sorts, Count, world, disk
  <2>5. \A f \in File : Sheltered(f)'
    BY <1>1, <2>3 DEF Sheltered, OnItsWay, loop
  <2> QED
    BY <1>1, <2>4, <2>5 DEF WatchInv, ReportedIsWritten, Accounted, world, disk
<1> QED BY <1>2, <1>3, <1>4

(* The daemon's loop: it empties the channel into pushes, and a push reads *)
(* every file, unless it is cancelled.                                     *)
LEMMA LoopKeeps ==
  ASSUME WatchInv,
         \/ CloseChannel \/ Start \/ InitialPush \/ TakeEvent \/ ReadFiles
         \/ TakeError \/ Tick \/ Leave
  PROVE  WatchInv'
<1>1. CASE InitialPush \/ ReadFiles
  <2>1. /\ UNCHANGED <<disk, raw, timers, channel, cancelled>>
        /\ pushed' = IF cancelled THEN pushed ELSE version
    BY <1>1 DEF InitialPush, ReadFiles
  <2>2. Sorts'
    BY <2>1 DEF WatchInv, Sorts, disk, timers, channel
  <2>3. ASSUME NEW f \in File PROVE Accounted(f)'
    <3>1. CASE cancelled
      BY <2>1, <3>1 DEF Accounted, Sheltered
    <3>2. CASE ~cancelled
      <4>1. pushed'[f] = version[f] /\ noticed'[f] = noticed[f]
        BY <2>1, <3>2 DEF disk
      <4>2. noticed[f] <= version[f] /\ noticed[f] \in Nat /\ version[f] \in Nat
        BY DEF WatchInv, ReportedIsWritten, Sorts
      <4> QED BY <4>1, <4>2 DEF Accounted
    <3> QED BY <3>1, <3>2
  <2> QED BY <2>1, <2>2, <2>3 DEF WatchInv, ReportedIsWritten, disk
<1>2. CASE Start
  <2>1. UNCHANGED <<world, raw, timers, channel>> /\ daemon' = "initial push"
    BY <1>2 DEF Start
  <2>2. Sorts' /\ \A f \in File : Sheltered(f)'
    BY <2>1 DEF WatchInv, Sorts, Sheltered, world, disk, timers, channel
  <2> QED BY <2>1, <2>2 DEF WatchInv, ReportedIsWritten, Accounted, world, disk
<1>3. CASE TakeEvent
  <2>1. /\ UNCHANGED <<world, raw, timers>> /\ daemon' = "push"
        /\ queue # <<>> /\ queue' = Tail(queue)
    BY <1>3 DEF TakeEvent
  <2>2. queue' \in Seq(Name)
    BY <2>1, HeadAndTail DEF WatchInv, Sorts
  <2>3. Sorts' /\ \A f \in File : Sheltered(f)'
    BY <2>1, <2>2 DEF WatchInv, Sorts, Sheltered, world, disk, timers
  <2> QED BY <2>1, <2>3 DEF WatchInv, ReportedIsWritten, Accounted, world, disk
<1>4. CASE CloseChannel \/ TakeError \/ Tick
  <2>1. /\ UNCHANGED <<world, raw, timers, queue, cancelled>>
        /\ daemon' = daemon \/ daemon \in {"select", "poll"}
    BY <1>4 DEF CloseChannel, TakeError, Tick, channel, loop
  <2>2. Sorts' /\ \A f \in File : Sheltered(f) => Sheltered(f)'
    BY <2>1 DEF WatchInv, Sorts, Sheltered, OnItsWay, world, disk, timers
  <2> QED BY <2>1, <2>2 DEF WatchInv, ReportedIsWritten, Accounted, world, disk
<1>5. CASE Leave
  <2>1. UNCHANGED <<world, raw, timers, channel, cancelled>> /\ cancelled
    BY <1>5 DEF Leave
  <2>2. Sorts' /\ \A f \in File : Sheltered(f)'
    BY <2>1 DEF WatchInv, Sorts, Sheltered, world, disk, timers, channel
  <2> QED BY <2>1, <2>2 DEF WatchInv, ReportedIsWritten, Accounted, world, disk
<1> QED BY <1>1, <1>2, <1>3, <1>4, <1>5

(* The end of the process, at once or after a cancellation.                *)
LEMMA EndKeeps ==
  ASSUME WatchInv, Cancel \/ Exit \/ \E n \in Name : SendOnClosed(n)
  PROVE  WatchInv'
<1>1. ASSUME Die PROVE WatchInv'
  <2>1. UNCHANGED <<disk, pushed>>
    BY <1>1 DEF Cancel, Exit, SendOnClosed, world
  <2> QED BY <1>1, <2>1, DeathKeeps
<1>2. CASE ~Die
  <2>1. /\ cancelled' = TRUE
        /\ UNCHANGED <<raw, timers, channel, disk, pushed>>
    BY <1>2 DEF Cancel, Exit, SendOnClosed
  <2>2. Sorts' /\ \A f \in File : Sheltered(f)'
    BY <2>1 DEF WatchInv, Sorts, Sheltered, disk, timers, channel
  <2> QED BY <2>1, <2>2 DEF WatchInv, ReportedIsWritten, Accounted, disk
<1> QED BY <1>1, <1>2

LEMMA StepWatchInv == WatchInv /\ [Next]_vars => WatchInv'
<1> SUFFICES ASSUME WatchInv, [Next]_vars PROVE WatchInv'
  OBVIOUS
<1>1. CASE UNCHANGED vars
  BY <1>1 DEF vars, world, disk, timers, channel, loop, WatchInv, Sorts,
              ReportedIsWritten, Accounted, Sheltered, OnItsWay
<1> QED
  BY <1>1, DiskKeeps, EventLoopKeeps, TimersKeep, LoopKeeps, EndKeeps DEF Next

-----------------------------------------------------------------------------
(* The bounds of TypeOK.                                                   *)

(* An overflow is the last thing the kernel adds to a full queue, and only *)
(* once; what it watches is there; no file has more writes than there were.*)
Full(s) == Len(s) > KernelQueue => s[Len(s)] = Overflow
LineBound ==
  /\ Len(raw) <= KernelQueue + 1 /\ Full(raw)
  /\ Len(queue) <= Capacity
  /\ reporting \in BOOLEAN /\ errs \in 0 .. ErrCapacity
DiskBound ==
  /\ writes \in 0 .. MaxWrites
  /\ \A f \in File : pushed[f] <= version[f] /\ version[f] <= writes
  /\ watched \subseteq exists \cup {Root}
  /\ watched \subseteq known /\ known \subseteq Dir \cup {Root}
  /\ mishaps \in 0 .. MaxMishaps
LoopBound ==
  /\ closed \in BOOLEAN /\ cancelled \in BOOLEAN
  /\ daemon \in {"exited", "initial push", "select", "push", "poll", "leaving"}
BoundInv == LineBound /\ DiskBound /\ LoopBound

LEMMA InitBoundInv == Init => BoundInv
<1> SUFFICES ASSUME Init PROVE BoundInv
  OBVIOUS
<1>1. LineBound
  <2>1. raw = <<>> /\ queue = <<>> /\ reporting = FALSE /\ errs = 0
    BY DEF Init
  <2>2. Len(raw) = 0 /\ Len(queue) = 0
    BY <2>1
  <2>3. KernelQueue \in Nat \ {0} /\ Capacity \in Nat \ {0} /\ ErrCapacity \in Nat \ {0}
    BY ConstantsAssumption
  <2>4. Full(raw)
    BY <2>2, <2>3 DEF Full
  <2>5. Len(raw) <= KernelQueue + 1 /\ Len(queue) <= Capacity
    BY <2>2, <2>3
  <2>6. errs \in 0 .. ErrCapacity
    BY <2>1, <2>3
  <2>7. reporting \in BOOLEAN
    BY <2>1
  <2> QED BY <2>4, <2>5, <2>6, <2>7 DEF LineBound
<1>2. DiskBound
  BY ConstantsAssumption DEF Init, DiskBound, Zero
<1>3. LoopBound
  BY DEF Init, LoopBound
<1> QED BY <1>1, <1>2, <1>3 DEF BoundInv

(* What a report does to the kernel's queue.                               *)
LEMMA ReportBounded ==
  ASSUME Sorts, LineBound, NEW d, NEW n \in Name, Report(d, n)
  PROVE  Len(raw') <= KernelQueue + 1 /\ Full(raw')
<1>1. raw \in Seq(Notice) /\ Len(raw) \in Nat /\ KernelQueue \in Nat \ {0}
  BY ConstantsAssumption DEF Sorts
<1>2. \/ raw' = raw
      \/ raw' = Append(raw, n) /\ Len(raw) < KernelQueue
      \/ raw' = Append(raw, Overflow) /\ Len(raw) <= KernelQueue
  <2>1. CASE Reported(d)
    BY <2>1 DEF Report, Reported
  <2>2. CASE ~Reported(d) /\ d \in watched /\ raw[Len(raw)] # Overflow
    <3>1. raw' = Append(raw, Overflow)
      BY <2>2 DEF Report
    <3>2. Len(raw) <= KernelQueue
      BY <1>1, <2>2 DEF LineBound, Full
    <3> QED BY <3>1, <3>2
  <2>3. CASE ~Reported(d) /\ ~(d \in watched /\ raw[Len(raw)] # Overflow)
    BY <2>3 DEF Report
  <2> QED BY <2>1, <2>2, <2>3
<1>3. ASSUME NEW y
      PROVE  Len(Append(raw, y)) = Len(raw) + 1 /\ Append(raw, y)[Len(raw) + 1] = y
  BY <1>1
<1>4. CASE raw' = raw
  BY <1>4 DEF LineBound
<1>5. CASE raw' = Append(raw, n) /\ Len(raw) < KernelQueue
  <2>1. Len(raw') = Len(raw) + 1
    BY <1>3, <1>5
  <2> QED BY <1>1, <1>5, <2>1 DEF Full
<1>6. CASE raw' = Append(raw, Overflow) /\ Len(raw) <= KernelQueue
  <2>1. Len(raw') = Len(raw) + 1 /\ raw'[Len(raw) + 1] = Overflow
    BY <1>3, <1>6
  <2> QED BY <1>1, <1>6, <2>1 DEF Full
<1> QED BY <1>2, <1>4, <1>5, <1>6

LEMMA TakenBounded ==
  ASSUME Sorts, LineBound, raw # <<>>, raw' = Tail(raw)
  PROVE  Len(raw') <= KernelQueue + 1 /\ Full(raw')
<1>1. raw \in Seq(Notice) /\ KernelQueue \in Nat
  BY ConstantsAssumption DEF Sorts
<1>2. Len(raw') = Len(raw) - 1 /\ Len(raw) \in Nat \ {0}
  BY <1>1
<1> QED BY <1>1, <1>2 DEF LineBound, Full

(* The end of the process empties everything but the disk.                 *)
LEMMA DeathBounded ==
  ASSUME BoundInv, Die, UNCHANGED <<disk, pushed>>, mishaps' \in 0 .. MaxMishaps
  PROVE  BoundInv'
<1>1. LineBound'
  <2>1. raw' = <<>> /\ queue' = <<>> /\ reporting' = FALSE /\ errs' = 0
    BY DEF Die
  <2>2. Len(raw') = 0 /\ Len(queue') = 0
    BY <2>1
  <2>3. KernelQueue \in Nat \ {0} /\ Capacity \in Nat \ {0} /\ ErrCapacity \in Nat \ {0}
    BY ConstantsAssumption
  <2>4. Full(raw')
    BY <2>2, <2>3 DEF Full
  <2>5. Len(raw') <= KernelQueue + 1 /\ Len(queue') <= Capacity
    BY <2>2, <2>3
  <2>6. errs' \in 0 .. ErrCapacity
    BY <2>1, <2>3
  <2>7. reporting' \in BOOLEAN
    BY <2>1
  <2> QED BY <2>4, <2>5, <2>6, <2>7 DEF LineBound
<1>2. DiskBound'
  BY DEF Die, BoundInv, DiskBound, disk
<1>3. LoopBound'
  BY DEF Die, LoopBound
<1> QED BY <1>1, <1>2, <1>3 DEF BoundInv

LEMMA DiskBounded ==
  ASSUME WatchInv, BoundInv,
         \/ \E d \in Dir : MakeDir(d) \/ RemoveDir(d)
         \/ \E f \in File : Write(f)
  PROVE  BoundInv'
<1> USE DEF BoundInv
<1>1. Sorts /\ Dir \cup File = Name /\ Root \notin Dir
  BY ConstantsAssumption DEF WatchInv, Name
<1>2. ASSUME NEW d \in Dir, MakeDir(d) PROVE BoundInv'
  <2>1. Len(raw') <= KernelQueue + 1 /\ Full(raw')
    BY <1>1, <1>2, ReportBounded DEF MakeDir
  <2>2. /\ exists' = exists \cup {d}
        /\ UNCHANGED <<version, writes, pushed, watched, known, queue, reporting, errs>>
        /\ UNCHANGED <<closed, cancelled, daemon, mishaps>>
    BY <1>2 DEF MakeDir, watches, channel, errors, loop
  <2>3. LineBound'
    BY <2>1, <2>2 DEF LineBound
  <2>4. DiskBound'
    BY <2>2 DEF DiskBound
  <2> QED BY <2>2, <2>3, <2>4 DEF LoopBound
<1>3. ASSUME NEW d \in Dir, RemoveDir(d) PROVE BoundInv'
  <2>1. /\ exists' = exists \ {d} /\ watched' = watched \ {d}
        /\ mishaps < MaxMishaps /\ mishaps' = mishaps + 1
        /\ pushed' = [f \in File |-> IF DirOf[f] = d THEN version[f] ELSE pushed[f]]
        /\ UNCHANGED <<version, writes, known, raw, queue, reporting, errs>>
        /\ UNCHANGED <<closed, cancelled, daemon>>
    BY <1>3 DEF RemoveDir, channel, errors, loop
  <2>2. mishaps' \in 0 .. MaxMishaps
    BY <2>1, ConstantsAssumption DEF DiskBound
  <2>3. \A f \in File : pushed'[f] <= version[f]
    BY <1>1, <2>1 DEF DiskBound, Sorts
  <2>4. watched' \subseteq exists' \cup {Root} /\ watched' \subseteq known
    BY <1>1, <2>1 DEF DiskBound
  <2>5. DiskBound'
    BY <2>1, <2>2, <2>3, <2>4 DEF DiskBound
  <2>6. LineBound'
    BY <2>1 DEF LineBound
  <2> QED BY <2>1, <2>5, <2>6 DEF LoopBound
<1>4. ASSUME NEW f \in File, Write(f) PROVE BoundInv'
  <2>1. Len(raw') <= KernelQueue + 1 /\ Full(raw')
    BY <1>1, <1>4, ReportBounded DEF Write
  <2>2. /\ writes < MaxWrites /\ writes' = writes + 1
        /\ version' = [version EXCEPT ![f] = @ + 1]
        /\ UNCHANGED <<exists, pushed, watched, known, queue, reporting, errs>>
        /\ UNCHANGED <<closed, cancelled, daemon, mishaps>>
    BY <1>4 DEF Write, watches, channel, errors, loop
  <2>3. \A g \in File : /\ version[g] \in Nat /\ pushed[g] \in Nat
                        /\ pushed[g] <= version[g] /\ version[g] <= writes
    BY <1>1 DEF DiskBound, Sorts
  <2>4. writes \in Nat /\ writes' \in 0 .. MaxWrites
    BY <2>2, ConstantsAssumption DEF DiskBound
  <2>5. \A g \in File : pushed[g] <= version'[g] /\ version'[g] <= writes'
    BY <1>1, <2>2, <2>3, <2>4 DEF Sorts
  <2>6. DiskBound'
    BY <2>2, <2>4, <2>5 DEF DiskBound
  <2>7. LineBound'
    BY <2>1, <2>2 DEF LineBound
  <2> QED BY <2>2, <2>6, <2>7 DEF LoopBound
<1> QED BY <1>2, <1>3, <1>4

LEMMA EventLoopBounded ==
  ASSUME WatchInv, BoundInv, Register \/ Debounce \/ TakeOverflow \/ SendError
  PROVE  BoundInv'
<1> USE DEF BoundInv
<1>1. Sorts
  BY DEF WatchInv
<1>2. UNCHANGED <<world, queue, closed, loop>>
  BY DEF Register, Debounce, TakeOverflow, SendError, channel
<1>3. LoopBound'
  BY <1>2 DEF LoopBound, loop
<1>4. CASE SendError
  <2>1. /\ errs < ErrCapacity /\ reporting' = FALSE /\ errs' = errs + 1
        /\ UNCHANGED <<watches, raw>>
    BY <1>4 DEF SendError
  <2>2. errs' \in 0 .. ErrCapacity
    BY <2>1, ConstantsAssumption DEF LineBound
  <2>3. LineBound'
    BY <1>2, <2>1, <2>2 DEF LineBound
  <2>4. DiskBound'
    BY <1>2, <2>1 DEF DiskBound, world, disk, watches
  <2> QED BY <1>3, <2>3, <2>4
<1>5. CASE Register \/ Debounce \/ TakeOverflow
  <2>1. raw # <<>> /\ raw' = Tail(raw)
    BY <1>5 DEF Register, Debounce, TakeOverflow, Handle
  <2>2. Len(raw') <= KernelQueue + 1 /\ Full(raw')
    BY <1>1, <2>1, TakenBounded
  <2>3. reporting' \in BOOLEAN /\ errs' = errs
    BY <1>5 DEF Register, Debounce, TakeOverflow, LineBound, channel, errors
  <2>4. LineBound'
    BY <1>2, <2>2, <2>3 DEF LineBound
  <2>5. /\ watched' \subseteq exists \cup {Root} /\ watched' \subseteq known'
        /\ known' \subseteq Dir \cup {Root}
    <3>1. CASE Register
      <4>1. /\ Head(raw) \in exists /\ known' = known \cup {Head(raw)}
            /\ watched' = IF Head(raw) \in known THEN watched
                          ELSE watched \cup {Head(raw)}
        BY <3>1 DEF Register, Handle
      <4> QED BY <1>1, <4>1 DEF DiskBound, Sorts
    <3>2. CASE Debounce \/ TakeOverflow
      BY <3>2 DEF Debounce, TakeOverflow, watches, DiskBound
    <3> QED BY <1>5, <3>1, <3>2
  <2>6. DiskBound'
    BY <1>2, <2>5 DEF DiskBound, world, disk
  <2> QED BY <1>3, <2>4, <2>6
<1> QED BY <1>4, <1>5

LEMMA TimersBounded ==
  ASSUME WatchInv, BoundInv, NEW n \in Name, Fire(n) \/ Callback(n) \/ Send(n)
  PROVE  BoundInv'
<1> USE DEF BoundInv
<1>1. /\ UNCHANGED <<world, watches, raw, errors, closed, loop>>
      /\ queue' = queue \/ (queue' = Append(queue, n) /\ Len(queue) < Capacity)
  BY DEF Fire, Callback, Send, channel, HasRoom
<1>2. Len(queue') <= Capacity
  <2>1. queue \in Seq(Name) /\ Len(queue) \in Nat /\ Capacity \in Nat
    BY ConstantsAssumption DEF WatchInv, Sorts
  <2>2. Len(Append(queue, n)) = Len(queue) + 1
    BY <2>1
  <2> QED BY <1>1, <2>1, <2>2 DEF LineBound
<1>3. LineBound'
  BY <1>1, <1>2 DEF LineBound, errors
<1>4. DiskBound' /\ LoopBound'
  BY <1>1 DEF DiskBound, LoopBound, world, disk, watches, loop
<1> QED BY <1>3, <1>4

LEMMA LoopBounded ==
  ASSUME WatchInv, BoundInv,
         \/ CloseChannel \/ Start \/ InitialPush \/ TakeEvent \/ ReadFiles
         \/ TakeError \/ Tick \/ Leave
  PROVE  BoundInv'
<1> USE DEF BoundInv
<1>1. UNCHANGED <<disk, mishaps, raw, reporting>>
  BY DEF CloseChannel, Start, InitialPush, TakeEvent, ReadFiles, TakeError, Tick, Leave,
         world, channel, errors
<1>2. Len(queue') <= Capacity
  <2>1. queue \in Seq(Name) /\ Len(queue) \in Nat /\ Capacity \in Nat
    BY ConstantsAssumption DEF WatchInv, Sorts
  <2>2. queue # <<>> => Len(Tail(queue)) = Len(queue) - 1
    BY <2>1
  <2>3. queue' = queue \/ (queue # <<>> /\ queue' = Tail(queue))
    BY DEF CloseChannel, Start, InitialPush, TakeEvent, ReadFiles, TakeError, Tick, Leave,
           channel
  <2> QED BY <2>1, <2>2, <2>3 DEF LineBound
<1>3. errs' \in 0 .. ErrCapacity
  <2>1. errs' = errs \/ (errs > 0 /\ errs' = errs - 1)
    BY DEF CloseChannel, Start, InitialPush, TakeEvent, ReadFiles, TakeError, Tick, Leave,
           channel, errors
  <2> QED BY <2>1, ConstantsAssumption DEF LineBound
<1>4. LineBound'
  BY <1>1, <1>2, <1>3 DEF LineBound
<1>5. /\ pushed' = pushed \/ pushed' = version
      /\ \/ UNCHANGED watches
         \/ watched' = exists \cup {Root} /\ known' = exists \cup {Root}
  BY DEF CloseChannel, Start, InitialPush, TakeEvent, ReadFiles, TakeError, Tick, Leave, world
<1>6. DiskBound'
  <2>1. \A f \in File : pushed'[f] <= version[f]
    BY <1>5 DEF DiskBound, WatchInv, Sorts
  <2>2. /\ watched' \subseteq exists \cup {Root} /\ watched' \subseteq known'
        /\ known' \subseteq Dir \cup {Root}
    BY <1>5 DEF DiskBound, WatchInv, Sorts, watches
  <2> QED BY <1>1, <2>1, <2>2 DEF DiskBound, disk
<1>7. /\ closed' \in BOOLEAN /\ cancelled' = cancelled
      /\ daemon' \in {daemon, "initial push", "select", "push", "poll", "leaving"}
  BY DEF CloseChannel, Start, InitialPush, TakeEvent, ReadFiles, TakeError, Tick, Leave,
         channel, loop, LoopBound
<1>8. LoopBound'
  BY <1>7 DEF LoopBound
<1> QED BY <1>4, <1>6, <1>8

LEMMA EndBounded ==
  ASSUME BoundInv, Cancel \/ Exit \/ \E n \in Name : SendOnClosed(n)
  PROVE  BoundInv'
<1>1. UNCHANGED <<disk, pushed>> /\ mishaps' \in 0 .. MaxMishaps
  <2>1. UNCHANGED <<disk, pushed>>
    BY DEF Cancel, Exit, SendOnClosed, world
  <2>2. mishaps' = mishaps \/ (mishaps < MaxMishaps /\ mishaps' = mishaps + 1)
    BY DEF Cancel, Exit, SendOnClosed, world
  <2>3. mishaps \in 0 .. MaxMishaps /\ MaxMishaps \in Nat
    BY ConstantsAssumption DEF BoundInv, DiskBound
  <2> QED BY <2>1, <2>2, <2>3
<1>2. CASE Die
  BY <1>1, <1>2, DeathBounded
<1>3. CASE ~Die
  <2>1. cancelled' = TRUE /\ UNCHANGED <<watches, raw, channel, daemon>>
    BY <1>3 DEF Cancel, Exit, SendOnClosed
  <2>2. LineBound'
    BY <2>1 DEF BoundInv, LineBound, channel, errors
  <2>3. DiskBound'
    BY <1>1, <2>1 DEF BoundInv, DiskBound, disk, watches
  <2>4. LoopBound'
    BY <2>1 DEF BoundInv, LoopBound, channel
  <2> QED BY <2>2, <2>3, <2>4 DEF BoundInv
<1> QED BY <1>2, <1>3

LEMMA StepBoundInv == WatchInv /\ BoundInv /\ [Next]_vars => BoundInv'
<1> SUFFICES ASSUME WatchInv, BoundInv, [Next]_vars PROVE BoundInv'
  OBVIOUS
<1>1. CASE UNCHANGED vars
  <2>1. LineBound'
    BY <1>1 DEF vars, channel, errors, BoundInv, LineBound
  <2>2. DiskBound'
    BY <1>1 DEF vars, world, disk, watches, BoundInv, DiskBound
  <2>3. LoopBound'
    BY <1>1 DEF vars, channel, loop, BoundInv, LoopBound
  <2> QED BY <2>1, <2>2, <2>3 DEF BoundInv
<1> QED
  BY <1>1, DiskBounded, EventLoopBounded, TimersBounded, LoopBounded, EndBounded DEF Next

-----------------------------------------------------------------------------
(* The theorems.                                                           *)

(* A change that fsnotify reported and no push has read is never lost      *)
(* between the event loop, the timers, the callbacks, the channel and the  *)
(* daemon's loop, except to the push of the next start.                    *)
THEOREM NoReportForgotten == Spec => []NothingForgotten
<1>1. WatchInv => NothingForgotten
  BY DEF WatchInv, Accounted, Sheltered, NothingForgotten
<1> QED BY <1>1, InitWatchInv, StepWatchInv, PTL DEF Spec

(* The variables keep their types, and the channels, and what the kernel   *)
(* keeps for fsnotify, keep to their capacities, for any capacities and    *)
(* however the event loop, the callbacks and the daemon's loop interleave. *)
THEOREM WatchTypeCorrect == Spec => []TypeOK
<1>1. ASSUME WatchInv, BoundInv PROVE TypeOK
  <2>1. /\ \A f \in File : /\ version[f] \in Nat /\ noticed[f] \in Nat /\ pushed[f] \in Nat
                           /\ noticed[f] <= version[f] /\ pushed[f] <= version[f]
                           /\ version[f] <= writes
        /\ writes \in 0 .. MaxWrites /\ MaxWrites \in Nat
    BY <1>1, ConstantsAssumption
       DEF WatchInv, Sorts, ReportedIsWritten, BoundInv, DiskBound
  <2>2. /\ version \in [File -> 0 .. MaxWrites] /\ noticed \in [File -> 0 .. MaxWrites]
        /\ pushed \in [File -> 0 .. MaxWrites]
    BY <1>1, <2>1 DEF WatchInv, Sorts
  <2>3. raw \in Seq(Name \cup {Overflow})
    BY <1>1 DEF WatchInv, Sorts, Notice
  <2>4. /\ exists \subseteq Dir /\ queue \in Seq(Name)
        /\ entry \in [Name -> {"none", "armed", "fired"}]
        /\ orphan \in [Name -> Nat] /\ begun \in [Name -> Nat] /\ sending \in [Name -> Nat]
    BY <1>1 DEF WatchInv, Sorts, Count
  <2> QED
    BY <1>1, <2>1, <2>2, <2>3, <2>4 DEF BoundInv, LineBound, DiskBound, LoopBound, TypeOK
<1>2. Init => WatchInv /\ BoundInv
  BY InitWatchInv, InitBoundInv
<1>3. WatchInv /\ BoundInv /\ [Next]_vars => WatchInv' /\ BoundInv'
  BY StepWatchInv, StepBoundInv
<1> QED BY <1>1, <1>2, <1>3, PTL DEF Spec
=============================================================================
