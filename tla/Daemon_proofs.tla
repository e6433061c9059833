---------------------------- MODULE Daemon_proofs ---------------------------
(***************************************************************************)
(* What is proved of Daemon, for any number of calls and of processes: its *)
(* types, that a warp has one daemon unless a start went wrong, and that a *)
(* warp that is cut off stays so.                                          *)
(***************************************************************************)
EXTENDS Daemon, TLAPS

ProcStates == {"free", "starting", "up", "dead", "reaped"}
CallStates == [at : {"idle", "spawning", "waiting"}, mine : 0 .. MaxProcs]

LEMMA CallTypes ==
    /\ Idle \in CallStates /\ Idle.at = "idle"
    /\ Spawning \in CallStates /\ Spawning.at = "spawning"
    /\ \A p \in Procs : /\ Waiting(p) \in CallStates
                        /\ Waiting(p).at = "waiting" /\ Waiting(p).mine = p
BY DaemonAssumption DEF Idle, Spawning, Waiting, CallStates, Procs

-----------------------------------------------------------------------------
(* Type correctness *)

\* The end of a call disturbs none of the types.
LEMMA CallIdles ==
    ASSUME TypeOK, NEW c \in Calls, call' = [call EXCEPT ![c] = Idle],
           UNCHANGED <<proc, server, socketFile, tracked, due, calm>>, mishap' \in BOOLEAN
    PROVE  TypeOK'
BY CallTypes DEF TypeOK, CallStates

LEMMA CallType == ASSUME TypeOK, NEW c \in Calls,
                         Begin(c) \/ SpawnFails(c) \/ Spawned(c) \/ Returns(c)
                  PROVE  TypeOK'
<1>1. CASE Begin(c)
  <2>1. mishap' \in BOOLEAN
    BY <1>1, Zenon DEF Begin
  <2> QED  BY <1>1, <2>1, CallTypes DEF Begin, TypeOK, CallStates
<1>2. CASE SpawnFails(c)
  BY <1>2, CallIdles DEF SpawnFails, TypeOK
<1>3. CASE Spawned(c)
  <2>1. PICK p \in Available :
           /\ proc' = [proc EXCEPT ![p] = "starting"] /\ tracked' = p
           /\ call' = [call EXCEPT ![c] = IF socketFile THEN Idle ELSE Waiting(p)]
    BY <1>3 DEF Spawned
  <2>2. UNCHANGED <<server, socketFile, mishap, due, calm>>
    BY <1>3 DEF Spawned
  <2>3. p \in Procs /\ p # server /\ \A o \in Calls : call[o].mine # p
    BY DEF Available
  <2>4. /\ call' \in [Calls -> CallStates]
        /\ \A o \in Calls : call'[o].at = "waiting" =>
              call'[o].mine \in Procs /\ proc'[call'[o].mine] # "free"
    <3>1. \A o \in Calls \ {c} : call'[o] = call[o]
      BY <2>1 DEF TypeOK
    <3>2. call'[c] \in {Idle, Waiting(p)}
      BY <2>1 DEF TypeOK
    <3>3. \A q \in Procs \ {p} : proc'[q] = proc[q]
      BY <2>1 DEF TypeOK
    <3>4. proc'[p] = "starting"
      BY <2>1, <2>3 DEF TypeOK
    <3>5. \A o \in Calls : call[o].at = "waiting" => call[o].mine \in Procs \ {p}
      BY <2>3, DaemonAssumption DEF TypeOK, Procs
    <3> QED  BY <2>1, <2>3, <3>1, <3>2, <3>3, <3>4, <3>5, CallTypes DEF TypeOK, CallStates
  <2> QED  BY <2>1, <2>2, <2>3, <2>4, DaemonAssumption DEF TypeOK, Procs, CallStates
<1>4. CASE LoopEnds(c)
  BY <1>4, CallIdles DEF LoopEnds, TypeOK
<1>5. CASE TimedOut(c)
  <2>1. mishap' \in BOOLEAN
    BY <1>5, Zenon DEF TimedOut
  <2> QED  BY <1>5, <2>1, CallIdles DEF TimedOut
<1> QED  BY <1>1, <1>2, <1>3, <1>4, <1>5 DEF Returns

\* A process that changes its state, but is not freed, disturbs no reference to it.
LEMMA ProcType == ASSUME TypeOK, NEW p \in Procs, Reap(p) \/ Bind(p) \/ Die(p)
                  PROVE  TypeOK'
<1> USE DaemonAssumption DEF Procs
<1>1. CASE Reap(p)
  BY <1>1 DEF Reap, TypeOK
<1>2. CASE Bind(p)
  BY <1>2 DEF Bind, TypeOK
<1>3. CASE Die(p)
  <2>1. socketFile' \in BOOLEAN
    BY <1>3 DEF Die, TypeOK
  <2> QED  BY <1>3, <2>1 DEF Die, TypeOK
<1> QED  BY <1>1, <1>2, <1>3

\* A restart forgets the table and the calls, and keeps what runs at most.
LEMMA RestartType ==
    ASSUME TypeOK, ContainerRestart \/ HostRestart \/ Reboot
    PROVE  TypeOK'
<1>1. /\ tracked' = 0 /\ due' \in BOOLEAN
      /\ call' \in [Calls -> CallStates] /\ \A c \in Calls : call'[c].at = "idle"
  BY CallTypes DEF ContainerRestart, HostRestart, Reboot, Forget
<1>2. CASE ContainerRestart
  <2>1. proc' = [p \in Procs |-> "free"] /\ server' = 0 /\ socketFile' = socketFile /\ calm' = calm
    BY <1>2 DEF ContainerRestart
  <2>2. mishap' \in BOOLEAN
    BY <1>2, Zenon DEF ContainerRestart
  <2> QED  BY <1>1, <2>1, <2>2, DaemonAssumption DEF TypeOK, CallStates
<1>4. CASE Reboot
  <2>1. proc' = [p \in Procs |-> "free"] /\ server' = 0 /\ calm' = calm
    BY <1>4 DEF Reboot
  <2>2. mishap' \in BOOLEAN /\ socketFile' \in BOOLEAN
    BY <1>4, Zenon DEF Reboot
  <2> QED  BY <1>1, <2>1, <2>2, DaemonAssumption DEF TypeOK, CallStates
<1>3. CASE HostRestart
  <2>1. mishap' \in BOOLEAN
    BY <1>3, Zenon DEF HostRestart
  <2>2. proc' = [p \in Procs |-> IF p \in Running THEN proc[p] ELSE "free"]
        /\ UNCHANGED <<server, socketFile, calm>>
    BY <1>3 DEF HostRestart
  <2>3. server # 0 => server \in Running
    BY DaemonAssumption DEF TypeOK, Running, Procs
  <2>4. server # 0 => proc'[server] = "up"
    BY <2>2, <2>3 DEF TypeOK, Running
  <2> QED  BY <1>1, <2>1, <2>2, <2>4, DaemonAssumption DEF TypeOK, CallStates
<1> QED  BY <1>2, <1>3, <1>4

\* The variables of ensure_daemon's world keep their types: in particular a call
\* always waits for a process of this container, and the table names one.
THEOREM DaemonTypes == Spec => []TypeOK
<1>1. Init => TypeOK
  <2> SUFFICES ASSUME Init PROVE TypeOK
    OBVIOUS
  <2>1. /\ socketFile \in BOOLEAN /\ mishap \in BOOLEAN /\ due \in BOOLEAN
        /\ calm \in BOOLEAN
    BY Zenon DEF Init
  <2>2. \A c \in Calls : call[c] = Idle
    BY DEF Init
  <2>3. call \in [Calls -> CallStates]
    BY CallTypes DEF Init
  <2>4. /\ proc = [p \in Procs |-> "free"]
        /\ server = 0 /\ tracked = 0
    BY DEF Init
  <2> QED  BY <2>1, <2>2, <2>3, <2>4, CallTypes, DaemonAssumption DEF TypeOK, CallStates
<1>2. TypeOK /\ [Next]_vars => TypeOK'
  <2> SUFFICES ASSUME TypeOK, [Next]_vars PROVE TypeOK'
    OBVIOUS
  <2>1. CASE Calm
    <3>1. calm' \in BOOLEAN
      BY <2>1, Zenon DEF Calm
    <3> QED  BY <2>1, <3>1 DEF Calm, TypeOK
  <2>6. CASE Turn
    <3>1. due' \in BOOLEAN
      BY <2>6, Zenon DEF Turn
    <3> QED  BY <2>6, <3>1 DEF Turn, TypeOK
  <2>2. CASE UNCHANGED vars
    BY <2>2 DEF vars, TypeOK
  <2>3. ASSUME NEW c \in Calls, Begin(c) \/ SpawnFails(c) \/ Spawned(c) \/ Returns(c)
        PROVE  TypeOK'
    BY <2>3, CallType
  <2>4. ASSUME NEW p \in Procs, Reap(p) \/ Bind(p) \/ Die(p) PROVE TypeOK'
    BY <2>4, ProcType
  <2>5. CASE ContainerRestart \/ HostRestart \/ Reboot
    BY <2>5, RestartType
  <2> QED  BY <2>1, <2>2, <2>3, <2>4, <2>5, <2>6, Zenon DEF Next
<1> QED  BY <1>1, <1>2, PTL DEF Spec

-----------------------------------------------------------------------------
(* One daemon *)

\* At most one call is under way,
Single == \A c, o \in Calls : call[c].at # "idle" /\ call[o].at # "idle" => c = o

\* nothing runs while it spawns,
Alone == \A c \in Calls : call[c].at = "spawning" => Running = {}

\* a daemon that serves has its socket file,
Bound == server # 0 => socketFile

\* and what runs is either found by the checks or waited for.
Known ==
    \A p \in Running :
        \/ socketFile /\ tracked \in {0, p}
        \/ /\ tracked = p
           /\ \E c \in Calls : call[c].at = "waiting" /\ call[c].mine = p

Regular == Single /\ Alone /\ Bound /\ Known /\ \A p, q \in Running : p = q

\* All that holds as long as no start went wrong.
DaemonInv == ~mishap => Regular

\* One lemma for each kind of step; where nothing is assumed of it the step
\* starts from a state in which no start went wrong.
LEMMA BeginRegular ==
    ASSUME TypeOK, Regular, NEW c \in Calls, Begin(c), ~mishap'
    PROVE  Regular'
<1>1. \A o \in Calls : call[o].at = "idle"
  BY Zenon DEF Begin
<1>2. ~Trusts /\ UNCHANGED <<proc, server, socketFile, tracked>>
  BY DEF Begin
<1>3. Running = {}
  <2> SUFFICES ASSUME NEW p \in Running PROVE FALSE
    OBVIOUS
  <2>1. socketFile /\ tracked \in {0, p}
    BY <1>1 DEF Regular, Known
  <2>2. proc[p] # "reaped"
    BY DEF Running
  <2> QED  BY <1>2, <2>1, <2>2 DEF Trusts
<1>4. Running' = {}
  BY <1>2, <1>3 DEF Running
<1>5. \A o \in Calls \ {c} : call'[o].at = "idle"
  BY <1>1 DEF Begin, TypeOK
<1>6. Single'
  BY <1>5 DEF Single
<1> QED  BY <1>2, <1>4, <1>6 DEF Regular, Alone, Bound, Known

LEMMA SpawnedRegular ==
    ASSUME TypeOK, Regular, NEW c \in Calls, Spawned(c)
    PROVE  Regular'
<1>1. PICK p \in Available :
         /\ proc' = [proc EXCEPT ![p] = "starting"] /\ tracked' = p
         /\ call' = [call EXCEPT ![c] = IF socketFile THEN Idle ELSE Waiting(p)]
  BY DEF Spawned
<1>2. UNCHANGED <<server, socketFile>> /\ call[c].at = "spawning"
  BY DEF Spawned
<1>3. p \in Procs /\ p # server
  BY DEF Available
<1>4. Running = {} /\ \A o \in Calls \ {c} : call[o].at = "idle"
  BY <1>2 DEF Regular, Alone, Single, TypeOK
<1>5. Running' = {p}
  BY <1>1, <1>3, <1>4 DEF Running, TypeOK
<1>6. \A o \in Calls \ {c} : call'[o].at = "idle"
  BY <1>1, <1>4 DEF TypeOK
<1>7. call'[c] = IF socketFile THEN Idle ELSE Waiting(p)
  BY <1>1 DEF TypeOK
<1>8. Known'
  <2>1. CASE socketFile
    BY <1>1, <1>2, <1>5, <2>1 DEF Known
  <2>2. CASE ~socketFile
    BY <1>1, <1>3, <1>5, <1>7, <2>2, CallTypes DEF Known
  <2> QED  BY <2>1, <2>2
<1>9. Single' /\ Alone'
  BY <1>3, <1>6, <1>7, CallTypes DEF Single, Alone
<1> QED  BY <1>2, <1>5, <1>8, <1>9 DEF Regular, Bound

\* A call that ends leaves no running process behind that nobody knows of.
LEMMA EndRegular ==
    ASSUME TypeOK, Regular, NEW c \in Calls, call' = [call EXCEPT ![c] = Idle],
           UNCHANGED <<proc, server, socketFile, tracked>>,
           call[c].at = "waiting" => socketFile \/ call[c].mine \notin Running
    PROVE  Regular'
<1>1. Running' = Running
  BY DEF Running
<1>2. \A o \in Calls : call'[o] = IF o = c THEN Idle ELSE call[o]
  BY DEF TypeOK
<1>3. Single' /\ Alone'
  BY <1>1, <1>2, CallTypes DEF Regular, Single, Alone
<1>4. Known'
  <2> SUFFICES ASSUME NEW p \in Running
               PROVE  \/ socketFile /\ tracked \in {0, p}
                      \/ /\ tracked = p
                         /\ \E o \in Calls : call'[o].at = "waiting" /\ call'[o].mine = p
    BY <1>1 DEF Known
  <2>1. CASE socketFile /\ tracked \in {0, p}
    BY <2>1
  <2>2. CASE tracked = p /\ \E o \in Calls : call[o].at = "waiting" /\ call[o].mine = p
    BY <1>2, <2>2
  <2> QED  BY <2>1, <2>2 DEF Regular, Known
<1> QED  BY <1>1, <1>3, <1>4 DEF Regular, Bound

LEMMA CallRegular ==
    ASSUME TypeOK, Regular, NEW c \in Calls, SpawnFails(c) \/ Returns(c), ~mishap'
    PROVE  Regular'
<1>1. CASE SpawnFails(c)
  BY <1>1, EndRegular DEF SpawnFails
<1>2. CASE LoopEnds(c)
  <2>1. socketFile \/ call[c].mine \notin Running
    BY <1>2 DEF LoopEnds, Running
  <2> QED  BY <1>2, <2>1, EndRegular DEF LoopEnds
<1>3. CASE TimedOut(c)
  <2>1. call[c].mine \notin Running
    BY <1>3, Zenon DEF TimedOut
  <2> QED  BY <1>3, <2>1, EndRegular DEF TimedOut
<1> QED  BY <1>1, <1>2, <1>3 DEF Returns

LEMMA ProcRegular ==
    ASSUME TypeOK, Regular, NEW p \in Procs, Reap(p) \/ Bind(p) \/ Die(p)
    PROVE  Regular'
<1>1. call' = call /\ tracked' = tracked
  BY DEF Reap, Bind, Die
<1>2. Running' \subseteq Running
  BY DEF Reap, Bind, Die, Running, TypeOK
<1>3. Single' /\ Alone' /\ \A q, r \in Running' : q = r
  BY <1>1, <1>2 DEF Regular, Single, Alone
<1>4. CASE Reap(p)
  BY <1>1, <1>2, <1>3, <1>4 DEF Reap, Regular, Known, Bound
<1>5. CASE Bind(p)
  <2>1. socketFile' = TRUE
    BY <1>5 DEF Bind
  <2> QED  BY <1>1, <1>2, <1>3, <2>1 DEF Regular, Known, Bound
<1>6. CASE Die(p)
  <2>1. Running' = {}
    BY <1>3, <1>6 DEF Die, Running, Regular, TypeOK
  <2>2. server' # 0 => server' = server /\ proc[p] # "up"
    <3>1. server # p => server \notin Running \/ server = 0
      BY <1>6 DEF Die, Regular
    <3>2. server # 0 => server \in Running
      BY DaemonAssumption DEF TypeOK, Running, Procs
    <3> QED  BY <1>6, <3>1, <3>2 DEF Die
  <2>3. Bound'
    BY <1>6, <2>2 DEF Die, Regular, Bound
  <2> QED  BY <1>3, <2>1, <2>3 DEF Regular, Known
<1> QED  BY <1>4, <1>5, <1>6

\* After a restart nothing runs, or the one that serves, which has its file.
LEMMA RestartRegular ==
    ASSUME TypeOK, ContainerRestart \/ HostRestart \/ Reboot, ~mishap',
           HostRestart => DaemonInv
    PROVE  Regular'
<1>1. tracked' = 0 /\ \A c \in Calls : call'[c].at = "idle"
  BY CallTypes DEF ContainerRestart, HostRestart, Reboot, Forget
<1>2. Single' /\ Alone'
  BY <1>1 DEF Single, Alone
<1>3. CASE ContainerRestart \/ Reboot
  <2>1. Running' = {} /\ server' = 0
    BY <1>3 DEF ContainerRestart, Reboot, Running
  <2> QED  BY <1>2, <2>1 DEF Regular, Known, Bound
<1>4. CASE HostRestart
  <2>1. ~mishap /\ \A p \in Running : server = p
    BY <1>4, Zenon DEF HostRestart
  <2>2. UNCHANGED <<server, socketFile>>
    BY <1>4 DEF HostRestart
  <2>3. Running' \subseteq Running
    BY <1>4 DEF HostRestart, Running
  <2>4. \A p \in Running : socketFile
    BY <1>4, <2>1 DEF DaemonInv, Regular, Bound, Running, Procs
  <2>5. Known'
    BY <1>1, <2>2, <2>3, <2>4 DEF Known
  <2> QED  BY <1>2, <1>4, <2>1, <2>2, <2>3, <2>5 DEF DaemonInv, Regular, Bound
<1> QED  BY <1>3, <1>4

\* A warp has one daemon as long as no start overlapped another, timed out or was
\* orphaned: socket files that are stale, deaths and restarts alone never make
\* ensure_daemon start a second one.
THEOREM OneDaemonAlways == Spec => []OneDaemon
<1>1. Init => DaemonInv
  BY CallTypes DEF Init, DaemonInv, Regular, Single, Alone, Bound, Known, Running
<1>2. TypeOK /\ DaemonInv /\ [Next]_vars => DaemonInv'
  <2> SUFFICES ASSUME TypeOK, DaemonInv, [Next]_vars, ~mishap' PROVE Regular'
    BY DEF DaemonInv
  <2>1. CASE UNCHANGED vars
    BY <2>1 DEF vars, DaemonInv, Regular, Single, Alone, Bound, Known, Running
  <2>2. CASE Calm \/ Turn
    BY <2>2 DEF Calm, Turn, DaemonInv, Regular, Single, Alone, Bound, Known, Running
  <2>3. ASSUME NEW c \in Calls, Begin(c) PROVE Regular'
    <3>1. ~mishap
      BY <2>3, Zenon DEF Begin
    <3> QED  BY <2>3, <3>1, BeginRegular DEF DaemonInv
  <2>4. ASSUME NEW c \in Calls, SpawnFails(c) \/ Returns(c) PROVE Regular'
    <3>1. ~mishap
      BY <2>4, Zenon DEF SpawnFails, Returns, LoopEnds, TimedOut
    <3> QED  BY <2>4, <3>1, CallRegular DEF DaemonInv
  <2>5. ASSUME NEW c \in Calls, Spawned(c) PROVE Regular'
    <3>1. ~mishap
      BY <2>5 DEF Spawned
    <3> QED  BY <2>5, <3>1, SpawnedRegular DEF DaemonInv
  <2>6. ASSUME NEW p \in Procs, Reap(p) \/ Bind(p) \/ Die(p) PROVE Regular'
    <3>1. ~mishap
      BY <2>6 DEF Reap, Bind, Die
    <3> QED  BY <2>6, <3>1, ProcRegular DEF DaemonInv
  <2>7. CASE ContainerRestart \/ HostRestart \/ Reboot
    BY <2>7, RestartRegular
  <2> QED  BY <2>1, <2>2, <2>3, <2>4, <2>5, <2>6, <2>7, Zenon DEF Next
<1>3. DaemonInv => OneDaemon
  BY DEF DaemonInv, Regular, OneDaemon
<1> QED  BY <1>1, <1>2, <1>3, DaemonTypes, PTL DEF Spec

-----------------------------------------------------------------------------
(* Cut off *)

\* A warp whose socket file outlived its daemon is cut off for good: no call of
\* ensure_daemon and no restart of the container changes that, only the removal
\* of the file or the death of the process in the table.
THEOREM StaysCutOff == Spec => CutOffForGood
<1>1. TypeOK /\ [Next]_vars =>
         (CutOff => CutOff' \/ ~socketFile' \/ (tracked # 0 /\ proc'[tracked] = "dead"))
  <2> SUFFICES ASSUME TypeOK, [Next]_vars, CutOff, socketFile',
                      tracked # 0 => proc'[tracked] # "dead"
               PROVE  CutOff'
    OBVIOUS
  <2>1. /\ socketFile /\ server = 0
        /\ tracked = 0 \/ proc[tracked] = "up"
        /\ \A p \in Procs : proc[p] # "starting"
        /\ \A c \in Calls : call[c].at = "idle"
    BY DEF CutOff
  <2>2. CASE UNCHANGED vars
    BY <2>2 DEF vars, CutOff
  <2>3. CASE Calm \/ Turn
    BY <2>3 DEF Calm, Turn, CutOff
  <2>4. ASSUME NEW c \in Calls,
               Begin(c) \/ SpawnFails(c) \/ Spawned(c) \/ Returns(c)
        PROVE  FALSE
    BY <2>1, <2>4 DEF Begin, Trusts, SpawnFails, Spawned, Returns, LoopEnds, TimedOut
  <2>5. ASSUME NEW p \in Procs, Reap(p) \/ Bind(p) \/ Die(p) PROVE CutOff'
    <3>1. ~Bind(p)
      BY <2>1 DEF Bind
    <3>2. UNCHANGED <<tracked, call>> /\ server' = 0
      BY <2>1, <2>5, <3>1 DEF Reap, Die
    <3>3. /\ \A q \in Procs : proc'[q] # "starting"
          /\ tracked # 0 => proc'[tracked] = "up"
      <4>1. proc' \in {[proc EXCEPT ![p] = "reaped"], [proc EXCEPT ![p] = "dead"]}
        BY <2>5, <3>1 DEF Reap, Die
      <4>2. tracked # 0 => tracked \in Procs
        BY DaemonAssumption DEF TypeOK, Procs
      <4>3. \A q \in Procs : proc'[q] # proc[q] => q = p /\ proc'[q] \in {"reaped", "dead"}
        BY <4>1 DEF TypeOK
      <4>4. proc[p] = "up" => proc'[p] # "reaped"
        BY <2>5, <3>1 DEF Reap, Die, TypeOK
      <4> QED  BY <2>1, <4>2, <4>3, <4>4
    <3> QED  BY <2>1, <3>2, <3>3 DEF CutOff
  <2>6. CASE ContainerRestart \/ HostRestart \/ Reboot
    <3>1. /\ tracked' = 0 /\ server' = 0
          /\ \A c \in Calls : call'[c].at = "idle"
          /\ \A p \in Procs : proc'[p] # "starting"
      BY <2>1, <2>6, CallTypes DEF ContainerRestart, HostRestart, Reboot, Forget, Running
    <3> QED  BY <3>1 DEF CutOff
  <2> QED  BY <2>2, <2>3, <2>4, <2>5, <2>6, Zenon DEF Next
<1> QED  BY <1>1, DaemonTypes, PTL DEF Spec, CutOffForGood
=============================================================================
