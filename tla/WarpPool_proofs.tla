--------------------------- MODULE WarpPool_proofs --------------------------
(***************************************************************************)
(* What is proved of WarpPool for every size of the pool, every threshold  *)
(* and every bound: type correctness, NoHiddenWarp, and that the pool      *)
(* implements ReadyBoard.                                                  *)
(***************************************************************************)
EXTENDS WarpPool, TLAPS

\* The board's own theorems, about the pool's variables.
Safe == INSTANCE ReadyBoard_proofs WITH announced <- BurstOver

-----------------------------------------------------------------------------
(* The operators *)

LEMMA LeastOf ==
    ASSUME NEW n \in Nat, NEW S, S \subseteq 1 .. n, S # {}
    PROVE  Least(S) \in S /\ \A y \in S : Least(S) <= y
<1>1. NumWarps \in Nat \ {0}
  BY PoolAssumption
<1>2. Least(S) = Safe!Least(S)
  BY DEF Least, Safe!Least
<1> QED  BY <1>1, <1>2, Safe!LeastIndex

LEMMA LeastWarp ==
    ASSUME NEW S, S \subseteq Warps, S # {}
    PROVE  Least(S) \in S /\ \A y \in S : Least(S) <= y
BY LeastOf, PoolAssumption DEF Warps

\* Spawning boot tasks keeps the task table well formed.
LEMMA SpawnType ==
    ASSUME TypeOK, NEW S
    PROVE  Spawn(S) \in [Tasks -> TaskStates]
<1>1. Booting \in TaskStates
  BY PoolAssumption DEF Booting, TaskStates
<1> QED  BY <1>1 DEF Spawn, TypeOK

\* The head of the scheduler's loop leads to a sleep of at most one interval,
\* or to the end.
LEMMA LoopHeadType ==
    ASSUME NEW known, NEW age \in 0 .. RegInterval
    PROVE  /\ LoopHead(known, age) \in SchedStates
           /\ LoopHead(known, age).pc \in {"sleep", "done"}
           /\ LoopHead(known, age).pc = "sleep" => known # Warps
BY PoolAssumption DEF LoopHead, SchedStates, BurstPcs, At, Sleep

LEMMA AtType ==
    ASSUME NEW w \in Warps,
           NEW pc \in {"initDaemon", "initNew", "initPoll", "loopDaemon", "loopNew"}
    PROVE  /\ At(pc, w) \in SchedStates
           /\ At(pc, w).pc = pc /\ At(pc, w).warp \in Warps
BY PoolAssumption DEF At, SchedStates, BurstPcs, Warps

\* What ContinueBurst establishes, given the variables its caller has set.
LEMMA ContinueBurstType ==
    ASSUME TypeOK, NEW from, ContinueBurst(from), regAge' \in 0 .. RegInterval
    PROVE  /\ readyEvent' \in BOOLEAN
           /\ retrying' \in BOOLEAN
           /\ task' \in [Tasks -> TaskStates]
           /\ sched' \in SchedStates
           /\ sched'.pc \notin {"start", "sleep", "done", "lost", "dead"} => sched'.warp \in Warps
           /\ sched'.pc = "sleep" => registeredNow' # Warps
<1>1. CASE Burst(from, registeredNow') # {}
  <2>1. Least(Burst(from, registeredNow')) \in Warps
    BY <1>1, LeastWarp DEF Burst
  <2>2. sched' = At("initDaemon", Least(Burst(from, registeredNow')))
    BY <1>1 DEF ContinueBurst
  <2>3. UNCHANGED <<readyEvent, task, retrying>>
    BY <1>1 DEF ContinueBurst
  <2> QED  BY <2>1, <2>2, <2>3, AtType DEF TypeOK
<1>2. CASE Burst(from, registeredNow') = {}
  <2>1. sched' = LoopHead(registeredNow', regAge')
    BY <1>2 DEF ContinueBurst
  <2>2. /\ readyEvent' \in BOOLEAN /\ retrying' \in BOOLEAN
        /\ task' \in [Tasks -> TaskStates]
    BY <1>2, SpawnType DEF ContinueBurst, TypeOK
  <2> QED  BY <2>1, <2>2, LoopHeadType
<1> QED  BY <1>1, <1>2

LEMMA ResultTypes ==
    ASSUME NEW w
    PROVE  PollResult(w) \subseteq BOOLEAN /\ RegisterResult(w) \subseteq BOOLEAN
BY DEF PollResult, RegisterResult

-----------------------------------------------------------------------------
(* Type correctness *)

LEMMA InitType == Init => TypeOK
<1> SUFFICES ASSUME Init PROVE TypeOK
  OBVIOUS
<1> USE PoolAssumption
<1>1. At("start", 0) \in SchedStates /\ At("start", 0).pc = "start"
  BY DEF At, SchedStates, BurstPcs
<1>2. Idle \in TaskStates
  BY DEF Idle, TaskStates
<1>3. 1 \in Warps
  BY DEF Warps
<1>4. ready \in [Warps -> BOOLEAN] /\ failCount \in [Warps -> 0 .. StaleThreshold]
  BY DEF Init
<1>5. healAge \in [Warps -> 0 .. HealCooldown]
  BY DEF Init
<1>6. recheck \in [Warps -> [queued : Nat, polling : Nat]]
  BY DEF Init
<1>7. task \in [Tasks -> TaskStates]
  BY <1>2 DEF Init
<1>8. sched = At("start", 0)
  BY DEF Init
<1>9. sched \in SchedStates /\ sched.pc = "start"
  BY <1>1, <1>8
<1>10. active \in Warps /\ reopening \in 0 .. NumWarps /\ regAge \in 0 .. RegInterval
  BY <1>3 DEF Init
<1>11. /\ reg \in [Warps -> BOOLEAN] /\ readyEvent \in BOOLEAN
       /\ registeredNow \in SUBSET Warps /\ retrying \in BOOLEAN /\ calm \in BOOLEAN
  BY Zenon DEF Init
<1>12. late \in SUBSET ({"new", "delete"} \X Warps)
  BY DEF Init
<1> QED  BY <1>4, <1>5, <1>6, <1>7, <1>9, <1>10, <1>11, <1>12 DEF TypeOK

\* Saturated counters stay within their bound.
LEMMA UptoType ==
    ASSUME NEW n \in Nat, NEW bound \in Nat
    PROVE  Upto(n, bound) \in 0 .. bound
BY DEF Upto

LEMMA AgeType ==
    ASSUME NEW bound \in Nat, NEW n \in 0 .. bound
    PROVE  Upto(n + 1, bound) \in 0 .. bound
BY UptoType

\* What the helpers of the boot and heal steps do to the tasks and to readiness.
LEMMA TaskType ==
    ASSUME TypeOK, NEW t \in Tasks
    PROVE  /\ t[1] \in Warps /\ task[t] \in TaskStates
           /\ task[t].second \in BOOLEAN /\ task[t].age \in 0 .. HealCooldown
BY DEF TypeOK, Tasks, TaskStates

LEMMA GotoType ==
    ASSUME TypeOK, NEW t \in Tasks, NEW stage \in {"delete", "new", "reboot"},
           NEW second \in BOOLEAN, NEW age \in 0 .. HealCooldown,
           Goto(t, stage, second, age)
    PROVE  task' \in [Tasks -> TaskStates]
<1>1. [at |-> stage, second |-> second, age |-> age] \in TaskStates
  BY DEF TaskStates
<1> QED  BY <1>1 DEF Goto, TypeOK

LEMMA EndType ==
    ASSUME TypeOK, NEW t \in Tasks, End(t)
    PROVE  task' \in [Tasks -> TaskStates]
<1>1. Idle \in TaskStates
  BY PoolAssumption DEF Idle, TaskStates
<1> QED  BY <1>1 DEF End, TypeOK

LEMMA SettleType ==
    ASSUME TypeOK, NEW w \in Warps, NEW ok \in BOOLEAN, Settle(w, ok)
    PROVE  ready' \in [Warps -> BOOLEAN] /\ readyEvent' \in BOOLEAN
BY DEF Settle, TypeOK

\* The registration commands somebody may have given up.
LateCommands == {"new", "delete"} \X Warps

LEMMA LingerType ==
    ASSUME TypeOK, NEW cmd \in {"new", "delete"}, NEW w \in Warps, MayLinger(cmd, w)
    PROVE  late' \in SUBSET LateCommands
BY DEF MayLinger, TypeOK, LateCommands

\* One step of the scheduler keeps the types.
LEMMA SchedulerType == TypeOK /\ Scheduler => TypeOK'
<1> SUFFICES ASSUME TypeOK, Scheduler PROVE TypeOK'
  OBVIOUS
<1> USE PoolAssumption
<1>1. CASE SchedStart
  <2>1. /\ registeredNow' \in SUBSET Warps /\ ContinueBurst(1)
        /\ UNCHANGED <<identity, ready, failCount, timers, rotation, calm>>
    BY <1>1 DEF SchedStart
  <2> QED  BY <2>1, ContinueBurstType DEF TypeOK, identity, timers, rotation
<1>2. CASE InitDaemon
  <2>1. UNCHANGED <<identity, ready, failCount, timers, rotation, registeredNow, calm>>
    BY <1>2 DEF InitDaemon
  <2>2. CASE sched' = At("initNew", sched.warp) /\ UNCHANGED <<readyEvent, task, retrying>>
    <3>1. sched.warp \in Warps
      BY <1>2 DEF InitDaemon, TypeOK
    <3> QED  BY <2>1, <2>2, <3>1, AtType DEF TypeOK, identity, timers, rotation
  <2>3. CASE ContinueBurst(sched.warp + 1)
    BY <2>1, <2>3, ContinueBurstType DEF TypeOK, identity, timers, rotation
  <2> QED  BY <1>2, <2>2, <2>3 DEF InitDaemon
<1>3. CASE InitRegister
  <2>1. UNCHANGED <<reg, ready, failCount, healAge, rotation, calm>>
    BY <1>3 DEF InitRegister
  <2>2. sched.warp \in Warps
    BY <1>3 DEF InitRegister, TypeOK
  <2>5. late' \in SUBSET LateCommands
    BY <1>3, <2>2, LingerType DEF InitRegister
  <2>3. CASE /\ registeredNow' = registeredNow \cup {sched.warp} /\ regAge' = 0
             /\ sched' = At("initPoll", sched.warp)
             /\ UNCHANGED <<readyEvent, task, retrying>>
    BY <2>1, <2>2, <2>3, <2>5, AtType DEF TypeOK, LateCommands, rotation
  <2>4. CASE UNCHANGED <<registeredNow, regAge>> /\ ContinueBurst(sched.warp + 1)
    BY <2>1, <2>4, <2>5, ContinueBurstType DEF TypeOK, LateCommands, rotation
  <2> QED  BY <1>3, <2>3, <2>4 DEF InitRegister
<1>4. CASE InitPoll
  <2>1. /\ UNCHANGED <<identity, failCount, timers, rotation, registeredNow, calm>>
        /\ ContinueBurst(sched.warp + 1)
    BY <1>4 DEF InitPoll
  <2>2. ready' \in [Warps -> BOOLEAN]
    BY <1>4, ResultTypes DEF InitPoll, TypeOK
  <2> QED  BY <2>1, <2>2, ContinueBurstType DEF TypeOK, identity, timers, rotation
<1>5. CASE Wake
  <2>1. /\ UNCHANGED <<identity, ready, failCount, timers, rotation, readyEvent, registeredNow,
                       retrying, task, calm>>
        /\ sched' = At("loopDaemon", Least(Warps \ registeredNow))
    BY <1>5 DEF Wake
  <2>2. Least(Warps \ registeredNow) \in Warps
    <3>1. registeredNow \subseteq Warps /\ registeredNow # Warps
      BY <1>5 DEF Wake, TypeOK
    <3>2. Warps \ registeredNow # {} /\ Warps \ registeredNow \subseteq Warps
      BY <3>1
    <3> QED  BY <3>2, LeastWarp
  <2> QED  BY <2>1, <2>2, AtType DEF TypeOK, identity, timers, rotation
<1>6. CASE LoopDaemon
  <2>1. UNCHANGED <<identity, ready, failCount, timers, rotation, readyEvent, registeredNow,
                    retrying, task, calm>>
    BY <1>6 DEF LoopDaemon
  <2>2. CASE sched' = At("loopNew", sched.warp)
    <3>1. sched.warp \in Warps
      BY <1>6 DEF LoopDaemon, TypeOK
    <3> QED  BY <2>1, <2>2, <3>1, AtType DEF TypeOK, identity, timers, rotation
  <2>3. CASE sched' = LoopHead(registeredNow, regAge)
    BY <2>1, <2>3, LoopHeadType DEF TypeOK, identity, timers, rotation
  <2> QED  BY <1>6, <2>2, <2>3 DEF LoopDaemon
<1>7. CASE LoopRegister
  <2>1. /\ UNCHANGED <<reg, ready, failCount, healAge, rotation, readyEvent, retrying, calm>>
        /\ sched' = LoopHead(registeredNow', regAge')
    BY <1>7 DEF LoopRegister
  <2>3. late' \in SUBSET LateCommands
    <3>1. sched.warp \in Warps
      BY <1>7 DEF LoopRegister, TypeOK
    <3> QED  BY <1>7, <3>1, LingerType DEF LoopRegister
  <2>2. /\ registeredNow' \in SUBSET Warps /\ regAge' \in 0 .. RegInterval
        /\ task' \in [Tasks -> TaskStates]
    <3>1. sched.warp \in Warps
      BY <1>7 DEF LoopRegister, TypeOK
    <3> QED  BY <1>7, <3>1, SpawnType DEF LoopRegister, TypeOK
  <2> QED  BY <2>1, <2>2, <2>3, LoopHeadType DEF TypeOK, LateCommands, rotation
<1>8. CASE SchedulerDies
  <2>1. UNCHANGED <<identity, ready, failCount, timers, rotation, readyEvent, registeredNow,
                    retrying, task, calm>>
    BY <1>8 DEF SchedulerDies
  <2>2. sched' \in SchedStates /\ sched'.pc \in {"lost", "dead"}
    BY <1>8 DEF SchedulerDies, At, SchedStates, BurstPcs
  <2> QED  BY <2>1, <2>2 DEF TypeOK, identity, timers, rotation
<1> QED  BY <1>1, <1>2, <1>3, <1>4, <1>5, <1>6, <1>7, <1>8 DEF Scheduler

\* One step of a boot task keeps the types.
LEMMA BootType == ASSUME TypeOK, NEW t \in Tasks, Boot(t) PROVE TypeOK'
<1> USE PoolAssumption
<1>1. \A n \in {1, 2} :
         [failCount EXCEPT ![t[1]] = Upto(failCount[t[1]] + n, StaleThreshold)]
            \in [Warps -> 0 .. StaleThreshold]
  <2> TAKE n \in {1, 2}
  <2>1. failCount \in [Warps -> 0 .. StaleThreshold] /\ t[1] \in Warps
    BY TaskType DEF TypeOK
  <2>2. failCount[t[1]] \in 0 .. StaleThreshold
    BY <2>1
  <2>3. failCount[t[1]] + n \in Nat
    BY <2>2
  <2>4. Upto(failCount[t[1]] + n, StaleThreshold) \in 0 .. StaleThreshold
    BY <2>3, UptoType
  <2> QED  BY <2>1, <2>4
<1>2. CASE BootNoDaemon(t)
  <2>1. /\ ready' = [ready EXCEPT ![t[1]] = FALSE] /\ End(t)
        /\ failCount' \in [Warps -> 0 .. StaleThreshold]
        /\ UNCHANGED <<identity, timers, rotation, readyEvent, registeredNow, sched, retrying, calm>>
    BY <1>1, <1>2 DEF BootNoDaemon
  <2>2. ready' \in [Warps -> BOOLEAN]
    BY <2>1 DEF TypeOK
  <2> QED  BY <2>1, <2>2, EndType DEF TypeOK, identity, timers, rotation
<1>3. CASE BootConnected(t)
  <2>1. /\ Settle(t[1], TRUE) /\ End(t) /\ failCount' = [failCount EXCEPT ![t[1]] = 0]
        /\ UNCHANGED <<identity, timers, rotation, registeredNow, sched, retrying, calm>>
    BY <1>3 DEF BootConnected
  <2>2. 0 \in 0 .. StaleThreshold
    OBVIOUS
  <2>3. failCount' \in [Warps -> 0 .. StaleThreshold]
    BY <2>1, <2>2 DEF TypeOK
  <2> QED  BY <2>1, <2>3, EndType, SettleType, TaskType DEF TypeOK, identity, timers, rotation
<1>4. CASE BootFailed(t)
  <2>1. /\ Settle(t[1], FALSE)
        /\ UNCHANGED <<identity, timers, rotation, registeredNow, sched, retrying, calm>>
    BY <1>4 DEF BootFailed
  <2>2. failCount' \in [Warps -> 0 .. StaleThreshold]
    BY <1>1, <1>4 DEF BootFailed
  <2>3. End(t) \/ \E second \in BOOLEAN : Goto(t, "delete", second, 0)
    BY <1>4 DEF BootFailed
  <2>4. task' \in [Tasks -> TaskStates]
    BY <2>3, EndType, GotoType
  <2> QED  BY <2>1, <2>2, <2>4, SettleType, TaskType DEF TypeOK, identity, timers, rotation
<1>5. CASE BootRaises(t)
  <2>1. /\ End(t)
        /\ UNCHANGED <<identity, ready, failCount, timers, rotation, readyEvent, registeredNow,
                       sched, retrying, calm>>
    BY <1>5 DEF BootRaises
  <2> QED  BY <2>1, EndType DEF TypeOK, identity, timers, rotation
<1> QED  BY <1>2, <1>3, <1>4, <1>5 DEF Boot

\* One step of a heal keeps the types.
LEMMA HealType == ASSUME TypeOK, NEW t \in Tasks, Heal(t) PROVE TypeOK'
<1> USE PoolAssumption
<1>1. /\ t[1] \in Warps /\ task[t].second \in BOOLEAN
      /\ task[t].age \in 0 .. HealCooldown
  BY TaskType
<1>2. CASE HealDelete(t)
  <2>1. /\ Goto(t, "new", task[t].second, task[t].age)
        /\ UNCHANGED <<ready, failCount, timers, rotation, readyEvent, registeredNow,
                       sched, retrying, calm>>
    BY <1>2 DEF HealDelete
  <2>2. reg' \in [Warps -> BOOLEAN]
    BY <1>2 DEF HealDelete, TypeOK
  <2>3. late' \in SUBSET LateCommands
    <3>1. CASE late' = late
      BY <3>1 DEF TypeOK, LateCommands
    <3> QED  BY <1>1, <1>2, <3>1, LingerType DEF HealDelete
  <2> QED  BY <1>1, <2>1, <2>2, <2>3, GotoType DEF TypeOK, LateCommands, timers, rotation
<1>3. CASE HealDone(t)
  <2>1. /\ Goto(t, "reboot", task[t].second, 0) /\ regAge' = 0
        /\ UNCHANGED <<reg, ready, rotation, readyEvent, registeredNow, sched, retrying, calm>>
    BY <1>3 DEF HealDone
  <2>2. /\ healAge' \in [Warps -> 0 .. HealCooldown]
        /\ failCount' \in [Warps -> 0 .. StaleThreshold]
    BY <1>1, <1>3 DEF HealDone, TypeOK
  <2>4. late' \in SUBSET LateCommands
    BY <1>1, <1>3, LingerType DEF HealDone
  <2>3. 0 \in 0 .. HealCooldown /\ 0 \in 0 .. RegInterval
    OBVIOUS
  <2> QED  BY <1>1, <2>1, <2>2, <2>3, <2>4, GotoType DEF TypeOK, LateCommands, rotation
<1>4. CASE HealFailed(t)
  <2>1. /\ End(t)
        /\ UNCHANGED <<reg, ready, regAge, rotation, readyEvent, registeredNow, sched,
                       retrying, calm>>
    BY <1>4 DEF HealFailed
  <2>2. /\ healAge' \in [Warps -> 0 .. HealCooldown]
        /\ failCount' \in [Warps -> 0 .. StaleThreshold]
    BY <1>1, <1>4 DEF HealFailed, TypeOK
  <2>3. late' \in SUBSET LateCommands
    BY <1>1, <1>4, LingerType DEF HealFailed
  <2> QED  BY <2>1, <2>2, <2>3, EndType DEF TypeOK, LateCommands, rotation
<1>5. CASE Reboot(t)
  <2>1. /\ End(t)
        /\ UNCHANGED <<identity, failCount, timers, rotation, registeredNow, sched, retrying, calm>>
    BY <1>5 DEF Reboot
  <2>2. PICK ok \in BOOLEAN : Settle(t[1], ok)
    BY <1>5, ResultTypes DEF Reboot
  <2> QED  BY <1>1, <2>1, <2>2, EndType, SettleType DEF TypeOK, identity, timers, rotation
<1> QED  BY <1>2, <1>3, <1>4, <1>5 DEF Heal

\* Rotation picks a healthy warp, the nearest one on the ring of indices.
LEMMA SuccessorHealthy ==
    ASSUME Healthy # {}, NEW a \in Warps
    PROVE  /\ Successor(a) \in Healthy
           /\ \A o \in Healthy : \/ o > a /\ Successor(a) > a /\ Successor(a) <= o
                                 \/ o <= a /\ Successor(a) > a
                                 \/ o <= a /\ Successor(a) <= a /\ Successor(a) <= o
<1> DEFINE after == {o \in Healthy : o > a}
<1>1. Healthy \subseteq Warps /\ after \subseteq Warps /\ Warps \subseteq Int
  BY PoolAssumption DEF Healthy, Warps
<1>2. CASE after # {}
  <2>1. Least(after) \in after /\ \A o \in after : Least(after) <= o
    BY <1>1, <1>2, LeastWarp
  <2>2. Successor(a) = Least(after)
    BY <1>2 DEF Successor
  <2> QED  BY <1>1, <2>1, <2>2
<1>3. CASE after = {}
  <2>1. Least(Healthy) \in Healthy /\ \A o \in Healthy : Least(Healthy) <= o
    BY <1>1, LeastWarp
  <2>2. Successor(a) = Least(Healthy)
    BY <1>3 DEF Successor
  <2>3. \A o \in Healthy : o <= a
    BY <1>1, <1>3
  <2> QED  BY <1>1, <2>1, <2>2, <2>3
<1> QED  BY <1>2, <1>3

\* The verifications of a warp are counted by stage.
Counts == [queued : Nat, polling : Nat]

LEMMA CountsType ==
    ASSUME NEW c \in Counts
    PROVE  /\ c.queued \in Nat /\ c.polling \in Nat
           /\ [c EXCEPT !.queued = @ + 1] \in Counts
           /\ c.polling > 0 => [c EXCEPT !.polling = @ - 1] \in Counts
           /\ c.queued > 0 => [queued |-> c.queued - 1, polling |-> c.polling + 1] \in Counts
<1>1. /\ c.queued \in Nat /\ c.polling \in Nat
      /\ c = [queued |-> c.queued, polling |-> c.polling]
  BY DEF Counts
<1>2. \A q \in Nat, p \in Nat : [queued |-> q, polling |-> p] \in Counts
  BY DEF Counts
<1>3. [c EXCEPT !.queued = @ + 1] = [queued |-> c.queued + 1, polling |-> c.polling]
  BY <1>1
<1>4. [c EXCEPT !.polling = @ - 1] = [queued |-> c.queued, polling |-> c.polling - 1]
  BY <1>1
<1>5. /\ c.queued + 1 \in Nat /\ c.polling + 1 \in Nat
      /\ c.polling > 0 => c.polling - 1 \in Nat
      /\ c.queued > 0 => c.queued - 1 \in Nat
  BY <1>1
<1> QED  BY <1>1, <1>2, <1>3, <1>4, <1>5

\* One step of rotation or of a verification keeps the types.
LEMMA RotationType ==
    ASSUME TypeOK, Rotate \/ Reopened \/ \E w \in Warps : Recheck(w)
    PROVE  TypeOK'
<1> USE PoolAssumption
<1>1. CASE Rotate
  <2>1. /\ Healthy # {} /\ active' = Successor(active) /\ reopening' = Successor(active)
        /\ UNCHANGED <<identity, ready, failCount, timers, readyEvent, recheck, registeredNow,
                       sched, retrying, task, calm>>
    BY <1>1 DEF Rotate
  <2>2. Successor(active) \in Warps
    BY <2>1, SuccessorHealthy DEF TypeOK, Healthy
  <2>3. Successor(active) \in 0 .. NumWarps
    BY <2>2 DEF Warps
  <2> QED  BY <2>1, <2>2, <2>3 DEF TypeOK, identity, timers
<1>2. CASE Reopened
  <2>1. /\ reopening' = 0
        /\ UNCHANGED <<identity, ready, failCount, timers, active, readyEvent, registeredNow,
                       sched, retrying, task, calm>>
    BY <1>2 DEF Reopened
  <2>2. recheck' \in [Warps -> [queued : Nat, polling : Nat]]
    <3>1. reopening \in Warps
      BY <1>2 DEF Reopened, TypeOK, Warps
    <3>2. recheck \in [Warps -> Counts]
      BY DEF TypeOK, Counts
    <3>3. recheck' = [recheck EXCEPT ![reopening] = [@ EXCEPT !.queued = recheck[reopening].queued + 1]]
      BY <1>2 DEF Reopened
    <3>4. [recheck[reopening] EXCEPT !.queued = @ + 1] \in Counts
      BY <3>1, <3>2, CountsType
    <3> QED  BY <3>1, <3>2, <3>3, <3>4 DEF Counts
  <2>3. 0 \in 0 .. NumWarps
    OBVIOUS
  <2> QED  BY <2>1, <2>2, <2>3 DEF TypeOK, identity, timers
<1>3. ASSUME NEW w \in Warps, RecheckStart(w) PROVE TypeOK'
  <2>1. UNCHANGED <<identity, failCount, timers, active, reopening, registeredNow, sched,
                    retrying, task, calm>>
    BY <1>3 DEF RecheckStart
  <2>2. ready' \in [Warps -> BOOLEAN]
    BY <1>3 DEF RecheckStart, TypeOK
  <2>3. readyEvent' \in BOOLEAN
    BY <1>3, Zenon DEF RecheckStart, TypeOK
  <2>4. recheck' \in [Warps -> [queued : Nat, polling : Nat]]
    <3>1. recheck \in [Warps -> Counts] /\ recheck[w].queued > 0
      BY <1>3 DEF RecheckStart, TypeOK, Counts
    <3>2. recheck' = [recheck EXCEPT ![w] = [queued |-> @.queued - 1, polling |-> @.polling + 1]]
      BY <1>3 DEF RecheckStart
    <3>3. [queued |-> recheck[w].queued - 1, polling |-> recheck[w].polling + 1] \in Counts
      BY <3>1, CountsType
    <3> QED  BY <3>1, <3>2, <3>3 DEF Counts
  <2> QED  BY <2>1, <2>2, <2>3, <2>4 DEF TypeOK, identity, timers
<1>4. ASSUME NEW w \in Warps, RecheckPolled(w) PROVE TypeOK'
  <2>1. UNCHANGED <<identity, failCount, timers, active, reopening, registeredNow, sched,
                    retrying, task, calm>>
    BY <1>4 DEF RecheckPolled
  <2>2. PICK ok \in BOOLEAN : Settle(w, ok)
    BY <1>4, ResultTypes DEF RecheckPolled
  <2>3. recheck' \in [Warps -> [queued : Nat, polling : Nat]]
    <3>1. recheck \in [Warps -> Counts] /\ recheck[w].polling > 0
      BY <1>4 DEF RecheckPolled, TypeOK, Counts
    <3>2. recheck' = [recheck EXCEPT ![w] = [@ EXCEPT !.polling = recheck[w].polling - 1]]
      BY <1>4 DEF RecheckPolled
    <3>3. [recheck[w] EXCEPT !.polling = @ - 1] \in Counts
      BY <3>1, CountsType
    <3> QED  BY <3>1, <3>2, <3>3 DEF Counts
  <2> QED  BY <2>1, <2>2, <2>3, SettleType DEF TypeOK, identity, timers
<1> QED  BY <1>1, <1>2, <1>3, <1>4 DEF Recheck

\* The passing of time keeps the types.
LEMMA TickType == TypeOK /\ Tick => TypeOK'
<1> SUFFICES ASSUME TypeOK, Tick PROVE TypeOK'
  OBVIOUS
<1> USE PoolAssumption
<1>1. UNCHANGED <<identity, ready, failCount, rotation, readyEvent, registeredNow, retrying, calm>>
  BY DEF Tick
<1>2. regAge' \in 0 .. RegInterval
  BY AgeType DEF Tick, TypeOK
<1>3. healAge' \in [Warps -> 0 .. HealCooldown]
  BY AgeType DEF Tick, TypeOK
<1>4. task' \in [Tasks -> TaskStates]
  <2>1. ASSUME NEW t \in Tasks
        PROVE  [task[t] EXCEPT !.age = Upto(@ + 1, HealCooldown)] \in TaskStates
    <3>1. task[t] \in TaskStates /\ task[t].age \in 0 .. HealCooldown
      BY TaskType
    <3>2. Upto(task[t].age + 1, HealCooldown) \in 0 .. HealCooldown
      BY <3>1, AgeType
    <3> QED  BY <3>1, <3>2 DEF TaskStates
  <2> QED  BY <2>1, TaskType DEF Tick
<1>5. sched' \in SchedStates /\ sched'.pc = sched.pc /\ sched'.warp = sched.warp
  BY DEF Tick, TypeOK, SchedStates
<1> QED  BY <1>1, <1>2, <1>3, <1>4, <1>5 DEF TypeOK, identity, rotation

\* So does a restart.
LEMMA RestartType == TypeOK /\ CrashRestart => TypeOK'
<1> SUFFICES ASSUME TypeOK, CrashRestart PROVE TypeOK'
  OBVIOUS
<1> USE PoolAssumption
<1>1. PICK uptime \in 0 .. HealCooldown : FreshProcess(uptime)
  BY DEF CrashRestart
<1>2. reg' \in [Warps -> BOOLEAN] /\ late' \in SUBSET LateCommands
  <2>1. late \subseteq LateCommands /\ reg \in [Warps -> BOOLEAN]
    BY DEF TypeOK, LateCommands
  <2>2. Commands \subseteq LateCommands
    <3>1. ASSUME NEW t \in Tasks PROVE t[1] \in Warps
      BY TaskType
    <3> QED  BY <3>1 DEF Commands, LateCommands
  <2>3. late' \subseteq late \cup Commands /\ reg' = reg
    BY DEF CrashRestart
  <2> QED  BY <2>1, <2>2, <2>3
<1>3. ready' \in [Warps -> BOOLEAN] /\ failCount' \in [Warps -> 0 .. StaleThreshold]
  BY <1>1 DEF FreshProcess
<1>4. healAge' \in [Warps -> 0 .. HealCooldown]
  BY <1>1 DEF FreshProcess
<1>5. recheck' \in [Warps -> [queued : Nat, polling : Nat]]
  BY <1>1 DEF FreshProcess
<1>6. task' \in [Tasks -> TaskStates]
  <2>1. Idle \in TaskStates
    BY DEF Idle, TaskStates
  <2> QED  BY <1>1, <2>1 DEF FreshProcess
<1>7. sched' \in SchedStates /\ sched'.pc = "start"
  BY <1>1 DEF FreshProcess, At, SchedStates, BurstPcs
<1>8. active' \in Warps /\ reopening' \in 0 .. NumWarps /\ regAge' \in 0 .. RegInterval
  BY <1>1 DEF FreshProcess, Warps
<1>9. /\ readyEvent' \in BOOLEAN /\ registeredNow' \in SUBSET Warps
      /\ retrying' \in BOOLEAN /\ calm' \in BOOLEAN
  BY <1>1, Zenon DEF FreshProcess, CrashRestart, TypeOK
<1> QED  BY <1>2, <1>3, <1>4, <1>5, <1>6, <1>7, <1>8, <1>9 DEF TypeOK, LateCommands

LEMMA StepType == TypeOK /\ [Next]_vars => TypeOK'
<1> SUFFICES ASSUME TypeOK, [Next]_vars PROVE TypeOK'
  OBVIOUS
<1>1. CASE Scheduler
  BY <1>1, SchedulerType
<1>2. CASE RetryUnready
  <2>1. task' \in [Tasks -> TaskStates]
    BY <1>2, SpawnType DEF RetryUnready
  <2> QED  BY <1>2, <2>1 DEF RetryUnready, TypeOK, identity, timers, rotation
<1>3. ASSUME NEW t \in Tasks, Boot(t) \/ Heal(t) PROVE TypeOK'
  BY <1>3, BootType, HealType
<1>4. CASE Rotate \/ Reopened \/ \E w \in Warps : Recheck(w)
  BY <1>4, RotationType
<1>5. ASSUME NEW w \in Warps, RegistrationLands(w) PROVE TypeOK'
  BY <1>5 DEF RegistrationLands, TypeOK, identity, timers, rotation
<1>10. ASSUME NEW cmd \in {"new", "delete"}, NEW w \in Warps, LateLands(cmd, w)
       PROVE  TypeOK'
  <2>1. reg' \in [Warps -> BOOLEAN] /\ late' \in SUBSET LateCommands
    BY <1>10 DEF LateLands, TypeOK, LateCommands
  <2> QED  BY <1>10, <2>1 DEF LateLands, TypeOK, LateCommands, timers, rotation
<1>6. CASE Tick
  BY <1>6, TickType
<1>7. CASE Calm
  BY <1>7 DEF Calm, TypeOK, identity, timers, rotation
<1>8. CASE CrashRestart
  BY <1>8, RestartType
<1>9. CASE UNCHANGED vars
  BY <1>9 DEF vars, TypeOK
<1> QED  BY <1>1, <1>2, <1>3, <1>4, <1>5, <1>6, <1>7, <1>8, <1>9, <1>10 DEF Next

\* The variables of the pool have their types in every reachable state, for
\* every size of the pool; in particular the scheduler never asks for the next
\* warp to register when there is none (next(...) of registration_scheduler).
THEOREM PoolTypes == Spec => []TypeOK
BY InitType, StepType, PTL DEF Spec
-----------------------------------------------------------------------------
(* WarpPool implements ReadyBoard *)

\* Every step but a restart does one thing to the board, or nothing.
BoardMove == [Board!BoardStep]_(Board!board)

LEMMA BoardUnmoved ==
    ASSUME UNCHANGED <<ready, readyEvent, active>>, BurstOver' = BurstOver
    PROVE  BoardMove
BY DEF BoardMove, Board!board

\* A poll that settles a warp brings it up or down.
LEMMA SettleMoves ==
    ASSUME TypeOK, NEW w \in Warps, NEW ok \in BOOLEAN, Settle(w, ok),
           UNCHANGED <<active, sched>>
    PROVE  BoardMove
<1>1. BurstOver' = BurstOver /\ w \in Board!Warps
  BY DEF BurstOver, Board!Warps, Warps
<1>2. CASE ok
  <2>1. Board!Up(w)
    BY <1>1, <1>2, Zenon DEF Settle, Board!Up
  <2> QED  BY <1>1, <2>1 DEF BoardMove, Board!BoardStep
<1>3. CASE ~ok
  <2>1. readyEvent' = readyEvent
    BY <1>3, Zenon DEF Settle, TypeOK
  <2>2. Board!Down(w)
    BY <1>1, <1>3, <2>1 DEF Settle, Board!Down
  <2> QED  BY <1>1, <2>2 DEF BoardMove, Board!BoardStep
<1> QED  BY <1>2, <1>3

\* The burst goes on to its next warp, or ends and announces the healthy ones.
LEMMA BurstMoves ==
    ASSUME TypeOK, NEW from, ~BurstOver, ContinueBurst(from), active' = active,
           \/ ready' = ready
           \/ \E w \in Warps, ok \in BOOLEAN : ready' = [ready EXCEPT ![w] = ok],
           regAge' \in 0 .. RegInterval
    PROVE  BoardMove
<1>0. Board!Warps = Warps
  BY DEF Board!Warps, Warps
<1>1. CASE Burst(from, registeredNow') # {}
  <2>1. sched' = At("initDaemon", Least(Burst(from, registeredNow')))
        /\ readyEvent' = readyEvent
    BY <1>1 DEF ContinueBurst
  <2>2. BurstOver' = BurstOver
    BY <2>1 DEF BurstOver, BurstPcs, At
  <2>3. CASE ready' = ready
    BY <2>1, <2>2, <2>3, BoardUnmoved
  <2>4. ASSUME NEW w \in Warps, NEW ok \in BOOLEAN, ready' = [ready EXCEPT ![w] = ok]
        PROVE  BoardMove
    <3>1. ok => Board!Up(w)
      BY <2>1, <2>2, <2>4 DEF Board!Up
    <3>2. ~ok => Board!Down(w)
      BY <2>1, <2>2, <2>4 DEF Board!Down
    <3> QED  BY <1>0, <3>1, <3>2 DEF BoardMove, Board!BoardStep
  <2> QED  BY <2>3, <2>4
<1>2. CASE Burst(from, registeredNow') = {}
  <2>1. /\ readyEvent' = (readyEvent \/ \E w \in Warps : ready'[w])
        /\ sched' = LoopHead(registeredNow', regAge')
    BY <1>2 DEF ContinueBurst
  <2>2. BurstOver'
    BY <2>1, LoopHeadType DEF BurstOver, BurstPcs
  <2>3. Board!Announce
    BY <1>0, <2>1, <2>2 DEF Board!Announce
  <2> QED  BY <2>3 DEF BoardMove, Board!BoardStep
<1> QED  BY <1>1, <1>2

LEMMA SchedulerMoves == ASSUME TypeOK, Scheduler PROVE BoardMove
<1>1. CASE SchedStart
  <2>1. ~BurstOver /\ ContinueBurst(1) /\ UNCHANGED <<active, ready, regAge>>
    BY <1>1 DEF SchedStart, BurstOver, BurstPcs, rotation, timers
  <2> QED  BY <2>1, BurstMoves DEF TypeOK
<1>2. CASE InitDaemon
  <2>1. ~BurstOver /\ UNCHANGED <<active, ready, regAge>>
    BY <1>2 DEF InitDaemon, BurstOver, BurstPcs, rotation, timers
  <2>2. CASE sched' = At("initNew", sched.warp) /\ UNCHANGED <<readyEvent, task, retrying>>
    <3>1. BurstOver' = BurstOver
      BY <2>1, <2>2 DEF BurstOver, BurstPcs, At
    <3> QED  BY <2>1, <2>2, <3>1, BoardUnmoved
  <2>3. CASE ContinueBurst(sched.warp + 1)
    BY <2>1, <2>3, BurstMoves DEF TypeOK
  <2> QED  BY <1>2, <2>2, <2>3 DEF InitDaemon
<1>3. CASE InitRegister
  <2>1. ~BurstOver /\ UNCHANGED <<active, ready>>
    BY <1>3 DEF InitRegister, BurstOver, BurstPcs, rotation
  <2>2. CASE sched' = At("initPoll", sched.warp) /\ UNCHANGED <<readyEvent, task, retrying>>
    <3>1. BurstOver' = BurstOver
      BY <2>1, <2>2 DEF BurstOver, BurstPcs, At
    <3> QED  BY <2>1, <2>2, <3>1, BoardUnmoved
  <2>3. CASE UNCHANGED <<registeredNow, regAge>> /\ ContinueBurst(sched.warp + 1)
    BY <2>1, <2>3, BurstMoves DEF TypeOK
  <2> QED  BY <1>3, <2>2, <2>3 DEF InitRegister
<1>4. CASE InitPoll
  <2>1. ~BurstOver /\ ContinueBurst(sched.warp + 1) /\ UNCHANGED <<active, regAge>>
    BY <1>4 DEF InitPoll, BurstOver, BurstPcs, rotation, timers
  <2>2. \E ok \in BOOLEAN : ready' = [ready EXCEPT ![sched.warp] = ok]
    BY <1>4, ResultTypes DEF InitPoll
  <2>3. sched.warp \in Warps
    BY <1>4 DEF InitPoll, TypeOK
  <2>4. \E w \in Warps, ok \in BOOLEAN : ready' = [ready EXCEPT ![w] = ok]
    BY <2>2, <2>3
  <2> QED  BY <2>1, <2>4, BurstMoves DEF TypeOK
<1>5. CASE Wake \/ LoopDaemon \/ LoopRegister
  <2>1. UNCHANGED <<ready, readyEvent, active>>
    BY <1>5 DEF Wake, LoopDaemon, LoopRegister, rotation
  <2>2. BurstOver
    BY <1>5 DEF Wake, LoopDaemon, LoopRegister, BurstOver, BurstPcs
  <2>3. CASE sched' \in {At("loopDaemon", Least(Warps \ registeredNow)),
                         At("loopNew", sched.warp)}
    <3>1. BurstOver'
      BY <2>3 DEF BurstOver, BurstPcs, At
    <3> QED  BY <2>1, <2>2, <3>1, BoardUnmoved
  <2>4. CASE sched' = LoopHead(registeredNow', regAge')
    <3>1. regAge' \in 0 .. RegInterval
      BY <1>5, PoolAssumption DEF Wake, LoopDaemon, LoopRegister, timers, TypeOK
    <3>2. BurstOver'
      BY <2>4, <3>1, LoopHeadType DEF BurstOver, BurstPcs
    <3> QED  BY <2>1, <2>2, <3>2, BoardUnmoved
  <2> QED  BY <1>5, <2>3, <2>4 DEF Wake, LoopDaemon, LoopRegister, timers
<1>6. CASE SchedulerDies
  <2>1. UNCHANGED <<ready, readyEvent, active>>
    BY <1>6 DEF SchedulerDies, rotation
  <2>2. BurstOver' = BurstOver
    BY <1>6 DEF SchedulerDies, At, BurstOver, BurstPcs
  <2> QED  BY <2>1, <2>2, BoardUnmoved
<1> QED  BY <1>1, <1>2, <1>3, <1>4, <1>5, <1>6 DEF Scheduler

LEMMA TaskMoves ==
    ASSUME TypeOK, NEW t \in Tasks, Boot(t) \/ Heal(t)
    PROVE  BoardMove
<1>0. t[1] \in Warps /\ t[1] \in Board!Warps
  BY TaskType DEF Board!Warps, Warps
<1>1. CASE BootNoDaemon(t)
  <2>1. BurstOver' = BurstOver
    BY <1>1 DEF BootNoDaemon, BurstOver
  <2>2. Board!Down(t[1])
    BY <1>1, <2>1 DEF BootNoDaemon, rotation, Board!Down
  <2> QED  BY <1>0, <2>2 DEF BoardMove, Board!BoardStep
<1>2. CASE BootConnected(t)
  <2>1. Settle(t[1], TRUE) /\ UNCHANGED <<active, sched>>
    BY <1>2 DEF BootConnected, rotation
  <2> QED  BY <1>0, <2>1, SettleMoves
<1>3. CASE BootFailed(t)
  <2>1. Settle(t[1], FALSE) /\ UNCHANGED <<active, sched>>
    BY <1>3 DEF BootFailed, rotation
  <2> QED  BY <1>0, <2>1, SettleMoves
<1>4. CASE BootRaises(t) \/ HealDelete(t) \/ HealDone(t) \/ HealFailed(t)
  <2>1. UNCHANGED <<ready, readyEvent, active, sched>>
    BY <1>4 DEF BootRaises, HealDelete, HealDone, HealFailed, rotation
  <2> QED  BY <2>1, BoardUnmoved DEF BurstOver
<1>5. CASE Reboot(t)
  <2>1. UNCHANGED <<active, sched>> /\ \E ok \in BOOLEAN : Settle(t[1], ok)
    BY <1>5, ResultTypes DEF Reboot, rotation
  <2> QED  BY <1>0, <2>1, SettleMoves
<1> QED  BY <1>1, <1>2, <1>3, <1>4, <1>5 DEF Boot, Heal

\* rotate() takes the nearest healthy warp ahead on the ring.
LEMMA RotateMoves == ASSUME TypeOK, Rotate PROVE BoardMove
<1>1. /\ Healthy # {} /\ active \in Warps /\ active' = Successor(active)
      /\ UNCHANGED <<ready, readyEvent, sched>>
  BY DEF Rotate, TypeOK
<1>2. Board!Healthy = Healthy /\ Board!Warps = Warps
  BY DEF Board!Healthy, Healthy, Board!Warps, Warps
<1>3. Healthy \subseteq 1 .. NumWarps /\ NumWarps \in Nat
  BY PoolAssumption DEF Healthy, Warps
<1>4. Successor(active) \in Healthy
  BY <1>1, SuccessorHealthy
<1>5. ASSUME NEW o \in Healthy PROVE Board!Ahead(Successor(active)) <= Board!Ahead(o)
  <2>1. /\ active \in 1 .. NumWarps /\ o \in 1 .. NumWarps
        /\ Successor(active) \in 1 .. NumWarps
    BY <1>1, <1>3, <1>4 DEF Warps
  <2>2. \/ o > active /\ Successor(active) > active /\ Successor(active) <= o
        \/ o <= active /\ Successor(active) > active
        \/ o <= active /\ Successor(active) <= active /\ Successor(active) <= o
    BY <1>1, SuccessorHealthy
  <2> QED  BY <1>3, <2>1, <2>2 DEF Board!Ahead
<1>6. Board!Advance
  BY <1>1, <1>2, <1>4, <1>5 DEF Board!Advance, BurstOver
<1> QED  BY <1>6 DEF BoardMove, Board!BoardStep

\* A verification takes its warp out, then settles it.
LEMMA RecheckMoves == ASSUME TypeOK, NEW w \in Warps, Recheck(w) PROVE BoardMove
<1>0. Board!Warps = Warps /\ Board!Healthy = Healthy
  BY DEF Board!Warps, Warps, Board!Healthy, Healthy
<1>1. CASE RecheckStart(w)
  <2>1. /\ ready' = [ready EXCEPT ![w] = FALSE] /\ UNCHANGED <<active, sched>>
        /\ readyEvent' = (readyEvent /\ \E o \in Warps : ready'[o])
    BY <1>1 DEF RecheckStart
  <2>2. (\E o \in Warps : ready'[o]) = (Healthy \ {w} # {})
    BY <2>1 DEF TypeOK, Healthy
  <2>3. Board!TakeOut(w)
    BY <1>0, <2>1, <2>2 DEF Board!TakeOut, BurstOver
  <2> QED  BY <1>0, <2>3 DEF BoardMove, Board!BoardStep
<1>2. CASE RecheckPolled(w)
  <2>1. UNCHANGED <<active, sched>> /\ \E ok \in BOOLEAN : Settle(w, ok)
    BY <1>2, ResultTypes DEF RecheckPolled
  <2> QED  BY <2>1, SettleMoves
<1> QED  BY <1>1, <1>2 DEF Recheck

LEMMA RestartMoves == ASSUME CrashRestart PROVE Board!Restart /\ Restarts
<1>1. PICK uptime : FreshProcess(uptime)
  BY DEF CrashRestart
<1>2. ~BurstOver' /\ Restarts
  BY <1>1 DEF FreshProcess, BurstOver, BurstPcs, At, Restarts
<1>3. Board!Restart
  BY <1>1, <1>2 DEF FreshProcess, Board!Restart, Board!Warps, Warps
<1> QED  BY <1>2, <1>3

LEMMA PoolMoves ==
    ASSUME TypeOK, [Next]_vars
    PROVE  BoardMove \/ CrashRestart
<1>1. CASE Scheduler
  BY <1>1, SchedulerMoves
<1>2. CASE RetryUnready \/ Reopened \/ Calm
  <2>1. UNCHANGED <<ready, readyEvent, active, sched>>
    BY <1>2 DEF RetryUnready, Reopened, Calm, rotation
  <2> QED  BY <2>1, BoardUnmoved DEF BurstOver
<1>3. ASSUME NEW t \in Tasks, Boot(t) \/ Heal(t) PROVE BoardMove
  BY <1>3, TaskMoves
<1>4. CASE Rotate
  BY <1>4, RotateMoves
<1>5. ASSUME NEW w \in Warps, Recheck(w) PROVE BoardMove
  BY <1>5, RecheckMoves
<1>6. ASSUME NEW w \in Warps, RegistrationLands(w) PROVE BoardMove
  <2>1. UNCHANGED <<ready, readyEvent, active, sched>>
    BY <1>6 DEF RegistrationLands, rotation
  <2> QED  BY <2>1, BoardUnmoved DEF BurstOver
<1>9. ASSUME NEW cmd \in {"new", "delete"}, NEW w \in Warps, LateLands(cmd, w)
      PROVE  BoardMove
  <2>1. UNCHANGED <<ready, readyEvent, active, sched>>
    BY <1>9 DEF LateLands, rotation
  <2> QED  BY <2>1, BoardUnmoved DEF BurstOver
<1>7. CASE Tick
  <2>1. UNCHANGED <<ready, readyEvent, active>> /\ sched'.pc = sched.pc
    BY <1>7 DEF Tick, rotation, TypeOK, SchedStates
  <2> QED  BY <2>1, BoardUnmoved DEF BurstOver
<1>8. CASE UNCHANGED vars
  <2>1. UNCHANGED <<ready, readyEvent, active, sched>>
    BY <1>8 DEF vars
  <2> QED  BY <2>1, BoardUnmoved DEF BurstOver
<1> QED  BY <1>1, <1>2, <1>3, <1>4, <1>5, <1>6, <1>7, <1>8, <1>9 DEF Next

\* Every behaviour of the pool is one of ReadyBoard: whatever the scheduler, the
\* boots, the heals and the verifications do to each other, (ready, ready_event,
\* active) change only as ReadyBoard says; rotate() goes round the ring of the
\* healthy warps, and only taking out the last one clears the event.
THEOREM PoolImplementsBoard == Spec => ImplementsBoard
<1>1. Init => Board!BoardInit
  <2> SUFFICES ASSUME Init PROVE Board!BoardInit
    OBVIOUS
  <2>1. ~BurstOver
    BY DEF Init, BurstOver, BurstPcs, At
  <2> QED  BY <2>1 DEF Init, Board!BoardInit, Board!Warps, Warps
<1>2. TypeOK /\ [Next]_vars => [Board!BoardNext]_(Board!board)
  BY PoolMoves, RestartMoves DEF BoardMove, Board!BoardNext
<1> QED  BY <1>1, <1>2, PoolTypes, PTL DEF Spec, ImplementsBoard, Board!BoardSpec
-----------------------------------------------------------------------------
(* What the board promises holds of the pool *)

\* After the start-up burst a ready warp is never hidden behind a cleared
\* ready_event, for every size of the pool and however many boots, heals and
\* verifications overlap.
THEOREM PoolNeverHidesAWarp == Spec => []NoHiddenWarp
<1>1. NumWarps \in Nat \ {0}
  BY PoolAssumption
<1>2. Safe!BoardSpec => [](Safe!BoardTypeOK /\ Safe!NoHiddenWarp)
  BY <1>1, Safe!BoardIsSafe
<1>3. Safe!NoHiddenWarp => NoHiddenWarp
  BY DEF Safe!NoHiddenWarp, Safe!Healthy, Safe!Warps, NoHiddenWarp, Healthy, Warps
<1>4. Board!BoardInit => Safe!BoardInit
  BY DEF Board!BoardInit, Safe!BoardInit, Board!Warps, Safe!Warps
<1>5. [Board!BoardNext]_(Board!board) => [Safe!BoardNext]_(Safe!board)
  BY DEF Board!BoardNext, Safe!BoardNext, Board!board, Safe!board,
         Board!BoardStep, Safe!BoardStep, Board!Up, Safe!Up, Board!Down, Safe!Down,
         Board!TakeOut, Safe!TakeOut, Board!Announce, Safe!Announce,
         Board!Advance, Safe!Advance, Board!Restart, Safe!Restart,
         Board!Ahead, Safe!Ahead, Board!Healthy, Safe!Healthy, Board!Warps, Safe!Warps
<1>6. Spec => Safe!BoardSpec
  BY <1>4, <1>5, PoolImplementsBoard, PTL
     DEF ImplementsBoard, Board!BoardSpec, Safe!BoardSpec
<1> QED  BY <1>2, <1>3, <1>6, PTL
-----------------------------------------------------------------------------
(* Commands in flight *)

\* The scheduler is in a "registration new" for w.
SchedCall(w) == sched.pc \in {"initNew", "loopNew"} /\ sched.warp = w

LEMMA CallsSplit ==
    \A w : /\ CallInFlight(w) <=> SchedCall(w) \/ Healing(w)
           /\ Registering(w) => SchedCall(w) \/ Healing(w)
BY DEF CallInFlight, Registering, Healing, SchedCall

\* No task starts or ends a heal.
SameHeals ==
    \A t \in Tasks : task'[t].at \in {"delete", "new"} <=> task[t].at \in {"delete", "new"}

LEMMA SameHealing ==
    ASSUME SameHeals, NEW w \in Warps
    PROVE  Healing(w)' <=> Healing(w)
<1>1. \A s \in 1 .. TaskSlots : <<w, s>> \in Tasks
  BY DEF Tasks
<1> QED  BY <1>1 DEF SameHeals, Healing

\* Spawning boot tasks takes free slots only.
LEMMA SpawnKeepsHeals ==
    ASSUME TypeOK, NEW S, task' = Spawn(S)
    PROVE  SameHeals
<1> SUFFICES ASSUME NEW t \in Tasks
             PROVE  task'[t].at \in {"delete", "new"} <=> task[t].at \in {"delete", "new"}
  BY DEF SameHeals
<1>1. t = <<t[1], t[2]>> /\ t[1] \in Warps /\ t[2] \in 1 .. TaskSlots
  BY DEF Tasks
<1>2. CASE t[1] \in S /\ Free(t[1]) # {} /\ t[2] = Least(Free(t[1]))
  <2>1. Free(t[1]) \subseteq 1 .. TaskSlots /\ TaskSlots \in Nat
    BY PoolAssumption DEF Free
  <2>2. t[2] \in Free(t[1])
    BY <1>2, <2>1, LeastOf
  <2>3. task[t].at = "none" /\ task'[t] = Booting
    BY <1>1, <1>2, <2>2 DEF Free, Spawn
  <2> QED  BY <2>3 DEF Booting
<1>3. CASE ~(t[1] \in S /\ Free(t[1]) # {} /\ t[2] = Least(Free(t[1])))
  <2>1. task'[t] = task[t]
    BY <1>3 DEF Spawn
  <2> QED  BY <2>1
<1> QED  BY <1>2, <1>3

\* So a step of the scheduler neither starts nor ends a heal.
LEMMA SchedulerKeepsHeals ==
    ASSUME TypeOK, Scheduler
    PROVE  SameHeals
<1>1. task' = task \/ \E S : task' = Spawn(S)
  BY DEF Scheduler, SchedStart, InitDaemon, InitRegister, InitPoll, Wake, LoopDaemon,
         LoopRegister, SchedulerDies, ContinueBurst
<1>2. CASE task' = task
  BY <1>2 DEF SameHeals
<1> QED  BY <1>1, <1>2, SpawnKeepsHeals

\* A step of a task touches no other task.
LEMMA TaskAlone ==
    ASSUME TypeOK, NEW t \in Tasks, Boot(t) \/ Heal(t), NEW o \in Tasks, o # t
    PROVE  task'[o] = task[o]
<1>1. End(t) \/ \E stage, second, age : Goto(t, stage, second, age)
  BY DEF Boot, Heal, BootNoDaemon, BootRaises, BootConnected, BootFailed, HealDelete,
         HealDone, HealFailed, Reboot
<1> QED  BY <1>1 DEF End, Goto, TypeOK

\* Time passes in the tasks without moving them.
LEMMA TickKeepsStages ==
    ASSUME TypeOK, Tick
    PROVE  /\ \A t \in Tasks : task'[t].at = task[t].at
           /\ sched'.pc = sched.pc /\ sched'.warp = sched.warp
<1>1. sched \in SchedStates /\ sched' = [sched EXCEPT !.left = IF @ > 0 THEN @ - 1 ELSE 0]
  BY DEF Tick, TypeOK
<1>2. sched'.pc = sched.pc /\ sched'.warp = sched.warp
  BY <1>1 DEF SchedStates
<1>3. ASSUME NEW t \in Tasks PROVE task'[t].at = task[t].at
  <2>1. task[t] \in TaskStates
    BY DEF TypeOK
  <2>2. \/ task'[t] = [task[t] EXCEPT !.age = Upto(@ + 1, HealCooldown)]
        \/ task'[t] = task[t]
    BY DEF Tick
  <2> QED  BY <2>1, <2>2 DEF TaskStates
<1> QED  BY <1>2, <1>3

\* What the steps that are neither the scheduler's nor a task's leave alone.
OtherStep ==
    \/ RetryUnready \/ Rotate \/ Reopened \/ Tick \/ Calm
    \/ \E w \in Warps : Recheck(w)
    \/ UNCHANGED vars

LEMMA OthersKeepCalls ==
    ASSUME TypeOK, OtherStep
    PROVE  /\ SameHeals
           /\ \A w : SchedCall(w)' <=> SchedCall(w)
           /\ sched'.pc = sched.pc /\ sched'.warp = sched.warp
           /\ UNCHANGED <<identity, registeredNow>>
<1>1. CASE RetryUnready
  <2>1. UNCHANGED <<identity, registeredNow, sched>> /\ \E S : task' = Spawn(S)
    BY <1>1 DEF RetryUnready
  <2> QED  BY <2>1, SpawnKeepsHeals DEF SchedCall
<1>2. CASE Tick
  <2>1. UNCHANGED <<identity, registeredNow>>
    BY <1>2 DEF Tick
  <2> QED  BY <1>2, <2>1, TickKeepsStages DEF SchedCall, SameHeals
<1>3. CASE Rotate \/ Reopened \/ Calm \/ (\E v \in Warps : Recheck(v)) \/ UNCHANGED vars
  <2>1. UNCHANGED <<identity, registeredNow, sched, task>>
    BY <1>3 DEF Rotate, Reopened, Calm, Recheck, RecheckStart, RecheckPolled, vars, identity
  <2> QED  BY <2>1 DEF SchedCall, SameHeals
<1> QED  BY <1>1, <1>2, <1>3 DEF OtherStep

LEMMA StepKinds ==
    [Next]_vars => \/ Scheduler \/ CrashRestart \/ OtherStep
                   \/ \E t \in Tasks : Boot(t) \/ Heal(t)
                   \/ \E w \in Warps : RegistrationLands(w)
                   \/ \E cmd \in {"new", "delete"}, w \in Warps : LateLands(cmd, w)
BY DEF Next, OtherStep

-----------------------------------------------------------------------------
(* Identities are charged *)

Charged(w) == CallInFlight(w) /\ ~CallInFlight(w)' /\ reg'[w] /\ ~Restarts => regAge' = 0

LEMMA SchedulerCharges ==
    ASSUME TypeOK, Scheduler, NEW w \in Warps
    PROVE  Charged(w)
<1> SUFFICES ASSUME CallInFlight(w), ~CallInFlight(w)', reg'[w]
             PROVE  regAge' = 0
  BY DEF Charged
<1>1. SchedCall(w)
  <2>1. ~Healing(w)'
    BY DEF CallInFlight
  <2> QED  BY <2>1, CallsSplit, SchedulerKeepsHeals, SameHealing
<1>2. InitRegister \/ LoopRegister
  BY <1>1 DEF Scheduler, SchedStart, InitDaemon, InitPoll, Wake, LoopDaemon, SchedulerDies,
              SchedCall
<1>3. reg' = reg /\ sched.warp = w
  BY <1>1, <1>2 DEF InitRegister, LoopRegister, SchedCall
<1>4. RegisterResult(w) = {TRUE}
  BY <1>3 DEF RegisterResult
<1> QED  BY <1>2, <1>3, <1>4 DEF InitRegister, LoopRegister

LEMMA TaskCharges ==
    ASSUME TypeOK, NEW t \in Tasks, Boot(t) \/ Heal(t), NEW w \in Warps
    PROVE  Charged(w)
<1> SUFFICES ASSUME CallInFlight(w), ~CallInFlight(w)', reg'[w]
             PROVE  regAge' = 0
  BY DEF Charged
<1>1. sched' = sched
  BY DEF Boot, Heal, BootNoDaemon, BootRaises, BootConnected, BootFailed, HealDelete,
         HealDone, HealFailed, Reboot
<1>2. ~SchedCall(w) /\ ~Healing(w)'
  BY <1>1 DEF CallInFlight, Registering, Healing, SchedCall
<1>3. PICK s \in 1 .. TaskSlots : task[<<w, s>>].at \in {"delete", "new"}
  BY <1>2, CallsSplit DEF Healing
<1>4. <<w, s>> \in Tasks /\ task'[<<w, s>>].at \notin {"delete", "new"}
  BY <1>2 DEF Tasks, Healing
<1>5. t = <<w, s>>
  BY <1>3, <1>4, TaskAlone
<1>6. ~HealDelete(t)
  <2>1. Goto(t, "new", task[t].second, task[t].age) => task'[t].at = "new"
    BY DEF Goto, TypeOK
  <2> QED  BY <1>4, <1>5, <2>1 DEF HealDelete
<1>7. t[1] = w /\ task[t].at \in {"delete", "new"}
  BY <1>3, <1>5
<1>8. HealDone(t) \/ HealFailed(t)
  BY <1>6, <1>7 DEF Boot, Heal, BootNoDaemon, BootRaises, BootConnected, BootFailed, Reboot
<1> QED  BY <1>7, <1>8 DEF HealDone, HealFailed

\* Every "registration new" that ends leaving an identity on disk is charged to
\* the budget, for any number of overlapping heals beside the scheduler's own
\* call (mark_reg in registration_scheduler and heal_stale).
THEOREM EveryIdentityIsCharged == Spec => IdentitiesAreCharged
<1>1. TypeOK /\ [Next]_vars => \A w \in Warps : Charged(w)
  <2> SUFFICES ASSUME TypeOK, [Next]_vars, NEW w \in Warps PROVE Charged(w)
    OBVIOUS
  <2>1. CASE Scheduler
    BY <2>1, SchedulerCharges
  <2>2. ASSUME NEW t \in Tasks, Boot(t) \/ Heal(t) PROVE Charged(w)
    BY <2>2, TaskCharges
  <2>3. CASE CrashRestart
    BY <2>3, RestartMoves DEF Charged
  <2>4. CASE OtherStep
    <3>1. (CallInFlight(w) <=> SchedCall(w) \/ Healing(w))
          /\ (CallInFlight(w)' <=> SchedCall(w)' \/ Healing(w)')
      BY DEF CallInFlight, Registering, Healing, SchedCall
    <3> QED  BY <2>4, <3>1, OthersKeepCalls, SameHealing DEF Charged
  <2>5. ASSUME NEW v \in Warps, RegistrationLands(v) PROVE Charged(w)
    <3>1. UNCHANGED <<sched, task>>
      BY <2>5 DEF RegistrationLands
    <3> QED  BY <3>1 DEF Charged, CallInFlight, Registering, Healing
  <2>6. ASSUME NEW cmd \in {"new", "delete"}, NEW v \in Warps, LateLands(cmd, v)
        PROVE  Charged(w)
    <3>1. UNCHANGED <<sched, task>>
      BY <2>6 DEF LateLands
    <3> QED  BY <3>1 DEF Charged, CallInFlight, Registering, Healing
  <2> QED  BY <2>1, <2>2, <2>3, <2>4, <2>5, <2>6, StepKinds
<1>2. TypeOK /\ [Next]_vars
         => [\A w \in Warps : CallInFlight(w) /\ ~CallInFlight(w)' /\ reg'[w] /\ ~Restarts
                => regAge' = 0]_vars
  BY <1>1 DEF Charged
<1> QED  BY <1>2, PoolTypes, PTL DEF Spec, IdentitiesAreCharged
-----------------------------------------------------------------------------
(* Stranded warps *)

\* The scheduler only ever works on a warp it does not count as registered, and
\* counts none before its first step.
WorksOnMissing ==
    /\ sched.pc = "start" => registeredNow = {}
    /\ sched.pc \in {"initDaemon", "initNew", "loopDaemon", "loopNew"}
          => sched.warp \notin registeredNow

LEMMA BurstWorksOnMissing ==
    ASSUME NEW from, ContinueBurst(from), regAge' \in 0 .. RegInterval
    PROVE  WorksOnMissing'
<1>1. CASE Burst(from, registeredNow') # {} /\ ContinueBurst(from)
  <2>1. Burst(from, registeredNow') \subseteq Warps
    BY DEF Burst
  <2>2. CASE sched' = At("initDaemon", Least(Burst(from, registeredNow')))
    <3>1. Least(Burst(from, registeredNow')) \in Burst(from, registeredNow')
      BY <1>1, <2>1, LeastWarp
    <3>2. Least(Burst(from, registeredNow')) \notin registeredNow'
      BY <3>1 DEF Burst
    <3> QED  BY <2>2, <3>2 DEF WorksOnMissing, At
  <2> QED  BY <1>1, <2>2 DEF ContinueBurst
<1>2. CASE sched' = LoopHead(registeredNow', regAge')
  <2>1. sched'.pc \in {"sleep", "done"}
    BY <1>2, LoopHeadType
  <2> QED  BY <2>1 DEF WorksOnMissing
<1> QED  BY <1>1, <1>2 DEF ContinueBurst

LEMMA SchedulerWorksOnMissing ==
    ASSUME TypeOK, TypeOK', WorksOnMissing, Scheduler
    PROVE  WorksOnMissing'
<1>0. regAge' \in 0 .. RegInterval
  BY DEF TypeOK
<1>1. CASE SchedStart \/ InitPoll
  <2>1. \E from : ContinueBurst(from)
    BY <1>1 DEF SchedStart, InitPoll
  <2> QED  BY <1>0, <2>1, BurstWorksOnMissing
<1>2. CASE InitDaemon
  <2>1. sched.warp \notin registeredNow /\ registeredNow' = registeredNow
    BY <1>2 DEF InitDaemon, WorksOnMissing
  <2>2. CASE sched' = At("initNew", sched.warp)
    BY <2>1, <2>2 DEF WorksOnMissing, At
  <2>3. CASE ContinueBurst(sched.warp + 1)
    BY <1>0, <2>3, BurstWorksOnMissing
  <2> QED  BY <1>2, <2>2, <2>3 DEF InitDaemon
<1>3. CASE InitRegister
  <2>1. CASE sched' = At("initPoll", sched.warp)
    BY <2>1 DEF WorksOnMissing, At
  <2>2. CASE ContinueBurst(sched.warp + 1)
    BY <1>0, <2>2, BurstWorksOnMissing
  <2> QED  BY <1>3, <2>1, <2>2 DEF InitRegister
<1>4. CASE Wake
  <2>1. registeredNow \subseteq Warps /\ registeredNow # Warps
    BY <1>4 DEF Wake, TypeOK
  <2>2. Least(Warps \ registeredNow) \in Warps \ registeredNow
    BY <2>1, LeastWarp
  <2> QED  BY <1>4, <2>2 DEF Wake, WorksOnMissing, At
<1>5. CASE LoopDaemon
  <2>1. sched.warp \notin registeredNow /\ registeredNow' = registeredNow /\ regAge' = regAge
    BY <1>5 DEF LoopDaemon, WorksOnMissing, timers
  <2>2. CASE sched' = At("loopNew", sched.warp)
    BY <2>1, <2>2 DEF WorksOnMissing, At
  <2>3. CASE sched' = LoopHead(registeredNow, regAge)
    <3>1. sched'.pc \in {"sleep", "done"}
      BY <1>0, <2>1, <2>3, LoopHeadType
    <3> QED  BY <3>1 DEF WorksOnMissing
  <2> QED  BY <1>5, <2>2, <2>3 DEF LoopDaemon
<1>6. CASE LoopRegister
  <2>1. sched' = LoopHead(registeredNow', regAge')
    BY <1>6 DEF LoopRegister
  <2>2. sched'.pc \in {"sleep", "done"}
    BY <1>0, <2>1, LoopHeadType
  <2> QED  BY <2>2 DEF WorksOnMissing
<1>7. CASE SchedulerDies
  BY <1>7 DEF SchedulerDies, WorksOnMissing, At
<1> QED  BY <1>1, <1>2, <1>3, <1>4, <1>5, <1>6, <1>7 DEF Scheduler

LEMMA StepWorksOnMissing ==
    TypeOK /\ TypeOK' /\ WorksOnMissing /\ [Next]_vars => WorksOnMissing'
<1> SUFFICES ASSUME TypeOK, TypeOK', WorksOnMissing, [Next]_vars PROVE WorksOnMissing'
  OBVIOUS
<1>1. CASE Scheduler
  BY <1>1, SchedulerWorksOnMissing
<1>2. CASE CrashRestart
  BY <1>2 DEF CrashRestart, FreshProcess, WorksOnMissing, At
<1>3. CASE OtherStep
  BY <1>3, OthersKeepCalls, PoolAssumption DEF WorksOnMissing, TypeOK
<1>4. ASSUME NEW t \in Tasks, Boot(t) \/ Heal(t) PROVE WorksOnMissing'
  <2>1. UNCHANGED <<sched, registeredNow>>
    BY <1>4 DEF Boot, Heal, BootNoDaemon, BootRaises, BootConnected, BootFailed, HealDelete,
                HealDone, HealFailed, Reboot
  <2> QED  BY <2>1 DEF WorksOnMissing
<1>5. ASSUME NEW w \in Warps, RegistrationLands(w) PROVE WorksOnMissing'
  BY <1>5 DEF RegistrationLands, WorksOnMissing
<1>6. ASSUME NEW cmd \in {"new", "delete"}, NEW w \in Warps, LateLands(cmd, w)
      PROVE  WorksOnMissing'
  BY <1>6 DEF LateLands, WorksOnMissing
<1> QED  BY <1>1, <1>2, <1>3, <1>4, <1>5, <1>6, StepKinds

\* A stranded warp is in nobody's hands.
LEMMA StrandedStep ==
    ASSUME TypeOK, WorksOnMissing, [Next]_vars, NEW w \in Warps, Stranded(w)
    PROVE  Stranded(w)' \/ Restarts \/ <<"new", w>> \in late
<1>0. w \in registeredNow /\ ~reg[w] /\ ~Healing(w) /\ reg \in [Warps -> BOOLEAN]
  BY DEF Stranded, TypeOK
<1>1. CASE Scheduler
  <2>1. sched.pc # "start"
    BY <1>0 DEF WorksOnMissing
  <2>2. registeredNow \subseteq registeredNow' /\ reg' = reg
    BY <1>1, <2>1 DEF Scheduler, SchedStart, InitDaemon, InitRegister, InitPoll, Wake,
                      LoopDaemon, LoopRegister, SchedulerDies, identity
  <2> QED  BY <1>0, <1>1, <2>2, SchedulerKeepsHeals, SameHealing DEF Stranded
<1>2. CASE CrashRestart
  BY <1>2, RestartMoves
<1>3. CASE OtherStep
  BY <1>0, <1>3, OthersKeepCalls, SameHealing DEF Stranded, identity
<1>4. ASSUME NEW t \in Tasks, Boot(t) \/ Heal(t) PROVE Stranded(w)'
  <2>1. registeredNow' = registeredNow
    BY <1>4 DEF Boot, Heal, BootNoDaemon, BootRaises, BootConnected, BootFailed, HealDelete,
                HealDone, HealFailed, Reboot
  <2>2. ~reg'[w]
    BY <1>0, <1>4 DEF Boot, Heal, BootNoDaemon, BootRaises, BootConnected, BootFailed,
                HealDelete, HealDone, HealFailed, Reboot, identity
  <2>3. ASSUME NEW s \in 1 .. TaskSlots PROVE task'[<<w, s>>].at \notin {"delete", "new"}
    <3>1. <<w, s>> \in Tasks /\ task[<<w, s>>].at \notin {"delete", "new"}
      BY <1>0 DEF Tasks, Healing
    <3>2. CASE t # <<w, s>>
      BY <1>4, <3>1, <3>2, TaskAlone
    <3>3. CASE t = <<w, s>>
      <4>1. t[1] = w /\ task[t].at \notin {"delete", "new"}
        BY <3>1, <3>3
      <4>2. \/ BootNoDaemon(t) \/ BootRaises(t) \/ BootConnected(t) \/ Reboot(t)
            \/ BootFailed(t)
        BY <1>4, <4>1 DEF Boot, Heal, HealDelete, HealDone, HealFailed
      <4>3. \A n : ~StaleHeal(w, n)
        BY <1>0 DEF StaleHeal
      <4>4. End(t)
        BY <4>1, <4>2, <4>3 DEF BootNoDaemon, BootRaises, BootConnected, Reboot, BootFailed
      <4>5. task'[t] = Idle
        BY <4>4 DEF End, TypeOK
      <4> QED  BY <3>3, <4>5 DEF Idle
    <3> QED  BY <3>2, <3>3
  <2> QED  BY <1>0, <2>1, <2>2, <2>3 DEF Stranded, Healing
<1>5. ASSUME NEW v \in Warps, RegistrationLands(v) PROVE Stranded(w)'
  <2>1. UNCHANGED <<sched, task, registeredNow>> /\ reg' = [reg EXCEPT ![v] = TRUE]
    BY <1>5 DEF RegistrationLands
  <2>2. v # w
    <3>1. ~SchedCall(w)
      BY <1>0 DEF SchedCall, WorksOnMissing
    <3> QED  BY <1>0, <1>5, <3>1, CallsSplit DEF RegistrationLands
  <2> QED  BY <1>0, <2>1, <2>2 DEF Stranded, Healing
<1>6. ASSUME NEW cmd \in {"new", "delete"}, NEW v \in Warps, LateLands(cmd, v),
             <<"new", w>> \notin late
      PROVE  Stranded(w)'
  <2>1. /\ UNCHANGED <<task, registeredNow>>
        /\ reg' = [reg EXCEPT ![v] = (cmd = "new")] \/ reg' = reg
        /\ <<cmd, v>> \in late
    BY <1>6 DEF LateLands
  <2>2. ~reg'[w]
    BY <1>0, <1>6, <2>1
  <2> QED  BY <1>0, <2>1, <2>2 DEF Stranded, Healing
<1> QED  BY <1>1, <1>2, <1>3, <1>4, <1>5, <1>6, StepKinds

\* A warp whose heal failed after its deletion stays without an identity,
\* whatever the scheduler, the retry loop and the other tasks do (registered_now
\* keeps it, heal_stale wants a registration), until the process is restarted or
\* warp-svc completes a registration of it whose caller had given up.
THEOREM StrandingLasts == Spec => StrandedOnItsOwn
<1>1. Init => WorksOnMissing
  BY DEF Init, WorksOnMissing, At
<1>2. TypeOK /\ WorksOnMissing /\ [Next]_vars
         => [\A w \in Warps : Stranded(w)
                => Stranded(w)' \/ Restarts \/ <<"new", w>> \in late]_vars
  BY StrandedStep
<1> QED  BY <1>1, <1>2, StepWorksOnMissing, PoolTypes, PTL DEF Spec, StrandedOnItsOwn
=============================================================================
