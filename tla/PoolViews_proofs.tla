-------------------------- MODULE PoolViews_proofs --------------------------
(***************************************************************************)
(* The two modules that extend WarpPool: PoolAudit, which watches it with  *)
(* history variables, and ServingPool, which adds the requests.            *)
(***************************************************************************)
EXTENDS PoolAudit, ServingPool, WarpPool_proofs

P == INSTANCE Hold_proofs WITH announced <- BurstOver

-----------------------------------------------------------------------------
(* PoolAudit: the pace of the scheduler *)

\* The time since the loop's last registration, and the sleep that is left,
\* make up an interval; before the loop, the budget is either free or younger
\* than that registration (which a process before this one may have made).
PacedInv ==
    /\ sinceLoop \in 0 .. RegInterval
    /\ sched.pc = "sleep" => sched.left + sinceLoop >= RegInterval
    /\ sched.pc \in {"loopDaemon", "loopNew"} => sinceLoop = RegInterval
    /\ sched.pc \in BurstPcs => regAge = RegInterval \/ regAge <= sinceLoop

LEMMA AuditIsPool == [AuditNext]_auditVars => [Next]_vars
BY DEF AuditNext, AuditScheduler, AuditBoot, AuditHeal, AuditTick, AuditRestart,
       AuditOther, auditVars, Next, Boot, Heal

\* The head of the loop sleeps long enough, when the budget is free or younger
\* than the loop's last registration.
LEMMA LoopHeadPaced ==
    ASSUME NEW known, NEW age \in 0 .. RegInterval, NEW since \in 0 .. RegInterval,
           age = RegInterval \/ age <= since
    PROVE  /\ LoopHead(known, age).pc \in {"sleep", "done"}
           /\ LoopHead(known, age).pc = "sleep"
                 => LoopHead(known, age).left + since >= RegInterval
BY PoolAssumption DEF LoopHead, At, Sleep

\* A step to the head of the loop establishes the invariant.
LEMMA HeadPaced ==
    ASSUME NEW known, sched' = LoopHead(known, regAge'), regAge' \in 0 .. RegInterval,
           sinceLoop' \in 0 .. RegInterval,
           regAge' = RegInterval \/ regAge' <= sinceLoop'
    PROVE  PacedInv'
<1>1. /\ sched'.pc \in {"sleep", "done"}
      /\ sched'.pc = "sleep" => sched'.left + sinceLoop' >= RegInterval
  BY LoopHeadPaced
<1> QED  BY <1>1 DEF PacedInv, BurstPcs

LEMMA BurstPaced ==
    ASSUME NEW from, ContinueBurst(from), regAge' \in 0 .. RegInterval,
           sinceLoop' \in 0 .. RegInterval,
           regAge' = RegInterval \/ regAge' <= sinceLoop'
    PROVE  PacedInv'
<1>1. CASE sched' = At("initDaemon", Least(Burst(from, registeredNow')))
  BY <1>1 DEF PacedInv, At, BurstPcs
<1>2. CASE sched' = LoopHead(registeredNow', regAge')
  BY <1>2, HeadPaced
<1> QED  BY <1>1, <1>2 DEF ContinueBurst

LEMMA SchedulerKeepsPace ==
    ASSUME TypeOK, PacedInv, AuditScheduler
    PROVE  PacedInv'
<1> USE PoolAssumption
<1>0. regAge \in 0 .. RegInterval /\ sinceLoop \in 0 .. RegInterval
  BY DEF TypeOK, PacedInv
<1>1. CASE SchedStart
  <2>1. ContinueBurst(1) /\ UNCHANGED <<regAge, sinceLoop>> /\ sched.pc \in BurstPcs
    BY <1>1 DEF SchedStart, AuditScheduler, LoopAdmits, timers, BurstPcs
  <2> QED  BY <1>0, <2>1, BurstPaced DEF PacedInv
<1>2. CASE InitDaemon
  <2>1. UNCHANGED <<regAge, sinceLoop>> /\ sched.pc \in BurstPcs
    BY <1>2 DEF InitDaemon, AuditScheduler, LoopAdmits, timers, BurstPcs
  <2>2. CASE sched' = At("initNew", sched.warp)
    BY <2>1, <2>2 DEF PacedInv, At, BurstPcs
  <2>3. CASE ContinueBurst(sched.warp + 1)
    BY <1>0, <2>1, <2>3, BurstPaced DEF PacedInv
  <2> QED  BY <1>2, <2>2, <2>3 DEF InitDaemon
<1>3. CASE InitRegister
  <2>1. UNCHANGED sinceLoop /\ sched.pc \in BurstPcs
    BY <1>3 DEF InitRegister, AuditScheduler, LoopAdmits, BurstPcs
  <2>2. CASE regAge' = 0 /\ sched' = At("initPoll", sched.warp)
    BY <1>0, <2>1, <2>2 DEF PacedInv, At, BurstPcs
  <2>3. CASE UNCHANGED <<registeredNow, regAge>> /\ ContinueBurst(sched.warp + 1)
    BY <1>0, <2>1, <2>3, BurstPaced DEF PacedInv
  <2> QED  BY <1>3, <2>2, <2>3 DEF InitRegister
<1>4. CASE InitPoll
  <2>1. /\ ContinueBurst(sched.warp + 1) /\ UNCHANGED <<regAge, sinceLoop>>
        /\ sched.pc \in BurstPcs
    BY <1>4 DEF InitPoll, AuditScheduler, LoopAdmits, timers, BurstPcs
  <2> QED  BY <1>0, <2>1, BurstPaced DEF PacedInv
<1>5. CASE Wake
  <2>1. /\ sched.pc = "sleep" /\ sched.left = 0 /\ UNCHANGED sinceLoop
        /\ sched' = At("loopDaemon", Least(Warps \ registeredNow))
    BY <1>5 DEF Wake, AuditScheduler, LoopAdmits
  <2>2. sinceLoop = RegInterval
    BY <1>0, <2>1 DEF PacedInv
  <2> QED  BY <1>0, <2>1, <2>2 DEF PacedInv, At, BurstPcs
<1>6. CASE LoopDaemon
  <2>1. UNCHANGED <<regAge, sinceLoop>> /\ sinceLoop = RegInterval
    BY <1>6 DEF LoopDaemon, AuditScheduler, LoopAdmits, timers, PacedInv
  <2>2. CASE sched' = At("loopNew", sched.warp)
    BY <1>0, <2>1, <2>2 DEF PacedInv, At, BurstPcs
  <2>3. CASE sched' = LoopHead(registeredNow, regAge)
    BY <1>0, <2>1, <2>3, HeadPaced
  <2> QED  BY <1>6, <2>2, <2>3 DEF LoopDaemon
<1>7. CASE LoopRegister
  <2>1. sched' = LoopHead(registeredNow', regAge') /\ sinceLoop = RegInterval
    BY <1>7 DEF LoopRegister, PacedInv
  <2>2. \/ regAge' = 0
        \/ UNCHANGED <<registeredNow, regAge>>
    BY <1>7 DEF LoopRegister
  <2>3. sinceLoop' \in {0, sinceLoop}
    BY DEF AuditScheduler
  <2>4. registeredNow' = registeredNow => sinceLoop' = sinceLoop
    BY DEF AuditScheduler, LoopAdmits
  <2>5. regAge' \in 0 .. RegInterval /\ sinceLoop' \in 0 .. RegInterval
    BY <1>0, <2>2, <2>3
  <2>6. regAge' = RegInterval \/ regAge' <= sinceLoop'
    BY <1>0, <2>1, <2>2, <2>3, <2>4
  <2> QED  BY <2>1, <2>5, <2>6, HeadPaced
<1>8. CASE SchedulerDies
  <2>1. UNCHANGED <<regAge, sinceLoop>>
    BY <1>8 DEF SchedulerDies, AuditScheduler, LoopAdmits, timers
  <2>2. \/ sched.pc = "initDaemon" /\ sched'.pc = "lost"
        \/ sched'.pc = "dead"
    BY <1>8 DEF SchedulerDies, At
  <2> QED  BY <1>0, <2>1, <2>2 DEF PacedInv, BurstPcs
<1> QED  BY <1>1, <1>2, <1>3, <1>4, <1>5, <1>6, <1>7, <1>8 DEF AuditScheduler, Scheduler

LEMMA TickKeepsPace ==
    ASSUME TypeOK, PacedInv, AuditTick
    PROVE  PacedInv'
<1> USE PoolAssumption
<1>1. /\ regAge \in 0 .. RegInterval /\ sinceLoop \in 0 .. RegInterval
      /\ sched.left \in 0 .. RegInterval
  BY DEF TypeOK, PacedInv, SchedStates
<1>2. /\ regAge' = Upto(regAge + 1, RegInterval)
      /\ sinceLoop' = Upto(sinceLoop + 1, RegInterval)
  BY DEF AuditTick, Tick
<1>3. /\ sched'.pc = sched.pc
      /\ sched'.left = IF sched.left > 0 THEN sched.left - 1 ELSE 0
  BY DEF AuditTick, Tick, TypeOK, SchedStates
<1> QED  BY <1>1, <1>2, <1>3 DEF PacedInv, Upto

LEMMA AuditKeepsPace == TypeOK /\ PacedInv /\ [AuditNext]_auditVars => PacedInv'
<1> SUFFICES ASSUME TypeOK, PacedInv, [AuditNext]_auditVars PROVE PacedInv'
  OBVIOUS
<1>0. regAge \in 0 .. RegInterval /\ RegInterval \in Nat
  BY PoolAssumption DEF TypeOK
<1>1. CASE AuditScheduler
  BY <1>1, SchedulerKeepsPace
<1>2. CASE AuditTick
  BY <1>2, TickKeepsPace
<1>3. CASE AuditRestart
  <2>1. /\ sched' = At("start", 0) /\ regAge' = RegInterval /\ sinceLoop' = sinceLoop
    BY <1>3 DEF AuditRestart, CrashRestart, FreshProcess
  <2> QED  BY <2>1 DEF PacedInv, At, BurstPcs
<1>4. ASSUME NEW t \in Tasks, AuditBoot(t) \/ AuditHeal(t) PROVE PacedInv'
  <2>1. UNCHANGED <<sched, sinceLoop>>
    BY <1>4 DEF AuditBoot, AuditHeal, BootNoDaemon, BootRaises, BootFailed, BootConnected,
                HealDelete, HealDone, HealFailed, Reboot
  <2>2. regAge' = regAge \/ regAge' = 0
    BY <1>4 DEF AuditBoot, AuditHeal, BootNoDaemon, BootRaises, BootFailed, BootConnected,
                HealDelete, HealDone, HealFailed, Reboot, timers
  <2> QED  BY <1>0, <2>1, <2>2 DEF PacedInv, BurstPcs
<1>5. CASE AuditOther
  <2>1. UNCHANGED <<sched, sinceLoop, regAge>>
    BY <1>5 DEF AuditOther, history, RetryUnready, Rotate, Reopened, Recheck,
                RecheckStart, RecheckPolled, RegistrationLands, LateLands, Calm, timers
  <2> QED  BY <2>1 DEF PacedInv
<1>6. CASE UNCHANGED auditVars
  BY <1>6 DEF auditVars, vars, history, PacedInv
<1> QED  BY <1>1, <1>2, <1>3, <1>4, <1>5, <1>6 DEF AuditNext

\* "+1 per 8h": outside the start-up burst the scheduler adds warps at least
\* REG_INTERVAL_SEC apart, across restarts and whatever heals do to the budget
\* (registration_scheduler's sleep and _budget_wait).
THEOREM SchedulerIsPaced == AuditSpec => SchedulerPaced
<1>1. AuditInit => TypeOK /\ PacedInv
  <2> SUFFICES ASSUME AuditInit PROVE TypeOK /\ PacedInv
    OBVIOUS
  <2>1. TypeOK
    BY InitType DEF AuditInit
  <2>2. sched = At("start", 0) /\ regAge = RegInterval /\ sinceLoop = RegInterval
    BY DEF AuditInit, Init
  <2> QED  BY <2>1, <2>2, PoolAssumption DEF PacedInv, At, BurstPcs
<1>2. TypeOK /\ [AuditNext]_auditVars => TypeOK'
  BY StepType, AuditIsPool
<1>3. TypeOK /\ PacedInv /\ [AuditNext]_auditVars => PacedInv'
  BY AuditKeepsPace
<1>4. PacedInv => [LoopAdmits => sinceLoop >= RegInterval]_auditVars
  BY PoolAssumption DEF PacedInv, LoopAdmits
<1> QED  BY <1>1, <1>2, <1>3, <1>4, PTL DEF AuditSpec, SchedulerPaced

-----------------------------------------------------------------------------
(* The history variables *)

\* The failures boot_one has counted are at most two for each failed boot.
Counted == \A w \in Warps : failCount[w] <= 2 * failedBoots[w]
HistoryTypeOK == sinceLoop \in 0 .. RegInterval /\ failedBoots \in [Warps -> 0 .. StaleThreshold]

\* A count that is raised at most twice as often stays below twice the other,
\* although both stop at the threshold.
LEMMA CountsTogether ==
    ASSUME NEW bound \in Nat \ {0}, NEW f \in 0 .. bound, NEW b \in 0 .. bound, f <= 2 * b
    PROVE  /\ Upto(b + 1, bound) \in 0 .. bound
           /\ Upto(f + 1, bound) <= 2 * Upto(b + 1, bound)
           /\ Upto(f + 2, bound) <= 2 * Upto(b + 1, bound)
           /\ f + 2 >= bound => 2 * Upto(b + 1, bound) >= bound
           /\ f + 1 >= bound => 2 * Upto(b + 1, bound) >= bound
BY DEF Upto

\* What the two counts of a task's warp become, in a step of the task.
LEMMA TaskCounts ==
    ASSUME TypeOK, HistoryTypeOK, Counted, NEW t \in Tasks, AuditBoot(t) \/ AuditHeal(t)
    PROVE  /\ failedBoots' \in [Warps -> 0 .. StaleThreshold] /\ Counted'
           /\ \A w \in Warps : StartsHeal(w) => 2 * failedBoots'[w] >= StaleThreshold
<1> DEFINE v == t[1]
           f == failCount[v]
           b == failedBoots[v]
<1>1. /\ StaleThreshold \in Nat \ {0} /\ v \in Warps
      /\ f \in 0 .. StaleThreshold /\ b \in 0 .. StaleThreshold /\ f <= 2 * b
      /\ failCount \in [Warps -> 0 .. StaleThreshold]
      /\ failedBoots \in [Warps -> 0 .. StaleThreshold]
  BY PoolAssumption DEF TypeOK, HistoryTypeOK, Counted, Tasks
<1>2. ASSUME NEW n \in 0 .. StaleThreshold, NEW m \in Int, m <= 2 * n, Fails(v, n),
             failCount' = [failCount EXCEPT ![v] = m]
      PROVE  failedBoots' \in [Warps -> 0 .. StaleThreshold] /\ Counted'
  <2>1. failedBoots' = [failedBoots EXCEPT ![v] = n]
    BY <1>2 DEF Fails
  <2>2. \A w \in Warps : failCount'[w] <= 2 * failedBoots'[w]
    BY <1>1, <1>2, <2>1 DEF Counted
  <2> QED  BY <1>1, <2>1, <2>2 DEF Counted
<1>3. ASSUME NEW w \in Warps, StartsHeal(w) PROVE w = v /\ task[t].at = "boot" /\ ~End(t)
  <2>1. PICK s \in 1 .. TaskSlots : /\ task[<<w, s>>].at = "boot"
                                    /\ task'[<<w, s>>].at = "delete"
    BY <1>3 DEF StartsHeal
  <2>2. <<w, s>> \in Tasks /\ (Boot(t) \/ Heal(t))
    BY DEF Tasks, AuditBoot, AuditHeal, Boot, Heal
  <2>3. t = <<w, s>>
    BY <2>1, <2>2, TaskAlone
  <2> QED  BY <2>1, <2>3 DEF End, Idle, TypeOK
<1>4. CASE BootNoDaemon(t) /\ Fails(v, Upto(b + 1, StaleThreshold))
  <2>1. failCount' = [failCount EXCEPT ![v] = Upto(f + 1, StaleThreshold)] /\ End(t)
    BY <1>4 DEF BootNoDaemon
  <2>2. Upto(f + 1, StaleThreshold) \in Int
    BY <1>1, CountsTogether DEF Upto
  <2> QED  BY <1>1, <1>2, <1>3, <1>4, <2>1, <2>2, CountsTogether
<1>5. CASE BootFailed(t) /\ Fails(v, Upto(b + 1, StaleThreshold))
  <2>1. \E n \in {1, 2} : failCount' = [failCount EXCEPT ![v] = Upto(f + n, StaleThreshold)]
    BY <1>5 DEF BootFailed
  <2>2. Upto(f + 1, StaleThreshold) \in Int /\ Upto(f + 2, StaleThreshold) \in Int
    BY <1>1 DEF Upto
  <2>3. failedBoots' \in [Warps -> 0 .. StaleThreshold] /\ Counted'
    BY <1>1, <1>2, <1>5, <2>1, <2>2, CountsTogether
  <2>4. ASSUME NEW w \in Warps, StartsHeal(w) PROVE 2 * failedBoots'[w] >= StaleThreshold
    <3>1. w = v /\ ~End(t)
      BY <1>3, <2>4
    <3>2. f + 1 >= StaleThreshold \/ f + 2 >= StaleThreshold
      BY <1>5, <3>1 DEF BootFailed, StaleHeal
    <3>3. failedBoots'[w] = Upto(b + 1, StaleThreshold)
      BY <1>1, <1>5, <3>1 DEF Fails
    <3> QED  BY <1>1, <3>2, <3>3, CountsTogether
  <2> QED  BY <2>3, <2>4
<1>6. CASE BootRaises(t) /\ UNCHANGED failedBoots
  <2>1. failCount' = failCount /\ End(t)
    BY <1>6 DEF BootRaises
  <2> QED  BY <1>1, <1>3, <1>6, <2>1 DEF Counted
<1>7. CASE BootConnected(t) /\ Fails(v, 0)
  <2>1. failCount' = [failCount EXCEPT ![v] = 0] /\ End(t)
    BY <1>7 DEF BootConnected
  <2>2. failedBoots' \in [Warps -> 0 .. StaleThreshold] /\ Counted'
    BY <1>1, <1>7, <2>1 DEF Fails, Counted
  <2> QED  BY <1>3, <2>1, <2>2
<1>8. CASE (HealDelete(t) \/ Reboot(t)) /\ UNCHANGED failedBoots
  <2>1. failCount' = failCount /\ task[t].at # "boot"
    BY <1>8 DEF HealDelete, Reboot
  <2> QED  BY <1>1, <1>3, <1>8, <2>1 DEF Counted
<1>9. CASE HealDone(t) /\ Fails(v, 0)
  <2>1. failCount' = [failCount EXCEPT ![v] = 0] /\ task[t].at # "boot"
    BY <1>9 DEF HealDone
  <2>2. failedBoots' \in [Warps -> 0 .. StaleThreshold] /\ Counted'
    BY <1>1, <1>9, <2>1 DEF Fails, Counted
  <2> QED  BY <1>3, <2>1, <2>2
<1>10. CASE HealFailed(t) /\ Fails(v, IF task[t].second THEN 0 ELSE 1)
  <2>1. /\ failCount' = [failCount EXCEPT ![v] = IF task[t].second THEN 0 ELSE 1]
        /\ task[t].at # "boot"
    BY <1>10 DEF HealFailed
  <2>2. failedBoots' \in [Warps -> 0 .. StaleThreshold] /\ Counted'
    BY <1>1, <1>10, <2>1 DEF Fails, Counted
  <2> QED  BY <1>3, <2>1, <2>2
<1> QED  BY <1>4, <1>5, <1>6, <1>7, <1>8, <1>9, <1>10 DEF AuditBoot, AuditHeal

\* The other steps start no heal and leave the failures alone, or reset them.
LEMMA OtherCounts ==
    ASSUME TypeOK, HistoryTypeOK, Counted,
           \/ AuditScheduler \/ AuditTick \/ AuditRestart \/ AuditOther
           \/ UNCHANGED auditVars
    PROVE  /\ failedBoots' \in [Warps -> 0 .. StaleThreshold] /\ Counted'
           /\ \A w \in Warps : ~StartsHeal(w)
<1>1. CASE AuditRestart
  <2>1. /\ failCount' = [w \in Warps |-> 0] /\ failedBoots' = [w \in Warps |-> 0]
        /\ task' = [t \in Tasks |-> Idle]
    BY <1>1 DEF AuditRestart, CrashRestart, FreshProcess
  <2>2. \A w \in Warps, s \in 1 .. TaskSlots : task'[<<w, s>>].at = "none"
    BY <2>1 DEF Tasks, Idle
  <2>3. failedBoots' \in [Warps -> 0 .. StaleThreshold]
    BY <2>1, PoolAssumption
  <2>4. \A w \in Warps : failCount'[w] = 0 /\ failedBoots'[w] = 0
    BY <2>1
  <2>5. Counted'
    BY <2>4 DEF Counted
  <2> QED  BY <2>2, <2>3, <2>5 DEF StartsHeal
<1>2. CASE AuditScheduler \/ AuditTick \/ AuditOther \/ UNCHANGED auditVars
  <2>1. UNCHANGED <<failCount, failedBoots>>
    BY <1>2 DEF AuditScheduler, AuditTick, AuditOther, auditVars, history, vars, Scheduler,
       SchedStart, InitDaemon, InitRegister, InitPoll, Wake, LoopDaemon, LoopRegister,
       SchedulerDies, Tick, RetryUnready, Rotate, Reopened, Recheck, RecheckStart,
       RecheckPolled, RegistrationLands, LateLands, Calm
  <2>2. \/ Scheduler \/ OtherStep
        \/ \E v \in Warps : RegistrationLands(v)
        \/ \E cmd \in {"new", "delete"}, v \in Warps : LateLands(cmd, v)
    BY <1>2 DEF AuditScheduler, AuditTick, AuditOther, auditVars, OtherStep
  <2>3. SameHeals
    BY <2>2, SchedulerKeepsHeals, OthersKeepCalls
       DEF RegistrationLands, LateLands, SameHeals
  <2>4. \A w \in Warps, s \in 1 .. TaskSlots : <<w, s>> \in Tasks
    BY DEF Tasks
  <2> QED  BY <2>1, <2>3, <2>4 DEF HistoryTypeOK, Counted, StartsHeal, SameHeals
<1> QED  BY <1>1, <1>2

LEMMA AuditCounts ==
    ASSUME TypeOK, HistoryTypeOK, Counted, [AuditNext]_auditVars
    PROVE  /\ failedBoots' \in [Warps -> 0 .. StaleThreshold] /\ Counted'
           /\ \A w \in Warps : StartsHeal(w) => 2 * failedBoots'[w] >= StaleThreshold
BY TaskCounts, OtherCounts DEF AuditNext

LEMMA SinceType ==
    ASSUME HistoryTypeOK, [AuditNext]_auditVars
    PROVE  sinceLoop' \in 0 .. RegInterval
<1>1. sinceLoop' \in {0, sinceLoop, Upto(sinceLoop + 1, RegInterval)}
  BY DEF AuditNext, AuditScheduler, AuditBoot, AuditHeal, AuditTick, AuditRestart,
         AuditOther, auditVars, history
<1> QED  BY <1>1, AgeType, PoolAssumption DEF HistoryTypeOK

LEMMA AuditInvariant == AuditSpec => [](TypeOK /\ HistoryTypeOK /\ Counted)
<1>1. AuditInit => TypeOK /\ HistoryTypeOK /\ Counted
  <2> SUFFICES ASSUME AuditInit PROVE TypeOK /\ HistoryTypeOK /\ Counted
    OBVIOUS
  <2>1. TypeOK
    BY InitType DEF AuditInit
  <2>2. /\ sinceLoop = RegInterval /\ failedBoots = [w \in Warps |-> 0]
        /\ failCount = [w \in Warps |-> 0]
    BY DEF AuditInit, Init
  <2> QED  BY <2>1, <2>2, PoolAssumption DEF HistoryTypeOK, Counted
<1>2. TypeOK /\ HistoryTypeOK /\ Counted /\ [AuditNext]_auditVars
         => (TypeOK /\ HistoryTypeOK /\ Counted)'
  BY StepType, AuditIsPool, AuditCounts, SinceType DEF HistoryTypeOK
<1> QED  BY <1>1, <1>2, PTL DEF AuditSpec

\* No warp loses its identity to a heal before at least half of
\* STALE_FAIL_THRESHOLD of its boots have failed since a boot of it last connected
\* at once or its last heal ended, however many boots, heals and verifications of
\* it overlap (boot_one, which counts twice and resets fail_count only there).
THEOREM HealsWereEarned == AuditSpec => HealsAreEarned
<1>1. TypeOK /\ HistoryTypeOK /\ Counted /\ [AuditNext]_auditVars
         => [\A w \in Warps :
                StartsHeal(w) => 2 * failedBoots'[w] >= StaleThreshold]_auditVars
  BY AuditCounts
<1> QED  BY <1>1, AuditInvariant, PTL DEF AuditSpec, HealsAreEarned

-----------------------------------------------------------------------------
(* ServingPool: the definitions of Hold, H and P are the same *)

LEMMA SameBoardStep == Board!BoardStep <=> P!BoardStep
BY DEF Board!BoardStep, P!BoardStep, Board!Up, P!Up, Board!Down, P!Down,
       Board!TakeOut, P!TakeOut, Board!Announce, P!Announce, Board!Advance, P!Advance,
       Board!Ahead, P!Ahead, Board!Healthy, P!Healthy, Board!Warps, P!Warps

LEMMA SameRestart == Board!Restart <=> P!Restart
BY DEF Board!Restart, P!Restart, Board!Warps, P!Warps

LEMMA SameRequest ==
    ASSUME NEW r
    PROVE  H!Request(r) <=> P!Request(r)
<1>1. H!Choice = P!Choice /\ H!Healthy = P!Healthy
  BY DEF H!Choice, P!Choice, H!Healthy, P!Healthy, H!Warps, P!Warps, H!Least, P!Least
<1>2. \A held : H!Decide(r, held) <=> P!Decide(r, held)
  BY <1>1 DEF H!Decide, P!Decide
<1> QED  BY <1>2 DEF H!Request, P!Request, H!Arrive, P!Arrive, H!Resume, P!Resume,
       H!Expire, P!Expire, H!Connect, P!Connect, H!Fresh, P!Fresh, H!Answered, P!Answered

LEMMA SameHelpers ==
    /\ H!Wake <=> P!Wake
    /\ H!Drop <=> P!Drop
    /\ H!HoldTick <=> P!HoldTick
    /\ H!Fresh("idle") = P!Fresh("idle")
BY DEF H!Wake, P!Wake, H!Drop, P!Drop, H!HoldTick, P!HoldTick, H!Fresh, P!Fresh

-----------------------------------------------------------------------------
(* The steps *)

LEMMA ServingIsPool == [ServingNext]_serving => [Next]_vars
BY DEF ServingNext, serving, Next

\* When nothing moves on the board, nobody who waits is woken.
LEMMA IdleWake ==
    ASSUME P!HoldInv, P!Wake, readyEvent' = readyEvent
    PROVE  req' = req
<1>1. ASSUME NEW r \in Requests PROVE ~(req[r].at = "waiting" /\ readyEvent')
  BY Zenon DEF P!HoldInv, P!WaitsOnCleared
<1>2. req' = [r \in Requests |-> req[r]]
  BY <1>1 DEF P!Wake
<1> QED  BY <1>2 DEF P!HoldInv

LEMMA ServingMoves ==
    ASSUME TypeOK, P!HoldInv, [ServingNext]_serving
    PROVE  [P!HoldNext]_(P!holdVars)
<1>1. CASE Next /\ ~Restarts /\ H!Wake
  <2>1. BoardMove /\ P!Wake
    BY <1>1, PoolMoves, RestartMoves, SameHelpers
  <2>2. CASE Board!BoardStep
    BY <2>1, <2>2, SameBoardStep DEF P!HoldNext
  <2>3. CASE UNCHANGED Board!board
    <3>1. UNCHANGED <<ready, readyEvent, active, BurstOver>>
      BY <2>3 DEF Board!board
    <3>2. req' = req
      BY <2>1, <3>1, IdleWake
    <3> QED  BY <3>1, <3>2 DEF P!holdVars, P!board
  <2> QED  BY <2>1, <2>2, <2>3 DEF BoardMove
<1>2. CASE CrashRestart /\ H!Drop
  BY <1>2, RestartMoves, SameRestart, SameHelpers DEF P!HoldNext
<1>3. CASE (H!HoldTick \/ \E r \in Requests : H!Request(r)) /\ UNCHANGED vars
  <2>1. UNCHANGED P!board
    BY <1>3 DEF vars, P!board, BurstOver
  <2> QED  BY <1>3, <2>1, SameHelpers, SameRequest DEF P!HoldNext
<1>4. CASE UNCHANGED serving
  BY <1>4 DEF serving, vars, P!holdVars, P!board, BurstOver
<1> QED  BY <1>1, <1>2, <1>3, <1>4 DEF ServingNext

LEMMA ServingInits == ServingInit => P!HoldInit /\ H!HoldInit
<1> SUFFICES ASSUME ServingInit PROVE P!HoldInit /\ H!HoldInit
  OBVIOUS
<1>1. ~BurstOver
  BY DEF ServingInit, Init, BurstOver, BurstPcs, At
<1>2. P!BoardInit /\ H!BoardInit
  BY <1>1 DEF ServingInit, Init, P!BoardInit, H!BoardInit, P!Warps, H!Warps, Warps
<1> QED  BY <1>2, SameHelpers DEF ServingInit, P!HoldInit, H!HoldInit

LEMMA ServingIsHold ==
    ASSUME HoldTimeout \in Nat \ {0}
    PROVE  ServingSpec => P!HoldSpec
<1>1. ServingInit => TypeOK /\ P!HoldInit /\ P!HoldInv
  BY InitType, ServingInits, P!HoldInitInv, PoolAssumption DEF ServingInit
<1>2. TypeOK /\ [ServingNext]_serving => TypeOK'
  BY StepType, ServingIsPool
<1>3. TypeOK /\ P!HoldInv /\ [ServingNext]_serving => [P!HoldNext]_(P!holdVars)
  BY ServingMoves
<1>4. P!HoldInv /\ [P!HoldNext]_(P!holdVars) => P!HoldInv'
  BY P!HoldStepInv, PoolAssumption
<1> QED  BY <1>1, <1>2, <1>3, <1>4, PTL DEF ServingSpec, P!HoldSpec

\* The server does to its requests what Hold says of them, with the real pool
\* in the place of ReadyBoard: wait_ready's callers see nothing of the boots,
\* heals, timers and registrations but the readiness and the event.
THEOREM ServingImplementsHold ==
    ASSUME HoldTimeout \in Nat \ {0}
    PROVE  ServingSpec => ImplementsHold
<1>1. ServingInit => H!HoldInit
  BY ServingInits
<1>2. [P!HoldNext]_(P!holdVars) => [H!HoldNext]_(H!holdVars)
  <2>1. P!BoardStep => H!BoardStep
    BY DEF H!BoardStep, P!BoardStep, H!Up, P!Up, H!Down, P!Down,
       H!TakeOut, P!TakeOut, H!Announce, P!Announce, H!Advance, P!Advance,
       H!Ahead, P!Ahead, H!Healthy, P!Healthy, H!Warps, P!Warps
  <2>2. P!Restart => H!Restart
    BY DEF H!Restart, P!Restart, H!Warps, P!Warps
  <2>3. (UNCHANGED P!board => UNCHANGED H!board)
        /\ (UNCHANGED P!holdVars => UNCHANGED H!holdVars)
    BY DEF P!board, H!board, P!holdVars, H!holdVars
  <2> QED  BY <2>1, <2>2, <2>3, SameHelpers, SameRequest DEF P!HoldNext, H!HoldNext
<1>3. ServingSpec => ServingInit
  BY DEF ServingSpec
<1> QED  BY <1>1, <1>2, <1>3, ServingIsHold, PTL
         DEF P!HoldSpec, ImplementsHold, H!HoldSpec

\* With the real pool too, no request sleeps while a warp is ready.
THEOREM ServingNeverSleeps ==
    ASSUME HoldTimeout \in Nat \ {0}
    PROVE  ServingSpec => []H!NoWaitWhileReady
<1>1. P!HoldSpec => []P!NoWaitWhileReady
  BY P!NoRequestSleeps, PoolAssumption
<1>2. P!NoWaitWhileReady => H!NoWaitWhileReady
  BY DEF P!NoWaitWhileReady, H!NoWaitWhileReady, P!Healthy, H!Healthy, P!Warps, H!Warps
<1> QED  BY <1>1, <1>2, ServingIsHold, PTL
=============================================================================
