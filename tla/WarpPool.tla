------------------------------ MODULE WarpPool ------------------------------
(***************************************************************************)
(* The warp pool of the server (src/app.py): the registration scheduler,   *)
(* the boot and heal tasks of the warps, the retry loop and rotation.      *)
(*                                                                         *)
(* All of them are coroutines of one event loop, so a step of the model is *)
(* what one coroutine does between two awaits.  warp-svc and warp-cli run  *)
(* outside the loop: their answers, and the moment the registration file   *)
(* of a warp appears or disappears, are choices of the environment.        *)
(***************************************************************************)
EXTENDS Indices, FiniteSets

CONSTANTS
    NumWarps,         \* NUM_WARPS
    InitialBurst,     \* INITIAL_BURST
    RegInterval,      \* REG_INTERVAL_SEC, in ticks
    HealCooldown,     \* HEAL_COOLDOWN_SEC, in ticks
    StaleThreshold,   \* STALE_FAIL_THRESHOLD
    TaskSlots,        \* bound: boot tasks of one warp alive at a time
    MaxRechecks,      \* bound: reverify tasks of one warp alive at a time
    MaxLate,          \* bound: given-up registration commands still outstanding
    CanSettle         \* whether the environment may become well-behaved

ASSUME PoolAssumption ==
    /\ NumWarps \in Nat \ {0}
    /\ InitialBurst \in Nat
    /\ RegInterval \in Nat \ {0}
    /\ HealCooldown \in Nat
    /\ StaleThreshold \in Nat \ {0}
    /\ TaskSlots \in Nat \ {0}
    /\ MaxRechecks \in Nat
    /\ MaxLate \in Nat
    /\ CanSettle \in BOOLEAN

Warps == 1 .. NumWarps
Tasks == Warps \X (1 .. TaskSlots)

VARIABLES
    reg,             \* reg.json of the warp exists (survives a restart)
    late,            \* registration commands nobody waits for any more (the
                     \* timeout of run_cli, a dead process) and warp-svc may
                     \* still carry out
    ready,           \* WarpInstance.ready
    failCount,       \* WarpInstance.fail_count, saturated at StaleThreshold
    healAge,         \* time since WarpInstance.last_heal, saturated
    active,          \* Manager.active
    readyEvent,      \* Manager.ready_event
    reopening,       \* the warp rotate() reopens while it holds Manager.lock
    regAge,          \* time since last_reg_ts, saturated at RegInterval
    registeredNow,   \* registered_now of registration_scheduler
    sched,           \* where registration_scheduler is
    retrying,        \* the retry_unready loop has been started
    task,            \* the boot_one tasks
    recheck,         \* the _reverify tasks of each warp, by stage
    calm             \* from here on warp-svc answers every call well and the
                     \* process is not restarted

vars == <<reg, late, ready, failCount, healAge, active, readyEvent, reopening, regAge,
          registeredNow, sched, retrying, task, recheck, calm>>

identity == <<reg, late>>
timers == <<healAge, regAge>>
rotation == <<active, reopening, recheck>>

Healthy == {w \in Warps : ready[w]}
Upto(n, bound) == IF n < bound THEN n ELSE bound

Idle == [at |-> "none", second |-> FALSE, age |-> 0]
Booting == [at |-> "boot", second |-> FALSE, age |-> 0]

\* A boot_one task for every warp of S.  A warp whose slots are all taken gets
\* none: that is the bound TaskSlots, the code has no limit.
Free(w) == {s \in 1 .. TaskSlots : task[<<w, s>>].at = "none"}
Spawn(S) == [t \in Tasks |-> IF t[1] \in S /\ Free(t[1]) # {} /\ t[2] = Least(Free(t[1]))
                             THEN Booting ELSE task[t]]

-----------------------------------------------------------------------------
(* The registration budget shared by the scheduler and the heals *)

BudgetWait == RegInterval - regAge

\* A "registration new" command is running for w, or a heal is about to run it.
Registering(w) ==
    \/ sched.pc \in {"initNew", "loopNew"} /\ sched.warp = w
    \/ \E s \in 1 .. TaskSlots : task[<<w, s>>].at = "new"
Healing(w) == \E s \in 1 .. TaskSlots : task[<<w, s>>].at \in {"delete", "new"}
CallInFlight(w) == Registering(w) \/ Healing(w)

\* warp-svc writes the registration while the command runs.
RegistrationLands(w) ==
    /\ Registering(w) /\ ~reg[w]
    /\ reg' = [reg EXCEPT ![w] = TRUE]
    /\ UNCHANGED <<late, ready, failCount, timers, rotation, readyEvent, registeredNow,
                   sched, retrying, task, calm>>

\* The caller of the command is gone: warp-svc may be left with it.
MayLinger(cmd, w) ==
    \/ late' = late
    \/ /\ ~calm
       /\ late' = late \cup {<<cmd, w>>}
       /\ Cardinality(late') <= MaxLate

\* warp-svc carries out, or drops, a command nobody waits for.
LateLands(cmd, w) ==
    /\ <<cmd, w>> \in late
    /\ late' = late \ {<<cmd, w>>}
    /\ reg' = [reg EXCEPT ![w] = (cmd = "new")] \/ reg' = reg
    /\ UNCHANGED <<ready, failCount, timers, rotation, readyEvent, registeredNow,
                   sched, retrying, task, calm>>

\* What register_one may return: true when the command succeeded or the
\* registration exists, and when warp-cli claims it "already" exists.
RegisterResult(w) == IF reg[w] THEN {TRUE} ELSE IF calm THEN {} ELSE BOOLEAN

-----------------------------------------------------------------------------
(* registration_scheduler *)

At(pc, w) == [pc |-> pc, warp |-> w, left |-> 0]
Sleep(left) == [pc |-> "sleep", warp |-> 0, left |-> left]

\* Bug: no full interval of sleep when the budget is free.
LoopHead_BudgetOnly(known, age) ==
    IF known = Warps THEN At("done", 0) ELSE Sleep(RegInterval - age)

\* Bug: the loop stops as soon as one warp is registered.
LoopHead_OneWarp(known, age) ==
    IF known # {} THEN At("done", 0)
    ELSE Sleep(IF age < RegInterval THEN RegInterval - age ELSE RegInterval)

\* The head of the while loop: finish, or sleep for budget_wait() or the interval.
LoopHead(known, age) ==
    IF known = Warps THEN At("done", 0)
    ELSE Sleep(IF age < RegInterval THEN RegInterval - age ELSE RegInterval)

Burst(from, known) == {w \in Warps : from <= w /\ w <= InitialBurst /\ w \notin known}

\* The next warp of the burst, or its end: announce the healthy warps, boot the
\* registered ones that are not ready, start the retry loop, enter the while loop.
ContinueBurst(from) ==
    \/ /\ Burst(from, registeredNow') # {}
       /\ sched' = At("initDaemon", Least(Burst(from, registeredNow')))
       /\ UNCHANGED <<readyEvent, task, retrying>>
    \/ /\ Burst(from, registeredNow') = {}
       /\ readyEvent' = (readyEvent \/ \E w \in Warps : ready'[w])
       /\ task' = Spawn({w \in Warps : reg[w] /\ ~ready'[w]})
       /\ retrying' = TRUE
       /\ sched' = LoopHead(registeredNow', regAge')

SchedStart ==
    /\ sched.pc = "start"
    /\ registeredNow' = {w \in Warps : reg[w]}
    /\ UNCHANGED <<identity, ready, failCount, timers, rotation, calm>>
    /\ ContinueBurst(1)

InitDaemon ==
    /\ sched.pc = "initDaemon"
    /\ UNCHANGED <<identity, ready, failCount, timers, rotation, registeredNow, calm>>
    /\ \/ /\ sched' = At("initNew", sched.warp)
          /\ UNCHANGED <<readyEvent, task, retrying>>
       \/ /\ ~calm
          /\ ContinueBurst(sched.warp + 1)

InitRegister ==
    /\ sched.pc = "initNew"
    /\ MayLinger("new", sched.warp)
    /\ UNCHANGED <<reg, ready, failCount, healAge, rotation, calm>>
    /\ \E ok \in RegisterResult(sched.warp) :
          \/ /\ ok
             /\ registeredNow' = registeredNow \cup {sched.warp}
             /\ regAge' = 0
             /\ sched' = At("initPoll", sched.warp)
             /\ UNCHANGED <<readyEvent, task, retrying>>
          \/ /\ ~ok
             /\ UNCHANGED <<registeredNow, regAge>>
             /\ ContinueBurst(sched.warp + 1)

\* What poll_until_connected may return for w: it takes a registration to
\* connect, and in a calm environment a registered warp does connect.
PollResult(w) == IF ~reg[w] THEN {FALSE} ELSE IF calm THEN {TRUE} ELSE BOOLEAN

InitPoll ==
    /\ sched.pc = "initPoll"
    /\ \E ok \in PollResult(sched.warp) : ready' = [ready EXCEPT ![sched.warp] = ok]
    /\ UNCHANGED <<identity, failCount, timers, rotation, registeredNow, calm>>
    /\ ContinueBurst(sched.warp + 1)

\* The sleep ends: the budget is not looked at again.
Wake ==
    /\ sched.pc = "sleep" /\ sched.left = 0
    /\ sched' = At("loopDaemon", Least(Warps \ registeredNow))
    /\ UNCHANGED <<identity, ready, failCount, timers, rotation, readyEvent, registeredNow,
                   retrying, task, calm>>

LoopDaemon ==
    /\ sched.pc = "loopDaemon"
    /\ \/ sched' = At("loopNew", sched.warp)
       \/ /\ ~calm
          /\ sched' = LoopHead(registeredNow, regAge)
    /\ UNCHANGED <<identity, ready, failCount, timers, rotation, readyEvent, registeredNow,
                   retrying, task, calm>>

LoopRegister ==
    /\ sched.pc = "loopNew"
    /\ \E ok \in RegisterResult(sched.warp) :
          \/ /\ ok
             /\ registeredNow' = registeredNow \cup {sched.warp}
             /\ regAge' = 0
             /\ task' = Spawn({sched.warp})
          \/ /\ ~ok
             /\ UNCHANGED <<registeredNow, regAge, task>>
    /\ sched' = LoopHead(registeredNow', regAge')
    /\ MayLinger("new", sched.warp)
    /\ UNCHANGED <<reg, ready, failCount, healAge, rotation, readyEvent, retrying, calm>>

\* ensure_daemon raises what it does not catch (mkdir, the fallback log file): the
\* scheduler, which nobody awaits, ends; in the burst it is lost before it has
\* announced anything or started the retry loop.
SchedulerDies ==
    /\ sched.pc \in {"initDaemon", "loopDaemon"} /\ ~calm
    /\ sched' = At(IF sched.pc = "initDaemon" THEN "lost" ELSE "dead", 0)
    /\ UNCHANGED <<identity, ready, failCount, timers, rotation, readyEvent, registeredNow,
                   retrying, task, calm>>

Scheduler ==
    \/ SchedStart \/ InitDaemon \/ InitRegister \/ InitPoll
    \/ Wake \/ LoopDaemon \/ LoopRegister \/ SchedulerDies

\* Bug: the retry loop boots the warps that are ready.
RetryUnready_Ready ==
    /\ retrying
    /\ task' = Spawn({w \in Warps : reg[w] /\ ready[w]})
    /\ UNCHANGED <<identity, ready, failCount, timers, rotation, readyEvent, registeredNow,
                   sched, retrying, calm>>

\* One round of retry_unready.
RetryUnready ==
    /\ retrying
    /\ task' = Spawn({w \in Warps : reg[w] /\ ~ready[w]})
    /\ UNCHANGED <<identity, ready, failCount, timers, rotation, readyEvent, registeredNow,
                   sched, retrying, calm>>

-----------------------------------------------------------------------------
(* boot_one and heal_stale.  t = <<w, s>> is a task of warp w. *)

Goto(t, stage, second, age) ==
    task' = [task EXCEPT ![t] = [at |-> stage, second |-> second, age |-> age]]
End(t) == task' = [task EXCEPT ![t] = Idle]

\* ready' and the event after a poll that found w connected (or not).
Settle(w, ok) ==
    /\ ready' = [ready EXCEPT ![w] = ok]
    /\ readyEvent' = (readyEvent \/ ok)

\* ensure_daemon failed.
BootNoDaemon(t) ==
    /\ task[t].at = "boot" /\ ~calm
    /\ ready' = [ready EXCEPT ![t[1]] = FALSE]
    /\ failCount' = [failCount EXCEPT ![t[1]] = Upto(@ + 1, StaleThreshold)]
    /\ End(t)
    /\ UNCHANGED <<identity, timers, rotation, readyEvent, registeredNow, sched, retrying, calm>>

\* ensure_daemon raises: the task ends and nothing is counted.
BootRaises(t) ==
    /\ task[t].at = "boot" /\ ~calm
    /\ End(t)
    /\ UNCHANGED <<identity, ready, failCount, timers, rotation, readyEvent, registeredNow,
                   sched, retrying, calm>>

\* Bug: fail_count is not reset when the warp connects.
BootConnected_KeepsCount(t) ==
    /\ task[t].at = "boot" /\ TRUE \in PollResult(t[1])
    /\ Settle(t[1], TRUE)
    /\ End(t)
    /\ UNCHANGED <<identity, failCount, timers, rotation, registeredNow, sched, retrying, calm>>

\* ensure_daemon, ensure_proxy_mode and poll_until_connected succeeded.
BootConnected(t) ==
    /\ task[t].at = "boot" /\ TRUE \in PollResult(t[1])
    /\ Settle(t[1], TRUE)
    /\ failCount' = [failCount EXCEPT ![t[1]] = 0]
    /\ End(t)
    /\ UNCHANGED <<identity, timers, rotation, registeredNow, sched, retrying, calm>>

\* Bug: a warp without a registration is healed too.
StaleHeal_Unregistered(w, fails) ==
    /\ fails >= StaleThreshold
    /\ \E o \in Warps \ {w} : ready[o]
    /\ healAge[w] >= HealCooldown
    /\ BudgetWait = 0

\* boot_one's condition for a heal and the two early returns of heal_stale.
StaleHeal(w, fails) ==
    /\ reg[w] /\ fails >= StaleThreshold
    /\ \E o \in Warps \ {w} : ready[o]
    /\ healAge[w] >= HealCooldown
    /\ BudgetWait = 0

\* The poll failed.  fail_count goes up before each of the two heal checks.
BootFailed(t) ==
    LET w == t[1]
        once == failCount[w] + 1
        twice == failCount[w] + 2
    IN  /\ task[t].at = "boot" /\ FALSE \in PollResult(w)
        /\ Settle(w, FALSE)
        /\ \/ /\ StaleHeal(w, once)
              /\ failCount' = [failCount EXCEPT ![w] = Upto(once, StaleThreshold)]
              /\ Goto(t, "delete", FALSE, 0)
           \/ /\ ~StaleHeal(w, once) /\ StaleHeal(w, twice)
              /\ failCount' = [failCount EXCEPT ![w] = Upto(twice, StaleThreshold)]
              /\ Goto(t, "delete", TRUE, 0)
           \/ /\ ~StaleHeal(w, twice)
              /\ failCount' = [failCount EXCEPT ![w] = Upto(twice, StaleThreshold)]
              /\ End(t)
        /\ UNCHANGED <<identity, timers, rotation, registeredNow, sched, retrying, calm>>

\* "registration delete" returns; whether it worked is not looked at.
HealDelete(t) ==
    /\ task[t].at = "delete"
    /\ \/ reg' = [reg EXCEPT ![t[1]] = FALSE] /\ late' = late
       \/ ~calm /\ reg' = reg /\ MayLinger("delete", t[1])
    /\ Goto(t, "new", task[t].second, task[t].age)
    /\ UNCHANGED <<ready, failCount, timers, rotation, readyEvent, registeredNow, sched,
                   retrying, calm>>

\* Bug: mark_reg is not called.
HealDone_Free(t) ==
    /\ task[t].at = "new" /\ (reg[t[1]] \/ ~calm)
    /\ healAge' = [healAge EXCEPT ![t[1]] = task[t].age]
    /\ failCount' = [failCount EXCEPT ![t[1]] = 0]
    /\ Goto(t, "reboot", task[t].second, 0)
    /\ MayLinger("new", t[1])
    /\ UNCHANGED <<reg, ready, regAge, rotation, readyEvent, registeredNow, sched,
                   retrying, calm>>

\* "registration new" returns 0, or leaves a registration: the heal is charged
\* to the budget and the warp connected anew.  Another heal of the warp may have
\* deleted what the command registered by the time it returns.
HealDone(t) ==
    /\ task[t].at = "new" /\ (reg[t[1]] \/ ~calm)
    /\ healAge' = [healAge EXCEPT ![t[1]] = task[t].age]
    /\ failCount' = [failCount EXCEPT ![t[1]] = 0]
    /\ regAge' = 0
    /\ Goto(t, "reboot", task[t].second, 0)
    /\ MayLinger("new", t[1])
    /\ UNCHANGED <<reg, ready, rotation, readyEvent, registeredNow, sched, retrying, calm>>

\* It fails and there is no registration.  After a first heal boot_one goes on to count the
\* failure again; its second check fails, as there is no registration left.
HealFailed(t) ==
    /\ task[t].at = "new" /\ ~reg[t[1]] /\ ~calm
    /\ healAge' = [healAge EXCEPT ![t[1]] = task[t].age]
    /\ failCount' = [failCount EXCEPT ![t[1]] = IF task[t].second THEN 0 ELSE 1]
    /\ End(t)
    /\ MayLinger("new", t[1])
    /\ UNCHANGED <<reg, ready, regAge, rotation, readyEvent, registeredNow, sched,
                   retrying, calm>>

\* The poll after a heal: neither outcome touches fail_count.
Reboot(t) ==
    /\ task[t].at = "reboot"
    /\ \E ok \in PollResult(t[1]) : Settle(t[1], ok)
    /\ End(t)
    /\ UNCHANGED <<identity, failCount, timers, rotation, registeredNow, sched, retrying, calm>>

Boot(t) == BootNoDaemon(t) \/ BootRaises(t) \/ BootConnected(t) \/ BootFailed(t)
Heal(t) == HealDelete(t) \/ HealDone(t) \/ HealFailed(t) \/ Reboot(t)

-----------------------------------------------------------------------------
(* Manager.rotate and Manager._reverify *)

\* Bug: the next warp on the ring is taken whether it is healthy or not.
Successor_Unhealthy(w) == LET after == {o \in Warps : o > w}
                      IN  IF after # {} THEN Least(after) ELSE Least(Healthy)

\* The next healthy warp by index, or the first one; the lock is taken and the
\* warp reopened in the executor.  Without a healthy warp nothing changes.
Successor(w) == LET after == {o \in Healthy : o > w}
            IN  IF after # {} THEN Least(after) ELSE Least(Healthy)

Rotate ==
    /\ reopening = 0 /\ Healthy # {}
    /\ recheck[Successor(active)].queued + recheck[Successor(active)].polling < MaxRechecks
    /\ active' = Successor(active)
    /\ reopening' = Successor(active)
    /\ UNCHANGED <<identity, ready, failCount, timers, readyEvent, recheck, registeredNow,
                   sched, retrying, task, calm>>

\* The executor is done: the verification is queued, the lock released.
Reopened ==
    /\ reopening # 0
    /\ recheck' = [recheck EXCEPT ![reopening].queued = @ + 1]
    /\ reopening' = 0
    /\ UNCHANGED <<identity, ready, failCount, timers, active, readyEvent, registeredNow,
                   sched, retrying, task, calm>>

\* Bug: the event is cleared although another warp is healthy.
RecheckStart_ClearsEvent(w) ==
    /\ recheck[w].queued > 0
    /\ ready' = [ready EXCEPT ![w] = FALSE]
    /\ readyEvent' = FALSE
    /\ recheck' = [recheck EXCEPT ![w] = [queued |-> @.queued - 1, polling |-> @.polling + 1]]
    /\ UNCHANGED <<identity, failCount, timers, active, reopening, registeredNow, sched,
                   retrying, task, calm>>

RecheckStart(w) ==
    /\ recheck[w].queued > 0
    /\ ready' = [ready EXCEPT ![w] = FALSE]
    /\ readyEvent' = (readyEvent /\ \E o \in Warps : ready'[o])
    /\ recheck' = [recheck EXCEPT ![w] = [queued |-> @.queued - 1, polling |-> @.polling + 1]]
    /\ UNCHANGED <<identity, failCount, timers, active, reopening, registeredNow, sched,
                   retrying, task, calm>>

RecheckPolled(w) ==
    /\ recheck[w].polling > 0
    /\ \E ok \in PollResult(w) : Settle(w, ok)
    /\ recheck' = [recheck EXCEPT ![w].polling = @ - 1]
    /\ UNCHANGED <<identity, failCount, timers, active, reopening, registeredNow, sched,
                   retrying, task, calm>>

Recheck(w) == RecheckStart(w) \/ RecheckPolled(w)

-----------------------------------------------------------------------------
(* Time, the environment and restarts *)

Tick ==
    /\ regAge' = Upto(regAge + 1, RegInterval)
    /\ healAge' = [w \in Warps |-> Upto(healAge[w] + 1, HealCooldown)]
    /\ task' = [t \in Tasks |-> IF task[t].at \in {"delete", "new"}
                                THEN [task[t] EXCEPT !.age = Upto(@ + 1, HealCooldown)]
                                ELSE task[t]]
    /\ sched' = [sched EXCEPT !.left = IF @ > 0 THEN @ - 1 ELSE 0]
    /\ UNCHANGED <<identity, ready, failCount, rotation, readyEvent, registeredNow, retrying, calm>>

\* From here on warp-svc and the network work, and the process keeps running.
Calm ==
    /\ CanSettle /\ ~calm /\ late = {}
    /\ calm' = TRUE
    /\ UNCHANGED <<identity, ready, failCount, timers, rotation, readyEvent, registeredNow,
                   sched, retrying, task>>

\* Bug: last_reg_ts starts at +REG_INTERVAL_SEC.
FreshProcess_WrongSign(uptime) ==
    /\ ready' = [w \in Warps |-> FALSE]
    /\ failCount' = [w \in Warps |-> 0]
    /\ healAge' = [w \in Warps |-> uptime]
    /\ active' = 1
    /\ readyEvent' = FALSE
    /\ reopening' = 0
    /\ regAge' = -RegInterval
    /\ registeredNow' = {}
    /\ sched' = At("start", 0)
    /\ retrying' = FALSE
    /\ task' = [t \in Tasks |-> Idle]
    /\ recheck' = [w \in Warps |-> [queued |-> 0, polling |-> 0]]

\* The values of a fresh process; last_heal = 0.0 is compared with a monotonic
\* clock, so that every warp's heal looks as old as the machine's uptime.
FreshProcess(uptime) ==
    /\ ready' = [w \in Warps |-> FALSE]
    /\ failCount' = [w \in Warps |-> 0]
    /\ healAge' = [w \in Warps |-> uptime]
    /\ active' = 1
    /\ readyEvent' = FALSE
    /\ reopening' = 0
    /\ regAge' = RegInterval
    /\ registeredNow' = {}
    /\ sched' = At("start", 0)
    /\ retrying' = FALSE
    /\ task' = [t \in Tasks |-> Idle]
    /\ recheck' = [w \in Warps |-> [queued |-> 0, polling |-> 0]]

\* The registration commands that are running.
Commands ==
    {<<"new", w>> : w \in {x \in Warps : Registering(x)}}
    \cup {<<task[t].at, t[1]>> : t \in {x \in Tasks : task[x].at = "delete"}}

\* The process dies and is restarted; the commands that were running may be
\* left to a warp-svc that lives on, or die with the container.
CrashRestart ==
    /\ ~calm
    /\ \E uptime \in 0 .. HealCooldown : FreshProcess(uptime)
    /\ late' \in SUBSET (late \cup Commands) /\ Cardinality(late') <= MaxLate
    /\ UNCHANGED <<reg, calm>>

Init ==
    /\ reg \in [Warps -> BOOLEAN]
    /\ late = {}
    /\ ready = [w \in Warps |-> FALSE]
    /\ failCount = [w \in Warps |-> 0]
    /\ \E uptime \in 0 .. HealCooldown : healAge = [w \in Warps |-> uptime]
    /\ active = 1
    /\ readyEvent = FALSE
    /\ reopening = 0
    /\ regAge = RegInterval
    /\ registeredNow = {}
    /\ sched = At("start", 0)
    /\ retrying = FALSE
    /\ task = [t \in Tasks |-> Idle]
    /\ recheck = [w \in Warps |-> [queued |-> 0, polling |-> 0]]
    /\ calm = FALSE

Next ==
    \/ Scheduler
    \/ RetryUnready
    \/ \E t \in Tasks : Boot(t) \/ Heal(t)
    \/ Rotate \/ Reopened
    \/ \E w \in Warps : Recheck(w) \/ RegistrationLands(w)
    \/ \E cmd \in {"new", "delete"}, w \in Warps : LateLands(cmd, w)
    \/ Tick \/ Calm \/ CrashRestart

Spec == Init /\ [][Next]_vars

\* The event loop runs every coroutine that can run, timers expire, commands
\* return, and a calm warp-svc completes the registrations it is asked for.
Fairness ==
    /\ WF_vars(Scheduler)
    /\ WF_vars(RetryUnready)
    /\ WF_vars(Tick)
    /\ WF_vars(Reopened)
    /\ \A t \in Tasks : WF_vars(Boot(t)) /\ WF_vars(Heal(t))
    /\ \A w \in Warps : WF_vars(Recheck(w)) /\ WF_vars(calm /\ RegistrationLands(w))

FairSpec == Spec /\ Fairness
-----------------------------------------------------------------------------
(* Properties *)

TaskStates == [at : {"none", "boot", "delete", "new", "reboot"},
               second : BOOLEAN, age : 0 .. HealCooldown]
BurstPcs == {"start", "initDaemon", "initNew", "initPoll", "lost"}
SchedStates == [pc : BurstPcs \cup {"sleep", "loopDaemon", "loopNew", "done", "dead"},
                warp : 0 .. NumWarps, left : 0 .. RegInterval]

\* Every variable of the pool has its type; in particular the scheduler always
\* has a warp to work on when it is in a step that names one, and sleeps only
\* while there is a warp left to register.
TypeOK ==
    /\ reg \in [Warps -> BOOLEAN]
    /\ late \in SUBSET ({"new", "delete"} \X Warps)
    /\ ready \in [Warps -> BOOLEAN]
    /\ failCount \in [Warps -> 0 .. StaleThreshold]
    /\ healAge \in [Warps -> 0 .. HealCooldown]
    /\ active \in Warps
    /\ readyEvent \in BOOLEAN
    /\ reopening \in 0 .. NumWarps
    /\ regAge \in 0 .. RegInterval
    /\ registeredNow \in SUBSET Warps
    /\ sched \in SchedStates
    /\ sched.pc \notin {"start", "sleep", "done", "lost", "dead"} => sched.warp \in Warps
    /\ sched.pc = "sleep" => registeredNow # Warps
    /\ retrying \in BOOLEAN
    /\ task \in [Tasks -> TaskStates]
    /\ recheck \in [Warps -> [queued : Nat, polling : Nat]]
    /\ calm \in BOOLEAN

BurstOver == sched.pc \notin BurstPcs

\* Once the start-up burst is over, a healthy warp is never hidden from the
\* requests waiting on ready_event: whatever boot, heal, reverify and rotate do
\* to each other, the event is set while a warp is ready.
NoHiddenWarp == BurstOver /\ Healthy # {} => readyEvent

\* The pool does to (ready, ready_event, active) only what ReadyBoard allows:
\* in particular rotate() takes the nearest healthy warp of the ring, and only
\* taking out the last healthy warp clears the event.
Board == INSTANCE ReadyBoard WITH announced <- BurstOver
ImplementsBoard == Board!BoardSpec

\* Only a restart leads to the first step of the scheduler.
Restarts == sched'.pc = "start"

\* A registration command that ends leaving an identity behind is charged to
\* the shared budget (mark_reg in the scheduler and in heal_stale).
IdentitiesAreCharged ==
    [][\A w \in Warps : CallInFlight(w) /\ ~CallInFlight(w)' /\ reg'[w] /\ ~Restarts
          => regAge' = 0]_vars

\* The scheduler counts w as registered, w has no registration and no heal of
\* w is running: what a heal leaves behind whose "registration new" failed.
Stranded(w) == w \in registeredNow /\ ~reg[w] /\ ~Healing(w)

\* Nothing the program does gives a stranded warp its identity back: neither the
\* scheduler nor a retry nor another heal touches it.  Short of a restart it takes
\* a registration somebody gave up, which warp-svc completes after all.
StrandedOnItsOwn ==
    [][\A w \in Warps : Stranded(w)
          => Stranded(w)' \/ Restarts \/ <<"new", w>> \in late]_vars

\* "+1 per 8h shared budget - re-registrations consume the same budget": after
\* the burst a registration is charged only when the last one is REG_INTERVAL_SEC
\* ago.  The code looks at the budget before the commands run, not after.
SharedBudget ==
    [][\A w \in Warps :
          BurstOver /\ CallInFlight(w) /\ ~CallInFlight(w)' /\ reg'[w] /\ ~Restarts
          => regAge = RegInterval]_vars

\* "Pool size (registrations stagger: 1 at boot, +1 per 8h)": once warp-svc
\* behaves, every warp becomes ready, unless a failed heal stranded it.
EveryWarpServes == \A w \in Warps : calm ~> (ready[w] \/ Stranded(w))

\* The scheduler has died of an exception before it got to w: in the burst, where
\* it takes the retry loop with it, or in its loop before w was registered.
Unattended(w) == sched.pc = "lost" \/ (sched.pc = "dead" /\ ~reg[w])

\* Once warp-svc behaves, every warp that is not stranded gets an identity and
\* becomes ready, and stays so or becomes so again; unless the scheduler has died
\* on the way, which only loses the warps it still had to register.
PoolFills == \A w \in Warps : calm ~> (ready[w] \/ Stranded(w) \/ Unattended(w))

\* A restart in a calm environment strands no warp: all of them become ready,
\* those included that were stranded or half-healed when the process died.
RestartRevives == \A w \in Warps : (calm /\ sched.pc = "start") ~> ready[w]
=============================================================================
