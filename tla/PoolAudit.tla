------------------------------ MODULE PoolAudit ------------------------------
(***************************************************************************)
(* WarpPool with two history variables, which no step of the pool reads:   *)
(* they measure what the README's environment table promises of the        *)
(* registration interval and of the heals.                                 *)
(***************************************************************************)
EXTENDS WarpPool

VARIABLES
    sinceLoop,    \* time since the while loop last registered a warp, saturated
                  \* at RegInterval; a restart does not reset it
    failedBoots   \* boots of the warp that failed since one last connected at
                  \* once or the last heal ended, saturated at StaleThreshold;
                  \* connecting in a heal's reboot, a verification or the burst
                  \* resets nothing, here as in fail_count

history == <<sinceLoop, failedBoots>>
auditVars == <<vars, history>>

AuditInit ==
    /\ Init
    /\ sinceLoop = RegInterval
    /\ failedBoots = [w \in Warps |-> 0]

Fails(w, n) == failedBoots' = [failedBoots EXCEPT ![w] = n]

AuditBoot(t) ==
    LET w == t[1]
    IN  /\ \/ BootNoDaemon(t) /\ Fails(w, Upto(failedBoots[w] + 1, StaleThreshold))
           \/ BootFailed(t) /\ Fails(w, Upto(failedBoots[w] + 1, StaleThreshold))
           \/ BootRaises(t) /\ UNCHANGED failedBoots
           \/ BootConnected(t) /\ Fails(w, 0)
        /\ UNCHANGED sinceLoop

\* A first heal that fails leaves the boot it belongs to counted as failed.
AuditHeal(t) ==
    LET w == t[1]
    IN  /\ \/ HealDelete(t) /\ UNCHANGED failedBoots
           \/ HealDone(t) /\ Fails(w, 0)
           \/ HealFailed(t) /\ Fails(w, IF task[t].second THEN 0 ELSE 1)
           \/ Reboot(t) /\ UNCHANGED failedBoots
        /\ UNCHANGED sinceLoop

LoopAdmits == sched.pc = "loopNew" /\ registeredNow' # registeredNow /\ ~Restarts

AuditScheduler ==
    /\ Scheduler
    /\ sinceLoop' = IF LoopAdmits THEN 0 ELSE sinceLoop
    /\ UNCHANGED failedBoots

AuditTick ==
    /\ Tick
    /\ sinceLoop' = Upto(sinceLoop + 1, RegInterval)
    /\ UNCHANGED failedBoots

AuditRestart ==
    /\ CrashRestart
    /\ failedBoots' = [w \in Warps |-> 0]
    /\ UNCHANGED sinceLoop

AuditOther ==
    /\ \/ RetryUnready
       \/ Rotate \/ Reopened
       \/ \E w \in Warps : Recheck(w) \/ RegistrationLands(w)
       \/ \E cmd \in {"new", "delete"}, w \in Warps : LateLands(cmd, w)
       \/ Calm
    /\ UNCHANGED history

AuditNext ==
    \/ AuditScheduler
    \/ \E t \in Tasks : AuditBoot(t) \/ AuditHeal(t)
    \/ AuditTick \/ AuditRestart \/ AuditOther

AuditSpec == AuditInit /\ [][AuditNext]_auditVars

-----------------------------------------------------------------------------
(* Properties *)

\* "+1 per 8h": after the start-up burst the scheduler registers warps at least
\* REG_INTERVAL_SEC apart, whatever heals do to the budget meanwhile, and even
\* when the process restarts in between and forgets last_reg_ts.
SchedulerPaced == [][LoopAdmits => sinceLoop >= RegInterval]_auditVars

StartsHeal(w) ==
    \E s \in 1 .. TaskSlots : task[<<w, s>>].at = "boot" /\ task'[<<w, s>>].at = "delete"

\* boot_one counts a failed boot at most twice: a heal needs at least half of
\* STALE_FAIL_THRESHOLD boots that failed since one last connected at once or the
\* last heal ended, also when boots, heals and verifications overlap.
HealsAreEarned ==
    [][\A w \in Warps : StartsHeal(w) => 2 * failedBoots'[w] >= StaleThreshold]_auditVars

\* "Failed boots before an identity counts as stale": a heal needs that many of
\* them.  The code counts most failed boots twice.
StaleAfterThreshold ==
    [][\A w \in Warps : StartsHeal(w) => failedBoots'[w] >= StaleThreshold]_auditVars

\* "Min interval between heal re-registrations per warp": none begins while
\* another of the warp is still running.  last_heal is written at its end.
HealsApart == [][\A w \in Warps : StartsHeal(w) => ~Healing(w)]_auditVars
=============================================================================
