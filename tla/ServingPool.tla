---------------------------- MODULE ServingPool -----------------------------
(***************************************************************************)
(* The pool server as a whole: the coroutines of WarpPool and the requests *)
(* of Hold on one event loop, sharing the readiness of the warps and the   *)
(* ready event.                                                            *)
(***************************************************************************)
EXTENDS WarpPool

CONSTANTS
    Requests,       \* requests in flight at a time
    HoldTimeout     \* HOLD_TIMEOUT, in ticks, as in Hold

VARIABLE req

serving == <<vars, req>>

H == INSTANCE Hold WITH announced <- BurstOver

ServingInit == Init /\ req = [r \in Requests |-> H!Fresh("idle")]

ServingNext ==
    \/ Next /\ ~Restarts /\ H!Wake
    \/ CrashRestart /\ H!Drop
    \/ /\ H!HoldTick \/ \E r \in Requests : H!Request(r)
       /\ UNCHANGED vars

ServingSpec == ServingInit /\ [][ServingNext]_serving

-----------------------------------------------------------------------------
(* Properties *)

\* The server does to its requests what Hold says, with the real pool in the
\* place of ReadyBoard.
ImplementsHold == H!HoldSpec

\* README.md: HOLD_TIMEOUT is the "Seconds to hold requests while no warp is
\* ready, then 502": a request that arrives is held, not refused at once.
ArrivalsAreHeld ==
    [][\A r \in Requests : req'[r].at = "refused"
          => req[r].at \in {"waiting", "woken", "refused"}]_serving
=============================================================================
