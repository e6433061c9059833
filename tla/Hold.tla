-------------------------------- MODULE Hold --------------------------------
(***************************************************************************)
(* Requests held until a warp is ready (src/app.py, Manager.wait_ready and *)
(* its three callers: /fetch, /relay and the forward proxy), on top of     *)
(* what ReadyBoard promises of the pool.                                   *)
(*                                                                         *)
(* A request that had to wait is resumed by the event loop some time after *)
(* the event is set: the pool may have changed in between.                 *)
(***************************************************************************)
EXTENDS ReadyBoard

CONSTANTS
    Requests,       \* requests in flight at a time
    HoldTimeout     \* HOLD_TIMEOUT, in ticks

ASSUME HoldAssumption == HoldTimeout \in Nat \ {0}

VARIABLE req        \* per request: where it is, how long it was held (saturated
                    \* when overdue), its warp

holdVars == <<board, req>>

Answered == {"served", "failed", "refused"}
Fresh(at) == [at |-> at, held |-> 0, warp |-> 0]

HoldInit == BoardInit /\ req = [r \in Requests |-> Fresh("idle")]

\* Bug: the active warp is taken whether it is healthy or not.
Choice_Active == active

\* After the event wait_ready takes the active warp if it is healthy, otherwise
\* the first healthy one, otherwise none: 502 on the spot.
Choice == IF active \in Healthy THEN active ELSE Least(Healthy)

\* Bug: the caller does not look whether there was one.
Decide_Unchecked(r, held) ==
    req' = [req EXCEPT ![r] = [at |-> "connecting", held |-> held,
                               warp |-> IF Healthy # {} THEN Choice ELSE 0]]

Decide(r, held) ==
    \/ /\ Healthy # {}
       /\ req' = [req EXCEPT ![r] = [at |-> "connecting", held |-> held, warp |-> Choice]]
    \/ /\ Healthy = {}
       /\ req' = [req EXCEPT ![r] = [at |-> "refused", held |-> held, warp |-> 0]]

\* Bug: a request waits although the event is set.
Arrive_AlwaysWaits(r) ==
    /\ req[r].at \in {"idle"} \cup Answered
    /\ req' = [req EXCEPT ![r] = Fresh("waiting")]

\* Event.wait returns without suspending when the event is set (asyncio of
\* Python 3.12 and later, the image has 3.13); otherwise the request waits.
Arrive(r) ==
    /\ req[r].at \in {"idle"} \cup Answered
    /\ \/ readyEvent /\ Decide(r, 0)
       \/ ~readyEvent /\ req' = [req EXCEPT ![r] = Fresh("waiting")]

Resume(r) == req[r].at = "woken" /\ Decide(r, req[r].held)

\* Bug: the wait has no timeout.
Expire_Never(r) ==
    /\ req[r].at = "woken" /\ req[r].held >= HoldTimeout
    /\ req' = [req EXCEPT ![r].at = "refused"]

\* wait_for times out; a request whose event was set but which has not resumed
\* yet is cancelled all the same.
Expire(r) ==
    /\ req[r].at \in {"waiting", "woken"} /\ req[r].held >= HoldTimeout
    /\ req' = [req EXCEPT ![r].at = "refused"]

\* The SOCKS connection to the chosen warp, with timeouts of its own; nobody
\* asks again whether the warp is ready.
Connect(r) ==
    /\ req[r].at = "connecting"
    /\ \E answer \in {"served", "failed"} : req' = [req EXCEPT ![r].at = answer]

Request(r) == Arrive(r) \/ Resume(r) \/ Expire(r) \/ Connect(r)

\* Time passes; nothing forces a timer that is due to fire before the next tick.
HoldTick ==
    req' = [r \in Requests |->
               IF req[r].at \in {"waiting", "woken"} /\ req[r].held <= HoldTimeout
               THEN [req[r] EXCEPT !.held = @ + 1] ELSE req[r]]

\* Event.set wakes the requests that wait; a restart drops the connections.
Wake == req' = [r \in Requests |->
                   IF req[r].at = "waiting" /\ readyEvent'
                   THEN [req[r] EXCEPT !.at = "woken"] ELSE req[r]]
Drop == req' = [r \in Requests |-> Fresh("idle")]

HoldNext ==
    \/ BoardStep /\ Wake
    \/ Restart /\ Drop
    \/ /\ HoldTick \/ \E r \in Requests : Request(r)
       /\ UNCHANGED board

HoldSpec == HoldInit /\ [][HoldNext]_holdVars

\* Timers expire and the event loop resumes what can run.
HoldFairness ==
    /\ WF_holdVars(HoldTick /\ UNCHANGED board)
    /\ \A r \in Requests :
          WF_holdVars((Resume(r) \/ Expire(r) \/ Connect(r)) /\ UNCHANGED board)

FairHoldSpec == HoldSpec /\ HoldFairness

-----------------------------------------------------------------------------
(* Properties *)

\* Requests and board have their types; who goes on to connect has a warp.
HoldTypeOK ==
    /\ BoardTypeOK
    /\ req \in [Requests -> [at : {"idle", "waiting", "woken", "connecting"} \cup Answered,
                             held : 0 .. HoldTimeout + 1, warp : 0 .. NumWarps]]
    /\ \A r \in Requests : req[r].at = "connecting" => req[r].warp \in Warps

\* No request sleeps through a healthy warp: while one is ready (and the start-up
\* burst is over) every request has been resolved, so that none can be held to
\* its timeout for want of a wake-up.
NoWaitWhileReady ==
    announced /\ Healthy # {} => \A r \in Requests : req[r].at # "waiting"

\* A request is resolved by the pool of that moment, not of the moment it was
\* woken: it goes on to a warp that is ready now, the active one if that is, and
\* is refused before its time only when none is.
ResolvedByTheBoard ==
    [][\A r \in Requests :
          /\ req'[r].at = "connecting" /\ req[r].at # "connecting"
                => /\ req'[r].warp \in Healthy
                   /\ active \in Healthy => req'[r].warp = active
          /\ req'[r].at = "refused" /\ req[r].at # "refused"
                => Healthy = {} \/ req[r].held >= HoldTimeout]_holdVars

\* Every request gets its answer, whatever the pool does: the hold is bounded.
EveryRequestAnswered ==
    \A r \in Requests : (req[r].at \notin {"idle"} \cup Answered)
                            ~> (req[r].at \in {"idle"} \cup Answered)
=============================================================================
