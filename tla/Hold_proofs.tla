----------------------------- MODULE Hold_proofs ----------------------------
(***************************************************************************)
(* No request sleeps through a healthy warp, for every size of the pool,   *)
(* every timeout and any set of requests.                                  *)
(***************************************************************************)
EXTENDS Hold, ReadyBoard_proofs

HoldRecords == [at : {"idle", "waiting", "woken", "connecting"} \cup Answered,
                held : 0 .. HoldTimeout + 1, warp : 0 .. NumWarps]

\* Who connects has a warp.
ReqStates == {q \in HoldRecords : q.at = "connecting" => q.warp \in Warps}

\* A request waits only while the event is cleared: it asks before it waits, and
\* whoever sets the event wakes it in the same step.
WaitsOnCleared == \A r \in Requests : req[r].at = "waiting" => ~readyEvent

-----------------------------------------------------------------------------
(* The steps of the board, on which a request depends only through the event *)

LEMMA HoldBoardMoves == HoldNext => [BoardNext]_board
BY DEF HoldNext, BoardNext

LEMMA HoldRefinesBoard == HoldSpec => BoardSpec
<1>1. HoldInit => BoardInit
  BY DEF HoldInit
<1>2. [HoldNext]_holdVars => [BoardNext]_board
  BY HoldBoardMoves DEF holdVars, board
<1> QED  BY <1>1, <1>2, PTL DEF HoldSpec, BoardSpec

-----------------------------------------------------------------------------
(* Types *)

LEMMA FreshType == \A at \in {"idle", "waiting"} : Fresh(at) \in ReqStates
BY HoldAssumption, NumWarpsAssumption DEF Fresh, ReqStates, HoldRecords, Answered

\* The warp a request is given is a healthy one.
LEMMA ChoiceHealthy == ASSUME Healthy # {} PROVE Choice \in Healthy
<1>1. Healthy \subseteq 1 .. NumWarps /\ NumWarps \in Nat
  BY NumWarpsAssumption DEF Healthy, Warps
<1>2. Least(Healthy) \in Healthy
  BY <1>1, LeastIndex
<1> QED  BY <1>2 DEF Choice

LEMMA DecideType ==
    ASSUME req \in [Requests -> ReqStates], NEW r \in Requests,
           NEW held \in 0 .. HoldTimeout + 1, Decide(r, held)
    PROVE  req' \in [Requests -> ReqStates] /\ req'[r].at # "waiting"
           /\ \A o \in Requests \ {r} : req'[o] = req[o]
<1>1. CASE Healthy # {}
  <2>1. Choice \in 0 .. NumWarps /\ Choice \in Warps
    BY <1>1, ChoiceHealthy, NumWarpsAssumption DEF Healthy, Warps
  <2>2. [at |-> "connecting", held |-> held, warp |-> Choice] \in ReqStates
    BY <2>1 DEF ReqStates, HoldRecords
  <2>3. req' = [req EXCEPT ![r] = [at |-> "connecting", held |-> held, warp |-> Choice]]
    BY <1>1 DEF Decide
  <2> QED  BY <2>2, <2>3
<1>2. CASE Healthy = {}
  <2>1. [at |-> "refused", held |-> held, warp |-> 0] \in ReqStates
    BY NumWarpsAssumption DEF ReqStates, HoldRecords, Answered
  <2>2. req' = [req EXCEPT ![r] = [at |-> "refused", held |-> held, warp |-> 0]]
    BY <1>2 DEF Decide
  <2> QED  BY <2>1, <2>2
<1> QED  BY <1>1, <1>2

\* A step of a request keeps the types, and the request waits afterwards only
\* if it has just found the event cleared.
LEMMA RequestType ==
    ASSUME req \in [Requests -> ReqStates], NEW r \in Requests, Request(r)
    PROVE  /\ req' \in [Requests -> ReqStates]
           /\ req'[r].at = "waiting" => ~readyEvent
           /\ \A o \in Requests \ {r} : req'[o] = req[o]
<1>0. req[r] \in ReqStates /\ req[r].held \in 0 .. HoldTimeout + 1
  BY DEF ReqStates, HoldRecords
<1>1. CASE Arrive(r)
  <2>1. CASE Decide(r, 0)
    BY <2>1, DecideType, HoldAssumption
  <2>2. CASE ~readyEvent /\ req' = [req EXCEPT ![r] = Fresh("waiting")]
    BY <2>2, FreshType
  <2> QED  BY <1>1, <2>1, <2>2 DEF Arrive
<1>2. CASE Resume(r)
  BY <1>0, <1>2, DecideType DEF Resume
<1>3. ASSUME NEW answer \in Answered, req' = [req EXCEPT ![r].at = answer]
      PROVE  /\ req' \in [Requests -> ReqStates] /\ req'[r].at # "waiting"
             /\ \A o \in Requests \ {r} : req'[o] = req[o]
  <2>1. [req[r] EXCEPT !.at = answer] \in ReqStates
    BY <1>0 DEF ReqStates, HoldRecords, Answered
  <2>2. [req[r] EXCEPT !.at = answer].at = answer /\ answer # "waiting"
    BY <1>0 DEF ReqStates, HoldRecords, Answered
  <2> QED  BY <1>3, <2>1, <2>2
<1>4. CASE Expire(r)
  BY <1>3, <1>4 DEF Expire, Answered
<1>5. CASE Connect(r)
  BY <1>3, <1>5 DEF Connect, Answered
<1> QED  BY <1>1, <1>2, <1>4, <1>5 DEF Request

\* Time passes for the requests that are held, and for no other.
LEMMA TickType ==
    ASSUME req \in [Requests -> ReqStates], HoldTick
    PROVE  /\ req' \in [Requests -> ReqStates]
           /\ \A r \in Requests : req'[r].at = req[r].at
<1> SUFFICES ASSUME NEW r \in Requests
             PROVE  req'[r] \in ReqStates /\ req'[r].at = req[r].at
  BY DEF HoldTick
<1>1. req[r] \in ReqStates /\ req[r].held \in 0 .. HoldTimeout + 1
  BY DEF ReqStates, HoldRecords
<1>2. CASE req[r].held <= HoldTimeout
  <2>1. req[r].held + 1 \in 0 .. HoldTimeout + 1
    BY <1>1, <1>2, HoldAssumption
  <2>2. /\ [req[r] EXCEPT !.held = @ + 1] \in ReqStates
        /\ [req[r] EXCEPT !.held = @ + 1].at = req[r].at
    BY <1>1, <2>1 DEF ReqStates, HoldRecords
  <2> QED  BY <1>1, <2>2 DEF HoldTick
<1>3. CASE ~(req[r].held <= HoldTimeout)
  BY <1>1, <1>3 DEF HoldTick
<1> QED  BY <1>2, <1>3

\* Setting the event wakes every request that waits.
LEMMA WakeType ==
    ASSUME req \in [Requests -> ReqStates], Wake
    PROVE  /\ req' \in [Requests -> ReqStates]
           /\ \A r \in Requests : req'[r].at = "waiting" => ~readyEvent'
<1> SUFFICES ASSUME NEW r \in Requests
             PROVE  /\ req'[r] \in ReqStates
                    /\ req'[r].at = "waiting" => ~readyEvent'
  BY DEF Wake
<1>1. req[r] \in ReqStates
  OBVIOUS
<1>2. CASE req[r].at = "waiting" /\ readyEvent'
  <2>1. /\ [req[r] EXCEPT !.at = "woken"] \in ReqStates
        /\ [req[r] EXCEPT !.at = "woken"].at = "woken"
    BY <1>1 DEF ReqStates, HoldRecords
  <2>2. req'[r] = [req[r] EXCEPT !.at = "woken"]
    BY <1>2 DEF Wake
  <2> QED  BY <2>1, <2>2
<1>3. CASE ~(req[r].at = "waiting" /\ readyEvent')
  <2>1. req'[r] = req[r]
    BY <1>3, Zenon DEF Wake
  <2> QED  BY <1>1, <1>3, <2>1
<1> QED  BY <1>2, <1>3

-----------------------------------------------------------------------------
(* The invariant *)

HoldInv == req \in [Requests -> ReqStates] /\ WaitsOnCleared

LEMMA HoldInitInv == HoldInit => HoldInv
<1> SUFFICES ASSUME HoldInit PROVE HoldInv
  OBVIOUS
<1>1. Fresh("idle") \in ReqStates /\ Fresh("idle").at = "idle"
  BY FreshType DEF Fresh
<1> QED  BY <1>1 DEF HoldInit, HoldInv, WaitsOnCleared

LEMMA HoldStepInv == HoldInv /\ [HoldNext]_holdVars => HoldInv'
<1> SUFFICES ASSUME HoldInv, [HoldNext]_holdVars PROVE HoldInv'
  OBVIOUS
<1> USE DEF HoldInv, WaitsOnCleared
<1>1. CASE BoardStep /\ Wake
  BY <1>1, WakeType
<1>2. CASE Restart /\ Drop
  <2>1. Fresh("idle") \in ReqStates /\ Fresh("idle").at = "idle"
    BY FreshType DEF Fresh
  <2> QED  BY <1>2, <2>1 DEF Drop
<1>3. CASE HoldTick /\ UNCHANGED board
  <2>1. readyEvent' = readyEvent
    BY <1>3 DEF board
  <2> QED  BY <1>3, <2>1, TickType
<1>4. ASSUME NEW r \in Requests, Request(r), UNCHANGED board PROVE HoldInv'
  <2>1. readyEvent' = readyEvent
    BY <1>4 DEF board
  <2> QED  BY <1>4, <2>1, RequestType
<1>5. CASE UNCHANGED holdVars
  BY <1>5 DEF holdVars, board
<1> QED  BY <1>1, <1>2, <1>3, <1>4, <1>5 DEF HoldNext

LEMMA HoldInvariant == HoldSpec => []HoldInv
BY HoldInitInv, HoldStepInv, PTL DEF HoldSpec

\* The requests and the board keep their types, and every request that goes on to
\* connect has been given a warp (the three callers of Manager.wait_ready).
THEOREM HoldTypes == HoldSpec => []HoldTypeOK
<1>1. HoldInv /\ BoardTypeOK => HoldTypeOK
  BY DEF HoldInv, HoldTypeOK, ReqStates, HoldRecords
<1> QED  BY <1>1, HoldInvariant, HoldRefinesBoard, BoardIsSafe, PTL

\* A step that resolves a request is the request's own.
LEMMA RequestResolved ==
    ASSUME HoldInv, NEW r \in Requests, Request(r)
    PROVE  /\ req'[r].at = "connecting" /\ req[r].at # "connecting"
                 => /\ req'[r].warp \in Healthy
                    /\ active \in Healthy => req'[r].warp = active
           /\ req'[r].at = "refused" /\ req[r].at # "refused"
                 => Healthy = {} \/ req[r].held >= HoldTimeout
           /\ \A o \in Requests \ {r} : req'[o] = req[o]
<1>0. req \in [Requests -> ReqStates] /\ req[r] \in HoldRecords
  BY DEF HoldInv, ReqStates
<1>1. \A o \in Requests \ {r} : req'[o] = req[o]
  BY <1>0, RequestType
<1>2. ASSUME NEW held, Decide(r, held)
      PROVE  /\ req'[r].at = "connecting"
                   => /\ req'[r].warp \in Healthy
                      /\ active \in Healthy => req'[r].warp = active
             /\ req'[r].at = "refused" => Healthy = {}
  <2>1. CASE Healthy # {}
    <3>1. req'[r] = [at |-> "connecting", held |-> held, warp |-> Choice]
      BY <1>0, <1>2, <2>1 DEF Decide
    <3>2. Choice \in Healthy /\ (active \in Healthy => Choice = active)
      BY <2>1, ChoiceHealthy DEF Choice
    <3> QED  BY <3>1, <3>2
  <2>2. CASE Healthy = {}
    <3>1. req'[r] = [at |-> "refused", held |-> held, warp |-> 0]
      BY <1>0, <1>2, <2>2 DEF Decide
    <3> QED  BY <2>2, <3>1
  <2> QED  BY <2>1, <2>2
<1>3. CASE Arrive(r)
  <2>1. CASE req' = [req EXCEPT ![r] = Fresh("waiting")]
    BY <1>0, <1>1, <2>1 DEF Fresh
  <2> QED  BY <1>1, <1>2, <1>3, <2>1 DEF Arrive
<1>4. CASE Resume(r)
  BY <1>1, <1>2, <1>4 DEF Resume
<1>5. CASE Expire(r)
  <2>1. req[r].held >= HoldTimeout /\ req'[r].at = "refused"
    BY <1>0, <1>5 DEF Expire, HoldRecords
  <2> QED  BY <1>1, <2>1
<1>6. CASE Connect(r)
  <2>1. req'[r].at \in {"served", "failed"}
    BY <1>0, <1>6 DEF Connect, HoldRecords
  <2> QED  BY <1>1, <2>1
<1> QED  BY <1>3, <1>4, <1>5, <1>6 DEF Request

\* A request that was woken is resolved by the readiness of the moment it runs
\* (what Manager.wait_ready reads after its await): a ready warp, the active one
\* first, or 502 when there is none or its time is up.
THEOREM RequestsSeeThePresent == HoldSpec => ResolvedByTheBoard
<1> DEFINE Resolved(r) ==
              /\ req'[r].at = "connecting" /\ req[r].at # "connecting"
                    => /\ req'[r].warp \in Healthy
                       /\ active \in Healthy => req'[r].warp = active
              /\ req'[r].at = "refused" /\ req[r].at # "refused"
                    => Healthy = {} \/ req[r].held >= HoldTimeout
<1>1. ASSUME HoldInv, [HoldNext]_holdVars, NEW r \in Requests PROVE Resolved(r)
  <2>0. req \in [Requests -> ReqStates] /\ req[r] \in HoldRecords
    BY <1>1 DEF HoldInv, ReqStates
  <2>1. CASE Wake
    <3>1. req'[r] = IF req[r].at = "waiting" /\ readyEvent'
                    THEN [req[r] EXCEPT !.at = "woken"] ELSE req[r]
      BY <2>1 DEF Wake
    <3>2. CASE req[r].at = "waiting" /\ readyEvent'
      <4>1. req'[r].at = "woken"
        BY <2>0, <3>1, <3>2 DEF HoldRecords
      <4> QED  BY <4>1
    <3>3. CASE ~(req[r].at = "waiting" /\ readyEvent')
      <4>1. req'[r] = req[r]
        BY <3>1, <3>3, Zenon
      <4> QED  BY <4>1
    <3> QED  BY <3>2, <3>3
  <2>2. CASE Drop
    BY <2>2 DEF Drop, Fresh
  <2>3. CASE HoldTick
    <3>1. req'[r].at = req[r].at
      BY <2>0, <2>3, TickType
    <3> QED  BY <3>1
  <2>4. ASSUME NEW o \in Requests, Request(o) PROVE Resolved(r)
    BY <1>1, <2>4, RequestResolved
  <2>5. CASE UNCHANGED holdVars
    BY <2>5 DEF holdVars
  <2> QED  BY <1>1, <2>1, <2>2, <2>3, <2>4, <2>5 DEF HoldNext
<1>2. HoldInv /\ [HoldNext]_holdVars => [\A r \in Requests : Resolved(r)]_holdVars
  BY <1>1
<1> QED  BY <1>2, HoldInvariant, PTL DEF HoldSpec, ResolvedByTheBoard

\* While a warp is ready and the start-up burst is over no request waits: the
\* event cannot be set, or stay set, past a sleeping request.
THEOREM NoRequestSleeps == HoldSpec => []NoWaitWhileReady
<1>1. HoldInv /\ NoHiddenWarp => NoWaitWhileReady
  BY DEF HoldInv, WaitsOnCleared, NoHiddenWarp, NoWaitWhileReady
<1> QED  BY <1>1, HoldInvariant, HoldRefinesBoard, BoardIsSafe, PTL
=============================================================================
