----------------------------- MODULE ReadyBoard -----------------------------
(***************************************************************************)
(* What the rest of the pool server may rely on from the warp pool         *)
(* (src/app.py, class Manager): which warps are healthy, the ready event   *)
(* requests wait on, and the warp that is active.  It says nothing of      *)
(* registrations, daemons, timers or tasks; WarpPool is shown to implement *)
(* it, and Hold builds the request side on it.                             *)
(***************************************************************************)
EXTENDS Indices

CONSTANT NumWarps      \* NUM_WARPS, the size of the pool

ASSUME NumWarpsAssumption == NumWarps \in Nat \ {0}

Warps == 1 .. NumWarps

VARIABLES
    ready,         \* WarpInstance.ready, per warp
    readyEvent,    \* Manager.ready_event
    active,        \* Manager.active
    announced      \* the start-up burst is over: from here on a warp that
                   \* becomes ready announces itself by setting the event

board == <<ready, readyEvent, active, announced>>

Healthy == {w \in Warps : ready[w]}

\* Reference definition of the rotation order: how far ahead of the active
\* warp w is on the ring of indices, the active warp itself being the last.
Ahead(w) == IF w > active THEN w - active ELSE w - active + NumWarps

BoardInit ==
    /\ ready = [w \in Warps |-> FALSE]
    /\ readyEvent = FALSE
    /\ active = 1
    /\ announced = FALSE

\* A warp connects; the event is set with it unless the start-up burst runs.
Up(w) ==
    /\ ready' = [ready EXCEPT ![w] = TRUE]
    /\ \/ readyEvent' = TRUE
       \/ ~announced /\ readyEvent' = readyEvent
    /\ UNCHANGED <<active, announced>>

\* A warp fails to connect.  The event keeps its value.
Down(w) ==
    /\ ready' = [ready EXCEPT ![w] = FALSE]
    /\ UNCHANGED <<readyEvent, active, announced>>

\* A warp is taken out for verification: the event is cleared with the last.
TakeOut(w) ==
    /\ ready' = [ready EXCEPT ![w] = FALSE]
    /\ readyEvent' = (readyEvent /\ Healthy \ {w} # {})
    /\ UNCHANGED <<active, announced>>

\* The end of the start-up burst, possibly in the step that brings a warp up.
Announce ==
    /\ ~announced
    /\ announced' = TRUE
    /\ \/ ready' = ready
       \/ \E w \in Warps, b \in BOOLEAN : ready' = [ready EXCEPT ![w] = b]
    /\ readyEvent' = (readyEvent \/ \E w \in Warps : ready'[w])
    /\ UNCHANGED active

\* The active warp advances to the next healthy one on the ring.
Advance ==
    /\ \E w \in Healthy : /\ \A o \in Healthy : Ahead(w) <= Ahead(o)
                          /\ active' = w
    /\ UNCHANGED <<ready, readyEvent, announced>>

\* The process stops and starts again.
Restart ==
    /\ ready' = [w \in Warps |-> FALSE]
    /\ readyEvent' = FALSE
    /\ active' = 1
    /\ announced' = FALSE

BoardStep ==
    \/ \E w \in Warps : Up(w) \/ Down(w) \/ TakeOut(w)
    \/ Announce
    \/ Advance

BoardNext == BoardStep \/ Restart

BoardSpec == BoardInit /\ [][BoardNext]_board

-----------------------------------------------------------------------------

BoardTypeOK ==
    /\ ready \in [Warps -> BOOLEAN]
    /\ readyEvent \in BOOLEAN
    /\ active \in Warps
    /\ announced \in BOOLEAN

\* A healthy warp is never hidden from the requests that wait: once the
\* start-up burst is over, the ready event is set whenever a warp is ready
\* (Manager._reverify clears the event only when no warp is left).
NoHiddenWarp == announced /\ Healthy # {} => readyEvent

=============================================================================
