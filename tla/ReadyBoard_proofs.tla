-------------------------- MODULE ReadyBoard_proofs -------------------------
(***************************************************************************)
(* What ReadyBoard promises, for every size of the pool: its types, and    *)
(* that no healthy warp is hidden behind a cleared event.                  *)
(***************************************************************************)
EXTENDS ReadyBoard, FiniteSetTheorems, WellFoundedInduction, TLAPS

-----------------------------------------------------------------------------
(* The least element of a set of indices *)

\* A non-empty finite set of integers has a least element, which Least picks.
\* (Among the sets of the elements up to x, one is minimal for inclusion.)
LEMMA LeastElement ==
    ASSUME NEW S, S \subseteq Int, IsFiniteSet(S), S # {}
    PROVE  Least(S) \in S /\ \A y \in S : Least(S) <= y
<1> DEFINE UpTo(x) == {y \in S : y <= x}
           R == StrictSubsetOrdering(S)
           T == {UpTo(x) : x \in S}
<1>1. IsWellFoundedOn(R, FiniteSubsetsOf(S))
  BY FS_StrictSubsetOrderingWellFounded
<1>2. T \subseteq FiniteSubsetsOf(S)
  BY FS_Subset DEF FiniteSubsetsOf
<1>3. T # {}
  OBVIOUS
<1>4. PICK U \in T : \A V \in T : ~ (<<V, U>> \in R)
  <2> HIDE DEF R, T
  <2> QED  BY <1>1, <1>2, <1>3, WFMin
<1>5. PICK x \in S : U = UpTo(x)
  OBVIOUS
<1>6. ASSUME NEW y \in S PROVE x <= y
  <2> SUFFICES ASSUME ~(x <= y) PROVE FALSE
    OBVIOUS
  <2> HIDE DEF R, T
  <2>1. x \in Int /\ y \in Int /\ x \in S
    OBVIOUS
  <2>2. y <= x /\ x <= x
    BY <2>1
  <2>3. \A z \in S : z <= y => z <= x
    BY <2>1, <2>2
  <2>4. UpTo(y) \subseteq UpTo(x) /\ x \in UpTo(x) /\ x \notin UpTo(y)
    BY <2>1, <2>2, <2>3
  <2>5. UpTo(y) \in SUBSET S /\ UpTo(x) \in SUBSET S /\ UpTo(y) # UpTo(x)
    BY <2>4
  <2>6. <<UpTo(y), UpTo(x)>> \in R
    <3> HIDE DEF UpTo
    <3> QED  BY <2>4, <2>5 DEF StrictSubsetOrdering, R
  <2>7. UpTo(y) \in T
    BY DEF T
  <2> QED  BY <2>6, <2>7, <1>4, <1>5
<1> QED  BY <1>6 DEF Least

\* The same for the warps 1 .. n of a pool.
LEMMA LeastIndex ==
    ASSUME NEW n \in Nat, NEW S, S \subseteq 1 .. n, S # {}
    PROVE  Least(S) \in S /\ \A y \in S : Least(S) <= y
<1>1. IsFiniteSet(1 .. n) /\ 1 .. n \subseteq Int
  BY FS_Interval
<1>2. IsFiniteSet(S)
  BY <1>1, FS_Subset
<1> QED  BY <1>1, <1>2, LeastElement

-----------------------------------------------------------------------------
(* The board *)

LEMMA BoardInitType == BoardInit => BoardTypeOK
<1> SUFFICES ASSUME BoardInit PROVE BoardTypeOK
  OBVIOUS
<1>1. active \in Warps
  BY NumWarpsAssumption DEF BoardInit, Warps
<1>2. ready \in [Warps -> BOOLEAN] /\ readyEvent \in BOOLEAN /\ announced \in BOOLEAN
  BY DEF BoardInit
<1> QED  BY <1>1, <1>2 DEF BoardTypeOK

LEMMA BoardStepType == BoardTypeOK /\ [BoardNext]_board => BoardTypeOK'
<1> SUFFICES ASSUME BoardTypeOK, [BoardNext]_board PROVE BoardTypeOK'
  OBVIOUS
<1>1. ASSUME NEW w \in Warps, Up(w) PROVE BoardTypeOK'
  <2>1. ready' \in [Warps -> BOOLEAN]
    BY <1>1 DEF Up, BoardTypeOK
  <2>2. readyEvent' \in BOOLEAN
    BY <1>1, Zenon DEF Up, BoardTypeOK
  <2> QED  BY <1>1, <2>1, <2>2 DEF Up, BoardTypeOK
<1>2. ASSUME NEW w \in Warps, Down(w) PROVE BoardTypeOK'
  BY <1>2 DEF Down, BoardTypeOK
<1>3. ASSUME NEW w \in Warps, TakeOut(w) PROVE BoardTypeOK'
  <2>1. ready' \in [Warps -> BOOLEAN]
    BY <1>3 DEF TakeOut, BoardTypeOK
  <2>2. readyEvent' \in BOOLEAN
    BY <1>3, Zenon DEF TakeOut
  <2> QED  BY <1>3, <2>1, <2>2 DEF TakeOut, BoardTypeOK
<1>4. CASE Announce
  <2>1. ready' \in [Warps -> BOOLEAN]
    BY <1>4 DEF Announce, BoardTypeOK
  <2>2. readyEvent' \in BOOLEAN /\ announced' \in BOOLEAN
    BY <1>4, Zenon DEF Announce
  <2> QED  BY <1>4, <2>1, <2>2 DEF Announce, BoardTypeOK
<1>5. CASE Advance
  BY <1>5 DEF Advance, Healthy, BoardTypeOK
<1>6. CASE Restart
  <2>1. active' \in Warps
    BY <1>6, NumWarpsAssumption DEF Restart, Warps
  <2>2. ready' \in [Warps -> BOOLEAN] /\ readyEvent' \in BOOLEAN /\ announced' \in BOOLEAN
    BY <1>6 DEF Restart
  <2> QED  BY <2>1, <2>2 DEF BoardTypeOK
<1>7. CASE UNCHANGED board
  BY <1>7 DEF board, BoardTypeOK
<1> QED  BY <1>1, <1>2, <1>3, <1>4, <1>5, <1>6, <1>7 DEF BoardNext, BoardStep

LEMMA BoardInitVisible == BoardInit => NoHiddenWarp
BY DEF BoardInit, NoHiddenWarp

LEMMA BoardStepVisible ==
    BoardTypeOK /\ NoHiddenWarp /\ [BoardNext]_board => NoHiddenWarp'
<1> SUFFICES ASSUME BoardTypeOK, NoHiddenWarp, [BoardNext]_board,
                    announced', NEW o \in Warps, ready'[o]
             PROVE  readyEvent'
  BY DEF NoHiddenWarp, Healthy
<1> USE DEF BoardTypeOK
<1>0. ready[o] /\ announced => readyEvent
  BY DEF NoHiddenWarp, Healthy
<1>1. ASSUME NEW w \in Warps, Up(w) PROVE readyEvent'
  BY <1>1, Zenon DEF Up
<1>2. ASSUME NEW w \in Warps, Down(w) PROVE readyEvent'
  BY <1>0, <1>2 DEF Down
<1>3. ASSUME NEW w \in Warps, TakeOut(w) PROVE readyEvent'
  <2>1. o # w /\ ready[o]
    BY <1>3 DEF TakeOut
  <2> QED  BY <1>0, <1>3, <2>1 DEF TakeOut, Healthy
<1>4. CASE Announce
  BY <1>4, Zenon DEF Announce
<1>5. CASE Advance
  BY <1>0, <1>5 DEF Advance
<1>6. CASE Restart
  BY <1>6 DEF Restart
<1>7. CASE UNCHANGED board
  BY <1>0, <1>7 DEF board
<1> QED  BY <1>1, <1>2, <1>3, <1>4, <1>5, <1>6, <1>7 DEF BoardNext, BoardStep

\* The board keeps its types and, once the start-up burst is over, never hides
\* a ready warp behind a cleared ready_event (class Manager, boot_one,
\* Manager._reverify).
THEOREM BoardIsSafe == BoardSpec => [](BoardTypeOK /\ NoHiddenWarp)
<1>1. BoardInit => BoardTypeOK /\ NoHiddenWarp
  BY BoardInitType, BoardInitVisible
<1>2. BoardTypeOK /\ NoHiddenWarp /\ [BoardNext]_board => (BoardTypeOK /\ NoHiddenWarp)'
  BY BoardStepType, BoardStepVisible
<1> QED  BY <1>1, <1>2, PTL DEF BoardSpec
=============================================================================
