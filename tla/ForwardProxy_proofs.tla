------------------------- MODULE ForwardProxy_proofs -------------------------
(***************************************************************************)
(* The pool's own forward proxy: neither direction of a CONNECT tunnel     *)
(* loses or reorders anything, and the tunnel hangs up only after one of   *)
(* its ends has.                                                           *)
(***************************************************************************)
EXTENDS ForwardProxy, SequenceTheorems, TLAPS

-----------------------------------------------------------------------------
(* One direction: what has been received and what is still to be read *)

Flow(got, left, sent) ==
    /\ got \in Seq(Nat) /\ left \in Seq(Nat)
    /\ got \o left = FirstBytes(sent)

LEMMA FirstType ==
    ASSUME NEW n \in Nat
    PROVE  /\ FirstBytes(n) \in Seq(Nat) /\ Len(FirstBytes(n)) = n
           /\ \A i \in 1 .. n : FirstBytes(n)[i] = i
BY DEF FirstBytes

LEMMA FirstNext ==
    ASSUME NEW n \in Nat
    PROVE  Append(FirstBytes(n), n + 1) = FirstBytes(n + 1)
<1>1. /\ FirstBytes(n) \in Seq(Nat) /\ Len(FirstBytes(n)) = n
      /\ \A i \in 1 .. n : FirstBytes(n)[i] = i
  BY FirstType
<1>2. /\ FirstBytes(n + 1) \in Seq(Nat) /\ Len(FirstBytes(n + 1)) = n + 1
      /\ \A i \in 1 .. n + 1 : FirstBytes(n + 1)[i] = i
  BY FirstType
<1>3. /\ Append(FirstBytes(n), n + 1) \in Seq(Nat)
      /\ Len(Append(FirstBytes(n), n + 1)) = n + 1
      /\ \A i \in 1 .. n + 1 : Append(FirstBytes(n), n + 1)[i] = i
  BY <1>1, AppendProperties
<1> QED  BY <1>2, <1>3, SeqEqual

\* The next byte is sent.
LEMMA FlowSend ==
    ASSUME NEW got, NEW left, NEW n \in Nat, Flow(got, left, n)
    PROVE  Flow(got, Append(left, n + 1), n + 1)
<1>1. got \in Seq(Nat) /\ left \in Seq(Nat) /\ got \o left = FirstBytes(n)
  BY DEF Flow
<1>2. PICK m \in Nat : m = n + 1
  OBVIOUS
<1>3. Append(left, m) \in Seq(Nat) /\ Append(left, m) = left \o <<m>>
  BY <1>1, AppendProperties, AppendIsConcat
<1>4. <<m>> \in Seq(Nat)
  OBVIOUS
<1>5. got \o (left \o <<m>>) = (got \o left) \o <<m>>
  <2>1. got \in Seq(Nat) /\ left \in Seq(Nat)
    BY <1>1
  <2> QED  BY <1>4, <2>1, ConcatAssociative
<1>6. Append(FirstBytes(n), m) = FirstBytes(n) \o <<m>>
  BY FirstType, AppendIsConcat
<1>7. Append(FirstBytes(n), m) = FirstBytes(m)
  BY <1>2, FirstNext
<1>8. got \o Append(left, m) = FirstBytes(m)
  BY <1>1, <1>3, <1>5, <1>6, <1>7, Zenon
<1> QED  BY <1>1, <1>2, <1>3, <1>8 DEF Flow

\* All that has arrived is read and written.
LEMMA FlowCopy ==
    ASSUME NEW got, NEW left, NEW n, Flow(got, left, n)
    PROVE  Flow(got \o left, <<>>, n)
<1>1. got \o left \in Seq(Nat) /\ got \o left = FirstBytes(n) /\ <<>> \in Seq(Nat)
  <2>1. got \in Seq(Nat) /\ left \in Seq(Nat) /\ got \o left = FirstBytes(n)
    BY DEF Flow
  <2>2. got \o left \in Seq(Nat)
    BY <2>1, ConcatProperties
  <2> QED  BY <2>1, <2>2
<1>2. (got \o left) \o <<>> = got \o left
  BY <1>1, ConcatEmptySeq
<1> QED  BY <1>1, <1>2 DEF Flow

\* A stream that is cut into a first piece and the rest.
LEMMA CutInTwo ==
    ASSUME NEW s \in Seq(Nat), NEW k \in 0 .. Len(s)
    PROVE  /\ SubSeq(s, 1, k) \in Seq(Nat) /\ SubSeq(s, k + 1, Len(s)) \in Seq(Nat)
           /\ SubSeq(s, 1, k) \o SubSeq(s, k + 1, Len(s)) = s
<1>1. Len(s) \in Nat /\ \A i \in 1 .. Len(s) : s[i] \in Nat
  BY LenProperties, ElementOfSeq
<1>2. PICK p, q : p = SubSeq(s, 1, k) /\ q = SubSeq(s, k + 1, Len(s))
  OBVIOUS
<1>3. p \in Seq(Nat) /\ Len(p) = k /\ \A i \in 1 .. k : p[i] = s[i]
  BY <1>1, <1>2, SubSeqProperties
<1>4. q \in Seq(Nat) /\ Len(q) = Len(s) - k /\ \A i \in 1 .. Len(s) - k : q[i] = s[k + i]
  BY <1>1, <1>2, SubSeqProperties
<1>5. p \o q = s
  <2>1. /\ p \o q \in Seq(Nat) /\ Len(p \o q) = Len(s)
        /\ \A i \in 1 .. Len(s) : (p \o q)[i] = IF i <= k THEN p[i] ELSE q[i - k]
    BY <1>1, <1>3, <1>4, ConcatProperties
  <2>2. \A i \in 1 .. Len(s) : (p \o q)[i] = s[i]
    BY <1>1, <1>3, <1>4, <2>1
  <2> QED  BY <1>1, <2>1, <2>2, SeqEqual
<1> QED  BY <1>2, <1>3, <1>4, <1>5

LEMMA Associate ==
    ASSUME NEW a \in Seq(Nat), NEW b \in Seq(Nat), NEW c \in Seq(Nat)
    PROVE  (a \o b) \o c = a \o (b \o c)
BY ConcatAssociative

\* A first piece of what is still to be delivered is delivered.
LEMMA FlowPiece ==
    ASSUME NEW got, NEW left, NEW n, Flow(got, left, n), NEW k \in 0 .. Len(left)
    PROVE  Flow(got \o SubSeq(left, 1, k), SubSeq(left, k + 1, Len(left)), n)
<1>1. got \in Seq(Nat) /\ left \in Seq(Nat) /\ got \o left = FirstBytes(n)
  BY DEF Flow
<1>2. PICK p, q : p = SubSeq(left, 1, k) /\ q = SubSeq(left, k + 1, Len(left))
  OBVIOUS
<1>3. p \in Seq(Nat) /\ q \in Seq(Nat) /\ p \o q = left
  BY <1>1, <1>2, CutInTwo
<1>4. (got \o p) \o q = got \o left
  BY <1>1, <1>3, Associate
<1>5. got \o p \in Seq(Nat)
  BY <1>1, <1>3, ConcatProperties
<1> QED  BY <1>1, <1>2, <1>3, <1>4, <1>5 DEF Flow

LEMMA FlowEmpty == Flow(<<>>, <<>>, 0)
<1>1. <<>> \in Seq(Nat) /\ <<>> \o <<>> = <<>>
  BY ConcatEmptySeq
<1>2. FirstBytes(0) = <<>>
  BY FirstType, EmptySeq
<1> QED  BY <1>1, <1>2 DEF Flow

LEMMA FlowPrefix ==
    ASSUME NEW got, NEW left, NEW n \in Nat, Flow(got, left, n)
    PROVE  /\ IsPrefix(got, FirstBytes(n))
           /\ left = <<>> => got = FirstBytes(n)
<1>1. /\ got \in Seq(Nat) /\ left \in Seq(Nat) /\ got \o left = FirstBytes(n)
      /\ Len(got) \in Nat /\ Len(left) \in Nat
  BY LenProperties DEF Flow
<1>2. Len(got \o left) = Len(got) + Len(left)
  BY <1>1, ConcatProperties
<1>3. SubSeq(got \o left, 1, Len(got)) = SubSeq(got, 1, Len(got))
  <2>1. /\ got \o left \in Seq(Nat)
        /\ \A i \in 1 .. Len(got) + Len(left) :
              (got \o left)[i] = IF i <= Len(got) THEN got[i] ELSE left[i - Len(got)]
    BY <1>1, ConcatProperties
  <2>2. \A i \in 1 .. Len(got) : (got \o left)[i] = got[i] /\ got[i] \in Nat
    BY <1>1, <2>1, ElementOfSeq
  <2>3. /\ SubSeq(got \o left, 1, Len(got)) \in Seq(Nat)
        /\ Len(SubSeq(got \o left, 1, Len(got))) = Len(got)
        /\ \A i \in 1 .. Len(got) : SubSeq(got \o left, 1, Len(got))[i] = got[i]
    BY <1>1, <2>2, SubSeqProperties
  <2>4. SubSeq(got \o left, 1, Len(got)) = got
    BY <1>1, <2>3, SeqEqual
  <2> QED  BY <1>1, <2>4, SubSeqFull
<1>4. left = <<>> => got \o left = got
  BY <1>1, ConcatEmptySeq
<1> QED  BY <1>1, <1>2, <1>3, <1>4 DEF IsPrefix

-----------------------------------------------------------------------------
(* Types *)

Types ==
    /\ TypeOK
    /\ connect \in BOOLEAN
    /\ client \in [sent : Nat, eof : BOOLEAN, got : Seq(Nat)]
    /\ origin \in [sent : Nat, eof : BOOLEAN, got : Seq(Nat)]
    /\ fromClient \in Seq(Nat) /\ fromOrigin \in Seq(Nat) /\ unsent \in Seq(Nat)

LEMMA InitTypes == Init => Types
<1> SUFFICES ASSUME Init PROVE Types
  OBVIOUS
<1>1. <<>> \in Seq(Nat)
  OBVIOUS
<1>2. /\ client \in [sent : Nat, eof : BOOLEAN, got : Seq(Nat)]
      /\ origin \in [sent : Nat, eof : BOOLEAN, got : Seq(Nat)]
      /\ client.sent = 0 /\ client.eof = FALSE /\ origin.sent = 0 /\ origin.eof = FALSE
  BY <1>1 DEF Init
<1>3. task \in [Copiers -> {"none", "new", "reading", "woken", "writing", "done", "cancelled"}]
  BY DEF Init, Copiers
<1>4. /\ fromClient \in Seq(Nat) /\ fromOrigin \in Seq(Nat) /\ waiter = "none"
      /\ unsent = <<>> /\ closed \in BOOLEAN /\ connect \in BOOLEAN
  BY <1>1 DEF Init
<1> QED  BY <1>1, <1>2, <1>3, <1>4, ForwardAssumption DEF Types, TypeOK

\* The piece that is written, and what is left of it.
LEMMA PieceTypes ==
    ASSUME NEW s \in Seq(Nat), NEW c
    PROVE  /\ Piece(c, Len(s)) \in 0 .. Len(s)
           /\ SubSeq(s, 1, Piece(c, Len(s))) \in Seq(Nat)
           /\ SubSeq(s, Piece(c, Len(s)) + 1, Len(s)) \in Seq(Nat)
<1>1. Piece(c, Len(s)) \in 0 .. Len(s)
  BY LenProperties, ForwardAssumption DEF Piece
<1> QED  BY <1>1, CutInTwo

LEMMA StepTypes == Types /\ [Next]_vars => Types'
<1> SUFFICES ASSUME Types, [Next]_vars
             PROVE  Types'
  OBVIOUS
<1> USE ForwardAssumption DEF Types, TypeOK, Copiers, Readers
<1>1. CASE ClientSend
  <2>1. client.sent + 1 \in Nat /\ client.sent + 1 \in 0 .. UpBytes
    BY <1>1 DEF ClientSend
  <2>2. Append(fromClient, client.sent + 1) \in Seq(Nat)
    BY <2>1, AppendProperties
  <2> QED  BY <1>1, <2>1, <2>2 DEF ClientSend, WakeReader
<1>2. CASE ClientEof
  BY <1>2 DEF ClientEof, WakeReader
<1>3. CASE OriginEof
  BY <1>3 DEF OriginEof
<1>4. CASE OriginSend
  <2>1. origin.sent + 1 \in Nat /\ origin.sent + 1 \in 0 .. DownBytes
    BY <1>4 DEF OriginSend
  <2>2. Append(fromOrigin, origin.sent + 1) \in Seq(Nat)
    BY <2>1, AppendProperties
  <2> QED  BY <1>4, <2>1, <2>2 DEF OriginSend
<1>5. ASSUME NEW c \in Readers, WaitUp(c) PROVE Types'
  BY <1>5 DEF WaitUp, AtRead
<1>6. ASSUME NEW c \in Readers, ReadUp(c) PROVE Types'
  <2>1. PICK n : n = Piece(c, Len(fromClient))
    OBVIOUS
  <2>2. /\ SubSeq(fromClient, 1, n) \in Seq(Nat)
        /\ SubSeq(fromClient, n + 1, Len(fromClient)) \in Seq(Nat)
    BY <2>1, PieceTypes
  <2>3. origin.got \o SubSeq(fromClient, 1, n) \in Seq(Nat) /\ <<>> \in Seq(Nat)
    BY <2>2, ConcatProperties
  <2>4. /\ origin' = [origin EXCEPT !.got = @ \o SubSeq(fromClient, 1, n)]
        /\ unsent' = IF c = "up" THEN SubSeq(fromClient, n + 1, Len(fromClient)) ELSE unsent
        /\ fromClient' = <<>> /\ task' = [task EXCEPT ![c] = "writing"]
        /\ UNCHANGED <<connect, client, fromOrigin, waiter, closed>>
    BY <1>6, <2>1 DEF ReadUp
  <2>5. waiter # c
    BY <1>6 DEF ReadUp, AtRead
  <2> QED  BY <2>2, <2>3, <2>4, <2>5
<1>7. CASE WriteUp
  <2>1. PICK n : n = Piece("up", Len(unsent))
    OBVIOUS
  <2>2. SubSeq(unsent, 1, n) \in Seq(Nat) /\ SubSeq(unsent, n + 1, Len(unsent)) \in Seq(Nat)
    BY <2>1, PieceTypes
  <2>3. origin.got \o SubSeq(unsent, 1, n) \in Seq(Nat)
    BY <2>2, ConcatProperties
  <2>4. /\ origin' = [origin EXCEPT !.got = @ \o SubSeq(unsent, 1, n)]
        /\ unsent' = SubSeq(unsent, n + 1, Len(unsent)) /\ task["up"] = "writing"
        /\ UNCHANGED <<connect, client, fromClient, fromOrigin, task, waiter, closed>>
    BY <1>7, <2>1 DEF WriteUp
  <2> QED  BY <2>2, <2>3, <2>4
<1>8. ASSUME NEW c \in Readers, EndUp(c) PROVE Types'
  BY <1>8 DEF EndUp, AtRead
<1>9. CASE WaitDown \/ EndDown
  BY <1>9 DEF WaitDown, EndDown
<1>10. CASE CopyDown
  <2>1. client.got \o fromOrigin \in Seq(Nat) /\ <<>> \in Seq(Nat)
    BY ConcatProperties
  <2> QED  BY <1>10, <2>1 DEF CopyDown
<1>11. CASE RelayEnds
  BY <1>11 DEF RelayEnds
<1>12. CASE UNCHANGED vars
  BY <1>12 DEF vars
<1> QED  BY <1>1, <1>2, <1>3, <1>4, <1>5, <1>6, <1>7, <1>8, <1>9, <1>10, <1>11, <1>12
         DEF Next, Up, Down

\* The state of the proxy keeps its types, a stream has one waiting reader, one of
\* the two that copy it, and only the copier that pauses between pieces has any
\* left.
THEOREM ForwardTypes == Spec => []TypeOK
<1>1. Spec => []Types
  BY InitTypes, StepTypes, PTL DEF Spec
<1> QED  BY <1>1, PTL DEF Types

-----------------------------------------------------------------------------
(* Order *)

\* Nothing is lost between what was received and what is still to be written or
\* read: downwards always, upwards in a tunnel, whose client has one reader.
NothingLost ==
    /\ connect => /\ task["rest"] = "none"
                  /\ Flow(origin.got, unsent \o fromClient, client.sent)
    /\ Flow(client.got, fromOrigin, origin.sent)

LEMMA InitFlows == Init => NothingLost
<1> SUFFICES ASSUME Init PROVE NothingLost
  OBVIOUS
<1>1. <<>> \o <<>> = <<>>
  BY ConcatEmptySeq
<1>2. unsent \o fromClient = <<>>
  BY <1>1 DEF Init
<1>3. connect => task["rest"] = "none"
  BY DEF Init, Copiers
<1> QED  BY <1>2, <1>3, FlowEmpty DEF Init, NothingLost

\* A tunnel's reader has written all it read before it reads again.
LEMMA ReadKeepsFlow ==
    ASSUME Types, NothingLost, connect, NEW c \in Readers, ReadUp(c)
    PROVE  Flow(origin'.got, unsent' \o fromClient', client.sent)
<1>1. c = "up" /\ unsent = <<>>
  <2>1. c = "up"
    BY DEF ReadUp, AtRead, NothingLost, Readers
  <2>2. unsent = <<>>
    BY <2>1 DEF ReadUp, AtRead, Types, TypeOK
  <2> QED  BY <2>1, <2>2
<1>2. PICK n : n = Piece(c, Len(fromClient))
  OBVIOUS
<1>3. /\ n \in 0 .. Len(fromClient)
      /\ SubSeq(fromClient, n + 1, Len(fromClient)) \in Seq(Nat)
  BY <1>2, PieceTypes DEF Types
<1>4. /\ origin'.got = origin.got \o SubSeq(fromClient, 1, n)
      /\ unsent' = SubSeq(fromClient, n + 1, Len(fromClient)) /\ fromClient' = <<>>
  BY <1>1, <1>2 DEF ReadUp, Types
<1>5. unsent \o fromClient = fromClient
  BY <1>1, ConcatEmptySeq DEF Types
<1>6. unsent' \o fromClient' = unsent'
  BY <1>3, <1>4, ConcatEmptySeq
<1>7. Flow(origin.got, fromClient, client.sent)
  BY <1>5 DEF NothingLost
<1>8. Flow(origin.got \o SubSeq(fromClient, 1, n),
           SubSeq(fromClient, n + 1, Len(fromClient)), client.sent)
  BY <1>3, <1>7, FlowPiece
<1> QED  BY <1>4, <1>6, <1>8

\* A further piece.
LEMMA WriteKeepsFlow ==
    ASSUME Types, NothingLost, connect, WriteUp
    PROVE  Flow(origin'.got, unsent' \o fromClient', client.sent)
<1>1. PICK n : n = Piece("up", Len(unsent))
  OBVIOUS
<1>2. PICK p, q : p = SubSeq(unsent, 1, n) /\ q = SubSeq(unsent, n + 1, Len(unsent))
  OBVIOUS
<1>3. PICK g, f : g = origin.got /\ f = fromClient
  OBVIOUS
<1>4. n \in 0 .. Len(unsent) /\ p \in Seq(Nat) /\ q \in Seq(Nat) /\ f \in Seq(Nat)
      /\ g \in Seq(Nat) /\ unsent \in Seq(Nat)
  BY <1>1, <1>2, <1>3, PieceTypes DEF Types
<1>5. origin'.got = g \o p /\ unsent' = q /\ fromClient' = f
  BY <1>1, <1>2, <1>3 DEF WriteUp, Types
<1>6. g \o (unsent \o f) = FirstBytes(client.sent)
  BY <1>3 DEF NothingLost, Flow
<1>7. p \o q = unsent
  BY <1>2, <1>4, CutInTwo
<1>8. (g \o p) \o (q \o f) = g \o (unsent \o f)
  <2>1. g \in Seq(Nat) /\ p \in Seq(Nat) /\ q \in Seq(Nat) /\ f \in Seq(Nat)
    BY <1>4
  <2>2. q \o f \in Seq(Nat)
    BY <2>1, ConcatProperties
  <2>3. (g \o p) \o (q \o f) = g \o (p \o (q \o f))
    BY <2>1, <2>2, Associate
  <2>4. p \o (q \o f) = (p \o q) \o f
    BY <2>1, Associate
  <2> QED  BY <1>7, <2>3, <2>4
<1>9. g \o p \in Seq(Nat) /\ q \o f \in Seq(Nat)
  BY <1>4, ConcatProperties
<1> QED  BY <1>5, <1>6, <1>8, <1>9 DEF Flow

LEMMA StepFlows == Types /\ NothingLost /\ [Next]_vars => NothingLost'
<1> SUFFICES ASSUME Types, NothingLost, [Next]_vars
             PROVE  NothingLost'
  OBVIOUS
<1>1. CASE ClientSend
  <2>1. /\ client'.sent = client.sent + 1 /\ client'.got = client.got
        /\ fromClient' = Append(fromClient, client.sent + 1)
        /\ UNCHANGED <<connect, origin, fromOrigin, unsent>>
    BY <1>1 DEF ClientSend, Types
  <2>2. client.sent \in Nat /\ unsent \in Seq(Nat) /\ fromClient \in Seq(Nat)
    BY DEF Types
  <2>3. task["rest"] = "none" => task'["rest"] = "none"
    BY <1>1 DEF ClientSend, WakeReader, Types, TypeOK, Copiers
  <2>4. Append(unsent \o fromClient, client.sent + 1)
           = unsent \o Append(fromClient, client.sent + 1)
    <3>1. PICK m \in Nat : m = client.sent + 1
      BY <2>2
    <3>2. <<m>> \in Seq(Nat) /\ unsent \o fromClient \in Seq(Nat)
      BY <2>2, ConcatProperties
    <3>3. Append(unsent \o fromClient, m) = (unsent \o fromClient) \o <<m>>
      BY <3>2, AppendIsConcat
    <3>4. Append(fromClient, m) = fromClient \o <<m>>
      BY <2>2, AppendIsConcat
    <3>5. (unsent \o fromClient) \o <<m>> = unsent \o (fromClient \o <<m>>)
      BY <2>2, <3>2, ConcatAssociative
    <3> QED  BY <3>1, <3>3, <3>4, <3>5, Zenon
  <2>5. connect => Flow(origin.got, Append(unsent \o fromClient, client.sent + 1),
                        client.sent + 1)
    BY <2>2, FlowSend DEF NothingLost
  <2> QED  BY <2>1, <2>3, <2>4, <2>5 DEF NothingLost
<1>2. CASE OriginSend
  <2>1. /\ origin'.sent = origin.sent + 1 /\ origin'.got = origin.got
        /\ fromOrigin' = Append(fromOrigin, origin.sent + 1)
        /\ UNCHANGED <<connect, client, fromClient, unsent, task>>
    BY <1>2 DEF OriginSend, Types
  <2>2. origin.sent \in Nat
    BY DEF Types
  <2>3. Flow(client.got, Append(fromOrigin, origin.sent + 1), origin.sent + 1)
    BY <2>2, FlowSend DEF NothingLost
  <2> QED  BY <2>1, <2>3 DEF NothingLost
<1>3. CASE \E c \in Readers : ReadUp(c)
  <2>1. PICK c \in Readers : ReadUp(c)
    BY <1>3
  <2>2. /\ origin'.sent = origin.sent /\ UNCHANGED <<connect, client, fromOrigin>>
        /\ task' = [task EXCEPT ![c] = "writing"] /\ task[c] # "none"
    BY <2>1 DEF ReadUp, AtRead, Types
  <2>3. task["rest"] = "none" => task'["rest"] = "none"
    BY <2>2 DEF Types, TypeOK, Copiers, Readers
  <2>4. connect => Flow(origin'.got, unsent' \o fromClient', client.sent)
    BY <2>1, ReadKeepsFlow
  <2> QED  BY <2>2, <2>3, <2>4 DEF NothingLost
<1>4. CASE WriteUp
  <2>1. /\ origin'.sent = origin.sent /\ UNCHANGED <<connect, client, fromOrigin, task>>
    BY <1>4 DEF WriteUp, Types
  <2> QED  BY <1>4, <2>1, WriteKeepsFlow DEF NothingLost
<1>5. CASE CopyDown
  <2>1. /\ client'.sent = client.sent /\ client'.got = client.got \o fromOrigin
        /\ fromOrigin' = <<>> /\ UNCHANGED <<connect, origin, fromClient, unsent>>
        /\ task' = [task EXCEPT !["down"] = "reading"]
    BY <1>5 DEF CopyDown, Types
  <2>2. Flow(client.got \o fromOrigin, <<>>, origin.sent)
    BY FlowCopy DEF NothingLost
  <2>3. task'["rest"] = task["rest"]
    BY <2>1 DEF Types, TypeOK, Copiers
  <2> QED  BY <2>1, <2>2, <2>3 DEF NothingLost
<1>6. CASE \/ ClientEof \/ OriginEof \/ WaitDown \/ EndDown \/ RelayEnds \/ UNCHANGED vars
           \/ \E c \in Readers : WaitUp(c) \/ EndUp(c)
  <2>1. UNCHANGED <<client.sent, client.got, origin.sent, origin.got, fromClient, fromOrigin,
                    connect, unsent>>
    BY <1>6 DEF ClientEof, OriginEof, WaitDown, EndDown, RelayEnds, WaitUp, EndUp, vars, Types
  <2>2. task["rest"] = "none" => task'["rest"] = "none"
    BY <1>6 DEF ClientEof, WakeReader, OriginEof, WaitDown, EndDown, RelayEnds, WaitUp, EndUp,
                AtRead, vars, Types, TypeOK, Copiers, Readers
  <2> QED  BY <2>1, <2>2 DEF NothingLost
<1> QED  BY <1>1, <1>2, <1>3, <1>4, <1>5, <1>6 DEF Next, Up, Down

\* The client receives the beginning of what the origin sent, in order, and the
\* origin of a tunnel the beginning of what the client sent, through the pieces
\* and pauses of chunked_write.  A plain request refutes the second: _fwd_rest and
\* a copier of relay() write to the origin in turn (BodyInOrder).
THEOREM ForwardInOrder == Spec => []InOrder
<1>1. Types /\ NothingLost => InOrder
  <2> SUFFICES ASSUME Types, NothingLost PROVE InOrder
    OBVIOUS
  <2>1. client.sent \in Nat /\ origin.sent \in Nat
    BY DEF Types
  <2> QED  BY <2>1, FlowPrefix DEF InOrder, NothingLost
<1> QED  BY <1>1, InitTypes, StepTypes, InitFlows, StepFlows, PTL DEF Spec

-----------------------------------------------------------------------------
(* The end of a tunnel *)

\* A copier of a tunnel is done because its stream has ended; what wakes it is
\* there for it to read, or the end is; the tunnel is closed because one of the
\* two is done.
Ends ==
    /\ connect => /\ task["rest"] = "none"
                  /\ task["up"] = "done" => client.eof
                  /\ task["up"] = "woken" => fromClient # <<>> \/ client.eof
    /\ task["down"] = "done" => origin.eof /\ fromOrigin = <<>>
    /\ closed => "done" \in {task["up"], task["down"]}

LEMMA InitEnds == Init => Ends
BY DEF Init, Ends, Copiers

\* Without _fwd_rest the copier that reads the client finds no other reader: it
\* ends with the stream, never by an error and never because it read nothing.
LEMMA UpKeepsEnds ==
    ASSUME Types, Ends, NEW c \in Readers, Up(c)
    PROVE  Ends'
<1>1. /\ ~closed /\ UNCHANGED <<connect, client, fromOrigin, closed, origin.eof>>
  BY DEF Up, WaitUp, ReadUp, WriteUp, EndUp, AtRead, Types
<1>2. \/ task' = task /\ c = "up" /\ task["up"] = "writing"
      \/ /\ task[c] \in {"new", "woken", "writing"}
         /\ \E v \in {"reading", "writing", "done"} : task' = [task EXCEPT ![c] = v]
  BY DEF Up, WaitUp, ReadUp, WriteUp, EndUp, AtRead
<1>3. task'["down"] = task["down"] /\ (c = "up" => task'["rest"] = task["rest"])
  BY <1>2 DEF Types, TypeOK, Copiers, Readers
<1>4. ASSUME connect
      PROVE  /\ c = "up" /\ (task'["up"] = "done" => client.eof)
             /\ task'["up"] # "woken"
  <2>1. c = "up"
    BY <1>2, <1>4 DEF Ends, Readers
  <2>2. CASE WaitUp(c)
    <3>1. waiter = "none"
      BY <1>4, <2>1, <2>2 DEF WaitUp, AtRead, Types, TypeOK, Ends, Readers
    <3>2. task' = [task EXCEPT !["up"] = "reading"]
      BY <2>1, <2>2, <3>1 DEF WaitUp
    <3> QED  BY <2>1, <3>2 DEF Types, TypeOK, Copiers
  <2>3. CASE ReadUp(c)
    BY <2>1, <2>3 DEF ReadUp, Types, TypeOK, Copiers
  <2>4. CASE EndUp(c)
    <3>1. client.eof
      BY <1>4, <2>1, <2>4 DEF EndUp, Ends
    <3>2. task'["up"] = "done"
      BY <2>1, <2>4 DEF EndUp, Types, TypeOK, Copiers
    <3> QED  BY <2>1, <3>1, <3>2
  <2>5. CASE WriteUp
    BY <2>1, <2>5 DEF WriteUp
  <2> QED  BY <2>2, <2>3, <2>4, <2>5 DEF Up
<1> QED  BY <1>1, <1>3, <1>4 DEF Ends

\* What is fed to the client's stream is there when the woken reader runs.
LEMMA ClientKeepsEnds ==
    ASSUME Types, Ends, ClientSend \/ ClientEof
    PROVE  Ends'
<1>1. /\ UNCHANGED <<connect, origin, fromOrigin, closed>> /\ WakeReader
      /\ client.eof => client'.eof
  BY DEF ClientSend, ClientEof, Types
<1>2. fromClient' # <<>> \/ client'.eof
  <2>1. CASE ClientSend
    <3>1. client.sent + 1 \in Nat /\ fromClient \in Seq(Nat)
      BY DEF Types
    <3>2. Len(Append(fromClient, client.sent + 1)) = Len(fromClient) + 1
      BY <3>1, AppendProperties
    <3>3. Append(fromClient, client.sent + 1) # <<>>
      BY <3>1, <3>2, LenProperties, EmptySeq
    <3> QED  BY <2>1, <3>3 DEF ClientSend
  <2>2. CASE ClientEof
    BY <2>2 DEF ClientEof, Types
  <2> QED  BY <2>1, <2>2
<1>3. /\ task'["down"] = task["down"]
      /\ task["rest"] = "none" => task'["rest"] = "none"
      /\ task'["up"] \in {task["up"], "woken"}
      /\ task["up"] = "done" => task'["up"] = "done"
  BY <1>1 DEF WakeReader, Types, TypeOK, Copiers, Readers
<1> QED  BY <1>1, <1>2, <1>3 DEF Ends

LEMMA StepEnds == Types /\ Ends /\ [Next]_vars => Ends'
<1> SUFFICES ASSUME Types, Ends, [Next]_vars
             PROVE  Ends'
  OBVIOUS
<1> USE DEF Types, TypeOK, Copiers, Ends
<1>1. CASE OriginSend \/ OriginEof
  BY <1>1 DEF OriginSend, OriginEof
<1>2. ASSUME NEW c \in Readers, Up(c) PROVE Ends'
  BY <1>2, UpKeepsEnds
<1>3. CASE Down
  <2>1. /\ UNCHANGED <<connect, client.eof, fromClient, origin.eof, closed>> /\ ~closed
        /\ \A c \in {"rest", "up"} : task'[c] = task[c]
    BY <1>3 DEF Down, WaitDown, CopyDown, EndDown, Runs
  <2>2. task'["down"] = "done" => origin.eof /\ fromOrigin' = <<>>
    BY <1>3 DEF Down, WaitDown, CopyDown, EndDown, Runs
  <2> QED  BY <2>1, <2>2
<1>4. CASE RelayEnds
  BY <1>4 DEF RelayEnds
<1>5. CASE UNCHANGED vars
  BY <1>5 DEF vars
<1>6. CASE ClientSend \/ ClientEof
  BY <1>6, ClientKeepsEnds
<1> QED  BY <1>1, <1>2, <1>3, <1>4, <1>5, <1>6 DEF Next

\* relay() of a CONNECT hangs up only after one of the ends has ended its stream,
\* and a client that still listens has then got all that the origin sent.  Of a
\* plain request it is refuted (run forward_get): the two readers of the client's
\* stream meet, and the one that fails ends the relay.
THEOREM TunnelHangsUp == Spec => []TunnelHangsUpAfterEnd
<1>1. Types /\ NothingLost /\ Ends => TunnelHangsUpAfterEnd
  <2> SUFFICES ASSUME Types, NothingLost, Ends, connect, closed, ~client.eof
               PROVE  origin.eof /\ client.got = FirstBytes(origin.sent)
    BY DEF TunnelHangsUpAfterEnd, Truncated
  <2>1. origin.eof /\ fromOrigin = <<>>
    BY DEF Ends
  <2>2. origin.sent \in Nat
    BY DEF Types
  <2> QED  BY <2>1, <2>2, FlowPrefix DEF NothingLost
<1> QED  BY <1>1, InitTypes, StepTypes, InitFlows, StepFlows, InitEnds, StepEnds, PTL DEF Spec
=============================================================================
