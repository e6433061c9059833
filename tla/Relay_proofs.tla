---------------------------- MODULE Relay_proofs ----------------------------
(***************************************************************************)
(* The tunnel: what either end has received is the beginning of what the   *)
(* other sent.  Relay takes a frame for one item of a stream, whose header *)
(* says how many bytes follow; the last part of this module is about the   *)
(* bytes of that frame: read_frame undoes encode_frame, for every payload  *)
(* that has a length of eight bytes, and leaves in the stream what follows *)
(* the frame.                                                              *)
(***************************************************************************)
EXTENDS Relay, WsCodec, SequenceTheorems, TLAPS

-----------------------------------------------------------------------------
(* Runs: pieces of a stream whose bytes are numbered in the order sent *)

\* s are the bytes that follow the first k.
Run(s, k) == s \in Seq(Nat) /\ \A i \in 1 .. Len(s) : s[i] = k + i

LEMMA RunEmpty == ASSUME NEW k \in Nat PROVE Run(<<>>, k)
BY DEF Run

LEMMA Nonempty ==
    ASSUME NEW S, NEW s \in Seq(S)
    PROVE  Len(s) \in Nat /\ (s # <<>> <=> Len(s) >= 1) /\ (s = <<>> <=> Len(s) = 0)
<1>1. Len(s) \in Nat /\ Len(<<>>) = 0
  BY LenProperties
<1>2. s # <<>> => Len(s) >= 1
  BY EmptySeq
<1>3. s = <<>> => Len(s) = 0
  BY <1>1
<1>4. s # <<>> => Len(s) # 0
  BY <1>2
<1> QED  BY <1>1, <1>2, <1>3, <1>4

LEMMA RunAppend ==
    ASSUME NEW k \in Nat, NEW s, Run(s, k)
    PROVE  /\ Run(Append(s, k + Len(s) + 1), k)
           /\ Len(Append(s, k + Len(s) + 1)) = Len(s) + 1
<1>1. Len(s) \in Nat /\ k + Len(s) + 1 \in Nat
  BY LenProperties DEF Run
<1> QED  BY <1>1, AppendProperties DEF Run

LEMMA RunSplit ==
    ASSUME NEW k \in Nat, NEW s, Run(s, k), NEW n \in 0 .. Len(s)
    PROVE  /\ Run(SubSeq(s, 1, n), k) /\ Len(SubSeq(s, 1, n)) = n
           /\ Run(SubSeq(s, n + 1, Len(s)), k + n)
           /\ Len(SubSeq(s, n + 1, Len(s))) = Len(s) - n
<1>1. Len(s) \in Nat /\ s \in Seq(Nat) /\ \A i \in 1 .. Len(s) : s[i] \in Nat /\ s[i] = k + i
  BY LenProperties, ElementOfSeq DEF Run
<1>2. /\ SubSeq(s, 1, n) \in Seq(Nat) /\ Len(SubSeq(s, 1, n)) = n
      /\ \A i \in 1 .. n : SubSeq(s, 1, n)[i] = s[i]
  BY <1>1, SubSeqProperties
<1>3. /\ SubSeq(s, n + 1, Len(s)) \in Seq(Nat) /\ Len(SubSeq(s, n + 1, Len(s))) = Len(s) - n
      /\ \A i \in 1 .. Len(s) - n : SubSeq(s, n + 1, Len(s))[i] = s[n + i]
  BY <1>1, SubSeqProperties
<1> QED  BY <1>1, <1>2, <1>3 DEF Run

LEMMA RunConcat ==
    ASSUME NEW k \in Nat, NEW s, Run(s, k), NEW t, Run(t, k + Len(s))
    PROVE  Run(s \o t, k) /\ Len(s \o t) = Len(s) + Len(t)
<1>1. Len(s) \in Nat /\ Len(t) \in Nat
  BY LenProperties DEF Run
<1> QED  BY <1>1, ConcatProperties DEF Run

LEMMA RunIsPrefix ==
    ASSUME NEW s, Run(s, 0), NEW n \in Nat, Len(s) <= n
    PROVE  IsPrefix(s, FirstBytes(n))
<1>1. Len(s) \in Nat /\ s \in Seq(Nat) /\ \A i \in 1 .. Len(s) : s[i] = i
  BY LenProperties DEF Run
<1>2. FirstBytes(n) \in Seq(Nat) /\ Len(FirstBytes(n)) = n
      /\ \A i \in 1 .. n : FirstBytes(n)[i] = i
  BY DEF FirstBytes
<1>3. SubSeq(s, 1, Len(s)) = s
  BY <1>1, SubSeqFull
<1>4. /\ SubSeq(FirstBytes(n), 1, Len(s)) \in Seq(Nat)
      /\ Len(SubSeq(FirstBytes(n), 1, Len(s))) = Len(s)
      /\ \A i \in 1 .. Len(s) : SubSeq(FirstBytes(n), 1, Len(s))[i] = i
  BY <1>1, <1>2, SubSeqProperties
<1>5. s = SubSeq(FirstBytes(n), 1, Len(s))
  BY <1>1, <1>4, SeqEqual
<1> QED  BY <1>1, <1>2, <1>3, <1>5 DEF IsPrefix

-----------------------------------------------------------------------------
(* Types *)

Items == [kind : {"head", "frame", "byte"}, n : Nat]

Types ==
    /\ TypeOK
    /\ client \in [sent : Nat, eof : BOOLEAN, gone : BOOLEAN, got : Seq(Int)]
    /\ origin \in [sent : Nat, eof : BOOLEAN, got : Seq(Nat)]
    /\ fromClient \in Seq(Nat) /\ toPool \in Seq(Seq(Nat)) /\ unsent \in Seq(Nat)
    /\ fromOrigin \in Seq(Nat) /\ toEdge \in Seq(Items)
    /\ pool = "connecting" => unsent = <<>>

LEMMA Pieces ==
    ASSUME NEW S, NEW s \in Seq(S), NEW n \in Nat
    PROVE  /\ n <= Len(s) => SubSeq(s, 1, n) \in Seq(S)
           /\ SubSeq(s, n + 1, Len(s)) \in Seq(S)
<1>1. Len(s) \in Nat /\ \A i \in 1 .. Len(s) : s[i] \in S
  BY LenProperties, ElementOfSeq
<1> QED  BY <1>1, SubSeqProperties

LEMMA Rest ==
    ASSUME NEW S, NEW s \in Seq(S), NEW n \in Nat
    PROVE  SubSeq(s, n + 2, Len(s)) \in Seq(S)
<1>1. (n + 1) + 1 = n + 2 /\ n + 1 \in Nat
  OBVIOUS
<1> QED  BY <1>1, Pieces

LEMMA ItemTypes ==
    /\ Accepted \in Items /\ Rejected \in Items
    /\ \A n \in Nat : FrameHeader(n) \in Items /\ Byte(n) \in Items
BY DEF Items, Accepted, Rejected, FrameHeader, Byte

LEMMA WrittenType ==
    ASSUME NEW s \in Seq(Items), NEW t \in Seq(Items)
    PROVE  Written(s, t) \in Seq(Items)
BY ConcatProperties DEF Written

\* A frame that _tcp2ws writes.
FrameOf(s, n) == <<FrameHeader(n)>> \o [i \in 1 .. n |-> Byte(s[i])]

LEMMA FrameType ==
    ASSUME NEW s \in Seq(Nat), NEW n \in 1 .. Len(s)
    PROVE  /\ FrameOf(s, n) \in Seq(Items) /\ Len(FrameOf(s, n)) = n + 1
           /\ FrameOf(s, n)[1] = FrameHeader(n)
           /\ \A i \in 1 .. n : FrameOf(s, n)[i + 1] = Byte(s[i])
<1> DEFINE bytes == [i \in 1 .. n |-> Byte(s[i])]
<1>1. n \in Nat /\ \A i \in 1 .. n : s[i] \in Nat /\ Byte(s[i]) \in Items
  BY LenProperties, ElementOfSeq, ItemTypes
<1>2. bytes \in Seq(Items) /\ Len(bytes) = n /\ \A i \in 1 .. n : bytes[i] = Byte(s[i])
  BY <1>1
<1>3. <<FrameHeader(n)>> \in Seq(Items) /\ Len(<<FrameHeader(n)>>) = 1
      /\ <<FrameHeader(n)>>[1] = FrameHeader(n)
  BY <1>1, ItemTypes
<1> HIDE DEF bytes
<1>4. /\ <<FrameHeader(n)>> \o bytes \in Seq(Items)
      /\ Len(<<FrameHeader(n)>> \o bytes) = n + 1
      /\ \A i \in 1 .. n + 1 : (<<FrameHeader(n)>> \o bytes)[i]
                                  = IF i <= 1 THEN <<FrameHeader(n)>>[i] ELSE bytes[i - 1]
  BY <1>1, <1>2, <1>3, ConcatProperties
<1>5. (<<FrameHeader(n)>> \o bytes)[1] = FrameHeader(n)
  BY <1>1, <1>3, <1>4
<1>6. \A i \in 1 .. n : (<<FrameHeader(n)>> \o bytes)[i + 1] = Byte(s[i])
  BY <1>1, <1>2, <1>4
<1> QED  BY <1>4, <1>5, <1>6 DEF bytes, FrameOf

\* What _p2c delivers of a frame.
LEMMA BytesType ==
    ASSUME NEW s \in Seq(Items), NEW n \in Nat, n < Len(s)
    PROVE  LET bytes == Bytes(SubSeq(s, 2, n + 1))
           IN  /\ bytes \in Seq(Nat) /\ Len(bytes) = n
               /\ \A i \in 1 .. n : bytes[i] = s[i + 1].n
<1>1. /\ SubSeq(s, 2, n + 1) \in Seq(Items) /\ Len(SubSeq(s, 2, n + 1)) = n
      /\ \A i \in 1 .. n : SubSeq(s, 2, n + 1)[i] = s[i + 1]
  <2>1. 2 \in Int /\ n + 1 \in Int /\ \A i \in 2 .. n + 1 : s[i] \in Items
    BY LenProperties, ElementOfSeq
  <2>2. /\ SubSeq(s, 2, n + 1) \in Seq(Items)
        /\ Len(SubSeq(s, 2, n + 1)) = IF 2 <= n + 1 THEN (n + 1) - 2 + 1 ELSE 0
        /\ \A i \in 1 .. (n + 1) - 2 + 1 : SubSeq(s, 2, n + 1)[i] = s[2 + i - 1]
    BY <2>1, SubSeqProperties
  <2> QED  BY <2>2
<1>2. DOMAIN SubSeq(s, 2, n + 1) = 1 .. n
  BY <1>1, LenProperties
<1>3. \A i \in 1 .. n : s[i + 1].n \in Nat
  <2> SUFFICES ASSUME NEW i \in 1 .. n PROVE s[i + 1].n \in Nat
    OBVIOUS
  <2>1. i + 1 \in 1 .. Len(s)
    BY LenProperties
  <2>2. s[i + 1] \in Items
    BY <2>1, ElementOfSeq
  <2> QED  BY <2>2 DEF Items
<1>4. Bytes(SubSeq(s, 2, n + 1)) = [i \in 1 .. n |-> s[i + 1].n]
  BY <1>1, <1>2 DEF Bytes
<1>5. [i \in 1 .. n |-> s[i + 1].n] \in Seq(Nat)
  BY <1>3
<1> QED  BY <1>4, <1>5, SMTT(30)

LEMMA InitTypes == Init => Types
<1> SUFFICES ASSUME Init PROVE Types
  OBVIOUS
<1>1. PICK read \in ReadWithHead :
          client = [sent |-> read, eof |-> FALSE, gone |-> FALSE, got |-> <<>>]
  BY DEF Init
<1>2. read \in Nat /\ read \in 0 .. UpBytes
  BY <1>1, RelayAssumption DEF ReadWithHead
<1> QED  BY <1>1, <1>2, RelayAssumption, EmptySeq DEF Init, Types, TypeOK

LEMMA StepTypes == Types /\ [Next]_vars => Types'
<1> SUFFICES ASSUME Types, [Next]_vars
             PROVE  Types'
  OBVIOUS
<1> USE RelayAssumption DEF Types, TypeOK
<1>1. CASE ClientSend
  <2>1. client.sent + 1 \in Nat /\ client.sent + 1 \in 0 .. UpBytes
    BY <1>1, SMTT(30) DEF ClientSend
  <2>2. Append(fromClient, client.sent + 1) \in Seq(Nat)
    BY <2>1, AppendProperties
  <2> QED  BY <1>1, <2>1, <2>2 DEF ClientSend
<1>2. CASE ClientEof \/ ClientGone \/ OriginEof
  BY <1>2 DEF ClientEof, ClientGone, OriginEof
<1>3. CASE OriginSend
  <2>1. origin.sent + 1 \in Nat /\ origin.sent + 1 \in 0 .. DownBytes
    BY <1>3, SMTT(30) DEF OriginSend
  <2>2. Append(fromOrigin, origin.sent + 1) \in Seq(Nat)
    BY <2>1, AppendProperties
  <2> QED  BY <1>3, <2>1, <2>2 DEF OriginSend
<1>4. CASE LinkCut
  <2>1. Len(toEdge) \in Nat /\ Len(toPool) \in Nat
    BY LenProperties
  <2>2. toEdge' \in Seq(Items) /\ toPool' \in Seq(Seq(Nat))
    BY <1>4, <2>1, Pieces, SMTT(30) DEF LinkCut
  <2> QED  BY <1>4, <2>2 DEF LinkCut
<1>5. CASE PoolConnect
  <2>1. /\ <<>> \in Seq(Items) /\ <<Accepted>> \in Seq(Items)
        /\ <<Rejected>> \in Seq(Items)
    BY ItemTypes
  <2>2. Written(<<>>, <<Accepted>>) \in Seq(Items) /\ Written(<<>>, <<Rejected>>) \in Seq(Items)
    BY <2>1, WrittenType
  <2>3. toEdge' \in Seq(Items)
    BY <1>5, <2>2 DEF PoolConnect
  <2> QED  BY <1>5, <2>3 DEF PoolConnect
<1>6. CASE PoolDown
  <2>1. PICK n \in 1 .. Len(fromOrigin) :
            /\ toEdge' = Written(toEdge, FrameOf(fromOrigin, n))
            /\ fromOrigin' = SubSeq(fromOrigin, n + 1, Len(fromOrigin))
    BY <1>6 DEF PoolDown, FrameOf
  <2>2. n \in Nat /\ FrameOf(fromOrigin, n) \in Seq(Items)
    BY FrameType, LenProperties
  <2>3. toEdge' \in Seq(Items) /\ fromOrigin' \in Seq(Nat)
    BY <2>1, <2>2, Pieces, WrittenType
  <2> QED  BY <1>6, <2>3 DEF PoolDown
<1>7. CASE PoolFrame
  BY <1>7, HeadTailProperties DEF PoolFrame
<1>8. CASE PoolPiece
  <2> DEFINE n == IF Len(unsent) < SendChunk THEN Len(unsent) ELSE SendChunk
  <2>1. n \in Nat /\ n <= Len(unsent)
    BY LenProperties
  <2>2. SubSeq(unsent, 1, n) \in Seq(Nat) /\ SubSeq(unsent, n + 1, Len(unsent)) \in Seq(Nat)
    BY <2>1, Pieces
  <2>3. origin.got \o SubSeq(unsent, 1, n) \in Seq(Nat)
    BY <2>2, ConcatProperties
  <2>4. /\ origin' = [origin EXCEPT !.got = @ \o SubSeq(unsent, 1, n)]
        /\ unsent' = SubSeq(unsent, n + 1, Len(unsent)) /\ pool = "open"
        /\ UNCHANGED <<client, fromClient, toPool, fromOrigin, toEdge, edge, pool, link>>
    BY <1>8 DEF PoolPiece
  <2> QED  BY <2>2, <2>3, <2>4
<1>9. CASE PoolEnds
  BY <1>9, EmptySeq DEF PoolEnds
<1>10. CASE EdgeHandshake
  <2>1. \/ \E n \in 1 .. Len(toEdge) : toEdge' = SubSeq(toEdge, n + 1, Len(toEdge))
        \/ toEdge' \in {<<>>, toEdge}
    BY <1>10 DEF EdgeHandshake
  <2>2. Len(toEdge) \in Nat /\ <<>> \in Seq(Items)
    BY LenProperties
  <2>3. toEdge' \in Seq(Items)
    <3>1. \A n \in 1 .. Len(toEdge) : SubSeq(toEdge, n + 1, Len(toEdge)) \in Seq(Items)
      BY <2>2, Pieces
    <3> QED  BY <2>1, <2>2, <3>1
  <2>4. \/ edge' = [edge EXCEPT !.pc = "open"]
        \/ edge' = [pc |-> "closed", up |-> FALSE, down |-> FALSE]
    BY <1>10 DEF EdgeHandshake, EdgeGone
  <2>5. edge' \in [pc : {"handshake", "open", "closed"}, up : BOOLEAN, down : BOOLEAN]
    <3>1. CASE edge' = [edge EXCEPT !.pc = "open"]
      BY <3>1
    <3>2. CASE edge' = [pc |-> "closed", up |-> FALSE, down |-> FALSE]
      BY <3>2
    <3> QED  BY <2>4, <3>1, <3>2
  <2> QED  BY <1>10, <2>3, <2>5 DEF EdgeHandshake
<1>11. CASE EdgeUp
  <2>1. PICK n \in 1 .. Len(fromClient) :
            /\ toPool' = IF Deaf THEN toPool ELSE Append(toPool, SubSeq(fromClient, 1, n))
            /\ fromClient' = SubSeq(fromClient, n + 1, Len(fromClient))
    BY <1>11 DEF EdgeUp
  <2>2. n \in Nat /\ n <= Len(fromClient)
    BY LenProperties
  <2>3. SubSeq(fromClient, 1, n) \in Seq(Nat) /\ fromClient' \in Seq(Nat)
    BY <2>1, <2>2, Pieces
  <2>4. toPool' \in Seq(Seq(Nat))
    BY <2>1, <2>3, AppendProperties
  <2>5. edge' \in [pc : {"handshake", "open", "closed"}, up : BOOLEAN, down : BOOLEAN]
    BY <1>11 DEF EdgeUp, Deaf
  <2> QED  BY <1>11, <2>4, <2>5, <2>3 DEF EdgeUp
<1>12. CASE EdgeUpEof \/ EdgeClose
  BY <1>12 DEF EdgeUpEof, EdgeClose
<1>13. CASE EdgeDown
  <2>1. Head(toEdge) \in Items /\ client.got \in Seq(Int)
    BY <1>13, HeadTailProperties DEF EdgeDown
  <2>2. CASE /\ Len(toEdge) > Head(toEdge).n
             /\ client' = [client EXCEPT !.got =
                              @ \o Bytes(SubSeq(toEdge, 2, Head(toEdge).n + 1))]
             /\ toEdge' = SubSeq(toEdge, Head(toEdge).n + 2, Len(toEdge))
    <3>1. Head(toEdge).n \in Nat /\ Len(toEdge) \in Nat
      BY <2>1, LenProperties DEF Items
    <3>2. Bytes(SubSeq(toEdge, 2, Head(toEdge).n + 1)) \in Seq(Int)
      BY <2>2, <3>1, BytesType, SeqMonotonic, Nat \subseteq Int
    <3>3. client.got \o Bytes(SubSeq(toEdge, 2, Head(toEdge).n + 1)) \in Seq(Int)
      BY <2>1, <3>2, ConcatProperties
    <3>4. toEdge' \in Seq(Items)
      BY <2>2, <3>1, Rest
    <3> QED  BY <1>13, <2>2, <3>3, <3>4 DEF EdgeDown
  <2>3. CASE client' = [client EXCEPT !.got = Append(@, -Head(toEdge).n)] /\ toEdge' = <<>>
    <3>1. -Head(toEdge).n \in Int
      BY <2>1 DEF Items
    <3>2. Append(client.got, -Head(toEdge).n) \in Seq(Int)
      BY <2>1, <3>1, AppendProperties
    <3> QED  BY <1>13, <2>3, <3>2, EmptySeq DEF EdgeDown
  <2> QED  BY <1>13, <2>2, <2>3 DEF EdgeDown
<1>14. CASE EdgeDownLost
  <2>1. Head(toEdge).n \in Nat
    <3>1. Head(toEdge) \in Items
      BY <1>14, HeadTailProperties DEF EdgeDownLost
    <3> QED  BY <3>1 DEF Items
  <2>2. toEdge' \in Seq(Items)
    BY <1>14, <2>1, Rest DEF EdgeDownLost
  <2>3. PICK alive \in BOOLEAN : edge' = [edge EXCEPT !.down = alive]
    BY <1>14 DEF EdgeDownLost
  <2> QED  BY <1>14, <2>2, <2>3 DEF EdgeDownLost
<1>15. CASE EdgeDownEof
  BY <1>15, EmptySeq DEF EdgeDownEof
<1>16. CASE UNCHANGED vars
  BY <1>16 DEF vars
<1>17. CASE ClientReset
  BY <1>17, EmptySeq DEF ClientReset
<1> QED  BY <1>1, <1>2, <1>3, <1>4, <1>5, <1>6, <1>7, <1>8, <1>9, <1>10, <1>11, <1>12,
            <1>13, <1>14, <1>15, <1>16, <1>17 DEF Next, Pool, Edge

\* The state of the tunnel keeps its types, and a closed pool writes nothing more.
THEOREM RelayTypes == Spec => []TypeOK
<1>1. Spec => []Types
  BY InitTypes, StepTypes, PTL DEF Spec
<1> QED  BY <1>1, PTL DEF Types

-----------------------------------------------------------------------------
(* Towards the origin *)

FrameEnd(f) == f[1] - 1 + Len(f)

\* The frames follow each other, from byte k + 1 on and not beyond byte top.
Chained(frames, k, top) ==
    /\ k <= top
    /\ \A j \in 1 .. Len(frames) :
          /\ frames[j] # <<>>
          /\ Run(frames[j], IF j = 1 THEN k ELSE FrameEnd(frames[j - 1]))
          /\ FrameEnd(frames[j]) <= top

ChainEnd(frames, k) == IF frames = <<>> THEN k ELSE FrameEnd(frames[Len(frames)])

\* What the edge has read of the client's stream.
UpRead == client.sent - Len(fromClient)
\* What the origin has received or is being written.
UpTaken == Len(origin.got) + Len(unsent)

\* Every piece of the stream is a run, and the pieces that are still going to be
\* written follow each other; none is missing before the edge's end while the
\* pool hears the edge and the edge may still read what the client sent.
UpReadable == link = "up" /\ (fromClient # <<>> \/ ~client.gone)

UpInv ==
    /\ UpRead \in Nat /\ Run(fromClient, UpRead)
    /\ Run(origin.got, 0) /\ Len(origin.got) <= client.sent
    /\ client.gone => client.eof
    /\ pool # "closed" =>
          /\ Run(unsent, Len(origin.got))
          /\ Chained(toPool, UpTaken, UpRead)
          /\ UpReadable => ChainEnd(toPool, UpTaken) = UpRead

LEMMA RunEnd ==
    ASSUME NEW k \in Nat, NEW f, Run(f, k), f # <<>>
    PROVE  /\ f \in Seq(Nat) /\ Len(f) \in Nat \ {0} /\ f[1] = k + 1
           /\ FrameEnd(f) = k + Len(f)
<1>1. f \in Seq(Nat) /\ \A i \in 1 .. Len(f) : f[i] = k + i
  BY DEF Run
<1>2. Len(f) \in Nat /\ Len(f) >= 1
  BY <1>1, Nonempty
<1> QED  BY <1>1, <1>2 DEF FrameEnd

LEMMA FrameEndType ==
    ASSUME NEW f \in Seq(Nat), f # <<>>
    PROVE  FrameEnd(f) \in Int
<1>1. Len(f) \in Nat /\ 1 \in 1 .. Len(f)
  BY Nonempty
<1>2. f[1] \in Nat
  BY <1>1, ElementOfSeq
<1> QED  BY <1>1, <1>2 DEF FrameEnd

\* A frame that is written goes to the end of the chain.
LEMMA ChainAppend ==
    ASSUME NEW frames \in Seq(Seq(Nat)), NEW k \in Nat, NEW top \in Nat,
           Chained(frames, k, top), ChainEnd(frames, k) = top,
           NEW f, f # <<>>, Run(f, top)
    PROVE  /\ Chained(Append(frames, f), k, top + Len(f))
           /\ ChainEnd(Append(frames, f), k) = top + Len(f)
<1> DEFINE more == Append(frames, f)
<1>1. f \in Seq(Nat) /\ Len(f) \in Nat \ {0} /\ f[1] = top + 1 /\ FrameEnd(f) = top + Len(f)
  BY RunEnd
<1>2. /\ Len(frames) \in Nat /\ more \in Seq(Seq(Nat)) /\ Len(more) = Len(frames) + 1
      /\ \A j \in 1 .. Len(frames) : more[j] = frames[j]
      /\ more[Len(frames) + 1] = f
  BY <1>1, AppendProperties, LenProperties
<1> HIDE DEF more
<1>3. ASSUME NEW j \in 1 .. Len(more)
      PROVE  /\ more[j] # <<>>
             /\ Run(more[j], IF j = 1 THEN k ELSE FrameEnd(more[j - 1]))
             /\ FrameEnd(more[j]) <= top + Len(f)
  <2>1. CASE j \in 1 .. Len(frames)
    <3>1. more[j] = frames[j] /\ (j # 1 => more[j - 1] = frames[j - 1])
      <4>1. j # 1 => j - 1 \in 1 .. Len(frames)
        BY <1>2, <2>1
      <4> QED  BY <1>2, <2>1, <4>1
    <3>2. FrameEnd(frames[j]) <= top /\ FrameEnd(frames[j]) \in Int
      <4>1. frames[j] \in Seq(Nat) /\ frames[j] # <<>> /\ FrameEnd(frames[j]) <= top
        BY <2>1, ElementOfSeq DEF Chained
      <4> QED  BY <4>1, FrameEndType
    <3>3. /\ frames[j] # <<>>
          /\ Run(frames[j], IF j = 1 THEN k ELSE FrameEnd(frames[j - 1]))
      BY <2>1 DEF Chained
    <3>4. FrameEnd(more[j]) <= top + Len(f)
      BY <1>1, <3>1, <3>2
    <3> QED  BY <3>1, <3>3, <3>4
  <2>2. CASE j = Len(frames) + 1
    <3>1. more[j] = f /\ (j # 1 => frames # <<>> /\ more[j - 1] = frames[Len(frames)])
      <4>1. j # 1 => Len(frames) >= 1 /\ j - 1 = Len(frames)
        BY <1>2, <2>2
      <4>2. j # 1 => Len(frames) \in 1 .. Len(frames)
        BY <1>2, <4>1
      <4> QED  BY <1>2, <2>2, <4>1, <4>2, Nonempty
    <3>2. top = IF j = 1 THEN k ELSE FrameEnd(more[j - 1])
      <4>1. j = 1 => frames = <<>>
        BY <1>2, <2>2, Nonempty
      <4> QED  BY <3>1, <4>1 DEF ChainEnd
    <3> QED  BY <1>1, <3>1, <3>2
  <2> QED  BY <1>2, <2>1, <2>2
<1>4. ChainEnd(more, k) = top + Len(f)
  <2>1. more # <<>>
    BY <1>2, Nonempty
  <2> QED  BY <1>1, <1>2, <2>1 DEF ChainEnd
<1>5. Chained(more, k, top + Len(f))
  <2>1. k <= top + Len(f)
    BY <1>1 DEF Chained
  <2> QED  BY <1>3, <2>1 DEF Chained
<1> QED  BY <1>4, <1>5 DEF more

\* One that is read is taken from its beginning.
LEMMA ChainTail ==
    ASSUME NEW frames \in Seq(Seq(Nat)), NEW k \in Nat, NEW top \in Nat,
           Chained(frames, k, top), frames # <<>>
    PROVE  /\ Run(Head(frames), k)
           /\ Chained(Tail(frames), k + Len(Head(frames)), top)
           /\ ChainEnd(Tail(frames), k + Len(Head(frames))) = ChainEnd(frames, k)
<1> DEFINE next == k + Len(Head(frames))
           rest == Tail(frames)
<1>1. /\ Len(frames) \in Nat \ {0} /\ Head(frames) = frames[1]
      /\ rest \in Seq(Seq(Nat)) /\ Len(rest) = Len(frames) - 1
      /\ \A j \in 1 .. Len(frames) - 1 : rest[j] = frames[j + 1]
  BY EmptySeq, HeadTailProperties
<1> HIDE DEF rest
<1>2. frames[1] # <<>> /\ Run(frames[1], k) /\ FrameEnd(frames[1]) <= top
  BY <1>1 DEF Chained
<1>3. FrameEnd(frames[1]) = next
  BY <1>1, <1>2, RunEnd
<1>4. ASSUME NEW j \in 1 .. Len(frames) - 1
      PROVE  /\ rest[j] # <<>>
             /\ Run(rest[j], IF j = 1 THEN next ELSE FrameEnd(rest[j - 1]))
             /\ FrameEnd(rest[j]) <= top
  <2>1. /\ j + 1 \in 1 .. Len(frames) /\ j + 1 # 1 /\ (j + 1) - 1 = j
        /\ rest[j] = frames[j + 1]
        /\ j # 1 => rest[j - 1] = frames[j]
    <3>1. j # 1 => j - 1 \in 1 .. Len(frames) - 1 /\ (j - 1) + 1 = j
      BY <1>1
    <3> QED  BY <1>1, <3>1, SMTT(30)
  <2>2. /\ frames[j + 1] # <<>> /\ Run(frames[j + 1], FrameEnd(frames[j]))
        /\ FrameEnd(frames[j + 1]) <= top
    BY <2>1 DEF Chained
  <2> QED  BY <1>3, <2>1, <2>2
<1>5. ChainEnd(rest, next) = ChainEnd(frames, k)
  <2>1. CASE Len(frames) = 1
    <3>1. rest = <<>>
      BY <1>1, <2>1, Nonempty
    <3> QED  BY <1>1, <1>3, <2>1, <3>1 DEF ChainEnd
  <2>2. CASE Len(frames) > 1
    <3>1. Len(frames) - 1 \in 1 .. Len(frames) - 1 /\ (Len(frames) - 1) + 1 = Len(frames)
      BY <1>1, <2>2
    <3>2. rest[Len(frames) - 1] = frames[Len(frames)]
      BY <1>1, <3>1
    <3>3. rest # <<>>
      BY <1>1, <2>2, Nonempty
    <3> QED  BY <1>1, <3>2, <3>3 DEF ChainEnd
  <2> QED  BY <1>1, <2>1, <2>2
<1> QED  BY <1>1, <1>2, <1>3, <1>4, <1>5 DEF Chained, rest

\* A chain that is cut short is a chain.
LEMMA ChainCut ==
    ASSUME NEW frames \in Seq(Seq(Nat)), NEW k \in Nat, NEW top \in Nat,
           Chained(frames, k, top), NEW n \in 0 .. Len(frames)
    PROVE  Chained(SubSeq(frames, 1, n), k, top)
<1>1. Len(frames) \in Nat /\ \A i \in 1 .. n : frames[i] \in Seq(Nat)
  BY LenProperties, ElementOfSeq
<1>2. /\ Len(SubSeq(frames, 1, n)) = n
      /\ \A i \in 1 .. n : SubSeq(frames, 1, n)[i] = frames[i]
  BY <1>1, SubSeqProperties
<1>3. ASSUME NEW j \in 1 .. n
      PROVE  /\ j \in 1 .. Len(frames) /\ SubSeq(frames, 1, n)[j] = frames[j]
             /\ j # 1 => SubSeq(frames, 1, n)[j - 1] = frames[j - 1]
  BY <1>1, <1>2
<1> QED  BY <1>1, <1>2, <1>3 DEF Chained

\* It may stay behind what has been read.
LEMMA ChainBehind ==
    ASSUME NEW frames \in Seq(Seq(Nat)), NEW k \in Nat, NEW top \in Nat,
           Chained(frames, k, top), NEW later \in Nat, top <= later
    PROVE  Chained(frames, k, later)
<1>1. k <= later
  BY DEF Chained
<1>2. ASSUME NEW j \in 1 .. Len(frames) PROVE FrameEnd(frames[j]) <= later
  <2>1. frames[j] \in Seq(Nat) /\ frames[j] # <<>> /\ FrameEnd(frames[j]) <= top
    BY ElementOfSeq DEF Chained
  <2>2. FrameEnd(frames[j]) \in Int
    BY <2>1, FrameEndType
  <2> QED  BY <2>1, <2>2
<1> QED  BY <1>1, <1>2 DEF Chained

LEMMA InitUp ==
    ASSUME ~ClientPipelines
    PROVE  Init => UpInv
<1> SUFFICES ASSUME Init PROVE UpInv
  OBVIOUS
<1>1. Run(<<>>, 0)
  BY RunEmpty
<1>2. client = [sent |-> 0, eof |-> FALSE, gone |-> FALSE, got |-> <<>>]
  BY DEF Init, ReadWithHead
<1> QED  BY <1>1, <1>2 DEF Init, UpInv, UpRead, UpTaken, Chained, ChainEnd

LEMMA EdgeKeepsUp ==
    ASSUME Types, UpInv, EdgeUp
    PROVE  UpInv'
<1>1. PICK n \in 1 .. Len(fromClient) :
          /\ toPool' = IF Deaf THEN toPool ELSE Append(toPool, SubSeq(fromClient, 1, n))
          /\ fromClient' = SubSeq(fromClient, n + 1, Len(fromClient))
  BY DEF EdgeUp
<1>2. /\ n \in 0 .. Len(fromClient) /\ n >= 1 /\ Len(fromClient) \in Nat
      /\ UNCHANGED <<client, origin, pool, unsent, link>>
      /\ client.sent \in Nat /\ UpRead \in Nat /\ UpTaken \in Nat
      /\ link \in {"up", "cut"} /\ toPool \in Seq(Seq(Nat))
  <2>1. Len(fromClient) \in Nat /\ Len(origin.got) \in Nat /\ Len(unsent) \in Nat
    BY LenProperties DEF Types
  <2>2. client.sent \in Nat /\ UpRead \in Nat /\ toPool \in Seq(Seq(Nat))
    BY DEF Types, UpInv
  <2>3. link \in {"up", "cut"}
    BY DEF Types, TypeOK
  <2> QED  BY <2>1, <2>2, <2>3 DEF EdgeUp, UpTaken
<1>3. /\ Run(SubSeq(fromClient, 1, n), UpRead) /\ Len(SubSeq(fromClient, 1, n)) = n
      /\ Run(fromClient', UpRead + n) /\ Len(fromClient') = Len(fromClient) - n
  BY <1>1, <1>2, RunSplit DEF UpInv
<1>4. UpRead' = UpRead + n /\ UpTaken' = UpTaken
  BY <1>2, <1>3 DEF UpRead, UpTaken
<1>5. ASSUME pool # "closed"
      PROVE  /\ Chained(toPool', UpTaken, UpRead + n)
             /\ UpReadable' => ChainEnd(toPool', UpTaken) = UpRead + n
  <2>1. Chained(toPool, UpTaken, UpRead)
    BY <1>5 DEF UpInv
  <2>2. CASE Deaf
    <3>1. toPool' = toPool /\ link # "up"
      BY <1>1, <1>2, <1>5, <2>2 DEF Deaf
    <3>2. ~UpReadable'
      BY <1>2, <3>1 DEF UpReadable
    <3> QED  BY <1>2, <2>1, <3>1, <3>2, ChainBehind
  <2>3. CASE ~Deaf
    <3>1. /\ toPool' = Append(toPool, SubSeq(fromClient, 1, n)) /\ link = "up"
          /\ ChainEnd(toPool, UpTaken) = UpRead
      <4>1. link = "up" /\ toPool' = Append(toPool, SubSeq(fromClient, 1, n))
        BY <1>1, <1>2, <1>5, <2>3 DEF Deaf
      <4>2. fromClient # <<>>
        BY <1>2, Nonempty DEF Types
      <4>3. UpReadable
        BY <4>1, <4>2 DEF UpReadable
      <4> QED  BY <1>5, <4>1, <4>3 DEF UpInv
    <3>2. SubSeq(fromClient, 1, n) # <<>>
      BY <1>2, <1>3, Nonempty DEF Run
    <3>3. PICK f : f = SubSeq(fromClient, 1, n)
      OBVIOUS
    <3>4. /\ f # <<>> /\ Run(f, UpRead) /\ Len(f) = n /\ toPool' = Append(toPool, f)
      BY <1>3, <3>1, <3>2, <3>3
    <3>5. /\ toPool \in Seq(Seq(Nat)) /\ UpTaken \in Nat /\ UpRead \in Nat
          /\ f # <<>> /\ Run(f, UpRead) /\ ChainEnd(toPool, UpTaken) = UpRead
      BY <1>2, <3>1, <3>4
    <3>6. /\ Chained(Append(toPool, f), UpTaken, UpRead + Len(f))
          /\ ChainEnd(Append(toPool, f), UpTaken) = UpRead + Len(f)
      BY <2>1, <3>5, ChainAppend
    <3> QED  BY <3>4, <3>6
  <2> QED  BY <2>2, <2>3
<1> QED  BY <1>2, <1>3, <1>4, <1>5 DEF UpInv

LEMMA PoolKeepsUp ==
    ASSUME Types, UpInv, PoolFrame \/ PoolPiece
    PROVE  UpInv'
<1>1. /\ UpRead \in Nat /\ UpTaken \in Nat /\ UpTaken <= UpRead /\ client.sent \in Nat
      /\ Len(fromClient) \in Nat /\ Len(origin.got) \in Nat /\ Len(unsent) \in Nat
      /\ pool = "open" /\ toPool \in Seq(Seq(Nat)) /\ Run(unsent, Len(origin.got))
      /\ Run(origin.got, 0) /\ Chained(toPool, UpTaken, UpRead)
      /\ UpReadable => ChainEnd(toPool, UpTaken) = UpRead
  BY LenProperties, SMTT(30) DEF Types, TypeOK, UpInv, UpTaken, PoolFrame, PoolPiece, Chained
<1>2. /\ UNCHANGED <<client, fromClient, pool, link>> /\ UpRead' = UpRead
      /\ UpReadable' = UpReadable
  BY DEF PoolFrame, PoolPiece, UpRead, UpReadable
<1>3. CASE PoolFrame
  <2>1. /\ toPool # <<>> /\ unsent = <<>> /\ unsent' = Head(toPool)
        /\ toPool' = Tail(toPool) /\ UNCHANGED origin
    BY <1>3 DEF PoolFrame
  <2>2. UpTaken = Len(origin.got) /\ UpTaken' = UpTaken + Len(Head(toPool))
    BY <1>1, <2>1 DEF UpTaken
  <2>3. /\ Run(unsent', Len(origin.got)) /\ Chained(toPool', UpTaken', UpRead)
        /\ ChainEnd(toPool', UpTaken') = ChainEnd(toPool, UpTaken)
    BY <1>1, <2>1, <2>2, ChainTail
  <2> QED  BY <1>1, <1>2, <2>1, <2>3 DEF UpInv
<1>4. CASE PoolPiece
  <2> DEFINE n == IF Len(unsent) < SendChunk THEN Len(unsent) ELSE SendChunk
  <2>1. n \in 0 .. Len(unsent)
    BY <1>1, RelayAssumption
  <2>2. /\ origin' = [origin EXCEPT !.got = @ \o SubSeq(unsent, 1, n)]
        /\ unsent' = SubSeq(unsent, n + 1, Len(unsent)) /\ UNCHANGED toPool
    BY <1>4 DEF PoolPiece
  <2> HIDE DEF n
  <2>3. origin'.got = origin.got \o SubSeq(unsent, 1, n)
    BY <2>2 DEF Types
  <2>4. /\ Run(SubSeq(unsent, 1, n), Len(origin.got)) /\ Len(SubSeq(unsent, 1, n)) = n
        /\ Run(unsent', Len(origin.got) + n) /\ Len(unsent') = Len(unsent) - n
    <3>1. /\ Run(SubSeq(unsent, 1, n), Len(origin.got)) /\ Len(SubSeq(unsent, 1, n)) = n
          /\ Run(SubSeq(unsent, n + 1, Len(unsent)), Len(origin.got) + n)
          /\ Len(SubSeq(unsent, n + 1, Len(unsent))) = Len(unsent) - n
      <4>1. Run(unsent, Len(origin.got)) /\ Len(origin.got) \in Nat
        BY <1>1
      <4> QED  BY <2>1, <4>1, RunSplit, SMTT(30)
    <3> QED  BY <2>2, <3>1
  <2>5. Run(origin'.got, 0) /\ Len(origin'.got) = Len(origin.got) + n
    <3>1. 0 + Len(origin.got) = Len(origin.got) /\ 0 \in Nat
      BY <1>1
    <3>2. Run(SubSeq(unsent, 1, n), 0 + Len(origin.got))
      BY <2>4, <3>1
    <3>3. /\ Run(origin.got \o SubSeq(unsent, 1, n), 0)
          /\ Len(origin.got \o SubSeq(unsent, 1, n))
                = Len(origin.got) + Len(SubSeq(unsent, 1, n))
      BY <1>1, <3>1, <3>2, RunConcat, ZenonT(60)
    <3> QED  BY <2>3, <2>4, <3>3
  <2>6. UpTaken' = UpTaken /\ Len(origin'.got) <= client.sent
    <3>1. PICK g \in Nat, u \in Nat, f \in Nat, c \in Nat :
             g = Len(origin.got) /\ u = Len(unsent) /\ f = Len(fromClient) /\ c = client.sent
      BY <1>1
    <3>2. n \in 0 .. u /\ Len(origin'.got) = g + n /\ Len(unsent') = u - n
      BY <2>1, <2>4, <2>5, <3>1
    <3>3. UpTaken = g + u /\ UpTaken' = (g + n) + (u - n) /\ g + u <= c - f
      BY <1>1, <3>1, <3>2 DEF UpTaken, UpRead
    <3>4. (g + n) + (u - n) = g + u /\ g + n <= c
      BY <3>2, <3>3
    <3> QED  BY <3>1, <3>2, <3>3, <3>4
  <2> QED  BY <1>1, <1>2, <2>2, <2>4, <2>5, <2>6 DEF UpInv
<1> QED  BY <1>3, <1>4

LEMMA StepUp == Types /\ UpInv /\ [Next]_vars => UpInv'
<1> SUFFICES ASSUME Types, UpInv, [Next]_vars
             PROVE  UpInv'
  OBVIOUS
<1>1. CASE ClientSend
  <2>1. /\ fromClient' = Append(fromClient, client.sent + 1) /\ client'.sent = client.sent + 1
        /\ UNCHANGED <<origin, toPool, pool, unsent, link>>
    BY <1>1 DEF ClientSend, Types
  <2>2. /\ Len(fromClient) \in Nat /\ client.sent \in Nat /\ UpRead \in Nat
        /\ client.sent + 1 = UpRead + Len(fromClient) + 1 /\ Len(origin.got) \in Nat
    BY LenProperties DEF Types, TypeOK, UpRead, UpInv
  <2>3. Run(fromClient', UpRead) /\ Len(fromClient') = Len(fromClient) + 1
    BY <2>1, <2>2, RunAppend DEF UpInv
  <2>4. UpRead' = UpRead /\ UpTaken' = UpTaken
    BY <2>1, <2>2, <2>3 DEF UpRead, UpTaken
  <2>5. client.gone => client.eof
    BY DEF UpInv
  <2>6. ~client.gone /\ client'.gone = client.gone /\ client'.eof = client.eof
    BY <1>1, <2>5 DEF ClientSend, Types
  <2>7. UpReadable' => UpReadable
    BY <2>1, <2>6 DEF UpReadable
  <2> QED  BY <2>1, <2>2, <2>3, <2>4, <2>5, <2>6, <2>7 DEF UpInv
<1>2. CASE LinkCut
  <2>1. PICK n \in 0 .. Len(toPool) : toPool' = SubSeq(toPool, 1, n)
    BY <1>2 DEF LinkCut
  <2>2. UNCHANGED <<client, origin, fromClient, pool, unsent, UpRead, UpTaken>> /\ link' = "cut"
    BY <1>2 DEF LinkCut, UpRead, UpTaken
  <2>3. UpRead \in Nat /\ UpTaken \in Nat /\ toPool \in Seq(Seq(Nat))
    BY LenProperties DEF UpInv, UpTaken, Types
  <2>4. ~UpReadable'
    BY <2>2 DEF UpReadable
  <2> QED  BY <2>1, <2>2, <2>3, <2>4, ChainCut DEF UpInv
<1>3. CASE EdgeUp
  BY <1>3, EdgeKeepsUp
<1>4. CASE PoolFrame \/ PoolPiece
  BY <1>4, PoolKeepsUp
<1>5. CASE PoolEnds \/ PoolConnect
  <2>1. /\ UNCHANGED <<client, origin, fromClient, toPool, link>> /\ UpRead' = UpRead
        /\ pool # "closed" /\ (pool' # "closed" => unsent' = unsent)
    BY <1>5 DEF PoolEnds, PoolConnect, UpRead
  <2>2. unsent' = unsent => UpTaken' = UpTaken
    BY <2>1 DEF UpTaken
  <2>3. UpReadable' = UpReadable
    BY <2>1 DEF UpReadable
  <2> QED  BY <2>1, <2>2, <2>3 DEF UpInv
<1>6. CASE ClientReset
  <2>1. /\ fromClient' = <<>> /\ client.gone
        /\ UNCHANGED <<client, origin, toPool, pool, unsent, link>>
    BY <1>6 DEF ClientReset
  <2>2. /\ client.sent \in Nat /\ Len(fromClient) \in Nat /\ Len(fromClient') = 0
        /\ UpRead \in Nat /\ UpTaken \in Nat /\ toPool \in Seq(Seq(Nat))
    BY <2>1, LenProperties, EmptySeq DEF Types, TypeOK, UpInv, UpTaken
  <2>3. UpRead' = client.sent /\ UpRead <= UpRead' /\ UpRead' \in Nat /\ UpTaken' = UpTaken
    BY <2>1, <2>2 DEF UpRead, UpTaken
  <2>4. Run(fromClient', UpRead')
    BY <2>1, <2>3, RunEmpty
  <2>5. ~UpReadable'
    BY <2>1 DEF UpReadable
  <2>6. pool # "closed" => Chained(toPool, UpTaken, UpRead')
    BY <2>2, <2>3, ChainBehind DEF UpInv
  <2> QED  BY <2>1, <2>3, <2>4, <2>5, <2>6 DEF UpInv
<1>7. CASE \/ ClientEof \/ ClientGone \/ OriginSend \/ OriginEof \/ PoolDown
           \/ EdgeHandshake \/ EdgeUpEof \/ EdgeDown \/ EdgeDownLost \/ EdgeDownEof
           \/ EdgeClose \/ UNCHANGED vars
  <2>1. UNCHANGED <<client.sent, origin.got, fromClient, toPool, pool, unsent, link>>
    BY <1>7 DEF ClientEof, ClientGone, OriginSend, OriginEof, PoolDown, EdgeHandshake,
                EdgeUpEof, EdgeDown, EdgeDownLost, EdgeDownEof, EdgeClose, vars, Types
  <2>2. UpRead' = UpRead /\ UpTaken' = UpTaken
    BY <2>1 DEF UpRead, UpTaken
  <2>3. (client.gone => client'.gone) /\ (client'.gone /\ ~client.gone => client'.eof)
        /\ (client.eof => client'.eof)
    BY <1>7 DEF ClientEof, ClientGone, OriginSend, OriginEof, PoolDown, EdgeHandshake,
                EdgeUpEof, EdgeDown, EdgeDownLost, EdgeDownEof, EdgeClose, vars, Types
  <2>4. UpReadable' => UpReadable
    BY <2>1, <2>3 DEF UpReadable
  <2> QED  BY <2>1, <2>2, <2>3, <2>4 DEF UpInv
<1> QED  BY <1>1, <1>2, <1>3, <1>4, <1>5, <1>6, <1>7 DEF Next, Pool, Edge

\* What the origin has received is the beginning of what the client sent: edge
\* frames, pool frames and the pieces of chunked_write lose, reorder and repeat
\* nothing (_c2p and _ws2tcp), whoever speaks first, wherever the tunnel ends and
\* whenever the client's reset takes what is unread, when nothing came together
\* with the CONNECT.  A client that sends it at once refutes it: what handle_client
\* has read after the head never enters the tunnel (ClientPipelines).
THEOREM UpwardsInOrder ==
    ASSUME ~ClientPipelines
    PROVE  Spec => []UpInOrder
<1>1. Types /\ UpInv => UpInOrder
  BY RunIsPrefix DEF Types, UpInv, UpInOrder
<1> QED  BY <1>1, InitTypes, StepTypes, InitUp, StepUp, PTL DEF Spec

-----------------------------------------------------------------------------
(* Towards the client *)

\* What the pool has read of the origin's stream.
DownRead == origin.sent - Len(fromOrigin)

\* The last byte before item i of a stream to a reader that has k bytes.
Before(s, k, i) == IF i = 1 THEN k ELSE s[i - 1].n

\* Item i begins a frame whose bytes, where they have arrived, follow those of the
\* frame before; the next frame comes right after them.
FrameAt(s, k, i) ==
    /\ s[i].kind = "frame" /\ s[i].n >= 1
    /\ i > 1 => s[i - 1].kind = "byte"
    /\ \A j \in 1 .. s[i].n : i + j <= Len(s) => s[i + j] = Byte(Before(s, k, i) + j)
    /\ i + s[i].n < Len(s) => s[i + s[i].n + 1].kind = "frame"

\* The stream is a sequence of frames, of which the last may be cut.
Framed(s, k, top) ==
    /\ s # <<>> => s[1].kind = "frame"
    /\ \A i \in 1 .. Len(s) :
          \/ s[i].kind = "frame" /\ FrameAt(s, k, i)
          \/ s[i].kind = "byte" /\ s[i].n <= top

\* It is not cut, and ends with byte top.
Complete(s, k, top) ==
    /\ \A i \in 1 .. Len(s) : s[i].kind = "frame" => i + s[i].n <= Len(s)
    /\ IF s = <<>> THEN k = top ELSE s[Len(s)] = Byte(top)

\* Until the edge has read the response head nothing is in the tunnel, because the
\* origin answers what it is sent and the edge forwards nothing yet.
Quiet ==
    /\ toPool = <<>> /\ unsent = <<>> /\ origin.got = <<>>
    /\ origin.sent = 0 /\ fromOrigin = <<>> /\ client.got = <<>>
    /\ toEdge \in {<<>>, <<Accepted>>, <<Rejected>>}
    /\ pool = "connecting" => toEdge = <<>>

DownRuns ==
    /\ DownRead \in Nat /\ Run(fromOrigin, DownRead)
    /\ Run(client.got, 0) /\ Len(client.got) <= DownRead

Delivering == edge.pc = "open" /\ edge.down /\ ~client.gone

DownStream ==
    Delivering =>
       /\ Framed(toEdge, Len(client.got), DownRead)
       /\ link = "up" /\ pool = "open" => Complete(toEdge, Len(client.got), DownRead)

DownInv ==
    /\ DownRuns
    /\ edge.pc = "handshake" => Quiet
    /\ edge.pc = "open" => pool # "connecting"
    /\ DownStream

LEMMA ItemFields ==
    ASSUME NEW s \in Seq(Items)
    PROVE  /\ Len(s) \in Nat
           /\ \A i \in 1 .. Len(s) : s[i] \in Items /\ s[i].n \in Nat
<1>1. Len(s) \in Nat /\ \A i \in 1 .. Len(s) : s[i] \in Items
  BY LenProperties, ElementOfSeq
<1>2. \A item \in Items : item.n \in Nat
  BY DEF Items
<1> QED  BY <1>1, <1>2

LEMMA ByteFields == \A n : Byte(n).kind = "byte" /\ Byte(n).n = n
BY DEF Byte

LEMMA HeaderFields == \A n : FrameHeader(n).kind = "frame" /\ FrameHeader(n).n = n
BY DEF FrameHeader

LEMMA FramedEmpty ==
    ASSUME NEW k \in Nat
    PROVE  Framed(<<>>, k, k) /\ Complete(<<>>, k, k)
BY EmptySeq DEF Framed, Complete

\* A stream that is cut is still framed.
LEMMA FramedCut ==
    ASSUME NEW s \in Seq(Items), NEW k, NEW top, Framed(s, k, top), NEW n \in 0 .. Len(s)
    PROVE  Framed(SubSeq(s, 1, n), k, top)
<1>0. PICK t : t = SubSeq(s, 1, n)
  OBVIOUS
<1>1. Len(s) \in Nat /\ \A i \in 1 .. Len(s) : s[i] \in Items /\ s[i].n \in Nat
  BY ItemFields
<1>2. Len(t) = n /\ t \in Seq(Items) /\ \A i \in 1 .. n : t[i] = s[i]
  BY <1>0, <1>1, SubSeqProperties
<1>3. t # <<>> => t[1].kind = "frame"
  <2>1. t # <<>> => n >= 1
    BY <1>2, Nonempty
  <2>2. n >= 1 => s # <<>> /\ t[1] = s[1]
    BY <1>1, <1>2, Nonempty
  <2> QED  BY <2>1, <2>2 DEF Framed
<1>4. ASSUME NEW i \in 1 .. n, FrameAt(s, k, i) PROVE FrameAt(t, k, i)
  <2>1. s[i].n \in Nat /\ t[i] = s[i] /\ (i > 1 => t[i - 1] = s[i - 1])
    BY <1>1, <1>2
  <2>2. Before(t, k, i) = Before(s, k, i)
    BY <2>1 DEF Before
  <2>3. \A j \in 1 .. s[i].n : i + j <= n => t[i + j] = Byte(Before(s, k, i) + j)
    BY <1>1, <1>2, <1>4, <2>1 DEF FrameAt
  <2>4. i + s[i].n < n => t[i + s[i].n + 1].kind = "frame"
    BY <1>1, <1>2, <1>4, <2>1 DEF FrameAt
  <2> QED  BY <1>2, <1>4, <2>1, <2>2, <2>3, <2>4 DEF FrameAt
<1>5. \A i \in 1 .. n : i \in 1 .. Len(s)
  BY <1>1
<1> QED  BY <1>0, <1>2, <1>3, <1>4, <1>5 DEF Framed

\* It may stay behind what has been read.
LEMMA FramedBehind ==
    ASSUME NEW s \in Seq(Items), NEW k, NEW top \in Nat, Framed(s, k, top),
           NEW later \in Nat, top <= later
    PROVE  Framed(s, k, later)
BY ItemFields DEF Framed

LEMMA LastFrame ==
    ASSUME NEW s, NEW k, NEW i, s[i].kind = "frame", s[i].n >= 1,
           i > 1 => s[i - 1].kind = "byte",
           \A j \in 1 .. s[i].n : s[i + j] = Byte(Before(s, k, i) + j),
           ~(i + s[i].n < Len(s))
    PROVE  FrameAt(s, k, i)
BY DEF FrameAt

\* A frame that is written to a complete stream continues it.
LEMMA FramedAppend ==
    ASSUME NEW s \in Seq(Items), NEW k \in Nat, NEW top \in Nat,
           Framed(s, k, top), Complete(s, k, top),
           NEW r, Run(r, top), NEW n \in 1 .. Len(r)
    PROVE  /\ Framed(s \o FrameOf(r, n), k, top + n)
           /\ Complete(s \o FrameOf(r, n), k, top + n)
<1>0. PICK t : t = s \o FrameOf(r, n)
  OBVIOUS
<1>l. PICK l : l = Len(s)
  OBVIOUS
<1>1. l = Len(s) /\ l \in Nat /\ \A i \in 1 .. l : s[i] \in Items /\ s[i].n \in Nat
  BY <1>l, ItemFields
<1>2. r \in Seq(Nat) /\ n \in Nat \ {0} /\ \A j \in 1 .. n : r[j] = top + j
  BY LenProperties DEF Run
<1>3. /\ t \in Seq(Items) /\ Len(t) = l + n + 1
      /\ \A i \in 1 .. l : t[i] = s[i]
      /\ t[l + 1] = FrameHeader(n)
      /\ \A j \in 1 .. n : t[l + 1 + j] = Byte(top + j)
  <2>1. PICK f : f = FrameOf(r, n)
    OBVIOUS
  <2>2. /\ f \in Seq(Items) /\ Len(f) = n + 1 /\ f[1] = FrameHeader(n)
        /\ \A j \in 1 .. n : f[j + 1] = Byte(top + j)
    BY <1>2, <2>1, FrameType
  <2>3. /\ t \in Seq(Items) /\ Len(t) = l + (n + 1)
        /\ \A i \in 1 .. l + (n + 1) : t[i] = IF i <= l THEN s[i] ELSE f[i - l]
    <3>1. /\ s \o f \in Seq(Items) /\ Len(s \o f) = Len(s) + Len(f)
          /\ \A i \in 1 .. Len(s) + Len(f) :
                (s \o f)[i] = IF i <= Len(s) THEN s[i] ELSE f[i - Len(s)]
      BY <2>2, ConcatProperties
    <3>2. t = s \o f /\ Len(s) = l /\ Len(f) = n + 1
      BY <1>0, <1>1, <2>1, <2>2
    <3> QED  BY <3>1, <3>2
  <2>4. \A i \in 1 .. l : t[i] = s[i]
    BY <1>1, <1>2, <2>3
  <2>5. t[l + 1] = FrameHeader(n)
    <3>1. l + 1 \in 1 .. l + (n + 1) /\ ~(l + 1 <= l) /\ (l + 1) - l = 1
      BY <1>1, <1>2
    <3> QED  BY <2>2, <2>3, <3>1
  <2>6. \A j \in 1 .. n : t[l + 1 + j] = Byte(top + j)
    <3> SUFFICES ASSUME NEW j \in 1 .. n PROVE t[l + 1 + j] = Byte(top + j)
      OBVIOUS
    <3>1. l + 1 + j \in 1 .. l + (n + 1) /\ ~(l + 1 + j <= l) /\ (l + 1 + j) - l = j + 1
      BY <1>1, <1>2
    <3> QED  BY <2>2, <2>3, <3>1
  <2> QED  BY <1>1, <1>2, <2>3, <2>4, <2>5, <2>6
<1>4. /\ t[l + 1].kind = "frame" /\ t[l + 1].n = n
      /\ \A j \in 1 .. n : t[l + 1 + j].kind = "byte" /\ t[l + 1 + j].n = top + j
  BY <1>3, ByteFields, HeaderFields
<1>5. l >= 1 => s[l] = Byte(top)
  BY <1>1, Nonempty DEF Complete
<1>6. l = 0 => k = top
  <2>1. l = 0 => s = <<>>
    BY <1>1, Nonempty, Zenon
  <2> QED  BY <2>1 DEF Complete
<1>7. ASSUME NEW i \in 1 .. l, s[i].kind = "frame" PROVE FrameAt(t, k, i)
  <2>1. FrameAt(s, k, i) /\ i + s[i].n <= l /\ s[i].n \in Nat
    BY <1>1, <1>7 DEF Framed, Complete
  <2>2. t[i] = s[i] /\ (i > 1 => t[i - 1] = s[i - 1])
    BY <1>1, <1>3, SMTT(30)
  <2>3. Before(t, k, i) = Before(s, k, i)
    BY <2>2 DEF Before
  <2>4. \A j \in 1 .. s[i].n : t[i + j] = Byte(Before(s, k, i) + j)
    <3> SUFFICES ASSUME NEW j \in 1 .. s[i].n PROVE t[i + j] = Byte(Before(s, k, i) + j)
      OBVIOUS
    <3>1. i + j \in 1 .. l
      BY <1>1, <2>1
    <3> QED  BY <1>1, <1>3, <2>1, <3>1 DEF FrameAt
  <2>5. t[i + s[i].n + 1].kind = "frame"
    <3>1. CASE i + s[i].n = l
      BY <1>4, <3>1
    <3>2. CASE i + s[i].n < l
      <4>1. i + s[i].n + 1 \in 1 .. l
        BY <1>1, <2>1, <3>2
      <4> QED  BY <1>1, <1>3, <2>1, <3>2, <4>1 DEF FrameAt
    <3> QED  BY <1>1, <2>1, <3>1, <3>2
  <2> QED  BY <2>1, <2>2, <2>3, <2>4, <2>5 DEF FrameAt
<1>8. FrameAt(t, k, l + 1)
  <2> SUFFICES ASSUME NEW i \in Nat, i = l + 1 PROVE FrameAt(t, k, i)
    BY <1>1
  <2>1. i > 1 => t[i - 1] = Byte(top)
    <3>1. i > 1 => i - 1 = l /\ l \in 1 .. l /\ l >= 1
      BY <1>1
    <3> QED  BY <1>3, <1>5, <3>1
  <2>2. Before(t, k, i) = top
    <3>1. CASE i = 1
      <4>1. l = 0
        BY <1>1, <3>1
      <4> QED  BY <1>6, <3>1, <4>1 DEF Before
    <3>2. CASE i # 1
      <4>1. i > 1
        BY <1>1, <3>2
      <4> QED  BY <2>1, <3>2, <4>1, ByteFields DEF Before
    <3> QED  BY <3>1, <3>2
  <2>3. t[i].n = n /\ t[i].kind = "frame"
    BY <1>4
  <2>4. \A j \in 1 .. n : t[i + j] = Byte(top + j)
    BY <1>3
  <2>5. ~(i + n < Len(t)) /\ n >= 1
    BY <1>1, <1>2, <1>3
  <2>6. i > 1 => t[i - 1].kind = "byte"
    BY <2>1, ByteFields
  <2> QED  BY <2>2, <2>3, <2>4, <2>5, <2>6, LastFrame
<1>9. ASSUME NEW i \in 1 .. Len(t)
      PROVE  \/ i \in 1 .. l
             \/ i = l + 1
             \/ i - (l + 1) \in 1 .. n /\ i = l + 1 + (i - (l + 1))
  BY <1>1, <1>2, <1>3, SMTT(30)
<1>10. t # <<>> /\ t[1].kind = "frame"
  <2>1. t # <<>>
    BY <1>1, <1>2, <1>3, Nonempty
  <2>2. CASE l = 0
    BY <1>4, <2>1, <2>2
  <2>3. CASE l >= 1
    <3>1. t[1] = s[1] /\ s # <<>>
      BY <1>1, <1>3, <2>3, Nonempty
    <3> QED  BY <2>1, <3>1 DEF Framed
  <2> QED  BY <1>1, <2>2, <2>3
<1>11. ASSUME NEW i \in 1 .. Len(t)
       PROVE  \/ t[i].kind = "frame" /\ FrameAt(t, k, i)
              \/ t[i].kind = "byte" /\ t[i].n <= top + n
  <2>1. CASE i \in 1 .. l
    <3>1. t[i] = s[i] /\ s[i].n \in Nat
      BY <1>1, <1>3, <2>1
    <3>2. s[i].kind = "frame" \/ (s[i].kind = "byte" /\ s[i].n <= top)
      BY <1>1, <2>1 DEF Framed
    <3> QED  BY <1>2, <1>7, <2>1, <3>1, <3>2, SMTT(30)
  <2>2. CASE i = l + 1
    BY <1>4, <1>8, <2>2
  <2>3. CASE i - (l + 1) \in 1 .. n /\ i = l + 1 + (i - (l + 1))
    <3>1. PICK j \in 1 .. n : i = l + 1 + j
      BY <2>3
    <3>2. t[i].kind = "byte" /\ t[i].n = top + j
      BY <1>4, <3>1
    <3> QED  BY <1>2, <3>2
  <2> QED  BY <1>9, <2>1, <2>2, <2>3
<1>12. ASSUME NEW i \in 1 .. Len(t), t[i].kind = "frame" PROVE i + t[i].n <= Len(t)
  <2>1. CASE i \in 1 .. l
    <3>1. t[i] = s[i] /\ s[i].n \in Nat
      BY <1>1, <1>3, <2>1
    <3>2. i + s[i].n <= l
      BY <1>1, <1>12, <2>1, <3>1 DEF Complete
    <3> QED  BY <1>1, <1>2, <1>3, <2>1, <3>1, <3>2, SMTT(30)
  <2>2. CASE i = l + 1
    BY <1>1, <1>2, <1>3, <1>4, <2>2
  <2>3. CASE i - (l + 1) \in 1 .. n /\ i = l + 1 + (i - (l + 1))
    <3>1. PICK j \in 1 .. n : i = l + 1 + j
      BY <2>3
    <3> QED  BY <1>4, <1>12, <3>1
  <2> QED  BY <1>9, <2>1, <2>2, <2>3
<1>13. t[Len(t)] = Byte(top + n)
  <2>1. n \in 1 .. n /\ Len(t) = l + 1 + n
    BY <1>1, <1>2, <1>3
  <2> QED  BY <1>3, <2>1
<1>14. Framed(t, k, top + n)
  BY <1>10, <1>11 DEF Framed
<1>15. Complete(t, k, top + n)
  BY <1>10, <1>12, <1>13 DEF Complete
<1> QED  BY <1>0, <1>14, <1>15

\* Positions in what is left of a stream of h + n + 1 items after a frame of n.
LEMMA Shift ==
    ASSUME NEW n \in Nat, NEW h \in Nat, NEW l \in Nat, l = h + (n + 1),
           NEW i \in 1 .. h, NEW m, m = (n + 1) + i
    PROVE  /\ i \in Nat /\ m \in Nat /\ m \in 1 .. l /\ m > 1
           /\ i > 1 => i - 1 \in 1 .. h /\ (n + 1) + (i - 1) = m - 1
           /\ \A w \in Nat :
                 /\ w >= 1 /\ i + w <= h =>
                       i + w \in 1 .. h /\ (n + 1) + (i + w) = m + w /\ m + w <= l
                 /\ m + w <= l => i + w <= h
                 /\ i + w < h => /\ i + w + 1 \in 1 .. h /\ m + w < l
                                /\ (n + 1) + (i + w + 1) = m + w + 1
OBVIOUS

\* The edge reads the first frame, and delivers the bytes that follow what the
\* client has.
LEMMA FramedRead ==
    ASSUME NEW s \in Seq(Items), s # <<>>, NEW k \in Nat, NEW top \in Nat,
           Framed(s, k, top), NEW n \in Nat, s[1].n = n, Len(s) > n
    PROVE  /\ k + n <= top
           /\ Run(Bytes(SubSeq(s, 2, n + 1)), k) /\ Len(Bytes(SubSeq(s, 2, n + 1))) = n
           /\ Framed(SubSeq(s, n + 2, Len(s)), k + n, top)
           /\ Complete(s, k, top) => Complete(SubSeq(s, n + 2, Len(s)), k + n, top)
<1>1. PICK l : l = Len(s)
  OBVIOUS
<1>2. /\ l = Len(s) /\ l \in Nat /\ 1 <= l /\ n \in Nat /\ n < l
      /\ \A i \in 1 .. l : s[i] \in Items /\ s[i].n \in Nat
  <2>1. Len(s) \in Nat /\ Len(s) >= 1
    BY Nonempty
  <2> QED  BY <1>1, <2>1, ItemFields
<1>3. FrameAt(s, k, 1) /\ s[1].kind = "frame"
  BY <1>2 DEF Framed
<1>4. n >= 1 /\ \A j \in 1 .. n : s[j + 1] = Byte(k + j)
  <2>1. n >= 1
    BY <1>3 DEF FrameAt
  <2>2. ASSUME NEW j \in 1 .. n PROVE s[j + 1] = Byte(k + j)
    <3>1. 1 + j <= Len(s) /\ 1 + j = j + 1 /\ j \in 1 .. s[1].n
      BY <1>2, <2>2
    <3>2. s[1 + j] = Byte(Before(s, k, 1) + j)
      BY <1>3, <3>1 DEF FrameAt
    <3>3. Before(s, k, 1) = k
      BY DEF Before
    <3> QED  BY <3>1, <3>2, <3>3
  <2> QED  BY <2>1, <2>2
<1>5. k + n <= top /\ s[n + 1] = Byte(k + n) /\ s[n + 1].n = k + n
  <2>1. n \in 1 .. n /\ n + 1 \in 1 .. l
    BY <1>2, <1>4
  <2>2. s[n + 1] = Byte(k + n)
    BY <1>4, <2>1
  <2>3. s[n + 1].kind = "byte" /\ s[n + 1].n = k + n
    BY <2>2, ByteFields
  <2>4. s[n + 1].n <= top
    BY <1>2, <2>1, <2>3 DEF Framed
  <2> QED  BY <2>2, <2>3, <2>4
<1>6. Run(Bytes(SubSeq(s, 2, n + 1)), k) /\ Len(Bytes(SubSeq(s, 2, n + 1))) = n
  <2>1. PICK b : b = Bytes(SubSeq(s, 2, n + 1))
    OBVIOUS
  <2>2. b \in Seq(Nat) /\ Len(b) = n /\ \A i \in 1 .. n : b[i] = s[i + 1].n
    BY <1>2, <2>1, BytesType
  <2>3. \A i \in 1 .. n : b[i] = k + i
    BY <1>4, <2>2, ByteFields
  <2> QED  BY <2>1, <2>2, <2>3 DEF Run
<1>7. PICK t : t = SubSeq(s, n + 2, Len(s))
  OBVIOUS
<1>8. PICK h : h = Len(t)
  OBVIOUS
<1>9. /\ t \in Seq(Items) /\ h = Len(t) /\ h \in Nat /\ l = h + (n + 1)
      /\ \A i \in 1 .. h : t[i] = s[(n + 1) + i]
  <2>1. n + 2 \in Int /\ l \in Int /\ \A i \in n + 2 .. l : s[i] \in Items
    BY <1>2
  <2>2. /\ SubSeq(s, n + 2, l) \in Seq(Items)
        /\ Len(SubSeq(s, n + 2, l)) = IF n + 2 <= l THEN l - (n + 2) + 1 ELSE 0
        /\ \A i \in 1 .. l - (n + 2) + 1 : SubSeq(s, n + 2, l)[i] = s[n + 2 + i - 1]
    BY <2>1, SubSeqProperties
  <2>3. t = SubSeq(s, n + 2, l)
    BY <1>2, <1>7
  <2>4. /\ (IF n + 2 <= l THEN l - (n + 2) + 1 ELSE 0) = l - (n + 1)
        /\ l - (n + 2) + 1 = l - (n + 1)
        /\ \A i \in 1 .. l - (n + 1) : n + 2 + i - 1 = (n + 1) + i
    BY <1>2
  <2>5. h = l - (n + 1) /\ h \in Nat /\ l = h + (n + 1)
    <3>1. h = l - (n + 1)
      BY <1>8, <2>2, <2>3, <2>4
    <3>2. l \in Nat /\ n < l
      BY <1>2
    <3> QED  BY <3>1, <3>2
  <2>6. \A i \in 1 .. h : t[i] = s[(n + 1) + i]
    BY <2>2, <2>3, <2>4, <2>5
  <2> QED  BY <1>8, <2>2, <2>3, <2>5, <2>6
<1>10. n \in Nat /\ l \in Nat /\ h \in Nat /\ l = h + (n + 1)
  BY <1>2, <1>9
<1>11. ASSUME NEW i \in 1 .. h, NEW m, m = (n + 1) + i
       PROVE  /\ i \in Nat /\ m \in Nat /\ m \in 1 .. l /\ m > 1 /\ t[i] = s[m] /\ s[m].n \in Nat
              /\ i > 1 => i - 1 \in 1 .. h /\ (n + 1) + (i - 1) = m - 1
  <2>1. /\ i \in Nat /\ m \in Nat /\ m \in 1 .. l /\ m > 1
        /\ i > 1 => i - 1 \in 1 .. h /\ (n + 1) + (i - 1) = m - 1
    BY <1>10, <1>11, Shift
  <2> QED  BY <1>2, <1>9, <1>11, <2>1
<1>12. ASSUME NEW i \in 1 .. h, t[i].kind = "frame" PROVE FrameAt(t, k + n, i)
  <2>1. PICK m : m = (n + 1) + i
    OBVIOUS
  <2>2. /\ i \in Nat /\ m \in Nat /\ m \in 1 .. l /\ m > 1 /\ t[i] = s[m] /\ s[m].n \in Nat
        /\ i > 1 => i - 1 \in 1 .. h /\ (n + 1) + (i - 1) = m - 1
    BY <1>11, <2>1, ZenonT(60)
  <2>3. FrameAt(s, k, m)
    BY <1>2, <1>12, <2>2 DEF Framed
  <2>4. i > 1 => t[i - 1] = s[m - 1]
    BY <1>9, <2>2
  <2>5. Before(t, k + n, i) = Before(s, k, m)
    <3>1. CASE i = 1
      <4>1. m - 1 = n + 1 /\ m # 1
        BY <1>10, <2>1, <3>1
      <4> QED  BY <1>5, <3>1, <4>1 DEF Before
    <3>2. CASE i # 1
      <4>1. i > 1 /\ m # 1
        BY <2>2, <3>2
      <4> QED  BY <2>4, <3>2, <4>1 DEF Before
    <3> QED  BY <3>1, <3>2
  <2>6. ASSUME NEW j \in 1 .. t[i].n, i + j <= h
        PROVE  t[i + j] = Byte(Before(t, k + n, i) + j)
    <3>1. j \in 1 .. s[m].n /\ j \in Nat
      BY <2>2
    <3>2. i + j \in 1 .. h /\ (n + 1) + (i + j) = m + j /\ m + j <= l
      <4>1. j >= 1 /\ i + j <= h
        BY <2>6, <3>1
      <4> QED  BY <1>10, <2>1, <3>1, <4>1, Shift
    <3>3. t[i + j] = s[m + j]
      BY <1>9, <3>2
    <3>4. s[m + j] = Byte(Before(s, k, m) + j)
      BY <1>2, <2>3, <3>1, <3>2 DEF FrameAt
    <3> QED  BY <2>5, <3>3, <3>4
  <2>7. ASSUME i + t[i].n < h PROVE t[i + t[i].n + 1].kind = "frame"
    <3>1. PICK w \in Nat : w = s[m].n /\ t[i].n = w
      BY <2>2
    <3>2. i + w + 1 \in 1 .. h /\ m + w < l /\ (n + 1) + (i + w + 1) = m + w + 1
      <4>1. i + w < h
        BY <2>7, <3>1
      <4> QED  BY <1>10, <2>1, <4>1, Shift
    <3>3. t[i + w + 1] = s[m + w + 1]
      BY <1>9, <3>2
    <3>4. s[m + w + 1].kind = "frame"
      BY <1>2, <2>3, <3>1, <3>2 DEF FrameAt
    <3> QED  BY <3>1, <3>3, <3>4
  <2>8. i > 1 => t[i - 1].kind = "byte"
    BY <2>2, <2>3, <2>4 DEF FrameAt
  <2>9. t[i].kind = "frame" /\ t[i].n >= 1
    BY <2>2, <2>3 DEF FrameAt
  <2> QED  BY <1>9, <2>6, <2>7, <2>8, <2>9 DEF FrameAt
<1>13. t # <<>> => t[1].kind = "frame"
  <2>1. t # <<>> => h >= 1
    BY <1>9, Nonempty
  <2>2. h >= 1 => 1 + n < l /\ 1 \in 1 .. h /\ (n + 1) + 1 = 1 + n + 1
    BY <1>10
  <2>3. h >= 1 => s[1 + n + 1].kind = "frame"
    BY <1>2, <1>3, <2>2 DEF FrameAt
  <2> QED  BY <1>9, <2>1, <2>2, <2>3
<1>14. Framed(t, k + n, top)
  <2>1. ASSUME NEW i \in 1 .. h
        PROVE  \/ t[i].kind = "frame" /\ FrameAt(t, k + n, i)
               \/ t[i].kind = "byte" /\ t[i].n <= top
    <3>1. PICK m : m = (n + 1) + i
      OBVIOUS
    <3>2. t[i] = s[m] /\ m \in 1 .. l
      BY <1>11, <3>1
    <3>3. s[m].kind = "frame" \/ (s[m].kind = "byte" /\ s[m].n <= top)
      BY <1>2, <3>2 DEF Framed
    <3> QED  BY <1>12, <3>2, <3>3
  <2> QED  BY <1>9, <1>13, <2>1 DEF Framed
<1>15. ASSUME Complete(s, k, top) PROVE Complete(t, k + n, top)
  <2>1. ASSUME NEW i \in 1 .. h, t[i].kind = "frame" PROVE i + t[i].n <= h
    <3>1. PICK m : m = (n + 1) + i
      OBVIOUS
    <3>2. /\ i \in Nat /\ m \in Nat /\ m \in 1 .. l /\ t[i] = s[m] /\ s[m].n \in Nat
      BY <1>11, <3>1
    <3>3. PICK w \in Nat : w = s[m].n /\ t[i].n = w
      BY <3>2
    <3>4. m + w <= l
      BY <1>2, <1>15, <2>1, <3>2, <3>3 DEF Complete
    <3>5. i + w <= h
      BY <1>10, <3>1, <3>4, Shift
    <3> QED  BY <3>3, <3>5
  <2>2. s[l] = Byte(top)
    BY <1>2, <1>15 DEF Complete
  <2>3. CASE h = 0
    <3>1. l = n + 1
      BY <1>10, <2>3
    <3>2. s[l].n = top /\ s[l].n = k + n
      BY <1>5, <2>2, <3>1, ByteFields
    <3>3. t = <<>>
      BY <1>9, <2>3, Nonempty, Zenon
    <3> QED  BY <1>9, <2>1, <3>2, <3>3 DEF Complete
  <2>4. CASE h # 0
    <3>1. h \in 1 .. h /\ (n + 1) + h = l /\ h >= 1
      BY <1>10, <2>4
    <3>2. t[h] = Byte(top)
      BY <1>9, <2>2, <3>1
    <3>3. t # <<>>
      BY <1>9, <3>1, Nonempty
    <3> QED  BY <1>9, <2>1, <3>2, <3>3 DEF Complete
  <2> QED  BY <2>3, <2>4
<1> QED  BY <1>2, <1>5, <1>6, <1>7, <1>14, <1>15


LEMMA InitDown == Init => DownInv
<1> SUFFICES ASSUME Init PROVE DownInv
  OBVIOUS
<1>1. Run(<<>>, 0)
  BY RunEmpty
<1>2. client.got = <<>>
  BY DEF Init
<1> QED  BY <1>1, <1>2 DEF Init, DownInv, DownRuns, DownRead, Quiet, DownStream, Delivering

\* The steps that leave the way down alone, or end it.
LEMMA OthersKeepDown ==
    ASSUME Types, DownInv,
           \/ ClientSend \/ ClientEof \/ ClientGone \/ ClientReset \/ OriginEof
           \/ PoolFrame \/ PoolPiece \/ PoolEnds \/ EdgeUp \/ EdgeUpEof \/ EdgeClose \/ UNCHANGED vars
    PROVE  DownInv'
<1>1. /\ UNCHANGED <<toEdge, fromOrigin, link, client.got, origin.sent>>
      /\ edge'.pc = "handshake" => edge.pc = "handshake"
      /\ edge'.pc = "open" => edge.pc = "open"
      /\ Delivering' => Delivering
      /\ pool' = "connecting" <=> pool = "connecting"
      /\ pool' = "open" => pool = "open"
  BY DEF ClientSend, ClientEof, ClientGone, ClientReset, OriginEof, PoolFrame, PoolPiece,
         PoolEnds, EdgeUp, EdgeUpEof, EdgeClose, vars, Delivering, Types, TypeOK
<1>2. edge.pc = "handshake" =>
         UNCHANGED <<toPool, origin.got>> /\ unsent' = <<>>
  BY DEF ClientSend, ClientEof, ClientGone, ClientReset, OriginEof, PoolFrame, PoolPiece,
         PoolEnds, EdgeUp, EdgeUpEof, EdgeClose, vars, Types, TypeOK, DownInv, Quiet
<1>3. DownRead' = DownRead
  BY <1>1 DEF DownRead
<1>4. DownRuns'
  BY <1>1, <1>3 DEF DownInv, DownRuns
<1>5. edge'.pc = "handshake" => Quiet'
  BY <1>1, <1>2 DEF DownInv, Quiet
<1>6. DownStream'
  BY <1>1, <1>3 DEF DownInv, DownStream
<1> QED  BY <1>1, <1>4, <1>5, <1>6 DEF DownInv

\* An origin that answers sends when the edge has long read the response head.
LEMMA OriginKeepsDown ==
    ASSUME ~ServerSpeaksFirst, Types, DownInv, OriginSend
    PROVE  DownInv'
<1>1. /\ fromOrigin' = Append(fromOrigin, origin.sent + 1) /\ origin'.sent = origin.sent + 1
      /\ UNCHANGED <<client, toEdge, edge, pool, link>> /\ origin.got # <<>>
  BY DEF OriginSend, Types
<1>2. /\ Len(fromOrigin) \in Nat /\ origin.sent \in Nat /\ DownRead \in Nat
      /\ origin.sent + 1 = DownRead + Len(fromOrigin) + 1
  BY LenProperties DEF Types, TypeOK, DownRead, DownInv, DownRuns
<1>3. Run(fromOrigin', DownRead) /\ Len(fromOrigin') = Len(fromOrigin) + 1
  BY <1>1, <1>2, RunAppend DEF DownInv, DownRuns
<1>4. DownRead' = DownRead
  BY <1>1, <1>2, <1>3 DEF DownRead
<1>5. edge.pc # "handshake"
  BY <1>1 DEF DownInv, Quiet
<1> QED  BY <1>1, <1>3, <1>4, <1>5 DEF DownInv, DownRuns, DownStream, Delivering

LEMMA CutKeepsDown ==
    ASSUME Types, DownInv, LinkCut
    PROVE  DownInv'
<1>1. PICK n \in 0 .. Len(toEdge) : toEdge' = SubSeq(toEdge, 1, n)
  BY DEF LinkCut
<1>2. /\ UNCHANGED <<client, origin, fromClient, fromOrigin, edge, pool, unsent>>
      /\ link' = "cut" /\ DownRead' = DownRead
      /\ \E m \in 0 .. Len(toPool) : toPool' = SubSeq(toPool, 1, m)
  BY DEF LinkCut, DownRead
<1>3. ASSUME edge.pc = "handshake" PROVE Quiet'
  <2>1. Quiet
    BY <1>3 DEF DownInv
  <2>2. toPool' = <<>>
    BY <1>2, <2>1, LenProperties DEF Quiet
  <2>3. toEdge = <<>> => toEdge' = <<>>
    BY <1>1
  <2>4. toEdge' \in {<<>>, toEdge}
    <3>1. CASE toEdge = <<>>
      BY <2>3, <3>1
    <3>2. CASE toEdge # <<>>
      <4>1. Len(toEdge) = 1 /\ toEdge \in Seq(Items)
        BY <2>1, <3>2 DEF Quiet, Types
      <4>2. n = 0 \/ n = 1
        BY <1>1, <4>1
      <4>3. n = 1 => toEdge' = toEdge
        BY <1>1, <4>1, SubSeqFull
      <4>4. n = 0 => toEdge' = <<>>
        BY <1>1
      <4> QED  BY <4>2, <4>3, <4>4
    <3> QED  BY <3>1, <3>2
  <2> QED  BY <1>2, <2>1, <2>2, <2>3, <2>4 DEF Quiet
<1>4. Delivering => Framed(toEdge', Len(client.got), DownRead)
  BY <1>1, FramedCut DEF DownInv, DownStream, Types
<1> QED  BY <1>2, <1>3, <1>4 DEF DownInv, DownRuns, DownStream, Delivering

LEMMA PoolKeepsDown ==
    ASSUME Types, DownInv, PoolDown
    PROVE  DownInv'
<1>1. PICK n \in 1 .. Len(fromOrigin) :
          /\ toEdge' = Written(toEdge, FrameOf(fromOrigin, n))
          /\ fromOrigin' = SubSeq(fromOrigin, n + 1, Len(fromOrigin))
  BY DEF PoolDown, FrameOf
<1>2. /\ n \in Nat /\ n \in 0 .. Len(fromOrigin) /\ Len(fromOrigin) >= 1
      /\ Len(fromOrigin) \in Nat /\ DownRead \in Nat /\ origin.sent \in Nat
      /\ Run(fromOrigin, DownRead) /\ Run(client.got, 0) /\ Len(client.got) \in Nat
      /\ Len(client.got) <= DownRead
  BY LenProperties DEF Types, DownInv, DownRuns, Run
<1>3. UNCHANGED <<client, origin, edge, pool, link>> /\ pool = "open"
  BY DEF PoolDown
<1>4. Run(fromOrigin', DownRead + n) /\ Len(fromOrigin') = Len(fromOrigin) - n
  <2>1. /\ Run(SubSeq(fromOrigin, n + 1, Len(fromOrigin)), DownRead + n)
        /\ Len(SubSeq(fromOrigin, n + 1, Len(fromOrigin))) = Len(fromOrigin) - n
    BY <1>2, RunSplit
  <2> QED  BY <1>1, <2>1
<1>5. DownRead' = DownRead + n
  BY <1>2, <1>3, <1>4 DEF DownRead
<1>6. edge.pc # "handshake"
  BY <1>2, EmptySeq DEF DownInv, Quiet
<1>7. ASSUME Delivering
      PROVE  /\ Framed(toEdge', Len(client.got), DownRead + n)
             /\ link = "up" => Complete(toEdge', Len(client.got), DownRead + n)
  <2>1. Framed(toEdge, Len(client.got), DownRead) /\ toEdge \in Seq(Items)
    BY <1>7 DEF DownInv, DownStream, Types
  <2>2. CASE link = "up"
    <3>1. Complete(toEdge, Len(client.got), DownRead)
      BY <1>3, <1>7, <2>2 DEF DownInv, DownStream
    <3>2. toEdge' = toEdge \o FrameOf(fromOrigin, n)
      BY <1>1, <2>2 DEF Written
    <3>3. /\ Framed(toEdge \o FrameOf(fromOrigin, n), Len(client.got), DownRead + n)
          /\ Complete(toEdge \o FrameOf(fromOrigin, n), Len(client.got), DownRead + n)
      BY <1>2, <2>1, <3>1, FramedAppend
    <3> QED  BY <3>2, <3>3
  <2>3. CASE link # "up"
    <3>1. toEdge' = toEdge
      BY <1>1, <2>3 DEF Written
    <3>2. DownRead + n \in Nat /\ DownRead <= DownRead + n
      BY <1>2
    <3>3. Framed(toEdge, Len(client.got), DownRead + n)
      BY <1>2, <2>1, <3>2, FramedBehind
    <3> QED  BY <2>3, <3>1, <3>3
  <2> QED  BY <2>2, <2>3
<1>8. DownRead + n \in Nat /\ Len(client.got) <= DownRead + n
  BY <1>2
<1>9. DownRuns'
  BY <1>2, <1>3, <1>4, <1>5, <1>8 DEF DownRuns
<1>10. DownStream'
  BY <1>3, <1>5, <1>7 DEF DownStream, Delivering
<1> QED  BY <1>3, <1>6, <1>9, <1>10 DEF DownInv

LEMMA ConnectKeepsDown ==
    ASSUME Types, DownInv, PoolConnect
    PROVE  DownInv'
<1>1. /\ UNCHANGED <<client, origin, fromClient, toPool, fromOrigin, edge, unsent, link>>
      /\ pool = "connecting" /\ pool' # "connecting" /\ DownRead' = DownRead
      /\ toEdge' \in {Written(<<>>, <<Accepted>>), Written(<<>>, <<Rejected>>)}
  BY DEF PoolConnect, DownRead
<1>2. toEdge' \in {<<>>, <<Accepted>>, <<Rejected>>}
  BY <1>1 DEF Written
<1>3. edge.pc # "open"
  BY <1>1 DEF DownInv
<1> QED  BY <1>1, <1>2, <1>3 DEF DownInv, DownRuns, DownStream, Delivering, Quiet

LEMMA HandshakeKeepsDown ==
    ASSUME Types, DownInv, EdgeHandshake
    PROVE  DownInv'
<1>1. /\ edge.pc = "handshake" /\ edge'.pc # "handshake" /\ DownRead' = DownRead
      /\ UNCHANGED <<client, origin, fromOrigin, pool, link>>
  BY DEF EdgeHandshake, EdgeGone, DownRead, Types, TypeOK
<1>2. Quiet
  BY <1>1 DEF DownInv
<1>3. ASSUME edge'.pc = "open" PROVE toEdge' = <<>> /\ pool # "connecting"
  <2>1. PICK n \in 1 .. Len(toEdge) : toEdge' = SubSeq(toEdge, n + 1, Len(toEdge))
    BY <1>3 DEF EdgeHandshake, EdgeGone
  <2>2. toEdge # <<>>
    BY <1>3 DEF EdgeHandshake, EdgeGone
  <2>3. Len(toEdge) = 1
    BY <1>2, <2>2 DEF Quiet
  <2>4. n = 1
    BY <2>3
  <2>5. toEdge' = <<>>
    BY <2>1, <2>3, <2>4
  <2> QED  BY <1>2, <2>2, <2>5 DEF Quiet
<1>4. DownRead = 0 /\ Len(client.got) = 0
  <2>1. origin.sent = 0 /\ fromOrigin = <<>> /\ client.got = <<>>
    BY <1>2 DEF Quiet
  <2>2. Len(fromOrigin) = 0
    BY <2>1, EmptySeq
  <2>3. Len(client.got) = 0
    BY <2>1, EmptySeq
  <2>4. origin.sent = 0
    BY <2>1
  <2> QED  BY <2>2, <2>3, <2>4 DEF DownRead
<1>5. Framed(<<>>, 0, 0) /\ Complete(<<>>, 0, 0)
  BY FramedEmpty
<1>6. DownRuns'
  BY <1>1 DEF DownInv, DownRuns
<1>7. DownStream'
  BY <1>1, <1>3, <1>4, <1>5 DEF DownStream, Delivering
<1> QED  BY <1>1, <1>3, <1>6, <1>7 DEF DownInv

LEMMA EdgeKeepsDown ==
    ASSUME Types, DownInv, EdgeDown
    PROVE  DownInv'
<1>1. /\ Delivering /\ toEdge # <<>> /\ toEdge \in Seq(Items) /\ edge.pc = "open"
      /\ UNCHANGED <<origin, fromOrigin, edge, pool, link>> /\ DownRead' = DownRead
  BY DEF EdgeDown, Delivering, Types, DownRead
<1>2. Framed(toEdge, Len(client.got), DownRead)
  BY <1>1 DEF DownInv, DownStream
<1>3. Head(toEdge) = toEdge[1] /\ toEdge[1].kind = "frame" /\ toEdge[1].n \in Nat
  <2>1. Len(toEdge) >= 1 /\ Len(toEdge) \in Nat
    BY <1>1, Nonempty
  <2>2. toEdge[1].n \in Nat
    BY <1>1, <2>1, ItemFields
  <2>3. toEdge[1].kind = "frame"
    BY <1>1, <1>2 DEF Framed
  <2> QED  BY <1>1, <2>2, <2>3, HeadTailProperties
<1>4. PICK n \in Nat : toEdge[1].n = n
  BY <1>3
<1>5. PICK bytes : bytes = Bytes(SubSeq(toEdge, 2, n + 1))
  OBVIOUS
<1>6. PICK k : k = Len(client.got)
  OBVIOUS
<1>7. /\ k \in Nat /\ k <= DownRead /\ DownRead \in Nat /\ Run(client.got, 0)
      /\ Framed(toEdge, k, DownRead) /\ Len(client.got) = k
      /\ link = "up" /\ pool = "open" => Complete(toEdge, k, DownRead)
  BY <1>1, <1>2, <1>6, LenProperties DEF DownInv, DownRuns, DownStream, Run
<1>8. /\ Len(toEdge) > n
      /\ client' = [client EXCEPT !.got = @ \o bytes]
      /\ toEdge' = SubSeq(toEdge, n + 2, Len(toEdge))
  BY <1>3, <1>4, <1>5 DEF EdgeDown
<1>9. client'.got = client.got \o bytes /\ client'.gone = client.gone
  BY <1>8 DEF Types
<1>10. /\ k + n <= DownRead /\ Run(bytes, k) /\ Len(bytes) = n
       /\ Framed(toEdge', k + n, DownRead)
       /\ Complete(toEdge, k, DownRead) => Complete(toEdge', k + n, DownRead)
  <2>1. /\ k + n <= DownRead
        /\ Run(Bytes(SubSeq(toEdge, 2, n + 1)), k)
        /\ Len(Bytes(SubSeq(toEdge, 2, n + 1))) = n
        /\ Framed(SubSeq(toEdge, n + 2, Len(toEdge)), k + n, DownRead)
        /\ Complete(toEdge, k, DownRead)
              => Complete(SubSeq(toEdge, n + 2, Len(toEdge)), k + n, DownRead)
    BY <1>1, <1>4, <1>7, <1>8, FramedRead
  <2> QED  BY <1>5, <1>8, <2>1
<1>11. Run(client'.got, 0) /\ Len(client'.got) = k + n
  <2>1. 0 \in Nat /\ Run(bytes, 0 + Len(client.got))
    BY <1>7, <1>10
  <2>2. /\ Run(client.got \o bytes, 0)
        /\ Len(client.got \o bytes) = Len(client.got) + Len(bytes)
    BY <1>7, <2>1, RunConcat
  <2> QED  BY <1>7, <1>9, <1>10, <2>2
<1>12. DownRuns'
  BY <1>1, <1>7, <1>10, <1>11 DEF DownInv, DownRuns
<1>13. DownStream'
  BY <1>1, <1>7, <1>10, <1>11 DEF DownStream
<1> QED  BY <1>1, <1>12, <1>13 DEF DownInv

LEMMA StepDown ==
    ASSUME ~ServerSpeaksFirst
    PROVE  Types /\ DownInv /\ [Next]_vars => DownInv'
<1> SUFFICES ASSUME Types, DownInv, [Next]_vars
             PROVE  DownInv'
  OBVIOUS
<1>1. CASE EdgeDownLost \/ EdgeDownEof
  <2>1. /\ ~Delivering' /\ edge.pc = "open" /\ edge'.pc = "open"
        /\ UNCHANGED <<client, origin, fromOrigin, pool>> /\ DownRead' = DownRead
    BY <1>1 DEF EdgeDownLost, EdgeDownEof, Delivering, DownRead, Types, TypeOK
  <2> QED  BY <2>1 DEF DownInv, DownRuns, DownStream
<1>2. CASE \/ ClientSend \/ ClientEof \/ ClientGone \/ ClientReset \/ OriginEof
           \/ PoolFrame \/ PoolPiece \/ PoolEnds \/ EdgeUp \/ EdgeUpEof \/ EdgeClose \/ UNCHANGED vars
  BY <1>2, OthersKeepDown
<1> QED  BY <1>1, <1>2, OriginKeepsDown, CutKeepsDown, PoolKeepsDown, ConnectKeepsDown,
            HandshakeKeepsDown, EdgeKeepsDown DEF Next, Pool, Edge

\* What the client has received is the beginning of what the origin sent, through
\* pool frames that are read across any cut of the stream (_tcp2ws and _p2c), when
\* the origin answers what it is sent.  A server that speaks first refutes it: its
\* first frame is read with the response head and lost (run relay_server_first).
THEOREM DownwardsInOrder ==
    ASSUME ~ServerSpeaksFirst
    PROVE  Spec => []DownInOrder
<1>1. Types /\ DownInv => DownInOrder
  <2> SUFFICES ASSUME Types, DownInv PROVE DownInOrder
    OBVIOUS
  <2>1. /\ Run(client.got, 0) /\ Len(client.got) \in Nat /\ Len(client.got) <= DownRead
        /\ origin.sent \in Nat /\ Len(fromOrigin) \in Nat
    BY LenProperties DEF Types, DownInv, DownRuns, Run
  <2>2. Len(client.got) <= origin.sent
    BY <2>1 DEF DownRead
  <2> QED  BY <2>1, <2>2, RunIsPrefix DEF DownInOrder
<1> QED  BY <1>1, InitTypes, StepTypes, InitDown, StepDown, PTL DEF Spec

-----------------------------------------------------------------------------
(* The frames of the tunnel as bytes (WsCodec): what encode_frame writes *)

Elements == Int \cup BitSets
Streams == Seq(Elements)
\* Numbers of eight bytes.
Lengths == {n \in Nat : ((n \div 65536) \div 65536) \div 65536 < 65536}

-----------------------------------------------------------------------------
(* Numbers *)

LEMMA Digits == ASSUME NEW n \in Nat
                PROVE  /\ n \div 65536 \in Nat
                       /\ High(n) \in Octets /\ Low(n) \in Octets
                       /\ n = 65536 * (n \div 65536) + 256 * High(n) + Low(n)
<1>1. /\ n = 256 * (n \div 256) + (n % 256) /\ n % 256 \in 0 .. 255
      /\ n \div 256 \in Nat /\ n \div 65536 \in Nat
  BY SMT
<1>2. /\ n \div 256 = 256 * ((n \div 256) \div 256) + ((n \div 256) % 256)
      /\ (n \div 256) % 256 \in 0 .. 255
  BY <1>1, SMT
<1>3. n \div 65536 = (n \div 256) \div 256
  BY SMT
<1> QED  BY <1>1, <1>2, <1>3, SMT DEF Octets, High, Low

LEMMA OctetTypes == \A b \in Octets : b \in Int /\ b \in Elements
BY DEF Octets, Elements

LEMMA TwoDigits == ASSUME NEW n \in Nat, n < 65536
                   PROVE  /\ High(n) \in Octets /\ Low(n) \in Octets
                          /\ n = 256 * High(n) + Low(n)
<1>1. n \div 65536 = 0
  BY SMT
<1>2. /\ High(n) \in Octets /\ Low(n) \in Octets
      /\ n = 65536 * (n \div 65536) + 256 * High(n) + Low(n)
  BY Digits
<1> QED  BY <1>1, <1>2 DEF Octets

LEMMA ShortRoundTrip == ASSUME NEW n \in Nat, n < 65536
                        PROVE  /\ Short(n) \in Seq(Elements) /\ Len(Short(n)) = 2
                               /\ ShortValue(Short(n)) = n
<1>1. /\ High(n) \in Octets /\ Low(n) \in Octets
      /\ n = 256 * High(n) + Low(n)
  BY TwoDigits
<1>2. High(n) \in Elements /\ Low(n) \in Elements
  BY <1>1, OctetTypes
<1>3. Short(n) \in Seq(Elements) /\ Len(Short(n)) = 2
  BY <1>2 DEF Short
<1>4. ShortValue(Short(n)) = 256 * High(n) + Low(n)
  BY DEF Short, ShortValue
<1> QED  BY <1>1, <1>3, <1>4

\* Eight bytes are four numbers of two bytes.
LEMMA LongRoundTrip == ASSUME NEW n \in Lengths
                       PROVE  /\ Long(n) \in Seq(Elements) /\ Len(Long(n)) = 8
                              /\ LongValue(Long(n)) = n
<1> DEFINE l == n \div 65536  m == l \div 65536  k == m \div 65536
<1>1. n \in Nat
  BY DEF Lengths
<1>2. /\ l \in Nat /\ High(n) \in Octets /\ Low(n) \in Octets
      /\ n = 65536 * l + 256 * High(n) + Low(n)
  BY <1>1, Digits
<1> HIDE DEF l
<1>3. /\ m \in Nat /\ High(l) \in Octets /\ Low(l) \in Octets
      /\ l = 65536 * m + 256 * High(l) + Low(l)
  BY <1>2, Digits
<1> HIDE DEF m
<1>4. /\ k \in Nat /\ High(m) \in Octets /\ Low(m) \in Octets
      /\ m = 65536 * k + 256 * High(m) + Low(m)
  BY <1>3, Digits
<1> HIDE DEF k
<1>5. k \in Nat /\ k < 65536
  BY <1>4 DEF Lengths, l, m, k
<1>6. k = 256 * High(k) + Low(k) /\ High(k) \in Octets /\ Low(k) \in Octets
  BY <1>5, TwoDigits
<1>7. Long(n) = <<High(k), Low(k), High(m), Low(m), High(l), Low(l), High(n), Low(n)>>
  BY DEF Long, l, m, k
<1>8. LongValue(Long(n)) = n
  <2>1. LongValue(Long(n)) =
           65536 * (65536 * (65536 * (256 * High(k) + Low(k)) + 256 * High(m) + Low(m)))
           + (65536 * (256 * High(l) + Low(l)) + 256 * High(n) + Low(n))
    BY <1>7 DEF LongValue
  <2>2. /\ High(k) \in Int /\ High(m) \in Int /\ High(l) \in Int /\ High(n) \in Int
        /\ Low(k) \in Int /\ Low(m) \in Int /\ Low(l) \in Int /\ Low(n) \in Int
    BY <1>2, <1>3, <1>4, <1>6, OctetTypes
  <2>3. LongValue(Long(n)) =
           65536 * (65536 * m) + (65536 * (256 * High(l) + Low(l)) + 256 * High(n) + Low(n))
    BY <1>4, <1>6, <2>1, <2>2
  <2>4. LongValue(Long(n)) = 65536 * l + 256 * High(n) + Low(n)
    BY <1>3, <2>2, <2>3
  <2> QED  BY <1>2, <2>4
<1>9. Long(n) \in Seq(Elements) /\ Len(Long(n)) = 8
  <2>1. /\ High(k) \in Elements /\ High(m) \in Elements /\ High(l) \in Elements
        /\ High(n) \in Elements /\ Low(k) \in Elements /\ Low(m) \in Elements
        /\ Low(l) \in Elements /\ Low(n) \in Elements
    BY <1>2, <1>3, <1>4, <1>6, OctetTypes
  <2> QED  BY <1>7, <2>1
<1> QED  BY <1>8, <1>9

-----------------------------------------------------------------------------
(* Streams *)

\* readexactly takes what was written, and leaves the rest.
LEMMA ReadExactly ==
    ASSUME NEW a \in Streams, NEW b \in Streams, NEW n, n = Len(a)
    PROVE  First(a \o b, n) = a /\ After(a \o b, n) = b
<1> DEFINE s == a \o b
<1>1. /\ s \in Seq(Elements) /\ Len(s) = n + Len(b) /\ n \in Nat /\ Len(b) \in Nat
      /\ \A i \in 1 .. Len(s) : s[i] = IF i <= n THEN a[i] ELSE b[i - n]
      /\ \A i \in 1 .. Len(s) : s[i] \in Elements
  BY ConcatProperties, ElementOfSeq, LenProperties DEF Streams
<1> HIDE DEF s
<1>2. First(s, n) = a
  <2>1. /\ First(s, n) \in Seq(Elements) /\ Len(First(s, n)) = n
        /\ \A i \in 1 .. n : First(s, n)[i] = s[i]
    BY <1>1, SubSeqProperties DEF First
  <2> QED  BY <1>1, <2>1, SeqEqual DEF Streams
<1>3. After(s, n) = b
  <2>1. /\ After(s, n) \in Seq(Elements) /\ Len(After(s, n)) = Len(b)
        /\ \A i \in 1 .. Len(b) : After(s, n)[i] = s[n + i]
    BY <1>1, SubSeqProperties DEF After
  <2>2. \A i \in 1 .. Len(b) : s[n + i] = b[i]
    BY <1>1
  <2> QED  BY <1>1, <2>1, <2>2, SeqEqual DEF Streams
<1> QED  BY <1>2, <1>3 DEF s

\* The four parts of a frame, and what follows it, are read from the left.
Regrouped(a, b, c, d, e) ==
    (a \o b \o c \o d) \o e = a \o (b \o (c \o (d \o e)))

\* Concatenation may be read from the left or from the right.
LEMMA Regroup ==
    ASSUME NEW a \in Streams, NEW b \in Streams, NEW c \in Streams, NEW d \in Streams,
           NEW e \in Streams
    PROVE  Regrouped(a, b, c, d, e)
BY ConcatAssociative, ConcatProperties, SMTT(60) DEF Streams, Regrouped

\* The first elements of a stream are those of what it begins with.
LEMMA BeginsWith ==
    ASSUME NEW a \in Streams, NEW b \in Streams, NEW i \in 1 .. Len(a)
    PROVE  (a \o b)[i] = a[i]
BY SMT DEF Streams

\* A mask undoes itself.
LEMMA MaskTwice ==
    ASSUME NEW p \in Seq(BitSets), NEW key \in Seq(BitSets), Len(key) = 4
    PROVE  /\ Masked(p, key) \in Seq(BitSets) /\ Len(Masked(p, key)) = Len(p)
           /\ Masked(Masked(p, key), key) = p
<1>1. \A i \in 1 .. Len(p) : p[i] \in BitSets /\ key[1 + ((i - 1) % 4)] \in BitSets
  <2> SUFFICES ASSUME NEW i \in 1 .. Len(p)
               PROVE  p[i] \in BitSets /\ key[1 + ((i - 1) % 4)] \in BitSets
    OBVIOUS
  <2>1. 1 + ((i - 1) % 4) \in 1 .. Len(key)
    BY LenProperties, SMT
  <2> QED  BY <2>1, ElementOfSeq
<1>2. \A a, b \in BitSets : Xor(a, b) \in BitSets /\ Xor(Xor(a, b), b) = a
  BY Zenon DEF Xor, BitSets
<1>3. DOMAIN p = 1 .. Len(p) /\ Len(p) \in Nat
  BY LenProperties
<1>4. /\ Masked(p, key) \in Seq(BitSets) /\ Len(Masked(p, key)) = Len(p)
      /\ \A i \in 1 .. Len(p) : Masked(p, key)[i] = Xor(p[i], key[1 + ((i - 1) % 4)])
  BY <1>1, <1>2, <1>3, IsASeq DEF Masked
<1>5. /\ Masked(Masked(p, key), key) \in Seq(BitSets)
      /\ Len(Masked(Masked(p, key), key)) = Len(p)
      /\ \A i \in 1 .. Len(p) : Masked(Masked(p, key), key)[i] = p[i]
  <2> DEFINE q == Masked(p, key)
  <2>1. DOMAIN q = 1 .. Len(p)
    BY <1>3 DEF Masked
  <2>2. Masked(q, key) = [i \in 1 .. Len(p) |-> p[i]]
    BY <1>1, <1>2, <1>4, <2>1 DEF Masked
  <2> QED  BY <1>1, <1>3, <2>2, IsASeq
<1> QED  BY <1>4, <1>5, SeqEqual

-----------------------------------------------------------------------------
(* Frames *)

\* The field after the first two bytes: its width follows from the code.
LEMMA ExtensionFits ==
    ASSUME NEW n \in Lengths
    PROVE  /\ Extension(n) \in Seq(Elements)
           /\ Code(n) \in 0 .. 127
           /\ Len(Extension(n)) = IF Code(n) = 126 THEN 2 ELSE IF Code(n) = 127 THEN 8 ELSE 0
           /\ Code(n) = 126 => ShortValue(Extension(n)) = n
           /\ Code(n) = 127 => LongValue(Extension(n)) = n
           /\ Code(n) # 126 /\ Code(n) # 127 => Code(n) = n
<1>1. n \in Nat
  BY DEF Lengths
<1>2. CASE n < 126
  BY <1>1, <1>2 DEF Extension, Code
<1>3. CASE n >= 126 /\ n < 65536
  <2>1. Code(n) = 126 /\ Extension(n) = Short(n)
    BY <1>1, <1>3 DEF Extension, Code
  <2> QED  BY <1>1, <1>3, <2>1, ShortRoundTrip
<1>4. CASE n >= 65536
  <2>1. Code(n) = 127 /\ Extension(n) = Long(n)
    BY <1>1, <1>4 DEF Extension, Code
  <2> QED  BY <2>1, LongRoundTrip
<1> QED  BY <1>1, <1>2, <1>3, <1>4

\* What read_frame makes of the two bytes of the header.
LEMMA HeaderFits ==
    ASSUME NEW opcode \in 0 .. 15, NEW code \in 0 .. 127
    PROVE  /\ (128 + opcode) % 16 = opcode
           /\ ~(0 + code >= 128) /\ (0 + code) % 128 = code
           /\ 128 + code >= 128 /\ (128 + code) % 128 = code
BY SMT

\* A frame of encode_frame, masked or not and of any length, is read back by
\* read_frame as it was (as None if it is a close), whatever follows it in the
\* stream, and what follows stays there: neither end ever loses the boundary
\* between two frames.
THEOREM FrameRoundTrip ==
    ASSUME NEW payload \in Seq(BitSets), Len(payload) \in Lengths,
           NEW opcode \in 0 .. 15,
           NEW key \in Seq(BitSets), key = <<>> \/ Len(key) = 4,
           NEW rest \in Streams
    PROVE  ReadFrame(EncodeFrame(opcode, payload, key) \o rest)
               = [end |-> opcode = Close, opcode |-> opcode,
                  payload |-> payload, rest |-> rest]
<1> DEFINE n == Len(payload)
           c == Code(n)
           e == Extension(n)
           header == <<128 + opcode, (IF key = <<>> THEN 0 ELSE 128) + c>>
           sent == IF key = <<>> THEN payload ELSE Masked(payload, key)
           r3 == sent \o rest
           r2 == key \o r3
           r1 == e \o r2
           s == EncodeFrame(opcode, payload, key) \o rest
<1>1. /\ e \in Streams
      /\ c \in 0 .. 127
      /\ Len(e) = IF c = 126 THEN 2 ELSE IF c = 127 THEN 8 ELSE 0
      /\ c = 126 => ShortValue(e) = n
      /\ c = 127 => LongValue(e) = n
      /\ c # 126 /\ c # 127 => c = n
  BY ExtensionFits DEF Streams
<1>2. s = (header \o e \o key \o sent) \o rest
  BY DEF EncodeFrame
<1>3. key \in Streams /\ sent \in Streams /\ Len(sent) = n
  <2>1. sent \in Seq(BitSets) /\ Len(sent) = n
    BY MaskTwice
  <2>2. Seq(BitSets) \subseteq Seq(Elements)
    BY DEF Elements
  <2> QED  BY <2>1, <2>2 DEF Streams
<1>4. (IF key # <<>> THEN Masked(sent, key) ELSE sent) = payload
  BY MaskTwice
<1>5. Len(key) = IF key # <<>> THEN 4 ELSE 0
  OBVIOUS
<1> HIDE DEF n, c, e, sent
<1>6. /\ header \in Streams /\ Len(header) = 2
      /\ header[1] = 128 + opcode /\ header[2] = (IF key = <<>> THEN 0 ELSE 128) + c
  BY <1>1 DEF Elements, Streams
<1> HIDE DEF header, s
<1>7. r3 \in Streams
  BY <1>3, ConcatProperties DEF Streams
<1> HIDE DEF r3
<1>8. r2 \in Streams
  BY <1>3, <1>7, ConcatProperties DEF Streams
<1> HIDE DEF r2
<1>9. r1 \in Streams
  BY <1>1, <1>8, ConcatProperties DEF Streams
<1>10. s = header \o r1
  <2>1. header \in Streams /\ e \in Streams /\ key \in Streams /\ sent \in Streams
    BY <1>1, <1>3, <1>6
  <2>2. Regrouped(header, e, key, sent, rest)
    BY <2>1, Regroup
  <2> QED  BY <1>2, <2>2 DEF Regrouped, r3, r2, r1
<1> HIDE DEF r1
<1>11. s[1] = header[1] /\ s[2] = header[2] /\ After(s, 2) = r1
  <2>1. After(header \o r1, 2) = r1
    BY <1>6, <1>9, ReadExactly
  <2>2. 1 \in 1 .. Len(header) /\ 2 \in 1 .. Len(header)
    BY <1>6
  <2>3. (header \o r1)[1] = header[1]
    BY <1>6, <1>9, <2>2, BeginsWith
  <2>4. (header \o r1)[2] = header[2]
    BY <1>6, <1>9, <2>2, BeginsWith
  <2> QED  BY <1>10, <2>1, <2>3, <2>4
<1>12. s[1] % 16 = opcode /\ s[2] % 128 = c /\ (s[2] >= 128) = (key # <<>>)
  <2>1. /\ (128 + opcode) % 16 = opcode
        /\ ~(0 + c >= 128) /\ (0 + c) % 128 = c
        /\ 128 + c >= 128 /\ (128 + c) % 128 = c
    BY <1>1, HeaderFits
  <2>2. CASE key = <<>>
    <3>1. s[1] = 128 + opcode /\ s[2] = 0 + c
      BY <1>6, <1>11, <2>2
    <3> QED  BY <2>1, <2>2, <3>1
  <2>3. CASE key # <<>>
    <3>1. s[1] = 128 + opcode /\ s[2] = 128 + c
      BY <1>6, <1>11, <2>3
    <3> QED  BY <2>1, <2>3, <3>1
  <2> QED  BY <2>2, <2>3
<1>13. /\ First(r1, Len(e)) = e /\ After(r1, Len(e)) = r2
       /\ First(r2, Len(key)) = key /\ After(r2, Len(key)) = r3
       /\ First(r3, n) = sent /\ After(r3, n) = rest
  <2>1. First(r3, n) = sent /\ After(r3, n) = rest
    BY <1>3, ReadExactly DEF r3
  <2>2. First(r2, Len(key)) = key /\ After(r2, Len(key)) = r3
    BY <1>3, <1>7, ReadExactly DEF r2
  <2>3. First(r1, Len(e)) = e /\ After(r1, Len(e)) = r2
    BY <1>1, <1>8, ReadExactly DEF r1
  <2> QED  BY <2>1, <2>2, <2>3
<1>14. (IF c = 126 THEN ShortValue(First(r1, 2))
        ELSE IF c = 127 THEN LongValue(First(r1, 8)) ELSE c) = n
  BY <1>1, <1>13
<1>15. After(r1, IF c = 126 THEN 2 ELSE IF c = 127 THEN 8 ELSE 0) = r2
  BY <1>1, <1>13
<1>16. ReadFrame(s) = [end |-> opcode = Close, opcode |-> opcode,
                  payload |-> payload, rest |-> rest]
  <2>1. ReadFrame(s) = [end |-> s[1] % 16 = Close, opcode |-> s[1] % 16,
                        payload |-> IF key # <<>> THEN Masked(sent, key) ELSE sent,
                        rest |-> rest]
    BY <1>5, <1>11, <1>12, <1>13, <1>14, <1>15 DEF ReadFrame
  <2> QED  BY <1>4, <1>12, <2>1
<1> QED  BY <1>16 DEF s
=============================================================================
