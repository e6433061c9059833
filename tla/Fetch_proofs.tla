---------------------------- MODULE Fetch_proofs -----------------------------
(***************************************************************************)
(* One request through both programs: the slices of the request meet, an   *)
(* answer of the pool that arrives whole is understood wherever the reads  *)
(* of read_full cut it, and what the client gets as the answer is what the *)
(* origin sent, or a beginning of it where no framing can tell.            *)
(***************************************************************************)
EXTENDS Fetch, SequenceTheorems, FunctionTheorems, FiniteSetTheorems, WellFoundedInduction,
        TLAPS

-----------------------------------------------------------------------------
(* The first element of a kind *)

LEMMA NatLess == IsWellFoundedOn({ss \in Nat \X Nat : ss[1] < ss[2]}, Nat)
BY NatLessThanWellFounded DEF OpToRel

LEMMA LeastNat ==
    ASSUME NEW S, S \subseteq Nat, S # {}
    PROVE  Min(S) \in S /\ \A y \in S : Min(S) <= y
<1>1. PICK R : R = {ss \in Nat \X Nat : ss[1] < ss[2]}
  OBVIOUS
<1>2. IsWellFoundedOn(R, Nat)
  BY <1>1, NatLess
<1>3. PICK x \in S : \A y \in S : ~ (<<y, x>> \in R)
  BY <1>2, WFMin
<1>4. \A y \in S : ~ (y < x)
  BY <1>1, <1>3
<1>5. \A y \in S : x =< y
  BY <1>4
<1> QED  BY <1>5 DEF Min

LEMMA FindFirst ==
    ASSUME NEW S, NEW items \in Seq(S), NEW kind, Has(items, kind)
    PROVE  /\ Find(items, kind) \in 1 .. Len(items)
           /\ items[Find(items, kind)].kind = kind
           /\ \A i \in 1 .. Len(items) : items[i].kind = kind => Find(items, kind) <= i
<1>1. PICK I : I = {i \in 1 .. Len(items) : items[i].kind = kind}
  OBVIOUS
<1>2. Len(items) \in Nat /\ DOMAIN items = 1 .. Len(items)
  BY LenProperties
<1>3. I # {} /\ I \subseteq Nat
  BY <1>1, <1>2 DEF Has
<1>4. Find(items, kind) = Min(I)
  BY <1>1, <1>3 DEF Find, SelectInSeq
<1>5. Min(I) \in I /\ \A y \in I : Min(I) <= y
  BY <1>3, LeastNat
<1> QED  BY <1>1, <1>4, <1>5

LEMMA FindNone ==
    ASSUME NEW S, NEW items \in Seq(S), NEW kind, ~Has(items, kind)
    PROVE  Find(items, kind) = 0
<1>1. PICK I : I = {i \in 1 .. Len(items) : items[i].kind = kind}
  OBVIOUS
<1>2. Len(items) \in Nat /\ DOMAIN items = 1 .. Len(items)
  BY LenProperties
<1>3. I = {}
  BY <1>1, <1>2 DEF Has
<1> QED  BY <1>1, <1>3 DEF Find, SelectInSeq

-----------------------------------------------------------------------------
(* Slices *)

LEMMA Slice ==
    ASSUME NEW S, NEW s \in Seq(S), NEW m \in Nat \ {0}, NEW n \in Int, n <= Len(s)
    PROVE  SubSeq(s, m, n) \in Seq(S)
<1>1. Len(s) \in Nat /\ \A i \in m .. n : s[i] \in S
  BY LenProperties, ElementOfSeq
<1> QED  BY <1>1, SubSeqProperties

LEMMA FromType ==
    ASSUME NEW S, NEW s \in Seq(S), NEW m \in Nat \ {0}
    PROVE  From(s, m) \in Seq(S)
<1>1. Len(s) \in Int /\ Len(s) <= Len(s)
  BY LenProperties
<1> QED  BY <1>1, Slice DEF From

LEMMA TakeType ==
    ASSUME NEW S, NEW s \in Seq(S), NEW n \in Nat
    PROVE  Take(s, n) \in Seq(S)
<1>1. Len(s) \in Nat
  BY LenProperties
<1> QED  BY <1>1, Slice DEF Take

-----------------------------------------------------------------------------
(* Types *)

Kinds == {"start", "length", "chunked", "close", "blank", "byte", "size", "crlf"}
Tokens == [kind : Kinds, n : Nat]
\* What the pool's answers to the edge are made of.
Pieces == [kind : Kinds, n : 0 .. JsonLength]

Types ==
    /\ TypeOK
    /\ request \in [method : Methods, target : {"url", "path"}, body : 0 .. MaxUp]
    /\ client \in [at : {"waiting", "closed", "failed", "raw", "ok"}, retry : BOOLEAN,
                   framing : Framings, body : {client.body}]
    /\ edge \in [pc : {"reading", "head", "size", "data", "exact", "tail", "judge", "done"},
                 framing : Framings, need : 0 .. JsonLength,
                 buf : Seq(Pieces), body : Seq(Pieces)]
    /\ up \in [at : {"none", "sent"}, method : {up.method}]
    /\ down \in [items : Seq(Pieces), end : {"open", "fin", "reset", "silent"}]
    /\ pool \in [pc : {"idle", "hold", "dial", "send", "receive", "done"},
                 unsent : Seq(Tokens), said : {pool.said}]
    /\ origin \in [method : {origin.method}, got : Seq(Tokens), sends : 0 .. MaxDown,
                   items : {origin.items}, end : {"open", "fin", "reset"}]

LEMMA TokenTypes ==
    ASSUME NEW kind \in Kinds, NEW n \in 0 .. JsonLength
    PROVE  Token(kind, n) \in Pieces
BY DEF Token, Pieces

LEMMA BytesType ==
    ASSUME NEW a \in Nat \ {0}, NEW b \in Nat, a <= b + 1
    PROVE  /\ Bytes(a, b) \in Seq(Tokens) /\ Len(Bytes(a, b)) = b - a + 1
           /\ \A i \in 1 .. b - a + 1 : Bytes(a, b)[i] = Token("byte", a + i - 1)
           /\ b <= JsonLength => Bytes(a, b) \in Seq(Pieces)
<1>1. PICK n \in Nat : n = b - a + 1
  OBVIOUS
<1>2. PICK t : t = Bytes(a, b)
  OBVIOUS
<1>3. t = [i \in 1 .. n |-> Token("byte", a + i - 1)]
  BY <1>1, <1>2 DEF Bytes
<1>4. \A i \in 1 .. n : Token("byte", a + i - 1) \in Tokens
  BY DEF Token, Tokens, Kinds
<1>5. ASSUME b <= JsonLength, NEW i \in 1 .. n PROVE Token("byte", a + i - 1) \in Pieces
  <2>1. a + i - 1 \in 0 .. JsonLength
    BY <1>1, <1>5, FetchAssumption
  <2> QED  BY <2>1 DEF Token, Pieces, Kinds
<1>6. /\ t \in Seq(Tokens) /\ Len(t) = n
      /\ \A i \in 1 .. n : t[i] = Token("byte", a + i - 1)
  BY <1>3, <1>4
<1>7. b <= JsonLength => t \in Seq(Pieces)
  BY <1>3, <1>5
<1> QED  BY <1>1, <1>2, <1>6, <1>7

LEMMA Singles ==
    /\ Start \in Pieces /\ Blank \in Pieces /\ Crlf \in Pieces
    /\ <<Crlf>> \in Seq(Pieces) /\ LastChunk \in Seq(Pieces) /\ <<>> \in Seq(Pieces)
    /\ \A n \in 0 .. JsonLength : <<Token("size", n), Crlf>> \in Seq(Pieces)
    /\ \A framing \in Framings, n \in 0 .. JsonLength :
          <<Start, Token(framing, n), Blank>> \in Seq(Pieces)
<1>1. 0 \in 0 .. JsonLength
  BY FetchAssumption
<1>2. Start \in Pieces /\ Blank \in Pieces /\ Crlf \in Pieces
  BY <1>1, TokenTypes DEF Start, Blank, Crlf, Kinds
<1>3. \A n \in 0 .. JsonLength : Token("size", n) \in Pieces
  BY TokenTypes DEF Kinds
<1>4. \A framing \in Framings, n \in 0 .. JsonLength : Token(framing, n) \in Pieces
  BY TokenTypes DEF Kinds, Framings
<1>5. \A n \in 0 .. JsonLength : <<Token("size", n), Crlf>> \in Seq(Pieces)
  BY <1>2, <1>3
<1>6. LastChunk \in Seq(Pieces)
  BY <1>1, <1>2, <1>3 DEF LastChunk
<1>7. \A framing \in Framings, n \in 0 .. JsonLength :
          <<Start, Token(framing, n), Blank>> \in Seq(Pieces)
  BY <1>2, <1>4
<1> QED  BY <1>2, <1>5, <1>6, <1>7

LEMMA ChunkType ==
    ASSUME NEW a \in Nat \ {0}, NEW b \in 0 .. JsonLength, a <= b + 1
    PROVE  Chunk(a, b) \in Seq(Pieces)
<1>1. CASE a > b
  BY <1>1, Singles DEF Chunk
<1>2. CASE ~(a > b)
  <2>1. b - a + 1 \in 0 .. JsonLength
    BY <1>2, FetchAssumption
  <2>2. PICK h \in Seq(Pieces) : h = <<Token("size", b - a + 1), Crlf>>
    BY <2>1, Singles
  <2>3. PICK d \in Seq(Pieces) : d = Bytes(a, b)
    BY FetchAssumption, BytesType
  <2>4. PICK e \in Seq(Pieces) : e = <<Crlf>>
    BY Singles
  <2>5. h \o d \o e \in Seq(Pieces)
    BY ConcatProperties
  <2> QED  BY <1>2, <2>2, <2>3, <2>4, <2>5 DEF Chunk
<1> QED  BY <1>1, <1>2

Chunks(n, k) == Chunk(1, k) \o Chunk(k + 1, n) \o LastChunk

LEMMA MessageParts ==
    ASSUME NEW framing, NEW n, NEW k
    PROVE  Message(framing, n, k) =
              <<Start, Token(framing, n), Blank>>
                 \o IF framing = "chunked" THEN Chunks(n, k) ELSE Bytes(1, n)
BY DEF Message, Chunks

LEMMA ChunksType ==
    ASSUME NEW n \in 0 .. JsonLength, NEW k \in 0 .. n
    PROVE  Chunks(n, k) \in Seq(Pieces)
<1>1. k \in 0 .. JsonLength /\ 1 <= k + 1 /\ k + 1 \in Nat \ {0} /\ k + 1 <= n + 1
  BY FetchAssumption
<1>2. PICK c \in Seq(Pieces) : c = Chunk(1, k)
  BY <1>1, ChunkType
<1>3. PICK d \in Seq(Pieces) : d = Chunk(k + 1, n)
  BY <1>1, ChunkType
<1>4. PICK e \in Seq(Pieces) : e = LastChunk
  BY Singles
<1>5. c \o d \o e \in Seq(Pieces)
  BY ConcatProperties
<1> QED  BY <1>2, <1>3, <1>4, <1>5 DEF Chunks

LEMMA MessageType ==
    ASSUME NEW framing \in Framings, NEW n \in 0 .. JsonLength, NEW k \in 0 .. n
    PROVE  Message(framing, n, k) \in Seq(Pieces) /\ Len(Message(framing, n, k)) \in Nat \ {0}
<1>1. PICK h \in Seq(Pieces) : h = <<Start, Token(framing, n), Blank>>
  BY Singles
<1>2. PICK r \in Seq(Pieces) :
         r = IF framing = "chunked" THEN Chunks(n, k) ELSE Bytes(1, n)
  <2>1. n \in Nat /\ n <= JsonLength /\ 1 <= n + 1
    BY FetchAssumption
  <2>2. Bytes(1, n) \in Seq(Pieces)
    BY <2>1, BytesType
  <2> QED  BY <2>2, ChunksType
<1>3. Message(framing, n, k) = h \o r
  BY <1>1, <1>2, MessageParts
<1>4. h \o r \in Seq(Pieces) /\ Len(h \o r) = Len(h) + Len(r)
  BY ConcatProperties
<1>5. Len(h) = 3 /\ Len(r) \in Nat
  BY <1>1, LenProperties
<1> QED  BY <1>3, <1>4, <1>5

LEMMA InitTypes == Init => Types
<1> SUFFICES ASSUME Init PROVE Types
  OBVIOUS
<1>1. <<>> \in Seq(Pieces) /\ <<>> \in Seq(Tokens) /\ 0 \in 0 .. JsonLength /\ 0 \in 0 .. MaxDown
  BY FetchAssumption
<1>2. /\ client.at = "waiting" /\ client.retry = FALSE /\ client.framing = "close"
      /\ edge.pc = "reading" /\ edge.framing = "close" /\ edge.need = 0
      /\ up.at = "none" /\ down.end = "open" /\ pool.pc = "idle" /\ pool.said = Nothing
      /\ origin.sends = 0 /\ origin.end = "open"
  BY DEF Init, Waiting, Open
<1>3. TypeOK
  BY <1>1, <1>2 DEF TypeOK, Framings
<1>4. client \in [at : {"waiting", "closed", "failed", "raw", "ok"}, retry : BOOLEAN,
                  framing : Framings, body : {client.body}]
  BY DEF Init, Waiting, Framings
<1>5. edge \in [pc : {"reading", "head", "size", "data", "exact", "tail", "judge", "done"},
                framing : Framings, need : 0 .. JsonLength,
                buf : Seq(Pieces), body : Seq(Pieces)]
  BY <1>1 DEF Init, Framings
<1>6. /\ up \in [at : {"none", "sent"}, method : {up.method}]
      /\ down \in [items : Seq(Pieces), end : {"open", "fin", "reset", "silent"}]
  BY <1>1 DEF Init, Open
<1>7. /\ pool \in [pc : {"idle", "hold", "dial", "send", "receive", "done"},
                   unsent : Seq(Tokens), said : {pool.said}]
      /\ origin \in [method : {origin.method}, got : Seq(Tokens), sends : 0 .. MaxDown,
                     items : {origin.items}, end : {"open", "fin", "reset"}]
  BY <1>1 DEF Init
<1>8. request \in [method : Methods, target : {"url", "path"}, body : 0 .. MaxUp]
  BY DEF Init
<1> QED  BY <1>3, <1>4, <1>5, <1>6, <1>7, <1>8 DEF Types

\* The edge is done as soon as it has answered.
LEMMA AnswerTypes ==
    ASSUME Types, edge.pc # "done",
           NEW at \in {"failed", "raw", "ok"}, NEW retry \in BOOLEAN, NEW framing \in Framings,
           NEW body, Answer(at, retry, framing, body)
    PROVE  Types'
BY ZenonT(60) DEF Types, TypeOK, Answer

LEMMA AsksTypes == ASSUME Types, EdgeRefuses \/ EdgeAsks PROVE Types'
<1>1. CASE EdgeRefuses
  BY <1>1 DEF Types, TypeOK, EdgeRefuses
<1>2. CASE EdgeAsks
  BY <1>2 DEF Types, TypeOK, EdgeAsks
<1> QED  BY <1>1, <1>2

LEMMA AnswersTypes ==
    ASSUME Types, EdgeNoPool \/ EdgeReadFails \/ EdgeAnswers
    PROVE  Types'
<1>1. CASE EdgeNoPool
  BY <1>1, AnswerTypes DEF EdgeNoPool, Framings
<1>2. CASE EdgeReadFails
  BY <1>2, AnswerTypes DEF EdgeReadFails, Short, Framings
<1>3. CASE EdgeAnswers
  <2>1. edge.pc = "judge" /\ edge.framing \in Framings /\ {"close", "length"} \subseteq Framings
    BY <1>3 DEF EdgeAnswers, Types, Framings
  <2>2. \/ Answer("raw", FALSE, edge.framing, edge.body)
        \/ Answer("failed", FALSE, "close", <<>>)
        \/ Answer("failed", TRUE, "close", <<>>)
        \/ Answer("ok", FALSE, "length", pool.said.body)
    BY <1>3 DEF EdgeAnswers
  <2> QED  BY <2>1, <2>2, AnswerTypes
<1> QED  BY <1>1, <1>2, <1>3

\* A step of read_full that reads on keeps the types of what it has read.
LEMMA EdgeTypes ==
    ASSUME Types, edge.pc # "done", NEW pc \in {"head", "size", "data", "exact", "tail", "judge"},
           NEW framing \in Framings, NEW need \in 0 .. JsonLength,
           NEW buf \in Seq(Pieces), NEW body \in Seq(Pieces),
           edge' = [pc |-> pc, framing |-> framing, need |-> need, buf |-> buf, body |-> body],
           UNCHANGED <<request, client, up, pool, origin>>,
           NEW items \in Seq(Pieces), down' = [down EXCEPT !.items = items]
    PROVE  Types'
BY ZenonT(60) DEF Types, TypeOK

LEMMA EdgeFields ==
    ASSUME Types
    PROVE  edge = [pc |-> edge.pc, framing |-> edge.framing, need |-> edge.need,
                   buf |-> edge.buf, body |-> edge.body]
BY DEF Types

LEMMA DownSame == ASSUME Types PROVE down = [down EXCEPT !.items = down.items]
BY DEF Types

LEMMA ReadsTypes == ASSUME Types, EdgeReads PROVE Types'
<1>1. PICK n \in 1 .. Len(down.items) :
          /\ edge' = [edge EXCEPT !.buf = @ \o SubSeq(down.items, 1, n)]
          /\ down' = [down EXCEPT !.items = From(@, n + 1)]
  BY DEF EdgeReads
<1>2. /\ edge.buf \in Seq(Pieces) /\ edge.body \in Seq(Pieces) /\ down.items \in Seq(Pieces)
      /\ edge.framing \in Framings /\ edge.need \in 0 .. JsonLength
      /\ edge.pc \in {"head", "size", "data", "exact", "tail"}
  BY DEF Types, EdgeReads, Short
<1>3. n \in Nat /\ n + 1 \in Nat \ {0} /\ n <= Len(down.items)
  BY <1>2, LenProperties
<1>4. PICK more \in Seq(Pieces) : more = SubSeq(down.items, 1, n)
  <2>1. 1 \in Nat \ {0} /\ n \in Int
    BY <1>3
  <2>2. SubSeq(down.items, 1, n) \in Seq(Pieces)
    BY <1>2, <1>3, <2>1, Slice
  <2> QED  BY <2>2
<1>5. PICK buf \in Seq(Pieces) : buf = edge.buf \o more
  BY <1>2, ConcatProperties
<1>6. PICK items \in Seq(Pieces) : items = From(down.items, n + 1)
  BY <1>2, <1>3, FromType
<1>7. /\ edge' = [pc |-> edge.pc, framing |-> edge.framing, need |-> edge.need,
                  buf |-> buf, body |-> edge.body]
      /\ down' = [down EXCEPT !.items = items]
  BY <1>1, <1>4, <1>5, <1>6, EdgeFields
<1>8. UNCHANGED <<request, client, up, pool, origin>>
  BY DEF EdgeReads
<1> QED  BY <1>2, <1>7, <1>8, EdgeTypes

\* What EdgeHead makes of the head that it has found.
HeadAt == IF Has(edge.buf, "blank") THEN Find(edge.buf, "blank") ELSE Len(edge.buf) + 1
HeadRead == SubSeq(edge.buf, 1, HeadAt - 1)
HeadLength ==
    IF FramingOf(HeadRead) = "length" THEN HeadRead[Find(HeadRead, "length")].n ELSE 0

LEMMA HeadTypes == ASSUME Types, EdgeHead PROVE Types'
<1>1. /\ edge.pc = "head" /\ UNCHANGED <<request, client, up, down, pool, origin>>
      /\ edge' = [edge EXCEPT !.pc = IF FramingOf(HeadRead) = "chunked" THEN "size"
                                     ELSE IF HeadLength # 0 THEN "exact" ELSE "tail",
                              !.framing = FramingOf(HeadRead),
                              !.need = HeadLength,
                              !.buf = From(@, HeadAt + 1)]
  BY DEF EdgeHead, HeadLength, HeadRead, HeadAt
<1>2. edge.buf \in Seq(Pieces) /\ edge.body \in Seq(Pieces) /\ down.items \in Seq(Pieces)
  BY DEF Types
<1>3. Len(edge.buf) \in Nat /\ HeadAt \in 1 .. Len(edge.buf) + 1
  <2>1. Len(edge.buf) \in Nat
    BY <1>2, LenProperties
  <2>2. CASE Has(edge.buf, "blank")
    <3>1. Find(edge.buf, "blank") \in 1 .. Len(edge.buf)
      BY <1>2, <2>2, FindFirst
    <3> QED  BY <2>1, <2>2, <3>1 DEF HeadAt
  <2>3. CASE ~Has(edge.buf, "blank")
    BY <2>1, <2>3 DEF HeadAt
  <2> QED  BY <2>1, <2>2, <2>3
<1>4. HeadRead \in Seq(Pieces)
  <2>1. 1 \in Nat \ {0} /\ HeadAt - 1 \in Int /\ HeadAt - 1 <= Len(edge.buf)
    BY <1>3
  <2> QED  BY <1>2, <2>1, Slice DEF HeadRead
<1>5. FramingOf(HeadRead) \in Framings
  BY DEF FramingOf, Framings
<1>6. HeadLength \in 0 .. JsonLength
  <2>1. CASE FramingOf(HeadRead) = "length"
    <3>1. Has(HeadRead, "length")
      BY <2>1 DEF FramingOf
    <3>2. Find(HeadRead, "length") \in 1 .. Len(HeadRead)
      BY <1>4, <3>1, FindFirst
    <3>3. HeadRead[Find(HeadRead, "length")] \in Pieces
      BY <1>4, <3>2, ElementOfSeq
    <3> QED  BY <2>1, <3>3 DEF HeadLength, Pieces
  <2>2. CASE FramingOf(HeadRead) # "length"
    BY <2>2, FetchAssumption DEF HeadLength
  <2> QED  BY <2>1, <2>2
<1>7. PICK buf \in Seq(Pieces) : buf = From(edge.buf, HeadAt + 1)
  <2>1. HeadAt + 1 \in Nat \ {0}
    BY <1>3
  <2> QED  BY <1>2, <2>1, FromType
<1>8. PICK pc \in {"size", "exact", "tail"} :
         pc = IF FramingOf(HeadRead) = "chunked" THEN "size"
              ELSE IF HeadLength # 0 THEN "exact" ELSE "tail"
  OBVIOUS
<1>9. edge' = [pc |-> pc, framing |-> FramingOf(HeadRead), need |-> HeadLength,
               buf |-> buf, body |-> edge.body]
  BY <1>1, <1>7, <1>8, EdgeFields
<1>10. down' = [down EXCEPT !.items = down.items]
  BY <1>1, DownSame
<1>11. edge.pc # "done" /\ UNCHANGED <<request, client, up, pool, origin>>
  BY <1>1
<1> QED  BY <1>11, <1>2, <1>5, <1>6, <1>9, <1>10, EdgeTypes

\* What EdgeSize makes of the line that it has found.
SizeLine == SubSeq(edge.buf, 1, Find(edge.buf, "crlf") - 1)
SizeRead == IF Short \/ SizeLine = <<>> THEN 0 ELSE SizeLine[1].n

LEMMA SizeTypes == ASSUME Types, EdgeSize PROVE Types'
<1>1. /\ edge.pc = "size" /\ UNCHANGED <<request, client, up, down, pool, origin>>
      /\ edge' = [edge EXCEPT !.pc = IF SizeRead = 0 THEN "judge" ELSE "data",
                              !.need = SizeRead,
                              !.buf = IF Short THEN <<>> ELSE From(@, Len(SizeLine) + 2)]
  BY DEF EdgeSize, SizeRead, SizeLine
<1>2. /\ edge.buf \in Seq(Pieces) /\ edge.body \in Seq(Pieces) /\ down.items \in Seq(Pieces)
      /\ edge.framing \in Framings
  BY DEF Types
<1>3. SizeLine \in Seq(Pieces) /\ Len(SizeLine) \in Nat
  <2>1. Len(edge.buf) \in Nat
    BY <1>2, LenProperties
  <2>2. Find(edge.buf, "crlf") \in 0 .. Len(edge.buf)
    <3>1. CASE Has(edge.buf, "crlf")
      BY <1>2, <2>1, <3>1, FindFirst
    <3>2. CASE ~Has(edge.buf, "crlf")
      BY <1>2, <2>1, <3>2, FindNone
    <3> QED  BY <3>1, <3>2
  <2>3. 1 \in Nat \ {0} /\ Find(edge.buf, "crlf") - 1 \in Int
        /\ Find(edge.buf, "crlf") - 1 <= Len(edge.buf)
    BY <2>1, <2>2
  <2>4. SizeLine \in Seq(Pieces)
    BY <1>2, <2>3, Slice DEF SizeLine
  <2> QED  BY <2>4, LenProperties
<1>4. SizeRead \in 0 .. JsonLength
  <2>1. CASE Short \/ SizeLine = <<>>
    BY <2>1, FetchAssumption DEF SizeRead
  <2>2. CASE ~(Short \/ SizeLine = <<>>)
    <3>1. 1 \in 1 .. Len(SizeLine)
      BY <1>3, <2>2, EmptySeq
    <3>2. SizeLine[1] \in Pieces
      BY <1>3, <3>1, ElementOfSeq
    <3> QED  BY <2>2, <3>2 DEF SizeRead, Pieces
  <2> QED  BY <2>1, <2>2
<1>5. PICK buf \in Seq(Pieces) : buf = IF Short THEN <<>> ELSE From(edge.buf, Len(SizeLine) + 2)
  <2>1. Len(SizeLine) + 2 \in Nat \ {0}
    BY <1>3
  <2>2. From(edge.buf, Len(SizeLine) + 2) \in Seq(Pieces)
    BY <1>2, <2>1, FromType
  <2>3. <<>> \in Seq(Pieces)
    OBVIOUS
  <2> QED  BY <2>2, <2>3
<1>6. PICK pc \in {"judge", "data"} : pc = IF SizeRead = 0 THEN "judge" ELSE "data"
  OBVIOUS
<1>7. edge' = [pc |-> pc, framing |-> edge.framing, need |-> SizeRead,
               buf |-> buf, body |-> edge.body]
  BY <1>1, <1>5, <1>6, EdgeFields
<1>8. down' = [down EXCEPT !.items = down.items]
  BY <1>1, DownSame
<1>11. edge.pc # "done" /\ UNCHANGED <<request, client, up, pool, origin>>
  BY <1>1
<1> QED  BY <1>11, <1>2, <1>4, <1>7, <1>8, EdgeTypes

LEMMA DataTypes == ASSUME Types, EdgeData PROVE Types'
<1>1. /\ edge.pc = "data" /\ UNCHANGED <<request, client, up, down, pool, origin>>
      /\ edge' = [edge EXCEPT !.pc = "size",
                              !.body = @ \o Take(edge.buf, edge.need),
                              !.buf = From(@, edge.need + 2)]
  BY DEF EdgeData
<1>2. /\ edge.buf \in Seq(Pieces) /\ edge.body \in Seq(Pieces) /\ down.items \in Seq(Pieces)
      /\ edge.framing \in Framings /\ edge.need \in 0 .. JsonLength /\ edge.need \in Nat
      /\ edge.need + 2 \in Nat \ {0}
  BY FetchAssumption, SMTT(30) DEF Types
<1>3. PICK taken \in Seq(Pieces) : taken = Take(edge.buf, edge.need)
  BY <1>2, TakeType
<1>4. PICK body \in Seq(Pieces) : body = edge.body \o taken
  BY <1>2, ConcatProperties
<1>5. PICK buf \in Seq(Pieces) : buf = From(edge.buf, edge.need + 2)
  BY <1>2, FromType
<1>6. edge' = [pc |-> "size", framing |-> edge.framing, need |-> edge.need,
               buf |-> buf, body |-> body]
  BY <1>1, <1>3, <1>4, <1>5, EdgeFields
<1>7. down' = [down EXCEPT !.items = down.items]
  BY <1>1, DownSame
<1>11. edge.pc # "done" /\ UNCHANGED <<request, client, up, pool, origin>>
  BY <1>1
<1> QED  BY <1>11, <1>2, <1>6, <1>7, EdgeTypes

LEMMA RestTypes == ASSUME Types, EdgeRest PROVE Types'
<1>1. /\ edge.pc \in {"exact", "tail"} /\ UNCHANGED <<request, client, up, down, pool, origin>>
      /\ edge' = [edge EXCEPT !.pc = "judge",
                              !.body = IF edge.pc = "exact" THEN Take(edge.buf, edge.need)
                                       ELSE edge.buf]
  BY DEF EdgeRest
<1>2. /\ edge.buf \in Seq(Pieces) /\ down.items \in Seq(Pieces)
      /\ edge.framing \in Framings /\ edge.need \in 0 .. JsonLength /\ edge.need \in Nat
  BY FetchAssumption DEF Types
<1>3. PICK body \in Seq(Pieces) :
         body = IF edge.pc = "exact" THEN Take(edge.buf, edge.need) ELSE edge.buf
  BY <1>2, TakeType
<1>4. edge' = [pc |-> "judge", framing |-> edge.framing, need |-> edge.need,
               buf |-> edge.buf, body |-> body]
  BY <1>1, <1>3, EdgeFields
<1>5. down' = [down EXCEPT !.items = down.items]
  BY <1>1, DownSame
<1> QED  BY <1>1, <1>2, <1>4, <1>5, EdgeTypes, ZenonT(60)

\* What the pool leaves of an answer in the stream, and what it remembers.
LEMMA SaysStep ==
    ASSUME NEW kind, NEW retry, NEW body, NEW length, Says(kind, retry, body, length)
    PROVE  \E framing \in (IF length = 0 THEN Framings ELSE {"length", "chunked"}),
             k \in 0 .. length :
              /\ IF down.end = "open" THEN down' \in Delivered(Message(framing, length, k))
                 ELSE UNCHANGED down
              /\ pool' = [pc |-> "done", unsent |-> <<>>,
                          said |-> [kind |-> kind, retry |-> retry, body |-> body,
                                    whole |-> down'.items = Message(framing, length, k)]]
              /\ UNCHANGED <<request, client, edge, up>>
BY DEF Says

LEMMA DeliveredType ==
    ASSUME NEW message \in Seq(Pieces), NEW d \in Delivered(message)
    PROVE  /\ d \in [items : Seq(Pieces), end : {"open", "fin", "reset", "silent"}]
           /\ d.end # "open"
           /\ d.items = message => d.end = "fin"
<1>1. Len(message) \in Nat
  BY LenProperties
<1>2. CASE d = [items |-> message, end |-> "fin"]
  BY <1>2
<1>3. CASE \E n \in 0 .. Len(message) - 1, e \in {"fin", "reset"} :
              d = [items |-> SubSeq(message, 1, n), end |-> e]
  <2>1. PICK n \in 0 .. Len(message) - 1, e \in {"fin", "reset"} :
              d = [items |-> SubSeq(message, 1, n), end |-> e]
    BY <1>3
  <2>2. n \in Nat /\ n \in Int /\ n <= Len(message) /\ n # Len(message) /\ 1 \in Nat \ {0}
    BY <1>1
  <2>3. SubSeq(message, 1, n) \in Seq(Pieces)
    BY <2>2, Slice
  <2>4. Len(SubSeq(message, 1, n)) = n
    <3>1. 1 \in Int /\ n \in Int /\ \A i \in 1 .. n : message[i] \in Pieces
      BY <1>1, <2>2, ElementOfSeq
    <3>2. Len(SubSeq(message, 1, n)) = IF 1 <= n THEN n - 1 + 1 ELSE 0
      BY <3>1, SubSeqProperties
    <3> QED  BY <2>2, <3>2
  <2>5. SubSeq(message, 1, n) # message
    BY <2>2, <2>4
  <2> QED  BY <2>1, <2>3, <2>5
<1> QED  BY <1>2, <1>3 DEF Delivered

LEMMA SaysTypes ==
    ASSUME Types, NEW kind, NEW retry, NEW body, NEW length \in 0 .. JsonLength,
           Says(kind, retry, body, length), UNCHANGED origin
    PROVE  Types'
<1>1. PICK framing \in (IF length = 0 THEN Framings ELSE {"length", "chunked"}),
           k \in 0 .. length :
        /\ IF down.end = "open" THEN down' \in Delivered(Message(framing, length, k))
           ELSE UNCHANGED down
        /\ pool' = [pc |-> "done", unsent |-> <<>>,
                    said |-> [kind |-> kind, retry |-> retry, body |-> body,
                              whole |-> down'.items = Message(framing, length, k)]]
        /\ UNCHANGED <<request, client, edge, up>>
  BY SaysStep
<1>2. Message(framing, length, k) \in Seq(Pieces)
  <2>1. framing \in Framings
    BY DEF Framings
  <2> QED  BY <2>1, MessageType
<1>3. down' \in [items : Seq(Pieces), end : {"open", "fin", "reset", "silent"}]
  <2>1. CASE down.end = "open"
    BY <1>1, <1>2, <2>1, DeliveredType
  <2>2. CASE down.end # "open"
    BY <1>1, <2>2 DEF Types
  <2> QED  BY <2>1, <2>2
<1>4. /\ pool'.pc = "done" /\ pool'.said = pool'.said /\ <<>> \in Seq(Tokens)
      /\ pool' \in [pc : {"idle", "hold", "dial", "send", "receive", "done"},
                    unsent : Seq(Tokens), said : {pool'.said}]
  BY <1>1
<1>5. UNCHANGED <<request, client, edge, up, origin>>
  BY <1>1
<1> QED  BY <1>3, <1>4, <1>5 DEF Types, TypeOK

\* The kinds of answer of the pool, with the states it gives them in.
SaysSomething ==
    \/ Says("manager", FALSE, <<>>, JsonLength) /\ pool.pc = "idle" /\ request.target = "path"
    \/ Says("refused", FALSE, <<>>, 0) /\ pool.pc = "idle"
    \/ Says("none ready", TRUE, <<>>, JsonLength) /\ pool.pc = "hold"
    \/ Says("failed", FALSE, <<>>, JsonLength) /\ pool.pc \in {"dial", "send", "receive"}
    \/ Says("ok", FALSE, BodyOf(origin.items), JsonLength) /\ pool.pc = "receive"

PoolGoesOn(from, to) ==
    /\ pool.pc = from /\ pool' = [pool EXCEPT !.pc = to]
    /\ UNCHANGED <<request, client, edge, up, down>>

\* What a step of the pool does.
LEMMA PoolSteps ==
    ASSUME Pool
    PROVE  \/ SaysSomething /\ UNCHANGED origin /\ (pool.pc = "idle" => up.at = "sent")
           \/ PoolGoesOn("idle", "hold") /\ UNCHANGED origin /\ up.at = "sent"
                 /\ request.target = "url"
           \/ PoolGoesOn("hold", "dial") /\ UNCHANGED origin
           \/ PoolDrops \/ PoolDials \/ PoolSends
<1>1. CASE PoolReads
  BY <1>1 DEF PoolReads, SaysSomething, PoolGoesOn
<1>2. CASE PoolHolds
  BY <1>2 DEF PoolHolds, SaysSomething, PoolGoesOn
<1>3. CASE PoolFails
  BY <1>3 DEF PoolFails, SaysSomething
<1>4. CASE PoolReceives
  BY <1>4 DEF PoolReceives, SaysSomething
<1> QED  BY <1>1, <1>2, <1>3, <1>4 DEF Pool

\* What the origin is to get.
Request == <<Start>> \o Bytes(1, request.body)

LEMMA StartType == <<Start>> \in Seq(Tokens)
<1>1. 0 \in Nat /\ "start" \in Kinds
  BY DEF Kinds
<1>2. Start \in Tokens
  BY <1>1 DEF Start, Token, Tokens
<1> QED  BY <1>2

LEMMA RequestType == ASSUME Types PROVE Request \in Seq(Tokens)
<1>1. PICK m \in Nat : m = request.body
  <2>1. request.body \in 0 .. MaxUp
    BY DEF Types
  <2> QED  BY <2>1, FetchAssumption
<1>2. 1 \in Nat \ {0} /\ 1 <= m + 1
  OBVIOUS
<1>3. Bytes(1, m) \in Seq(Tokens)
  BY <1>2, BytesType
<1>4. <<Start>> \o Bytes(1, m) \in Seq(Tokens)
  BY <1>3, StartType, ConcatProperties
<1> QED  BY <1>1, <1>4 DEF Request

LEMMA PoolTypes == ASSUME Types, Pool PROVE Types'
<1>1. CASE SaysSomething /\ UNCHANGED origin
  <2>1. 0 \in 0 .. JsonLength /\ JsonLength \in 0 .. JsonLength
    BY FetchAssumption
  <2> QED  BY <1>1, <2>1, SaysTypes DEF SaysSomething
<1>2. CASE (PoolGoesOn("idle", "hold") \/ PoolGoesOn("hold", "dial")) /\ UNCHANGED origin
  BY <1>2, ZenonT(60) DEF Types, TypeOK, PoolGoesOn
<1>3. CASE PoolDrops
  BY <1>3 DEF Types, TypeOK, PoolDrops
<1>4. CASE PoolDials
  <2>1. PICK whole \in Seq(Tokens) : whole = <<Start>> \o Bytes(1, request.body)
    BY RequestType DEF Request
  <2>2. /\ pool.pc = "dial" /\ pool' = [pool EXCEPT !.pc = "send", !.unsent = whole]
        /\ UNCHANGED <<request, client, edge, up, down, origin>>
    BY <1>4, <2>1 DEF PoolDials
  <2> QED  BY <2>2, ZenonT(60) DEF Types, TypeOK
<1>5. CASE PoolSends
  <2>1. pool.unsent \in Seq(Tokens) /\ origin.got \in Seq(Tokens)
    BY DEF Types
  <2>2. PICK chunk \in SendChunks :
           /\ origin' = [origin EXCEPT !.method = up.method, !.got = @ \o Take(pool.unsent, chunk)]
           /\ pool' = [pool EXCEPT !.unsent = From(@, chunk + 1),
                                   !.pc = IF Len(pool.unsent) <= chunk THEN "receive"
                                          ELSE "send"]
    BY <1>5 DEF PoolSends
  <2>3. chunk \in Nat /\ chunk + 1 \in Nat \ {0}
    BY FetchAssumption
  <2>4. PICK taken \in Seq(Tokens) : taken = Take(pool.unsent, chunk)
    BY <2>1, <2>3, TakeType
  <2>5. PICK got \in Seq(Tokens) : got = origin.got \o taken
    BY <2>1, ConcatProperties
  <2>6. PICK unsent \in Seq(Tokens) : unsent = From(pool.unsent, chunk + 1)
    BY <2>1, <2>3, FromType
  <2>7. /\ pool.pc = "send" /\ origin' = [origin EXCEPT !.method = up.method, !.got = got]
        /\ UNCHANGED <<request, client, edge, up, down>>
        /\ \E pc \in {"receive", "send"} : pool' = [pool EXCEPT !.unsent = unsent, !.pc = pc]
    BY <1>5, <2>2, <2>4, <2>5, <2>6 DEF PoolSends
  <2> QED  BY <2>7, ZenonT(60) DEF Types, TypeOK
<1> QED  BY <1>1, <1>2, <1>3, <1>4, <1>5, PoolSteps

LEMMA OriginTypes == ASSUME Types, OriginAnswers PROVE Types'
<1>1. /\ UNCHANGED <<request, client, edge, up, down, pool>> /\ origin'.got = origin.got
      /\ origin'.sends \in 0 .. MaxDown /\ origin'.end \in {"open", "fin", "reset"}
  <2>1. PICK framing \in Framings, n \in 0 .. MaxDown, k \in 0 .. MaxDown :
           \E d \in Delivered(Message(framing, n, k)) \cup
                    {[items |-> Message(framing, n, k), end |-> "reset"]} :
              origin' = [origin EXCEPT !.sends = n, !.items = d.items, !.end = d.end]
    BY DEF OriginAnswers
  <2>2. PICK d \in Delivered(Message(framing, n, k)) \cup
                   {[items |-> Message(framing, n, k), end |-> "reset"]} :
              origin' = [origin EXCEPT !.sends = n, !.items = d.items, !.end = d.end]
    BY <2>1
  <2>3. d.end \in {"fin", "reset"}
    BY DEF Delivered
  <2>4. UNCHANGED <<request, client, edge, up, down, pool>>
    BY DEF OriginAnswers
  <2> QED  BY <2>2, <2>3, <2>4 DEF Types
<1>2. origin' \in [method : {origin'.method}, got : Seq(Tokens), sends : 0 .. MaxDown,
                    items : {origin'.items}, end : {"open", "fin", "reset"}]
  <2>1. \E n, items, end : origin' = [origin EXCEPT !.sends = n, !.items = items, !.end = end]
    BY DEF OriginAnswers
  <2> QED  BY <1>1, <2>1 DEF Types
<1> QED  BY <1>1, <1>2 DEF Types, TypeOK

LEMMA LinkTypes == ASSUME Types, LinkLost PROVE Types'
<1>1. /\ UNCHANGED <<request, client, edge, up, pool, origin>>
      /\ \E e \in {"fin", "reset", "silent"} : down' = [down EXCEPT !.end = e]
  BY DEF LinkLost
<1>2. down' \in [items : Seq(Pieces), end : {"open", "fin", "reset", "silent"}]
  BY <1>1 DEF Types, TypeOK
<1> QED  BY <1>1, <1>2 DEF Types, TypeOK

LEMMA StepTypes == Types /\ [Next]_vars => Types'
<1> SUFFICES ASSUME Types, [Next]_vars
             PROVE  Types'
  OBVIOUS
<1>1. CASE UNCHANGED vars
  BY <1>1 DEF vars, Types, TypeOK
<1> QED  BY <1>1, AsksTypes, AnswersTypes, ReadsTypes, HeadTypes, SizeTypes, DataTypes, RestTypes,
            PoolTypes, OriginTypes, LinkTypes DEF Next, ReadFull

\* The state of the exchange keeps its types, the edge is done exactly when its
\* client has been answered or closed, and every length it waits for is one that
\* the pool can have sent.
THEOREM FetchTypes == Spec => []TypeOK
<1>1. Spec => []Types
  BY InitTypes, StepTypes, PTL DEF Spec
<1> QED  BY <1>1, PTL DEF Types

-----------------------------------------------------------------------------
(* The request *)

\* What the origin has got and what is still to be sent make up the request; the
\* answer that the client gets is one to all of it.
RequestInv ==
    /\ pool.pc \in {"idle", "hold", "dial"} => origin.got = <<>>
    /\ pool.pc = "send" => origin.got \o pool.unsent = Request
    /\ pool.pc = "receive" \/ pool.said.kind = "ok" => origin.got = Request
    /\ \E left \in Seq(Tokens) : origin.got \o left = Request
    /\ client.at = "ok" => pool.said.kind = "ok"

LEMMA TakeFrom ==
    ASSUME NEW S, NEW s \in Seq(S), NEW n \in Nat
    PROVE  /\ Take(s, n) \o From(s, n + 1) = s
           /\ Len(s) <= n => Take(s, n) = s
<1>1. Len(s) \in Nat
  BY LenProperties
<1>2. CASE n < Len(s)
  <2>1. Take(s, n) = SubSeq(s, 1, n) /\ From(s, n + 1) = SubSeq(s, n + 1, Len(s))
    BY <1>2 DEF Take, From
  <2>2. 1 \in 1 .. Len(s) + 1 /\ n \in 1 - 1 .. Len(s) /\ Len(s) \in n .. Len(s)
    BY <1>1, <1>2
  <2>3. SubSeq(s, 1, n) \o SubSeq(s, n + 1, Len(s)) = SubSeq(s, 1, Len(s))
    BY <2>2, ConcatAdjacentSubSeq
  <2>4. SubSeq(s, 1, Len(s)) = s
    BY SubSeqFull
  <2>5. ~(Len(s) <= n)
    BY <1>1, <1>2
  <2> QED  BY <2>1, <2>3, <2>4, <2>5, ZenonT(60)
<1>3. CASE ~(n < Len(s))
  <2>1. Take(s, n) = s
    BY <1>3 DEF Take
  <2>2. From(s, n + 1) = <<>>
    BY <1>1, <1>3, SubSeqEmpty DEF From
  <2> QED  BY <2>1, <2>2, ConcatEmptySeq
<1> QED  BY <1>2, <1>3, SMTT(30)

LEMMA InitRequest == Init => RequestInv
<1> SUFFICES ASSUME Init PROVE RequestInv
  OBVIOUS
<1>1. Types
  BY InitTypes
<1>2. Request \in Seq(Tokens) /\ <<>> \o Request = Request
  BY <1>1, RequestType, ConcatEmptySeq
<1>3. /\ origin.got = <<>> /\ pool.pc = "idle" /\ pool.said = Nothing /\ client.at = "waiting"
  BY DEF Init, Waiting
<1> QED  BY <1>2, <1>3 DEF RequestInv, Nothing

LEMMA PrefixOfWhole ==
    ASSUME NEW S, NEW got \in Seq(S), NEW left \in Seq(S), NEW whole, got \o left = whole
    PROVE  IsPrefix(got, whole)
<1>1. Len(got) \in Nat /\ Len(left) \in Nat
  BY LenProperties
<1>2. /\ got \o left \in Seq(S) /\ Len(got \o left) = Len(got) + Len(left)
      /\ \A i \in 1 .. Len(got) + Len(left) :
            (got \o left)[i] = IF i <= Len(got) THEN got[i] ELSE left[i - Len(got)]
  BY ConcatProperties
<1>3. \A i \in 1 .. Len(got) : (got \o left)[i] = got[i] /\ got[i] \in S
  BY <1>1, <1>2, ElementOfSeq
<1>4. PICK begin : begin = SubSeq(got \o left, 1, Len(got))
  OBVIOUS
<1>5. begin \in Seq(S) /\ Len(begin) = Len(got) /\ \A i \in 1 .. Len(got) : begin[i] = got[i]
  <2>1. \A i \in 1 .. Len(got) : (got \o left)[i] \in S
    BY <1>3
  <2>2. /\ begin \in Seq(S)
        /\ Len(begin) = IF 1 <= Len(got) THEN Len(got) - 1 + 1 ELSE 0
        /\ \A i \in 1 .. Len(got) - 1 + 1 : begin[i] = (got \o left)[1 + i - 1]
    BY <1>1, <1>4, <2>1, SubSeqProperties
  <2>3. \A i \in 1 .. Len(got) : i \in 1 .. Len(got) - 1 + 1 /\ 1 + i - 1 = i
    BY <1>1
  <2> QED  BY <1>1, <1>3, <2>2, <2>3
<1>6. begin = got
  BY <1>5, SeqEqual
<1>7. SubSeq(got, 1, Len(got)) = got
  BY SubSeqFull
<1> QED  BY <1>1, <1>2, <1>4, <1>6, <1>7 DEF IsPrefix

LEMMA SaysSaid ==
    ASSUME NEW kind, NEW retry, NEW body, NEW length, Says(kind, retry, body, length)
    PROVE  /\ pool'.pc = "done" /\ pool'.said.kind = kind /\ pool'.said.retry = retry
           /\ UNCHANGED <<request, client, edge, up>>
BY DEF Says

\* An answer of the pool leaves the request as it is.
LEMMA SaysRequest ==
    ASSUME Types, RequestInv, SaysSomething, UNCHANGED origin
    PROVE  RequestInv'
<1>1. /\ pool'.pc = "done" /\ UNCHANGED <<request, client>>
      /\ pool'.said.kind = "ok" => pool.pc = "receive"
      /\ pool.pc # "done"
  BY SaysSaid DEF SaysSomething
<1>2. pool.said = Nothing
  BY <1>1 DEF Types, TypeOK
<1>3. client.at # "ok"
  BY <1>2 DEF RequestInv, Nothing
<1> QED  BY <1>1, <1>3 DEF RequestInv, Request

LEMMA SendsRequest ==
    ASSUME Types, RequestInv, PoolSends
    PROVE  RequestInv'
<1>1. pool.unsent \in Seq(Tokens) /\ origin.got \in Seq(Tokens)
  BY DEF Types
<1>2. PICK chunk \in SendChunks :
         /\ origin' = [origin EXCEPT !.method = up.method, !.got = @ \o Take(pool.unsent, chunk)]
         /\ pool' = [pool EXCEPT !.unsent = From(@, chunk + 1),
                                 !.pc = IF Len(pool.unsent) <= chunk THEN "receive"
                                        ELSE "send"]
  BY DEF PoolSends
<1>3. chunk \in Nat /\ chunk + 1 \in Nat \ {0}
  BY FetchAssumption
<1>4. PICK unsent \in Seq(Tokens) : unsent = pool.unsent
  BY <1>1
<1>5. PICK taken \in Seq(Tokens) : taken = Take(unsent, chunk)
  BY <1>3, TakeType
<1>6. PICK rest \in Seq(Tokens) : rest = From(unsent, chunk + 1)
  BY <1>3, FromType
<1>7. PICK got \in Seq(Tokens) : got = origin.got
  BY <1>1
<1>8. /\ pool.pc = "send" /\ UNCHANGED <<request, client>> /\ origin'.got = got \o taken
      /\ pool'.unsent = rest /\ pool'.said = pool.said /\ pool'.pc \in {"send", "receive"}
      /\ pool'.pc = "receive" => Len(unsent) <= chunk
  BY <1>2, <1>4, <1>5, <1>6, <1>7 DEF PoolSends, Types
<1>9. taken \o rest = unsent /\ (Len(unsent) <= chunk => taken = unsent)
  BY <1>5, <1>6, <1>3, TakeFrom
<1>10. (got \o taken) \o rest = got \o (taken \o rest)
  BY ConcatAssociative, SMTT(30)
<1>11. got \o unsent = Request /\ Request' = Request
  BY <1>4, <1>7, <1>8 DEF RequestInv, Request
<1>12. origin'.got \o rest = Request /\ (pool'.pc = "receive" => origin'.got = Request)
  BY <1>8, <1>9, <1>10, <1>11
<1>13. pool.said = Nothing
  BY <1>8 DEF Types, TypeOK
<1>14. client.at # "ok" /\ pool'.said.kind # "ok"
  BY <1>8, <1>13 DEF RequestInv, Nothing
<1>15. /\ pool'.pc \in {"send", "receive"} /\ pool'.unsent = rest /\ client'.at # "ok"
  BY <1>8, <1>14
<1> QED  BY <1>11, <1>12, <1>14, <1>15 DEF RequestInv

LEMMA StepRequest == Types /\ RequestInv /\ [Next]_vars => RequestInv'
<1> SUFFICES ASSUME Types, RequestInv, [Next]_vars
             PROVE  RequestInv'
  OBVIOUS
<1>1. CASE Pool
  <2>1. CASE SaysSomething /\ UNCHANGED origin
    BY <2>1, SaysRequest
  <2>2. CASE PoolGoesOn("idle", "hold") \/ PoolGoesOn("hold", "dial")
    <3>1. UNCHANGED origin
      BY <1>1, <2>2 DEF Pool, PoolReads, PoolHolds, PoolDrops, PoolDials, PoolFails, PoolSends,
         PoolReceives, PoolGoesOn
    <3>2. /\ pool.pc \in {"idle", "hold"} /\ pool'.pc \in {"hold", "dial"}
          /\ UNCHANGED <<request, client, pool.said, origin>>
      BY <2>2, <3>1 DEF PoolGoesOn, Types
    <3> QED  BY <3>2 DEF RequestInv, Request
  <2>3. CASE PoolDrops
    <3>1. pool'.pc = "done" /\ UNCHANGED <<request, client, pool.said, origin>>
      BY <2>3 DEF PoolDrops, Types
    <3> QED  BY <3>1 DEF RequestInv, Request
  <2>4. CASE PoolDials
    <3>1. /\ pool.pc = "dial" /\ pool'.pc = "send" /\ pool'.unsent = Request
          /\ UNCHANGED <<request, client, pool.said, origin>>
      BY <2>4 DEF PoolDials, Types, Request
    <3>2. Request \in Seq(Tokens) /\ <<>> \o Request = Request
      BY RequestType, ConcatEmptySeq
    <3> QED  BY <3>1, <3>2 DEF RequestInv, Request
  <2>5. CASE PoolSends
    BY <2>5, SendsRequest
  <2> QED  BY <1>1, <2>1, <2>2, <2>3, <2>4, <2>5, PoolSteps
<1>2. CASE ~Pool
  <2>1. UNCHANGED <<request, pool>> /\ origin'.got = origin.got
    BY <1>2 DEF Next, ReadFull, vars, EdgeRefuses, EdgeAsks, EdgeNoPool, EdgeReads, EdgeReadFails,
       EdgeHead, EdgeSize, EdgeData, EdgeRest, EdgeAnswers, Answer, OriginAnswers, LinkLost, Types
  <2>2. CASE EdgeAnswers \/ EdgeReadFails \/ EdgeNoPool \/ EdgeRefuses
    <3>1. client'.at = "ok" => client.at = "ok" \/ pool.said.kind = "ok"
      BY <2>2 DEF EdgeAnswers, EdgeReadFails, EdgeNoPool, EdgeRefuses, Answer, Types
    <3> QED  BY <2>1, <3>1 DEF RequestInv, Request
  <2>3. CASE ~(EdgeAnswers \/ EdgeReadFails \/ EdgeNoPool \/ EdgeRefuses)
    <3>1. UNCHANGED client
      BY <1>2, <2>3 DEF Next, ReadFull, vars, EdgeAsks, EdgeReads, EdgeHead, EdgeSize, EdgeData,
         EdgeRest, OriginAnswers, LinkLost
    <3> QED  BY <2>1, <3>1 DEF RequestInv, Request
  <2> QED  BY <2>2, <2>3
<1> QED  BY <1>1, <1>2

\* The origin gets the beginning of the request, in order, however fetch_blocking
\* cuts its slices, and the client of the edge gets no answer to a part of it.
THEOREM RequestsArriveInOrder == Spec => []RequestIntact
<1>1. Types /\ RequestInv => RequestIntact
  <2> SUFFICES ASSUME Types, RequestInv PROVE RequestIntact
    OBVIOUS
  <2>1. PICK left \in Seq(Tokens) : origin.got \o left = Request
    BY DEF RequestInv
  <2>2. origin.got \in Seq(Tokens)
    BY DEF Types
  <2>3. IsPrefix(origin.got, Request)
    BY <2>1, <2>2, PrefixOfWhole
  <2> QED  BY <2>3 DEF RequestInv, RequestIntact, Request
<1> QED  BY <1>1, InitTypes, StepTypes, InitRequest, StepRequest, PTL DEF Spec

-----------------------------------------------------------------------------
(* Reading a stream that is cut anywhere *)

LEMMA CancelLeft ==
    ASSUME NEW S, NEW s \in Seq(S), NEW t \in Seq(S), NEW v \in Seq(S)
    PROVE  s \o t = s \o v => t = v
BY ConcatSimplifications

\* Of a stream, buf has been read and items are to come; it is head and then rest.
Cut(buf, items, head, rest) == buf \o items = head \o rest

\* As much as all of head has been read.
Covers(buf, head) == Len(head) <= Len(buf)

\* The n tokens of head are there when a loop first finds one of the kind.
FirstAt(head, n, kind) ==
    Len(head) = n /\ head[n].kind = kind /\ \A i \in 1 .. n - 1 : head[i].kind # kind

\* The beginning of a stream, of which buf has been read, is taken from buf.
LEMMA Consume ==
    ASSUME NEW S, NEW buf \in Seq(S), NEW items \in Seq(S), NEW h \in Seq(S),
           NEW rest \in Seq(S), Cut(buf, items, h, rest), Covers(buf, h)
    PROVE  /\ SubSeq(buf, 1, Len(h)) = h /\ Take(buf, Len(h)) = h
           /\ From(buf, Len(h) + 1) \o items = rest
           /\ \A i \in 1 .. Len(h) : buf[i] = h[i]
<1>1. /\ Len(buf) \in Nat /\ Len(h) \in Nat /\ Len(items) \in Nat /\ Len(rest) \in Nat
      /\ Len(h) <= Len(buf)
  BY LenProperties DEF Covers
<1>2. PICK n \in Nat : n = Len(h)
  BY <1>1
<1>3. \A i \in 1 .. n : buf[i] = h[i] /\ buf[i] \in S
  <2>1. PICK all : all = buf \o items /\ all = h \o rest
    BY DEF Cut
  <2>2. \A i \in 1 .. Len(buf) + Len(items) :
            all[i] = IF i <= Len(buf) THEN buf[i] ELSE items[i - Len(buf)]
    BY <2>1, ConcatProperties, ZenonT(60)
  <2>3. \A i \in 1 .. Len(h) + Len(rest) :
            all[i] = IF i <= Len(h) THEN h[i] ELSE rest[i - Len(h)]
    BY <2>1, ConcatProperties
  <2>4. \A i \in 1 .. n : i \in 1 .. Len(buf) + Len(items) /\ i \in 1 .. Len(h) + Len(rest)
                          /\ i <= Len(buf) /\ i <= Len(h) /\ i \in 1 .. Len(h)
    BY <1>1, <1>2
  <2>5. \A i \in 1 .. Len(h) : h[i] \in S
    BY ElementOfSeq
  <2> QED  BY <2>2, <2>3, <2>4, <2>5
<1>4. PICK s : s = SubSeq(buf, 1, n)
  OBVIOUS
<1>5. s = h
  <2>1. /\ s \in Seq(S) /\ Len(s) = IF 1 <= n THEN n - 1 + 1 ELSE 0
        /\ \A i \in 1 .. n - 1 + 1 : s[i] = buf[1 + i - 1]
    BY <1>3, <1>4, SubSeqProperties
  <2>2. \A i \in 1 .. n : i \in 1 .. n - 1 + 1 /\ 1 + i - 1 = i
    OBVIOUS
  <2>3. Len(s) = n /\ \A i \in 1 .. n : s[i] = h[i]
    BY <1>3, <2>1, <2>2
  <2> QED  BY <1>2, <2>1, <2>3, SeqEqual
<1>6. PICK f \in Seq(S) : f = From(buf, n + 1)
  BY FromType
<1>7. h \o f = buf
  <2>1. 1 \in 1 .. Len(buf) + 1 /\ n \in 1 - 1 .. Len(buf) /\ Len(buf) \in n .. Len(buf)
    BY <1>1, <1>2
  <2>2. SubSeq(buf, 1, n) \o SubSeq(buf, n + 1, Len(buf)) = SubSeq(buf, 1, Len(buf))
    BY <2>1, ConcatAdjacentSubSeq
  <2> QED  BY <1>4, <1>5, <1>6, <2>2, SubSeqFull DEF From
<1>8. f \o items = rest
  <2>1. (h \o f) \o items = h \o (f \o items)
    BY ConcatAssociative, SMTT(30)
  <2>2. h \o (f \o items) = h \o rest
    BY <1>7, <2>1 DEF Cut
  <2>3. f \o items \in Seq(S)
    BY ConcatProperties
  <2> QED  BY <2>2, <2>3, CancelLeft
<1>9. Take(buf, n) = h
  <2>1. CASE n < Len(buf)
    BY <1>4, <1>5, <2>1 DEF Take
  <2>2. CASE ~(n < Len(buf))
    <3>1. n = Len(buf)
      BY <1>1, <1>2, <2>2
    <3>2. buf = h
      BY <1>4, <1>5, <3>1, SubSeqFull
    <3> QED  BY <2>2, <3>2 DEF Take
  <2> QED  BY <2>1, <2>2
<1> QED  BY <1>2, <1>3, <1>4, <1>5, <1>6, <1>8, <1>9

\* A loop of read_full that waits for a first token of its kind stops at it,
\* however little or much has been read beyond it.
LEMMA FindInHead ==
    ASSUME NEW S, NEW buf \in Seq(S), NEW items \in Seq(S), NEW h \in Seq(S),
           NEW rest \in Seq(S), Cut(buf, items, h, rest),
           NEW n \in Nat \ {0}, NEW kind, FirstAt(h, n, kind),
           Has(buf, kind) \/ items = <<>>
    PROVE  /\ Has(buf, kind) /\ Find(buf, kind) = n
           /\ SubSeq(buf, 1, n - 1) = SubSeq(h, 1, n - 1)
           /\ From(buf, n + 1) \o items = rest
<1>1. Len(buf) \in Nat /\ Len(items) \in Nat /\ Len(rest) \in Nat /\ DOMAIN buf = 1 .. Len(buf)
  BY LenProperties
<1>2. Len(buf) + Len(items) = n + Len(rest)
  <2>1. Len(buf \o items) = Len(buf) + Len(items) /\ Len(h \o rest) = Len(h) + Len(rest)
    BY ConcatProperties
  <2> QED  BY <2>1 DEF Cut, FirstAt
<1>3. n <= Len(buf)
  <2>1. CASE items = <<>>
    <3>1. Len(items) = 0
      BY <2>1
    <3>2. Len(buf) \in Nat /\ Len(rest) \in Nat /\ Len(buf) + Len(items) = n + Len(rest)
      BY <1>1, <1>2
    <3> QED  BY <3>1, <3>2
  <2>2. CASE Has(buf, kind)
    <3>1. PICK i \in 1 .. Len(buf) : buf[i].kind = kind
      BY <1>1, <2>2 DEF Has
    <3>2. SUFFICES ASSUME ~(n <= Len(buf)) PROVE FALSE
      OBVIOUS
    <3>3. i \in 1 .. n - 1 /\ i \in 1 .. Len(buf) + Len(items) /\ i <= Len(buf)
          /\ i \in 1 .. Len(h) + Len(rest) /\ i <= Len(h)
      BY <1>1, <3>2 DEF FirstAt
    <3>4. (buf \o items)[i] = buf[i]
      BY <3>3, ConcatProperties
    <3>5. (h \o rest)[i] = h[i]
      BY <3>3, ConcatProperties
    <3> QED  BY <3>1, <3>3, <3>4, <3>5 DEF Cut, FirstAt
  <2> QED  BY <2>1, <2>2
<1>4. /\ SubSeq(buf, 1, n) = h /\ From(buf, n + 1) \o items = rest
      /\ \A i \in 1 .. n : buf[i] = h[i]
  <2>1. Covers(buf, h)
    BY <1>3 DEF Covers, FirstAt
  <2>2. /\ SubSeq(buf, 1, Len(h)) = h /\ From(buf, Len(h) + 1) \o items = rest
        /\ \A i \in 1 .. Len(h) : buf[i] = h[i]
    BY <2>1, Consume
  <2> QED  BY <2>2 DEF FirstAt
<1>5. n \in 1 .. Len(buf) /\ buf[n].kind = kind
  BY <1>1, <1>3, <1>4 DEF FirstAt
<1>6. Has(buf, kind)
  BY <1>1, <1>5 DEF Has
<1>7. Find(buf, kind) = n
  <2>1. PICK m : m = Find(buf, kind)
    OBVIOUS
  <2>2. m \in 1 .. Len(buf) /\ buf[m].kind = kind /\ m <= n
    BY <1>5, <1>6, <2>1, FindFirst
  <2>3. m \in 1 .. n - 1 \/ m = n
    BY <1>1, <2>2
  <2>4. m \in 1 .. n - 1 => m \in 1 .. n
    OBVIOUS
  <2> QED  BY <1>4, <2>1, <2>2, <2>3, <2>4 DEF FirstAt
<1>8. SubSeq(buf, 1, n - 1) = SubSeq(h, 1, n - 1)
  <2>1. PICK s : s = SubSeq(buf, 1, n - 1)
    OBVIOUS
  <2>2. PICK t : t = SubSeq(h, 1, n - 1)
    OBVIOUS
  <2>3. \A i \in 1 .. n - 1 : buf[i] = h[i] /\ buf[i] \in S /\ h[i] \in S
    <3>1. n = Len(h)
      BY DEF FirstAt
    <3>2. \A i \in 1 .. n - 1 : i \in 1 .. n /\ i \in 1 .. Len(h) /\ i \in 1 .. Len(buf)
      BY <1>1, <1>3, <3>1
    <3> QED  BY <1>4, <3>2, ElementOfSeq
  <2>4. /\ s \in Seq(S) /\ Len(s) = IF 1 <= n - 1 THEN n - 1 - 1 + 1 ELSE 0
        /\ \A i \in 1 .. n - 1 - 1 + 1 : s[i] = buf[1 + i - 1]
    BY <2>1, <2>3, SubSeqProperties
  <2>5. /\ t \in Seq(S) /\ Len(t) = IF 1 <= n - 1 THEN n - 1 - 1 + 1 ELSE 0
        /\ \A i \in 1 .. n - 1 - 1 + 1 : t[i] = h[1 + i - 1]
    BY <2>2, <2>3, SubSeqProperties
  <2>6. /\ Len(s) = n - 1
        /\ \A i \in 1 .. n - 1 : i \in 1 .. n - 1 - 1 + 1 /\ 1 + i - 1 = i
    BY <2>4
  <2>7. Len(s) = Len(t) /\ \A i \in 1 .. Len(s) : s[i] = t[i]
    BY <2>3, <2>4, <2>5, <2>6
  <2> QED  BY <2>1, <2>2, <2>4, <2>5, <2>7, SeqEqual
<1> QED  BY <1>4, <1>6, <1>7, <1>8

\* What read_full finds in a head that names the framing of the body.
LEMMA HeadFound ==
    ASSUME NEW buf \in Seq(Pieces), NEW items \in Seq(Pieces), NEW rest \in Seq(Pieces),
           NEW framing \in {"length", "chunked"}, NEW m \in 0 .. JsonLength,
           Cut(buf, items, <<Start, Token(framing, m), Blank>>, rest),
           Has(buf, "blank") \/ items = <<>>
    PROVE  LET head == SubSeq(buf, 1, Find(buf, "blank") - 1) IN
              /\ Has(buf, "blank") /\ Find(buf, "blank") = 3
              /\ FramingOf(head) = framing
              /\ framing = "length" => head[Find(head, "length")].n = m
              /\ From(buf, 4) \o items = rest
<1>1. PICK h \in Seq(Pieces) : h = <<Start, Token(framing, m), Blank>>
  BY Singles DEF Framings
<1>2. /\ Len(h) = 3 /\ h[3].kind = "blank" /\ h[1].kind = "start" /\ h[2].kind = framing
      /\ h[2].n = m
  BY <1>1 DEF Start, Token, Blank
<1>3. PICK n \in Nat \ {0} : n = 3
  OBVIOUS
<1>4. FirstAt(h, n, "blank") /\ Cut(buf, items, h, rest)
  <2>1. \A i \in 1 .. n - 1 : i = 1 \/ i = 2
    BY <1>3
  <2>2. h[1].kind # "blank" /\ h[2].kind # "blank"
    BY <1>2
  <2> QED  BY <1>1, <1>2, <1>3, <2>1, <2>2 DEF FirstAt
<1>5. /\ Has(buf, "blank") /\ Find(buf, "blank") = n
      /\ SubSeq(buf, 1, n - 1) = SubSeq(h, 1, n - 1)
      /\ From(buf, n + 1) \o items = rest
  BY <1>4, FindInHead
<1>6. PICK head : head = SubSeq(h, 1, 2)
  OBVIOUS
<1>7. /\ head \in Seq(Pieces) /\ Len(head) = 2 /\ head[1].kind = "start"
      /\ head[2].kind = framing /\ head[2].n = m
  <2>1. \A i \in 1 .. 2 : h[i] \in Pieces
    <3>1. \A i \in 1 .. 2 : i \in 1 .. 3 /\ 3 = Len(h)
      BY <1>2
    <3> QED  BY <3>1, ElementOfSeq
  <2>2. /\ head \in Seq(Pieces) /\ Len(head) = IF 1 <= 2 THEN 2 - 1 + 1 ELSE 0
        /\ \A i \in 1 .. 2 - 1 + 1 : head[i] = h[1 + i - 1]
    BY <1>6, <2>1, SubSeqProperties
  <2>3. Len(head) = 2 /\ head[1] = h[1] /\ head[2] = h[2]
    BY <2>2
  <2> QED  BY <1>2, <2>2, <2>3
<1>8. DOMAIN head = {1, 2}
  <2>1. DOMAIN head = 1 .. 2
    BY <1>7, LenProperties
  <2> QED  BY <2>1
<1>9. FramingOf(head) = framing
  BY <1>7, <1>8 DEF FramingOf, Has
<1>10. ASSUME framing = "length" PROVE head[Find(head, "length")].n = m
  <2>1. Has(head, "length")
    BY <1>7, <1>8, <1>10 DEF Has
  <2>2. Find(head, "length") \in 1 .. 2 /\ head[Find(head, "length")].kind = "length"
    BY <1>7, <2>1, FindFirst
  <2>3. Find(head, "length") = 1 \/ Find(head, "length") = 2
    BY <2>2
  <2> QED  BY <1>7, <2>2, <2>3
<1>11. n - 1 = 2 /\ n + 1 = 4
  BY <1>3
<1> QED  BY <1>3, <1>5, <1>6, <1>9, <1>10, <1>11

\* The line of a size.
LEMMA SizeFound ==
    ASSUME NEW buf \in Seq(Pieces), NEW items \in Seq(Pieces), NEW rest \in Seq(Pieces),
           NEW m \in 0 .. JsonLength,
           Cut(buf, items, <<Token("size", m), Crlf>>, rest),
           Has(buf, "crlf") \/ items = <<>>
    PROVE  LET line == SubSeq(buf, 1, Find(buf, "crlf") - 1) IN
              /\ Has(buf, "crlf") /\ line # <<>> /\ line[1].n = m /\ Len(line) = 1
              /\ From(buf, 3) \o items = rest
<1>1. PICK h \in Seq(Pieces) : h = <<Token("size", m), Crlf>>
  BY Singles
<1>2. Len(h) = 2 /\ h[1].kind = "size" /\ h[1].n = m /\ h[2].kind = "crlf"
  BY <1>1 DEF Token, Crlf
<1>3. PICK n \in Nat \ {0} : n = 2
  OBVIOUS
<1>4. FirstAt(h, n, "crlf") /\ Cut(buf, items, h, rest)
  <2>1. \A i \in 1 .. n - 1 : i = 1
    BY <1>3
  <2> QED  BY <1>1, <1>2, <1>3, <2>1 DEF FirstAt
<1>5. /\ Has(buf, "crlf") /\ Find(buf, "crlf") = n
      /\ SubSeq(buf, 1, n - 1) = SubSeq(h, 1, n - 1)
      /\ From(buf, n + 1) \o items = rest
  BY <1>4, FindInHead
<1>6. PICK line : line = SubSeq(h, 1, 1)
  OBVIOUS
<1>7. Len(line) = 1 /\ line[1].n = m
  <2>1. \A i \in 1 .. 1 : h[i] \in Pieces
    <3>1. \A i \in 1 .. 1 : i \in 1 .. 2 /\ 2 = Len(h)
      BY <1>2
    <3> QED  BY <3>1, ElementOfSeq
  <2>2. /\ Len(line) = IF 1 <= 1 THEN 1 - 1 + 1 ELSE 0
        /\ \A i \in 1 .. 1 - 1 + 1 : line[i] = h[1 + i - 1]
    BY <1>6, <2>1, SubSeqProperties
  <2>3. Len(line) = 1 /\ line[1] = h[1]
    BY <2>2
  <2> QED  BY <1>2, <2>3
<1>8. line # <<>>
  <2>1. Len(<<>>) = 0 /\ Len(line) = 1
    BY <1>7
  <2>2. Len(line) # Len(<<>>)
    BY <2>1
  <2> QED  BY <2>2
<1>9. n - 1 = 1 /\ n + 1 = 3
  BY <1>3
<1> QED  BY <1>3, <1>5, <1>6, <1>7, <1>8, <1>9

-----------------------------------------------------------------------------
(* A body in chunks *)

\* What follows the first b bytes of an answer in chunks.
Rest(b) == Chunk(b + 1, JsonLength) \o LastChunk

\* What follows the size of a chunk with the bytes up to b.
ChunkRest(a, b) == Bytes(a + 1, b) \o (<<Crlf>> \o Rest(b))

\* What may follow the first a bytes, where a size is expected.
Sized(a) == {Rest(a)} \cup {Chunk(a + 1, b) \o Rest(b) : b \in a + 1 .. JsonLength}

LEMMA RestType ==
    ASSUME NEW b \in 0 .. JsonLength
    PROVE  Rest(b) \in Seq(Pieces) /\ <<Crlf>> \o Rest(b) \in Seq(Pieces)
<1>1. /\ b + 1 \in Nat \ {0} /\ JsonLength \in 0 .. JsonLength
      /\ b + 1 <= JsonLength + 1
  BY FetchAssumption
<1>2. PICK c \in Seq(Pieces) : c = Chunk(b + 1, JsonLength)
  BY <1>1, ChunkType
<1>3. PICK l \in Seq(Pieces) : l = LastChunk
  BY Singles
<1>4. PICK r \in Seq(Pieces) : r = c \o l
  BY ConcatProperties
<1>5. PICK e \in Seq(Pieces) : e = <<Crlf>>
  BY Singles
<1>6. e \o r \in Seq(Pieces)
  BY ConcatProperties
<1> QED  BY <1>2, <1>3, <1>4, <1>5, <1>6 DEF Rest

LEMMA SomeBytes ==
    ASSUME NEW a \in 0 .. JsonLength, NEW b \in a .. JsonLength
    PROVE  /\ Bytes(a + 1, b) \in Seq(Pieces) /\ Len(Bytes(a + 1, b)) = b - a
           /\ \A i \in 1 .. b - a : Bytes(a + 1, b)[i] = Token("byte", a + i)
<1>1. PICK c \in Nat \ {0} : c = a + 1
  OBVIOUS
<1>2. b \in Nat /\ b <= JsonLength /\ c <= b + 1
  BY <1>1, FetchAssumption
<1>3. /\ Len(Bytes(c, b)) = b - c + 1 /\ Bytes(c, b) \in Seq(Pieces)
      /\ \A i \in 1 .. b - c + 1 : Bytes(c, b)[i] = Token("byte", c + i - 1)
  BY <1>2, BytesType
<1>4. b - c + 1 = b - a /\ \A i \in 1 .. b - a : c + i - 1 = a + i
  BY <1>1, <1>2
<1> QED  BY <1>1, <1>3, <1>4

LEMMA FirstBytes ==
    ASSUME NEW n \in 0 .. JsonLength
    PROVE  /\ Bytes(1, n) \in Seq(Pieces) /\ Len(Bytes(1, n)) = n
           /\ \A i \in 1 .. n : Bytes(1, n)[i] = Token("byte", i)
<1>1. n \in Nat /\ n <= JsonLength /\ 1 <= n + 1 /\ 1 \in Nat \ {0}
  BY FetchAssumption
<1>2. /\ Len(Bytes(1, n)) = n - 1 + 1 /\ Bytes(1, n) \in Seq(Pieces)
      /\ \A i \in 1 .. n - 1 + 1 : Bytes(1, n)[i] = Token("byte", 1 + i - 1)
  BY <1>1, BytesType
<1>3. n - 1 + 1 = n /\ \A i \in 1 .. n : 1 + i - 1 = i
  BY <1>1
<1> QED  BY <1>2, <1>3

LEMMA BytesJoin ==
    ASSUME NEW a \in 0 .. JsonLength, NEW b \in a .. JsonLength
    PROVE  Bytes(1, a) \o Bytes(a + 1, b) = Bytes(1, b)
<1>1. b \in 0 .. JsonLength
  OBVIOUS
<1>2. PICK x \in Seq(Pieces) :
         x = Bytes(1, a) /\ Len(x) = a /\ \A i \in 1 .. a : x[i] = Token("byte", i)
  BY FirstBytes
<1>3. PICK y \in Seq(Pieces) :
         y = Bytes(a + 1, b) /\ Len(y) = b - a /\ \A i \in 1 .. b - a : y[i] = Token("byte", a + i)
  BY SomeBytes
<1>4. PICK z \in Seq(Pieces) :
         z = Bytes(1, b) /\ Len(z) = b /\ \A i \in 1 .. b : z[i] = Token("byte", i)
  BY <1>1, FirstBytes
<1>5. PICK w : w = x \o y
  OBVIOUS
<1>10. /\ w \in Seq(Pieces) /\ Len(w) = Len(x) + Len(y)
      /\ \A i \in 1 .. Len(x) + Len(y) : w[i] = IF i <= Len(x) THEN x[i] ELSE y[i - Len(x)]
  BY <1>5, ConcatProperties
<1>6. Len(w) = Len(z) /\ \A i \in 1 .. Len(w) : w[i] = z[i]
  <2>1. Len(x) + Len(y) = b
    <3>1. Len(x) = a
      BY <1>2
    <3>2. Len(y) = b - a
      BY <1>3
    <3>3. a \in Int /\ b \in Int
      BY <1>1
    <3> QED  BY <3>1, <3>2, <3>3
  <2>2. ASSUME NEW i \in 1 .. b PROVE w[i] = z[i]
    <3>1. CASE i <= a
      <4>1. i \in 1 .. a
        BY <3>1
      <4> QED  BY <1>2, <1>4, <1>10, <2>1, <3>1, <4>1
    <3>2. CASE ~(i <= a)
      <4>1. i - a \in 1 .. b - a /\ a + (i - a) = i
        BY <3>2
      <4> QED  BY <1>2, <1>3, <1>4, <1>10, <2>1, <3>2, <4>1
    <3> QED  BY <3>1, <3>2
  <2> QED  BY <1>4, <1>10, <2>1, <2>2
<1>7. w = z
  BY <1>6, <1>10, SeqEqual
<1> QED  BY <1>2, <1>3, <1>4, <1>5, <1>7

LEMMA ChunkRestType ==
    ASSUME NEW a \in 0 .. JsonLength, NEW b \in a + 1 .. JsonLength
    PROVE  /\ ChunkRest(a, b) \in Seq(Pieces)
           /\ Bytes(a + 1, b) \in Seq(Pieces) /\ Len(Bytes(a + 1, b)) = b - a
<1>1. b \in a .. JsonLength /\ b \in 0 .. JsonLength
  OBVIOUS
<1>2. PICK d \in Seq(Pieces) : d = Bytes(a + 1, b) /\ Len(d) = b - a
  BY <1>1, SomeBytes
<1>3. PICK r \in Seq(Pieces) : r = <<Crlf>> \o Rest(b)
  BY <1>1, RestType
<1>4. d \o r \in Seq(Pieces)
  BY ConcatProperties
<1> QED  BY <1>2, <1>3, <1>4 DEF ChunkRest

\* A chunk of the bytes after a up to b.
IsChunk(a, b) == a \in 0 .. JsonLength /\ b \in a + 1 .. JsonLength

\* Four pieces of a stream joined from the left are the same joined from the right.
Regrouped(h, d, e, r) == ((h \o d) \o e) \o r = h \o (d \o (e \o r))

LEMMA Regroup ==
    ASSUME NEW h \in Seq(Pieces), NEW d \in Seq(Pieces), NEW e \in Seq(Pieces),
           NEW r \in Seq(Pieces)
    PROVE  Regrouped(h, d, e, r)
<1>1. PICK x \in Seq(Pieces) : x = h \o d
  BY ConcatProperties
<1>2. PICK y \in Seq(Pieces) : y = e \o r
  BY ConcatProperties
<1>3. (x \o e) \o r = x \o (e \o r)
  BY ConcatAssociative, SMTT(30)
<1>4. (h \o d) \o y = h \o (d \o y)
  BY ConcatAssociative, SMTT(30)
<1> QED  BY <1>1, <1>2, <1>3, <1>4 DEF Regrouped

LEMMA ChunkStart ==
    ASSUME NEW a, NEW b, IsChunk(a, b)
    PROVE  Chunk(a + 1, b) \o Rest(b) = <<Token("size", b - a), Crlf>> \o ChunkRest(a, b)
<1>1. b - a \in 0 .. JsonLength /\ b - (a + 1) + 1 = b - a /\ ~(a + 1 > b) /\ b \in 0 .. JsonLength
  BY FetchAssumption DEF IsChunk
<1>2. PICK h \in Seq(Pieces) : h = <<Token("size", b - a), Crlf>>
  BY <1>1, Singles
<1>3. PICK d \in Seq(Pieces) : d = Bytes(a + 1, b)
  BY ChunkRestType DEF IsChunk
<1>4. PICK e \in Seq(Pieces) : e = <<Crlf>>
  BY Singles
<1>5. PICK r \in Seq(Pieces) : r = Rest(b)
  BY <1>1, RestType
<1>6. Chunk(a + 1, b) = h \o d \o e
  BY <1>1, <1>2, <1>3, <1>4 DEF Chunk
<1>7. Regrouped(h, d, e, r)
  BY Regroup
<1>8. ChunkRest(a, b) = d \o (e \o r)
  BY <1>3, <1>4, <1>5 DEF ChunkRest
<1> QED  BY <1>2, <1>5, <1>6, <1>7, <1>8 DEF Regrouped

LEMMA LastParts == LastChunk = <<Token("size", 0), Crlf>> \o <<Crlf>>
BY DEF LastChunk

LEMMA RestAtEnd == Rest(JsonLength) = LastChunk /\ LastChunk \o <<>> = LastChunk
<1>1. JsonLength + 1 > JsonLength
  BY FetchAssumption
<1>2. Chunk(JsonLength + 1, JsonLength) = <<>>
  BY <1>1 DEF Chunk
<1>3. PICK l \in Seq(Pieces) : l = LastChunk
  BY Singles
<1>4. <<>> \o l = l /\ l \o <<>> = l
  BY ConcatEmptySeq
<1> QED  BY <1>2, <1>3, <1>4 DEF Rest

\* Where a size is expected there is one: the last, or that of a chunk.
LEMMA SizedStart ==
    ASSUME NEW a \in 0 .. JsonLength, NEW left \in Sized(a)
    PROVE  \/ a = JsonLength /\ left = LastChunk
           \/ \E b \in a + 1 .. JsonLength :
                 left = <<Token("size", b - a), Crlf>> \o ChunkRest(a, b)
<1>1. CASE left = Rest(a)
  <2>1. CASE a = JsonLength
    BY <1>1, <2>1, RestAtEnd
  <2>2. CASE a # JsonLength
    <3>1. JsonLength \in a + 1 .. JsonLength
      BY <2>2, FetchAssumption
    <3>2. left = Chunk(a + 1, JsonLength) \o Rest(JsonLength)
      BY <1>1, RestAtEnd DEF Rest
    <3> QED  BY <3>1, <3>2, ChunkStart DEF IsChunk
  <2> QED  BY <2>1, <2>2
<1>2. CASE left \in {Chunk(a + 1, b) \o Rest(b) : b \in a + 1 .. JsonLength}
  BY <1>2, ChunkStart DEF IsChunk
<1> QED  BY <1>1, <1>2 DEF Sized

LEMMA ChunksSized ==
    ASSUME NEW k \in 0 .. JsonLength
    PROVE  Chunks(JsonLength, k) \in Sized(0)
<1>1. /\ k + 1 \in Nat \ {0} /\ JsonLength \in 0 .. JsonLength
      /\ k + 1 <= JsonLength + 1 /\ 1 <= k + 1 /\ 1 \in Nat \ {0} /\ 0 + 1 = 1
  BY FetchAssumption
<1>2. PICK c \in Seq(Pieces) : c = Chunk(1, k)
  BY <1>1, ChunkType
<1>3. PICK d \in Seq(Pieces) : d = Chunk(k + 1, JsonLength)
  BY <1>1, ChunkType
<1>4. PICK l \in Seq(Pieces) : l = LastChunk
  BY Singles
<1>5. (c \o d) \o l = c \o (d \o l)
  BY ConcatAssociative, SMTT(30)
<1>6. Chunks(JsonLength, k) = c \o Rest(k)
  BY <1>2, <1>3, <1>4, <1>5 DEF Chunks, Rest
<1>7. CASE k = 0
  <2>1. c = <<>>
    BY <1>2, <1>7 DEF Chunk
  <2>2. PICK r \in Seq(Pieces) : r = Rest(k)
    BY RestType
  <2>3. <<>> \o r = r
    BY ConcatEmptySeq
  <2> QED  BY <1>6, <1>7, <2>1, <2>2, <2>3 DEF Sized
<1>8. CASE k # 0
  <2>1. k \in 0 + 1 .. JsonLength
    BY <1>8
  <2> QED  BY <1>1, <1>2, <1>6, <2>1 DEF Sized
<1> QED  BY <1>7, <1>8

-----------------------------------------------------------------------------
(* An answer that left the pool whole *)

\* Before the pool has answered there is nothing to read, and it has not been
\* asked before the edge waits for the answer.
Quiet ==
    /\ pool.pc # "done" \/ down.end = "open" => down.items = <<>>
    /\ up.at = "none" => pool.pc = "idle"
    /\ edge.pc = "reading" => up.at = "none"
    /\ edge.pc = "reading" \/ (up.at = "sent" /\ down.end = "open") =>
          edge.pc \in {"reading", "head"} /\ edge.buf = <<>> /\ edge.body = <<>>
    /\ pool.pc \in {"hold", "dial", "send", "receive"} => request.target = "url"

\* What the edge has read but not used, and what is still to come.
Left == edge.buf \o down.items

InHead ==
    /\ edge.pc = "head" /\ edge.body = <<>>
    /\ \E framing \in {"length", "chunked"}, k \in 0 .. JsonLength :
          Left = Message(framing, JsonLength, k)
InExact == edge.pc = "exact" /\ edge.need = JsonLength /\ Left = Bytes(1, JsonLength)
InSize ==
    /\ edge.pc = "size"
    /\ \E a \in 0 .. JsonLength : edge.body = Bytes(1, a) /\ Left \in Sized(a)
InData ==
    /\ edge.pc = "data"
    /\ \E a \in 0 .. JsonLength : \E b \in a + 1 .. JsonLength :
          edge.body = Bytes(1, a) /\ edge.need = b - a /\ Left = ChunkRest(a, b)
InJudge == edge.pc = "judge" /\ edge.body = Bytes(1, JsonLength)
Understood ==
    /\ edge.pc = "done"
    /\ pool.said.kind = "ok" => client.at = "ok"
    /\ pool.said.kind = "manager" => client.at = "raw" /\ client.body = Bytes(1, JsonLength)

\* Of a whole answer, every byte is read or still to be read, in order, and the
\* edge is where its framing says.
WholeAnswer == pool.said.whole /\ pool.said.kind \in {"ok", "manager"}
Reading == InHead \/ InExact \/ InSize \/ InData \/ InJudge \/ Understood
Heard ==
    WholeAnswer =>
        /\ down.end = "fin" /\ up.at = "sent"
        /\ pool.said.kind = "manager" <=> request.target = "path"
        /\ Reading

LEMMA LeftType ==
    ASSUME Types
    PROVE  edge.buf \in Seq(Pieces) /\ edge.body \in Seq(Pieces) /\ down.items \in Seq(Pieces)
BY DEF Types

\* A step of the edge that keeps the place of the edge in a whole answer.
LEMMA EdgeHears ==
    ASSUME Heard, UNCHANGED <<request, up, pool>>, down'.end = down.end,
           WholeAnswer /\ Reading /\ (pool.said.kind = "manager" <=> request.target = "path")
              => Reading'
    PROVE  Heard'
BY DEF Heard, WholeAnswer

LEMMA ReadsHeard == ASSUME Types, Heard, EdgeReads PROVE Heard'
<1>1. PICK n \in 1 .. Len(down.items) :
          /\ edge' = [edge EXCEPT !.buf = @ \o SubSeq(down.items, 1, n)]
          /\ down' = [down EXCEPT !.items = From(@, n + 1)]
  BY DEF EdgeReads
<1>2. UNCHANGED <<request, client, up, pool>>
  BY DEF EdgeReads
<1>3. PICK b \in Seq(Pieces) : b = edge.buf
  BY LeftType
<1>4. PICK i \in Seq(Pieces) : i = down.items
  BY LeftType
<1>5. /\ edge'.pc = edge.pc /\ edge'.need = edge.need /\ edge'.body = edge.body
      /\ edge'.buf = b \o SubSeq(i, 1, n)
      /\ down'.items = From(i, n + 1) /\ down'.end = down.end
  BY <1>1, <1>3, <1>4 DEF Types
<1>6. Len(i) \in Nat /\ n \in 1 .. Len(i)
  BY <1>1, <1>4, LenProperties
<1>7. PICK m \in Nat \ {0} : m = n + 1
  BY <1>6
<1>8. PICK s \in Seq(Pieces) : s = SubSeq(i, 1, n)
  <2>1. 1 \in Nat \ {0} /\ n \in Int /\ n <= Len(i)
    BY <1>6
  <2> QED  BY <2>1, Slice
<1>9. PICK f \in Seq(Pieces) : f = From(i, m)
  BY FromType
<1>10. s \o f = i
  <2>1. 1 \in 1 .. Len(i) + 1 /\ n \in 1 - 1 .. Len(i) /\ Len(i) \in n .. Len(i)
    BY <1>6
  <2>2. SubSeq(i, 1, n) \o SubSeq(i, n + 1, Len(i)) = SubSeq(i, 1, Len(i))
    BY <2>1, ConcatAdjacentSubSeq
  <2> QED  BY <1>7, <1>8, <1>9, <2>2, SubSeqFull DEF From
<1>11. (b \o s) \o f = b \o (s \o f)
  BY ConcatAssociative, SMTT(30)
<1>12. Left' = Left
  BY <1>3, <1>4, <1>5, <1>7, <1>8, <1>9, <1>10, <1>11 DEF Left
<1>13. Reading => Reading'
  BY <1>2, <1>5, <1>12 DEF Reading, InHead, InExact, InSize, InData, InJudge, Understood
<1> QED  BY <1>2, <1>5, <1>13, EdgeHears

LEMMA HeadHeard == ASSUME Types, Heard, EdgeHead PROVE Heard'
<1>1. /\ edge.pc = "head" /\ UNCHANGED <<request, client, up, down, pool>>
      /\ edge'.pc = (IF FramingOf(HeadRead) = "chunked" THEN "size"
                     ELSE IF HeadLength # 0 THEN "exact" ELSE "tail")
      /\ edge'.need = HeadLength /\ edge'.body = edge.body
      /\ edge'.buf = From(edge.buf, HeadAt + 1)
  BY DEF EdgeHead, HeadLength, HeadRead, HeadAt, Types
<1>2. Has(edge.buf, "blank") \/ down.items = <<>>
  BY DEF EdgeHead, Short, Ended
<1>3. ASSUME Reading PROVE Reading'
  <2>1. PICK framing \in {"length", "chunked"}, k \in 0 .. JsonLength :
           Left = Message(framing, JsonLength, k)
    BY <1>1, <1>3 DEF Reading, InHead, InExact, InSize, InData, InJudge, Understood
  <2>2. edge.body = <<>>
    BY <1>1, <1>3 DEF Reading, InHead, InExact, InSize, InData, InJudge, Understood
  <2>3. JsonLength \in 0 .. JsonLength /\ JsonLength # 0 /\ 0 \in 0 .. JsonLength
    BY FetchAssumption
  <2>4. PICK rest \in Seq(Pieces) :
           rest = IF framing = "chunked" THEN Chunks(JsonLength, k) ELSE Bytes(1, JsonLength)
    BY <2>3, ChunksType, FirstBytes
  <2>5. Cut(edge.buf, down.items, <<Start, Token(framing, JsonLength), Blank>>, rest)
    BY <2>1, <2>4, MessageParts DEF Cut, Left
  <2>6. PICK buf \in Seq(Pieces), items \in Seq(Pieces) : buf = edge.buf /\ items = down.items
    BY LeftType
  <2>7. LET head == SubSeq(buf, 1, Find(buf, "blank") - 1) IN
           /\ Has(buf, "blank") /\ Find(buf, "blank") = 3
           /\ FramingOf(head) = framing
           /\ framing = "length" => head[Find(head, "length")].n = JsonLength
           /\ From(buf, 4) \o items = rest
    BY <1>2, <2>3, <2>5, <2>6, HeadFound, ZenonT(60)
  <2>8. HeadAt = 3 /\ FramingOf(HeadRead) = framing
        /\ (framing = "length" => HeadLength = JsonLength)
    BY <2>6, <2>7 DEF HeadAt, HeadRead, HeadLength
  <2>9. edge'.buf = From(buf, 4) /\ Left' = rest
    <3>1. HeadAt + 1 = 4 /\ From(buf, 4) \o items = rest
      BY <2>7, <2>8
    <3> QED  BY <1>1, <2>6, <3>1 DEF Left
  <2>10. CASE framing = "chunked"
    <3>1. Bytes(1, 0) = <<>>
      BY DEF Bytes
    <3>2. Left' \in Sized(0) /\ edge'.body = Bytes(1, 0) /\ edge'.pc = "size"
      BY <1>1, <2>2, <2>4, <2>8, <2>9, <2>10, <3>1, ChunksSized
    <3>3. InSize'
      BY <2>3, <3>2 DEF InSize
    <3> QED  BY <3>3 DEF Reading
  <2>11. CASE framing = "length"
    <3>1. edge'.pc = "exact" /\ edge'.need = JsonLength /\ Left' = Bytes(1, JsonLength)
      BY <1>1, <2>3, <2>4, <2>8, <2>9, <2>11
    <3> QED  BY <3>1 DEF Reading, InExact
  <2> QED  BY <2>10, <2>11
<1> QED  BY <1>1, <1>3, EdgeHears

LEMMA SizeHeard == ASSUME Types, Heard, EdgeSize PROVE Heard'
<1>1. /\ edge.pc = "size" /\ UNCHANGED <<request, client, up, down, pool>>
      /\ edge'.pc = (IF SizeRead = 0 THEN "judge" ELSE "data")
      /\ edge'.need = SizeRead /\ edge'.body = edge.body
      /\ edge'.buf = (IF Short THEN <<>> ELSE From(edge.buf, Len(SizeLine) + 2))
  BY DEF EdgeSize, SizeRead, SizeLine, Types
<1>2. Has(edge.buf, "crlf") \/ down.items = <<>>
  BY DEF EdgeSize, Short, Ended
<1>3. ASSUME Reading PROVE Reading'
  <2>1. PICK a \in 0 .. JsonLength : edge.body = Bytes(1, a) /\ Left \in Sized(a)
    BY <1>1, <1>3 DEF Reading, InHead, InExact, InSize, InData, InJudge, Understood
  <2>2. PICK m \in 0 .. JsonLength, rest \in Seq(Pieces) :
           /\ Cut(edge.buf, down.items, <<Token("size", m), Crlf>>, rest)
           /\ \/ m = 0 /\ a = JsonLength
              \/ \E b \in a + 1 .. JsonLength : m = b - a /\ rest = ChunkRest(a, b)
    <3>1. CASE a = JsonLength /\ Left = LastChunk
      <4>1. Cut(edge.buf, down.items, <<Token("size", 0), Crlf>>, <<Crlf>>)
        BY <3>1, LastParts DEF Cut, Left
      <4>2. 0 \in 0 .. JsonLength /\ <<Crlf>> \in Seq(Pieces)
        BY FetchAssumption, Singles
      <4> QED  BY <3>1, <4>1, <4>2
    <3>2. CASE \E b \in a + 1 .. JsonLength :
                  Left = <<Token("size", b - a), Crlf>> \o ChunkRest(a, b)
      <4>1. PICK b \in a + 1 .. JsonLength :
                  Left = <<Token("size", b - a), Crlf>> \o ChunkRest(a, b)
        BY <3>2
      <4>2. Cut(edge.buf, down.items, <<Token("size", b - a), Crlf>>, ChunkRest(a, b))
        BY <4>1 DEF Cut, Left
      <4>3. b - a \in 0 .. JsonLength /\ ChunkRest(a, b) \in Seq(Pieces)
        BY FetchAssumption, ChunkRestType
      <4> QED  BY <4>2, <4>3
    <3> QED  BY <2>1, <3>1, <3>2, SizedStart
  <2>3. PICK buf \in Seq(Pieces), items \in Seq(Pieces) : buf = edge.buf /\ items = down.items
    BY LeftType
  <2>4. LET line == SubSeq(buf, 1, Find(buf, "crlf") - 1) IN
           /\ Has(buf, "crlf") /\ line # <<>> /\ line[1].n = m /\ Len(line) = 1
           /\ From(buf, 3) \o items = rest
    <3>1. /\ Cut(buf, items, <<Token("size", m), Crlf>>, rest)
          /\ Has(buf, "crlf") \/ items = <<>>
      BY <1>2, <2>2, <2>3
    <3> QED  BY <3>1, SizeFound
  <2>5. ~Short
    BY <1>1, <2>3, <2>4 DEF Short
  <2>6. SizeRead = m /\ Len(SizeLine) = 1
    BY <2>3, <2>4, <2>5 DEF SizeRead, SizeLine
  <2>7. edge'.buf = From(buf, 3) /\ Left' = rest
    <3>1. Len(SizeLine) + 2 = 3
      BY <2>6
    <3> QED  BY <1>1, <2>3, <2>4, <2>5, <3>1 DEF Left
  <2>8. CASE m = 0 /\ a = JsonLength
    BY <1>1, <2>1, <2>6, <2>8 DEF Reading, InJudge
  <2>9. CASE \E b \in a + 1 .. JsonLength : m = b - a /\ rest = ChunkRest(a, b)
    <3>1. PICK b \in a + 1 .. JsonLength : m = b - a /\ rest = ChunkRest(a, b)
      BY <2>9
    <3>2. m # 0
      BY <3>1
    <3>3. /\ edge'.pc = "data" /\ edge'.need = b - a /\ edge'.body = Bytes(1, a)
          /\ Left' = ChunkRest(a, b)
      BY <1>1, <2>1, <2>6, <2>7, <3>1, <3>2
    <3>4. InData'
      BY <3>3 DEF InData
    <3> QED  BY <3>4 DEF Reading
  <2> QED  BY <2>2, <2>8, <2>9
<1> QED  BY <1>1, <1>3, EdgeHears

LEMMA EndCovers ==
    ASSUME NEW S, NEW buf \in Seq(S), NEW items \in Seq(S), NEW h \in Seq(S),
           NEW rest \in Seq(S), Cut(buf, items, h, rest), items = <<>>
    PROVE  Covers(buf, h)
<1>1. buf = h \o rest
  BY ConcatEmptySeq DEF Cut
<1>2. Len(h \o rest) = Len(h) + Len(rest) /\ Len(h) \in Nat /\ Len(rest) \in Nat
  BY ConcatProperties, LenProperties
<1>3. Len(h) <= Len(h) + Len(rest)
  BY <1>2
<1> QED  BY <1>1, <1>2, <1>3 DEF Covers

LEMMA CutLater ==
    ASSUME NEW S, NEW d \in Seq(S), NEW e \in Seq(S), NEW r \in Seq(S), NEW h, NEW er,
           h = d \o e, er = e \o r, NEW buf, NEW items, Cut(buf, items, d, er)
    PROVE  Cut(buf, items, h, r)
<1>1. (d \o e) \o r = d \o (e \o r)
  BY ConcatAssociative, SMTT(30)
<1> QED  BY <1>1 DEF Cut

LEMMA DataHeard == ASSUME Types, Heard, EdgeData PROVE Heard'
<1>1. /\ edge.pc = "data" /\ UNCHANGED <<request, client, up, down, pool>>
      /\ edge'.pc = "size"
      /\ edge'.body = edge.body \o Take(edge.buf, edge.need)
      /\ edge'.buf = From(edge.buf, edge.need + 2)
  BY DEF EdgeData, Types
<1>2. ~(Len(edge.buf) < edge.need + 1) \/ down.items = <<>>
  BY DEF EdgeData, Short, Ended
<1>3. ASSUME Reading PROVE Reading'
  <2>1. PICK a \in 0 .. JsonLength : \E b \in a + 1 .. JsonLength :
           edge.body = Bytes(1, a) /\ edge.need = b - a /\ Left = ChunkRest(a, b)
    BY <1>1, <1>3 DEF Reading, InHead, InExact, InSize, InData, InJudge, Understood
  <2>2. PICK b \in a + 1 .. JsonLength :
           edge.body = Bytes(1, a) /\ edge.need = b - a /\ Left = ChunkRest(a, b)
    BY <2>1
  <2>3. b \in 0 .. JsonLength /\ b \in a .. JsonLength
    OBVIOUS
  <2>4. PICK buf \in Seq(Pieces), items \in Seq(Pieces) : buf = edge.buf /\ items = down.items
    BY LeftType
  <2>5. PICK d \in Seq(Pieces) : d = Bytes(a + 1, b) /\ Len(d) = edge.need
    BY <2>2, ChunkRestType
  <2>6. PICK r \in Seq(Pieces) : r = Rest(b)
    BY <2>3, RestType
  <2>7. PICK e \in Seq(Pieces) : e = <<Crlf>>
    BY Singles
  <2>8. PICK need \in Nat : need = edge.need
    BY <2>2
  <2>9. Cut(buf, items, d, e \o r)
    BY <2>2, <2>4, <2>5, <2>6, <2>7 DEF Cut, Left, ChunkRest
  <2>10. PICK h \in Seq(Pieces) : h = d \o e
    BY ConcatProperties
  <2>11. PICK er \in Seq(Pieces) : er = e \o r
    BY ConcatProperties
  <2>12. Cut(buf, items, d, er)
    BY <2>9, <2>11
  <2>13. Cut(buf, items, h, r) /\ Cut(buf, items, d, er)
    BY <2>10, <2>11, <2>12, CutLater
  <2>14. Len(h) = need + 1 /\ Len(d) = need
    <3>1. Len(d \o e) = Len(d) + Len(e)
      BY ConcatProperties
    <3>2. Len(e) = 1
      BY <2>7
    <3>3. Len(d) = need
      BY <2>5, <2>8
    <3>4. Len(h) = Len(d) + Len(e)
      BY <2>10, <3>1
    <3> QED  BY <3>2, <3>3, <3>4
  <2>15. Covers(buf, h)
    <3>1. CASE items = <<>>
      BY <2>13, <3>1, EndCovers
    <3>2. CASE items # <<>>
      <4>1. ~(Len(buf) < need + 1) /\ Len(buf) \in Nat
        BY <1>2, <2>4, <2>8, <3>2, LenProperties
      <4>2. need + 1 <= Len(buf)
        BY <4>1
      <4> QED  BY <2>14, <4>2 DEF Covers
    <3> QED  BY <3>1, <3>2
  <2>16. Covers(buf, d)
    <3>1. Len(buf) \in Nat /\ need + 1 <= Len(buf)
      BY <2>14, <2>15, LenProperties DEF Covers
    <3>2. need <= Len(buf)
      BY <3>1
    <3> QED  BY <2>14, <3>2 DEF Covers
  <2>17. From(buf, Len(h) + 1) \o items = r
    BY <2>13, <2>15, Consume
  <2>18. Take(buf, Len(d)) = d
    BY <2>13, <2>16, Consume
  <2>19. need + 2 = Len(h) + 1
    BY <2>14
  <2>20. Left' = Rest(b)
    BY <1>1, <2>4, <2>6, <2>8, <2>17, <2>19 DEF Left
  <2>21. edge'.body = Bytes(1, b)
    BY <1>1, <2>2, <2>3, <2>4, <2>5, <2>8, <2>14, <2>18, BytesJoin
  <2>22. InSize'
    BY <1>1, <2>3, <2>20, <2>21 DEF InSize, Sized
  <2> QED  BY <2>22 DEF Reading
<1> QED  BY <1>1, <1>3, EdgeHears

LEMMA RestHeard == ASSUME Types, Heard, EdgeRest PROVE Heard'
<1>1. /\ edge.pc \in {"exact", "tail"} /\ UNCHANGED <<request, client, up, down, pool>>
      /\ edge'.pc = "judge"
      /\ edge.pc = "exact" => edge'.body = Take(edge.buf, edge.need)
                              /\ ~(Len(edge.buf) < edge.need)
  BY DEF EdgeRest, Types, Short
<1>2. ASSUME Reading PROVE Reading'
  <2>1. edge.pc = "exact" /\ edge.need = JsonLength /\ Left = Bytes(1, JsonLength)
    BY <1>1, <1>2 DEF Reading, InHead, InExact, InSize, InData, InJudge, Understood
  <2>2. JsonLength \in 0 .. JsonLength /\ JsonLength \in Nat
    BY FetchAssumption
  <2>3. PICK h \in Seq(Pieces) : h = Bytes(1, JsonLength) /\ Len(h) = JsonLength
    BY <2>2, FirstBytes
  <2>4. PICK buf \in Seq(Pieces), items \in Seq(Pieces) : buf = edge.buf /\ items = down.items
    BY LeftType
  <2>5. Cut(buf, items, h, <<>>)
    <3>1. h \o <<>> = h
      BY ConcatEmptySeq
    <3> QED  BY <2>1, <2>3, <2>4, <3>1 DEF Cut, Left
  <2>6. Covers(buf, h)
    <3>1. ~(Len(buf) < JsonLength) /\ Len(buf) \in Nat
      BY <1>1, <2>1, <2>4, LenProperties
    <3>2. JsonLength <= Len(buf)
      BY <2>2, <3>1
    <3> QED  BY <2>3, <3>2 DEF Covers
  <2>7. <<>> \in Seq(Pieces)
    OBVIOUS
  <2>8. Take(buf, Len(h)) = h
    BY <2>5, <2>6, <2>7, Consume
  <2> QED  BY <1>1, <2>1, <2>3, <2>4, <2>8 DEF Reading, InJudge
<1> QED  BY <1>1, <1>2, EdgeHears

\* A read of a whole answer does not fail: all of it comes.
LEMMA FailsHeard == ASSUME Types, Heard, EdgeReadFails PROVE Heard'
<1>1. UNCHANGED <<request, up, down, pool>>
  BY DEF EdgeReadFails, Answer
<1>2. SUFFICES ASSUME WholeAnswer PROVE FALSE
  BY <1>1 DEF Heard, WholeAnswer
<1>3. Reading /\ down.end = "fin"
  BY <1>2 DEF Heard
<1>4. down.items = <<>> /\ edge.pc = "exact" /\ Len(edge.buf) < edge.need
  BY <1>3 DEF EdgeReadFails, Short, Ended
<1>5. edge.need = JsonLength /\ Left = Bytes(1, JsonLength)
  BY <1>3, <1>4 DEF Reading, InHead, InExact, InSize, InData, InJudge, Understood
<1>6. JsonLength \in 0 .. JsonLength /\ JsonLength \in Nat
  BY FetchAssumption
<1>7. Len(Left) = JsonLength
  BY <1>5, <1>6, FirstBytes
<1>8. Left = edge.buf
  BY <1>4, LeftType, ConcatEmptySeq DEF Left
<1> QED  BY <1>4, <1>5, <1>6, <1>7, <1>8

LEMMA AnswersHeard == ASSUME Types, Heard, EdgeAnswers PROVE Heard'
<1>1. UNCHANGED <<request, up, down, pool>> /\ edge.pc = "judge" /\ edge'.pc = "done"
  BY DEF EdgeAnswers, Answer, Types
<1>2. ASSUME WholeAnswer, Reading, pool.said.kind = "manager" <=> request.target = "path"
      PROVE  Understood'
  <2>1. edge.body = Bytes(1, JsonLength)
    BY <1>1, <1>2 DEF Reading, InHead, InExact, InSize, InData, InJudge, Understood
  <2>2. edge.body # <<>>
    <3>1. JsonLength \in 0 .. JsonLength /\ JsonLength # 0
      BY FetchAssumption
    <3>2. Len(edge.body) = JsonLength
      BY <2>1, <3>1, FirstBytes
    <3>3. Len(<<>>) # JsonLength
      BY <3>1
    <3> QED  BY <3>2, <3>3
  <2>3. \/ /\ request.target = "path"
           /\ client' = [at |-> "raw", retry |-> FALSE, framing |-> edge.framing, body |-> edge.body]
        \/ /\ request.target = "url" /\ pool.said.kind = "ok"
           /\ client' = [at |-> "ok", retry |-> FALSE, framing |-> "length",
                         body |-> pool.said.body]
        \/ request.target = "url" /\ pool.said.kind # "ok"
    BY <2>1, <2>2 DEF EdgeAnswers, Answer
  <2>4. pool.said.kind \in {"ok", "manager"}
    BY <1>2 DEF WholeAnswer
  <2> QED  BY <1>1, <1>2, <2>1, <2>3, <2>4 DEF Understood
<1> QED  BY <1>1, <1>2, EdgeHears DEF Reading

LEMMA SaysHeard ==
    ASSUME Types, Quiet, NEW kind \in {"ok", "manager"}, NEW retry, NEW body,
           Says(kind, retry, body, JsonLength), pool.pc # "done", up.at = "sent",
           kind = "manager" <=> request.target = "path"
    PROVE  Heard'
<1>1. JsonLength \in 0 .. JsonLength /\ JsonLength # 0
  BY FetchAssumption
<1>2. PICK framing \in {"length", "chunked"}, k \in 0 .. JsonLength :
          /\ IF down.end = "open" THEN down' \in Delivered(Message(framing, JsonLength, k))
             ELSE UNCHANGED down
          /\ pool' = [pc |-> "done", unsent |-> <<>>,
                      said |-> [kind |-> kind, retry |-> retry, body |-> body,
                                whole |-> down'.items = Message(framing, JsonLength, k)]]
          /\ UNCHANGED <<request, client, edge, up>>
  BY <1>1, SaysStep
<1>3. PICK message \in Seq(Pieces) :
          message = Message(framing, JsonLength, k) /\ Len(message) \in Nat \ {0}
  BY <1>1, MessageType DEF Framings
<1>4. /\ pool'.said.kind = kind
      /\ pool'.said.whole => down'.items = message
      /\ UNCHANGED <<request, client, edge, up>>
  BY <1>2, <1>3
<1>5. SUFFICES ASSUME down'.items = message
               PROVE  down'.end = "fin" /\ Reading'
  BY <1>4 DEF Heard, WholeAnswer
<1>6. down.items = <<>>
  BY DEF Quiet
<1>7. down.end = "open"
  <2>1. CASE down.end # "open"
    <3>1. message = <<>>
      BY <1>2, <1>5, <1>6, <2>1
    <3>2. Len(message) = 0
      BY <3>1
    <3> QED  BY <1>3, <3>2
  <2> QED  BY <2>1
<1>8. down'.end = "fin"
  <2>1. down' \in Delivered(message)
    BY <1>2, <1>3, <1>7
  <2> QED  BY <1>5, <2>1, DeliveredType
<1>9. edge.buf = <<>> /\ edge.body = <<>> /\ edge.pc = "head"
  BY <1>7 DEF Quiet
<1>10. <<>> \o message = message
  BY ConcatEmptySeq
<1>11. Left' = Message(framing, JsonLength, k)
  BY <1>3, <1>4, <1>5, <1>9, <1>10 DEF Left
<1>12. InHead'
  BY <1>4, <1>9, <1>11 DEF InHead
<1> QED  BY <1>8, <1>12 DEF Reading

LEMMA PoolAsked == ASSUME Types, Quiet, pool.pc # "idle" PROVE up.at = "sent"
BY DEF Quiet, Types, TypeOK

LEMMA PoolHeard == ASSUME Types, Quiet, Heard, Pool PROVE Heard'
<1>1. CASE SaysSomething /\ (pool.pc = "idle" => up.at = "sent")
  <2>1. up.at = "sent"
    BY <1>1, PoolAsked
  <2>2. pool.pc = "receive" => request.target = "url"
    BY DEF Quiet
  <2>3. CASE Says("manager", FALSE, <<>>, JsonLength) /\ pool.pc = "idle" /\ request.target = "path"
    BY <2>1, <2>3, SaysHeard
  <2>4. CASE Says("ok", FALSE, BodyOf(origin.items), JsonLength) /\ pool.pc = "receive"
    BY <2>1, <2>2, <2>4, SaysHeard
  <2>5. CASE Says("refused", FALSE, <<>>, 0)
    BY <2>5, SaysSaid DEF Heard, WholeAnswer
  <2>6. CASE Says("none ready", TRUE, <<>>, JsonLength)
    <3>1. pool'.said.kind = "none ready"
      BY <2>6, SaysSaid
    <3> QED  BY <3>1 DEF Heard, WholeAnswer
  <2>7. CASE Says("failed", FALSE, <<>>, JsonLength)
    BY <2>7, SaysSaid DEF Heard, WholeAnswer
  <2> QED  BY <1>1, <2>3, <2>4, <2>5, <2>6, <2>7 DEF SaysSomething
<1>2. CASE pool.pc # "done" /\ pool'.said = pool.said
  BY <1>2 DEF Heard, WholeAnswer, Types, TypeOK, Nothing
<1>3. CASE PoolGoesOn("idle", "hold") \/ PoolGoesOn("hold", "dial")
  <2>1. pool.pc # "done" /\ pool'.said = pool.said
    BY <1>3 DEF PoolGoesOn, Types
  <2> QED  BY <1>2, <2>1
<1>4. CASE PoolDrops \/ PoolDials \/ PoolSends
  <2>1. pool.pc # "done" /\ pool'.said = pool.said
    BY <1>4 DEF PoolDrops, PoolDials, PoolSends, Types
  <2> QED  BY <1>2, <2>1
<1> QED  BY <1>1, <1>3, <1>4, PoolSteps

LEMMA SaysCloses ==
    ASSUME NEW kind, NEW retry, NEW body, NEW length \in 0 .. JsonLength,
           Says(kind, retry, body, length)
    PROVE  down'.end # "open"
<1>1. PICK framing \in Framings, k \in 0 .. length :
         IF down.end = "open" THEN down' \in Delivered(Message(framing, length, k))
         ELSE UNCHANGED down
  BY SaysStep DEF Framings
<1>2. Message(framing, length, k) \in Seq(Pieces)
  BY MessageType
<1> QED  BY <1>1, <1>2, DeliveredType

LEMMA PoolQuiet == ASSUME Types, Quiet, Pool PROVE Quiet'
<1>1. CASE SaysSomething /\ (pool.pc = "idle" => up.at = "sent")
  <2>1. up.at = "sent"
    BY <1>1, PoolAsked
  <2>2. pool'.pc = "done" /\ UNCHANGED <<request, edge, up>>
    BY <1>1, SaysSaid DEF SaysSomething
  <2>3. down'.end # "open"
    <3>1. 0 \in 0 .. JsonLength /\ JsonLength \in 0 .. JsonLength
      BY FetchAssumption
    <3> QED  BY <1>1, <3>1, SaysCloses DEF SaysSomething
  <2> QED  BY <2>1, <2>2, <2>3 DEF Quiet
<1>2. CASE PoolGoesOn("idle", "hold") /\ request.target = "url" /\ up.at = "sent"
  <2>1. pool.pc = "idle" /\ pool'.pc = "hold" /\ UNCHANGED <<request, edge, up, down>>
    BY <1>2 DEF PoolGoesOn, Types
  <2> QED  BY <1>2, <2>1 DEF Quiet
<1>3. CASE PoolGoesOn("hold", "dial") \/ PoolDials \/ PoolSends
  <2>1. /\ pool.pc \in {"hold", "dial", "send"} /\ pool'.pc \in {"dial", "send", "receive"}
        /\ UNCHANGED <<request, edge, up, down>>
    BY <1>3 DEF PoolGoesOn, PoolDials, PoolSends, Types
  <2> QED  BY <2>1, PoolAsked DEF Quiet
<1>4. CASE PoolDrops
  <2>1. /\ pool'.pc = "done" /\ down'.end = "fin" /\ up.at = "sent"
        /\ UNCHANGED <<request, edge, up>>
    BY <1>4 DEF PoolDrops, Types
  <2> QED  BY <2>1 DEF Quiet
<1> QED  BY <1>1, <1>2, <1>3, <1>4, PoolSteps

\* There is nothing to read before the pool has answered.
LEMMA ReadQuiet == ASSUME Types, Quiet, ReadFull PROVE Quiet'
<1>1. edge.pc # "reading" /\ edge'.pc # "reading" /\ UNCHANGED <<request, up, pool>>
  BY DEF ReadFull, EdgeReads, EdgeReadFails, EdgeHead, EdgeSize, EdgeData, EdgeRest, EdgeAnswers,
         Answer, Short, Types
<1>2. down'.end = down.end /\ (down.items = <<>> => down'.items = <<>>)
  <2>1. CASE EdgeReads
    <3>1. PICK n \in 1 .. Len(down.items) : down' = [down EXCEPT !.items = From(@, n + 1)]
      BY <2>1 DEF EdgeReads
    <3>2. down'.end = down.end
      BY <3>1 DEF Types
    <3>3. down.items # <<>>
      <4>1. n \in 1 .. Len(down.items)
        OBVIOUS
      <4>2. Len(<<>>) = 0
        OBVIOUS
      <4> QED  BY <4>1, <4>2
    <3> QED  BY <3>2, <3>3
  <2>2. CASE ~EdgeReads
    BY <2>2 DEF ReadFull, EdgeReadFails, EdgeHead, EdgeSize, EdgeData, EdgeRest, EdgeAnswers,
                Answer
  <2> QED  BY <2>1, <2>2
<1>3. ~(up.at = "sent" /\ down.end = "open")
  <2>1. SUFFICES ASSUME up.at = "sent", down.end = "open" PROVE FALSE
    OBVIOUS
  <2>2. edge.pc = "head" /\ edge.buf = <<>> /\ down.items = <<>>
    BY <1>1, <2>1 DEF Quiet
  <2>3. ~Has(edge.buf, "blank") /\ Len(down.items) = 0
    BY <2>2 DEF Has
  <2> QED  BY <2>1, <2>2, <2>3 DEF ReadFull, EdgeReads, EdgeReadFails, EdgeHead, EdgeSize,
              EdgeData, EdgeRest, EdgeAnswers, Short, Ended
<1> QED  BY <1>1, <1>2, <1>3 DEF Quiet

\* No answer is on its way to an edge that has not asked.
LEMMA AsksQuiet ==
    ASSUME Types, Quiet, EdgeRefuses \/ EdgeAsks \/ EdgeNoPool
    PROVE  Quiet' /\ (Heard => Heard')
<1>1. edge.pc = "reading" /\ UNCHANGED <<request, down, pool>>
  BY DEF EdgeRefuses, EdgeAsks, EdgeNoPool, Answer
<1>2. up.at = "none" /\ edge.buf = <<>> /\ edge.body = <<>>
  BY <1>1 DEF Quiet
<1>3. Heard => Heard'
  BY <1>1, <1>2 DEF Heard, WholeAnswer
<1>4. \/ edge'.pc = "done" /\ up'.at = "none"
      \/ edge'.pc = "head" /\ edge'.buf = <<>> /\ edge'.body = <<>> /\ up'.at = "sent"
  BY <1>2 DEF EdgeRefuses, EdgeAsks, EdgeNoPool, Answer, Types
<1> QED  BY <1>1, <1>2, <1>3, <1>4 DEF Quiet

LEMMA LinkQuiet == ASSUME Types, Quiet, Heard, LinkLost PROVE Quiet' /\ Heard'
<1>1. /\ down.end = "open" /\ down'.end # "open" /\ down'.items = down.items
      /\ UNCHANGED <<request, client, edge, up, pool>>
  BY DEF LinkLost, Types
<1>2. Heard'
  BY <1>1 DEF Heard, WholeAnswer
<1> QED  BY <1>1, <1>2 DEF Quiet

LEMMA SameQuiet ==
    ASSUME Quiet, Heard, UNCHANGED <<request, client, edge, up, down, pool>>
    PROVE  Quiet' /\ Heard'
BY DEF Quiet, Heard, WholeAnswer, Reading, InHead, InExact, InSize, InData, InJudge, Understood,
       Left

LEMMA InitHeard == Init => Quiet /\ Heard
BY DEF Init, Open, Nothing, Quiet, Heard, WholeAnswer

LEMMA StepHeard == Types /\ Quiet /\ Heard /\ [Next]_vars => Quiet' /\ Heard'
<1> SUFFICES ASSUME Types, Quiet, Heard, [Next]_vars
             PROVE  Quiet' /\ Heard'
  OBVIOUS
<1>1. CASE UNCHANGED vars
  BY <1>1, SameQuiet DEF vars
<1>2. CASE OriginAnswers
  BY <1>2, SameQuiet DEF OriginAnswers
<1>3. CASE ReadFull
  BY <1>3, ReadQuiet, ReadsHeard, FailsHeard, HeadHeard, SizeHeard, DataHeard, RestHeard,
     AnswersHeard DEF ReadFull
<1>4. CASE Pool
  BY <1>4, PoolQuiet, PoolHeard
<1>5. CASE EdgeRefuses \/ EdgeAsks \/ EdgeNoPool
  BY <1>5, AsksQuiet
<1>6. CASE LinkLost
  BY <1>6, LinkQuiet
<1> QED  BY <1>1, <1>2, <1>3, <1>4, <1>5, <1>6 DEF Next

\* An answer that leaves the pool whole is read to its end and understood, for
\* every length of it, every framing and chunk that it has got on its way and
\* every cut of the reads of read_full.
THEOREM AnswersAreUnderstood == Spec => []ReadAsSaid
<1>1. Types /\ Heard => ReadAsSaid
  <2> SUFFICES ASSUME Types, Heard, client.at # "waiting", WholeAnswer
               PROVE  Understood
    BY DEF ReadAsSaid, WholeAnswer, Understood
  <2>1. edge.pc = "done"
    BY DEF Types, TypeOK
  <2> QED  BY <2>1 DEF Heard, Reading, InHead, InExact, InSize, InData, InJudge, Understood
<1> QED  BY <1>1, InitTypes, StepTypes, InitHeard, StepHeard, PTL DEF Spec

-----------------------------------------------------------------------------
(* The bytes of a body, whatever stands between them *)

\* The bytes in s are those with the numbers a to b, in order.
Lists(s, a, b) ==
    /\ \A i \in 1 .. Len(s) : s[i].kind = "byte" => s[i].n \in a .. b
    /\ \A m \in a .. b : \E i \in 1 .. Len(s) : s[i] = Token("byte", m)
    /\ \A i, j \in 1 .. Len(s) :
          s[i].kind = "byte" /\ s[j].kind = "byte" /\ i < j => s[i].n < s[j].n

LEMMA ByteToken ==
    ASSUME NEW s \in Seq(Tokens), NEW i \in 1 .. Len(s), s[i].kind = "byte"
    PROVE  s[i] = Token("byte", s[i].n) /\ s[i].n \in Nat
<1>1. s[i] \in Tokens
  BY ElementOfSeq
<1> QED  BY <1>1 DEF Tokens, Token

LEMMA TokenFields ==
    ASSUME NEW kind, NEW n
    PROVE  Token(kind, n).kind = kind /\ Token(kind, n).n = n
BY DEF Token

\* Up to place i there are d bytes when they have the numbers 1 to d.
LEMMA BytesCounted ==
    ASSUME NEW s \in Seq(Tokens), NEW i \in 0 .. Len(s), NEW d \in Nat,
           \A j \in 1 .. i : s[j].kind = "byte" => s[j].n \in 1 .. d,
           \A m \in 1 .. d : \E j \in 1 .. i : s[j] = Token("byte", m),
           \A j, l \in 1 .. Len(s) :
              s[j].kind = "byte" /\ s[l].kind = "byte" /\ j < l => s[j].n < s[l].n
    PROVE  BytesUpTo(s, i) = d
<1>1. PICK B : B = {j \in 1 .. i : s[j].kind = "byte"}
  OBVIOUS
<1>2. PICK f : f = [j \in B |-> s[j].n]
  OBVIOUS
<1>3. Len(s) \in Nat /\ i \in Nat /\ \A j \in B : j \in 1 .. i /\ j \in 1 .. Len(s) /\ j \in Nat
  BY <1>1, LenProperties
<1>4. f \in [B -> 1 .. d]
  BY <1>1, <1>2
<1>5. ASSUME NEW j \in B, NEW l \in B, f[j] = f[l] PROVE j = l
  <2>1. s[j].n = s[l].n /\ s[j].kind = "byte" /\ s[l].kind = "byte"
    BY <1>1, <1>2, <1>5
  <2>2. s[j].n \in Nat
    BY <1>3, <2>1, ByteToken
  <2>3. ~(j < l) /\ ~(l < j)
    BY <1>3, <2>1, <2>2
  <2> QED  BY <1>3, <2>3
<1>6. ASSUME NEW m \in 1 .. d PROVE \E j \in B : f[j] = m
  <2>1. PICK j \in 1 .. i : s[j] = Token("byte", m)
    OBVIOUS
  <2>2. s[j].kind = "byte" /\ s[j].n = m
    BY <2>1, TokenFields
  <2> QED  BY <1>1, <1>2, <2>2
<1>7. f \in Injection(B, 1 .. d) /\ f \in Surjection(B, 1 .. d)
  BY <1>4, <1>5, <1>6 DEF Injection, Surjection, IsInjective
<1>8. ExistsBijection(B, 1 .. d)
  BY <1>7 DEF ExistsBijection, Bijection
<1>9. ExistsBijection(1 .. d, B)
  BY <1>8, Fun_ExistsBijSymmetric
<1>10. Cardinality(B) = d
  BY <1>9, FS_CountingElements
<1> QED  BY <1>1, <1>10 DEF BytesUpTo

LEMMA PlacesCount ==
    ASSUME NEW s \in Seq(Tokens), NEW c \in Nat, Lists(s, 1, c),
           NEW i \in 1 .. Len(s), s[i].kind = "byte"
    PROVE  BytesUpTo(s, i) = s[i].n
<1>1. PICK d \in Nat : d = s[i].n
  BY ByteToken
<1>2. d \in 1 .. c
  BY <1>1 DEF Lists
<1>3. Len(s) \in Nat /\ i \in 0 .. Len(s) /\ i \in Nat /\ \A j \in 1 .. i : j \in 1 .. Len(s)
  BY LenProperties
<1>4. ASSUME NEW j \in 1 .. i, s[j].kind = "byte" PROVE s[j].n \in 1 .. d
  <2>1. s[j].n \in 1 .. c
    BY <1>3, <1>4 DEF Lists
  <2>2. CASE j = i
    BY <1>1, <2>1, <2>2
  <2>3. CASE j < i
    <3>1. s[j].n < d
      BY <1>1, <1>3, <1>4, <2>3 DEF Lists
    <3> QED  BY <2>1, <3>1
  <2> QED  BY <1>3, <2>2, <2>3
<1>5. ASSUME NEW m \in 1 .. d PROVE \E j \in 1 .. i : s[j] = Token("byte", m)
  <2>1. m \in 1 .. c
    BY <1>2
  <2>2. PICK j \in 1 .. Len(s) : s[j] = Token("byte", m)
    BY <2>1 DEF Lists
  <2>3. s[j].kind = "byte" /\ s[j].n = m
    BY <2>2, TokenFields
  <2>4. ~(i < j)
    <3>1. i < j => d < m
      BY <1>1, <2>3 DEF Lists
    <3> QED  BY <3>1
  <2>5. j \in 1 .. i
    BY <1>3, <2>4
  <2> QED  BY <2>2, <2>5
<1>6. \A j, l \in 1 .. Len(s) :
         s[j].kind = "byte" /\ s[l].kind = "byte" /\ j < l => s[j].n < s[l].n
  BY DEF Lists
<1>7. BytesUpTo(s, i) = d
  BY <1>3, <1>4, <1>5, <1>6, BytesCounted
<1> QED  BY <1>1, <1>7

\* The body of tokens that list the bytes 1 to c is these bytes.
LEMMA BodyListed ==
    ASSUME NEW s \in Seq(Tokens), NEW c \in Nat, Lists(s, 1, c)
    PROVE  BodyOf(s) = Bytes(1, c)
<1>1. Len(s) \in Nat /\ Len(s) \in 0 .. Len(s) /\ DOMAIN s = 1 .. Len(s)
  BY LenProperties
<1>2. BytesUpTo(s, Len(s)) = c
  BY <1>1, BytesCounted DEF Lists
<1>3. ASSUME NEW m \in 1 .. c PROVE s[ByteAt(s, m)] = Token("byte", m)
  <2>1. PICK i \in 1 .. Len(s) : s[i] = Token("byte", m)
    BY DEF Lists
  <2>2. s[i].kind = "byte" /\ s[i].n = m
    BY <2>1, TokenFields
  <2>3. BytesUpTo(s, i) = m
    BY <2>2, PlacesCount
  <2>4. PICK at : at = ByteAt(s, m)
    OBVIOUS
  <2>5. at \in 1 .. Len(s) /\ s[at].kind = "byte" /\ BytesUpTo(s, at) = m
    BY <1>1, <2>2, <2>3, <2>4 DEF ByteAt
  <2>6. s[at].n = m
    BY <2>5, PlacesCount
  <2>7. s[at] = Token("byte", s[at].n)
    BY <2>5, ByteToken
  <2> QED  BY <2>4, <2>6, <2>7
<1>4. BodyOf(s) = [m \in 1 .. c |-> Token("byte", m)]
  BY <1>2, <1>3 DEF BodyOf
<1>5. c - 1 + 1 = c /\ \A m \in 1 .. c : 1 + m - 1 = m
  OBVIOUS
<1>6. Bytes(1, c) = [m \in 1 .. c |-> Token("byte", m)]
  BY <1>5 DEF Bytes
<1> QED  BY <1>4, <1>6

LEMMA ListsNone ==
    ASSUME NEW s \in Seq(Tokens), NEW a \in Nat, NEW b \in Int, b = a - 1,
           \A i \in 1 .. Len(s) : s[i].kind # "byte"
    PROVE  Lists(s, a, b)
BY DEF Lists

LEMMA ListsBytes ==
    ASSUME NEW a \in Nat \ {0}, NEW b \in Nat, a <= b + 1
    PROVE  Lists(Bytes(a, b), a, b)
<1>1. PICK t \in Seq(Tokens) :
         t = Bytes(a, b) /\ Len(t) = b - a + 1
         /\ \A i \in 1 .. b - a + 1 : t[i] = Token("byte", a + i - 1)
  BY BytesType
<1>2. \A i \in 1 .. Len(t) : t[i].kind = "byte" /\ t[i].n = a + i - 1
  BY <1>1, TokenFields
<1>3. \A i \in 1 .. Len(t) : t[i].n \in a .. b
  BY <1>1, <1>2
<1>4. ASSUME NEW m \in a .. b PROVE \E i \in 1 .. Len(t) : t[i] = Token("byte", m)
  <2>1. m - a + 1 \in 1 .. b - a + 1 /\ a + (m - a + 1) - 1 = m
    OBVIOUS
  <2> QED  BY <1>1, <2>1
<1>5. \A i, j \in 1 .. Len(t) : i < j => t[i].n < t[j].n
  BY <1>1, <1>2
<1> QED  BY <1>1, <1>3, <1>4, <1>5 DEF Lists

LEMMA ListsJoin ==
    ASSUME NEW s \in Seq(Tokens), NEW t \in Seq(Tokens),
           NEW a \in Int, NEW b \in Int, NEW c \in Int, a <= b + 1, b <= c,
           Lists(s, a, b), Lists(t, b + 1, c)
    PROVE  Lists(s \o t, a, c)
<1>1. PICK x \in Nat, y \in Nat : x = Len(s) /\ y = Len(t)
  BY LenProperties
<1>2. PICK w : w = s \o t
  OBVIOUS
<1>3. /\ w \in Seq(Tokens) /\ Len(w) = x + y
      /\ \A i \in 1 .. x + y : w[i] = IF i <= x THEN s[i] ELSE t[i - x]
  BY <1>1, <1>2, ConcatProperties
<1>4. ASSUME NEW i \in 1 .. x PROVE i \in 1 .. x + y /\ w[i] = s[i]
  <2>1. i \in 1 .. x + y /\ i <= x
    OBVIOUS
  <2> QED  BY <1>3, <2>1
<1>5. ASSUME NEW i \in 1 .. y PROVE i + x \in 1 .. x + y /\ w[i + x] = t[i]
  <2>1. i + x \in 1 .. x + y /\ ~(i + x <= x) /\ i + x - x = i
    OBVIOUS
  <2> QED  BY <1>3, <2>1
<1>6. /\ \A i \in 1 .. x : i \in 1 .. x + y /\ w[i] = s[i]
      /\ \A i \in 1 .. y : i + x \in 1 .. x + y /\ w[i + x] = t[i]
  BY <1>4, <1>5
<1>7. \A i \in 1 .. x + y : i \in 1 .. x \/ (i - x \in 1 .. y /\ i - x + x = i)
  OBVIOUS
<1>8. ASSUME NEW i \in 1 .. x + y, w[i].kind = "byte"
      PROVE  /\ w[i].n \in a .. c
             /\ i \in 1 .. x => w[i].n \in a .. b
             /\ i \notin 1 .. x => w[i].n \in b + 1 .. c
  <2>1. CASE i \in 1 .. x
    <3>1. w[i].n \in a .. b
      BY <1>1, <1>6, <1>8, <2>1 DEF Lists
    <3> QED  BY <2>1, <3>1
  <2>2. CASE i \notin 1 .. x
    <3>1. i - x \in 1 .. y /\ w[i] = t[i - x]
      BY <1>6, <1>7, <2>2
    <3>2. w[i].n \in b + 1 .. c
      BY <1>1, <1>8, <3>1 DEF Lists
    <3> QED  BY <2>2, <3>2
  <2> QED  BY <2>1, <2>2
<1>9. ASSUME NEW m \in a .. c PROVE \E i \in 1 .. x + y : w[i] = Token("byte", m)
  <2>1. CASE m \in a .. b
    <3>1. PICK i \in 1 .. x : s[i] = Token("byte", m)
      BY <1>1, <2>1 DEF Lists
    <3> QED  BY <1>6, <3>1
  <2>2. CASE m \in b + 1 .. c
    <3>1. PICK i \in 1 .. y : t[i] = Token("byte", m)
      BY <1>1, <2>2 DEF Lists
    <3> QED  BY <1>6, <3>1
  <2>3. m \in a .. b \/ m \in b + 1 .. c
    OBVIOUS
  <2> QED  BY <2>1, <2>2, <2>3
<1>10. ASSUME NEW i \in 1 .. x + y, NEW j \in 1 .. x + y, w[i].kind = "byte",
             w[j].kind = "byte", i < j
      PROVE  w[i].n < w[j].n
  <2>1. CASE i \in 1 .. x /\ j \in 1 .. x
    BY <1>1, <1>6, <1>10, <2>1 DEF Lists
  <2>2. CASE i \in 1 .. x /\ j \notin 1 .. x
    <3>1. w[i].n \in a .. b /\ w[j].n \in b + 1 .. c
      BY <1>8, <1>10, <2>2
    <3> QED  BY <3>1
  <2>3. CASE i \notin 1 .. x
    <3>1. /\ i - x \in 1 .. y /\ w[i] = t[i - x]
      BY <1>6, <1>7, <2>3
    <3>2. j \notin 1 .. x
      BY <1>10, <2>3
    <3>3. j - x \in 1 .. y /\ w[j] = t[j - x]
      BY <1>6, <1>7, <3>2
    <3>4. i - x < j - x
      BY <1>10
    <3> QED  BY <1>1, <1>10, <3>1, <3>3, <3>4 DEF Lists
  <2> QED  BY <2>1, <2>2, <2>3
<1> QED  BY <1>3, <1>8, <1>9, <1>10, <1>2 DEF Lists

\* A beginning of a list is a list, and has byte m when m is in it.
LEMMA ListsBegin ==
    ASSUME NEW s \in Seq(Tokens), NEW n \in Nat, Lists(s, 1, n), NEW l \in 0 .. Len(s)
    PROVE  \E c \in 0 .. n : Lists(SubSeq(s, 1, l), 1, c)
<1>1. PICK z \in Nat : z = Len(s)
  BY LenProperties
<1>2. PICK t : t = SubSeq(s, 1, l)
  OBVIOUS
<1>3. t \in Seq(Tokens) /\ Len(t) = l /\ \A i \in 1 .. l : t[i] = s[i] /\ i \in 1 .. z
  <2>1. l \in Nat /\ l \in Int /\ \A i \in 1 .. l : i \in 1 .. z /\ s[i] \in Tokens
    BY <1>1, ElementOfSeq
  <2>2. /\ t \in Seq(Tokens)
        /\ Len(t) = IF 1 <= l THEN l - 1 + 1 ELSE 0
        /\ \A i \in 1 .. l - 1 + 1 : t[i] = s[1 + i - 1]
    BY <1>2, <2>1, SubSeqProperties
  <2>3. l - 1 + 1 = l /\ \A i \in 1 .. l : 1 + i - 1 = i
    BY <2>1
  <2> QED  BY <2>1, <2>2, <2>3
<1>4. PICK M : M = {m \in 1 .. n : ~ \E i \in 1 .. l : s[i] = Token("byte", m)}
  OBVIOUS
<1>5. \E c \in 0 .. n : (\A m \in 1 .. c : m \notin M) /\ (c < n => c + 1 \in M)
  <2>1. CASE M = {}
    BY <2>1
  <2>2. CASE M # {}
    <3>1. M \subseteq Nat
      BY <1>4
    <3>2. PICK x \in M : \A y \in M : x <= y
      BY <2>2, <3>1, LeastNat
    <3>3. x \in 1 .. n
      BY <1>4
    <3>4. x - 1 \in 0 .. n /\ x - 1 + 1 = x
      BY <3>3
    <3>5. \A m \in 1 .. x - 1 : m \notin M
      BY <3>2, <3>3
    <3> QED  BY <3>4, <3>5
  <2> QED  BY <2>1, <2>2
<1>6. PICK c \in 0 .. n : (\A m \in 1 .. c : m \notin M) /\ (c < n => c + 1 \in M)
  BY <1>5
<1>7. ASSUME NEW m \in 1 .. c PROVE \E i \in 1 .. l : t[i] = Token("byte", m)
  <2>1. m \in 1 .. n
    OBVIOUS
  <2> QED  BY <1>3, <1>4, <1>6, <2>1
<1>8. ASSUME NEW i \in 1 .. l, t[i].kind = "byte" PROVE t[i].n \in 1 .. c
  <2>1. s[i].kind = "byte" /\ i \in 1 .. Len(s) /\ t[i] = s[i]
    BY <1>1, <1>3, <1>8
  <2>2. PICK m \in 1 .. n : m = s[i].n
    BY <2>1 DEF Lists
  <2>3. SUFFICES ASSUME ~(m <= c) PROVE FALSE
    BY <2>1, <2>2
  <2>4. c + 1 \in M /\ c + 1 \in 1 .. n /\ c + 1 <= m
    BY <1>6, <2>3
  <2>5. PICK j \in 1 .. Len(s) : s[j] = Token("byte", c + 1)
    BY <2>4 DEF Lists
  <2>6. s[j].kind = "byte" /\ s[j].n = c + 1
    BY <2>5, TokenFields
  <2>7. ~(j \in 1 .. l)
    BY <1>4, <2>4, <2>5
  <2>8. i < j
    BY <1>1, <2>5, <2>7
  <2>9. m < c + 1
    BY <2>1, <2>2, <2>5, <2>6, <2>8 DEF Lists
  <2> QED  BY <2>4, <2>9
<1>9. \A i, j \in 1 .. l :
         t[i].kind = "byte" /\ t[j].kind = "byte" /\ i < j => t[i].n < t[j].n
  BY <1>1, <1>3 DEF Lists
<1>10. Lists(t, 1, c)
  BY <1>3, <1>7, <1>8, <1>9 DEF Lists
<1> QED  BY <1>2, <1>10

LEMMA NoneJoined ==
    ASSUME NEW s \in Seq(Tokens), NEW t \in Seq(Tokens), NEW x,
           \A i \in 1 .. Len(s) : s[i] # x, \A i \in 1 .. Len(t) : t[i] # x
    PROVE  \A i \in 1 .. Len(s \o t) : (s \o t)[i] # x
<1>1. PICK m \in Nat, n \in Nat : m = Len(s) /\ n = Len(t)
  BY LenProperties
<1>2. PICK w : w = s \o t
  OBVIOUS
<1>3. Len(w) = m + n /\ \A i \in 1 .. m + n : w[i] = IF i <= m THEN s[i] ELSE t[i - m]
  BY <1>1, <1>2, ConcatProperties
<1>4. ASSUME NEW i \in 1 .. m + n PROVE w[i] # x
  <2>1. CASE i <= m
    <3>1. i \in 1 .. m
      BY <2>1
    <3> QED  BY <1>1, <1>3, <2>1, <3>1
  <2>2. CASE ~(i <= m)
    <3>1. i - m \in 1 .. n
      BY <2>2
    <3> QED  BY <1>1, <1>3, <2>2, <3>1
  <2> QED  BY <2>1, <2>2
<1> QED  BY <1>2, <1>3, <1>4

LEMMA ChunkTokens ==
    ASSUME NEW a \in Nat \ {0}, NEW b \in Nat, a <= b + 1
    PROVE  /\ Chunk(a, b) \in Seq(Tokens) /\ Lists(Chunk(a, b), a, b)
           /\ \A i \in 1 .. Len(Chunk(a, b)) : Chunk(a, b)[i] # Token("size", 0)
<1>1. CASE a > b
  <2>1. Chunk(a, b) = <<>> /\ <<>> \in Seq(Tokens) /\ Len(<<>>) = 0
    BY <1>1 DEF Chunk
  <2>2. b = a - 1
    BY <1>1
  <2>3. \A i \in 1 .. Len(<<>>) : <<>>[i].kind # "byte" /\ <<>>[i] # Token("size", 0)
    BY <2>1
  <2>4. Lists(<<>>, a, b)
    <3>1. PICK none \in Seq(Tokens) : none = <<>>
      BY <2>1
    <3>2. a \in Nat /\ b \in Int /\ \A i \in 1 .. Len(none) : none[i].kind # "byte"
      BY <2>1, <3>1
    <3>3. Lists(none, a, b)
      BY <2>2, <3>2, ListsNone
    <3> QED  BY <3>1, <3>3
  <2> QED  BY <2>1, <2>3, <2>4
<1>2. CASE ~(a > b)
  <2>1. PICK z \in Nat \ {0} : z = b - a + 1
    BY <1>2
  <2>2. Token("size", z) \in Tokens /\ Crlf \in Tokens
    BY DEF Crlf, Token, Tokens, Kinds
  <2>3. Token("size", z).kind = "size" /\ Token("size", z).n = z /\ Crlf.kind = "crlf"
    BY DEF Crlf, Token
  <2>4. PICK h : h = <<Token("size", z), Crlf>>
    OBVIOUS
  <2>5. PICK e : e = <<Crlf>>
    OBVIOUS
  <2>6. PICK d \in Seq(Tokens) : d = Bytes(a, b)
    BY BytesType
  <2>7. /\ h \in Seq(Tokens) /\ Len(h) = 2 /\ h[1] = Token("size", z) /\ h[2] = Crlf
        /\ e \in Seq(Tokens) /\ Len(e) = 1 /\ e[1] = Crlf
    BY <2>2, <2>4, <2>5
  <2>8. \A i \in 1 .. Len(h) : h[i].kind # "byte" /\ h[i] # Token("size", 0)
    <3>1. Token("size", z) # Token("size", 0) /\ Crlf # Token("size", 0)
      BY <2>1, <2>3, TokenFields
    <3>2. \A i \in 1 .. Len(h) : i = 1 \/ i = 2
      BY <2>7
    <3> QED  BY <2>3, <2>7, <3>1, <3>2
  <2>9. \A i \in 1 .. Len(e) : e[i].kind # "byte" /\ e[i] # Token("size", 0)
    <3>1. Crlf # Token("size", 0)
      BY <2>3, TokenFields
    <3>2. \A i \in 1 .. Len(e) : i = 1
      BY <2>7
    <3> QED  BY <2>3, <2>7, <3>1, <3>2
  <2>10. \A i \in 1 .. Len(d) : d[i] # Token("size", 0)
    <3>1. Len(d) = z /\ \A i \in 1 .. z : d[i] = Token("byte", a + i - 1)
      BY <2>1, <2>6, BytesType
    <3>2. \A i \in 1 .. Len(d) : d[i].kind = "byte"
      BY <3>1, TokenFields
    <3> QED  BY <3>2, TokenFields
  <2>11. PICK m \in Int : m = a - 1
    OBVIOUS
  <2>12. Lists(h, a, m) /\ Lists(d, m + 1, b) /\ Lists(e, b + 1, b)
    <3>1. m + 1 = a /\ b = (b + 1) - 1 /\ b + 1 \in Nat
      BY <2>11
    <3>2. Lists(h, a, m)
      BY <2>7, <2>8, <2>11, ListsNone
    <3>3. Lists(d, a, b)
      BY <2>6, ListsBytes
    <3>4. Lists(e, b + 1, b)
      BY <2>7, <2>9, <3>1, ListsNone
    <3> QED  BY <3>1, <3>2, <3>3, <3>4
  <2>13. PICK hd : hd = h \o d
    OBVIOUS
  <2>14. hd \in Seq(Tokens) /\ Lists(hd, a, b)
    <3>1. a <= m + 1 /\ m <= b /\ b \in Int /\ a \in Int
      BY <1>2, <2>11
    <3>2. Lists(h \o d, a, b)
      BY <2>7, <2>12, <3>1, ListsJoin
    <3> QED  BY <2>7, <2>13, <3>2, ConcatProperties
  <2>15. Lists(hd \o e, a, b)
    <3>1. b \in Int /\ a \in Int /\ b <= b
      OBVIOUS
    <3> QED  BY <2>7, <2>12, <2>14, <3>1, ListsJoin
  <2>16. \A i \in 1 .. Len(hd) : hd[i] # Token("size", 0)
    BY <2>7, <2>8, <2>10, <2>13, NoneJoined, ZenonT(60)
  <2>17. /\ hd \o e \in Seq(Tokens)
         /\ \A i \in 1 .. Len(hd \o e) : (hd \o e)[i] # Token("size", 0)
    <3>1. hd \o e \in Seq(Tokens)
      BY <2>7, <2>14, ConcatProperties
    <3> QED  BY <2>7, <2>9, <2>14, <2>16, <3>1, NoneJoined
  <2>18. Chunk(a, b) = hd \o e
    BY <1>2, <2>1, <2>4, <2>5, <2>6, <2>13 DEF Chunk
  <2> QED  BY <2>15, <2>17, <2>18
<1> QED  BY <1>1, <1>2

\* w is s, of length m, and then t, of length n.
Joined(w, s, m, t, n) ==
    /\ Len(w) = m + n
    /\ \A i \in 1 .. m + n : w[i] = IF i <= m THEN s[i] ELSE t[i - m]

LEMMA JoinAt ==
    ASSUME NEW s \in Seq(Tokens), NEW t \in Seq(Tokens)
    PROVE  Joined(s \o t, s, Len(s), t, Len(t))
BY ConcatProperties DEF Joined

\* The head of a message, and what ends a chunked one, are no bytes of its body.
LEMMA NoBytes ==
    ASSUME NEW framing \in Framings, NEW n \in Nat
    PROVE  /\ <<Start, Token(framing, n), Blank>> \in Seq(Tokens)
           /\ LastChunk \in Seq(Tokens)
           /\ \A a \in Nat : Lists(<<Start, Token(framing, n), Blank>>, a, a - 1)
           /\ \A a \in Nat : Lists(LastChunk, a, a - 1)
           /\ \A i \in 1 .. 3 : /\ <<Start, Token(framing, n), Blank>>[i] # Token("size", 0)
                                /\ framing # "chunked" =>
                                   <<Start, Token(framing, n), Blank>>[i].kind # "chunked"
           /\ \A i \in 1 .. 3 : LastChunk[i].kind # "byte"
<1>1. PICK x : x = Token(framing, n)
  OBVIOUS
<1>2. /\ x \in Tokens /\ x.kind \in {"length", "chunked", "close"} /\ x.kind = framing
      /\ Start \in Tokens /\ Start.kind = "start" /\ Blank \in Tokens /\ Blank.kind = "blank"
      /\ Crlf \in Tokens /\ Crlf.kind = "crlf"
      /\ Token("size", 0) \in Tokens /\ Token("size", 0).kind = "size"
  BY <1>1 DEF Framings, Start, Blank, Crlf, Token, Tokens, Kinds
<1>3. PICK h : h = <<Start, x, Blank>>
  OBVIOUS
<1>4. PICK e : e = LastChunk
  OBVIOUS
<1>5. /\ h \in Seq(Tokens) /\ Len(h) = 3 /\ h[1] = Start /\ h[2] = x /\ h[3] = Blank
      /\ e \in Seq(Tokens) /\ Len(e) = 3 /\ e[1] = Token("size", 0) /\ e[2] = Crlf /\ e[3] = Crlf
  BY <1>2, <1>3, <1>4 DEF LastChunk
<1>6. \A i \in 1 .. 3 : i = 1 \/ i = 2 \/ i = 3
  OBVIOUS
<1>8. /\ \A i \in 1 .. 3 : h[i].kind # "byte" /\ h[i].kind # "size"
      /\ framing # "chunked" => \A i \in 1 .. 3 : h[i].kind # "chunked"
  BY <1>2, <1>5, <1>6
<1>9. \A i \in 1 .. 3 : h[i] # Token("size", 0)
  BY <1>2, <1>8
<1>10. \A i \in 1 .. 3 : e[i].kind # "byte"
  BY <1>2, <1>5, <1>6
<1>11. ASSUME NEW a \in Nat PROVE Lists(h, a, a - 1) /\ Lists(e, a, a - 1)
  <2>1. PICK b \in Int : b = a - 1
    OBVIOUS
  <2>2. Lists(h, a, b)
    BY <1>5, <1>8, <2>1, ListsNone
  <2>3. Lists(e, a, b)
    BY <1>5, <1>10, <2>1, ListsNone
  <2> QED  BY <2>1, <2>2, <2>3
<1> QED  BY <1>1, <1>3, <1>4, <1>5, <1>8, <1>9, <1>10, <1>11

\* Everything of the body is in the first x tokens, the last size is not.
LastAfter(s, x) ==
    /\ \A i \in 1 .. x : s[i] # Token("size", 0)
    /\ \A i \in 1 .. Len(s) : s[i].kind = "byte" => i <= x

\* A message lists the bytes of its body; the last size of one in chunks comes
\* after all of them, and one that is not says so.
LEMMA MessageListed ==
    ASSUME NEW framing \in Framings, NEW n \in Nat, NEW k \in 0 .. n,
           NEW w, w = Message(framing, n, k)
    PROVE  /\ w \in Seq(Tokens) /\ Lists(w, 1, n)
           /\ framing = "chunked" => \E x \in Nat : LastAfter(w, x)
           /\ framing # "chunked" => \A i \in 1 .. Len(w) : w[i].kind # "chunked"
<1>1. PICK h \in Seq(Tokens) : h = <<Start, Token(framing, n), Blank>>
  BY NoBytes
<1>2. Len(h) = 3 /\ Lists(h, 1, 0)
  <2>1. 1 \in Nat /\ 1 - 1 = 0
    OBVIOUS
  <2>2. Len(h) = 3
    BY <1>1
  <2>3. Lists(h, 1, 1 - 1)
    BY <1>1, <2>1, NoBytes
  <2> QED  BY <2>1, <2>2, <2>3
<1>3. CASE framing = "chunked"
  <2>1. k \in Nat /\ 1 <= k + 1 /\ 1 \in Nat \ {0} /\ k <= n
    OBVIOUS
  <2>2. PICK l \in Nat \ {0} : l = k + 1 /\ l <= n + 1
    BY <2>1
  <2>3. PICK c : c = Chunk(1, k)
    OBVIOUS
  <2>4. /\ c \in Seq(Tokens) /\ Lists(c, 1, k)
         /\ \A i \in 1 .. Len(c) : c[i] # Token("size", 0)
    BY <2>1, <2>3, ChunkTokens
  <2>5. PICK d : d = Chunk(l, n)
    OBVIOUS
  <2>6. /\ d \in Seq(Tokens) /\ Lists(d, l, n)
         /\ \A i \in 1 .. Len(d) : d[i] # Token("size", 0)
    BY <2>2, <2>5, ChunkTokens
  <2>7. PICK e \in Seq(Tokens) : e = LastChunk
    BY NoBytes
  <2>8. Lists(c, 1, k) /\ Lists(d, k + 1, n)
    BY <2>2, <2>4, <2>6
  <2>9. Len(e) = 3 /\ Lists(e, n + 1, n) /\ \A i \in 1 .. 3 : e[i].kind # "byte"
    <3>1. PICK a \in Nat : a = n + 1 /\ a - 1 = n
      OBVIOUS
    <3>2. Len(e) = 3
      BY <2>7 DEF LastChunk
    <3>3. Lists(e, a, a - 1)
      BY <2>7, NoBytes
    <3> QED  BY <2>7, <3>1, <3>2, <3>3, NoBytes
  <2>10. PICK cd : cd = c \o d
    OBVIOUS
  <2>11. cd \in Seq(Tokens) /\ Lists(cd, 1, n)
    <3>1. 1 \in Int /\ k \in Int /\ n \in Int
      OBVIOUS
    <3>2. Lists(c \o d, 1, n)
      BY <2>1, <2>8, <2>4, <2>6, <3>1, ListsJoin
    <3> QED  BY <2>10, <2>4, <2>6, <3>2, ConcatProperties
  <2>12. PICK f : f = h \o cd
    OBVIOUS
  <2>13. f \in Seq(Tokens) /\ Lists(f, 1, n)
    <3>1. 1 \in Int /\ 0 \in Int /\ n \in Int /\ 1 <= 0 + 1 /\ 0 <= n /\ 0 + 1 = 1
      OBVIOUS
    <3>2. Lists(h \o cd, 1, n)
      BY <1>2, <2>11, <3>1, ListsJoin
    <3> QED  BY <2>11, <2>12, <3>2, ConcatProperties
  <2>14. w = f \o e
    <3>1. w = h \o (cd \o e)
      BY <1>1, <1>3, <2>2, <2>3, <2>5, <2>7, <2>10, MessageParts DEF Chunks
    <3>2. h \o (cd \o e) = (h \o cd) \o e
      <4>1. h \in Seq(Tokens) /\ cd \in Seq(Tokens) /\ e \in Seq(Tokens)
        BY <2>11
      <4> QED  BY <4>1, ConcatAssociative, SMTT(30)
    <3> QED  BY <2>12, <3>1, <3>2
  <2>15. w \in Seq(Tokens) /\ Lists(w, 1, n)
    <3>1. 1 \in Int /\ n \in Int /\ 1 <= n + 1 /\ n <= n
      OBVIOUS
    <3>2. Lists(f \o e, 1, n)
      BY <2>9, <2>13, <3>1, ListsJoin
    <3> QED  BY <2>13, <2>14, <3>2, ConcatProperties
  <2>16. \A i \in 1 .. Len(f) : f[i] # Token("size", 0)
    <3>1. \A i \in 1 .. Len(h) : h[i] # Token("size", 0)
      BY <1>1, <1>2, NoBytes
    <3>2. \A i \in 1 .. Len(c) : c[i] # Token("size", 0)
      BY <2>4
    <3>3. \A i \in 1 .. Len(d) : d[i] # Token("size", 0)
      BY <2>6
    <3>4. \A i \in 1 .. Len(cd) : cd[i] # Token("size", 0)
      BY <2>10, <2>4, <2>6, <3>2, <3>3, NoneJoined
    <3> QED  BY <2>11, <2>12, <3>1, <3>4, NoneJoined
  <2>17. PICK x \in Nat : x = Len(f)
    BY <2>13, LenProperties
  <2>18. Len(w) = x + 3 /\ \A i \in 1 .. x + 3 : w[i] = IF i <= x THEN f[i] ELSE e[i - x]
    <3>1. f \in Seq(Tokens) /\ e \in Seq(Tokens) /\ x = Len(f) /\ 3 = Len(e)
      BY <2>9, <2>13, <2>17
    <3>2. Joined(w, f, x, e, 3)
      BY <2>14, <3>1, JoinAt
    <3> QED  BY <3>2 DEF Joined
  <2>19. ASSUME NEW i \in 1 .. x PROVE w[i] # Token("size", 0)
    <3>1. i \in 1 .. x + 3 /\ i <= x
      OBVIOUS
    <3> QED  BY <2>16, <2>17, <2>18, <3>1
  <2>20. ASSUME NEW i \in 1 .. x + 3, ~(i <= x) PROVE w[i].kind # "byte"
    <3>1. i - x \in 1 .. 3
      BY <2>20
    <3> QED  BY <2>9, <2>18, <2>20, <3>1
  <2> QED  BY <1>3, <2>15, <2>18, <2>19, <2>20 DEF LastAfter
<1>4. CASE framing # "chunked"
  <2>1. n \in Nat /\ 1 <= n + 1 /\ 1 \in Nat \ {0} /\ 1 \in Int /\ 0 \in Int /\ n \in Int
        /\ 1 <= 0 + 1 /\ 0 <= n /\ 0 + 1 = 1 /\ n - 1 + 1 = n
    OBVIOUS
  <2>2. PICK b \in Seq(Tokens) : b = Bytes(1, n)
    BY <2>1, BytesType
  <2>3. w = h \o b
    BY <1>1, <1>4, <2>2, MessageParts
  <2>4. Lists(b, 1, n)
    BY <2>1, <2>2, ListsBytes
  <2>5. Lists(h \o b, 1, n)
    BY <1>2, <2>1, <2>4, ListsJoin
  <2>6. w \in Seq(Tokens) /\ Lists(w, 1, n)
    BY <2>3, <2>5, ConcatProperties
  <2>7. Len(b) = n /\ \A i \in 1 .. n : b[i].kind # "chunked"
    <3>1. Len(b) = n /\ \A i \in 1 .. n : b[i] = Token("byte", 1 + i - 1)
      BY <2>1, <2>2, BytesType
    <3> QED  BY <3>1, TokenFields
  <2>8. Len(w) = 3 + n /\ \A i \in 1 .. 3 + n : w[i] = IF i <= 3 THEN h[i] ELSE b[i - 3]
    <3>1. 3 = Len(h) /\ n = Len(b)
      BY <1>2, <2>7
    <3>2. Joined(w, h, 3, b, n)
      BY <2>3, <3>1, JoinAt
    <3> QED  BY <3>2 DEF Joined
  <2>9. ASSUME NEW i \in 1 .. 3 + n PROVE w[i].kind # "chunked"
    <3>1. CASE i <= 3
      <4>1. i \in 1 .. 3
        BY <3>1
      <4> QED  BY <1>1, <1>4, <2>8, <3>1, <4>1, NoBytes
    <3>2. CASE ~(i <= 3)
      <4>1. i - 3 \in 1 .. n
        BY <3>2
      <4> QED  BY <2>7, <2>8, <3>2, <4>1
    <3> QED  BY <3>1, <3>2
  <2> QED  BY <1>4, <2>6, <2>8, <2>9
<1> QED  BY <1>3, <1>4

\* The items are the beginning of a message with a body of n bytes.
Sent(items, n) ==
    \E framing \in Framings, k \in 0 .. n :
        \E l \in 0 .. Len(Message(framing, n, k)) :
            items = SubSeq(Message(framing, n, k), 1, l)

\* What a program understands of the beginning of a message with a body of n bytes:
\* the first of them, and all of them if it is in chunks and has the last size.
LEMMA BodyOfBeginning ==
    ASSUME NEW n \in Nat, NEW items, Sent(items, n)
    PROVE  \E c \in 0 .. n :
              /\ BodyOf(items) = Bytes(1, c)
              /\ FramingOf(items) = "chunked" /\ Token("size", 0) \in Range(items) => c = n
<1>1. PICK framing \in Framings, k \in 0 .. n :
         \E l \in 0 .. Len(Message(framing, n, k)) :
            items = SubSeq(Message(framing, n, k), 1, l)
  BY DEF Sent
<1>2. PICK w : w = Message(framing, n, k)
  OBVIOUS
<1>3. PICK l \in 0 .. Len(w) : items = SubSeq(w, 1, l)
  BY <1>1, <1>2
<1>4. /\ w \in Seq(Tokens) /\ Lists(w, 1, n)
      /\ framing = "chunked" => \E x \in Nat : LastAfter(w, x)
      /\ framing # "chunked" => \A i \in 1 .. Len(w) : w[i].kind # "chunked"
  BY <1>2, MessageListed
<1>5. PICK z \in Nat : z = Len(w)
  BY <1>4, LenProperties
<1>6. items \in Seq(Tokens) /\ Len(items) = l /\ \A i \in 1 .. l : items[i] = w[i] /\ i \in 1 .. z
  <2>1. l \in Nat /\ l \in Int /\ 1 \in Int /\ \A i \in 1 .. l : i \in 1 .. z /\ w[i] \in Tokens
    BY <1>4, <1>5, ElementOfSeq
  <2>2. PICK t : t = SubSeq(w, 1, l)
    OBVIOUS
  <2>3. /\ t \in Seq(Tokens)
        /\ Len(t) = IF 1 <= l THEN l - 1 + 1 ELSE 0
        /\ \A i \in 1 .. l - 1 + 1 : t[i] = w[1 + i - 1]
    BY <2>1, <2>2, SubSeqProperties
  <2>4. l - 1 + 1 = l /\ \A i \in 1 .. l : 1 + i - 1 = i
    BY <2>1
  <2>5. t = items
    BY <1>3, <2>2
  <2> QED  BY <2>1, <2>3, <2>4, <2>5
<1>7. PICK c \in 0 .. n : Lists(items, 1, c)
  BY <1>4, <1>3, ListsBegin
<1>8. BodyOf(items) = Bytes(1, c)
  <2>1. c \in Nat
    OBVIOUS
  <2> QED  BY <1>6, <1>7, <2>1, BodyListed
<1>9. ASSUME FramingOf(items) = "chunked", Token("size", 0) \in Range(items) PROVE c = n
  <2>1. DOMAIN items = 1 .. l
    BY <1>6, LenProperties
  <2>2. framing = "chunked"
    <3>1. Has(items, "chunked")
      BY <1>9 DEF FramingOf
    <3>2. PICK i \in 1 .. l : items[i].kind = "chunked"
      BY <2>1, <3>1 DEF Has
    <3> QED  BY <1>4, <1>5, <1>6, <3>2
  <2>3. PICK x \in Nat : LastAfter(w, x)
    BY <1>4, <2>2
  <2>4. PICK i \in 1 .. l : items[i] = Token("size", 0)
    BY <1>9, <2>1 DEF Range
  <2>5. x < i
    <3>1. w[i] = Token("size", 0)
      BY <1>6, <2>4
    <3>2. i \notin 1 .. x
      BY <2>3, <3>1 DEF LastAfter
    <3> QED  BY <3>2
  <2>6. SUFFICES ASSUME c # n PROVE FALSE
    OBVIOUS
  <2>7. c + 1 \in 1 .. n
    BY <2>6
  <2>8. PICK j \in 1 .. Len(w) : w[j] = Token("byte", c + 1)
    BY <1>4, <2>7 DEF Lists
  <2>9. w[j].kind = "byte" /\ w[j].n = c + 1
    BY <2>8, TokenFields
  <2>10. j <= x
    BY <2>3, <2>9 DEF LastAfter
  <2>11. j \in 1 .. l
    BY <1>5, <2>5, <2>10
  <2>12. items[j].kind = "byte" /\ items[j].n = c + 1
    BY <1>6, <2>9, <2>11
  <2>13. c + 1 \in 1 .. c
    BY <1>6, <1>7, <2>11, <2>12 DEF Lists
  <2> QED  BY <2>13
<1> QED  BY <1>8, <1>9

LEMMA FewerBytes ==
    ASSUME NEW n \in Nat, NEW c \in 0 .. n
    PROVE  IsPrefix(Bytes(1, c), Bytes(1, n))
<1>1. c \in Nat /\ 1 \in Nat \ {0} /\ 1 <= c + 1 /\ 1 <= n + 1 /\ c <= n
      /\ c - 1 + 1 = c /\ n - 1 + 1 = n
  OBVIOUS
<1>2. PICK s : s = Bytes(1, c)
  OBVIOUS
<1>3. PICK t : t = Bytes(1, n)
  OBVIOUS
<1>4. /\ s \in Seq(Tokens) /\ Len(s) = c /\ \A i \in 1 .. c : s[i] = Token("byte", 1 + i - 1)
  BY <1>1, <1>2, BytesType
<1>5. /\ t \in Seq(Tokens) /\ Len(t) = n /\ \A i \in 1 .. n : t[i] = Token("byte", 1 + i - 1)
  BY <1>1, <1>3, BytesType
<1>6. PICK u : u = SubSeq(t, 1, c)
  OBVIOUS
<1>7. u \in Seq(Tokens) /\ Len(u) = c /\ \A i \in 1 .. c : u[i] = t[i]
  <2>1. 1 \in Int /\ c \in Int /\ \A i \in 1 .. c : i \in 1 .. n /\ t[i] \in Tokens
    BY <1>1, <1>5, ElementOfSeq
  <2>2. /\ u \in Seq(Tokens)
        /\ Len(u) = IF 1 <= c THEN c - 1 + 1 ELSE 0
        /\ \A i \in 1 .. c - 1 + 1 : u[i] = t[1 + i - 1]
    BY <1>6, <2>1, SubSeqProperties
  <2>3. \A i \in 1 .. c : 1 + i - 1 = i
    BY <1>1
  <2> QED  BY <1>1, <2>2, <2>3
<1>8. \A i \in 1 .. c : u[i] = s[i]
  <2>1. \A i \in 1 .. c : i \in 1 .. n
    BY <1>1
  <2> QED  BY <1>4, <1>5, <1>7, <2>1
<1>9. u = s
  BY <1>4, <1>7, <1>8, SeqEqual
<1>10. SubSeq(s, 1, Len(s)) = s
  BY <1>4, SubSeqFull
<1> QED  BY <1>1, <1>2, <1>3, <1>4, <1>5, <1>6, <1>9, <1>10 DEF IsPrefix

-----------------------------------------------------------------------------
(* The answer of the origin *)

\* The pool has understood the answer, and the client got what it understood.
AnswerInv ==
    /\ origin.end # "open" => Sent(origin.items, origin.sends)
    /\ pool.said.kind = "ok" =>
          /\ pool.pc = "done" /\ origin.end # "open"
          /\ ~Unreadable(origin.items, origin.end)
          /\ pool.said.body = BodyOf(origin.items)
    /\ client.at = "ok" => pool.said.kind = "ok" /\ client.body = pool.said.body

LEMMA AnswerEnough == ASSUME Types, AnswerInv PROVE AnswerIsOrigins
<1> SUFFICES ASSUME client.at = "ok"
             PROVE  /\ IsPrefix(client.body, Bytes(1, origin.sends))
                    /\ \/ client.body = Bytes(1, origin.sends)
                       \/ FramingOf(origin.items) # "chunked"
  BY DEF AnswerIsOrigins
<1>1. PICK n \in Nat : n = origin.sends
  <2>1. origin.sends \in 0 .. MaxDown
    BY DEF Types
  <2> QED  BY <2>1, FetchAssumption
<1>2. /\ Sent(origin.items, n) /\ ~Unreadable(origin.items, origin.end)
      /\ client.body = BodyOf(origin.items)
  BY <1>1 DEF AnswerInv
<1>3. PICK c \in 0 .. n :
         /\ BodyOf(origin.items) = Bytes(1, c)
         /\ FramingOf(origin.items) = "chunked" /\ Token("size", 0) \in Range(origin.items)
               => c = n
  BY <1>2, BodyOfBeginning
<1>4. IsPrefix(client.body, Bytes(1, n))
  BY <1>2, <1>3, FewerBytes
<1>5. FramingOf(origin.items) = "chunked" => Token("size", 0) \in Range(origin.items)
  BY <1>2 DEF Unreadable
<1> QED  BY <1>1, <1>2, <1>3, <1>4, <1>5

LEMMA InitAnswer == Init => AnswerInv
BY DEF Init, Waiting, Nothing, AnswerInv

LEMMA OriginSends == ASSUME Types, AnswerInv, OriginAnswers PROVE AnswerInv'
<1>1. PICK framing \in Framings, n \in 0 .. MaxDown, k \in 0 .. MaxDown :
         /\ k <= n
         /\ \E d \in Delivered(Message(framing, n, k)) \cup
                    {[items |-> Message(framing, n, k), end |-> "reset"]} :
               origin' = [origin EXCEPT !.sends = n, !.items = d.items, !.end = d.end]
  BY DEF OriginAnswers
<1>2. PICK w : w = Message(framing, n, k)
  OBVIOUS
<1>3. PICK d \in Delivered(w) \cup {[items |-> w, end |-> "reset"]} :
         origin' = [origin EXCEPT !.sends = n, !.items = d.items, !.end = d.end]
  BY <1>1, <1>2
<1>4. n \in Nat /\ k \in 0 .. n
  BY <1>1, FetchAssumption
<1>5. w \in Seq(Tokens)
  BY <1>2, <1>4, MessageListed
<1>6. PICK z \in Nat : z = Len(w)
  BY <1>5, LenProperties
<1>7. \E l \in 0 .. z : d.items = SubSeq(w, 1, l)
  <2>1. CASE d.items = w
    <3>1. SubSeq(w, 1, z) = w
      BY <1>5, <1>6, SubSeqFull
    <3> QED  BY <2>1, <3>1
  <2>2. CASE \E l \in 0 .. z - 1, e \in {"fin", "reset"} :
                d = [items |-> SubSeq(w, 1, l), end |-> e]
    BY <2>2
  <2>3. \/ d.items = w
        \/ \E l \in 0 .. z - 1, e \in {"fin", "reset"} :
              d = [items |-> SubSeq(w, 1, l), end |-> e]
    BY <1>6 DEF Delivered
  <2> QED  BY <2>1, <2>2, <2>3
<1>8. origin'.items = d.items /\ origin'.sends = n
  BY <1>3 DEF Types
<1>9. Sent(origin'.items, origin'.sends)
  BY <1>2, <1>4, <1>6, <1>7, <1>8 DEF Sent
<1>10. origin.end = "open" /\ UNCHANGED <<client, pool>>
  BY DEF OriginAnswers
<1> QED  BY <1>9, <1>10 DEF AnswerInv

LEMMA PoolAnswers == ASSUME Types, AnswerInv, Pool PROVE AnswerInv'
<1>1. UNCHANGED client
  BY SaysSaid DEF Pool, PoolReads, PoolHolds, PoolFails, PoolReceives, PoolDrops, PoolDials, PoolSends
<1>2. pool.pc # "done"
  BY DEF Pool, PoolReads, PoolHolds, PoolFails, PoolReceives, PoolDrops, PoolDials, PoolSends
<1>3. client.at # "ok" /\ pool.said.kind # "ok"
  BY <1>2 DEF AnswerInv
<1>4. origin'.end = origin.end /\ origin'.items = origin.items /\ origin'.sends = origin.sends
  <2>1. CASE PoolSends
    BY <2>1 DEF PoolSends, Types
  <2>2. CASE ~PoolSends
    BY <2>2 DEF Pool, PoolReads, PoolHolds, PoolFails, PoolReceives, PoolDrops, PoolDials
  <2> QED  BY <2>1, <2>2
<1>5. CASE PoolReceives /\ Says("ok", FALSE, BodyOf(origin.items), JsonLength)
           /\ ~Unreadable(origin.items, origin.end)
  <2>1. pool'.pc = "done" /\ pool'.said.body = BodyOf(origin.items)
    BY <1>5 DEF Says
  <2>2. origin.end # "open"
    BY <1>5 DEF PoolReceives
  <2> QED  BY <1>1, <1>3, <1>4, <1>5, <2>1, <2>2 DEF AnswerInv
<1>6. CASE pool'.said.kind # "ok"
  BY <1>1, <1>3, <1>4, <1>6 DEF AnswerInv
<1>7. CASE PoolReceives /\ Says("failed", FALSE, <<>>, JsonLength)
  <2>1. pool'.said.kind = "failed"
    BY <1>7, SaysSaid
  <2> QED  BY <1>6, <2>1
<1>8. CASE ~PoolReceives
  <2>1. CASE PoolReads \/ PoolHolds \/ PoolFails
    <3>1. CASE pool'.said = pool.said
      BY <1>3, <1>6, <3>1
    <3>2. CASE \E kind \in {"manager", "refused", "none ready", "failed"}, retry \in BOOLEAN,
                 length \in {0, JsonLength} : Says(kind, retry, <<>>, length)
      <4>1. PICK kind \in {"manager", "refused", "none ready", "failed"}, retry \in BOOLEAN,
                 length \in {0, JsonLength} : Says(kind, retry, <<>>, length)
        BY <3>2
      <4>2. pool'.said.kind = kind
        BY <4>1, SaysSaid
      <4> QED  BY <1>6, <4>2
    <3> QED  BY <2>1, <3>1, <3>2 DEF PoolReads, PoolHolds, PoolFails, Types
  <2>2. CASE PoolDrops \/ PoolDials \/ PoolSends
    <3>1. pool'.said = pool.said
      BY <2>2 DEF PoolDrops, PoolDials, PoolSends, Types
    <3> QED  BY <1>3, <1>6, <3>1
  <2> QED  BY <1>8, <2>1, <2>2 DEF Pool
<1> QED  BY <1>5, <1>7, <1>8 DEF PoolReceives

LEMMA EdgeAnswerInv ==
    ASSUME AnswerInv, UNCHANGED <<pool, origin>>,
           \/ UNCHANGED client \/ client'.at # "ok"
           \/ pool.said.kind = "ok" /\ client'.body = pool.said.body
    PROVE  AnswerInv'
BY DEF AnswerInv

LEMMA StepAnswer == Types /\ AnswerInv /\ [Next]_vars => AnswerInv'
<1> SUFFICES ASSUME Types, AnswerInv, [Next]_vars
             PROVE  AnswerInv'
  OBVIOUS
<1>1. CASE UNCHANGED vars
  BY <1>1, EdgeAnswerInv DEF vars
<1>2. CASE EdgeReads \/ EdgeHead \/ EdgeSize \/ EdgeData \/ EdgeRest \/ LinkLost \/ EdgeAsks
  BY <1>2, EdgeAnswerInv DEF EdgeReads, EdgeHead, EdgeSize, EdgeData, EdgeRest, LinkLost, EdgeAsks
<1>3. CASE EdgeRefuses
  <2>1. client'.at = "closed"
    BY <1>3 DEF EdgeRefuses, Types
  <2> QED  BY <1>3, <2>1, EdgeAnswerInv DEF EdgeRefuses
<1>4. CASE EdgeReadFails \/ EdgeNoPool
  BY <1>4, EdgeAnswerInv DEF EdgeReadFails, EdgeNoPool, Answer
<1>5. CASE EdgeAnswers
  BY <1>5, EdgeAnswerInv DEF EdgeAnswers, Answer
<1> QED  BY <1>1, <1>2, <1>3, <1>4, <1>5, OriginSends, PoolAnswers DEF Next, ReadFull

\* What the client gets as the origin's answer is a beginning of what the origin
\* sent, for every framing, chunk and length of it and every cut of every read; an
\* answer in chunks is never a part taken for the whole.
THEOREM AnswersAreTheOrigins == Spec => []AnswerIsOrigins
BY InitTypes, StepTypes, InitAnswer, StepAnswer, AnswerEnough, PTL DEF Spec
=============================================================================
