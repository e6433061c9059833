------------------------------- MODULE Fetch --------------------------------
(***************************************************************************)
(* One request that is no CONNECT through both programs: client - edge     *)
(* (edge.py: handle_client, pool_fetch, handle_manager_passthrough,        *)
(* read_full) - pool (app.py: the /fetch branch of handle_client,          *)
(* serve_fetch, fetch_blocking) - origin.                                  *)
(*                                                                         *)
(* An HTTP message is a sequence of tokens: the start line, the header     *)
(* that frames the body, the blank line, and the bytes, sizes and line     *)
(* ends of the body.  A stream may stop after any token, in order or by a  *)
(* reset; the pool's own stream may also fall silent.  The bytes of the    *)
(* pool's answer to the edge are JSON, which parses when it is whole.  A   *)
(* stalled origin is a reset: each operation on its socket has a timeout.  *)
(***************************************************************************)
EXTENDS Integers, FiniteSets, Sequences, SequencesExt

CONSTANTS
    Methods,      \* what clients ask with
    MaxUp,        \* bound: bytes of the client's body
    MaxDown,      \* bound: bytes of the origin's body
    JsonLength,   \* bound: bytes of a JSON answer of the pool
    MaxFetch,     \* MAX_FETCH_BYTES
    Slack,        \* what /fetch allows a request beyond that (64 KiB)
    SendChunks    \* what SEND_CHUNK may be set to while a request is sent (tune)

ASSUME FetchAssumption ==
    /\ MaxUp \in Nat /\ MaxDown \in Nat /\ MaxFetch \in Nat /\ Slack \in Nat
    /\ JsonLength \in Nat \ {0} /\ SendChunks \subseteq Nat \ {0}

VARIABLES
    request,   \* what the client asks: method, url or path of the edge, body
    client,    \* waiting, closed, or how it was answered: [at, retry, framing, body]
    edge,      \* [pc, framing, need, buf, body], the state of read_full
    up,        \* edge -> pool: [at, method]
    down,      \* stream pool -> edge: [items, end]
    pool,      \* [pc, unsent, said]; said.whole: it left for the edge uncut
    origin     \* [method, got, sends, items, end]

vars == <<request, client, edge, up, down, pool, origin>>

Token(kind, n) == [kind |-> kind, n |-> n]
Start == Token("start", 0)
Blank == Token("blank", 0)
Crlf == Token("crlf", 0)
Bytes(a, b) == [i \in 1 .. b - a + 1 |-> Token("byte", a + i - 1)]

Chunk(a, b) ==
    IF a > b THEN <<>> ELSE <<Token("size", b - a + 1), Crlf>> \o Bytes(a, b) \o <<Crlf>>

LastChunk == <<Token("size", 0), Crlf, Crlf>>

\* n bytes in one of the framings of HTTP, with a chunk that ends after byte k.
Message(framing, n, k) ==
    <<Start, Token(framing, n), Blank>>
        \o IF framing = "chunked"
           THEN Chunk(1, k) \o Chunk(k + 1, n) \o LastChunk
           ELSE Bytes(1, n)

Framings == {"length", "chunked", "close"}
Has(items, kind) == \E i \in DOMAIN items : items[i].kind = kind
Find(items, kind) == SelectInSeq(items, LAMBDA t : t.kind = kind)
Take(items, n) == IF n < Len(items) THEN SubSeq(items, 1, n) ELSE items
From(items, i) == SubSeq(items, i, Len(items))
FramingOf(items) ==
    IF Has(items, "chunked") THEN "chunked"
    ELSE IF Has(items, "length") THEN "length" ELSE "close"

\* The bytes of the body in their order: the n-th is where there are n so far.
BytesUpTo(items, i) == Cardinality({j \in 1 .. i : items[j].kind = "byte"})
ByteAt(items, n) ==
    CHOOSE i \in DOMAIN items : items[i].kind = "byte" /\ BytesUpTo(items, i) = n
BodyOf(items) ==
    [n \in 1 .. BytesUpTo(items, Len(items)) |-> items[ByteAt(items, n)]]

\* What of a message arrives, and how the stream ends.
Delivered(message) ==
    {[items |-> message, end |-> "fin"]} \cup
    {[items |-> SubSeq(message, 1, n), end |-> e] :
        n \in 0 .. Len(message) - 1, e \in {"fin", "reset"}}

Open == [items |-> <<>>, end |-> "open"]
Waiting == [at |-> "waiting", retry |-> FALSE, framing |-> "close", body |-> <<>>]
Nothing == [kind |-> "none", retry |-> FALSE, body |-> <<>>, whole |-> FALSE]

Init ==
    /\ request \in [method : Methods, target : {"url", "path"}, body : 0 .. MaxUp]
    /\ client = Waiting
    /\ edge = [pc |-> "reading", framing |-> "close", need |-> 0, buf |-> <<>>, body |-> <<>>]
    /\ up = [at |-> "none", method |-> request.method]
    /\ down = Open
    /\ pool = [pc |-> "idle", unsent |-> <<>>, said |-> Nothing]
    /\ origin = [method |-> "none", got |-> <<>>, sends |-> 0, items |-> <<>>, end |-> "open"]

-----------------------------------------------------------------------------
(* The edge: the request *)

\* The edge closes the client: the request never became whole.
EdgeRefuses ==
    /\ edge.pc = "reading"
    /\ client' = [client EXCEPT !.at = "closed"]
    /\ edge' = [edge EXCEPT !.pc = "done"]
    /\ UNCHANGED <<request, up, down, pool, origin>>

\* pool_fetch puts url, headers and body into a POST of its own; a request for a
\* path goes to the pool as it is.  The pool gets it whole or not at all.
EdgeAsks ==
    /\ edge.pc = "reading"
    /\ edge' = [edge EXCEPT !.pc = "head"]
    /\ up' = [at |-> "sent", method |-> IF request.target = "url" THEN "POST" ELSE request.method]
    /\ UNCHANGED <<request, client, down, pool, origin>>

\* Bug: the handler goes on after an answer.
Answer_GoesOn(at, retry, framing, body) ==
    /\ client' = [at |-> at, retry |-> retry, framing |-> framing, body |-> body]
    /\ UNCHANGED <<request, edge, up, down, pool, origin>>

Answer(at, retry, framing, body) ==
    /\ client' = [at |-> at, retry |-> retry, framing |-> framing, body |-> body]
    /\ edge' = [edge EXCEPT !.pc = "done"]
    /\ UNCHANGED <<request, up, down, pool, origin>>

\* The pool cannot be reached: 502.
EdgeNoPool ==
    /\ edge.pc = "reading"
    /\ Answer("failed", FALSE, "close", <<>>)

-----------------------------------------------------------------------------
(* The edge: read_full, wherever its reads cut the stream *)

\* Each loop of read_full reads until it has what it needs.
Short ==
    \/ edge.pc = "head" /\ ~Has(edge.buf, "blank")
    \/ edge.pc = "size" /\ ~Has(edge.buf, "crlf")
    \/ edge.pc = "data" /\ Len(edge.buf) < edge.need + 1
    \/ edge.pc = "exact" /\ Len(edge.buf) < edge.need
    \/ edge.pc = "tail"

Ended == down.items = <<>> /\ down.end = "fin"

EdgeReads ==
    /\ Short
    /\ \E n \in 1 .. Len(down.items) :
          /\ edge' = [edge EXCEPT !.buf = @ \o SubSeq(down.items, 1, n)]
          /\ down' = [down EXCEPT !.items = From(@, n + 1)]
    /\ UNCHANGED <<request, client, up, pool, origin>>

\* A reset, and the end of a stream inside readexactly, raise: 502.
EdgeReadFails ==
    /\ Short
    /\ \/ down.items = <<>> /\ down.end = "reset"
       \/ Ended /\ edge.pc = "exact"
    /\ Answer("failed", FALSE, "close", <<>>)

\* The head is there, or all of it that will come: a body without a header that
\* frames it, or of length 0, goes on to the end of the stream.
EdgeHead ==
    LET at == IF Has(edge.buf, "blank") THEN Find(edge.buf, "blank") ELSE Len(edge.buf) + 1
        head == SubSeq(edge.buf, 1, at - 1)
        framing == FramingOf(head)
        length == IF framing = "length" THEN head[Find(head, "length")].n ELSE 0
    IN  /\ edge.pc = "head" /\ (~Short \/ Ended)
        /\ edge' = [edge EXCEPT !.pc = IF framing = "chunked" THEN "size"
                                       ELSE IF length # 0 THEN "exact" ELSE "tail",
                                !.framing = framing,
                                !.need = length,
                                !.buf = From(@, at + 1)]
        /\ UNCHANGED <<request, client, up, down, pool, origin>>

\* Bug: the end of the stream is not looked for.
EdgeSize_Waits ==
    LET line == SubSeq(edge.buf, 1, Find(edge.buf, "crlf") - 1)
        size == IF line = <<>> THEN 0 ELSE line[1].n
    IN  /\ edge.pc = "size" /\ ~Short
        /\ edge' = [edge EXCEPT !.pc = IF size = 0 THEN "judge" ELSE "data",
                                !.need = size,
                                !.buf = From(@, Len(line) + 2)]
        /\ UNCHANGED <<request, client, up, down, pool, origin>>

\* The line of a size; the last, an empty one and the end of the stream end the body.
EdgeSize ==
    LET line == SubSeq(edge.buf, 1, Find(edge.buf, "crlf") - 1)
        size == IF Short \/ line = <<>> THEN 0 ELSE line[1].n
    IN  /\ edge.pc = "size" /\ (~Short \/ Ended)
        /\ edge' = [edge EXCEPT !.pc = IF size = 0 THEN "judge" ELSE "data",
                                !.need = size,
                                !.buf = IF Short THEN <<>> ELSE From(@, Len(line) + 2)]
        /\ UNCHANGED <<request, client, up, down, pool, origin>>

\* Bug: the end of the line after a chunk is left in the buffer.
EdgeData_KeepsCrlf ==
    /\ edge.pc = "data" /\ (~Short \/ Ended)
    /\ edge' = [edge EXCEPT !.pc = "size",
                            !.body = @ \o Take(edge.buf, edge.need),
                            !.buf = From(@, edge.need + 1)]
    /\ UNCHANGED <<request, client, up, down, pool, origin>>

\* A chunk and the end of its line, or what there is of it.
EdgeData ==
    /\ edge.pc = "data" /\ (~Short \/ Ended)
    /\ edge' = [edge EXCEPT !.pc = "size",
                            !.body = @ \o Take(edge.buf, edge.need),
                            !.buf = From(@, edge.need + 2)]
    /\ UNCHANGED <<request, client, up, down, pool, origin>>

EdgeRest ==
    /\ \/ edge.pc = "exact" /\ ~Short
       \/ edge.pc = "tail" /\ Ended
    /\ edge' = [edge EXCEPT !.pc = "judge",
                            !.body = IF edge.pc = "exact" THEN Take(edge.buf, edge.need)
                                     ELSE edge.buf]
    /\ UNCHANGED <<request, client, up, down, pool, origin>>

\* A path gets the body as it was read, under the header as it was received.  Of
\* JSON, nothing reads as {}, which is not ok; a part does not parse; ok becomes
\* the origin's answer.
EdgeAnswers ==
    /\ edge.pc = "judge"
    /\ \/ request.target = "path" /\ Answer("raw", FALSE, edge.framing, edge.body)
       \/ /\ request.target = "url"
          /\ \/ /\ edge.body # <<>> /\ edge.body # Bytes(1, JsonLength)
                /\ Answer("failed", FALSE, "close", <<>>)
             \/ /\ edge.body \in {<<>>, Bytes(1, JsonLength)}
                /\ edge.body = <<>> \/ pool.said.kind # "ok"
                /\ Answer("failed", TRUE, "close", <<>>)
             \/ /\ edge.body = Bytes(1, JsonLength) /\ pool.said.kind = "ok"
                /\ Answer("ok", FALSE, "length", pool.said.body)

-----------------------------------------------------------------------------
(* The pool *)

\* The answer leaves: a front that ends TLS may chunk it, and it may be cut
\* anywhere; on a link that has been cut already it is lost.
Says(kind, retry, body, length) ==
    /\ \E framing \in IF length = 0 THEN Framings ELSE {"length", "chunked"}, k \in 0 .. length :
          LET message == Message(framing, length, k)
          IN  /\ IF down.end = "open" THEN down' \in Delivered(message) ELSE UNCHANGED down
              /\ pool' = [pc |-> "done", unsent |-> <<>>,
                          said |-> [kind |-> kind, retry |-> retry, body |-> body,
                                    whole |-> down'.items = message]]
    /\ UNCHANGED <<request, client, edge, up>>

\* base64: three bytes become four.
Inflated(n) == ((n + 2) \div 3) * 4

\* The manager's own endpoints answer at once; /fetch refuses a request that is
\* too large (413, without a body) or waits for a warp.
PoolReads ==
    /\ pool.pc = "idle" /\ up.at = "sent"
    /\ \/ request.target = "path" /\ Says("manager", FALSE, <<>>, JsonLength)
       \/ /\ request.target = "url" /\ Inflated(request.body) > MaxFetch + Slack
          /\ Says("refused", FALSE, <<>>, 0)
       \/ /\ request.target = "url" /\ Inflated(request.body) <= MaxFetch + Slack
          /\ pool' = [pool EXCEPT !.pc = "hold"]
          /\ UNCHANGED <<request, client, edge, up, down>>
    /\ UNCHANGED origin

\* The request was cut on its way: the pool closes.
PoolDrops ==
    /\ pool.pc = "idle" /\ up.at = "sent" /\ down.end = "open"
    /\ pool' = [pool EXCEPT !.pc = "done"]
    /\ down' = [down EXCEPT !.end = "fin"]
    /\ UNCHANGED <<request, client, edge, up, origin>>

\* wait_ready: a warp, or 502 with Retry-After.
PoolHolds ==
    /\ pool.pc = "hold"
    /\ \/ Says("none ready", TRUE, <<>>, JsonLength)
       \/ /\ pool' = [pool EXCEPT !.pc = "dial"]
          /\ UNCHANGED <<request, client, edge, up, down>>
    /\ UNCHANGED origin

\* fetch_blocking raises while it connects or sends.
PoolFails ==
    /\ pool.pc \in {"dial", "send"}
    /\ Says("failed", FALSE, <<>>, JsonLength)
    /\ UNCHANGED origin

\* The request is ready: its head, then the body.  One too large is not sent.
PoolDials ==
    /\ pool.pc = "dial" /\ request.body <= MaxFetch
    /\ pool' = [pool EXCEPT !.pc = "send", !.unsent = <<Start>> \o Bytes(1, request.body)]
    /\ UNCHANGED <<request, client, edge, up, down, origin>>

\* Bug: the slices do not meet.
PoolSends_Gap ==
    /\ pool.pc = "send"
    /\ \E chunk \in SendChunks :
          /\ origin' = [origin EXCEPT !.method = up.method, !.got = @ \o Take(pool.unsent, chunk)]
          /\ pool' = [pool EXCEPT !.unsent = From(@, chunk + 2),
                                  !.pc = IF Len(pool.unsent) <= chunk + 1 THEN "receive"
                                         ELSE "send"]
    /\ UNCHANGED <<request, client, edge, up, down>>

\* One slice of at most SEND_CHUNK, which another request may change between two.
\* The two reads of it in one statement see the same value: no other thread of the
\* interpreter runs between them.
PoolSends ==
    /\ pool.pc = "send"
    /\ \E chunk \in SendChunks :
          /\ origin' = [origin EXCEPT !.method = up.method, !.got = @ \o Take(pool.unsent, chunk)]
          /\ pool' = [pool EXCEPT !.unsent = From(@, chunk + 1),
                                  !.pc = IF Len(pool.unsent) <= chunk THEN "receive"
                                         ELSE "send"]
    /\ UNCHANGED <<request, client, edge, up, down>>

\* What fetch_blocking reads before it stops is there: the head, and the last
\* chunk with the line after it, or all the bytes of the length.
Complete(items) ==
    /\ Has(items, "blank")
    /\ \/ FramingOf(items) = "chunked" /\ IsSuffix(LastChunk, items)
       \/ /\ FramingOf(items) = "length"
          /\ Len(BodyOf(items)) = items[Find(items, "length")].n

\* Bug: the end of the stream is taken for the last chunk.
Unreadable_Lenient(items, end) ==
    \/ end = "reset" /\ ~Complete(items)
    \/ Len(BodyOf(items)) > MaxFetch
    \/ FramingOf(items) = "length" /\ items[Find(items, "length")].n > MaxFetch

\* fetch_blocking raises: a reset before it has all, the end of the stream where a
\* chunk size is due, too many bytes.  A head, a body of given length and the line
\* after the last size that end early are no error.
Unreadable(items, end) ==
    \/ end = "reset" /\ ~Complete(items)
    \/ FramingOf(items) = "chunked" /\ Token("size", 0) \notin Range(items)
    \/ Len(BodyOf(items)) > MaxFetch
    \/ FramingOf(items) = "length" /\ items[Find(items, "length")].n > MaxFetch

PoolReceives ==
    /\ pool.pc = "receive" /\ origin.end # "open"
    /\ \/ /\ Unreadable(origin.items, origin.end)
          /\ Says("failed", FALSE, <<>>, JsonLength)
       \/ /\ ~Unreadable(origin.items, origin.end)
          /\ Says("ok", FALSE, BodyOf(origin.items), JsonLength)
    /\ UNCHANGED origin

-----------------------------------------------------------------------------
(* The origin and the link between edge and pool *)

\* The origin answers as soon as it has the head of the request, or never does;
\* its stream may be reset after a whole answer too.
OriginAnswers ==
    /\ origin.got # <<>> /\ origin.end = "open"
    /\ \E framing \in Framings, n \in 0 .. MaxDown, k \in 0 .. MaxDown :
          /\ k <= n
          /\ \E d \in Delivered(Message(framing, n, k)) \cup
                     {[items |-> Message(framing, n, k), end |-> "reset"]} :
                origin' = [origin EXCEPT !.sends = n, !.items = d.items, !.end = d.end]
    /\ UNCHANGED <<request, client, edge, up, down, pool>>

\* The link is lost before the pool has answered.
LinkLost ==
    /\ up.at = "sent" /\ down.end = "open"
    /\ \E e \in {"fin", "reset", "silent"} : down' = [down EXCEPT !.end = e]
    /\ UNCHANGED <<request, client, edge, up, pool, origin>>

ReadFull ==
    \/ EdgeReads \/ EdgeReadFails \/ EdgeHead \/ EdgeSize \/ EdgeData \/ EdgeRest
    \/ EdgeAnswers
Pool ==
    \/ PoolReads \/ PoolDrops \/ PoolHolds
    \/ PoolDials \/ PoolFails \/ PoolSends \/ PoolReceives

Next ==
    \/ EdgeRefuses \/ EdgeAsks \/ EdgeNoPool \/ ReadFull
    \/ Pool \/ OriginAnswers \/ LinkLost

Spec == Init /\ [][Next]_vars

\* Both programs go on while they can; every wait of the pool has a timeout, so
\* that its origin answers or counts as reset.
Fairness == WF_vars(ReadFull) /\ WF_vars(Pool) /\ WF_vars(OriginAnswers)

FairSpec == Spec /\ Fairness

-----------------------------------------------------------------------------
(* Properties *)

\* The variables have their types, and the edge is done exactly when its client
\* has been answered or closed.
TypeOK ==
    /\ client.at \in {"waiting", "closed", "failed", "raw", "ok"}
    /\ client.retry \in BOOLEAN /\ client.framing \in Framings
    /\ edge.pc \in {"reading", "head", "size", "data", "exact", "tail", "judge", "done"}
    /\ edge.pc = "done" <=> client.at # "waiting"
    /\ edge.framing \in Framings /\ edge.need \in 0 .. JsonLength
    /\ up.at \in {"none", "sent"}
    /\ down.end \in {"open", "fin", "reset", "silent"}
    /\ pool.pc \in {"idle", "hold", "dial", "send", "receive", "done"}
    /\ pool.said # Nothing => pool.pc = "done"
    /\ origin.sends \in 0 .. MaxDown /\ origin.end \in {"open", "fin", "reset"}

\* What the client gets as the origin's answer is one: the beginning of what the
\* origin sent, through both programs, and all of it, unless the origin's stream
\* ended in its head, or in a body that was not chunked.
AnswerIsOrigins ==
    client.at = "ok" =>
        /\ IsPrefix(client.body, Bytes(1, origin.sends))
        /\ \/ client.body = Bytes(1, origin.sends)
           \/ ~Has(origin.items, "blank") \/ FramingOf(origin.items) # "chunked"

\* The origin gets the beginning of the request, in order, however the slices
\* are cut, and no answer to a part of it reaches the client.
RequestIntact ==
    /\ IsPrefix(origin.got, <<Start>> \o Bytes(1, request.body))
    /\ client.at = "ok" => origin.got = <<Start>> \o Bytes(1, request.body)

\* An answer of the pool that arrives whole is understood, wherever the reads of
\* read_full cut it and whichever framing it has got on its way.
ReadAsSaid ==
    client.at # "waiting" /\ pool.said.whole =>
        /\ pool.said.kind = "ok" => client.at = "ok"
        /\ pool.said.kind = "manager" => client.at = "raw" /\ client.body = Bytes(1, JsonLength)

\* README.md: requests are held "while no warp is ready, then `502 + Retry-After:
\* 5`": a client that is asked to try again repeats nothing the origin has had.
RetryMeansUnsent == client.retry => origin.got = <<>>

\* A client whose request has been sent gets an answer, whatever is cut or times
\* out, unless the link falls silent: the edge has no timeout there.
ExchangeEnds == (up.at = "sent") ~> (client.at # "waiting" \/ down.end = "silent")

\* README.md: edge.py is a "forward proxy" and "Plain HTTP goes via pool /fetch":
\* the origin is asked what the client asked.
MethodKept ==
    request.target = "url" /\ origin.method # "none" => origin.method = request.method
=============================================================================
