------------------------------- MODULE Relay --------------------------------
(***************************************************************************)
(* A CONNECT tunnel through both programs: client - edge (edge.py,         *)
(* handle_connect) - pool (app.py, the /relay branch of handle_client) -   *)
(* origin, from the moment the edge has sent its websocket handshake.      *)
(*                                                                         *)
(* Bytes are numbered in the order they are sent.  TCP streams are         *)
(* sequences a reader takes any non-empty prefix of; the stream from pool  *)
(* to edge keeps its frame headers, since the edge reads its start as HTTP *)
(* and the rest as frames.  The client may end its stream (FIN) or be gone *)
(* altogether; the origin, behind the SOCKS proxy of the warp, only ends   *)
(* its stream.  The connection of edge and pool may be reset: what is in   *)
(* flight is lost from some point on, in the middle of a frame too, and    *)
(* both ends learn of it.                                                  *)
(***************************************************************************)
EXTENDS Integers, Sequences, SequencesExt

CONSTANTS
    UpBytes,             \* bound: bytes the client sends
    DownBytes,           \* bound: bytes the origin sends
    SendChunk,           \* SEND_CHUNK
    ServerSpeaksFirst,   \* whether the origin sends before it was sent anything
    ClientPipelines      \* whether the client's first bytes come with its CONNECT

ASSUME RelayAssumption ==
    /\ UpBytes \in Nat /\ DownBytes \in Nat
    /\ SendChunk \in Nat \ {0}
    /\ ServerSpeaksFirst \in BOOLEAN /\ ClientPipelines \in BOOLEAN

VARIABLES
    client,       \* [sent, eof, gone, got]: bytes sent, stream ended, socket
                  \* closed, bytes received
    origin,       \* [sent, eof, got]
    fromClient,   \* stream client -> edge
    toPool,       \* frames edge -> pool, read whole by read_frame
    fromOrigin,   \* stream origin -> pool
    toEdge,       \* stream pool -> edge: response head, frame headers, bytes
    edge,         \* [pc, up, down]: handshake, open or closed; _c2p, _p2c alive
    pool,         \* connecting, open or closed
    unsent,       \* what chunked_write has still to write to the origin
    link          \* the connection of edge and pool: up or cut

vars == <<client, origin, fromClient, toPool, fromOrigin, toEdge, edge, pool, unsent, link>>

Accepted == [kind |-> "head", n |-> 101]
Rejected == [kind |-> "head", n |-> 502]
FrameHeader(n) == [kind |-> "frame", n |-> n]
Byte(b) == [kind |-> "byte", n |-> b]

FirstBytes(k) == [i \in 1 .. k |-> i]
Bytes(items) == [i \in DOMAIN items |-> items[i].n]

\* What is read together with the CONNECT head is not handed to handle_connect.
ReadWithHead == IF ClientPipelines THEN 0 .. UpBytes ELSE {0}

Init ==
    /\ \E read \in ReadWithHead :
          client = [sent |-> read, eof |-> FALSE, gone |-> FALSE, got |-> <<>>]
    /\ origin = [sent |-> 0, eof |-> FALSE, got |-> <<>>]
    /\ fromClient = <<>> /\ toPool = <<>> /\ fromOrigin = <<>> /\ toEdge = <<>>
    /\ edge = [pc |-> "handshake", up |-> TRUE, down |-> TRUE]
    /\ pool = "connecting"
    /\ unsent = <<>>
    /\ link = "up"

\* What was written to a connection, a reset one included.
Written(stream, items) == IF link = "up" THEN stream \o items ELSE stream

-----------------------------------------------------------------------------
(* The two ends, and the network *)

ClientSend ==
    /\ edge.pc # "closed" /\ ~client.eof /\ client.sent < UpBytes
    /\ client' = [client EXCEPT !.sent = @ + 1]
    /\ fromClient' = Append(fromClient, client.sent + 1)
    /\ UNCHANGED <<origin, toPool, fromOrigin, toEdge, edge, pool, unsent, link>>

ClientEof ==
    /\ edge.pc # "closed" /\ ~client.eof
    /\ client' = [client EXCEPT !.eof = TRUE]
    /\ UNCHANGED <<origin, fromClient, toPool, fromOrigin, toEdge, edge, pool, unsent, link>>

ClientGone ==
    /\ edge.pc # "closed" /\ ~client.gone
    /\ client' = [client EXCEPT !.eof = TRUE, !.gone = TRUE]
    /\ UNCHANGED <<origin, fromClient, toPool, fromOrigin, toEdge, edge, pool, unsent, link>>

\* The reset of a client that is gone reaches the edge: asyncio sets it as the
\* exception of c_r, and what c_r still holds is never read.
ClientReset ==
    /\ edge.pc # "closed" /\ client.gone /\ fromClient # <<>>
    /\ fromClient' = <<>>
    /\ UNCHANGED <<client, origin, toPool, fromOrigin, toEdge, edge, pool, unsent, link>>

OriginSend ==
    /\ pool = "open" /\ ~origin.eof /\ origin.sent < DownBytes
    /\ ServerSpeaksFirst \/ origin.got # <<>>
    /\ origin' = [origin EXCEPT !.sent = @ + 1]
    /\ fromOrigin' = Append(fromOrigin, origin.sent + 1)
    /\ UNCHANGED <<client, fromClient, toPool, toEdge, edge, pool, unsent, link>>

OriginEof ==
    /\ pool = "open" /\ ~origin.eof
    /\ origin' = [origin EXCEPT !.eof = TRUE]
    /\ UNCHANGED <<client, fromClient, toPool, fromOrigin, toEdge, edge, pool, unsent, link>>

LinkCut ==
    /\ link = "up" /\ edge.pc # "closed"
    /\ link' = "cut"
    /\ \E n \in 0 .. Len(toEdge) : toEdge' = SubSeq(toEdge, 1, n)
    /\ \E n \in 0 .. Len(toPool) : toPool' = SubSeq(toPool, 1, n)
    /\ UNCHANGED <<client, origin, fromClient, fromOrigin, edge, pool, unsent>>

-----------------------------------------------------------------------------
(* The pool *)

\* A warp is chosen and the SOCKS connection made: 101; or either fails: 502.
PoolConnect ==
    /\ pool = "connecting"
    /\ \/ toEdge' = Written(<<>>, <<Accepted>>) /\ pool' = "open"
       \/ toEdge' = Written(<<>>, <<Rejected>>) /\ pool' = "closed"
    /\ UNCHANGED <<client, origin, fromClient, toPool, fromOrigin, edge, unsent, link>>

\* Bug: a byte is lost between two reads.
PoolDown_Skips ==
    /\ pool = "open"
    /\ \E n \in 1 .. Len(fromOrigin) :
          /\ toEdge' = Written(toEdge, <<FrameHeader(n)>>
                                        \o [i \in 1 .. n |-> Byte(fromOrigin[i])])
          /\ fromOrigin' = SubSeq(fromOrigin, n + 2, Len(fromOrigin))
    /\ UNCHANGED <<client, origin, fromClient, toPool, edge, pool, unsent, link>>

\* _tcp2ws: what was read goes out as one frame.
PoolDown ==
    /\ pool = "open"
    /\ \E n \in 1 .. Len(fromOrigin) :
          /\ toEdge' = Written(toEdge, <<FrameHeader(n)>>
                                        \o [i \in 1 .. n |-> Byte(fromOrigin[i])])
          /\ fromOrigin' = SubSeq(fromOrigin, n + 1, Len(fromOrigin))
    /\ UNCHANGED <<client, origin, fromClient, toPool, edge, pool, unsent, link>>

\* Bug: chunked_write is not awaited, and a later frame overtakes the pieces left.
PoolFrame_Overtakes ==
    /\ pool = "open" /\ toPool # <<>>
    /\ unsent' = Head(toPool) \o unsent
    /\ toPool' = Tail(toPool)
    /\ UNCHANGED <<client, origin, fromClient, fromOrigin, toEdge, edge, pool, link>>

\* _ws2tcp: one frame at a time, in pieces of at most SEND_CHUNK.
PoolFrame ==
    /\ pool = "open" /\ unsent = <<>> /\ toPool # <<>>
    /\ unsent' = Head(toPool)
    /\ toPool' = Tail(toPool)
    /\ UNCHANGED <<client, origin, fromClient, fromOrigin, toEdge, edge, pool, link>>

PoolPiece ==
    LET n == IF Len(unsent) < SendChunk THEN Len(unsent) ELSE SendChunk
    IN  /\ pool = "open" /\ unsent # <<>>
        /\ origin' = [origin EXCEPT !.got = @ \o SubSeq(unsent, 1, n)]
        /\ unsent' = SubSeq(unsent, n + 1, Len(unsent))
        /\ UNCHANGED <<client, fromClient, toPool, fromOrigin, toEdge, edge, pool, link>>

\* Bug: the other direction is not cancelled.
PoolEnds_NoCancel ==
    /\ pool = "open"
    /\ \/ fromOrigin = <<>> /\ origin.eof
       \/ toPool = <<>> /\ unsent = <<>> /\ (edge.pc = "closed" \/ link = "cut")
       \/ fromOrigin # <<>> /\ link = "cut"
    /\ pool' = "closed"
    /\ UNCHANGED <<client, origin, fromClient, toPool, fromOrigin, toEdge, edge, unsent, link>>

\* The first direction that ends, or that fails to write to the edge, ends both:
\* the other task is cancelled and the two connections are closed.
PoolEnds ==
    /\ pool = "open"
    /\ \/ fromOrigin = <<>> /\ origin.eof
       \/ toPool = <<>> /\ unsent = <<>> /\ (edge.pc = "closed" \/ link = "cut")
       \/ fromOrigin # <<>> /\ link = "cut"
    /\ pool' = "closed"
    /\ unsent' = <<>>
    /\ UNCHANGED <<client, origin, fromClient, toPool, fromOrigin, toEdge, edge, link>>

-----------------------------------------------------------------------------
(* The edge *)

EdgeGone == [pc |-> "closed", up |-> FALSE, down |-> FALSE]

\* Whether the pool no longer reads what the edge writes.
Deaf == link = "cut" \/ pool = "closed"

\* The handshake is read in chunks until the response head is complete; what the
\* last chunk holds after the head is dropped with it.  Nothing for 15 s, or the
\* end of the stream, and the edge closes both connections.
EdgeHandshake ==
    /\ edge.pc = "handshake"
    /\ \/ /\ toEdge # <<>> /\ Head(toEdge) = Accepted
          /\ \E n \in 1 .. Len(toEdge) : toEdge' = SubSeq(toEdge, n + 1, Len(toEdge))
          /\ edge' = [edge EXCEPT !.pc = "open"]
       \/ /\ toEdge # <<>> /\ Head(toEdge) = Rejected
          /\ toEdge' = <<>>
          /\ edge' = EdgeGone
       \/ toEdge = <<>> /\ edge' = EdgeGone /\ UNCHANGED toEdge
    /\ UNCHANGED <<client, origin, fromClient, toPool, fromOrigin, pool, unsent, link>>

\* _c2p: what was read goes out as one masked frame, which is lost if the pool
\* is no longer there, until a write fails and ends _c2p.
EdgeUp ==
    /\ edge.pc = "open" /\ edge.up
    /\ \E n \in 1 .. Len(fromClient) :
          /\ toPool' = IF Deaf THEN toPool ELSE Append(toPool, SubSeq(fromClient, 1, n))
          /\ fromClient' = SubSeq(fromClient, n + 1, Len(fromClient))
    /\ \E alive \in {TRUE, ~Deaf} : edge' = [edge EXCEPT !.up = alive]
    /\ UNCHANGED <<client, origin, fromOrigin, toEdge, pool, unsent, link>>

\* Bug: what was received before the end of the stream is not forwarded.
EdgeUpEof_Early ==
    /\ edge.pc = "open" /\ edge.up /\ client.eof
    /\ edge' = [edge EXCEPT !.up = FALSE]
    /\ UNCHANGED <<client, origin, fromClient, toPool, fromOrigin, toEdge, pool, unsent, link>>

EdgeUpEof ==
    /\ edge.pc = "open" /\ edge.up /\ fromClient = <<>> /\ client.eof
    /\ edge' = [edge EXCEPT !.up = FALSE]
    /\ UNCHANGED <<client, origin, fromClient, toPool, fromOrigin, toEdge, pool, unsent, link>>

\* _p2c: read_frame takes the next two bytes for a frame header, whatever they
\* are; bytes that are no header are delivered as if they were (told apart here
\* by their sign).
EdgeDown ==
    /\ edge.pc = "open" /\ edge.down /\ ~client.gone /\ toEdge # <<>>
    /\ \/ LET n == Head(toEdge).n
          IN  /\ Head(toEdge).kind = "frame" /\ Len(toEdge) > n
              /\ client' = [client EXCEPT !.got = @ \o Bytes(SubSeq(toEdge, 2, n + 1))]
              /\ toEdge' = SubSeq(toEdge, n + 2, Len(toEdge))
       \/ /\ Head(toEdge).kind = "byte"
          /\ client' = [client EXCEPT !.got = Append(@, -Head(toEdge).n)]
          /\ toEdge' = <<>>
    /\ UNCHANGED <<origin, fromClient, toPool, fromOrigin, edge, pool, unsent, link>>

\* Writing to a client that is gone is lost, or fails once the reset has come
\* back (ClientReset), which ends _p2c.
EdgeDownLost ==
    /\ edge.pc = "open" /\ edge.down /\ client.gone /\ toEdge # <<>>
    /\ toEdge' = SubSeq(toEdge, Head(toEdge).n + 2, Len(toEdge))
    /\ \E alive \in BOOLEAN : edge' = [edge EXCEPT !.down = alive]
    /\ UNCHANGED <<client, origin, fromClient, toPool, fromOrigin, pool, unsent, link>>

\* Bug: the rest of a frame that was cut is waited for.
EdgeDownEof_Waits ==
    /\ edge.pc = "open" /\ edge.down /\ toEdge = <<>> /\ Deaf
    /\ edge' = [edge EXCEPT !.down = FALSE]
    /\ UNCHANGED <<client, origin, fromClient, toPool, fromOrigin, toEdge, pool, unsent, link>>

\* The stream ends between two frames, or within one, which is then dropped.
EdgeDownEof ==
    /\ edge.pc = "open" /\ edge.down
    /\ \/ toEdge = <<>> /\ Deaf
       \/ toEdge # <<>> /\ Head(toEdge).kind = "frame" /\ Len(toEdge) <= Head(toEdge).n
    /\ toEdge' = <<>>
    /\ edge' = [edge EXCEPT !.down = FALSE]
    /\ UNCHANGED <<client, origin, fromClient, toPool, fromOrigin, pool, unsent, link>>

\* Bug: the first direction that ends closes both connections.
EdgeClose_First ==
    /\ edge.pc = "open" /\ (~edge.up \/ ~edge.down)
    /\ edge' = [edge EXCEPT !.pc = "closed"]
    /\ UNCHANGED <<client, origin, fromClient, toPool, fromOrigin, toEdge, pool, unsent, link>>

\* gather waits for both directions before the connections are closed.
EdgeClose ==
    /\ edge.pc = "open" /\ ~edge.up /\ ~edge.down
    /\ edge' = [edge EXCEPT !.pc = "closed"]
    /\ UNCHANGED <<client, origin, fromClient, toPool, fromOrigin, toEdge, pool, unsent, link>>

Pool == PoolConnect \/ PoolDown \/ PoolFrame \/ PoolPiece \/ PoolEnds
Edge ==
    \/ EdgeHandshake \/ EdgeUp \/ EdgeUpEof
    \/ EdgeDown \/ EdgeDownLost \/ EdgeDownEof \/ EdgeClose

Next ==
    \/ ClientSend \/ ClientEof \/ ClientGone \/ ClientReset
    \/ OriginSend \/ OriginEof \/ LinkCut
    \/ Pool \/ Edge

Spec == Init /\ [][Next]_vars

\* Each coroutine goes on while it has something to read.
Fairness ==
    /\ WF_vars(PoolConnect) /\ WF_vars(PoolDown) /\ WF_vars(PoolEnds)
    /\ WF_vars(PoolFrame \/ PoolPiece)
    /\ WF_vars(EdgeHandshake) /\ WF_vars(EdgeUp \/ EdgeUpEof)
    /\ WF_vars(EdgeDown \/ EdgeDownLost \/ EdgeDownEof) /\ WF_vars(EdgeClose)

FairSpec == Spec /\ Fairness

-----------------------------------------------------------------------------
(* Properties *)

\* The variables have their types, and a closed pool has nothing left to write.
TypeOK ==
    /\ client.sent \in 0 .. UpBytes /\ client.eof \in BOOLEAN
    /\ origin.sent \in 0 .. DownBytes /\ origin.eof \in BOOLEAN
    /\ edge \in [pc : {"handshake", "open", "closed"}, up : BOOLEAN, down : BOOLEAN]
    /\ pool \in {"connecting", "open", "closed"} /\ link \in {"up", "cut"}
    /\ pool = "closed" => unsent = <<>>

\* README.md: /relay is a "websocket TCP bridge".  What the client has received
\* is the beginning of what the origin sent: nothing lost in the middle, nothing
\* out of order, however reads and frames are cut.
DownInOrder == IsPrefix(client.got, FirstBytes(origin.sent))

\* The same towards the origin, through edge frames, pool frames and pieces.
UpInOrder == IsPrefix(origin.got, FirstBytes(client.sent))

\* Everything the origin sent through an open tunnel before it closed reaches a
\* client that is there to receive it, also when the client has ended its own
\* stream long before.
DownDelivered ==
    \A k \in 0 .. DownBytes :
        (edge.pc = "open" /\ origin.eof /\ origin.sent = k)
            ~> (client.got = FirstBytes(k) \/ client.gone \/ link = "cut")

\* Everything the client sent through an open tunnel before it ended its stream
\* reaches the origin, unless the origin ends first or the client does not stay
\* to read the rest: the reset of one that has left takes what c_r still holds.
UpDelivered ==
    \A k \in 0 .. UpBytes :
        (edge.pc = "open" /\ client.eof /\ client.sent = k)
            ~> (origin.got = FirstBytes(k) \/ origin.eof \/ client.gone \/ link = "cut")

\* Once both ends have closed, or the client has and the connection of edge and
\* pool is cut, in the middle of a frame too, neither program keeps a socket; and
\* the pool lets go of a tunnel the edge has given up.
TunnelEnds ==
    /\ (client.eof /\ (origin.eof \/ link = "cut")) ~> (edge.pc = "closed" /\ pool = "closed")
    /\ (edge.pc = "closed") ~> (pool = "closed")
=============================================================================
