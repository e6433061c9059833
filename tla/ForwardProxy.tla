---------------------------- MODULE ForwardProxy ----------------------------
(***************************************************************************)
(* The pool's own forward proxy (src/app.py, handle_client from the SOCKS  *)
(* connection on, and relay()): up to three tasks copy between the client  *)
(* and the origin.                                                         *)
(*                                                                         *)
(* A StreamReader admits one waiting reader: a second read() of an empty   *)
(* stream raises RuntimeError, which ends the task that called it.  What   *)
(* arrives wakes the reader that waits; if another one has taken it before *)
(* the woken one runs, that one reads nothing and takes it for the end of  *)
(* the stream.  The tasks are started in the order they were created.      *)
(***************************************************************************)
EXTENDS Integers, Sequences, SequencesExt

CONSTANTS
    UpBytes,      \* bound: bytes the client sends after the request head
    DownBytes,    \* bound: bytes the origin sends
    SendChunk     \* SEND_CHUNK

ASSUME ForwardAssumption ==
    UpBytes \in Nat /\ DownBytes \in Nat /\ SendChunk \in Nat \ {0}

Copiers == {"rest", "up", "down"}      \* _fwd_rest and the two _copy of relay
Readers == {"rest", "up"}              \* those of the client's stream
FirstBytes(k) == [i \in 1 .. k |-> i]

VARIABLES
    connect,           \* the request is CONNECT rather than a plain GET or POST
    client, origin,    \* [sent, eof, got]: bytes sent, stream ended, bytes received
    fromClient,        \* c_r: bytes not read yet
    fromOrigin,        \* s_r
    task,              \* each copier: none, new, reading (waits for data), woken,
                       \* writing, done or cancelled
    waiter,            \* the copier that waits on c_r, or "none"
    unsent,            \* what "up" has read and chunked_write not yet written
    closed             \* relay has closed both connections

vars == <<connect, client, origin, fromClient, fromOrigin, task, waiter, unsent, closed>>

Init ==
    /\ client = [sent |-> 0, eof |-> FALSE, got |-> <<>>]
    /\ origin = [sent |-> 0, eof |-> FALSE, got |-> <<>>]
    /\ fromClient = <<>> /\ fromOrigin = <<>>
    /\ connect \in BOOLEAN
    /\ task = [c \in Copiers |-> IF c = "rest" /\ connect THEN "none" ELSE "new"]
    /\ waiter = "none"
    /\ unsent = <<>>
    /\ closed = FALSE

-----------------------------------------------------------------------------
(* The two ends *)

\* feed_data and feed_eof wake the reader that waits.
WakeReader ==
    /\ task' = [c \in Copiers |-> IF c = waiter THEN "woken" ELSE task[c]]
    /\ waiter' = "none"

ClientSend ==
    /\ ~closed /\ ~client.eof /\ client.sent < UpBytes
    /\ client' = [client EXCEPT !.sent = @ + 1]
    /\ fromClient' = Append(fromClient, client.sent + 1)
    /\ WakeReader
    /\ UNCHANGED <<connect, origin, fromOrigin, unsent, closed>>

ClientEof ==
    /\ ~closed /\ ~client.eof
    /\ client' = [client EXCEPT !.eof = TRUE]
    /\ WakeReader
    /\ UNCHANGED <<connect, origin, fromClient, fromOrigin, unsent, closed>>

OriginSend ==
    /\ ~closed /\ ~origin.eof /\ origin.sent < DownBytes
    /\ origin' = [origin EXCEPT !.sent = @ + 1]
    /\ fromOrigin' = Append(fromOrigin, origin.sent + 1)
    /\ UNCHANGED <<connect, client, fromClient, task, waiter, unsent, closed>>

OriginEof ==
    /\ ~closed /\ ~origin.eof
    /\ origin' = [origin EXCEPT !.eof = TRUE]
    /\ UNCHANGED <<connect, client, fromClient, fromOrigin, task, waiter, unsent, closed>>

-----------------------------------------------------------------------------
(* The copiers *)

\* The tasks are first scheduled in the order rest, up, down.
StartsBefore == {<<"rest", "up">>, <<"rest", "down">>, <<"up", "down">>}
Started(c) == \A b \in Copiers : <<b, c>> \in StartsBefore => task[b] # "new"
Runs(c) == ~closed /\ task[c] \in {"new", "reading"} /\ Started(c)

\* Whether a copier of the client's stream is at its read().
AtRead(c) ==
    /\ ~closed /\ Started(c)
    /\ \/ task[c] \in {"new", "woken"}
       \/ task[c] = "writing" /\ (c = "up" => unsent = <<>>)

\* A read that finds nothing waits; if another reader waits it fails.
WaitUp(c) ==
    /\ AtRead(c) /\ task[c] # "woken"
    /\ fromClient = <<>> /\ ~client.eof
    /\ \/ waiter = "none" /\ waiter' = c /\ task' = [task EXCEPT ![c] = "reading"]
       \/ waiter # "none" /\ waiter' = waiter /\ task' = [task EXCEPT ![c] = "done"]
    /\ UNCHANGED <<connect, client, origin, fromClient, fromOrigin, unsent, closed>>

\* How much of n bytes a copier writes before it may have to wait: _fwd_rest all,
\* relay's chunked_write at most SEND_CHUNK.
Piece(c, n) == IF c = "up" /\ SendChunk < n THEN SendChunk ELSE n

\* What has arrived is read at once, and its first piece written at once.
ReadUp(c) ==
    LET n == Piece(c, Len(fromClient))
    IN  /\ AtRead(c) /\ fromClient # <<>>
        /\ origin' = [origin EXCEPT !.got = @ \o SubSeq(fromClient, 1, n)]
        /\ unsent' = IF c = "up" THEN SubSeq(fromClient, n + 1, Len(fromClient)) ELSE unsent
        /\ fromClient' = <<>>
        /\ task' = [task EXCEPT ![c] = "writing"]
        /\ UNCHANGED <<connect, client, fromOrigin, waiter, closed>>

\* Bug: the next piece is cut from what was read again.
WriteUp_Skips ==
    LET n == Piece("up", Len(unsent))
    IN  /\ ~closed /\ task["up"] = "writing" /\ unsent # <<>>
        /\ origin' = [origin EXCEPT !.got = @ \o SubSeq(unsent, n + 1, Len(unsent))]
        /\ unsent' = <<>>
        /\ UNCHANGED <<connect, client, fromClient, fromOrigin, task, waiter, closed>>

\* After a drain and a pause the next piece is written.
WriteUp ==
    LET n == Piece("up", Len(unsent))
    IN  /\ ~closed /\ task["up"] = "writing" /\ unsent # <<>>
        /\ origin' = [origin EXCEPT !.got = @ \o SubSeq(unsent, 1, n)]
        /\ unsent' = SubSeq(unsent, n + 1, Len(unsent))
        /\ UNCHANGED <<connect, client, fromClient, fromOrigin, task, waiter, closed>>

\* Nothing was read: the stream has ended, or another reader has taken what woke
\* this one.
EndUp(c) ==
    /\ AtRead(c) /\ fromClient = <<>>
    /\ client.eof \/ task[c] = "woken"
    /\ task' = [task EXCEPT ![c] = "done"]
    /\ UNCHANGED <<connect, client, origin, fromClient, fromOrigin, waiter, unsent, closed>>

WaitDown ==
    /\ Runs("down") /\ task["down"] = "new" /\ fromOrigin = <<>> /\ ~origin.eof
    /\ task' = [task EXCEPT !["down"] = "reading"]
    /\ UNCHANGED <<connect, client, origin, fromClient, fromOrigin, waiter, unsent, closed>>

\* Bug: what was written is written again.
CopyDown_Twice ==
    /\ Runs("down") /\ fromOrigin # <<>>
    /\ client' = [client EXCEPT !.got = @ \o fromOrigin \o fromOrigin]
    /\ fromOrigin' = <<>>
    /\ task' = [task EXCEPT !["down"] = "reading"]
    /\ UNCHANGED <<connect, origin, fromClient, waiter, unsent, closed>>

CopyDown ==
    /\ Runs("down") /\ fromOrigin # <<>>
    /\ client' = [client EXCEPT !.got = @ \o fromOrigin]
    /\ fromOrigin' = <<>>
    /\ task' = [task EXCEPT !["down"] = "reading"]
    /\ UNCHANGED <<connect, origin, fromClient, waiter, unsent, closed>>

\* Bug: the end of the stream is taken before what precedes it.
EndDown_Early ==
    /\ Runs("down") /\ origin.eof
    /\ task' = [task EXCEPT !["down"] = "done"]
    /\ UNCHANGED <<connect, client, origin, fromClient, fromOrigin, waiter, unsent, closed>>

EndDown ==
    /\ Runs("down") /\ fromOrigin = <<>> /\ origin.eof
    /\ task' = [task EXCEPT !["down"] = "done"]
    /\ UNCHANGED <<connect, client, origin, fromClient, fromOrigin, waiter, unsent, closed>>

\* Bug: both directions have to end.
RelayEnds_Both ==
    /\ ~closed /\ {task["up"], task["down"]} = {"done"}
    /\ closed' = TRUE
    /\ waiter' = "none"
    /\ UNCHANGED <<connect, client, origin, fromClient, fromOrigin, task, unsent>>

\* Bug: the other task is cancelled but its read stays registered.
RelayEnds_KeepsWaiter ==
    /\ ~closed /\ "done" \in {task["up"], task["down"]}
    /\ \A c \in {"up", "down"} : task[c] # "new"
    /\ task' = [c \in Copiers |-> IF task[c] \in {"none", "done"} THEN task[c]
                                  ELSE "cancelled"]
    /\ closed' = TRUE
    /\ UNCHANGED <<connect, client, origin, fromClient, fromOrigin, waiter, unsent>>

\* relay() goes on when the first of its two tasks is done: it cancels the other
\* one and closes both connections, which ends _fwd_rest as well.
RelayEnds ==
    /\ ~closed /\ "done" \in {task["up"], task["down"]}
    /\ \A c \in {"up", "down"} : task[c] # "new"
    /\ task' = [c \in Copiers |-> IF task[c] \in {"none", "done"} THEN task[c]
                                  ELSE "cancelled"]
    /\ closed' = TRUE
    /\ waiter' = "none"
    /\ UNCHANGED <<connect, client, origin, fromClient, fromOrigin, unsent>>

Up(c) == WaitUp(c) \/ ReadUp(c) \/ EndUp(c) \/ (c = "up" /\ WriteUp)
Down == WaitDown \/ CopyDown \/ EndDown

Next ==
    \/ ClientSend \/ ClientEof \/ OriginSend \/ OriginEof
    \/ \E c \in Readers : Up(c)
    \/ Down
    \/ RelayEnds

Spec == Init /\ [][Next]_vars

Fairness ==
    /\ \A c \in Readers : WF_vars(Up(c))
    /\ WF_vars(Down)
    /\ WF_vars(RelayEnds)

FairSpec == Spec /\ Fairness

-----------------------------------------------------------------------------
(* Properties *)

\* The variables have their types, only a copier of the client's stream waits on
\* it, and only one that writes, or was cancelled then, has something to write.
TypeOK ==
    /\ client.sent \in 0 .. UpBytes /\ client.eof \in BOOLEAN
    /\ origin.sent \in 0 .. DownBytes /\ origin.eof \in BOOLEAN
    /\ task \in [Copiers ->
                   {"none", "new", "reading", "woken", "writing", "done", "cancelled"}]
    /\ waiter = "none" \/ (waiter \in Readers /\ task[waiter] = "reading")
    /\ unsent # <<>> => task["up"] \in {"writing", "cancelled"}
    /\ closed \in BOOLEAN

\* Of any request the client receives the beginning of what the origin sent, and
\* of a CONNECT the origin the beginning of what the client sent, in order, in
\* whatever pieces it is written.
InOrder ==
    /\ IsPrefix(client.got, FirstBytes(origin.sent))
    /\ connect => IsPrefix(origin.got, FirstBytes(client.sent))

\* README.md offers the same of plain requests: "forward proxy on :8080 (GET +
\* CONNECT)", so that the origin gets the rest of a request as it was sent.
BodyInOrder == ~connect => IsPrefix(origin.got, FirstBytes(client.sent))

\* The proxy has hung up too early: no end has ended its stream, or the client
\* that still listens has not got all that the origin sent before it ended.
Truncated ==
    /\ closed /\ ~client.eof
    /\ origin.eof => client.got # FirstBytes(origin.sent)

\* A CONNECT tunnel hangs up only after one of the ends has ended its stream,
\* and a client that still listens has then got everything the origin sent.
TunnelHangsUpAfterEnd == connect => ~Truncated

\* README.md offers the same of plain requests: "forward proxy on :8080 (GET +
\* CONNECT)", so that the client of a GET gets the origin's response.
RequestAnswered == ~connect => ~Truncated

\* When one end ends its stream both connections are closed: no tunnel stays
\* half open for ever.
EndsTogether == (client.eof \/ origin.eof) ~> closed
=============================================================================
