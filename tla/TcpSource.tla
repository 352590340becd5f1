------------------------------ MODULE TcpSource ------------------------------
(***************************************************************************)
(* A TCP source of the Data Router (router/app/sources/tcp_source.py): it  *)
(* connects to a live feed, cuts the stream into messages, by delimiters   *)
(* or by length prefixes, routes each into the bounded queue, and connects *)
(* again after every loss with a growing delay.                            *)
(*                                                                         *)
(* The feed sends message after message and nothing twice.  The unit of    *)
(* the stream is a token: a piece of a message, a delimiter, or a header.  *)
(* The connection may break at any time, and the feed may pause longer     *)
(* than the socket's timeout of half a second.                             *)
(***************************************************************************)
EXTENDS Naturals, Sequences, SequencesExt

CONSTANTS
    Size,           \* message number -> its length in pieces
    MaxLength,      \* max_line_length, in pieces
    QueueSize,
    PowLimit,       \* the exponent at which math.pow(multiplier, .) overflows
    MaxLosses       \* bound on the connections that are lost or refused

ASSUME SizeAssumption == Size \in Seq(Nat \ {0})
ASSUME BoundsAssumption ==
    MaxLength \in Nat \ {0} /\ QueueSize \in Nat \ {0} /\ PowLimit \in Nat \ {0} /\ MaxLosses \in Nat

VARIABLES
    framing,    \* "line" or "length"
    receiver,   \* the thread: "connect", "recv", "split" (complete lines), "route", "wait", "ended"
    stopped,    \* the stop event
    attempts,   \* reconnect_attempts
    losses,     \* connections lost or refused
    wire,       \* tokens on their way
    buffer,     \* tokens received
    message,    \* the payload that is being routed
    queue,      \* payloads in the queue
    next,       \* the message the feed sends next
    routed,     \* payloads the queue has accepted, in order
    refused,    \* payloads the full queue has refused
    cut         \* messages that were on the wire or in the buffer of a closed connection

vars == <<framing, receiver, stopped, attempts, losses, wire, buffer, message, queue, next,
          routed, refused, cut>>
streamVars == <<wire, buffer, message>>
feedVars == <<next, cut>>
queueVars == <<queue, routed, refused>>

Messages == DOMAIN Size
Piece(m, i) == [kind |-> "piece", msg |-> m, at |-> i]
Delimiter == [kind |-> "delimiter", msg |-> 0, at |-> 0]
Header(m) == [kind |-> "header", msg |-> m, at |-> Size[m]]
Whole(m) == [i \in 1..Size[m] |-> Piece(m, i)]

Framed(m) == IF framing = "line" THEN Append(Whole(m), Delimiter) ELSE <<Header(m)>> \o Whole(m)

Oversized(m) == Size[m] > MaxLength

Init ==
    /\ framing \in {"line", "length"}
    /\ receiver = "connect"
    /\ stopped = FALSE
    /\ attempts = 0
    /\ losses = 0
    /\ wire = << >> /\ buffer = << >> /\ message = << >>
    /\ queue = << >>
    /\ next = 1
    /\ routed = << >> /\ refused = {}
    /\ cut = {}

-----------------------------------------------------------------------------
(* The feed and the delivery workers                                       *)

Connected == receiver \in {"recv", "split", "route"}

Send ==
    /\ Connected
    /\ next \in Messages
    /\ wire' = wire \o Framed(next)
    /\ next' = next + 1
    /\ UNCHANGED <<framing, receiver, stopped, attempts, losses, buffer, message, queueVars, cut>>

TakeFromQueue ==
    /\ queue # << >>
    /\ queue' = Tail(queue)
    /\ UNCHANGED <<framing, receiver, stopped, attempts, losses, streamVars, feedVars, routed, refused>>

-----------------------------------------------------------------------------
(* _connection_loop, _connect_and_stream                                   *)

Connect ==
    /\ receiver = "connect"
    /\ ~stopped
    /\ receiver' = "recv"
    /\ UNCHANGED <<framing, stopped, attempts, losses, streamVars, feedVars, queueVars>>

\* Faulty variant: what was received of the old connection is kept.
KeepBuffer == buffer

FreshBuffer == << >>

\* What is on the wire or in the buffer goes with the connection.
CloseSocket ==
    /\ cut' = cut \cup ({x.msg : x \in ToSet(wire \o buffer)} \ {0})
    /\ wire' = << >>
    /\ buffer' = FreshBuffer
    /\ message' = << >>

\* calculate_backoff_delay for the attempt: the power is computed before the
\* delay is limited, and raises OverflowError when it overflows.
DelayOverflows(attempt) == attempt > PowLimit

\* A socket error of any kind.  Nothing catches an OverflowError: the thread
\* ends.
Lose ==
    /\ losses < MaxLosses
    /\ losses' = losses + 1
    /\ attempts' = IF stopped THEN attempts ELSE attempts + 1
    /\ receiver' = IF stopped \/ DelayOverflows(attempts') THEN "ended" ELSE "wait"
    /\ CloseSocket

Refused == receiver = "connect" /\ Lose /\ UNCHANGED <<framing, stopped, queueVars, next>>

\* recv raises or returns nothing; a route that is under way goes on first.
ConnectionLost == receiver = "recv" /\ Lose /\ UNCHANGED <<framing, stopped, queueVars, next>>

WaitEnds ==
    /\ receiver = "wait"
    /\ receiver' = IF stopped THEN "ended" ELSE "connect"
    /\ UNCHANGED <<framing, stopped, attempts, losses, streamVars, feedVars, queueVars>>

\* stop(): the event is set, the socket is closed.
Stop ==
    /\ ~stopped
    /\ stopped' = TRUE
    /\ UNCHANGED <<framing, receiver, attempts, losses, streamVars, feedVars, queueVars>>

\* The loops look at the event before they read on or connect again; a normal
\* return resets the attempts.
SeeStop ==
    /\ stopped
    /\ receiver \in {"connect", "recv"}
    /\ receiver' = "ended"
    /\ attempts' = IF receiver = "recv" THEN 0 ELSE attempts
    /\ CloseSocket
    /\ UNCHANGED <<framing, stopped, losses, next, queueVars>>

-----------------------------------------------------------------------------
(* _stream_line_delimited                                                  *)

\* A chunk of any size; without data in time the loop just reads on.
ReceiveChunk ==
    /\ receiver = "recv" /\ framing = "line"
    /\ \E k \in 1..Len(wire) :
        /\ buffer' = buffer \o SubSeq(wire, 1, k)
        /\ wire' = SubSeq(wire, k + 1, Len(wire))
    /\ receiver' = "split"
    /\ UNCHANGED <<framing, stopped, attempts, losses, message, feedVars, queueVars>>

HasLine == \E i \in DOMAIN buffer : buffer[i] = Delimiter

\* `while delimiter in buffer`; an empty line is not routed.
SplitLine ==
    /\ receiver = "split"
    /\ HasLine
    /\ LET at == CHOOSE i \in DOMAIN buffer :
                    buffer[i] = Delimiter /\ \A j \in 1..(i - 1) : buffer[j] # Delimiter
       IN /\ message' = SubSeq(buffer, 1, at - 1)
          /\ buffer' = SubSeq(buffer, at + 1, Len(buffer))
    /\ receiver' = IF message' = << >> THEN "split" ELSE "route"
    /\ UNCHANGED <<framing, stopped, attempts, losses, wire, feedVars, queueVars>>

\* Faulty variant: any rest of a chunk is thrown away.
DropRest == << >>

\* A rest that is too long is dropped, the rest of its line not yet read.
KeptRest == IF Len(buffer) > MaxLength THEN << >> ELSE buffer

CheckLength ==
    /\ receiver = "split"
    /\ ~HasLine
    /\ buffer' = KeptRest
    /\ receiver' = "recv"
    /\ UNCHANGED <<framing, stopped, attempts, losses, wire, message, feedVars, queueVars>>

-----------------------------------------------------------------------------
(* _stream_length_prefixed, _recv_exact                                    *)

\* A header or a piece of the payload it announced.
ReceiveExact ==
    /\ receiver = "recv" /\ framing = "length"
    /\ wire # << >>
    /\ buffer # << >> \/ Head(wire).at <= MaxLength
    /\ LET received == Append(buffer, Head(wire))
           complete == Len(received) = received[1].at + 1
       IN /\ buffer' = IF complete THEN << >> ELSE received
          /\ message' = IF complete THEN Tail(received) ELSE << >>
          /\ receiver' = IF complete THEN "route" ELSE "recv"
    /\ wire' = Tail(wire)
    /\ UNCHANGED <<framing, stopped, attempts, losses, feedVars, queueVars>>

\* A header beyond the limit is an error.
HeaderTooLong ==
    /\ receiver = "recv" /\ framing = "length"
    /\ wire # << >> /\ buffer = << >> /\ Head(wire).at > MaxLength
    /\ Lose
    /\ UNCHANGED <<framing, stopped, queueVars, next>>

\* The socket's timeout is an error here, between frames as within one.
PauseIsFatal ==
    /\ receiver = "recv" /\ framing = "length"
    /\ wire = << >>
    /\ Lose
    /\ UNCHANGED <<framing, stopped, queueVars, next>>

-----------------------------------------------------------------------------
(* _route_message, RoutingEngine.route, BoundedQueueManager.put            *)

AfterRoute == IF framing = "line" THEN "split" ELSE "recv"

\* Faulty variant: the queue has no bound.
RoutedUnbounded ==
    /\ receiver = "route"
    /\ queue' = Append(queue, message)
    /\ routed' = Append(routed, message)
    /\ message' = << >>
    /\ receiver' = AfterRoute
    /\ UNCHANGED <<framing, stopped, attempts, losses, wire, buffer, feedVars, refused>>

Routed ==
    /\ receiver = "route"
    /\ Len(queue) < QueueSize
    /\ queue' = Append(queue, message)
    /\ routed' = Append(routed, message)
    /\ message' = << >>
    /\ receiver' = AfterRoute
    /\ UNCHANGED <<framing, stopped, attempts, losses, wire, buffer, feedVars, refused>>

\* Faulty variant: put waits for room without a timeout.
NotRoutedWaiting ==
    /\ receiver = "route"
    /\ Len(queue) = QueueSize
    /\ UNCHANGED vars

\* The queue is full for the whole timeout: the message is dropped.
NotRouted ==
    /\ receiver = "route"
    /\ Len(queue) = QueueSize
    /\ refused' = refused \cup {message}
    /\ message' = << >>
    /\ receiver' = AfterRoute
    /\ UNCHANGED <<framing, stopped, attempts, losses, wire, buffer, feedVars, queue, routed>>

Receiver ==
    \/ Connect \/ Refused \/ WaitEnds \/ SeeStop
    \/ ReceiveChunk \/ SplitLine \/ CheckLength
    \/ ReceiveExact \/ HeaderTooLong \/ PauseIsFatal
    \/ Routed \/ NotRouted

Next == Receiver \/ ConnectionLost \/ Send \/ TakeFromQueue \/ Stop

\* What the thread can do, it does; the feed and the workers owe nothing.
Spec == Init /\ [][Next]_vars /\ WF_vars(Receiver)

-----------------------------------------------------------------------------
(* Properties                                                              *)

Tokens == (UNION {ToSet(Whole(m)) : m \in Messages}) \cup {Delimiter} \cup {Header(m) : m \in Messages}
Payloads == {message} \cup ToSet(routed) \cup refused

\* Every variable keeps its type, and the queue its bound.
TypeOK ==
    /\ framing \in {"line", "length"}
    /\ receiver \in {"connect", "recv", "split", "route", "wait", "ended"}
    /\ stopped \in BOOLEAN
    /\ attempts \in 0..MaxLosses /\ losses \in 0..MaxLosses
    /\ ToSet(wire) \subseteq Tokens /\ ToSet(buffer) \subseteq Tokens
    /\ Len(queue) <= QueueSize
    /\ next \in 1..(Len(Size) + 1)
    /\ cut \subseteq Messages
    /\ receiver = "route" <=> message # << >>

Tails(m) == {SubSeq(Whole(m), i, Size[m]) : i \in 1..Size[m]}

\* What is routed is what the feed sent, message by message and in its order:
\* no two messages run together and none is cut or repeated, however the stream
\* was chunked and wherever connections broke.  The exception is a line that is too long: what follows
\* of it after the buffer was dropped is routed.  (tcp_source.py:197-252)
NothingInvented ==
    /\ \A i, j \in DOMAIN routed : i < j => routed[i][1].msg < routed[j][1].msg
    /\ \A p \in Payloads \ {<< >>} :
           \E m \in Messages : IF framing = "line" /\ Oversized(m) THEN p \in Tails(m) ELSE p = Whole(m)

\* A message that was sent is under way, has been routed, or has been lost for
\* one of three reasons: its connection broke, the queue was full, it was too
\* long.  (tcp_source.py:143-268)
EveryMessageIsAccountedFor ==
    \A m \in 1..(next - 1) :
        \/ \E x \in ToSet(wire \o buffer \o message) : x.msg = m
        \/ Whole(m) \in ToSet(routed) \cup refused
        \/ m \in cut
        \/ Oversized(m)

\* "Maintains a persistent TCP client connection": a source that is not
\* stopped goes on connecting.
KeepsConnecting == receiver = "ended" => stopped

\* After stop() the thread ends: no wait and no full queue holds it for ever.
StopEndsIt == stopped ~> receiver = "ended"
=============================================================================
