----------------------------- MODULE ParserLink -----------------------------
(***************************************************************************)
(* The TCP link between the Data Router and one Data Parser: the router's  *)
(* client with its lock and its one socket (transport/tcp_client.py,       *)
(* connection_manager.py, reliability/acknowledgement.py), and the         *)
(* parser's endpoint with one thread per connection (server/endpoint.py).  *)
(*                                                                         *)
(* A connection is used once: Connect takes a new one, and one that was    *)
(* closed never comes back.  Each carries lines in order in both           *)
(* directions until either end closes it, and may lose those in flight.    *)
(* Either end may give up at any time (socket timeouts), the parser may go *)
(* on with a message the router has given up, and either process may die.  *)
(***************************************************************************)
EXTENDS Naturals, Sequences, FiniteSets

CONSTANTS
    Workers,    \* delivery worker threads of the router
    Messages,   \* message ids
    Conns,      \* connections (bounds how often the client reconnects)
    NoWorker,   \* a lock nobody holds
    NoMessage,  \* an idle worker's message
    NoConn,     \* _sock is None
    MaxSends    \* bound on the transmissions of one message

ASSUME NoWorkerAssumption  == NoWorker \notin Workers
ASSUME NoMessageAssumption == NoMessage \notin Messages
ASSUME NoConnAssumption    == NoConn \notin Conns

VARIABLES
    workPc,     \* worker -> where it is in deliver
    workMsg,    \* worker -> the message it delivers
    lock,       \* the worker that holds the client's lock
    sock,       \* the client's connection
    closing,    \* disconnect_all: "no", "waiting" (holds the manager's lock), "done"
    server,     \* the endpoint: "up", "stopping" (stop() called), "down"
    peer,       \* connection -> "new", "backlog", "open", "closed" at the parser
    serve,      \* connection -> where its thread is in _handle_client:
                \* "reading", "processing", about to send "ACK" or "NACK"
    job,        \* connection -> the message its thread works on
    requests,   \* connection -> lines on their way to the parser
    answers,    \* connection -> answers on their way to the router
    acked,      \* messages whose delivery returned success
    handled,    \* messages the parser has accepted or spooled records of
    sent,       \* message -> number of transmissions
    begun       \* message -> how often the parser began to process it

routerVars == <<workPc, workMsg, lock, sock, closing>>
parserVars == <<server, peer, serve, job>>
wireVars   == <<requests, answers>>
history    == <<acked, handled, sent, begun>>
vars == <<routerVars, parserVars, wireVars, history>>

WorkPcs == {"idle", "waiting", "connect", "send", "await"}
Inside  == {"connect", "send", "await"}    \* holding the client's lock
Serves  == {"reading", "processing", "ACK", "NACK"}
Answers == [id : Messages, status : {"ACK", "NACK"}]

Init ==
    /\ workPc = [w \in Workers |-> "idle"]
    /\ workMsg = [w \in Workers |-> NoMessage]
    /\ lock = NoWorker
    /\ sock = NoConn
    /\ closing = "no"
    /\ server = "up"
    /\ peer = [c \in Conns |-> "new"]
    /\ serve = [c \in Conns |-> "reading"]
    /\ job = [c \in Conns |-> NoMessage]
    /\ requests = [c \in Conns |-> << >>]
    /\ answers = [c \in Conns |-> << >>]
    /\ acked = {}
    /\ handled = {}
    /\ sent = [m \in Messages |-> 0]
    /\ begun = [m \in Messages |-> 0]

-----------------------------------------------------------------------------
(* The router's side: deliver, deliver_and_await_ack.                      *)

Awaits(w, m) == workPc[w] = "await" /\ workMsg[w] = m

\* The worker's call returns, and the lock is released.
Return(w) ==
    /\ workPc' = [workPc EXCEPT ![w] = "idle"]
    /\ workMsg' = [workMsg EXCEPT ![w] = NoMessage]
    /\ lock' = NoWorker

\* A worker takes an item from the queue, before the stop event.  An item is
\* in one place: no two workers deliver the same message.  One that was
\* acknowledged may come again: the record of it was not written, or was
\* overwritten.
Take(w, m) ==
    /\ closing = "no"
    /\ workPc[w] = "idle"
    /\ \A v \in Workers : workMsg[v] # m
    /\ sent[m] < MaxSends
    /\ workPc' = [workPc EXCEPT ![w] = "waiting"]
    /\ workMsg' = [workMsg EXCEPT ![w] = m]
    /\ UNCHANGED <<lock, sock, closing, parserVars, wireVars, history>>

\* deliver: get_client, then the client's lock.  The manager's lock, which
\* get_client takes for a moment, can delay the worker and nothing else.
EnterClient(w) ==
    /\ workPc[w] = "waiting"
    /\ lock = NoWorker
    /\ lock' = w
    /\ workPc' = [workPc EXCEPT ![w] = IF sock = NoConn THEN "connect" ELSE "send"]
    /\ UNCHANGED <<workMsg, sock, closing, parserVars, wireVars, history>>

\* The listening socket's backlog takes the connection, accepted or not.
Connect(w, c) ==
    /\ workPc[w] = "connect"
    /\ server = "up"
    /\ peer[c] = "new"
    /\ sock' = c
    /\ peer' = [peer EXCEPT ![c] = "backlog"]
    /\ workPc' = [workPc EXCEPT ![w] = "send"]
    /\ UNCHANGED <<workMsg, lock, closing, server, serve, job, wireVars, history>>

\* Refused, or timed out.
ConnectFails(w) ==
    /\ workPc[w] = "connect"
    /\ Return(w)
    /\ UNCHANGED <<sock, closing, parserVars, wireVars, history>>

\* sendall; on a connection the parser has closed the line goes nowhere.
Send(w) ==
    /\ workPc[w] = "send"
    /\ requests' = IF peer[sock] = "closed" THEN requests
                   ELSE [requests EXCEPT ![sock] = Append(@, workMsg[w])]
    /\ sent' = [sent EXCEPT ![workMsg[w]] = @ + 1]
    /\ workPc' = [workPc EXCEPT ![w] = "await"]
    /\ UNCHANGED <<workMsg, lock, sock, closing, parserVars, answers, acked, handled, begun>>

\* The socket is closed with the failed call; a part of a line that was sent
\* is never read to its end.
SendFails(w) ==
    /\ workPc[w] = "send"
    /\ sock' = NoConn
    /\ Return(w)
    /\ UNCHANGED <<closing, parserVars, wireVars, history>>

\* Faulty variant: the status of the answer is not looked at.
ConfirmedByAnyAnswer(a, m) == a.id = m

\* validate_ack_response
Confirmed(a, m) == a.id = m /\ a.status = "ACK"

\* An answer of any kind leaves the connection open.
ReceiveAnswer(w) ==
    /\ workPc[w] = "await"
    /\ answers[sock] # << >>
    /\ answers' = [answers EXCEPT ![sock] = Tail(@)]
    /\ acked' = IF Confirmed(Head(answers[sock]), workMsg[w])
                THEN acked \cup {workMsg[w]} ELSE acked
    /\ Return(w)
    /\ UNCHANGED <<sock, closing, parserVars, requests, handled, sent, begun>>

\* Faulty variant: the socket stays open after a timeout.
AwaitFailsOpen(w) ==
    /\ workPc[w] = "await"
    /\ Return(w)
    /\ UNCHANGED <<sock, closing, parserVars, wireVars, history>>

\* Faulty variant: no timeout is set on the socket.
AwaitFailsOnCloseOnly(w) ==
    /\ workPc[w] = "await"
    /\ peer[sock] = "closed"
    /\ sock' = NoConn
    /\ Return(w)
    /\ UNCHANGED <<closing, parserVars, wireVars, history>>

\* Timeout, end of stream or reset: disconnect.
AwaitFails(w) ==
    /\ workPc[w] = "await"
    /\ sock' = NoConn
    /\ Return(w)
    /\ UNCHANGED <<closing, parserVars, wireVars, history>>

\* RoutingEngine.stop, whose wait for the workers has a deadline, goes on to
\* disconnect_all, which takes the manager's lock, then waits for the client's.
BeginDisconnectAll ==
    /\ closing = "no"
    /\ closing' = "waiting"
    /\ UNCHANGED <<workPc, workMsg, lock, sock, parserVars, wireVars, history>>

DisconnectAll ==
    /\ closing = "waiting"
    /\ lock = NoWorker
    /\ sock' = NoConn
    /\ closing' = "done"
    /\ UNCHANGED <<workPc, workMsg, lock, parserVars, wireVars, history>>

\* The process exits or is killed, and starts anew.  The ids of file messages
\* are stable, so that what was in delivery may be offered again.
RouterRestarts ==
    /\ workPc' = [w \in Workers |-> "idle"]
    /\ workMsg' = [w \in Workers |-> NoMessage]
    /\ lock' = NoWorker
    /\ sock' = NoConn
    /\ closing' = "no"
    /\ UNCHANGED <<parserVars, wireVars, history>>

-----------------------------------------------------------------------------
(* The parser's side: _listen_loop, _handle_client, and the process.       *)

Accept(c) ==
    /\ server = "up"
    /\ peer[c] = "backlog"
    /\ peer' = [peer EXCEPT ![c] = "open"]
    /\ UNCHANGED <<routerVars, server, serve, job, wireVars, history>>

\* Faulty variant: the line is not taken off the buffer.
ReadLineAgain(c) ==
    /\ peer[c] = "open"
    /\ serve[c] = "reading"
    /\ requests[c] # << >>
    /\ serve' = [serve EXCEPT ![c] = "processing"]
    /\ job' = [job EXCEPT ![c] = Head(requests[c])]
    /\ begun' = [begun EXCEPT ![Head(requests[c])] = @ + 1]
    /\ UNCHANGED <<routerVars, server, peer, wireVars, acked, handled, sent>>

ReadLine(c) ==
    /\ peer[c] = "open"
    /\ serve[c] = "reading"
    /\ requests[c] # << >>
    /\ serve' = [serve EXCEPT ![c] = "processing"]
    /\ job' = [job EXCEPT ![c] = Head(requests[c])]
    /\ requests' = [requests EXCEPT ![c] = Tail(@)]
    /\ begun' = [begun EXCEPT ![Head(requests[c])] = @ + 1]
    /\ UNCHANGED <<routerVars, server, peer, answers, acked, handled, sent>>

\* process_envelope.  Success means that a record was spooled or that there
\* was nothing to spool; an error raised after the spooling makes it a NACK.
Process(c) ==
    /\ serve[c] = "processing"
    /\ \E status \in {"ACK", "NACK"}, spooled \in BOOLEAN :
          /\ status = "ACK" => spooled
          /\ serve' = [serve EXCEPT ![c] = status]
          /\ handled' = IF spooled THEN handled \cup {job[c]} ELSE handled
    /\ UNCHANGED <<routerVars, server, peer, job, wireVars, acked, sent, begun>>

\* Faulty variant: the answer to a message that failed does not name it.
AnswerWithoutId(c) ==
    [id |-> IF serve[c] = "NACK" THEN NoMessage ELSE job[c], status |-> serve[c]]

\* to_ack_dict
AnswerOf(c) == [id |-> job[c], status |-> serve[c]]

\* The answer is sent, into the void if the router has closed its end, and
\* the thread looks at _running before it reads on.
Reply(c) ==
    /\ serve[c] \in {"ACK", "NACK"}
    /\ answers' = IF sock = c THEN [answers EXCEPT ![c] = Append(@, AnswerOf(c))]
                  ELSE answers
    /\ serve' = [serve EXCEPT ![c] = "reading"]
    /\ job' = [job EXCEPT ![c] = NoMessage]
    /\ peer' = IF server = "up" THEN peer ELSE [peer EXCEPT ![c] = "closed"]
    /\ UNCHANGED <<routerVars, server, requests, history>>

\* End of stream, reset, or ten seconds without a line: what is on its way
\* is lost.
HandlerEnds(c) ==
    /\ peer[c] = "open"
    /\ serve[c] = "reading"
    /\ peer' = [peer EXCEPT ![c] = "closed"]
    /\ UNCHANGED <<routerVars, server, serve, job, wireVars, history>>

\* stop(): no more connections; threads end when they next look at _running.
EndpointStops ==
    /\ server = "up"
    /\ server' = "stopping"
    /\ peer' = [c \in Conns |-> IF peer[c] = "backlog" THEN "closed" ELSE peer[c]]
    /\ UNCHANGED <<routerVars, serve, job, wireVars, history>>

\* The process exits or is killed.
ParserDies ==
    /\ server # "down"
    /\ server' = "down"
    /\ peer' = [c \in Conns |-> IF peer[c] = "new" THEN "new" ELSE "closed"]
    /\ serve' = [c \in Conns |-> "reading"]
    /\ job' = [c \in Conns |-> NoMessage]
    /\ UNCHANGED <<routerVars, wireVars, history>>

ParserStarts ==
    /\ server = "down"
    /\ server' = "up"
    /\ UNCHANGED <<routerVars, peer, serve, job, wireVars, history>>

-----------------------------------------------------------------------------
Client(w) ==
    \/ \E m \in Messages : Take(w, m)
    \/ EnterClient(w)
    \/ \E c \in Conns : Connect(w, c)
    \/ ConnectFails(w) \/ Send(w) \/ SendFails(w)
    \/ ReceiveAnswer(w) \/ AwaitFails(w)

Handler(c) == Accept(c) \/ ReadLine(c) \/ Process(c) \/ Reply(c) \/ HandlerEnds(c)

Processes ==
    \/ BeginDisconnectAll \/ DisconnectAll \/ RouterRestarts
    \/ EndpointStops \/ ParserDies \/ ParserStarts

Next ==
    \/ \E w \in Workers : Client(w)
    \/ \E c \in Conns : Handler(c)
    \/ Processes

\* Every call on the client's socket ends, by its timeout if nothing else
\* happens; a lock that stays free is taken.  Nothing is assumed of the
\* parser.
Fairness ==
    /\ \A w \in Workers :
          /\ WF_vars(EnterClient(w))
          /\ WF_vars(ConnectFails(w) \/ \E c \in Conns : Connect(w, c))
          /\ WF_vars(Send(w) \/ SendFails(w))
          /\ WF_vars(ReceiveAnswer(w) \/ AwaitFails(w))
    /\ WF_vars(DisconnectAll)

Spec == Init /\ [][Next]_vars /\ Fairness

-----------------------------------------------------------------------------
TypeOK ==
    /\ workPc \in [Workers -> WorkPcs]
    /\ workMsg \in [Workers -> Messages \cup {NoMessage}]
    /\ lock \in Workers \cup {NoWorker}
    /\ sock \in Conns \cup {NoConn}
    /\ closing \in {"no", "waiting", "done"}
    /\ server \in {"up", "stopping", "down"}
    /\ peer \in [Conns -> {"new", "backlog", "open", "closed"}]
    /\ serve \in [Conns -> Serves]
    /\ job \in [Conns -> Messages \cup {NoMessage}]
    /\ requests \in [Conns -> Seq(Messages)]
    /\ answers \in [Conns -> Seq(Answers)]
    /\ acked \subseteq Messages
    /\ handled \subseteq Messages
    /\ sent \in [Messages -> Nat]
    /\ begun \in [Messages -> Nat]

\* A message has something to do with connection c: its line, its processing
\* or its answer.
Underway(c, m) ==
    \/ m \in {requests[c][i] : i \in 1 .. Len(requests[c])}
    \/ serve[c] # "reading" /\ job[c] = m
    \/ m \in {answers[c][i].id : i \in 1 .. Len(answers[c])}

\* Nothing is underway on the client's connection but the message of the
\* worker that holds it and awaits the answer: no delivery ever reads the
\* answer to another, though a mismatch (acknowledgement.py:60) would leave
\* the connection in use, one answer behind for ever.
NothingStale ==
    sock # NoConn => \A m \in Messages :
                        Underway(sock, m) => \E w \in Workers : Awaits(w, m)

\* The parser processes a message at most once for each transmission of it:
\* however connections fail, duplicates are the router's retries and no more.
WorkIsBounded == \A m \in Messages : begun[m] <= sent[m]

OfferOf ==
    [m \in Messages |-> IF \E w \in Workers : Awaits(w, m) THEN "pending" ELSE "idle"]

Offered == {m \in Messages : sent[m] > 0}

\* The link keeps the promise that Router's delivery step is built on: an
\* acknowledged message was handled, and every message sent is answered.
Promise == INSTANCE Delivery WITH offer <- OfferOf, offered <- Offered

DeliveryPromise == Promise!Spec

\* disconnect_all returns, although it waits for a lock that the workers
\* compete for and hold while a parser keeps them waiting.
DisconnectAllReturns == closing = "waiting" ~> closing # "waiting"
=============================================================================
