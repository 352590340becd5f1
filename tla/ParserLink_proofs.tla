-------------------------- MODULE ParserLink_proofs --------------------------
(***************************************************************************)
(* Theorems about ParserLink, for every set of workers, messages and       *)
(* connections.                                                            *)
(***************************************************************************)
EXTENDS ParserLink, FiniteSetTheorems, TLAPS

-----------------------------------------------------------------------------
(* Control: who holds the lock, which worker and thread has a message.     *)

Holders ==
    \A w \in Workers : lock = w <=> workPc[w] \in Inside

Carriers ==
    \A w \in Workers : workMsg[w] = NoMessage <=> workPc[w] = "idle"

Sockets ==
    \A w \in Workers :
        /\ workPc[w] = "connect" => sock = NoConn
        /\ workPc[w] \in {"send", "await"} => sock # NoConn

Jobs ==
    \A c \in Conns : serve[c] # "reading" => job[c] # NoMessage

Control == TypeOK /\ Holders /\ Carriers /\ Sockets /\ Jobs

\* The control part of the invariant holds in the initial state.
LEMMA ControlInit == Init => Control
  BY NoWorkerAssumption, NoMessageAssumption, NoConnAssumption
  DEF Init, Control, TypeOK, Holders, Carriers, Sockets, Jobs, WorkPcs, Inside, Serves

\* What a returning worker leaves behind.
LEMMA ReturnControl ==
  ASSUME Control, NEW w \in Workers, lock = w, Return(w), sock' \in {sock, NoConn},
         UNCHANGED <<job, serve>>
  PROVE  /\ workPc' \in [Workers -> WorkPcs]
         /\ workMsg' \in [Workers -> Messages \cup {NoMessage}]
         /\ lock' \in Workers \cup {NoWorker}
         /\ sock' \in Conns \cup {NoConn}
         /\ Holders' /\ Carriers' /\ Sockets' /\ Jobs'
  BY NoWorkerAssumption, NoMessageAssumption, NoConnAssumption
  DEF Control, TypeOK, Return, Holders, Carriers, Sockets, Jobs, WorkPcs, Inside

\* Every step of a worker preserves the control part.
LEMMA ControlClient ==
  ASSUME Control, NEW w \in Workers, Client(w)
  PROVE  Control'
<1>. USE NoWorkerAssumption, NoMessageAssumption, NoConnAssumption
<1>1. ASSUME NEW m \in Messages, Take(w, m) PROVE Control'
  BY <1>1 DEF Control, TypeOK, Holders, Carriers, Sockets, Jobs, WorkPcs, Inside,
              Take, parserVars, wireVars, history
<1>2. CASE EnterClient(w)
  BY <1>2 DEF Control, TypeOK, Holders, Carriers, Sockets, Jobs, WorkPcs, Inside,
              EnterClient, parserVars, wireVars, history
<1>3. ASSUME NEW c \in Conns, Connect(w, c) PROVE Control'
  BY <1>3 DEF Control, TypeOK, Holders, Carriers, Sockets, Jobs, WorkPcs, Inside,
              Connect, wireVars, history
<1>4. CASE ConnectFails(w)
  <2>1. lock = w /\ sock' \in {sock, NoConn} /\ UNCHANGED <<job, serve>>
    BY <1>4 DEF ConnectFails, Control, Holders, Inside, parserVars
  <2>. QED BY <1>4, <2>1, ReturnControl
           DEF ConnectFails, Control, TypeOK, parserVars, wireVars, history
<1>5. CASE Send(w)
  <2>1. workMsg[w] \in Messages
    BY <1>5 DEF Send, Control, TypeOK, Carriers
  <2>2. requests' \in [Conns -> Seq(Messages)]
    <3>1. sock \in Conns /\ requests[sock] \in Seq(Messages)
      BY <1>5 DEF Send, Control, TypeOK, Sockets
    <3>2. Append(requests[sock], workMsg[w]) \in Seq(Messages)
      BY <2>1, <3>1
    <3>. QED BY <1>5, <3>1, <3>2 DEF Send, Control, TypeOK
  <2>3. sent' \in [Messages -> Nat]
    BY <1>5, <2>1 DEF Send, Control, TypeOK
  <2>. QED BY <1>5, <2>2, <2>3 DEF Control, TypeOK, Holders, Carriers, Sockets, Jobs, WorkPcs,
                        Inside, Send, parserVars
<1>6. CASE SendFails(w)
  <2>1. lock = w /\ sock' \in {sock, NoConn} /\ UNCHANGED <<job, serve>>
    BY <1>6 DEF SendFails, Control, Holders, Inside, parserVars
  <2>. QED BY <1>6, <2>1, ReturnControl
           DEF SendFails, Control, TypeOK, parserVars, wireVars, history
<1>7. CASE ReceiveAnswer(w)
  <2>1. lock = w /\ sock' \in {sock, NoConn} /\ UNCHANGED <<job, serve>>
    BY <1>7 DEF ReceiveAnswer, Control, Holders, Inside, parserVars
  <2>2. answers' \in [Conns -> Seq(Answers)] /\ acked' \subseteq Messages
    <3>1. workMsg[w] \in Messages /\ sock \in Conns
      BY <1>7 DEF ReceiveAnswer, Control, TypeOK, Carriers, Sockets
    <3>2. Tail(answers[sock]) \in Seq(Answers)
      BY <1>7, <3>1 DEF ReceiveAnswer, Control, TypeOK
    <3>. QED BY <1>7, <3>1, <3>2 DEF ReceiveAnswer, Control, TypeOK
  <2>. QED BY <1>7, <2>1, <2>2, ReturnControl
           DEF ReceiveAnswer, Control, TypeOK, parserVars
<1>8. CASE AwaitFails(w)
  <2>1. lock = w /\ sock' \in {sock, NoConn} /\ UNCHANGED <<job, serve>>
    BY <1>8 DEF AwaitFails, Control, Holders, Inside, parserVars
  <2>. QED BY <1>8, <2>1, ReturnControl
           DEF AwaitFails, Control, TypeOK, parserVars, wireVars, history
<1>. QED BY <1>1, <1>2, <1>3, <1>4, <1>5, <1>6, <1>7, <1>8 DEF Client

\* Every step of a handler thread preserves the control part.
LEMMA ControlHandler ==
  ASSUME Control, NEW c \in Conns, Handler(c)
  PROVE  Control'
<1>. USE NoWorkerAssumption, NoMessageAssumption, NoConnAssumption
<1>1. CASE Accept(c)
  BY <1>1 DEF Control, TypeOK, Holders, Carriers, Sockets, Jobs, Accept,
              routerVars, wireVars, history
<1>2. CASE ReadLine(c)
  <2>1. Head(requests[c]) \in Messages /\ Tail(requests[c]) \in Seq(Messages)
    BY <1>2 DEF ReadLine, Control, TypeOK
  <2>2. requests' \in [Conns -> Seq(Messages)] /\ begun' \in [Messages -> Nat]
    BY <1>2, <2>1 DEF ReadLine, Control, TypeOK
  <2>. QED BY <1>2, <2>1, <2>2 DEF Control, TypeOK, Holders, Carriers, Sockets, Jobs, Serves,
                              ReadLine, routerVars
<1>3. CASE Process(c)
  BY <1>3 DEF Control, TypeOK, Holders, Carriers, Sockets, Jobs, Serves, Process,
              routerVars, wireVars
<1>4. CASE Reply(c)
  <2>1. answers' \in [Conns -> Seq(Answers)]
    <3>1. AnswerOf(c) \in Answers /\ answers[c] \in Seq(Answers)
      BY <1>4 DEF Reply, AnswerOf, Answers, Control, TypeOK, Jobs
    <3>2. Append(answers[c], AnswerOf(c)) \in Seq(Answers)
      BY <3>1
    <3>. QED BY <1>4, <3>2 DEF Reply, Control, TypeOK
  <2>. QED BY <1>4, <2>1 DEF Control, TypeOK, Holders, Carriers, Sockets, Jobs, Serves,
                        Reply, routerVars, history
<1>5. CASE HandlerEnds(c)
  BY <1>5 DEF Control, TypeOK, Holders, Carriers, Sockets, Jobs, HandlerEnds,
              routerVars, wireVars, history
<1>. QED BY <1>1, <1>2, <1>3, <1>4, <1>5 DEF Handler

\* So does every step of the two processes.
LEMMA ControlProcesses ==
  ASSUME Control, Processes
  PROVE  Control'
<1>. USE NoWorkerAssumption, NoMessageAssumption, NoConnAssumption
<1>1. CASE BeginDisconnectAll
  BY <1>1 DEF Control, TypeOK, Holders, Carriers, Sockets, Jobs, BeginDisconnectAll,
              parserVars, wireVars, history
<1>2. CASE DisconnectAll
  BY <1>2 DEF Control, TypeOK, Holders, Carriers, Sockets, Jobs, Inside, DisconnectAll,
              parserVars, wireVars, history
<1>3. CASE RouterRestarts
  BY <1>3 DEF Control, TypeOK, Holders, Carriers, Sockets, Jobs, Inside, WorkPcs,
              RouterRestarts, parserVars, wireVars, history
<1>4. CASE EndpointStops
  BY <1>4 DEF Control, TypeOK, Holders, Carriers, Sockets, Jobs, EndpointStops,
              routerVars, wireVars, history
<1>5. CASE ParserDies
  BY <1>5 DEF Control, TypeOK, Holders, Carriers, Sockets, Jobs, Serves, ParserDies,
              routerVars, wireVars, history
<1>6. CASE ParserStarts
  BY <1>6 DEF Control, TypeOK, Holders, Carriers, Sockets, Jobs, ParserStarts,
              routerVars, wireVars, history
<1>. QED BY <1>1, <1>2, <1>3, <1>4, <1>5, <1>6 DEF Processes

\* The control part is inductive.
LEMMA ControlStep ==
  ASSUME Control, [Next]_vars
  PROVE  Control'
<1>1. CASE UNCHANGED vars
  BY <1>1 DEF vars, routerVars, parserVars, wireVars, history, Control, TypeOK,
              Holders, Carriers, Sockets, Jobs
<1>. QED BY <1>1, ControlClient, ControlHandler, ControlProcesses DEF Next

\* Every variable keeps its type: in particular an answer always names a
\* message (endpoint.py:122 sends "unknown" only for a line that is not an
\* envelope).
THEOREM TypeCorrect == Spec => []TypeOK
<1>1. Control => TypeOK
  BY DEF Control
<1>. QED BY <1>1, ControlInit, ControlStep, PTL DEF Spec

-----------------------------------------------------------------------------
(* The exchange: at most one line, one processing or one answer is underway *)
(* on the client's connection, and it is that of the worker who awaits it.  *)

Quiet(c) == requests[c] = << >> /\ answers[c] = << >> /\ serve[c] = "reading"

OnlyRequest(c, m) ==
    requests[c] = <<m>> /\ answers[c] = << >> /\ serve[c] = "reading"

OnlyJob(c, m) ==
    /\ requests[c] = << >> /\ answers[c] = << >>
    /\ serve[c] # "reading" /\ job[c] = m
    /\ serve[c] = "ACK" => m \in handled

OnlyAnswer(c, m) ==
    /\ requests[c] = << >> /\ serve[c] = "reading"
    /\ \E a \in Answers : /\ answers[c] = <<a>>
                          /\ a.id = m
                          /\ a.status = "ACK" => m \in handled

Single(c, m) == OnlyRequest(c, m) \/ OnlyJob(c, m) \/ OnlyAnswer(c, m)

Fresh == \A c \in Conns : peer[c] = "new" => Quiet(c) /\ sock # c

Exchange ==
    sock # NoConn => \/ Quiet(sock)
                     \/ \E w \in Workers : workPc[w] = "await" /\ Single(sock, workMsg[w])

LinkInv == Control /\ Fresh /\ Exchange

\* A client's steps preserve the exchange.
LEMMA ExchangeClient ==
  ASSUME LinkInv, NEW w \in Workers, Client(w)
  PROVE  Fresh' /\ Exchange'
<1>. USE NoWorkerAssumption, NoMessageAssumption, NoConnAssumption
<1>0. Control /\ Control'
  BY ControlClient DEF LinkInv
<1>1. ASSUME NEW m \in Messages, Take(w, m) PROVE Fresh' /\ Exchange'
  <2>1. \A v \in Workers : workPc[v] = "await" =>
           workPc'[v] = "await" /\ workMsg'[v] = workMsg[v]
    BY <1>0, <1>1 DEF Take, Control, TypeOK
  <2>. QED BY <1>1, <2>1 DEF LinkInv, Fresh, Exchange, Quiet, Single, OnlyRequest, OnlyJob,
              OnlyAnswer, Take, parserVars, wireVars, history
<1>2. CASE EnterClient(w)
  <2>1. \A v \in Workers : workPc[v] = "await" =>
           workPc'[v] = "await" /\ workMsg'[v] = workMsg[v]
    BY <1>0, <1>2 DEF EnterClient, Control, TypeOK
  <2>. QED BY <1>2, <2>1 DEF LinkInv, Fresh, Exchange, Quiet, Single, OnlyRequest, OnlyJob,
              OnlyAnswer, EnterClient, parserVars, wireVars, history
<1>3. ASSUME NEW c \in Conns, Connect(w, c) PROVE Fresh' /\ Exchange'
  <2>1. Quiet(c)' /\ sock' = c
    BY <1>3 DEF LinkInv, Fresh, Quiet, Connect, wireVars
  <2>2. \A d \in Conns : peer'[d] = "new" => peer[d] = "new" /\ d # c
    BY <1>0, <1>3 DEF Connect, Control, TypeOK
  <2>3. \A d \in Conns : Quiet(d)' <=> Quiet(d)
    BY <1>3 DEF Quiet, Connect, wireVars
  <2>. QED BY <2>1, <2>2, <2>3 DEF LinkInv, Fresh, Exchange
<1>4. CASE ConnectFails(w)
  <2>1. sock = NoConn /\ sock' = NoConn
    BY <1>0, <1>4 DEF ConnectFails, Control, Sockets
  <2>. QED BY <1>4, <2>1 DEF LinkInv, Fresh, Exchange, Quiet, ConnectFails, parserVars, wireVars
<1>5. CASE Send(w)
  <2>1. sock \in Conns /\ lock = w /\ workMsg[w] \in Messages
    BY <1>0, <1>5 DEF Send, Control, TypeOK, Sockets, Holders, Carriers, Inside
  <2>2. \A v \in Workers : workPc[v] # "await"
    BY <1>0, <1>5, <2>1 DEF Send, Control, Holders, Inside
  <2>3. Quiet(sock)
    BY <2>1, <2>2 DEF LinkInv, Exchange
  <2>4. workPc'[w] = "await" /\ sock' = sock /\ workMsg' = workMsg
    BY <1>0, <1>5 DEF Send, Control, TypeOK
  <2>5. Quiet(sock)' \/ OnlyRequest(sock, workMsg[w])'
    <3>1. CASE peer[sock] = "closed"
      BY <1>5, <2>3, <2>4, <3>1 DEF Send, Quiet, parserVars
    <3>2. CASE peer[sock] # "closed"
      <4>1. requests'[sock] = <<workMsg[w]>>
        BY <1>0, <1>5, <2>1, <2>3, <3>2 DEF Send, Quiet, Control, TypeOK
      <4>. QED BY <1>5, <2>3, <2>4, <4>1 DEF Send, Quiet, OnlyRequest, parserVars
    <3>. QED BY <3>1, <3>2
  <2>6. Fresh'
    <3>1. ASSUME NEW c \in Conns, peer'[c] = "new" PROVE Quiet(c)' /\ sock' # c
      <4>1. Quiet(c) /\ sock # c
        BY <1>5, <3>1 DEF Send, LinkInv, Fresh, parserVars
      <4>. QED BY <1>0, <1>5, <2>1, <4>1 DEF Send, Quiet, Control, TypeOK, parserVars
    <3>. QED BY <3>1 DEF Fresh
  <2>. QED BY <2>4, <2>5, <2>6 DEF Exchange, Single
<1>6. CASE SendFails(w)
  BY <1>6 DEF LinkInv, Fresh, Exchange, Quiet, SendFails, parserVars, wireVars
<1>7. CASE ReceiveAnswer(w)
  <2>1. sock \in Conns /\ lock = w /\ sock' = sock
    BY <1>0, <1>7 DEF ReceiveAnswer, Control, TypeOK, Sockets, Holders, Inside
  <2>2. Single(sock, workMsg[w])
    BY <1>0, <1>7, <2>1 DEF ReceiveAnswer, LinkInv, Exchange, Quiet, Control, Holders, Inside
  <2>3. OnlyAnswer(sock, workMsg[w])
    BY <1>7, <2>2 DEF ReceiveAnswer, Single, OnlyRequest, OnlyJob
  <2>4. answers'[sock] = << >>
    BY <1>0, <1>7, <2>1, <2>3 DEF ReceiveAnswer, OnlyAnswer, Control, TypeOK
  <2>5. Quiet(sock)'
    BY <1>7, <2>1, <2>3, <2>4 DEF ReceiveAnswer, OnlyAnswer, Quiet, parserVars
  <2>6. Fresh'
    <3>1. ASSUME NEW c \in Conns, peer'[c] = "new" PROVE Quiet(c)' /\ sock' # c
      <4>1. Quiet(c) /\ sock # c
        BY <1>7, <3>1 DEF ReceiveAnswer, LinkInv, Fresh, parserVars
      <4>. QED BY <1>0, <1>7, <2>1, <4>1 DEF ReceiveAnswer, Quiet, Control, TypeOK, parserVars
    <3>. QED BY <3>1 DEF Fresh
  <2>. QED BY <2>1, <2>5, <2>6 DEF Exchange
<1>8. CASE AwaitFails(w)
  BY <1>8 DEF LinkInv, Fresh, Exchange, Quiet, AwaitFails, parserVars, wireVars
<1>. QED BY <1>1, <1>2, <1>3, <1>4, <1>5, <1>6, <1>7, <1>8 DEF Client

\* A step of the thread of another connection leaves the exchange alone.
LEMMA ExchangeElsewhere ==
  ASSUME LinkInv, sock \in Conns,
         UNCHANGED routerVars, handled \subseteq handled',
         requests'[sock] = requests[sock], answers'[sock] = answers[sock],
         serve'[sock] = serve[sock], job'[sock] = job[sock]
  PROVE  Exchange'
  BY DEF LinkInv, Exchange, Quiet, Single, OnlyRequest, OnlyJob, OnlyAnswer, routerVars

\* The steps of the handler threads preserve the exchange.
LEMMA ExchangeHandler ==
  ASSUME LinkInv, NEW c \in Conns, Handler(c)
  PROVE  Fresh' /\ Exchange'
<1>. USE NoWorkerAssumption, NoMessageAssumption, NoConnAssumption
<1>0. Control /\ UNCHANGED routerVars /\ handled \subseteq handled'
  BY DEF LinkInv, Handler, Accept, ReadLine, Process, Reply, HandlerEnds, history
<1>. sock' = sock /\ workPc' = workPc /\ workMsg' = workMsg
  BY <1>0 DEF routerVars
<1>1. Fresh'
  <2>1. ASSUME NEW d \in Conns, peer'[d] = "new" PROVE peer[d] = "new" /\ d # c
    <3>1. peer[c] # "new"
      BY DEF LinkInv, Fresh, Quiet, Handler, Accept, ReadLine, Process, Reply, HandlerEnds
    <3>2. peer'[c] # "new"
      BY <1>0, <3>1 DEF Handler, Accept, ReadLine, Process, Reply, HandlerEnds, Control, TypeOK
    <3>3. d # c
      BY <2>1, <3>2
    <3>. QED BY <1>0, <2>1, <3>3
             DEF Handler, Accept, ReadLine, Process, Reply, HandlerEnds, Control, TypeOK
  <2>2. \A d \in Conns : d # c => (Quiet(d)' <=> Quiet(d))
    BY <1>0 DEF Quiet, Handler, Accept, ReadLine, Process, Reply, HandlerEnds,
                Control, TypeOK, wireVars
  <2>. QED BY <1>0, <2>1, <2>2 DEF LinkInv, Fresh
<1>. SUFFICES Exchange'
  BY <1>1
<1>2. CASE sock = NoConn
  BY <1>2 DEF Exchange
<1>3. CASE sock # NoConn /\ sock # c
  <2>1. sock \in Conns
    BY <1>0, <1>3 DEF Control, TypeOK
  <2>2. /\ requests'[sock] = requests[sock] /\ answers'[sock] = answers[sock]
        /\ serve'[sock] = serve[sock] /\ job'[sock] = job[sock]
    BY <1>0, <1>3, <2>1 DEF Handler, Accept, ReadLine, Process, Reply, HandlerEnds,
                            Control, TypeOK, wireVars
  <2>. QED BY <1>0, <2>1, <2>2, ExchangeElsewhere
<1>4. CASE sock # NoConn /\ sock = c
  <2>1. CASE Accept(c) \/ HandlerEnds(c)
    BY <1>0, <1>4, <2>1, ExchangeElsewhere DEF Accept, HandlerEnds, wireVars
  <2>2. CASE ReadLine(c)
    <3>1. PICK w \in Workers : workPc[w] = "await" /\ OnlyRequest(c, workMsg[w])
      BY <1>4, <2>2 DEF LinkInv, Exchange, Quiet, Single, OnlyRequest, OnlyJob, OnlyAnswer,
                        ReadLine
    <3>2. /\ requests'[c] = << >> /\ job'[c] = workMsg[w] /\ serve'[c] = "processing"
          /\ answers'[c] = << >>
      BY <1>0, <2>2, <3>1 DEF ReadLine, OnlyRequest, Control, TypeOK
    <3>. QED BY <1>4, <3>1, <3>2 DEF Exchange, Single, OnlyJob
  <2>3. CASE Process(c)
    <3>1. PICK w \in Workers : workPc[w] = "await" /\ OnlyJob(c, workMsg[w])
      BY <1>4, <2>3 DEF LinkInv, Exchange, Quiet, Single, OnlyRequest, OnlyJob, OnlyAnswer,
                        Process
    <3>2. serve'[c] # "reading" /\ (serve'[c] = "ACK" => job[c] \in handled')
      BY <1>0, <2>3 DEF Process, Control, TypeOK
    <3>. QED BY <1>4, <2>3, <3>1, <3>2 DEF Exchange, Single, OnlyJob, Process, wireVars
  <2>4. CASE Reply(c)
    <3>1. PICK w \in Workers : workPc[w] = "await" /\ OnlyJob(c, workMsg[w])
      BY <1>4, <2>4 DEF LinkInv, Exchange, Quiet, Single, OnlyRequest, OnlyJob, OnlyAnswer,
                        Reply
    <3>2. answers'[c] = <<AnswerOf(c)>>
      BY <1>0, <1>4, <2>4, <3>1 DEF Reply, OnlyJob, Control, TypeOK
    <3>3. AnswerOf(c) \in Answers /\ AnswerOf(c).id = workMsg[w]
          /\ (AnswerOf(c).status = "ACK" => workMsg[w] \in handled')
      BY <1>0, <2>4, <3>1 DEF Reply, AnswerOf, Answers, OnlyJob, Control, TypeOK, Jobs
    <3>4. requests'[c] = << >> /\ serve'[c] = "reading"
      BY <1>0, <2>4, <3>1 DEF Reply, OnlyJob, Control, TypeOK
    <3>. QED BY <1>4, <3>1, <3>2, <3>3, <3>4 DEF Exchange, Single, OnlyAnswer
  <2>. QED BY <2>1, <2>2, <2>3, <2>4 DEF Handler
<1>. QED BY <1>2, <1>3, <1>4

\* So do the steps of the two processes.
LEMMA ExchangeProcesses ==
  ASSUME LinkInv, Processes
  PROVE  Fresh' /\ Exchange'
<1>. USE NoWorkerAssumption, NoMessageAssumption, NoConnAssumption
<1>0. Control
  BY DEF LinkInv
<1>1. CASE BeginDisconnectAll \/ ParserStarts
  BY <1>1 DEF LinkInv, Fresh, Exchange, Quiet, Single, OnlyRequest, OnlyJob, OnlyAnswer,
              BeginDisconnectAll, ParserStarts, routerVars, parserVars, wireVars, history
<1>2. CASE DisconnectAll \/ RouterRestarts
  BY <1>2 DEF LinkInv, Fresh, Exchange, Quiet, DisconnectAll, RouterRestarts,
              parserVars, wireVars
<1>3. CASE EndpointStops
  BY <1>0, <1>3 DEF LinkInv, Fresh, Exchange, Quiet, Single, OnlyRequest, OnlyJob, OnlyAnswer,
              EndpointStops, routerVars, wireVars, history
<1>4. CASE ParserDies
  <2>1. Fresh'
    BY <1>4 DEF LinkInv, Fresh, Quiet, ParserDies, routerVars, wireVars
  <2>2. ASSUME NEW w \in Workers, sock \in Conns, Single(sock, workMsg[w])
        PROVE  Quiet(sock)' \/ Single(sock, workMsg[w])'
    BY <1>4, <2>2 DEF Quiet, Single, OnlyRequest, OnlyJob, OnlyAnswer, ParserDies,
                      routerVars, wireVars, history
  <2>3. sock \in Conns /\ Quiet(sock) => Quiet(sock)'
    BY <1>4 DEF Quiet, ParserDies, routerVars, wireVars
  <2>4. UNCHANGED <<sock, workPc, workMsg>> /\ (sock # NoConn => sock \in Conns)
    BY <1>0, <1>4 DEF ParserDies, routerVars, Control, TypeOK
  <2>. QED BY <2>1, <2>2, <2>3, <2>4 DEF LinkInv, Exchange
<1>. QED BY <1>1, <1>2, <1>3, <1>4 DEF Processes

\* The whole invariant holds initially and is inductive.
LEMMA LinkInit == Init => LinkInv
  BY ControlInit, NoConnAssumption DEF Init, LinkInv, Fresh, Exchange, Quiet

LEMMA LinkStep ==
  ASSUME LinkInv, [Next]_vars
  PROVE  LinkInv'
<1>1. Control'
  BY ControlStep DEF LinkInv
<1>2. CASE UNCHANGED vars
  BY <1>1, <1>2 DEF vars, routerVars, parserVars, wireVars, history, LinkInv, Fresh,
              Exchange, Quiet, Single, OnlyRequest, OnlyJob, OnlyAnswer
<1>3. CASE Next
  BY <1>1, <1>3, ExchangeClient, ExchangeHandler, ExchangeProcesses DEF Next, LinkInv
<1>. QED BY <1>2, <1>3

\* An answer belongs to the request that reads it (tcp_client.py:97): nothing
\* of an earlier delivery is ever underway on the connection in use.
THEOREM AnswersBelong == Spec => []NothingStale
<1>1. LinkInv => NothingStale
  <2>. SUFFICES ASSUME LinkInv, sock # NoConn, NEW m \in Messages, Underway(sock, m)
                PROVE  \E w \in Workers : Awaits(w, m)
    BY DEF NothingStale
  <2>1. ~Quiet(sock)
    BY DEF Quiet, Underway
  <2>2. PICK w \in Workers : workPc[w] = "await" /\ Single(sock, workMsg[w])
    BY <2>1 DEF LinkInv, Exchange
  <2>3. m = workMsg[w]
    BY <2>2 DEF Single, OnlyRequest, OnlyJob, OnlyAnswer, Underway
  <2>. QED BY <2>2, <2>3 DEF Awaits
<1>. QED BY <1>1, LinkInit, LinkStep, PTL DEF Spec

-----------------------------------------------------------------------------
(* The link implements Delivery: its initial states map to initial states,  *)
(* and each of its steps to a step of Delivery or to none.                  *)

\* The parser works on messages that have been sent.
Known ==
    \A c \in Conns :
        /\ \A i \in 1 .. Len(requests[c]) : sent[requests[c][i]] > 0
        /\ serve[c] # "reading" => sent[job[c]] > 0

RefInv == LinkInv /\ Known

\* Known is preserved by every step.
LEMMA KnownStep ==
  ASSUME Control, Known, [Next]_vars
  PROVE  Known'
<1>. USE NoWorkerAssumption, NoMessageAssumption, NoConnAssumption
<1>1. ASSUME UNCHANGED <<requests, serve, job, sent>> PROVE Known'
  BY <1>1 DEF Known
<1>2. ASSUME NEW w \in Workers, Client(w), ~Send(w) PROVE Known'
  BY <1>1, <1>2 DEF Client, Take, EnterClient, Connect, ConnectFails, SendFails,
                    ReceiveAnswer, AwaitFails, parserVars, wireVars, history
<1>3. ASSUME NEW w \in Workers, Send(w) PROVE Known'
  <2>1. workMsg[w] \in Messages /\ sock \in Conns
    BY <1>3 DEF Send, Control, TypeOK, Carriers, Sockets
  <2>2. \A m \in Messages : sent'[m] >= sent[m] /\ sent'[m] \in Nat
    BY <1>3, <2>1 DEF Send, Control, TypeOK
  <2>3. sent'[workMsg[w]] > 0
    BY <1>3, <2>1 DEF Send, Control, TypeOK
  <2>4. ASSUME NEW c \in Conns, NEW i \in 1 .. Len(requests'[c])
        PROVE  sent'[requests'[c][i]] > 0
    <3>1. requests[c] \in Seq(Messages)
      BY DEF Control, TypeOK
    <3>2. requests'[c] \in {requests[c], Append(requests[c], workMsg[w])}
      BY <1>3, <2>1 DEF Send, Control, TypeOK
    <3>3. CASE i \in 1 .. Len(requests[c]) /\ requests'[c][i] = requests[c][i]
      <4>1. requests[c][i] \in Messages /\ sent[requests[c][i]] > 0
        BY <3>1, <3>3 DEF Known
      <4>. QED BY <2>2, <3>3, <4>1 DEF Control, TypeOK
    <3>4. CASE requests'[c][i] = workMsg[w]
      BY <2>3, <3>4
    <3>. QED BY <2>1, <2>4, <3>1, <3>2, <3>3, <3>4
  <2>5. ASSUME NEW c \in Conns, serve'[c] # "reading" PROVE sent'[job'[c]] > 0
    <3>1. job[c] \in Messages /\ sent[job[c]] > 0 /\ job' = job
      BY <1>3, <2>5 DEF Send, Known, Control, TypeOK, Jobs, parserVars
    <3>. QED BY <2>2, <3>1 DEF Control, TypeOK
  <2>. QED BY <2>4, <2>5 DEF Known
<1>4. ASSUME NEW c \in Conns, Handler(c) PROVE Known'
  <2>1. CASE Accept(c) \/ HandlerEnds(c)
    BY <1>1, <2>1 DEF Accept, HandlerEnds, wireVars, history
  <2>2. CASE ReadLine(c)
    <3>1. requests[c] \in Seq(Messages) /\ requests[c] # << >>
      BY <2>2 DEF ReadLine, Control, TypeOK
    <3>2. 1 \in 1 .. Len(requests[c]) /\ Head(requests[c]) = requests[c][1]
      BY <3>1
    <3>3. sent[Head(requests[c])] > 0
      BY <3>2 DEF Known
    <3>4. \A i \in 1 .. Len(Tail(requests[c])) :
             /\ i + 1 \in 1 .. Len(requests[c])
             /\ Tail(requests[c])[i] = requests[c][i + 1]
      BY <3>1
    <3>5. \A i \in 1 .. Len(Tail(requests[c])) : sent[Tail(requests[c])[i]] > 0
      BY <3>4 DEF Known
    <3>. QED BY <2>2, <3>3, <3>5 DEF ReadLine, Known, Control, TypeOK
  <2>3. CASE Process(c) \/ Reply(c)
    BY <2>3 DEF Process, Reply, Known, wireVars, history, Control, TypeOK
  <2>. QED BY <1>4, <2>1, <2>2, <2>3 DEF Handler
<1>5. CASE Processes
  BY <1>5 DEF Processes, BeginDisconnectAll, DisconnectAll, RouterRestarts, EndpointStops,
              ParserDies, ParserStarts, routerVars, parserVars, wireVars, history, Known
<1>6. CASE UNCHANGED vars
  BY <1>1, <1>6 DEF vars, parserVars, wireVars, history
<1>. QED BY <1>2, <1>3, <1>4, <1>5, <1>6 DEF Next

\* The abstract offers change only with the workers that await an answer.
LEMMA OfferUnchanged ==
  ASSUME \A w \in Workers, m \in Messages : Awaits(w, m)' <=> Awaits(w, m)
  PROVE  OfferOf' = OfferOf
  BY DEF OfferOf

\* Where nobody awaits an answer, every offer is idle.
LEMMA OfferOfNobody ==
  ASSUME \A w \in Workers, m \in Messages : ~Awaits(w, m)
  PROVE  OfferOf = [m \in Messages |-> "idle"]
  BY DEF OfferOf

\* The only worker that can await an answer is the one that has the lock.
LEMMA OneAwaits ==
  ASSUME Control, NEW w \in Workers, workPc[w] = "await"
  PROVE  /\ workMsg[w] \in Messages
         /\ OfferOf[workMsg[w]] = "pending"
         /\ OfferOf = [m \in Messages |-> IF m = workMsg[w] THEN "pending" ELSE "idle"]
<1>1. workMsg[w] \in Messages
  BY DEF Control, TypeOK, Carriers
<1>2. \A v \in Workers, m \in Messages : Awaits(v, m) <=> v = w /\ m = workMsg[w]
  BY DEF Control, Holders, Inside, Awaits
<1>. QED BY <1>1, <1>2 DEF OfferOf

\* When that worker returns, its offer is over.
LEMMA ReturnOffer ==
  ASSUME Control, NEW w \in Workers, workPc[w] = "await", Return(w)
  PROVE  OfferOf' = [m \in Messages |-> "idle"]
<1>1. \A v \in Workers, m \in Messages : ~Awaits(v, m)'
  BY NoWorkerAssumption DEF Control, TypeOK, Holders, Inside, Awaits, Return
<1>. QED BY <1>1 DEF OfferOf

\* A step of a worker is an offer, an answer to one, or nothing.
LEMMA ClientImplements ==
  ASSUME RefInv, NEW w \in Workers, Client(w)
  PROVE  [Promise!Next]_Promise!vars
<1>. USE NoWorkerAssumption, NoMessageAssumption, NoConnAssumption
<1>0. Control /\ LinkInv
  BY DEF RefInv, LinkInv
<1>1. ASSUME OfferOf' = OfferOf, UNCHANGED <<acked, sent, handled>> PROVE UNCHANGED Promise!vars
  BY <1>1 DEF Promise!vars, Offered
<1>2. ASSUME acked' = acked, sent' = sent, handled' = handled,
             \A v \in Workers, m \in Messages : Awaits(v, m)' <=> Awaits(v, m)
      PROVE  UNCHANGED Promise!vars
  BY <1>1, <1>2, OfferUnchanged
<1>3. ASSUME NEW m \in Messages, Take(w, m) PROVE UNCHANGED Promise!vars
  BY <1>0, <1>2, <1>3 DEF Take, Awaits, Control, TypeOK, history
<1>4. CASE EnterClient(w) \/ \E c \in Conns : Connect(w, c)
  BY <1>0, <1>2, <1>4 DEF EnterClient, Connect, Awaits, Control, TypeOK, history
<1>5. CASE ConnectFails(w) \/ SendFails(w)
  BY <1>0, <1>2, <1>5 DEF ConnectFails, SendFails, Return, Awaits, Control, TypeOK, history
<1>6. CASE Send(w)
  <2>. DEFINE m == workMsg[w]
  <2>1. m \in Messages
    BY <1>0, <1>6 DEF Send, Control, TypeOK, Carriers
  <2>2. \A v \in Workers, n \in Messages : ~Awaits(v, n)
    BY <1>0, <1>6 DEF Send, Awaits, Control, Holders, Inside
  <2>3. OfferOf = [n \in Messages |-> "idle"]
    BY <2>2, OfferOfNobody
  <2>4. \A v \in Workers, n \in Messages : Awaits(v, n)' <=> v = w /\ n = m
    BY <1>0, <1>6, <2>2 DEF Send, Awaits, Control, TypeOK
  <2>5. OfferOf' = [OfferOf EXCEPT ![m] = "pending"]
    BY <1>6, <2>1, <2>3, <2>4 DEF OfferOf, Send
  <2>6. Offered' = Offered \cup {m}
    BY <1>0, <1>6, <2>1 DEF Offered, Send, Control, TypeOK
  <2>7. Promise!Ask(m)
    BY <1>6, <2>1, <2>3, <2>5, <2>6 DEF Promise!Ask, Send
  <2>. QED BY <2>1, <2>7 DEF Promise!Next
<1>7. CASE ReceiveAnswer(w)
  <2>. DEFINE m == workMsg[w]
  <2>1. /\ m \in Messages /\ OfferOf[m] = "pending"
        /\ OfferOf = [n \in Messages |-> IF n = m THEN "pending" ELSE "idle"]
    BY <1>0, <1>7, OneAwaits DEF ReceiveAnswer
  <2>2. OfferOf' = [n \in Messages |-> "idle"]
    BY <1>0, <1>7, ReturnOffer DEF ReceiveAnswer
  <2>3. Offered' = Offered /\ handled' = handled
    BY <1>7 DEF ReceiveAnswer, Offered
  <2>6. OfferOf' = [OfferOf EXCEPT ![m] = "idle"]
    BY <2>1, <2>2
  <2>4. CASE Confirmed(Head(answers[sock]), m)
    <3>1. OnlyAnswer(sock, m)
      BY <1>0, <1>7 DEF ReceiveAnswer, LinkInv, Exchange, Quiet, Single, OnlyRequest,
                        OnlyJob, Control, TypeOK, Sockets, Holders, Inside
    <3>2. m \in handled
      BY <2>4, <3>1 DEF OnlyAnswer, Confirmed
    <3>3. acked' = acked \cup {m}
      BY <1>7, <2>4 DEF ReceiveAnswer
    <3>4. Promise!Ack(m)
      BY <2>1, <2>3, <2>6, <3>2, <3>3 DEF Promise!Ack
    <3>. QED BY <2>1, <3>4 DEF Promise!Next
  <2>5. CASE ~Confirmed(Head(answers[sock]), m)
    <3>1. acked' = acked
      BY <1>7, <2>5 DEF ReceiveAnswer
    <3>2. Promise!Fail(m)
      BY <2>1, <2>3, <2>6, <3>1 DEF Promise!Fail
    <3>. QED BY <2>1, <3>2 DEF Promise!Next
  <2>. QED BY <2>4, <2>5
<1>8. CASE AwaitFails(w)
  <2>. DEFINE m == workMsg[w]
  <2>1. /\ m \in Messages /\ OfferOf[m] = "pending"
        /\ OfferOf = [n \in Messages |-> IF n = m THEN "pending" ELSE "idle"]
    BY <1>0, <1>8, OneAwaits DEF AwaitFails
  <2>2. OfferOf' = [n \in Messages |-> "idle"]
    BY <1>0, <1>8, ReturnOffer DEF AwaitFails
  <2>3. UNCHANGED <<acked, handled, sent>>
    BY <1>8 DEF AwaitFails, history
  <2>4. OfferOf' = [OfferOf EXCEPT ![m] = "idle"]
    BY <2>1, <2>2, <2>3
  <2>5. Promise!Fail(m)
    BY <2>1, <2>3, <2>4 DEF Promise!Fail, Offered
  <2>. QED BY <2>1, <2>5 DEF Promise!Next
<1>. QED BY <1>3, <1>4, <1>5, <1>6, <1>7, <1>8 DEF Client

\* A step of a handler thread handles a message that was offered, or nothing.
LEMMA HandlerImplements ==
  ASSUME RefInv, NEW c \in Conns, Handler(c)
  PROVE  [Promise!Next]_Promise!vars
<1>1. UNCHANGED <<OfferOf, Offered, acked>>
  <2>1. UNCHANGED <<workPc, workMsg, sent>>
    BY DEF Handler, Accept, ReadLine, Process, Reply, HandlerEnds, routerVars, history
  <2>2. acked' = acked
    BY DEF Handler, Accept, ReadLine, Process, Reply, HandlerEnds, history
  <2>. QED BY <2>1, <2>2 DEF OfferOf, Offered, Awaits
<1>2. CASE Process(c)
  <2>1. job[c] \in Messages /\ job[c] \in Offered
    BY <1>2, NoMessageAssumption
    DEF Process, RefInv, LinkInv, Control, TypeOK, Jobs, Known, Offered
  <2>2. CASE handled' = handled
    BY <1>1, <2>2 DEF Promise!vars
  <2>3. CASE handled' = handled \cup {job[c]}
    BY <1>1, <2>1, <2>3 DEF Promise!Next, Promise!Handle
  <2>. QED BY <1>2, <2>2, <2>3 DEF Process
<1>3. CASE ~Process(c)
  BY <1>1, <1>3 DEF Handler, Accept, ReadLine, Reply, HandlerEnds, history, Promise!vars
<1>. QED BY <1>2, <1>3

\* A restart of the router fails the offer that is pending, if one is.
LEMMA ProcessesImplement ==
  ASSUME RefInv, Processes
  PROVE  [Promise!Next]_Promise!vars
<1>. USE NoWorkerAssumption, NoMessageAssumption
<1>0. Control /\ UNCHANGED <<acked, handled, sent>> /\ Offered' = Offered
  BY DEF RefInv, LinkInv, Processes, BeginDisconnectAll, DisconnectAll, RouterRestarts,
         EndpointStops, ParserDies, ParserStarts, history, Offered
<1>1. CASE ~RouterRestarts
  <2>1. UNCHANGED <<workPc, workMsg>>
    BY <1>1 DEF Processes, BeginDisconnectAll, DisconnectAll, EndpointStops, ParserDies,
                ParserStarts, routerVars
  <2>2. OfferOf' = OfferOf
    BY <1>0, <2>1 DEF OfferOf, Awaits
  <2>. QED BY <1>0, <2>2 DEF Promise!vars
<1>2. CASE RouterRestarts
  <2>1. OfferOf' = [n \in Messages |-> "idle"]
    BY <1>0, <1>2 DEF RouterRestarts, OfferOf, Awaits
  <2>2. CASE \E w \in Workers : workPc[w] = "await"
    <3>1. PICK w \in Workers : workPc[w] = "await"
      BY <2>2
    <3>2. /\ workMsg[w] \in Messages /\ OfferOf[workMsg[w]] = "pending"
          /\ OfferOf = [n \in Messages |-> IF n = workMsg[w] THEN "pending" ELSE "idle"]
      BY <1>0, <3>1, OneAwaits
    <3>3. OfferOf' = [OfferOf EXCEPT ![workMsg[w]] = "idle"]
      BY <2>1, <3>2
    <3>. QED BY <1>0, <3>2, <3>3 DEF Promise!Next, Promise!Fail
  <2>3. CASE \A w \in Workers : workPc[w] # "await"
    <3>1. OfferOf' = OfferOf
      BY <2>1, <2>3, OfferOfNobody DEF Awaits
    <3>. QED BY <1>0, <3>1 DEF Promise!vars
  <2>. QED BY <2>2, <2>3
<1>. QED BY <1>1, <1>2

\* The link implements the safety part of its promise: whatever times out,
\* is cut or restarted, what is reported as acknowledged has been handled.
THEOREM LinkKeepsPromise == Spec => Promise!Init /\ [][Promise!Next]_Promise!vars
<1>1. Init => RefInv /\ Promise!Init
  <2>. SUFFICES ASSUME Init PROVE RefInv /\ Promise!Init
    OBVIOUS
  <2>1. Known
    BY DEF Init, Known
  <2>2. OfferOf = [m \in Messages |-> "idle"] /\ Offered = {}
    BY DEF Init, OfferOf, Offered, Awaits
  <2>. QED BY <2>1, <2>2, LinkInit DEF RefInv, Promise!Init, Init
<1>2. RefInv /\ [Next]_vars => RefInv'
  BY LinkStep, KnownStep DEF RefInv, LinkInv
<1>3. RefInv /\ [Next]_vars => [Promise!Next]_Promise!vars
  <2>. SUFFICES ASSUME RefInv, [Next]_vars PROVE [Promise!Next]_Promise!vars
    OBVIOUS
  <2>1. CASE UNCHANGED vars
    <3>1. UNCHANGED <<OfferOf, Offered, acked, handled>>
      BY <2>1 DEF vars, routerVars, history, OfferOf, Offered, Awaits
    <3>. QED BY <3>1 DEF Promise!vars
  <2>. QED BY <2>1, ClientImplements, HandlerImplements, ProcessesImplement DEF Next
<1>. QED BY <1>1, <1>2, <1>3, PTL DEF Spec

-----------------------------------------------------------------------------
(* Work: every line that waits to be read stands for a transmission of its *)
(* message that the parser has not begun to work on.                       *)

Waiting(m) == {c \in Conns : requests[c] = <<m>>}

\* A client sends only on a connection that is quiet, so that no connection
\* ever holds two lines, not even one the client has left.
OneLine == \A c \in Conns : requests[c] = << >> \/ \E m \in Messages : requests[c] = <<m>>

Counted ==
    \A m \in Messages :
        IsFiniteSet(Waiting(m)) /\ begun[m] + Cardinality(Waiting(m)) <= sent[m]

WorkInv == LinkInv /\ OneLine /\ Counted

\* A transmission waits to be read, or goes nowhere.
LEMMA SendCounted ==
  ASSUME WorkInv, NEW w \in Workers, Send(w)
  PROVE  OneLine' /\ Counted'
<1>. USE NoWorkerAssumption, NoMessageAssumption, NoConnAssumption
<1>1. Control /\ sock \in Conns /\ lock = w /\ workMsg[w] \in Messages
  BY DEF WorkInv, LinkInv, Send, Control, TypeOK, Sockets, Holders, Carriers, Inside
<1>0. PICK m \in Messages : m = workMsg[w]
  BY <1>1
<1>2. Quiet(sock)
  BY <1>1 DEF WorkInv, LinkInv, Send, Exchange, Control, Holders, Inside
<1>3. /\ sent' = [sent EXCEPT ![m] = @ + 1] /\ begun' = begun
      /\ requests' = IF peer[sock] = "closed" THEN requests ELSE [requests EXCEPT ![sock] = Append(@, m)]
  BY <1>0 DEF Send
<1>4. sent \in [Messages -> Nat] /\ begun \in [Messages -> Nat] /\ requests \in [Conns -> Seq(Messages)]
  BY <1>1 DEF Control, TypeOK
<1>5. \A n \in Messages : sent'[n] = IF n = m THEN sent[n] + 1 ELSE sent[n]
  BY <1>1, <1>3, <1>4
<1>6. CASE peer[sock] = "closed"
  <2>1. requests' = requests
    BY <1>3, <1>6
  <2>2. ASSUME NEW n \in Messages
        PROVE  IsFiniteSet(Waiting(n)) /\ begun[n] + Cardinality(Waiting(n)) <= sent'[n]
    <3>1. IsFiniteSet(Waiting(n)) /\ begun[n] + Cardinality(Waiting(n)) <= sent[n]
      BY DEF WorkInv, Counted
    <3>2. Cardinality(Waiting(n)) \in Nat /\ sent[n] \in Nat /\ begun[n] \in Nat
      BY <1>4, <3>1, FS_CardinalityType
    <3>. QED BY <1>5, <3>1, <3>2
  <2>3. \A n \in Messages : Waiting(n)' = Waiting(n)
    BY <2>1 DEF Waiting
  <2>. QED BY <1>3, <2>1, <2>2, <2>3 DEF WorkInv, OneLine, Counted
<1>7. CASE peer[sock] # "closed"
  <2>1. /\ requests'[sock] = <<m>> /\ requests[sock] = << >>
        /\ \A c \in Conns \ {sock} : requests'[c] = requests[c]
    BY <1>1, <1>2, <1>3, <1>4, <1>7 DEF Quiet
  <2>2. OneLine'
    BY <1>1, <2>1 DEF WorkInv, OneLine
  <2>3. ASSUME NEW n \in Messages, n # m
        PROVE  IsFiniteSet(Waiting(n)') /\ begun'[n] + Cardinality(Waiting(n)') <= sent'[n]
    <3>1. Waiting(n)' = Waiting(n)
      BY <1>1, <2>1, <2>3 DEF Waiting
    <3>. QED BY <1>3, <1>5, <2>3, <3>1 DEF WorkInv, Counted
  <2>4. IsFiniteSet(Waiting(m)') /\ begun'[m] + Cardinality(Waiting(m)') <= sent'[m]
    <3>1. Waiting(m)' = Waiting(m) \cup {sock} /\ sock \notin Waiting(m)
      BY <1>1, <2>1 DEF Waiting
    <3>2. IsFiniteSet(Waiting(m)) /\ begun[m] + Cardinality(Waiting(m)) <= sent[m]
      BY <1>1 DEF WorkInv, Counted
    <3>3. /\ IsFiniteSet(Waiting(m) \cup {sock})
          /\ Cardinality(Waiting(m) \cup {sock}) = Cardinality(Waiting(m)) + 1
      BY <3>1, <3>2, FS_AddElement
    <3>4. Cardinality(Waiting(m)) \in Nat /\ sent[m] \in Nat /\ begun[m] \in Nat
      BY <1>1, <1>4, <3>2, FS_CardinalityType
    <3>. QED BY <1>1, <1>3, <1>5, <3>1, <3>2, <3>3, <3>4
  <2>. QED BY <2>2, <2>3, <2>4 DEF Counted
<1>. QED BY <1>6, <1>7

\* A line is read once.
LEMMA ReadCounted ==
  ASSUME WorkInv, NEW c \in Conns, ReadLine(c)
  PROVE  OneLine' /\ Counted'
<1>1. PICK m \in Messages : requests[c] = <<m>>
  BY DEF WorkInv, OneLine, ReadLine
<1>2. sent \in [Messages -> Nat] /\ begun \in [Messages -> Nat] /\ requests \in [Conns -> Seq(Messages)]
  BY DEF WorkInv, LinkInv, Control, TypeOK
<1>3. Head(requests[c]) = m /\ Tail(requests[c]) = << >>
  BY <1>1
<1>4. /\ requests'[c] = << >> /\ \A d \in Conns \ {c} : requests'[d] = requests[d]
      /\ \A n \in Messages : begun'[n] = IF n = m THEN begun[n] + 1 ELSE begun[n]
      /\ sent' = sent
  BY <1>2, <1>3 DEF ReadLine
<1>5. OneLine'
  BY <1>4 DEF WorkInv, OneLine
<1>6. ASSUME NEW n \in Messages, n # m
      PROVE  IsFiniteSet(Waiting(n)') /\ begun'[n] + Cardinality(Waiting(n)') <= sent'[n]
  <2>1. Waiting(n)' = Waiting(n)
    <3>1. <<m>> # <<n>>
      BY <1>6
    <3>. QED BY <1>1, <1>4, <3>1 DEF Waiting
  <2>. QED BY <1>4, <1>6, <2>1 DEF WorkInv, Counted
<1>7. IsFiniteSet(Waiting(m)') /\ begun'[m] + Cardinality(Waiting(m)') <= sent'[m]
  <2>1. Waiting(m)' = Waiting(m) \ {c} /\ c \in Waiting(m)
    BY <1>1, <1>4 DEF Waiting
  <2>2. IsFiniteSet(Waiting(m)) /\ begun[m] + Cardinality(Waiting(m)) <= sent[m]
    BY DEF WorkInv, Counted
  <2>3. IsFiniteSet(Waiting(m) \ {c}) /\ Cardinality(Waiting(m) \ {c}) = Cardinality(Waiting(m)) - 1
    BY <2>1, <2>2, FS_RemoveElement
  <2>4. Cardinality(Waiting(m)) \in Nat /\ sent[m] \in Nat /\ begun[m] \in Nat
    BY <1>2, <2>2, FS_CardinalityType
  <2>. QED BY <1>4, <2>1, <2>2, <2>3, <2>4
<1>. QED BY <1>5, <1>6, <1>7 DEF Counted

\* The parser begins to work on a message at most once for each transmission
\* of it, whichever connections broke and whichever process was restarted.
\* (tcp_client.py:83-120, endpoint.py:84-112)
THEOREM RetriesBoundWork == Spec => []WorkIsBounded
<1>1. Init => WorkInv
  <2>. SUFFICES ASSUME Init PROVE WorkInv
    OBVIOUS
  <2>1. \A m \in Messages : Waiting(m) = {}
    BY DEF Init, Waiting
  <2>2. IsFiniteSet({}) /\ Cardinality({}) = 0
    BY FS_EmptySet
  <2>3. \A m \in Messages : begun[m] = 0 /\ sent[m] = 0 /\ 0 + 0 <= 0
    BY DEF Init
  <2>4. \A c \in Conns : requests[c] = << >>
    BY DEF Init
  <2>. QED BY <2>1, <2>2, <2>3, <2>4, LinkInit DEF WorkInv, OneLine, Counted
<1>2. WorkInv /\ [Next]_vars => WorkInv'
  <2>. SUFFICES ASSUME WorkInv, [Next]_vars PROVE OneLine' /\ Counted'
    BY LinkStep DEF WorkInv
  <2>1. ASSUME UNCHANGED <<requests, begun, sent>> PROVE OneLine' /\ Counted'
    BY <2>1 DEF WorkInv, OneLine, Counted, Waiting
  <2>2. ASSUME NEW w \in Workers, Client(w), ~Send(w) PROVE OneLine' /\ Counted'
    BY <2>1, <2>2 DEF Client, Take, EnterClient, Connect, ConnectFails, SendFails,
                      ReceiveAnswer, AwaitFails, parserVars, wireVars, history
  <2>3. ASSUME NEW c \in Conns, Handler(c), ~ReadLine(c) PROVE OneLine' /\ Counted'
    BY <2>1, <2>3 DEF Handler, Accept, Process, Reply, HandlerEnds, wireVars, history
  <2>4. CASE Processes
    BY <2>1, <2>4 DEF Processes, BeginDisconnectAll, DisconnectAll, RouterRestarts, EndpointStops,
                      ParserDies, ParserStarts, wireVars, history
  <2>5. CASE UNCHANGED vars
    BY <2>1, <2>5 DEF vars, wireVars, history
  <2>. QED BY <2>2, <2>3, <2>4, <2>5, SendCounted, ReadCounted DEF Next
<1>3. WorkInv => WorkIsBounded
  <2>. SUFFICES ASSUME WorkInv, NEW m \in Messages PROVE begun[m] <= sent[m]
    BY DEF WorkIsBounded
  <2>1. IsFiniteSet(Waiting(m)) /\ begun[m] + Cardinality(Waiting(m)) <= sent[m]
    BY DEF WorkInv, Counted
  <2>2. Cardinality(Waiting(m)) \in Nat /\ sent[m] \in Nat /\ begun[m] \in Nat
    BY <2>1, FS_CardinalityType DEF WorkInv, LinkInv, Control, TypeOK
  <2>. QED BY <2>1, <2>2
<1>. QED BY <1>1, <1>2, <1>3, PTL DEF Spec

=============================================================================
