-------------------------- MODULE ConnectionProofs --------------------------
(***************************************************************************)
(* Theorems about the module Connection, for any number of clients,        *)
(* acceptors and faults: client and server agree on who has a session, the *)
(* credentials arrive as they were given, and the two sides are those that *)
(* the modules Client and Server describe.                                 *)
(***************************************************************************)
EXTENDS Connection, AuthenticationProofs

(* Why the client's handshake may fail though its own timeout did not run:    *)
(* the connection broke, the server let it go, or its response was refused.   *)
Excused(a) == a \in lost \/ ServerLeft(a) \/ (a \in replied /\ request[a] # a)

(* What the client side of attempt a knows of itself.                         *)
ClientPart(a) ==
    /\ stage[a] # "over" => answers[a] = <<>>
    /\ result[a] # "waiting" => stage[a] \in {"resolve", "connect", "upgrade"}
    /\ a \in cancelled \/ result[a] = "aborted" => a \in timedOut
    /\ a \in sent => stage[a] \in {"upgrade", "over"}
    /\ stage[a] = "upgrade" => a \in sent

(* The server handles requests that were sent, and answers those it let in;   *)
(* it lets go of one again only when it has lost its client.                  *)
ServerPart(a) ==
    /\ served[a] \in {"read", "upgrading", "session"} => a \in sent
    /\ a \in replied => served[a] \in {"upgrading", "session", "gone"}
    /\ a \in replied /\ request[a] = a => a \in Trusted
    /\ a \in replied /\ request[a] = a /\ served[a] = "gone" =>
           \/ a \in lost
           \/ stage[a] = "over" /\ answers[a] # <<"session">>
           \/ a[1] \notin alive /\ stage[a] # "over"

(* What the outcome of the client's handshake says about the server.          *)
HandshakePart(a) ==
    /\ (stage[a] = "upgrade" /\ result[a] = "ok") \/ answers[a] = <<"session">> =>
           a \in replied /\ request[a] \in {a, Garbled}
    /\ stage[a] = "upgrade" /\ result[a] = "failed" => Excused(a)
    /\ stage[a] = "over" /\ answers[a] # <<"session">> =>
           Excused(a) \/ a \in timedOut \/ a \notin sent

Types ==
    /\ stage \in [Attempts -> {"none", "resolve", "connect", "upgrade", "over"}]
    /\ result \in [Attempts -> {"waiting", "ok", "failed", "aborted"}]
    /\ answers \in [Attempts -> Seq(C!Answers)]
    /\ served \in [Attempts -> S!Stages]
    /\ request \in [Attempts -> Attempts \cup {Garbled, None}]

Good(a) == ClientPart(a) /\ ServerPart(a) /\ HandshakePart(a)

IInv == Types /\ \A a \in Attempts : Good(a)

(* An attempt has one client, and a client one attempt.                       *)
LEMMA OnlyAttempt ==
    ASSUME NEW a \in Attempts
    PROVE  C!Of(a[1]) = {a} /\ a[1] \in Clients /\ a \notin {Empty, Garbled, None}
  <1>1. Attempts = Clients \X (1 .. 1)
    BY DEF Attempts, C!Attempts
  <1>2. \A b \in Attempts : b = <<b[1], b[2]>> /\ b[1] \in Clients /\ b[2] = 1
    BY <1>1
  <1>3. \A b \in Attempts : b[1] = a[1] => b = a
    BY <1>2
  <1> QED
    BY <1>2, <1>3, ConnectionAssumption DEF C!Of, Attempts

(* What an attempt sees of a step that is not its own: its client or the      *)
(* server may be destroyed, the network break, time pass.                     *)
Untouched(a) ==
    /\ stage'[a] = stage[a]
    /\ result'[a] = result[a]
    /\ answers'[a] = answers[a]
    /\ served'[a] = served[a]
    /\ request'[a] = request[a]
    /\ a \in sent' <=> a \in sent
    /\ a \in replied' <=> a \in replied
    /\ a \in lost => a \in lost'
    /\ a \in cancelled' => a \in cancelled
    /\ a \in timedOut => a \in timedOut'
    /\ a[1] \in alive' => a[1] \in alive
    /\ serverAlive' => serverAlive

LEMMA UntouchedIsGood ==
    ASSUME NEW a \in Attempts, Good(a), Untouched(a)
    PROVE  Good(a)'
  <1>1. ClientPart(a)'
    BY DEF Good, ClientPart, Untouched
  <1>2. ServerPart(a)'
    BY DEF Good, ServerPart, Untouched, Trusted, Seen
  <1>3. Excused(a) => Excused(a)'
    BY DEF Excused, ServerLeft, Untouched
  <1>4. HandshakePart(a)'
    BY <1>3 DEF Good, HandshakePart, Untouched
  <1> QED
    BY <1>1, <1>2, <1>4 DEF Good

(* The client takes attempt a to its next operation.                          *)
LEMMA Starting ==
    ASSUME Types, NEW a \in Attempts, C!Start(a, "resolve") \/ C!Start(a, "connect") \/ C!Start(a, "upgrade") \/ C!Start(a, "over")
    PROVE  /\ stage' \in [Attempts -> {"none", "resolve", "connect", "upgrade", "over"}]
           /\ result' \in [Attempts -> {"waiting", "ok", "failed", "aborted"}]
           /\ result'[a] = "waiting"
           /\ a \notin cancelled'
           /\ \A b \in Attempts \ {a} :
                  stage'[b] = stage[b] /\ result'[b] = result[b] /\ (b \in cancelled' <=> b \in cancelled)
           /\ \A op : C!Start(a, op) => stage'[a] = op
  BY DEF Types, C!Start

LEMMA Answering ==
    ASSUME Types, NEW a \in Attempts, answers[a] = <<>>, NEW callback \in C!Answers, C!Answer(a, callback)
    PROVE  /\ answers' \in [Attempts -> Seq(C!Answers)]
           /\ answers'[a] = <<callback>>
           /\ \A b \in Attempts \ {a} : answers'[b] = answers[b]
  <1>1. answers' = [answers EXCEPT ![a] = Append(answers[a], callback)]
    BY DEF C!Answer
  <1>2. Append(answers[a], callback) = <<callback>>
    OBVIOUS
  <1>3. <<callback>> \in Seq(C!Answers)
    OBVIOUS
  <1> QED
    BY <1>1, <1>2, <1>3 DEF Types

LEMMA OtherAnswer ==
    <<>> # <<"session">> /\ \A x \in C!Answers \ {"session"} : <<x>> # <<"session">>
  BY DEF C!Answers

(* A step of attempt a, or of everybody's.                                    *)
LEMMA OneStep ==
    ASSUME IInv, NEW a \in Attempts, Types', Good(a)', \A b \in Attempts \ {a} : Untouched(b)
    PROVE  IInv'
  BY UntouchedIsGood DEF IInv

LEMMA NoStep ==
    ASSUME IInv, UNCHANGED <<stage, result, answers, served, request>>, \A b \in Attempts : Untouched(b)
    PROVE  IInv'
  BY UntouchedIsGood DEF IInv, Types

(* The client starts an attempt.                                              *)
LEMMA ConnectIsGood ==
    ASSUME IInv, NEW a \in Attempts, Connect(a)
    PROVE  IInv'
  <1>1. /\ UNCHANGED <<server, network, alive, answers, timedOut>>
        /\ stage[a] = "none"
        /\ C!Start(a, "resolve")
    BY DEF Connect, C!Connect
  <1>2. Types'
    BY <1>1, Starting DEF IInv, Types, server
  <1>3. Good(a)'
    <2>1. /\ stage'[a] = "resolve" /\ result'[a] = "waiting" /\ a \notin cancelled'
          /\ answers'[a] = <<>> /\ a \notin sent /\ Good(a)
      BY <1>1, Starting DEF IInv, Good, ClientPart
    <2>2. UNCHANGED <<served, request, sent, replied, lost, serverAlive, alive, answers>>
      BY <1>1 DEF server, network
    <2>3. answers[a] # <<"session">>
      BY <2>1, <2>2, OtherAnswer
    <2> QED
      BY <1>1, <2>1, <2>2, <2>3 DEF Good, ClientPart, ServerPart, HandshakePart, Trusted, Seen
  <1>4. \A b \in Attempts \ {a} : Untouched(b)
    BY <1>1, Starting DEF IInv, Untouched, server, network
  <1> QED
    BY <1>2, <1>3, <1>4, OneStep

(* An operation of the client ends, as the server's side has it.              *)
LEMMA EndIsGood ==
    ASSUME IInv, NEW a \in Attempts, ClientSide(a)
    PROVE  IInv'
  <1>1. PICK how \in {"ok", "failed", "aborted"} : Outcome(a, how) /\ C!OperationEnds(a, how)
    BY DEF ClientSide, OperationEnds
  <1>2. /\ UNCHANGED <<server, network, alive, stage, cancelled, answers, timedOut>>
        /\ stage[a] \in {"resolve", "connect", "upgrade"}
        /\ how = "aborted" => a \in cancelled
        /\ result' = [result EXCEPT ![a] = how]
    BY <1>1 DEF ClientSide, C!OperationEnds, C!InProgress, C!timeout
  <1>3. Types'
    BY <1>2 DEF IInv, Types, server
  <1>4. result'[a] = how /\ \A b \in Attempts \ {a} : result'[b] = result[b]
    BY <1>2 DEF IInv, Types
  <1>5. UNCHANGED <<served, request, sent, replied, lost, serverAlive>>
    BY <1>2 DEF server, network
  <1>6. /\ stage[a] = "upgrade" /\ how = "ok" => a \in replied /\ request[a] \in {a, Garbled}
        /\ stage[a] = "upgrade" /\ how = "failed" => Excused(a)
    BY <1>1 DEF Outcome, Excused
  <1>7. Excused(a)' <=> Excused(a)
    BY <1>5 DEF Excused, ServerLeft
  <1>8. Good(a)'
    <2>1. ClientPart(a)'
      BY <1>2, <1>4, <1>5 DEF IInv, Good, ClientPart
    <2>2. ServerPart(a)'
      BY <1>2, <1>5 DEF IInv, Good, ServerPart, Trusted, Seen
    <2>3. HandshakePart(a)'
      BY <1>2, <1>4, <1>5, <1>6, <1>7 DEF IInv, Good, HandshakePart
    <2> QED
      BY <2>1, <2>2, <2>3 DEF Good
  <1>9. \A b \in Attempts \ {a} : Untouched(b)
    BY <1>2, <1>4, <1>5 DEF Untouched
  <1> QED
    BY <1>3, <1>8, <1>9, OneStep

(* A timeout handler cancels what its own attempt has under way, of all       *)
(* attempts.                                                                  *)
LEMMA TimeoutIsGood ==
    ASSUME IInv, NEW a \in Attempts, ClientHandler(a), C!OnConnectionTimeout(a)
    PROVE  IInv'
  <1>1. UNCHANGED <<serverAlive, served, request, replied, lost, alive, stage, result, answers>>
    BY DEF ClientHandler, server, C!OnConnectionTimeout
  <1>2. sent' = sent
    <2>1. stage[a] = "upgrade" => a \in sent
      BY DEF IInv, Good, ClientPart
    <2> QED
      BY <1>1, <2>1 DEF ClientHandler
  <1>3. \A b \in cancelled' \ cancelled : b = a /\ C!InProgress(a)
    BY OnlyAttempt DEF C!OnConnectionTimeout, Attempts
  <1>4. timedOut' = timedOut \cup {b \in {a} : C!InProgress(b)}
    BY DEF C!OnConnectionTimeout
  <1>5. Good(a)'
    <2>1. ClientPart(a)'
      BY <1>1, <1>2, <1>3, <1>4 DEF IInv, Good, ClientPart
    <2>2. ServerPart(a)'
      BY <1>1, <1>2 DEF IInv, Good, ServerPart, Trusted, Seen
    <2>3. HandshakePart(a)'
      BY <1>1, <1>2, <1>4 DEF IInv, Good, HandshakePart, Excused, ServerLeft
    <2> QED
      BY <2>1, <2>2, <2>3 DEF Good
  <1>6. \A b \in Attempts \ {a} : Untouched(b)
    BY <1>1, <1>2, <1>3, <1>4 DEF Untouched
  <1>7. Types'
    BY <1>1 DEF IInv, Types
  <1> QED
    BY <1>5, <1>6, <1>7, OneStep

(* A handler that starts the next stage; the request is sent with the last.   *)
LEMMA NextStageIsGood ==
    ASSUME IInv, NEW a \in Attempts, ClientHandler(a), NEW op \in {"connect", "upgrade"}, C!Start(a, op),
           stage[a] \in {"resolve", "connect"}, UNCHANGED <<alive, answers, timedOut>>, a[1] \in alive
    PROVE  IInv'
  <1>1. /\ stage'[a] = op /\ result'[a] = "waiting" /\ a \notin cancelled'
        /\ stage' \in [Attempts -> {"none", "resolve", "connect", "upgrade", "over"}]
        /\ result' \in [Attempts -> {"waiting", "ok", "failed", "aborted"}]
        /\ \A b \in Attempts \ {a} :
               stage'[b] = stage[b] /\ result'[b] = result[b] /\ (b \in cancelled' <=> b \in cancelled)
    BY Starting DEF IInv
  <1>2. UNCHANGED <<serverAlive, served, request, replied, lost>>
    BY DEF ClientHandler, server
  <1>3. sent' = sent \cup {b \in {a} : op = "upgrade"}
    BY <1>1 DEF ClientHandler
  <1>4. Types'
    BY <1>1, <1>2 DEF IInv, Types
  <1>5. answers'[a] = <<>> /\ answers[a] # <<"session">>
    BY OtherAnswer DEF IInv, Good, ClientPart
  <1>6. Good(a)'
    <2>1. ClientPart(a)'
      BY <1>1, <1>3, <1>5 DEF IInv, Good, ClientPart
    <2>2. ServerPart(a)'
      BY <1>1, <1>2, <1>3 DEF IInv, Good, ServerPart, Trusted, Seen
    <2>3. HandshakePart(a)'
      BY <1>1, <1>5 DEF HandshakePart
    <2> QED
      BY <2>1, <2>2, <2>3 DEF Good
  <1>7. \A b \in Attempts \ {a} : Untouched(b)
    BY <1>1, <1>2, <1>3 DEF Untouched
  <1> QED
    BY <1>4, <1>6, <1>7, OneStep

(* A handler that ends an attempt: with a session only on the server's        *)
(* response, and without one not without a reason.                            *)
LEMMA LastStageIsGood ==
    ASSUME IInv, NEW a \in Attempts, ClientHandler(a), C!Start(a, "over"),
           stage[a] \in {"resolve", "connect", "upgrade"}, UNCHANGED <<alive, timedOut>>, a[1] \in alive,
           NEW end \in C!Answers \cup {"none"},
           IF end = "none" THEN UNCHANGED answers ELSE C!Answer(a, end),
           end = "session" => a \in replied /\ request[a] \in {a, Garbled},
           end # "session" => Excused(a) \/ a \in timedOut \/ a \notin sent
    PROVE  IInv'
  <1>1. /\ stage'[a] = "over" /\ result'[a] = "waiting" /\ a \notin cancelled'
        /\ stage' \in [Attempts -> {"none", "resolve", "connect", "upgrade", "over"}]
        /\ result' \in [Attempts -> {"waiting", "ok", "failed", "aborted"}]
        /\ \A b \in Attempts \ {a} :
               stage'[b] = stage[b] /\ result'[b] = result[b] /\ (b \in cancelled' <=> b \in cancelled)
    BY Starting DEF IInv
  <1>2. UNCHANGED <<serverAlive, served, request, replied, lost>>
    BY DEF ClientHandler, server
  <1>3. sent' = sent
    BY <1>1 DEF ClientHandler
  <1>4. answers[a] = <<>>
    BY DEF IInv, Good, ClientPart
  <1>5. /\ answers' \in [Attempts -> Seq(C!Answers)]
        /\ answers'[a] = <<"session">> <=> end = "session"
        /\ \A b \in Attempts \ {a} : answers'[b] = answers[b]
    <2>1. CASE end = "none"
      BY <1>4, <2>1, OtherAnswer DEF IInv, Types
    <2>2. CASE end \in C!Answers
      <3>1. end # "none"
        BY <2>2 DEF C!Answers
      <3>2. answers' \in [Attempts -> Seq(C!Answers)] /\ answers'[a] = <<end>>
            /\ \A b \in Attempts \ {a} : answers'[b] = answers[b]
        BY <1>4, <2>2, <3>1, Answering DEF IInv
      <3> QED
        BY <2>2, <3>2, OtherAnswer
    <2> QED
      BY <2>1, <2>2
  <1>6. Types'
    BY <1>1, <1>2, <1>5 DEF IInv, Types
  <1>7. Good(a)'
    <2>1. ClientPart(a)'
      BY <1>1, <1>3 DEF IInv, Good, ClientPart
    <2>2. ServerPart(a)'
      BY <1>1, <1>2, <1>3 DEF IInv, Good, ServerPart, Trusted, Seen
    <2>3. HandshakePart(a)'
      BY <1>1, <1>2, <1>3, <1>5 DEF HandshakePart, Excused, ServerLeft
    <2> QED
      BY <2>1, <2>2, <2>3 DEF Good
  <1>8. \A b \in Attempts \ {a} : Untouched(b)
    BY <1>1, <1>2, <1>3, <1>5 DEF Untouched
  <1> QED
    BY <1>6, <1>7, <1>8, OneStep

LEMMA HandlerIsGood ==
    ASSUME IInv, NEW a \in Attempts, ClientHandler(a)
    PROVE  IInv'
  <1>1. CASE C!OnResolve(a) /\ result[a] = "ok"
    BY <1>1, NextStageIsGood DEF C!OnResolve, C!HandlerRuns
  <1>2. CASE C!OnConnect(a) /\ result[a] = "ok"
    BY <1>2, NextStageIsGood DEF C!OnConnect, C!HandlerRuns, C!AsyncHandshake
  <1>3. CASE C!OnResolve(a) /\ result[a] # "ok"
    <2>1. a \notin sent
      BY <1>3 DEF IInv, Good, ClientPart, C!OnResolve, C!HandlerRuns
    <2> QED
      BY <1>3, <2>1, LastStageIsGood DEF C!OnResolve, C!HandlerRuns, C!GiveUp, C!Answers
  <1>4. CASE C!OnConnect(a) /\ result[a] # "ok"
    <2>1. a \notin sent
      BY <1>4 DEF IInv, Good, ClientPart, C!OnConnect, C!HandlerRuns
    <2> QED
      BY <1>4, <2>1, LastStageIsGood DEF C!OnConnect, C!HandlerRuns, C!GiveUp, C!Answers
  <1>5. CASE C!OnUpgradeFails(a)
    <2>1. /\ stage[a] = "upgrade" /\ a[1] \in alive /\ result[a] \notin {"waiting", "ok"}
          /\ C!Start(a, "over") /\ UNCHANGED <<alive, timedOut>>
          /\ C!Answer(a, IF result[a] = "aborted" THEN "onConnectFail" ELSE "onHandshakeFail")
      BY <1>5 DEF C!OnUpgradeFails, C!HandlerRuns, C!GiveUp
    <2>2. Excused(a) \/ a \in timedOut
      BY <2>1 DEF IInv, Types, Good, ClientPart, HandshakePart
    <2>3. CASE result[a] = "aborted"
      BY <2>1, <2>2, <2>3, LastStageIsGood DEF C!Answers
    <2>4. CASE result[a] # "aborted"
      BY <2>1, <2>2, <2>4, LastStageIsGood DEF C!Answers
    <2> QED
      BY <2>3, <2>4
  <1>6. CASE C!CreateSession(a)
    <2>1. a \in replied /\ request[a] \in {a, Garbled}
      BY <1>6 DEF IInv, Good, HandshakePart, C!CreateSession, C!HandlerRuns
    <2> QED
      BY <1>6, <2>1, LastStageIsGood DEF C!CreateSession, C!HandlerRuns, C!Answers
  <1>7. CASE C!EndpointIsGone(a) /\ (a \in lost \/ ServerLeft(a))
    <2>1. "none" \in C!Answers \cup {"none"} /\ Excused(a)
      BY <1>7 DEF Excused
    <2> QED
      BY <1>7, <2>1, LastStageIsGood DEF C!EndpointIsGone, C!HandlerRuns
  <1> QED
    BY <1>1, <1>2, <1>3, <1>4, <1>5, <1>6, <1>7, TimeoutIsGood DEF ClientHandler
-----------------------------------------------------------------------------
(* A connection on its way to the header handler: no response was sent on it, *)
(* nor is one before the request came.                                        *)
OnItsWay == {"none", "backlog", "accepted", "reading", "partRead"}

LEMMA EarlyIsGood ==
    ASSUME Types, NEW a \in Attempts, Good(a),
           served[a] \in OnItsWay, served'[a] \in OnItsWay \cup {"read", "gone"},
           served'[a] = "read" => a \in sent,
           UNCHANGED <<client, network, request>>, serverAlive' => serverAlive
    PROVE  Good(a)'
  <1>1. UNCHANGED <<alive, stage, result, cancelled, answers, timedOut, sent, replied, lost>>
    BY DEF client, network
  <1>2. a \notin replied
    BY DEF Good, ServerPart, OnItsWay
  <1>3. ClientPart(a)'
    BY <1>1 DEF Good, ClientPart
  <1>4. ServerPart(a)'
    BY <1>1, <1>2 DEF Good, ServerPart, OnItsWay
  <1>5. Excused(a) => Excused(a)'
    BY <1>1, <1>2 DEF Excused, ServerLeft, OnItsWay
  <1>6. HandshakePart(a)'
    BY <1>1, <1>2, <1>5 DEF Good, HandshakePart
  <1> QED
    BY <1>3, <1>4, <1>6 DEF Good

(* The server moves connection a on before its header handler runs.           *)
LEMMA MoveIsGood ==
    ASSUME IInv, NEW a \in Attempts, NEW place \in {"backlog", "accepted", "reading", "read", "partRead", "gone"},
           S!MoveTo(a, place), served[a] \in OnItsWay, place = "read" => a \in sent,
           UNCHANGED <<client, network, request, serverAlive>>
    PROVE  IInv'
  <1>1. served' = [served EXCEPT ![a] = place]
    BY DEF S!MoveTo
  <1>2. Types'
    BY <1>1 DEF IInv, Types, S!Stages, client
  <1>3. served'[a] = place /\ \A b \in Attempts \ {a} : served'[b] = served[b]
    BY <1>1 DEF IInv, Types
  <1>4. Good(a)'
    BY <1>3, EarlyIsGood DEF IInv, OnItsWay
  <1>5. \A b \in Attempts \ {a} : Untouched(b)
    BY <1>3 DEF Untouched, client, network
  <1> QED
    BY <1>2, <1>4, <1>5, OneStep

LEMMA ArrivalIsGood ==
    ASSUME IInv, NEW a \in Attempts,
           \/ \E x \in Acceptors : Dial(a, x)
           \/ ServerAccepts(a)
           \/ ServerReads(a)
    PROVE  IInv'
  <1>1. CASE \E x \in Acceptors : Dial(a, x)
    BY <1>1, MoveIsGood DEF Dial, S!Dial, S!header, OnItsWay
  <1>2. CASE ServerAccepts(a)
    <2>1. CASE S!AcceptCompletes(a)
      BY <1>2, <2>1, MoveIsGood DEF ServerAccepts, S!AcceptCompletes, S!header, OnItsWay
    <2>2. CASE S!OnAcceptTcpConnection(a)
      BY <1>2, <2>2, MoveIsGood DEF ServerAccepts, S!OnAcceptTcpConnection, OnItsWay
    <2> QED
      BY <1>2, <2>1, <2>2 DEF ServerAccepts
  <1>3. CASE ServerReads(a)
    <2>1. CASE a \in sent /\ S!Receive(a)
      BY <1>3, <2>1, MoveIsGood DEF ServerReads, S!Receive, OnItsWay
    <2>2. CASE S!ReceivePart(a)
      BY <1>3, <2>2, MoveIsGood DEF ServerReads, S!ReceivePart, OnItsWay
    <2> QED
      BY <1>3, <2>1, <2>2 DEF ServerReads
  <1> QED
    BY <1>1, <1>2, <1>3

(* Closing the acceptors drops the connections that were not accepted.        *)
LEMMA CloseIsGood ==
    ASSUME IInv, StopServer \/ DestroyServer
    PROVE  IInv'
  <1>1. /\ UNCHANGED <<client, network, request>>
        /\ serverAlive' => serverAlive
        /\ served' = [a \in Attempts |-> IF served[a] = "backlog" THEN "gone" ELSE served[a]]
    BY DEF StopServer, DestroyServer, S!Stop, S!Destroy, S!CloseAcceptors, S!header
  <1>2. Types'
    BY <1>1 DEF IInv, Types, S!Stages, client
  <1>3. ASSUME NEW a \in Attempts PROVE Good(a)'
    <2>1. CASE served[a] = "backlog"
      BY <1>1, <2>1, EarlyIsGood DEF IInv, OnItsWay
    <2>2. CASE served[a] # "backlog"
      BY <1>1, <2>2, UntouchedIsGood DEF IInv, Untouched, client, network
    <2> QED
      BY <2>1, <2>2
  <1> QED
    BY <1>2, <1>3 DEF IInv

(* onReadAcceptRequest: a connection that is let in, with its own request, is *)
(* one whose credentials are accepted.                                        *)
LEMMA AnswerIsGood ==
    ASSUME IInv, NEW a \in Attempts, ServerAnswers(a)
    PROVE  IInv'
  <1>1. /\ UNCHANGED <<client, sent, lost>>
        /\ serverAlive /\ serverAlive' = serverAlive
        /\ served[a] \in {"read", "partRead"}
        /\ replied' = replied \cup {b \in {a} : served'[b] = "upgrading"}
    BY DEF ServerAnswers, S!OnReadAcceptError, S!OnReadAcceptRequest
  <1>2. PICK place \in {"upgrading", "gone"} : served' = [served EXCEPT ![a] = place]
    BY DEF ServerAnswers, S!OnReadAcceptError, S!OnReadAcceptRequest, S!Authenticate, S!AsyncAccept, S!MoveTo
  <1>3. /\ \/ request' = request
           \/ \E r \in Attempts \cup {Garbled} : request' = [request EXCEPT ![a] = r]
        /\ place = "upgrading" =>
               /\ served[a] = "read"
               /\ \E r \in Trusted \cup {Garbled} : request' = [request EXCEPT ![a] = r]
    <2>1. CASE S!OnReadAcceptError(a)
      BY <1>1, <1>2, <2>1 DEF S!OnReadAcceptError, S!MoveTo, IInv, Types
    <2>2. ASSUME NEW r \in Attempts \cup {Garbled}, S!OnReadAcceptRequest(a, r)
          PROVE  /\ served[a] = "read"
                 /\ request' = [request EXCEPT ![a] = r]
                 /\ place = "upgrading" => r \in Trusted \cup {Garbled}
      BY <1>2, <2>2 DEF S!OnReadAcceptRequest, S!Authenticate, S!AsyncAccept, S!MoveTo, IInv, Types
    <2>3. Trusted \subseteq Attempts
      BY DEF Trusted
    <2> QED
      BY <2>1, <2>2 DEF ServerAnswers
  <1>4. served'[a] = place /\ \A b \in Attempts \ {a} : served'[b] = served[b] /\ request'[b] = request[b]
    BY <1>2, <1>3 DEF IInv, Types
  <1>5. Types'
    BY <1>1, <1>2, <1>3 DEF IInv, Types, S!Stages, client
  <1>6. UNCHANGED <<alive, stage, result, cancelled, answers, timedOut>>
    BY <1>1 DEF client
  <1>7. a \notin replied
    BY <1>1 DEF IInv, Good, ServerPart
  <1>8. Excused(a) => a \in lost \/ place = "gone"
    BY <1>1, <1>7 DEF Excused, ServerLeft
  <1>9. a \in lost \/ place = "gone" => Excused(a)'
    BY <1>1, <1>4 DEF Excused, ServerLeft
  <1>10. a \in replied' => served[a] = "read" /\ place = "upgrading" /\ request'[a] \in Trusted \cup {Garbled}
    BY <1>1, <1>3, <1>4, <1>7 DEF IInv, Types
  <1>11. Good(a)'
    <2>1. ClientPart(a)'
      BY <1>1, <1>6 DEF IInv, Good, ClientPart
    <2>2. ServerPart(a)'
      <3>1. a # Garbled
        BY OnlyAttempt
      <3>2. place = "upgrading" => a \in sent
        BY <1>3 DEF IInv, Good, ServerPart
      <3> QED
        BY <1>1, <1>4, <1>10, <3>1, <3>2 DEF ServerPart
    <2>3. HandshakePart(a)'
      BY <1>1, <1>6, <1>7, <1>8, <1>9 DEF IInv, Good, HandshakePart
    <2> QED
      BY <2>1, <2>2, <2>3 DEF Good
  <1>12. \A b \in Attempts \ {a} : Untouched(b)
    BY <1>1, <1>4, <1>6 DEF Untouched
  <1> QED
    BY <1>5, <1>11, <1>12, OneStep

(* The upgrade ends: with a session, or because the client has left.          *)
LEMMA UpgradeIsGood ==
    ASSUME IInv, NEW a \in Attempts, ServerUpgrades(a)
    PROVE  IInv'
  <1>1. /\ UNCHANGED <<client, network, request, serverAlive>>
        /\ serverAlive
        /\ served[a] = "upgrading"
    BY DEF ServerUpgrades, S!OnUpgradeConnection, S!header
  <1>2. PICK place \in {"session", "gone"} :
            /\ served' = [served EXCEPT ![a] = place]
            /\ place = "gone" => ClientLeft(a) \/ a \in lost \/ request[a] = Garbled
    BY DEF ServerUpgrades, S!OnUpgradeConnection, S!MoveTo
  <1>3. served'[a] = place /\ \A b \in Attempts \ {a} : served'[b] = served[b]
    BY <1>2 DEF IInv, Types
  <1>4. Types'
    BY <1>1, <1>2 DEF IInv, Types, S!Stages, client
  <1>5. UNCHANGED <<alive, stage, result, cancelled, answers, timedOut, sent, replied, lost>>
    BY <1>1 DEF client, network
  <1>6. Good(a)'
    <2>1. ClientPart(a)'
      BY <1>5 DEF IInv, Good, ClientPart
    <2>2. ServerPart(a)'
      <3>1. a # Garbled
        BY OnlyAttempt
      <3>2. ClientLeft(a) => (stage[a] = "over" /\ answers[a] # <<"session">>) \/ (a[1] \notin alive /\ stage[a] # "over")
        BY DEF ClientLeft, IInv, Good, ClientPart
      <3>3. a \in sent /\ (a \in replied /\ request[a] = a => a \in Trusted)
        BY <1>1 DEF IInv, Good, ServerPart
      <3> QED
        BY <1>1, <1>2, <1>3, <1>5, <3>1, <3>2, <3>3 DEF ServerPart, Trusted, Seen
    <2>3. Excused(a) => Excused(a)'
      BY <1>1, <1>5 DEF Excused, ServerLeft
    <2>4. HandshakePart(a)'
      BY <1>1, <1>5, <2>3 DEF IInv, Good, HandshakePart
    <2> QED
      BY <2>1, <2>2, <2>4 DEF Good
  <1>7. \A b \in Attempts \ {a} : Untouched(b)
    BY <1>1, <1>3, <1>5 DEF Untouched
  <1> QED
    BY <1>4, <1>6, <1>7, OneStep
-----------------------------------------------------------------------------
(* At first nothing has happened on any connection.                           *)
THEOREM InitIInv == Init => IInv
  <1> SUFFICES ASSUME Init PROVE IInv
    OBVIOUS
  <1>1. /\ stage = [a \in Attempts |-> "none"]
        /\ result = [a \in Attempts |-> "waiting"]
        /\ cancelled = {}
        /\ answers = [a \in Attempts |-> <<>>]
    BY DEF Init, C!Init, Attempts
  <1>2. /\ served = [a \in Attempts |-> "none"]
        /\ request = [a \in Attempts |-> None]
        /\ sent = {} /\ replied = {}
    BY DEF Init, S!Init
  <1>3. Types
    <2>1. <<>> \in Seq(C!Answers)
      OBVIOUS
    <2> QED
      BY <1>1, <1>2, <2>1 DEF Types, S!Stages
  <1>4. ASSUME NEW a \in Attempts PROVE Good(a)
    BY <1>1, <1>2, OtherAnswer DEF Good, ClientPart, ServerPart, HandshakePart
  <1> QED
    BY <1>3, <1>4 DEF IInv

THEOREM IInvPreserved == IInv /\ [Next]_vars => IInv'
  <1> SUFFICES ASSUME IInv, [Next]_vars PROVE IInv'
    OBVIOUS
  <1>1. ASSUME NEW a \in Attempts, TimerExpires(a) PROVE IInv'
    BY <1>1, NoStep DEF TimerExpires, C!TimerExpires, C!operation, server, network, Untouched
  <1>2. ASSUME NEW a \in Attempts, Lose(a) PROVE IInv'
    BY <1>2, NoStep DEF Lose, client, server, Untouched
  <1>3. ASSUME NEW c \in Clients, DestroyClient(c) PROVE IInv'
    BY <1>3, NoStep DEF DestroyClient, C!Destroy, C!operation, server, network, Untouched
  <1>4. CASE StartServer
    BY <1>4, NoStep DEF StartServer, S!StartServer, S!connections, S!header, client, network, Untouched
  <1>5. CASE UNCHANGED vars
    BY <1>5, NoStep DEF vars, client, server, network, Untouched
  <1>6. ASSUME Progress PROVE IInv'
    BY <1>1, <1>6, EndIsGood, HandlerIsGood, ArrivalIsGood, AnswerIsGood, UpgradeIsGood DEF Progress
  <1> QED
    BY <1>2, <1>3, <1>4, <1>5, <1>6, ConnectIsGood, ArrivalIsGood, CloseIsGood DEF Next

(* What Basic HTTP authentication asks for, and Authentication does not check.*)
NoColonInLogins ==
    \A c \in Clients : ~Contains(Login[c].username \o Login[c].password, Colon)

(* Then the server reads every login as it was given.                         *)
LEMMA LoginsAreRead ==
    ASSUME NoColonInLogins, NEW c \in Clients
    PROVE  Received(EncodedHeader(Login[c])) = Login[c]
  <1> DEFINE login == Login[c]
  <1>1. CASE login = Anonymous
    BY <1>1 DEF Anonymous, EncodedHeader, Received
  <1>2. CASE login \in [type : {"Basic"}, username : Seq(Byte), password : Seq(Byte)]
    <2>1. /\ login.username \in Seq(Byte) /\ login.password \in Seq(Byte)
          /\ login = Basic(login.username, login.password)
      BY <1>2 DEF Basic
    <2>2. ~Contains(login.username \o login.password, Colon)
      BY DEF NoColonInLogins
    <2> HIDE DEF login
    <2>3. Received(EncodedHeader(Basic(login.username, login.password)))
            = Basic(login.username, login.password)
      BY <2>1, <2>2, HeaderRoundTrip
    <2> QED
      BY <2>1, <2>3 DEF login
  <1> QED
    BY <1>1, <1>2, ConnectionAssumption DEF Authentications

(* A client has a session only if its own credentials, and not those of       *)
(* another whose request the shared buffer held (server.cpp:142), were        *)
(* accepted; and what the server takes for a session of its own request is    *)
(* one for the client, unless the network broke or the client's timeout ran.  *)
THEOREM Agreement ==
    ASSUME NoColonInLogins
    PROVE  Spec => []SessionsAgree
  <1>1. IInv => SessionsAgree
    <2> SUFFICES ASSUME IInv, NEW a \in Attempts
                 PROVE  /\ answers[a] = <<"session">> =>
                               \/ request[a] = Garbled
                               \/ /\ Login[a[1]] \in Accepted
                                  /\ served[a] \in {"upgrading", "session"} \/ a \in lost
                        /\ served[a] = "session" /\ request[a] = a /\ stage[a] = "over" =>
                               answers[a] = <<"session">> \/ a \in lost \cup timedOut
      BY DEF SessionsAgree
    <2>1. Good(a)
      BY DEF IInv
    <2>2. ASSUME answers[a] = <<"session">>, request[a] # Garbled
          PROVE  Login[a[1]] \in Accepted /\ (served[a] \in {"upgrading", "session"} \/ a \in lost)
      <3>1. a \in replied /\ request[a] = a /\ stage[a] = "over"
        BY <2>1, <2>2, OtherAnswer DEF Good, ClientPart, HandshakePart
      <3>2. a \in Trusted /\ (served[a] \in {"upgrading", "session"} \/ a \in lost)
        BY <2>1, <2>2, <3>1 DEF Good, ServerPart
      <3> QED
        BY <3>2, OnlyAttempt, LoginsAreRead DEF Trusted, Seen
    <2>3. ASSUME served[a] = "session", request[a] = a, stage[a] = "over"
          PROVE  answers[a] = <<"session">> \/ a \in lost \cup timedOut
      BY <2>1, <2>3 DEF Good, ServerPart, HandshakePart, Excused, ServerLeft
    <2> QED
      BY <2>2, <2>3
  <1> QED
    BY <1>1, InitIInv, IInvPreserved, PTL DEF Spec

(* Whatever was encoded is decoded to what it was, in a buffer of the size    *)
(* that decode gives it (base64.cpp:6-30).                                    *)
THEOREM EncodedIsDecoded == Spec => []Base64RoundTrip
  <1>1. TextSurvives
    BY RoundTrip, ConnectionAssumption DEF TextSurvives
  <1>2. Base64RoundTrip
    BY <1>1 DEF Base64RoundTrip
  <1> QED
    BY <1>2, PTL

(* The server reads the credentials of every client as they were given, if    *)
(* and only if there is no colon in them, and never takes their client for an *)
(* anonymous one (authentication.cpp:19-42, 59-68).                           *)
THEOREM CredentialsAreRead == Spec => []CredentialsArrive
  <1>1. LoginsArrive
    BY HeaderRoundTrip, ConnectionAssumption DEF LoginsArrive
  <1>2. CredentialsArrive
    BY <1>1 DEF CredentialsArrive
  <1> QED
    BY <1>2, PTL
-----------------------------------------------------------------------------
(* What each side does when it is not its turn.                               *)
LEMMA ClientRests == UNCHANGED client => UNCHANGED C!vars
  BY DEF client, C!vars

LEMMA ServerRests == UNCHANGED server => UNCHANGED S!vars
  BY DEF server, S!vars

LEMMA ClientStep == [Next]_vars => [C!Next]_C!vars
  <1> SUFFICES ASSUME [Next]_vars PROVE C!Next \/ UNCHANGED C!vars
    OBVIOUS
  <1>1. ASSUME NEW a \in Attempts,
               ClientSide(a) \/ TimerExpires(a) \/ ClientHandler(a) \/ Connect(a)
        PROVE  C!Next
    <2>1. C!Connect(a) \/ C!OperationOfEnds(a) \/ C!TimerExpires(a) \/ C!Handler(a)
      BY <1>1 DEF ClientSide, OperationEnds, TimerExpires, ClientHandler, Connect,
         C!OperationOfEnds, C!Handler
    <2> QED
      BY <2>1 DEF C!Next, Attempts
  <1>2. ASSUME NEW c \in Clients, DestroyClient(c) PROVE C!Next
    BY <1>2 DEF DestroyClient, C!Next
  <1>3. ASSUME NEW a \in Attempts,
               ServerAccepts(a) \/ ServerReads(a) \/ ServerAnswers(a) \/ ServerUpgrades(a) \/ Lose(a)
        PROVE  UNCHANGED client
    BY <1>3 DEF ServerAccepts, ServerReads, ServerAnswers, ServerUpgrades, Lose
  <1>4. ASSUME NEW a \in Attempts, NEW x \in Acceptors, Dial(a, x) PROVE UNCHANGED client
    BY <1>4 DEF Dial
  <1>5. CASE StartServer \/ StopServer \/ DestroyServer \/ UNCHANGED vars
    BY <1>5, ClientRests DEF StartServer, StopServer, DestroyServer, vars
  <1> QED
    BY <1>1, <1>2, <1>3, <1>4, <1>5, ClientRests DEF Next, Progress

LEMMA ServerStep == [Next]_vars => [S!Next]_S!vars
  <1> SUFFICES ASSUME [Next]_vars PROVE S!Next \/ UNCHANGED S!vars
    OBVIOUS
  <1>1. ASSUME NEW a \in Attempts,
               ServerAccepts(a) \/ ServerReads(a) \/ ServerAnswers(a) \/ ServerUpgrades(a)
        PROVE  S!Next
    <2>1. "session" \in S!Stages /\ "gone" \in S!Stages
      BY DEF S!Stages
    <2>2. S!AcceptCompletes(a) \/ S!Receive(a) \/ S!ReceivePart(a) \/ S!HandlerOf(a)
      BY <1>1, <2>1 DEF ServerAccepts, ServerReads, ServerAnswers, ServerUpgrades, S!HandlerOf
    <2> QED
      BY <2>2 DEF S!Next
  <1>2. ASSUME NEW a \in Attempts, NEW x \in Acceptors, Dial(a, x) PROVE S!Next
    BY <1>2 DEF Dial, S!Next
  <1>3. CASE StartServer \/ StopServer \/ DestroyServer
    BY <1>3 DEF StartServer, StopServer, DestroyServer, S!Next
  <1>4. ASSUME NEW a \in Attempts,
               ClientSide(a) \/ TimerExpires(a) \/ ClientHandler(a) \/ Connect(a) \/ Lose(a)
        PROVE  UNCHANGED server
    BY <1>4 DEF ClientSide, TimerExpires, ClientHandler, Connect, Lose
  <1>5. ASSUME NEW c \in Clients, DestroyClient(c) PROVE UNCHANGED server
    BY <1>5 DEF DestroyClient
  <1>6. CASE UNCHANGED vars
    BY <1>6, ServerRests DEF vars
  <1> QED
    BY <1>1, <1>2, <1>3, <1>4, <1>5, <1>6, ServerRests DEF Next, Progress

(* The client's side of the composition is the module Client, whatever the    *)
(* server and the network do: it takes no other steps (client.cpp:33-190).    *)
THEOREM ClientOfConnection == Spec => C!Spec
  <1>1. Init => C!Init
    BY DEF Init
  <1> QED
    BY <1>1, ClientStep, PTL DEF Spec, C!Spec

(* And the server's side is the module Server (server.cpp:21-255).            *)
THEOREM ServerOfConnection == Spec => S!Spec
  <1>1. Init => S!Init
    BY DEF Init
  <1> QED
    BY <1>1, ServerStep, PTL DEF Spec, S!Spec
=============================================================================
