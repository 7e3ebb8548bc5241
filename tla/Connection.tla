----------------------------- MODULE Connection -----------------------------
(***************************************************************************)
(* Clients and a server on one network: what src/client.cpp and            *)
(* src/server.cpp do to each other through a TCP connection and the        *)
(* websocket handshake on it. Here the operations that Client and Server   *)
(* leave open end as the other side, or the network, makes them end.       *)
(*                                                                         *)
(* A connection is named by the attempt that made it. TCP connects the     *)
(* client to the backlog before the client hears of it. The client sends   *)
(* its request, with the Authorization header, when its connect handler    *)
(* starts the handshake, and takes a response for its own by the key in it.*)
(* Accepts that fail, acceptors that do not open and a second start() are  *)
(* left to the module Server, several attempts of a client to Client.      *)
(***************************************************************************)
EXTENDS Authentication

CONSTANTS
    Clients, Acceptors,
    Login,                  \* the Authentication object of each client
    Accepted,               \* what onAuthenticateCallback accepts
    Text,                   \* names and passwords to try the Authentication with
    MaxFaults,              \* bound on timeouts, losses, stops and destructions
    Empty, Garbled, None    \* as in Server

VARIABLES
    \* of Client
    alive, stage, result, cancelled, timer, expired, websocketStream, answers, timedOut,
    overlapped, cut,
    \* of Server, whose alive and stage are these two
    serverAlive, served,
    open, accepts, failedAccepts, via, acceptBuffer, request, starts, acceptErrors, disturbed,
    \* of the connection
    sent,       \* the client has begun to send its upgrade request
    replied,    \* the server has begun to send its response
    lost,       \* the network broke the connection
    faults      \* how many of these have happened

client == <<alive, stage, result, cancelled, timer, expired, websocketStream, answers,
            timedOut, overlapped, cut>>
server == <<serverAlive, served, open, accepts, failedAccepts, via, acceptBuffer, request,
            starts, acceptErrors, disturbed>>
network == <<sent, replied, lost>>
vars == <<client, server, network, faults>>

C == INSTANCE Client WITH MaxAttempts <- 1, MaxOpen <- 1

Attempts == C!Attempts

ASSUME ConnectionAssumption ==
    /\ {Empty, Garbled, None} \cap Attempts = {}
    /\ Login \in [Clients -> Authentications]
    /\ Text \subseteq Seq(Byte)

(* The client's header as the server reads it.                                *)
Seen(a) == Received(EncodedHeader(Login[a[1]]))

Trusted == {a \in Attempts : Seen(a) \in Accepted}

S == INSTANCE Server WITH
        alive <- serverAlive, stage <- served, Conns <- Attempts, Broken <- Attempts,
        MaxStarts <- 1, MaxAcceptErrors <- 0

Init ==
    /\ C!Init
    /\ S!Init
    /\ sent = {}
    /\ replied = {}
    /\ lost = {}
    /\ faults = 0

Fault == faults < MaxFaults /\ faults' = faults + 1
-----------------------------------------------------------------------------
(* The last pointer to the client's stream is gone, or its connect came to    *)
(* nothing.                                                                   *)
ClientLeft(a) ==
    \/ stage[a] = "over" /\ answers[a] # <<"session">> /\ a \notin websocketStream \cap sent
    \/ a[1] \notin alive /\ result[a] # "waiting"

ServerLeft(a) == served[a] = "gone" \/ (~serverAlive /\ served[a] # "session")

(* When an operation of the client can end as it does.                        *)
Outcome(a, how) ==
    CASE stage[a] = "connect" /\ how = "ok" -> served[a] # "none"
      [] stage[a] = "upgrade" /\ how = "ok" -> a \in replied /\ request[a] \in {a, Garbled}
      [] stage[a] = "upgrade" /\ how = "failed" ->
            a \in lost \/ ServerLeft(a) \/ (a \in replied /\ request[a] # a)
      [] OTHER -> TRUE

OperationEnds(a) == \E how \in {"ok", "failed", "aborted"} : Outcome(a, how) /\ C!OperationEnds(a, how)

(* The client's handlers; onConnect starts the handshake (line 133).          *)
ClientHandler(a) ==
    /\ \/ C!OnConnectionTimeout(a)
       \/ C!OnResolve(a)
       \/ C!OnConnect(a)
       \/ C!OnUpgradeFails(a)
       \/ C!CreateSession(a)
       \/ C!EndpointIsGone(a) /\ (a \in lost \/ ServerLeft(a))
    /\ sent' = sent \cup {b \in {a} : stage'[b] = "upgrade"}
    /\ UNCHANGED <<server, replied, lost, faults>>

ClientSide(a) == OperationEnds(a) /\ UNCHANGED <<server, network, faults>>

TimerExpires(a) == C!TimerExpires(a) /\ Fault /\ UNCHANGED <<server, network>>

Connect(a) == C!Connect(a) /\ UNCHANGED <<server, network, faults>>

DestroyClient(c) == C!Destroy(c) /\ Fault /\ UNCHANGED <<server, network>>
-----------------------------------------------------------------------------
Dial(a, x) ==
    /\ stage[a] = "connect"
    /\ result[a] = "waiting"
    /\ S!Dial(a, x)
    /\ UNCHANGED <<client, network, faults>>

(* The server's header read takes what the client sent, as far as it came.    *)
ServerReads(a) ==
    /\ \/ a \in sent /\ S!Receive(a)
       \/ (ClientLeft(a) \/ a \in lost) /\ S!ReceivePart(a)
    /\ UNCHANGED <<client, network, faults>>

ServerAccepts(a) == (S!AcceptCompletes(a) \/ S!OnAcceptTcpConnection(a)) /\ UNCHANGED <<client, network, faults>>

(* The handler of the header read; async_accept sends the response (line 193).*)
ServerAnswers(a) ==
    /\ \/ S!OnReadAcceptError(a)
       \/ \E r \in Attempts \cup {Garbled} : S!OnReadAcceptRequest(a, r)
    /\ replied' = replied \cup {b \in {a} : served'[b] = "upgrading"}
    /\ UNCHANGED <<client, sent, lost, faults>>

ServerUpgrades(a) ==
    /\ \/ S!OnUpgradeConnection(a, "session")
       \/ /\ ClientLeft(a) \/ a \in lost \/ request[a] = Garbled
          /\ S!OnUpgradeConnection(a, "gone")
    /\ UNCHANGED <<client, network, faults>>

(* The application starts, stops or destroys the server.                      *)
StartServer   == S!StartServer(Acceptors) /\ UNCHANGED <<client, network, faults>>
StopServer    == S!Stop /\ Fault /\ UNCHANGED <<client, network>>
DestroyServer == S!Destroy /\ Fault /\ UNCHANGED <<client, network>>

Lose(a) ==
    /\ served[a] \notin {"none", "gone"}
    /\ a \notin lost
    /\ Fault
    /\ lost' = lost \cup {a}
    /\ UNCHANGED <<client, server, sent, replied>>
-----------------------------------------------------------------------------
Progress ==
    \E a \in Attempts :
        \/ ClientSide(a)
        \/ TimerExpires(a)
        \/ ClientHandler(a)
        \/ ServerAccepts(a)
        \/ ServerReads(a)
        \/ ServerAnswers(a)
        \/ ServerUpgrades(a)

Next ==
    \/ Progress
    \/ \E a \in Attempts : Connect(a) \/ Lose(a) \/ \E x \in Acceptors : Dial(a, x)
    \/ \E c \in Clients : DestroyClient(c)
    \/ StartServer
    \/ StopServer
    \/ DestroyServer

(* Both io_contexts run, time passes, and what the other side did arrives.    *)
Spec == Init /\ [][Next]_vars /\ WF_vars(Progress)
-----------------------------------------------------------------------------
(* A client only has a session on a connection that the server let in for     *)
(* this client's own credentials: when header reads met in acceptBuffer and   *)
(* it was let in for another's, the client refuses the response. And a        *)
(* connection handled for its own request is a session on both sides, unless  *)
(* the network or the client's timeout came in between.                       *)
SessionsAgree ==
    \A a \in Attempts :
        /\ answers[a] = <<"session">> =>
               \/ request[a] = Garbled
               \/ /\ Login[a[1]] \in Accepted
                  /\ served[a] \in {"upgrading", "session"} \/ a \in lost
        /\ served[a] = "session" /\ request[a] = a /\ stage[a] = "over" =>
               answers[a] = <<"session">> \/ a \in lost \cup timedOut

(* Every attempt comes to an end on both sides, whoever gives up, leaves or   *)
(* is destroyed on the way. That clients send their request or leave, which   *)
(* the module Server assumes of them, follows from what Client does.          *)
EveryDialSettles ==
    []<>(\A a \in Attempts :
            stage[a] # "none" =>
                /\ stage[a] = "over" \/ a[1] \notin alive
                /\ served[a] \in {"none", "session", "gone"} \/ ~serverAlive)

TextSurvives == \A s \in Text : Decode(Encode(s)) = s /\ Len(s) <= DecodedSize(Len(Encode(s)))

(* Base64 gives back what it was given, and the buffer that decode prepares   *)
(* (base64.cpp:21-24) has room for it, for every length modulo 3: a request   *)
(* on the wire can be read, whatever its header was made of.                  *)
Base64RoundTrip == sent # {} => TextSurvives

LoginsArrive ==
    \A u, p \in Text :
        LET seen == Received(EncodedHeader(Basic(u, p))) IN
        seen.type = "Basic" /\ (seen = Basic(u, p) <=> ~Contains(u \o p, Colon))

(* Of a client that sends its request the server gets exactly the user name   *)
(* and password that the client was given, whichever they are, unless there   *)
(* is a ':' in one of them, when it gets others (authentication.cpp:32); it   *)
(* never takes the client for an anonymous one.                               *)
CredentialsArrive == sent # {} => LoginsArrive
=============================================================================
