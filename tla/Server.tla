------------------------------- MODULE Server -------------------------------
(***************************************************************************)
(* Server (src/server.cpp, include/native_streaming/server.hpp): two TCP   *)
(* acceptors, each driving a chain "accept a connection, read its HTTP     *)
(* upgrade request, accept the next"; a connection that authenticates is   *)
(* upgraded to a websocket and handed out as a session. All header reads   *)
(* share one buffer and one request object (server.hpp:112-116).           *)
(*                                                                         *)
(* One thread runs the io_context. A header read receives into the space   *)
(* that the shared acceptBuffer prepares, and what is parsed when its      *)
(* handler comes is what that space then holds. Completion handlers with   *)
(* operation_aborted do nothing and are left out.                          *)
(***************************************************************************)
EXTENDS Naturals, FiniteSets

CONSTANTS
    Acceptors,          \* tcpAcceptorV4 and tcpAcceptorV6
    Conns,              \* the connections clients make
    Trusted,            \* those whose credentials onAuthenticateCallback accepts
    Broken,             \* those whose client may leave in the middle of the request
    MaxStarts,          \* bound on the calls of start() that open an acceptor
    MaxAcceptErrors,    \* bound on the accepts that fail
    Empty, Garbled,     \* contents of acceptBuffer besides the request of one connection
    None

ASSUME ServerAssumption ==
    /\ Trusted \subseteq Conns
    /\ Broken \subseteq Conns
    /\ IsFiniteSet(Conns)
    /\ MaxStarts \in Nat
    /\ MaxAcceptErrors \in Nat
    /\ {Empty, Garbled, None} \cap Conns = {}

VARIABLES
    alive,          \* the Server object exists
    open,           \* the acceptors that are open
    accepts,        \* async_accepts under way on each acceptor
    failedAccepts,  \* accept handlers queued with an error
    stage,          \* of each connection
    via,            \* the acceptor each connection came in by
    acceptBuffer,   \* whose request bytes the shared buffer holds
    \* history, which no action reads but for the bounds
    request,        \* what acceptRequest held when onReadAcceptRequest(c) ran
    starts,         \* calls of start() that opened an acceptor
    acceptErrors,
    disturbed       \* a header read began beside another or after a failed one

acceptors   == <<open, accepts, failedAccepts>>
connections == <<stage, via>>
bounds      == <<starts, acceptErrors>>
header      == <<acceptBuffer, request, disturbed>>
vars == <<alive, open, accepts, failedAccepts, stage, via, acceptBuffer, request, starts,
          acceptErrors, disturbed>>

Stages == {"none", "backlog", "accepted", "reading", "read", "partRead", "upgrading",
           "session", "gone"}

TypeOK ==
    /\ alive \in BOOLEAN
    /\ open \subseteq Acceptors
    /\ accepts \in [Acceptors -> Nat]
    /\ failedAccepts \in [Acceptors -> Nat]
    /\ stage \in [Conns -> Stages]
    /\ via \in [Conns -> Acceptors \cup {None}]
    /\ acceptBuffer \in Conns \cup {Empty, Garbled}
    /\ request \in [Conns -> Conns \cup {Garbled, None}]
    /\ starts \in 0 .. MaxStarts
    /\ acceptErrors \in 0 .. MaxAcceptErrors
    /\ disturbed \in BOOLEAN

Init ==
    /\ alive = TRUE
    /\ open = {}
    /\ accepts = [x \in Acceptors |-> 0]
    /\ failedAccepts = [x \in Acceptors |-> 0]
    /\ stage = [c \in Conns |-> "none"]
    /\ via = [c \in Conns |-> None]
    /\ acceptBuffer = Empty
    /\ request = [c \in Conns |-> None]
    /\ starts = 0
    /\ acceptErrors = 0
    /\ disturbed = FALSE

InHeaderRead(c) == stage[c] \in {"reading", "read", "partRead"}

\* Mutant: no further connection is accepted.
StartNoTcpAccept(x) == accepts' = accepts

\* Mutant: two accepts are started.
StartTcpAcceptTwice(x) ==
    accepts' = IF x \in open THEN [accepts EXCEPT ![x] = @ + 2] ELSE accepts

(* startTcpAccept on acceptor x, as the whole of what a handler does to it.   *)
StartTcpAccept(x) ==
    accepts' = IF x \in open THEN [accepts EXCEPT ![x] = @ + 1] ELSE accepts

MoveTo(c, place) == stage' = [stage EXCEPT ![c] = place]

(* The handler that ends c's header read was c's last bond to its acceptor.   *)
Leave(c) == via' = [via EXCEPT ![c] = None]

(* boost_compatibility_utils::async_accept, with the request that was read.   *)
AsyncAccept(c) == MoveTo(c, "upgrading")

\* Mutant: the callback's answer is ignored.
UpgradeAnyway(c, r) == AsyncAccept(c)

(* onAuthenticateCallback decides by the credentials of the request; what it  *)
(* thinks of a garbled one is open.                                           *)
Authenticate(c, r) ==
    \/ r \in Trusted \cup {Garbled} /\ AsyncAccept(c)
    \/ r \notin Trusted /\ MoveTo(c, "gone")

\* Mutant: an accept completes twice.
AcceptMayEndAgain(x) == TRUE

AcceptMayEnd(x) == accepts[x] > 0
-----------------------------------------------------------------------------
(* start(): every acceptor that is not open yet is opened, bound and put to   *)
(* work, or fails and is closed again; ok is the set of those that succeed.   *)
(* (A start() in which none does returns the error and changes nothing.)      *)
StartServer(ok) ==
    /\ alive
    /\ starts < MaxStarts
    /\ ok # {}
    /\ ok \subseteq Acceptors \ open
    /\ starts' = starts + 1
    /\ open' = open \cup ok
    /\ accepts' = [x \in Acceptors |-> IF x \in ok THEN accepts[x] + 1 ELSE accepts[x]]
    /\ UNCHANGED <<alive, failedAccepts, connections, header, acceptErrors>>

(* Closing an acceptor aborts its accepts and resets what waits in its        *)
(* backlog; connections that were accepted go on.                             *)
CloseAcceptors ==
    /\ open' = {}
    /\ accepts' = [x \in Acceptors |-> IF x \in open THEN 0 ELSE accepts[x]]
    /\ stage' = [c \in Conns |-> IF stage[c] = "backlog" THEN "gone" ELSE stage[c]]
    /\ via' = [c \in Conns |-> IF stage[c] = "backlog" THEN None ELSE via[c]]

Stop ==
    /\ alive
    /\ open # {}
    /\ CloseAcceptors
    /\ UNCHANGED <<alive, failedAccepts, header, bounds>>

(* ~Server: every handler still to come finds its weak pointer empty.         *)
Destroy ==
    /\ alive
    /\ alive' = FALSE
    /\ CloseAcceptors
    /\ UNCHANGED <<failedAccepts, header, bounds>>

(* A client's connection reaches the backlog of acceptor x.                   *)
Dial(c, x) ==
    /\ stage[c] = "none"
    /\ x \in open
    /\ MoveTo(c, "backlog")
    /\ via' = [via EXCEPT ![c] = x]
    /\ UNCHANGED <<alive, acceptors, header, bounds>>

AcceptCompletes(c) ==
    /\ stage[c] = "backlog"
    /\ AcceptMayEnd(via[c])
    /\ accepts' = [accepts EXCEPT ![via[c]] = @ - 1]
    /\ MoveTo(c, "accepted")
    /\ UNCHANGED <<alive, open, failedAccepts, via, header, bounds>>

AcceptFails(x) ==
    /\ AcceptMayEnd(x)
    /\ acceptErrors < MaxAcceptErrors
    /\ acceptErrors' = acceptErrors + 1
    /\ accepts' = [accepts EXCEPT ![x] = @ - 1]
    /\ failedAccepts' = [failedAccepts EXCEPT ![x] = @ + 1]
    /\ UNCHANGED <<alive, open, connections, header, starts>>

OnAcceptError(x) ==
    /\ alive
    /\ failedAccepts[x] > 0
    /\ failedAccepts' = [failedAccepts EXCEPT ![x] = @ - 1]
    /\ StartTcpAccept(x)
    /\ UNCHANGED <<alive, open, connections, header, bounds>>

OnAcceptTcpConnection(c) ==
    /\ alive
    /\ stage[c] = "accepted"
    /\ MoveTo(c, "reading")
    /\ disturbed' = (disturbed \/ acceptBuffer # Empty \/ \E d \in Conns : InHeaderRead(d))
    /\ UNCHANGED <<alive, acceptors, via, acceptBuffer, request, bounds>>

(* The request of c is received: over bytes of another connection that no     *)
(* handler has parsed yet, or next to bytes that a failed read left behind.   *)
Receive(c) ==
    /\ alive
    /\ stage[c] = "reading"
    /\ acceptBuffer' \in IF acceptBuffer = Empty THEN {c} ELSE {c, Garbled}
    /\ MoveTo(c, "read")
    /\ UNCHANGED <<alive, acceptors, via, request, bounds, disturbed>>

(* Part of it is, or nothing, and the connection ends: the read fails.        *)
ReceivePart(c) ==
    /\ alive
    /\ stage[c] = "reading"
    /\ c \in Broken
    /\ acceptBuffer' \in {acceptBuffer, Garbled}
    /\ MoveTo(c, "partRead")
    /\ UNCHANGED <<alive, acceptors, via, request, bounds, disturbed>>

(* onReadAcceptRequest with success, for the request r that the buffer holds: *)
(* authenticate and upgrade, or let the connection go; then accept the next.  *)
OnReadAcceptRequest(c, r) ==
    /\ alive
    /\ stage[c] = "read"
    /\ \/ r = acceptBuffer /\ r \in Conns
       \/ r = Garbled /\ acceptBuffer \in {Empty, Garbled}
    /\ request' = [request EXCEPT ![c] = r]
    /\ acceptBuffer' = Empty
    /\ Authenticate(c, r)
    /\ StartTcpAccept(via[c])
    /\ Leave(c)
    /\ UNCHANGED <<alive, open, failedAccepts, bounds, disturbed>>

(* ... with an error; what was not parsed stays in the buffer.                *)
OnReadAcceptError(c) ==
    /\ alive
    /\ \/ stage[c] = "partRead" /\ UNCHANGED acceptBuffer
       \/ /\ stage[c] = "read"
          /\ acceptBuffer \in {Empty, Garbled}
          /\ acceptBuffer' \in {Empty, Garbled}
    /\ MoveTo(c, "gone")
    /\ StartTcpAccept(via[c])
    /\ Leave(c)
    /\ UNCHANGED <<alive, open, failedAccepts, request, bounds, disturbed>>

(* The websocket upgrade ends and onUpgradeConnection runs: a session, unless *)
(* the upgrade failed or the peer is gone.                                    *)
OnUpgradeConnection(c, place) ==
    /\ alive
    /\ stage[c] = "upgrading"
    /\ place \in {"session", "gone"}
    /\ MoveTo(c, place)
    /\ UNCHANGED <<alive, acceptors, via, header, bounds>>
-----------------------------------------------------------------------------
HandlerOf(c) ==
    \/ OnAcceptTcpConnection(c)
    \/ \E r \in Conns \cup {Garbled} : OnReadAcceptRequest(c, r)
    \/ OnReadAcceptError(c)
    \/ \E place \in Stages : OnUpgradeConnection(c, place)

Next ==
    \/ \E ok \in SUBSET Acceptors : StartServer(ok)
    \/ Stop
    \/ Destroy
    \/ \E c \in Conns, x \in Acceptors : Dial(c, x)
    \/ \E c \in Conns : AcceptCompletes(c) \/ Receive(c) \/ ReceivePart(c) \/ HandlerOf(c)
    \/ \E x \in Acceptors : AcceptFails(x) \/ OnAcceptError(x)

Spec == Init /\ [][Next]_vars

(* The io_context runs, and a client that connected sends its request or      *)
(* leaves: the code has no timeout of its own for the header read.            *)
Fairness ==
    /\ \A c \in Conns :
        WF_vars(AcceptCompletes(c)) /\ WF_vars(Receive(c) \/ ReceivePart(c)) /\ WF_vars(HandlerOf(c))
    /\ \A x \in Acceptors : WF_vars(OnAcceptError(x))

FairSpec == Spec /\ Fairness
-----------------------------------------------------------------------------
(* The chains of acceptor x: everything that will call startTcpAccept(x).     *)
Chains(x) ==
    accepts[x] + failedAccepts[x]
        + Cardinality({c \in Conns : via[c] = x /\ (stage[c] = "accepted" \/ InHeaderRead(c))})

(* An open acceptor always has a chain, whatever accepts and header reads     *)
(* fail and however often the server was stopped and started (lines 129,      *)
(* 150): it never stops accepting while it is open.                           *)
NeverDeaf == alive => \A x \in open : Chains(x) > 0

(* No handler starts a second chain: an acceptor has one for each start() at  *)
(* the most, and the shared buffer as many readers. (stop() and start()       *)
(* during a header read do leave the old chain beside the new one.)           *)
ChainsBounded == \A x \in Acceptors : Chains(x) <= starts

(* As long as header reads neither overlapped nor followed a failed one, the  *)
(* request of a connection is its own, and only those that                    *)
(* onAuthenticateCallback accepted became sessions (lines 149, 181).          *)
UndisturbedIsOwn ==
    ~disturbed => \A c \in Conns :
        /\ request[c] \in {None, c}
        /\ stage[c] \in {"upgrading", "session"} => c \in Trusted

(* Every connection in the backlog of the server gets a session or is let go  *)
(* unless the server is destroyed; so a client whose header read fails does   *)
(* not stop the ones behind it.                                               *)
ConnectionsServed ==
    \A c \in Conns : stage[c] = "backlog" ~> stage[c] \in {"session", "gone"} \/ ~alive

(* "object which holds connect request parameters" for the connection's       *)
(* stream (server.hpp:60-61): the request is that of the connection itself.   *)
RequestIsOwn == \A c \in Conns : request[c] \in {None, c}
=============================================================================
