------------------------------- MODULE Client -------------------------------
(***************************************************************************)
(* Client (src/client.cpp, include/native_streaming/client.hpp): connect() *)
(* arms a timeout timer and starts resolve, connect and websocket          *)
(* handshake, each in the completion handler of the one before. The timer, *)
(* the resolver and the member websocketStream of a Client are shared by   *)
(* all its attempts. Attempt <<c, n>> is the n-th call of connect() on c.  *)
(*                                                                         *)
(* One thread runs the io_context, so a handler is one action; but the     *)
(* completion of an operation and the run of its handler are two, and      *)
(* cancel() only reaches what has not completed yet. What asio does is     *)
(* external: a cancelled operation may still end as if it was not          *)
(* cancelled, because a lookup that has begun is not interrupted and a     *)
(* composed connect or handshake is between two of its steps.              *)
(***************************************************************************)
EXTENDS Naturals, Sequences, FiniteSets

CONSTANTS
    Clients,        \* the Client objects
    MaxAttempts,    \* bound on the calls of connect() on each
    MaxOpen         \* how many attempts of one client may be under way at once

ASSUME ClientAssumption == MaxAttempts \in Nat /\ MaxOpen \in Nat

Attempts == Clients \X (1 .. MaxAttempts)

VARIABLES
    alive,              \* the Client objects that exist
    stage,              \* the asynchronous operation of each attempt
    result,             \* and how it ended, once its handler is queued
    cancelled,          \* attempts whose operation was cancelled under way
    timer,              \* the attempt whose wait the timer of its client holds
    expired,            \* attempts whose timer handler is queued with success
    websocketStream,    \* the attempt whose stream the member of its client points to
    \* history, which no action reads
    answers,            \* the callbacks called for each attempt
    timedOut,           \* attempts whose own timeout handler ran
    overlapped,         \* attempts that were under way beside another of their client
    cut                 \* sessions whose stream a timeout cancelled

operation   == <<stage, result, cancelled>>
timeout     == <<timer, expired, timedOut>>
vars == <<alive, stage, result, cancelled, timer, expired, websocketStream, answers,
          timedOut, overlapped, cut>>

Answers == {"session", "onResolveFail", "onConnectFail", "onHandshakeFail"}

TypeOK ==
    /\ alive \subseteq Clients
    /\ stage \in [Attempts -> {"none", "resolve", "connect", "upgrade", "over"}]
    /\ result \in [Attempts -> {"waiting", "ok", "failed", "aborted"}]
    /\ cancelled \subseteq Attempts
    /\ timer \subseteq Attempts
    /\ expired \subseteq Attempts
    /\ websocketStream \subseteq Attempts
    /\ \A member \in {timer, websocketStream} : \A a, b \in member : a[1] = b[1] => a = b
    /\ answers \in [Attempts -> Seq(Answers)]
    /\ timedOut \subseteq Attempts
    /\ overlapped \subseteq Attempts
    /\ cut \subseteq Attempts

Init ==
    /\ alive = Clients
    /\ stage = [a \in Attempts |-> "none"]
    /\ result = [a \in Attempts |-> "waiting"]
    /\ cancelled = {}
    /\ timer = {}
    /\ expired = {}
    /\ websocketStream = {}
    /\ answers = [a \in Attempts |-> <<>>]
    /\ timedOut = {}
    /\ overlapped = {}
    /\ cut = {}

Of(c) == {a \in Attempts : a[1] = c}

InProgress(a) == stage[a] \in {"resolve", "connect", "upgrade"}

UnderWay(c) == {a \in Of(c) : InProgress(a)}

(* Attempt a's next operation is op; "over" is none.                          *)
Start(a, op) ==
    /\ stage' = [stage EXCEPT ![a] = op]
    /\ result' = [result EXCEPT ![a] = "waiting"]
    /\ cancelled' = cancelled \ {a}

CancelTimer(c) == timer' = timer \ Of(c)

(* boost_compatibility_utils::async_handshake.                                *)
AsyncHandshake(a) == Start(a, "upgrade")

\* Mutant: an empty callback is called.
AnswerNothing(a, callback) == answers' = [answers EXCEPT ![a] = Append(@, "none")]

Answer(a, callback) == answers' = [answers EXCEPT ![a] = Append(@, callback)]

\* Mutant: the handler does not return after the callback.
GiveUpAndGoOn(a, callback) ==
    /\ CancelTimer(a[1])
    /\ Answer(a, callback)
    /\ Start(a, "upgrade")

\* Mutant: the timer is not cancelled.
GiveUpKeepTimer(a, callback) ==
    /\ timer' = timer
    /\ Answer(a, callback)
    /\ Start(a, "over")

(* How a handler ends an attempt on an error.                                 *)
GiveUp(a, callback) ==
    /\ CancelTimer(a[1])
    /\ Answer(a, callback)
    /\ Start(a, "over")

\* Mutant: an aborted operation is ignored.
HandlerRunsUnlessAborted(a, op) ==
    a[1] \in alive /\ stage[a] = op /\ result[a] \in {"ok", "failed"}

(* The handler of a's operation runs: it is queued and weak_self.lock() works. *)
HandlerRuns(a, op) == a[1] \in alive /\ stage[a] = op /\ result[a] # "waiting"

\* Mutant: async_wait is not called again.
ArmNoTimer(a) == timer' = timer

(* cancel() and expires_after() drop the wait of an earlier attempt, but not  *)
(* a handler that is queued already.                                          *)
ArmTimer(a) == timer' = (timer \ Of(a[1])) \cup {a}

\* Mutant: the member keeps the stream of the session.
KeepStream(a) == UNCHANGED websocketStream

ReleaseStream(a) == websocketStream' = websocketStream \ Of(a[1])
-----------------------------------------------------------------------------
Connect(a) ==
    /\ a[1] \in alive
    /\ stage[a] = "none"
    /\ \A b \in Of(a[1]) : b[2] < a[2] => stage[b] # "none"
    /\ Cardinality(UnderWay(a[1])) < MaxOpen
    /\ ArmTimer(a)
    /\ Start(a, "resolve")
    /\ overlapped' = IF UnderWay(a[1]) = {} THEN overlapped
                     ELSE overlapped \cup UnderWay(a[1]) \cup {a}
    /\ UNCHANGED <<alive, expired, websocketStream, answers, timedOut, cut>>

OperationEnds(a, how) ==
    /\ InProgress(a)
    /\ result[a] = "waiting"
    /\ how = "aborted" => a \in cancelled
    /\ result' = [result EXCEPT ![a] = how]
    /\ UNCHANGED <<alive, stage, cancelled, timeout, websocketStream, answers, overlapped, cut>>

TimerExpires(a) ==
    /\ a \in timer
    /\ expired' = expired \cup {a}
    /\ timer' = timer \ {a}
    /\ UNCHANGED <<alive, operation, websocketStream, answers, timedOut, overlapped, cut>>

(* resolver.cancel() reaches every lookup under way, the socket's cancel()    *)
(* whatever its stream is used for by now.                                    *)
OnConnectionTimeout(a) ==
    LET lookups == {b \in Of(a[1]) : stage[b] = "resolve"}
        streams == websocketStream \cap Of(a[1]) IN
    /\ a[1] \in alive
    /\ a \in expired
    /\ expired' = expired \ {a}
    /\ cancelled' = cancelled \cup {b \in lookups \cup streams : InProgress(b) /\ result[b] = "waiting"}
    /\ cut' = cut \cup {b \in streams : stage[b] = "over"}
    /\ websocketStream' = websocketStream \ Of(a[1])
    /\ timedOut' = timedOut \cup {b \in {a} : InProgress(b)}
    /\ UNCHANGED <<alive, stage, result, timer, answers, overlapped>>

OnResolve(a) ==
    /\ HandlerRuns(a, "resolve")
    /\ IF result[a] = "ok"
       THEN /\ websocketStream' = (websocketStream \ Of(a[1])) \cup {a}
            /\ Start(a, "connect")
            /\ UNCHANGED <<timer, answers>>
       ELSE /\ GiveUp(a, "onResolveFail")
            /\ UNCHANGED websocketStream
    /\ UNCHANGED <<alive, expired, timedOut, overlapped, cut>>

OnConnect(a) ==
    /\ HandlerRuns(a, "connect")
    /\ IF result[a] = "ok"
       THEN /\ AsyncHandshake(a)
            /\ UNCHANGED <<timer, answers>>
       ELSE GiveUp(a, "onConnectFail")
    /\ UNCHANGED <<alive, expired, websocketStream, timedOut, overlapped, cut>>

OnUpgradeFails(a) ==
    /\ HandlerRuns(a, "upgrade")
    /\ result[a] # "ok"
    /\ GiveUp(a, IF result[a] = "aborted" THEN "onConnectFail" ELSE "onHandshakeFail")
    /\ UNCHANGED <<alive, expired, websocketStream, timedOut, overlapped, cut>>

(* The handshake is done, and createSession drops the member's reference ...  *)
CreateSession(a) ==
    /\ HandlerRuns(a, "upgrade")
    /\ result[a] = "ok"
    /\ CancelTimer(a[1])
    /\ ReleaseStream(a)
    /\ Answer(a, "session")
    /\ Start(a, "over")
    /\ UNCHANGED <<alive, expired, timedOut, overlapped, cut>>

(* ... unless the socket cannot name its peer any more: no callback is called. *)
EndpointIsGone(a) ==
    /\ HandlerRuns(a, "upgrade")
    /\ result[a] = "ok"
    /\ CancelTimer(a[1])
    /\ Start(a, "over")
    /\ UNCHANGED <<alive, expired, websocketStream, answers, timedOut, overlapped, cut>>

(* ~Client: every handler still to come finds its weak pointer empty.         *)
Destroy(c) ==
    /\ c \in alive
    /\ alive' = alive \ {c}
    /\ CancelTimer(c)
    /\ websocketStream' = websocketStream \ Of(c)
    /\ UNCHANGED <<operation, expired, answers, timedOut, overlapped, cut>>
-----------------------------------------------------------------------------
Handler(a) ==
    \/ OnConnectionTimeout(a)
    \/ OnResolve(a)
    \/ OnConnect(a)
    \/ OnUpgradeFails(a)
    \/ CreateSession(a)
    \/ EndpointIsGone(a)

OperationOfEnds(a) == \E how \in {"ok", "failed", "aborted"} : OperationEnds(a, how)

Next ==
    \/ \E a \in Attempts : Connect(a) \/ OperationOfEnds(a) \/ TimerExpires(a) \/ Handler(a)
    \/ \E c \in Clients : Destroy(c)

Spec == Init /\ [][Next]_vars

(* The io_context runs, time passes, and every operation ends some day (the   *)
(* network answers, or the operating system gives up). Attempts are finitely  *)
(* many, so that none of them can be passed over for ever.                    *)
Fairness == WF_vars(\E a \in Attempts : Handler(a) \/ OperationOfEnds(a) \/ TimerExpires(a))

FairSpec == Spec /\ Fairness
-----------------------------------------------------------------------------
(* Of the four callbacks one is called for an attempt, at the most, and only  *)
(* when nothing of the attempt is left under way that could call another.     *)
AnsweredOnce ==
    \A a \in Attempts :
        /\ Len(answers[a]) <= 1
        /\ answers[a] # <<>> => stage[a] = "over"

(* The timer never outlives the attempt that armed it (the cancel() calls at  *)
(* lines 77, 110 and 145): an attempt that ended well or badly is not         *)
(* followed by a timeout that was still to expire.                            *)
TimerEndsWithAttempt == \A a \in timer : a[1] \in alive /\ InProgress(a)

(* An attempt under way is never left without a timeout to come until its own *)
(* timeout handler has run, not by the handlers of earlier attempts either;   *)
(* unless connect() is called again before it ends, when the next attempt     *)
(* takes its timer over (line 43) and either may cancel it (line 145).        *)
GuardedUntilTimeout ==
    \A a \in Attempts :
        a[1] \in alive /\ InProgress(a) => a \in timer \cup expired \cup timedOut \cup overlapped

(* A timeout that comes too late does not touch the stream of a session that  *)
(* was handed out: createSession took it from the client (line 188).          *)
SessionNeverCut == \A a \in cut : answers[a] # <<"session">>

(* The attempts of a client come to an end, in whatever stage a timeout       *)
(* caught them, unless the client is destroyed. They end with a callback      *)
(* (AnsweredOnce), or without one when the peer was gone after the handshake  *)
(* (line 173).                                                                *)
AttemptsEnd == \A c \in Clients : UnderWay(c) # {} ~> c \notin alive \/ UnderWay(c) = {}

(* "after which a connection attempt is considered failed and will be         *)
(* canceled" (client.hpp:47-48): no session comes from an attempt whose       *)
(* timeout has been handled.                                                  *)
NoSessionAfterTimeout == \A a \in timedOut : answers[a] # <<"session">>
=============================================================================
