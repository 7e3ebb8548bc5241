------------------------------- MODULE Session -------------------------------
(***************************************************************************)
(* Session (src/session.cpp, include/native_streaming/session.hpp): owns a *)
(* reader, a writer, the heartbeat timer and, with them, the websocket     *)
(* stream. The application's shared pointers keep a session alive, its own *)
(* handlers hold weak ones; the reader and the writer, however, are kept   *)
(* by the operations they started and can outlive their session.           *)
(*                                                                         *)
(* One thread runs the io_context, so a handler is one action. Reader and  *)
(* writer appear by their one operation under way and how it goes on; the  *)
(* modules AsyncReader and AsyncWriter have the rest. What the websocket   *)
(* stream does to an operation is external.                                *)
(***************************************************************************)
EXTENDS Naturals, FiniteSets

CONSTANTS
    MaxWrites,      \* bound on the calls of scheduleWrite()
    MayMissCancel   \* the operations cancel() may find between two of their steps

Ops == {"read", "write", "pong", "close"}

ASSUME SessionAssumption == MaxWrites \in Nat /\ MayMissCancel \subseteq Ops

VARIABLES
    alive,      \* the Session object exists
    open,       \* wsStream->is_open()
    broken,     \* the connection is gone: operations can only fail
    op,         \* each kind of operation on the stream, ended ones until their handler ran
    posted,     \* queueBatchWrite handlers in the io_context
    queued,     \* batches in the writer's queue
    timedOut,   \* the writer's timeoutReached
    timer,      \* is a wait of the heartbeat timer under way?
    fired,      \* its handlers that are queued with success
    handlers,   \* the handlers of the application that were set
    monitored,  \* startConnectionActivityMonitoring() was called
    \* history, which guards only the application
    scheduled,  \* calls of scheduleWrite()
    closing,    \* close() was called
    closed,     \* calls of onClosedCallback
    told,       \* the operations whose error callback was called
    afterwards  \* the callbacks that were called on a destroyed session

connection  == <<open, broken>>
writer      == <<posted, queued, timedOut>>
heartbeat   == <<timer, fired>>
requests    == <<handlers, scheduled, monitored, closing>>
heard       == <<closed, told, afterwards>>
vars == <<alive, open, broken, op, posted, queued, timer, fired, handlers, scheduled,
          monitored, closing, closed, timedOut, told, afterwards>>

Callbacks ==
    {"onReadError", "onWriteError", "writeTimedOut", "connectionAlive", "readAlive", "onClosed"}

TypeOK ==
    /\ alive \in BOOLEAN
    /\ open \in BOOLEAN
    /\ broken \in BOOLEAN
    /\ op \in [Ops -> {"none", "posted", "pending", "ok", "failed"}]
    /\ posted \in 0 .. MaxWrites
    /\ queued \in 0 .. MaxWrites
    /\ timer \in BOOLEAN
    /\ fired \in Nat
    /\ handlers \subseteq {"errors", "timeout"}
    /\ scheduled \in 0 .. MaxWrites
    /\ monitored \in BOOLEAN
    /\ closing \in BOOLEAN
    /\ closed \in Nat
    /\ timedOut \in BOOLEAN
    /\ told \subseteq {"read", "write"}
    /\ afterwards \subseteq Callbacks

Init ==
    /\ alive = TRUE
    /\ open = TRUE
    /\ broken = FALSE
    /\ op = [o \in Ops |-> "none"]
    /\ posted = 0
    /\ queued = 0
    /\ timer = FALSE
    /\ fired = 0
    /\ handlers = {}
    /\ scheduled = 0
    /\ monitored = FALSE
    /\ closing = FALSE
    /\ closed = 0
    /\ timedOut = FALSE
    /\ told = {}
    /\ afterwards = {}

Set(o, state) == op' = [op EXCEPT ![o] = state]

(* The application's callback cb runs.                                        *)
Call(cb) == afterwards' = IF alive THEN afterwards ELSE afterwards \cup {cb}

NoCall == UNCHANGED afterwards

\* Mutant: the handlers hold a shared pointer.
LockedAlways == TRUE

(* weak_self.lock() in the handlers of the session.                           *)
Locked == alive

\* Mutant: two batches are popped.
PopTwo == queued' = queued - 2

Pop == queued' = queued - 1
-----------------------------------------------------------------------------
(* The application. Reads and writes go through the session, so it is alive.  *)
ScheduleRead ==
    /\ alive
    /\ op["read"] = "none"
    /\ Set("read", "posted")
    /\ UNCHANGED <<alive, connection, writer, heartbeat, requests, heard>>

ScheduleWrite ==
    /\ alive
    /\ scheduled < MaxWrites
    /\ scheduled' = scheduled + 1
    /\ posted' = posted + 1
    /\ UNCHANGED <<alive, connection, op, queued, timedOut, heartbeat, handlers, monitored, closing, heard>>

(* setErrorHandlers and setWriteTimedOutHandler.                              *)
SetHandler(h) ==
    /\ alive
    /\ h \notin handlers
    /\ handlers' = handlers \cup {h}
    /\ UNCHANGED <<alive, connection, op, writer, heartbeat, scheduled, monitored, closing, heard>>

(* schedulePong: nothing is sent, and the chain ends, on a closed stream.     *)
SchedulePong == IF open THEN Set("pong", "pending") ELSE op' = op

StartConnectionActivityMonitoring ==
    /\ alive
    /\ ~monitored
    /\ monitored' = TRUE
    /\ SchedulePong
    /\ UNCHANGED <<alive, connection, writer, heartbeat, handlers, scheduled, closing, heard>>

(* The stream stops being open when the close frame is sent.                  *)
Close ==
    /\ alive
    /\ ~closing
    /\ closing' = TRUE
    /\ Set("close", "pending")
    /\ open' \in {open, FALSE}
    /\ UNCHANGED <<alive, broken, writer, heartbeat, handlers, scheduled, monitored, heard>>

(* ~Session, when the application drops its last pointer: the timer's wait    *)
(* and what is under way on the socket are cancelled. What has ended already  *)
(* is not affected, nor are the operations in on, which are composed of       *)
(* several steps and between two of them.                                     *)
Destroy(on) ==
    /\ alive
    /\ on \subseteq {o \in MayMissCancel : op[o] = "pending"}
    /\ alive' = FALSE
    /\ timer' = FALSE
    /\ op' = [o \in Ops |-> IF op[o] = "pending" /\ o \notin on THEN "failed" ELSE op[o]]
    /\ UNCHANGED <<connection, writer, fired, requests, heard>>
-----------------------------------------------------------------------------
(* The stream ends operation o. A failure closes the stream, except that a    *)
(* close() which was refused may leave it open.                               *)
OperationEnds(o, how) ==
    /\ op[o] = "pending"
    /\ \/ how = "ok" /\ ~broken
       \/ how = "failed" /\ (broken \/ o = "close" \/ ~alive)
    /\ Set(o, how)
    /\ open' \in IF o = "close" /\ how = "failed" THEN {open, FALSE}
                 ELSE {open /\ o # "close" /\ how = "ok"}
    /\ broken' = (broken \/ ~open')
    /\ UNCHANGED <<alive, writer, heartbeat, requests, heard>>

(* The peer closes or the connection is lost, which no one has noticed yet.   *)
ConnectionBreaks ==
    /\ ~broken
    /\ broken' = TRUE
    /\ UNCHANGED <<alive, open, op, writer, heartbeat, requests, heard>>

TimerExpires ==
    /\ timer
    /\ timer' = FALSE
    /\ fired' = fired + 1
    /\ UNCHANGED <<alive, connection, op, writer, requests, heard>>
-----------------------------------------------------------------------------
(* What scheduleRead and scheduleWrite posted holds the reader or the writer   *)
(* and starts its operation whether the session lives or not.                 *)
DoRead ==
    /\ op["read"] = "posted"
    /\ Set("read", "pending")
    /\ UNCHANGED <<alive, connection, writer, heartbeat, requests, heard>>

QueueBatchWrite ==
    /\ posted > 0
    /\ posted' = posted - 1
    /\ queued' = IF timedOut THEN queued ELSE queued + 1
    /\ IF queued = 0 /\ ~timedOut THEN Set("write", "pending") ELSE op' = op
    /\ UNCHANGED <<alive, connection, timedOut, heartbeat, requests, heard>>

\* Mutant: the error handler is not set.
ReportNothing(o, cb) == NoCall /\ UNCHANGED told

(* The handler of setErrorHandlers, which holds a weak pointer; without one    *)
(* the error is only logged.                                                  *)
ReportError(o, cb) ==
    IF Locked /\ "errors" \in handlers
    THEN Call(cb) /\ told' = told \cup {o}
    ELSE NoCall /\ UNCHANGED told

(* AsyncReader::readDone: the alive callback is the application's own, once   *)
(* there is one (line 149); the task's handler asks for more bytes or ends.   *)
OnRead(more) ==
    /\ op["read"] = "ok"
    /\ IF monitored THEN Call("readAlive") ELSE NoCall
    /\ Set("read", IF more THEN "pending" ELSE "none")
    /\ UNCHANGED <<alive, connection, writer, heartbeat, requests, closed, told>>

OnReadError ==
    /\ op["read"] = "failed"
    /\ Set("read", "none")
    /\ ReportError("read", "onReadError")
    /\ UNCHANGED <<alive, connection, writer, heartbeat, requests, closed>>

(* AsyncWriter::writeDone. Successful writes do not count as a sign of life   *)
(* (lines 150-152).                                                           *)
OnWrite ==
    /\ op["write"] = "ok"
    /\ Pop
    /\ Set("write", IF queued > 1 /\ ~timedOut THEN "pending" ELSE "none")
    /\ UNCHANGED <<alive, connection, posted, timedOut, heartbeat, requests, heard>>

OnWriteError ==
    /\ op["write"] = "failed"
    /\ Pop
    /\ Set("write", "none")
    /\ ReportError("write", "onWriteError")
    /\ UNCHANGED <<alive, connection, posted, timedOut, heartbeat, requests, closed>>

(* AsyncWriter::onTimeoutReached for a batch in its queue: the handler of      *)
(* setWriteTimedOutHandler holds a weak pointer, too.                         *)
OnWriteTimedOut ==
    /\ queued > 0
    /\ ~timedOut
    /\ timedOut' = TRUE
    /\ IF Locked /\ "timeout" \in handlers THEN Call("writeTimedOut") ELSE NoCall
    /\ UNCHANGED <<alive, connection, op, posted, queued, heartbeat, requests, closed, told>>

\* Mutant: the timer is not started again.
LetHeartbeatTimerBe == timer' = timer

(* expires_after() cancels a wait that is still under way.                    *)
RestartHeartbeatTimer == timer' = TRUE

OnPong ==
    /\ op["pong"] \in {"ok", "failed"}
    /\ IF Locked /\ op["pong"] = "ok" THEN RestartHeartbeatTimer ELSE timer' = timer
    /\ Set("pong", "none")
    /\ UNCHANGED <<alive, connection, writer, fired, requests, heard>>

OnHeartbeatTimer ==
    /\ fired > 0
    /\ fired' = fired - 1
    /\ IF Locked THEN SchedulePong ELSE op' = op
    /\ UNCHANGED <<alive, connection, writer, timer, requests, heard>>

(* A pong of the peer arrives while a read is under way.                      *)
OnControlFrame ==
    /\ monitored
    /\ op["read"] = "pending"
    /\ ~broken
    /\ IF Locked THEN Call("connectionAlive") ELSE NoCall
    /\ UNCHANGED <<alive, connection, op, writer, heartbeat, requests, closed, told>>

\* Mutant: a destroyed session does not answer.
AnswerCloseIfAlive ==
    IF alive THEN closed' = closed + 1 /\ Call("onClosed") ELSE NoCall /\ UNCHANGED closed

(* The handler of async_close calls back whether the session lives or not.    *)
AnswerClose == closed' = closed + 1 /\ Call("onClosed")

OnClosed ==
    /\ op["close"] \in {"ok", "failed"}
    /\ AnswerClose
    /\ Set("close", "none")
    /\ UNCHANGED <<alive, connection, writer, heartbeat, requests, told>>
-----------------------------------------------------------------------------
Application ==
    \/ ScheduleRead
    \/ ScheduleWrite
    \/ SetHandler("errors")
    \/ SetHandler("timeout")
    \/ StartConnectionActivityMonitoring
    \/ Close
    \/ \E on \in SUBSET MayMissCancel : Destroy(on)

Stream(o) == \E how \in {"ok", "failed"} : OperationEnds(o, how)

Handler ==
    \/ DoRead
    \/ QueueBatchWrite
    \/ OnRead(TRUE)
    \/ OnRead(FALSE)
    \/ OnReadError
    \/ OnWrite
    \/ OnWriteError
    \/ OnPong
    \/ OnHeartbeatTimer
    \/ OnClosed

Next ==
    \/ Application
    \/ \E o \in Ops : Stream(o)
    \/ ConnectionBreaks
    \/ TimerExpires
    \/ Handler
    \/ OnWriteTimedOut
    \/ OnControlFrame

Spec == Init /\ [][Next]_vars

(* The io_context runs every handler (it is a FIFO queue), the timer expires, *)
(* and the stream ends what is under way: on the server's side beast's idle   *)
(* timeout sees to it (lines 45-48), on the client's side TCP, which reports  *)
(* a connection that broke to whatever is under way on it.                    *)
Fairness ==
    /\ WF_vars(DoRead) /\ WF_vars(QueueBatchWrite)
    /\ WF_vars(OnRead(TRUE) \/ OnRead(FALSE)) /\ WF_vars(OnReadError)
    /\ WF_vars(OnWrite) /\ WF_vars(OnWriteError)
    /\ WF_vars(OnPong) /\ WF_vars(OnHeartbeatTimer) /\ WF_vars(OnClosed)
    /\ WF_vars(TimerExpires)
    /\ \A o \in Ops : WF_vars(Stream(o))

FairSpec == Spec /\ Fairness
-----------------------------------------------------------------------------
(* What will bring the next pong.                                             *)
HeartbeatChain == (IF op["pong"] = "none" THEN 0 ELSE 1) + (IF timer THEN 1 ELSE 0) + fired

(* Pong, timer and handler follow each other in one chain (lines 111-143):    *)
(* it never forks, and it does not die while the session lives and its        *)
(* connection holds.                                                          *)
HeartbeatGoesOn ==
    /\ HeartbeatChain <= 1
    /\ alive /\ monitored /\ open /\ ~broken => HeartbeatChain = 1

(* Of the application's callbacks only the reader's sign of life (not guarded *)
(* by a weak pointer, line 149) and the answer to close() (line 75) are ever  *)
(* called after the session was destroyed.                                    *)
QuietAfterwards == afterwards \subseteq {"readAlive", "onClosed"}

(* close() is answered, once, also when the session is destroyed meanwhile.   *)
CloseAnswered == closing ~> [](closed = 1)

(* When the connection ends, a session that was reading hears of it, also     *)
(* when its error handlers were only set with the read under way.             *)
DisconnectIsSeen ==
    broken /\ op["read"] = "pending" /\ "errors" \in handlers ~> "read" \in told \/ ~alive

(* What the destroyed session's writer, heartbeat and close() have left to do *)
(* comes to an end, so that nothing but its reader can outlive it for long.   *)
OnlyReaderStays ==
    ~alive ~> [](posted = 0 /\ fired = 0 /\ \A o \in Ops \ {"read"} : op[o] = "none")

(* "cancel all async operations on socket" (session.cpp:33): no read starts   *)
(* on the stream once its session was destroyed.                              *)
NoReadAfterDestruction ==
    [][~alive /\ op["read"] # "pending" => op'["read"] # "pending"]_vars
=============================================================================
