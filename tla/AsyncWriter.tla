----------------------------- MODULE AsyncWriter -----------------------------
(***************************************************************************)
(* AsyncWriter (src/async_writer.cpp, include/native_streaming/            *)
(* async_writer.hpp): batches of buffers are posted from any user thread,  *)
(* queued on a strand, and written one after the other to the websocket    *)
(* stream; a batch may carry a deadline, and the first deadline missed     *)
(* stops the writer for good.                                              *)
(*                                                                         *)
(* A handler of the io_context is cut where another thread can act: the    *)
(* strand keeps queueBatchWrite, doWrite and writeDone apart from each     *)
(* other, but the deadline timers' handlers are not wrapped by it          *)
(* (lines 159-169) and test and set timeoutReached on whatever thread runs *)
(* them. With one thread every handler runs to its end before the next.    *)
(***************************************************************************)
EXTENDS Naturals, Sequences, SequencesExt

CONSTANTS
    Batches,        \* the groups of write tasks the application schedules
    WithDeadline,   \* those scheduled with a deadline
    Threads,        \* the threads that run the io_context
    None

ASSUME WriterAssumption ==
    /\ WithDeadline \subseteq Batches
    /\ None \notin Batches

VARIABLES
    posted,         \* wrapped queueBatchWrite handlers waiting in the io_context
    at,             \* what each thread is about to execute
    holds,          \* the batch it executes it for
    queue,          \* writeTasksQueue
    timeoutReached,
    timer,          \* the deadline timer of each batch
    op,             \* the async_write operation of each batch
    streamFailed,   \* a write on the stream has failed
    late,           \* batches whose deadline has passed
    \* history, which no action reads
    scheduled,      \* batches in the order of scheduleWrite
    accepted,       \* batches in the order they were queued
    sent,           \* batches written to the stream completely, in order
    released,       \* batches whose task handlers have been called, in order
    reports,        \* calls of writeTaskTimeoutHandler
    errors          \* calls of errorHandler

control  == <<posted, at, holds>>
deadline == <<timeoutReached, timer, late, reports>>
stream   == <<op, streamFailed, sent>>
vars == <<posted, at, holds, queue, timeoutReached, timer, op, streamFailed, late,
          scheduled, accepted, sent, released, reports, errors>>

Places == {"idle", "queueBatchWrite", "doWrite", "asyncWrite", "timedOut", "timerHandler"}

TypeOK ==
    /\ posted \in Seq(Batches)
    /\ at \in [Threads -> Places]
    /\ holds \in [Threads -> Batches \cup {None}]
    /\ queue \in Seq(Batches)
    /\ timeoutReached \in BOOLEAN
    /\ timer \in [Batches -> {"off", "armed", "fired"}]
    /\ op \in [Batches -> {"none", "pending", "ok", "failed", "done"}]
    /\ streamFailed \in BOOLEAN
    /\ late \subseteq WithDeadline
    /\ scheduled \in Seq(Batches)
    /\ accepted \in Seq(Batches)
    /\ sent \in Seq(Batches)
    /\ released \in Seq(Batches)
    /\ reports \in Nat
    /\ errors \in Nat

(* Every member but the flag is a class with a constructor.                   *)
InitWith(flag) ==
    /\ posted = <<>>
    /\ at = [t \in Threads |-> "idle"]
    /\ holds = [t \in Threads |-> None]
    /\ queue = <<>>
    /\ timeoutReached = flag
    /\ timer = [b \in Batches |-> "off"]
    /\ op = [b \in Batches |-> "none"]
    /\ streamFailed = FALSE
    /\ late = {}
    /\ scheduled = <<>>
    /\ accepted = <<>>
    /\ sent = <<>>
    /\ released = <<>>
    /\ reports = 0
    /\ errors = 0

\* Mutant: the constructor leaves the flag uninitialised.
InitUninitialised == InitWith(None)

Init == InitWith(FALSE)

StrandIsFree == \A t \in Threads : at[t] \notin {"doWrite", "asyncWrite", "timedOut"}

Goto(t, place, b) ==
    /\ at' = [at EXCEPT ![t] = place]
    /\ holds' = [holds EXCEPT ![t] = b]

Finished(t) == Goto(t, "idle", None)

\* Mutant: the flag is not tested.
GotoAnyway(t, place, b) == Goto(t, place, b)

(* The early return on timeoutReached that doWrite and onTimeoutReached begin with. *)
GotoUnlessTimedOut(t, place, b) ==
    IF timeoutReached THEN Finished(t) ELSE Goto(t, place, b)

\* Mutant: a write is started whatever the queue holds.
WriteAlways(t, b) == Goto(t, "doWrite", b)

WriteIfFirst(t, b) == IF queue = <<>> THEN Goto(t, "doWrite", b) ELSE Finished(t)

\* Mutant: a completed write does not start the next one.
WriteNoNext(t, rest) == Finished(t)

WriteNext(t, rest) == IF rest # <<>> THEN Goto(t, "doWrite", Head(rest)) ELSE Finished(t)

\* Mutant: the deadline timer is never started.
LeaveTimerOff(b) == timer' = timer

SetupDeadlineTimer(b) ==
    timer' = IF b \in WithDeadline THEN [timer EXCEPT ![b] = "armed"] ELSE timer
-----------------------------------------------------------------------------
(* The application, from a thread of its own; every batch is scheduled once. *)
ScheduleWrite(b) ==
    /\ ~Contains(scheduled, b)
    /\ scheduled' = Append(scheduled, b)
    /\ posted' = Append(posted, b)
    /\ UNCHANGED <<at, holds, queue, deadline, stream, accepted, released, errors>>

(* A thread takes the oldest posted handler; strand.wrap then dispatches it   *)
(* to the strand, which another thread may do first for a younger handler.    *)
Dequeue(t) ==
    /\ at[t] = "idle"
    /\ posted # <<>>
    /\ Goto(t, "queueBatchWrite", Head(posted))
    /\ posted' = Tail(posted)
    /\ UNCHANGED <<queue, deadline, stream, scheduled, accepted, released, errors>>

(* queueBatchWrite before the queue is touched: dropped after a timeout, or   *)
(* late already when it gets here.                                            *)
RefuseBatch(t) ==
    LET b == holds[t] IN
    /\ at[t] = "queueBatchWrite"
    /\ StrandIsFree
    /\ \/ timeoutReached /\ Finished(t)
       \/ ~timeoutReached /\ b \in late /\ Goto(t, "timedOut", b)
    /\ UNCHANGED <<posted, queue, deadline, stream, scheduled, accepted, released, errors>>

QueueBatchWrite(t) ==
    LET b == holds[t] IN
    /\ at[t] = "queueBatchWrite"
    /\ StrandIsFree
    /\ ~timeoutReached
    /\ b \notin late
    /\ SetupDeadlineTimer(b)
    /\ queue' = Append(queue, b)
    /\ accepted' = Append(accepted, b)
    /\ WriteIfFirst(t, b)
    /\ UNCHANGED <<posted, timeoutReached, late, reports, stream, scheduled, released, errors>>

(* The test that doWrite starts with ...                                      *)
DoWrite(t) ==
    /\ at[t] = "doWrite"
    /\ GotoUnlessTimedOut(t, "asyncWrite", holds[t])
    /\ UNCHANGED <<posted, queue, deadline, stream, scheduled, accepted, released, errors>>

\* Mutant: the newest batch is written.
BatchToWriteNewest(t) == Last(queue)

BatchToWrite(t) == holds[t]

(* ... and the call of async_write it ends with.                              *)
AsyncWrite(t) ==
    /\ at[t] = "asyncWrite"
    /\ op' = [op EXCEPT ![BatchToWrite(t)] = "pending"]
    /\ Finished(t)
    /\ UNCHANGED <<posted, queue, deadline, streamFailed, sent, scheduled, accepted, released, errors>>

(* The stream ends the operation of batch b, well unless it has failed before. *)
StreamWrites(b) ==
    /\ op[b] = "pending"
    /\ ~streamFailed
    /\ op' = [op EXCEPT ![b] = "ok"]
    /\ sent' = Append(sent, b)
    /\ UNCHANGED <<control, queue, deadline, streamFailed, scheduled, accepted, released, errors>>

StreamFails(b) ==
    /\ op[b] = "pending"
    /\ op' = [op EXCEPT ![b] = "failed"]
    /\ streamFailed' = TRUE
    /\ UNCHANGED <<control, queue, deadline, sent, scheduled, accepted, released, errors>>

(* The completion handler of b's operation. It releases the batch at the      *)
(* front of the queue and cancels that batch's timer; a timer whose handler   *)
(* is queued already is not stopped by cancel().                              *)
WriteDone(t, b) ==
    LET front == Head(queue)
        rest  == Tail(queue) IN
    /\ at[t] = "idle"
    /\ StrandIsFree
    /\ op[b] \in {"ok", "failed"}
    /\ op' = [op EXCEPT ![b] = "done"]
    /\ released' = Append(released, front)
    /\ timer' = IF timer[front] = "armed" THEN [timer EXCEPT ![front] = "off"] ELSE timer
    /\ queue' = rest
    /\ IF op[b] = "ok"
       THEN WriteNext(t, rest) /\ errors' = errors
       ELSE Finished(t) /\ errors' = errors + 1
    /\ UNCHANGED <<posted, timeoutReached, late, reports, streamFailed, sent, scheduled, accepted>>

DeadlinePasses(b) ==
    /\ b \in WithDeadline \ late
    /\ late' = late \cup {b}
    /\ UNCHANGED <<control, queue, timeoutReached, timer, reports, stream, scheduled, accepted, released, errors>>

(* The timer expires: its handler is queued in the io_context with success.   *)
TimerExpires(b) ==
    /\ timer[b] = "armed"
    /\ b \in late
    /\ timer' = [timer EXCEPT ![b] = "fired"]
    /\ UNCHANGED <<control, queue, timeoutReached, late, reports, stream, scheduled, accepted, released, errors>>

(* The timer's handler, which no strand wraps: onTimeoutReached tests the flag ... *)
TimerHandler(t, b) ==
    /\ at[t] = "idle"
    /\ timer[b] = "fired"
    /\ timer' = [timer EXCEPT ![b] = "off"]
    /\ GotoUnlessTimedOut(t, "timerHandler", b)
    /\ UNCHANGED <<posted, queue, timeoutReached, late, reports, stream, scheduled, accepted, released, errors>>

(* ... and then sets it and calls writeTaskTimeoutHandler.                    *)
ReportTimeout(t) ==
    /\ at[t] \in {"timedOut", "timerHandler"}
    /\ timeoutReached' = TRUE
    /\ reports' = reports + 1
    /\ Finished(t)
    /\ UNCHANGED <<posted, queue, timer, late, stream, scheduled, accepted, released, errors>>
-----------------------------------------------------------------------------
ThreadStep(t) ==
    \/ Dequeue(t)
    \/ RefuseBatch(t)
    \/ QueueBatchWrite(t)
    \/ DoWrite(t)
    \/ AsyncWrite(t)
    \/ \E b \in Batches : WriteDone(t, b)
    \/ \E b \in Batches : TimerHandler(t, b)
    \/ ReportTimeout(t)

Next ==
    \/ \E b \in Batches : ScheduleWrite(b)
    \/ \E t \in Threads : ThreadStep(t)
    \/ \E b \in Batches : StreamWrites(b)
    \/ \E b \in Batches : StreamFails(b)
    \/ \E b \in Batches : DeadlinePasses(b)
    \/ \E b \in Batches : TimerExpires(b)

Spec == Init /\ [][Next]_vars

(* The io_context's threads keep running and the clock keeps ticking; nothing *)
(* is said of the network, nor of the application.                            *)
Fairness ==
    /\ \A t \in Threads : WF_vars(ThreadStep(t))
    /\ \A b \in Batches : WF_vars(DeadlinePasses(b)) /\ WF_vars(TimerExpires(b))

FairSpec == Spec /\ Fairness

(* And the peer keeps reading, or the connection breaks.                      *)
NetworkFairness == \A b \in Batches : WF_vars(StreamWrites(b) \/ StreamFails(b))

FairNetworkSpec == FairSpec /\ NetworkFairness
-----------------------------------------------------------------------------
(* writeDone works on writeTasksQueue.front() (lines 110, 118, 122) and not on *)
(* the operation that completed: whatever is under way on the stream, and     *)
(* there is one thing at most, must belong to the front batch.                *)
InFlightIsFront ==
    \A b \in Batches :
        op[b] \in {"pending", "ok", "failed"} =>
            /\ queue # <<>>
            /\ queue[1] = b
            /\ \A c \in Batches \ {b} : op[c] \notin {"pending", "ok", "failed"}

(* A task's handler releases the memory of its buffer (async_writer.hpp:56):  *)
(* it is called once per batch, and never before the batch's write is over.   *)
ReleasedAfterWrite ==
    /\ \A i \in 1 .. Len(released) : op[released[i]] = "done"
    /\ IsInjective(released)

(* The peer receives the batches in the order they entered the strand, none   *)
(* missing and none twice, whatever timeouts, failures and threads do.        *)
SentInOrder == IsPrefix(sent, accepted)

(* With one io thread (as in test/test_base.hpp:34-47), they enter the strand *)
(* in the order of the scheduleWrite calls, so that order is the peer's.      *)
SentAsScheduled == IsPrefix(sent, scheduled)

(* A writer with work never goes quiet: unless the timeout was reached or the *)
(* stream failed, a batch in the queue is being written or a thread is about  *)
(* to write it, the front one in both cases.                                  *)
NeverStuck ==
    queue # <<>> /\ ~timeoutReached /\ ~streamFailed =>
        \/ op[queue[1]] \in {"pending", "ok"}
        \/ \E t \in Threads : at[t] \in {"doWrite", "asyncWrite"} /\ holds[t] = queue[1]

(* After onTimeoutReached no write is started, neither for a batch queued     *)
(* later nor for those that were queued (lines 48, 88). With more than one    *)
(* io thread a write may slip in between the test and the flag.               *)
TimeoutIsFinal ==
    [][timeoutReached => \A b \in Batches : op'[b] = "pending" => op[b] = "pending"]_vars

(* writeTaskTimeoutHandler is called once, however many deadlines are missed  *)
(* (the flag's purpose at line 148; test/test_messages.cpp:496-499 sets a     *)
(* promise in the handler, which throws the second time).                     *)
TimeoutReportedOnce == reports <= 1

(* The writer is an ordered channel: it implements WriteChannel. A write is   *)
(* in transit from the test in doWrite until the stream ends it.              *)
Channel == INSTANCE WriteChannel WITH
    Messages  <- Batches,
    offered   <- accepted,
    delivered <- sent,
    closed    <- timeoutReached \/ streamFailed,
    inTransit <- /\ ~streamFailed
                 /\ \/ \E t \in Threads : at[t] = "asyncWrite"
                    \/ \E b \in Batches : op[b] = "pending"

ImplementsChannel == Channel!Spec

Answered(b) == Contains(released, b) \/ reports > 0 \/ errors > 0

(* A batch with a deadline is never forgotten, even when the network stalls   *)
(* forever: its memory is released or the application hears of the timeout or *)
(* of the error. (Handlers at line 112, 151, 137.)                            *)
DeadlineAnswered == \A b \in WithDeadline : Contains(scheduled, b) ~> Answered(b)

(* And so is every other batch, when the peer keeps reading or disconnects.   *)
EveryBatchAnswered == \A b \in Batches : Contains(scheduled, b) ~> Answered(b)
=============================================================================
