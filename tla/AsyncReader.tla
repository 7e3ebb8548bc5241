----------------------------- MODULE AsyncReader -----------------------------
(***************************************************************************)
(* AsyncReader (src/async_reader.cpp, include/native_streaming/            *)
(* async_reader.hpp): a read sequence is a chain of tasks, each of which   *)
(* asks for a number of bytes and whose handler returns the next task or   *)
(* the null task. Bytes beyond a task's need stay in the read buffer and   *)
(* may satisfy the next task without touching the stream.                  *)
(*                                                                         *)
(* One thread runs the io_context (test/test_base.hpp:34-47). scheduleRead *)
(* writes pendingTask on the caller's thread (line 33) and the io thread   *)
(* reads and writes it in readDone (lines 62-68), so readDone is cut where *)
(* the caller can come in between. Payload is counted, not stored.         *)
(***************************************************************************)
EXTENDS Naturals, Sequences, SequencesExt

CONSTANTS
    Sizes,      \* the bytes each task of each read sequence asks for
    PeerBytes,  \* how many bytes the peer sends
    Eager       \* may the application schedule a sequence as soon as the last
                \* handler of the previous one has run? (or only from the io
                \* thread, between two handlers)

ASSUME ReaderAssumption ==
    /\ Sizes \in Seq(Seq(Nat \ {0}) \ {<<>>})
    /\ PeerBytes \in Nat
    /\ Eager \in BOOLEAN

VARIABLES
    wire,           \* bytes that arrived and were not read yet
    buffered,       \* bytes in the read buffer
    consumed,       \* bytes taken out of the read buffer
    pendingTask,
    posted,         \* doRead handlers in the io_context
    reads,          \* what each async_read under way still has to transfer
    completions,    \* results of the async_reads that ended
    at,             \* what the io thread is about to execute
    current,        \* the task whose handler runs, or has just run
    streamFailed,
    caller,         \* the application's thread: has it posted what it assigned?
    \* history, which guards only the application
    started,        \* how many sequences have been scheduled
    calls,          \* the handlers called and the bytes they could see
    errors          \* calls of errorHandler

buffer      == <<wire, buffered, consumed>>
io          == <<posted, reads, completions, at, current>>
ops         == <<posted, reads, completions>>
application == <<caller, started>>
history     == <<calls, errors>>
vars == <<wire, buffered, consumed, pendingTask, posted, reads, completions, at, current,
          streamFailed, caller, started, calls, errors>>

Tasks == UNION {{<<s, i>> : i \in 1 .. Len(Sizes[s])} : s \in 1 .. Len(Sizes)}
NullTask == <<0, 0>>

GetSize(task) == IF task = NullTask THEN 0 ELSE Sizes[task[1]][task[2]]

\* Mutant: one task too many.
NextTaskBeyond(task) == <<task[1], task[2] + 1>>

\* Mutant: the task is not replaced.
NextTaskSame(task) == task

(* What the handler of a task returns.                                        *)
NextTask(task) ==
    IF task[2] < Len(Sizes[task[1]]) THEN <<task[1], task[2] + 1>> ELSE NullTask

TypeOK ==
    /\ wire \in 0 .. PeerBytes
    /\ buffered \in 0 .. PeerBytes
    /\ consumed \in Nat
    /\ pendingTask \in Tasks \cup {NullTask}
    /\ posted \in Nat
    /\ reads \in Seq(Nat)
    /\ completions \in Seq({"ok", "failed"})
    /\ at \in {"idle", "readDone", "handler", "assigned", "crashed"}
    /\ current \in Tasks \cup {NullTask}
    /\ streamFailed \in BOOLEAN
    /\ caller \in {"idle", "assigned"}
    /\ started \in 0 .. Len(Sizes)
    /\ calls \in Seq([task : Tasks, from : Nat, upto : Nat])
    /\ errors \in Nat

Init ==
    /\ wire = 0
    /\ buffered = 0
    /\ consumed = 0
    /\ pendingTask = NullTask
    /\ posted = 0
    /\ reads = <<>>
    /\ completions = <<>>
    /\ at = "idle"
    /\ current = NullTask
    /\ streamFailed = FALSE
    /\ caller = "idle"
    /\ started = 0
    /\ calls = <<>>
    /\ errors = 0
-----------------------------------------------------------------------------
(* The last handler of sequence s has run, which is all its owner can see.    *)
LastHandlerRan(s) ==
    s = 0 \/ \E k \in 1 .. Len(calls) : calls[k].task = <<s, Len(Sizes[s])>>

Quiet == at = "idle" /\ posted = 0 /\ reads = <<>> /\ completions = <<>>

MaySchedule ==
    \/ Eager /\ LastHandlerRan(started)
    \/ Quiet

(* scheduleRead: the task is stored by the caller ...                         *)
ScheduleRead ==
    /\ caller = "idle"
    /\ started < Len(Sizes)
    /\ MaySchedule
    /\ started' = started + 1
    /\ pendingTask' = <<started + 1, 1>>
    /\ caller' = "assigned"
    /\ UNCHANGED <<buffer, io, streamFailed, history>>

(* ... and a doRead handler is posted.                                        *)
PostRead ==
    /\ caller = "assigned"
    /\ posted' = posted + 1
    /\ caller' = "idle"
    /\ UNCHANGED <<buffer, pendingTask, reads, completions, at, current, streamFailed, started, history>>

\* Mutant: bytes are read ahead for a task that the buffer serves.
ReadAhead(size, have) ==
    IF have >= size
    THEN at' = "readDone" /\ reads' = Append(reads, 1)
    ELSE at' = "idle" /\ reads' = Append(reads, size - have)

\* Mutant: the bytes in the buffer do not count.
ReadAll(size, have) ==
    IF have >= size
    THEN at' = "readDone" /\ reads' = reads
    ELSE at' = "idle" /\ reads' = Append(reads, size)

(* read: served from the have bytes of the buffer on the spot, or an          *)
(* async_read for the rest.                                                   *)
Read(size, have) ==
    IF have >= size
    THEN at' = "readDone" /\ reads' = reads
    ELSE at' = "idle" /\ reads' = Append(reads, size - have)

DoRead ==
    /\ at = "idle"
    /\ posted > 0
    /\ posted' = posted - 1
    /\ Read(GetSize(pendingTask), buffered)
    /\ UNCHANGED <<buffer, pendingTask, completions, current, streamFailed, application, history>>

BytesArrive ==
    /\ wire + buffered + consumed < PeerBytes
    /\ ~streamFailed
    /\ wire' = wire + 1
    /\ UNCHANGED <<buffered, consumed, pendingTask, io, streamFailed, application, history>>

(* async_read transfers at least what is missing, and whatever else is there. *)
ReadCompletes(i) ==
    /\ ~streamFailed
    /\ \E n \in reads[i] .. wire :
        /\ wire' = wire - n
        /\ buffered' = buffered + n
    /\ reads' = RemoveAt(reads, i)
    /\ completions' = Append(completions, "ok")
    /\ UNCHANGED <<consumed, pendingTask, posted, at, current, streamFailed, application, history>>

(* It fails, with part of the bytes in the buffer.                            *)
ReadFails(i) ==
    /\ \E n \in 0 .. wire :
        /\ n < reads[i]
        /\ wire' = wire - n
        /\ buffered' = buffered + n
    /\ reads' = RemoveAt(reads, i)
    /\ completions' = Append(completions, "failed")
    /\ streamFailed' = TRUE
    /\ UNCHANGED <<consumed, pendingTask, posted, at, current, application, history>>

(* readDone up to the call of the handler; a null one cannot be called.       *)
CallHandler ==
    /\ current' = pendingTask
    /\ IF pendingTask = NullTask
       THEN /\ at' = "crashed"
            /\ calls' = calls
       ELSE /\ at' = "handler"
            /\ calls' = Append(calls, [task |-> pendingTask, from |-> consumed,
                                       upto |-> consumed + buffered])

ReadDoneSynchronously ==
    /\ at = "readDone"
    /\ CallHandler
    /\ UNCHANGED <<buffer, pendingTask, ops, streamFailed, application, errors>>

ReadDone ==
    /\ at = "idle"
    /\ completions # <<>>
    /\ Head(completions) = "ok"
    /\ completions' = Tail(completions)
    /\ CallHandler
    /\ UNCHANGED <<buffer, pendingTask, posted, reads, streamFailed, application, errors>>

ReadDoneWithError ==
    /\ at = "idle"
    /\ completions # <<>>
    /\ Head(completions) = "failed"
    /\ completions' = Tail(completions)
    /\ errors' = errors + 1
    /\ UNCHANGED <<buffer, pendingTask, posted, reads, at, current, streamFailed, application, calls>>

(* The handler's result becomes the pending task ...                          *)
HandlerReturns ==
    /\ at = "handler"
    /\ pendingTask' = NextTask(current)
    /\ at' = "assigned"
    /\ UNCHANGED <<buffer, ops, current, streamFailed, application, history>>

\* Mutant: the whole buffer is consumed.
ConsumeAll(size) == buffered

(* streambuf::consume removes all there is, if there is less.                 *)
Consume(size) == Min({size, buffered})

(* ... the bytes it saw are consumed, and the pending task, if there is one,  *)
(* is read.                                                                   *)
ContinueSequence ==
    LET used == Consume(GetSize(current)) IN
    /\ at = "assigned"
    /\ consumed' = consumed + used
    /\ buffered' = buffered - used
    /\ IF pendingTask # NullTask
       THEN Read(GetSize(pendingTask), buffered - used)
       ELSE at' = "idle" /\ reads' = reads
    /\ UNCHANGED <<wire, pendingTask, posted, completions, current, streamFailed, application, history>>
-----------------------------------------------------------------------------
IoThread ==
    \/ DoRead
    \/ ReadDoneSynchronously
    \/ ReadDone
    \/ ReadDoneWithError
    \/ HandlerReturns
    \/ ContinueSequence

SomeReadCompletes == \E i \in 1 .. Len(reads) : ReadCompletes(i)

SomeReadFails == \E i \in 1 .. Len(reads) : ReadFails(i)

Next ==
    \/ ScheduleRead
    \/ PostRead
    \/ IoThread
    \/ BytesArrive
    \/ SomeReadCompletes
    \/ SomeReadFails

Spec == Init /\ [][Next]_vars
-----------------------------------------------------------------------------
(* Every handler sees the bytes right after those of the handler before it:   *)
(* none lost, none twice, and as many as it asked for, whether they came from *)
(* the buffer or from the stream (lines 17-26, 62-66).                        *)
HandlersSeeTheStream ==
    \A k \in 1 .. Len(calls) :
        LET size == GetSize(calls[k].task) IN
        /\ calls[k].from + size <= calls[k].upto
        /\ k = 1 => calls[k].from = 0
        /\ k < Len(calls) => calls[k + 1].from = calls[k].from + size

(* The handlers run as their sequences chain them: the next one is the task   *)
(* that the handler returned, or the entry task of a later sequence after the *)
(* last handler of the sequence or an error.                                  *)
HandlersFollowTheChain ==
    \A k \in 1 .. Len(calls) - 1 :
        LET last == calls[k].task
            next == calls[k + 1].task IN
        \/ next = <<last[1], last[2] + 1>>
        \/ /\ next[1] > last[1]
           /\ next[2] = 1
           /\ last[2] = Len(Sizes[last[1]]) \/ errors > 0

(* Only one thing drives the reader at a time: a posted doRead, an async_read *)
(* or the handler of one. Two async_reads on one stream are not allowed, and  *)
(* one beside a handler would move the bytes data() points to (line 65).      *)
OneDriver ==
    posted + Len(reads) + Len(completions) + (IF at = "idle" THEN 0 ELSE 1) <= 1

(* A null handler marks the end of a read sequence and is never called        *)
(* (async_reader.hpp:31, async_reader.cpp:68).                                *)
NullHandlerNeverCalled == at # "crashed"
=============================================================================
