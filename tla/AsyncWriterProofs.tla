-------------------------- MODULE AsyncWriterProofs --------------------------
(***************************************************************************)
(* Proofs about AsyncWriter, for any batches, deadlines and io threads.    *)
(*                                                                         *)
(* The properties of the writer are about what threads do between their    *)
(* tests and their acts, so none is inductive alone. The inductive         *)
(* invariant adds what ties the strand to the queue: whoever is about to   *)
(* write holds the front batch and nothing is in flight (WriterHasFront),  *)
(* the queue is what is left of the accepted batches (QueueIsRest), and,   *)
(* until the stream fails, the sent batches are the released ones and, for *)
(* as long as its completion is not handled, the front one (SentSoFar).    *)
(***************************************************************************)
EXTENDS AsyncWriter, SequenceTheorems, TLAPS

Active(b) == op[b] \in {"pending", "ok", "failed"}

InStrand(t) == at[t] \in {"doWrite", "asyncWrite", "timedOut"}

(* A thread that is busy is busy with a batch.                                *)
BusyHasBatch == \A t \in Threads : at[t] # "idle" => holds[t] \in Batches

(* One thread at most is in the strand.                                       *)
StrandExcludes == \A t, u \in Threads : InStrand(t) /\ InStrand(u) => t = u

(* Whoever is about to write holds the front batch, with nothing in flight.   *)
WriterHasFront ==
    \A t \in Threads :
        at[t] \in {"doWrite", "asyncWrite"} =>
            /\ queue # <<>>
            /\ holds[t] = queue[1]
            /\ \A b \in Batches : ~Active(b)

(* The queue is what is left of the accepted batches.                         *)
QueueIsRest == accepted = released \o queue

(* What was sent is a prefix of what was accepted and, while the stream is     *)
(* well, it is what was released and the batch whose completion is pending.   *)
SentSoFar ==
    /\ \E rest \in Seq(Batches) : accepted = sent \o rest
    /\ \A b \in Batches : op[b] = "failed" => streamFailed
    /\ ~streamFailed =>
        /\ \A b \in Batches : op[b] = "ok" => sent = Append(released, b)
        /\ (\A b \in Batches : op[b] # "ok") => sent = released

TypePart   == TypeOK /\ BusyHasBatch
StrandPart == StrandExcludes /\ WriterHasFront /\ InFlightIsFront
QueuePart  == QueueIsRest /\ SentSoFar

IInv == TypePart /\ StrandPart /\ QueuePart

(* What is appended to a concatenation is appended to its second part.       *)
LEMMA AppendRight ==
    \A s, u \in Seq(Batches), x \in Batches : Append(s \o u, x) = s \o Append(u, x)
  <1> TAKE s, u \in Seq(Batches), x \in Batches
  <1>1. <<x>> \in Seq(Batches) /\ s \o u \in Seq(Batches)
    BY ConcatProperties
  <1>2. Append(s \o u, x) = (s \o u) \o <<x>> /\ Append(u, x) = u \o <<x>>
    BY <1>1, AppendIsConcat
  <1> QED
    BY <1>1, <1>2, ConcatAssociative

(* The head of the second part of a concatenation may move to the first.     *)
LEMMA ShiftHead ==
    \A s, u \in Seq(Batches) : u # <<>> => s \o u = Append(s, Head(u)) \o Tail(u)
  <1> TAKE s, u \in Seq(Batches)
  <1> HAVE u # <<>>
  <1>1. Head(u) \in Batches /\ Tail(u) \in Seq(Batches) /\ <<Head(u)>> \in Seq(Batches)
    BY HeadTailProperties
  <1>2. u = <<Head(u)>> \o Tail(u)
    BY <1>1
  <1>3. Append(s, Head(u)) = s \o <<Head(u)>>
    BY <1>1, AppendIsConcat
  <1> QED
    BY <1>1, <1>2, <1>3, ConcatAssociative

(* The constructor's state satisfies the invariant.                           *)
LEMMA InitEstablishes == Init => IInv
  <1> SUFFICES ASSUME Init PROVE IInv
    OBVIOUS
  <1> USE DEF Init, InitWith
  <1>1. TypeOK
    <2>1. <<>> \in Seq(Batches)
      OBVIOUS
    <2>2. at \in [Threads -> Places] /\ holds \in [Threads -> Batches \cup {None}]
      BY DEF Places
    <2>3. /\ timer \in [Batches -> {"off", "armed", "fired"}]
          /\ op \in [Batches -> {"none", "pending", "ok", "failed", "done"}]
      OBVIOUS
    <2> QED
      BY <2>1, <2>2, <2>3, Zenon DEF TypeOK
  <1>2. BusyHasBatch /\ StrandExcludes /\ WriterHasFront
    BY DEF BusyHasBatch, StrandExcludes, InStrand, WriterHasFront
  <1>3. InFlightIsFront /\ QueueIsRest
    BY DEF InFlightIsFront, QueueIsRest
  <1>4. SentSoFar
    <2>1. <<>> \in Seq(Batches) /\ <<>> = <<>> \o <<>>
      OBVIOUS
    <2>2. \E rest \in Seq(Batches) : accepted = sent \o rest
      BY <2>1
    <2> QED
      BY <2>2 DEF SentSoFar
  <1> QED
    BY <1>1, <1>2, <1>3, <1>4 DEF IInv, TypePart, StrandPart, QueuePart

USE DEF control, deadline, stream

(* No step takes a variable out of its type, or leaves a thread with nothing   *)
(* to work on: writeDone, say, never finds the queue empty.                   *)
LEMMA TypePreserved == IInv /\ [Next]_vars => TypePart'
  <1> SUFFICES ASSUME IInv, [Next]_vars PROVE TypePart'
    OBVIOUS
  <1> USE DEF IInv, TypePart, TypeOK, Places, BusyHasBatch, Goto, Finished
  <1>1. ASSUME NEW b \in Batches, ScheduleWrite(b) PROVE TypePart'
    BY <1>1 DEF ScheduleWrite
  <1>2. ASSUME NEW t \in Threads, Dequeue(t) PROVE TypePart'
    BY <1>2 DEF Dequeue
  <1>3. ASSUME NEW t \in Threads, RefuseBatch(t) PROVE TypePart'
    BY <1>3 DEF RefuseBatch
  <1>4. ASSUME NEW t \in Threads, QueueBatchWrite(t) PROVE TypePart'
    <2>1. holds[t] \in Batches
      BY <1>4 DEF QueueBatchWrite
    <2>2. queue' \in Seq(Batches) /\ accepted' \in Seq(Batches)
      BY <1>4, <2>1 DEF QueueBatchWrite
    <2>3. timer' \in [Batches -> {"off", "armed", "fired"}]
      BY <1>4 DEF QueueBatchWrite, SetupDeadlineTimer
    <2>4. at' \in [Threads -> Places] /\ holds' \in [Threads -> Batches \cup {None}] /\ BusyHasBatch'
      BY <1>4, <2>1 DEF QueueBatchWrite, WriteIfFirst
    <2> QED
      BY <1>4, <2>2, <2>3, <2>4 DEF QueueBatchWrite
  <1>5. ASSUME NEW t \in Threads, DoWrite(t) PROVE TypePart'
    BY <1>5 DEF DoWrite, GotoUnlessTimedOut
  <1>6. ASSUME NEW t \in Threads, AsyncWrite(t) PROVE TypePart'
    BY <1>6 DEF AsyncWrite, BatchToWrite
  <1>7. ASSUME NEW t \in Threads, NEW b \in Batches, WriteDone(t, b) PROVE TypePart'
    <2>1. queue # <<>>
      BY <1>7 DEF WriteDone, StrandPart, InFlightIsFront
    <2>2. Head(queue) \in Batches /\ Tail(queue) \in Seq(Batches)
      BY <2>1, HeadTailProperties
    <2>3. Tail(queue) # <<>> => Head(Tail(queue)) \in Batches
      BY <2>2, HeadTailProperties
    <2>4. queue' \in Seq(Batches) /\ released' \in Seq(Batches)
      BY <1>7, <2>2 DEF WriteDone
    <2>5. at' \in [Threads -> Places] /\ holds' \in [Threads -> Batches \cup {None}] /\ BusyHasBatch'
      BY <1>7, <2>2, <2>3 DEF WriteDone, WriteNext
    <2>6. timer' \in [Batches -> {"off", "armed", "fired"}] /\ errors' \in Nat
      BY <1>7, <2>2 DEF WriteDone
    <2>7. op' \in [Batches -> {"none", "pending", "ok", "failed", "done"}]
      BY <1>7 DEF WriteDone
    <2> QED
      BY <1>7, <2>4, <2>5, <2>6, <2>7 DEF WriteDone
  <1>8. ASSUME NEW t \in Threads, NEW b \in Batches, TimerHandler(t, b) PROVE TypePart'
    BY <1>8 DEF TimerHandler, GotoUnlessTimedOut
  <1>9. ASSUME NEW t \in Threads, ReportTimeout(t) PROVE TypePart'
    BY <1>9 DEF ReportTimeout
  <1>10. ASSUME NEW b \in Batches, StreamWrites(b) PROVE TypePart'
    BY <1>10 DEF StreamWrites
  <1>11. ASSUME NEW b \in Batches, StreamFails(b) PROVE TypePart'
    BY <1>11 DEF StreamFails
  <1>12. ASSUME NEW b \in Batches, DeadlinePasses(b) PROVE TypePart'
    BY <1>12 DEF DeadlinePasses
  <1>13. ASSUME NEW b \in Batches, TimerExpires(b) PROVE TypePart'
    BY <1>13 DEF TimerExpires
  <1>14. CASE UNCHANGED vars
    BY <1>14 DEF vars
  <1> QED
    BY <1>1, <1>2, <1>3, <1>4, <1>5, <1>6, <1>7, <1>8, <1>9, <1>10, <1>11, <1>12, <1>13, <1>14
       DEF Next, ThreadStep

(* No step puts a second thread in the strand or a second write on the stream. *)
LEMMA StrandPreserved == IInv /\ [Next]_vars => StrandPart'
  <1> SUFFICES ASSUME IInv, [Next]_vars PROVE StrandPart'
    OBVIOUS
  <1> USE DEF IInv, TypePart, TypeOK, BusyHasBatch, StrandPart, StrandExcludes, InStrand, WriterHasFront,
              Active, InFlightIsFront, StrandIsFree, Goto, Finished
  <1>1. ASSUME NEW b \in Batches, ScheduleWrite(b) PROVE StrandPart'
    BY <1>1 DEF ScheduleWrite
  <1>2. ASSUME NEW t \in Threads, Dequeue(t) PROVE StrandPart'
    BY <1>2 DEF Dequeue
  <1>3. ASSUME NEW t \in Threads, RefuseBatch(t) PROVE StrandPart'
    BY <1>3 DEF RefuseBatch
  <1>4. ASSUME NEW t \in Threads, QueueBatchWrite(t) PROVE StrandPart'
    <2> USE <1>4 DEF QueueBatchWrite
    <2>1. holds[t] \in Batches /\ queue' = Append(queue, holds[t]) /\ op' = op
      OBVIOUS
    <2>2. queue' # <<>> /\ queue'[1] = IF queue = <<>> THEN holds[t] ELSE queue[1]
      BY <2>1
    <2>3. \A u \in Threads : u # t => at'[u] = at[u] /\ at[u] \notin {"doWrite", "asyncWrite", "timedOut"}
      BY DEF WriteIfFirst
    <2>4. StrandExcludes'
      BY <2>3 DEF WriteIfFirst
    <2>5. at'[t] \in {"doWrite", "asyncWrite"} => queue = <<>> /\ holds'[t] = holds[t]
      BY DEF WriteIfFirst
    <2>6. WriterHasFront'
      BY <2>1, <2>2, <2>3, <2>5
    <2>7. InFlightIsFront'
      BY <2>1, <2>2
    <2> QED
      BY <2>4, <2>6, <2>7
  <1>5. ASSUME NEW t \in Threads, DoWrite(t) PROVE StrandPart'
    <2>1. /\ at[t] = "doWrite"
          /\ at'[t] \in {"idle", "asyncWrite"}
          /\ at'[t] = "asyncWrite" => holds'[t] = holds[t]
          /\ UNCHANGED <<queue, op>>
      BY <1>5 DEF DoWrite, GotoUnlessTimedOut
    <2>2. \A u \in Threads : u # t => at'[u] = at[u] /\ holds'[u] = holds[u]
      BY <1>5 DEF DoWrite, GotoUnlessTimedOut
    <2>3. StrandExcludes'
      BY <2>1, <2>2
    <2>4. WriterHasFront'
      BY <2>1, <2>2
    <2>5. InFlightIsFront'
      BY <2>1
    <2> QED
      BY <2>3, <2>4, <2>5
  <1>6. ASSUME NEW t \in Threads, AsyncWrite(t) PROVE StrandPart'
    BY <1>6 DEF AsyncWrite, BatchToWrite
  <1>7. ASSUME NEW t \in Threads, NEW b \in Batches, WriteDone(t, b) PROVE StrandPart'
    <2>1. \A c \in Batches : op'[c] \notin {"pending", "ok", "failed"}
      BY <1>7 DEF WriteDone
    <2>2. \A u \in Threads : u # t => at'[u] = at[u] /\ at[u] \notin {"doWrite", "asyncWrite", "timedOut"}
      BY <1>7 DEF WriteDone, WriteNext
    <2>3. at'[t] \in {"idle", "doWrite"}
      BY <1>7 DEF WriteDone, WriteNext
    <2>4. at'[t] = "doWrite" => queue' # <<>> /\ holds'[t] = Head(queue')
      BY <1>7 DEF WriteDone, WriteNext
    <2>5. queue' \in Seq(Batches)
      BY TypePreserved
    <2>6. StrandExcludes'
      BY <2>2
    <2>7. queue' # <<>> => Head(queue') = queue'[1]
      BY <2>5
    <2>8. WriterHasFront'
      BY <2>1, <2>2, <2>3, <2>4, <2>7
    <2>9. InFlightIsFront'
      BY <2>1
    <2> QED
      BY <2>6, <2>8, <2>9
  <1>8. ASSUME NEW t \in Threads, NEW b \in Batches, TimerHandler(t, b) PROVE StrandPart'
    <2>1. at'[t] \in {"idle", "timerHandler"} /\ UNCHANGED <<queue, op>>
      BY <1>8 DEF TimerHandler, GotoUnlessTimedOut
    <2>2. \A u \in Threads : u # t => at'[u] = at[u] /\ holds'[u] = holds[u]
      BY <1>8 DEF TimerHandler, GotoUnlessTimedOut
    <2>3. \A u \in Threads : InStrand(u)' => u # t /\ InStrand(u)
      BY <2>1, <2>2
    <2>4. StrandExcludes'
      BY <2>3
    <2>5. WriterHasFront'
      BY <2>1, <2>2
    <2>6. InFlightIsFront'
      BY <2>1
    <2> QED
      BY <2>4, <2>5, <2>6
  <1>9. ASSUME NEW t \in Threads, ReportTimeout(t) PROVE StrandPart'
    BY <1>9 DEF ReportTimeout
  <1>10. ASSUME NEW b \in Batches, StreamWrites(b) PROVE StrandPart'
    BY <1>10 DEF StreamWrites
  <1>11. ASSUME NEW b \in Batches, StreamFails(b) PROVE StrandPart'
    BY <1>11 DEF StreamFails
  <1>12. ASSUME NEW b \in Batches, DeadlinePasses(b) PROVE StrandPart'
    BY <1>12 DEF DeadlinePasses
  <1>13. ASSUME NEW b \in Batches, TimerExpires(b) PROVE StrandPart'
    BY <1>13 DEF TimerExpires
  <1>14. CASE UNCHANGED vars
    BY <1>14 DEF vars
  <1> QED
    BY <1>1, <1>2, <1>3, <1>4, <1>5, <1>6, <1>7, <1>8, <1>9, <1>10, <1>11, <1>12, <1>13, <1>14
       DEF Next, ThreadStep

(* No step loses, repeats or reorders a batch between the queue and the peer.  *)
LEMMA QueuePreserved == IInv /\ [Next]_vars => QueuePart'
  <1> SUFFICES ASSUME IInv, [Next]_vars PROVE QueuePart'
    OBVIOUS
  <1> USE DEF IInv, TypePart, TypeOK, BusyHasBatch, StrandPart, WriterHasFront, Active, InFlightIsFront,
              QueuePart, QueueIsRest, SentSoFar
  <1>1. ASSUME NEW b \in Batches, ScheduleWrite(b) PROVE QueuePart'
    BY <1>1 DEF ScheduleWrite
  <1>2. ASSUME NEW t \in Threads, Dequeue(t) PROVE QueuePart'
    BY <1>2 DEF Dequeue
  <1>3. ASSUME NEW t \in Threads, RefuseBatch(t) PROVE QueuePart'
    BY <1>3 DEF RefuseBatch
  <1>4. ASSUME NEW t \in Threads, QueueBatchWrite(t) PROVE QueuePart'
    <2> DEFINE b == holds[t]
    <2>1. /\ b \in Batches
          /\ queue' = Append(queue, b)
          /\ accepted' = Append(accepted, b)
          /\ UNCHANGED <<released, sent, op, streamFailed>>
      BY <1>4 DEF QueueBatchWrite
    <2>2. QueueIsRest'
      <3>1. released \in Seq(Batches) /\ queue \in Seq(Batches) /\ accepted = released \o queue
        OBVIOUS
      <3> HIDE DEF IInv, b
      <3>2. Append(released \o queue, b) = released \o Append(queue, b)
        BY <2>1, <3>1, AppendRight
      <3> QED
        BY <2>1, <3>1, <3>2
    <2>3. \E rest \in Seq(Batches) : accepted' = sent' \o rest
      <3>1. PICK rest \in Seq(Batches) : accepted = sent \o rest
        OBVIOUS
      <3>2. sent \in Seq(Batches) /\ rest \in Seq(Batches) /\ b \in Batches
        BY <2>1, <3>1
      <3> HIDE DEF IInv
      <3>3. Append(sent \o rest, b) = sent \o Append(rest, b)
        BY <3>2, AppendRight
      <3>4. Append(rest, b) \in Seq(Batches)
        BY <2>1, <3>1, AppendProperties
      <3> QED
        BY <2>1, <3>1, <3>3, <3>4
    <2> QED
      BY <2>1, <2>2, <2>3
  <1>5. ASSUME NEW t \in Threads, DoWrite(t) PROVE QueuePart'
    BY <1>5 DEF DoWrite, GotoUnlessTimedOut
  <1>6. ASSUME NEW t \in Threads, AsyncWrite(t) PROVE QueuePart'
    BY <1>6 DEF AsyncWrite, BatchToWrite
  <1>7. ASSUME NEW t \in Threads, NEW b \in Batches, WriteDone(t, b) PROVE QueuePart'
    <2>1. /\ queue # <<>>
          /\ Head(queue) = b
          /\ \A c \in Batches \ {b} : op[c] \notin {"pending", "ok", "failed"}
      BY <1>7 DEF WriteDone
    <2>2. /\ released' = Append(released, b)
          /\ queue' = Tail(queue)
          /\ UNCHANGED <<accepted, sent, streamFailed>>
          /\ op' = [op EXCEPT ![b] = "done"]
      BY <1>7, <2>1 DEF WriteDone
    <2>3. QueueIsRest'
      <3>1. released \in Seq(Batches) /\ queue \in Seq(Batches) /\ accepted = released \o queue
        OBVIOUS
      <3>2. released \o queue = Append(released, Head(queue)) \o Tail(queue)
        BY <2>1, <3>1, ShiftHead
      <3> QED
        BY <2>1, <2>2, <3>1, <3>2
    <2>4. \A c \in Batches : op'[c] \notin {"ok", "failed"}
      BY <2>1, <2>2
    <2>5. ~streamFailed => sent = Append(released, b)
      BY <1>7 DEF WriteDone
    <2>6. SentSoFar'
      BY <2>2, <2>4, <2>5
    <2> QED
      BY <2>3, <2>6
  <1>8. ASSUME NEW t \in Threads, NEW b \in Batches, TimerHandler(t, b) PROVE QueuePart'
    BY <1>8 DEF TimerHandler, GotoUnlessTimedOut
  <1>9. ASSUME NEW t \in Threads, ReportTimeout(t) PROVE QueuePart'
    BY <1>9 DEF ReportTimeout
  <1>10. ASSUME NEW b \in Batches, StreamWrites(b) PROVE QueuePart'
    <2>1. /\ queue # <<>>
          /\ Head(queue) = b
          /\ \A c \in Batches : op[c] # "ok"
      BY <1>10 DEF StreamWrites
    <2>2. /\ sent' = Append(sent, b)
          /\ op' = [op EXCEPT ![b] = "ok"]
          /\ ~streamFailed
          /\ UNCHANGED <<accepted, released, queue, streamFailed>>
      BY <1>10 DEF StreamWrites
    <2>3. sent = released
      BY <2>1, <2>2
    <2>4. accepted' = sent' \o Tail(queue) /\ Tail(queue) \in Seq(Batches)
      BY <2>1, <2>2, <2>3, ShiftHead, HeadTailProperties
    <2>5. \A c \in Batches : op'[c] = "ok" => sent' = Append(released', c)
      BY <2>1, <2>2, <2>3
    <2>6. SentSoFar'
      BY <2>2, <2>4, <2>5
    <2> QED
      BY <2>2, <2>6
  <1>11. ASSUME NEW b \in Batches, StreamFails(b) PROVE QueuePart'
    BY <1>11 DEF StreamFails
  <1>12. ASSUME NEW b \in Batches, DeadlinePasses(b) PROVE QueuePart'
    BY <1>12 DEF DeadlinePasses
  <1>13. ASSUME NEW b \in Batches, TimerExpires(b) PROVE QueuePart'
    BY <1>13 DEF TimerExpires
  <1>14. CASE UNCHANGED vars
    BY <1>14 DEF vars
  <1> QED
    BY <1>1, <1>2, <1>3, <1>4, <1>5, <1>6, <1>7, <1>8, <1>9, <1>10, <1>11, <1>12, <1>13, <1>14
       DEF Next, ThreadStep

(* The inductive invariant holds in every reachable state.                    *)
THEOREM Invariance == Spec => []IInv
  <1>1. IInv /\ [Next]_vars => IInv'
    BY TypePreserved, StrandPreserved, QueuePreserved DEF IInv
  <1> QED
    BY InitEstablishes, <1>1, PTL DEF Spec

(* The writer's members keep their types: the flag is never uninitialised and  *)
(* no handler runs for a batch that does not exist.                           *)
THEOREM TypeCorrect == Spec => []TypeOK
  <1>1. IInv => TypeOK
    BY DEF IInv, TypePart
  <1> QED
    BY Invariance, <1>1, PTL

(* The completion handler, which pops the front of writeTasksQueue             *)
(* (lines 110-123), always pops the batch whose write completed.              *)
THEOREM FrontInFlight == Spec => []InFlightIsFront
  <1>1. IInv => InFlightIsFront
    BY DEF IInv, StrandPart
  <1> QED
    BY Invariance, <1>1, PTL

(* The peer receives the batches in the order they were queued (line 60), for  *)
(* any number of threads, whatever fails and whichever deadlines pass.        *)
THEOREM Order == Spec => []SentInOrder
  <1>1. IInv => SentInOrder
    <2> SUFFICES ASSUME IInv PROVE SentInOrder
      OBVIOUS
    <2>1. PICK rest \in Seq(Batches) : accepted = sent \o rest
      BY DEF IInv, QueuePart, SentSoFar
    <2>2. sent \in Seq(Batches)
      BY DEF IInv, TypePart, TypeOK
    <2> QED
      BY <2>1, <2>2, ConcatProperties DEF SentInOrder, IsPrefix
  <1> QED
    BY Invariance, <1>1, PTL

(* A step leaves a writer with work at work: the thread that gives up the     *)
(* strand has handed its batch to the stream, or started the next one.        *)
LEMMA WorkPreserved == IInv /\ NeverStuck /\ [Next]_vars => NeverStuck'
  <1> SUFFICES ASSUME IInv, NeverStuck, [Next]_vars PROVE NeverStuck'
    OBVIOUS
  <1> USE DEF IInv, TypePart, TypeOK, BusyHasBatch, StrandPart, StrandExcludes, InStrand, WriterHasFront,
              NeverStuck, StrandIsFree, Goto, Finished
  <1>1. ASSUME NEW b \in Batches, ScheduleWrite(b) PROVE NeverStuck'
    BY <1>1 DEF ScheduleWrite
  <1>2. ASSUME NEW t \in Threads, Dequeue(t) PROVE NeverStuck'
    BY <1>2 DEF Dequeue
  <1>3. ASSUME NEW t \in Threads, RefuseBatch(t) PROVE NeverStuck'
    BY <1>3 DEF RefuseBatch
  <1>4. ASSUME NEW t \in Threads, QueueBatchWrite(t) PROVE NeverStuck'
    <2> USE <1>4 DEF QueueBatchWrite
    <2>1. queue' = Append(queue, holds[t]) /\ holds[t] \in Batches /\ op' = op
      OBVIOUS
    <2>2. CASE queue = <<>>
      <3>1. queue'[1] = holds[t] /\ at'[t] = "doWrite" /\ holds'[t] = holds[t]
        BY <2>1, <2>2 DEF WriteIfFirst
      <3> QED
        BY <3>1
    <2>3. CASE queue # <<>>
      <3>1. queue'[1] = queue[1]
        BY <2>1, <2>3
      <3>2. op[queue[1]] \in {"pending", "ok"} \/ timeoutReached \/ streamFailed
        BY <2>3
      <3> QED
        BY <2>1, <3>1, <3>2
    <2> QED
      BY <2>2, <2>3
  <1>5. ASSUME NEW t \in Threads, DoWrite(t) PROVE NeverStuck'
    BY <1>5 DEF DoWrite, GotoUnlessTimedOut
  <1>6. ASSUME NEW t \in Threads, AsyncWrite(t) PROVE NeverStuck'
    <2>1. queue # <<>> /\ holds[t] = queue[1] /\ holds[t] \in Batches
      BY <1>6 DEF AsyncWrite
    <2>2. op'[queue[1]] = "pending" /\ queue' = queue
      BY <1>6, <2>1 DEF AsyncWrite, BatchToWrite
    <2> QED
      BY <2>2
  <1>7. ASSUME NEW t \in Threads, NEW b \in Batches, WriteDone(t, b) PROVE NeverStuck'
    <2>1. CASE op[b] = "failed"
      <3>1. streamFailed /\ streamFailed' = streamFailed
        BY <1>7, <2>1 DEF WriteDone, QueuePart, SentSoFar
      <3> QED
        BY <3>1
    <2>2. CASE op[b] = "ok" /\ queue' # <<>>
      <3>1. queue' \in Seq(Batches)
        BY TypePreserved
      <3>2. at'[t] = "doWrite" /\ holds'[t] = queue'[1]
        BY <1>7, <2>2, <3>1 DEF WriteDone, WriteNext
      <3> QED
        BY <3>2
    <2> QED
      BY <1>7, <2>1, <2>2 DEF WriteDone
  <1>8. ASSUME NEW t \in Threads, NEW b \in Batches, TimerHandler(t, b) PROVE NeverStuck'
    BY <1>8 DEF TimerHandler, GotoUnlessTimedOut
  <1>9. ASSUME NEW t \in Threads, ReportTimeout(t) PROVE NeverStuck'
    BY <1>9 DEF ReportTimeout
  <1>10. ASSUME NEW b \in Batches, StreamWrites(b) PROVE NeverStuck'
    BY <1>10 DEF StreamWrites
  <1>11. ASSUME NEW b \in Batches, StreamFails(b) PROVE NeverStuck'
    BY <1>11 DEF StreamFails
  <1>12. ASSUME NEW b \in Batches, DeadlinePasses(b) PROVE NeverStuck'
    BY <1>12 DEF DeadlinePasses
  <1>13. ASSUME NEW b \in Batches, TimerExpires(b) PROVE NeverStuck'
    BY <1>13 DEF TimerExpires
  <1>14. CASE UNCHANGED vars
    BY <1>14 DEF vars
  <1> QED
    BY <1>1, <1>2, <1>3, <1>4, <1>5, <1>6, <1>7, <1>8, <1>9, <1>10, <1>11, <1>12, <1>13, <1>14
       DEF Next, ThreadStep

(* A writer with batches queued, no timeout and a healthy stream has a write   *)
(* under way or about to start (lines 61-69 and 124-131).                     *)
THEOREM Progress == Spec => []NeverStuck
  <1>1. Init => NeverStuck
    BY DEF Init, InitWith, NeverStuck
  <1> QED
    BY <1>1, Invariance, WorkPreserved, PTL DEF Spec
-----------------------------------------------------------------------------
NoTwice(s) == \A i, j \in 1 .. Len(s) : s[i] = s[j] => i = j

(* A batch is in one place: posted, in the hands of a thread that is about to *)
(* queue it, or accepted, and there once.                                     *)
OnePlace ==
    /\ NoTwice(posted)
    /\ NoTwice(accepted)
    /\ \A b \in Batches : Contains(posted, b) \/ Contains(accepted, b) => Contains(scheduled, b)
    /\ \A b \in Batches : ~(Contains(posted, b) /\ Contains(accepted, b))
    /\ \A t \in Threads :
           at[t] = "queueBatchWrite" =>
               /\ Contains(scheduled, holds[t])
               /\ ~Contains(posted, holds[t])
               /\ ~Contains(accepted, holds[t])
    /\ \A t, u \in Threads :
           at[t] = "queueBatchWrite" /\ at[u] = "queueBatchWrite" /\ holds[t] = holds[u] => t = u

ReleasedIsDone == \A i \in 1 .. Len(released) : op[released[i]] = "done"

(* Appending a new element, and taking away the first, repeats none.          *)
LEMMA AppendOne ==
    ASSUME NEW s \in Seq(Batches), NEW b \in Batches
    PROVE  /\ \A c : Contains(Append(s, b), c) <=> Contains(s, c) \/ c = b
           /\ NoTwice(s) /\ ~Contains(s, b) => NoTwice(Append(s, b))
  <1>1. /\ Len(Append(s, b)) = Len(s) + 1 /\ Len(s) \in Nat
        /\ Append(s, b)[Len(s) + 1] = b
        /\ \A i \in 1 .. Len(s) : Append(s, b)[i] = s[i]
    OBVIOUS
  <1> DEFINE n == Len(s)
             a == Append(s, b)
  <1>2. /\ Len(a) = n + 1 /\ n \in Nat
        /\ a[n + 1] = b
        /\ \A i \in 1 .. n : a[i] = s[i]
    BY <1>1
  <1>3. n = Len(s)
    OBVIOUS
  <1> HIDE DEF n, a
  <1>4. ASSUME NEW c
        PROVE  Contains(a, c) <=> Contains(s, c) \/ c = b
    <2>1. Contains(a, c) => Contains(s, c) \/ c = b
      <3> SUFFICES ASSUME NEW i \in 1 .. n + 1, a[i] = c
                   PROVE  Contains(s, c) \/ c = b
        BY <1>2 DEF Contains
      <3>1. CASE i = n + 1
        BY <1>2, <3>1
      <3>2. CASE i # n + 1
        <4>1. i \in 1 .. n
          BY <1>2, <3>2
        <4> QED
          BY <1>2, <1>3, <4>1 DEF Contains
      <3> QED
        BY <3>1, <3>2
    <2>2. Contains(s, c) \/ c = b => Contains(a, c)
      <3>1. n + 1 \in 1 .. Len(a) /\ \A i \in 1 .. n : i \in 1 .. Len(a)
        BY <1>2
      <3> QED
        BY <1>2, <1>3, <3>1 DEF Contains
    <2> QED
      BY <2>1, <2>2
  <1>5. ASSUME NoTwice(s), ~Contains(s, b)
        PROVE  NoTwice(a)
    <2> SUFFICES ASSUME NEW i \in 1 .. n + 1, NEW j \in 1 .. n + 1, a[i] = a[j]
                 PROVE  i = j
      BY <1>2 DEF NoTwice
    <2>1. \A k \in 1 .. n + 1 : k \in 1 .. n \/ k = n + 1
      BY <1>2
    <2>2. \A k \in 1 .. n : a[k] # b
      BY <1>2, <1>3, <1>5 DEF Contains
    <2> QED
      BY <1>2, <1>3, <1>5, <2>1, <2>2 DEF NoTwice
  <1> QED
    BY <1>4, <1>5 DEF a

LEMMA HeadGone ==
    ASSUME NEW s \in Seq(Batches), s # <<>>
    PROVE  /\ Contains(s, Head(s))
           /\ \A c : Contains(Tail(s), c) => Contains(s, c)
           /\ NoTwice(s) => NoTwice(Tail(s)) /\ ~Contains(Tail(s), Head(s))
  <1>1. /\ Head(s) = s[1] /\ Len(s) \in Nat /\ Len(s) > 0
        /\ Len(Tail(s)) = Len(s) - 1
        /\ \A i \in 1 .. Len(s) - 1 : Tail(s)[i] = s[i + 1]
    OBVIOUS
  <1> DEFINE n == Len(s)
             r == Tail(s)
  <1>2. /\ Head(s) = s[1] /\ n \in Nat /\ n > 0 /\ n = Len(s)
        /\ Len(r) = n - 1
        /\ \A i \in 1 .. n - 1 : r[i] = s[i + 1]
    BY <1>1
  <1> HIDE DEF n, r
  <1>3. 1 \in 1 .. n /\ \A i \in 1 .. n - 1 : i + 1 \in 1 .. n /\ i + 1 # 1
    BY <1>2
  <1>4. Contains(s, Head(s))
    BY <1>2, <1>3 DEF Contains
  <1>5. \A c : Contains(r, c) => Contains(s, c)
    BY <1>2, <1>3 DEF Contains
  <1>6. ASSUME NoTwice(s) PROVE NoTwice(r) /\ ~Contains(r, Head(s))
    <2>1. ~Contains(r, Head(s))
      BY <1>2, <1>3, <1>6 DEF NoTwice, Contains
    <2>2. NoTwice(r)
      <3> SUFFICES ASSUME NEW i \in 1 .. n - 1, NEW j \in 1 .. n - 1, r[i] = r[j]
                   PROVE  i = j
        BY <1>2 DEF NoTwice
      <3>1. s[i + 1] = s[j + 1] /\ i + 1 \in 1 .. n /\ j + 1 \in 1 .. n
        BY <1>2, <1>3
      <3>2. i + 1 = j + 1
        BY <1>2, <1>6, <3>1 DEF NoTwice
      <3> QED
        BY <1>2, <3>2
    <2> QED
      BY <2>1, <2>2
  <1> QED
    BY <1>4, <1>5, <1>6 DEF r

(* A batch moves from place to place and is never copied.                     *)
LEMMA OnePlacePreserved == IInv /\ OnePlace /\ [Next]_vars => OnePlace'
  <1> SUFFICES ASSUME IInv, OnePlace, [Next]_vars PROVE OnePlace'
    OBVIOUS
  <1>0. /\ posted \in Seq(Batches) /\ accepted \in Seq(Batches) /\ scheduled \in Seq(Batches)
        /\ at \in [Threads -> Places] /\ holds \in [Threads -> Batches \cup {None}]
        /\ \A t \in Threads : at[t] # "idle" => holds[t] \in Batches
    BY DEF IInv, TypePart, TypeOK, BusyHasBatch
  <1>1. ASSUME NEW b \in Batches, ScheduleWrite(b) PROVE OnePlace'
    <2>1. /\ posted' = Append(posted, b) /\ scheduled' = Append(scheduled, b)
          /\ ~Contains(scheduled, b)
          /\ UNCHANGED <<accepted, at, holds>>
      BY <1>1 DEF ScheduleWrite
    <2>2. ~Contains(posted, b) /\ ~Contains(accepted, b)
      BY <2>1 DEF OnePlace
    <2>3. /\ \A c : Contains(posted', c) <=> Contains(posted, c) \/ c = b
          /\ \A c : Contains(scheduled', c) <=> Contains(scheduled, c) \/ c = b
          /\ NoTwice(posted')
      BY <1>0, <2>1, <2>2, AppendOne DEF OnePlace
    <2> QED
      BY <2>1, <2>2, <2>3 DEF OnePlace, NoTwice
  <1>2. ASSUME NEW t \in Threads, Dequeue(t) PROVE OnePlace'
    <2>1. /\ posted # <<>> /\ posted' = Tail(posted)
          /\ UNCHANGED <<accepted, scheduled>>
          /\ at'[t] = "queueBatchWrite" /\ holds'[t] = Head(posted)
          /\ \A u \in Threads \ {t} : at'[u] = at[u] /\ holds'[u] = holds[u]
      BY <1>0, <1>2 DEF Dequeue, Goto
    <2>2. /\ Contains(posted, Head(posted)) /\ Head(posted) \in Batches
          /\ \A c : Contains(posted', c) => Contains(posted, c)
          /\ NoTwice(posted') /\ ~Contains(posted', Head(posted))
      BY <1>0, <2>1, HeadGone, HeadTailProperties DEF OnePlace
    <2> QED
      BY <2>1, <2>2 DEF OnePlace, NoTwice
  <1>3. ASSUME NEW t \in Threads, QueueBatchWrite(t) PROVE OnePlace'
    <2>1. /\ at[t] = "queueBatchWrite" /\ holds[t] \in Batches
          /\ accepted' = Append(accepted, holds[t])
          /\ UNCHANGED <<posted, scheduled>>
          /\ at'[t] # "queueBatchWrite"
          /\ \A u \in Threads \ {t} : at'[u] = at[u] /\ holds'[u] = holds[u]
      BY <1>0, <1>3 DEF QueueBatchWrite, WriteIfFirst, Goto, Finished
    <2>2. /\ \A c : Contains(accepted', c) <=> Contains(accepted, c) \/ c = holds[t]
          /\ NoTwice(accepted')
      BY <1>0, <2>1, AppendOne DEF OnePlace
    <2> QED
      BY <2>1, <2>2 DEF OnePlace, NoTwice
  <1>4. ASSUME UNCHANGED <<posted, scheduled, accepted>>,
               \A t \in Threads : at'[t] = "queueBatchWrite" => at[t] = at'[t] /\ holds'[t] = holds[t]
        PROVE  OnePlace'
    BY <1>4 DEF OnePlace, NoTwice
  <1>5. ASSUME NEW t \in Threads, NEW b \in Batches,
               \/ RefuseBatch(t) \/ DoWrite(t) \/ AsyncWrite(t) \/ WriteDone(t, b)
               \/ TimerHandler(t, b) \/ ReportTimeout(t)
        PROVE  OnePlace'
    <2>1. UNCHANGED <<posted, scheduled, accepted>>
      BY <1>5 DEF RefuseBatch, DoWrite, AsyncWrite, WriteDone, TimerHandler, ReportTimeout
    <2>2. PICK place \in {"idle", "doWrite", "asyncWrite", "timedOut", "timerHandler"},
               c \in Batches \cup {None} : Goto(t, place, c)
      <3>1. WriteDone(t, b) => queue # <<>> /\ Tail(queue) \in Seq(Batches)
        BY HeadTailProperties DEF WriteDone, IInv, TypePart, TypeOK, StrandPart, InFlightIsFront
      <3>2. WriteDone(t, b) /\ Tail(queue) # <<>> => Head(Tail(queue)) \in Batches
        BY <3>1, HeadTailProperties
      <3> QED
        BY <1>0, <1>5, <3>2 DEF RefuseBatch, DoWrite, AsyncWrite, WriteDone, WriteNext, TimerHandler, ReportTimeout,
           GotoUnlessTimedOut, Finished
    <2> QED
      BY <1>0, <1>4, <2>1, <2>2 DEF Goto
  <1>6. ASSUME UNCHANGED <<posted, scheduled, accepted, at, holds>> PROVE OnePlace'
    BY <1>4, <1>6
  <1>7. ASSUME NEW t \in Threads, RefuseBatch(t) \/ DoWrite(t) \/ AsyncWrite(t) \/ ReportTimeout(t)
        PROVE  OnePlace'
    <2>1. holds[t] \in Batches
      BY <1>0, <1>7 DEF RefuseBatch, DoWrite, AsyncWrite, ReportTimeout
    <2> QED
      BY <1>5, <1>7, <2>1
  <1>8. ASSUME NEW b \in Batches, StreamWrites(b) \/ StreamFails(b) \/ DeadlinePasses(b) \/ TimerExpires(b)
        PROVE  OnePlace'
    BY <1>6, <1>8 DEF StreamWrites, StreamFails, DeadlinePasses, TimerExpires
  <1>9. CASE UNCHANGED vars
    BY <1>6, <1>9 DEF vars
  <1> QED
    BY <1>1, <1>2, <1>3, <1>5, <1>7, <1>8, <1>9 DEF Next, ThreadStep

(* Nothing that was released is written again.                                *)
LEMMA ReleasedPreserved == IInv /\ OnePlace /\ ReleasedIsDone /\ [Next]_vars => ReleasedIsDone'
  <1> SUFFICES ASSUME IInv, OnePlace, ReleasedIsDone, [Next]_vars PROVE ReleasedIsDone'
    OBVIOUS
  <1>0. released \in Seq(Batches) /\ queue \in Seq(Batches) /\ op \in [Batches -> {"none", "pending", "ok", "failed", "done"}]
    BY DEF IInv, TypePart, TypeOK
  <1>1. ASSUME queue # <<>>, NEW i \in 1 .. Len(released) PROVE released[i] # queue[1]
    <2>1. accepted = released \o queue /\ NoTwice(accepted)
      BY DEF IInv, QueuePart, QueueIsRest, OnePlace
    <2>2. /\ Len(released) \in Nat /\ Len(queue) \in Nat /\ Len(queue) > 0
          /\ Len(accepted) = Len(released) + Len(queue)
      BY <1>0, <1>1, <2>1
    <2>3. accepted[i] = released[i] /\ accepted[Len(released) + 1] = queue[1]
      BY <1>0, <2>1, <2>2
    <2>4. i \in 1 .. Len(accepted) /\ Len(released) + 1 \in 1 .. Len(accepted) /\ i # Len(released) + 1
      BY <2>2
    <2> QED
      BY <2>1, <2>3, <2>4 DEF NoTwice
  <1>2. ASSUME NEW t \in Threads, AsyncWrite(t) PROVE ReleasedIsDone'
    <2>1. queue # <<>> /\ holds[t] = queue[1] /\ released' = released /\ op' = [op EXCEPT ![holds[t]] = "pending"]
      BY <1>2 DEF AsyncWrite, BatchToWrite, IInv, StrandPart, WriterHasFront
    <2>2. \A i \in 1 .. Len(released) : released[i] \in Batches /\ released[i] # holds[t]
      BY <1>0, <1>1, <2>1
    <2> QED
      BY <1>0, <2>1, <2>2 DEF ReleasedIsDone
  <1>3. ASSUME NEW t \in Threads, NEW b \in Batches, WriteDone(t, b) PROVE ReleasedIsDone'
    <2>1. /\ Head(queue) = b
          /\ released' = Append(released, b)
          /\ op' = [op EXCEPT ![b] = "done"]
      BY <1>0, <1>3 DEF WriteDone, IInv, StrandPart, InFlightIsFront
    <2>2. ASSUME NEW i \in 1 .. Len(released') PROVE released'[i] \in Batches /\ (released'[i] = b \/ op[released'[i]] = "done")
      <3>1. CASE i \in 1 .. Len(released)
        BY <1>0, <2>1, <3>1 DEF ReleasedIsDone
      <3>2. CASE i = Len(released) + 1
        BY <1>0, <2>1, <3>2
      <3>3. i \in 1 .. Len(released) \/ i = Len(released) + 1
        BY <1>0, <2>1
      <3> QED
        BY <3>1, <3>2, <3>3
    <2> QED
      BY <1>0, <2>1, <2>2 DEF ReleasedIsDone
  <1>4. ASSUME NEW b \in Batches, StreamWrites(b) \/ StreamFails(b) PROVE ReleasedIsDone'
    <2>1. /\ released' = released /\ op[b] = "pending"
          /\ \A c \in Batches \ {b} : op'[c] = op[c]
      BY <1>0, <1>4 DEF StreamWrites, StreamFails
    <2>2. \A i \in 1 .. Len(released) : released[i] \in Batches
      BY <1>0
    <2> QED
      BY <2>1, <2>2 DEF ReleasedIsDone
  <1>5. ASSUME UNCHANGED <<released, op>> PROVE ReleasedIsDone'
    BY <1>5 DEF ReleasedIsDone
  <1>6. ASSUME \/ \E b \in Batches : ScheduleWrite(b) \/ DeadlinePasses(b) \/ TimerExpires(b)
               \/ \E t \in Threads : Dequeue(t) \/ RefuseBatch(t) \/ QueueBatchWrite(t) \/ DoWrite(t) \/ ReportTimeout(t)
               \/ \E t \in Threads, b \in Batches : TimerHandler(t, b)
               \/ UNCHANGED vars
        PROVE  ReleasedIsDone'
    <2>1. UNCHANGED <<released, op>>
      BY <1>6 DEF ScheduleWrite, DeadlinePasses, TimerExpires, Dequeue, RefuseBatch, QueueBatchWrite, DoWrite,
         ReportTimeout, TimerHandler, vars
    <2> QED
      BY <1>5, <2>1
  <1> QED
    BY <1>2, <1>3, <1>4, <1>6 DEF Next, ThreadStep

(* The memory of a batch is released once and only when its write is over     *)
(* (async_writer.hpp:56, lines 110-123), with any number of io threads.       *)
THEOREM Memory == Spec => []ReleasedAfterWrite
  <1>1. Init => OnePlace /\ ReleasedIsDone
    BY DEF Init, InitWith, OnePlace, NoTwice, ReleasedIsDone, Contains
  <1>2. IInv /\ OnePlace /\ ReleasedIsDone => ReleasedAfterWrite
    <2> SUFFICES ASSUME IInv, OnePlace, ReleasedIsDone PROVE IsInjective(released)
      BY DEF ReleasedAfterWrite, ReleasedIsDone
    <2>1. /\ accepted = released \o queue /\ NoTwice(accepted)
          /\ released \in Seq(Batches) /\ queue \in Seq(Batches)
      BY DEF IInv, QueuePart, QueueIsRest, OnePlace, TypePart, TypeOK
    <2>2. DOMAIN released = 1 .. Len(released) /\ Len(released) \in Nat /\ Len(queue) \in Nat
      BY <2>1
    <2>3. \A i \in 1 .. Len(released) : accepted[i] = released[i] /\ i \in 1 .. Len(accepted)
      BY <2>1, <2>2
    <2> QED
      BY <2>1, <2>2, <2>3 DEF NoTwice, IsInjective
  <1> QED
    BY <1>1, <1>2, Invariance, OnePlacePreserved, ReleasedPreserved, PTL DEF Spec
-----------------------------------------------------------------------------
OneThread == \A t, u \in Threads : t = u

(* What is reported is what the flag says, and once it is set no one is       *)
(* between the test of the flag and what was to be done if it was not: the    *)
(* report, or the start of a write.                                           *)
FlagIsReport ==
    /\ reports = IF timeoutReached THEN 1 ELSE 0
    /\ \A t \in Threads : at[t] \in {"timedOut", "timerHandler", "asyncWrite"} => ~timeoutReached

LEMMA FlagPreserved ==
    ASSUME OneThread
    PROVE  IInv /\ FlagIsReport /\ [Next]_vars => FlagIsReport'
  <1> SUFFICES ASSUME IInv, FlagIsReport, [Next]_vars PROVE FlagIsReport'
    OBVIOUS
  <1>0. at \in [Threads -> Places] /\ timeoutReached \in BOOLEAN
    BY DEF IInv, TypePart, TypeOK
  <1>1. ASSUME NEW t \in Threads, ReportTimeout(t) PROVE FlagIsReport'
    <2>1. ~timeoutReached /\ timeoutReached' = TRUE /\ reports' = reports + 1
      BY <1>1 DEF ReportTimeout, FlagIsReport
    <2>2. \A u \in Threads : at'[u] = "idle"
      BY <1>0, <1>1 DEF OneThread, ReportTimeout, Finished, Goto
    <2> QED
      BY <2>1, <2>2 DEF FlagIsReport
  <1>2. ASSUME UNCHANGED <<timeoutReached, reports>>,
               \A u \in Threads : at'[u] \in {"timedOut", "timerHandler", "asyncWrite"} => at[u] = at'[u] \/ ~timeoutReached
        PROVE  FlagIsReport'
    BY <1>2 DEF FlagIsReport
  <1>3. ASSUME NEW t \in Threads,
               \/ Dequeue(t) \/ RefuseBatch(t) \/ QueueBatchWrite(t) \/ DoWrite(t) \/ AsyncWrite(t)
               \/ \E b \in Batches : WriteDone(t, b) \/ TimerHandler(t, b)
        PROVE  FlagIsReport'
    <2>1. UNCHANGED <<timeoutReached, reports>>
      BY <1>3 DEF Dequeue, RefuseBatch, QueueBatchWrite, SetupDeadlineTimer, DoWrite, AsyncWrite, WriteDone, TimerHandler
    <2>2. \A u \in Threads : at'[u] \in {"timedOut", "timerHandler", "asyncWrite"} => at[u] = at'[u] \/ ~timeoutReached
      BY <1>0, <1>3 DEF Dequeue, RefuseBatch, QueueBatchWrite, WriteIfFirst, DoWrite, AsyncWrite, WriteDone, WriteNext,
         TimerHandler, GotoUnlessTimedOut, Finished, Goto
    <2> QED
      BY <1>2, <2>1, <2>2
  <1>4. ASSUME \/ \E b \in Batches : ScheduleWrite(b) \/ StreamWrites(b) \/ StreamFails(b)
               \/ \E b \in Batches : DeadlinePasses(b) \/ TimerExpires(b)
               \/ UNCHANGED vars
        PROVE  FlagIsReport'
    <2>1. UNCHANGED <<timeoutReached, reports, at>>
      BY <1>4 DEF ScheduleWrite, StreamWrites, StreamFails, DeadlinePasses, TimerExpires, vars
    <2> QED
      BY <1>2, <2>1
  <1> QED
    BY <1>1, <1>3, <1>4 DEF Next, ThreadStep

(* With one io thread the application hears of one timeout only (lines        *)
(* 146-152), however many deadlines are missed.                               *)
THEOREM OneReport ==
    ASSUME OneThread
    PROVE  Spec => []TimeoutReportedOnce
  <1>1. Init => FlagIsReport
    BY DEF Init, InitWith, FlagIsReport
  <1>2. FlagIsReport => TimeoutReportedOnce
    BY DEF FlagIsReport, TimeoutReportedOnce
  <1> QED
    BY <1>1, <1>2, Invariance, FlagPreserved, PTL DEF Spec

(* A write starts in AsyncWrite only, whose thread has found the flag unset.  *)
LEMMA NoWriteAfterFlag ==
    ASSUME OneThread
    PROVE  IInv /\ FlagIsReport /\ [Next]_vars =>
               (timeoutReached => \A b \in Batches : op'[b] = "pending" => op[b] = "pending")
  <1> SUFFICES ASSUME IInv, FlagIsReport, [Next]_vars, timeoutReached,
                      NEW b \in Batches, op'[b] = "pending"
               PROVE  op[b] = "pending"
    OBVIOUS
  <1>0. op \in [Batches -> {"none", "pending", "ok", "failed", "done"}]
    BY DEF IInv, TypePart, TypeOK
  <1>1. ASSUME NEW t \in Threads, AsyncWrite(t) PROVE FALSE
    BY <1>1 DEF AsyncWrite, FlagIsReport
  <1>2. ASSUME NEW t \in Threads,
               \/ Dequeue(t) \/ RefuseBatch(t) \/ QueueBatchWrite(t) \/ DoWrite(t) \/ ReportTimeout(t)
               \/ \E c \in Batches : TimerHandler(t, c)
        PROVE  op' = op
    BY <1>2 DEF Dequeue, RefuseBatch, QueueBatchWrite, DoWrite, ReportTimeout, TimerHandler, stream
  <1>3. ASSUME NEW t \in Threads, NEW c \in Batches, WriteDone(t, c) PROVE op[b] = "pending"
    BY <1>0, <1>3 DEF WriteDone
  <1>4. ASSUME NEW c \in Batches, StreamWrites(c) \/ StreamFails(c) PROVE op[b] = "pending"
    BY <1>0, <1>4 DEF StreamWrites, StreamFails
  <1>5. ASSUME \/ \E c \in Batches : ScheduleWrite(c) \/ DeadlinePasses(c) \/ TimerExpires(c)
               \/ UNCHANGED vars
        PROVE  op' = op
    BY <1>5 DEF ScheduleWrite, DeadlinePasses, TimerExpires, stream, vars
  <1> QED
    BY <1>1, <1>2, <1>3, <1>4, <1>5 DEF Next, ThreadStep

(* With one io thread a timeout stops the writer for good: no write starts    *)
(* after the flag is set, neither for a batch that comes later (line 48) nor  *)
(* for one that was queued (line 88).                                         *)
THEOREM Final ==
    ASSUME OneThread
    PROVE  Spec => TimeoutIsFinal
  <1>1. Init => FlagIsReport
    BY DEF Init, InitWith, FlagIsReport
  <1> QED
    BY <1>1, Invariance, FlagPreserved, NoWriteAfterFlag, PTL DEF Spec, TimeoutIsFinal
-----------------------------------------------------------------------------
(* With one io thread a batch that is not refused is accepted in its turn; one *)
(* is refused only when the timeout is reached, and all that follow are.       *)
TurnIsKept ==
    \A t \in Threads :
        /\ \E rest \in Seq(Batches) : scheduled = accepted \o rest
        /\ ~timeoutReached /\ at[t] = "queueBatchWrite" => scheduled = accepted \o (<<holds[t]>> \o posted)
        /\ ~timeoutReached /\ at[t] \notin {"queueBatchWrite", "timedOut"} => scheduled = accepted \o posted

LEMMA TurnPreserved ==
    ASSUME OneThread
    PROVE  IInv /\ TurnIsKept /\ [Next]_vars => TurnIsKept'
  <1> SUFFICES ASSUME IInv, TurnIsKept, [Next]_vars, NEW t \in Threads
               PROVE  /\ \E rest \in Seq(Batches) : scheduled' = accepted' \o rest
                      /\ ~timeoutReached' /\ at'[t] = "queueBatchWrite"
                             => scheduled' = accepted' \o (<<holds'[t]>> \o posted')
                      /\ ~timeoutReached' /\ at'[t] \notin {"queueBatchWrite", "timedOut"}
                             => scheduled' = accepted' \o posted'
    BY DEF TurnIsKept
  <1> DEFINE Turn == /\ \E rest \in Seq(Batches) : scheduled = accepted \o rest
                     /\ ~timeoutReached /\ at[t] = "queueBatchWrite"
                            => scheduled = accepted \o (<<holds[t]>> \o posted)
                     /\ ~timeoutReached /\ at[t] \notin {"queueBatchWrite", "timedOut"}
                            => scheduled = accepted \o posted
  <1>0. /\ posted \in Seq(Batches) /\ accepted \in Seq(Batches) /\ scheduled \in Seq(Batches)
        /\ at \in [Threads -> Places] /\ holds \in [Threads -> Batches \cup {None}]
        /\ at[t] # "idle" => holds[t] \in Batches
        /\ Threads = {t}
    BY DEF IInv, TypePart, TypeOK, BusyHasBatch, OneThread
  <1>t. Turn
    BY DEF TurnIsKept
  <1> HIDE DEF Turn
  <1>1. ASSUME NEW b \in Batches, ScheduleWrite(b) PROVE Turn'
    <2>1. /\ scheduled' = Append(scheduled, b) /\ posted' = Append(posted, b)
          /\ UNCHANGED <<accepted, at, holds, timeoutReached>>
      BY <1>1 DEF ScheduleWrite
    <2>2. PICK rest \in Seq(Batches) : scheduled = accepted \o rest
      BY <1>t DEF Turn
    <2>3. scheduled' = accepted' \o Append(rest, b) /\ Append(rest, b) \in Seq(Batches)
      BY <1>0, <2>1, <2>2, AppendRight, AppendProperties
    <2>4. ASSUME scheduled = accepted \o posted
          PROVE  scheduled' = accepted' \o posted'
      BY <1>0, <2>1, <2>4, AppendRight
    <2>5. ASSUME at[t] = "queueBatchWrite", scheduled = accepted \o (<<holds[t]>> \o posted)
          PROVE  scheduled' = accepted' \o (<<holds'[t]>> \o posted')
      <3>1. <<holds[t]>> \in Seq(Batches) /\ <<holds[t]>> \o posted \in Seq(Batches)
        BY <1>0, <2>5, ConcatProperties
      <3>2. Append(<<holds[t]>> \o posted, b) = <<holds[t]>> \o Append(posted, b)
        BY <1>0, <3>1, AppendRight
      <3>3. Append(accepted \o (<<holds[t]>> \o posted), b) = accepted \o Append(<<holds[t]>> \o posted, b)
        BY <1>0, <3>1, AppendRight
      <3> QED
        BY <2>1, <2>5, <3>2, <3>3
    <2>6. \E r \in Seq(Batches) : scheduled' = accepted' \o r
      BY <2>3
    <2> QED
      BY <1>t, <2>1, <2>4, <2>5, <2>6 DEF Turn
  <1>2. ASSUME Dequeue(t) PROVE Turn'
    <2>1. /\ at[t] = "idle" /\ posted # <<>> /\ posted' = Tail(posted)
          /\ at'[t] = "queueBatchWrite" /\ holds'[t] = Head(posted)
          /\ UNCHANGED <<scheduled, accepted, timeoutReached>>
      BY <1>0, <1>2 DEF Dequeue, Goto
    <2>2. posted = <<Head(posted)>> \o Tail(posted)
      BY <1>0, <2>1
    <2> QED
      BY <1>t, <2>1, <2>2 DEF Turn
  <1>3. ASSUME RefuseBatch(t) PROVE Turn'
    <2>1. /\ timeoutReached \/ at'[t] = "timedOut"
          /\ UNCHANGED <<scheduled, accepted, timeoutReached>>
      BY <1>0, <1>3 DEF RefuseBatch, Goto
    <2> QED
      BY <1>t, <2>1 DEF Turn
  <1>4. ASSUME QueueBatchWrite(t) PROVE Turn'
    <2> DEFINE b == holds[t]
    <2>1. /\ at[t] = "queueBatchWrite" /\ ~timeoutReached /\ b \in Batches
          /\ accepted' = Append(accepted, b)
          /\ UNCHANGED <<scheduled, posted, timeoutReached>>
      BY <1>0, <1>4 DEF QueueBatchWrite
    <2>2. at'[t] \notin {"queueBatchWrite", "timedOut"}
      BY <1>0, <1>4 DEF QueueBatchWrite, WriteIfFirst, Finished, Goto
    <2>3. scheduled = accepted \o (<<b>> \o posted)
      BY <1>t, <2>1 DEF Turn
    <2> HIDE DEF b
    <2>4. <<b>> \in Seq(Batches) /\ Append(accepted, b) = accepted \o <<b>>
      BY <1>0, <2>1, AppendIsConcat
    <2>5. scheduled' = accepted' \o posted'
      BY <1>0, <2>1, <2>3, <2>4, ConcatAssociative
    <2>6. \E rest \in Seq(Batches) : scheduled' = accepted' \o rest
      BY <1>0, <2>1, <2>5
    <2> QED
      BY <2>2, <2>5, <2>6 DEF Turn
  <1>5. ASSUME UNCHANGED <<scheduled, accepted, posted>>,
               timeoutReached' \/ UNCHANGED timeoutReached,
               ~timeoutReached' => \/ at'[t] = at[t] /\ holds'[t] = holds[t]
                                   \/ {at[t], at'[t]} \cap {"queueBatchWrite", "timedOut"} = {}
        PROVE  Turn'
    <2>1. \E rest \in Seq(Batches) : scheduled' = accepted' \o rest
      BY <1>t, <1>5 DEF Turn
    <2>2. CASE timeoutReached'
      BY <2>1, <2>2 DEF Turn
    <2>3. CASE ~timeoutReached'
      <3>1. ~timeoutReached
        BY <1>5, <2>3
      <3>2. CASE at'[t] = at[t] /\ holds'[t] = holds[t]
        BY <1>t, <1>5, <2>1, <3>1, <3>2 DEF Turn
      <3>3. CASE {at[t], at'[t]} \cap {"queueBatchWrite", "timedOut"} = {}
        <4>1. at[t] \notin {"queueBatchWrite", "timedOut"} /\ at'[t] \notin {"queueBatchWrite", "timedOut"}
          BY <3>3
        <4> QED
          BY <1>t, <1>5, <2>1, <3>1, <4>1 DEF Turn
      <3> QED
        BY <1>5, <2>3, <3>2, <3>3
    <2> QED
      BY <2>2, <2>3
  <1>6. ASSUME NEW b \in Batches,
               \/ DoWrite(t) \/ AsyncWrite(t) \/ WriteDone(t, b) \/ TimerHandler(t, b)
        PROVE  Turn'
    <2>1. UNCHANGED <<scheduled, accepted, posted, timeoutReached>>
      BY <1>6 DEF DoWrite, AsyncWrite, WriteDone, TimerHandler
    <2>2. {at[t], at'[t]} \cap {"queueBatchWrite", "timedOut"} = {}
      BY <1>0, <1>6 DEF DoWrite, AsyncWrite, WriteDone, WriteNext, TimerHandler, GotoUnlessTimedOut,
         Finished, Goto
    <2> QED
      BY <1>5, <2>1, <2>2
  <1>7. ASSUME ReportTimeout(t) PROVE Turn'
    <2>1. UNCHANGED <<scheduled, accepted, posted>> /\ timeoutReached' = TRUE
      BY <1>7 DEF ReportTimeout
    <2> QED
      BY <1>5, <2>1
  <1>8. ASSUME \/ \E b \in Batches : StreamWrites(b) \/ StreamFails(b)
               \/ \E b \in Batches : DeadlinePasses(b) \/ TimerExpires(b)
               \/ UNCHANGED vars
        PROVE  Turn'
    <2>1. UNCHANGED <<scheduled, accepted, posted, timeoutReached, at, holds>>
      BY <1>8 DEF StreamWrites, StreamFails, DeadlinePasses, TimerExpires, vars
    <2> QED
      BY <1>5, <2>1
  <1>9. Turn'
    <2>1. ASSUME ThreadStep(t) PROVE Turn'
      <3>1. CASE DoWrite(t) \/ AsyncWrite(t)
        <4>1. holds[t] \in Batches
          BY <1>0, <3>1 DEF DoWrite, AsyncWrite
        <4> QED
          BY <1>6, <3>1, <4>1
      <3> QED
        BY <1>2, <1>3, <1>4, <1>6, <1>7, <2>1, <3>1 DEF ThreadStep
    <2> QED
      BY <1>0, <1>1, <1>8, <2>1 DEF Next
  <1> QED
    BY <1>9 DEF Turn

(* With one io thread the peer receives the batches in the order of the       *)
(* scheduleWrite calls (lines 17-29, 46-69).                                  *)
THEOREM OrderOfCalls ==
    ASSUME OneThread, Threads # {}
    PROVE  Spec => []SentAsScheduled
  <1>1. Init => TurnIsKept
    <2> SUFFICES ASSUME Init PROVE TurnIsKept
      OBVIOUS
    <2>1. <<>> \in Seq(Batches) /\ <<>> = <<>> \o <<>>
      OBVIOUS
    <2> QED
      BY <2>1 DEF Init, InitWith, TurnIsKept
  <1>2. IInv /\ TurnIsKept => SentAsScheduled
    <2> SUFFICES ASSUME IInv, TurnIsKept PROVE SentAsScheduled
      OBVIOUS
    <2>1. PICK more \in Seq(Batches) : accepted = sent \o more
      BY DEF IInv, QueuePart, SentSoFar
    <2>2. PICK rest \in Seq(Batches) : scheduled = accepted \o rest
      BY DEF TurnIsKept
    <2>3. sent \in Seq(Batches)
      BY DEF IInv, TypePart, TypeOK
    <2>4. scheduled = sent \o (more \o rest) /\ more \o rest \in Seq(Batches)
      BY <2>1, <2>2, <2>3, ConcatAssociative, ConcatProperties
    <2> QED
      BY <2>3, <2>4, ConcatProperties DEF SentAsScheduled, IsPrefix
  <1> QED
    BY <1>1, <1>2, Invariance, TurnPreserved, PTL DEF Spec
-----------------------------------------------------------------------------
(* The channel: each step of the writer, of its threads, timers and stream is *)
(* a step of WriteChannel or leaves it alone.                                 *)
InTransit ==
    /\ ~streamFailed
    /\ \/ \E t \in Threads : at[t] = "asyncWrite"
       \/ \E b \in Batches : op[b] = "pending"

Closed == timeoutReached \/ streamFailed

(* The step of the channel that is not seen.                                  *)
Silent == UNCHANGED <<accepted, sent>> /\ InTransit' = InTransit /\ Closed' = Closed

LEMMA SilentStep == Silent => [Channel!Next]_Channel!vars
  BY DEF Silent, InTransit, Closed, Channel!vars

(* The steps that neither queue, write nor time out.                          *)
LEMMA UnseenSteps ==
    ASSUME IInv,
           \/ \E b \in Batches : ScheduleWrite(b)
           \/ \E t \in Threads : Dequeue(t) \/ RefuseBatch(t)
           \/ \E t \in Threads, b \in Batches : TimerHandler(t, b)
           \/ \E b \in Batches : DeadlinePasses(b) \/ TimerExpires(b)
           \/ UNCHANGED vars
    PROVE  Silent
  <1>1. UNCHANGED <<accepted, sent, op, streamFailed, timeoutReached>>
    BY DEF ScheduleWrite, Dequeue, RefuseBatch, TimerHandler, DeadlinePasses, TimerExpires, vars
  <1>2. \A t \in Threads : at'[t] = "asyncWrite" <=> at[t] = "asyncWrite"
    BY DEF ScheduleWrite, Dequeue, RefuseBatch, TimerHandler, DeadlinePasses, TimerExpires, vars,
       Goto, Finished, GotoUnlessTimedOut, IInv, TypePart, TypeOK
  <1> QED
    BY <1>1, <1>2 DEF Silent, InTransit, Closed

(* The message in transit is the next one of those that were offered.         *)
LEMMA NextInTransit ==
    ASSUME IInv, ~streamFailed, queue # <<>>, \A b \in Batches : op[b] # "ok"
    PROVE  Len(sent) < Len(accepted) /\ accepted[Len(sent) + 1] = queue[1]
  <1>1. sent = released /\ accepted = released \o queue
    BY DEF IInv, QueuePart, QueueIsRest, SentSoFar
  <1>2. released \in Seq(Batches) /\ queue \in Seq(Batches)
    BY DEF IInv, TypePart, TypeOK
  <1>3. Len(queue) > 0 /\ Len(queue) \in Nat /\ Len(released) \in Nat
    BY <1>2
  <1>4. Len(released \o queue) = Len(released) + Len(queue)
    BY <1>2, ConcatProperties
  <1>5. (released \o queue)[Len(released) + 1] = queue[1]
    BY <1>2, <1>3
  <1> QED
    BY <1>1, <1>3, <1>4, <1>5

LEMMA ChannelInit == Init => Channel!Init
  BY DEF Init, InitWith, Channel!Init

LEMMA ChannelStep == IInv /\ [Next]_vars => [Channel!Next]_Channel!vars
  <1> SUFFICES ASSUME IInv, [Next]_vars PROVE [Channel!Next]_Channel!vars
    OBVIOUS
  <1> USE DEF IInv, TypePart, TypeOK
  <1>1. ASSUME NEW t \in Threads, QueueBatchWrite(t) PROVE Channel!Offer(holds[t]) /\ holds[t] \in Batches
    <2>1. \A u \in Threads : at'[u] = "asyncWrite" <=> at[u] = "asyncWrite"
      BY <1>1 DEF QueueBatchWrite, WriteIfFirst, Goto, Finished
    <2>2. holds[t] \in Batches
      BY <1>1 DEF QueueBatchWrite, BusyHasBatch
    <2>3. InTransit' = InTransit /\ Closed' = Closed
      BY <1>1, <2>1 DEF QueueBatchWrite, InTransit, Closed
    <2> QED
      BY <1>1, <2>2, <2>3 DEF QueueBatchWrite, Channel!Offer, InTransit, Closed
  <1>2. ASSUME NEW t \in Threads, DoWrite(t) PROVE Silent \/ Channel!Begin
    <2>1. /\ at[t] = "doWrite" /\ queue # <<>>
          /\ \A b \in Batches : op[b] \notin {"pending", "ok", "failed"}
          /\ \A u \in Threads : at[u] # "asyncWrite"
          /\ UNCHANGED <<accepted, sent, op, streamFailed, timeoutReached>>
      BY <1>2 DEF DoWrite, StrandPart, StrandExcludes, InStrand, WriterHasFront, Active
    <2>2. ~InTransit
      BY <2>1 DEF InTransit
    <2>3. CASE timeoutReached \/ streamFailed
      <3>1. ~InTransit'
        BY <1>2, <2>1, <2>3 DEF DoWrite, GotoUnlessTimedOut, Finished, Goto, InTransit
      <3> QED
        BY <2>1, <2>2, <3>1 DEF Silent, Closed, InTransit
    <2>4. CASE ~timeoutReached /\ ~streamFailed
      <3>1. at'[t] = "asyncWrite"
        BY <1>2, <2>4 DEF DoWrite, GotoUnlessTimedOut, Goto
      <3>2. InTransit'
        BY <2>1, <2>4, <3>1 DEF InTransit
      <3>3. Len(sent) < Len(accepted)
        BY <2>1, <2>4, NextInTransit
      <3> QED
        BY <2>1, <2>2, <2>4, <3>2, <3>3 DEF Channel!Begin, InTransit
    <2> QED
      BY <2>3, <2>4
  <1>3. ASSUME NEW t \in Threads, AsyncWrite(t) PROVE Silent
    <2>1. at[t] = "asyncWrite" /\ holds[t] \in Batches /\ op'[holds[t]] = "pending"
      BY <1>3 DEF AsyncWrite, BatchToWrite, BusyHasBatch
    <2>2. UNCHANGED <<accepted, sent, streamFailed, timeoutReached>>
      BY <1>3 DEF AsyncWrite
    <2> QED
      BY <2>1, <2>2 DEF Silent, InTransit, Closed
  <1>4. ASSUME NEW t \in Threads, NEW b \in Batches, WriteDone(t, b) PROVE Silent
    <2>1. UNCHANGED <<accepted, sent, streamFailed, timeoutReached>>
      BY <1>4 DEF WriteDone
    <2>2. \A u \in Threads : at[u] # "asyncWrite" /\ at'[u] # "asyncWrite"
      BY <1>4 DEF WriteDone, StrandIsFree, WriteNext, Goto, Finished
    <2>3. \A c \in Batches : op[c] # "pending" /\ op'[c] # "pending"
      BY <1>4 DEF WriteDone, StrandPart, InFlightIsFront
    <2> QED
      BY <2>1, <2>2, <2>3 DEF Silent, InTransit, Closed
  <1>5. ASSUME NEW t \in Threads, ReportTimeout(t) PROVE Channel!Close
    <2>1. UNCHANGED <<accepted, sent, op, streamFailed>> /\ timeoutReached'
      BY <1>5 DEF ReportTimeout
    <2>2. \A u \in Threads : at'[u] = "asyncWrite" <=> at[u] = "asyncWrite"
      BY <1>5 DEF ReportTimeout, Goto, Finished
    <2>3. InTransit' = InTransit
      BY <2>1, <2>2 DEF InTransit
    <2> QED
      BY <2>1, <2>3 DEF Channel!Close, InTransit
  <1>6. ASSUME NEW b \in Batches, StreamWrites(b) PROVE Channel!Finish
    <2>1. /\ op[b] = "pending" /\ ~streamFailed
          /\ queue # <<>> /\ queue[1] = b
          /\ \A c \in Batches \ {b} : op[c] \notin {"pending", "ok", "failed"}
      BY <1>6 DEF StreamWrites, StrandPart, InFlightIsFront
    <2>2. \A t \in Threads : at[t] # "asyncWrite"
      BY <2>1 DEF StrandPart, WriterHasFront, Active
    <2>3. /\ op' = [op EXCEPT ![b] = "ok"]
          /\ sent' = Append(sent, b)
          /\ UNCHANGED <<at, accepted, streamFailed, timeoutReached>>
      BY <1>6 DEF StreamWrites
    <2>4. InTransit /\ ~InTransit'
      BY <2>1, <2>2, <2>3 DEF InTransit
    <2>5. accepted[Len(sent) + 1] = b
      BY <2>1, NextInTransit
    <2> QED
      BY <2>3, <2>4, <2>5 DEF Channel!Finish, InTransit
  <1>7. ASSUME NEW b \in Batches, StreamFails(b) PROVE Silent \/ Channel!Lose
    <2>1. op[b] = "pending" /\ streamFailed' /\ UNCHANGED <<accepted, sent, timeoutReached>>
      BY <1>7 DEF StreamFails
    <2>2. ~InTransit'
      BY <2>1 DEF InTransit
    <2>3. CASE streamFailed
      BY <2>1, <2>2, <2>3 DEF Silent, InTransit, Closed
    <2>4. CASE ~streamFailed
      <3>1. InTransit
        BY <2>1, <2>4 DEF InTransit
      <3> QED
        BY <2>1, <2>2, <3>1 DEF Channel!Lose, InTransit
    <2> QED
      BY <2>3, <2>4
  <1> QED
    BY <1>1, <1>2, <1>3, <1>4, <1>5, <1>6, <1>7, SilentStep, UnseenSteps
       DEF Next, ThreadStep, Channel!Next

(* The writer is an ordered channel with one batch in transit, which is       *)
(* closed by the first failure or timeout (async_writer.cpp:44-169): for any  *)
(* batches, deadlines and io threads it implements WriteChannel.              *)
THEOREM Implements == Spec => ImplementsChannel
  BY Invariance, ChannelInit, ChannelStep, PTL DEF Spec, ImplementsChannel, Channel!Spec
=============================================================================
