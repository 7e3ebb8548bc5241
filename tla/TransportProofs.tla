-------------------------- MODULE TransportProofs --------------------------
(***************************************************************************)
(* The composition of writer, wire and reader, for read sequences of any   *)
(* length, tasks of any size and a wire of any capacity.                   *)
(*                                                                         *)
(* Batches and tasks have a place on the stream: batch s begins at         *)
(* Start(s), the bytes of its task i at Begins(<<s, i>>). The inductive    *)
(* invariant says that the writer puts each byte in its place (InPlace),   *)
(* and that the reader, as long as no read has failed, has consumed what   *)
(* is in front of the task it is about to serve (Cursor).                  *)
(***************************************************************************)
EXTENDS Transport, AsyncReaderProofs, FiniteSetTheorems

(* Where batch s begins on the stream: behind the batches before it.          *)
Start(s) == SizeBefore([b \in Batches |-> BatchSize(b)], s)

Begins(task) == Start(task[1]) + Offset(task[1], task[2])

(* The batch to be delivered next.                                            *)
NextBatch == Len(delivered) + 1

ChannelInv ==
    /\ offered \in Seq(Nat)
    /\ Len(offered) <= Len(Sizes)
    /\ \A b \in 1 .. Len(offered) : offered[b] = b
    /\ delivered \in Seq(Nat)
    /\ Len(delivered) <= Len(offered)
    /\ inTransit => Len(delivered) < Len(offered)

(* Each byte of the stream is where its batch and its place in it say.        *)
InPlace ==
    \A k \in 1 .. Len(stream) :
        LET s == stream[k][1]
            p == stream[k][2] IN
        s \in Batches /\ p \in 0 .. BatchSize(s) - 1 /\ k = Start(s) + p + 1

WireInv ==
    /\ stream \in Seq(Nat \X Nat)
    /\ Len(stream) = wire + buffered + consumed
    /\ Start(NextBatch) <= Len(stream)
    /\ NextBatch \in Batches => Len(stream) <= Start(NextBatch + 1)
    /\ InPlace

(* What the reader has consumed ends where its next task begins.              *)
Cursor ==
    errors = 0 =>
        /\ InHandler => /\ current \in Tasks
                        /\ current[1] = started
                        /\ consumed = Begins(current)
        /\ ~InHandler /\ pendingTask # NullTask =>
                        /\ pendingTask[1] = started
                        /\ consumed = Begins(pendingTask)
        /\ ~InHandler /\ pendingTask = NullTask => consumed = Start(started + 1)
        /\ ~Coming /\ ~InHandler => pendingTask = NullTask

CallsInPlace ==
    /\ errors = 0 => \A k \in 1 .. Len(calls) : calls[k].from = Begins(calls[k].task)
    /\ \A k \in 1 .. Len(calls) : calls[k].upto <= Len(stream)

TransportInv == IInv /\ ChannelInv /\ WireInv /\ Cursor /\ CallsInPlace
-----------------------------------------------------------------------------
(* The bytes that SizeBefore counts.                                          *)
Pile(sizes, i) == UNION {{k} \X (1 .. sizes[k]) : k \in 1 .. i - 1}

LEMMA PileIsFinite ==
    ASSUME NEW sizes, NEW i \in Nat, \A k \in 1 .. i - 1 : sizes[k] \in Nat
    PROVE  IsFiniteSet(Pile(sizes, i))
  <1> DEFINE I == 1 .. i - 1
             f == [k \in I |-> {k} \X (1 .. sizes[k])]
             T == {{k} \X (1 .. sizes[k]) : k \in I}
  <1>1. IsFiniteSet(I)
    BY FS_Interval
  <1>2. f \in Surjection(I, T)
    <2>1. f \in [I -> T] /\ \A S \in T : \E k \in I : f[k] = S
      <3> HIDE DEF I
      <3> QED
        OBVIOUS
    <2> HIDE DEF f, I, T
    <2> QED
      BY <2>1 DEF Surjection
  <1>3. ASSUME NEW k \in I PROVE IsFiniteSet({k} \X (1 .. sizes[k]))
    <2>1. IsFiniteSet({k})
      BY FS_Singleton
    <2>2. sizes[k] \in Int
      OBVIOUS
    <2>3. IsFiniteSet(1 .. sizes[k])
      BY <2>2, FS_Interval
    <2> QED
      BY <2>1, <2>3, FS_Product
  <1>4. \A S \in T : IsFiniteSet(S)
    BY <1>3
  <1> HIDE DEF f, T, I
  <1>5. IsFiniteSet(T)
    BY <1>1, <1>2, FS_Surjection
  <1>6. IsFiniteSet(UNION T)
    BY <1>4, <1>5, FS_UNION
  <1> QED
    BY <1>6 DEF Pile, T, I

(* SizeBefore is the sum.                                                     *)
LEMMA SizeBeforeIsSum ==
    ASSUME NEW n \in Nat, NEW sizes, \A k \in 1 .. n : sizes[k] \in Nat
    PROVE  /\ \A i \in 1 .. n + 1 : SizeBefore(sizes, i) \in Nat
           /\ SizeBefore(sizes, 1) = 0
           /\ \A i \in 1 .. n : SizeBefore(sizes, i + 1) = SizeBefore(sizes, i) + sizes[i]
           /\ \A i, j \in 1 .. n + 1 : i <= j => SizeBefore(sizes, i) <= SizeBefore(sizes, j)
  <1>1. \A i : SizeBefore(sizes, i) = Cardinality(Pile(sizes, i))
    BY DEF SizeBefore, Pile
  <1>2. ASSUME NEW i \in 1 .. n + 1 PROVE IsFiniteSet(Pile(sizes, i))
    <2>1. i \in Nat /\ \A k \in 1 .. i - 1 : k \in 1 .. n
      OBVIOUS
    <2> QED
      BY <2>1, PileIsFinite
  <1>3. Pile(sizes, 1) = {}
    BY DEF Pile
  <1>4. ASSUME NEW i \in 1 .. n
        PROVE  SizeBefore(sizes, i + 1) = SizeBefore(sizes, i) + sizes[i]
    <2> DEFINE S == Pile(sizes, i)
               T == {i} \X (1 .. sizes[i])
    <2>1. 1 .. (i + 1) - 1 = (1 .. i - 1) \cup {i} /\ i \notin 1 .. i - 1
      OBVIOUS
    <2>2. Pile(sizes, i + 1) = S \cup T
      BY <2>1 DEF Pile
    <2>3. S \cap T = {}
      BY <2>1 DEF Pile
    <2>4. IsFiniteSet(T) /\ Cardinality(T) = sizes[i]
      <3> DEFINE m == sizes[i]
      <3>0. m \in Nat
        OBVIOUS
      <3> HIDE DEF m
      <3>1. IsFiniteSet(1 .. m) /\ Cardinality(1 .. m) = m
        BY <3>0, FS_Interval
      <3>2. IsFiniteSet({i}) /\ Cardinality({i}) = 1
        BY FS_Singleton
      <3> DEFINE A == {i}
                 B == 1 .. m
      <3>3. T = A \X B /\ IsFiniteSet(A) /\ IsFiniteSet(B) /\ Cardinality(A) = 1 /\ Cardinality(B) = m
        BY <3>1, <3>2 DEF m
      <3> HIDE DEF A, B, T
      <3>4. IsFiniteSet(T) /\ Cardinality(T) = 1 * m
        BY <3>3, FS_Product
      <3> QED
        BY <3>0, <3>4 DEF m
    <2>5. IsFiniteSet(S)
      BY <1>2
    <2> HIDE DEF S, T
    <2>6. Cardinality(S \cup T) = Cardinality(S) + Cardinality(T) - Cardinality(S \cap T)
      BY <2>4, <2>5, FS_Union
    <2>7. Cardinality(S \cap T) = 0
      BY <2>3, FS_EmptySet
    <2>8. Cardinality(S) \in Nat
      BY <2>5, FS_CardinalityType
    <2>9. Cardinality(S \cup T) = Cardinality(S) + sizes[i]
      BY <2>4, <2>6, <2>7, <2>8
    <2> QED
      BY <1>1, <2>2, <2>9 DEF S
  <1>5. ASSUME NEW i \in 1 .. n + 1, NEW j \in 1 .. n + 1, i <= j
        PROVE  SizeBefore(sizes, i) <= SizeBefore(sizes, j)
    <2>1. 1 .. i - 1 \subseteq 1 .. j - 1
      BY <1>5
    <2>2. Pile(sizes, i) \in SUBSET Pile(sizes, j)
      BY <2>1 DEF Pile
    <2>3. IsFiniteSet(Pile(sizes, j))
      BY <1>2
    <2> QED
      BY <1>1, <2>2, <2>3, FS_Subset
  <1>6. \A i \in 1 .. n + 1 : SizeBefore(sizes, i) \in Nat
    BY <1>1, <1>2, FS_CardinalityType
  <1>7. SizeBefore(sizes, 1) = 0
    BY <1>1, <1>3, FS_EmptySet
  <1> QED
    BY <1>4, <1>5, <1>6, <1>7

(* The places of the tasks in a batch.                                        *)
LEMMA TasksInBatch ==
    ASSUME NEW s \in Batches
    PROVE  /\ BatchSize(s) \in Nat
           /\ Offset(s, 1) = 0
           /\ Offset(s, Len(Sizes[s]) + 1) = BatchSize(s)
           /\ \A i \in 1 .. Len(Sizes[s]) :
                /\ Sizes[s][i] \in Nat
                /\ Offset(s, i) \in Nat
                /\ Offset(s, i + 1) = Offset(s, i) + Sizes[s][i]
                /\ Offset(s, i) + Sizes[s][i] <= BatchSize(s)
  <1> DEFINE n == Len(Sizes[s])
  <1>1. Sizes[s] \in Seq(Nat \ {0})
    BY ReaderAssumption DEF ReaderAssumption, Batches
  <1>2. n \in Nat /\ \A i \in 1 .. n : Sizes[s][i] \in Nat
    BY <1>1
  <1> HIDE DEF n
  <1>3. /\ \A i \in 1 .. n + 1 : Offset(s, i) \in Nat
        /\ Offset(s, 1) = 0
        /\ \A i \in 1 .. n : Offset(s, i + 1) = Offset(s, i) + Sizes[s][i]
        /\ \A i, j \in 1 .. n + 1 : i <= j => Offset(s, i) <= Offset(s, j)
    BY <1>2, SizeBeforeIsSum DEF Offset
  <1>4. n + 1 \in 1 .. n + 1 /\ \A i \in 1 .. n : i \in 1 .. n + 1 /\ i + 1 \in 1 .. n + 1 /\ i + 1 <= n + 1
    BY <1>2
  <1> QED
    BY <1>2, <1>3, <1>4 DEF BatchSize, n

(* The places of the batches on the stream.                                   *)
LEMMA BatchesOnStream ==
    /\ Len(Sizes) \in Nat
    /\ Start(1) = 0
    /\ \A s \in 1 .. Len(Sizes) + 1 : Start(s) \in Nat
    /\ \A s \in Batches : Start(s + 1) = Start(s) + BatchSize(s)
    /\ \A s, r \in 1 .. Len(Sizes) + 1 : s <= r => Start(s) <= Start(r)
  <1> DEFINE sizes == [b \in Batches |-> BatchSize(b)]
             n == Len(Sizes)
  <1>1. n \in Nat /\ Batches = 1 .. n
    BY ReaderAssumption DEF ReaderAssumption, Batches
  <1>2. \A b \in Batches : sizes[b] = BatchSize(b) /\ sizes[b] \in Nat
    BY TasksInBatch
  <1>3. \A s : Start(s) = SizeBefore(sizes, s)
    BY DEF Start
  <1> HIDE DEF n, sizes
  <1> QED
    BY <1>1, <1>2, <1>3, SizeBeforeIsSum DEF n

(* A place on the stream belongs to one batch.                                *)
LEMMA OnePlaceEach ==
    ASSUME NEW s \in Batches, NEW p \in 0 .. BatchSize(s) - 1,
           NEW r \in Batches, NEW q \in 0 .. BatchSize(r) - 1,
           Start(s) + p = Start(r) + q
    PROVE  s = r /\ p = q
  <1>1. /\ BatchSize(s) \in Nat /\ BatchSize(r) \in Nat
        /\ Start(s) \in Nat /\ Start(r) \in Nat /\ s \in Nat /\ r \in Nat
        /\ Start(s + 1) = Start(s) + BatchSize(s)
        /\ Start(r + 1) = Start(r) + BatchSize(r)
    BY TasksInBatch, BatchesOnStream DEF Batches
  <1>2. ~(s < r)
    <2>1. s < r => Start(s + 1) <= Start(r)
      BY BatchesOnStream DEF Batches
    <2> QED
      BY <1>1, <2>1
  <1>3. ~(r < s)
    <2>1. r < s => Start(r + 1) <= Start(s)
      BY BatchesOnStream DEF Batches
    <2> QED
      BY <1>1, <2>1
  <1>4. s = r
    BY <1>1, <1>2, <1>3
  <1> QED
    BY <1>1, <1>4

(* And so does a place in the bytes of a task.                                *)
LEMMA TaskPlaceEach ==
    ASSUME NEW s \in Batches, NEW i \in 1 .. Len(Sizes[s]), NEW j \in 0 .. Sizes[s][i] - 1,
           NEW r \in Batches, NEW q \in 0 .. BatchSize(r) - 1,
           Start(s) + Offset(s, i) + 1 + j = Start(r) + q + 1
    PROVE  r = s /\ q = Offset(s, i) + j
  <1> DEFINE a == Start(s)
             b == Offset(s, i)
             size == Sizes[s][i]
             whole == BatchSize(s)
             c == Start(r)
  <1>1. a \in Nat /\ c \in Nat
    <2>1. s \in 1 .. Len(Sizes) + 1 /\ r \in 1 .. Len(Sizes) + 1
      BY BatchesOnStream DEF Batches
    <2> QED
      BY <2>1, BatchesOnStream
  <1>2. b \in Nat /\ size \in Nat /\ whole \in Nat /\ b + size <= whole /\ BatchSize(r) \in Nat
    BY TasksInBatch, Zenon
  <1>3. j \in 0 .. size - 1 /\ a + b + 1 + j = c + q + 1 /\ q \in Nat
    BY <1>2
  <1> HIDE DEF a, b, size, whole, c
  <1>4. b + j \in 0 .. whole - 1 /\ a + (b + j) = c + q
    BY <1>1, <1>2, <1>3
  <1> QED
    BY <1>4, OnePlaceEach DEF a, b, whole, c

(* From one task to the next, from one sequence to the next.                  *)
LEMMA TaskBegins ==
    ASSUME NEW task \in Tasks
    PROVE  /\ task[1] \in Batches
           /\ Begins(task) \in Nat
           /\ task[2] = 1 => Begins(task) = Start(task[1])
           /\ NextTask(task) # NullTask =>
                  /\ NextTask(task)[1] = task[1]
                  /\ Begins(NextTask(task)) = Begins(task) + GetSize(task)
           /\ NextTask(task) = NullTask => Start(task[1] + 1) = Begins(task) + GetSize(task)
  <1> DEFINE s == task[1]
             i == task[2]
  <1>1. s \in Batches /\ i \in 1 .. Len(Sizes[s]) /\ GetSize(task) = Sizes[s][i] /\ i \in Nat
    BY TaskForm DEF Batches, GetSize
  <1>2. /\ Start(s) \in Nat /\ Start(s + 1) = Start(s) + BatchSize(s)
    BY <1>1, BatchesOnStream DEF Batches
  <1>3. /\ Offset(s, 1) = 0
        /\ Offset(s, i) \in Nat
        /\ Sizes[s][i] \in Nat
        /\ Offset(s, i + 1) = Offset(s, i) + Sizes[s][i]
        /\ Offset(s, Len(Sizes[s]) + 1) = BatchSize(s)
    BY <1>1, TasksInBatch
  <1>4. Begins(task) = Start(s) + Offset(s, i)
    BY DEF Begins
  <1>5. CASE NextTask(task) = NullTask /\ i = Len(Sizes[s])
    BY <1>1, <1>2, <1>3, <1>4, <1>5
  <1>6. CASE NextTask(task) \in Tasks /\ NextTask(task) = <<s, i + 1>>
    <2>1. Begins(NextTask(task)) = Start(s) + Offset(s, i + 1) /\ NextTask(task)[1] = s
      BY <1>6 DEF Begins
    <2>2. NextTask(task) # NullTask
      BY <1>6, TaskForm
    <2> QED
      BY <1>1, <1>2, <1>3, <1>4, <2>1, <2>2
  <1> QED
    BY <1>5, <1>6, NextTaskForm
-----------------------------------------------------------------------------
(* The reader of the composition is AsyncReader, and the writer the channel.  *)
LEMMA ReaderStep == [TransportNext]_<<vars, channel, stream>> => [Next]_vars
  BY DEF TransportNext, Offer, Begin, PutByte, Finish, WriterStops, ReaderSteps, reader, Next

LEMMA ChannelStep == ChannelInv /\ [TransportNext]_<<vars, channel, stream>> => [W!Next]_W!vars
  <1> SUFFICES ASSUME ChannelInv, [TransportNext]_<<vars, channel, stream>>
               PROVE  [W!Next]_W!vars
    OBVIOUS
  <1>1. CASE Offer
    <2>1. Len(offered) + 1 \in Batches
      BY <1>1, BatchesOnStream DEF Offer, ChannelInv, Batches
    <2> QED
      BY <1>1, <2>1 DEF Offer, W!Next
  <1>2. CASE Begin \/ Finish \/ WriterStops
    BY <1>2 DEF Begin, Finish, WriterStops, W!Next
  <1>3. CASE PutByte \/ ReaderSteps \/ UNCHANGED <<vars, channel, stream>>
    BY <1>3 DEF PutByte, ReaderSteps, channel, W!vars
  <1> QED
    BY <1>1, <1>2, <1>3 DEF TransportNext

LEMMA ChannelPreserved ==
    ChannelInv /\ [TransportNext]_<<vars, channel, stream>> => ChannelInv'
  <1> SUFFICES ASSUME ChannelInv, [TransportNext]_<<vars, channel, stream>>
               PROVE  ChannelInv'
    OBVIOUS
  <1> USE DEF ChannelInv
  <1>1. CASE Offer
    <2>1. offered' = Append(offered, Len(offered) + 1) /\ UNCHANGED <<delivered, inTransit>>
          /\ Len(offered) < Len(Sizes)
      BY <1>1 DEF Offer, W!Offer
    <2>2. /\ offered' \in Seq(Nat)
          /\ Len(offered') = Len(offered) + 1
          /\ \A b \in 1 .. Len(offered') : offered'[b] = b
      BY <2>1
    <2> QED
      BY <2>1, <2>2, BatchesOnStream
  <1>2. CASE Finish
    <2>1. /\ delivered' = Append(delivered, offered[Len(delivered) + 1])
          /\ inTransit /\ ~inTransit' /\ offered' = offered
      BY <1>2 DEF Finish, W!Finish
    <2>2. offered[Len(delivered) + 1] \in Nat
      BY <2>1
    <2>3. delivered' \in Seq(Nat) /\ Len(delivered') = Len(delivered) + 1
      BY <2>1, <2>2
    <2> QED
      BY <2>1, <2>3
  <1>3. CASE Begin
    BY <1>3 DEF Begin, W!Begin
  <1>4. CASE WriterStops
    BY <1>4 DEF WriterStops, W!Lose, W!Close
  <1>5. CASE PutByte \/ ReaderSteps \/ UNCHANGED <<vars, channel, stream>>
    BY <1>5 DEF PutByte, ReaderSteps, channel
  <1> QED
    BY <1>1, <1>2, <1>3, <1>4, <1>5 DEF TransportNext
-----------------------------------------------------------------------------
(* What is on the wire of the batch in transit is what is behind its start.   *)
LEMMA PutIsRest ==
    ASSUME ChannelInv, WireInv, inTransit
    PROVE  /\ BatchInTransit = NextBatch
           /\ NextBatch \in Batches
           /\ Put = Len(stream) - Start(NextBatch)
  <1>1. BatchInTransit = NextBatch /\ NextBatch \in Batches
    BY BatchesOnStream DEF ChannelInv, BatchInTransit, NextBatch, Batches
  <1> DEFINE b == NextBatch
             n == Len(stream)
  <1>2. n \in Nat /\ b \in Nat /\ Start(b) \in Nat /\ Start(b) <= n /\ n <= Start(b + 1)
    BY <1>1, BatchesOnStream DEF WireInv, Batches
  <1>3. ASSUME NEW k \in 1 .. n
        PROVE  stream[k][1] = b <=> k > Start(b)
    <2> DEFINE s == stream[k][1]
               p == stream[k][2]
    <2>1. s \in Batches /\ p \in 0 .. BatchSize(s) - 1 /\ k = Start(s) + p + 1
      BY DEF WireInv, InPlace
    <2> HIDE DEF s, p, b, n
    <2>2. /\ BatchSize(s) \in Nat /\ Start(s) \in Nat /\ s \in Nat
          /\ Start(s + 1) = Start(s) + BatchSize(s)
      BY <2>1, TasksInBatch, BatchesOnStream DEF Batches
    <2>3. s < b => Start(s + 1) <= Start(b)
      BY <1>1, <2>1, BatchesOnStream DEF Batches, b
    <2>4. b < s => Start(b + 1) <= Start(s)
      BY <1>1, <2>1, BatchesOnStream DEF Batches, b
    <2>5. k \in Nat /\ k <= n
      BY <1>2
    <2>6. Start(b + 1) \in Nat
      BY <1>1, BatchesOnStream, TasksInBatch DEF Batches, b
    <2>7. CASE s < b
      BY <1>2, <2>1, <2>2, <2>3, <2>5, <2>7 DEF s
    <2>8. CASE s = b
      BY <1>2, <2>1, <2>2, <2>5, <2>8 DEF s
    <2>9. CASE b < s
      BY <1>2, <2>1, <2>2, <2>4, <2>5, <2>6, <2>9 DEF s
    <2> QED
      BY <1>2, <2>2, <2>7, <2>8, <2>9
  <1> HIDE DEF b, n
  <1>4. {k \in 1 .. n : stream[k][1] = b} = Start(b) + 1 .. n
    BY <1>2, <1>3
  <1>5. Cardinality(Start(b) + 1 .. n) = n - Start(b)
    BY <1>2, FS_Interval
  <1> QED
    BY <1>1, <1>4, <1>5 DEF Put, b, n

(* What ContinueSequence takes out of the buffer is what the handler's task   *)
(* asked for.                                                                 *)
LEMMA TaskIsConsumed ==
    ASSUME IInv, at = "assigned"
    PROVE  Consume(GetSize(current)) = GetSize(current) /\ GetSize(current) \in Nat
  <1>1. GetSize(current) \in Nat /\ buffered \in Nat
    BY SizeType DEF IInv, TypeInv, TypeOK
  <1>2. buffered >= GetSize(current)
    BY DEF IInv, StreamInv, InTheStream, InHandler
  <1> QED
    BY <1>1, <1>2, LesserOfTwo DEF Consume

(* The reader moves bytes between wire, buffer and its handlers.              *)
LEMMA BytesKept ==
    ASSUME IInv, ReaderSteps
    PROVE  wire' + buffered' + consumed' = wire + buffered + consumed
  <1>1. wire \in Nat /\ buffered \in Nat /\ consumed \in Nat
    BY ReaderAssumption DEF IInv, TypeInv, TypeOK
  <1>2. ASSUME NEW i \in 1 .. Len(reads), ReadCompletes(i)
        PROVE  wire' + buffered' + consumed' = wire + buffered + consumed
    <2>1. reads[i] \in Nat
      BY DEF IInv, TypeInv, TypeOK
    <2>2. PICK n \in reads[i] .. wire : wire' = wire - n /\ buffered' = buffered + n
      BY <1>2 DEF ReadCompletes
    <2>3. consumed' = consumed
      BY <1>2 DEF ReadCompletes
    <2> QED
      BY <1>1, <2>1, <2>2, <2>3
  <1>3. ASSUME NEW i \in 1 .. Len(reads), ReadFails(i)
        PROVE  wire' + buffered' + consumed' = wire + buffered + consumed
    <2>1. PICK n \in 0 .. wire : wire' = wire - n /\ buffered' = buffered + n
      BY <1>3 DEF ReadFails
    <2>2. consumed' = consumed
      BY <1>3 DEF ReadFails
    <2> QED
      BY <1>1, <2>1, <2>2
  <1>4. CASE ContinueSequence
    <2>1. at = "assigned"
      BY <1>4 DEF ContinueSequence
    <2>2. /\ consumed' = consumed + GetSize(current)
          /\ buffered' = buffered - GetSize(current)
          /\ wire' = wire
      BY <1>4, <2>1, TaskIsConsumed DEF ContinueSequence
    <2> QED
      BY <1>1, <2>1, <2>2, TaskIsConsumed
  <1>5. CASE \/ ScheduleRead \/ PostRead \/ DoRead \/ ReadDoneSynchronously \/ ReadDone
             \/ ReadDoneWithError \/ HandlerReturns
    BY <1>5 DEF ScheduleRead, PostRead, DoRead, ReadDoneSynchronously, ReadDone, ReadDoneWithError,
       HandlerReturns, buffer
  <1> QED
    BY <1>2, <1>3, <1>4, <1>5 DEF ReaderSteps, IoThread, SomeReadCompletes, SomeReadFails

(* The bytes of the wire are the batches' bytes, each in its place.           *)
LEMMA WirePreserved ==
    IInv /\ ChannelInv /\ WireInv /\ [TransportNext]_<<vars, channel, stream>> => WireInv'
  <1> SUFFICES ASSUME IInv, ChannelInv, WireInv, [TransportNext]_<<vars, channel, stream>>
               PROVE  WireInv'
    OBVIOUS
  <1>1. CASE PutByte
    <2> DEFINE b == NextBatch
    <2>1. /\ BatchInTransit = b /\ b \in Batches /\ Put = Len(stream) - Start(b)
          /\ Put < BatchSize(b)
          /\ stream' = Append(stream, <<b, Put>>)
          /\ UNCHANGED channel
      BY <1>1, PutIsRest DEF PutByte
    <2>2. /\ b \in Nat /\ Start(b) \in Nat /\ BatchSize(b) \in Nat
          /\ Start(b + 1) = Start(b) + BatchSize(b)
      BY <2>1, BatchesOnStream, TasksInBatch DEF Batches
    <2>3. /\ stream \in Seq(Nat \X Nat) /\ Len(stream) \in Nat /\ Start(b) <= Len(stream)
          /\ Len(stream) = wire + buffered + consumed
      BY DEF WireInv
    <2>4. Put \in 0 .. BatchSize(b) - 1 /\ b' = b
      BY <2>1, <2>2, <2>3 DEF channel, NextBatch
    <2> HIDE DEF b
    <2>5. /\ stream' \in Seq(Nat \X Nat) /\ Len(stream') = Len(stream) + 1
          /\ stream'[Len(stream) + 1] = <<b, Put>>
          /\ \A k \in 1 .. Len(stream) : stream'[k] = stream[k]
      BY <2>1, <2>2, <2>3, <2>4
    <2>6. Len(stream') = wire' + buffered' + consumed'
      <3>1. wire \in Nat /\ buffered \in Nat /\ consumed \in Nat
        BY ReaderAssumption DEF IInv, TypeInv, TypeOK
      <3>2. wire' = wire + 1 /\ buffered' = buffered /\ consumed' = consumed
        BY <1>1 DEF PutByte, BytesArrive
      <3> QED
        BY <2>3, <2>5, <3>1, <3>2
    <2>7. Start(b) <= Len(stream') /\ Len(stream') <= Start(b + 1)
      BY <2>1, <2>2, <2>3, <2>5
    <2>8. ASSUME NEW k \in 1 .. Len(stream')
          PROVE  LET s == stream'[k][1]
                     p == stream'[k][2] IN
                 s \in Batches /\ p \in 0 .. BatchSize(s) - 1 /\ k = Start(s) + p + 1
      <3>1. CASE k = Len(stream) + 1
        BY <2>1, <2>2, <2>3, <2>4, <2>5, <3>1
      <3>2. CASE k \in 1 .. Len(stream)
        BY <2>5, <3>2 DEF WireInv, InPlace
      <3> QED
        BY <2>3, <2>5, <3>1, <3>2
    <2>9. Start(NextBatch') <= Len(stream') /\ Len(stream') <= Start(NextBatch' + 1)
      BY <2>4, <2>7 DEF b
    <2>10. InPlace'
      BY <2>8 DEF InPlace
    <2> QED
      BY <2>5, <2>6, <2>9, <2>10 DEF WireInv
  <1>2. CASE Finish
    <2> DEFINE b == NextBatch
    <2>1. /\ b \in Batches /\ Len(stream) - Start(b) = BatchSize(b)
          /\ UNCHANGED <<wire, buffered, consumed, stream>>
      BY <1>2, PutIsRest DEF Finish, reader, vars
    <2>2. /\ b \in Nat /\ Start(b) \in Nat /\ BatchSize(b) \in Nat /\ Len(stream) \in Nat
          /\ Start(b + 1) = Start(b) + BatchSize(b)
      BY <2>1, BatchesOnStream, TasksInBatch DEF Batches, WireInv
    <2>3. NextBatch' = b + 1
      <3>1. delivered' = Append(delivered, offered[Len(delivered) + 1]) /\ delivered \in Seq(Nat)
        BY <1>2 DEF Finish, W!Finish, ChannelInv
      <3> QED
        BY <3>1 DEF NextBatch
    <2> HIDE DEF b
    <2>4. Len(stream) = Start(b + 1)
      BY <2>1, <2>2
    <2>5. b + 1 \in Batches => Start(b + 1) <= Start((b + 1) + 1)
      BY <2>2, BatchesOnStream DEF Batches
    <2>6. Start(b + 1) <= Len(stream)
      BY <2>2, <2>4
    <2> QED
      BY <2>1, <2>3, <2>4, <2>5, <2>6 DEF WireInv, InPlace
  <1>3. CASE ReaderSteps
    BY <1>3, BytesKept DEF ReaderSteps, channel, WireInv, InPlace, NextBatch
  <1>4. CASE Offer \/ Begin \/ WriterStops \/ UNCHANGED <<vars, channel, stream>>
    <2>1. UNCHANGED <<delivered, stream, wire, buffered, consumed>>
      BY <1>4 DEF Offer, Begin, WriterStops, W!Offer, W!Begin, W!Lose, W!Close, reader, vars, channel
    <2> QED
      BY <2>1 DEF WireInv, InPlace, NextBatch
  <1> QED
    BY <1>1, <1>2, <1>3, <1>4 DEF TransportNext
-----------------------------------------------------------------------------
(* A step that changes neither what is consumed nor which task is next.       *)
LEMMA CursorKept ==
    ASSUME Cursor, UNCHANGED <<consumed, started, pendingTask, current, errors>>,
           InHandler' <=> InHandler,
           Coming' \/ (Coming' <=> Coming)
    PROVE  Cursor'
  BY DEF Cursor, Begins

(* The handler of the pending task is called where the task begins.           *)
LEMMA CallIsInPlace ==
    ASSUME IInv, Cursor, CallsInPlace, Coming, ~InHandler, CallHandler,
           UNCHANGED <<consumed, started, errors, pendingTask, stream>>,
           Len(stream) = wire + buffered + consumed
    PROVE  Cursor' /\ CallsInPlace'
  <1>1. pendingTask \in Tasks /\ pendingTask # NullTask
    BY TaskForm DEF IInv, ChainInv, InTheChain
  <1>2. /\ current' = pendingTask /\ at' = "handler"
        /\ calls' = Append(calls, [task |-> pendingTask, from |-> consumed, upto |-> consumed + buffered])
    BY <1>1 DEF CallHandler
  <1>3. InHandler'
    BY <1>2 DEF InHandler
  <1>4. Cursor'
    BY <1>1, <1>2, <1>3 DEF Cursor, Begins
  <1>5. /\ Len(calls') = Len(calls) + 1 /\ Len(calls) \in Nat
        /\ \A k \in 1 .. Len(calls) : calls'[k] = calls[k]
        /\ calls'[Len(calls) + 1].task = pendingTask
        /\ calls'[Len(calls) + 1].from = consumed
        /\ calls'[Len(calls) + 1].upto = consumed + buffered
    <2> DEFINE C == [task : Tasks, from : Nat, upto : Nat]
               c == [task |-> pendingTask, from |-> consumed, upto |-> consumed + buffered]
    <2>1. calls \in Seq(C) /\ c.task = pendingTask /\ c.from = consumed /\ c.upto = consumed + buffered
      BY DEF IInv, TypeInv, TypeOK
    <2>2. calls' = Append(calls, c)
      BY <1>2
    <2> HIDE DEF C, c
    <2> QED
      BY <2>1, <2>2
  <1>6. wire \in Nat /\ buffered \in Nat /\ consumed \in Nat
    BY ReaderAssumption DEF IInv, TypeInv, TypeOK
  <1>7. consumed + buffered <= Len(stream)
    BY <1>6
  <1>8. errors = 0 => consumed = Begins(pendingTask)
    BY <1>1 DEF Cursor
  <1>9. ASSUME NEW k \in 1 .. Len(calls')
        PROVE  /\ errors = 0 => calls'[k].from = Begins(calls'[k].task)
               /\ calls'[k].upto <= Len(stream)
    <2>1. CASE k = Len(calls) + 1
      BY <1>5, <1>7, <1>8, <2>1
    <2>2. CASE k \in 1 .. Len(calls)
      BY <1>5, <2>2 DEF CallsInPlace
    <2> QED
      BY <1>5, <2>1, <2>2
  <1>10. CallsInPlace'
    BY <1>9 DEF CallsInPlace, Begins
  <1> QED
    BY <1>4, <1>10

(* The bytes of the handler's task are consumed, and the next task begins.    *)
LEMMA ContinueIsInPlace ==
    ASSUME IInv, Cursor, ContinueSequence
    PROVE  Cursor'
  <1> SUFFICES ASSUME errors' = 0 PROVE Cursor'
    BY DEF Cursor
  <1>1. at = "assigned" /\ InHandler /\ pendingTask = NextTask(current)
    BY DEF ContinueSequence, InHandler, IInv, ChainInv, InTheChain
  <1>2. UNCHANGED <<pendingTask, started, errors>>
    BY DEF ContinueSequence, application, history
  <1>3. current \in Tasks /\ current[1] = started /\ consumed = Begins(current)
    BY <1>1, <1>2 DEF Cursor
  <1>4. consumed' = Begins(current) + GetSize(current)
    BY <1>1, <1>3, TaskIsConsumed DEF ContinueSequence
  <1>5. at' \in {"idle", "readDone"}
    BY DEF ContinueSequence, Read
  <1>6. pendingTask # NullTask => Coming'
    <2> DEFINE rest == GetSize(pendingTask) - (buffered - Consume(GetSize(current)))
    <2>1. pendingTask # NullTask => at' = "readDone" \/ reads' = Append(reads, rest)
      BY DEF ContinueSequence, Read
    <2>2. reads \in Seq(Int) /\ rest \in Int
      BY <1>1, TaskIsConsumed, SizeType DEF IInv, TypeInv, TypeOK
    <2> HIDE DEF rest
    <2>3. Len(Append(reads, rest)) = Len(reads) + 1 /\ Len(reads) \in Nat
      BY <2>2
    <2>4. Append(reads, rest) # <<>>
      BY <2>3
    <2> QED
      BY <2>1, <2>4 DEF Coming
  <1> QED
    BY <1>1, <1>2, <1>3, <1>4, <1>5, <1>6, TaskBegins DEF Cursor, InHandler, Begins

(* The calls stay what they are when no handler is called.                    *)
LEMMA CallsKeepPlace ==
    ASSUME CallsInPlace, calls' = calls, errors' = errors \/ errors' # 0,
           stream' = stream
    PROVE  CallsInPlace'
  BY DEF CallsInPlace, Begins

LEMMA CursorPreserved ==
    ASSUME Eager = FALSE, IInv, WireInv, Cursor, CallsInPlace, ReaderSteps
    PROVE  Cursor' /\ CallsInPlace'
  <1> USE DEF buffer, ops, application, history
  <1>1. TypeOK /\ DriverInv /\ stream' = stream
    BY DEF IInv, TypeInv, ReaderSteps
  <1>2. CASE ScheduleRead
    <2>1. /\ started' = started + 1 /\ started + 1 \in Batches
          /\ pendingTask' = <<started + 1, 1>>
          /\ caller = "idle" /\ caller' = "assigned" /\ Quiet
          /\ UNCHANGED <<consumed, at, calls, errors>>
      BY <1>1, <1>2, BatchesOnStream DEF ScheduleRead, MaySchedule, io, TypeOK, Batches
    <2>2. ~Coming /\ ~InHandler /\ ~InHandler' /\ Coming'
      BY <2>1 DEF Coming, InHandler, Quiet
    <2>3. Begins(pendingTask') = Start(started + 1)
      <3>1. <<started + 1, 1>> \in Tasks
        BY <2>1, EntryTask DEF Batches
      <3> QED
        BY <2>1, <3>1, TaskBegins
    <2>4. pendingTask' # NullTask
      BY <1>1, <2>1 DEF NullTask
    <2>5. Cursor'
      BY <2>1, <2>2, <2>3, <2>4 DEF Cursor, Begins
    <2> QED
      BY <1>1, <2>1, <2>5, CallsKeepPlace
  <1>3. CASE PostRead
    <2>1. posted' > 0 /\ UNCHANGED <<consumed, started, pendingTask, current, errors, at, calls>>
      BY <1>1, <1>3 DEF PostRead, TypeOK
    <2> QED
      BY <1>1, <2>1, CursorKept, CallsKeepPlace DEF Coming, InHandler
  <1>4. CASE DoRead
    <2>1. /\ at = "idle" /\ posted > 0 /\ Read(GetSize(pendingTask), buffered)
          /\ UNCHANGED <<consumed, started, pendingTask, current, errors, calls>>
      BY <1>4 DEF DoRead
    <2>2. reads = <<>> /\ GetSize(pendingTask) \in Nat /\ buffered \in Nat
      BY <1>1, <2>1, PostedIsAlone, SizeType DEF TypeOK
    <2>3. at' = "readDone" \/ (at' = "idle" /\ reads' = <<GetSize(pendingTask) - buffered>>)
      BY <2>1, <2>2, ReadStarts
    <2>4. Coming' /\ ~InHandler /\ ~InHandler'
      BY <2>1, <2>3 DEF Coming, InHandler
    <2> QED
      BY <1>1, <2>1, <2>4, CursorKept, CallsKeepPlace
  <1>5. ASSUME NEW i \in 1 .. Len(reads), ReadCompletes(i) \/ ReadFails(i)
        PROVE  Cursor' /\ CallsInPlace'
    <2>1. \E r \in {"ok", "failed"} : completions' = Append(completions, r)
      BY <1>5 DEF ReadCompletes, ReadFails
    <2>2. completions' # <<>>
      <3>1. completions \in Seq({"ok", "failed"})
        BY <1>1 DEF TypeOK
      <3> QED
        BY <2>1, <3>1
    <2>3. UNCHANGED <<consumed, started, pendingTask, current, errors, at, calls>>
      BY <1>5 DEF ReadCompletes, ReadFails
    <2> QED
      BY <1>1, <2>2, <2>3, CursorKept, CallsKeepPlace DEF Coming, InHandler
  <1>6. CASE ReadDoneSynchronously \/ ReadDone
    <2>1. Coming /\ ~InHandler /\ CallHandler
      BY <1>6 DEF ReadDoneSynchronously, ReadDone, Coming, InHandler
    <2>2. UNCHANGED <<consumed, started, errors, pendingTask>>
      BY <1>6 DEF ReadDoneSynchronously, ReadDone
    <2> QED
      BY <1>1, <2>1, <2>2, CallIsInPlace DEF WireInv
  <1>7. CASE ReadDoneWithError
    <2>1. errors' = errors + 1 /\ calls' = calls
      BY <1>7 DEF ReadDoneWithError
    <2>2. errors' # 0
      BY <1>1, <2>1 DEF TypeOK
    <2> QED
      BY <1>1, <2>1, <2>2, CallsKeepPlace DEF Cursor
  <1>8. CASE HandlerReturns
    <2>1. /\ InHandler /\ InHandler'
          /\ UNCHANGED <<consumed, started, current, errors, calls>>
      BY <1>8 DEF HandlerReturns, InHandler
    <2>2. Cursor'
      BY <2>1 DEF Cursor, Begins
    <2> QED
      BY <1>1, <2>1, <2>2, CallsKeepPlace
  <1>9. CASE ContinueSequence
    <2>1. UNCHANGED <<calls, errors>>
      BY <1>9 DEF ContinueSequence
    <2> QED
      BY <1>1, <1>9, <2>1, ContinueIsInPlace, CallsKeepPlace
  <1> QED
    BY <1>2, <1>3, <1>4, <1>5, <1>6, <1>7, <1>8, <1>9
       DEF ReaderSteps, IoThread, SomeReadCompletes, SomeReadFails

(* The steps of the writer leave the reader alone, but for the bytes on the   *)
(* wire.                                                                      *)
LEMMA WriterKeepsCursor ==
    ASSUME IInv, WireInv, Cursor, CallsInPlace,
           \/ Offer \/ Begin \/ PutByte \/ Finish \/ WriterStops
           \/ UNCHANGED <<vars, channel, stream>>
    PROVE  Cursor' /\ CallsInPlace'
  <1>1. CASE PutByte
    <2>1. UNCHANGED <<consumed, pendingTask, posted, reads, completions, at, current,
                      caller, started, calls, errors>>
      BY <1>1 DEF PutByte, BytesArrive, io, application, history
    <2>2. Cursor'
      BY <2>1, CursorKept DEF Coming, InHandler
    <2>3. stream \in Seq(Nat \X Nat) /\ Len(stream') = Len(stream) + 1
      BY <1>1 DEF PutByte, WireInv
    <2>4. \A k \in 1 .. Len(calls) : calls[k].upto \in Nat
      <3> DEFINE C == [task : Tasks, from : Nat, upto : Nat]
      <3>1. calls \in Seq(C) /\ \A c \in C : c.upto \in Nat
        BY DEF IInv, TypeInv, TypeOK
      <3> HIDE DEF C
      <3> QED
        BY <3>1
    <2>5. CallsInPlace'
      BY <2>1, <2>3, <2>4 DEF CallsInPlace, Begins
    <2> QED
      BY <2>2, <2>5
  <1>2. CASE ~PutByte
    <2>1. UNCHANGED <<vars, stream>>
      BY <1>2 DEF Offer, Begin, Finish, WriterStops, reader
    <2> QED
      BY <2>1, CursorKept, CallsKeepPlace DEF vars, Coming, InHandler
  <1> QED
    BY <1>1, <1>2
-----------------------------------------------------------------------------
LEMMA TransportInitInv == TransportInit => TransportInv
  <1> SUFFICES ASSUME TransportInit PROVE TransportInv
    OBVIOUS
  <1>1. IInv
    BY InitIInv DEF TransportInit
  <1>2. /\ offered = <<>> /\ delivered = <<>> /\ ~inTransit /\ stream = <<>>
        /\ wire = 0 /\ buffered = 0 /\ consumed = 0
        /\ at = "idle" /\ pendingTask = NullTask /\ started = 0 /\ calls = <<>>
    BY DEF TransportInit, Init, W!Init
  <1>3. ChannelInv
    BY <1>2, BatchesOnStream DEF ChannelInv
  <1>4. NextBatch = 1 /\ Start(1) = 0 /\ (NextBatch \in Batches => 0 <= Start(NextBatch + 1))
    <2>1. NextBatch = 1
      BY <1>2 DEF NextBatch
    <2>2. 1 \in Batches => Start(1 + 1) \in Nat
      BY BatchesOnStream, TasksInBatch
    <2> QED
      BY <2>1, <2>2, BatchesOnStream
  <1>5. WireInv
    BY <1>2, <1>4 DEF WireInv, InPlace
  <1>6. Cursor
    BY <1>2, <1>4 DEF Cursor, InHandler
  <1>7. CallsInPlace
    BY <1>2 DEF CallsInPlace
  <1> QED
    BY <1>1, <1>3, <1>5, <1>6, <1>7 DEF TransportInv

LEMMA TransportInvPreserved ==
    ASSUME Eager = FALSE, TransportInv, [TransportNext]_<<vars, channel, stream>>
    PROVE  TransportInv'
  <1>1. IInv /\ ChannelInv /\ WireInv /\ Cursor /\ CallsInPlace
    BY DEF TransportInv
  <1>2. IInv'
    BY <1>1, ReaderStep, IInvPreserved
  <1>3. ChannelInv' /\ WireInv'
    BY <1>1, ChannelPreserved, WirePreserved
  <1>4. Cursor' /\ CallsInPlace'
    BY <1>1, CursorPreserved, WriterKeepsCursor DEF TransportNext
  <1> QED
    BY <1>2, <1>3, <1>4 DEF TransportInv

LEMMA TransportInductive ==
    ASSUME Eager = FALSE
    PROVE  TransportSpec => []TransportInv
  <1>1. TransportInit => TransportInv
    BY TransportInitInv
  <1>2. TransportInv /\ [TransportNext]_<<vars, channel, stream>> => TransportInv'
    BY TransportInvPreserved
  <1> QED
    BY <1>1, <1>2, PTL DEF TransportSpec

(* A handler that was called where its task begins sees its batch.            *)
LEMMA SequenceSeesItsBatch == TransportInv => SequenceReadsItsBatch
  <1> SUFFICES ASSUME TransportInv, errors = 0,
                      NEW k \in 1 .. Len(calls),
                      NEW s, s = calls[k].task[1],
                      NEW i, i = calls[k].task[2],
                      NEW j \in 0 .. Sizes[s][i] - 1
               PROVE  stream[calls[k].from + 1 + j] = <<s, Offset(s, i) + j>>
    BY DEF SequenceReadsItsBatch
  <1> DEFINE from == calls[k].from
             size == Sizes[s][i]
             n == from + 1 + j
  <1>1. calls[k].task \in Tasks /\ from \in Nat /\ calls[k].upto \in Nat
    <2> DEFINE C == [task : Tasks, from : Nat, upto : Nat]
    <2>1. calls \in Seq(C) /\ \A c \in C : c.task \in Tasks /\ c.from \in Nat /\ c.upto \in Nat
      BY DEF TransportInv, IInv, TypeInv, TypeOK
    <2> HIDE DEF C
    <2> QED
      BY <2>1
  <1>2. s \in Batches /\ i \in 1 .. Len(Sizes[s]) /\ GetSize(calls[k].task) = Sizes[s][i]
    BY <1>1, TaskForm DEF Batches, GetSize
  <1>3. /\ Offset(s, i) \in Nat /\ size \in Nat /\ Start(s) \in Nat /\ BatchSize(s) \in Nat
        /\ Offset(s, i) + size <= BatchSize(s)
    <2>1. Start(s) \in Nat
      BY <1>2, BatchesOnStream DEF Batches
    <2> QED
      BY <1>2, <2>1, TasksInBatch
  <1>4. from = Start(s) + Offset(s, i)
    BY DEF TransportInv, CallsInPlace, Begins
  <1>5. from + size <= calls[k].upto /\ calls[k].upto <= Len(stream)
    BY <1>2 DEF TransportInv, IInv, StreamInv, HandlersSeeTheStream, CallsInPlace
  <1>6. stream \in Seq(Nat \X Nat)
    BY DEF TransportInv, WireInv
  <1>7. j \in Nat /\ j < size
    BY <1>3
  <1> HIDE DEF from, size
  <1>8. n \in 1 .. Len(stream)
    <2>1. Len(stream) \in Nat
      BY <1>6
    <2>2. n \in Nat /\ n >= 1 /\ n <= from + size
      BY <1>1, <1>3, <1>7
    <2>3. n <= Len(stream)
      BY <1>1, <1>3, <1>5, <2>1, <2>2
    <2> QED
      BY <2>1, <2>2, <2>3
  <1> DEFINE r == stream[n][1]
             p == stream[n][2]
  <1>9. r \in Batches /\ p \in 0 .. BatchSize(r) - 1 /\ n = Start(r) + p + 1
    BY <1>8 DEF TransportInv, WireInv, InPlace
  <1>10. stream[n] = <<r, p>>
    BY <1>6, <1>8
  <1> HIDE DEF r, p
  <1>11. r = s /\ p = Offset(s, i) + j
    BY <1>1, <1>2, <1>4, <1>9, TaskPlaceEach DEF size, n, from
  <1> QED
    BY <1>10, <1>11 DEF n, from

(* Every read sequence sees the batch that the writer sent for it, byte for   *)
(* byte: however the wire cuts the batches (async_writer.cpp:91-98,           *)
(* async_reader.cpp:45-75), the writer's order of batches, the reader's count *)
(* of bytes and its chain of tasks stay in step, as long as no read fails.    *)
THEOREM BatchForSequence ==
    ASSUME Eager = FALSE
    PROVE  TransportSpec => []SequenceReadsItsBatch
  BY TransportInductive, SequenceSeesItsBatch, PTL

(* The reader of the composition is AsyncReader: it takes no step that is not *)
(* one of that module (async_reader.cpp:15-116), so that what is proved of it *)
(* holds here.                                                                *)
THEOREM ReaderOfTransport == TransportSpec => Spec
  <1>1. TransportInit => Init
    BY DEF TransportInit
  <1> QED
    BY <1>1, ReaderStep, PTL DEF TransportSpec, Spec

(* The reader at the end of a writer and a wire: its handlers see the stream  *)
(* in order and in the order of their chain, one thing at a time drives it    *)
(* (async_reader.cpp:29-116).                                                 *)
THEOREM ReaderInTransport ==
    ASSUME Eager = FALSE
    PROVE  TransportSpec =>
               [](TypeOK /\ OneDriver /\ HandlersSeeTheStream /\ HandlersFollowTheChain)
  BY ReaderOfTransport, TypeCorrect, Driver, Stream, Chain, PTL

(* The writer of the composition takes no step that is not one of the channel *)
(* which AsyncWriter is proved to implement (async_writer.cpp:18-153).        *)
THEOREM WriterOfTransport == TransportSpec => W!Spec
  <1>1. TransportInit => W!Init /\ ChannelInv
    BY TransportInitInv DEF TransportInit, TransportInv
  <1>2. ChannelInv /\ [TransportNext]_<<vars, channel, stream>> => ChannelInv'
    BY ChannelPreserved
  <1>3. ChannelInv /\ [TransportNext]_<<vars, channel, stream>> => [W!Next]_W!vars
    BY ChannelStep
  <1> QED
    BY <1>1, <1>2, <1>3, PTL DEF TransportSpec, W!Spec
=============================================================================
