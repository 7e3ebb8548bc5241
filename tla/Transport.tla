------------------------------ MODULE Transport ------------------------------
(***************************************************************************)
(* From a writer to the reader of the peer: the channel that AsyncWriter   *)
(* implements (WriteChannel), the bytes of its batches on the wire, and    *)
(* AsyncReader, which reads batch s by its read sequence s. The wire holds *)
(* a limited number of bytes, so that a peer that does not read keeps the  *)
(* write in transit.                                                       *)
(***************************************************************************)
EXTENDS AsyncReader

CONSTANT Capacity       \* bytes that fit between writer and reader

(* An async_read takes the bytes of its task off the wire in one step here,   *)
(* where they have to fit then.                                               *)
ASSUME TransportAssumption ==
    Capacity \in Nat /\ \A task \in Tasks : GetSize(task) <= Capacity

VARIABLES
    offered, delivered, inTransit, closed,  \* the writer, as WriteChannel
    stream      \* what the wire took so far: of each byte its batch and its place in it

channel == <<offered, delivered, inTransit, closed>>
reader  == vars

Batches == 1 .. Len(Sizes)

W == INSTANCE WriteChannel WITH Messages <- Batches

(* The sum of the sizes before the i-th, counted out.                         *)
SizeBefore(sizes, i) == Cardinality(UNION {{k} \X (1 .. sizes[k]) : k \in 1 .. i - 1})

(* Where the bytes of task i begin in the batch of its sequence s.            *)
Offset(s, i) == SizeBefore(Sizes[s], i)

BatchSize(s) == Offset(s, Len(Sizes[s]) + 1)

TransportInit == Init /\ W!Init /\ stream = <<>>

BatchInTransit == offered[Len(delivered) + 1]

(* How much of the batch in transit is on the wire.                           *)
Put == Cardinality({k \in 1 .. Len(stream) : stream[k][1] = BatchInTransit})

(* The application sends its batches in the order in which the peer expects   *)
(* them.                                                                      *)
Offer ==
    /\ Len(offered) < Len(Sizes)
    /\ W!Offer(Len(offered) + 1)
    /\ UNCHANGED <<reader, stream>>

Begin == W!Begin /\ UNCHANGED <<reader, stream>>

PutByte ==
    /\ inTransit
    /\ wire < Capacity
    /\ Put < BatchSize(BatchInTransit)
    /\ BytesArrive
    /\ stream' = Append(stream, <<BatchInTransit, Put>>)
    /\ UNCHANGED channel

Finish ==
    /\ inTransit
    /\ Put = BatchSize(BatchInTransit)
    /\ W!Finish
    /\ UNCHANGED <<reader, stream>>

(* The write fails, or the writer's deadline passes.                          *)
WriterStops == (W!Lose \/ (~closed /\ W!Close)) /\ UNCHANGED <<reader, stream>>

ReaderSteps ==
    /\ ScheduleRead \/ PostRead \/ IoThread \/ SomeReadCompletes \/ SomeReadFails
    /\ UNCHANGED <<channel, stream>>

TransportNext == Offer \/ Begin \/ PutByte \/ Finish \/ WriterStops \/ ReaderSteps

(* The writer's and the reader's threads run, the network moves bytes, and    *)
(* the application reads on; nothing makes it send, nor anything fail.        *)
TransportFairness ==
    /\ WF_<<vars, channel, stream>>(Begin \/ PutByte \/ Finish)
    /\ WF_<<vars, channel, stream>>(
            (ScheduleRead \/ PostRead \/ IoThread \/ SomeReadCompletes) /\ UNCHANGED <<channel, stream>>)

TransportSpec ==
    TransportInit /\ [][TransportNext]_<<vars, channel, stream>> /\ TransportFairness
-----------------------------------------------------------------------------
(* As long as no read has failed, every handler of read sequence s sees bytes *)
(* of batch s, from the place where its task begins: the order of the writes, *)
(* the cut of the transfers and the reader's count of what it consumed never  *)
(* get out of step.                                                           *)
SequenceReadsItsBatch ==
    errors = 0 =>
        \A k \in 1 .. Len(calls) :
            LET s == calls[k].task[1]
                i == calls[k].task[2] IN
            \A j \in 0 .. Sizes[s][i] - 1 :
                stream[calls[k].from + 1 + j] = <<s, Offset(s, i) + j>>

(* A batch that was accepted for sending is read to its end by the peer,      *)
(* though the wire holds less than a batch, unless the writer stopped or the  *)
(* reader was told of an error.                                               *)
BatchesArrive ==
    \A s \in Batches : Len(offered) >= s ~> LastHandlerRan(s) \/ closed \/ errors > 0
=============================================================================
