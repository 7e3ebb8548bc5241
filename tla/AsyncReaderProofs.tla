------------------------- MODULE AsyncReaderProofs -------------------------
(***************************************************************************)
(* Proofs of the safety properties of AsyncReader, for read sequences of   *)
(* any length and tasks of any size, as long as sequences are scheduled    *)
(* from the io thread (Eager = FALSE).                                     *)
(***************************************************************************)
EXTENDS AsyncReader, TLAPS

InHandler == at \in {"handler", "assigned"}

Drivers == posted + Len(reads) + Len(completions) + (IF at = "idle" THEN 0 ELSE 1)

(* While the caller is between its assignment and its post the reader rests.  *)
CallerIsAlone == caller = "assigned" => Drivers = 0

(* The peer's bytes are on the wire, in the buffer or consumed.               *)
BytesAreSomewhere == wire + buffered + consumed <= PeerBytes

(* Something is on its way that will call pendingTask's handler.              *)
Coming ==
    \/ caller = "assigned"
    \/ posted > 0
    \/ reads # <<>>
    \/ completions # <<>>
    \/ at = "readDone"

LastTask == calls[Len(calls)].task

LastEnd == calls[Len(calls)].from + GetSize(LastTask)

(* The task next may be called after the task last.                           *)
Follows(last, next) ==
    \/ next = <<last[1], last[2] + 1>>
    \/ /\ next[1] > last[1]
       /\ next[2] = 1
       /\ last[2] = Len(Sizes[last[1]]) \/ errors > 0

(* Where the reader is in the chain of its sequence.                          *)
InTheChain ==
    /\ at # "crashed"
    /\ InHandler => calls # <<>> /\ current = LastTask
    /\ at = "assigned" => pendingTask = NextTask(current)
    /\ Coming => pendingTask \in Tasks /\ (calls # <<>> => Follows(LastTask, pendingTask))
    /\ ~Coming /\ ~InHandler /\ calls # <<>> =>
           LastTask[2] = Len(Sizes[LastTask[1]]) \/ errors > 0
    /\ pendingTask[1] <= started
    /\ calls # <<>> => LastTask[1] <= started

(* What the buffer holds for the task to come, and the last handler's task.   *)
InTheStream ==
    /\ reads # <<>> => buffered + reads[1] >= GetSize(pendingTask)
    /\ (completions # <<>> /\ completions[1] = "ok") \/ at = "readDone" =>
           buffered >= GetSize(pendingTask)
    /\ InHandler => buffered >= GetSize(current) /\ consumed = calls[Len(calls)].from
    /\ ~InHandler => consumed = IF calls = <<>> THEN 0 ELSE LastEnd

TypeInv == TypeOK /\ BytesAreSomewhere

DriverInv == OneDriver /\ CallerIsAlone

ChainInv == InTheChain /\ HandlersFollowTheChain

StreamInv == InTheStream /\ HandlersSeeTheStream

IInv == TypeInv /\ DriverInv /\ ChainInv /\ StreamInv

(* What a task is made of.                                                    *)
LEMMA TaskForm ==
    ASSUME NEW task \in Tasks
    PROVE  /\ task = <<task[1], task[2]>>
           /\ task[1] \in 1 .. Len(Sizes)
           /\ task[2] \in 1 .. Len(Sizes[task[1]])
           /\ Sizes[task[1]] \in Seq(Nat \ {0})
           /\ task # NullTask
           /\ GetSize(task) \in Nat
  <1>1. PICK s \in 1 .. Len(Sizes) : task \in {<<s, i>> : i \in 1 .. Len(Sizes[s])}
    BY DEF Tasks
  <1>2. PICK i \in 1 .. Len(Sizes[s]) : task = <<s, i>>
    BY <1>1
  <1>3. Sizes[s] \in Seq(Nat \ {0})
    BY ReaderAssumption DEF ReaderAssumption
  <1>4. Sizes[s][i] \in Nat
    BY <1>2, <1>3
  <1>5. task # NullTask
    BY <1>2 DEF NullTask
  <1> QED
    BY <1>2, <1>3, <1>4, <1>5 DEF GetSize

LEMMA TaskIsTask ==
    ASSUME NEW s \in 1 .. Len(Sizes), NEW i \in 1 .. Len(Sizes[s])
    PROVE  <<s, i>> \in Tasks
  BY DEF Tasks

LEMMA SizeType ==
    ASSUME NEW task \in Tasks \cup {NullTask}
    PROVE  GetSize(task) \in Nat
  BY TaskForm DEF GetSize

(* The chain of tasks stays within its sequence.                              *)
LEMMA NextTaskForm ==
    ASSUME NEW task \in Tasks
    PROVE  \/ NextTask(task) = NullTask /\ task[2] = Len(Sizes[task[1]])
           \/ NextTask(task) \in Tasks /\ NextTask(task) = <<task[1], task[2] + 1>>
  <1>1. /\ task[1] \in 1 .. Len(Sizes)
        /\ task[2] \in 1 .. Len(Sizes[task[1]])
        /\ Len(Sizes[task[1]]) \in Nat
    BY TaskForm
  <1>2. CASE task[2] < Len(Sizes[task[1]])
    <2>1. <<task[1], task[2] + 1>> \in Tasks
      BY <1>1, <1>2, TaskIsTask
    <2> QED
      BY <1>2, <2>1 DEF NextTask
  <1>3. CASE ~(task[2] < Len(Sizes[task[1]]))
    BY <1>1, <1>3 DEF NextTask
  <1> QED
    BY <1>2, <1>3

(* The first task of a sequence is one.                                       *)
LEMMA EntryTask ==
    ASSUME NEW s \in 1 .. Len(Sizes)
    PROVE  <<s, 1>> \in Tasks
  <1>1. Sizes[s] \in Seq(Nat \ {0}) \ {<<>>}
    BY ReaderAssumption DEF ReaderAssumption
  <1>2. Len(Sizes[s]) \in Nat /\ Len(Sizes[s]) > 0
    BY <1>1
  <1> QED
    BY <1>2, TaskIsTask

LEMMA RemoveOnly ==
    ASSUME NEW T, NEW s \in Seq(T), Len(s) = 1, NEW i \in 1 .. Len(s)
    PROVE  RemoveAt(s, i) = <<>>
  <1>1. i = 1
    OBVIOUS
  <1>2. SubSeq(s, 1, 0) = <<>> /\ SubSeq(s, 2, 1) = <<>>
    OBVIOUS
  <1> QED
    BY <1>1, <1>2 DEF RemoveAt

LEMMA LesserOfTwo ==
    ASSUME NEW a \in Nat, NEW b \in Nat
    PROVE  Min({a, b}) = IF a <= b THEN a ELSE b
  <1>1. \A x \in {a, b} : (\A y \in {a, b} : x <= y) <=> x = IF a <= b THEN a ELSE b
    OBVIOUS
  <1> QED
    BY <1>1 DEF Min

(* What each driver finds: no other one.                                      *)
LEMMA PostedIsAlone ==
    ASSUME TypeOK, DriverInv, posted > 0
    PROVE  posted = 1 /\ reads = <<>> /\ completions = <<>> /\ at = "idle" /\ caller = "idle"
  <1>1. Len(reads) \in Nat /\ Len(completions) \in Nat /\ posted \in Nat
    BY DEF TypeOK
  <1>2. posted = 1 /\ Len(reads) = 0 /\ Len(completions) = 0 /\ at = "idle" /\ caller # "assigned"
    BY <1>1 DEF DriverInv, OneDriver, CallerIsAlone, Drivers
  <1> QED
    BY <1>2 DEF TypeOK

LEMMA ReadIsAlone ==
    ASSUME TypeOK, DriverInv, reads # <<>>
    PROVE  posted = 0 /\ Len(reads) = 1 /\ completions = <<>> /\ at = "idle" /\ caller = "idle"
  <1>1. Len(reads) \in Nat /\ Len(completions) \in Nat /\ posted \in Nat /\ Len(reads) > 0
    BY DEF TypeOK
  <1>2. /\ posted + Len(reads) + Len(completions) + (IF at = "idle" THEN 0 ELSE 1) <= 1
        /\ caller = "assigned" => Drivers = 0
    BY DEF DriverInv, OneDriver, CallerIsAlone
  <1>3. at = "idle"
    BY <1>1, <1>2
  <1> DEFINE r == Len(reads)
             c == Len(completions)
  <1>4. posted = 0 /\ r = 1 /\ c = 0
    <2>1. posted + r + c <= 1
      <3>1. posted + r + c + 0 <= 1
        BY <1>2, <1>3, Zenon
      <3> HIDE DEF r, c
      <3>2. r \in Nat /\ c \in Nat /\ posted \in Nat
        BY <1>1 DEF r, c
      <3> QED
        BY <3>1, <3>2
    <2>2. r \in Nat /\ c \in Nat /\ posted \in Nat /\ r > 0
      BY <1>1
    <2> HIDE DEF r, c
    <2> QED
      BY <2>1, <2>2
  <1>5. caller # "assigned"
    BY <1>2, <1>3, <1>4 DEF Drivers
  <1> QED
    BY <1>3, <1>4, <1>5 DEF TypeOK

LEMMA CompletionIsAlone ==
    ASSUME TypeOK, DriverInv, completions # <<>>
    PROVE  posted = 0 /\ reads = <<>> /\ Len(completions) = 1 /\ at = "idle" /\ caller = "idle"
  <1>1. Len(reads) \in Nat /\ Len(completions) \in Nat /\ posted \in Nat /\ Len(completions) > 0
    BY DEF TypeOK
  <1>2. /\ posted + Len(reads) + Len(completions) + (IF at = "idle" THEN 0 ELSE 1) <= 1
        /\ caller = "assigned" => Drivers = 0
    BY DEF DriverInv, OneDriver, CallerIsAlone
  <1>3. at = "idle"
    BY <1>1, <1>2
  <1> DEFINE r == Len(reads)
             c == Len(completions)
  <1>4. posted = 0 /\ r = 0 /\ c = 1
    <2>1. posted + r + c <= 1
      <3>1. posted + r + c + 0 <= 1
        BY <1>2, <1>3, Zenon
      <3> HIDE DEF r, c
      <3>2. r \in Nat /\ c \in Nat /\ posted \in Nat
        BY <1>1 DEF r, c
      <3> QED
        BY <3>1, <3>2
    <2>2. r \in Nat /\ c \in Nat /\ posted \in Nat /\ c > 0
      BY <1>1
    <2> HIDE DEF r, c
    <2> QED
      BY <2>1, <2>2
  <1>5. caller # "assigned"
    BY <1>2, <1>3, <1>4 DEF Drivers
  <1> QED
    BY <1>3, <1>4, <1>5 DEF TypeOK

LEMMA HandlerIsAlone ==
    ASSUME TypeOK, DriverInv, at # "idle"
    PROVE  posted = 0 /\ reads = <<>> /\ completions = <<>> /\ caller = "idle"
  <1>1. Len(reads) \in Nat /\ Len(completions) \in Nat /\ posted \in Nat
    BY DEF TypeOK
  <1>2. posted = 0 /\ Len(reads) = 0 /\ Len(completions) = 0 /\ caller # "assigned"
    BY <1>1 DEF DriverInv, OneDriver, CallerIsAlone, Drivers
  <1> QED
    BY <1>2 DEF TypeOK

(* One driver is given by its name.                                           *)
LEMMA OneOfThem ==
    ASSUME \/ posted' \in {0, 1} /\ reads' = <<>> /\ completions' = <<>> /\ at' = "idle"
           \/ posted' = 0 /\ Len(reads') = 1 /\ completions' = <<>> /\ at' = "idle"
           \/ posted' = 0 /\ reads' = <<>> /\ Len(completions') = 1 /\ at' = "idle"
           \/ posted' = 0 /\ reads' = <<>> /\ completions' = <<>>,
           caller' = "idle"
    PROVE  DriverInv'
  BY DEF DriverInv, OneDriver, CallerIsAlone

LEMMA ReadStarts ==
    ASSUME reads = <<>>, NEW size \in Nat, NEW have \in Nat, Read(size, have)
    PROVE  \/ at' = "readDone" /\ reads' = <<>> /\ have >= size
           \/ at' = "idle" /\ reads' = <<size - have>> /\ size - have \in Nat /\ size > have
  BY DEF Read

(* The task of the last handler that was called is one.                       *)
LEMMA LastTaskForm ==
    ASSUME TypeOK, calls # <<>>
    PROVE  LastTask \in Tasks /\ LastTask[1] \in Nat /\ LastTask[2] \in Nat
  <1>1. calls \in Seq([task : Tasks, from : Nat, upto : Nat])
    BY DEF TypeOK
  <1>2. calls[Len(calls)] \in [task : Tasks, from : Nat, upto : Nat]
    <2> DEFINE C == [task : Tasks, from : Nat, upto : Nat]
    <2>1. calls \in Seq(C)
      BY <1>1
    <2> HIDE DEF C
    <2>2. Len(calls) \in 1 .. Len(calls)
      BY <2>1
    <2>3. calls[Len(calls)] \in C
      BY <2>1, <2>2
    <2> QED
      BY <2>3 DEF C
  <1>3. LastTask \in Tasks
    BY <1>2 DEF LastTask
  <1>4. /\ LastTask[1] \in 1 .. Len(Sizes)
        /\ LastTask[2] \in 1 .. Len(Sizes[LastTask[1]])
    BY <1>3, TaskForm
  <1> QED
    BY <1>3, <1>4

(* As long as no handler is called the chain of calls is what it was; an      *)
(* error only allows more.                                                    *)
LEMMA CallsKept ==
    ASSUME TypeOK, HandlersFollowTheChain, calls' = calls, errors' \in {errors, errors + 1}
    PROVE  HandlersFollowTheChain'
  <1>1. errors > 0 => errors' > 0
    BY DEF TypeOK
  <1> QED
    BY <1>1 DEF HandlersFollowTheChain

(* A step between a scheduleRead or a handler and the next call.              *)
LEMMA ChainKept ==
    ASSUME TypeOK, ChainInv, Coming, Coming', ~InHandler, at' \in {"idle", "readDone"},
           UNCHANGED <<pendingTask, calls, started, errors>>
    PROVE  ChainInv'
  <1>1. LastTask' = LastTask /\ ~InHandler'
    BY DEF LastTask, InHandler
  <1>2. InTheChain'
    BY <1>1 DEF ChainInv, InTheChain, Follows, InHandler
  <1>3. HandlersFollowTheChain'
    BY CallsKept DEF ChainInv
  <1> QED
    BY <1>2, <1>3 DEF ChainInv

(* The task in pendingTask is called, and the rest follows.                   *)
LEMMA CallPreserves ==
    ASSUME IInv, CallHandler, pendingTask \in Tasks,
           calls # <<>> => Follows(LastTask, pendingTask),
           buffered >= GetSize(pendingTask), ~InHandler,
           posted = 0, reads' = <<>>, completions' = <<>>, caller = "idle",
           UNCHANGED <<wire, buffered, consumed, pendingTask, posted, streamFailed, caller,
                       started, errors>>
    PROVE  IInv'
  <1> DEFINE call == [task |-> pendingTask, from |-> consumed, upto |-> consumed + buffered]
             n == Len(calls)
  <1>1. /\ current' = pendingTask
        /\ at' = "handler"
        /\ calls' = Append(calls, call)
    BY TaskForm DEF CallHandler
  <1>2. call \in [task : Tasks, from : Nat, upto : Nat] /\ calls \in Seq([task : Tasks, from : Nat, upto : Nat])
    BY DEF IInv, TypeInv, TypeOK
  <1>3. /\ calls' \in Seq([task : Tasks, from : Nat, upto : Nat])
        /\ n \in Nat
        /\ Len(calls') = n + 1
        /\ calls'[n + 1] = call
        /\ \A k \in 1 .. n : calls'[k] = calls[k]
        /\ calls' # <<>>
        /\ calls = <<>> <=> n = 0
    BY <1>1, <1>2
  <1>4. TypeInv'
    BY <1>1, <1>3 DEF IInv, TypeInv, TypeOK, BytesAreSomewhere
  <1>5. DriverInv'
    BY <1>1, OneOfThem
  <1>6. LastTask' = pendingTask
    BY <1>1, <1>3 DEF LastTask
  <1>7. ChainInv'
    <2>1. InTheChain'
      <3>1. pendingTask[1] <= started /\ started' = started
        BY DEF IInv, ChainInv, InTheChain
      <3> QED
        BY <1>1, <1>3, <1>6, <3>1 DEF InTheChain, InHandler, Coming
    <2>2. HandlersFollowTheChain'
      <3> SUFFICES ASSUME NEW k \in 1 .. n
                   PROVE  Follows(calls'[k].task, calls'[k + 1].task)
        <4>1. Len(calls') - 1 = n
          BY <1>3
        <4>2. errors' = errors
          OBVIOUS
        <4> HIDE DEF n
        <4> QED
          BY <4>1, <4>2 DEF HandlersFollowTheChain, Follows
      <3>1. CASE k < n
        <4>1. k \in 1 .. n - 1 /\ calls'[k] = calls[k] /\ calls'[k + 1] = calls[k + 1]
          <5>1. /\ n \in Nat
                /\ \A m \in 1 .. n : calls'[m] = calls[m]
            BY <1>3
          <5> HIDE DEF n
          <5>2. k \in 1 .. n - 1 /\ k + 1 \in 1 .. n
            BY <3>1, <5>1
          <5> QED
            BY <5>1, <5>2
        <4> QED
          BY <4>1 DEF IInv, ChainInv, HandlersFollowTheChain, Follows
      <3>2. CASE k = n
        <4>1. calls'[k] = calls[n] /\ calls'[k + 1] = call /\ calls # <<>>
          BY <1>3, <3>2
        <4> QED
          BY <4>1 DEF LastTask
      <3> QED
        BY <1>3, <3>1, <3>2
    <2> QED
      BY <2>1, <2>2 DEF ChainInv
  <1>8. StreamInv'
    <2>1. consumed = IF calls = <<>> THEN 0 ELSE LastEnd
      BY DEF IInv, StreamInv, InTheStream
    <2>2. InTheStream'
      BY <1>1, <1>3 DEF InTheStream, InHandler
    <2>3. HandlersSeeTheStream'
      <3> SUFFICES ASSUME NEW k \in 1 .. n + 1
                   PROVE  /\ calls'[k].from + GetSize(calls'[k].task) <= calls'[k].upto
                          /\ k = 1 => calls'[k].from = 0
                          /\ k < n + 1 => calls'[k + 1].from = calls'[k].from + GetSize(calls'[k].task)
        BY <1>3 DEF HandlersSeeTheStream
      <3>1. CASE k < n
        <4>1. k \in 1 .. n /\ k + 1 \in 1 .. n /\ calls'[k] = calls[k] /\ calls'[k + 1] = calls[k + 1]
          <5>1. /\ n \in Nat
                /\ \A m \in 1 .. n : calls'[m] = calls[m]
            BY <1>3
          <5> HIDE DEF n
          <5>2. k \in 1 .. n /\ k + 1 \in 1 .. n
            BY <3>1, <5>1
          <5> QED
            BY <5>1, <5>2
        <4> QED
          BY <3>1, <4>1 DEF IInv, StreamInv, HandlersSeeTheStream
      <3>2. CASE k = n
        <4>1. n \in 1 .. n /\ calls # <<>> /\ calls'[k] = calls[n] /\ calls'[k + 1] = call
          BY <1>3, <3>2
        <4>2. /\ calls[n].from + GetSize(calls[n].task) <= calls[n].upto
              /\ n = 1 => calls[n].from = 0
          BY <4>1 DEF IInv, StreamInv, HandlersSeeTheStream
        <4>3. consumed = calls[n].from + GetSize(calls[n].task)
          BY <2>1, <4>1 DEF LastEnd, LastTask
        <4> QED
          BY <3>2, <4>1, <4>2, <4>3
      <3>3. CASE k = n + 1
        <4>1. calls'[k] = call
          BY <1>3, <3>3
        <4>2. n = 0 => consumed = 0
          BY <1>3, <2>1
        <4>3. consumed \in Nat /\ buffered \in Nat /\ GetSize(pendingTask) \in Nat
          BY TaskForm DEF IInv, TypeInv, TypeOK
        <4> QED
          BY <1>3, <3>3, <4>1, <4>2, <4>3
      <3> QED
        BY <1>3, <3>1, <3>2, <3>3
    <2> QED
      BY <2>2, <2>3 DEF StreamInv
  <1> QED
    BY <1>4, <1>5, <1>7, <1>8 DEF IInv

(* The reader starts without a task, a read or a byte (async_reader.cpp:6-12).*)
THEOREM InitIInv == Init => IInv
  <1> SUFFICES ASSUME Init PROVE IInv
    OBVIOUS
  <1>1. TypeInv
    <2>1. 0 \in 0 .. PeerBytes /\ 0 \in 0 .. Len(Sizes) /\ 0 + 0 + 0 <= PeerBytes
      BY ReaderAssumption DEF ReaderAssumption
    <2>2. BytesAreSomewhere
      BY <2>1 DEF Init, BytesAreSomewhere
    <2>3. TypeOK
      <3>1. /\ <<>> \in Seq(Nat)
            /\ <<>> \in Seq({"ok", "failed"})
            /\ <<>> \in Seq([task : Tasks, from : Nat, upto : Nat])
            /\ 0 \in Nat
        OBVIOUS
      <3> QED
        BY <2>1, <3>1, Zenon DEF Init, TypeOK
    <2> QED
      BY <2>2, <2>3 DEF TypeInv
  <1>2. DriverInv
    BY DEF Init, DriverInv, OneDriver, CallerIsAlone
  <1>3. ChainInv
    BY DEF Init, NullTask, ChainInv, InTheChain, InHandler, Coming, HandlersFollowTheChain
  <1>4. StreamInv
    BY DEF Init, StreamInv, InTheStream, InHandler, HandlersSeeTheStream
  <1> QED
    BY <1>1, <1>2, <1>3, <1>4 DEF IInv

(* No step of the caller, the io thread or the stream breaks the invariant    *)
(* (async_reader.cpp:13-75).                                                  *)
THEOREM IInvPreserved ==
    ASSUME Eager = FALSE
    PROVE  IInv /\ [Next]_vars => IInv'
  <1> SUFFICES ASSUME IInv, [Next]_vars PROVE IInv'
    OBVIOUS
  <1> USE DEF IInv, TypeInv
  <1>1. ASSUME ScheduleRead PROVE IInv'
    <2>1. Quiet /\ Drivers = 0 /\ caller = "idle"
      BY <1>1 DEF ScheduleRead, MaySchedule, Quiet, Drivers
    <2>2. started + 1 \in 1 .. Len(Sizes) /\ pendingTask' = <<started + 1, 1>> /\ pendingTask' \in Tasks
      <3>1. started + 1 \in 1 .. Len(Sizes)
        BY <1>1 DEF ScheduleRead, TypeOK
      <3> QED
        BY <1>1, <3>1, EntryTask DEF ScheduleRead
    <2>3. TypeInv'
      BY <1>1, <2>2 DEF ScheduleRead, buffer, io, history, TypeOK, BytesAreSomewhere
    <2>4. DriverInv'
      BY <1>1, <2>1 DEF ScheduleRead, io, DriverInv, OneDriver, CallerIsAlone, Drivers
    <2>5. ChainInv'
      <3>1. calls # <<>> => LastTask[1] <= started
        BY DEF ChainInv, InTheChain
      <3>2. calls # <<>> => LastTask[1] \in Nat
        BY LastTaskForm
      <3>3. calls # <<>> => LastTask[2] = Len(Sizes[LastTask[1]]) \/ errors > 0
        BY <2>1 DEF Quiet, ChainInv, InTheChain, Coming, InHandler, TypeOK
      <3>4. InTheChain'
        BY <1>1, <2>1, <2>2, <3>1, <3>2, <3>3 DEF ScheduleRead, io, history, ChainInv, InTheChain,
           InHandler, Coming, Quiet, LastTask, Follows, TypeOK
      <3>5. HandlersFollowTheChain'
        BY <1>1 DEF ScheduleRead, history, ChainInv, HandlersFollowTheChain
      <3> QED
        BY <3>4, <3>5 DEF ChainInv
    <2>6. StreamInv'
      BY <1>1, <2>1 DEF ScheduleRead, buffer, io, history, Quiet, StreamInv, InTheStream, InHandler,
         LastTask, LastEnd, HandlersSeeTheStream
    <2> QED
      BY <2>3, <2>4, <2>5, <2>6
  <1>2. ASSUME PostRead PROVE IInv'
    <2>1. posted = 0 /\ reads = <<>> /\ completions = <<>> /\ at = "idle" /\ caller = "assigned"
      <3>1. Len(reads) \in Nat /\ Len(completions) \in Nat /\ posted \in Nat
        BY DEF TypeOK
      <3>2. Drivers = 0
        BY <1>2 DEF PostRead, DriverInv, CallerIsAlone
      <3>3. posted = 0 /\ Len(reads) = 0 /\ Len(completions) = 0 /\ at = "idle"
        BY <3>1, <3>2 DEF Drivers
      <3> QED
        BY <1>2, <3>3 DEF PostRead, TypeOK
    <2>2. TypeInv'
      BY <1>2 DEF PostRead, buffer, history, TypeOK, BytesAreSomewhere
    <2>3. DriverInv'
      BY <1>2, <2>1, OneOfThem DEF PostRead
    <2>4. ChainInv'
      BY <1>2, <2>1, ChainKept DEF PostRead, history, InHandler, Coming
    <2>5. StreamInv'
      BY <1>2, <2>1 DEF PostRead, buffer, history, StreamInv, InTheStream, InHandler, LastTask,
         LastEnd, HandlersSeeTheStream
    <2> QED
      BY <2>2, <2>3, <2>4, <2>5
  <1>3. ASSUME DoRead PROVE IInv'
    <2>1. posted = 1 /\ reads = <<>> /\ completions = <<>> /\ at = "idle" /\ caller = "idle"
      BY <1>3, PostedIsAlone DEF DoRead
    <2>2. GetSize(pendingTask) \in Nat /\ buffered \in Nat /\ posted' = 0
      BY <1>3, <2>1, SizeType DEF DoRead, TypeOK
    <2>3. \/ at' = "readDone" /\ reads' = <<>> /\ buffered >= GetSize(pendingTask)
          \/ /\ at' = "idle"
             /\ reads' = <<GetSize(pendingTask) - buffered>>
             /\ GetSize(pendingTask) - buffered \in Nat
      BY <1>3, <2>1, <2>2, ReadStarts DEF DoRead
    <2>4. TypeInv'
      <3>1. reads' \in Seq(Nat) /\ at' \in {"idle", "readDone"} /\ posted' \in Nat
        <4>1. <<>> \in Seq(Nat) /\ \A x \in Nat : <<x>> \in Seq(Nat)
          OBVIOUS
        <4> QED
          BY <2>2, <2>3, <4>1
      <3> QED
        BY <1>3, <3>1 DEF DoRead, buffer, application, history, TypeOK, BytesAreSomewhere
    <2>5. DriverInv'
      BY <1>3, <2>1, <2>2, <2>3, OneOfThem DEF DoRead, application
    <2>6. ChainInv'
      <3>1. Coming /\ ~InHandler /\ at' \in {"idle", "readDone"}
        BY <2>1, <2>3 DEF Coming, InHandler
      <3>2. Coming'
        BY <2>3 DEF Coming
      <3> QED
        BY <1>3, <3>1, <3>2, ChainKept DEF DoRead, application, history
    <2>7. StreamInv'
      <3>1. reads' # <<>> => reads'[1] = GetSize(pendingTask) - buffered
        BY <2>3
      <3> QED
        BY <1>3, <2>1, <2>2, <2>3, <3>1 DEF DoRead, buffer, application, history, StreamInv,
           InTheStream, InHandler, LastTask, LastEnd, HandlersSeeTheStream
    <2> QED
      BY <2>4, <2>5, <2>6, <2>7
  <1>4. ASSUME BytesArrive PROVE IInv'
    <2>1. TypeInv'
      <3>1. wire' = wire + 1 /\ wire \in Nat /\ buffered \in Nat /\ consumed \in Nat
              /\ wire + buffered + consumed < PeerBytes /\ PeerBytes \in Nat
        BY <1>4, ReaderAssumption DEF ReaderAssumption, BytesArrive, TypeOK
      <3>2. wire' \in 0 .. PeerBytes /\ wire' + buffered + consumed <= PeerBytes
        BY <3>1
      <3> QED
        BY <1>4, <3>2 DEF BytesArrive, io, application, history, TypeOK, BytesAreSomewhere
    <2>2. DriverInv' /\ ChainInv' /\ StreamInv'
      BY <1>4 DEF BytesArrive, io, application, history, DriverInv, OneDriver, CallerIsAlone, Drivers,
         ChainInv, InTheChain, InHandler, Coming, LastTask, Follows, HandlersFollowTheChain,
         StreamInv, InTheStream, LastEnd, HandlersSeeTheStream
    <2> QED
      BY <2>1, <2>2
  <1>5. ASSUME NEW i \in 1 .. Len(reads), ReadCompletes(i) PROVE IInv'
    <2>1. posted = 0 /\ Len(reads) = 1 /\ completions = <<>> /\ at = "idle" /\ caller = "idle" /\ i = 1
      <3>1. reads # <<>>
        BY DEF TypeOK
      <3> QED
        BY <3>1, ReadIsAlone
    <2>2. reads' = <<>> /\ completions' = <<"ok">>
      <3>1. reads \in Seq(Nat)
        BY DEF TypeOK
      <3>2. reads' = RemoveAt(reads, i) /\ completions' = Append(<<>>, "ok")
        BY <1>5, <2>1 DEF ReadCompletes
      <3> QED
        BY <2>1, <3>1, <3>2, RemoveOnly
    <2>3. PICK n \in reads[1] .. wire : wire' = wire - n /\ buffered' = buffered + n
      BY <1>5, <2>1 DEF ReadCompletes
    <2>4. reads[1] \in Nat /\ wire \in Nat /\ buffered \in Nat /\ n \in Nat /\ n <= wire /\ n >= reads[1]
      <3>1. reads \in Seq(Nat) /\ wire \in Nat /\ buffered \in Nat
        BY DEF TypeOK
      <3>2. reads[1] \in Nat
        <4>1. 1 \in 1 .. Len(reads)
          BY <2>1
        <4> QED
          BY <3>1, <4>1
      <3> QED
        BY <3>1, <3>2
    <2>5. TypeInv'
      <3>1. wire' \in 0 .. PeerBytes /\ buffered' \in 0 .. PeerBytes /\ BytesAreSomewhere'
        BY <1>5, <2>3, <2>4, ReaderAssumption DEF ReaderAssumption, ReadCompletes, TypeOK, BytesAreSomewhere
      <3> QED
        BY <1>5, <2>2, <3>1 DEF ReadCompletes, application, history, TypeOK
    <2>6. DriverInv'
      BY <1>5, <2>1, <2>2, OneOfThem DEF ReadCompletes, application
    <2>7. ChainInv'
      <3>1. Coming /\ Coming' /\ ~InHandler
        BY <2>1, <2>2 DEF Coming, InHandler
      <3> QED
        BY <1>5, <2>1, <3>1, ChainKept DEF ReadCompletes, application, history
    <2>8. StreamInv'
      <3>1. buffered' >= GetSize(pendingTask)
        <4>1. reads # <<>>
          BY <2>1
        <4>2. buffered + reads[1] >= GetSize(pendingTask)
          BY <4>1 DEF StreamInv, InTheStream
        <4>3. GetSize(pendingTask) \in Nat
          BY SizeType DEF TypeOK
        <4> QED
          BY <2>3, <2>4, <4>2, <4>3
      <3> QED
        BY <1>5, <2>1, <2>2, <3>1 DEF ReadCompletes, application, history, StreamInv, InTheStream,
           InHandler, LastTask, LastEnd, HandlersSeeTheStream
    <2> QED
      BY <2>5, <2>6, <2>7, <2>8
  <1>6. ASSUME NEW i \in 1 .. Len(reads), ReadFails(i) PROVE IInv'
    <2>1. posted = 0 /\ Len(reads) = 1 /\ completions = <<>> /\ at = "idle" /\ caller = "idle" /\ i = 1
      <3>1. reads # <<>>
        BY DEF TypeOK
      <3> QED
        BY <3>1, ReadIsAlone
    <2>2. reads' = <<>> /\ completions' = <<"failed">>
      <3>1. reads \in Seq(Nat)
        BY DEF TypeOK
      <3>2. reads' = RemoveAt(reads, i) /\ completions' = Append(<<>>, "failed")
        BY <1>6, <2>1 DEF ReadFails
      <3> QED
        BY <2>1, <3>1, <3>2, RemoveOnly
    <2>3. PICK n \in 0 .. wire : wire' = wire - n /\ buffered' = buffered + n
      BY <1>6 DEF ReadFails
    <2>4. TypeInv'
      <3>1. wire \in Nat /\ buffered \in Nat /\ n \in Nat /\ n <= wire
        BY <2>3 DEF TypeOK
      <3>2. wire' \in 0 .. PeerBytes /\ buffered' \in 0 .. PeerBytes /\ BytesAreSomewhere'
        BY <1>6, <2>3, <3>1, ReaderAssumption DEF ReaderAssumption, ReadFails, TypeOK, BytesAreSomewhere
      <3> QED
        BY <1>6, <2>2, <3>2 DEF ReadFails, application, history, TypeOK
    <2>5. DriverInv'
      BY <1>6, <2>1, <2>2, OneOfThem DEF ReadFails, application
    <2>6. ChainInv'
      <3>1. Coming /\ Coming' /\ ~InHandler
        BY <2>1, <2>2 DEF Coming, InHandler
      <3> QED
        BY <1>6, <2>1, <3>1, ChainKept DEF ReadFails, application, history
    <2>7. StreamInv'
      BY <1>6, <2>1, <2>2 DEF ReadFails, application, history, StreamInv, InTheStream,
         InHandler, LastTask, LastEnd, HandlersSeeTheStream
    <2> QED
      BY <2>4, <2>5, <2>6, <2>7
  <1>7. ASSUME ReadDoneSynchronously PROVE IInv'
    <2>1. posted = 0 /\ reads = <<>> /\ completions = <<>> /\ caller = "idle" /\ at = "readDone"
      BY <1>7, HandlerIsAlone DEF ReadDoneSynchronously
    <2>2. /\ pendingTask \in Tasks
          /\ calls # <<>> => Follows(LastTask, pendingTask)
          /\ buffered >= GetSize(pendingTask)
          /\ ~InHandler
      BY <2>1 DEF ChainInv, InTheChain, Coming, StreamInv, InTheStream, InHandler
    <2> QED
      BY <1>7, <2>1, <2>2, CallPreserves DEF ReadDoneSynchronously, buffer, ops, application
  <1>8. ASSUME ReadDone PROVE IInv'
    <2>1. posted = 0 /\ reads = <<>> /\ Len(completions) = 1 /\ caller = "idle" /\ at = "idle"
      BY <1>8, CompletionIsAlone DEF ReadDone
    <2>2. completions[1] = "ok" /\ completions' = <<>>
      BY <1>8, <2>1 DEF ReadDone, TypeOK
    <2>3. /\ pendingTask \in Tasks
          /\ calls # <<>> => Follows(LastTask, pendingTask)
          /\ buffered >= GetSize(pendingTask)
          /\ ~InHandler
      BY <1>8, <2>1, <2>2 DEF ReadDone, ChainInv, InTheChain, Coming, StreamInv, InTheStream, InHandler
    <2> QED
      BY <1>8, <2>1, <2>2, <2>3, CallPreserves DEF ReadDone, buffer, application
  <1>9. ASSUME ReadDoneWithError PROVE IInv'
    <2>1. posted = 0 /\ reads = <<>> /\ Len(completions) = 1 /\ caller = "idle" /\ at = "idle"
      BY <1>9, CompletionIsAlone DEF ReadDoneWithError
    <2>2. completions' = <<>> /\ errors' = errors + 1 /\ errors \in Nat
      BY <1>9, <2>1 DEF ReadDoneWithError, TypeOK
    <2>3. TypeInv'
      BY <1>9, <2>2 DEF ReadDoneWithError, buffer, application, TypeOK, BytesAreSomewhere
    <2>4. DriverInv'
      BY <1>9, <2>1, <2>2, OneOfThem DEF ReadDoneWithError, application
    <2>5. ChainInv'
      <3>1. ~Coming' /\ ~InHandler' /\ at' = "idle" /\ errors' > 0
        BY <1>9, <2>1, <2>2 DEF ReadDoneWithError, application, Coming, InHandler
      <3>2. LastTask' = LastTask
        BY <1>9 DEF ReadDoneWithError, LastTask
      <3>3. InTheChain'
        BY <1>9, <3>1, <3>2 DEF ReadDoneWithError, application, ChainInv, InTheChain
      <3>4. HandlersFollowTheChain'
        BY <1>9, <2>2, CallsKept DEF ReadDoneWithError, ChainInv
      <3> QED
        BY <3>3, <3>4 DEF ChainInv
    <2>6. StreamInv'
      BY <1>9, <2>1, <2>2 DEF ReadDoneWithError, buffer, application, StreamInv, InTheStream,
         InHandler, LastTask, LastEnd, HandlersSeeTheStream
    <2> QED
      BY <2>3, <2>4, <2>5, <2>6
  <1>10. ASSUME HandlerReturns PROVE IInv'
    <2>1. posted = 0 /\ reads = <<>> /\ completions = <<>> /\ caller = "idle" /\ at = "handler"
      BY <1>10, HandlerIsAlone DEF HandlerReturns
    <2>2. calls # <<>> /\ current = LastTask /\ current \in Tasks /\ current[1] <= started
      <3>1. calls # <<>> /\ current = LastTask /\ LastTask[1] <= started
        BY <2>1 DEF ChainInv, InTheChain, InHandler
      <3> QED
        BY <3>1, LastTaskForm
    <2>3. pendingTask' \in Tasks \cup {NullTask} /\ pendingTask'[1] <= started
      <3>1. NullTask[1] <= started
        BY DEF NullTask, TypeOK
      <3>2. NextTask(current) = NullTask
              \/ (NextTask(current) \in Tasks /\ NextTask(current)[1] = current[1])
        BY <2>2, NextTaskForm
      <3> QED
        BY <1>10, <2>2, <3>1, <3>2 DEF HandlerReturns
    <2>4. TypeInv'
      BY <1>10, <2>3 DEF HandlerReturns, buffer, ops, application, history, TypeOK, BytesAreSomewhere
    <2>5. DriverInv'
      BY <1>10, <2>1, OneOfThem DEF HandlerReturns, ops, application
    <2>6. ChainInv'
      BY <1>10, <2>1, <2>2, <2>3 DEF HandlerReturns, ops, application, history, ChainInv, InTheChain,
         InHandler, Coming, LastTask, HandlersFollowTheChain
    <2>7. StreamInv'
      BY <1>10, <2>1 DEF HandlerReturns, buffer, ops, application, history, StreamInv, InTheStream,
         InHandler, LastTask, LastEnd, HandlersSeeTheStream
    <2> QED
      BY <2>4, <2>5, <2>6, <2>7
  <1>11. ASSUME ContinueSequence PROVE IInv'
    <2>1. posted = 0 /\ reads = <<>> /\ completions = <<>> /\ caller = "idle" /\ at = "assigned"
      BY <1>11, HandlerIsAlone DEF ContinueSequence
    <2>2. calls # <<>> /\ current = LastTask /\ current \in Tasks /\ pendingTask = NextTask(current)
      <3>1. calls # <<>> /\ current = LastTask /\ pendingTask = NextTask(current)
        BY <2>1 DEF ChainInv, InTheChain, InHandler
      <3> QED
        BY <3>1, LastTaskForm
    <2>3. GetSize(current) \in Nat /\ buffered \in Nat /\ consumed \in Nat /\ GetSize(pendingTask) \in Nat
      BY <2>2, SizeType DEF TypeOK
    <2>4. /\ buffered >= GetSize(current)
          /\ consumed = calls[Len(calls)].from
      BY <2>1 DEF StreamInv, InTheStream, InHandler
    <2>5. Consume(GetSize(current)) = GetSize(current)
      BY <2>3, <2>4, LesserOfTwo DEF Consume
    <2>6. /\ consumed' = consumed + GetSize(current)
          /\ buffered' = buffered - GetSize(current)
          /\ buffered' \in Nat
          /\ IF pendingTask # NullTask
             THEN Read(GetSize(pendingTask), buffered')
             ELSE at' = "idle" /\ reads' = reads
      BY <1>11, <2>3, <2>4, <2>5 DEF ContinueSequence
    <2>7. \/ pendingTask # NullTask /\ at' = "readDone" /\ reads' = <<>> /\ buffered' >= GetSize(pendingTask)
          \/ /\ pendingTask # NullTask
             /\ at' = "idle"
             /\ reads' = <<GetSize(pendingTask) - buffered'>>
             /\ GetSize(pendingTask) - buffered' \in Nat
          \/ pendingTask = NullTask /\ at' = "idle" /\ reads' = <<>>
      BY <2>1, <2>3, <2>6, ReadStarts
    <2>8. TypeInv'
      <3>1. buffered' \in 0 .. PeerBytes /\ consumed' \in Nat /\ BytesAreSomewhere'
        <4>1. wire' = wire /\ wire \in Nat /\ wire + buffered + consumed <= PeerBytes /\ PeerBytes \in Nat
          BY <1>11, ReaderAssumption DEF ReaderAssumption, ContinueSequence, TypeOK, BytesAreSomewhere
        <4> DEFINE g == GetSize(current)
        <4>2. /\ g \in Nat /\ buffered \in Nat /\ consumed \in Nat /\ buffered >= g
              /\ consumed' = consumed + g /\ buffered' = buffered - g
          BY <2>3, <2>4, <2>6
        <4> HIDE DEF g
        <4>3. consumed' \in Nat
          BY <4>2
        <4>4. buffered' \in Nat
          BY <2>6
        <4>5. buffered' <= PeerBytes
          BY <4>1, <4>2
        <4>6. wire' + buffered' + consumed' <= PeerBytes
          BY <4>1, <4>2
        <4>7. PeerBytes \in Nat
          BY <4>1
        <4>8. buffered' \in 0 .. PeerBytes
          BY <4>4, <4>5, <4>7
        <4>9. BytesAreSomewhere'
          BY <4>6, Zenon DEF BytesAreSomewhere
        <4> QED
          BY <4>3, <4>8, <4>9
      <3>2. reads' \in Seq(Nat) /\ at' \in {"idle", "readDone"}
        <4>1. <<>> \in Seq(Nat) /\ \A x \in Nat : <<x>> \in Seq(Nat)
          OBVIOUS
        <4> QED
          BY <2>7, <4>1
      <3> QED
        BY <1>11, <3>1, <3>2 DEF ContinueSequence, application, history, TypeOK
    <2>9. DriverInv'
      BY <1>11, <2>1, <2>7, OneOfThem DEF ContinueSequence, application
    <2>10. ChainInv'
      <3>1. \/ pendingTask = NullTask /\ current[2] = Len(Sizes[current[1]])
            \/ pendingTask \in Tasks /\ pendingTask # NullTask /\ pendingTask = <<current[1], current[2] + 1>>
        BY <2>2, NextTaskForm, TaskForm
      <3>2. InTheChain'
        <4>1. LastTask' = LastTask /\ calls' # <<>> /\ LastTask[1] <= started' /\ pendingTask'[1] <= started'
          BY <1>11, <2>2 DEF ContinueSequence, application, history, LastTask, ChainInv, InTheChain
        <4>2. posted' = 0 /\ completions' = <<>> /\ caller' = "idle" /\ pendingTask' = pendingTask
          BY <1>11, <2>1 DEF ContinueSequence, application
        <4>3. ~InHandler' /\ at' \notin {"crashed", "assigned"}
          BY <2>7 DEF InHandler
        <4>4. CASE pendingTask = NullTask
          <5>1. ~Coming'
            BY <2>7, <4>2, <4>4 DEF Coming
          <5> QED
            BY <2>2, <3>1, <4>1, <4>3, <4>4, <5>1 DEF InTheChain
        <4>5. CASE pendingTask # NullTask
          <5>1. Coming' /\ pendingTask' \in Tasks /\ Follows(LastTask, pendingTask)'
            <6>1. Coming'
              BY <2>7, <4>5 DEF Coming
            <6> QED
              BY <2>2, <3>1, <4>1, <4>2, <4>5, <6>1 DEF Follows
          <5> QED
            BY <4>1, <4>3, <5>1 DEF InTheChain
        <4> QED
          BY <4>4, <4>5
      <3>3. HandlersFollowTheChain'
        BY <1>11 DEF ContinueSequence, history, ChainInv, HandlersFollowTheChain
      <3> QED
        BY <3>2, <3>3 DEF ChainInv
    <2>11. StreamInv'
      <3>1. reads' # <<>> => buffered' + reads'[1] >= GetSize(pendingTask)
        BY <2>3, <2>6, <2>7
      <3>2. InTheStream'
        BY <1>11, <2>1, <2>2, <2>4, <2>6, <2>7, <3>1 DEF ContinueSequence, application, history,
           InTheStream, InHandler, LastTask, LastEnd
      <3>3. HandlersSeeTheStream'
        BY <1>11 DEF ContinueSequence, history, StreamInv, HandlersSeeTheStream
      <3> QED
        BY <3>2, <3>3 DEF StreamInv
    <2> QED
      BY <2>8, <2>9, <2>10, <2>11
  <1>12. CASE UNCHANGED vars
    <2>1. TypeInv'
      BY <1>12 DEF vars, TypeOK, BytesAreSomewhere
    <2>2. DriverInv'
      BY <1>12 DEF vars, DriverInv, OneDriver, CallerIsAlone, Drivers
    <2>3. ChainInv'
      BY <1>12 DEF vars, ChainInv, InTheChain, InHandler, Coming, LastTask, Follows, HandlersFollowTheChain
    <2>4. StreamInv'
      BY <1>12 DEF vars, StreamInv, InTheStream, InHandler, LastTask, LastEnd, HandlersSeeTheStream
    <2> QED
      BY <2>1, <2>2, <2>3, <2>4
  <1> QED
    BY <1>1, <1>2, <1>3, <1>4, <1>5, <1>6, <1>7, <1>8, <1>9, <1>10, <1>11, <1>12
       DEF Next, IoThread, SomeReadCompletes, SomeReadFails
-----------------------------------------------------------------------------
(* The strengthened invariant holds in every state.                           *)
LEMMA Inductive ==
    ASSUME Eager = FALSE
    PROVE  Spec => []IInv
  <1>1. Init => IInv
    BY InitIInv
  <1>2. IInv /\ [Next]_vars => IInv'
    BY IInvPreserved
  <1> QED
    BY <1>1, <1>2, PTL DEF Spec

(* The reader's state has its type: no task that is not in a sequence, never  *)
(* more in the buffer than the peer sent (async_reader.cpp:13-75).            *)
THEOREM TypeCorrect ==
    ASSUME Eager = FALSE
    PROVE  Spec => []TypeOK
  <1>1. IInv => TypeOK
    BY DEF IInv, TypeInv
  <1> QED
    BY <1>1, Inductive, PTL

(* Scheduled from the io thread, a sequence never starts a second async_read  *)
(* on the stream or one beside a handler (async_reader.cpp:33-37, 62-74).     *)
THEOREM Driver ==
    ASSUME Eager = FALSE
    PROVE  Spec => []OneDriver
  <1>1. IInv => OneDriver
    BY DEF IInv, DriverInv
  <1> QED
    BY <1>1, Inductive, PTL

(* The handlers see the peer's bytes in order, none lost and none twice,      *)
(* however async_read groups them (async_reader.cpp:17-26, 62-74).            *)
THEOREM Stream ==
    ASSUME Eager = FALSE
    PROVE  Spec => []HandlersSeeTheStream
  <1>1. IInv => HandlersSeeTheStream
    BY DEF IInv, StreamInv
  <1> QED
    BY <1>1, Inductive, PTL

(* The handlers run in the order in which they chain their sequence           *)
(* (async_reader.cpp:68).                                                     *)
THEOREM Chain ==
    ASSUME Eager = FALSE
    PROVE  Spec => []HandlersFollowTheChain
  <1>1. IInv => HandlersFollowTheChain
    BY DEF IInv, ChainInv
  <1> QED
    BY <1>1, Inductive, PTL

(* The null handler that ends a sequence is never called, as long as          *)
(* sequences are scheduled from the io thread (async_reader.hpp:31); the run  *)
(* reader_eager shows that this assumption is needed.                         *)
THEOREM NullNeverCalled ==
    ASSUME Eager = FALSE
    PROVE  Spec => []NullHandlerNeverCalled
  <1>1. IInv => NullHandlerNeverCalled
    BY DEF IInv, ChainInv, InTheChain, NullHandlerNeverCalled
  <1> QED
    BY <1>1, Inductive, PTL
=============================================================================
