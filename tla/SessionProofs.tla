--------------------------- MODULE SessionProofs ---------------------------
(***************************************************************************)
(* Proofs of the safety properties of Session, for any number of writes    *)
(* and whatever operations cancel() may miss.                              *)
(***************************************************************************)
EXTENDS Session, TLAPS

(* The writer's queue holds what was scheduled, and its front while an        *)
(* operation is under way, so that there is something to pop.                 *)
QueueHoldsFront ==
    /\ posted + queued <= scheduled
    /\ op["write"] # "none" => queued > 0

(* The heartbeat starts with the monitoring, and a pong only fails with the   *)
(* connection or the session.                                                 *)
HeartbeatHasReason ==
    /\ ~monitored => HeartbeatChain = 0
    /\ op["pong"] # "posted"
    /\ op["pong"] = "failed" => broken \/ ~alive

IInv ==
    /\ TypeOK
    /\ QueueHoldsFront
    /\ HeartbeatHasReason
    /\ HeartbeatGoesOn
    /\ QuietAfterwards

(* A session begins open, its heartbeat not started (session.cpp:12-35).      *)
THEOREM InitIInv == Init => IInv
  <1> SUFFICES ASSUME Init PROVE IInv
    OBVIOUS
  <1>1. TypeOK
    <2>1. 0 \in 0 .. MaxWrites /\ 0 \in Nat
      BY SessionAssumption DEF SessionAssumption
    <2>2. [o \in Ops |-> "none"] \in [Ops -> {"none", "posted", "pending", "ok", "failed"}]
      OBVIOUS
    <2> QED
      BY <2>1, <2>2, Zenon DEF Init, TypeOK
  <1>2. QueueHoldsFront
    BY DEF Init, QueueHoldsFront, Ops
  <1>3. HeartbeatHasReason /\ HeartbeatGoesOn
    BY DEF Init, HeartbeatHasReason, HeartbeatGoesOn, HeartbeatChain, Ops
  <1>4. QuietAfterwards
    BY DEF Init, QuietAfterwards
  <1> QED
    BY <1>1, <1>2, <1>3, <1>4 DEF IInv

(* What a step has to leave alone for the heartbeat to be as it was.          *)
LEMMA HeartbeatUntouched ==
    ASSUME TypeOK, HeartbeatHasReason, HeartbeatGoesOn,
           op'["pong"] = op["pong"],
           alive' => alive, open' => open, broken => broken',
           UNCHANGED <<timer, fired, monitored>>
    PROVE  HeartbeatHasReason' /\ HeartbeatGoesOn'
  BY DEF TypeOK, HeartbeatHasReason, HeartbeatGoesOn, HeartbeatChain

(* No step of the application but the start of the monitoring is one of the   *)
(* heartbeat's.                                                               *)
THEOREM ApplicationPreserves == IInv /\ Application => IInv'
  <1> SUFFICES ASSUME IInv, Application PROVE IInv'
    OBVIOUS
  <1> USE SessionAssumption DEF SessionAssumption, IInv, Ops
  <1>1. ASSUME ScheduleRead PROVE IInv'
    <2>1. TypeOK' /\ op'["pong"] = op["pong"] /\ op'["write"] = op["write"]
      BY <1>1 DEF ScheduleRead, Set, connection, writer, heartbeat, requests, heard, TypeOK
    <2>2. QueueHoldsFront' /\ QuietAfterwards'
      BY <1>1, <2>1 DEF ScheduleRead, writer, requests, heard, QueueHoldsFront, QuietAfterwards
    <2> QED
      BY <1>1, <2>1, <2>2, HeartbeatUntouched DEF ScheduleRead, connection, heartbeat, requests
  <1>2. ASSUME ScheduleWrite PROVE IInv'
    <2>1. TypeOK'
      BY <1>2 DEF ScheduleWrite, connection, heartbeat, heard, TypeOK, QueueHoldsFront
    <2>2. QueueHoldsFront' /\ QuietAfterwards'
      BY <1>2 DEF ScheduleWrite, heard, TypeOK, QueueHoldsFront, QuietAfterwards
    <2> QED
      BY <1>2, <2>1, <2>2, HeartbeatUntouched DEF ScheduleWrite, connection, heartbeat
  <1>3. ASSUME NEW h \in {"errors", "timeout"}, SetHandler(h) PROVE IInv'
    <2>1. TypeOK' /\ QueueHoldsFront' /\ QuietAfterwards'
      BY <1>3 DEF SetHandler, connection, writer, heartbeat, heard, TypeOK, QueueHoldsFront, QuietAfterwards
    <2> QED
      BY <1>3, <2>1, HeartbeatUntouched DEF SetHandler, connection, heartbeat
  <1>4. ASSUME StartConnectionActivityMonitoring PROVE IInv'
    <2>1. TypeOK' /\ op'["write"] = op["write"]
      BY <1>4 DEF StartConnectionActivityMonitoring, SchedulePong, Set, connection, writer,
         heartbeat, heard, TypeOK
    <2>2. QueueHoldsFront' /\ QuietAfterwards'
      BY <1>4, <2>1 DEF StartConnectionActivityMonitoring, writer, heard, QueueHoldsFront, QuietAfterwards
    <2>3. HeartbeatHasReason' /\ HeartbeatGoesOn'
      BY <1>4 DEF StartConnectionActivityMonitoring, SchedulePong, Set, connection, heartbeat,
         TypeOK, HeartbeatHasReason, HeartbeatGoesOn, HeartbeatChain
    <2> QED
      BY <2>1, <2>2, <2>3
  <1>5. ASSUME Close PROVE IInv'
    <2>1. /\ op' \in [Ops -> {"none", "posted", "pending", "ok", "failed"}]
          /\ op'["pong"] = op["pong"] /\ op'["write"] = op["write"]
      BY <1>5 DEF Close, Set, TypeOK
    <2>2. open' \in BOOLEAN /\ (open' => open)
      <3>1. open' = open \/ open' = FALSE
        BY <1>5 DEF Close
      <3>2. open \in BOOLEAN
        BY DEF TypeOK
      <3>3. CASE open' = open
        BY <3>2, <3>3
      <3>4. CASE open' = FALSE
        BY <3>4
      <3> QED
        BY <3>1, <3>3, <3>4
    <2>3. TypeOK'
      BY <1>5, <2>1, <2>2 DEF Close, writer, heartbeat, heard, TypeOK
    <2>4. QueueHoldsFront' /\ QuietAfterwards'
      BY <1>5, <2>1 DEF Close, writer, heard, QueueHoldsFront, QuietAfterwards
    <2> QED
      BY <1>5, <2>1, <2>2, <2>3, <2>4, HeartbeatUntouched DEF Close, heartbeat
  <1>6. ASSUME NEW on \in SUBSET MayMissCancel, Destroy(on) PROVE IInv'
    <2>1. TypeOK' /\ (op'["write"] = "none" <=> op["write"] = "none")
      BY <1>6 DEF Destroy, connection, writer, requests, heard, TypeOK
    <2>2. QueueHoldsFront' /\ QuietAfterwards'
      BY <1>6, <2>1 DEF Destroy, writer, requests, heard, QueueHoldsFront, QuietAfterwards
    <2>3. /\ op'["pong"] = "none" <=> op["pong"] = "none"
          /\ op'["pong"] # "posted"
      BY <1>6 DEF Destroy, TypeOK, HeartbeatHasReason
    <2>4. HeartbeatHasReason' /\ HeartbeatGoesOn'
      BY <1>6, <2>3 DEF Destroy, requests, TypeOK, HeartbeatHasReason, HeartbeatGoesOn, HeartbeatChain
    <2> QED
      BY <2>1, <2>2, <2>4
  <1> QED
    BY <1>1, <1>2, <1>3, <1>4, <1>5, <1>6 DEF Application

(* What the network and the clock do.                                         *)
THEOREM EnvironmentPreserves ==
    IInv /\ ((\E o \in Ops : Stream(o)) \/ ConnectionBreaks \/ TimerExpires) => IInv'
  <1> SUFFICES ASSUME IInv, (\E o \in Ops : Stream(o)) \/ ConnectionBreaks \/ TimerExpires
               PROVE  IInv'
    OBVIOUS
  <1> USE SessionAssumption DEF SessionAssumption, IInv, Ops
  <1>1. ASSUME NEW o \in Ops, NEW how \in {"ok", "failed"}, OperationEnds(o, how) PROVE IInv'
    <2>1. /\ TypeOK'
          /\ op'["write"] = "none" <=> op["write"] = "none"
          /\ op'["pong"] = "none" <=> op["pong"] = "none"
          /\ op'["pong"] # op["pong"] => o = "pong" /\ op'["pong"] = how
      BY <1>1 DEF OperationEnds, Set, writer, heartbeat, requests, heard, TypeOK
    <2>2. /\ open' => open
          /\ broken => broken'
          /\ o = "pong" /\ how = "failed" => broken'
      BY <1>1 DEF OperationEnds, TypeOK
    <2>3. QueueHoldsFront' /\ QuietAfterwards'
      BY <1>1, <2>1 DEF OperationEnds, writer, requests, heard, QueueHoldsFront, QuietAfterwards
    <2>4. HeartbeatHasReason' /\ HeartbeatGoesOn'
      BY <1>1, <2>1, <2>2 DEF OperationEnds, heartbeat, requests, TypeOK, HeartbeatHasReason,
         HeartbeatGoesOn, HeartbeatChain
    <2> QED
      BY <2>1, <2>3, <2>4
  <1>2. ASSUME ConnectionBreaks PROVE IInv'
    <2>1. TypeOK' /\ QueueHoldsFront' /\ QuietAfterwards'
      BY <1>2 DEF ConnectionBreaks, writer, heartbeat, requests, heard, TypeOK, QueueHoldsFront, QuietAfterwards
    <2> QED
      BY <1>2, <2>1, HeartbeatUntouched DEF ConnectionBreaks, heartbeat, requests
  <1>3. ASSUME TimerExpires PROVE IInv'
    <2>1. TypeOK'
      <3>1. fired' = fired + 1 /\ timer' = FALSE
        BY <1>3 DEF TimerExpires
      <3>2. fired' \in Nat
        BY <3>1 DEF TypeOK
      <3> QED
        BY <1>3, <3>1, <3>2 DEF TimerExpires, connection, writer, requests, heard, TypeOK
    <2>2. QueueHoldsFront' /\ QuietAfterwards'
      BY <1>3 DEF TimerExpires, writer, requests, heard, QueueHoldsFront, QuietAfterwards
    <2>3. HeartbeatHasReason' /\ HeartbeatGoesOn'
      BY <1>3 DEF TimerExpires, connection, requests, TypeOK, HeartbeatHasReason, HeartbeatGoesOn, HeartbeatChain
    <2> QED
      BY <2>1, <2>2, <2>3
  <1> QED
    BY <1>1, <1>2, <1>3 DEF Stream

(* The handlers of the reader, the writer and close(), which leave the        *)
(* heartbeat alone.                                                           *)
THEOREM StreamHandlersPreserve ==
    IInv /\ (DoRead \/ QueueBatchWrite \/ OnRead(TRUE) \/ OnRead(FALSE) \/ OnReadError
                \/ OnWrite \/ OnWriteError \/ OnWriteTimedOut \/ OnControlFrame \/ OnClosed)
        => IInv'
  <1> SUFFICES ASSUME IInv,
                      DoRead \/ QueueBatchWrite \/ OnRead(TRUE) \/ OnRead(FALSE) \/ OnReadError
                        \/ OnWrite \/ OnWriteError \/ OnWriteTimedOut \/ OnControlFrame \/ OnClosed
               PROVE  IInv'
    OBVIOUS
  <1> USE SessionAssumption DEF SessionAssumption, IInv, Ops
  <1>1. ASSUME DoRead PROVE IInv'
    <2>1. TypeOK' /\ op'["pong"] = op["pong"] /\ op'["write"] = op["write"]
      BY <1>1 DEF DoRead, Set, connection, writer, heartbeat, requests, heard, TypeOK
    <2>2. QueueHoldsFront' /\ QuietAfterwards'
      BY <1>1, <2>1 DEF DoRead, writer, requests, heard, QueueHoldsFront, QuietAfterwards
    <2> QED
      BY <1>1, <2>1, <2>2, HeartbeatUntouched DEF DoRead, connection, heartbeat, requests
  <1>2. ASSUME QueueBatchWrite PROVE IInv'
    <2>1. op' \in [Ops -> {"none", "posted", "pending", "ok", "failed"}] /\ op'["pong"] = op["pong"]
      BY <1>2 DEF QueueBatchWrite, Set, TypeOK
    <2>2. QueueHoldsFront'
      BY <1>2 DEF QueueBatchWrite, Set, requests, TypeOK, QueueHoldsFront
    <2>3. TypeOK'
      BY <1>2, <2>1 DEF QueueBatchWrite, connection, heartbeat, requests, heard, TypeOK, QueueHoldsFront
    <2>4. QuietAfterwards'
      BY <1>2 DEF QueueBatchWrite, heard, QuietAfterwards
    <2> QED
      BY <1>2, <2>1, <2>2, <2>3, <2>4, HeartbeatUntouched DEF QueueBatchWrite, connection, heartbeat, requests
  <1>3. ASSUME NEW more \in BOOLEAN, OnRead(more) PROVE IInv'
    <2>1. op' \in [Ops -> {"none", "posted", "pending", "ok", "failed"}]
          /\ op'["pong"] = op["pong"] /\ op'["write"] = op["write"]
      BY <1>3 DEF OnRead, Set, TypeOK
    <2>2. afterwards' \subseteq Callbacks /\ QuietAfterwards'
      BY <1>3 DEF OnRead, Call, NoCall, Callbacks, TypeOK, QuietAfterwards
    <2>3. TypeOK' /\ QueueHoldsFront'
      BY <1>3, <2>1, <2>2 DEF OnRead, connection, writer, heartbeat, requests, TypeOK, QueueHoldsFront
    <2> QED
      BY <1>3, <2>1, <2>2, <2>3, HeartbeatUntouched DEF OnRead, connection, heartbeat, requests
  <1>4. ASSUME OnReadError PROVE IInv'
    <2>1. op' \in [Ops -> {"none", "posted", "pending", "ok", "failed"}]
          /\ op'["pong"] = op["pong"] /\ op'["write"] = op["write"]
      BY <1>4 DEF OnReadError, Set, TypeOK
    <2>2. afterwards' = afterwards /\ told' \subseteq {"read", "write"}
      BY <1>4 DEF OnReadError, ReportError, Locked, Call, NoCall, TypeOK
    <2>3. TypeOK' /\ QueueHoldsFront' /\ QuietAfterwards'
      BY <1>4, <2>1, <2>2 DEF OnReadError, connection, writer, heartbeat, requests, TypeOK,
         QueueHoldsFront, QuietAfterwards
    <2> QED
      BY <1>4, <2>1, <2>3, HeartbeatUntouched DEF OnReadError, connection, heartbeat, requests
  <1>5. ASSUME OnWrite PROVE IInv'
    <2>1. op' \in [Ops -> {"none", "posted", "pending", "ok", "failed"}] /\ op'["pong"] = op["pong"]
      BY <1>5 DEF OnWrite, Set, TypeOK
    <2>2. QueueHoldsFront' /\ queued' \in 0 .. MaxWrites
      BY <1>5 DEF OnWrite, Pop, Set, requests, TypeOK, QueueHoldsFront
    <2>3. TypeOK' /\ QuietAfterwards'
      BY <1>5, <2>1, <2>2 DEF OnWrite, connection, heartbeat, requests, heard, TypeOK, QuietAfterwards
    <2> QED
      BY <1>5, <2>1, <2>2, <2>3, HeartbeatUntouched DEF OnWrite, connection, heartbeat, requests
  <1>6. ASSUME OnWriteError PROVE IInv'
    <2>1. op' \in [Ops -> {"none", "posted", "pending", "ok", "failed"}] /\ op'["pong"] = op["pong"]
      BY <1>6 DEF OnWriteError, Set, TypeOK
    <2>2. QueueHoldsFront' /\ queued' \in 0 .. MaxWrites
      BY <1>6 DEF OnWriteError, Pop, Set, requests, TypeOK, QueueHoldsFront
    <2>3. afterwards' = afterwards /\ told' \subseteq {"read", "write"}
      BY <1>6 DEF OnWriteError, ReportError, Locked, Call, NoCall, TypeOK
    <2>4. TypeOK' /\ QuietAfterwards'
      BY <1>6, <2>1, <2>2, <2>3 DEF OnWriteError, connection, heartbeat, requests, TypeOK, QuietAfterwards
    <2> QED
      BY <1>6, <2>1, <2>2, <2>4, HeartbeatUntouched DEF OnWriteError, connection, heartbeat, requests
  <1>7. ASSUME OnWriteTimedOut PROVE IInv'
    <2>1. afterwards' = afterwards
      BY <1>7 DEF OnWriteTimedOut, Locked, Call, NoCall
    <2>2. TypeOK' /\ QueueHoldsFront' /\ QuietAfterwards'
      BY <1>7, <2>1 DEF OnWriteTimedOut, connection, heartbeat, requests, TypeOK, QueueHoldsFront, QuietAfterwards
    <2> QED
      BY <1>7, <2>2, HeartbeatUntouched DEF OnWriteTimedOut, connection, heartbeat, requests
  <1>8. ASSUME OnControlFrame PROVE IInv'
    <2>1. afterwards' = afterwards
      BY <1>8 DEF OnControlFrame, Locked, Call, NoCall
    <2>2. TypeOK' /\ QueueHoldsFront' /\ QuietAfterwards'
      BY <1>8, <2>1 DEF OnControlFrame, connection, writer, heartbeat, requests, TypeOK, QueueHoldsFront, QuietAfterwards
    <2> QED
      BY <1>8, <2>2, HeartbeatUntouched DEF OnControlFrame, connection, heartbeat, requests
  <1>9. ASSUME OnClosed PROVE IInv'
    <2>1. op' \in [Ops -> {"none", "posted", "pending", "ok", "failed"}]
          /\ op'["pong"] = op["pong"] /\ op'["write"] = op["write"]
      BY <1>9 DEF OnClosed, Set, TypeOK
    <2>2. afterwards' \subseteq Callbacks /\ QuietAfterwards' /\ closed' \in Nat
      BY <1>9 DEF OnClosed, AnswerClose, Call, Callbacks, TypeOK, QuietAfterwards
    <2>3. TypeOK' /\ QueueHoldsFront'
      BY <1>9, <2>1, <2>2 DEF OnClosed, connection, writer, heartbeat, requests, TypeOK, QueueHoldsFront
    <2> QED
      BY <1>9, <2>1, <2>2, <2>3, HeartbeatUntouched DEF OnClosed, connection, heartbeat, requests
  <1> QED
    BY <1>1, <1>2, <1>3, <1>4, <1>5, <1>6, <1>7, <1>8, <1>9

(* The handlers of the heartbeat itself.                                      *)
THEOREM HeartbeatPreserves == IInv /\ (OnPong \/ OnHeartbeatTimer) => IInv'
  <1> SUFFICES ASSUME IInv, OnPong \/ OnHeartbeatTimer PROVE IInv'
    OBVIOUS
  <1> USE SessionAssumption DEF SessionAssumption, IInv, Ops
  <1>1. ASSUME OnPong PROVE IInv'
    <2>1. op' = [op EXCEPT !["pong"] = "none"] /\ timer' \in BOOLEAN
      BY <1>1 DEF OnPong, Set, RestartHeartbeatTimer, TypeOK
    <2>2. TypeOK' /\ op'["write"] = op["write"] /\ op'["pong"] = "none"
      BY <1>1, <2>1 DEF OnPong, connection, writer, requests, heard, TypeOK
    <2>3. QueueHoldsFront' /\ QuietAfterwards'
      BY <1>1, <2>2 DEF OnPong, writer, requests, heard, QueueHoldsFront, QuietAfterwards
    <2>4. HeartbeatHasReason' /\ HeartbeatGoesOn'
      BY <1>1, <2>2 DEF OnPong, Locked, RestartHeartbeatTimer, connection, requests, TypeOK,
         HeartbeatHasReason, HeartbeatGoesOn, HeartbeatChain
    <2> QED
      BY <2>2, <2>3, <2>4
  <1>2. ASSUME OnHeartbeatTimer PROVE IInv'
    <2>1. /\ op' \in [Ops -> {"none", "posted", "pending", "ok", "failed"}]
          /\ op'["write"] = op["write"]
          /\ op'["pong"] = IF alive /\ open THEN "pending" ELSE op["pong"]
      BY <1>2 DEF OnHeartbeatTimer, Locked, SchedulePong, Set, TypeOK
    <2>2. fired' \in Nat
      BY <1>2 DEF OnHeartbeatTimer, TypeOK
    <2>3. TypeOK' /\ QueueHoldsFront' /\ QuietAfterwards'
      BY <1>2, <2>1, <2>2 DEF OnHeartbeatTimer, connection, writer, requests, heard, TypeOK,
         QueueHoldsFront, QuietAfterwards
    <2>4. HeartbeatHasReason' /\ HeartbeatGoesOn'
      BY <1>2, <2>1 DEF OnHeartbeatTimer, connection, requests, TypeOK, HeartbeatHasReason,
         HeartbeatGoesOn, HeartbeatChain
    <2> QED
      BY <2>3, <2>4
  <1> QED
    BY <1>1, <1>2

(* The strengthened invariant holds in every state.                           *)
LEMMA Inductive == Spec => []IInv
  <1>1. IInv /\ [Next]_vars => IInv'
    <2> SUFFICES ASSUME IInv, [Next]_vars PROVE IInv'
      OBVIOUS
    <2>1. CASE UNCHANGED vars
      BY <2>1 DEF vars, IInv, TypeOK, QueueHoldsFront, HeartbeatHasReason, HeartbeatGoesOn,
         HeartbeatChain, QuietAfterwards
    <2> QED
      BY <2>1, ApplicationPreserves, EnvironmentPreserves, StreamHandlersPreserve,
         HeartbeatPreserves DEF Next, Handler
  <1> QED
    BY <1>1, InitIInv, PTL DEF Spec

(* Types: the writer's queue never has less than the batch that is popped,    *)
(* nor more than was scheduled.                                               *)
THEOREM TypeCorrect == Spec => []TypeOK
  <1>1. IInv => TypeOK
    BY DEF IInv
  <1> QED
    BY <1>1, Inductive, PTL

(* The heartbeat is one chain, and lasts as long as session and connection.   *)
THEOREM Heartbeat == Spec => []HeartbeatGoesOn
  <1>1. IInv => HeartbeatGoesOn
    BY DEF IInv
  <1> QED
    BY <1>1, Inductive, PTL

(* A destroyed session is silent, but for the two callbacks it does not guard. *)
THEOREM Quiet == Spec => []QuietAfterwards
  <1>1. IInv => QuietAfterwards
    BY DEF IInv
  <1> QED
    BY <1>1, Inductive, PTL
=============================================================================
