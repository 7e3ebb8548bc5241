---------------------------- MODULE ClientProofs ----------------------------
(***************************************************************************)
(* Proofs of the safety properties of Client, for every set of clients and *)
(* any number of attempts, which may overlap.                              *)
(***************************************************************************)
EXTENDS Client, TLAPS

(* Two attempts of one client under way are both recorded as overlapped, so   *)
(* that an attempt which is not has the timer of its client to itself.        *)
OverlapIsKnown ==
    \A a, b \in Attempts :
        a # b /\ a[1] = b[1] /\ InProgress(a) /\ InProgress(b) => a \in overlapped

(* The member's stream is none that was handed out with a session, and what   *)
(* a timeout cut was over already.                                            *)
StreamIsOwn ==
    /\ \A a \in websocketStream : answers[a] # <<"session">>
    /\ \A a \in cut : stage[a] = "over" /\ answers[a] # <<"session">>

IInv ==
    /\ TypeOK
    /\ AnsweredOnce
    /\ TimerEndsWithAttempt
    /\ OverlapIsKnown
    /\ GuardedUntilTimeout
    /\ StreamIsOwn

(* What the steps of the handlers have in common: a's stage and result change *)
(* and nobody else's.                                                         *)
LEMMA StartTypes ==
    ASSUME TypeOK, NEW a \in Attempts, NEW op \in {"resolve", "connect", "upgrade", "over"},
           Start(a, op)
    PROVE  /\ stage' \in [Attempts -> {"none", "resolve", "connect", "upgrade", "over"}]
           /\ result' \in [Attempts -> {"waiting", "ok", "failed", "aborted"}]
           /\ cancelled' \subseteq Attempts
           /\ stage'[a] = op
           /\ \A b \in Attempts : b # a => stage'[b] = stage[b]
  BY DEF Start, TypeOK

LEMMA AnswerTypes ==
    ASSUME TypeOK, AnsweredOnce, NEW a \in Attempts, stage[a] # "over",
           NEW callback \in Answers, Answer(a, callback)
    PROVE  /\ answers' \in [Attempts -> Seq(Answers)]
           /\ answers'[a] = <<callback>>
           /\ \A b \in Attempts : b # a => answers'[b] = answers[b]
  <1>1. answers[a] = <<>>
    BY DEF AnsweredOnce
  <1>2. <<callback>> \in Seq(Answers) /\ Append(<<>>, callback) = <<callback>>
    OBVIOUS
  <1> QED
    BY <1>1, <1>2 DEF Answer, TypeOK

(* A handler that starts the next operation of its attempt.                   *)
LEMMA GoingOn ==
    ASSUME IInv, NEW a \in Attempts, InProgress(a),
           NEW op \in {"connect", "upgrade"}, Start(a, op),
           websocketStream' \in {websocketStream, (websocketStream \ Of(a[1])) \cup {a}},
           UNCHANGED <<alive, timer, expired, answers, timedOut, overlapped, cut>>
    PROVE  IInv'
  <1>1. TypeOK /\ answers[a] # <<"session">> /\ stage[a] # "over"
    <2>1. <<>> # <<"session">>
      OBVIOUS
    <2> QED
      BY <2>1 DEF IInv, AnsweredOnce, InProgress
  <1>2. /\ stage' \in [Attempts -> {"none", "resolve", "connect", "upgrade", "over"}]
        /\ result' \in [Attempts -> {"waiting", "ok", "failed", "aborted"}]
        /\ cancelled' \subseteq Attempts
        /\ stage'[a] = op
        /\ \A b \in Attempts : b # a => stage'[b] = stage[b]
    BY <1>1, StartTypes
  <1> USE DEF IInv
  <1>3. TypeOK'
    BY <1>1, <1>2 DEF Of, TypeOK
  <1>4. AnsweredOnce'
    BY <1>1, <1>2 DEF AnsweredOnce
  <1>5. TimerEndsWithAttempt'
    BY <1>1, <1>2 DEF TypeOK, TimerEndsWithAttempt, InProgress
  <1>6. OverlapIsKnown'
    BY <1>1, <1>2 DEF OverlapIsKnown, InProgress
  <1>7. GuardedUntilTimeout'
    BY <1>1, <1>2 DEF GuardedUntilTimeout, OverlapIsKnown, InProgress
  <1>8. StreamIsOwn'
    BY <1>1, <1>2 DEF TypeOK, StreamIsOwn
  <1> QED
    BY <1>3, <1>4, <1>5, <1>6, <1>7, <1>8 DEF IInv

(* A handler that ends its attempt and cancels the timer. What it appends to  *)
(* answers, if anything, is none of the other attempts' concern.              *)
LEMMA Ending ==
    ASSUME IInv, NEW a \in Attempts, InProgress(a), Start(a, "over"), CancelTimer(a[1]),
           \/ UNCHANGED answers
           \/ \E callback \in Answers :
                   /\ Answer(a, callback)
                   /\ callback = "session" => a \notin websocketStream',
           websocketStream' \subseteq websocketStream,
           UNCHANGED <<alive, expired, timedOut, overlapped, cut>>
    PROVE  IInv'
  <1>1. TypeOK /\ AnsweredOnce /\ answers[a] = <<>> /\ stage[a] # "over"
    BY DEF IInv, AnsweredOnce, InProgress
  <1>2. /\ stage' \in [Attempts -> {"none", "resolve", "connect", "upgrade", "over"}]
        /\ result' \in [Attempts -> {"waiting", "ok", "failed", "aborted"}]
        /\ cancelled' \subseteq Attempts
        /\ stage'[a] = "over"
        /\ \A b \in Attempts : b # a => stage'[b] = stage[b]
    BY <1>1, StartTypes
  <1>3. /\ answers' \in [Attempts -> Seq(Answers)]
        /\ Len(answers'[a]) <= 1
        /\ \A b \in Attempts : b # a => answers'[b] = answers[b]
        /\ answers'[a] = <<"session">> => a \notin websocketStream'
    <2>1. CASE UNCHANGED answers
      BY <1>1, <2>1 DEF TypeOK
    <2>2. ASSUME NEW callback \in Answers, Answer(a, callback),
                 callback = "session" => a \notin websocketStream'
          PROVE  /\ answers' \in [Attempts -> Seq(Answers)]
                 /\ Len(answers'[a]) <= 1
                 /\ \A b \in Attempts : b # a => answers'[b] = answers[b]
                 /\ answers'[a] = <<"session">> => a \notin websocketStream'
      <3>1. Len(<<callback>>) = 1 /\ (<<callback>> = <<"session">> => callback = "session")
        OBVIOUS
      <3>2. /\ answers' \in [Attempts -> Seq(Answers)]
            /\ answers'[a] = <<callback>>
            /\ \A b \in Attempts : b # a => answers'[b] = answers[b]
        BY <1>1, <2>2, AnswerTypes
      <3> QED
        BY <2>2, <3>1, <3>2
    <2> QED
      BY <2>1, <2>2
  <1> USE DEF IInv
  <1>4. TypeOK'
    BY <1>1, <1>2, <1>3 DEF TypeOK, CancelTimer
  <1>5. AnsweredOnce'
    BY <1>1, <1>2, <1>3 DEF AnsweredOnce
  <1>6. TimerEndsWithAttempt'
    BY <1>1, <1>2, <1>3 DEF TypeOK, CancelTimer, Of, TimerEndsWithAttempt, InProgress
  <1>7. OverlapIsKnown'
    BY <1>1, <1>2, <1>3 DEF OverlapIsKnown, InProgress
  <1>8. GuardedUntilTimeout'
    BY <1>1, <1>2, <1>3 DEF CancelTimer, Of, GuardedUntilTimeout, OverlapIsKnown, InProgress
  <1>9. StreamIsOwn'
    BY <1>1, <1>2, <1>3 DEF TypeOK, StreamIsOwn
  <1> QED
    BY <1>4, <1>5, <1>6, <1>7, <1>8, <1>9 DEF IInv

(* The constructor leaves a client without an attempt (client.cpp:8-30).      *)
THEOREM InitIInv == Init => IInv
  BY DEF Init, IInv, TypeOK, AnsweredOnce, TimerEndsWithAttempt, OverlapIsKnown,
         GuardedUntilTimeout, StreamIsOwn, InProgress

(* One step per action, and under it one per conjunct that it may disturb.    *)
THEOREM IInvPreserved == IInv /\ [Next]_vars => IInv'
  <1> SUFFICES ASSUME IInv, [Next]_vars PROVE IInv'
    OBVIOUS
  <1>1. ASSUME NEW a \in Attempts, Connect(a) PROVE IInv'
    <2>1. TypeOK /\ Start(a, "resolve") /\ stage[a] = "none"
      BY <1>1 DEF Connect, IInv
    <2>2. /\ stage' \in [Attempts -> {"none", "resolve", "connect", "upgrade", "over"}]
          /\ result' \in [Attempts -> {"waiting", "ok", "failed", "aborted"}]
          /\ cancelled' \subseteq Attempts
          /\ stage'[a] = "resolve"
          /\ \A b \in Attempts : b # a => stage'[b] = stage[b]
      BY <2>1, StartTypes
    <2> USE DEF IInv
    <2>3. TypeOK'
      BY <1>1, <2>1, <2>2 DEF Connect, ArmTimer, UnderWay, Of, TypeOK
    <2>4. AnsweredOnce'
      BY <1>1, <2>1, <2>2 DEF Connect, AnsweredOnce
    <2>5. TimerEndsWithAttempt'
      BY <1>1, <2>1, <2>2 DEF TypeOK, Connect, ArmTimer, Of, TimerEndsWithAttempt, InProgress
    <2>6. OverlapIsKnown'
      BY <1>1, <2>1, <2>2 DEF Connect, UnderWay, Of, OverlapIsKnown, InProgress
    <2>7. GuardedUntilTimeout'
      BY <1>1, <2>1, <2>2 DEF Connect, ArmTimer, UnderWay, Of, GuardedUntilTimeout, OverlapIsKnown, InProgress
    <2>8. StreamIsOwn'
      BY <1>1, <2>1, <2>2 DEF TypeOK, Connect, StreamIsOwn
    <2> QED
      BY <2>3, <2>4, <2>5, <2>6, <2>7, <2>8 DEF IInv
  <1>2. ASSUME NEW a \in Attempts, NEW how \in {"ok", "failed", "aborted"}, OperationEnds(a, how)
        PROVE  IInv'
    BY <1>2 DEF IInv, OperationEnds, timeout, TypeOK, AnsweredOnce, TimerEndsWithAttempt,
       OverlapIsKnown, GuardedUntilTimeout, StreamIsOwn, InProgress
  <1>3. ASSUME NEW a \in Attempts, TimerExpires(a) PROVE IInv'
    BY <1>3 DEF IInv, TimerExpires, operation, TypeOK, AnsweredOnce, TimerEndsWithAttempt,
       OverlapIsKnown, GuardedUntilTimeout, StreamIsOwn, InProgress
  <1>4. ASSUME NEW a \in Attempts, OnConnectionTimeout(a) PROVE IInv'
    <2> USE DEF IInv
    <2>1. TypeOK'
      BY <1>4 DEF OnConnectionTimeout, Of, TypeOK
    <2>2. AnsweredOnce'
      BY <1>4 DEF OnConnectionTimeout, AnsweredOnce
    <2>3. TimerEndsWithAttempt'
      BY <1>4 DEF OnConnectionTimeout, TimerEndsWithAttempt, InProgress
    <2>4. OverlapIsKnown'
      BY <1>4 DEF OnConnectionTimeout, OverlapIsKnown, InProgress
    <2>5. GuardedUntilTimeout'
      BY <1>4 DEF OnConnectionTimeout, GuardedUntilTimeout, OverlapIsKnown, InProgress
    <2>6. StreamIsOwn'
      BY <1>4 DEF OnConnectionTimeout, Of, TypeOK, StreamIsOwn
    <2> QED
      BY <2>1, <2>2, <2>3, <2>4, <2>5, <2>6 DEF IInv
  <1>5. ASSUME NEW a \in Attempts, OnResolve(a) PROVE IInv'
    <2>1. InProgress(a)
      BY <1>5 DEF OnResolve, HandlerRuns, InProgress
    <2>2. CASE result[a] = "ok"
      BY <1>5, <2>1, <2>2, GoingOn DEF OnResolve
    <2>3. CASE result[a] # "ok"
      BY <1>5, <2>1, <2>3, Ending DEF OnResolve, GiveUp, Answers
    <2> QED
      BY <2>2, <2>3
  <1>6. ASSUME NEW a \in Attempts, OnConnect(a) PROVE IInv'
    <2>1. InProgress(a)
      BY <1>6 DEF OnConnect, HandlerRuns, InProgress
    <2>2. CASE result[a] = "ok"
      BY <1>6, <2>1, <2>2, GoingOn DEF OnConnect, AsyncHandshake
    <2>3. CASE result[a] # "ok"
      BY <1>6, <2>1, <2>3, Ending DEF OnConnect, GiveUp, Answers
    <2> QED
      BY <2>2, <2>3
  <1>7. ASSUME NEW a \in Attempts, OnUpgradeFails(a) PROVE IInv'
    <2>1. InProgress(a)
      BY <1>7 DEF OnUpgradeFails, HandlerRuns, InProgress
    <2> QED
      BY <1>7, <2>1, Ending DEF OnUpgradeFails, GiveUp, Answers
  <1>8. ASSUME NEW a \in Attempts, CreateSession(a) PROVE IInv'
    <2>1. InProgress(a)
      BY <1>8 DEF CreateSession, HandlerRuns, InProgress
    <2>2. websocketStream' \subseteq websocketStream /\ a \notin websocketStream'
      BY <1>8 DEF CreateSession, ReleaseStream, Of
    <2> QED
      BY <1>8, <2>1, <2>2, Ending DEF CreateSession, Answers
  <1>9. ASSUME NEW a \in Attempts, EndpointIsGone(a) PROVE IInv'
    <2>1. InProgress(a)
      BY <1>9 DEF EndpointIsGone, HandlerRuns, InProgress
    <2> QED
      BY <1>9, <2>1, Ending DEF EndpointIsGone
  <1>10. ASSUME NEW c \in Clients, Destroy(c) PROVE IInv'
    BY <1>10 DEF IInv, Destroy, operation, CancelTimer, Of, TypeOK, AnsweredOnce,
       TimerEndsWithAttempt, OverlapIsKnown, GuardedUntilTimeout, StreamIsOwn, InProgress
  <1>11. CASE UNCHANGED vars
    BY <1>11 DEF vars, IInv, TypeOK, AnsweredOnce, TimerEndsWithAttempt, OverlapIsKnown,
       GuardedUntilTimeout, StreamIsOwn, InProgress
  <1> QED
    BY <1>1, <1>2, <1>3, <1>4, <1>5, <1>6, <1>7, <1>8, <1>9, <1>10, <1>11
       DEF Next, Handler, OperationOfEnds

(* The strengthened invariant holds in every state.                           *)
LEMMA Inductive == Spec => []IInv
  BY InitIInv, IInvPreserved, PTL DEF Spec

(* Types: an attempt's timer and stream are the only ones of its client.      *)
THEOREM TypeCorrect == Spec => []TypeOK
  <1>1. IInv => TypeOK
    BY DEF IInv
  <1> QED
    BY <1>1, Inductive, PTL

(* However attempts overlap, each is answered once at the most, when nothing  *)
(* of it is under way any more.                                               *)
THEOREM OneAnswer == Spec => []AnsweredOnce
  <1>1. IInv => AnsweredOnce
    BY DEF IInv
  <1> QED
    BY <1>1, Inductive, PTL

(* No timer outlives the attempt that armed it, or the client.                *)
THEOREM TimerEnds == Spec => []TimerEndsWithAttempt
  <1>1. IInv => TimerEndsWithAttempt
    BY DEF IInv
  <1> QED
    BY <1>1, Inductive, PTL

(* An attempt that no other overlaps is guarded by its own timeout.           *)
THEOREM Guarded == Spec => []GuardedUntilTimeout
  <1>1. IInv => GuardedUntilTimeout
    BY DEF IInv
  <1> QED
    BY <1>1, Inductive, PTL

(* No timeout, of whichever attempt, cuts the stream of a session.            *)
THEOREM SessionSafe == Spec => []SessionNeverCut
  <1>1. IInv => SessionNeverCut
    BY DEF IInv, StreamIsOwn, SessionNeverCut
  <1> QED
    BY <1>1, Inductive, PTL
=============================================================================
