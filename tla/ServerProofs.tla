---------------------------- MODULE ServerProofs ----------------------------
(***************************************************************************)
(* Proofs of the safety properties of Server, for any acceptors and        *)
(* clients, any number of restarts and of failing accepts.                 *)
(***************************************************************************)
EXTENDS Server, FiniteSetTheorems, TLAPS

Bound(c) == stage[c] = "accepted" \/ InHeaderRead(c)

(* The connections whose handlers will call startTcpAccept(x).                *)
BoundTo(x) == {c \in Conns : via[c] = x /\ Bound(c)}

(* A connection knows its acceptor until its header read is over.             *)
ViaIsKnown == \A c \in Conns : stage[c] = "backlog" \/ Bound(c) => via[c] \in Acceptors

(* Header reads that neither overlap nor follow a failed one are alone with   *)
(* the shared buffer.                                                         *)
ReaderIsAlone ==
    ~disturbed =>
        /\ \A c, d \in Conns : InHeaderRead(c) /\ InHeaderRead(d) => c = d
        /\ \A c \in Conns : stage[c] = "reading" => acceptBuffer = Empty
        /\ \A c \in Conns : stage[c] = "read" => acceptBuffer = c

TypeInv == TypeOK /\ ViaIsKnown

ChainInv == ChainsBounded /\ NeverDeaf

BufferInv == ReaderIsAlone /\ UndisturbedIsOwn

IInv == TypeInv /\ ChainInv /\ BufferInv

LEMMA ChainsAreCounted ==
    ASSUME NEW x
    PROVE  /\ Chains(x) = accepts[x] + failedAccepts[x] + Cardinality(BoundTo(x))
           /\ IsFiniteSet(BoundTo(x))
           /\ Cardinality(BoundTo(x)) \in Nat
  <1>1. IsFiniteSet(BoundTo(x))
    BY FS_Subset, ServerAssumption DEF ServerAssumption, BoundTo
  <1> QED
    BY <1>1, FS_CardinalityType DEF Chains, BoundTo, Bound

(* A step that binds and frees no connection.                                 *)
LEMMA SameChains ==
    ASSUME NEW x,
           \A c \in Conns : (via[c] = x /\ Bound(c)) <=> (via'[c] = x /\ Bound(c)')
    PROVE  BoundTo(x)' = BoundTo(x)
  BY DEF BoundTo

(* A step that binds connection c.                                            *)
LEMMA OneMore ==
    ASSUME NEW c \in Conns, ~Bound(c), Bound(c)', via' = via,
           \A d \in Conns \ {c} : Bound(d)' <=> Bound(d)
    PROVE  \A x : Cardinality(BoundTo(x)') =
                      Cardinality(BoundTo(x)) + (IF x = via[c] THEN 1 ELSE 0)
  <1> SUFFICES ASSUME NEW x
               PROVE  Cardinality(BoundTo(x)') =
                          Cardinality(BoundTo(x)) + (IF x = via[c] THEN 1 ELSE 0)
    OBVIOUS
  <1>1. IsFiniteSet(BoundTo(x)) /\ Cardinality(BoundTo(x)) \in Nat
    BY ChainsAreCounted
  <1>2. CASE x = via[c]
    <2>1. BoundTo(x)' = BoundTo(x) \cup {c} /\ c \notin BoundTo(x)
      BY <1>2 DEF BoundTo
    <2> QED
      BY <1>1, <1>2, <2>1, FS_AddElement
  <1>3. CASE x # via[c]
    <2>1. BoundTo(x)' = BoundTo(x)
      BY <1>3 DEF BoundTo
    <2> QED
      BY <1>1, <1>3, <2>1
  <1> QED
    BY <1>2, <1>3

(* A step that frees it.                                                      *)
LEMMA OneLess ==
    ASSUME NEW c \in Conns, Bound(c), via' = [via EXCEPT ![c] = None], ~Bound(c)',
           \A d \in Conns \ {c} : (Bound(d)' <=> Bound(d)) /\ via'[d] = via[d]
    PROVE  \A x : /\ Cardinality(BoundTo(x)') =
                      Cardinality(BoundTo(x)) - (IF x = via[c] THEN 1 ELSE 0)
                  /\ x = via[c] => Cardinality(BoundTo(x)) > 0
  <1> SUFFICES ASSUME NEW x
               PROVE  /\ Cardinality(BoundTo(x)') =
                          Cardinality(BoundTo(x)) - (IF x = via[c] THEN 1 ELSE 0)
                      /\ x = via[c] => Cardinality(BoundTo(x)) > 0
    OBVIOUS
  <1>1. IsFiniteSet(BoundTo(x)) /\ Cardinality(BoundTo(x)) \in Nat
    BY ChainsAreCounted
  <1>2. CASE x = via[c]
    <2>1. BoundTo(x)' = BoundTo(x) \ {c} /\ c \in BoundTo(x)
      BY <1>2 DEF BoundTo
    <2>2. /\ IsFiniteSet(BoundTo(x) \ {c})
          /\ Cardinality(BoundTo(x) \ {c}) = Cardinality(BoundTo(x)) - 1
      BY <1>1, <2>1, FS_RemoveElement
    <2>3. Cardinality(BoundTo(x) \ {c}) \in Nat
      BY <2>2, FS_CardinalityType
    <2> QED
      BY <1>1, <1>2, <2>1, <2>2, <2>3
  <1>3. CASE x # via[c]
    <2>1. BoundTo(x)' = BoundTo(x)
      BY <1>3 DEF BoundTo
    <2> QED
      BY <1>1, <1>3, <2>1
  <1> QED
    BY <1>2, <1>3

(* A step without a start keeps the chains' bounds if no chain is added and   *)
(* an acceptor that stays open keeps its own.                                 *)
LEMMA ChainsKept ==
    ASSUME TypeOK, ChainInv, starts' = starts, open' \subseteq open, alive' => alive,
           \A x \in Acceptors : /\ Chains(x)' \in Nat
                                /\ Chains(x)' <= Chains(x)
                                /\ x \in open' => Chains(x)' = Chains(x)
    PROVE  ChainInv'
  <1>1. \A x \in Acceptors : Chains(x) \in Nat
    BY ChainsAreCounted DEF TypeOK
  <1>2. ChainsBounded'
    <2> SUFFICES ASSUME NEW x \in Acceptors
                 PROVE  Chains(x)' <= starts'
      BY DEF ChainsBounded
    <2>1. Chains(x) <= starts /\ Chains(x)' <= Chains(x) /\ Chains(x) \in Nat /\ Chains(x)' \in Nat
      BY <1>1 DEF ChainInv, ChainsBounded
    <2>2. starts \in Nat
      BY ServerAssumption DEF TypeOK, ServerAssumption
    <2> QED
      BY <2>1, <2>2
  <1>3. NeverDeaf'
    <2> SUFFICES ASSUME alive', NEW x \in open'
                 PROVE  Chains(x)' > 0
      BY DEF NeverDeaf
    <2>1. x \in Acceptors /\ x \in open /\ alive
      BY DEF TypeOK
    <2>2. Chains(x) > 0 /\ Chains(x)' = Chains(x)
      BY <2>1 DEF ChainInv, NeverDeaf
    <2> QED
      BY <2>2
  <1> QED
    BY <1>2, <1>3 DEF ChainInv

(* Nothing is accepted and nobody dials before the server is started          *)
(* (server.cpp:8-19).                                                          *)
THEOREM InitIInv == Init => IInv
  <1> SUFFICES ASSUME Init PROVE IInv
    OBVIOUS
  <1>1. \A c \in Conns : stage[c] = "none" /\ ~Bound(c)
    BY DEF Init, Bound, InHeaderRead
  <1>2. TypeInv
    <2>1. TypeOK
      <3>1. 0 \in 0 .. MaxStarts /\ 0 \in 0 .. MaxAcceptErrors /\ 0 \in Nat
        BY ServerAssumption DEF ServerAssumption
      <3>2. "none" \in Stages
        BY DEF Stages
      <3> QED
        BY <3>1, <3>2 DEF Init, TypeOK
    <2>2. ViaIsKnown
      BY <1>1 DEF ViaIsKnown
    <2> QED
      BY <2>1, <2>2 DEF TypeInv
  <1>3. ChainInv
    <2>1. \A x \in Acceptors : BoundTo(x) = {}
      BY <1>1 DEF BoundTo
    <2>2. \A x \in Acceptors : Chains(x) = 0
      <3> SUFFICES ASSUME NEW x \in Acceptors PROVE Chains(x) = 0
        OBVIOUS
      <3>1. Chains(x) = accepts[x] + failedAccepts[x] + Cardinality({})
        BY <2>1, ChainsAreCounted
      <3>2. accepts[x] = 0 /\ failedAccepts[x] = 0 /\ Cardinality({}) = 0
        BY FS_EmptySet DEF Init
      <3> QED
        BY <3>1, <3>2
    <2>3. starts = 0 /\ open = {}
      BY DEF Init
    <2> QED
      BY <2>2, <2>3 DEF ChainInv, ChainsBounded, NeverDeaf
  <1>4. BufferInv
    BY <1>1 DEF Init, BufferInv, ReaderIsAlone, Bound, UndisturbedIsOwn
  <1> QED
    BY <1>2, <1>3, <1>4 DEF IInv

(* A connection's handler that neither binds nor frees one.                   *)
LEMMA BondsKept ==
    ASSUME IInv, alive' => alive, UNCHANGED <<accepts, failedAccepts, open, starts>>,
           \A c \in Conns : Bound(c)' <=> Bound(c),
           \A c \in Conns : Bound(c) => via'[c] = via[c]
    PROVE  ChainInv'
  <1>1. \A x \in Acceptors : /\ Chains(x)' \in Nat
                             /\ Chains(x)' <= Chains(x)
                             /\ Chains(x)' = Chains(x)
    <2> SUFFICES ASSUME NEW x \in Acceptors
                 PROVE  Chains(x)' = Chains(x) /\ Chains(x) \in Nat
      BY SMT
    <2>1. BoundTo(x)' = BoundTo(x)
      BY DEF BoundTo
    <2>2. Chains(x)' = accepts'[x] + failedAccepts'[x] + Cardinality(BoundTo(x)')
      BY ChainsAreCounted DEF Chains, BoundTo, Bound
    <2>3. Chains(x) \in Nat
      BY ChainsAreCounted DEF IInv, TypeInv, TypeOK
    <2> QED
      BY <2>1, <2>2, <2>3, ChainsAreCounted
  <1> QED
    BY <1>1, ChainsKept DEF IInv, TypeInv

(* A handler that ends the header read of c passes its chain on.              *)
LEMMA ChainPassedOn ==
    ASSUME IInv, NEW c \in Conns, Bound(c), Leave(c), StartTcpAccept(via[c]),
           ~Bound(c)', \A d \in Conns \ {c} : stage'[d] = stage[d],
           UNCHANGED <<alive, open, failedAccepts, starts>>
    PROVE  ChainInv'
  <1>1. \A d \in Conns \ {c} : (Bound(d)' <=> Bound(d)) /\ via'[d] = via[d]
    BY DEF Bound, InHeaderRead, Leave, IInv, TypeInv, TypeOK
  <1>2. \A x : /\ Cardinality(BoundTo(x)') =
                     Cardinality(BoundTo(x)) - (IF x = via[c] THEN 1 ELSE 0)
               /\ x = via[c] => Cardinality(BoundTo(x)) > 0
    BY <1>1, OneLess DEF Leave
  <1>3. \A x \in Acceptors :
            accepts'[x] = accepts[x] + (IF x = via[c] /\ x \in open THEN 1 ELSE 0)
    BY DEF StartTcpAccept, IInv, TypeInv, TypeOK
  <1>4. ASSUME NEW x \in Acceptors
        PROVE  /\ Chains(x)' \in Nat
               /\ Chains(x)' <= Chains(x)
               /\ x \in open' => Chains(x)' = Chains(x)
    <2>1. Chains(x)' = accepts'[x] + failedAccepts'[x] + Cardinality(BoundTo(x)')
      BY ChainsAreCounted DEF Chains, BoundTo, Bound
    <2>2. Chains(x) = accepts[x] + failedAccepts[x] + Cardinality(BoundTo(x))
      BY ChainsAreCounted
    <2>3. accepts[x] \in Nat /\ failedAccepts[x] \in Nat /\ Cardinality(BoundTo(x)) \in Nat
      BY ChainsAreCounted DEF IInv, TypeInv, TypeOK
    <2>4. failedAccepts'[x] = failedAccepts[x] /\ open' = open
      OBVIOUS
    <2>5. CASE x = via[c]
      <3>1. /\ Cardinality(BoundTo(x)') = Cardinality(BoundTo(x)) - 1
            /\ Cardinality(BoundTo(x)) > 0
        BY <1>2, <2>5
      <3>2. CASE x \in open
        <4>1. accepts'[x] = accepts[x] + 1
          BY <1>3, <2>5, <3>2
        <4> QED
          BY <2>1, <2>2, <2>3, <2>4, <3>1, <4>1
      <3>3. CASE x \notin open
        <4>1. accepts'[x] = accepts[x] + 0
          BY <1>3, <2>5, <3>3
        <4> QED
          BY <2>1, <2>2, <2>3, <2>4, <3>1, <3>3, <4>1
      <3> QED
        BY <3>2, <3>3
    <2>6. CASE x # via[c]
      <3>1. Cardinality(BoundTo(x)') = Cardinality(BoundTo(x)) - 0 /\ accepts'[x] = accepts[x] + 0
        BY <1>2, <1>3, <2>6
      <3> QED
        BY <2>1, <2>2, <2>3, <2>4, <3>1
    <2> QED
      BY <2>5, <2>6
  <1> QED
    BY <1>4, ChainsKept DEF IInv, TypeInv

(* stop() and ~Server end the chains that wait in an accept.                  *)
LEMMA ClosePreserves ==
    ASSUME IInv, CloseAcceptors, alive' \in BOOLEAN, alive' => alive,
           UNCHANGED <<failedAccepts, header, bounds>>
    PROVE  IInv'
  <1>1. \A c \in Conns : /\ stage'[c] = IF stage[c] = "backlog" THEN "gone" ELSE stage[c]
                         /\ via'[c] = IF stage[c] = "backlog" THEN None ELSE via[c]
    BY DEF CloseAcceptors
  <1>2. \A c \in Conns : /\ Bound(c)' <=> Bound(c)
                         /\ Bound(c) => via'[c] = via[c]
                         /\ InHeaderRead(c)' <=> InHeaderRead(c)
                         /\ stage'[c] # "backlog"
    BY <1>1 DEF Bound, InHeaderRead
  <1>3. TypeInv'
    <2>1. "gone" \in Stages
      BY DEF Stages
    <2>2. TypeOK'
      BY <2>1 DEF CloseAcceptors, header, bounds, IInv, TypeInv, TypeOK
    <2>3. ViaIsKnown'
      BY <1>2 DEF IInv, TypeInv, ViaIsKnown
    <2> QED
      BY <2>2, <2>3 DEF TypeInv
  <1>4. ChainInv'
    <2>1. ASSUME NEW x \in Acceptors
          PROVE  Chains(x)' \in Nat /\ Chains(x)' <= Chains(x)
      <3>1. BoundTo(x)' = BoundTo(x)
        BY <1>2 DEF BoundTo
      <3>2. Chains(x)' = accepts'[x] + failedAccepts'[x] + Cardinality(BoundTo(x)')
        BY ChainsAreCounted DEF Chains, BoundTo, Bound
      <3>3. Chains(x) = accepts[x] + failedAccepts[x] + Cardinality(BoundTo(x))
        BY ChainsAreCounted
      <3>4. accepts[x] \in Nat /\ failedAccepts[x] \in Nat /\ Cardinality(BoundTo(x)) \in Nat
        BY ChainsAreCounted DEF IInv, TypeInv, TypeOK
      <3>5. failedAccepts'[x] = failedAccepts[x] /\ accepts'[x] \in {0, accepts[x]}
        BY DEF CloseAcceptors
      <3> QED
        BY <3>1, <3>2, <3>3, <3>4, <3>5
    <2>2. open' = {}
      BY DEF CloseAcceptors
    <2>3. starts' = starts
      BY DEF bounds
    <2> QED
      BY <2>1, <2>2, <2>3, ChainsKept DEF IInv, TypeInv
  <1>5. BufferInv'
    <2>1. \A c \in Conns : /\ stage'[c] = "reading" => stage[c] = "reading"
                           /\ stage'[c] = "read" => stage[c] = "read"
                           /\ stage'[c] \in {"upgrading", "session"} => stage[c] \in {"upgrading", "session"}
      BY <1>1
    <2>2. ReaderIsAlone'
      BY <1>2, <2>1 DEF header, IInv, BufferInv, ReaderIsAlone
    <2>3. UndisturbedIsOwn'
      BY <2>1 DEF header, IInv, BufferInv, UndisturbedIsOwn
    <2> QED
      BY <2>2, <2>3 DEF BufferInv
  <1> QED
    BY <1>3, <1>4, <1>5 DEF IInv

(* Only connection c has moved.                                               *)
LEMMA OneMoved ==
    ASSUME TypeOK, NEW c \in Conns, NEW place \in Stages, MoveTo(c, place)
    PROVE  /\ stage'[c] = place
           /\ \A d \in Conns \ {c} : stage'[d] = stage[d]
           /\ stage' \in [Conns -> Stages]
  BY DEF TypeOK, MoveTo

LEMMA StageNames ==
    /\ "backlog" \in Stages /\ "accepted" \in Stages /\ "reading" \in Stages /\ "read" \in Stages
    /\ "partRead" \in Stages /\ "upgrading" \in Stages /\ "session" \in Stages /\ "gone" \in Stages
  BY DEF Stages

LEMMA StartPreserves ==
    ASSUME IInv, NEW ok \in SUBSET Acceptors, StartServer(ok)
    PROVE  IInv'
  <1>1. /\ starts' = starts + 1 /\ starts \in Nat /\ starts' \in 0 .. MaxStarts
        /\ open' = open \cup ok
        /\ alive
    BY ServerAssumption DEF ServerAssumption, StartServer, IInv, TypeInv, TypeOK
  <1>2. \A x \in Acceptors : accepts'[x] = IF x \in ok THEN accepts[x] + 1 ELSE accepts[x]
    BY DEF StartServer
  <1>3. TypeInv'
    <2>1. accepts' \in [Acceptors -> Nat]
      BY DEF StartServer, IInv, TypeInv, TypeOK
    <2>2. TypeOK'
      BY <1>1, <2>1 DEF StartServer, connections, header, IInv, TypeInv, TypeOK
    <2>3. ViaIsKnown'
      BY DEF StartServer, connections, IInv, TypeInv, ViaIsKnown, Bound, InHeaderRead
    <2> QED
      BY <2>2, <2>3 DEF TypeInv
  <1>4. ChainInv'
    <2>1. ASSUME NEW x \in Acceptors
          PROVE  /\ Chains(x) \in Nat
                 /\ Chains(x)' = Chains(x) + (IF x \in ok THEN 1 ELSE 0)
      <3>1. BoundTo(x)' = BoundTo(x)
        BY DEF BoundTo, Bound, InHeaderRead, StartServer, connections
      <3>2. Chains(x)' = accepts'[x] + failedAccepts'[x] + Cardinality(BoundTo(x)')
        BY ChainsAreCounted DEF Chains, BoundTo, Bound
      <3>3. Chains(x) = accepts[x] + failedAccepts[x] + Cardinality(BoundTo(x))
        BY ChainsAreCounted
      <3>4. accepts[x] \in Nat /\ failedAccepts[x] \in Nat /\ Cardinality(BoundTo(x)) \in Nat
        BY ChainsAreCounted DEF IInv, TypeInv, TypeOK
      <3>5. failedAccepts'[x] = failedAccepts[x]
        BY DEF StartServer
      <3>6. CASE x \in ok
        BY <1>2, <3>1, <3>2, <3>3, <3>4, <3>5, <3>6
      <3>7. CASE x \notin ok
        BY <1>2, <3>1, <3>2, <3>3, <3>4, <3>5, <3>7
      <3> QED
        BY <3>6, <3>7
    <2>2. ChainsBounded'
      <3> SUFFICES ASSUME NEW x \in Acceptors PROVE Chains(x)' <= starts'
        BY DEF ChainsBounded
      <3>1. Chains(x) <= starts
        BY DEF IInv, ChainInv, ChainsBounded
      <3> QED
        BY <1>1, <2>1, <3>1
    <2>3. NeverDeaf'
      <3> SUFFICES ASSUME NEW x \in open' PROVE Chains(x)' > 0
        BY DEF NeverDeaf
      <3>1. x \in Acceptors
        BY <1>1 DEF IInv, TypeInv, TypeOK
      <3>2. CASE x \in ok
        BY <2>1, <3>1, <3>2
      <3>3. CASE x \notin ok
        <4>1. Chains(x) > 0
          BY <1>1, <3>3 DEF IInv, ChainInv, NeverDeaf
        <4> QED
          BY <2>1, <3>1, <3>3, <4>1
      <3> QED
        BY <3>2, <3>3
    <2> QED
      BY <2>2, <2>3 DEF ChainInv
  <1>5. BufferInv'
    BY DEF StartServer, connections, header, IInv, BufferInv, ReaderIsAlone, UndisturbedIsOwn, InHeaderRead
  <1> QED
    BY <1>3, <1>4, <1>5 DEF IInv

LEMMA AcceptPreserves ==
    ASSUME IInv, NEW c \in Conns, AcceptCompletes(c)
    PROVE  IInv'
  <1>1. /\ stage[c] = "backlog" /\ stage'[c] = "accepted"
        /\ \A d \in Conns \ {c} : stage'[d] = stage[d]
        /\ stage' \in [Conns -> Stages]
    BY OneMoved, StageNames DEF AcceptCompletes, IInv, TypeInv
  <1>2. via[c] \in Acceptors /\ via' = via
    BY <1>1 DEF AcceptCompletes, IInv, TypeInv, ViaIsKnown
  <1>3. ~Bound(c) /\ Bound(c)' /\ \A d \in Conns \ {c} : Bound(d)' <=> Bound(d)
    BY <1>1 DEF Bound, InHeaderRead
  <1>4. \A x \in Acceptors : accepts'[x] = accepts[x] - (IF x = via[c] THEN 1 ELSE 0)
    BY DEF AcceptCompletes, IInv, TypeInv, TypeOK
  <1>5. accepts[via[c]] > 0
    BY DEF AcceptCompletes, AcceptMayEnd
  <1>6. TypeInv'
    <2>1. accepts' \in [Acceptors -> Nat]
      BY <1>2, <1>5 DEF AcceptCompletes, IInv, TypeInv, TypeOK
    <2>2. TypeOK'
      BY <1>1, <2>1 DEF AcceptCompletes, header, bounds, IInv, TypeInv, TypeOK
    <2>3. ViaIsKnown'
      BY <1>1, <1>2, <1>3 DEF IInv, TypeInv, ViaIsKnown
    <2> QED
      BY <2>2, <2>3 DEF TypeInv
  <1>7. ChainInv'
    <2>1. ASSUME NEW x \in Acceptors
          PROVE  Chains(x)' = Chains(x) /\ Chains(x) \in Nat
      <3>1. Cardinality(BoundTo(x)') = Cardinality(BoundTo(x)) + (IF x = via[c] THEN 1 ELSE 0)
        BY <1>2, <1>3, OneMore
      <3>2. Chains(x)' = accepts'[x] + failedAccepts'[x] + Cardinality(BoundTo(x)')
        BY ChainsAreCounted DEF Chains, BoundTo, Bound
      <3>3. Chains(x) = accepts[x] + failedAccepts[x] + Cardinality(BoundTo(x))
        BY ChainsAreCounted
      <3>4. accepts[x] \in Nat /\ failedAccepts[x] \in Nat /\ Cardinality(BoundTo(x)) \in Nat
        BY ChainsAreCounted DEF IInv, TypeInv, TypeOK
      <3>5. failedAccepts'[x] = failedAccepts[x]
        BY DEF AcceptCompletes
      <3>6. CASE x = via[c]
        BY <1>4, <1>5, <3>1, <3>2, <3>3, <3>4, <3>5, <3>6
      <3>7. CASE x # via[c]
        BY <1>4, <3>1, <3>2, <3>3, <3>4, <3>5, <3>7
      <3> QED
        BY <3>6, <3>7
    <2>2. UNCHANGED <<open, starts, alive>>
      BY DEF AcceptCompletes, bounds
    <2>3. \A x \in Acceptors : Chains(x)' \in Nat /\ Chains(x)' <= Chains(x)
      BY <2>1
    <2> QED
      BY <2>1, <2>2, <2>3, ChainsKept DEF IInv, TypeInv
  <1>8. BufferInv'
    <2>1. \A d \in Conns : /\ InHeaderRead(d)' <=> InHeaderRead(d)
                           /\ InHeaderRead(d) => stage'[d] = stage[d]
                           /\ stage'[d] \in {"upgrading", "session"} => stage[d] \in {"upgrading", "session"}
      BY <1>1 DEF InHeaderRead
    <2>2. UNCHANGED header
      BY DEF AcceptCompletes
    <2>3. ReaderIsAlone'
      BY <2>1, <2>2 DEF header, InHeaderRead, IInv, BufferInv, ReaderIsAlone
    <2>4. UndisturbedIsOwn'
      BY <2>1, <2>2 DEF header, IInv, BufferInv, UndisturbedIsOwn
    <2> QED
      BY <2>3, <2>4 DEF BufferInv
  <1> QED
    BY <1>6, <1>7, <1>8 DEF IInv

LEMMA AcceptErrorsPreserve ==
    ASSUME IInv, NEW x \in Acceptors, AcceptFails(x) \/ OnAcceptError(x)
    PROVE  IInv'
  <1>1. UNCHANGED <<alive, open, stage, via, acceptBuffer, request, disturbed, starts>>
    BY DEF AcceptFails, OnAcceptError, connections, header, bounds
  <1>2. \/ /\ accepts[x] > 0
           /\ accepts' = [accepts EXCEPT ![x] = @ - 1]
           /\ failedAccepts' = [failedAccepts EXCEPT ![x] = @ + 1]
        \/ /\ failedAccepts[x] > 0
           /\ accepts' = IF x \in open THEN [accepts EXCEPT ![x] = @ + 1] ELSE accepts
           /\ failedAccepts' = [failedAccepts EXCEPT ![x] = @ - 1]
    BY DEF AcceptFails, OnAcceptError, AcceptMayEnd, StartTcpAccept
  <1>3. accepts \in [Acceptors -> Nat] /\ failedAccepts \in [Acceptors -> Nat]
    BY DEF IInv, TypeInv, TypeOK
  <1>4. ASSUME NEW y \in Acceptors
        PROVE  /\ accepts'[y] \in Nat /\ failedAccepts'[y] \in Nat
               /\ accepts'[y] + failedAccepts'[y] <= accepts[y] + failedAccepts[y]
               /\ y \in open => accepts'[y] + failedAccepts'[y] = accepts[y] + failedAccepts[y]
    <2>1. accepts[y] \in Nat /\ failedAccepts[y] \in Nat
      BY <1>3
    <2>2. CASE y # x
      BY <1>2, <1>3, <2>1, <2>2
    <2>3. CASE y = x
      <3>1. \/ /\ accepts[y] > 0
               /\ accepts'[y] = accepts[y] - 1
               /\ failedAccepts'[y] = failedAccepts[y] + 1
            \/ /\ failedAccepts[y] > 0
               /\ IF y \in open THEN accepts'[y] = accepts[y] + 1 ELSE accepts'[y] = accepts[y]
               /\ failedAccepts'[y] = failedAccepts[y] - 1
        BY <1>2, <1>3, <2>3
      <3> QED
        BY <2>1, <3>1
    <2> QED
      BY <2>2, <2>3
  <1>5. TypeInv'
    <2>1. accepts' \in [Acceptors -> Nat] /\ failedAccepts' \in [Acceptors -> Nat]
      <3>1. \E f, g : accepts' = [y \in Acceptors |-> f[y]] /\ failedAccepts' = [y \in Acceptors |-> g[y]]
        BY <1>2, <1>3
      <3> QED
        BY <1>4, <3>1
    <2>2. acceptErrors' \in 0 .. MaxAcceptErrors
      BY ServerAssumption DEF ServerAssumption, AcceptFails, OnAcceptError, bounds, IInv, TypeInv, TypeOK
    <2>3. TypeOK'
      BY <1>1, <2>1, <2>2 DEF IInv, TypeInv, TypeOK
    <2>4. ViaIsKnown'
      BY <1>1 DEF IInv, TypeInv, ViaIsKnown, Bound, InHeaderRead
    <2> QED
      BY <2>3, <2>4 DEF TypeInv
  <1>6. ChainInv'
    <2>1. ASSUME NEW y \in Acceptors
          PROVE  /\ Chains(y)' \in Nat
                 /\ Chains(y)' <= Chains(y)
                 /\ y \in open' => Chains(y)' = Chains(y)
      <3>1. BoundTo(y)' = BoundTo(y)
        BY <1>1 DEF BoundTo, Bound, InHeaderRead
      <3>2. Chains(y)' = accepts'[y] + failedAccepts'[y] + Cardinality(BoundTo(y)')
        BY ChainsAreCounted DEF Chains, BoundTo, Bound
      <3>3. Chains(y) = accepts[y] + failedAccepts[y] + Cardinality(BoundTo(y))
        BY ChainsAreCounted
      <3>4. accepts[y] \in Nat /\ failedAccepts[y] \in Nat /\ Cardinality(BoundTo(y)) \in Nat
        BY <1>3, ChainsAreCounted
      <3> QED
        BY <1>1, <1>4, <3>1, <3>2, <3>3, <3>4
    <2> QED
      BY <1>1, <2>1, ChainsKept DEF IInv, TypeInv
  <1>7. BufferInv'
    BY <1>1 DEF IInv, BufferInv, ReaderIsAlone, UndisturbedIsOwn, InHeaderRead
  <1> QED
    BY <1>5, <1>6, <1>7 DEF IInv

(* A client that dials, and the upgrade of one that was let in.               *)
LEMMA ArrivalsPreserve ==
    ASSUME IInv, NEW c \in Conns,
           \/ \E x \in Acceptors : Dial(c, x)
           \/ \E place \in Stages : OnUpgradeConnection(c, place)
    PROVE  IInv'
  <1>1. PICK place \in {"backlog", "session", "gone"} :
            /\ MoveTo(c, place)
            /\ place = "backlog" => stage[c] = "none" /\ \E x \in Acceptors : via' = [via EXCEPT ![c] = x]
            /\ place # "backlog" => stage[c] = "upgrading" /\ via' = via
    BY DEF Dial, OnUpgradeConnection
  <1>2. /\ stage'[c] = place
        /\ \A d \in Conns \ {c} : stage'[d] = stage[d]
        /\ stage' \in [Conns -> Stages]
    BY <1>1, OneMoved, StageNames DEF IInv, TypeInv
  <1>3. UNCHANGED <<alive, open, accepts, failedAccepts, acceptBuffer, request, disturbed, starts, acceptErrors>>
    BY DEF Dial, OnUpgradeConnection, acceptors, header, bounds
  <1>4. /\ via' \in [Conns -> Acceptors \cup {None}]
        /\ \A d \in Conns \ {c} : via'[d] = via[d]
        /\ place = "backlog" => via'[c] \in Acceptors
    BY <1>1 DEF IInv, TypeInv, TypeOK
  <1>5. /\ ~Bound(c) /\ ~Bound(c)' /\ ~InHeaderRead(c)'
        /\ \A d \in Conns \ {c} : (Bound(d)' <=> Bound(d)) /\ (InHeaderRead(d)' <=> InHeaderRead(d))
    BY <1>1, <1>2 DEF Bound, InHeaderRead
  <1>6. TypeInv'
    <2>1. TypeOK'
      BY <1>2, <1>3, <1>4 DEF IInv, TypeInv, TypeOK
    <2>2. ViaIsKnown'
      BY <1>2, <1>4, <1>5 DEF IInv, TypeInv, ViaIsKnown
    <2> QED
      BY <2>1, <2>2 DEF TypeInv
  <1>7. ChainInv'
    BY <1>3, <1>4, <1>5, BondsKept
  <1>8. BufferInv'
    <2>1. ReaderIsAlone'
      BY <1>1, <1>2, <1>3, <1>5 DEF InHeaderRead, IInv, BufferInv, ReaderIsAlone
    <2>2. UndisturbedIsOwn'
      BY <1>1, <1>2, <1>3 DEF IInv, BufferInv, UndisturbedIsOwn
    <2> QED
      BY <2>1, <2>2 DEF BufferInv
  <1> QED
    BY <1>6, <1>7, <1>8 DEF IInv

(* The header read of c begins and receives.                                  *)
LEMMA ReadingPreserves ==
    ASSUME IInv, NEW c \in Conns, OnAcceptTcpConnection(c) \/ Receive(c) \/ ReceivePart(c)
    PROVE  IInv'
  <1>1. PICK place \in {"reading", "read", "partRead"} :
            /\ MoveTo(c, place)
            /\ IF place = "reading"
               THEN /\ stage[c] = "accepted"
                    /\ disturbed' = (disturbed \/ acceptBuffer # Empty \/ \E d \in Conns : InHeaderRead(d))
                    /\ acceptBuffer' = acceptBuffer
               ELSE stage[c] = "reading" /\ disturbed' = disturbed
            /\ place = "read" => acceptBuffer' \in IF acceptBuffer = Empty THEN {c} ELSE {c, Garbled}
            /\ place = "partRead" => acceptBuffer' \in {acceptBuffer, Garbled}
    BY DEF OnAcceptTcpConnection, Receive, ReceivePart
  <1>2. /\ stage'[c] = place
        /\ \A d \in Conns \ {c} : stage'[d] = stage[d]
        /\ stage' \in [Conns -> Stages]
    BY <1>1, OneMoved, StageNames DEF IInv, TypeInv
  <1>3. UNCHANGED <<alive, open, accepts, failedAccepts, via, request, starts, acceptErrors>>
    BY DEF OnAcceptTcpConnection, Receive, ReceivePart, acceptors, bounds
  <1>4. /\ Bound(c) /\ Bound(c)' /\ InHeaderRead(c)'
        /\ \A d \in Conns \ {c} : (Bound(d)' <=> Bound(d)) /\ (InHeaderRead(d)' <=> InHeaderRead(d))
    BY <1>1, <1>2 DEF Bound, InHeaderRead
  <1>5. TypeInv'
    <2>1. disturbed' \in BOOLEAN
      BY <1>1 DEF IInv, TypeInv, TypeOK
    <2>2. acceptBuffer' \in Conns \cup {Empty, Garbled}
      BY <1>1 DEF IInv, TypeInv, TypeOK
    <2>3. TypeOK'
      BY <1>2, <1>3, <2>1, <2>2 DEF IInv, TypeInv, TypeOK
    <2>4. ViaIsKnown'
      BY <1>2, <1>3, <1>4 DEF IInv, TypeInv, ViaIsKnown
    <2> QED
      BY <2>3, <2>4 DEF TypeInv
  <1>6. ChainInv'
    BY <1>3, <1>4, BondsKept
  <1>7. ReaderIsAlone'
    <2> SUFFICES ASSUME ~disturbed'
                 PROVE  /\ \A d, e \in Conns : InHeaderRead(d)' /\ InHeaderRead(e)' => d = e
                        /\ \A d \in Conns : stage'[d] = "reading" => acceptBuffer' = Empty
                        /\ \A d \in Conns : stage'[d] = "read" => acceptBuffer' = d
      BY DEF ReaderIsAlone, InHeaderRead
    <2>1. ~disturbed
      BY <1>1 DEF IInv, TypeInv, TypeOK
    <2>2. \A d \in Conns \ {c} : ~InHeaderRead(d)
      <3>1. CASE place = "reading"
        BY <1>1, <3>1
      <3>2. CASE place # "reading"
        <4>1. InHeaderRead(c)
          BY <1>1, <3>2 DEF InHeaderRead
        <4> QED
          BY <2>1, <4>1 DEF IInv, BufferInv, ReaderIsAlone
      <3> QED
        BY <3>1, <3>2
    <2>3. \A d \in Conns \ {c} : ~InHeaderRead(d)' /\ stage'[d] # "reading" /\ stage'[d] # "read"
      BY <1>2, <1>4, <2>2 DEF InHeaderRead
    <2>4. place = "reading" => acceptBuffer' = Empty
      BY <1>1
    <2>5. place = "read" => acceptBuffer' = c
      BY <1>1, <2>1 DEF IInv, BufferInv, ReaderIsAlone
    <2> QED
      BY <1>2, <2>3, <2>4, <2>5
  <1>8. UndisturbedIsOwn'
    <2>1. ~disturbed' => ~disturbed
      BY <1>1 DEF IInv, TypeInv, TypeOK
    <2> QED
      BY <1>1, <1>2, <1>3, <2>1 DEF IInv, BufferInv, UndisturbedIsOwn
  <1> QED
    BY <1>5, <1>6, <1>7, <1>8 DEF IInv, BufferInv

(* The header read of c ends, well or not, and c is upgraded or gone.         *)
LEMMA ReadEnds ==
    ASSUME IInv, NEW c \in Conns, NEW place \in {"upgrading", "gone"},
           MoveTo(c, place), stage[c] \in {"read", "partRead"},
           acceptBuffer' \in Conns \cup {Empty, Garbled},
           request' \in [Conns -> Conns \cup {Garbled, None}],
           StartTcpAccept(via[c]), Leave(c), UndisturbedIsOwn',
           UNCHANGED <<alive, open, failedAccepts, starts, acceptErrors, disturbed>>
    PROVE  IInv'
  <1>1. /\ stage'[c] = place
        /\ \A d \in Conns \ {c} : stage'[d] = stage[d]
        /\ stage' \in [Conns -> Stages]
    BY OneMoved, StageNames DEF IInv, TypeInv
  <1>2. /\ InHeaderRead(c) /\ Bound(c) /\ ~Bound(c)' /\ stage'[c] \notin {"backlog", "reading", "read"}
        /\ ~InHeaderRead(c)'
        /\ \A d \in Conns \ {c} : (Bound(d)' <=> Bound(d)) /\ (InHeaderRead(d)' <=> InHeaderRead(d))
    BY <1>1 DEF Bound, InHeaderRead
  <1>3. via[c] \in Acceptors
    BY <1>2 DEF IInv, TypeInv, ViaIsKnown
  <1>4. TypeInv'
    <2>1. accepts' \in [Acceptors -> Nat]
      BY <1>3 DEF StartTcpAccept, IInv, TypeInv, TypeOK
    <2>2. /\ via' \in [Conns -> Acceptors \cup {None}]
          /\ \A d \in Conns \ {c} : via'[d] = via[d]
      BY DEF Leave, IInv, TypeInv, TypeOK
    <2>3. TypeOK'
      BY <1>1, <2>1, <2>2 DEF IInv, TypeInv, TypeOK
    <2>4. ViaIsKnown'
      BY <1>1, <1>2, <2>2 DEF IInv, TypeInv, ViaIsKnown
    <2> QED
      BY <2>3, <2>4 DEF TypeInv
  <1>5. ChainInv'
    BY <1>1, <1>2, ChainPassedOn
  <1>6. ReaderIsAlone'
    <2> SUFFICES ASSUME ~disturbed, NEW d \in Conns
                 PROVE  ~InHeaderRead(d)'
      BY DEF ReaderIsAlone, InHeaderRead
    <2>1. d # c => ~InHeaderRead(d)
      BY <1>2 DEF IInv, BufferInv, ReaderIsAlone
    <2> QED
      BY <1>2, <2>1
  <1> QED
    BY <1>4, <1>5, <1>6 DEF IInv, BufferInv

LEMMA RequestPreserves ==
    ASSUME IInv, NEW c \in Conns, NEW r \in Conns \cup {Garbled}, OnReadAcceptRequest(c, r)
    PROVE  IInv'
  <1>1. /\ stage[c] = "read"
        /\ \/ r = acceptBuffer /\ r \in Conns
           \/ r = Garbled /\ acceptBuffer \in {Empty, Garbled}
        /\ request' = [request EXCEPT ![c] = r]
        /\ acceptBuffer' = Empty
        /\ StartTcpAccept(via[c])
        /\ Leave(c)
        /\ UNCHANGED <<alive, open, failedAccepts, starts, acceptErrors, disturbed>>
    BY DEF OnReadAcceptRequest, bounds
  <1>2. PICK place \in {"upgrading", "gone"} :
            MoveTo(c, place) /\ (place = "upgrading" => r \in Trusted \cup {Garbled})
    BY DEF OnReadAcceptRequest, Authenticate, AsyncAccept
  <1>3. request' \in [Conns -> Conns \cup {Garbled, None}]
    BY <1>1 DEF IInv, TypeInv, TypeOK
  <1>4. UndisturbedIsOwn'
    <2> SUFFICES ASSUME ~disturbed, NEW d \in Conns
                 PROVE  /\ request'[d] \in {None, d}
                        /\ stage'[d] \in {"upgrading", "session"} => d \in Trusted
      BY <1>1 DEF UndisturbedIsOwn
    <2>1. CASE d = c
      <3>1. acceptBuffer = c
        BY <1>1 DEF IInv, BufferInv, ReaderIsAlone
      <3>2. c # Garbled /\ c # Empty
        BY ServerAssumption DEF ServerAssumption
      <3>3. r = c
        BY <1>1, <3>1, <3>2
      <3>4. request'[d] = c /\ stage'[d] = place
        BY <1>1, <1>2, <2>1, <3>3 DEF MoveTo, IInv, TypeInv, TypeOK
      <3> QED
        BY <1>2, <2>1, <3>2, <3>3, <3>4
    <2>2. CASE d # c
      <3>1. request'[d] = request[d] /\ stage'[d] = stage[d]
        BY <1>1, <1>2, <2>2 DEF MoveTo, IInv, TypeInv, TypeOK
      <3> QED
        BY <3>1 DEF IInv, BufferInv, UndisturbedIsOwn
    <2> QED
      BY <2>1, <2>2
  <1> QED
    BY <1>1, <1>2, <1>3, <1>4, ReadEnds

LEMMA RequestErrorPreserves ==
    ASSUME IInv, NEW c \in Conns, OnReadAcceptError(c)
    PROVE  IInv'
  <1>1. /\ stage[c] \in {"read", "partRead"}
        /\ acceptBuffer' \in {acceptBuffer, Empty, Garbled}
        /\ MoveTo(c, "gone")
        /\ StartTcpAccept(via[c])
        /\ Leave(c)
        /\ UNCHANGED <<alive, open, failedAccepts, request, starts, acceptErrors, disturbed>>
    BY DEF OnReadAcceptError, bounds
  <1>2. /\ request' \in [Conns -> Conns \cup {Garbled, None}]
        /\ acceptBuffer' \in Conns \cup {Empty, Garbled}
    BY <1>1 DEF IInv, TypeInv, TypeOK
  <1>3. UndisturbedIsOwn'
    <2>1. \A d \in Conns : stage'[d] \in {"upgrading", "session"} => stage[d] \in {"upgrading", "session"}
      BY <1>1 DEF MoveTo, IInv, TypeInv, TypeOK
    <2> QED
      BY <1>1, <2>1 DEF IInv, BufferInv, UndisturbedIsOwn
  <1> QED
    BY <1>1, <1>2, <1>3, ReadEnds

(* No step of the application, the network or a handler breaks the invariant  *)
(* (server.cpp:21-230).                                                       *)
THEOREM IInvPreserved == IInv /\ [Next]_vars => IInv'
  <1> SUFFICES ASSUME IInv, [Next]_vars PROVE IInv'
    OBVIOUS
  <1>1. ASSUME Stop \/ Destroy PROVE IInv'
    <2>1. /\ CloseAcceptors
          /\ alive' \in BOOLEAN
          /\ alive' => alive
          /\ UNCHANGED <<failedAccepts, header, bounds>>
      BY <1>1 DEF Stop, Destroy, IInv, TypeInv, TypeOK
    <2> QED
      BY <2>1, ClosePreserves
  <1>2. ASSUME NEW c \in Conns, HandlerOf(c) PROVE IInv'
    BY <1>2, ReadingPreserves, RequestPreserves, RequestErrorPreserves, ArrivalsPreserve DEF HandlerOf
  <1>3. CASE UNCHANGED vars
    <2>1. TypeInv'
      BY <1>3 DEF vars, IInv, TypeInv, TypeOK, ViaIsKnown, Bound, InHeaderRead
    <2>2. ChainInv'
      BY <1>3, BondsKept DEF vars, Bound, InHeaderRead
    <2>3. BufferInv'
      BY <1>3 DEF vars, IInv, BufferInv, ReaderIsAlone, UndisturbedIsOwn, InHeaderRead
    <2> QED
      BY <2>1, <2>2, <2>3 DEF IInv
  <1> QED
    BY <1>1, <1>2, <1>3, StartPreserves, AcceptPreserves, AcceptErrorsPreserve, ArrivalsPreserve,
       ReadingPreserves DEF Next
-----------------------------------------------------------------------------
(* The strengthened invariant holds in every state.                           *)
LEMMA Inductive == Spec => []IInv
  BY InitIInv, IInvPreserved, PTL DEF Spec

(* Types: the accepts under way are counted down to none and no further.      *)
THEOREM TypeCorrect == Spec => []TypeOK
  <1>1. IInv => TypeOK
    BY DEF IInv, TypeInv
  <1> QED
    BY <1>1, Inductive, PTL

(* An open acceptor is never left without an accept or a handler that will    *)
(* start the next one (server.cpp:129, 150), for any number of clients,       *)
(* failures and restarts.                                                     *)
THEOREM Listening == Spec => []NeverDeaf
  <1>1. IInv => NeverDeaf
    BY DEF IInv, ChainInv
  <1> QED
    BY <1>1, Inductive, PTL

(* Only start() adds a chain of accepts (server.cpp:27-88).                   *)
THEOREM Chained == Spec => []ChainsBounded
  <1>1. IInv => ChainsBounded
    BY DEF IInv, ChainInv
  <1> QED
    BY <1>1, Inductive, PTL

(* A client is authenticated by the header it sent itself, as long as header  *)
(* reads neither overlap nor follow a failed one (server.cpp:142-181).        *)
THEOREM OwnRequest == Spec => []UndisturbedIsOwn
  <1>1. IInv => UndisturbedIsOwn
    BY DEF IInv, BufferInv
  <1> QED
    BY <1>1, Inductive, PTL
=============================================================================
