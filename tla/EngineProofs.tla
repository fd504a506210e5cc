---------------------------- MODULE EngineProofs ----------------------------
(***************************************************************************)
(* Theorems about the engine, for every set of nodes and sources and every *)
(* value of the other constants.                                           *)
(***************************************************************************)
EXTENDS Engine, WellFoundedInduction, TLAPS

\* A leaf is tried with Zenon first: most need no arithmetic.  The second round
\* is for slow machines.
USE ZenonT(5), SMTT(30), ZenonT(60), SMTT(90)

-----------------------------------------------------------------------------
(* Least and greatest elements.                                            *)

\* Every non-empty set of naturals has a least element.
LEMMA MinNat ==
    ASSUME NEW S \in SUBSET Nat, S # {}
    PROVE  Min(S) \in S /\ \A x \in S : Min(S) <= x
<1> DEFINE R == OpToRel(<, Nat)
<1>1. \A x, y \in Nat : x < y => <<x, y>> \in R
  BY DEF OpToRel
<1>2. IsWellFoundedOn(R, Nat)
  BY NatLessThanWellFounded
<1> HIDE DEF R
<1>3. PICK x \in S : \A y \in S : ~(<<y, x>> \in R)
  BY <1>2, WFMin
<1>4. \A y \in S : x <= y
  <2>1. TAKE y \in S
  <2>2. x \in Nat /\ y \in Nat
    OBVIOUS
  <2>3. ~(y < x)
    BY <1>1, <1>3, <2>2
  <2> QED
    BY <2>2, <2>3
<1> QED
  BY <1>4 DEF Min

\* Every non-empty set of numbers a node can hold has a greatest element.
LEMMA MaxOfValues ==
    ASSUME NEW S \in SUBSET (0..MaxValue), S # {}
    PROVE  Max(S) \in S /\ \A x \in S : x <= Max(S)
<1> DEFINE T == {MaxValue - x : x \in S}
<1>1. MaxValue \in Int /\ \A x \in S : x \in Int /\ x <= MaxValue
  BY EngineConstants
<1>2. T \in SUBSET Nat /\ T # {}
  <2>1. T \in SUBSET Nat
    BY <1>1
  <2>2. T # {}
    OBVIOUS
  <2> QED
    BY <2>1, <2>2
<1>3. Min(T) \in T /\ \A y \in T : Min(T) <= y
  BY <1>2, MinNat
<1>4. PICK x \in S : Min(T) = MaxValue - x
  BY <1>3
<1>5. \A y \in S : MaxValue - x <= MaxValue - y
  BY <1>1, <1>3, <1>4
<1>6. \A y \in S : x >= y
  BY <1>1, <1>5
<1> QED
  BY <1>6 DEF Max

\* A percentage of a ceiling is at most the ceiling.
LEMMA PctBounded ==
    ASSUME NEW c \in Nat, NEW p \in 0..100
    PROVE  (c * p) \div 100 \in 0..c
<1>1. c * p <= c * 100 /\ c * p >= 0 /\ c * p \in Int
  OBVIOUS
<1> QED
  BY <1>1

-----------------------------------------------------------------------------
(* Types of the operators.                                                 *)

Table == [Source -> Request \cup {NULL}]

\* What requests ask of a node is a set of tokens.
LEMMA TokensType ==
    ASSUME NEW requests \in Table, NEW n \in Node
    PROVE  Tokens(requests, n) \in SUBSET Token
<1> USE EngineConstants
<1>1. ASSUME NEW s \in Source, requests[s] # NULL
      PROVE  requests[s].values[n] \in Token \cup {NULL}
  BY <1>1 DEF Table, Request, ValueMap
<1> QED
  BY <1>1 DEF Tokens

\* A token resolves to a number in range or to nothing.
LEMMA ResolveType ==
    ASSUME NEW t \in Token, NEW c \in (0..MaxValue) \cup {NULL}
    PROVE  /\ ResolveKhz(t, c) \in (0..MaxValue) \cup {NULL}
           /\ ParseInt(t) \in (0..MaxValue) \cup {NULL}
<1> USE EngineConstants
<1> DEFINE p == IF t.arg > 100 THEN 100 ELSE t.arg
<1>1. t.arg \in 0..MaxValue /\ p \in 0..100
  BY DEF Token
<1>2. CASE c = NULL
  BY <1>1, <1>2 DEF ResolveKhz, ParseInt
<1>3. CASE c \in 0..MaxValue
  <2>1. c \in Nat /\ c <= MaxValue /\ MaxValue \in Nat
    BY <1>3
  <2>2. (c * p) \div 100 \in 0..c
    BY <1>1, <2>1, PctBounded
  <2>3. (c * p) \div 100 \in 0..MaxValue
    BY <2>1, <2>2
  <2> QED
    BY <1>1, <1>3, <2>3 DEF ResolveKhz, ParseInt
<1> QED
  BY <1>2, <1>3

\* The numbers a node's tokens resolve to are in range.
LEMMA NumbersType ==
    ASSUME NEW tokens \in SUBSET Token, NEW n \in Node,
           NEW c \in (0..MaxValue) \cup {NULL}
    PROVE  Numbers(tokens, n, c) \in SUBSET (0..MaxValue)
BY ResolveType DEF Numbers

\* The aggregate of a value node is a value.
LEMMA MaxIntType ==
    ASSUME NEW tokens \in SUBSET Token, NEW n \in Node
    PROVE  MaxInt(n, tokens) \in 0..MaxValue
<1> USE EngineConstants
<1>1. Numbers(tokens, n, NULL) \in SUBSET (0..MaxValue)
  BY NumbersType
<1>2. Numbers(tokens, n, NULL) # {} =>
          Max(Numbers(tokens, n, NULL)) \in Numbers(tokens, n, NULL)
  BY <1>1, MaxOfValues
<1> QED
  BY <1>1, <1>2 DEF MaxInt

\* A cpufreq or PPM target is a value no higher than the ceiling that was read.
LEMMA FloorTargetType ==
    ASSUME TypeOK, NEW tokens \in SUBSET Token, NEW n \in Node
    PROVE  /\ CpufreqTarget(n, tokens) \in (0..MaxValue) \cup {NULL}
           /\ PpmTarget(n, tokens) \in Value
           /\ Readable(n) => /\ CpufreqTarget(n, tokens) \in Int
                             /\ CpufreqTarget(n, tokens) <= ceil[n]
                             /\ PpmTarget(n, tokens) <= ceil[n]
<1> USE EngineConstants
<1> DEFINE c == IF Readable(n) THEN ceil[n] ELSE NULL
           A == Numbers(tokens, n, ceil[n]) \cup {MinKhz[n]}
           B == Numbers(tokens, n, c)
<1>1. ceil[n] \in 0..MaxValue /\ MinKhz[n] \in 0..MaxValue /\ MaxValue \in Nat
  BY DEF TypeOK
<1>2. Max(A) \in 0..MaxValue
  <2>1. A \in SUBSET (0..MaxValue) /\ A # {}
    BY <1>1, NumbersType
  <2> HIDE DEF A
  <2> QED
    BY <1>1, <2>1, MaxOfValues
<1>3. B # {} => Max(B) \in 0..MaxValue
  <2>1. B \in SUBSET (0..MaxValue)
    BY <1>1, NumbersType
  <2> HIDE DEF B
  <2> QED
    BY <1>1, <2>1, MaxOfValues
<1>4. /\ CpufreqTarget(n, tokens) = IF ~Readable(n) THEN NULL ELSE AtMost(Max(A), ceil[n])
      /\ PpmTarget(n, tokens) = IF B = {} THEN -1
                                ELSE IF c = NULL THEN Max(B) ELSE AtMost(Max(B), c)
  BY DEF CpufreqTarget, PpmTarget
<1> HIDE DEF A, B
<1> QED
  BY <1>1, <1>2, <1>3, <1>4 DEF AtMost, Value

\* targetLocked() returns a value or nothing.
LEMMA TargetType ==
    ASSUME TypeOK, NEW tokens \in SUBSET Token, NEW n \in Node
    PROVE  Target(n, tokens) \in Value \cup {NULL}
<1> USE EngineConstants
<1>1. MaxInt(n, tokens) \in 0..MaxValue
  BY MaxIntType
<1>2. CpufreqTarget(n, tokens) \in (0..MaxValue) \cup {NULL} /\ PpmTarget(n, tokens) \in Value
  BY FloorTargetType
<1>3. DefaultValue[n] \in 0..MaxValue /\ mNodes[n].captured \in Value \cup {NULL}
  BY DEF TypeOK, NodeState
<1>4. ReleaseTarget(n) \in Value \cup {NULL}
  BY <1>3 DEF ReleaseTarget, Value
<1>5. ValueTarget(n, tokens) \in Value \cup {NULL}
  BY <1>1, <1>4 DEF ValueTarget, Value
<1> QED
  BY <1>2, <1>5 DEF Target, Value

\* targetLocked() itself only drops `written` or moves `captured`.
LEMMA PreparedType ==
    ASSUME TypeOK, NEW tokens \in SUBSET Token, NEW n \in Node
    PROVE  /\ Prepared(n, tokens) \in NodeState
           /\ Prepared(n, tokens).written \in {mNodes[n].written, NULL}
           /\ Prepared(n, tokens).wrote = mNodes[n].wrote
           /\ Prepared(n, tokens).pulseUs = mNodes[n].pulseUs
<1>1. mNodes[n] \in NodeState /\ hw[n] \in Value
  BY DEF TypeOK
<1> QED
  BY <1>1 DEF Prepared, NodeState

\* A node state stays one.
LEMMA NodeAfterType ==
    ASSUME TypeOK, NEW tokens \in SUBSET Token, NEW n \in Node
    PROVE  NodeAfter(n, tokens) \in NodeState /\ HwAfter(n, tokens) \in Value
<1>1. Prepared(n, tokens) \in NodeState
  BY PreparedType
<1>2. Target(n, tokens) \in Value \cup {NULL} /\ hw[n] \in Value
  BY TargetType DEF TypeOK
<1> QED
  BY <1>1, <1>2 DEF NodeAfter, HwAfter, MustWrite, WriteNode, NodeState

\* What is left of a table is a table.
LEMMA LiveType ==
    ASSUME NEW requests \in Table, NEW now \in Nat
    PROVE  Live(requests, now) \in Table
BY DEF Live, Table

\* applyLocked() preserves the types of what it assigns.
LEMMA ApplyType ==
    ASSUME TypeOK, NEW requests \in Table, NEW now \in Nat, ApplyLocked(requests, now)
    PROVE  /\ mRequests' \in Table
           /\ mNodes' \in [Node -> NodeState]
           /\ hw' \in [Node -> Value]
<1> DEFINE live == Live(requests, now)
<1>1. live \in Table
  BY LiveType
<1>2. \A n \in Node : Tokens(live, n) \in SUBSET Token
  BY <1>1, TokensType
<1>3. \A n \in Node : /\ NodeAfter(n, Tokens(live, n)) \in NodeState
                      /\ HwAfter(n, Tokens(live, n)) \in Value
  BY <1>2, NodeAfterType
<1>4. /\ mRequests' = live
      /\ mNodes' = [n \in Node |-> NodeAfter(n, Tokens(live, n))]
      /\ hw' = [n \in Node |-> HwAfter(n, Tokens(live, n))]
  BY DEF ApplyLocked
<1> HIDE DEF live
<1> QED
  BY <1>1, <1>3, <1>4

\* The deadlines are naturals; the next one is the first of them.
LEMMA NextDeadlineType ==
    ASSUME TypeOK, NEW requests \in Table, NEW now \in Nat
    PROVE  /\ NextDeadline(requests, now) \in Nat \cup {NULL}
           /\ \A d \in Deadlines(requests, now) :
                 /\ d \in Nat
                 /\ NextDeadline(requests, now) \in Nat
                 /\ NextDeadline(requests, now) <= d
<1> USE EngineConstants
<1>1. ASSUME NEW s \in Source, Live(requests, now)[s] # NULL
      PROVE  requests[s].until \in Nat
  BY <1>1 DEF Live, Table, Request
<1>2. now + RetryPeriod \in Nat
  OBVIOUS
<1>3. Deadlines(requests, now) \in SUBSET Nat
  BY <1>1, <1>2 DEF Deadlines
<1>4. Deadlines(requests, now) # {} =>
          /\ Min(Deadlines(requests, now)) \in Deadlines(requests, now)
          /\ \A d \in Deadlines(requests, now) : Min(Deadlines(requests, now)) <= d
  BY <1>3, MinNat
<1> QED
  BY <1>3, <1>4 DEF NextDeadline

\* The requests that calls of the engine put into the table.
LEMMA RequestType ==
    ASSUME TypeOK, NEW s \in Source, NEW m \in ValueMaps, NEW h \in Holds,
           NEW extend \in BOOLEAN
    PROVE  [mRequests EXCEPT ![s] =
               [values |-> m, until |-> Until(mRequests[s], client.now + h, extend, client.now)]]
           \in Table
<1> USE EngineConstants, ValueMapsChecked
<1>1. mRequests \in Table /\ client.now \in Nat /\ h \in Nat /\ client.now + h \in Nat
  BY DEF TypeOK, Table
<1>2. Until(mRequests[s], client.now + h, extend, client.now) \in Nat
  BY <1>1 DEF Until, Table, Request
<1>3. m \in ValueMap
  OBVIOUS
<1> QED
  BY <1>1, <1>2, <1>3 DEF Table, Request

-----------------------------------------------------------------------------
(* Typing.                                                                 *)

\* Initially the state is well typed.
LEMMA InitTypeOK == Init => TypeOK
<1> SUFFICES ASSUME Init PROVE TypeOK
  OBVIOUS
<1> USE EngineConstants
<1>1. FreshNode \in NodeState
  BY DEF FreshNode, NodeState
<1>2. ExternalValues \subseteq Value /\ 0 \in Nat
  BY DEF Value
<1>3. /\ ceil \in [Node -> 0..MaxValue]
      /\ hw \in [Node -> Value]
      /\ mNodes \in [Node -> NodeState]
  BY <1>1, <1>2 DEF Init
<1> QED
  BY <1>3 DEF Init, TypeOK

\* Every locked region ends with a table, node states and values.
LEMMA ChangeType ==
    ASSUME TypeOK, NEW requests \in Table, Change(requests)
    PROVE  TypeOK'
<1>1. client.now \in Nat /\ ApplyLocked(requests, client.now)
  BY DEF TypeOK, Change
<1>2. /\ mRequests' \in Table
      /\ mNodes' \in [Node -> NodeState]
      /\ hw' \in [Node -> Value]
  BY <1>1, ApplyType
<1>3. client' \in [pc : {"boot", "idle", "called", "notify", "gone"}, now : Nat]
  BY DEF TypeOK, Change
<1> QED
  BY <1>2, <1>3 DEF TypeOK, Change, environment, Table

\* Every action preserves the types.
LEMMA NextTypeOK == TypeOK /\ [Next]_vars => TypeOK'
<1> SUFFICES ASSUME TypeOK, [Next]_vars PROVE TypeOK'
  OBVIOUS
<1> USE EngineConstants
<1>0. mRequests \in Table /\ [s \in Source |-> NULL] \in Table
  BY DEF TypeOK, Table
<1>1. CASE Reset
  <2>1. /\ mRequests' \in Table
        /\ mNodes' \in [Node -> NodeState]
        /\ hw' \in [Node -> Value]
    BY <1>0, <1>1, ApplyType DEF Reset, TypeOK
  <2>2. clock + RetryWindow \in Nat
    BY DEF TypeOK
  <2> QED
    BY <1>1, <2>1, <2>2 DEF TypeOK, Reset, environment, Table
<1>2. CASE Call
  BY <1>2 DEF TypeOK, Call, environment, engine
<1>3. CASE ClearAll
  <2>1. CASE Return
    BY <2>1 DEF TypeOK, Return, environment, engine
  <2>2. CASE Change([s \in Source |-> NULL])
    BY <1>0, <2>2, ChangeType
  <2> QED
    BY <1>3, <2>1, <2>2 DEF ClearAll
<1>4. CASE NotifyAll
  BY <1>4 DEF TypeOK, NotifyAll, environment, engine
<1>5. CASE Destroy
  BY <1>5 DEF TypeOK, Destroy, environment
<1>6. ASSUME NEW s \in Source, ClearRequest(s)
      PROVE  TypeOK'
  <2>1. CASE Return
    BY <2>1 DEF TypeOK, Return, environment, engine
  <2>2. CASE Change([mRequests EXCEPT ![s] = NULL])
    <3>1. [mRequests EXCEPT ![s] = NULL] \in Table
      BY <1>0 DEF Table
    <3> QED
      BY <2>2, <3>1, ChangeType
  <2> QED
    BY <1>6, <2>1, <2>2 DEF ClearRequest
<1>7. ASSUME NEW s \in Source, NEW m \in ValueMaps, NEW h \in Holds,
             NEW extend \in BOOLEAN, SetRequest(s, m, h, extend)
      PROVE  TypeOK'
  BY <1>7, RequestType, ChangeType DEF SetRequest
<1>8. ASSUME NEW n \in Node, NEW us \in Pulses, Pulse(n, us)
      PROVE  TypeOK'
  <2>1. us \in Value
    BY DEF Value
  <2>2. PulseNode(n, us) \in NodeState
    <3>1. mNodes[n] \in NodeState
      BY DEF TypeOK
    <3> QED
      BY <2>1, <3>1 DEF PulseNode, NodeState
  <2> QED
    BY <1>8, <2>1, <2>2 DEF TypeOK, Pulse, environment
<1>9. CASE WorkerRound
  <2>1. CASE mStop
    BY <1>9, <2>1 DEF TypeOK, WorkerRound, environment
  <2>2. CASE ~mStop
    <3>1. /\ mRequests' \in Table
          /\ mNodes' \in [Node -> NodeState]
          /\ hw' \in [Node -> Value]
      BY <1>0, <1>9, <2>2, ApplyType DEF WorkerRound, TypeOK
    <3>2. wakeAt' \in Nat \cup {NULL}
      BY <1>0, <1>9, <2>2, NextDeadlineType DEF WorkerRound, TypeOK
    <3> QED
      BY <1>9, <2>2, <3>1, <3>2 DEF TypeOK, WorkerRound, environment, Table
  <2> QED
    BY <2>1, <2>2
<1>10. CASE WorkerRecheck
  BY <1>10 DEF TypeOK, WorkerRecheck, environment, engine
<1>11. CASE SpuriousWakeup
  BY <1>11 DEF TypeOK, SpuriousWakeup, environment, engine
<1>12. CASE Tick
  BY <1>12 DEF TypeOK, Tick, environment, engine, threads
<1>13. CASE Crash
  <2>1. FreshNode \in NodeState
    BY DEF FreshNode, NodeState
  <2> QED
    BY <1>0, <1>13, <2>1 DEF TypeOK, Crash, environment, Table
<1>14. ASSUME NEW n \in Node, AccessChanges(n)
       PROVE  TypeOK'
  BY <1>14 DEF TypeOK, AccessChanges, engine, threads
<1>15. ASSUME NEW n \in Node, CeilingMoves(n)
       PROVE  TypeOK'
  BY <1>15 DEF TypeOK, CeilingMoves, engine, threads
<1>16. ASSUME NEW n \in External, ExternalWrite(n)
       PROVE  TypeOK'
  BY <1>16 DEF TypeOK, ExternalWrite, threads, Value
<1>17. CASE UNCHANGED vars
  BY <1>17 DEF TypeOK, vars, environment, engine, threads
<1> QED
  BY <1>1, <1>2, <1>3, <1>4, <1>5, <1>6, <1>7, <1>8, <1>9, <1>10, <1>11, <1>12, <1>13,
     <1>14, <1>15, <1>16, <1>17 DEF Next, ClientNext, WorkerNext, DeviceNext, EnvironmentNext

\* Types are kept by every behaviour of the engine.
THEOREM TypeCorrect == Spec => []TypeOK
BY InitTypeOK, NextTypeOK, PTL DEF Spec

-----------------------------------------------------------------------------
(* What `written` says of a node.  NodeHoldsAggregate speaks of hw and is   *)
(* not inductive: a step may only skip a write because `written` is what   *)
(* the node holds, so that has to be known too.                            *)

\* `written` and pulseUs are what a node that nobody else writes holds, and
\* `written` is what the table asks for.
Vouched(state, value, n, tokens) ==
    /\ Kind[n] = "pulse" => state.written = NULL
    /\ Kind[n] # "pulse" => state.pulseUs = NULL
    /\ ~state.wrote => state.written = NULL
    /\ n \notin External => /\ state.written # NULL => value = state.written
                            /\ state.pulseUs # NULL => value = state.pulseUs
    /\ state.written # NULL =>
          /\ Kind[n] = "default" => state.written = MaxInt(n, tokens)
          /\ Kind[n] = "none" => tokens # {} /\ state.written = MaxInt(n, tokens)
          /\ Kind[n] = "capture" /\ tokens # {} /\ state.captured # NULL
                => state.written = MaxInt(n, tokens)
          /\ Kind[n] = "ppm" /\ tokens = {} => state.written = -1

AllVouched == \A n \in Node : Vouched(mNodes[n], hw[n], n, Tokens(mRequests, n))

\* applyLocked() establishes it for one node, whatever the table was before.
LEMMA NodeAfterVouched ==
    ASSUME TypeOK, NEW n \in Node, NEW tokens \in SUBSET Token, NEW old,
           Vouched(mNodes[n], hw[n], n, old)
    PROVE  Vouched(NodeAfter(n, tokens), HwAfter(n, tokens), n, tokens)
<1> USE EngineConstants
<1> DEFINE p == Prepared(n, tokens)
           t == Target(n, tokens)
           a == NodeAfter(n, tokens)
<1>1. /\ p \in NodeState
      /\ p.written \in {mNodes[n].written, NULL}
      /\ p.wrote = mNodes[n].wrote
      /\ p.pulseUs = mNodes[n].pulseUs
  BY PreparedType
<1>2. t \in Value \cup {NULL}
  BY TargetType
<1>3. CASE Kind[n] = "pulse"
  <2>1. t = NULL
    BY <1>3 DEF Target
  <2>2. a = mNodes[n] /\ HwAfter(n, tokens) = hw[n]
    BY <1>3, <2>1 DEF NodeAfter, HwAfter, MustWrite, Prepared
  <2> QED
    BY <1>3, <2>2 DEF Vouched
<1>4. CASE Kind[n] # "pulse"
  <2>1. a.pulseUs = NULL /\ a.captured = p.captured
    BY <1>1, <1>4 DEF Vouched, NodeAfter, WriteNode, NodeState
  <2>2. ~a.wrote => a.written = NULL
    BY <1>1 DEF Vouched, NodeAfter, WriteNode, NodeState
  <2>3. a.written # NULL => /\ t = NULL => a.written = p.written
                            /\ t # NULL => a.written = t
    BY <1>1, <1>2 DEF NodeAfter, WriteNode, MustWrite, NodeState
  <2>4. n \notin External /\ a.written # NULL => HwAfter(n, tokens) = a.written
    <3>1. CASE MustWrite(n, tokens) /\ Writable(n)
      BY <1>1, <3>1 DEF NodeAfter, HwAfter, WriteNode, NodeState
    <3>2. CASE MustWrite(n, tokens) /\ ~Writable(n)
      BY <1>1, <3>2 DEF NodeAfter, WriteNode, NodeState
    <3>3. CASE ~MustWrite(n, tokens)
      <4>1. a = p /\ HwAfter(n, tokens) = hw[n]
        BY <3>3 DEF NodeAfter, HwAfter
      <4> HIDE DEF a, p
      <4>2. a.written \in {mNodes[n].written, NULL}
        BY <1>1, <4>1
      <4>3. n \notin External /\ mNodes[n].written # NULL => hw[n] = mNodes[n].written
        BY DEF Vouched
      <4> QED
        BY <4>1, <4>2, <4>3
    <3> QED
      BY <3>1, <3>2, <3>3
  <2>5. Numbers({}, n, NULL) = {}
    BY DEF Numbers
  <2>6. MaxInt(n, tokens) \in 0..MaxValue
    BY MaxIntType
  <2> HIDE DEF p, t, a
  <2>7. ASSUME a.written # NULL, Kind[n] = "default"
        PROVE  a.written = MaxInt(n, tokens)
    <3>1. t = MaxInt(n, tokens)
      BY <2>5, <2>7 DEF t, Target, ValueTarget, ReleaseTarget, CannotCapture, MaxInt
    <3> QED
      BY <2>3, <2>6, <2>7, <3>1
  <2>8. ASSUME a.written # NULL, Kind[n] = "none"
        PROVE  tokens # {} /\ a.written = MaxInt(n, tokens)
    <3>1. CASE tokens = {}
      <4>1. t = NULL /\ p.written = NULL
        BY <2>8, <3>1 DEF t, Target, ValueTarget, ReleaseTarget, p, Prepared, TypeOK, NodeState
      <4> QED
        BY <2>3, <2>8, <4>1
    <3>2. CASE tokens # {}
      <4>1. t = MaxInt(n, tokens)
        BY <2>8, <3>2 DEF t, Target, ValueTarget, CannotCapture
      <4> QED
        BY <2>3, <2>6, <2>8, <3>2, <4>1
    <3> QED
      BY <3>1, <3>2
  <2>9. ASSUME a.written # NULL, Kind[n] = "capture", tokens # {}, a.captured # NULL
        PROVE  a.written = MaxInt(n, tokens)
    <3>1. ~CannotCapture(n)
      BY <1>1, <2>1, <2>9 DEF CannotCapture, p, Prepared, TypeOK, NodeState
    <3>2. t = MaxInt(n, tokens)
      BY <2>9, <3>1 DEF t, Target, ValueTarget
    <3> QED
      BY <2>3, <2>6, <2>9, <3>2
  <2>10. ASSUME a.written # NULL, Kind[n] = "ppm", tokens = {}
         PROVE  a.written = -1
    <3>1. t = -1
      BY <2>10 DEF t, Target, PpmTarget, Numbers
    <3> QED
      BY <2>3, <2>10, <3>1
  <2> QED
    BY <1>4, <2>1, <2>2, <2>4, <2>7, <2>8, <2>9, <2>10 DEF Vouched, a
<1> QED
  BY <1>3, <1>4

\* applyLocked() establishes it for every node.
LEMMA ApplyVouched ==
    ASSUME TypeOK, AllVouched, NEW requests \in Table, NEW now \in Nat,
           ApplyLocked(requests, now)
    PROVE  AllVouched'
<1> DEFINE live == Live(requests, now)
<1>1. \A n \in Node : Tokens(live, n) \in SUBSET Token
  BY LiveType, TokensType
<1>2. /\ mRequests' = live
      /\ mNodes' = [n \in Node |-> NodeAfter(n, Tokens(live, n))]
      /\ hw' = [n \in Node |-> HwAfter(n, Tokens(live, n))]
  BY DEF ApplyLocked
<1> HIDE DEF live
<1>3. SUFFICES ASSUME NEW n \in Node
               PROVE  Vouched(mNodes'[n], hw'[n], n, Tokens(mRequests', n))
  BY DEF AllVouched, Vouched, MaxInt, Numbers, ParseInt, ResolveKhz, Tokens
<1>4. Vouched(mNodes[n], hw[n], n, Tokens(mRequests, n))
  BY DEF AllVouched
<1> QED
  BY <1>1, <1>2, <1>4, NodeAfterVouched

\* Every step is one applyLocked(), a pulse, a write by somebody else, the end of
\* the process, or leaves the table and the nodes alone.
LEMMA StepEffect ==
    ASSUME TypeOK, [Next]_vars
    PROVE  \/ \E requests \in Table, now \in Nat : ApplyLocked(requests, now)
           \/ \E n \in Node, us \in Pulses : Pulse(n, us)
           \/ \E n \in External : ExternalWrite(n)
           \/ Crash
           \/ UNCHANGED <<mNodes, hw, mRequests>>
<1>0. /\ mRequests \in Table /\ [s \in Source |-> NULL] \in Table
      /\ clock \in Nat /\ client.now \in Nat
  BY DEF TypeOK, Table
<1>1. CASE Reset
  BY <1>0, <1>1 DEF Reset
<1>2. CASE ClearAll
  BY <1>0, <1>2 DEF ClearAll, Change, Return, engine
<1>3. ASSUME NEW s \in Source, ClearRequest(s)
      PROVE  \/ \E requests \in Table, now \in Nat : ApplyLocked(requests, now)
             \/ UNCHANGED <<mNodes, hw, mRequests>>
  <2>1. [mRequests EXCEPT ![s] = NULL] \in Table
    BY <1>0 DEF Table
  <2> QED
    BY <1>0, <1>3, <2>1 DEF ClearRequest, Change, Return, engine
<1>4. ASSUME NEW s \in Source, NEW m \in ValueMaps, NEW h \in Holds,
             NEW extend \in BOOLEAN, SetRequest(s, m, h, extend)
      PROVE  \E requests \in Table, now \in Nat : ApplyLocked(requests, now)
  BY <1>0, <1>4, RequestType DEF SetRequest, Change
<1>5. CASE WorkerRound
  BY <1>0, <1>5 DEF WorkerRound
<1>6. CASE Call \/ NotifyAll \/ Destroy \/ WorkerRecheck \/ SpuriousWakeup \/ Tick
           \/ UNCHANGED vars
  BY <1>6 DEF Call, NotifyAll, Destroy, WorkerRecheck, SpuriousWakeup, Tick, vars, engine
<1>7. ASSUME NEW n \in Node, AccessChanges(n) \/ CeilingMoves(n)
      PROVE  UNCHANGED <<mNodes, hw, mRequests>>
  BY <1>7 DEF AccessChanges, CeilingMoves, engine
<1> QED
  BY <1>1, <1>2, <1>3, <1>4, <1>5, <1>6, <1>7 DEF Next, ClientNext, WorkerNext, DeviceNext, EnvironmentNext

\* A node no request was made for and no write succeeded on is vouched for.
LEMMA FreshVouched ==
    ASSUME NEW n \in Node, NEW value, NEW tokens
    PROVE  Vouched(FreshNode, value, n, tokens)
BY DEF FreshNode, Vouched

\* Initially every node is fresh.
LEMMA InitVouched == Init => AllVouched
BY FreshVouched DEF Init, AllVouched

\* Every step keeps the nodes vouched for.
LEMMA NextVouched == TypeOK /\ AllVouched /\ [Next]_vars => AllVouched'
<1> SUFFICES ASSUME TypeOK, AllVouched, [Next]_vars PROVE AllVouched'
  OBVIOUS
<1> USE EngineConstants
<1> DEFINE V(n) == Vouched(mNodes[n], hw[n], n, Tokens(mRequests, n))
           W(n) == Vouched(mNodes'[n], hw'[n], n, Tokens(mRequests', n))
<1>1. /\ \A n \in Node : V(n)
      /\ (\A n \in Node : W(n)) => AllVouched'
  BY DEF AllVouched, Vouched, MaxInt, Numbers, ParseInt, ResolveKhz, Tokens
<1>2. CASE \E requests \in Table, now \in Nat : ApplyLocked(requests, now)
  BY <1>2, ApplyVouched
<1>3. ASSUME NEW n \in Node, NEW us \in Pulses, Pulse(n, us)
      PROVE  AllVouched'
  <2>1. ASSUME NEW k \in Node, k # n PROVE W(k)
    <3>1. mNodes'[k] = mNodes[k] /\ hw'[k] = hw[k] /\ mRequests' = mRequests
      BY <1>3, <2>1 DEF Pulse, TypeOK
    <3> QED
      BY <1>1, <3>1
  <2>2. W(n)
    <3>1. /\ mNodes'[n] = PulseNode(n, us) /\ Kind[n] = "pulse"
          /\ hw'[n] = IF Writable(n) /\ mNodes[n].pulseUs # us THEN us ELSE hw[n]
      BY <1>3 DEF Pulse, TypeOK
    <3>2. mNodes[n] \in NodeState /\ V(n)
      BY <1>1 DEF TypeOK
    <3> QED
      BY <3>1, <3>2 DEF PulseNode, Vouched, NodeState
  <2> QED
    BY <1>1, <2>1, <2>2
<1>4. ASSUME NEW n \in External, ExternalWrite(n)
      PROVE  AllVouched'
  <2>1. ASSUME NEW k \in Node PROVE W(k)
    <3>1. mNodes' = mNodes /\ mRequests' = mRequests
      BY <1>4 DEF ExternalWrite
    <3>2. k \notin External => hw'[k] = hw[k]
      BY <1>4 DEF ExternalWrite, TypeOK
    <3>3. V(k)
      BY <1>1
    <3> QED
      BY <3>1, <3>2, <3>3 DEF Vouched
  <2> QED
    BY <1>1, <2>1
<1>5. CASE Crash
  <2>1. \A k \in Node : mNodes'[k] = FreshNode
    BY <1>5 DEF Crash
  <2> QED
    BY <1>1, <2>1, FreshVouched
<1>6. CASE UNCHANGED <<mNodes, hw, mRequests>>
  BY <1>1, <1>6
<1> QED
  BY <1>2, <1>3, <1>4, <1>5, <1>6, StepEffect

\* The nodes are vouched for in every behaviour.
LEMMA AlwaysVouched == Spec => []AllVouched
BY TypeCorrect, InitVouched, NextVouched, PTL DEF Spec

\* The nodes that were written hold what the table asks for, in every behaviour.
THEOREM HoldsAggregate == Spec => []NodeHoldsAggregate
<1>1. TypeOK /\ AllVouched => NodeHoldsAggregate
  <2> SUFFICES ASSUME TypeOK, AllVouched, NEW n \in Node \ External
               PROVE  /\ mNodes[n].written # NULL =>
                            /\ Kind[n] \in {"default", "none"}
                                  => hw[n] = MaxInt(n, Tokens(mRequests, n))
                            /\ Kind[n] = "none" => Tokens(mRequests, n) # {}
                            /\ Kind[n] = "capture" /\ Tokens(mRequests, n) # {}
                                  /\ mNodes[n].captured # NULL
                                  => hw[n] = MaxInt(n, Tokens(mRequests, n))
                            /\ Kind[n] = "ppm" /\ Tokens(mRequests, n) = {} => hw[n] = -1
                      /\ mNodes[n].pulseUs # NULL => hw[n] = mNodes[n].pulseUs
    BY DEF NodeHoldsAggregate
  <2>1. Vouched(mNodes[n], hw[n], n, Tokens(mRequests, n))
    BY DEF AllVouched
  <2> QED
    BY <2>1 DEF Vouched
<1> QED
  BY <1>1, AlwaysVouched, TypeCorrect, PTL

-----------------------------------------------------------------------------
(* The worker.                                                             *)

\* A step keeps the promise of a notification.
LEMMA NextNotificationComes == NotificationComes /\ TypeOK /\ [Next]_vars => NotificationComes'
<1> SUFFICES ASSUME NotificationComes, TypeOK, [Next]_vars PROVE NotificationComes'
  OBVIOUS
<1> USE DEF NotificationComes
<1>1. CASE Reset \/ Crash
  BY <1>1 DEF Reset, Crash
<1>2. CASE Call \/ NotifyAll \/ Destroy
  BY <1>2 DEF Call, NotifyAll, Destroy, engine, TypeOK
<1>3. ASSUME NEW requests, Change(requests)
      PROVE  NotificationComes'
  BY <1>3 DEF Change, TypeOK
<1>4. ASSUME client.pc = "called", Return
      PROVE  NotificationComes'
  BY <1>4 DEF Return, engine, TypeOK
<1>5. CASE ClearAll
  BY <1>3, <1>4, <1>5 DEF ClearAll
<1>6. ASSUME NEW s \in Source, ClearRequest(s)
      PROVE  NotificationComes'
  BY <1>3, <1>4, <1>6 DEF ClearRequest
<1>7. ASSUME NEW s \in Source, NEW m \in ValueMaps, NEW h \in Holds,
             NEW extend \in BOOLEAN, SetRequest(s, m, h, extend)
      PROVE  NotificationComes'
  BY <1>3, <1>7 DEF SetRequest
<1>8. ASSUME NEW n \in Node, NEW us \in Pulses, Pulse(n, us)
      PROVE  NotificationComes'
  BY <1>8 DEF Pulse, TypeOK
<1>9. CASE WorkerRound
  BY <1>9 DEF WorkerRound, TypeOK
<1>10. CASE WorkerRecheck \/ SpuriousWakeup
  BY <1>10 DEF WorkerRecheck, SpuriousWakeup, engine
<1>11. CASE Tick \/ UNCHANGED vars
  BY <1>11 DEF Tick, vars, engine, threads
<1>12. ASSUME NEW n \in Node, AccessChanges(n) \/ CeilingMoves(n)
       PROVE  NotificationComes'
  BY <1>12 DEF AccessChanges, CeilingMoves, engine, threads
<1>13. ASSUME NEW n \in External, ExternalWrite(n)
       PROVE  NotificationComes'
  BY <1>13 DEF ExternalWrite, threads
<1> QED
  BY <1>1, <1>2, <1>5, <1>6, <1>7, <1>8, <1>9, <1>10, <1>11, <1>12, <1>13
     DEF Next, ClientNext, WorkerNext, DeviceNext, EnvironmentNext

\* No wake-up is lost: what a sleeping worker must see is about to be signalled.
THEOREM NoLostWakeup == Spec => []NotificationComes
<1>1. Init => NotificationComes
  BY DEF Init, NotificationComes
<1> QED
  BY <1>1, NextNotificationComes, TypeCorrect, PTL DEF Spec

\* A default or PPM node always has a target.
LEMMA HasTarget ==
    ASSUME TypeOK, NEW n \in Node, NEW tokens \in SUBSET Token,
           Kind[n] \in {"default", "ppm"}
    PROVE  Target(n, tokens) \in Value
<1>1. MaxInt(n, tokens) \in 0..MaxValue /\ DefaultValue[n] \in 0..MaxValue
  BY MaxIntType, EngineConstants
<1>2. PpmTarget(n, tokens) \in Value
  BY FloorTargetType
<1>3. CASE Kind[n] = "default"
  BY <1>1, <1>3 DEF Target, ValueTarget, ReleaseTarget, CannotCapture, Value
<1>4. CASE Kind[n] = "ppm"
  BY <1>2, <1>4 DEF Target
<1> QED
  BY <1>3, <1>4

\* The round of the worker after which it sleeps sets the wake-up in time.
LEMMA RoundWakesInTime ==
    ASSUME TypeOK, AllVouched, WorkerRound, ~mStop
    PROVE  /\ \A s \in Source : mRequests'[s] # NULL =>
                 wakeAt' \in Nat /\ wakeAt' <= mRequests'[s].until
           /\ \A n \in Node :
                 Kind[n] \in {"default", "ppm"} /\ ~mNodes'[n].wrote /\ clock < mRetryUntil
                 => wakeAt' \in Nat /\ wakeAt' <= clock + RetryPeriod
<1> USE EngineConstants
<1> DEFINE live == Live(mRequests, clock)
<1>1. mRequests \in Table /\ clock \in Nat /\ live \in Table
  BY LiveType DEF TypeOK, Table
<1>2. /\ mRequests' = live
      /\ mNodes' = [n \in Node |-> NodeAfter(n, Tokens(live, n))]
      /\ wakeAt' = NextDeadline(mRequests, clock)
  BY DEF WorkerRound, ApplyLocked
<1>3. \A d \in Deadlines(mRequests, clock) : wakeAt' \in Nat /\ wakeAt' <= d
  BY <1>1, <1>2, NextDeadlineType
<1>4. ASSUME NEW s \in Source, mRequests'[s] # NULL
      PROVE  mRequests'[s].until \in Deadlines(mRequests, clock)
  <2>1. mRequests'[s] = mRequests[s]
    BY <1>2, <1>4 DEF Live
  <2> QED
    BY <1>2, <1>4, <2>1 DEF Deadlines
<1>5. ASSUME NEW n \in Node, Kind[n] \in {"default", "ppm"}, ~mNodes'[n].wrote,
             clock < mRetryUntil
      PROVE  clock + RetryPeriod \in Deadlines(mRequests, clock)
  <2> DEFINE tokens == Tokens(live, n)
             p == Prepared(n, tokens)
  <2>1. tokens \in SUBSET Token
    BY <1>1, TokensType
  <2>2. Target(n, tokens) \in Value
    BY <1>5, <2>1, HasTarget
  <2>3. /\ p \in NodeState
        /\ p.written \in {mNodes[n].written, NULL}
        /\ p.wrote = mNodes[n].wrote
    BY <2>1, PreparedType
  <2>4. mNodes'[n] = NodeAfter(n, tokens)
    BY <1>2
  <2>5. ~mNodes[n].wrote
    BY <1>5, <2>3, <2>4 DEF NodeAfter, WriteNode, NodeState
  <2>6. mNodes[n].written = NULL
    BY <2>5 DEF AllVouched, Vouched
  <2>7. MustWrite(n, tokens)
    BY <2>2, <2>3, <2>6 DEF MustWrite, Value
  <2>8. ~Writable(n)
    BY <1>5, <2>3, <2>4, <2>7 DEF NodeAfter, WriteNode, NodeState
  <2>9. Pending(mRequests, clock)
    BY <2>5, <2>7, <2>8 DEF Pending
  <2> QED
    BY <1>5, <2>9 DEF Deadlines
<1> QED
  BY <1>3, <1>4, <1>5

\* A step that leaves the worker, its time point, the table and the nodes alone
\* keeps the wake-up in time; time may pass.
LEMMA QuietWakesInTime ==
    ASSUME WakesInTime, TypeOK,
           worker' \in {"asleep", "signalled"} => worker \in {"asleep", "signalled"},
           UNCHANGED <<wakeAt, mRequests, mRetryUntil, mDirty>>,
           \A n \in Node : Kind[n] # "pulse" => mNodes'[n] = mNodes[n],
           clock' \in {clock, clock + 1}
    PROVE  WakesInTime'
<1> USE EngineConstants
<1>1. clock \in Nat /\ mRetryUntil \in Nat /\ wakeAt \in Nat \cup {NULL}
  BY DEF TypeOK
<1>2. SUFFICES ASSUME worker \in {"asleep", "signalled"}, ~mDirty
               PROVE  /\ \A s \in Source : mRequests[s] # NULL =>
                            wakeAt # NULL /\ wakeAt <= mRequests[s].until
                      /\ \A n \in Node :
                            Kind[n] \in {"default", "ppm"} /\ ~mNodes'[n].wrote
                               /\ clock' < mRetryUntil
                            => wakeAt # NULL /\ wakeAt <= clock' + RetryPeriod
  BY DEF WakesInTime
<1>3. \A s \in Source : mRequests[s] # NULL => wakeAt # NULL /\ wakeAt <= mRequests[s].until
  BY <1>2 DEF WakesInTime
<1>4. ASSUME NEW n \in Node, Kind[n] \in {"default", "ppm"}, ~mNodes'[n].wrote,
             clock' < mRetryUntil
      PROVE  wakeAt # NULL /\ wakeAt <= clock' + RetryPeriod
  <2>1. ~mNodes[n].wrote /\ clock < mRetryUntil
    BY <1>1, <1>4
  <2>2. wakeAt # NULL /\ wakeAt <= clock + RetryPeriod
    BY <1>2, <1>4, <2>1 DEF WakesInTime
  <2>3. wakeAt \in Nat /\ RetryPeriod \in Nat
    BY <1>1, <2>2
  <2>4. clock' \in Nat /\ clock <= clock'
    BY <1>1
  <2>5. \A a, b, c, d \in Nat : a <= b + d /\ b <= c => a <= c + d
    OBVIOUS
  <2>6. wakeAt <= clock' + RetryPeriod
    BY <1>1, <2>2, <2>3, <2>4, <2>5
  <2> QED
    BY <2>2, <2>6
<1> QED
  BY <1>3, <1>4

\* Every step keeps the wake-up in time.
LEMMA NextWakesInTime ==
    WakesInTime /\ TypeOK /\ AllVouched /\ [Next]_vars => WakesInTime'
<1> SUFFICES ASSUME WakesInTime, TypeOK, AllVouched, [Next]_vars PROVE WakesInTime'
  OBVIOUS
<1> USE EngineConstants
<1>1. CASE Reset \/ Crash
  BY <1>1 DEF Reset, Crash, WakesInTime
<1>2. CASE Call \/ NotifyAll \/ Destroy \/ WorkerRecheck \/ SpuriousWakeup \/ Tick
           \/ UNCHANGED vars
  BY <1>2, QuietWakesInTime DEF Call, NotifyAll, Destroy, WorkerRecheck, SpuriousWakeup, Tick,
     vars, engine, threads
<1>3. ASSUME NEW requests, Change(requests)
      PROVE  WakesInTime'
  BY <1>3 DEF Change, WakesInTime
<1>4. CASE Return
  BY <1>4, QuietWakesInTime DEF Return, engine
<1>5. CASE ClearAll
  BY <1>3, <1>4, <1>5 DEF ClearAll
<1>6. ASSUME NEW s \in Source, ClearRequest(s)
      PROVE  WakesInTime'
  BY <1>3, <1>4, <1>6 DEF ClearRequest
<1>7. ASSUME NEW s \in Source, NEW m \in ValueMaps, NEW h \in Holds,
             NEW extend \in BOOLEAN, SetRequest(s, m, h, extend)
      PROVE  WakesInTime'
  BY <1>3, <1>7 DEF SetRequest
<1>8. ASSUME NEW n \in Node, NEW us \in Pulses, Pulse(n, us)
      PROVE  WakesInTime'
  <2>1. \A k \in Node : Kind[k] # "pulse" => mNodes'[k] = mNodes[k]
    BY <1>8 DEF Pulse, TypeOK
  <2> QED
    BY <1>8, <2>1, QuietWakesInTime DEF Pulse
<1>9. CASE WorkerRound
  <2>1. CASE mStop
    BY <1>9, <2>1 DEF WorkerRound, WakesInTime
  <2>2. CASE ~mStop
    <3>1. UNCHANGED <<clock, mRetryUntil>>
      BY <1>9 DEF WorkerRound
    <3> QED
      BY <1>9, <2>2, <3>1, RoundWakesInTime DEF WakesInTime
  <2> QED
    BY <2>1, <2>2
<1>10. ASSUME NEW n \in Node, AccessChanges(n) \/ CeilingMoves(n)
       PROVE  WakesInTime'
  BY <1>10, QuietWakesInTime DEF AccessChanges, CeilingMoves, engine, threads
<1>11. ASSUME NEW n \in External, ExternalWrite(n)
       PROVE  WakesInTime'
  BY <1>11, QuietWakesInTime DEF ExternalWrite, threads
<1> QED
  BY <1>1, <1>2, <1>5, <1>6, <1>7, <1>8, <1>9, <1>10, <1>11
     DEF Next, ClientNext, WorkerNext, DeviceNext, EnvironmentNext

\* A worker that sleeps wakes by the first deadline, in every behaviour.
THEOREM WakesByDeadline == Spec => []WakesInTime
<1>1. Init => WakesInTime
  BY DEF Init, WakesInTime
<1> QED
  BY <1>1, NextWakesInTime, TypeCorrect, AlwaysVouched, PTL DEF Spec

-----------------------------------------------------------------------------
(* What a step may do to a floor.                                          *)

\* The ceiling caps every write of a floor, in every behaviour.
THEOREM CeilingHolds == Spec => FloorUnderCeiling
<1>1. TypeOK /\ AllVouched /\ [Next]_vars =>
         [\A n \in Node \ External :
             Kind[n] \in {"cpufreq", "ppm"} /\ hw'[n] # hw[n] /\ Readable(n)
                 => hw'[n] <= ceil[n]]_vars
  <2> SUFFICES ASSUME TypeOK, [Next]_vars, NEW n \in Node \ External,
                      Kind[n] \in {"cpufreq", "ppm"}, hw'[n] # hw[n], Readable(n)
               PROVE  hw'[n] <= ceil[n]
    OBVIOUS
  <2>1. ASSUME NEW requests \in Table, NEW now \in Nat, ApplyLocked(requests, now)
        PROVE  hw'[n] <= ceil[n]
    <3> DEFINE tokens == Tokens(Live(requests, now), n)
    <3>1. tokens \in SUBSET Token
      BY LiveType, TokensType
    <3>2. hw'[n] = HwAfter(n, tokens)
      BY <2>1 DEF ApplyLocked
    <3>3. hw'[n] = Target(n, tokens)
      BY <3>2 DEF HwAfter
    <3>4. Target(n, tokens) \in {CpufreqTarget(n, tokens), PpmTarget(n, tokens)}
      BY DEF Target
    <3>5. CpufreqTarget(n, tokens) <= ceil[n] /\ PpmTarget(n, tokens) <= ceil[n]
      BY <3>1, FloorTargetType
    <3> QED
      BY <3>3, <3>4, <3>5
  <2>2. ~\E k \in Node, us \in Pulses : Pulse(k, us)
    BY DEF Pulse, TypeOK
  <2>3. ~\E k \in External : ExternalWrite(k)
    BY EngineConstants DEF ExternalWrite, TypeOK
  <2>4. ~Crash /\ ~UNCHANGED <<mNodes, hw, mRequests>>
    BY DEF Crash
  <2> QED
    BY <2>1, <2>2, <2>3, <2>4, StepEffect
<1> QED
  BY <1>1, TypeCorrect, AlwaysVouched, PTL DEF Spec, FloorUnderCeiling

\* The process that boots remembers nothing of the nodes and has no worker yet.
BootFresh ==
    client.pc = "boot" => worker = "off" /\ mNodes = [n \in Node |-> FreshNode]

\* Only a restart makes the process boot.
LEMMA NextBootFresh == TypeOK /\ BootFresh /\ [Next]_vars => BootFresh'
<1> SUFFICES ASSUME TypeOK, BootFresh, [Next]_vars PROVE BootFresh'
  OBVIOUS
<1>1. CASE Crash
  BY <1>1 DEF Crash, BootFresh
<1>2. ASSUME client'.pc # "boot"
      PROVE  BootFresh'
  BY <1>2 DEF BootFresh
<1>3. CASE Reset \/ Call \/ NotifyAll \/ Destroy
  BY <1>2, <1>3 DEF Reset, Call, NotifyAll, Destroy, TypeOK
<1>4. ASSUME NEW requests, Change(requests) \/ Return
      PROVE  BootFresh'
  BY <1>2, <1>4 DEF Change, Return, TypeOK
<1>5. CASE ClearAll
  BY <1>4, <1>5 DEF ClearAll
<1>6. ASSUME NEW s \in Source, ClearRequest(s)
      PROVE  BootFresh'
  BY <1>4, <1>6 DEF ClearRequest
<1>7. ASSUME NEW s \in Source, NEW m \in ValueMaps, NEW h \in Holds,
             NEW extend \in BOOLEAN, SetRequest(s, m, h, extend)
      PROVE  BootFresh'
  BY <1>4, <1>7 DEF SetRequest
<1>8. ASSUME NEW n \in Node, NEW us \in Pulses, Pulse(n, us)
      PROVE  BootFresh'
  BY <1>2, <1>8 DEF Pulse, TypeOK
<1>9. CASE WorkerRound \/ WorkerRecheck \/ SpuriousWakeup
  BY <1>2, <1>9 DEF WorkerRound, Awake, WorkerRecheck, SpuriousWakeup, BootFresh
<1>10. ASSUME UNCHANGED <<mNodes, worker, client>>
       PROVE  BootFresh'
  BY <1>10 DEF BootFresh
<1>11. CASE Tick \/ UNCHANGED vars
  BY <1>10, <1>11 DEF Tick, vars, engine, threads
<1>12. ASSUME NEW n \in Node, AccessChanges(n) \/ CeilingMoves(n)
       PROVE  BootFresh'
  BY <1>10, <1>12 DEF AccessChanges, CeilingMoves, engine, threads
<1>13. ASSUME NEW n \in External, ExternalWrite(n)
       PROVE  BootFresh'
  BY <1>10, <1>13 DEF ExternalWrite, threads
<1> QED
  BY <1>1, <1>3, <1>5, <1>6, <1>7, <1>8, <1>9, <1>11, <1>12, <1>13
     DEF Next, ClientNext, WorkerNext, DeviceNext, EnvironmentNext

\* What the table asks of a node that can be written is what targetLocked() says.
LEMMA TargetIsAggregate ==
    ASSUME TypeOK, NEW n \in Node, Kind[n] \in {"default", "cpufreq", "ppm"},
           Writable(n), NEW requests \in Table
    PROVE  /\ Target(n, Tokens(requests, n)) = Aggregate(n, requests, ceil[n])
           /\ Target(n, Tokens(requests, n)) \in Value
<1> USE EngineConstants
<1> DEFINE tokens == Tokens(requests, n)
<1>1. Readable(n) /\ tokens \in SUBSET Token
  BY TokensType DEF Readable, Writable
<1>2. ceil[n] \in 0..MaxValue /\ ceil[n] # NULL
  BY <1>1 DEF TypeOK
<1>3. CpufreqTarget(n, tokens) \in (0..MaxValue) \cup {NULL} /\ CpufreqTarget(n, tokens) \in Int
  BY <1>1, FloorTargetType
<1>4. CASE Kind[n] = "default"
  <2>1. Numbers({}, n, NULL) = {}
    BY DEF Numbers
  <2>2. Target(n, tokens) = MaxInt(n, tokens)
    BY <1>4, <2>1 DEF Target, ValueTarget, ReleaseTarget, CannotCapture, MaxInt
  <2> QED
    BY <1>1, <1>4, <2>2, HasTarget DEF Aggregate
<1>5. CASE Kind[n] = "cpufreq"
  BY <1>1, <1>3, <1>5 DEF Target, CpufreqTarget, Aggregate, Value
<1>6. CASE Kind[n] = "ppm"
  <2>1. Target(n, tokens) = Aggregate(n, requests, ceil[n])
    BY <1>1, <1>2, <1>6 DEF Target, PpmTarget, Aggregate
  <2> QED
    BY <1>1, <1>6, <2>1, HasTarget
<1> QED
  BY <1>4, <1>5, <1>6

\* applyLocked() makes every owned node that can be written show the aggregate.
LEMMA ApplySettles ==
    ASSUME TypeOK, AllVouched, NEW requests \in Table, NEW now \in Nat,
           ApplyLocked(requests, now), NEW n \in Owned
    PROVE  hw'[n] = IF Writable(n) THEN Aggregate(n, mRequests', ceil[n]) ELSE hw[n]
<1> USE EngineConstants
<1> DEFINE live == Live(requests, now)
           tokens == Tokens(live, n)
<1>1. n \in Node /\ n \notin External
      /\ Kind[n] \in {"default", "cpufreq", "ppm"}
  BY DEF Owned
<1>2. live \in Table /\ tokens \in SUBSET Token
  BY <1>1, LiveType, TokensType
<1>3. mRequests' = live /\ hw'[n] = HwAfter(n, tokens)
  BY <1>1 DEF ApplyLocked
<1>4. CASE ~Writable(n)
  BY <1>3, <1>4 DEF HwAfter
<1>5. CASE Writable(n)
  <2>1. Target(n, tokens) = Aggregate(n, live, ceil[n]) /\ Target(n, tokens) \in Value
    BY <1>1, <1>2, <1>5, TargetIsAggregate
  <2>2. CASE MustWrite(n, tokens)
    BY <1>3, <1>5, <2>1, <2>2 DEF HwAfter
  <2>3. CASE ~MustWrite(n, tokens)
    <3>1. Prepared(n, tokens).written = Target(n, tokens) /\ Target(n, tokens) # NULL
      BY <2>1, <2>3 DEF MustWrite, Value
    <3>2. mNodes[n].written = Target(n, tokens)
      BY <1>1, <1>2, <3>1, PreparedType
    <3>3. hw[n] = mNodes[n].written
      BY <1>1, <3>1, <3>2 DEF AllVouched, Vouched
    <3> QED
      BY <1>3, <1>5, <2>1, <2>3, <3>2, <3>3 DEF HwAfter
  <2> QED
    BY <2>2, <2>3
<1> QED
  BY <1>4, <1>5

\* An empty table asks for the released value.
LEMMA EmptyAggregate ==
    ASSUME NEW n \in Node, NEW c
    PROVE  /\ Tokens([s \in Source |-> NULL], n) = {}
           /\ Kind[n] = "default" => Aggregate(n, [s \in Source |-> NULL], c) = DefaultValue[n]
           /\ Kind[n] = "cpufreq" =>
                 Aggregate(n, [s \in Source |-> NULL], c) = AtMost(MinKhz[n], c)
           /\ Kind[n] = "ppm" => Aggregate(n, [s \in Source |-> NULL], c) = -1
<1>1. Tokens([s \in Source |-> NULL], n) = {}
  BY DEF Tokens
<1>2. \A k : Numbers({}, n, k) = {}
  BY DEF Numbers
<1>3. Max({} \cup {MinKhz[n]}) = MinKhz[n]
  <2>1. MinKhz[n] \in Int
    BY EngineConstants
  <2> QED
    BY <2>1 DEF Max
<1> QED
  BY <1>1, <1>2, <1>3 DEF Aggregate, MaxInt

\* Without capture nodes, a restart leaves no floor behind, in every behaviour.
THEOREM RestartReleases ==
    ASSUME \A n \in Node : Kind[n] # "capture"
    PROVE  Spec => RestartLeavesNoFloor
<1> USE EngineConstants
<1>1. TypeOK /\ BootFresh /\ [Next]_vars =>
         [Reset => \A n \in Node : Writable(n) =>
             /\ Kind[n] = "default" => hw'[n] = DefaultValue[n]
             /\ Kind[n] = "ppm" => hw'[n] = -1
             /\ Kind[n] = "cpufreq" => hw'[n] = AtMost(MinKhz[n], ceil[n])
             /\ Kind[n] = "capture" => hw'[n] = outside[n]]_vars
  <2> SUFFICES ASSUME TypeOK, BootFresh, Reset, NEW n \in Node, Writable(n),
                      Kind[n] \in {"default", "ppm", "cpufreq"}
               PROVE  hw'[n] = Aggregate(n, [s \in Source |-> NULL], ceil[n])
    BY EmptyAggregate
  <2> DEFINE empty == [s \in Source |-> NULL]
             tokens == Tokens(empty, n)
  <2>1. Live(empty, clock) = empty /\ empty \in Table
    BY DEF Live, Table
  <2>2. hw'[n] = HwAfter(n, tokens)
    BY <2>1 DEF Reset, ApplyLocked
  <2>3. Target(n, tokens) = Aggregate(n, empty, ceil[n]) /\ Target(n, tokens) \in Value
    BY <2>1, TargetIsAggregate
  <2>4. Prepared(n, tokens).written = NULL
    BY DEF Prepared, Reset, BootFresh, FreshNode
  <2>5. MustWrite(n, tokens)
    BY <2>3, <2>4 DEF MustWrite, Value
  <2> QED
    BY <2>2, <2>3, <2>5 DEF HwAfter
<1>2. Init => BootFresh
  BY DEF Init, BootFresh
<1> QED
  BY <1>1, <1>2, NextBootFresh, TypeCorrect, PTL DEF Spec, RestartLeavesNoFloor

-----------------------------------------------------------------------------
(* The engine implements the arbiter.                                      *)

\* No call carries a time that is still to come.
CallInPast == client.now <= clock

\* A table in which some requests that are due at `now` are gone.
LEMMA LiveDrops ==
    ASSUME NEW requests, NEW now, NEW s \in Source
    PROVE  \/ Live(requests, now)[s] = requests[s]
           \/ Live(requests, now)[s] = NULL /\ requests[s].until <= now
BY DEF Live

\* The clock is sampled before the lock is taken and never goes back.
LEMMA NextCallInPast == TypeOK /\ CallInPast /\ [Next]_vars => CallInPast'
<1> SUFFICES ASSUME TypeOK, CallInPast, [Next]_vars PROVE CallInPast'
  OBVIOUS
<1>1. clock \in Nat /\ client.now \in Nat
  BY DEF TypeOK
<1>2. ASSUME client'.now \in {client.now, clock}, clock' \in {clock, clock + 1}
      PROVE  CallInPast'
  BY <1>1, <1>2 DEF CallInPast
<1>3. CASE Reset \/ Call \/ NotifyAll \/ Destroy \/ Crash
  BY <1>2, <1>3 DEF Reset, Call, NotifyAll, Destroy, Crash, TypeOK
<1>4. ASSUME NEW requests, Change(requests) \/ Return
      PROVE  CallInPast'
  BY <1>2, <1>4 DEF Change, Return, TypeOK
<1>5. CASE ClearAll
  BY <1>4, <1>5 DEF ClearAll
<1>6. ASSUME NEW s \in Source, ClearRequest(s)
      PROVE  CallInPast'
  BY <1>4, <1>6 DEF ClearRequest
<1>7. ASSUME NEW s \in Source, NEW m \in ValueMaps, NEW h \in Holds,
             NEW extend \in BOOLEAN, SetRequest(s, m, h, extend)
      PROVE  CallInPast'
  BY <1>4, <1>7 DEF SetRequest
<1>8. ASSUME NEW n \in Node, NEW us \in Pulses, Pulse(n, us)
      PROVE  CallInPast'
  BY <1>2, <1>8 DEF Pulse, TypeOK
<1>9. CASE WorkerRound \/ WorkerRecheck \/ SpuriousWakeup \/ Tick \/ UNCHANGED vars
  BY <1>2, <1>9 DEF WorkerRound, WorkerRecheck, SpuriousWakeup, Tick, vars, threads
<1>10. ASSUME NEW n \in Node, AccessChanges(n) \/ CeilingMoves(n)
       PROVE  CallInPast'
  BY <1>2, <1>10 DEF AccessChanges, CeilingMoves, threads
<1>11. ASSUME NEW n \in External, ExternalWrite(n)
       PROVE  CallInPast'
  BY <1>2, <1>11 DEF ExternalWrite, threads
<1> QED
  BY <1>3, <1>5, <1>6, <1>7, <1>8, <1>9, <1>10, <1>11
     DEF Next, ClientNext, WorkerNext, DeviceNext, EnvironmentNext

\* applyLocked() settles the arbiter's nodes.
LEMMA ApplyIsSettled ==
    ASSUME TypeOK, AllVouched, NEW requests \in Table, NEW now \in Nat,
           ApplyLocked(requests, now)
    PROVE  Arbiter!Settled
BY ApplySettles DEF Arbiter!Settled

\* A call that changes the table is a step of the arbiter.
LEMMA ChangeIsChange ==
    ASSUME TypeOK, AllVouched, CallInPast, NEW s \in Source, NEW requests \in Table,
           \A r \in Source \ {s} : requests[r] = mRequests[r],
           Change(requests)
    PROVE  Arbiter!Change(s)
<1>1. client.now \in Nat /\ clock \in Nat /\ client.now <= clock
  BY DEF TypeOK, CallInPast
<1>2. Arbiter!Settled
  BY <1>1, ApplyIsSettled DEF Change
<1>3. mRequests' = Live(requests, client.now)
  BY DEF Change, ApplyLocked
<1>4. ASSUME NEW r \in Source \ {s}
      PROVE  \/ mRequests'[r] = mRequests[r]
             \/ mRequests'[r] = NULL /\ mRequests[r].until <= clock
  <2>1. mRequests[r] # NULL => mRequests[r].until \in Nat
    BY DEF TypeOK, Request
  <2> QED
    BY <1>1, <1>3, <1>4, <2>1 DEF Live
<1>5. UNCHANGED <<clock, access, ceil>>
  BY DEF Change, environment
<1> QED
  BY <1>2, <1>4, <1>5 DEF Arbiter!Change, Writable

\* Every step of the engine is a step of the arbiter.
LEMMA StepImplements ==
    TypeOK /\ AllVouched /\ CallInPast /\ [Next]_vars => [Arbiter!Next]_(Arbiter!vars)
<1> SUFFICES ASSUME TypeOK, AllVouched, CallInPast, [Next]_vars
             PROVE  Arbiter!Next
                    \/ UNCHANGED Arbiter!vars
  OBVIOUS
<1> USE EngineConstants
<1>0. /\ mRequests \in Table /\ [s \in Source |-> NULL] \in Table
      /\ clock \in Nat /\ client.now \in Nat
  BY DEF TypeOK, Table
<1>1. ASSUME ApplyLocked([s \in Source |-> NULL], clock)
               \/ ApplyLocked([s \in Source |-> NULL], client.now),
             UNCHANGED <<clock, access, ceil>>
      PROVE  Arbiter!ChangeAll
  <2>1. Arbiter!Settled
    BY <1>0, <1>1, ApplyIsSettled
  <2>2. mRequests' = [s \in Source |-> NULL]
    BY <1>1 DEF ApplyLocked, Live
  <2> QED
    BY <1>1, <2>1, <2>2 DEF Arbiter!ChangeAll, Arbiter!Empty, Writable
<1>2. CASE Reset
  BY <1>1, <1>2 DEF Reset, environment, Arbiter!Next
<1>3. ASSUME UNCHANGED mRequests, \A n \in Owned : hw'[n] = hw[n], clock' \in {clock, clock + 1}
      PROVE  Arbiter!Next
  BY <1>3 DEF Arbiter!Next, Arbiter!Surroundings
<1>4. CASE ClearAll
  BY <1>1, <1>3, <1>4 DEF ClearAll, Change, Return, environment, engine, Arbiter!Next
<1>5. ASSUME NEW s \in Source, ClearRequest(s)
      PROVE  Arbiter!Next
  <2>1. CASE Return
    BY <1>3, <2>1 DEF Return, engine
  <2>2. CASE Change([mRequests EXCEPT ![s] = NULL])
    <3>1. /\ [mRequests EXCEPT ![s] = NULL] \in Table
          /\ \A r \in Source \ {s} : [mRequests EXCEPT ![s] = NULL][r] = mRequests[r]
      BY <1>0 DEF Table
    <3> QED
      BY <2>2, <3>1, ChangeIsChange DEF Arbiter!Next
  <2> QED
    BY <1>5, <2>1, <2>2 DEF ClearRequest
<1>6. ASSUME NEW s \in Source, NEW m \in ValueMaps, NEW h \in Holds,
             NEW extend \in BOOLEAN, SetRequest(s, m, h, extend)
      PROVE  Arbiter!Next
  <2> DEFINE requests == [mRequests EXCEPT ![s] =
               [values |-> m, until |-> Until(mRequests[s], client.now + h, extend, client.now)]]
  <2>1. requests \in Table /\ \A r \in Source \ {s} : requests[r] = mRequests[r]
    BY <1>0, RequestType DEF Table
  <2>2. Change(requests)
    BY <1>6 DEF SetRequest
  <2> HIDE DEF requests
  <2> QED
    BY <2>1, <2>2, ChangeIsChange DEF Arbiter!Next
<1>7. ASSUME NEW n \in Node, NEW us \in Pulses, Pulse(n, us)
      PROVE  Arbiter!Next
  BY <1>3, <1>7 DEF Pulse, Owned, TypeOK
<1>8. CASE WorkerRound
  <2>1. CASE mStop
    BY <1>3, <1>8, <2>1 DEF WorkerRound
  <2>2. CASE ~mStop
    <3>1. ApplyLocked(mRequests, clock) /\ UNCHANGED <<clock, access, ceil>>
      BY <1>8, <2>2 DEF WorkerRound, environment
    <3>2. Arbiter!Settled
      BY <1>0, <3>1, ApplyIsSettled
    <3>3. mRequests' = Live(mRequests, clock)
      BY <3>1 DEF ApplyLocked
    <3>4. Arbiter!Expire
      BY <3>1, <3>2, <3>3, LiveDrops DEF Arbiter!Expire, Writable
    <3> QED
      BY <3>4 DEF Arbiter!Next
  <2> QED
    BY <2>1, <2>2
<1>9. CASE Crash
  BY <1>9 DEF Crash, environment, Arbiter!Next, Arbiter!Restart, Arbiter!Empty, Writable
<1>10. CASE Call \/ NotifyAll \/ Destroy \/ WorkerRecheck \/ SpuriousWakeup \/ Tick
            \/ UNCHANGED vars
  BY <1>3, <1>10 DEF Call, NotifyAll, Destroy, WorkerRecheck, SpuriousWakeup, Tick, vars, engine
<1>11. ASSUME NEW n \in Node, AccessChanges(n) \/ CeilingMoves(n)
       PROVE  Arbiter!Next
  BY <1>3, <1>11 DEF AccessChanges, CeilingMoves, engine
<1>12. ASSUME NEW n \in External, ExternalWrite(n)
       PROVE  Arbiter!Next
  BY <1>3, <1>12 DEF ExternalWrite, Owned, TypeOK
<1> QED
  BY <1>2, <1>4, <1>5, <1>6, <1>7, <1>8, <1>9, <1>10, <1>11, <1>12
     DEF Next, ClientNext, WorkerNext, DeviceNext, EnvironmentNext

\* The engine implements the abstract arbiter.
THEOREM Implements == Spec => ImplementsArbiter
<1>1. Init => Arbiter!Init
  BY DEF Init, Arbiter!Init, Arbiter!Empty
<1>2. Init => CallInPast
  BY DEF Init, CallInPast
<1> QED
  BY <1>1, <1>2, NextCallInPast, StepImplements, TypeCorrect, AlwaysVouched, PTL
     DEF Spec, ImplementsArbiter, Arbiter!Spec

-----------------------------------------------------------------------------
(* Release::Capture.  What is captured is the value the other processes    *)
(* left, as long as nobody else writes a held node and the process lives:  *)
(* the next process would capture the held value.                          *)

\* A captured value is the one from outside, without one the node still has it,
\* and a node that nothing holds is written with what was captured.
PutBack(state, value, left, tokens) ==
    /\ state.captured # NULL => state.captured = left
    /\ state.captured = NULL => value = left
    /\ tokens = {} /\ state.written # NULL /\ state.captured # NULL
          => state.written = state.captured

CaptureInv ==
    \A n \in Node : Kind[n] = "capture" =>
        PutBack(mNodes[n], hw[n], outside[n], Tokens(mRequests, n))

\* applyLocked() keeps it for one node, whatever the table was before.
LEMMA NodeAfterPutBack ==
    ASSUME TypeOK, NEW n \in Node \ External, Kind[n] = "capture",
           NEW tokens \in SUBSET Token, NEW old,
           Vouched(mNodes[n], hw[n], n, old), PutBack(mNodes[n], hw[n], outside[n], old)
    PROVE  PutBack(NodeAfter(n, tokens), HwAfter(n, tokens), outside[n], tokens)
<1> USE EngineConstants
<1> DEFINE p == Prepared(n, tokens)
           t == Target(n, tokens)
<1>1. mNodes[n] \in NodeState /\ hw[n] \in Value /\ hw[n] # NULL
  BY DEF TypeOK, Value
<1>2. mNodes[n].written # NULL => hw[n] = mNodes[n].written
  BY DEF Vouched
<1>3. /\ p \in NodeState
      /\ p.written = mNodes[n].written
      /\ p.captured # NULL => p.captured = outside[n]
      /\ p.captured = NULL => hw[n] = outside[n]
  BY <1>1, <1>2 DEF Prepared, PutBack, NodeState
<1>4. p.captured = NULL => t = NULL
  BY <1>1 DEF Prepared, Target, ValueTarget, ReleaseTarget, CannotCapture, NodeState
<1>5. tokens = {} /\ p.captured # NULL => t = p.captured /\ p.written # p.captured
  BY <1>1 DEF Prepared, Target, ValueTarget, ReleaseTarget, NodeState
<1> HIDE DEF p, t
<1>6. NodeAfter(n, tokens) = IF t # NULL /\ p.written # t THEN WriteNode(n, p, t) ELSE p
  BY DEF NodeAfter, MustWrite, p, t
<1>7. HwAfter(n, tokens) = IF t # NULL /\ p.written # t /\ Writable(n) THEN t ELSE hw[n]
  BY DEF HwAfter, MustWrite, p, t
<1>8. WriteNode(n, p, t).captured = p.captured
  BY <1>3 DEF WriteNode, NodeState
<1>9. WriteNode(n, p, t).written = IF Writable(n) THEN t ELSE NULL
  BY <1>3 DEF WriteNode, NodeState
<1> QED
  BY <1>3, <1>4, <1>5, <1>6, <1>7, <1>8, <1>9 DEF PutBack

\* Every step of a process that lives keeps it, if nobody else writes a node that
\* is released by putting the captured value back.
LEMMA NextCaptureInv ==
    ASSUME \A n \in External : Kind[n] # "capture", ~CanCrash,
           TypeOK, AllVouched, CaptureInv, [Next]_vars
    PROVE  CaptureInv'
<1>1. SUFFICES ASSUME NEW n \in Node, Kind[n] = "capture"
               PROVE  PutBack(mNodes'[n], hw'[n], outside'[n], Tokens(mRequests', n))
  BY DEF CaptureInv, PutBack, Tokens
<1>2. /\ n \notin External
      /\ Vouched(mNodes[n], hw[n], n, Tokens(mRequests, n))
      /\ PutBack(mNodes[n], hw[n], outside[n], Tokens(mRequests, n))
  BY <1>1 DEF AllVouched, CaptureInv
<1>3. outside'[n] = outside[n]
  <2>1. CASE Reset \/ Call \/ ClearAll \/ NotifyAll \/ Destroy \/ UNCHANGED vars
    BY <2>1 DEF Reset, Call, ClearAll, NotifyAll, Destroy, Change, Return, environment, vars
  <2>2. ASSUME NEW s \in Source, ClearRequest(s)
        PROVE  outside' = outside
    BY <2>2 DEF ClearRequest, Change, Return, environment
  <2>3. ASSUME NEW s \in Source, NEW m \in ValueMaps, NEW h \in Holds,
               NEW extend \in BOOLEAN, SetRequest(s, m, h, extend)
        PROVE  outside' = outside
    BY <2>3 DEF SetRequest, Change, environment
  <2>4. ASSUME NEW k \in Node, NEW us \in Pulses, Pulse(k, us)
        PROVE  outside' = outside
    BY <2>4 DEF Pulse, environment
  <2>5. CASE WorkerNext
    <3>1. CASE WorkerRound
      BY <3>1, Zenon DEF WorkerRound, environment
    <3>2. CASE WorkerRecheck \/ SpuriousWakeup
      BY <3>2 DEF WorkerRecheck, SpuriousWakeup, environment
    <3> QED
      BY <2>5, <3>1, <3>2 DEF WorkerNext
  <2>6. CASE Tick \/ Crash \/ \E k \in Node : AccessChanges(k) \/ CeilingMoves(k)
    BY <2>6 DEF Tick, Crash, AccessChanges, CeilingMoves, environment
  <2>7. ASSUME NEW k \in External, ExternalWrite(k)
        PROVE  outside'[n] = outside[n]
    BY <1>2, <2>7 DEF ExternalWrite, TypeOK
  <2> QED
    BY <2>1, <2>2, <2>3, <2>4, <2>5, <2>6, <2>7 DEF Next, ClientNext, DeviceNext, EnvironmentNext
<1>4. ASSUME NEW requests \in Table, NEW now \in Nat, ApplyLocked(requests, now)
      PROVE  PutBack(mNodes'[n], hw'[n], outside'[n], Tokens(mRequests', n))
  <2>1. Tokens(Live(requests, now), n) \in SUBSET Token
    BY LiveType, TokensType
  <2>2. /\ mRequests' = Live(requests, now)
        /\ mNodes'[n] = NodeAfter(n, Tokens(Live(requests, now), n))
        /\ hw'[n] = HwAfter(n, Tokens(Live(requests, now), n))
    BY <1>4 DEF ApplyLocked
  <2> QED
    BY <1>1, <1>2, <1>3, <2>1, <2>2, NodeAfterPutBack
<1>5. ASSUME NEW k \in Node, NEW us \in Pulses, Pulse(k, us)
      PROVE  PutBack(mNodes'[n], hw'[n], outside'[n], Tokens(mRequests', n))
  <2>1. mNodes'[n] = mNodes[n] /\ hw'[n] = hw[n] /\ mRequests' = mRequests
    BY <1>1, <1>5 DEF Pulse, TypeOK
  <2> QED
    BY <1>2, <1>3, <2>1
<1>6. ASSUME NEW k \in External, ExternalWrite(k)
      PROVE  PutBack(mNodes'[n], hw'[n], outside'[n], Tokens(mRequests', n))
  <2>1. mNodes'[n] = mNodes[n] /\ hw'[n] = hw[n] /\ mRequests' = mRequests
    BY <1>2, <1>6 DEF ExternalWrite, TypeOK
  <2> QED
    BY <1>2, <1>3, <2>1
<1>7. CASE UNCHANGED <<mNodes, hw, mRequests>>
  BY <1>2, <1>3, <1>7
<1> QED
  <2>1. ~Crash
    BY DEF Crash
  <2> QED
    BY <1>4, <1>5, <1>6, <1>7, <2>1, StepEffect

\* A hold leaves nothing behind: the value from before it is back, whatever the
\* order of holds, releases and refused writes (Release::Capture).
THEOREM CaptureReleases ==
    ASSUME \A n \in External : Kind[n] # "capture", ~CanCrash
    PROVE  Spec => []CapturePutsBack
<1>1. Init => CaptureInv
  BY DEF Init, CaptureInv, PutBack, FreshNode
<1>2. TypeOK /\ AllVouched /\ CaptureInv /\ [Next]_vars => CaptureInv'
  BY NextCaptureInv
<1>3. AllVouched /\ CaptureInv => CapturePutsBack
  <2> SUFFICES ASSUME AllVouched, CaptureInv, NEW n \in Node, Kind[n] = "capture",
                      Tokens(mRequests, n) = {}, mNodes[n].written # NULL
               PROVE  hw[n] = outside[n]
    BY DEF CapturePutsBack
  <2>1. /\ PutBack(mNodes[n], hw[n], outside[n], {})
        /\ Vouched(mNodes[n], hw[n], n, {}) /\ n \notin External
    BY DEF CaptureInv, AllVouched
  <2> QED
    BY <2>1 DEF PutBack, Vouched
<1> QED
  BY <1>1, <1>2, <1>3, TypeCorrect, AlwaysVouched, PTL DEF Spec

=============================================================================
