------------------------ MODULE ConnectionPoolProofs ------------------------
(***************************************************************************)
(* The pool never shares, loses or over-allocates a connection and always  *)
(* has one for a handler, for every number of handlers and connections.      *)
(*                                                                         *)
(* The inductive invariant adds to the three properties that a handler has  *)
(* a connection exactly while it runs a handler: the count of the pool     *)
(* then bounds the handlers that have one, so a handler without connection   *)
(* finds the list non-empty or the pool below its size.                    *)
(***************************************************************************)
EXTENDS ConnectionPool, FiniteSetTheorems, TLAPS

\* A handler has a connection exactly while it runs a handler.
HeldWhileBusy == \A w \in Handlers : pc[w] = "idle" <=> held[w] = None

Inv == TypeOK /\ Exclusive /\ Conserved /\ HeldWhileBusy

-----------------------------------------------------------------------------
LEMMA ObjectFacts ==
  /\ Connected \in Object
  /\ Unconnected \in Object
  /\ Broken \in Object
  /\ \A b \in BOOLEAN : [context |-> "null", connected |-> b, old |-> FALSE] \in Object
  /\ \A o \in Object : [o EXCEPT !.old = TRUE] \in Object
BY DEF Object, Connected, Unconnected, Broken

LEMMA HoldingFinite == IsFiniteSet(Holding) /\ Cardinality(Holding) \in Nat
<1>1. IsFiniteSet(Holding)
  BY PoolAssumption, FS_Subset DEF Holding, PoolAssumption
<1> QED
  BY <1>1, FS_CardinalityType

\* A handler without connection leaves room in the count.
LEMMA RoomForOneMore ==
  ASSUME NEW w \in Handlers, held[w] = None
  PROVE  Cardinality(Holding) < maxSize
<1>1. IsFiniteSet(Handlers \ {w}) /\ Cardinality(Handlers \ {w}) = Cardinality(Handlers) - 1
  BY PoolAssumption, FS_RemoveElement DEF PoolAssumption
<1>2. Holding \subseteq Handlers \ {w}
  BY DEF Holding
<1>3. Cardinality(Holding) <= Cardinality(Handlers \ {w})
  BY <1>1, <1>2, FS_Subset
<1>4. Cardinality(Handlers) \in Nat /\ Cardinality(Handlers) <= maxSize /\ maxSize \in Nat
  BY PoolAssumption, FS_CardinalityType DEF PoolAssumption
<1> QED
  BY <1>1, <1>3, <1>4, HoldingFinite

\* Taking and giving back a connection change the count of holders by one.
LEMMA HoldersTake ==
  ASSUME TypeOK, NEW w \in Handlers, held[w] = None, NEW x \in Wrappers,
         held' = [held EXCEPT ![w] = x]
  PROVE  /\ Holding' = Holding \cup {w}
         /\ Cardinality(Holding') = Cardinality(Holding) + 1
<1>1. Holding' = Holding \cup {w}
  BY PoolAssumption DEF TypeOK, Holding, PoolAssumption
<1>2. w \notin Holding
  BY DEF Holding
<1> QED
  BY <1>1, <1>2, HoldingFinite, FS_AddElement

LEMMA HoldersRelease ==
  ASSUME TypeOK, NEW w \in Handlers, held[w] # None,
         held' = [held EXCEPT ![w] = None]
  PROVE  /\ Holding' = Holding \ {w}
         /\ Cardinality(Holding') = Cardinality(Holding) - 1
<1>1. Holding' = Holding \ {w}
  BY DEF TypeOK, Holding
<1>2. w \in Holding
  BY DEF Holding
<1> QED
  BY <1>1, <1>2, HoldingFinite, FS_RemoveElement

\* No connection is in two places after a handler took one that nobody else has.
LEMMA TakeExclusive ==
  ASSUME TypeOK, Exclusive, NEW w \in Handlers, held[w] = None, NEW x \in Wrappers,
         held' = [held EXCEPT ![w] = x],
         \A v \in Holding : held[v] # x,
         Idle' \subseteq Idle, x \notin Idle',
         \A i, j \in DOMAIN wrapperList' : wrapperList'[i] = wrapperList'[j] => i = j
  PROVE  Exclusive'
<1>1. Holding' = Holding \cup {w} /\ held'[w] = x /\ w \notin Holding
  BY HoldersTake DEF TypeOK, Holding
<1>2. \A v \in Holding : held'[v] = held[v]
  BY <1>1 DEF TypeOK, Holding
<1>3. ASSUME NEW u \in Holding', NEW v \in Holding', held'[u] = held'[v]
      PROVE  u = v
  BY <1>1, <1>2, <1>3 DEF Exclusive
<1>4. \A v \in Holding' : held'[v] \notin Idle'
  BY <1>1, <1>2 DEF Exclusive
<1> QED
  BY <1>3, <1>4 DEF Exclusive

\* The rest of the list.
LEMMA RestFacts ==
  ASSUME TypeOK, Exclusive, wrapperList # << >>, wrapperList' = Rest(wrapperList)
  PROVE  /\ wrapperList' \in Seq(Wrappers)
         /\ Len(wrapperList') = Len(wrapperList) - 1
         /\ Head(wrapperList) \in Idle
         /\ Head(wrapperList) \in Wrappers
         /\ Idle' \subseteq Idle
         /\ Head(wrapperList) \notin Idle'
         /\ \A i, j \in DOMAIN wrapperList' : wrapperList'[i] = wrapperList'[j] => i = j
<1>1. /\ wrapperList' \in Seq(Wrappers)
      /\ Len(wrapperList') = Len(wrapperList) - 1
      /\ \A i \in DOMAIN wrapperList' : /\ i + 1 \in DOMAIN wrapperList
                                        /\ wrapperList'[i] = wrapperList[i + 1]
      /\ DOMAIN wrapperList' \subseteq Nat
      /\ 0 \notin DOMAIN wrapperList'
      /\ 1 \in DOMAIN wrapperList /\ Head(wrapperList) = wrapperList[1]
  BY DEF TypeOK, Rest
<1>2. Head(wrapperList) \in Wrappers
  BY <1>1 DEF TypeOK
<1>3. \A i, j \in DOMAIN wrapperList' : wrapperList'[i] = wrapperList'[j] => i = j
  <2> SUFFICES ASSUME NEW i \in DOMAIN wrapperList', NEW j \in DOMAIN wrapperList',
                      wrapperList'[i] = wrapperList'[j]
               PROVE  i = j
    OBVIOUS
  <2>1. i + 1 = j + 1
    BY <1>1 DEF Exclusive
  <2> QED
    BY <1>1, <2>1
<1>4. Idle' \subseteq Idle
  BY <1>1 DEF Idle
<1>5. Head(wrapperList) \notin Idle'
  <2> SUFFICES ASSUME NEW i \in DOMAIN wrapperList', wrapperList'[i] = Head(wrapperList)
               PROVE  FALSE
    BY DEF Idle
  <2>1. i + 1 = 1
    BY <1>1 DEF Exclusive
  <2> QED
    BY <1>1, <2>1
<1> QED
  BY <1>1, <1>2, <1>3, <1>4, <1>5 DEF Idle

-----------------------------------------------------------------------------
LEMMA StartInv ==
  ASSUME wrapperList \in [1..(maxSize \div 2) -> Wrappers],
         \A i, j \in DOMAIN wrapperList : wrapperList[i] = wrapperList[j] => i = j,
         curSize = maxSize \div 2,
         wrapper \in [Wrappers -> {Connected, Unconnected}],
         held = [w \in Handlers |-> None],
         pc = [w \in Handlers |-> "idle"]
  PROVE  Inv
<1>1. maxSize \div 2 \in Nat /\ maxSize \div 2 <= maxSize
  BY PoolAssumption DEF PoolAssumption
<1>2. wrapperList \in Seq(Wrappers) /\ Len(wrapperList) = maxSize \div 2
  BY <1>1
<1>3. TypeOK
  BY <1>1, <1>2, ObjectFacts DEF TypeOK, Phases
<1>4. Holding = {}
  BY DEF Holding
<1>5. Exclusive
  BY <1>4 DEF Exclusive
<1>6. Conserved
  BY <1>1, <1>2, <1>4, FS_EmptySet DEF Conserved
<1> QED
  BY <1>3, <1>5, <1>6 DEF Inv, HeldWhileBusy

LEMMA InitInv == Init => Inv
BY StartInv DEF Init

-----------------------------------------------------------------------------
\* A step that changes objects only.
LEMMA ObjectStep ==
  ASSUME Inv, wrapper' \in [Wrappers -> Object], UNCHANGED <<wrapperList, curSize, held>>,
         pc' \in [Handlers -> Phases], \A w \in Handlers : pc'[w] = "idle" <=> pc[w] = "idle"
  PROVE  Inv'
<1>1. UNCHANGED <<Holding, Idle>>
  BY DEF Holding, Idle
<1>2. TypeOK' /\ HeldWhileBusy'
  BY DEF Inv, TypeOK, HeldWhileBusy
<1>3. Exclusive' /\ Conserved'
  BY <1>1 DEF Inv, Exclusive, Conserved
<1> QED
  BY <1>2, <1>3 DEF Inv

\* A handler that takes connection x and leaves n connections in the list.
LEMMA TakeStep ==
  ASSUME Inv, NEW w \in Handlers, pc[w] = "idle", NEW x \in Wrappers, Take(w, x),
         wrapper' \in [Wrappers -> Object],
         wrapperList' \in Seq(Wrappers),
         \A i, j \in DOMAIN wrapperList' : wrapperList'[i] = wrapperList'[j] => i = j,
         \A v \in Holding : held[v] # x,
         Idle' \subseteq Idle, x \notin Idle',
         curSize' = curSize + 1 + Len(wrapperList') - Len(wrapperList),
         curSize' <= maxSize
  PROVE  Inv'
<1>1. held[w] = None /\ x # None
  BY PoolAssumption DEF Inv, HeldWhileBusy, PoolAssumption
<1>2. held' = [held EXCEPT ![w] = x] /\ pc' = [pc EXCEPT ![w] = "check"]
  BY DEF Take
<1>3. Exclusive'
  BY <1>1, <1>2, TakeExclusive DEF Inv
<1>4. Cardinality(Holding') = Cardinality(Holding) + 1
  BY <1>1, <1>2, HoldersTake DEF Inv
<1>5. curSize' = Len(wrapperList') + Cardinality(Holding') /\ curSize' \in Nat
  <2>1. Len(wrapperList) \in Nat /\ Len(wrapperList') \in Nat
    BY DEF Inv, TypeOK
  <2>2. curSize = Len(wrapperList) + Cardinality(Holding)
    BY DEF Inv, Conserved
  <2> QED
    BY <1>4, <2>1, <2>2, HoldingFinite
<1>6. TypeOK'
  BY <1>2, <1>5 DEF Inv, TypeOK, Phases
<1>7. HeldWhileBusy'
  BY <1>1, <1>2 DEF Inv, HeldWhileBusy, TypeOK
<1> QED
  BY <1>3, <1>5, <1>6, <1>7 DEF Inv, Conserved

LEMMA CreatedObject ==
  ASSUME TypeOK, NEW x \in Wrappers, Create(x)
  PROVE  wrapper' \in [Wrappers -> Object]
BY ObjectFacts DEF Create, TypeOK

LEMMA GetIdleInv == ASSUME Inv, NEW w \in Handlers, GetIdle(w) PROVE Inv'
<1> DEFINE x == Head(wrapperList)
<1>1. TypeOK /\ Exclusive /\ Conserved
  BY DEF Inv
<1>2. /\ pc[w] = "idle" /\ wrapperList # << >> /\ Take(w, x)
      /\ wrapperList' = Rest(wrapperList) /\ UNCHANGED <<curSize, wrapper>>
  BY DEF GetIdle
<1>3. /\ wrapperList' \in Seq(Wrappers) /\ Len(wrapperList') = Len(wrapperList) - 1
      /\ x \in Idle /\ x \in Wrappers /\ Idle' \subseteq Idle /\ x \notin Idle'
      /\ \A i, j \in DOMAIN wrapperList' : wrapperList'[i] = wrapperList'[j] => i = j
  BY <1>1, <1>2, RestFacts
<1>4. \A v \in Holding : held[v] # x
  BY <1>1, <1>3 DEF Exclusive
<1>5. wrapper' \in [Wrappers -> Object]
  BY <1>1, <1>2 DEF TypeOK
<1>6. curSize' = curSize + 1 + Len(wrapperList') - Len(wrapperList) /\ curSize' <= maxSize
  BY <1>1, <1>2, <1>3 DEF TypeOK, Conserved
<1> HIDE DEF x
<1> QED
  BY <1>2, <1>3, <1>4, <1>5, <1>6, TakeStep

LEMMA GetReplacedInv == ASSUME Inv, NEW w \in Handlers, GetReplaced(w) PROVE Inv'
<1>1. TypeOK /\ Exclusive /\ Conserved
  BY DEF Inv
<1>2. /\ pc[w] = "idle" /\ wrapperList # << >>
      /\ wrapperList' = Rest(wrapperList) /\ curSize' = curSize
  BY DEF GetReplaced, Replaced
<1>3. PICK x \in Wrappers : x \notin Live \ {Head(wrapperList)} /\ Create(x) /\ Take(w, x)
  BY DEF GetReplaced
<1>4. /\ wrapperList' \in Seq(Wrappers) /\ Len(wrapperList') = Len(wrapperList) - 1
      /\ Head(wrapperList) \in Idle
      /\ Idle' \subseteq Idle /\ Head(wrapperList) \notin Idle'
      /\ \A i, j \in DOMAIN wrapperList' : wrapperList'[i] = wrapperList'[j] => i = j
  BY <1>1, <1>2, RestFacts
<1>5. x \notin Idle'
  BY <1>3, <1>4 DEF Live
<1>6. \A v \in Holding : held[v] # x
  BY <1>1, <1>3, <1>4 DEF Live, Exclusive
<1>7. wrapper' \in [Wrappers -> Object]
  BY <1>1, <1>3, CreatedObject
<1>8. curSize' = curSize + 1 + Len(wrapperList') - Len(wrapperList) /\ curSize' <= maxSize
  BY <1>1, <1>2, <1>4 DEF TypeOK, Conserved
<1> QED
  BY <1>2, <1>3, <1>4, <1>5, <1>6, <1>7, <1>8, TakeStep

\* An idle handler leaves room in the count, so the pool may grow when its list is empty.
LEMMA GetNewInv == ASSUME Inv, NEW w \in Handlers, GetNew(w) PROVE Inv'
<1>1. TypeOK /\ Exclusive /\ Conserved
  BY DEF Inv
<1>2. pc[w] = "idle" /\ wrapperList' = wrapperList /\ wrapperList = << >> /\ held[w] = None
  BY DEF GetNew, Inv, HeldWhileBusy
<1>3. curSize < maxSize
  <2>1. Cardinality(Holding) < maxSize
    BY <1>2, RoomForOneMore
  <2> QED
    BY <1>1, <1>2, <2>1, HoldingFinite DEF Conserved
<1>4. curSize' = curSize + 1 /\ \E x \in Wrappers \ Live : Create(x) /\ Take(w, x)
  BY <1>3 DEF GetNew, MayGrow
<1>5. PICK x \in Wrappers : x \notin Live /\ Create(x) /\ Take(w, x)
  BY <1>4
<1>6. Idle' = Idle
  BY <1>2 DEF Idle
<1>7. /\ wrapperList' \in Seq(Wrappers)
      /\ \A i, j \in DOMAIN wrapperList' : wrapperList'[i] = wrapperList'[j] => i = j
  BY <1>1, <1>2 DEF TypeOK, Exclusive
<1>8. x \notin Idle' /\ \A v \in Holding : held[v] # x
  BY <1>5, <1>6 DEF Live
<1>9. wrapper' \in [Wrappers -> Object]
  BY <1>1, <1>5, CreatedObject
<1>10. curSize' = curSize + 1 + Len(wrapperList') - Len(wrapperList) /\ curSize' <= maxSize
  BY <1>1, <1>2, <1>3, <1>4, PoolAssumption DEF TypeOK, PoolAssumption
<1> QED
  BY <1>2, <1>5, <1>6, <1>7, <1>8, <1>9, <1>10, TakeStep

LEMMA ReleaseInv == ASSUME Inv, NEW w \in Handlers, Release(w) PROVE Inv'
<1> DEFINE x == held[w]
<1>1. TypeOK /\ Exclusive /\ Conserved /\ HeldWhileBusy
  BY DEF Inv
<1>2. /\ pc[w] # "idle" /\ x # None /\ x \in Wrappers /\ w \in Holding
      /\ wrapperList' = Append(wrapperList, x)
      /\ held' = [held EXCEPT ![w] = None] /\ pc' = [pc EXCEPT ![w] = "idle"]
      /\ UNCHANGED <<curSize, wrapper>>
  BY <1>1 DEF Release, HeldWhileBusy, TypeOK, Holding
<1>3. Holding' = Holding \ {w} /\ Cardinality(Holding') = Cardinality(Holding) - 1
  BY <1>1, <1>2, HoldersRelease
<1>4. \A v \in Holding' : v \in Holding /\ held'[v] = held[v] /\ held[v] # x
  BY <1>1, <1>2, <1>3 DEF Exclusive, TypeOK, Holding
<1> HIDE DEF x
<1>5. /\ wrapperList' \in Seq(Wrappers) /\ Len(wrapperList') = Len(wrapperList) + 1
      /\ Len(wrapperList) \in Nat
      /\ \A i \in DOMAIN wrapperList' :
           \/ i \in DOMAIN wrapperList /\ wrapperList'[i] = wrapperList[i]
           \/ i = Len(wrapperList) + 1 /\ wrapperList'[i] = x
  BY <1>1, <1>2 DEF TypeOK
<1>6. x \notin Idle
  BY <1>1, <1>2 DEF Exclusive, x
<1>7. \A i, j \in DOMAIN wrapperList' : wrapperList'[i] = wrapperList'[j] => i = j
  BY <1>1, <1>5, <1>6 DEF Exclusive, Idle
<1>8. \A v \in Holding' : held'[v] \notin Idle'
  <2> SUFFICES ASSUME NEW v \in Holding', NEW i \in DOMAIN wrapperList',
                      held'[v] = wrapperList'[i]
               PROVE  FALSE
    BY DEF Idle
  <2>1. held[v] \notin Idle
    BY <1>1, <1>4 DEF Exclusive
  <2> QED
    BY <1>4, <1>5, <2>1 DEF Idle
<1>9. \A u, v \in Holding' : held'[u] = held'[v] => u = v
  BY <1>1, <1>4 DEF Exclusive
<1>10. curSize' = Len(wrapperList') + Cardinality(Holding') /\ curSize' <= maxSize
  BY <1>1, <1>2, <1>3, <1>5, HoldingFinite DEF Conserved
<1>11. TypeOK'
  BY <1>1, <1>2, <1>5 DEF TypeOK, Phases
<1>12. HeldWhileBusy'
  BY <1>1, <1>2 DEF TypeOK, HeldWhileBusy
<1> QED
  BY <1>7, <1>8, <1>9, <1>10, <1>11, <1>12 DEF Inv, Exclusive, Conserved

LEMMA CheckOpenInv == ASSUME Inv, NEW w \in Handlers, CheckOpen(w) PROVE Inv'
<1>1. /\ pc[w] = "check" /\ pc' = [pc EXCEPT ![w] = "use"]
      /\ UNCHANGED <<wrapperList, curSize, wrapper, held>>
  BY DEF CheckOpen
<1>2. /\ pc' \in [Handlers -> Phases] /\ wrapper' \in [Wrappers -> Object]
      /\ \A v \in Handlers : pc'[v] = "idle" <=> pc[v] = "idle"
  BY <1>1 DEF Inv, TypeOK, Phases
<1> QED
  BY <1>1, <1>2, ObjectStep

\* Commands and the passing of time change objects only.
LEMMA CommandInv ==
  ASSUME Inv, NEW w \in Handlers, Reconnect(w) \/ CommandFails(w)
  PROVE  Inv'
<1>1. UNCHANGED <<wrapperList, curSize, held, pc>>
  BY DEF Reconnect, CommandFails
<1>2. (~Closed(held[w])) \in BOOLEAN
  OBVIOUS
<1>3. PICK o \in Object : wrapper' = [wrapper EXCEPT ![held[w]] = o]
  <2>1. [context |-> "null", connected |-> ~Closed(held[w]), old |-> FALSE] \in Object
    BY <1>2, ObjectFacts
  <2> QED
    BY <2>1, ObjectFacts DEF Reconnect, CommandFails
<1>4. wrapper' \in [Wrappers -> Object]
  BY <1>3 DEF Inv, TypeOK
<1> QED
  BY <1>1, <1>4, ObjectStep DEF Inv, TypeOK

LEMMA AgeInv == ASSUME Inv, NEW x \in Wrappers, Age(x) PROVE Inv'
<1>1. UNCHANGED <<wrapperList, curSize, held, pc>>
  BY DEF Age
<1>2. PICK o \in Object : wrapper' = [wrapper EXCEPT ![x] = o]
  BY ObjectFacts DEF Age, Inv, TypeOK
<1>3. wrapper' \in [Wrappers -> Object]
  BY <1>2 DEF Inv, TypeOK
<1> QED
  BY <1>1, <1>3, ObjectStep DEF Inv, TypeOK

\* A server that is started again is in an initial state.
LEMMA DieInv == ASSUME NEW w \in Handlers, Die(w) PROVE Inv'
<1>1. Init'
  BY DEF Die, Init
<1>2. Init' => Inv'
  BY InitInv, PTL
<1> QED
  BY <1>1, <1>2

LEMMA NextInv == Inv /\ [Next]_vars => Inv'
<1> SUFFICES ASSUME Inv, [Next]_vars PROVE Inv'
  OBVIOUS
<1>1. CASE UNCHANGED vars
  BY <1>1, ObjectStep DEF vars, Inv, TypeOK
<1>2. ASSUME NEW w \in Handlers, Step(w) PROVE Inv'
  BY <1>2, GetIdleInv, GetReplacedInv, GetNewInv, CheckOpenInv, ReleaseInv,
     CommandInv, DieInv DEF Step
<1>3. ASSUME NEW x \in Wrappers, Age(x) PROVE Inv'
  BY <1>3, AgeInv
<1> QED
  BY <1>1, <1>2, <1>3 DEF Next

-----------------------------------------------------------------------------
(* The theorems: Inv holds in every reachable state, and implies each property. *)

LEMMA InvHolds == Spec => []Inv
BY InitInv, NextInv, PTL DEF Spec

\* Every variable keeps its type.
THEOREM PoolTypeCorrect == Spec => []TypeOK
<1>1. Inv => TypeOK
  BY DEF Inv
<1> QED
  BY <1>1, InvHolds, PTL

\* No connection is in two hands, or in a hand and in the list.
THEOREM NeverShared == Spec => []Exclusive
<1>1. Inv => Exclusive
  BY DEF Inv
<1> QED
  BY <1>1, InvHolds, PTL

\* The count of the pool is that of the connections in the list and in use.
THEOREM NoneLost == Spec => []Conserved
<1>1. Inv => Conserved
  BY DEF Inv
<1> QED
  BY <1>1, InvHolds, PTL

\* A server with no more handlers than connections never runs out of them.
THEOREM AlwaysServed == Spec => []Served
<1>1. Inv => Served
  BY DEF Inv, HeldWhileBusy, Served
<1> QED
  BY <1>1, InvHolds, PTL

=============================================================================
