--------------------------- MODULE ConnectionPool ---------------------------
(***************************************************************************)
(* RedisWrapperPool and the RedisWrapper connections it hands out.  A      *)
(* request takes a connection when its handler starts, sends commands over *)
(* it, and a guard puts it back when the handler ends, however it ends.    *)
(* GetRedisWrapper and ReleaseRedisWrapper run under the pool's mutex, so  *)
(* each is one step.                                                       *)
(*                                                                         *)
(* There is one call per worker thread.  MysqlWrapperPool has the same     *)
(* code, and there a thread may be in two calls, because updateOnline,     *)
(* batchExportCode, getNotUsableCoupons and getRelatedCouponGroups call    *)
(* another handler while they have a connection.  The pools are as large   *)
(* as the calls are many: twice the threads, and as large as the threads   *)
(* in the push server, where no call is nested.                            *)
(***************************************************************************)
EXTENDS Integers, Sequences, FiniteSets

CONSTANTS
  Handlers,   \* calls of handlers that may be in progress at once
  Wrappers,   \* addresses of RedisWrapper objects
  maxSize,    \* connections the pool may hold
  None        \* NULL

ASSUME PoolAssumption ==
  /\ IsFiniteSet(Handlers)
  /\ maxSize \in Nat
  /\ Cardinality(Handlers) <= maxSize   \* as the servers configure it
  /\ None \notin Wrappers

VARIABLES
  wrapperList,  \* the idle connections, oldest first
  curSize,      \* connections that exist
  wrapper,      \* wrapper[x] = the object at address x
  held,         \* held[w] = connection of call w
  pc            \* pc[w] = where the handler of call w is

vars == <<wrapperList, curSize, wrapper, held, pc>>

\* _pRedis is a working context, one with an error, or NULL; old says that
\* REDIS_SERVER_TIMEOUT has passed since _wrapper_start_time.
Object == [context : {"open", "broken", "null"}, connected : BOOLEAN, old : BOOLEAN]
Connected == [context |-> "open", connected |-> TRUE, old |-> FALSE]
Unconnected == [context |-> "null", connected |-> FALSE, old |-> FALSE]
Broken == [context |-> "broken", connected |-> TRUE, old |-> FALSE]
Phases == {"idle", "check", "use"}

TypeOK ==
  /\ wrapperList \in Seq(Wrappers)
  /\ curSize \in Nat
  /\ wrapper \in [Wrappers -> Object]
  /\ held \in [Handlers -> Wrappers \cup {None}]
  /\ pc \in [Handlers -> Phases]

-----------------------------------------------------------------------------
(* Mutants: definitions below with a bug a change could bring in. *)
Rest_KeepsTaken(list) == list
MayGrow_OneLess(n) == n + 1 < maxSize
Replaced_Counts(n) == n + 1
Replaced_Uncounts(n) == n - 1

-----------------------------------------------------------------------------
\* The addresses in the list, and the calls with a connection.
Idle == {wrapperList[i] : i \in DOMAIN wrapperList}
Holding == {w \in Handlers : held[w] # None}
Live == Idle \cup {held[w] : w \in Holding}

\* What GetRedisWrapper leaves in the list.
Rest(list) == Tail(list)
\* The test for one more connection, and the count after one was replaced.
MayGrow(n) == n < maxSize
Replaced(n) == n

\* isClosed
Closed(x) == ~wrapper[x].connected

Take(w, x) ==
  /\ held' = [held EXCEPT ![w] = x]
  /\ pc' = [pc EXCEPT ![w] = "check"]

\* CreateRedisWrapper: new, and the constructor tries to connect.
Create(x) == \E o \in {Connected, Unconnected} : wrapper' = [wrapper EXCEPT ![x] = o]

\* The pool opens half of the connections it may hold.
Init ==
  /\ wrapperList \in [1..(maxSize \div 2) -> Wrappers]
  /\ \A i, j \in DOMAIN wrapperList : wrapperList[i] = wrapperList[j] => i = j
  /\ curSize = maxSize \div 2
  /\ wrapper \in [Wrappers -> {Connected, Unconnected}]
  /\ held = [w \in Handlers |-> None]
  /\ pc = [w \in Handlers |-> "idle"]

\* GetRedisWrapper, the first idle connection is not closed.
GetIdle(w) ==
  /\ pc[w] = "idle"
  /\ wrapperList # << >>
  /\ ~Closed(Head(wrapperList))
  /\ Take(w, Head(wrapperList))
  /\ wrapperList' = Rest(wrapperList)
  /\ UNCHANGED <<curSize, wrapper>>

\* A closed one is deleted and another created, perhaps at the same address.
GetReplaced(w) ==
  /\ pc[w] = "idle"
  /\ wrapperList # << >>
  /\ Closed(Head(wrapperList))
  /\ \E x \in Wrappers :
       /\ x \notin Live \ {Head(wrapperList)}
       /\ Create(x)
       /\ Take(w, x)
  /\ wrapperList' = Rest(wrapperList)
  /\ curSize' = Replaced(curSize)

\* An empty list: another connection, or NULL when there are maxSize already.
GetNew(w) ==
  /\ pc[w] = "idle"
  /\ wrapperList = << >>
  /\ IF MayGrow(curSize)
     THEN /\ \E x \in Wrappers \ Live : Create(x) /\ Take(w, x)
          /\ curSize' = curSize + 1
     ELSE Take(w, None) /\ UNCHANGED <<curSize, wrapper>>
  /\ UNCHANGED wrapperList

\* The handler throws REDIS_DISCONNECTED for NULL or a closed connection.
CheckOpen(w) ==
  /\ pc[w] = "check"
  /\ held[w] # None
  /\ ~Closed(held[w])
  /\ pc' = [pc EXCEPT ![w] = "use"]
  /\ UNCHANGED <<wrapperList, curSize, wrapper, held>>

\* The handler returns or throws: ~RedisWrapperGuard, ReleaseRedisWrapper.
Release(w) ==
  /\ \/ pc[w] = "use"
     \/ pc[w] = "check" /\ IF held[w] = None THEN TRUE ELSE Closed(held[w])
  /\ wrapperList' = IF held[w] = None THEN wrapperList ELSE Append(wrapperList, held[w])
  /\ held' = [held EXCEPT ![w] = None]
  /\ pc' = [pc EXCEPT ![w] = "idle"]
  /\ UNCHANGED <<curSize, wrapper>>

\* A command first reconnects if the connection is closed or old.  A failed
\* reconnection leaves NULL in _pRedis but does not reset connected.
NeedsReconnect(x) == Closed(x) \/ wrapper[x].old

Reconnect(w) ==
  /\ pc[w] = "use"
  /\ NeedsReconnect(held[w])
  /\ \E o \in {Connected, Broken,
               [context |-> "null", connected |-> ~Closed(held[w]), old |-> FALSE]} :
       wrapper' = [wrapper EXCEPT ![held[w]] = o]
  /\ UNCHANGED <<wrapperList, curSize, held, pc>>

\* An input or output error stays in the context; other commands change nothing.
CommandFails(w) ==
  /\ pc[w] = "use"
  /\ ~NeedsReconnect(held[w])
  /\ wrapper[held[w]].context = "open"
  /\ wrapper' = [wrapper EXCEPT ![held[w]] = Broken]
  /\ UNCHANGED <<wrapperList, curSize, held, pc>>

\* REDIS_SERVER_TIMEOUT passes.
Age(x) ==
  /\ x \in Live
  /\ wrapper' = [wrapper EXCEPT ![x] = [@ EXCEPT !.old = TRUE]]
  /\ UNCHANGED <<wrapperList, curSize, held, pc>>

\* A command dereferences a NULL context: the server dies and is started again.
Die(w) ==
  /\ pc[w] = "use"
  /\ ~NeedsReconnect(held[w])
  /\ wrapper[held[w]].context = "null"
  /\ wrapperList' \in [1..(maxSize \div 2) -> Wrappers]
  /\ \A i, j \in DOMAIN wrapperList' : wrapperList'[i] = wrapperList'[j] => i = j
  /\ curSize' = maxSize \div 2
  /\ wrapper' \in [Wrappers -> {Connected, Unconnected}]
  /\ held' = [v \in Handlers |-> None]
  /\ pc' = [v \in Handlers |-> "idle"]

Step(w) ==
  \/ GetIdle(w) \/ GetReplaced(w) \/ GetNew(w)
  \/ CheckOpen(w) \/ Release(w) \/ Reconnect(w) \/ CommandFails(w) \/ Die(w)

Next ==
  \/ \E w \in Handlers : Step(w)
  \/ \E x \in Wrappers : Age(x)

Spec == Init /\ [][Next]_vars

-----------------------------------------------------------------------------
(***************************************************************************)
(* Safety.                                                                 *)
(***************************************************************************)

\* A connection is in one place: two handlers never send commands over the same
\* one, and none is handed out while it is idle (Get and Release).
Exclusive ==
  /\ \A i, j \in DOMAIN wrapperList : wrapperList[i] = wrapperList[j] => i = j
  /\ \A v, w \in Holding : held[v] = held[w] => v = w
  /\ \A w \in Holding : held[w] \notin Idle

\* No connection is lost or counted twice, over any sequence of requests, errors
\* and replacements, and the pool stays within its size (curSize).
Conserved ==
  /\ curSize = Len(wrapperList) + Cardinality(Holding)
  /\ curSize <= maxSize

\* With at least as many connections as calls no handler is ever given
\* NULL, so the error path that uses the pointer is never taken (GetRedisWrapper).
Served == \A w \in Handlers : pc[w] # "idle" => held[w] # None

(***************************************************************************)
(* What a comment says and the code does not keep.                         *)
(***************************************************************************)

\* "If the connection is closed, delete it and make a new one": a connection
\* that the handler's test lets through has a context to send commands over.
OpenHasContext ==
  \A w \in Handlers : pc[w] = "use" /\ ~NeedsReconnect(held[w]) =>
    wrapper[held[w]].context # "null"

=============================================================================
