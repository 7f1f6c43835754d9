----------------------- MODULE CouponLifecycleProofs -----------------------
(* Theorems about CouponLifecycle, for every value of its constants. *)
EXTENDS CouponLifecycle, FiniteSetTheorems, TLAPS

-----------------------------------------------------------------------------
(***************************************************************************)
(* Types: what a worker has in hand fits the step he is at.                *)
(***************************************************************************)

Handling == {"readList", "readCache", "readStatus", "writeStatus", "writeRow", "count",
             "writeBack"}
Listing == {"readCodes", "readHits", "readRows", "readGroups", "rebuild"}
UpToRow == {"readList", "readCache", "readStatus", "writeStatus", "writeRow"}
Decided == {"writeStatus", "writeRow", "count", "writeBack"}
Written == {"writeRow", "count", "writeBack"}

WorkerOK(w) ==
  /\ pc[w] \in Handling => req[w] \in [op : Operations, coupon : Coupons, order : Orders]
  /\ pc[w] \in Listing => req[w].op \in DOMAIN Category
  /\ pc[w] \in Decided => Len(todo[w]) = 1
  /\ pc[w] \in {"readGroups", "rebuild"} => todo[w] # << >>

LocalOK ==
  /\ pc \in [Workers -> Steps]
  /\ req \in [Workers -> Request]
  /\ seen \in [Workers -> Seq(Coupons)]
  /\ hit \in [Workers -> [Coupons -> Copy \cup {Absent}]]
  /\ todo \in [Workers -> Seq(Item)]
  /\ \A w \in Workers : WorkerOK(w)

SharedOK ==
  /\ scene \in Scenes
  /\ use_status \in [Coupons -> Status]
  /\ row \in [Coupons -> Row]
  /\ payed_count \in Nat
  /\ version \in Nat
  /\ expired \in BOOLEAN
  /\ list \in Seq(Coupons)
  /\ cache \in [Coupons -> Copy \cup {Absent}]
  /\ acked \subseteq [op : Operations, coupon : Coupons, order : Orders]
  /\ faults \in Nat

Typed == LocalOK /\ SharedOK

LEMMA TypedIsTypeOK == Typed => TypeOK
  BY DEF Typed, LocalOK, SharedOK, TypeOK, Request

LEMMA FunctionIsList ==
  ASSUME NEW n \in Nat, NEW f \in [1..n -> Item]
  PROVE  f \in Seq(Item) /\ Len(f) = n /\ DOMAIN f = 1..n /\ (n # 0 => f # << >>)
<1>1. f \in Seq(Item) /\ Len(f) = n
  OBVIOUS
<1>2. QED
  BY <1>1

LEMMA HeadOfList ==
  ASSUME NEW s \in Seq(Item), s # << >>
  PROVE  Head(s) \in Item /\ Head(s) = s[1] /\ 1 \in DOMAIN s
<1>1. Len(s) \in Nat /\ Len(s) # 0
  OBVIOUS
<1>2. QED
  BY <1>1

LEMMA TailOfList ==
  ASSUME NEW s \in Seq(Item), s # << >>, Len(s) # 1
  PROVE  /\ Tail(s) \in Seq(Item) /\ Tail(s) # << >>
         /\ \A i \in DOMAIN Tail(s) : i + 1 \in DOMAIN s /\ Tail(s)[i] = s[i + 1]
<1>1. Len(s) \in Nat /\ Len(s) # 0
  OBVIOUS
<1>2. Tail(s) \in Seq(Item) /\ Len(Tail(s)) = Len(s) - 1
  OBVIOUS
<1>3. \A i \in 1..(Len(s) - 1) : i + 1 \in DOMAIN s /\ Tail(s)[i] = s[i + 1]
  BY <1>1
<1>4. DOMAIN Tail(s) = 1..(Len(s) - 1)
  BY <1>1, <1>2
<1>5. Tail(s) # << >>
  <2>1. PICK t \in Seq(Item) : t = Tail(s) /\ Len(t) = Len(s) - 1
    BY <1>2
  <2>2. Len(t) # 0
    BY <1>1, <2>1
  <2>3. t # << >>
    BY <2>2
  <2>4. QED
    BY <2>1, <2>3
<1>6. QED
  BY <1>2, <1>3, <1>4, <1>5

\* What w does leaves what the other workers hold.
Others(w) ==
  \A v \in Workers : v # w => /\ pc'[v] = pc[v] /\ req'[v] = req[v] /\ seen'[v] = seen[v]
                              /\ hit'[v] = hit[v] /\ todo'[v] = todo[v]

LEMMA NothingTyped == Nothing \in [Coupons -> Copy \cup {Absent}] /\ \A c \in Coupons : Nothing[c] = Absent
  BY DEF Nothing

LEMMA NoRequestTyped == NoRequest \in Request
  BY DEF NoRequest, Request, Category

LEMMA OperationRequest ==
  ASSUME NEW op \in Operations, NEW c \in Coupons, NEW o \in Orders
  PROVE  /\ [op |-> op, coupon |-> c, order |-> o] \in [op : Operations, coupon : Coupons, order : Orders]
         /\ [op |-> op, coupon |-> c, order |-> o] \in Request
  BY DEF Request

\* The request at work, for a handler.
LEMMA AtWork ==
  ASSUME LocalOK, NEW w \in Workers, pc[w] \in Handling
  PROVE  \E op \in Operations, c \in Coupons, o \in Orders :
           req[w] = [op |-> op, coupon |-> c, order |-> o]
<1>1. req[w] \in [op : Operations, coupon : Coupons, order : Orders]
  BY DEF LocalOK, WorkerOK
<1>2. QED
  BY <1>1

LEMMA FaultTyped ==
  ASSUME SharedOK, Fault \/ NoFault
  PROVE  faults' \in Nat /\ (faults' = 0 => NoFault /\ ~ Fault /\ faults = 0)
  BY DEF SharedOK, Fault, NoFault

LEMMA FaultKept ==
  ASSUME SharedOK, Fault \/ NoFault
  PROVE  faults' \in Nat /\ (faults' = 0 => faults = 0)
  BY FaultTyped

LEMMA SharedStill ==
  ASSUME SharedOK, UNCHANGED <<db, env, redis, acked>>, faults' \in Nat
  PROVE  SharedOK'
  BY DEF SharedOK, db, env, redis

LEMMA DoneLocal ==
  ASSUME LocalOK, NEW w \in Workers, Done(w)
  PROVE  /\ LocalOK' /\ Others(w)
         /\ pc'[w] = "idle" /\ req'[w] = NoRequest
<1>1. /\ pc' \in [Workers -> Steps] /\ req' \in [Workers -> Request]
      /\ seen' \in [Workers -> Seq(Coupons)] /\ todo' \in [Workers -> Seq(Item)]
      /\ pc'[w] = "idle" /\ req'[w] = NoRequest
  BY NoRequestTyped DEF LocalOK, Done, Goto, Steps
<1>2. hit' \in [Workers -> [Coupons -> Copy \cup {Absent}]]
  BY NothingTyped DEF LocalOK, Done
<1>3. Others(w)
  BY DEF LocalOK, Done, Goto, Others
<1>4. \A v \in Workers : WorkerOK(v)'
  BY <1>1, <1>3 DEF LocalOK, WorkerOK, Others, Handling, Listing, Decided
<1>5. QED
  BY <1>1, <1>2, <1>3, <1>4 DEF LocalOK

-----------------------------------------------------------------------------
(* The handlers' steps keep the types. *)

LEMMA OthersLocal ==
  ASSUME LocalOK, NEW w \in Workers, Others(w), WorkerOK(w)',
         /\ pc' \in [Workers -> Steps] /\ req' \in [Workers -> Request]
         /\ seen' \in [Workers -> Seq(Coupons)] /\ todo' \in [Workers -> Seq(Item)]
         /\ hit' \in [Workers -> [Coupons -> Copy \cup {Absent}]]
  PROVE  LocalOK'
<1>1. ASSUME NEW v \in Workers, v # w PROVE WorkerOK(v)'
  BY <1>1 DEF LocalOK, WorkerOK, Others
<1>2. QED
  BY <1>1 DEF LocalOK

LEMMA TakeLocal ==
  ASSUME LocalOK, NEW w \in Workers, NEW r \in Request, NEW step \in Steps, Take(w, r, step),
         \/ step = "readList" /\ r \in [op : Operations, coupon : Coupons, order : Orders]
         \/ step = "readCodes" /\ r.op \in DOMAIN Category
  PROVE  LocalOK' /\ Others(w) /\ pc'[w] = step /\ req'[w] = r /\ pc[w] = "idle"
<1>1. /\ pc' \in [Workers -> Steps] /\ req' \in [Workers -> Request] /\ pc[w] = "idle"
      /\ pc'[w] = step /\ req'[w] = r /\ UNCHANGED <<seen, hit, todo>> /\ Others(w)
  BY DEF LocalOK, Take, Goto, At, Others
<1>2. WorkerOK(w)'
  BY <1>1 DEF WorkerOK, Handling, Listing, Decided
<1>3. QED
  BY <1>1, <1>2, OthersLocal DEF LocalOK

LEMMA CategoryOps == DOMAIN Category = {"usable", "used", "expired"}
  BY DEF Category

LEMMA BeginTyped ==
  ASSUME Typed, NEW w \in Workers, NEW op \in Operations, NEW c \in Coupons, NEW o \in Orders,
         Begin(w, op, c, o)
  PROVE  Typed' /\ Others(w)
<1>1. Take(w, [op |-> op, coupon |-> c, order |-> o], "readList")
  BY DEF Begin
<1>2. LocalOK' /\ Others(w)
  BY <1>1, OperationRequest, TakeLocal DEF Typed, Steps
<1>3. SharedOK'
  BY SharedStill DEF Begin, NoFault, Typed, SharedOK
<1>4. QED
  BY <1>2, <1>3 DEF Typed

LEMMA BeginListTyped ==
  ASSUME Typed, NEW w \in Workers, NEW category \in DOMAIN Category, BeginList(w, category)
  PROVE  Typed' /\ Others(w)
<1>1. Take(w, [op |-> category, coupon |-> None, order |-> None], "readCodes")
  BY DEF BeginList
<1>2. [op |-> category, coupon |-> None, order |-> None] \in Request
  BY CategoryOps DEF Request
<1>3. LocalOK' /\ Others(w)
  BY <1>1, <1>2, TakeLocal DEF Typed, Steps
<1>4. SharedOK'
  BY SharedStill DEF BeginList, NoFault, Typed, SharedOK
<1>5. QED
  BY <1>3, <1>4 DEF Typed

LEMMA ReadTyped ==
  ASSUME Typed, NEW w \in Workers,
         ReadList(w) \/ ReadCache(w) \/ ReadCodes(w) \/ ReadHits(w)
  PROVE  Typed' /\ Others(w)
<1>0. SharedOK'
  <2>1. faults' \in Nat
    BY FaultTyped DEF Typed, ReadList, ReadCache, ReadCodes, ReadHits
  <2>2. QED
    BY <2>1, SharedStill DEF Typed, ReadList, ReadCache, ReadCodes, ReadHits
<1>1. CASE ReadList(w)
  <2>1. /\ pc[w] = "readList" /\ pc'[w] \in {"readCache", "readStatus"}
        /\ pc' \in [Workers -> Steps] /\ seen' \in [Workers -> Seq(Coupons)]
        /\ UNCHANGED <<req, hit, todo>> /\ Others(w)
    BY <1>1 DEF ReadList, Typed, LocalOK, SharedOK, Goto, At, Others, Steps
  <2>2. WorkerOK(w)'
    BY <2>1 DEF Typed, LocalOK, WorkerOK, Handling, Listing, Decided
  <2>3. QED
    BY <2>1, <2>2, <1>0, OthersLocal DEF Typed, LocalOK
<1>2. CASE ReadCache(w)
  <2>a. LocalOK /\ SharedOK /\ pc[w] = "readCache"
    BY <1>2 DEF Typed, ReadCache, At
  <2>b. req[w] \in [op : Operations, coupon : Coupons, order : Orders]
    BY <2>a DEF LocalOK, WorkerOK, Handling
  <2>c. PICK c \in Coupons, k \in Copy \cup {Absent} : c = Coupon(w) /\ k = cache[c]
    BY <2>a, <2>b DEF Coupon, SharedOK
  <2>d. hit' = hit \/ hit' = [hit EXCEPT ![w][c] = k]
    BY <1>2, <2>c DEF ReadCache
  <2>e. PICK h \in [Coupons -> Copy \cup {Absent}] : hit' = [hit EXCEPT ![w] = h]
    <3>1. hit[w] \in [Coupons -> Copy \cup {Absent}] /\ hit = [hit EXCEPT ![w] = hit[w]]
      BY <2>a DEF LocalOK
    <3>2. [hit[w] EXCEPT ![c] = k] \in [Coupons -> Copy \cup {Absent}]
      BY <3>1
    <3>3. QED
      BY <2>d, <3>1, <3>2
  <2>f. /\ pc' = [pc EXCEPT ![w] = "readStatus"] /\ UNCHANGED <<req, seen, todo>>
    BY <1>2 DEF ReadCache, Goto
  <2>1. /\ pc'[w] = "readStatus" /\ pc' \in [Workers -> Steps]
        /\ hit' \in [Workers -> [Coupons -> Copy \cup {Absent}]]
        /\ UNCHANGED <<req, seen, todo>> /\ Others(w)
    BY <2>a, <2>e, <2>f DEF LocalOK, Others, Steps
  <2>2. WorkerOK(w)'
    BY <2>a, <2>1 DEF LocalOK, WorkerOK, Handling, Listing, Decided
  <2>3. QED
    BY <2>1, <2>2, <1>0, OthersLocal DEF Typed, LocalOK
<1>3. CASE ReadCodes(w)
  <2>1. /\ pc[w] = "readCodes" /\ pc'[w] = "readHits" /\ pc' \in [Workers -> Steps]
        /\ seen' \in [Workers -> Seq(Coupons)] /\ UNCHANGED <<req, hit, todo>> /\ Others(w)
    BY <1>3 DEF ReadCodes, Typed, LocalOK, SharedOK, Goto, At, Others, Steps
  <2>2. WorkerOK(w)'
    BY <2>1 DEF Typed, LocalOK, WorkerOK, Handling, Listing, Decided
  <2>3. QED
    BY <2>1, <2>2, <1>0, OthersLocal DEF Typed, LocalOK
<1>4. CASE ReadHits(w)
  <2>0. ASSUME NEW codes, NEW cat
        PROVE  Cached(codes, cat) \in [Coupons -> Copy \cup {Absent}]
    BY DEF Cached, Typed, SharedOK
  <2>1. /\ pc[w] = "readHits" /\ pc'[w] = "readRows" /\ pc' \in [Workers -> Steps]
        /\ UNCHANGED <<req, seen, todo>>
        /\ hit' = hit \/ hit' = [hit EXCEPT ![w] = Cached(seen[w], Category[req[w].op])]
    BY <1>4 DEF ReadHits, Typed, LocalOK, Goto, At, Steps
  <2>2. PICK h \in [Coupons -> Copy \cup {Absent}] : hit' = hit \/ hit' = [hit EXCEPT ![w] = h]
    BY <2>0, <2>1 DEF Typed, LocalOK
  <2>3. hit' \in [Workers -> [Coupons -> Copy \cup {Absent}]] /\ Others(w)
    BY <1>4, <2>1, <2>2 DEF ReadHits, Typed, LocalOK, Others, Goto
  <2>4. WorkerOK(w)'
    BY <2>1 DEF Typed, LocalOK, WorkerOK, Handling, Listing, Decided
  <2>5. QED
    BY <2>1, <2>3, <2>4, <1>0, OthersLocal DEF Typed, LocalOK
<1>5. QED
  BY <1>1, <1>2, <1>3, <1>4

LEMMA RefuseTyped ==
  ASSUME Typed, NEW w \in Workers,
         CacheRefuses(w) \/ StatusRefuses(w) \/ WriteUnchanged(w) \/ ListFails(w)
  PROVE  Typed' /\ Others(w)
<1>1. Done(w) /\ UNCHANGED <<db, env, redis, acked>> /\ (Fault \/ NoFault)
  BY DEF CacheRefuses, StatusRefuses, WriteUnchanged, ListFails
<1>2. QED
  BY <1>1, DoneLocal, FaultTyped, SharedStill DEF Typed

LEMMA TargetTyped ==
  ASSUME NEW op \in Operations
  PROVE  Target(op) \in Status
  BY DEF Operations, Target, Status

LEMMA RowAfterTyped ==
  ASSUME SharedOK, NEW op \in Operations, NEW c \in Coupons, NEW o \in Orders
  PROVE  RowAfter(op, c, o) \in Row
<1>1. row[c] \in Row
  BY DEF SharedOK
<1>2. CASE op = "freeze"
  BY <1>2 DEF RowAfter, Row
<1>3. CASE op = "pay"
  BY <1>1, <1>3 DEF RowAfter, Row
<1>4. CASE op = "rollback"
  BY <1>1, <1>4 DEF RowAfter, Row
<1>5. QED
  BY <1>2, <1>3, <1>4 DEF Operations

LEMMA ReadStatusTyped ==
  ASSUME Typed, NEW w \in Workers, ReadStatus(w)
  PROVE  /\ Typed' /\ Others(w)
         /\ todo'[w] \in Seq(Item) /\ Len(todo'[w]) = 1
         /\ todo'[w][1].status = Target(req[w].op) /\ todo'[w][1].coupon = req[w].coupon
<1>0. LocalOK /\ SharedOK /\ pc[w] = "readStatus"
  BY DEF Typed, ReadStatus, At
<1>1. PICK op \in Operations, c \in Coupons, o \in Orders :
        req[w] = [op |-> op, coupon |-> c, order |-> o]
  BY <1>0, AtWork DEF Handling
<1>2. PICK copy \in Copy \cup {Absent} : copy = hit[w][c]
  BY <1>0, <1>1 DEF LocalOK
<1>3. PICK v \in Nat : v = IF copy = Absent THEN 0 ELSE copy.version
  BY <1>2 DEF Copy
<1>4. PICK s \in Status : s = Target(op)
  BY TargetTyped
<1>5. todo' = [todo EXCEPT ![w] = << [coupon |-> c, status |-> s, version |-> v] >>]
  BY <1>1, <1>2, <1>3, <1>4 DEF ReadStatus, Coupon
<1>6. << [coupon |-> c, status |-> s, version |-> v] >> \in Seq(Item)
  BY <1>3, <1>4 DEF Item
<1>7. /\ todo' \in [Workers -> Seq(Item)]
      /\ todo'[w] = << [coupon |-> c, status |-> s, version |-> v] >>
  BY <1>0, <1>5, <1>6 DEF LocalOK
<1>8. /\ pc' = [pc EXCEPT ![w] = "writeStatus"] /\ UNCHANGED <<req, seen, hit>>
      /\ NoFault /\ UNCHANGED <<db, env, redis, acked>>
  BY DEF ReadStatus, Goto
<1>9. pc' \in [Workers -> Steps] /\ pc'[w] = "writeStatus" /\ Others(w)
  BY <1>0, <1>5, <1>8 DEF LocalOK, Steps, Writes, Others
<1>10. WorkerOK(w)'
  BY <1>0, <1>1, <1>7, <1>8, <1>9 DEF LocalOK, WorkerOK, Handling, Listing, Decided
<1>11. LocalOK'
  BY <1>0, <1>7, <1>8, <1>9, <1>10, OthersLocal DEF LocalOK
<1>12. SharedOK'
  BY <1>0, <1>8, SharedStill DEF SharedOK, NoFault
<1>13. /\ todo'[w] \in Seq(Item) /\ Len(todo'[w]) = 1
       /\ todo'[w][1].status = s /\ todo'[w][1].coupon = c
  BY <1>6, <1>7
<1>14. Target(req[w].op) = s /\ req[w].coupon = c
  BY <1>1, <1>4
<1>15. QED
  BY <1>9, <1>11, <1>12, <1>13, <1>14 DEF Typed

\* The item a handler writes.
LEMMA ItemAtHand ==
  ASSUME LocalOK, NEW w \in Workers, pc[w] \in Decided
  PROVE  todo[w][1] \in Item
  BY DEF LocalOK, WorkerOK

\* What a statement leaves of the tables.
LEMMA WritesTyped ==
  ASSUME Typed, NEW w \in Workers, pc[w] \in Decided,
         DoWriteStatus(w) \/ DoWriteRow(w) \/ DoCount(1) \/ DoCount(2) \/ UNCHANGED db,
         UNCHANGED <<env, redis>>, faults' \in Nat, acked' = acked
  PROVE  SharedOK'
<1>0. LocalOK /\ SharedOK
  BY DEF Typed
<1>1. PICK op \in Operations, c \in Coupons, o \in Orders :
        req[w] = [op |-> op, coupon |-> c, order |-> o]
  BY <1>0, AtWork DEF Handling, Decided
<1>2. PICK s \in Status : s = todo[w][1].status
  BY <1>0, ItemAtHand DEF Item
<1>3. PICK r \in Row : r = RowAfter(op, c, o)
  BY <1>0, RowAfterTyped
<1>4. CASE DoWriteStatus(w)
  <2>1. use_status' = [use_status EXCEPT ![c] = s]
    BY <1>1, <1>2, <1>4 DEF DoWriteStatus, Coupon
  <2>2. QED
    BY <1>0, <1>4, <2>1 DEF SharedOK, DoWriteStatus, env, redis
<1>5. CASE DoWriteRow(w)
  <2>1. row' = [row EXCEPT ![c] = r]
    BY <1>1, <1>3, <1>5 DEF DoWriteRow, NewRow, Coupon
  <2>2. QED
    BY <1>0, <1>5, <2>1 DEF SharedOK, DoWriteRow, env, redis
<1>6. CASE DoCount(1) \/ DoCount(2)
  BY <1>0, <1>6 DEF SharedOK, DoCount, Counted, env, redis
<1>7. CASE UNCHANGED db
  BY <1>0, <1>7 DEF SharedOK, db, env, redis
<1>8. QED
  BY <1>4, <1>5, <1>6, <1>7

LEMMA WriteTyped ==
  ASSUME Typed, NEW w \in Workers, WriteStatus(w) \/ WriteRow(w) \/ Count(w)
  PROVE  Typed' /\ Others(w)
<1>0. LocalOK /\ SharedOK /\ pc[w] \in Writes
  BY DEF Typed, WriteStatus, WriteRow, Count, At, Writes
<1>1. PICK step \in {"writeRow", "count", "writeBack"} : pc' = [pc EXCEPT ![w] = step]
  BY DEF WriteStatus, WriteRow, Count, Goto, AfterRow
<1>2. UNCHANGED <<req, seen, hit, todo>>
  BY DEF WriteStatus, WriteRow, Count, local
<1>3. pc' \in [Workers -> Steps] /\ pc'[w] = step /\ Others(w)
  BY <1>0, <1>1, <1>2 DEF LocalOK, Steps, Writes, Others
<1>4. WorkerOK(w)'
  BY <1>0, <1>2, <1>3 DEF LocalOK, WorkerOK, Handling, Listing, Decided, Writes
<1>5. LocalOK'
  BY <1>0, <1>2, <1>3, <1>4, OthersLocal DEF LocalOK
<1>6. faults' \in Nat
  BY <1>0, FaultTyped DEF WriteStatus, WriteRow, Count
<1>7. SharedOK'
  BY <1>0, <1>6, WritesTyped DEF Typed, SharedOK, WriteStatus, WriteRow, Count, Writes, Decided
<1>8. QED
  BY <1>3, <1>5, <1>7 DEF Typed

LEMMA WriteFailsTyped ==
  ASSUME Typed, NEW w \in Workers, WriteFails(w)
  PROVE  Typed' /\ Others(w)
<1>1. LocalOK' /\ Others(w)
  BY DoneLocal DEF WriteFails, Typed
<1>2. faults' \in Nat /\ pc[w] \in Decided
  BY FaultTyped DEF WriteFails, Typed, Writes, Decided
<1>3. SharedOK'
  BY <1>2, WritesTyped DEF WriteFails, Typed, SharedOK
<1>4. QED
  BY <1>1, <1>3 DEF Typed

LEMMA PushTyped ==
  ASSUME NEW codes \in Seq(Coupons), NEW c \in Coupons
  PROVE  Push(codes, c) \in Seq(Coupons)
<1>1. cache_codes_capacity \in Nat \ {0}
  BY LifecycleAssumption
<1>2. CASE Len(codes) >= cache_codes_capacity
  <2>1. codes # << >>
    BY <1>1, <1>2
  <2>2. Tail(codes) \in Seq(Coupons)
    BY <2>1
  <2>3. QED
    BY <1>2, <2>2 DEF Push
<1>3. CASE ~ (Len(codes) >= cache_codes_capacity)
  BY <1>3 DEF Push
<1>4. QED
  BY <1>2, <1>3

\* What the end of a handler leaves in Redis: only the copy of its coupon may
\* change, to what it has written.
LEMMA WriteBackTyped ==
  ASSUME Typed, NEW w \in Workers, WriteBack(w)
  PROVE  Typed' /\ Others(w)
<1>0. LocalOK /\ SharedOK /\ pc[w] = "writeBack"
  BY DEF Typed, WriteBack, At
<1>1. PICK op \in Operations, c \in Coupons, o \in Orders :
        req[w] = [op |-> op, coupon |-> c, order |-> o]
  BY <1>0, AtWork DEF Handling
<1>2. PICK s \in Status, v \in Nat : s = todo[w][1].status /\ v = todo[w][1].version
  BY <1>0, ItemAtHand DEF Item, Decided
<1>3. PICK codes \in Seq(Coupons) : codes = Push(seen[w], c)
  BY <1>0, PushTyped DEF LocalOK
<1>4. PICK k \in Copy : k = [status |-> s, version |-> v]
  BY DEF Copy
<1>5. /\ list' \in {list, codes}
      /\ cache' = cache \/ cache' = [cache EXCEPT ![c] = k]
  BY <1>1, <1>2, <1>3, <1>4 DEF WriteBack, Coupon, redis
<1>6. /\ Done(w) /\ UNCHANGED <<db, env>> /\ acked' = acked \cup {req[w]}
      /\ Fault \/ NoFault
  BY DEF WriteBack
<1>7. LocalOK' /\ Others(w)
  BY <1>0, <1>6, DoneLocal
<1>8. faults' \in Nat /\ req[w] \in [op : Operations, coupon : Coupons, order : Orders]
  BY <1>0, <1>6, FaultTyped DEF LocalOK, WorkerOK, Handling
<1>9. list' \in Seq(Coupons) /\ cache' \in [Coupons -> Copy \cup {Absent}]
  BY <1>0, <1>5 DEF SharedOK
<1>10. SharedOK'
  BY <1>0, <1>6, <1>8, <1>9 DEF SharedOK, db, env
<1>11. QED
  BY <1>7, <1>10 DEF Typed

-----------------------------------------------------------------------------
(* getUserCoupons. *)

LEMMA OrderingTyped ==
  ASSUME NEW S \in SUBSET Coupons, NEW q \in Orderings(S)
  PROVE  /\ q \in Seq(Coupons) /\ (S # {} => q # << >>)
         /\ \A i \in DOMAIN q : q[i] \in S
<1>1. IsFiniteSet(S) /\ Cardinality(S) \in Nat
  BY LifecycleAssumption, FS_Subset, FS_CardinalityType
<1>2. q \in [1..Cardinality(S) -> S]
  BY DEF Orderings
<1>3. q \in Seq(S) /\ Len(q) = Cardinality(S)
  BY <1>1, <1>2
<1>4. S # {} => q # << >>
  BY <1>1, <1>3, FS_EmptySet
<1>5. QED
  BY <1>3, <1>4

\* The rows ReadRows has read, with their statuses.
LEMMA ReadRowsTyped ==
  ASSUME Typed, NEW w \in Workers, ReadRows(w)
  PROVE  /\ Typed' /\ Others(w)
         /\ \/ Done(w)
            \/ /\ pc'[w] = "readGroups" /\ UNCHANGED <<req, seen, hit>>
               /\ \A i \in DOMAIN todo'[w] : todo'[w][i].status = use_status[todo'[w][i].coupon]
<1>0. LocalOK /\ SharedOK /\ pc[w] = "readRows"
  BY DEF Typed, ReadRows, At
<1>1. UNCHANGED <<db, env, redis, acked>> /\ NoFault
  BY DEF ReadRows
<1>2. SharedOK'
  BY <1>0, <1>1, SharedStill DEF SharedOK, NoFault
<1>3. CASE Done(w)
  BY <1>0, <1>2, <1>3, DoneLocal DEF Typed
<1>4. ASSUME NEW S \in SUBSET Coupons, S # {}, NEW q \in Orderings(S),
             todo' = [todo EXCEPT ![w] =
               [i \in DOMAIN q |-> [coupon |-> q[i], status |-> use_status[q[i]], version |-> 0]]],
             Goto(w, "readGroups"), UNCHANGED <<req, seen, hit>>
      PROVE  /\ Typed' /\ Others(w) /\ pc'[w] = "readGroups"
             /\ \A i \in DOMAIN todo'[w] : todo'[w][i].status = use_status[todo'[w][i].coupon]
  <2>1. q \in Seq(Coupons) /\ q # << >>
    BY <1>4, OrderingTyped
  <2>2. PICK items : items = [i \in DOMAIN q |->
          [coupon |-> q[i], status |-> use_status[q[i]], version |-> 0]]
    OBVIOUS
  <2>3. /\ \A i \in 1..Len(q) : items[i] \in Item
        /\ \A i \in 1..Len(q) : items[i].status = use_status[items[i].coupon]
    BY <1>0, <2>1, <2>2 DEF Item, SharedOK
  <2>4. items \in Seq(Item) /\ items # << >> /\ DOMAIN items = 1..Len(q)
    <3>1. Len(q) \in Nat /\ Len(q) # 0 /\ DOMAIN q = 1..Len(q)
      BY <2>1
    <3>2. items \in [1..Len(q) -> Item]
      BY <2>2, <2>3, <3>1
    <3>3. QED
      BY <3>1, <3>2, FunctionIsList
  <2>5. todo' \in [Workers -> Seq(Item)] /\ todo'[w] = items
    BY <1>0, <1>4, <2>2, <2>4 DEF LocalOK
  <2>6. pc' \in [Workers -> Steps] /\ pc'[w] = "readGroups" /\ Others(w)
    BY <1>0, <1>4 DEF LocalOK, Goto, Steps, Others
  <2>7. WorkerOK(w)'
    BY <1>0, <1>4, <2>4, <2>5, <2>6 DEF LocalOK, WorkerOK, Handling, Listing, Decided
  <2>8. LocalOK'
    BY <1>0, <1>4, <2>5, <2>6, <2>7, OthersLocal DEF LocalOK
  <2>9. QED
    BY <1>2, <2>3, <2>4, <2>5, <2>6, <2>8 DEF Typed
<1>5. PICK S \in SUBSET Coupons : S = {c \in Coupons : use_status[c] \in Category[req[w].op]}
  OBVIOUS
<1>6. \/ Done(w)
      \/ /\ S # {}
         /\ \E q \in Orderings(S) :
              todo' = [todo EXCEPT ![w] =
                [i \in DOMAIN q |-> [coupon |-> q[i], status |-> use_status[q[i]], version |-> 0]]]
         /\ Goto(w, "readGroups") /\ UNCHANGED <<req, seen, hit>>
  BY <1>5 DEF ReadRows
<1>7. QED
  BY <1>3, <1>4, <1>6

LEMMA ReadGroupsTyped ==
  ASSUME Typed, NEW w \in Workers, ReadGroups(w)
  PROVE  /\ Typed' /\ Others(w) /\ pc'[w] = "rebuild" /\ UNCHANGED <<req, seen>>
         /\ DOMAIN todo'[w] = DOMAIN todo[w]
         /\ \A i \in DOMAIN todo[w] : /\ todo'[w][i].status = todo[w][i].status
                                      /\ todo'[w][i].coupon = todo[w][i].coupon
<1>0. LocalOK /\ SharedOK /\ pc[w] = "readGroups"
  BY DEF Typed, ReadGroups, At
<1>1. /\ UNCHANGED <<db, env, redis, acked, req, seen>> /\ NoFault
      /\ pc' = [pc EXCEPT ![w] = "rebuild"]
  BY DEF ReadGroups, Goto
<1>2. PICK v \in Nat : v = version
  BY <1>0 DEF SharedOK
<1>3. PICK items \in Seq(Item) : items = todo[w] /\ items # << >>
  BY <1>0 DEF LocalOK, WorkerOK
<1>4. PICK new : new = [i \in DOMAIN items |-> [items[i] EXCEPT !.version = v]]
  OBVIOUS
<1>a. Len(items) \in Nat /\ Len(items) # 0 /\ DOMAIN items = 1..Len(items)
  BY <1>3
<1>5. ASSUME NEW i \in 1..Len(items)
      PROVE  new[i] \in Item /\ new[i].status = items[i].status /\ new[i].coupon = items[i].coupon
  <2>1. PICK it \in Item : it = items[i]
    BY <1>3
  <2>2. new[i] = [it EXCEPT !.version = v]
    BY <1>4, <1>a, <2>1
  <2>3. QED
    BY <2>1, <2>2 DEF Item
<1>6. new \in Seq(Item) /\ new # << >> /\ DOMAIN new = 1..Len(items)
  <2>1. new \in [1..Len(items) -> Item]
    BY <1>4, <1>5, <1>a
  <2>2. QED
    BY <1>a, <2>1, FunctionIsList
<1>7. todo' = [todo EXCEPT ![w] = new]
  BY <1>2, <1>3, <1>4 DEF ReadGroups
<1>8. todo' \in [Workers -> Seq(Item)] /\ todo'[w] = new
  BY <1>0, <1>6, <1>7 DEF LocalOK
<1>9. PICK h \in [Coupons -> Copy \cup {Absent}] :
        h = [c \in Coupons |-> IF Current(hit[w][c]) THEN hit[w][c] ELSE Absent]
  BY <1>0 DEF LocalOK
<1>10. hit' = [hit EXCEPT ![w] = h]
  BY <1>9 DEF ReadGroups
<1>11. hit' \in [Workers -> [Coupons -> Copy \cup {Absent}]]
  BY <1>0, <1>10 DEF LocalOK
<1>12. pc' \in [Workers -> Steps] /\ pc'[w] = "rebuild" /\ Others(w)
  BY <1>0, <1>1, <1>7, <1>10 DEF LocalOK, Steps, Others
<1>13. WorkerOK(w)'
  BY <1>0, <1>1, <1>6, <1>8, <1>12 DEF LocalOK, WorkerOK, Handling, Listing, Decided
<1>14. LocalOK'
  BY <1>0, <1>1, <1>8, <1>11, <1>12, <1>13, OthersLocal DEF LocalOK
<1>15. SharedOK'
  BY <1>0, <1>1, SharedStill DEF SharedOK, NoFault
<1>16. QED
  BY <1>1, <1>3, <1>a, <1>5, <1>6, <1>8, <1>12, <1>14, <1>15 DEF Typed

\* The next row, or the end.
LEMMA NextRowLocal ==
  ASSUME LocalOK, NEW w \in Workers, pc[w] = "rebuild", NextRow(w)
  PROVE  /\ LocalOK' /\ Others(w)
         /\ \/ Done(w)
            \/ UNCHANGED <<pc, req, seen, hit>> /\ todo'[w] = Tail(todo[w])
<1>1. CASE Len(todo[w]) = 1
  BY <1>1, DoneLocal DEF NextRow
<1>2. CASE Len(todo[w]) # 1
  <2>1. PICK items \in Seq(Item) : items = todo[w] /\ items # << >> /\ Len(items) # 1
    BY <1>2 DEF LocalOK, WorkerOK
  <2>2. Tail(items) \in Seq(Item) /\ Tail(items) # << >>
    BY <2>1, TailOfList
  <2>3. todo' = [todo EXCEPT ![w] = Tail(items)] /\ UNCHANGED <<pc, req, seen, hit>>
    BY <1>2, <2>1 DEF NextRow
  <2>4. todo' \in [Workers -> Seq(Item)] /\ todo'[w] = Tail(items) /\ Others(w)
    BY <2>2, <2>3 DEF LocalOK, Others
  <2>5. WorkerOK(w)'
    BY <2>2, <2>3, <2>4 DEF LocalOK, WorkerOK, Handling, Listing, Decided
  <2>6. LocalOK'
    BY <2>3, <2>4, <2>5, OthersLocal DEF LocalOK
  <2>7. QED
    BY <2>1, <2>3, <2>4, <2>6
<1>3. QED
  BY <1>1, <1>2

LEMMA SkipTyped ==
  ASSUME Typed, NEW w \in Workers, Skip(w)
  PROVE  Typed' /\ Others(w)
<1>1. LocalOK' /\ Others(w)
  BY NextRowLocal DEF Skip, Typed, At
<1>2. SharedOK'
  BY SharedStill DEF Skip, Typed, SharedOK, NoFault
<1>3. QED
  BY <1>1, <1>2 DEF Typed

LEMMA RelistTyped ==
  ASSUME Typed, NEW w \in Workers, Relist(w)
  PROVE  Typed' /\ Others(w) /\ pc'[w] = "rebuild"
<1>0. LocalOK /\ SharedOK /\ pc[w] = "rebuild"
  BY DEF Typed, Relist, At
<1>1. PICK c \in Coupons : c = Head(todo[w]).coupon
  <2>1. todo[w] \in Seq(Item) /\ todo[w] # << >>
    BY <1>0 DEF LocalOK, WorkerOK
  <2>2. QED
    BY <2>1, HeadOfList DEF Item
<1>2. PICK codes \in Seq(Coupons) : codes = Push(seen[w], c)
  BY <1>0, PushTyped DEF LocalOK
<1>3. /\ seen' = [seen EXCEPT ![w] = codes] /\ (list' = seen'[w] \/ list' = list)
      /\ UNCHANGED <<db, env, cache, pc, req, hit, todo, acked>>
  BY <1>1, <1>2 DEF Relist
<1>4. seen' \in [Workers -> Seq(Coupons)] /\ list' \in Seq(Coupons) /\ Others(w)
  BY <1>0, <1>2, <1>3 DEF LocalOK, SharedOK, Others
<1>5. WorkerOK(w)'
  BY <1>0, <1>3 DEF LocalOK, WorkerOK, Handling, Listing, Decided
<1>6. LocalOK'
  BY <1>0, <1>3, <1>4, <1>5, OthersLocal DEF LocalOK
<1>7. faults' \in Nat
  BY <1>0, FaultTyped DEF Relist
<1>8. SharedOK'
  BY <1>0, <1>3, <1>4, <1>7 DEF SharedOK, db, env
<1>9. QED
  BY <1>0, <1>3, <1>4, <1>6, <1>8 DEF Typed

\* The copy of a row is rebuilt from what has been read of it.
LEMMA RebuildTyped ==
  ASSUME Typed, NEW w \in Workers, Rebuild(w)
  PROVE  /\ Typed' /\ Others(w)
         /\ \E c \in Coupons, s \in Status, k \in Copy :
              /\ c = Head(todo[w]).coupon /\ s = Head(todo[w]).status /\ k.status = s
              /\ cache' = cache \/ cache' = [cache EXCEPT ![c] = k]
<1>0. LocalOK /\ SharedOK /\ pc[w] = "rebuild"
  BY DEF Typed, Rebuild, At
<1>1. PICK r \in Item : r = Head(todo[w])
  BY <1>0, HeadOfList DEF LocalOK, WorkerOK
<1>2. PICK k \in Copy : k = [status |-> r.status, version |-> r.version]
  BY DEF Copy, Item
<1>3. PICK c \in Coupons, s \in Status :
        c = Head(todo[w]).coupon /\ s = Head(todo[w]).status /\ k.status = s
  BY <1>1, <1>2 DEF Item
<1>4. cache' = cache \/ cache' = [cache EXCEPT ![c] = k]
  BY <1>1, <1>2, <1>3 DEF Rebuild
<1>5. /\ NextRow(w) /\ UNCHANGED <<db, env, list, acked>> /\ (Fault \/ NoFault)
  BY DEF Rebuild
<1>6. LocalOK' /\ Others(w)
  BY <1>0, <1>5, NextRowLocal
<1>7. faults' \in Nat
  BY <1>0, <1>5, FaultTyped
<1>8. cache' \in [Coupons -> Copy \cup {Absent}]
  BY <1>0, <1>4 DEF SharedOK
<1>9. SharedOK'
  BY <1>0, <1>5, <1>7, <1>8 DEF SharedOK, db, env
<1>10. QED
  BY <1>3, <1>4, <1>6, <1>9 DEF Typed

-----------------------------------------------------------------------------
(* The environment, and all steps together. *)

LEMMA CrashTyped ==
  ASSUME Typed, Crash
  PROVE  Typed' /\ \A w \in Workers : pc'[w] = "idle"
<1>1. /\ pc' \in [Workers -> Steps] /\ req' \in [Workers -> Request]
      /\ seen' \in [Workers -> Seq(Coupons)] /\ todo' \in [Workers -> Seq(Item)]
      /\ \A w \in Workers : pc'[w] = "idle"
  BY NoRequestTyped DEF Crash, Steps
<1>2. hit' \in [Workers -> [Coupons -> Copy \cup {Absent}]]
  BY NothingTyped DEF Crash
<1>3. LocalOK'
  BY <1>1, <1>2 DEF LocalOK, WorkerOK, Handling, Listing, Decided
<1>4. SharedOK'
  BY FaultTyped, SharedStill DEF Crash, Typed
<1>5. QED
  BY <1>1, <1>3, <1>4 DEF Typed

LEMMA LocalStill ==
  ASSUME LocalOK, UNCHANGED <<pc, local>>
  PROVE  LocalOK'
  BY DEF LocalOK, local, WorkerOK

LEMMA OutsideTyped ==
  ASSUME Typed, Expire \/ UpdateGroup \/ \E c \in Coupons : CopyExpires(c)
  PROVE  Typed'
<1>1. LocalOK'
  BY LocalStill DEF Typed, Expire, UpdateGroup, CopyExpires
<1>2. CASE Expire
  BY <1>1, <1>2 DEF Typed, SharedOK, Expire, db, redis
<1>3. CASE UpdateGroup
  BY <1>1, <1>3 DEF Typed, SharedOK, UpdateGroup, env, redis
<1>4. ASSUME NEW c \in Coupons, CopyExpires(c) PROVE Typed'
  BY <1>1, <1>4 DEF Typed, SharedOK, CopyExpires, env, db
<1>5. QED
  BY <1>2, <1>3, <1>4

LEMMA StepTyped ==
  ASSUME Typed, NEW w \in Workers, Step(w)
  PROVE  Typed' /\ Others(w)
<1>1. CASE ReadList(w) \/ ReadCache(w) \/ ReadCodes(w) \/ ReadHits(w)
  BY <1>1, ReadTyped
<1>2. CASE CacheRefuses(w) \/ StatusRefuses(w) \/ WriteUnchanged(w) \/ ListFails(w)
  BY <1>2, RefuseTyped
<1>3. CASE WriteStatus(w) \/ WriteRow(w) \/ Count(w) \/ WriteFails(w) \/ WriteBack(w)
  BY <1>3, WriteTyped, WriteFailsTyped, WriteBackTyped
<1>4. CASE ReadStatus(w) \/ ReadRows(w) \/ ReadGroups(w)
  BY <1>4, ReadStatusTyped, ReadRowsTyped, ReadGroupsTyped
<1>5. CASE Skip(w) \/ Relist(w) \/ Rebuild(w)
  BY <1>5, SkipTyped, RelistTyped, RebuildTyped
<1>6. QED
  BY <1>1, <1>2, <1>3, <1>4, <1>5 DEF Step

LEMMA NextTyped ==
  ASSUME Typed, [Next]_vars
  PROVE  Typed'
<1>1. CASE \E w \in Workers : Step(w)
  BY <1>1, StepTyped
<1>2. CASE \E w \in Workers, op \in Operations, c \in Coupons, o \in Orders : Begin(w, op, c, o)
  BY <1>2, BeginTyped
<1>3. CASE \E w \in Workers, category \in DOMAIN Category : BeginList(w, category)
  BY <1>3, BeginListTyped
<1>4. CASE Expire \/ UpdateGroup \/ (\E c \in Coupons : CopyExpires(c)) \/ Crash
  BY <1>4, OutsideTyped, CrashTyped
<1>5. CASE UNCHANGED vars
  BY <1>5, LocalStill, SharedStill DEF vars, Typed, SharedOK
<1>6. QED
  BY <1>1, <1>2, <1>3, <1>4, <1>5 DEF Next

LEMMA InitTyped == Init => Typed
<1> SUFFICES ASSUME Init PROVE Typed
  OBVIOUS
<1>1. scene \in Scenes /\ list \in Seq(Coupons)
  BY LifecycleAssumption DEF Init
<1>2. /\ use_status \in [Coupons -> Status] /\ row \in [Coupons -> Row]
      /\ payed_count \in Nat /\ version \in Nat /\ expired \in BOOLEAN
      /\ acked = {} /\ faults \in Nat
  BY DEF Init, Status, Row, Blank
<1>3. cache \in [Coupons -> Copy \cup {Absent}]
  BY DEF Init, Copy, Status
<1>4. /\ pc \in [Workers -> Steps] /\ req \in [Workers -> Request]
      /\ seen \in [Workers -> Seq(Coupons)] /\ todo \in [Workers -> Seq(Item)]
      /\ hit \in [Workers -> [Coupons -> Copy \cup {Absent}]]
      /\ \A w \in Workers : pc[w] = "idle"
  BY NoRequestTyped, NothingTyped DEF Init, Steps
<1>5. LocalOK
  BY <1>4 DEF LocalOK, WorkerOK, Handling, Listing, Decided
<1>6. QED
  BY <1>1, <1>2, <1>3, <1>5 DEF Typed, SharedOK

LEMMA TypedAlways == Spec => []Typed
  BY InitTyped, NextTyped, PTL DEF Spec

\* The tables, the cached copies and what the workers have in hand keep their types.
THEOREM LifecycleTyped == Spec => []TypeOK
  BY TypedAlways, TypedIsTypeOK, PTL

-----------------------------------------------------------------------------
(***************************************************************************)
(* What a step of a worker may do, for the other invariants: it answers    *)
(* when it is done, counts a payment before that, and writes the row of    *)
(* its coupon at one place.                                                *)
(***************************************************************************)

Answer(w) ==
  /\ pc[w] = "writeBack" => pc'[w] = "idle" /\ acked' = acked \cup {req[w]} /\ UNCHANGED db
  /\ pc[w] # "writeBack" => acked' = acked
  /\ payed_count' >= payed_count
  /\ pc'[w] = "writeBack" =>
       \/ pc[w] = "count" /\ payed_count' >= payed_count + 1
       \/ pc[w] = "writeRow" /\ req[w].op # "pay"

RowWritten(w) ==
  \/ row' = row /\ (pc[w] = "writeRow" => pc'[w] = "idle")
  \/ /\ pc[w] = "writeRow" /\ DoWriteRow(w)
     /\ \/ pc'[w] = AfterRow(req[w].op)
        \/ pc'[w] = "idle" /\ faults' # 0

Shape(w) ==
  /\ pc[w] # "idle" /\ scene' = scene /\ expired' = expired /\ version' = version
  /\ faults' = 0 => faults = 0
  /\ pc'[w] # "idle" => req'[w] = req[w]
  /\ pc'[w] \in Handling => pc[w] \in Handling
  /\ Answer(w) /\ RowWritten(w)

\* A step that leaves the tables and answers nothing.
LEMMA PassingShape ==
  ASSUME Typed, NEW w \in Workers, pc[w] \notin {"idle", "writeBack"}, UNCHANGED <<db, env, acked>>,
         Fault \/ NoFault, pc'[w] # "idle" => req'[w] = req[w] /\ pc[w] # "writeRow",
         pc'[w] # "writeBack", pc'[w] \in Handling => pc[w] \in Handling
  PROVE  Shape(w)
<1>1. faults' = 0 => faults = 0
  BY FaultKept DEF Typed
<1>2. payed_count' >= payed_count
  BY DEF Typed, SharedOK, db
<1>3. QED
  BY <1>1, <1>2 DEF Shape, Answer, RowWritten, db, env

LEMMA ReadShape ==
  ASSUME Typed, NEW w \in Workers,
         ReadList(w) \/ ReadCache(w) \/ ReadStatus(w) \/ ReadCodes(w) \/ ReadHits(w)
           \/ ReadRows(w) \/ ReadGroups(w)
  PROVE  Shape(w)
<1>1. CASE ReadList(w)
  BY <1>1, PassingShape DEF ReadList, At, Goto, Typed, LocalOK, Handling
<1>2. CASE ReadCache(w)
  BY <1>2, PassingShape DEF ReadCache, At, Goto, Typed, LocalOK, Handling
<1>3. CASE ReadStatus(w)
  BY <1>3, PassingShape DEF ReadStatus, At, Goto, Typed, LocalOK, Handling
<1>4. CASE ReadCodes(w)
  BY <1>4, PassingShape DEF ReadCodes, At, Goto, Typed, LocalOK, Handling
<1>5. CASE ReadHits(w)
  BY <1>5, PassingShape DEF ReadHits, At, Goto, Typed, LocalOK, Handling
<1>6. CASE ReadRows(w)
  <2>1. pc[w] = "readRows" /\ UNCHANGED <<db, env, acked>> /\ NoFault
    BY <1>6 DEF ReadRows, At
  <2>2. pc'[w] = "idle" \/ (pc'[w] = "readGroups" /\ req' = req)
    BY <1>6, ReadRowsTyped, DoneLocal DEF Typed
  <2>3. QED
    BY <2>1, <2>2, PassingShape DEF Handling
<1>7. CASE ReadGroups(w)
  BY <1>7, PassingShape DEF ReadGroups, At, Goto, Typed, LocalOK, Handling
<1>8. QED
  BY <1>1, <1>2, <1>3, <1>4, <1>5, <1>6, <1>7

LEMMA RefuseShape ==
  ASSUME Typed, NEW w \in Workers,
         CacheRefuses(w) \/ StatusRefuses(w) \/ WriteUnchanged(w) \/ ListFails(w)
  PROVE  Shape(w)
<1>1. /\ Done(w) /\ UNCHANGED <<db, env, acked>> /\ (Fault \/ NoFault)
      /\ pc[w] \notin {"idle", "writeBack"}
  BY DEF CacheRefuses, StatusRefuses, WriteUnchanged, ListFails, At
<1>2. pc'[w] = "idle"
  BY <1>1, DoneLocal DEF Typed
<1>3. QED
  BY <1>1, <1>2, PassingShape DEF Handling

LEMMA ListShape ==
  ASSUME Typed, NEW w \in Workers, Skip(w) \/ Relist(w) \/ Rebuild(w)
  PROVE  Shape(w)
<1>1. pc[w] = "rebuild" /\ UNCHANGED <<db, env, acked>> /\ (Fault \/ NoFault)
  BY DEF Skip, Relist, Rebuild, At
<1>2. pc'[w] = "idle" \/ (pc'[w] = "rebuild" /\ req'[w] = req[w])
  <2>1. CASE Skip(w) \/ Rebuild(w)
    BY <1>1, <2>1, NextRowLocal, DoneLocal DEF Skip, Rebuild, Typed
  <2>2. CASE Relist(w)
    BY <1>1, <2>2 DEF Relist
  <2>3. QED
    BY <2>1, <2>2
<1>3. QED
  BY <1>1, <1>2, PassingShape DEF Handling

LEMMA WriteShape ==
  ASSUME Typed, NEW w \in Workers,
         WriteStatus(w) \/ WriteRow(w) \/ Count(w) \/ WriteFails(w) \/ WriteBack(w)
  PROVE  Shape(w)
<1>0. LocalOK /\ SharedOK /\ payed_count \in Nat
  BY DEF Typed, SharedOK
<1>f. Fault \/ NoFault
  BY DEF WriteStatus, WriteRow, Count, WriteFails, WriteBack
<1>g. faults' = 0 => faults = 0
  BY <1>0, <1>f, FaultKept
<1>1. CASE WriteStatus(w)
  <2>1. /\ pc[w] = "writeStatus" /\ pc'[w] = "writeRow" /\ UNCHANGED <<req, acked, env, row, payed_count, version>>
    BY <1>0, <1>1 DEF WriteStatus, At, Goto, LocalOK, DoWriteStatus, local
  <2>2. QED
    BY <1>0, <1>g, <2>1 DEF Shape, Answer, RowWritten, Handling, env
<1>2. CASE WriteRow(w)
  <2>1. /\ pc[w] = "writeRow" /\ pc'[w] = AfterRow(req[w].op) /\ DoWriteRow(w)
        /\ UNCHANGED <<req, acked, env, payed_count, version>>
    BY <1>0, <1>2 DEF WriteRow, At, Goto, LocalOK, DoWriteRow, local
  <2>2. /\ pc'[w] = "writeBack" => req[w].op # "pay"
        /\ pc'[w] \in {"count", "writeBack"}
    BY <2>1 DEF AfterRow
  <2>3. QED
    BY <1>0, <1>g, <2>1, <2>2 DEF Shape, Answer, RowWritten, Handling, env
<1>3. CASE Count(w)
  <2>1. /\ pc[w] = "count" /\ pc'[w] = "writeBack"
        /\ UNCHANGED <<req, acked, env, row, version>>
        /\ payed_count' = payed_count + 1 \/ payed_count' = payed_count + 2
    BY <1>0, <1>3 DEF Count, At, Goto, LocalOK, DoCount, Counted, local
  <2>2. QED
    BY <1>0, <1>g, <2>1 DEF Shape, Answer, RowWritten, Handling, env
<1>4. CASE WriteFails(w)
  <2>1. /\ pc[w] \in Writes /\ pc'[w] = "idle" /\ Fault /\ UNCHANGED <<acked, env, version>>
        /\ \/ pc[w] = "writeStatus" /\ row' = row /\ payed_count' = payed_count
           \/ pc[w] = "writeRow" /\ DoWriteRow(w) /\ payed_count' = payed_count
           \/ pc[w] = "count" /\ row' = row /\ payed_count' = payed_count + 1
           \/ row' = row /\ payed_count' = payed_count
    BY <1>0, <1>4, DoneLocal DEF WriteFails, At, DoWriteStatus, DoWriteRow, DoCount, Counted, db
  <2>2. faults' # 0
    BY <1>0, <2>1, FaultTyped
  <2>3. QED
    BY <1>0, <2>1, <2>2 DEF Shape, Answer, RowWritten, Handling, env, Writes
<1>5. CASE WriteBack(w)
  <2>1. /\ pc[w] = "writeBack" /\ pc'[w] = "idle" /\ acked' = acked \cup {req[w]}
        /\ UNCHANGED <<env, db>>
    BY <1>0, <1>5, DoneLocal DEF WriteBack, At
  <2>2. QED
    BY <1>0, <1>g, <2>1 DEF Shape, Answer, RowWritten, Handling, env, db
<1>6. QED
  BY <1>1, <1>2, <1>3, <1>4, <1>5

LEMMA StepShape ==
  ASSUME Typed, NEW w \in Workers, Step(w)
  PROVE  Shape(w)
<1>1. CASE \/ ReadList(w) \/ ReadCache(w) \/ ReadStatus(w) \/ ReadCodes(w) \/ ReadHits(w)
           \/ ReadRows(w) \/ ReadGroups(w)
  BY <1>1, ReadShape
<1>2. CASE CacheRefuses(w) \/ StatusRefuses(w) \/ WriteUnchanged(w) \/ ListFails(w)
  BY <1>2, RefuseShape
<1>3. CASE WriteStatus(w) \/ WriteRow(w) \/ Count(w) \/ WriteFails(w) \/ WriteBack(w)
  BY <1>3, WriteShape
<1>4. CASE Skip(w) \/ Relist(w) \/ Rebuild(w)
  BY <1>4, ListShape
<1>5. QED
  BY <1>1, <1>2, <1>3, <1>4 DEF Step

-----------------------------------------------------------------------------
(***************************************************************************)
(* PaymentsCounted: a payment is in payed_count before it is answered.  So *)
(* those answered and those about to be are no more than payed_count.      *)
(***************************************************************************)

Payers == {w \in Workers : pc[w] = "writeBack" /\ req[w].op = "pay"}
Payed == {r \in acked : r.op = "pay"}

PayOK ==
  /\ IsFiniteSet(Payers) /\ IsFiniteSet(Payed)
  /\ Cardinality(Payers) + Cardinality(Payed) <= payed_count

LEMMA OneMore ==
  ASSUME NEW S, IsFiniteSet(S), NEW x
  PROVE  /\ IsFiniteSet(S \cup {x}) /\ Cardinality(S) \in Nat /\ Cardinality(S \cup {x}) \in Nat
         /\ Cardinality(S \cup {x}) <= Cardinality(S) + 1
<1>1. IsFiniteSet(S \cup {x}) /\ Cardinality(S) \in Nat
  BY FS_AddElement, FS_CardinalityType
<1>2. Cardinality(S \cup {x}) = Cardinality(S) \/ Cardinality(S \cup {x}) = Cardinality(S) + 1
  BY FS_AddElement
<1>3. QED
  BY <1>1, <1>2

LEMMA PayStill ==
  ASSUME PayOK, payed_count \in Nat, payed_count' \in Nat, payed_count' >= payed_count,
         Payers' \subseteq Payers, Payed' = Payed
  PROVE  PayOK'
<1>1. /\ IsFiniteSet(Payers') /\ Cardinality(Payers') <= Cardinality(Payers)
      /\ Cardinality(Payers') \in Nat /\ Cardinality(Payers) \in Nat /\ Cardinality(Payed) \in Nat
  BY FS_Subset, FS_CardinalityType DEF PayOK
<1>2. Cardinality(Payed') = Cardinality(Payed) /\ IsFiniteSet(Payed')
  BY DEF PayOK
<1>3. QED
  BY <1>1, <1>2 DEF PayOK

LEMMA StepPay ==
  ASSUME Typed, PayOK, NEW w \in Workers, Shape(w), Others(w), Typed'
  PROVE  PayOK'
<1>0. payed_count \in Nat /\ payed_count' \in Nat /\ payed_count' >= payed_count
  BY DEF Typed, SharedOK, Shape, Answer
<1>1. \A v \in Workers : v # w => (v \in Payers' <=> v \in Payers)
  BY DEF Others, Payers
<1>2. CASE pc[w] = "writeBack"
  <2>1. w \notin Payers' /\ acked' = acked \cup {req[w]}
    BY <1>2 DEF Payers, Shape, Answer
  <2>2. CASE req[w].op # "pay"
    <3>1. Payed' = Payed
      BY <2>1, <2>2 DEF Payed
    <3>2. Payers' \subseteq Payers
      BY <1>1, <2>1 DEF Payers
    <3>3. QED
      BY <1>0, <3>1, <3>2, PayStill
  <2>3. CASE req[w].op = "pay"
    <3>1. PICK r : r = req[w]
      OBVIOUS
    <3>2. Payed' = Payed \cup {r}
      BY <2>1, <2>3, <3>1 DEF Payed
    <3>3. w \in Payers
      BY <1>2, <2>3 DEF Payers
    <3>4. Payers' = Payers \ {w}
      BY <1>1, <2>1 DEF Payers
    <3>5. /\ IsFiniteSet(Payers \ {w}) /\ Cardinality(Payers \ {w}) = Cardinality(Payers) - 1
          /\ Cardinality(Payers) \in Nat /\ Cardinality(Payed) \in Nat
      BY <3>3, FS_RemoveElement, FS_CardinalityType DEF PayOK
    <3>6. /\ IsFiniteSet(Payed \cup {r}) /\ Cardinality(Payed \cup {r}) \in Nat
          /\ Cardinality(Payed \cup {r}) <= Cardinality(Payed) + 1
      BY OneMore DEF PayOK
    <3>7. QED
      BY <1>0, <3>2, <3>4, <3>5, <3>6 DEF PayOK
  <2>4. QED
    BY <2>2, <2>3
<1>3. CASE pc[w] # "writeBack"
  <2>1. Payed' = Payed
    BY <1>3 DEF Payed, Shape, Answer
  <2>2. CASE w \notin Payers'
    <3>1. Payers' \subseteq Payers
      BY <1>1, <2>2 DEF Payers
    <3>2. QED
      BY <1>0, <2>1, <3>1, PayStill
  <2>3. CASE w \in Payers'
    <3>1. /\ pc'[w] = "writeBack" /\ req'[w].op = "pay"
      BY <2>3 DEF Payers
    <3>2. payed_count' >= payed_count + 1
      BY <3>1 DEF Shape, Answer
    <3>3. Payers' = Payers \cup {w}
      BY <1>1, <2>3 DEF Payers
    <3>4. /\ IsFiniteSet(Payers \cup {w}) /\ Cardinality(Payers) \in Nat
          /\ Cardinality(Payers \cup {w}) <= Cardinality(Payers) + 1
          /\ Cardinality(Payers \cup {w}) \in Nat /\ Cardinality(Payed) \in Nat
      BY OneMore, FS_CardinalityType DEF PayOK
    <3>5. QED
      BY <1>0, <2>1, <3>2, <3>3, <3>4 DEF PayOK
  <2>4. QED
    BY <2>2, <2>3
<1>4. QED
  BY <1>2, <1>3

LEMMA NextPay ==
  ASSUME Typed, PayOK, [Next]_vars
  PROVE  PayOK'
<1>0. payed_count \in Nat /\ Typed'
  BY NextTyped DEF Typed, SharedOK
<1>1. ASSUME NEW w \in Workers, Step(w) PROVE PayOK'
  BY <1>1, StepTyped, StepShape, StepPay
<1>2. ASSUME NEW w \in Workers, Others(w), pc'[w] # "writeBack", UNCHANGED <<acked, payed_count>>
      PROVE  PayOK'
  <2>1. Payed' = Payed /\ Payers' \subseteq Payers
    BY <1>2 DEF Payed, Payers, Others
  <2>2. QED
    BY <1>0, <1>2, <2>1, PayStill
<1>3. ASSUME NEW w \in Workers, NEW op \in Operations, NEW c \in Coupons, NEW o \in Orders,
             Begin(w, op, c, o)
      PROVE  PayOK'
  <2>1. pc'[w] = "readList"
    BY <1>3 DEF Begin, Take, Goto, Typed, LocalOK
  <2>2. QED
    BY <1>2, <1>3, <2>1, BeginTyped DEF Begin, db
<1>4. ASSUME NEW w \in Workers, NEW category \in DOMAIN Category, BeginList(w, category)
      PROVE  PayOK'
  <2>1. pc'[w] = "readCodes"
    BY <1>4 DEF BeginList, Take, Goto, Typed, LocalOK
  <2>2. QED
    BY <1>2, <1>4, <2>1, BeginListTyped DEF BeginList, db
<1>5. CASE Crash
  <2>1. Payed' = Payed /\ Payers' \subseteq Payers /\ payed_count' = payed_count
    BY <1>5, CrashTyped DEF Payed, Payers, Crash, db
  <2>2. QED
    BY <1>0, <2>1, PayStill
<1>6. CASE Expire \/ UpdateGroup \/ (\E c \in Coupons : CopyExpires(c)) \/ UNCHANGED vars
  <2>1. UNCHANGED <<pc, req, acked, payed_count>>
    BY <1>6 DEF Expire, UpdateGroup, CopyExpires, vars, db, local
  <2>2. Payed' = Payed /\ Payers' \subseteq Payers
    BY <2>1 DEF Payed, Payers
  <2>3. QED
    BY <1>0, <2>1, <2>2, PayStill
<1>7. QED
  BY <1>1, <1>3, <1>4, <1>5, <1>6 DEF Next

LEMMA PayAlways == Spec => []PayOK
<1>1. Init => PayOK
  <2> SUFFICES ASSUME Init PROVE PayOK
    OBVIOUS
  <2>1. Payers = {} /\ Payed = {}
    BY DEF Init, Payers, Payed
  <2>2. Cardinality({}) = 0 /\ IsFiniteSet({})
    BY FS_EmptySet
  <2>3. QED
    BY <2>1, <2>2 DEF Init, PayOK
<1>2. QED
  BY <1>1, NextPay, TypedAlways, PTL DEF Spec

\* Whatever fails and however requests are interleaved, payed_count is never less
\* than the payments that were acknowledged.
THEOREM PaymentsAreCounted == Spec => []PaymentsCounted
<1>1. PayOK /\ Typed => PaymentsCounted
  <2> SUFFICES ASSUME PayOK, Typed PROVE PaymentsCounted
    OBVIOUS
  <2>1. Cardinality(Payers) \in Nat /\ Cardinality(Payed) \in Nat
    BY FS_CardinalityType DEF PayOK
  <2>2. Cardinality(Payed) <= payed_count
    BY <2>1 DEF PayOK, Typed, SharedOK
  <2>3. QED
    BY <2>2 DEF PaymentsCounted, Payed
<1>2. QED
  BY <1>1, PayAlways, TypedAlways, PTL

-----------------------------------------------------------------------------
(***************************************************************************)
(* UserFroze: as long as nothing has failed, the order in a row, and so    *)
(* the order of whoever passes the tests of payCoupon and rollbackCoupon,  *)
(* is one that has frozen the coupon and has been told, or will be next.   *)
(***************************************************************************)

Freezing(c, o) == [op |-> "freeze", coupon |-> c, order |-> o]
Froze(c, o) ==
  Freezing(c, o) \in acked \/ \E w \in Workers : pc[w] = "writeBack" /\ req[w] = Freezing(c, o)

FrozeOK == faults = 0 => \A c \in Coupons, o \in Orders :
  /\ row[c].order = o => Froze(c, o)
  /\ \A w \in Workers :
       pc[w] \in Handling /\ req[w].op # "freeze" /\ req[w].coupon = c /\ req[w].order = o =>
         Froze(c, o)
  /\ \A r \in acked : r.op \in {"pay", "rollback"} /\ r.coupon = c /\ r.order = o => Froze(c, o)

LEMMA FrozeStays ==
  ASSUME NEW w \in Workers, Others(w), NEW c \in Coupons, NEW o \in Orders, Froze(c, o),
         acked \subseteq acked', pc[w] = "writeBack" => req[w] \in acked'
  PROVE  Froze(c, o)'
<1>1. CASE Freezing(c, o) \in acked
  BY <1>1 DEF Froze, Freezing
<1>2. ASSUME NEW v \in Workers, pc[v] = "writeBack", req[v] = Freezing(c, o)
      PROVE  Froze(c, o)'
  <2>1. CASE v = w
    BY <1>2, <2>1 DEF Froze, Freezing
  <2>2. CASE v # w
    BY <1>2, <2>2 DEF Froze, Freezing, Others
  <2>3. QED
    BY <2>1, <2>2
<1>3. QED
  BY <1>1, <1>2 DEF Froze

\* The row that a step leaves carries an order only if it did before, or if the
\* order has frozen it now.
LEMMA StepOrder ==
  ASSUME Typed, NEW w \in Workers, Shape(w), faults' = 0,
         NEW c \in Coupons, NEW o \in Orders, row'[c].order = o
  PROVE  row[c].order = o \/ (pc'[w] = "writeBack" /\ req'[w] = Freezing(c, o))
<1>1. CASE row' = row
  BY <1>1
<1>2. CASE pc[w] = "writeRow" /\ DoWriteRow(w) /\ pc'[w] = AfterRow(req[w].op)
  <2>1. PICK op \in Operations, d \in Coupons, e \in Orders :
          req[w] = [op |-> op, coupon |-> d, order |-> e]
    BY <1>2, AtWork DEF Typed, Handling
  <2>2. row' = [row EXCEPT ![d] = RowAfter(op, d, e)]
    BY <1>2, <2>1 DEF DoWriteRow, NewRow, Coupon
  <2>3. row \in [Coupons -> Row] /\ None \notin Orders
    BY LifecycleAssumption DEF Typed, SharedOK
  <2>4. CASE c # d
    BY <2>2, <2>3, <2>4
  <2>5. CASE c = d /\ op = "freeze"
    <3>1. row'[c].order = e
      BY <2>2, <2>3, <2>5 DEF RowAfter
    <3>2. pc'[w] = "writeBack" /\ req'[w] = req[w]
      BY <1>2, <2>1, <2>5 DEF AfterRow, Shape
    <3>3. QED
      BY <2>1, <2>5, <3>1, <3>2 DEF Freezing
  <2>6. CASE c = d /\ op = "pay"
    <3>1. row[c] \in Row
      BY <2>3
    <3>2. row'[c] = [row[c] EXCEPT !.payed = TRUE]
      BY <2>2, <2>3, <2>6 DEF RowAfter
    <3>3. row'[c].order = row[c].order
      BY <3>1, <3>2 DEF Row
    <3>4. QED
      BY <3>3
  <2>7. CASE c = d /\ op = "rollback"
    <3>1. row[c] \in Row
      BY <2>3
    <3>2. row'[c] = [row[c] EXCEPT !.order = None, !.frozen = FALSE]
      BY <2>2, <2>3, <2>7 DEF RowAfter
    <3>3. row'[c].order = None
      BY <3>1, <3>2 DEF Row
    <3>4. QED
      BY <2>3, <3>3
  <2>8. QED
    BY <2>4, <2>5, <2>6, <2>7 DEF Operations
<1>3. QED
  BY <1>1, <1>2 DEF Shape, RowWritten

LEMMA StepFroze ==
  ASSUME Typed, FrozeOK, NEW w \in Workers, Shape(w), Others(w)
  PROVE  FrozeOK'
<1>1. SUFFICES ASSUME faults' = 0, NEW c \in Coupons, NEW o \in Orders
               PROVE  /\ row'[c].order = o => Froze(c, o)'
                      /\ \A v \in Workers :
                           pc'[v] \in Handling /\ req'[v].op # "freeze" /\ req'[v].coupon = c
                             /\ req'[v].order = o => Froze(c, o)'
                      /\ \A r \in acked' :
                           r.op \in {"pay", "rollback"} /\ r.coupon = c /\ r.order = o =>
                             Froze(c, o)'
  BY DEF FrozeOK
<1>2. /\ acked' = acked \/ (pc[w] = "writeBack" /\ acked' = acked \cup {req[w]})
      /\ pc[w] = "writeBack" => req[w] \in acked'
      /\ faults = 0
  BY <1>1 DEF Shape, Answer
<1>3. Froze(c, o) => Froze(c, o)'
  BY <1>2, FrozeStays
<1>4. ASSUME row'[c].order = o PROVE Froze(c, o)'
  <2>1. CASE row[c].order = o
    BY <1>2, <1>3, <2>1 DEF FrozeOK
  <2>2. CASE pc'[w] = "writeBack" /\ req'[w] = Freezing(c, o)
    BY <2>2 DEF Froze, Freezing
  <2>3. QED
    BY <1>1, <1>4, <2>1, <2>2, StepOrder
<1>5. ASSUME NEW v \in Workers, pc'[v] \in Handling, req'[v].op # "freeze",
             req'[v].coupon = c, req'[v].order = o
      PROVE  Froze(c, o)'
  <2>1. pc[v] \in Handling /\ req'[v] = req[v]
    BY <1>5 DEF Others, Shape, Handling
  <2>2. QED
    BY <1>2, <1>3, <1>5, <2>1 DEF FrozeOK
<1>6. ASSUME NEW r \in acked', r.op \in {"pay", "rollback"}, r.coupon = c, r.order = o
      PROVE  Froze(c, o)'
  <2>1. CASE r \in acked
    BY <1>2, <1>3, <1>6, <2>1 DEF FrozeOK
  <2>2. CASE pc[w] = "writeBack" /\ r = req[w]
    BY <1>2, <1>3, <1>6, <2>2 DEF FrozeOK, Handling
  <2>3. QED
    BY <1>2, <2>1, <2>2
<1>7. QED
  BY <1>4, <1>5, <1>6

LEMMA NextFroze ==
  ASSUME Typed, FrozeOK, [Next]_vars
  PROVE  FrozeOK'
<1>1. ASSUME NEW w \in Workers, Step(w) PROVE FrozeOK'
  BY <1>1, StepTyped, StepShape, StepFroze
<1>2. ASSUME NEW w \in Workers, Others(w), pc[w] = "idle", UNCHANGED <<row, acked, faults>>,
             ~ pc'[w] \in Handling \/ (req'[w].op # "freeze" =>
               \A c \in Coupons, o \in Orders :
                 req'[w].coupon = c /\ req'[w].order = o => row[c].order = o)
      PROVE  FrozeOK'
  <2>1. SUFFICES ASSUME faults = 0, NEW c \in Coupons, NEW o \in Orders
                 PROVE  /\ row'[c].order = o => Froze(c, o)'
                        /\ \A v \in Workers :
                             pc'[v] \in Handling /\ req'[v].op # "freeze" /\ req'[v].coupon = c
                               /\ req'[v].order = o => Froze(c, o)'
                        /\ \A r \in acked' :
                             r.op \in {"pay", "rollback"} /\ r.coupon = c /\ r.order = o =>
                               Froze(c, o)'
    BY <1>2 DEF FrozeOK
  <2>2. Froze(c, o) => Froze(c, o)'
    BY <1>2, FrozeStays
  <2>3. row'[c].order = o => Froze(c, o)'
    BY <1>2, <2>1, <2>2 DEF FrozeOK
  <2>4. ASSUME NEW v \in Workers, pc'[v] \in Handling, req'[v].op # "freeze",
               req'[v].coupon = c, req'[v].order = o
        PROVE  Froze(c, o)'
    <3>1. CASE v = w
      BY <1>2, <2>3, <2>4, <3>1
    <3>2. CASE v # w
      BY <1>2, <2>1, <2>2, <2>4, <3>2 DEF FrozeOK, Others
    <3>3. QED
      BY <3>1, <3>2
  <2>5. \A r \in acked' : r.op \in {"pay", "rollback"} /\ r.coupon = c /\ r.order = o =>
          Froze(c, o)'
    BY <1>2, <2>1, <2>2 DEF FrozeOK
  <2>6. QED
    BY <2>3, <2>4, <2>5
<1>3. ASSUME NEW w \in Workers, NEW op \in Operations, NEW c \in Coupons, NEW o \in Orders,
             Begin(w, op, c, o)
      PROVE  FrozeOK'
  <2>1. /\ pc[w] = "idle" /\ req'[w] = [op |-> op, coupon |-> c, order |-> o]
        /\ UNCHANGED <<row, acked, faults>> /\ RowAllows(op, c, o)
    BY <1>3 DEF Begin, Take, At, Typed, LocalOK, db, NoFault
  <2>2. op # "freeze" => row[c].order = o
    BY <2>1 DEF RowAllows
  <2>3. QED
    BY <1>2, <1>3, <2>1, <2>2, BeginTyped
<1>4. ASSUME NEW w \in Workers, NEW category \in DOMAIN Category, BeginList(w, category)
      PROVE  FrozeOK'
  <2>1. /\ pc[w] = "idle" /\ pc'[w] = "readCodes" /\ UNCHANGED <<row, acked, faults>>
    BY <1>4 DEF BeginList, Take, At, Goto, Typed, LocalOK, db, NoFault
  <2>2. QED
    BY <1>2, <1>4, <2>1, BeginListTyped DEF Handling
<1>5. CASE Crash
  BY <1>5, FaultTyped DEF FrozeOK, Crash, Typed
<1>6. CASE Expire \/ UpdateGroup \/ (\E c \in Coupons : CopyExpires(c)) \/ UNCHANGED vars
  <2>1. UNCHANGED <<pc, req, acked, row, faults>>
    BY <1>6 DEF Expire, UpdateGroup, CopyExpires, vars, db, local
  <2>2. QED
    BY <2>1 DEF FrozeOK, Froze, Freezing
<1>7. QED
  BY <1>1, <1>3, <1>4, <1>5, <1>6 DEF Next

LEMMA FrozeAlways == Spec => []FrozeOK
<1>1. Init => FrozeOK
  BY LifecycleAssumption DEF Init, FrozeOK, Handling, Blank
<1>2. QED
  BY <1>1, NextFroze, TypedAlways, PTL DEF Spec

\* As long as nothing has failed, whoever is told that he has payed with a coupon
\* or given it back is an order that froze it, however requests are interleaved.
THEOREM UserHasFrozen == Spec => []UserFroze
<1>1. FrozeOK /\ Typed => UserFroze
  <2> SUFFICES ASSUME FrozeOK, Typed, faults = 0, NEW r \in acked, r.op \in {"pay", "rollback"}
               PROVE  \/ [r EXCEPT !.op = "freeze"] \in acked
                      \/ \E w \in Workers : At(w, "writeBack") /\ req[w] = [r EXCEPT !.op = "freeze"]
    BY DEF UserFroze
  <2>1. PICK op \in Operations, c \in Coupons, o \in Orders :
          r = [op |-> op, coupon |-> c, order |-> o]
    BY DEF Typed, SharedOK
  <2>2. [r EXCEPT !.op = "freeze"] = Freezing(c, o)
    BY <2>1 DEF Freezing
  <2>3. Froze(c, o)
    BY <2>1 DEF FrozeOK
  <2>4. QED
    BY <2>2, <2>3 DEF Froze, At
<1>2. QED
  BY <1>1, FrozeAlways, TypedAlways, PTL

-----------------------------------------------------------------------------
(***************************************************************************)
(* Requests one at a time: what the tests of the one request at work have  *)
(* found still holds when it writes.                                       *)
(***************************************************************************)

Only(w) == \A v \in Workers : v # w => pc[v] = "idle"
Alone == \A w \in Workers : pc[w] # "idle" => Only(w)

\* What an operation may leave in use_status.
Results(op) ==
  CASE op = "freeze"   -> {"FROZEN"}
    [] op = "pay"      -> {"PAYED"}
    [] op = "rollback" -> {"DRAWN", "EXPIRED"}

\* The row of a coupon is blank or belongs to an order, and a payed coupon says
\* so in coupon_usercoupons, too.
Stored(c) ==
  /\ row[c] = Blank \/ (row[c].order \in Orders /\ row[c].frozen)
  /\ row[c].payed => use_status[c] = "PAYED"

Work(w, op, c, o) ==
  /\ pc[w] \in UpToRow => RowAllows(op, c, o)
  /\ pc[w] = "writeStatus" => use_status[c] = Required(op)
  /\ pc[w] \in {"writeStatus", "writeRow"} =>
       todo[w][1].status \in Results(op) /\ (todo[w][1].status = "EXPIRED" => expired)
  /\ pc[w] = "writeRow" => use_status[c] = todo[w][1].status

Asks(w, op, c, o) == pc[w] \in Handling /\ req[w] = [op |-> op, coupon |-> c, order |-> o]

SerialOK == scene.serial =>
  /\ Alone
  /\ \A c \in Coupons : Stored(c)
  /\ \A w \in Workers, op \in Operations, c \in Coupons, o \in Orders :
       Asks(w, op, c, o) => Work(w, op, c, o)

LEMMA OnlyStays ==
  ASSUME NEW w \in Workers, Others(w), Only(w)
  PROVE  Alone' /\ Only(w)'
  BY DEF Others, Only, Alone

\* It is enough to look at the coupons and at the worker that moves.
LEMMA SerialStep ==
  ASSUME NEW w \in Workers, Others(w), Only(w), \A c \in Coupons : Stored(c)',
         \A op \in Operations, c \in Coupons, o \in Orders :
           Asks(w, op, c, o)' => Work(w, op, c, o)'
  PROVE  SerialOK'
<1>1. Alone' /\ Only(w)'
  BY OnlyStays
<1>2. ASSUME NEW v \in Workers, NEW op \in Operations, NEW c \in Coupons, NEW o \in Orders,
             Asks(v, op, c, o)'
      PROVE  Work(v, op, c, o)'
  <2>1. v = w
    BY <1>1, <1>2 DEF Only, Asks, Handling
  <2>2. QED
    BY <1>2, <2>1
<1>3. QED
  BY <1>1, <1>2 DEF SerialOK

LEMMA StoredStays ==
  ASSUME NEW c \in Coupons, Stored(c), row' = row, use_status' = use_status
  PROVE  Stored(c)'
  BY DEF Stored, Blank

\* The writes of use_status and of the row.
LEMMA StatusStored ==
  ASSUME Typed, \A c \in Coupons : Stored(c), NEW w \in Workers, pc[w] = "writeStatus",
         NEW op \in Operations, NEW d \in Coupons, NEW o \in Orders,
         Asks(w, op, d, o), Work(w, op, d, o), DoWriteStatus(w)
  PROVE  /\ \A c \in Coupons : Stored(c)'
         /\ use_status'[d] = todo[w][1].status /\ row' = row
         /\ \A c \in Coupons : c # d => use_status'[c] = use_status[c]
<1>1. PICK s \in Status : s = todo[w][1].status
  BY ItemAtHand DEF Typed, Decided, Item
<1>2. /\ use_status' = [use_status EXCEPT ![d] = s] /\ row' = row
      /\ use_status \in [Coupons -> Status]
  BY <1>1 DEF DoWriteStatus, Coupon, Asks, Typed, SharedOK
<1>3. ~ row[d].payed
  BY DEF Work, RowAllows, Stored, UpToRow, Required, Operations, Blank
<1>4. ASSUME NEW c \in Coupons PROVE Stored(c)'
  BY <1>2, <1>3 DEF Stored, Blank
<1>5. QED
  BY <1>1, <1>2, <1>4

LEMMA RowStored ==
  ASSUME Typed, \A c \in Coupons : Stored(c), NEW w \in Workers, pc[w] = "writeRow",
         NEW op \in Operations, NEW d \in Coupons, NEW o \in Orders,
         Asks(w, op, d, o), Work(w, op, d, o), DoWriteRow(w)
  PROVE  /\ \A c \in Coupons : Stored(c)'
         /\ use_status' = use_status
         /\ \A c \in Coupons : c # d => row'[c] = row[c]
         /\ op = "freeze" => row[d] = Blank /\ row'[d] = [order |-> o, frozen |-> TRUE, payed |-> FALSE]
         /\ op = "pay" => /\ row[d] = [order |-> o, frozen |-> TRUE, payed |-> FALSE]
                          /\ row'[d] = [order |-> o, frozen |-> TRUE, payed |-> TRUE]
         /\ op = "rollback" => /\ row[d] = [order |-> o, frozen |-> TRUE, payed |-> FALSE]
                               /\ row'[d] = Blank
         /\ use_status[d] \in Results(op) /\ (use_status[d] = "EXPIRED" => expired)
<1>1. /\ row' = [row EXCEPT ![d] = RowAfter(op, d, o)] /\ use_status' = use_status
      /\ row \in [Coupons -> Row] /\ row[d] \in Row
  BY DEF DoWriteRow, NewRow, Coupon, Asks, Typed, SharedOK
<1>2. row'[d] = RowAfter(op, d, o) /\ \A c \in Coupons : c # d => row'[c] = row[c]
  BY <1>1
<1>3. /\ RowAllows(op, d, o) /\ use_status[d] = todo[w][1].status
      /\ use_status[d] \in Results(op) /\ (use_status[d] = "EXPIRED" => expired)
  BY DEF Work, UpToRow
<1>4. o # None /\ o \in Orders /\ None \notin Orders
  BY LifecycleAssumption
<1>a. PICK r \in Row : r = row[d]
  BY <1>1
<1>b. ASSUME Stored(d)' PROVE \A c \in Coupons : Stored(c)'
  <2>1. ASSUME NEW c \in Coupons, c # d PROVE Stored(c)'
    BY <1>1, <1>2, <2>1 DEF Stored, Blank
  <2>2. QED
    BY <1>b, <2>1
<1>5. CASE op = "freeze"
  <2>1. row[d] = Blank /\ row'[d] = [order |-> o, frozen |-> TRUE, payed |-> FALSE]
    BY <1>2, <1>3, <1>5 DEF RowAllows, RowAfter
  <2>2. row'[d].order = o /\ row'[d].frozen /\ ~ row'[d].payed
    BY <2>1
  <2>3. Stored(d)'
    BY <1>4, <2>2 DEF Stored
  <2>4. QED
    BY <1>1, <1>2, <1>3, <1>5, <1>b, <2>1, <2>3
<1>6. CASE op = "pay"
  <2>1. r.order = o /\ r.frozen /\ ~ r.payed /\ use_status[d] = "PAYED"
    BY <1>a, <1>3, <1>6 DEF RowAllows, Results
  <2>2. r = [order |-> o, frozen |-> TRUE, payed |-> FALSE]
    BY <2>1 DEF Row
  <2>3. row'[d] = [r EXCEPT !.payed = TRUE]
    BY <1>2, <1>6, <1>a DEF RowAfter
  <2>4. row'[d] = [order |-> o, frozen |-> TRUE, payed |-> TRUE]
    BY <2>2, <2>3
  <2>5. row'[d].order = o /\ row'[d].frozen
    BY <2>4
  <2>6. Stored(d)'
    BY <1>1, <1>4, <2>1, <2>5 DEF Stored
  <2>7. QED
    BY <1>1, <1>2, <1>3, <1>6, <1>a, <1>b, <2>2, <2>4, <2>6
<1>7. CASE op = "rollback"
  <2>1. r.order = o /\ use_status[d] \in {"DRAWN", "EXPIRED"}
    BY <1>a, <1>3, <1>7 DEF RowAllows, Results
  <2>2. r.frozen /\ ~ r.payed
    BY <1>4, <1>a, <2>1 DEF Stored, Blank
  <2>3. r = [order |-> o, frozen |-> TRUE, payed |-> FALSE]
    BY <2>1, <2>2 DEF Row
  <2>4. row'[d] = [r EXCEPT !.order = None, !.frozen = FALSE]
    BY <1>2, <1>7, <1>a DEF RowAfter
  <2>5. row'[d] = Blank
    BY <2>3, <2>4 DEF Blank
  <2>6. Stored(d)'
    BY <2>5 DEF Stored, Blank
  <2>7. QED
    BY <1>1, <1>2, <1>3, <1>7, <1>a, <1>b, <2>3, <2>5, <2>6
<1>8. QED
  BY <1>5, <1>6, <1>7 DEF Operations

\* Steps that leave the two tables: only what the worker knows may change.
LEMMA SerialRead ==
  ASSUME Typed, SerialOK, scene.serial, NEW w \in Workers, Others(w), Only(w),
         UNCHANGED <<row, use_status, expired>>,
         \/ pc'[w] \notin UpToRow
         \/ /\ req'[w] = req[w] /\ pc[w] \in UpToRow /\ pc'[w] \in {"readList", "readCache", "readStatus"}
         \/ ReadStatus(w)
         \/ \E op \in Operations, c \in Coupons, o \in Orders : Begin(w, op, c, o)
  PROVE  SerialOK'
<1>1. \A c \in Coupons : Stored(c)'
  BY StoredStays DEF SerialOK
<1>2. ASSUME NEW op \in Operations, NEW c \in Coupons, NEW o \in Orders, Asks(w, op, c, o)'
      PROVE  Work(w, op, c, o)'
  <2>1. CASE pc'[w] \notin UpToRow
    BY <2>1 DEF Work, UpToRow
  <2>2. CASE req'[w] = req[w] /\ pc[w] \in UpToRow /\ pc'[w] \in {"readList", "readCache", "readStatus"}
    <3>1. Asks(w, op, c, o)
      BY <1>2, <2>2 DEF Asks, UpToRow, Handling
    <3>2. RowAllows(op, c, o)
      BY <2>2, <3>1 DEF SerialOK, Work
    <3>3. QED
      BY <2>2, <3>2 DEF Work, RowAllows, Blank
  <2>3. CASE ReadStatus(w)
    <3>1. /\ pc[w] = "readStatus" /\ pc'[w] = "writeStatus" /\ req' = req
          /\ use_status[Coupon(w)] = Required(req[w].op)
      BY <2>3 DEF ReadStatus, At, Goto, Typed, LocalOK
    <3>2. Asks(w, op, c, o)
      BY <1>2, <3>1 DEF Asks, Handling
    <3>3. RowAllows(op, c, o)
      BY <3>1, <3>2 DEF SerialOK, Work, UpToRow
    <3>4. use_status[c] = Required(op)
      BY <3>1, <3>2 DEF Asks, Coupon
    <3>5. todo'[w][1].status = Target(op)
      BY <2>3, <3>2, ReadStatusTyped DEF Asks
    <3>6. Target(op) \in Results(op) /\ (Target(op) = "EXPIRED" => expired)
      BY DEF Target, Results, Operations
    <3>7. QED
      BY <3>1, <3>3, <3>4, <3>5, <3>6 DEF Work, RowAllows, Blank
  <2>4. ASSUME NEW op1 \in Operations, NEW c1 \in Coupons, NEW o1 \in Orders, Begin(w, op1, c1, o1)
        PROVE  Work(w, op, c, o)'
    <3>1. /\ req'[w] = [op |-> op1, coupon |-> c1, order |-> o1] /\ pc'[w] = "readList"
          /\ RowAllows(op1, c1, o1)
      BY <2>4 DEF Begin, Take, Goto, Typed, LocalOK
    <3>2. op = op1 /\ c = c1 /\ o = o1
      BY <1>2, <3>1 DEF Asks
    <3>3. QED
      BY <3>1, <3>2 DEF Work, RowAllows, Blank
  <2>5. QED
    BY <2>1, <2>2, <2>3, <2>4
<1>3. QED
  BY <1>1, <1>2, SerialStep

LEMMA SerialWrite ==
  ASSUME Typed, SerialOK, scene.serial, NEW w \in Workers, Others(w), Only(w),
         WriteStatus(w) \/ WriteRow(w) \/ WriteFails(w)
  PROVE  SerialOK'
<1>0. pc[w] \in Writes /\ LocalOK /\ expired' = expired
  BY DEF WriteStatus, WriteRow, WriteFails, At, Writes, Typed, env
<1>1. PICK op \in Operations, d \in Coupons, o \in Orders : Asks(w, op, d, o)
  BY <1>0, AtWork DEF Asks, Writes, Handling
<1>2. Work(w, op, d, o) /\ \A c \in Coupons : Stored(c)
  BY <1>1 DEF SerialOK
<1>3. \A c \in Coupons : Stored(c)'
  <2>1. CASE pc[w] = "writeStatus" /\ DoWriteStatus(w)
    BY <1>1, <1>2, <2>1, StatusStored
  <2>2. CASE pc[w] = "writeRow" /\ DoWriteRow(w)
    BY <1>1, <1>2, <2>2, RowStored
  <2>3. CASE UNCHANGED <<row, use_status>>
    BY <1>2, <2>3, StoredStays
  <2>4. QED
    BY <2>1, <2>2, <2>3 DEF WriteStatus, WriteRow, WriteFails, At, DoCount, db
<1>4. CASE WriteStatus(w)
  <2>1. /\ pc[w] = "writeStatus" /\ pc'[w] = "writeRow" /\ DoWriteStatus(w) /\ UNCHANGED <<req, todo>>
    BY <1>0, <1>4 DEF WriteStatus, At, Goto, LocalOK, local
  <2>2. use_status'[d] = todo[w][1].status /\ row' = row
    BY <1>1, <1>2, <2>1, StatusStored
  <2>3. RowAllows(op, d, o) /\ todo[w][1].status \in Results(op)
        /\ (todo[w][1].status = "EXPIRED" => expired)
    BY <1>2, <2>1 DEF Work, UpToRow
  <2>4. Work(w, op, d, o)'
    BY <1>0, <2>1, <2>2, <2>3 DEF Work, RowAllows, Blank
  <2>5. ASSUME NEW p \in Operations, NEW c \in Coupons, NEW q \in Orders, Asks(w, p, c, q)'
        PROVE  p = op /\ c = d /\ q = o
    BY <1>1, <2>1, <2>5 DEF Asks
  <2>6. QED
    BY <1>3, <2>4, <2>5, SerialStep
<1>5. CASE WriteRow(w) \/ WriteFails(w)
  <2>1. pc'[w] \notin UpToRow
    BY <1>0, <1>5, DoneLocal DEF WriteRow, WriteFails, Goto, AfterRow, UpToRow, LocalOK
  <2>2. QED
    BY <1>3, <2>1, SerialStep DEF Work, UpToRow
<1>6. QED
  BY <1>4, <1>5

LEMMA StepSerial ==
  ASSUME Typed, SerialOK, NEW w \in Workers, Step(w)
  PROVE  SerialOK'
<1>0. Typed' /\ Others(w) /\ Shape(w) /\ scene' = scene
  BY StepTyped, StepShape DEF Shape
<1>1. SUFFICES ASSUME scene.serial PROVE SerialOK'
  BY <1>0 DEF SerialOK
<1>2. Only(w) /\ expired' = expired
  BY <1>0, <1>1 DEF SerialOK, Alone, Shape
<1>3. CASE WriteStatus(w) \/ WriteRow(w) \/ WriteFails(w)
  BY <1>0, <1>1, <1>2, <1>3, SerialWrite
<1>4. CASE ReadList(w) \/ ReadCache(w)
  <2>1. /\ UNCHANGED <<row, use_status>> /\ req'[w] = req[w] /\ pc[w] \in UpToRow
        /\ pc'[w] \in {"readList", "readCache", "readStatus"}
    BY <1>4 DEF ReadList, ReadCache, db, At, Goto, UpToRow, Typed, LocalOK
  <2>2. QED
    BY <1>0, <1>1, <1>2, <2>1, SerialRead
<1>5. CASE ReadStatus(w)
  <2>1. UNCHANGED <<row, use_status>>
    BY <1>5 DEF ReadStatus, db
  <2>2. QED
    BY <1>0, <1>1, <1>2, <1>5, <2>1, SerialRead
<1>6. CASE CacheRefuses(w) \/ StatusRefuses(w) \/ WriteUnchanged(w) \/ ListFails(w)
  <2>1. UNCHANGED <<row, use_status>> /\ pc'[w] = "idle"
    BY <1>6, DoneLocal DEF CacheRefuses, StatusRefuses, WriteUnchanged, ListFails, db, Typed
  <2>2. QED
    BY <1>0, <1>1, <1>2, <2>1, SerialRead DEF UpToRow
<1>7. CASE Count(w) \/ WriteBack(w)
  <2>1. UNCHANGED <<row, use_status>> /\ pc'[w] \in {"idle", "writeBack"}
    BY <1>7, DoneLocal DEF Count, WriteBack, DoCount, Goto, db, Typed, LocalOK
  <2>2. QED
    BY <1>0, <1>1, <1>2, <2>1, SerialRead DEF UpToRow
<1>8. CASE \/ ReadCodes(w) \/ ReadHits(w) \/ ReadRows(w) \/ ReadGroups(w)
           \/ Skip(w) \/ Relist(w) \/ Rebuild(w)
  <2>1. pc[w] \notin Handling
    BY <1>8 DEF ReadCodes, ReadHits, ReadRows, ReadGroups, Skip, Relist, Rebuild, At, Handling
  <2>2. pc'[w] \notin UpToRow
    BY <1>0, <2>1 DEF Shape, UpToRow, Handling
  <2>3. UNCHANGED <<row, use_status>>
    BY <1>8 DEF ReadCodes, ReadHits, ReadRows, ReadGroups, Skip, Relist, Rebuild, db
  <2>4. QED
    BY <1>0, <1>1, <1>2, <2>2, <2>3, SerialRead
<1>9. QED
  BY <1>3, <1>4, <1>5, <1>6, <1>7, <1>8 DEF Step

LEMMA BeginSerial ==
  ASSUME Typed, SerialOK, NEW w \in Workers,
         \/ \E op \in Operations, c \in Coupons, o \in Orders : Begin(w, op, c, o)
         \/ \E category \in DOMAIN Category : BeginList(w, category)
  PROVE  SerialOK'
<1>0. Others(w) /\ scene' = scene /\ UNCHANGED <<row, use_status, expired>>
  BY BeginTyped, BeginListTyped DEF Begin, BeginList, env, db
<1>1. SUFFICES ASSUME scene.serial PROVE SerialOK'
  BY <1>0 DEF SerialOK
<1>2. Only(w)
  BY <1>1 DEF Begin, BeginList, Take, At, Only
<1>3. CASE \E op \in Operations, c \in Coupons, o \in Orders : Begin(w, op, c, o)
  BY <1>0, <1>1, <1>2, <1>3, SerialRead
<1>4. CASE \E category \in DOMAIN Category : BeginList(w, category)
  <2>1. pc'[w] = "readCodes"
    BY <1>4 DEF BeginList, Take, Goto, Typed, LocalOK
  <2>2. QED
    BY <1>0, <1>1, <1>2, <2>1, SerialRead DEF UpToRow
<1>5. QED
  BY <1>3, <1>4

LEMMA NextSerial ==
  ASSUME Typed, SerialOK, [Next]_vars
  PROVE  SerialOK'
<1>1. CASE \E w \in Workers : Step(w)
  BY <1>1, StepSerial
<1>2. CASE \/ \E w \in Workers, op \in Operations, c \in Coupons, o \in Orders : Begin(w, op, c, o)
           \/ \E w \in Workers, category \in DOMAIN Category : BeginList(w, category)
  BY <1>2, BeginSerial
<1>3. CASE Crash
  <2>1. /\ UNCHANGED <<scene, row, use_status>> /\ \A w \in Workers : pc'[w] = "idle"
    BY <1>3, CrashTyped DEF Crash, env, db
  <2>2. Alone' /\ \A w \in Workers, op \in Operations, c \in Coupons, o \in Orders :
                    ~ Asks(w, op, c, o)'
    BY <2>1 DEF Alone, Only, Asks, Handling
  <2>3. QED
    BY <2>1, <2>2, StoredStays DEF SerialOK
<1>4. CASE Expire \/ UpdateGroup \/ (\E c \in Coupons : CopyExpires(c)) \/ UNCHANGED vars
  <2>1. /\ UNCHANGED <<scene, row, use_status, pc, req, todo>> /\ (expired => expired')
    BY <1>4 DEF Expire, UpdateGroup, CopyExpires, vars, db, env, local
  <2>2. (Alone => Alone') /\ \A c \in Coupons : Stored(c) => Stored(c)'
    BY <2>1, StoredStays DEF Alone, Only
  <2>3. \A w \in Workers, op \in Operations, c \in Coupons, o \in Orders :
          /\ Asks(w, op, c, o)' => Asks(w, op, c, o)
          /\ Work(w, op, c, o) => Work(w, op, c, o)'
    BY <2>1 DEF Asks, Work, RowAllows, Blank
  <2>4. QED
    BY <2>1, <2>2, <2>3 DEF SerialOK
<1>5. QED
  BY <1>1, <1>2, <1>3, <1>4 DEF Next

LEMMA InitSerial == Init => SerialOK
<1> SUFFICES ASSUME Init PROVE SerialOK
  OBVIOUS
<1>1. Alone /\ \A w \in Workers, op \in Operations, c \in Coupons, o \in Orders : ~ Asks(w, op, c, o)
  BY DEF Init, Alone, Only, Asks, Handling
<1>2. \A c \in Coupons : Stored(c)
  BY DEF Init, Stored, Blank
<1>3. QED
  BY <1>1, <1>2 DEF SerialOK

LEMMA SerialAlways == Spec => []SerialOK
  BY InitSerial, NextSerial, TypedAlways, PTL DEF Spec

-----------------------------------------------------------------------------
(***************************************************************************)
(* Implements: a request takes effect for the users of a coupon when it    *)
(* writes the row.                                                         *)
(***************************************************************************)

Claims == [c \in Coupons |-> Claimed(c)]
Lateness == scene.serial /\ expired
ClaimsStay == UNCHANGED <<Claims, Lateness>>

StatesAre == \A c \in Coupons :
  /\ Agreed(c) => StateOf(c) = [status |-> use_status[c], order |-> row[c].order]
  /\ ~ Agreed(c) /\ InHand(c) =>
       StateOf(c) = [status |-> IF row[c] = Blank THEN "DRAWN" ELSE "FROZEN", order |-> row[c].order]
  /\ ~ Agreed(c) /\ ~ InHand(c) => StateOf(c) = [status |-> "LOST", order |-> None]

LEMMA States == StatesAre
  BY DEF StatesAre, StateOf

LEMMA StatesThen == StatesAre'
  BY States, PTL

LEMMA StateStays ==
  ASSUME NEW c \in Coupons, row'[c] = row[c], use_status'[c] = use_status[c],
         InHand(c)' <=> InHand(c)
  PROVE  StateOf(c)' = StateOf(c)
<1>1. Agreed(c)' <=> Agreed(c)
  BY DEF Agreed, Blank
<1>2. CASE Agreed(c)
  BY <1>1, <1>2, States, StatesThen DEF StatesAre
<1>3. CASE ~ Agreed(c) /\ InHand(c)
  <2>1. row'[c] = Blank' <=> row[c] = Blank
    BY DEF Blank
  <2>2. QED
    BY <1>1, <1>3, <2>1, States, StatesThen DEF StatesAre
<1>4. CASE ~ Agreed(c) /\ ~ InHand(c)
  BY <1>1, <1>4, States, StatesThen DEF StatesAre
<1>5. QED
  BY <1>2, <1>3, <1>4

Drawn == [status |-> "DRAWN", order |-> None]
Gone == [status |-> "EXPIRED", order |-> None]
Lost == [status |-> "LOST", order |-> None]
Frozen(o) == [status |-> "FROZEN", order |-> o]
PayedBy(o) == [status |-> "PAYED", order |-> o]

\* The steps of the ledger.
LEMMA LedgerStep ==
  ASSUME scene.serial, UNCHANGED <<scene, expired>>, NEW d \in Coupons, NEW o \in Orders,
         \A c \in Coupons : c # d => StateOf(c)' = StateOf(c),
         \/ StateOf(d)' = StateOf(d)
         \/ StateOf(d) = Drawn /\ StateOf(d)' = Frozen(o)
         \/ StateOf(d) = Frozen(o) /\ StateOf(d)' = PayedBy(o)
         \/ StateOf(d) = Frozen(o) /\ (StateOf(d)' = Drawn \/ (expired /\ StateOf(d)' = Gone))
         \/ StateOf(d) \in {Drawn, Frozen(o)} /\ StateOf(d)' = Lost
  PROVE  Ledger!Next \/ ClaimsStay
<1>0. /\ Lateness' = Lateness /\ (expired => Lateness)
      /\ \A c \in Coupons : Claims[c] = StateOf(c) /\ Claims'[c] = StateOf(c)'
      /\ DOMAIN Claims = Coupons /\ DOMAIN Claims' = Coupons
  BY DEF Lateness, Claims, Claimed
<1>1. PICK x : x = StateOf(d)'
  OBVIOUS
<1>2. Claims' = [Claims EXCEPT ![d] = x]
  <2>1. /\ Claims = [c \in Coupons |-> Claims[c]] /\ Claims' = [c \in Coupons |-> Claims'[c]]
    BY DEF Claims
  <2>2. \A c \in Coupons : Claims'[c] = IF c = d THEN x ELSE Claims[c]
    BY <1>0, <1>1
  <2>3. QED
    BY <2>1, <2>2
<1>3. CASE StateOf(d)' = StateOf(d)
  BY <1>0, <1>1, <1>2, <1>3 DEF ClaimsStay, Claims
<1>4. CASE StateOf(d) = Drawn /\ StateOf(d)' = Frozen(o)
  <2>1. Ledger!Freeze(d, o)
    BY <1>0, <1>1, <1>2, <1>4
    DEF Ledger!Freeze, Ledger!Is, Ledger!Becomes, Claims, Lateness, Drawn, Frozen
  <2>2. QED
    BY <2>1 DEF Ledger!Next
<1>5. CASE StateOf(d) = Frozen(o) /\ StateOf(d)' = PayedBy(o)
  <2>1. Ledger!Pay(d, o)
    BY <1>0, <1>1, <1>2, <1>5
    DEF Ledger!Pay, Ledger!Is, Ledger!Becomes, Claims, Lateness, PayedBy, Frozen
  <2>2. QED
    BY <2>1 DEF Ledger!Next
<1>6. CASE StateOf(d) = Frozen(o) /\ (StateOf(d)' = Drawn \/ (expired /\ StateOf(d)' = Gone))
  <2>1. Ledger!Rollback(d, o)
    BY <1>0, <1>1, <1>2, <1>6
    DEF Ledger!Rollback, Ledger!Is, Ledger!Becomes, Claims, Lateness, Drawn, Frozen, Gone
  <2>2. QED
    BY <2>1 DEF Ledger!Next
<1>7. CASE StateOf(d) \in {Drawn, Frozen(o)} /\ StateOf(d)' = Lost
  <2>1. Claims[d].status \in {"DRAWN", "FROZEN"}
    BY <1>0, <1>7 DEF Drawn, Frozen
  <2>2. Ledger!Lose(d)
    BY <1>0, <1>1, <1>2, <1>7, <2>1
    DEF Ledger!Lose, Ledger!Becomes, Claims, Lateness, Lost
  <2>3. QED
    BY <2>2 DEF Ledger!Next
<1>8. QED
  BY <1>3, <1>4, <1>5, <1>6, <1>7

\* What the users of a coupon see until the operation takes effect.
SeenBefore(op, o) == IF op = "freeze" THEN Drawn ELSE Frozen(o)

\* The worker at work is the only one who can have the row in hand.
LEMMA HandOf ==
  ASSUME NEW w \in Workers, NEW op, NEW d, NEW o, Only(w), Asks(w, op, d, o)
  PROVE  \A c \in Coupons : InHand(c) <=> (pc[w] = "writeRow" /\ c = d)
  BY DEF Only, Asks, InHand, At, Coupon

\* Before use_status is written the records agree, afterwards they do not.
LEMMA BeforeStatus ==
  ASSUME Typed, SerialOK, scene.serial, NEW w \in Workers, pc[w] = "writeStatus", Only(w),
         NEW op \in Operations, NEW d \in Coupons, NEW o \in Orders, Asks(w, op, d, o)
  PROVE  Agreed(d) /\ StateOf(d) = SeenBefore(op, o)
<1>1. /\ RowAllows(op, d, o) /\ use_status[d] = Required(op) /\ Stored(d) /\ o # None
  BY LifecycleAssumption DEF SerialOK, Work, UpToRow
<1>2. Agreed(d)
  BY <1>1 DEF Agreed, RowAllows, Required, Stored, Operations, Blank
<1>3. StateOf(d) = [status |-> use_status[d], order |-> row[d].order]
  BY <1>2, States DEF StatesAre
<1>4. CASE op = "freeze"
  <2>1. use_status[d] = "DRAWN" /\ row[d].order = None
    BY <1>1, <1>4 DEF RowAllows, Required, Blank
  <2>2. QED
    BY <1>2, <1>3, <1>4, <2>1 DEF SeenBefore, Drawn
<1>5. CASE op # "freeze"
  <2>1. use_status[d] = "FROZEN" /\ row[d].order = o
    BY <1>1, <1>5 DEF RowAllows, Required, Operations
  <2>2. QED
    BY <1>2, <1>3, <1>5, <2>1 DEF SeenBefore, Frozen
<1>6. QED
  BY <1>2, <1>4, <1>5

LEMMA BeforeRow ==
  ASSUME Typed, SerialOK, scene.serial, NEW w \in Workers, pc[w] = "writeRow", Only(w),
         NEW op \in Operations, NEW d \in Coupons, NEW o \in Orders, Asks(w, op, d, o)
  PROVE  ~ Agreed(d) /\ StateOf(d) = SeenBefore(op, o)
<1>1. /\ RowAllows(op, d, o) /\ use_status[d] \in Results(op) /\ Stored(d) /\ o # None
  BY LifecycleAssumption DEF SerialOK, Work, UpToRow
<1>2. ~ Agreed(d)
  BY <1>1 DEF Agreed, RowAllows, Results, Stored, Operations, Blank
<1>3. StateOf(d) = [status |-> IF row[d] = Blank THEN "DRAWN" ELSE "FROZEN", order |-> row[d].order]
  BY <1>2, HandOf, States DEF StatesAre
<1>4. CASE op = "freeze"
  <2>1. row[d] = Blank /\ row[d].order = None
    BY <1>1, <1>4 DEF RowAllows, Blank
  <2>2. QED
    BY <1>2, <1>3, <1>4, <2>1 DEF SeenBefore, Drawn
<1>5. CASE op # "freeze"
  <2>1. row[d].order = o /\ row[d] # Blank
    BY <1>1, <1>5 DEF RowAllows, Operations, Blank
  <2>2. QED
    BY <1>2, <1>3, <1>5, <2>1 DEF SeenBefore, Frozen
<1>6. QED
  BY <1>2, <1>4, <1>5

\* The row is written: the operation has taken effect.
LEMMA RowTakesEffect ==
  ASSUME Typed, SerialOK, scene.serial, NEW w \in Workers, pc[w] = "writeRow", Only(w),
         DoWriteRow(w), UNCHANGED <<scene, expired>>, Others(w), pc'[w] # "writeRow"
  PROVE  Ledger!Next \/ ClaimsStay
<1>1. PICK op \in Operations, d \in Coupons, o \in Orders : Asks(w, op, d, o)
  BY AtWork DEF Asks, Handling, Typed
<1>2. ~ Agreed(d) /\ StateOf(d) = SeenBefore(op, o)
  BY <1>1, BeforeRow
<1>3. /\ Work(w, op, d, o) /\ \A c \in Coupons : Stored(c)
  BY <1>1 DEF SerialOK
<1>4. /\ use_status' = use_status
      /\ \A c \in Coupons : c # d => row'[c] = row[c]
      /\ op = "freeze" => row'[d] = [order |-> o, frozen |-> TRUE, payed |-> FALSE]
      /\ op = "pay" => row'[d] = [order |-> o, frozen |-> TRUE, payed |-> TRUE]
      /\ op = "rollback" => row'[d] = Blank
      /\ use_status[d] \in Results(op) /\ (use_status[d] = "EXPIRED" => expired)
  BY <1>1, <1>3, RowStored
<1>5. \A c \in Coupons : ~ InHand(c)' /\ (c # d => ~ InHand(c))
  BY <1>1, HandOf DEF Others, Only, InHand, At, Coupon
<1>6. \A c \in Coupons : c # d => StateOf(c)' = StateOf(c)
  BY <1>4, <1>5, StateStays
<1>7. o # None
  BY LifecycleAssumption
<1>8. CASE op = "freeze"
  <2>1. row'[d].order = o /\ ~ row'[d].payed /\ use_status'[d] = "FROZEN" /\ row'[d] # Blank
    BY <1>4, <1>7, <1>8 DEF Results, Blank
  <2>2. Agreed(d)'
    BY <1>7, <2>1 DEF Agreed, Blank
  <2>3. StateOf(d)' = Frozen(o)
    BY <2>1, <2>2, StatesThen DEF StatesAre, Frozen
  <2>4. QED
    BY <1>2, <1>6, <1>8, <2>3, LedgerStep DEF SeenBefore
<1>9. CASE op = "pay"
  <2>1. row'[d].order = o /\ row'[d].payed /\ use_status'[d] = "PAYED" /\ row'[d] # Blank
    BY <1>4, <1>7, <1>9 DEF Results, Blank
  <2>2. Agreed(d)'
    BY <1>7, <2>1 DEF Agreed, Blank
  <2>3. StateOf(d)' = PayedBy(o)
    BY <2>1, <2>2, StatesThen DEF StatesAre, PayedBy
  <2>4. QED
    BY <1>2, <1>6, <1>9, <2>3, LedgerStep DEF SeenBefore
<1>10. CASE op = "rollback"
  <2>1. /\ row'[d] = Blank /\ row'[d].order = None
        /\ use_status'[d] = "DRAWN" \/ (use_status'[d] = "EXPIRED" /\ expired)
    BY <1>4, <1>10 DEF Results, Blank
  <2>2. Agreed(d)'
    BY <2>1 DEF Agreed, Blank
  <2>3. StateOf(d)' = Drawn \/ (expired /\ StateOf(d)' = Gone)
    BY <2>1, <2>2, StatesThen DEF StatesAre, Drawn, Gone
  <2>4. QED
    BY <1>2, <1>6, <1>10, <2>3, LedgerStep DEF SeenBefore
<1>11. QED
  BY <1>8, <1>9, <1>10 DEF Operations

\* use_status is written: the users see nothing yet if the worker goes on, and
\* have lost the coupon otherwise.
LEMMA StatusTakesEffect ==
  ASSUME Typed, Typed', SerialOK, SerialOK', scene.serial, NEW w \in Workers, pc[w] = "writeStatus",
         Only(w), DoWriteStatus(w), UNCHANGED <<scene, expired>>, Others(w),
         (pc'[w] = "writeRow" /\ req'[w] = req[w]) \/ pc'[w] = "idle"
  PROVE  Ledger!Next \/ ClaimsStay
<1>1. PICK op \in Operations, d \in Coupons, o \in Orders : Asks(w, op, d, o)
  BY AtWork DEF Asks, Handling, Typed
<1>2. StateOf(d) = SeenBefore(op, o)
  BY <1>1, BeforeStatus
<1>3. /\ Work(w, op, d, o) /\ \A c \in Coupons : Stored(c)
  BY <1>1 DEF SerialOK
<1>4. /\ use_status'[d] = todo[w][1].status /\ row' = row
      /\ \A c \in Coupons : c # d => use_status'[c] = use_status[c]
  BY <1>1, <1>3, StatusStored
<1>5. \A c \in Coupons : c # d => ~ InHand(c)' /\ ~ InHand(c)
  BY <1>1, HandOf DEF Others, Only, InHand, At, Coupon, Asks
<1>6. \A c \in Coupons : c # d => StateOf(c)' = StateOf(c)
  BY <1>4, <1>5, StateStays
<1>7. RowAllows(op, d, o) /\ use_status'[d] \in Results(op) /\ Stored(d)' /\ o # None
  BY <1>3, <1>4, LifecycleAssumption DEF Work, UpToRow, SerialOK
<1>8. ~ Agreed(d)'
  BY <1>4, <1>7 DEF Agreed, RowAllows, Results, Stored, Operations, Blank
<1>9. CASE pc'[w] = "writeRow" /\ req'[w] = req[w]
  <2>1. InHand(d)'
    BY <1>1, <1>9 DEF InHand, At, Coupon, Asks
  <2>2. StateOf(d)' = [status |-> IF row[d] = Blank THEN "DRAWN" ELSE "FROZEN", order |-> row[d].order]
    BY <1>4, <1>8, <2>1, StatesThen DEF StatesAre, Blank
  <2>3. StateOf(d)' = SeenBefore(op, o)
    <3>1. CASE op = "freeze"
      BY <1>7, <2>2, <3>1 DEF RowAllows, SeenBefore, Drawn, Blank
    <3>2. CASE op # "freeze"
      <4>1. row[d].order = o /\ row[d] # Blank
        BY <1>7, <3>2 DEF RowAllows, Operations, Blank
      <4>2. QED
        BY <2>2, <3>2, <4>1 DEF SeenBefore, Frozen
    <3>3. QED
      BY <3>1, <3>2
  <2>4. QED
    BY <1>2, <1>6, <2>3, LedgerStep
<1>10. CASE pc'[w] = "idle"
  <2>1. ~ InHand(d)'
    BY <1>10 DEF Others, Only, InHand, At
  <2>2. StateOf(d)' = Lost
    BY <1>8, <2>1, StatesThen DEF StatesAre, Lost
  <2>3. QED
    BY <1>2, <1>6, <2>2, LedgerStep DEF SeenBefore
<1>11. QED
  BY <1>9, <1>10

\* The tables stay: the users see nothing, or have lost the coupon whose row was
\* about to be written.
LEMMA TablesStay ==
  ASSUME Typed, SerialOK, scene.serial, NEW w \in Workers, pc[w] # "idle", Only(w),
         UNCHANGED <<scene, expired, row, use_status>>,
         \A v \in Workers : pc'[v] # "writeRow"
  PROVE  Ledger!Next \/ ClaimsStay
<1>1. \A c \in Coupons : ~ InHand(c)'
  BY DEF InHand, At
<1>2. CASE pc[w] = "writeRow"
  <2>1. PICK op \in Operations, d \in Coupons, o \in Orders : Asks(w, op, d, o)
    BY <1>2, AtWork DEF Asks, Handling, Typed
  <2>2. ~ Agreed(d) /\ StateOf(d) = SeenBefore(op, o)
    BY <1>2, <2>1, BeforeRow
  <2>3. ~ Agreed(d)'
    BY <2>2 DEF Agreed, Blank
  <2>4. StateOf(d)' = Lost
    BY <1>1, <2>3, StatesThen DEF StatesAre, Lost
  <2>5. \A c \in Coupons : c # d => StateOf(c)' = StateOf(c)
    BY <1>1, <2>1, HandOf, StateStays
  <2>6. QED
    BY <2>2, <2>4, <2>5, LedgerStep DEF SeenBefore
<1>3. CASE pc[w] # "writeRow"
  <2>1. \A c \in Coupons : ~ InHand(c)
    BY <1>3 DEF InHand, At, Only
  <2>2. \A c \in Coupons : StateOf(c)' = StateOf(c)
    BY <1>1, <2>1, StateStays
  <2>3. QED
    BY <2>2 DEF ClaimsStay, Claims, Claimed, Lateness
<1>4. QED
  BY <1>2, <1>3

LEMMA StepLedger ==
  ASSUME Typed, SerialOK, SerialOK', NEW w \in Workers, Step(w)
  PROVE  Ledger!Next \/ ClaimsStay
<1>0. Typed' /\ Others(w) /\ Shape(w) /\ UNCHANGED <<scene, expired>> /\ pc[w] # "idle"
  BY StepTyped, StepShape DEF Shape
<1>1. CASE ~ scene.serial
  BY <1>0, <1>1 DEF ClaimsStay, Claims, Claimed, Lateness
<1>2. CASE scene.serial
  <2>1. Only(w)
    BY <1>0, <1>2 DEF SerialOK, Alone
  <2>2. CASE WriteStatus(w)
    <3>1. /\ pc[w] = "writeStatus" /\ DoWriteStatus(w)
          /\ pc'[w] = "writeRow" /\ req'[w] = req[w]
      BY <2>2 DEF WriteStatus, At, Goto, local, Typed, LocalOK
    <3>2. QED
      BY <1>0, <1>2, <2>1, <3>1, StatusTakesEffect
  <2>3. CASE WriteRow(w)
    <3>1. pc[w] = "writeRow" /\ DoWriteRow(w) /\ pc'[w] # "writeRow"
      BY <2>3 DEF WriteRow, At, Goto, AfterRow, Typed, LocalOK
    <3>2. QED
      BY <1>0, <1>2, <2>1, <3>1, RowTakesEffect
  <2>4. ASSUME UNCHANGED <<row, use_status>>, pc'[w] # "writeRow" PROVE Ledger!Next \/ ClaimsStay
    <3>1. \A v \in Workers : pc'[v] # "writeRow"
      BY <1>0, <2>1, <2>4 DEF Others, Only
    <3>2. QED
      BY <1>0, <1>2, <2>1, <2>4, <3>1, TablesStay
  <2>5. CASE WriteFails(w)
    <3>1. pc'[w] = "idle"
      BY <2>5, DoneLocal DEF WriteFails, Typed
    <3>2. CASE pc[w] = "writeStatus" /\ DoWriteStatus(w)
      BY <1>0, <1>2, <2>1, <3>1, <3>2, StatusTakesEffect
    <3>3. CASE pc[w] = "writeRow" /\ DoWriteRow(w)
      BY <1>0, <1>2, <2>1, <3>1, <3>3, RowTakesEffect
    <3>4. CASE UNCHANGED <<row, use_status>>
      BY <2>4, <3>1, <3>4
    <3>5. QED
      BY <2>5, <3>2, <3>3, <3>4 DEF WriteFails, At, DoCount, db
  <2>6. CASE Count(w) \/ WriteBack(w)
    <3>1. UNCHANGED <<row, use_status>> /\ pc'[w] # "writeRow"
      BY <2>6, DoneLocal DEF Count, WriteBack, DoCount, Goto, db, Typed, LocalOK
    <3>2. QED
      BY <2>4, <3>1
  <2>7. CASE CacheRefuses(w) \/ StatusRefuses(w) \/ WriteUnchanged(w) \/ ListFails(w)
    <3>1. UNCHANGED <<row, use_status>> /\ pc'[w] # "writeRow"
      BY <2>7, DoneLocal DEF CacheRefuses, StatusRefuses, WriteUnchanged, ListFails, db, Typed
    <3>2. QED
      BY <2>4, <3>1
  <2>8. CASE ReadList(w) \/ ReadCache(w) \/ ReadStatus(w)
    <3>1. UNCHANGED <<row, use_status>> /\ pc'[w] # "writeRow"
      BY <2>8 DEF ReadList, ReadCache, ReadStatus, Goto, db, Typed, LocalOK
    <3>2. QED
      BY <2>4, <3>1
  <2>9. CASE \/ ReadCodes(w) \/ ReadHits(w) \/ ReadRows(w) \/ ReadGroups(w)
             \/ Skip(w) \/ Relist(w) \/ Rebuild(w)
    <3>1. pc[w] \notin Handling /\ UNCHANGED <<row, use_status>>
      BY <2>9 DEF ReadCodes, ReadHits, ReadRows, ReadGroups, Skip, Relist, Rebuild, At, Handling, db
    <3>2. pc'[w] # "writeRow"
      BY <1>0, <3>1 DEF Shape, Handling
    <3>3. QED
      BY <2>4, <3>1, <3>2
  <2>10. QED
    BY <2>2, <2>3, <2>5, <2>6, <2>7, <2>8, <2>9 DEF Step
<1>3. QED
  BY <1>1, <1>2

\* A request begins, or the world goes on: no row is in hand that was not before.
LEMMA ClaimsUnmoved ==
  ASSUME UNCHANGED <<scene, expired, row, use_status>>, \A c \in Coupons : InHand(c)' <=> InHand(c)
  PROVE  ClaimsStay
<1>1. \A c \in Coupons : StateOf(c)' = StateOf(c)
  BY StateStays
<1>2. QED
  BY <1>1 DEF ClaimsStay, Claims, Claimed, Lateness

LEMMA BeginLedger ==
  ASSUME Typed, NEW w \in Workers,
         \/ \E op \in Operations, c \in Coupons, o \in Orders : Begin(w, op, c, o)
         \/ \E category \in DOMAIN Category : BeginList(w, category)
  PROVE  ClaimsStay
<1>1. /\ Others(w) /\ UNCHANGED <<scene, row, use_status, expired>>
  BY BeginTyped, BeginListTyped DEF Begin, BeginList, env, db
<1>2. pc[w] # "writeRow" /\ pc'[w] # "writeRow"
  BY DEF Begin, BeginList, Take, At, Goto, Typed, LocalOK
<1>3. \A c \in Coupons : InHand(c)' <=> InHand(c)
  BY <1>1, <1>2 DEF InHand, At, Coupon, Others
<1>4. QED
  BY <1>1, <1>3, ClaimsUnmoved

LEMMA NextLedger ==
  ASSUME Typed, SerialOK, SerialOK', [Next]_vars
  PROVE  Ledger!Next \/ ClaimsStay
<1>1. CASE \E w \in Workers : Step(w)
  BY <1>1, StepLedger
<1>2. CASE \/ \E w \in Workers, op \in Operations, c \in Coupons, o \in Orders : Begin(w, op, c, o)
           \/ \E w \in Workers, category \in DOMAIN Category : BeginList(w, category)
  BY <1>2, BeginLedger
<1>3. CASE Crash
  <2>0. UNCHANGED <<scene, expired, row, use_status>> /\ \A v \in Workers : pc'[v] = "idle"
    BY <1>3, CrashTyped DEF Crash, env, db
  <2>1. CASE ~ scene.serial
    BY <2>0, <2>1 DEF ClaimsStay, Claims, Claimed, Lateness
  <2>2. CASE scene.serial
    <3>1. PICK w \in Workers : pc[w] # "idle"
      BY <1>3 DEF Crash
    <3>2. Only(w)
      BY <2>2, <3>1 DEF SerialOK, Alone
    <3>3. QED
      BY <2>0, <2>2, <3>1, <3>2, TablesStay
  <2>3. QED
    BY <2>1, <2>2
<1>4. CASE Expire
  <2>1. /\ UNCHANGED <<scene, row, use_status, pc, req>> /\ ~ expired /\ expired'
    BY <1>4 DEF Expire, db, local
  <2>2. \A c \in Coupons : InHand(c)' <=> InHand(c)
    BY <2>1 DEF InHand, At, Coupon
  <2>3. \A c \in Coupons : StateOf(c)' = StateOf(c)
    BY <2>1, <2>2, StateStays
  <2>4. Claims' = Claims
    BY <2>1, <2>3 DEF Claims, Claimed
  <2>5. CASE ~ scene.serial
    BY <2>1, <2>4, <2>5 DEF ClaimsStay, Lateness
  <2>6. CASE scene.serial
    <3>1. Ledger!Late
      <4>1. ~ Lateness /\ Lateness' = TRUE
        BY <2>1, <2>6, LifecycleAssumption DEF Lateness, Typed, SharedOK
      <4>2. QED
        BY <2>4, <4>1 DEF Ledger!Late, Claims, Lateness
    <3>2. QED
      BY <3>1 DEF Ledger!Next
  <2>7. QED
    BY <2>5, <2>6
<1>5. CASE UpdateGroup \/ (\E c \in Coupons : CopyExpires(c)) \/ UNCHANGED vars
  <2>1. UNCHANGED <<scene, expired, row, use_status, pc, req>>
    BY <1>5 DEF UpdateGroup, CopyExpires, vars, db, env, local
  <2>2. \A c \in Coupons : InHand(c)' <=> InHand(c)
    BY <2>1 DEF InHand, At, Coupon
  <2>3. QED
    BY <2>1, <2>2, ClaimsUnmoved
<1>6. QED
  BY <1>1, <1>2, <1>3, <1>4, <1>5 DEF Next

LEMMA InitLedger == Init => Ledger!Init
<1> SUFFICES ASSUME Init PROVE Ledger!Init
  OBVIOUS
<1>1. ASSUME NEW c \in Coupons PROVE StateOf(c) = Drawn
  <2>1. use_status[c] = "DRAWN" /\ row[c] = Blank /\ row[c].order = None
    BY DEF Init, Blank
  <2>2. Agreed(c)
    BY <2>1 DEF Agreed
  <2>3. QED
    BY <2>1, <2>2, States DEF StatesAre, Drawn
<1>2. \A c \in Coupons : Claimed(c) = Drawn
  BY <1>1 DEF Claimed, Drawn
<1>3. (scene.serial /\ expired) = FALSE
  BY DEF Init
<1>4. QED
  BY <1>2, <1>3 DEF Ledger!Init, Drawn

\* Requests handled one at a time keep the promise of CouponLedger, whatever fails
\* and whenever the server dies: an order that has frozen a coupon pays with it for
\* good or gives it back, and a coupon lost half way is never used again.
THEOREM LifecycleImplements == Spec => Implements
<1> DEFINE I == Typed /\ SerialOK
<1>1. Init => I
  BY InitTyped, InitSerial
<1>2. I /\ [Next]_vars => I'
  BY NextTyped, NextSerial
<1>3. I /\ I' /\ [Next]_vars => Ledger!Next \/ ClaimsStay
  BY NextLedger
<1>4. Ledger!Next \/ ClaimsStay <=>
        [Ledger!Next]_<<[c \in Coupons |-> Claimed(c)], scene.serial /\ expired>>
  BY DEF ClaimsStay, Claims, Lateness
<1> HIDE DEF I
<1>5. QED
  BY <1>1, <1>2, <1>3, <1>4, InitLedger, PTL DEF Spec, Implements, Ledger!Spec

-----------------------------------------------------------------------------
(***************************************************************************)
(* RecordsAgree and CountExact: requests one at a time, and nothing has    *)
(* failed.  Every coupon is in the code list, so its copy is found if      *)
(* there is one and brought up to date.                                    *)
(***************************************************************************)

Behind(c) == \E w \in Workers : pc[w] \in Written /\ req[w].coupon = c
CopyFits(c) == cache[c] # Absent => cache[c].status = use_status[c] \/ Behind(c)

\* What w has read is still so.
Knows(w) ==
  /\ pc[w] \in (Handling \ {"readList"}) \cup (Listing \ {"readCodes"}) => Codes(seen[w]) = Coupons
  /\ \A c \in Coupons : req[w].coupon = c =>
       /\ pc[w] \in Decided \cup {"readStatus"} /\ hit[w][c] = Absent => cache[c] = Absent
       /\ pc[w] \in Written => use_status[c] = todo[w][1].status
  /\ pc[w] \in {"readGroups", "rebuild"} =>
       \A i \in DOMAIN todo[w] : todo[w][i].status = use_status[todo[w][i].coupon]

PayedCoupons == {c \in Coupons : row[c].payed}
Counting == \E w \in Workers : pc[w] = "count"
CountOK == payed_count + (IF Counting THEN 1 ELSE 0) = Cardinality(PayedCoupons)

Clean == scene.serial /\ faults = 0 =>
  /\ Codes(list) = Coupons
  /\ \A c \in Coupons : (Agreed(c) \/ InHand(c)) /\ CopyFits(c)
  /\ \A w \in Workers : Knows(w)
  /\ CountOK

\* It is enough to look at what the worker that moves knows.
LEMMA CleanStep ==
  ASSUME NEW w \in Workers, Others(w), Only(w), Codes(list') = Coupons,
         \A c \in Coupons : (Agreed(c) \/ InHand(c))' /\ CopyFits(c)',
         Knows(w)', CountOK'
  PROVE  Clean'
<1>1. ASSUME NEW v \in Workers, v # w PROVE Knows(v)'
  <2>1. pc'[v] = "idle"
    BY <1>1 DEF Others, Only
  <2>2. QED
    BY <2>1 DEF Knows, Handling, Listing, Decided, Written
<1>2. QED
  BY <1>1 DEF Clean

LEMMA AgreedStays ==
  ASSUME NEW c \in Coupons, Agreed(c), row'[c] = row[c], use_status'[c] = use_status[c]
  PROVE  Agreed(c)'
  BY DEF Agreed, Blank

LEMMA PayedStay ==
  ASSUME CountOK, payed_count' = payed_count, \A c \in Coupons : row'[c].payed = row[c].payed,
         Counting' <=> Counting
  PROVE  CountOK'
<1>1. PayedCoupons' = PayedCoupons
  BY DEF PayedCoupons
<1>2. QED
  BY <1>1 DEF CountOK

\* Steps that leave the tables and the copies, away from the writes.
LEMMA CleanQuiet ==
  ASSUME Clean, scene.serial, faults = 0, NEW w \in Workers, Others(w), Only(w),
         UNCHANGED <<row, use_status, cache, list, payed_count>>,
         pc[w] \notin Written, pc'[w] \notin Written, Knows(w)'
  PROVE  Clean'
<1>1. \A v \in Workers : pc[v] \notin Written /\ pc'[v] \notin Written
  BY DEF Others, Only, Written
<1>2. ASSUME NEW c \in Coupons PROVE Agreed(c)' /\ CopyFits(c)'
  <2>1. ~ InHand(c) /\ ~ Behind(c)
    BY <1>1 DEF InHand, Behind, Written, At
  <2>2. Agreed(c) /\ CopyFits(c)
    BY <2>1 DEF Clean
  <2>3. Agreed(c)'
    BY <2>2, AgreedStays
  <2>4. QED
    BY <2>1, <2>2, <2>3 DEF CopyFits
<1>3. Counting' <=> Counting
  BY <1>1 DEF Counting, Written
<1>4. CountOK'
  BY <1>3, PayedStay DEF Clean
<1>5. Codes(list') = Coupons
  BY DEF Clean, Codes
<1>6. QED
  BY <1>2, <1>4, <1>5, CleanStep

LEMMA CleanHandlerReads ==
  ASSUME Typed, Clean, scene.serial, faults = 0, NEW w \in Workers, Others(w), Only(w), NoFault, ~ Fault,
         ReadList(w) \/ ReadCache(w) \/ ReadStatus(w)
  PROVE  Clean'
<1>0. UNCHANGED <<row, use_status, cache, list, payed_count, req, todo>>
      \/ (UNCHANGED <<row, use_status, cache, list, payed_count, req>> /\ ReadStatus(w))
  BY DEF ReadList, ReadCache, ReadStatus, db, redis
<1>1. PICK c \in Coupons : c = Coupon(w)
  <2>1. pc[w] \in Handling
    BY DEF ReadList, ReadCache, ReadStatus, At, Handling
  <2>2. PICK op \in Operations, d \in Coupons, o \in Orders :
          req[w] = [op |-> op, coupon |-> d, order |-> o]
    BY <2>1, AtWork DEF Typed
  <2>3. QED
    BY <2>2 DEF Coupon
<1>2. CASE ReadList(w)
  <2>1. /\ pc[w] = "readList" /\ seen'[w] = list
        /\ pc'[w] = IF Coupon(w) \in Codes(seen'[w]) THEN "readCache" ELSE "readStatus"
    BY <1>2 DEF ReadList, At, Goto, Typed, LocalOK
  <2>2. Codes(seen'[w]) = Coupons
    BY <2>1 DEF Clean, Codes
  <2>3. pc'[w] = "readCache"
    BY <1>1, <2>1, <2>2
  <2>4. Knows(w)'
    BY <2>2, <2>3 DEF Knows, Codes, Decided, Written
  <2>5. QED
    BY <1>0, <2>1, <2>3, <2>4, CleanQuiet DEF Written
<1>3. CASE ReadCache(w)
  <2>1. /\ pc[w] = "readCache" /\ pc'[w] = "readStatus" /\ hit' = [hit EXCEPT ![w][c] = cache[c]]
        /\ UNCHANGED <<req, seen, cache>>
    BY <1>1, <1>3 DEF ReadCache, At, Goto, Typed, LocalOK, redis
  <2>2. hit'[w][c] = cache[c]
    BY <2>1 DEF Typed, LocalOK
  <2>3. Codes(seen[w]) = Coupons
    BY <2>1 DEF Clean, Knows, Handling
  <2>4. Codes(seen'[w]) = Coupons
    BY <2>1, <2>3 DEF Codes
  <2>5. Knows(w)'
    BY <1>1, <2>1, <2>2, <2>4 DEF Knows, Codes, Decided, Written, Coupon
  <2>6. QED
    BY <1>0, <2>1, <2>5, CleanQuiet DEF Written
<1>4. CASE ReadStatus(w)
  <2>1. /\ pc[w] = "readStatus" /\ pc'[w] = "writeStatus" /\ UNCHANGED <<req, seen, hit, cache>>
    BY <1>4 DEF ReadStatus, At, Goto, Typed, LocalOK, redis
  <2>2. Codes(seen[w]) = Coupons /\ (hit[w][c] = Absent => cache[c] = Absent)
    BY <1>1, <2>1 DEF Clean, Knows, Handling, Coupon
  <2>3. Codes(seen'[w]) = Coupons
    BY <2>1, <2>2 DEF Codes
  <2>4. Knows(w)'
    BY <1>1, <2>1, <2>2, <2>3 DEF Knows, Codes, Decided, Written, Coupon
  <2>5. QED
    BY <1>0, <2>1, <2>4, CleanQuiet DEF Written
<1>5. QED
  BY <1>2, <1>3, <1>4

LEMMA CleanLists ==
  ASSUME Typed, Clean, scene.serial, faults = 0, NEW w \in Workers, Others(w), Only(w), NoFault, ~ Fault,
         ReadCodes(w) \/ ReadHits(w) \/ ReadRows(w) \/ ReadGroups(w) \/ Skip(w)
  PROVE  Clean'
<1>0. /\ UNCHANGED <<row, use_status, cache, list, payed_count>>
      /\ pc[w] \in Listing
  BY DEF ReadCodes, ReadHits, ReadRows, ReadGroups, Skip, db, redis, At, Listing
<1>1. ASSUME pc'[w] \in {"idle"} \cup Listing, Knows(w)' PROVE Clean'
  BY <1>0, <1>1, CleanQuiet DEF Written, Listing
<1>2. ASSUME Done(w) PROVE Clean'
  <2>1. pc'[w] = "idle"
    BY <1>2, DoneLocal DEF Typed
  <2>2. QED
    BY <1>1, <2>1 DEF Knows, Handling, Listing, Decided, Written
<1>3. CASE ReadCodes(w)
  <2>1. pc'[w] = "readHits" /\ seen'[w] = list
    BY <1>3 DEF ReadCodes, Goto, Typed, LocalOK
  <2>2. Codes(seen'[w]) = Coupons
    BY <2>1 DEF Clean, Codes
  <2>3. Knows(w)'
    BY <2>1, <2>2 DEF Knows, Codes, Decided, Written
  <2>4. QED
    BY <1>1, <2>1, <2>3 DEF Listing
<1>4. CASE ReadHits(w)
  <2>1. pc[w] = "readHits" /\ pc'[w] = "readRows" /\ seen'[w] = seen[w]
    BY <1>4 DEF ReadHits, At, Goto, Typed, LocalOK
  <2>2. Codes(seen[w]) = Coupons
    BY <2>1 DEF Clean, Knows, Listing
  <2>3. Knows(w)'
    BY <2>1, <2>2 DEF Knows, Codes, Decided, Written
  <2>4. QED
    BY <1>1, <2>1, <2>3 DEF Listing
<1>5. CASE ReadRows(w)
  <2>1. CASE pc'[w] = "readGroups" /\ UNCHANGED <<req, seen, hit>>
             /\ \A i \in DOMAIN todo'[w] : todo'[w][i].status = use_status[todo'[w][i].coupon]
    <3>1. pc[w] = "readRows"
      BY <1>5 DEF ReadRows, At
    <3>2. Codes(seen[w]) = Coupons
      BY <3>1 DEF Clean, Knows, Listing
    <3>3. Knows(w)'
      BY <1>0, <2>1, <3>2 DEF Knows, Codes, Decided, Written
    <3>4. QED
      BY <1>1, <2>1, <3>3 DEF Listing
  <2>2. QED
    BY <1>2, <1>5, <2>1, ReadRowsTyped
<1>6. CASE ReadGroups(w)
  <2>1. /\ pc[w] = "readGroups" /\ pc'[w] = "rebuild" /\ seen'[w] = seen[w]
        /\ DOMAIN todo'[w] = DOMAIN todo[w]
        /\ \A i \in DOMAIN todo[w] : /\ todo'[w][i].status = todo[w][i].status
                                     /\ todo'[w][i].coupon = todo[w][i].coupon
    BY <1>6, ReadGroupsTyped DEF ReadGroups, At
  <2>2. /\ Codes(seen[w]) = Coupons
        /\ \A i \in DOMAIN todo[w] : todo[w][i].status = use_status[todo[w][i].coupon]
    BY <2>1 DEF Clean, Knows, Listing
  <2>3. Knows(w)'
    BY <1>0, <2>1, <2>2 DEF Knows, Codes, Decided, Written
  <2>4. QED
    BY <1>1, <2>1, <2>3 DEF Listing
<1>7. CASE Skip(w)
  <2>1. pc[w] = "rebuild" /\ NextRow(w)
    BY <1>7 DEF Skip, At
  <2>2. CASE UNCHANGED <<pc, req, seen, hit>> /\ todo'[w] = Tail(todo[w]) /\ Len(todo[w]) # 1
    <3>1. Knows(w) /\ todo[w] \in Seq(Item) /\ todo[w] # << >>
      BY <2>1 DEF Clean, Typed, LocalOK, WorkerOK
    <3>2. \A i \in DOMAIN todo'[w] : todo'[w][i].status = use_status[todo'[w][i].coupon]
      BY <2>1, <2>2, <3>1, TailOfList DEF Knows
    <3>3. Knows(w)'
      BY <1>0, <2>1, <2>2, <3>1, <3>2 DEF Knows, Codes, Decided, Written, Handling, Listing
    <3>4. QED
      BY <1>1, <2>1, <2>2, <3>3 DEF Listing
  <2>3. QED
    BY <1>2, <2>1, <2>2 DEF NextRow, Typed, LocalOK
<1>8. QED
  BY <1>3, <1>4, <1>5, <1>6, <1>7

\* A copy that is rebuilt shows what the table says.
LEMMA CleanRebuild ==
  ASSUME Typed, Clean, scene.serial, faults = 0, NEW w \in Workers, Others(w), Only(w), NoFault, ~ Fault,
         Rebuild(w)
  PROVE  Clean'
<1>0. /\ UNCHANGED <<row, use_status, list, payed_count>> /\ pc[w] = "rebuild" /\ NextRow(w)
      /\ todo[w] \in Seq(Item) /\ todo[w] # << >>
  BY DEF Rebuild, db, At, Typed, LocalOK, WorkerOK
<1>1. PICK d \in Coupons, s \in Status, k \in Copy :
        /\ d = Head(todo[w]).coupon /\ s = Head(todo[w]).status /\ k.status = s
        /\ cache' = cache \/ cache' = [cache EXCEPT ![d] = k]
  BY RebuildTyped
<1>2. use_status[d] = s
  BY <1>0, <1>1, HeadOfList DEF Clean, Knows
<1>3. pc'[w] \in {"idle", "rebuild"} /\ Knows(w)'
  <2>1. CASE Done(w)
    <3>1. pc'[w] = "idle"
      BY <2>1, DoneLocal DEF Typed
    <3>2. QED
      BY <3>1 DEF Knows, Handling, Listing, Decided, Written
  <2>2. CASE UNCHANGED <<pc, req, seen, hit>> /\ todo'[w] = Tail(todo[w]) /\ Len(todo[w]) # 1
    <3>1. Knows(w)
      BY DEF Clean
    <3>2. \A i \in DOMAIN todo'[w] : todo'[w][i].status = use_status[todo'[w][i].coupon]
      BY <1>0, <2>2, <3>1, TailOfList DEF Knows
    <3>3. Knows(w)'
      BY <1>0, <2>2, <3>1, <3>2 DEF Knows, Codes, Decided, Written, Handling, Listing
    <3>4. QED
      BY <1>0, <2>2, <3>3
  <2>3. QED
    BY <1>0, <2>1, <2>2 DEF NextRow, Typed, LocalOK
<1>4. \A v \in Workers : pc[v] \notin Written /\ pc'[v] \notin Written
  BY <1>0, <1>3 DEF Others, Only, Written
<1>5. ASSUME NEW c \in Coupons PROVE Agreed(c)' /\ CopyFits(c)'
  <2>1. ~ InHand(c) /\ ~ Behind(c)
    BY <1>4 DEF InHand, Behind, Written, At
  <2>2. Agreed(c) /\ CopyFits(c)
    BY <2>1 DEF Clean
  <2>3. Agreed(c)'
    BY <1>0, <2>2, AgreedStays
  <2>4. cache'[c] = cache[c] \/ (c = d /\ cache'[c] = k)
    BY <1>1 DEF Typed, SharedOK
  <2>5. QED
    BY <1>0, <1>1, <1>2, <2>1, <2>2, <2>3, <2>4 DEF CopyFits
<1>6. Counting' <=> Counting
  BY <1>4 DEF Counting, Written
<1>7. CountOK'
  BY <1>0, <1>6, PayedStay DEF Clean
<1>8. Codes(list') = Coupons
  BY <1>0 DEF Clean, Codes
<1>9. QED
  BY <1>3, <1>5, <1>7, <1>8, CleanStep

\* use_status is written: until the row is, the records differ.
LEMMA CleanStatus ==
  ASSUME Typed, SerialOK, Clean, scene.serial, faults = 0, NEW w \in Workers, Others(w), Only(w),
         WriteStatus(w)
  PROVE  Clean'
<1>0. /\ pc[w] = "writeStatus" /\ pc'[w] = "writeRow" /\ DoWriteStatus(w)
      /\ UNCHANGED <<row, payed_count, list, cache, req, seen, hit, todo>>
  BY DEF WriteStatus, At, Goto, Typed, LocalOK, DoWriteStatus, redis, local
<1>1. PICK op \in Operations, d \in Coupons, o \in Orders : Asks(w, op, d, o)
  BY <1>0, AtWork DEF Asks, Handling, Typed
<1>2. /\ use_status'[d] = todo[w][1].status
      /\ \A c \in Coupons : c # d => use_status'[c] = use_status[c]
  BY <1>0, <1>1, StatusStored DEF SerialOK
<1>3. req[w].coupon = d
  BY <1>1 DEF Asks
<1>4. ASSUME NEW c \in Coupons PROVE (Agreed(c) \/ InHand(c))' /\ CopyFits(c)'
  <2>1. CASE c = d
    BY <1>0, <1>3, <2>1 DEF InHand, At, Coupon, CopyFits, Behind, Written
  <2>2. CASE c # d
    <3>1. ~ InHand(c) /\ ~ Behind(c)
      BY <1>0, <1>3, <2>2 DEF InHand, Behind, Written, At, Coupon, Only
    <3>2. Agreed(c) /\ CopyFits(c)
      BY <3>1 DEF Clean
    <3>3. Agreed(c)'
      BY <1>0, <1>2, <2>2, <3>2, AgreedStays
    <3>4. QED
      BY <1>0, <1>2, <2>2, <3>1, <3>2, <3>3 DEF CopyFits
  <2>3. QED
    BY <2>1, <2>2
<1>5. Knows(w)
  BY DEF Clean
<1>6. Knows(w)'
  BY <1>0, <1>2, <1>3, <1>5 DEF Knows, Codes, Decided, Written, Handling, Listing
<1>7. Counting' <=> Counting
  BY <1>0 DEF Counting, Others, Only
<1>8. CountOK'
  BY <1>0, <1>7, PayedStay DEF Clean
<1>9. Codes(list') = Coupons
  BY <1>0 DEF Clean, Codes
<1>10. QED
  BY <1>4, <1>6, <1>8, <1>9, CleanStep

\* The row is written: the records agree again; a payment is still to be counted.
LEMMA CleanRow ==
  ASSUME Typed, SerialOK, Clean, scene.serial, faults = 0, NEW w \in Workers, Others(w), Only(w),
         WriteRow(w)
  PROVE  Clean'
<1>0. /\ pc[w] = "writeRow" /\ pc'[w] = AfterRow(req[w].op) /\ DoWriteRow(w)
      /\ UNCHANGED <<use_status, payed_count, list, cache, req, seen, hit, todo>>
  BY DEF WriteRow, At, Goto, Typed, LocalOK, DoWriteRow, redis, local
<1>1. PICK op \in Operations, d \in Coupons, o \in Orders : Asks(w, op, d, o)
  BY <1>0, AtWork DEF Asks, Handling, Typed
<1>2. req[w].coupon = d /\ req[w].op = op
  BY <1>1 DEF Asks
<1>3. Work(w, op, d, o) /\ \A c \in Coupons : Stored(c)
  BY <1>1 DEF SerialOK
<1>4. /\ \A c \in Coupons : c # d => row'[c] = row[c]
      /\ op = "freeze" => row[d] = Blank /\ row'[d] = [order |-> o, frozen |-> TRUE, payed |-> FALSE]
      /\ op = "pay" => /\ row[d] = [order |-> o, frozen |-> TRUE, payed |-> FALSE]
                       /\ row'[d] = [order |-> o, frozen |-> TRUE, payed |-> TRUE]
      /\ op = "rollback" => /\ row[d] = [order |-> o, frozen |-> TRUE, payed |-> FALSE]
                            /\ row'[d] = Blank
      /\ use_status[d] \in Results(op)
  BY <1>0, <1>1, <1>3, RowStored
<1>5. o # None
  BY LifecycleAssumption
<1>6. Agreed(d)'
  <2>1. CASE op = "freeze"
    BY <1>0, <1>4, <1>5, <2>1 DEF Agreed, Results, Blank
  <2>2. CASE op = "pay"
    BY <1>0, <1>4, <1>5, <2>2 DEF Agreed, Results, Blank
  <2>3. CASE op = "rollback"
    BY <1>0, <1>4, <2>3 DEF Agreed, Results, Blank
  <2>4. QED
    BY <2>1, <2>2, <2>3 DEF Operations
<1>7. pc'[w] \in {"count", "writeBack"} /\ (pc'[w] = "count" <=> op = "pay")
  BY <1>0, <1>2 DEF AfterRow
<1>8. ASSUME NEW c \in Coupons PROVE Agreed(c)' /\ CopyFits(c)'
  <2>1. CASE c = d
    BY <1>0, <1>2, <1>6, <1>7, <2>1 DEF CopyFits, Behind, Written
  <2>2. CASE c # d
    <3>1. ~ InHand(c) /\ ~ Behind(c)
      BY <1>0, <1>2, <2>2 DEF InHand, Behind, Written, At, Coupon, Only
    <3>2. Agreed(c) /\ CopyFits(c)
      BY <3>1 DEF Clean
    <3>3. Agreed(c)'
      BY <1>0, <1>4, <2>2, <3>2, AgreedStays
    <3>4. QED
      BY <1>0, <2>2, <3>1, <3>2, <3>3 DEF CopyFits
  <2>3. QED
    BY <2>1, <2>2
<1>9. Knows(w)
  BY DEF Clean
<1>10. Knows(w)'
  BY <1>0, <1>7, <1>9 DEF Knows, Codes, Decided, Written, Handling, Listing
<1>11. ~ Counting /\ (Counting' <=> op = "pay")
  BY <1>0, <1>7 DEF Counting, Others, Only
<1>12. CountOK'
  <2>1. CASE op = "pay"
    <3>1. PayedCoupons' = PayedCoupons \cup {d} /\ d \notin PayedCoupons
      BY <1>4, <2>1 DEF PayedCoupons
    <3>2. IsFiniteSet(PayedCoupons) /\ PayedCoupons \subseteq Coupons
      BY LifecycleAssumption, FS_Subset DEF PayedCoupons
    <3>3. Cardinality(PayedCoupons \cup {d}) = Cardinality(PayedCoupons) + 1
      BY <3>1, <3>2, FS_AddElement
    <3>4. payed_count = Cardinality(PayedCoupons) /\ payed_count \in Nat
      BY <1>11 DEF Clean, CountOK, Typed, SharedOK
    <3>5. QED
      BY <1>0, <1>11, <2>1, <3>1, <3>3, <3>4 DEF CountOK
  <2>2. CASE op # "pay"
    <3>1. ~ row[d].payed /\ ~ row'[d].payed
      BY <1>4, <2>2 DEF Operations, Blank
    <3>2. \A c \in Coupons : c \in PayedCoupons' <=> c \in PayedCoupons
      BY <1>4, <3>1 DEF PayedCoupons
    <3>3. PayedCoupons' = PayedCoupons
      BY <3>2 DEF PayedCoupons
    <3>4. QED
      BY <1>0, <1>11, <2>2, <3>3 DEF Clean, CountOK
  <2>3. QED
    BY <2>1, <2>2
<1>13. Codes(list') = Coupons
  BY <1>0 DEF Clean, Codes
<1>14. QED
  BY <1>8, <1>10, <1>12, <1>13, CleanStep

LEMMA CleanCount ==
  ASSUME Typed, Clean, scene.serial, faults = 0, NEW w \in Workers, Others(w), Only(w), NoFault, ~ Fault,
         Count(w)
  PROVE  Clean'
<1>0. /\ pc[w] = "count" /\ pc'[w] = "writeBack" /\ payed_count' = payed_count + 1
      /\ UNCHANGED <<use_status, row, list, cache, req, seen, hit, todo>>
  BY DEF Count, At, Goto, Typed, LocalOK, DoCount, Counted, redis, local
<1>1. ASSUME NEW c \in Coupons PROVE Agreed(c)' /\ CopyFits(c)'
  <2>1. ~ InHand(c) /\ (Behind(c)' <=> Behind(c))
    BY <1>0 DEF InHand, At, Coupon, Only, Behind, Others, Written
  <2>2. Agreed(c) /\ CopyFits(c)
    BY <2>1 DEF Clean
  <2>3. Agreed(c)'
    BY <1>0, <2>2, AgreedStays
  <2>4. QED
    BY <1>0, <2>1, <2>2, <2>3 DEF CopyFits
<1>2. Knows(w)
  BY DEF Clean
<1>3. Knows(w)'
  BY <1>0, <1>2 DEF Knows, Codes, Decided, Written, Handling, Listing
<1>4. Counting /\ ~ Counting'
  BY <1>0 DEF Counting, Others, Only
<1>5. CountOK'
  <2>1. PayedCoupons' = PayedCoupons
    BY <1>0 DEF PayedCoupons
  <2>2. payed_count + 1 = Cardinality(PayedCoupons) /\ payed_count \in Nat
    BY <1>4 DEF Clean, CountOK, Typed, SharedOK
  <2>3. QED
    BY <1>0, <1>4, <2>1, <2>2 DEF CountOK
<1>6. Codes(list') = Coupons
  BY <1>0 DEF Clean, Codes
<1>7. QED
  BY <1>1, <1>3, <1>5, <1>6, CleanStep

\* The copy, if it was found, is brought up to date; if not, there is none.
LEMMA CleanWriteBack ==
  ASSUME Typed, Clean, scene.serial, faults = 0, NEW w \in Workers, Others(w), Only(w), NoFault, ~ Fault,
         WriteBack(w)
  PROVE  Clean'
<1>0. pc[w] = "writeBack" /\ pc'[w] = "idle" /\ UNCHANGED <<use_status, row, payed_count>>
  BY DoneLocal DEF WriteBack, At, Typed, db
<1>1. PICK op \in Operations, d \in Coupons, o \in Orders :
        req[w] = [op |-> op, coupon |-> d, order |-> o]
  BY <1>0, AtWork DEF Handling, Typed
<1>2. PICK s \in Status, v \in Nat : s = todo[w][1].status /\ v = todo[w][1].version
  BY <1>0, ItemAtHand DEF Item, Decided, Typed
<1>3. /\ Codes(seen[w]) = Coupons /\ use_status[d] = s
      /\ hit[w][d] = Absent => cache[d] = Absent
  BY <1>0, <1>1, <1>2 DEF Clean, Knows, Handling, Decided, Written
<1>4. PICK k \in Copy : k = [status |-> s, version |-> v]
  <2>1. [status |-> s, version |-> v] \in Copy
    BY <1>2 DEF Copy
  <2>2. QED
    BY <2>1
<1>5. /\ list' = list
      /\ \/ hit[w][d] = Absent /\ cache' = cache
         \/ cache' = [cache EXCEPT ![d] = k]
  BY <1>1, <1>2, <1>3, <1>4 DEF WriteBack, Coupon
<1>6. \A c \in Coupons : c # d => cache'[c] = cache[c]
  BY <1>5 DEF Typed, SharedOK
<1>7. cache'[d] # Absent => cache'[d].status = use_status[d]
  BY <1>3, <1>4, <1>5 DEF Typed, SharedOK
<1>8. ASSUME NEW c \in Coupons PROVE Agreed(c)' /\ CopyFits(c)'
  <2>1. ~ InHand(c) /\ (c # d => ~ Behind(c))
    BY <1>0, <1>1 DEF InHand, At, Coupon, Only, Behind, Written
  <2>2. Agreed(c) /\ CopyFits(c)
    BY <2>1 DEF Clean
  <2>3. Agreed(c)'
    BY <1>0, <2>2, AgreedStays
  <2>4. CASE c = d
    BY <1>0, <1>7, <2>3, <2>4 DEF CopyFits
  <2>5. CASE c # d
    BY <1>0, <1>6, <2>1, <2>2, <2>3, <2>5 DEF CopyFits
  <2>6. QED
    BY <2>4, <2>5
<1>9. Knows(w)'
  BY <1>0 DEF Knows, Handling, Listing, Decided, Written
<1>10. Counting' <=> Counting
  BY <1>0 DEF Counting, Others, Only
<1>11. CountOK'
  BY <1>0, <1>10, PayedStay DEF Clean
<1>12. Codes(list') = Coupons
  BY <1>5 DEF Clean, Codes
<1>13. QED
  BY <1>8, <1>9, <1>11, <1>12, CleanStep

\* A write of the row changes it: no handler is refused half way.
LEMMA RowChanges ==
  ASSUME Typed, SerialOK, scene.serial, NEW w \in Workers, pc[w] = "writeRow"
  PROVE  row[Coupon(w)] # NewRow(w)
<1>1. PICK op \in Operations, d \in Coupons, o \in Orders : Asks(w, op, d, o)
  BY AtWork DEF Asks, Handling, Typed
<1>2. RowAllows(op, d, o)
  BY <1>1 DEF SerialOK, Work, UpToRow
<1>3. o # None /\ row[d] \in Row
  BY LifecycleAssumption DEF Typed, SharedOK
<1>4. PICK r \in Row : r = row[d]
  BY <1>3
<1>5. r # RowAfter(op, d, o)
  <2>1. CASE op = "freeze"
    BY <1>2, <1>3, <1>4, <2>1 DEF RowAllows, RowAfter, Blank
  <2>2. CASE op = "pay"
    <3>1. ~ r.payed /\ RowAfter(op, d, o) = [r EXCEPT !.payed = TRUE]
      BY <1>2, <1>4, <2>2 DEF RowAllows, RowAfter
    <3>2. QED
      BY <3>1 DEF Row
  <2>3. CASE op = "rollback"
    <3>1. r.order = o /\ RowAfter(op, d, o) = [r EXCEPT !.order = None, !.frozen = FALSE]
      BY <1>2, <1>4, <2>3 DEF RowAllows, RowAfter
    <3>2. QED
      BY <1>3, <3>1 DEF Row
  <2>4. QED
    BY <2>1, <2>2, <2>3 DEF Operations
<1>6. Coupon(w) = d /\ NewRow(w) = RowAfter(op, d, o)
  BY <1>1 DEF Asks, Coupon, NewRow
<1>7. QED
  BY <1>4, <1>5, <1>6

LEMMA StepClean ==
  ASSUME Typed, SerialOK, Clean, NEW w \in Workers, Step(w)
  PROVE  Clean'
<1>0. Others(w) /\ Shape(w)
  BY StepTyped, StepShape
<1>1. SUFFICES ASSUME scene'.serial, faults' = 0 PROVE Clean'
  BY DEF Clean
<1>2. scene.serial /\ Only(w) /\ faults = 0
  BY <1>0, <1>1 DEF Shape, SerialOK, Alone
<1>3. ~ Fault
  BY <1>1 DEF Fault, Typed, SharedOK
<1>4. faults' = faults
  BY <1>1, <1>2
<1>5. NoFault
  BY <1>4 DEF NoFault
<1>6. CASE ReadList(w) \/ ReadCache(w) \/ ReadStatus(w)
  BY <1>0, <1>2, <1>3, <1>5, <1>6, CleanHandlerReads
<1>7. CASE ReadCodes(w) \/ ReadHits(w) \/ ReadRows(w) \/ ReadGroups(w) \/ Skip(w)
  BY <1>0, <1>2, <1>3, <1>5, <1>7, CleanLists
<1>8. CASE WriteStatus(w) \/ WriteRow(w) \/ Count(w) \/ WriteBack(w) \/ Rebuild(w)
  BY <1>0, <1>2, <1>3, <1>5, <1>8, CleanStatus, CleanRow, CleanCount, CleanWriteBack, CleanRebuild
<1>9. CASE CacheRefuses(w) \/ StatusRefuses(w) \/ WriteUnchanged(w)
  <2>1. /\ UNCHANGED <<row, use_status, cache, list, payed_count>> /\ pc'[w] = "idle"
    BY <1>9, DoneLocal DEF CacheRefuses, StatusRefuses, WriteUnchanged, db, redis, Typed
  <2>2. pc[w] \notin Written
    <3>1. WriteUnchanged(w) => pc[w] # "writeRow"
      BY <1>2, RowChanges DEF WriteUnchanged, At
    <3>2. QED
      BY <1>9, <3>1 DEF CacheRefuses, StatusRefuses, WriteUnchanged, At, Written
  <2>3. Knows(w)'
    BY <2>1 DEF Knows, Handling, Listing, Decided, Written
  <2>4. QED
    BY <1>0, <1>2, <2>1, <2>2, <2>3, CleanQuiet DEF Written
<1>10. CASE WriteFails(w) \/ ListFails(w)
  BY <1>3, <1>10 DEF WriteFails, ListFails
<1>11. CASE Relist(w)
  <2>1. pc[w] = "rebuild" /\ Head(todo[w]).coupon \notin Codes(seen[w])
    BY <1>11 DEF Relist, At
  <2>2. Codes(seen[w]) = Coupons
    BY <1>2, <2>1 DEF Clean, Knows, Listing
  <2>3. todo[w] \in Seq(Item) /\ todo[w] # << >>
    BY <2>1 DEF Typed, LocalOK, WorkerOK
  <2>4. QED
    BY <2>1, <2>2, <2>3, HeadOfList DEF Item
<1>12. QED
  BY <1>6, <1>7, <1>8, <1>9, <1>10, <1>11 DEF Step

LEMMA BeginClean ==
  ASSUME Typed, Clean, NEW w \in Workers,
         \/ \E op \in Operations, c \in Coupons, o \in Orders : Begin(w, op, c, o)
         \/ \E category \in DOMAIN Category : BeginList(w, category)
  PROVE  Clean'
<1>1. /\ Others(w) /\ UNCHANGED <<scene, faults, row, use_status, cache, list, payed_count>>
  BY BeginTyped, BeginListTyped DEF Begin, BeginList, env, db, redis, NoFault
<1>2. SUFFICES ASSUME scene.serial, faults = 0 PROVE Clean'
  BY <1>1 DEF Clean
<1>3. /\ Only(w) /\ pc[w] = "idle" /\ pc'[w] \in {"readList", "readCodes"}
  BY <1>2 DEF Begin, BeginList, Take, At, Goto, Only, Typed, LocalOK
<1>4. Knows(w)'
  BY <1>3 DEF Knows, Handling, Listing, Decided, Written
<1>5. QED
  BY <1>1, <1>2, <1>3, <1>4, CleanQuiet DEF Written

LEMMA OutsideClean ==
  ASSUME Typed, Clean, Expire \/ UpdateGroup \/ (\E c \in Coupons : CopyExpires(c)) \/ UNCHANGED vars
  PROVE  Clean'
<1>1. UNCHANGED <<scene, faults, row, use_status, list, payed_count, pc, req, seen, hit, todo>>
  BY DEF Expire, UpdateGroup, CopyExpires, vars, env, db, redis, local
<1>2. \A c \in Coupons : cache'[c] = cache[c] \/ cache'[c] = Absent
  BY DEF Expire, UpdateGroup, CopyExpires, vars, redis, Typed, SharedOK
<1>3. SUFFICES ASSUME scene.serial, faults = 0 PROVE Clean'
  BY <1>1 DEF Clean
<1>4. ASSUME NEW c \in Coupons PROVE (Agreed(c) \/ InHand(c))' /\ CopyFits(c)'
  <2>1. (InHand(c)' <=> InHand(c)) /\ (Behind(c)' <=> Behind(c))
    BY <1>1 DEF InHand, At, Coupon, Behind
  <2>2. Agreed(c) => Agreed(c)'
    BY <1>1, AgreedStays
  <2>3. CopyFits(c)'
    BY <1>1, <1>2, <1>3, <2>1 DEF Clean, CopyFits
  <2>4. QED
    BY <1>3, <2>1, <2>2, <2>3 DEF Clean
<1>5. ASSUME NEW w \in Workers PROVE Knows(w)'
  <2>1. Knows(w)
    BY <1>3 DEF Clean
  <2>2. QED
    BY <1>1, <1>2, <2>1 DEF Knows, Codes
<1>6. Counting' <=> Counting
  BY <1>1 DEF Counting
<1>7. CountOK'
  BY <1>1, <1>3, <1>6, PayedStay DEF Clean
<1>8. Codes(list') = Coupons
  BY <1>1, <1>3 DEF Clean, Codes
<1>9. QED
  BY <1>4, <1>5, <1>7, <1>8 DEF Clean

LEMMA NextClean ==
  ASSUME Typed, SerialOK, Clean, [Next]_vars
  PROVE  Clean'
<1>1. CASE \E w \in Workers : Step(w)
  BY <1>1, StepClean
<1>2. CASE \/ \E w \in Workers, op \in Operations, c \in Coupons, o \in Orders : Begin(w, op, c, o)
           \/ \E w \in Workers, category \in DOMAIN Category : BeginList(w, category)
  BY <1>2, BeginClean
<1>3. CASE Crash
  BY <1>3, FaultTyped DEF Crash, Typed, Clean
<1>4. CASE Expire \/ UpdateGroup \/ (\E c \in Coupons : CopyExpires(c)) \/ UNCHANGED vars
  BY <1>4, OutsideClean
<1>5. QED
  BY <1>1, <1>2, <1>3, <1>4 DEF Next

LEMMA InitClean == Init => Clean
<1> SUFFICES ASSUME Init, scene.serial PROVE Clean
  BY DEF Clean
<1>1. Codes(list) = Coupons
  BY LifecycleAssumption DEF Init
<1>2. ASSUME NEW c \in Coupons PROVE Agreed(c) /\ CopyFits(c)
  <2>1. use_status[c] = "DRAWN" /\ row[c] = Blank /\ row[c].order = None /\ cache[c].status = "DRAWN"
    BY DEF Init, Blank
  <2>2. QED
    BY <2>1 DEF Agreed, CopyFits
<1>3. \A w \in Workers : Knows(w)
  BY DEF Init, Knows, Handling, Listing, Decided, Written
<1>4. CountOK
  <2>1. PayedCoupons = {} /\ ~ Counting /\ payed_count = 0
    BY DEF Init, PayedCoupons, Counting, Blank
  <2>2. Cardinality({}) = 0
    BY FS_EmptySet
  <2>3. QED
    BY <2>1, <2>2 DEF CountOK
<1>5. QED
  BY <1>1, <1>2, <1>3, <1>4 DEF Clean

LEMMA CleanAlways == Spec => []Clean
<1> DEFINE I == Typed /\ SerialOK /\ Clean
<1>1. Init => I
  BY InitTyped, InitSerial, InitClean
<1>2. I /\ [Next]_vars => I'
  BY NextTyped, NextSerial, NextClean
<1>3. I => Clean
  OBVIOUS
<1> HIDE DEF I
<1>4. QED
  BY <1>1, <1>2, <1>3, PTL DEF Spec

\* A handler is at work on its coupon.
LEMMA AtWorkOn ==
  ASSUME LocalOK, NEW c \in Coupons, NEW w \in Workers, pc[w] \in Handling, req[w].coupon = c
  PROVE  ~ Untouched(c)
<1>1. PICK op \in Operations, d \in Coupons, o \in Orders :
        req[w] = [op |-> op, coupon |-> d, order |-> o]
  BY AtWork
<1>2. Running(w, op, c)
  BY <1>1 DEF Running, Coupon, Handling
<1>3. QED
  BY <1>2 DEF Untouched

\* With requests one at a time and as long as nothing has failed, the three records
\* of a coupon agree whenever no request is at work on it.
THEOREM RecordsDoAgree == Spec => []RecordsAgree
<1>1. Clean /\ Typed => RecordsAgree
  <2> SUFFICES ASSUME Clean, Typed, scene.serial, faults = 0, NEW c \in Coupons, Untouched(c)
               PROVE  /\ Agreed(c)
                      /\ IF cache[c] = Absent THEN TRUE ELSE cache[c].status = use_status[c]
    BY DEF RecordsAgree
  <2>1. \A w \in Workers : ~ (pc[w] \in Handling /\ req[w].coupon = c)
    BY AtWorkOn DEF Typed
  <2>2. ~ InHand(c) /\ ~ Behind(c)
    BY <2>1 DEF InHand, At, Coupon, Behind, Written, Handling
  <2>3. Agreed(c) /\ CopyFits(c)
    BY <2>2 DEF Clean
  <2>4. QED
    BY <2>2, <2>3 DEF CopyFits
<1>2. QED
  BY <1>1, CleanAlways, TypedAlways, PTL

\* And payed_count is the number of payed coupons whenever no request is at work.
THEOREM CountIsExact == Spec => []CountExact
<1>1. Clean /\ Typed => CountExact
  <2> SUFFICES ASSUME Clean, Typed, scene.serial, faults = 0, \A c \in Coupons : Untouched(c)
               PROVE  payed_count = Cardinality({c \in Coupons : row[c].payed})
    BY DEF CountExact
  <2>1. ~ Counting
    <3>1. SUFFICES ASSUME NEW w \in Workers, pc[w] = "count" PROVE FALSE
      BY DEF Counting
    <3>2. PICK op \in Operations, d \in Coupons, o \in Orders :
            req[w] = [op |-> op, coupon |-> d, order |-> o]
      BY <3>1, AtWork DEF Handling, Typed
    <3>3. QED
      BY <3>1, <3>2, AtWorkOn DEF Handling, Typed
  <2>2. payed_count \in Nat
    BY DEF Typed, SharedOK
  <2>3. QED
    BY <2>1, <2>2 DEF Clean, CountOK, PayedCoupons
<1>2. QED
  BY <1>1, CleanAlways, TypedAlways, PTL

=============================================================================
