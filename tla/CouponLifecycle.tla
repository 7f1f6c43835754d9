--------------------------- MODULE CouponLifecycle ---------------------------
(***************************************************************************)
(* freezeCoupon, payCoupon, rollbackCoupon and getUserCoupons of the       *)
(* coupon EC service, for the coupons that one user has drawn from a group *)
(* that is online.                                                         *)
(*                                                                         *)
(* What has become of a coupon is written down three times: use_status in  *)
(* coupon_usercoupons, the order and the times in the coupon's row, and    *)
(* use_status in the copy Redis caches.  The handlers take no lock: each   *)
(* statement or command is a step between which the other workers run.     *)
(*                                                                         *)
(* order_create_time is set and cleared with frozen_time and is left out.  *)
(***************************************************************************)
EXTENDS Integers, Sequences, FiniteSets

CONSTANTS
  Workers,       \* worker threads of the server
  Coupons,       \* coupons of the user
  Orders,        \* order ids
  Scenes,        \* what a behaviour is about, see LifecycleAssumption
  cache_codes_capacity,
  MaxPayed,      \* bound on payed_count
  None,          \* order_id NULL
  Absent         \* a key Redis does not have

Operations == {"freeze", "pay", "rollback"}

\* The statuses that getUserCoupons selects for the use_status asked for.
Category == [usable |-> {"DRAWN"}, used |-> {"FROZEN", "PAYED"}, expired |-> {"DRAWN", "EXPIRED"}]

VARIABLES
  scene,        \* the scene of the behaviour
  use_status,   \* coupon_usercoupons: use_status[c]
  row,          \* coupon table: row[c] = [order, frozen, payed]
  payed_count,  \* column payed_count of the group
  version,      \* column version of the group
  expired,      \* has the time to use the coupons passed?
  list,         \* Redis: the cached code list of the user
  cache,        \* Redis: cache[c] = cached copy [status, version] or Absent
  pc,           \* pc[w] = next step of worker w; idle workers hold nothing
  req,          \* req[w] = the request [op, coupon, order]
  seen,         \* seen[w] = the code list as w has it (cacheCodes)
  hit,          \* hit[w] = cached copies of the coupons that w has found
  todo,         \* todo[w] = what w is to write: [coupon, status, version]
  acked,        \* the requests answered OK
  faults        \* failures so far

env == <<scene, expired>>
db == <<use_status, row, payed_count, version>>
redis == <<list, cache>>
local == <<req, seen, hit, todo>>
vars == <<env, db, redis, pc, local, acked, faults>>

Status == {"DRAWN", "FROZEN", "PAYED", "EXPIRED"}
Row == [order : Orders \cup {None}, frozen : BOOLEAN, payed : BOOLEAN]
Copy == [status : Status, version : Nat]
Request == [op : Operations \cup DOMAIN Category, coupon : Coupons \cup {None},
            order : Orders \cup {None}]
Item == [coupon : Coupons, status : Status, version : Nat]
Writes == {"writeStatus", "writeRow", "count"}
Steps == {"idle", "readList", "readCache", "readStatus", "writeBack", "readCodes",
          "readHits", "readRows", "readGroups", "rebuild"} \cup Writes

Blank == [order |-> None, frozen |-> FALSE, payed |-> FALSE]

\* The codes of a list.
Codes(codes) == {codes[i] : i \in DOMAIN codes}

\* A scene says whether requests are handled one at a time (then every coupon is
\* in the code list), which operations clients send, which code lists the draws may
\* have left in Redis, and bounds the updates of the group by the admin service and
\* the failures.
ASSUME LifecycleAssumption ==
  /\ \A s \in Scenes :
       /\ s.serial \in BOOLEAN
       /\ s.requests \subseteq Operations \cup DOMAIN Category
       /\ s.lists \subseteq Seq(Coupons)
       /\ s.serial => \A codes \in s.lists : Codes(codes) = Coupons
       /\ s.max_version \in Nat /\ s.max_faults \in Nat
  /\ IsFiniteSet(Coupons)
  /\ cache_codes_capacity \in Nat \ {0}
  /\ MaxPayed \in Nat
  /\ None \notin Orders
  /\ None \notin Coupons
  /\ Absent \notin Copy

TypeOK ==
  /\ use_status \in [Coupons -> Status]
  /\ row \in [Coupons -> Row]
  /\ payed_count \in Nat
  /\ version \in Nat
  /\ expired \in BOOLEAN
  /\ list \in Seq(Coupons)
  /\ cache \in [Coupons -> Copy \cup {Absent}]
  /\ pc \in [Workers -> Steps]
  /\ req \in [Workers -> Request]
  /\ seen \in [Workers -> Seq(Coupons)]
  /\ hit \in [Workers -> [Coupons -> Copy \cup {Absent}]]
  /\ todo \in [Workers -> Seq(Item)]
  /\ acked \subseteq Request
  /\ faults \in Nat

-----------------------------------------------------------------------------
(* The tests and the data of the handlers. *)

\* Mutants: the definitions below with a bug a change could bring in.
RowAllows_AnyOrder(op, c, o) ==
  \/ op = "freeze" /\ row[c] = [order |-> None, frozen |-> FALSE, payed |-> FALSE]
  \/ op = "pay" /\ row[c].frozen /\ ~row[c].payed
  \/ op = "rollback" /\ row[c].order = o
RowAllows_FreezeUntested(op, c, o) ==
  \/ op = "freeze"
  \/ op = "pay" /\ row[c].order = o /\ row[c].frozen /\ ~row[c].payed
  \/ op = "rollback" /\ row[c].order = o
RowAfter_KeepsOrder(op, c, o) ==
  CASE op = "freeze"   -> [order |-> o, frozen |-> TRUE, payed |-> FALSE]
    [] op = "pay"      -> [row[c] EXCEPT !.payed = TRUE]
    [] op = "rollback" -> [row[c] EXCEPT !.frozen = FALSE]
Counted_Twice(n) == payed_count + n + 1
AfterRow_SkipsCount(op) == "writeBack"

\* What the coupon's row must say for the operation to go on.
RowAllows(op, c, o) ==
  \/ op = "freeze" /\ row[c] = Blank
  \/ op = "pay" /\ row[c].order = o /\ row[c].frozen /\ ~row[c].payed
  \/ op = "rollback" /\ row[c].order = o

\* The status the operation needs in the cached copy and in coupon_usercoupons.
Required(op) == IF op = "freeze" THEN "DRAWN" ELSE "FROZEN"

\* The status it writes; a coupon given back may have expired meanwhile.
Target(op) ==
  CASE op = "freeze"   -> "FROZEN"
    [] op = "pay"      -> "PAYED"
    [] op = "rollback" -> IF expired THEN "EXPIRED" ELSE "DRAWN"

\* The row it leaves: freeze clears payed_time, rollback keeps it.
RowAfter(op, c, o) ==
  CASE op = "freeze"   -> [order |-> o, frozen |-> TRUE, payed |-> FALSE]
    [] op = "pay"      -> [row[c] EXCEPT !.payed = TRUE]
    [] op = "rollback" -> [row[c] EXCEPT !.order = None, !.frozen = FALSE]

\* Only pay touches the group: it increments payed_count.
AfterRow(op) == IF op = "pay" THEN "count" ELSE "writeBack"
Counted(n) == payed_count + n

\* Appending to a code list; a full list first drops its oldest code.
Push(codes, c) ==
  Append(IF Len(codes) >= cache_codes_capacity THEN Tail(codes) ELSE codes, c)

\* The copies of listed coupons that one MGET returns, those of the category only.
Cached(codes, category) ==
  [c \in Coupons |->
     IF c \in Codes(codes) /\ cache[c] # Absent
     THEN IF cache[c].status \in category THEN cache[c] ELSE Absent
     ELSE Absent]
Nothing == [c \in Coupons |-> Absent]

\* A cached copy counts if it was made from the present version of the group.
Current(copy) == copy # Absent /\ copy.version = version

\* The rows of a select in some order: it has no ORDER BY.
Orderings(S) ==
  {q \in [1..Cardinality(S) -> S] : \A i, j \in DOMAIN q : i # j => q[i] # q[j]}

-----------------------------------------------------------------------------
At(w, step) == pc[w] = step
Goto(w, step) == pc' = [pc EXCEPT ![w] = step]
Fault == faults < scene.max_faults /\ faults' = faults + 1
NoFault == UNCHANGED faults
Coupon(w) == req[w].coupon

NoRequest == [op |-> "usable", coupon |-> None, order |-> None]

\* The request is taken up; unless several are handled at once, no other is.
Take(w, r, step) ==
  /\ At(w, "idle")
  /\ scene.serial => \A v \in Workers : At(v, "idle")
  /\ req' = [req EXCEPT ![w] = r]
  /\ Goto(w, step)
  /\ UNCHANGED <<seen, hit, todo>>

\* The handler returns or throws; what it held is gone.
Done(w) ==
  /\ Goto(w, "idle")
  /\ req' = [req EXCEPT ![w] = NoRequest]
  /\ seen' = [seen EXCEPT ![w] = << >>]
  /\ hit' = [hit EXCEPT ![w] = Nothing]
  /\ todo' = [todo EXCEPT ![w] = << >>]

Init ==
  /\ scene \in Scenes
  /\ use_status = [c \in Coupons |-> "DRAWN"]
  /\ row = [c \in Coupons |-> Blank]
  /\ payed_count = 0
  /\ version = 1
  /\ expired = FALSE
  /\ list \in scene.lists
  /\ cache = [c \in Coupons |-> [status |-> "DRAWN", version |-> 1]]
  /\ pc = [w \in Workers |-> "idle"]
  /\ req = [w \in Workers |-> NoRequest]
  /\ seen = [w \in Workers |-> << >>]
  /\ hit = [w \in Workers |-> Nothing]
  /\ todo = [w \in Workers |-> << >>]
  /\ acked = {}
  /\ faults = 0

(***************************************************************************)
(* freezeCoupon, payCoupon and rollbackCoupon: the reads.                  *)
(***************************************************************************)

\* A request arrives; group and coupon row are read and the row is tested.
\* A request that fails the test leaves nothing behind and is left out.
Begin(w, op, c, o) ==
  /\ op \in scene.requests
  /\ RowAllows(op, c, o)
  /\ payed_count < MaxPayed
  /\ Take(w, [op |-> op, coupon |-> c, order |-> o], "readList")
  /\ NoFault
  /\ UNCHANGED <<db, env, redis, acked>>

\* A list that cannot be read counts as empty.
ReadList(w) ==
  /\ At(w, "readList")
  /\ \/ seen' = [seen EXCEPT ![w] = list] /\ NoFault
     \/ Fault /\ UNCHANGED seen
  /\ Goto(w, IF Coupon(w) \in Codes(seen'[w]) THEN "readCache" ELSE "readStatus")
  /\ UNCHANGED <<db, env, redis, req, hit, todo, acked>>

ReadCache(w) ==
  LET copy == cache[Coupon(w)]
  IN  /\ At(w, "readCache")
      /\ \/ /\ IF copy = Absent THEN TRUE ELSE copy.status = Required(req[w].op)
            /\ hit' = [hit EXCEPT ![w][Coupon(w)] = copy]
            /\ NoFault
         \/ Fault /\ UNCHANGED hit
      /\ Goto(w, "readStatus")
      /\ UNCHANGED <<db, env, redis, req, seen, todo, acked>>

\* The answer COUPON_IN_USE or NOT_BEEN_FROZEN on the strength of the copy.
CacheRefuses(w) ==
  /\ At(w, "readCache")
  /\ IF cache[Coupon(w)] = Absent THEN FALSE
     ELSE cache[Coupon(w)].status # Required(req[w].op)
  /\ Done(w)
  /\ NoFault
  /\ UNCHANGED <<db, env, redis, acked>>

\* use_status is read from coupon_usercoupons; the clock is read after it.
ReadStatus(w) ==
  LET c    == Coupon(w)
      copy == hit[w][c]
  IN  /\ At(w, "readStatus")
      /\ use_status[c] = Required(req[w].op)
      /\ req[w].op = "freeze" => ~expired
      /\ todo' = [todo EXCEPT ![w] =
                    << [coupon |-> c, status |-> Target(req[w].op),
                        version |-> IF copy = Absent THEN 0 ELSE copy.version] >>]
      /\ Goto(w, "writeStatus")
      /\ NoFault
      /\ UNCHANGED <<db, env, redis, req, seen, hit, acked>>

\* Any other end of the read: the wrong status, an expired coupon, an error.
StatusRefuses(w) ==
  /\ At(w, "readStatus")
  /\ \/ /\ \/ use_status[Coupon(w)] # Required(req[w].op)
           \/ req[w].op = "freeze" /\ expired
        /\ NoFault
     \/ Fault
  /\ Done(w)
  /\ UNCHANGED <<db, env, redis, acked>>

(***************************************************************************)
(* The writes.                                                             *)
(***************************************************************************)

DoWriteStatus(w) ==
  /\ use_status' = [use_status EXCEPT ![Coupon(w)] = todo[w][1].status]
  /\ UNCHANGED <<row, payed_count, version>>

NewRow(w) == RowAfter(req[w].op, Coupon(w), req[w].order)
DoWriteRow(w) ==
  /\ row' = [row EXCEPT ![Coupon(w)] = NewRow(w)]
  /\ UNCHANGED <<use_status, payed_count, version>>

DoCount(n) ==
  /\ payed_count' = Counted(n)
  /\ UNCHANGED <<use_status, row, version>>

WriteStatus(w) ==
  /\ At(w, "writeStatus")
  /\ DoWriteStatus(w)
  /\ Goto(w, "writeRow")
  /\ NoFault
  /\ UNCHANGED <<env, redis, local, acked>>

\* rollback writes no time: if it changes nothing, no row is affected.
WriteRow(w) ==
  /\ At(w, "writeRow")
  /\ req[w].op = "rollback" => NewRow(w) # row[Coupon(w)]
  /\ DoWriteRow(w)
  /\ Goto(w, AfterRow(req[w].op))
  /\ NoFault
  /\ UNCHANGED <<env, redis, local, acked>>

Count(w) ==
  /\ At(w, "count")
  /\ \/ DoCount(1) /\ NoFault
     \/ DoCount(2) /\ Fault    \* sent again after errno 2013
  /\ Goto(w, "writeBack")
  /\ UNCHANGED <<env, redis, local, acked>>

\* An update that changes nothing within the same second affects no row, and
\* the handler throws.
WriteUnchanged(w) ==
  /\ \/ At(w, "writeStatus") /\ use_status[Coupon(w)] = todo[w][1].status
     \/ At(w, "writeRow") /\ row[Coupon(w)] = NewRow(w)
  /\ Done(w)
  /\ NoFault
  /\ UNCHANGED <<db, env, redis, acked>>

\* The handler sees the statement fail and throws; MySQL may have executed it.
WriteFails(w) ==
  /\ pc[w] \in Writes
  /\ Fault
  /\ \/ At(w, "writeStatus") /\ DoWriteStatus(w)
     \/ At(w, "writeRow") /\ DoWriteRow(w)
     \/ At(w, "count") /\ DoCount(1)
     \/ UNCHANGED db
  /\ Done(w)
  /\ UNCHANGED <<env, redis, acked>>

\* A code that was not listed is added to the list; the copy is brought up to
\* date only if it was found.  A failing SET is only logged.  The answer is OK.
WriteBack(w) ==
  LET c == Coupon(w)
  IN  /\ At(w, "writeBack")
      /\ \/ /\ list' = IF c \in Codes(seen[w]) THEN list ELSE Push(seen[w], c)
            /\ cache' = IF hit[w][c] = Absent THEN cache
                        ELSE [cache EXCEPT ![c] = [status  |-> todo[w][1].status,
                                                   version |-> todo[w][1].version]]
            /\ NoFault
         \/ Fault /\ UNCHANGED redis
      /\ acked' = acked \cup {req[w]}
      /\ Done(w)
      /\ UNCHANGED <<db, env>>

(***************************************************************************)
(* getUserCoupons: reads the coupons of a category and rebuilds the copies *)
(* that are missing or out of date.                                        *)
(***************************************************************************)

BeginList(w, category) ==
  /\ category \in scene.requests
  /\ Take(w, [op |-> category, coupon |-> None, order |-> None], "readCodes")
  /\ NoFault
  /\ UNCHANGED <<db, env, redis, acked>>

ReadCodes(w) ==
  /\ At(w, "readCodes")
  /\ \/ seen' = [seen EXCEPT ![w] = list] /\ NoFault
     \/ Fault /\ UNCHANGED seen
  /\ Goto(w, "readHits")
  /\ UNCHANGED <<db, env, redis, req, hit, todo, acked>>

ReadHits(w) ==
  /\ At(w, "readHits")
  /\ \/ hit' = [hit EXCEPT ![w] = Cached(seen[w], Category[req[w].op])] /\ NoFault
     \/ Fault /\ UNCHANGED hit
  /\ Goto(w, "readRows")
  /\ UNCHANGED <<db, env, redis, req, seen, todo, acked>>

\* The rows of coupon_usercoupons; none of the category ends the request.
ReadRows(w) ==
  LET rows == {c \in Coupons : use_status[c] \in Category[req[w].op]}
  IN  /\ At(w, "readRows")
      /\ \/ rows = {} /\ Done(w)
         \/ /\ rows # {}
            /\ \E q \in Orderings(rows) :
                 todo' = [todo EXCEPT ![w] =
                   [i \in DOMAIN q |->
                      [coupon |-> q[i], status |-> use_status[q[i]], version |-> 0]]]
            /\ Goto(w, "readGroups")
            /\ UNCHANGED <<req, seen, hit>>
      /\ NoFault
      /\ UNCHANGED <<db, env, redis, acked>>

\* The group is read; copies of another version are forgotten.
ReadGroups(w) ==
  /\ At(w, "readGroups")
  /\ hit' = [hit EXCEPT ![w] =
       [c \in Coupons |-> IF Current(hit[w][c]) THEN hit[w][c] ELSE Absent]]
  /\ todo' = [todo EXCEPT ![w] =
       [i \in DOMAIN todo[w] |-> [todo[w][i] EXCEPT !.version = version]]]
  /\ Goto(w, "rebuild")
  /\ NoFault
  /\ UNCHANGED <<db, env, redis, req, seen, acked>>

\* A failing select ends the request.
ListFails(w) ==
  /\ pc[w] \in {"readRows", "readGroups"}
  /\ Fault
  /\ Done(w)
  /\ UNCHANGED <<db, env, redis, acked>>

Missing(w) == hit[w][Head(todo[w]).coupon] = Absent
NextRow(w) ==
  IF Len(todo[w]) = 1 THEN Done(w)
  ELSE todo' = [todo EXCEPT ![w] = Tail(todo[w])] /\ UNCHANGED <<pc, req, seen, hit>>

\* A row whose copy has been found needs no rebuilding.
Skip(w) ==
  /\ At(w, "rebuild") /\ ~Missing(w)
  /\ NextRow(w)
  /\ NoFault
  /\ UNCHANGED <<db, env, redis, acked>>

\* A coupon to rebuild that is not listed is added to the list.
Relist(w) ==
  /\ At(w, "rebuild") /\ Missing(w)
  /\ Head(todo[w]).coupon \notin Codes(seen[w])
  /\ seen' = [seen EXCEPT ![w] = Push(seen[w], Head(todo[w]).coupon)]
  /\ \/ list' = seen'[w] /\ NoFault
     \/ Fault /\ UNCHANGED list
  /\ UNCHANGED <<db, env, cache, pc, req, hit, todo, acked>>

Rebuild(w) ==
  LET r == Head(todo[w])
  IN  /\ At(w, "rebuild") /\ Missing(w)
      /\ r.coupon \in Codes(seen[w])
      /\ \/ /\ cache' = [cache EXCEPT ![r.coupon] = [status |-> r.status, version |-> r.version]]
            /\ NoFault
         \/ Fault /\ UNCHANGED cache
      /\ NextRow(w)
      /\ UNCHANGED <<db, env, list, acked>>

(***************************************************************************)
(* The environment.                                                        *)
(***************************************************************************)

\* The last moment to use the coupons passes.
Expire ==
  /\ ~expired
  /\ expired' = TRUE
  /\ UNCHANGED <<scene, db, redis, pc, local, acked, faults>>

\* The admin service updates the group.
UpdateGroup ==
  /\ version < scene.max_version
  /\ version' = version + 1
  /\ UNCHANGED <<use_status, row, payed_count, env, redis, pc, local, acked, faults>>

\* The cached copy of a coupon lives for CACHE_COUPON_EX.
CopyExpires(c) ==
  /\ cache[c] # Absent
  /\ cache' = [cache EXCEPT ![c] = Absent]
  /\ UNCHANGED <<db, env, list, pc, local, acked, faults>>

\* The server dies and is started again: every request is lost.
Crash ==
  /\ Fault
  /\ \E w \in Workers : pc[w] # "idle"
  /\ pc' = [w \in Workers |-> "idle"]
  /\ req' = [w \in Workers |-> NoRequest]
  /\ seen' = [w \in Workers |-> << >>]
  /\ hit' = [w \in Workers |-> Nothing]
  /\ todo' = [w \in Workers |-> << >>]
  /\ UNCHANGED <<db, env, redis, acked>>

Step(w) ==
  \/ ReadList(w) \/ ReadCache(w) \/ CacheRefuses(w) \/ ReadStatus(w) \/ StatusRefuses(w)
  \/ WriteStatus(w) \/ WriteRow(w) \/ Count(w) \/ WriteUnchanged(w) \/ WriteFails(w)
  \/ WriteBack(w)
  \/ ReadCodes(w) \/ ReadHits(w) \/ ReadRows(w) \/ ReadGroups(w) \/ ListFails(w)
  \/ Skip(w) \/ Relist(w) \/ Rebuild(w)

Next ==
  \/ \E w \in Workers : Step(w)
  \/ \E w \in Workers, op \in Operations, c \in Coupons, o \in Orders : Begin(w, op, c, o)
  \/ \E w \in Workers, category \in DOMAIN Category : BeginList(w, category)
  \/ Expire \/ UpdateGroup \/ (\E c \in Coupons : CopyExpires(c)) \/ Crash

Spec == Init /\ [][Next]_vars

-----------------------------------------------------------------------------
(***************************************************************************)
(* Safety.                                                                 *)
(***************************************************************************)

Running(w, op, c) == pc[w] # "idle" /\ req[w].op = op /\ Coupon(w) = c
Untouched(c) == \A w \in Workers, op \in Operations : ~Running(w, op, c)

\* Whoever is told that he has payed with a coupon or given it back is an order
\* that was told it froze it, as long as nothing has failed: no interleaving
\* lets one order use up the coupon of another (the tests of order_id in
\* payCoupon and rollbackCoupon).
UserFroze ==
  faults = 0 => \A r \in acked : r.op \in {"pay", "rollback"} =>
    \/ [r EXCEPT !.op = "freeze"] \in acked
    \/ \E w \in Workers : At(w, "writeBack") /\ req[w] = [r EXCEPT !.op = "freeze"]

\* Every acknowledged payment is in payed_count, whatever fails (the update of
\* the counter comes before the answer).
PaymentsCounted == Cardinality({r \in acked : r.op = "pay"}) <= payed_count

\* The three records of a coupon agree: use_status with the row always, and
\* with the copy in Redis if there is one, once no request is at work on the
\* coupon (one request at a time, complete list), as long as nothing has failed.
Agreed(c) ==
  /\ use_status[c] \in {"DRAWN", "EXPIRED"} <=> row[c] = Blank
  /\ use_status[c] = "FROZEN" <=> row[c].order # None /\ ~row[c].payed
  /\ use_status[c] = "PAYED" <=> row[c].order # None /\ row[c].payed
RecordsAgree ==
  scene.serial /\ faults = 0 => \A c \in Coupons : Untouched(c) =>
    /\ Agreed(c)
    /\ IF cache[c] = Absent THEN TRUE ELSE cache[c].status = use_status[c]

\* payed_count counts the payed coupons once no request is at work (one at a time),
\* as long as nothing has failed.
CountExact ==
  scene.serial /\ faults = 0 /\ (\A c \in Coupons : Untouched(c)) =>
    payed_count = Cardinality({c \in Coupons : row[c].payed})

(***************************************************************************)
(* What a comment says and the concurrent handlers do not keep.            *)
(***************************************************************************)

\* "Is the coupon in use?" asks freezeCoupon: two orders are both told that they
\* have frozen a coupon only if a rollback gave it back in between.
OneOrderHolds ==
  \A r, s \in acked :
    r.op = "freeze" /\ s.op = "freeze" /\ r.coupon = s.coupon /\ r.order # s.order =>
      \/ \E t \in acked : t.op = "rollback" /\ t.coupon = r.coupon
      \/ \E w \in Workers : Running(w, "rollback", r.coupon)

(***************************************************************************)
(* The promise of CouponLedger, kept by requests one at a time.            *)
(***************************************************************************)

\* The coupon as its users find it.  A request takes effect when it writes the
\* row; if it has written use_status and never gets to the row, the coupon is
\* lost.
InHand(c) == \E w \in Workers : At(w, "writeRow") /\ Coupon(w) = c
StateOf(c) ==
  CASE Agreed(c)               -> [status |-> use_status[c], order |-> row[c].order]
    [] ~Agreed(c) /\ InHand(c) -> [status |-> IF row[c] = Blank THEN "DRAWN" ELSE "FROZEN",
                                   order  |-> row[c].order]
    [] OTHER                   -> [status |-> "LOST", order |-> None]

\* Requests handled at once do not keep it: nothing is claimed of them.
Claimed(c) == IF scene.serial THEN StateOf(c) ELSE [status |-> "DRAWN", order |-> None]

Ledger == INSTANCE CouponLedger WITH
  state <- [c \in Coupons |-> Claimed(c)],
  late  <- scene.serial /\ expired

\* Requests handled one at a time keep the promise of CouponLedger, with failures
\* and crashes: one order freezes a coupon and then pays with it for good or gives it back, and
\* a coupon whose operation failed half way is never used again.
Implements == Ledger!Spec

=============================================================================
