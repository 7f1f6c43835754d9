----------------------------- MODULE CouponDraw -----------------------------
(***************************************************************************)
(* drawCoupon of the coupon EC service: users draw coupons of one group.   *)
(*                                                                         *)
(* The Thrift server runs the handler on several worker threads.  Nothing  *)
(* spans a transaction: every SQL statement commits alone, every Redis     *)
(* command is its own round trip, so one request is a chain of atomic      *)
(* steps between which the other workers run.  Each step below is one      *)
(* statement or command together with the code up to the next one.         *)
(*                                                                         *)
(* Scene "issue" is the code for scene types 0, 1, 2 and 4, where a draw   *)
(* inserts a coupon row; scene "export" is scene type 3, where the rows    *)
(* were generated in advance and a draw names the code it wants.           *)
(*                                                                         *)
(* A coupon is named by its row id; CouponCode shows that a code and the   *)
(* pair (group id, row id) determine each other.                           *)
(***************************************************************************)
EXTENDS Integers, Sequences, FiniteSets

CONSTANTS
  Workers,         \* worker threads of the server (taskThreadsNum)
  Users,           \* user ids
  max_count,       \* column max_count of the group
  can_draw_count,  \* column can_draw_count of the group, for each scene
  cache_codes_capacity,
  Scenes,          \* the scenes a group may have
  Exported,        \* coupon rows of an export group, generated before the first draw
  MaxFaults,       \* bound on the failures of a behaviour
  NoUser,          \* user_id 0 of a coupon nobody has drawn
  Free,            \* a lock key that is absent from Redis
  Dead             \* the value of a lock key whose process has died

ASSUME DrawAssumption ==
  /\ IsFiniteSet(Workers) /\ Workers # {}
  /\ max_count \in Nat
  /\ can_draw_count \in [{"issue", "export"} -> Nat]
  /\ cache_codes_capacity \in Nat \ {0}
  /\ Scenes \subseteq {"issue", "export"} /\ Scenes # {}
  /\ Exported \in Nat
  /\ MaxFaults \in Nat
  /\ NoUser \notin Users
  /\ {Free, Dead} \cap Workers = {} /\ Free # Dead

VARIABLES
  scene,        \* the scene of the group (from column scene_type)
  table,        \* does the coupon table of the group exist?
  coupon,       \* coupon table: coupon[id] = [user, coded]
  drawn_count,  \* column drawn_count of the group
  userCoupons,  \* coupon_usercoupons: rows [user, coupon] in insertion order
  list,         \* Redis: list[u] = the cached code list of user u
  cache,        \* Redis: cache[u] = the codes with a cached coupon of user u
  lock,         \* Redis: lock[u] = holder of the key drawCoupon_<u>
  pc,           \* pc[w] = next step of worker w
  user,         \* user[w] = user_id of the request
  code,         \* code[w] = the coupon drawn (export: named by the request)
  seen,         \* seen[w] = the code list read from Redis (cacheCodes)
  answer,       \* answer[w] = answer to the last request of w
  faults        \* failures so far

db == <<scene, table, coupon, drawn_count, userCoupons>>
redis == <<list, cache, lock>>
local == <<user, code, seen>>
vars == <<db, redis, local, pc, answer, faults>>

NoCode == 0

Row == [user : Users \cup {NoUser}, coded : BOOLEAN]
UserCoupon == [user : Users, coupon : Nat]
Holder == Workers \cup {Free, Dead}

\* Statements that write to MySQL, all made under the lock.
Writes == {"insertCoupon", "fillCode", "incrDrawn", "setUser", "insertUserCoupon"}
Steps == {"idle", "countReal", "checkList", "checkUser", "findCoupon", "lock",
          "unlock", "abort", "writeList", "writeCache"} \cup Writes
Answers == {"none", "OK", "refused", "error"}

TypeOK ==
  /\ scene \in Scenes
  /\ table \in BOOLEAN
  /\ coupon \in Seq(Row)
  /\ drawn_count \in Nat
  /\ userCoupons \in Seq(UserCoupon)
  /\ list \in [Users -> Seq(Nat)]
  /\ cache \in [Users -> SUBSET Nat]
  /\ lock \in [Users -> Holder]
  /\ pc \in [Workers -> Steps]
  /\ user \in [Workers -> Users]
  /\ code \in [Workers -> Nat]
  /\ seen \in [Workers -> Seq(Nat)]
  /\ answer \in [Workers -> Answers]
  /\ faults \in Nat

-----------------------------------------------------------------------------
(***************************************************************************)
(* Faulty variants of definitions below, for mutation runs: each is a bug  *)
(* the properties have to notice.                                          *)
(***************************************************************************)

NoneLeft_LetsOneMore(n) == n > max_count
DrawnAllYouCan_LetsOneMore(n) == n > can_draw_count[scene]
Push_KeepsAll(codes, id) == Append(codes, id)
UserCouponRow_LastId(w) == [user |-> user[w], coupon |-> Len(coupon)]
WithCode_FirstRow(id) == [coupon EXCEPT ![1].coded = TRUE]
WithCode_SetsUser(id) ==
  [i \in DOMAIN coupon |-> [user |-> coupon[id].user, coded |-> TRUE]]
Increment_Twice(n) == drawn_count + n + 1
Checks_LockWaits == {"countReal", "checkList", "checkUser", "findCoupon"}
CodeTaken_NoUniqueKey == FALSE

-----------------------------------------------------------------------------
(* The tests and the data of the handler. *)

\* Steps up to the lock: a return from one of them leaves nothing behind.
Checks == {"countReal", "checkList", "checkUser", "findCoupon", "lock"}

\* select count(*) from the coupon table where user_id > 0
Issued == Cardinality({id \in DOMAIN coupon : coupon[id].user # NoUser})

\* select count(*) from coupon_usercoupons where user_id = u
UserCouponsCount(u) ==
  Cardinality({k \in DOMAIN userCoupons : userCoupons[k].user = u})

NoneLeft(n) == n >= max_count
CounterSoldOut == NoneLeft(drawn_count)
SoldOut == NoneLeft(Issued)
DrawnAllYouCan(n) == n >= can_draw_count[scene]

NotDrawn(id) == coupon[id].user = NoUser

\* The code column is NOT NULL UNIQUE and the insert does not set it, so a
\* fresh row holds '' until the update that follows.
BlankRows == {id \in DOMAIN coupon : ~coupon[id].coded}
CodeTaken == BlankRows # {}

\* Where a step goes next: the scenes order their statements differently.
After ==
  IF scene = "issue"
  THEN [checkUser |-> "lock", lock |-> "insertCoupon", incrDrawn |-> "insertUserCoupon"]
  ELSE [checkUser |-> "findCoupon", lock |-> "incrDrawn", incrDrawn |-> "setUser"]

\* Appending to the cached list; a full list first drops its oldest code.
Push(codes, id) ==
  Append(IF Len(codes) >= cache_codes_capacity THEN Tail(codes) ELSE codes, id)

\* update ... set code where id
WithCode(id) == [coupon EXCEPT ![id].coded = TRUE]

\* update ... set user_id where id: the row is not tested again.
WithUser(w) == [coupon EXCEPT ![code[w]].user = user[w]]

\* update ... set drawn_count = drawn_count + 1, sent n times
Increment(n) == drawn_count + n

\* The row that insertUserCoupon inserts.
UserCouponRow(w) == [user |-> user[w], coupon |-> code[w]]

-----------------------------------------------------------------------------
Goto(w, step) == pc' = [pc EXCEPT ![w] = step]
Answer(w, a) == answer' = [answer EXCEPT ![w] = a]
At(w, step) == pc[w] = step
Fault == faults < MaxFaults /\ faults' = faults + 1
NoFault == UNCHANGED faults
Quiet == NoFault /\ UNCHANGED answer

Init ==
  /\ scene \in Scenes
  /\ table \in (IF scene = "issue" THEN BOOLEAN ELSE {TRUE})
  /\ coupon = [id \in 1..(IF scene = "issue" THEN 0 ELSE Exported) |->
                 [user |-> NoUser, coded |-> TRUE]]
  /\ drawn_count = 0
  /\ userCoupons = << >>
  /\ list = [u \in Users |-> << >>]
  /\ cache = [u \in Users |-> {}]
  /\ lock = [u \in Users |-> Free]
  /\ pc = [w \in Workers |-> "idle"]
  /\ user \in [Workers -> Users]
  /\ code = [w \in Workers |-> NoCode]
  /\ seen = [w \in Workers |-> << >>]
  /\ answer = [w \in Workers |-> "none"]
  /\ faults = 0

(***************************************************************************)
(* The checks.                                                             *)
(***************************************************************************)

\* A request arrives; the group row is read (verify_status = 2) and its
\* counter is tested.  An export request names a code that exists.
Begin(w, u) ==
  /\ At(w, "idle")
  /\ ~CounterSoldOut
  /\ user' = [user EXCEPT ![w] = u]
  /\ \E id \in (IF scene = "issue" THEN {NoCode} ELSE DOMAIN coupon) :
       code' = [code EXCEPT ![w] = id]
  /\ seen' = [seen EXCEPT ![w] = << >>]
  /\ Goto(w, "countReal")
  /\ Answer(w, "none")
  /\ NoFault
  /\ UNCHANGED <<db, redis>>

\* The counter of the group says that nothing is left.
BeginSoldOut(w) ==
  /\ At(w, "idle")
  /\ CounterSoldOut
  /\ Answer(w, "refused")
  /\ NoFault
  /\ UNCHANGED <<db, redis, local, pc>>

\* "Confirm in the coupon table."
CountReal(w) ==
  /\ At(w, "countReal")
  /\ table
  /\ ~SoldOut
  /\ Goto(w, "checkList")
  /\ Quiet
  /\ UNCHANGED <<db, redis, local>>

\* Counting in a table that does not exist is a MySQL error.
TableMissing(w) ==
  /\ At(w, "countReal")
  /\ ~table
  /\ Goto(w, "idle")
  /\ Answer(w, "error")
  /\ NoFault
  /\ UNCHANGED <<db, redis, local>>

\* The cached code list is read and its codes counted.
CheckList(w) ==
  /\ At(w, "checkList")
  /\ ~DrawnAllYouCan(Len(list[user[w]])) \/ list[user[w]] = << >>
  /\ seen' = [seen EXCEPT ![w] = list[user[w]]]
  /\ Goto(w, "checkUser")
  /\ Quiet
  /\ UNCHANGED <<db, redis, user, code>>

\* A failing GET is taken for an absent list.
ListUnread(w) ==
  /\ At(w, "checkList")
  /\ Fault
  /\ seen' = [seen EXCEPT ![w] = << >>]
  /\ Goto(w, "checkUser")
  /\ UNCHANGED <<db, redis, user, code, answer>>

\* "Confirm in the UserCoupons table"; CREATE TABLE IF NOT EXISTS follows and
\* finds the table that CountReal has read.
CheckUser(w) ==
  /\ At(w, "checkUser")
  /\ ~DrawnAllYouCan(UserCouponsCount(user[w]))
  /\ table' = TRUE
  /\ Goto(w, After["checkUser"])
  /\ Quiet
  /\ UNCHANGED <<scene, coupon, drawn_count, userCoupons, redis, local>>

\* Scene 3: the named row must not have been drawn.
FindCoupon(w) ==
  /\ At(w, "findCoupon")
  /\ NotDrawn(code[w])
  /\ Goto(w, "lock")
  /\ Quiet
  /\ UNCHANGED <<db, redis, local>>

\* Any other return before the lock is held: sold out, drawn all you can,
\* outside the draw period, wrong scene or argot, drawn or robbed, lock busy,
\* or a read that failed.  Nothing has been written.
Refuse(w) ==
  /\ pc[w] \in Checks
  /\ Goto(w, "idle")
  /\ Answer(w, "refused")
  /\ NoFault
  /\ UNCHANGED <<db, redis, local>>

\* RedisLock lock(..., "drawCoupon_" + user_id, 1000)
AcquireLock(w) ==
  /\ At(w, "lock")
  /\ lock[user[w]] = Free
  /\ lock' = [lock EXCEPT ![user[w]] = w]
  /\ Goto(w, After["lock"])
  /\ Quiet
  /\ UNCHANGED <<db, list, cache, local>>

(***************************************************************************)
(* The writes, made under the lock.  The Do operators are the effects of   *)
(* the statements on the database.                                         *)
(***************************************************************************)

DoInsertCoupon(w) ==
  /\ ~CodeTaken
  /\ coupon' = Append(coupon, [user |-> user[w], coded |-> FALSE])
  /\ code' = [code EXCEPT ![w] = Len(coupon) + 1]
  /\ UNCHANGED <<scene, table, drawn_count, userCoupons>>

DoFillCode(w) ==
  /\ coupon' = WithCode(code[w])
  /\ UNCHANGED <<scene, table, drawn_count, userCoupons, code>>

DoIncrDrawn(n) ==
  /\ drawn_count' = Increment(n)
  /\ UNCHANGED <<scene, table, coupon, userCoupons, code>>

DoSetUser(w) ==
  /\ coupon' = WithUser(w)
  /\ UNCHANGED <<scene, table, drawn_count, userCoupons, code>>

DoInsertUserCoupon(w) ==
  /\ userCoupons' = Append(userCoupons, UserCouponRow(w))
  /\ UNCHANGED <<scene, table, coupon, drawn_count, code>>

InsertCoupon(w) ==
  /\ At(w, "insertCoupon")
  /\ DoInsertCoupon(w)
  /\ Goto(w, "fillCode")
  /\ Quiet
  /\ UNCHANGED <<redis, user, seen>>

\* A second row with code '' breaks the unique key: the insert fails.
InsertConflict(w) ==
  /\ At(w, "insertCoupon")
  /\ CodeTaken
  /\ Goto(w, "abort")
  /\ Quiet
  /\ UNCHANGED <<db, redis, local>>

FillCode(w) ==
  /\ At(w, "fillCode")
  /\ DoFillCode(w)
  /\ Goto(w, "incrDrawn")
  /\ Quiet
  /\ UNCHANGED <<redis, user, seen>>

IncrDrawn(w) ==
  /\ At(w, "incrDrawn")
  /\ DoIncrDrawn(1)
  /\ Goto(w, After["incrDrawn"])
  /\ Quiet
  /\ UNCHANGED <<redis, user, seen>>

SetUser(w) ==
  /\ At(w, "setUser")
  /\ DoSetUser(w)
  /\ Goto(w, "insertUserCoupon")
  /\ Quiet
  /\ UNCHANGED <<redis, user, seen>>

\* Within the same second the update changes nothing if the user already has
\* the row: no affected row, and the handler throws.
SetUserUnchanged(w) ==
  /\ At(w, "setUser")
  /\ coupon[code[w]].user = user[w]
  /\ Goto(w, "abort")
  /\ Quiet
  /\ UNCHANGED <<db, redis, local>>

InsertUserCoupon(w) ==
  /\ At(w, "insertUserCoupon")
  /\ DoInsertUserCoupon(w)
  /\ Goto(w, "unlock")
  /\ Quiet
  /\ UNCHANGED <<redis, user, seen>>

(***************************************************************************)
(* Failures of a write.                                                    *)
(***************************************************************************)

Effect(w) ==
  \/ At(w, "insertCoupon") /\ DoInsertCoupon(w)
  \/ At(w, "fillCode") /\ DoFillCode(w)
  \/ At(w, "incrDrawn") /\ DoIncrDrawn(1)
  \/ At(w, "setUser") /\ DoSetUser(w)
  \/ At(w, "insertUserCoupon") /\ DoInsertUserCoupon(w)

\* The handler sees the statement fail and throws; MySQL may have executed it.
WriteFails(w) ==
  /\ pc[w] \in Writes
  /\ Fault
  /\ Effect(w) \/ UNCHANGED <<db, code>>
  /\ Goto(w, "abort")
  /\ UNCHANGED <<redis, user, seen, answer>>

\* The connection breaks after the statement was executed (errno 2013), and
\* runUpdate and runInsert reconnect and send it again.
WriteRepeated(w) ==
  /\ Fault
  /\ \/ /\ At(w, "incrDrawn")
        /\ DoIncrDrawn(2)
        /\ Goto(w, After["incrDrawn"])
     \/ /\ At(w, "insertUserCoupon")
        /\ userCoupons' = Append(Append(userCoupons, UserCouponRow(w)), UserCouponRow(w))
        /\ Goto(w, "unlock")
        /\ UNCHANGED <<scene, table, coupon, drawn_count, code>>
  /\ UNCHANGED <<redis, user, seen, answer>>

\* runInsert returns the insert id after any other error, and
\* insertUserCoupon only tests ret < 0: the failure goes unnoticed.
InsertUserCouponUnnoticed(w) ==
  /\ At(w, "insertUserCoupon")
  /\ Fault
  /\ Goto(w, "unlock")
  /\ UNCHANGED <<db, redis, local, answer>>

(***************************************************************************)
(* The end of a request.                                                   *)
(***************************************************************************)

\* The script behind Unlock deletes the key only if it still holds our value.
Released(w) ==
  lock' = [lock EXCEPT ![user[w]] = IF @ = w THEN Free ELSE @]

Unlock(w) ==
  /\ At(w, "unlock")
  /\ Released(w)
  /\ Goto(w, "writeList")
  /\ Quiet
  /\ UNCHANGED <<db, list, cache, local>>

\* The destructor of RedisLock runs while the exception propagates.
Abort(w) ==
  /\ At(w, "abort")
  /\ Released(w)
  /\ Goto(w, "idle")
  /\ Answer(w, "error")
  /\ NoFault
  /\ UNCHANGED <<db, list, cache, local>>

\* The list written is the one read before the lock, plus the new code.
WriteList(w) ==
  /\ At(w, "writeList")
  /\ \/ list' = [list EXCEPT ![user[w]] = Push(seen[w], code[w])] /\ NoFault
     \/ Fault /\ UNCHANGED list      \* a failing SET is only logged
  /\ seen' = [seen EXCEPT ![w] = << >>]
  /\ Goto(w, "writeCache")
  /\ UNCHANGED <<db, cache, lock, user, code, answer>>

WriteCache(w) ==
  /\ At(w, "writeCache")
  /\ \/ cache' = [cache EXCEPT ![user[w]] = @ \cup {code[w]}] /\ NoFault
     \/ Fault /\ UNCHANGED cache
  /\ Goto(w, "idle")
  /\ Answer(w, "OK")
  /\ UNCHANGED <<db, list, lock, local>>

(***************************************************************************)
(* The environment.                                                        *)
(***************************************************************************)

\* The admin service creates the table on request (createCouponTable).
AdminCreateTable ==
  /\ ~table
  /\ table' = TRUE
  /\ UNCHANGED <<scene, coupon, drawn_count, userCoupons, redis, local, pc, answer, faults>>

\* The lock key lives for 1000 ms, however long its holder takes.
LockExpires(u) ==
  /\ lock[u] # Free
  /\ lock' = [lock EXCEPT ![u] = Free]
  /\ UNCHANGED <<db, list, cache, local, pc, answer, faults>>

\* The server dies and is started again: every request is lost, MySQL and
\* Redis keep what they have, a lock key stays until its time to live ends.
Crash ==
  /\ Fault
  /\ \E w \in Workers : pc[w] # "idle"
  /\ pc' = [w \in Workers |-> "idle"]
  /\ answer' = [w \in Workers |-> "none"]
  /\ lock' = [u \in Users |-> IF lock[u] = Free THEN Free ELSE Dead]
  /\ code' = [w \in Workers |-> NoCode]
  /\ seen' = [w \in Workers |-> << >>]
  /\ UNCHANGED <<db, list, cache, user>>

Step(w) ==
  \/ BeginSoldOut(w) \/ CountReal(w) \/ TableMissing(w) \/ CheckList(w) \/ ListUnread(w)
  \/ CheckUser(w) \/ FindCoupon(w) \/ Refuse(w) \/ AcquireLock(w)
  \/ InsertCoupon(w) \/ InsertConflict(w) \/ FillCode(w) \/ IncrDrawn(w)
  \/ SetUser(w) \/ SetUserUnchanged(w) \/ InsertUserCoupon(w)
  \/ WriteFails(w) \/ WriteRepeated(w) \/ InsertUserCouponUnnoticed(w)
  \/ Unlock(w) \/ Abort(w) \/ WriteList(w) \/ WriteCache(w)

Next ==
  \/ \E w \in Workers : Step(w)
  \/ \E w \in Workers, u \in Users : Begin(w, u)
  \/ AdminCreateTable
  \/ \E u \in Users : LockExpires(u)
  \/ Crash

Spec == Init /\ [][Next]_vars

\* A worker thread that has a request runs on, and Redis expires its keys.
Fairness ==
  /\ \A w \in Workers : WF_vars(pc[w] # "idle" /\ Step(w))
  /\ \A u \in Users : WF_vars(LockExpires(u))

FairSpec == Spec /\ Fairness

-----------------------------------------------------------------------------
(***************************************************************************)
(* Safety.                                                                 *)
(***************************************************************************)

Quiescent == \A w \in Workers : pc[w] = "idle"

\* The limits are tested before the lock is taken and never again, so each
\* worker can carry one coupon past a test that another worker has made stale.
Slack == Cardinality(Workers) - 1

\* The group never issues more coupons than max_count and one for every other
\* worker thread, whatever fails (drawCoupon, count tests and row insert).
OverIssueBounded == Issued <= max_count + Slack

\* Why: the workers that have passed the count test and have not yet taken
\* their coupon are counted with the coupons issued.
ClaimSteps ==
  {"checkList", "checkUser", "findCoupon", "lock", "insertCoupon", "setUser"}
    \cup (IF scene = "export" THEN {"incrDrawn"} ELSE {})
Claiming == {w \in Workers : pc[w] \in ClaimSteps}
IssueClaims == Issued + Cardinality(Claiming) <= max_count + Slack

\* No user gets more coupons than can_draw_count and one for every other worker
\* thread; a repeated insert adds its duplicate (drawCoupon, userCouponsCount
\* test and insertUserCoupon).
PerUserBounded ==
  \A u \in Users : UserCouponsCount(u) <= can_draw_count[scene] + Slack + faults

\* Why: the workers that have passed the test of the user's count and have not
\* yet recorded their coupon are counted with the user's coupons.
GrantSteps ==
  {"findCoupon", "lock", "insertCoupon", "fillCode", "incrDrawn", "setUser",
   "insertUserCoupon"}
Granting(u) == {w \in Workers : user[w] = u /\ pc[w] \in GrantSteps}
UserClaims ==
  \A u \in Users :
    UserCouponsCount(u) + Cardinality(Granting(u)) <= can_draw_count[scene] + Slack + faults

\* Every row of coupon_usercoupons names a coupon whose row has its code and
\* the same user: the two tables written one after the other never contradict
\* each other (drawOneCoupon before insertUserCoupon; scene "issue").
Backed ==
  scene = "issue" => \A k \in DOMAIN userCoupons :
    LET id == userCoupons[k].coupon
    IN  /\ id \in DOMAIN coupon
        /\ coupon[id] = [user |-> userCoupons[k].user, coded |-> TRUE]

\* The three counts of issued coupons stay ordered as their statements are,
\* so the counter never declares the group sold out early, and they are
\* equal when no request is running (scene "issue", as long as nothing failed).
CountsAgree ==
  scene = "issue" /\ faults = 0 =>
    /\ Len(userCoupons) <= drawn_count
    /\ drawn_count <= Issued
    /\ Quiescent => Len(userCoupons) = Issued

\* Whoever the coupon table names as the owner of a coupon has it in
\* coupon_usercoupons too, or a worker is about to record it (as long as
\* nothing failed).
OwnerRecorded ==
  faults = 0 => \A id \in DOMAIN coupon : coupon[id].user # NoUser =>
    LET row == [user |-> coupon[id].user, coupon |-> id]
    IN  \/ \E k \in DOMAIN userCoupons : userCoupons[k] = row
        \/ \E w \in Workers :
             /\ pc[w] \in {"fillCode", "incrDrawn", "insertUserCoupon"}
             /\ [user |-> user[w], coupon |-> code[w]] = row

\* A code list in Redis holds distinct codes of its own user, all of them
\* usable, and never more than cache_codes_capacity (the eviction test; the
\* owner only in scene "issue").
ListSound ==
  \A u \in Users :
    /\ Len(list[u]) <= cache_codes_capacity
    /\ scene = "issue" => \A i \in DOMAIN list[u] :
         /\ list[u][i] \in DOMAIN coupon
         /\ coupon[list[u][i]] = [user |-> u, coded |-> TRUE]
         /\ \A j \in DOMAIN list[u] : list[u][i] = list[u][j] => i = j

\* A scene never reaches the statements of the other one.
PathOK ==
  \A w \in Workers :
    pc[w] \notin (IF scene = "issue" THEN {"findCoupon", "setUser"}
                                     ELSE {"insertCoupon", "fillCode"})

\* A row without its code belongs to a worker that is about to set it, so the
\* unique key on code never stops the group for good (as long as nothing failed).
Wedged ==
  \E id \in BlankRows : \A w \in Workers : At(w, "fillCode") => code[w] # id

NeverWedged == faults = 0 => ~Wedged

\* After a failure between the insert of a row and the update that sets its
\* code nothing repairs the row, and the group never issues a coupon again.
WedgeIsPermanent == [][Wedged => Wedged' /\ Len(coupon') = Len(coupon)]_vars

\* Who owns a coupon is decided once: a drawn row never changes hands (scene
\* "issue").
OwnerIsFinal ==
  [][\A id \in DOMAIN coupon :
       scene = "issue" /\ coupon[id].user # NoUser => coupon'[id].user = coupon[id].user]_vars

(***************************************************************************)
(* A claim of the repository that the concurrent handler does not keep.    *)
(***************************************************************************)

\* drawCoupon: an exported code that somebody has drawn is refused.
DrawnByOneUser ==
  \A j, k \in DOMAIN userCoupons :
    userCoupons[j].coupon = userCoupons[k].coupon => userCoupons[j].user = userCoupons[k].user

(***************************************************************************)
(* Liveness.                                                               *)
(***************************************************************************)

\* Every request is answered: no step of the handler waits for another worker,
\* not even for the lock.
RequestsAnswered == \A w \in Workers : pc[w] # "idle" ~> pc[w] = "idle"

(***************************************************************************)
(* The abstract specification that the handler implements.                 *)
(***************************************************************************)

Drawn == {id \in DOMAIN coupon : coupon[id].user # NoUser}

\* In scene "export" two users may draw one coupon (DrawnByOneUser), so only
\* the coupons of scene "issue" are promised to their owners.
Promised == IF scene = "issue" THEN Drawn ELSE {}

Promise == INSTANCE CouponIssue WITH
  Coupons <- 1..(max_count + Slack),
  Limit   <- max_count + Slack,
  PerUser <- can_draw_count.issue + Slack,
  owner   <- [id \in Promised |-> coupon[id].user],
  wallet  <- Promised \cap {userCoupons[k].coupon : k \in DOMAIN userCoupons}

\* drawCoupon keeps the promise of CouponIssue (scene "issue").
Implements == Promise!Spec

=============================================================================
