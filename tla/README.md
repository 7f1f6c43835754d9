# A verification project for grove-x

grove-x is a set of Thrift servers for a shop: coupons (drawing, using, batch
jobs, administration) and on-sale activities. The servers are C++ programs
over MySQL and Redis. This directory holds TLA+ modules for the part of the
program that carries its own logic, TLC runs that check them on small
instances, and proofs, checked by TLAPS, for every value of the constants.

Paths below are relative to `src/src/rpc/servers/coupon/` unless they begin
with `base/` (`src/src/base/`) or `onsale/`. "EC handler" is
`CouponECServiceHandler.hpp`, "admin handler" is
`CouponAdminServiceHandler.hpp`. `PROJECT.json` maps every definition that
models code to the lines it models.

## 1. The system

### Components

| Component | State | Operations | Interacts with |
|---|---|---|---|
| EC service (EC handler, `CouponHelper.h`) | none of its own: everything is in MySQL and Redis | `drawCoupon`, `freezeCoupon`, `payCoupon`, `rollbackCoupon`, `getUserCoupons`, selection (`getUsableCoupons`, `getApportion`) and queries | worker threads of one Thrift server share the two databases; a per-user Redis lock around the writes of a draw |
| Admin service (admin handler) | rows of `coupon_coupongroup`, the two job lists | create, update, online and offline of groups, labels, `batchDispatch`, `batchExport` | pushes jobs into Redis lists |
| Batch servers (`CouponBatchDispatchServer.cc`, `CouponBatchExportServer.cc`) with `base/redismq` | one redismq connection and the request being worked on | take a request by BLPOP, draw for users by RPC, or insert coupon rows | Redis list, EC service, MySQL |
| Coupon codes (`CouponCode.h`) | none | `Encode`, `Decode`, slugs | called by all of the above |
| Connection pools (`base/RedisWrapperPool.h`, `MysqlWrapperPool.h`, `OdbWrapperPool.h`) | list of idle connections, `curSize` | get and release with replacement and reconnection | every handler of every server |
| Push service | none | reads | MySQL, Redis |
| On-sale admin server (`onsale/OnsaleAdminServiceHandler.hpp`) | activities, steps, labels, labelled wares in MySQL (through ODB); name lists of the labels in Redis | create, update, offline, `addStep`, `delStep`; `addCacheNameList`, `createNameList`, `addWareLabelWares`, `delWareLabelWares` | asks the label server through a Redis list |
| On-sale label server (`onsale/OnsaleLabelServer.cc`) | the request it works on | files the wares of a name list under their label, unless they are sold elsewhere | redismq, MySQL, Redis |
| On-sale EC server (`onsale/OnsaleECServiceHandler.hpp`) | none | `getUsableOnsaleGroups`, `getApportion` | reads MySQL |
| Thrift server and client wrappers, CGI gateways, Django pages, generated code, vendored libraries | | | |

The tables and keys that matter:

* the coupon table of a group (`createCouponTable`, `CouponHelper.h`): one
  row per coupon with `code` (NOT NULL, UNIQUE), `user_id`, the order and the
  times of use;
* `coupon_usercoupons`: one row per drawn coupon, with `use_status`;
* `coupon_coupongroup`: `max_count`, `can_draw_count`, `drawn_count`,
  `payed_count`, `version`, the dates;
* Redis: the code list of a user, a cached copy of each of his coupons, the
  key `drawCoupon_<user>` of the lock, the two job lists.

### What is hard about it

Nothing in the program spans a transaction. Each SQL statement commits alone
and each Redis command is a round trip, so a request is a chain of atomic steps
between which the other worker threads run. Only the writes of a draw are under
a lock, and only per user. The behaviours that follow:

* tests made on values that are stale when the writes come (draw, freeze,
  export);
* tests that two processes make on the same tables for their own inserts (argots, labels,
  the wares of overlapping activities);
* pages of the admin that are saved as a whole row over whatever has changed meanwhile;
* discounts divided in doubles, rounded share by share and corrected afterwards;
* two or three records of the same fact, written one after the other (owner,
  status, counters, Redis copies), and failures between the writes;
* statements that are sent again after a lost connection (errno 2013 and 2006 in
  `base/mysqlwrapper.h`), where the first may have been executed;
* a lock that expires by itself and a worker that dies with it;
* jobs taken off a list before they are done;
* pools that never wait and answer NULL when they are exhausted.

`PROJECT.json` lists these hazards at the lines where they bite, with the
properties that would catch each of them, or the reason none does yet.

### What makes each component correct

* *Drawing*: the group's limit and the user's limit, up to the races the code
  admits; one owner per coupon, for good; the wallet table never contradicts
  the coupon table; every request is answered.
* *Using*: one order freezes a coupon and then pays or gives it back; the three
  records of its state agree when nobody is at work; payments are counted.
* *Batch jobs*: in order, one at a time, no item twice; nothing left out unless
  something failed; the limits of the export.
* *Codes*: a code belongs to one pair of ids.
* *Pools*: no connection shared, lost or counted twice; nobody refused.
* *Selection*: a drawn coupon is offered or its refusal explained, and not both; the shares
  add up to the discount, fall on covered wares only and make no price negative.
* *Groups*: an argot leads to the group that is drawing; the time of drawing is not
  shortened; the version tells whether a copy is up to date.
* *On-sale activities*: an activity gets its own slug; none runs that was not approved
  last; a label has one activity; a ware is sold by one activity at a time; the discount
  is divided fairly, and the shop is told truly what is missing to the next step.

## 2. Modules

| Module | What it is |
|---|---|
| `CouponIssue` | abstract: coupons are issued to one owner each, up to a limit, and put into his wallet, up to a limit per user |
| `CouponDraw` | `drawCoupon`, one action per statement or command; implements `CouponIssue` |
| `CouponDrawProofs` | its theorems |
| `CouponLedger` | abstract: drawn, frozen by an order, payed or given back, expired, lost |
| `CouponLifecycle` | `freezeCoupon`, `payCoupon`, `rollbackCoupon`, `getUserCoupons`; implements `CouponLedger` when requests come one at a time |
| `CouponLifecycleProofs` | its theorems |
| `BatchQueue` | abstract: a FIFO of jobs, one open at a time, items in order and at most once |
| `BatchJobs`, `BatchJobsProofs` | the admin handlers of batch jobs, the redismq consumer, the two servers; implements `BatchQueue`; its theorems |
| `ConnectionPool`, `ConnectionPoolProofs` | `RedisWrapperPool` and the life of a `RedisWrapper`, and its theorems |
| `CouponCode` | the codec |
| `Cents`, `CentsProofs` | amounts of money and their rounding, for the two modules that divide discounts, and lemmas about them |
| `CouponApportion`, `CouponApportionProofs` | coupons for an order: `getUsableCoupons`, `getNotUsableCoupons`, `getApportion`, and its theorems |
| `CouponGroups` | the life of coupon groups in the admin server, with draws, cached copies and `checkArgot` |
| `CouponGroupsProofs` | theorems about groups and about codes: decoding undoes encoding |
| `OnsaleActivity` | the life of an on-sale activity in the admin server |
| `OnsaleWares` | extends `OnsaleActivity` with the wares: name lists, the admin's additions and deletions, the label server |
| `OnsaleQuote` | what the activities take off an order (the EC server) |
| `OnsaleProofs` | theorems about `OnsaleActivity`, `OnsaleWares` and `OnsaleQuote` |
| `MC*` | model values, samples, scenes and symmetry for TLC |

`OnsaleWares` is a composition: its steps read the activities that the steps of
`OnsaleActivity` write; `Onsale.cfg` checks both. The other modules meet at their
interfaces. `CouponDraw` names a coupon by its row id, which the theorem `DecodeUndoesEncode`
justifies (a code and the pair of group and row determine each other), and
`OnsaleActivity` writes the slug of activity g as g for the same reason. `BatchJobs`
treats one call of `drawCoupon` as one step that succeeds or fails, which is what
`CouponDraw` answers. `CouponLifecycle` and `CouponGroups` share the version of a group:
the first relies on what `VersionTells` says in the second. `ConnectionPool` takes from
the handlers only that they get, test, use and release a connection.

Some modules start in one of several *scenes*: a scene says what is asked, by whom and
within which bounds, and one run checks all of them.

### CouponDraw

State: the coupon table (`coupon[id]` = user and whether the code is set), the
group's counter, `userCoupons` in the order of insertion, the two Redis copies,
the lock keys, and for each worker its program counter and the values it read
(`user`, `code`, `seen`). A request walks through

    countReal, checkList, checkUser, (findCoupon,) lock,
    insertCoupon, fillCode, incrDrawn, insertUserCoupon      scene "issue"
    incrDrawn, setUser, insertUserCoupon                     scene "export"
    unlock, writeList, writeCache

Scene "issue" is the code for scene types 0, 1, 2 and 4, where a draw inserts a
row; "export" is scene type 3, where the code was generated in advance and the
request names it. `Refuse` stands for every return before the lock, which leaves
nothing behind. Failures: `WriteFails` (a statement fails, executed or not),
`WriteRepeated` (a statement sent again after a lost connection, so executed
twice), `InsertUserCouponUnnoticed` (a failed insert returns the insert id 0, and
`insertUserCoupon` tests for a negative result only, `CouponHelper.h` line 391), `ListUnread` (a failing GET is taken for an absent list),
`Crash`. `LockExpires` is Redis dropping the key of a process that died.

MySQL details that matter and are in the model: a fresh row has the code `''`
until the update that follows, so a second insert meanwhile breaks the unique key
(`InsertConflict`; this happens without any failure, between two users), and an
update that changes nothing reports 0 rows, which the handler treats as an error
(`SetUserUnchanged`).

Abstracted: time (an open or closed drawing period is a refusal), argot and
login tests (refusals), the contents of the cached coupon, logging.

### CouponLifecycle

The user's coupons of one online group. What became of a coupon is written three
times: `use_status`, the coupon's row, and the copy in Redis. `freeze`, `pay`
and `rollback` read the cached copy or else `use_status`, then write the
status, the row and (for pay) the counter, then write back the copy.
`getUserCoupons` reads the list, the copies and the tables and refills Redis one
coupon at a time, passing over those whose copy it has found (`Skip`). In the scene with one
request at a time the list in Redis starts out complete. Environment: the end of the time of use, updates of the
group (which make copies stale by `version`), expiry of copies, crashes, failed
and unchanged writes. In the three handlers at most one of the two Redis
commands of the write-back is executed, so it is one step.

### BatchJobs

`kind` chooses the server, as the two share nothing. An admin request is checked
and pushed in steps (for an export the count of the rows is read before the
push). The server connects, sends BLPOP, gets a request and works through its
items; `Throw` is any exception in the callback (the item may have been done),
`Die` a process that ends, `Restart` an operator who starts it again, `Disconnect`
a lost Redis connection. redismq aborts the process on an error reply, and that is a `Die`.

### ConnectionPool

Handlers get a connection (`GetIdle`), get one that replaces a closed one
(`GetReplaced`), or get a new one (`GetNew`), test it (`CheckOpen`), use it and
release it. A connection has a context (open, broken, NULL), the flag
`connected` and an age. A command on a NULL context kills the server, which
starts again with half the pool, as `InitPool` does.

Not modelled: guards nested in one handler, which only MySQL has
(`updateOnline` calls `verifyArgot`, and so on). The MySQL pool is twice the number
of threads, which is enough for two guards per handler.

### CouponCode

Letters are numbers from 0. A word is made (`Encode`, `GenCouponGroupSlug`) or
sent by a client (`Type`) and then read. `Part` is the conversion to base 26 with its
sentry and filling, for both widths; the cascades of `Decode` are one table
lookup (`SkipsSaidBy`). `coupon_id * 100` is at most 10^9 because of the limit
tested before, so its 32 bits do not overflow.

### CouponApportion

The shop asks three times: for the usable coupons (`GetUsableCoupons`), for the reasons why
the others are not (`GetNotUsableCoupons`), and, once the user has chosen, for the price
(`GetApportion` and the four passes after it: shares of the platform coupon, shares of the
shop coupons, correction of the sellers, correction of the skus). The handlers only read,
so one step is one pass over the order. Between the calls a coupon's time of use may begin
or end, and the year pass that `getUsableCoupons` looks back (`TimePasses`). Amounts are cents; what a double may decide either way (a tie in
rounding, the sign of a difference that is zero) is a choice.

Abstracted: the queries (a wallet is any set of coupons with what their groups say),
presentation, paging. The client chooses one platform coupon and one coupon per seller.

### CouponGroups

A group is a row with what the properties use: approval, argot, time of drawing, limits,
count of draws, version. An editor loads a page (`OpenPage`), asks `verifyArgot`, then
creates or saves; `updateOnline`, `offline`, `updateJump` and `updateArgotJump` read and
write in the handler. The result of the select in `verifyArgot` and in the tests of the limits
is ignored, so a failed one finds nothing (`Answer`, `CheckCreate`, `CheckSave`); a statement
sent again after a lost connection is executed twice, which makes a second group of an insert
(`Again`). Two history variables say where this matters: `untested`, the groups whose argot
and time were written by an editor who did not know all the others (`behind`: another row was
written since he began, or his select failed), and `overwritten`, the groups saved by a page
that had loaded another version. The properties say what holds of the others. `Draw` is
`incrDrawnCount` of the EC service, `Cache` its copy of a group, `Found` the groups
`checkArgot` finds.

### OnsaleActivity

`createOnsaleGroup` counts the activities with the label, inserts the row as it was sent,
whatever its `verify_status`, asks for the largest id, reads that row and writes it back with
its slug; `updateOnsaleGroup` counts, verifies and writes the whole page; `offline` reads and
writes. Column slug is unique, and the empty slug is a value like any other. `Fail` is a
failing statement (executed or not) or the death of the server. `approved` is a history
variable: the activities last written by a request to approve them, or to create them
approved, and since neither refused nor closed. A scene says which rows are sent (`sent`) and
what is asked (`asks`).

Taken for granted of the client: it sends no slug of its own making with a new activity (the
code would store it, `NoSlug` being the empty one it sends), and an update names the id and
the slug of one listed activity, which is not in the moment of its creation.

### OnsaleWares

A filer is an admin worker with an addition or a deletion, or the label server with a
request for one label. `ReadLabels` and `TestGroups` are the two selects of the test,
`InsertWare` the insert that relies on them. The kinds of labels (`sub_type` 0 white list,
1 black list, 2 all) have their own lists and their own order of deletion, addition and
bans. An item of a request has a label of its own: it is tested for the label of the request
and stored under its own. A select that fails answers nothing, which the code takes for "no
conflict": `overlooked` remembers the wares inserted after such a test, after a test that
another filer has overtaken, or under another label than the one tested.

The admin workers serve the requests about activities as well (`NextOfActivities` is the whole
`Next` of `OnsaleActivity`, a worker being at one request at a time), so activities are created,
updated, moved and closed while wares are filed. `updateOnsaleGroup` tests no ware again when
it changes a time or a label: `moved` remembers the activities that came, or got their label
or time, after the beginning, and `OneSale` is about the others.

### OnsaleQuote

`FindGroups` finds the running activity of every sku by the labels of its ware,
`ChooseSteps` the reached and the next step of each running activity, by amount or by number
(an activity whose wares went to another one has an amount of 0), `Divide` the shares with the
rest on the first sku, and the price of the order with all favors. As in `CouponApportion` the handlers
only read. Left out: presents, and activities all of whose skus cost nothing.

## 3. Runs

Each run is `tlc -config <cfg> <module>`. "CONSTANTS" values are model values.
States are distinct states.

| Run | Instance | States | Shows |
|---|---|---|---|
| `draw` | both scenes, 2 workers, 2 users, `max_count` 2, 2 per user (1 in scene "export", with 2 exported codes), lists of 1, 1 failure, fair | 447160 | limits up to the races (`OverIssueBounded`, `PerUserBounded`); the counts agree; the Redis list holds the user's own distinct codes; an unset code is about to be set or something failed, and then stays unset; wallet rows agree with coupon rows; owners are final; `CouponIssue` is implemented; every request is answered |
| `draw_export_race` | scene 3, 2 codes | violation | two users draw the same code (section 5) |
| `life` | scene 1: one request at a time of every kind, 1 coupon, 2 orders, 2 failures, 2 versions; scene 2: 2 workers, 2 orders, freeze, pay, rollback, 1 failure | 2565332 | scene 1: the records agree, the counter is exact, `CouponLedger` is implemented; scene 2: nobody uses a coupon that he did not freeze, payments are counted |
| `life_two_orders` | 2 workers, freeze only | violation | two orders freeze one coupon (section 5) |
| `pool` | 3 handlers, 4 addresses, size 3 | 10330 | no connection shared, lost, counted twice; nobody refused |
| `pool_reconnect` | 1 handler | violation | a connection that says it is open has no context (section 5) |
| `batch` | 3 requests of up to 2 items (0 and negative sizes too), `max_count` 3, 2 users, 4 codes, 1 failure, fair | 1084829 | `BatchQueue` is implemented; an accepted job is cut short only by a failure; the limits of the export; jobs are taken |
| `codes` | ids on both sides of every change of width and of both limits, every sentry, three fillings, words nobody made | 18834 | what is made reads back |
| `apportion` | every wallet of 3 coupons out of 11 kinds, 3 skus of 2 sellers, prices of 3 and 100 cents | 1468527 | offered or explained; the division of the discount |
| `groups` | 2 groups, 2 editors, 1 argot, 3 edits or repeated statements, 1 draw per group, failed selects | 1194453 | versions tell but of groups saved over another version, argots lead but to groups written untested, the time of drawing is kept but for an `updateOnline` that was overtaken |
| `quote` | 4 skus of 3 wares, 12 orders, 2 activities, 6 filings, 6 ladders of steps | 513304 | the shares add up and are fair; the next step is reached with what is said to be missing |
| `onsale` | 2 workers and the label server, 2 activities, 1 ware, 1 failure, seven scenes | 2853362 | slugs, approvals, labels, the blocked creation; one sale per ware |

### Bounds

* Two workers make every pairwise race of the handlers; the limits are stated with
  `Slack`, the number of *other* workers, and are proved for any number of them
  (section 4). Two users tell "the same user" from "another user"; locks, lists and counts
  do not relate more. In scene "issue" `max_count` and `can_draw_count` are reached and
  exceeded. In scene "export" two exported codes do not exceed a `max_count` of two: the
  group's limit in that scene rests on the theorem.
* Failures are counted by `MaxFaults`. One failure reaches every step at which a
  statement can fail; two in the first scene of `life` let the second hit what the first left.
* One coupon suffices for the lifecycle: its handlers touch the records of one
  coupon and the group's counter only. The bounds on versions and payments cap the two
  counters that only grow.
* In `batch`, three requests give two in the list behind the one at work; the
  limits 3 and 4 can be exceeded by two or three requests together.
* A pool of three with four addresses lets a replaced connection get a fresh or a
  reused address.
* In `apportion`, two skus of one seller and one of another give every case of a correction
  (within a seller, across sellers, none able to bear it), and three coupons a platform coupon
  and one for each seller. The 11 kinds include one drawn over a year ago, coupons that round up, down and to a tie, that ask for exactly what
  there is and for more, and those that the code never offers.
* In `groups`, `ArgotGap` 1 and time up to 2 put the end of one group before, at and after
  the gap; three edits are a creation of each group and a change between.
* In `quote`, the 6 prices round in each direction with the first sku the cheapest or the
  dearest; ladders have no step, one, several, two of equal height, one without height, one
  with a rate out of range.
* In `onsale`, two activities and one ware are enough for every pair of tests and
  inserts: the test of a ware looks at its own labels only. Three scenes are about activities:
  one request at a time with a label, one activity while time passes, two activities in one
  moment. Four are about the wares of two activities: they overlap (wares are added), one lies
  within the other (wares are deleted), one may be closed, one may be given the time or the label
  of the other. There requests to the admin come one at a time, so one worker and the label
  server are two filers, and one request waits for the label server while another is worked on.
* `draw`, `pool`, `onsale`: deadlock is checked. The other passing runs switch the
  check off because the system may stop there: all requests made or all counters at their bounds,
  no server process, the word read, or the price answered.
* Symmetry is used only where no definition names a worker, user, editor or
  connection, and never in a run with a liveness property.

Every module states its type invariant `TypeOK` (`CouponCode`: `CodeTypeOK`, `OnsaleWares`:
`WaresTypeOK`, `OnsaleQuote`: `QuoteTypeOK`), and all of them are theorems. Only the run `pool`
lists its own. To have TLC check another one, add it to the module's cfg as an INVARIANT; each
holds in the instances above.

### Fairness

* `draw`: weak fairness of each worker thread that has a request (a thread
  runs on; every call in the handler returns, with an error if need be) and of the
  expiry of lock keys (Redis). New requests are not fair.
* `batch`: weak fairness of the server's steps. A dead process is started by hand
  (`run_batch_*.sh` start it once), so `Restart` is not fair and `Taken` ends with the
  server's death.
* The other runs check safety only and state no fairness.

## 4. Proofs

Every invariant, action property and refinement that a passing run checks is also a
theorem, for every value of the constants that satisfies the ASSUMEs: any number of
workers, users, coupons, groups, skus, sellers, jobs and failures. Only the two
liveness properties are left to TLC.

A theorem `Spec => []P` comes from an inductive invariant that implies P; most P are
not inductive themselves. The steps that every proof of a component needs (what a step
of one worker leaves to the others, what a write does to a table) are lemmas, and the
case of each action is proved from them.

### Drawing (`CouponDrawProofs`)

* `TypeCorrect`: `TypeOK` is inductive. `PathOK`: a scene never reaches the other's statements.
* `ClaimsHold`, `OverIssue`: a worker between the count and its write holds a claim that
  the count does not show. `IssueClaims` adds the workers that have passed the test: issued
  coupons and claims together never exceed `max_count` and one for every other worker. A
  worker that passes saw fewer than `max_count`, and every other worker has at most one
  claim; a write turns a claim into a coupon.
* `GrantsHold`, `PerUser`: the same for one user's coupons, where a repeated insert adds one
  for each failure.
* `OwnerFinal`, `TablesAgree`, `ListsAreSound`: `CodeOK` (the coupon a worker writes down is
  there, his user's, and coded once he has passed `fillCode`) and `SeenSound` (a list that
  was read is sound and lacks the new coupon, so that appending keeps it so).
* `WedgeNeedsFault`, `WedgeStays`: `FillerKnown`: unless something failed, a row without a
  code has a worker that is about to set it.
* `OwnersRecorded`: `Recorded`: unless something failed, an owned coupon is in
  `coupon_usercoupons` or in the hands of a worker on his way to put it there.
* `CountsInOrder`: `Counted`: the three counts differ by exactly the workers between the writes.
* `DrawImplements`: in scene "issue" each write is a step of `CouponIssue` or a stutter.
  `AllDrawn` (a row is inserted with its user) and `WalletClaims` (the coupons in a wallet and
  the workers about to add one stay within the user's limit) give the guards of the
  abstract steps.

### Using (`CouponLifecycleProofs`)

* `LifecycleTyped`: `TypeOK`, with what a worker holds at each step.
* `PaymentsAreCounted`: `PayOK`: the payments answered and those about to be answered are
  together no more than `payed_count`.
* `UserHasFrozen`: `FrozeOK`: unless something failed, the order in a row, and so the
  order of whoever has passed the tests, is one that has frozen the coupon and has been told so or
  will be next.
* `LifecycleImplements`: when requests come one at a time, what the one request has read
  still holds when it writes (`SerialOK`: alone, the row and the status fit each other, and
  the tests it has passed are still true). A request takes effect in `CouponLedger` when it
  writes the row.
* `RecordsDoAgree`, `CountIsExact`: `Clean`: with requests one at a time and no failure, the three
  records of a coupon agree or a worker is between the writes; a cached copy is right or
  about to be written; the counter misses at most the payment being counted.

### Batch jobs (`BatchJobsProofs`)

* `BatchTyped`: `TypeOK`.
* `BatchImplements`: what is in the list is the end of what was pushed, and the request at
  work is the one before it (`Lists`); nothing is done for a request that has not been
  started, and the items of one are done in order, each once (`Works`). The steps map to those
  of `BatchQueue`.
* `ExportsBounded`: the rows there and the rows to come of the request at work fit in the limit
  of the codes (`RowsOK`); the rows there and the items outstanding fit in `max_count`, but
  for those of requests that were counted beside others (`Room`).
* `CutShort`: `Sure`: while nothing has failed and no count has left out rows to come, one
  export is outstanding at a time and its rows fit, so the server does not decline it.

### Pools (`ConnectionPoolProofs`)

* `PoolTypeCorrect`, `NeverShared`, `NoneLost`, `AlwaysServed`, from
  `TypeOK /\ Exclusive /\ Conserved /\ HeldWhileBusy`. `HeldWhileBusy` (a handler has a
  connection exactly while it is busy) makes the count of the holders change with the program
  counters. `Served` needs the assumption that there are at least as many connections as handlers.

### Groups and codes (`CouponGroupsProofs`)

* `GroupsTyped`, `CopiesAreTold`, `ArgotsLieApart`, `ArgotsLead`, `DrawTimeIsKept`: the
  invariant says of an editor who is not behind that the argot he asked for is still free,
  and of a copy of a group not overwritten that a version equal to the row's shows the row
  and none is higher. Groups with one argot, neither written untested, are then `ArgotGap`
  apart, so of those found with it all but the drawing one are still to come.
* `DecodeUndoesEncode`, `CodesWellFormed`: a number is the sum of its digits (`DigitSum`);
  digits beyond its width are zero (`NoMoreDigits`), so the letters that stand there can be
  skipped (`Terms`); the first letter says how many (`FirstLetter`), as the limits keep the
  first digit below the sentries.

### Choice and division of coupons (`CouponApportionProofs`, `CentsProofs`)

* `OnlyCoveredHolds`: a share is given by a test of the coupon that is shared, a correction
  by a test of all chosen coupons (`MayBear`); every reduced sku has a chosen coupon that covers it.
* `OfferedOrExplained`: what was listed is what may be used now, but for coupons whose time
  began or ended, or whose year passed, since (`Listed`).
* `SharesAdd`: after each pass, what the parts miss of the whole is at most half a cent for
  each rounding so far (`AfterPlat`, `AfterShop`, `AfterSellers`); a correction takes it away
  unless no covered sku can bear it (`Borne`); paid and saved make up the price throughout (`Priced`).
* `NothingNegative`: while one kind of coupon reduces a price, everything stays between
  nothing and the price (`Within`). A correction of a sku goes to its seller as well, who has room
  for it since he has more of both amounts than the sku (`Leads`).
* `ApportionTyped`: `TypeOK`.
* `CentsProofs` is about sums over finite sets (`Sum` is a fold in an order that is not
  known), rounding (a rounded share is within half a cent) and shares that are rounded one
  by one. Facts about all finite sets are proved by the least size of a counterexample,
  with `WFMin` of the library, which has no operator parameter.

### On-sale activities (`OnsaleProofs`)

* `ActivitiesTyped`, `CreationNamesItsOwn`: slugs are unique, and an activity that is being
  created has the largest id, no slug yet, and no one else who could write it but to close it
  (`NewRow`): so the largest id that is read is the creator's.
* `NamelessBlocksForGood`: an action property from the same invariant.
* `RunsWhenApproved`: `Decided`: an activity that is online and has not ended was approved
  last, by a page or by its creation.
* `LabelHasOneActivity`: when requests come one at a time, the label a worker has tested is
  still free when he writes it (`Serial`).
* `WaresTyped`, `WaresSoldOnce`: the filers know the times of the activity of their label
  while that is open (`TimesOK`), a ware about to be inserted has passed the test against every
  label that was found (`TestedOK`), and of two open activities with a ware in common one
  neither begins nor ends within the other (`Apart`). All three are about the activities that
  were not moved: a request about activities only closes those (`Closes`), which takes nothing
  from a test that was passed.
* `QuoteTyped`, `QuoteAdds`, `QuoteIsFair`, `NextStepIsNext`: nothing is taken off before
  the division (`Whole`); the first sku of an activity takes the rest, so its skus save what the
  activity takes off, and the sum over all skus is the sum over the activities; a share
  misses its due by half a cent, so the first sku by half a cent for each of the others. With
  finitely many steps the lowest one above is the next. An activity without skus takes
  something off only with a step of height 0 (`Chosen`).

### Assumptions

The ASSUMEs of the modules ask for finite sets of workers, coupons, groups, skus and
requests; natural numbers for limits; values that mean "none" and are no member of
what they stand beside; as many connections as handlers (the servers are configured so); skus in
the order of their sellers, as the code's maps are; scenes that are well formed (in
`OnsaleActivity`, `Proper`; in `CouponLifecycle`, a cached list that is complete when requests come one
at a time, as a list that has been filled is). TLC evaluates all of them in every run.

### What the theorems do not say

`TypeCorrect`, `LifecycleTyped`, `BatchTyped`, `GroupsTyped`, `CodesWellFormed`,
`ApportionTyped`, `ActivitiesTyped`, `WaresTyped` and `QuoteTyped` are types, `ClaimsHold`, `GrantsHold`
and `ArgotsLieApart` the inductive parts behind `OverIssue`, `PerUser` and `ArgotsLead`: no run
lists them.

Only model-checked: `RequestsAnswered` and `Taken`, which are liveness under fairness and
outside the prover's reach, and the violations. The bounds of the runs (`MaxFaults`, `MaxEdits`,
`MaxTime` and the like) are constants of the specifications, so the theorems hold for each
value of them. The mapping from the code to the modules is nobody's theorem; it is in `PROJECT.json`.

## 5. What the code does not do as one might expect

Runs that end in a violation, each of a comment in the code:

* **Two users draw the same exported code** (`draw_export_race`). The row is tested
  before the lock, the lock is per user, and the update of `user_id` has no
  condition (EC handler lines 606 to 673).
* **Two orders freeze one coupon** (`life_two_orders`). `freezeCoupon` reads the row
  and the status and writes them later, without lock or condition (lines 1048 to 1140).
* **A failed reconnection leaves an open connection without context**
  (`pool_reconnect`). `initialize()` leaves `connected` true over a NULL `_pRedis`
  (`base/rediswrapper.h` lines 56 to 65).

What the models do as well, against a comment of the code, with no run of its own (in
brackets the property that says what is left of it):

* A payment is given back: `rollbackCoupon` asks whether the coupon is frozen (line 891) and
  writes later without a condition; a payment answered in between is undone, and stays
  counted. Likewise two payments handled at once both count (lines 1318 to 1362): a client
  that sends one again can do it (`PaymentsCounted`).
* Two groups have one argot in one time: `verifyArgot` is asked before the row is written,
  without a lock, and ignores whether its select succeeded (admin handler line 707) (`ArgotLeads`).
* The time of drawing is shortened: `updateOnline` compares with the end it has read (admin
  handler line 338) (`DrawTimeKept`).
* An order saves more than its skus: a running activity whose wares went to another one gets
  an amount of 0 by being looked up (`onsale/OnsaleECServiceHandler.hpp` line 378); a step
  without a height is then reached, and its favor summed (lines 535 to 538) (`SharesAddUp`).
* An activity is created approved: `createOnsaleGroup` stores the `verify_status` it was sent,
  without the tests of `updateOnsaleGroup` (`onsale/OnsaleAdminServiceHandler.hpp` lines 1373
  to 1399) (`RunsAsDecided`).
* Two activities have one label: it is counted and used in two statements (lines 1383 to
  1399), and `query_one` throws for the label ever after (`LabelUsedOnce`).
* A ware is stored for two activities that overlap: test and insert are separate statements
  of two processes (`onsale/OnsaleLabelServer.cc` lines 137 to 175) (`OneSale`).

Bounds that are weaker than a reader of the code may think, in passing runs:

* The group may issue `max_count` plus one coupon for every other worker thread, and
  a user may draw `can_draw_count` plus as many: the tests come before the lock.
* Two users who draw at once may collide on the empty code, and one is answered
  with an error. After a failure between the insert and the update that sets the
  code, the group never issues another coupon (`WedgeIsPermanent`).
* The creation of a missing coupon table in `drawCoupon` is not reachable for a missing table,
  since counting in it fails first. The same holds for the export server.
* A failed insert into `coupon_usercoupons` may go unnoticed (`CouponHelper.h` line 391):
  the user is told OK about a coupon that is not in his wallet.
* A stale cached copy, as concurrent requests leave it, makes pay and rollback refuse a
  coupon that is frozen. Of concurrent requests `UserFroze` and `PaymentsCounted` (a count that
  is too high does not break it) are what remains; `RecordsAgree`, `CountExact` and
  `CouponLedger` are about requests one at a time.
* `batchDispatch` answers the number of users of the request, whatever their draws
  answer later. `batchExport` ignores a failed count and takes 0; the export server
  compares with the limit of the codes but not with `max_count`. A job whose RPUSH was executed
  and whose reply was lost is answered FAILED and done all the same.

In the choice and division of coupons (EC handler):

* A platform coupon and a shop coupon on the same wares may take off more than the wares
  cost: each fits alone (`NeverNegative`), and nothing tests them together.
* A coupon with a rate (`favor_type` other than 0), and one that gives more than it asks for,
  is neither offered nor explained. One whose time begins between the two calls is in
  neither answer.
* A coupon drawn over 365 days ago is never offered (`getUsableCoupons` selects by
  `create_time`, line 2315) and not explained either if nothing else is against it:
  `getNotUsableCoupons` takes all coupons of the user and knows of no such reason.
* The comments at lines 2998 and 3078 allow a correction of 0.05; the constant
  `INACCURACY_UPLIMIT` is 0.5 (`CouponConst.h` line 23), besides a rate of 0.05.
* A lookup of an empty set answers -1 like a failed statement (`CouponHelper.h` lines 183
  and 472). So a user all of whose coupons are ruled out is answered
  `MYSQL_EXECUTE_ERROR` (lines 1967, 2404) instead of an empty list.

In coupon groups (admin handler):

* `checkArgot` refuses an argot as soon as a second group with it is planned within 180
  days (EC handler line 376), although the first still draws.
* Draws and payments between the load and the save of a page are uncounted (line 1173 and
  after), and two pages saved over each other give one version to two rows (line 1197): users
  keep seeing the copy of the first. `VersionTells` says nothing of such groups.
* The limits of 500 are passed by two creations at once, by updates that do not test
  them (line 974), and when the select of the groups fails, which is ignored (lines 962, 1127).
* `unsigned insert_id < 0` is never true (line 1057): a failed insert is answered OK. An insert
  sent again after a lost connection makes two groups (`base/mysqlwrapper.h` line 396).

In on-sale activities (admin handler of `onsale/`):

* A creation that dies before the slug is written leaves a row with slug `''`, and no
  activity can be created any more (`NamelessBlocks`); an old page written back can do the
  same.
* An approval is tested against the start and the steps and written later:
  `delStep` may take the last step in between, and an approved activity may lose its steps.
* Saving a page undoes an approval, a refusal or an `offline` of the meantime; naming a new
  activity likewise, with the status it was created with. What remains is `RunsAsDecided`.
* The test for other activities of the same time asks whether the new one begins or ends
  within another. One that contains another, or has exactly its times, is not noticed.
* A select of the test that fails is taken for no conflict, and an item is stored under its own
  label but tested for that of the request (line 911). `updateOnsaleGroup` gives an activity a
  new time or label without testing its wares again (line 1532). `OneSale` says what holds
  apart from these.
* `createWareLabel` answers the label with the largest id (line 652), which two creations at
  once may both take for theirs; labels have no unique column as slugs are.
* Banning a ware deletes its rows first and puts it on the black list afterwards (lines 846 to
  866); a sweep of the label server that reads the lists in between (line 205) files it again.
* `delWareLabelWares` of a label for all wares removes the ware from the white list (line
  998) and not from the total list, so the next sweep files it again.
* `addStep` reports a rate of ten or more and stores it all the same, and so a step without
  a height (lines 1242, 1262); the EC server then refuses every order that reaches it.

In the prices of on-sale activities (EC handler of `onsale/`):

* The rest of the rounding goes to the first sku, which may then cost more than its price.
* A discount may exceed the price of the order (`favor_credit` is compared with nothing).
  An activity whose skus cost nothing divides by zero. Sku ids given twice are not merged.
* A ware with several labels belongs to the activity of one of them, the last read.

## 6. Plan

Done: drawing, lifecycle, batch jobs, pools, codes, choice and division of coupons, coupon
groups, activities, their wares and their prices, in the order of their weight.

Proved: every safety property and every refinement that a passing run checks, and the types
(section 4).

Next: shorter proofs where two modules argue alike (tables that grow by a row, workers that
leave each other's state alone).

Not modelled, and not planned: the read-only queries and the push server (they change
nothing except the Redis copies, which `CouponLifecycle` refills); ware labels of coupon
groups and the default configuration (rows of their own, written whole); `createWareLabel` and
`updateWareLabel` of the on-sale server (the same), its presents and `checkCacheNameList` (which writes a list that only a page shows);
formatting of SQL and JSON; start-up, signals, CGI; generated and vendored code, which is most
of the lines of the repository; the examples; the producer half of redismq, which
only a test uses.

## 7. Running

    tlc -workers 2 -config Draw.cfg MCCouponDraw
    tlapm CouponDrawProofs.tla

| Module | Configurations |
|---|---|
| `MCCouponDraw` | `Draw`, `DrawExportRace` |
| `MCCouponLifecycle` | `Life`, `LifeTwoOrders` |
| `MCConnectionPool` | `Pool`, `PoolReconnect` |
| `MCBatchJobs` | `Batch` |
| `MCCouponCode` | `Codes` |
| `MCCouponApportion` | `Apportion` |
| `MCCouponGroups` | `Groups` |
| `MCOnsaleQuote` | `Quote` |
| `MCOnsaleWares` | `Onsale` |

The longest (`onsale`, `apportion`) take about three minutes. The modules with proofs are `CouponDrawProofs`,
`CouponLifecycleProofs`, `BatchJobsProofs`, `ConnectionPoolProofs`, `CouponGroupsProofs`,
`CentsProofs`, `CouponApportionProofs` and `OnsaleProofs`; from nothing the longest
(`OnsaleProofs`, `CouponApportionProofs`, `CouponLifecycleProofs`) take several minutes.

Definitions whose names end in an underscore and a word (`Scaled_OneToHundred`,
`Replaced_Counts`, ...) are deliberate faults: each, put in the place of the definition
it is named after, makes one property fail, which shows that the property depends on
that definition.
