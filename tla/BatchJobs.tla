----------------------------- MODULE BatchJobs ------------------------------
(***************************************************************************)
(* Batch jobs of the coupon system.  The admin service checks a            *)
(* batchDispatch or batchExport request and appends it to a Redis list;    *)
(* a batch server blocks on the list with BLPOP through redismq and works  *)
(* on one request at a time:                                               *)
(*                                                                         *)
(*   "dispatch"  draws a coupon of the group for every user of a list, by  *)
(*               calls of drawCoupon (module CouponDraw);                  *)
(*   "export"    generates coupon rows without a user, each by an insert   *)
(*               and an update that sets its code.                         *)
(*                                                                         *)
(* The two servers share nothing, so a behaviour has one of them.  BLPOP   *)
(* removes a request before it is worked on and nothing puts it back.      *)
(***************************************************************************)
EXTENDS Integers, Sequences, FiniteSets

CONSTANTS
  Requests,     \* requests of the administrators
  MaxSize,      \* bound on the items of a request
  max_count,    \* column max_count of the group
  UserLimit,    \* most users of a dispatch (1000)
  CodeLimit,    \* most coupons of a group (10000000, the limit of CouponCode)
  MaxFaults,    \* bound on the failures of a behaviour
  None

ASSUME BatchAssumption ==
  /\ IsFiniteSet(Requests)
  /\ {MaxSize, max_count, UserLimit, CodeLimit, MaxFaults} \subseteq Nat
  /\ None \notin Requests

VARIABLES
  kind,       \* "dispatch" or "export"
  size,       \* size[r] = number of users of r, or of coupons
  table,      \* does the coupon table of the group exist?
  step,       \* step[r] = where the admin handler of r is
  answer,     \* answer[r] = what it answered
  queue,      \* the Redis list
  accepted,   \* history: every request that was pushed
  link,       \* state of the server's redismq connection and callback
  job,        \* the request that the server has
  next,       \* next[r] = items of r attempted (the loop variable)
  work,       \* coupons drawn or rows inserted, each <<request, item>>
  coded,      \* export: the rows that have their code
  unsure,     \* history: requests whose count left out rows yet to come
  faults      \* failures so far

admin == <<step, answer, accepted, unsure>>
given == <<kind, size, table>>
vars == <<given, admin, queue, link, job, next, work, coded, faults>>

\* "down": to be connected; "waiting": BLPOP sent; "reply": a request on its
\* way; "busy" and "coding": in the callback; "dead": no server process.
Links == {"dead", "down", "waiting", "reply", "busy", "coding"}
Answers == {"none", "OK", "refused", "failed"}

TypeOK ==
  /\ kind \in {"dispatch", "export"}
  /\ size \in [Requests -> Int]
  /\ table \in BOOLEAN
  /\ step \in [Requests -> {"check", "push", "done"}]
  /\ answer \in [Requests -> Answers]
  /\ queue \in Seq(Requests) /\ accepted \in Seq(Requests)
  /\ link \in Links
  /\ job \in Requests \cup {None}
  /\ job # None <=> link \in {"reply", "busy", "coding"}
  /\ next \in [Requests -> Nat]
  /\ work \in Seq(Requests \X Nat)
  /\ coded \in Nat
  /\ unsure \subseteq Requests
  /\ faults \in 0..MaxFaults

-----------------------------------------------------------------------------
(* Mutants: definitions below with a bug a change could bring in. *)
Popped_Peeks(q) == q
More_OneShort(r) == next[r] + 1 < size[r]
FitsGroup_NewOnly(r, count) == size[r] <= max_count
Reconnects_Never == FALSE

-----------------------------------------------------------------------------
(* The tests and the data of the handlers. *)

\* select count(*) of the coupon table; a failed select counts 0
Rows == Len(work)

FitsCode(r, count) == count + size[r] <= CodeLimit /\ size[r] # 0
FitsGroup(r, count) == count + size[r] <= max_count

\* batchDispatch and batchExport let the request through.
Acceptable(r, count) ==
  IF kind = "dispatch"
  THEN size[r] \in 1..UserLimit /\ size[r] <= max_count
  ELSE FitsCode(r, count) /\ FitsGroup(r, count)

InList(r) == \E i \in DOMAIN queue : queue[i] = r

\* Requests that were let through and may still add rows.
Outstanding == {r \in Requests : step[r] = "push" \/ InList(r) \/ job = r}

\* What BLPOP leaves, and the loop over the items.
Popped(q) == Tail(q)
More(r) == next[r] < size[r]
Following(n) == n + 1
Item(r) == <<r, next[r] + 1>>

\* The unique key of the table admits one row whose code is ''.
CodeMissing == kind = "export" /\ coded < Rows

-----------------------------------------------------------------------------
Fault == faults < MaxFaults /\ faults' = faults + 1
NoFault == UNCHANGED faults

\* rmq_blpop_cb: after the callback the next BLPOP is sent.
Return == link' = "waiting" /\ job' = None

Init ==
  /\ kind \in {"dispatch", "export"}
  /\ size \in [Requests -> IF kind = "dispatch" THEN 0..MaxSize ELSE -1..MaxSize]
  /\ table \in (IF kind = "dispatch" THEN {TRUE} ELSE BOOLEAN)
  /\ step = [r \in Requests |-> "check"]
  /\ answer = [r \in Requests |-> "none"]
  /\ queue = << >> /\ accepted = << >>
  /\ link = "down" /\ job = None
  /\ next = [r \in Requests |-> 0]
  /\ work = << >> /\ coded = 0
  /\ unsure = {}
  /\ faults = 0

(***************************************************************************)
(* The admin service, batchDispatch and batchExport.                       *)
(***************************************************************************)

LetThrough(r, count) ==
  /\ step[r] = "check"
  /\ Acceptable(r, count)
  /\ step' = [step EXCEPT ![r] = "push"]
  /\ UNCHANGED <<given, answer, queue, accepted, link, job, next, work, coded>>

\* The rows are counted while other requests may be in the list.
Check(r) ==
  /\ LetThrough(r, Rows)
  /\ unsure' = IF Outstanding = {} THEN unsure ELSE unsure \cup {r}
  /\ NoFault

\* batchExport does not look at the result of its select.
CountUnread(r) ==
  /\ kind = "export"
  /\ LetThrough(r, 0)
  /\ unsure' = unsure \cup {r}
  /\ Fault

\* Out of range, or any other check (group, scene type) says no.
Refuse(r) ==
  /\ step[r] = "check"
  /\ step' = [step EXCEPT ![r] = "done"]
  /\ answer' = [answer EXCEPT ![r] = "refused"]
  /\ NoFault
  /\ UNCHANGED <<given, queue, accepted, unsure, link, job, next, work, coded>>

DoPush(r) == queue' = Append(queue, r) /\ accepted' = Append(accepted, r)

Push(r) ==
  /\ step[r] = "push"
  /\ DoPush(r)
  /\ step' = [step EXCEPT ![r] = "done"]
  /\ answer' = [answer EXCEPT ![r] = "OK"]
  /\ NoFault
  /\ UNCHANGED <<given, unsure, link, job, next, work, coded>>

\* An error is answered, but Redis may have executed the RPUSH.
PushFails(r) ==
  /\ step[r] = "push"
  /\ Fault
  /\ DoPush(r) \/ UNCHANGED <<queue, accepted>>
  /\ step' = [step EXCEPT ![r] = "done"]
  /\ answer' = [answer EXCEPT ![r] = "failed"]
  /\ UNCHANGED <<given, unsure, link, job, next, work, coded>>

(***************************************************************************)
(* redismq.                                                                *)
(***************************************************************************)

\* The timer and the disconnect callback connect again; then BLPOP is sent.
Reconnects == link = "down"

Connect ==
  /\ Reconnects
  /\ link' = "waiting"
  /\ NoFault
  /\ UNCHANGED <<given, admin, queue, job, next, work, coded>>

Pop ==
  /\ link = "waiting"
  /\ queue # << >>
  /\ link' = "reply"
  /\ job' = Head(queue)
  /\ queue' = Popped(queue)
  /\ NoFault
  /\ UNCHANGED <<given, admin, next, work, coded>>

\* The connection breaks: a reply on its way is lost.
Disconnect ==
  /\ link \in {"waiting", "reply"}
  /\ Fault
  /\ link' = "down" /\ job' = None
  /\ UNCHANGED <<given, admin, queue, next, work, coded>>

\* The process dies, for instance by an assertion on an error reply.
Die ==
  /\ link # "dead"
  /\ Fault
  /\ link' = "dead" /\ job' = None
  /\ UNCHANGED <<given, admin, queue, next, work, coded>>

Restart ==
  /\ link = "dead"
  /\ link' = "down"
  /\ NoFault
  /\ UNCHANGED <<given, admin, queue, job, next, work, coded>>

(***************************************************************************)
(* The callbacks.  Whatever they throw is caught and logged.               *)
(***************************************************************************)

\* The export server counts again, but only up to the limit of the codes.
Startable == kind = "dispatch" \/ (table /\ FitsCode(job, Rows))

Start ==
  /\ link = "reply"
  /\ Startable
  /\ link' = "busy"
  /\ NoFault
  /\ UNCHANGED <<given, admin, queue, job, next, work, coded>>

Decline ==
  /\ link = "reply"
  /\ ~Startable
  /\ Return
  /\ NoFault
  /\ UNCHANGED <<given, admin, queue, next, work, coded>>

\* drawCoupon answers OK, or an error that is only logged.
Draw ==
  /\ link = "busy" /\ kind = "dispatch"
  /\ More(job)
  /\ work' \in {work, Append(work, Item(job))}
  /\ next' = [next EXCEPT ![job] = Following(@)]
  /\ NoFault
  /\ UNCHANGED <<given, admin, queue, link, job, coded>>

InsertRow ==
  /\ link = "busy" /\ kind = "export"
  /\ More(job)
  /\ ~CodeMissing
  /\ work' = Append(work, Item(job))
  /\ link' = "coding"
  /\ NoFault
  /\ UNCHANGED <<given, admin, queue, job, next, coded>>

\* A row without code is left: every insert breaks the unique key.
InsertConflict ==
  /\ link = "busy" /\ kind = "export"
  /\ More(job)
  /\ CodeMissing
  /\ Return
  /\ NoFault
  /\ UNCHANGED <<given, admin, queue, next, work, coded>>

FillCode ==
  /\ link = "coding"
  /\ coded' = coded + 1
  /\ next' = [next EXCEPT ![job] = Following(@)]
  /\ link' = "busy"
  /\ NoFault
  /\ UNCHANGED <<given, admin, queue, job, work>>

Finish ==
  /\ link = "busy"
  /\ ~More(job)
  /\ Return
  /\ NoFault
  /\ UNCHANGED <<given, admin, queue, next, work, coded>>

\* An exception: no connection to the EC service or to MySQL, the group is off
\* line, a call or a statement fails; it may have been executed.
Throw ==
  /\ link \in {"reply", "busy", "coding"}
  /\ Fault
  /\ \/ UNCHANGED <<work, coded>>
     \/ /\ link = "busy" /\ More(job) /\ ~CodeMissing
        /\ work' = Append(work, Item(job))
        /\ UNCHANGED coded
     \/ /\ link = "coding"
        /\ coded' = coded + 1
        /\ UNCHANGED work
  /\ Return
  /\ UNCHANGED <<given, admin, queue, next>>

-----------------------------------------------------------------------------
AdminStep(r) == Check(r) \/ CountUnread(r) \/ Refuse(r) \/ Push(r) \/ PushFails(r)

ServerStep ==
  \/ Connect \/ Pop \/ Start \/ Decline \/ Draw
  \/ InsertRow \/ InsertConflict \/ FillCode \/ Finish

Next ==
  \/ \E r \in Requests : AdminStep(r)
  \/ ServerStep
  \/ Disconnect \/ Die \/ Restart \/ Throw

Spec == Init /\ [][Next]_vars

\* A running server does its next step; nobody has to start it again.
FairSpec == Spec /\ WF_vars(ServerStep)

-----------------------------------------------------------------------------
(***************************************************************************)
(* Properties.                                                             *)
(***************************************************************************)

\* The list, the server and its callbacks keep the promise of BatchQueue: in
\* order, one at a time, no item twice, through disconnections and restarts.
Queue == INSTANCE BatchQueue WITH
  taken <- Len(accepted) - Len(queue), open <- job # None

Implements == Queue!Spec

\* Accepted requests that the server has left before their last item.
Cut == {r \in Requests : answer[r] = "OK" /\ ~InList(r) /\ job # r /\ next[r] < size[r]}

\* An accepted dispatch is cut short only by a failure, one for each; an export
\* is not cut short unless something failed, the table is missing, or requests
\* that were counted together exceed the limit of the codes.
CutNeedsFault ==
  /\ kind = "dispatch" => Cardinality(Cut) <= faults
  /\ kind = "export" /\ table /\ Cut # {} => faults > 0 \/ unsure # {}

\* The items of the requests of R.
Items(R) == UNION {{r} \X (1..size[r]) : r \in R}

\* Exports exceed max_count only by items of requests that were counted while
\* others were outstanding, because only batchExport compares with it and the rows
\* come later; the server's own count keeps all within the limit of the codes.
ExportBounded ==
  kind = "export" =>
    /\ Rows <= max_count + Cardinality(Items(unsure))
    /\ Rows <= CodeLimit
    /\ Rows <= coded + 1

\* A request in the list is taken while the server runs: the redismq callbacks
\* always send the next BLPOP and connect again.
Taken == \A r \in Requests : InList(r) ~> ~InList(r) \/ link = "dead"

=============================================================================
