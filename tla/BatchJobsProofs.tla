-------------------------- MODULE BatchJobsProofs ---------------------------
(***************************************************************************)
(* Theorems about BatchJobs, for any number of requests, users and         *)
(* coupons: accepted jobs are cut short only by failures, the exports      *)
(* stay within their limits, and the list, the server and its callbacks    *)
(* implement BatchQueue.                                                   *)
(***************************************************************************)
EXTENDS BatchJobs, FiniteSetTheorems, TLAPS

(***************************************************************************)
(* Lists.                                                                  *)
(***************************************************************************)

\* Appending to a list.
LEMMA AppendOne ==
  ASSUME NEW T, NEW s \in Seq(T), NEW x \in T
  PROVE  /\ Append(s, x) \in Seq(T)
         /\ Len(Append(s, x)) = Len(s) + 1
         /\ DOMAIN Append(s, x) = 1..(Len(s) + 1)
         /\ \A i \in DOMAIN s : Append(s, x)[i] = s[i]
         /\ Append(s, x)[Len(s) + 1] = x
  OBVIOUS

\* Taking the first element off a list.
LEMMA TakeOne ==
  ASSUME NEW T, NEW s \in Seq(T), s # << >>
  PROVE  /\ Tail(s) \in Seq(T) /\ Head(s) \in T /\ Head(s) = s[1]
         /\ Len(Tail(s)) = Len(s) - 1 /\ Len(s) \in Nat \ {0}
         /\ DOMAIN Tail(s) = 1..(Len(s) - 1)
         /\ \A i \in DOMAIN Tail(s) : Tail(s)[i] = s[i + 1]
  OBVIOUS

-----------------------------------------------------------------------------
(* Types. *)

LEMMA Bounds ==
  /\ MaxSize \in Nat /\ max_count \in Nat /\ UserLimit \in Nat /\ CodeLimit \in Nat
  /\ MaxFaults \in Nat /\ None \notin Requests /\ IsFiniteSet(Requests)
  BY BatchAssumption

LEMMA InitTyped == Init => TypeOK
<1> SUFFICES ASSUME Init PROVE TypeOK
  OBVIOUS
<1>1. size \in [Requests -> Int]
  <2>1. 0..MaxSize \subseteq Int /\ -1..MaxSize \subseteq Int
    BY Bounds
  <2>2. CASE kind = "dispatch"
    BY <2>1, <2>2 DEF Init
  <2>3. CASE kind # "dispatch"
    BY <2>1, <2>3 DEF Init
  <2>4. QED
    BY <2>2, <2>3
<1>2. << >> \in Seq(Requests) /\ << >> \in Seq(Requests \X Nat)
  OBVIOUS
<1>3. table \in BOOLEAN
  BY DEF Init
<1>4. faults \in 0..MaxFaults
  BY Bounds DEF Init
<1>5. QED
  BY <1>1, <1>2, <1>3, <1>4, Bounds DEF Init, TypeOK, Answers, Links

LEMMA AdminTyped ==
  ASSUME TypeOK, NEW r \in Requests, AdminStep(r)
  PROVE  TypeOK'
<1>0. faults' \in 0..MaxFaults
  BY Bounds DEF TypeOK, AdminStep, Check, CountUnread, Refuse, Push, PushFails, Fault, NoFault
<1>1. CASE Refuse(r)
  BY <1>0, <1>1 DEF TypeOK, Refuse, given, Answers
<1>6. CASE Check(r) \/ CountUnread(r)
  <2>1. unsure' \subseteq Requests
    BY <1>6 DEF TypeOK, Check, CountUnread
  <2>2. QED
    BY <1>0, <1>6, <2>1 DEF TypeOK, Check, CountUnread, LetThrough, given
<1>2. Append(queue, r) \in Seq(Requests) /\ Append(accepted, r) \in Seq(Requests)
  BY DEF TypeOK
<1>3. CASE Push(r)
  BY <1>2, <1>3 DEF TypeOK, Push, DoPush, NoFault, given, Answers
<1>4. CASE PushFails(r)
  <2>1. queue' \in Seq(Requests) /\ accepted' \in Seq(Requests)
    BY <1>2, <1>4 DEF TypeOK, PushFails, DoPush
  <2>2. QED
    BY <1>0, <1>4, <2>1 DEF TypeOK, PushFails, given, Answers
<1>5. QED
  BY <1>1, <1>3, <1>4, <1>6 DEF AdminStep

LEMMA ServerTyped ==
  ASSUME TypeOK, ServerStep \/ Disconnect \/ Die \/ Restart \/ Throw
  PROVE  TypeOK'
<1>1. CASE Connect \/ Disconnect \/ Die \/ Restart
  BY <1>1, BatchAssumption
     DEF TypeOK, Connect, Disconnect, Die, Restart, Fault, NoFault, given, admin, Links, Reconnects
<1>2. CASE Pop
  BY <1>2, TakeOne, BatchAssumption DEF TypeOK, Pop, Popped, NoFault, given, admin, Links
<1>3. CASE Start \/ Decline \/ InsertConflict \/ Finish
  BY <1>3, BatchAssumption
     DEF TypeOK, Start, Decline, InsertConflict, Finish, Return, NoFault, given, admin, Links
<1>4. link = "busy" => Append(work, Item(job)) \in Seq(Requests \X Nat)
  <2> SUFFICES ASSUME link = "busy" PROVE Append(work, Item(job)) \in Seq(Requests \X Nat)
    OBVIOUS
  <2>1. job \in Requests /\ next[job] + 1 \in Nat
    BY Bounds DEF TypeOK
  <2>2. Item(job) \in Requests \X Nat
    BY <2>1 DEF Item
  <2>3. QED
    BY <2>2 DEF TypeOK
<1>9. job \in Requests => [next EXCEPT ![job] = Following(@)] \in [Requests -> Nat]
  BY DEF TypeOK, Following
<1>5. CASE Draw
  <2>1. job \in Requests /\ next' \in [Requests -> Nat]
    BY <1>5, <1>9, Bounds DEF Draw, TypeOK
  <2>2. work' \in Seq(Requests \X Nat)
    BY <1>4, <1>5 DEF Draw, TypeOK
  <2>3. QED
    BY <1>5, <2>1, <2>2 DEF TypeOK, Draw, NoFault, given, admin
<1>10. CASE InsertRow
  BY <1>4, <1>10 DEF TypeOK, InsertRow, NoFault, given, admin, Links
<1>6. CASE FillCode
  <2>1. job \in Requests /\ next' \in [Requests -> Nat]
    BY <1>6, <1>9, Bounds DEF FillCode, TypeOK
  <2>2. QED
    BY <1>6, <2>1 DEF TypeOK, FillCode, NoFault, given, admin, Links
<1>7. CASE Throw
  <2>0. faults' \in 0..MaxFaults
    BY <1>7, Bounds DEF TypeOK, Throw, Fault
  <2>3. work' = work \/ (link = "busy" /\ work' = Append(work, Item(job)))
    BY <1>7 DEF Throw
  <2>4. coded' = coded \/ coded' = coded + 1
    BY <1>7 DEF Throw
  <2>5. work \in Seq(Requests \X Nat) /\ coded \in Nat
    BY DEF TypeOK
  <2>6. work' \in Seq(Requests \X Nat)
    BY <1>4, <2>3, <2>5
  <2>1. work' \in Seq(Requests \X Nat) /\ coded' \in Nat
    BY <2>4, <2>5, <2>6
  <2>2. QED
    BY <1>7, <2>0, <2>1 DEF TypeOK, Throw, Return, given, admin, Links
<1>8. QED
  BY <1>1, <1>2, <1>3, <1>5, <1>6, <1>7, <1>10 DEF ServerStep

LEMMA StutterTyped == TypeOK /\ UNCHANGED vars => TypeOK'
  BY DEF TypeOK, vars, given, admin

LEMMA NextTyped == TypeOK /\ [Next]_vars => TypeOK'
  BY AdminTyped, ServerTyped, StutterTyped DEF Next

\* The admin handlers, the list and the server keep their types.
THEOREM BatchTyped == Spec => []TypeOK
  BY InitTyped, NextTyped, PTL DEF Spec

-----------------------------------------------------------------------------
(***************************************************************************)
(* The list.  A request is pushed once; what is in the list is the end of  *)
(* what was pushed, and the request at work is the one before it.          *)
(***************************************************************************)

\* How many requests have been taken out.
Out == Len(accepted) - Len(queue)

Lists ==
  /\ \A i, j \in DOMAIN accepted : accepted[i] = accepted[j] => i = j
  /\ \A i \in DOMAIN accepted : step[accepted[i]] = "done"
  /\ Len(queue) <= Len(accepted)
  /\ \A i \in DOMAIN queue : queue[i] = accepted[Out + i]
  /\ job # None => Out > 0 /\ job = accepted[Out]

\* Steps of the admin before a push, and of the server after a pop.
LEMMA ListsKept ==
  ASSUME TypeOK, Lists, UNCHANGED <<accepted, queue>>, job' \in {job, None},
         \A r \in Requests : step[r] = "done" => step'[r] = "done"
  PROVE  Lists'
<1>1. \A i \in DOMAIN accepted : accepted[i] \in Requests
  BY DEF TypeOK
<1>2. Out' = Out
  BY DEF Out
<1>3. QED
  BY <1>1, <1>2 DEF Lists

LEMMA ListsPushed ==
  ASSUME TypeOK, Lists, NEW r \in Requests, step[r] = "push", DoPush(r),
         step' = [step EXCEPT ![r] = "done"], job' = job
  PROVE  Lists'
<1>1. /\ Len(accepted) \in Nat /\ Len(queue) \in Nat
      /\ DOMAIN accepted = 1..Len(accepted) /\ DOMAIN queue = 1..Len(queue)
      /\ \A i \in DOMAIN accepted : accepted[i] \in Requests
  BY DEF TypeOK
<1>2. /\ Len(accepted') = Len(accepted) + 1 /\ DOMAIN accepted' = 1..(Len(accepted) + 1)
      /\ \A i \in DOMAIN accepted : accepted'[i] = accepted[i]
      /\ accepted'[Len(accepted) + 1] = r
  BY AppendOne DEF TypeOK, DoPush
<1>3. /\ Len(queue') = Len(queue) + 1 /\ DOMAIN queue' = 1..(Len(queue) + 1)
      /\ \A i \in DOMAIN queue : queue'[i] = queue[i]
      /\ queue'[Len(queue) + 1] = r
  BY AppendOne DEF TypeOK, DoPush
<1>4. \A i \in DOMAIN accepted : accepted[i] # r
  BY DEF Lists
<1>5. \A i \in DOMAIN accepted' : i \in DOMAIN accepted \/ i = Len(accepted) + 1
  BY <1>1, <1>2
<1>6. \A i \in DOMAIN queue' : i \in DOMAIN queue \/ i = Len(queue) + 1
  BY <1>1, <1>3
<1>7. Out' = Out
  BY <1>1, <1>2, <1>3 DEF Out
<1>8. \A i, j \in DOMAIN accepted' : accepted'[i] = accepted'[j] => i = j
  BY <1>2, <1>4, <1>5 DEF Lists
<1>9. \A i \in DOMAIN accepted' : step'[accepted'[i]] = "done"
  <2>1. step'[r] = "done" /\ \A q \in Requests : step[q] = "done" => step'[q] = "done"
    BY DEF TypeOK
  <2>2. \A i \in DOMAIN accepted : step[accepted[i]] = "done"
    BY DEF Lists
  <2>3. QED
    BY <1>1, <1>2, <1>5, <2>1, <2>2
<1>10. \A i \in DOMAIN queue' : queue'[i] = accepted'[Out + i]
  <2>1. ASSUME NEW i \in DOMAIN queue PROVE queue'[i] = accepted'[Out + i]
    <3>1. Out + i \in DOMAIN accepted
      BY <1>1 DEF Out, Lists
    <3>2. QED
      BY <1>2, <1>3, <3>1 DEF Lists
  <2>2. Out + (Len(queue) + 1) = Len(accepted) + 1
    BY <1>1 DEF Out
  <2>3. QED
    BY <1>2, <1>3, <1>6, <2>1, <2>2
<1>11. job' # None => Out > 0 /\ job' = accepted'[Out]
  <2>1. job # None => Out \in DOMAIN accepted
    BY <1>1 DEF Lists, Out
  <2>2. QED
    BY <1>2, <2>1 DEF Lists
<1>12. QED
  BY <1>1, <1>2, <1>3, <1>7, <1>8, <1>9, <1>10, <1>11 DEF Lists

LEMMA ListsPopped ==
  ASSUME TypeOK, Lists, Pop
  PROVE  /\ Lists' /\ Out' = Out + 1
         /\ job' = accepted[Out + 1] /\ Out + 1 \in DOMAIN accepted
<1>0. queue \in Seq(Requests) /\ queue # << >> /\ UNCHANGED <<accepted, step>>
  BY DEF TypeOK, Pop, admin
<1>1. /\ Len(accepted) \in Nat /\ DOMAIN accepted = 1..Len(accepted)
      /\ DOMAIN queue = 1..Len(queue)
  BY DEF TypeOK
<1>2. /\ job' = queue[1] /\ Len(queue') = Len(queue) - 1 /\ Len(queue) \in Nat \ {0}
      /\ DOMAIN queue' = 1..(Len(queue) - 1)
      /\ \A i \in DOMAIN queue' : queue'[i] = queue[i + 1]
  BY <1>0, TakeOne DEF Pop, Popped
<1>3. Out' = Out + 1 /\ Out + 1 \in DOMAIN accepted /\ Out >= 0
  BY <1>0, <1>1, <1>2 DEF Out, Lists
<1>4. job' = accepted[Out + 1]
  BY <1>1, <1>2 DEF Lists
<1>5. ASSUME NEW i \in DOMAIN queue' PROVE queue'[i] = accepted'[Out' + i]
  <2>1. i + 1 \in DOMAIN queue /\ Out + (i + 1) = (Out + 1) + i
    BY <1>1, <1>2, <1>3 DEF Out
  <2>2. queue[i + 1] = accepted[Out + (i + 1)]
    BY <2>1 DEF Lists
  <2>3. QED
    BY <1>0, <1>2, <1>3, <2>1, <2>2
<1>6. Lists'
  BY <1>0, <1>1, <1>2, <1>3, <1>4, <1>5 DEF Lists
<1>7. QED
  BY <1>3, <1>4, <1>6

LEMMA ListsStep == TypeOK /\ Lists /\ [Next]_vars => Lists'
<1> SUFFICES ASSUME TypeOK, Lists, [Next]_vars PROVE Lists'
  OBVIOUS
<1>1. ASSUME NEW r \in Requests, AdminStep(r) PROVE Lists'
  <2>1. CASE Check(r) \/ CountUnread(r) \/ Refuse(r)
    <3>1. /\ UNCHANGED <<accepted, queue, job>> /\ step[r] = "check"
          /\ \E s : step' = [step EXCEPT ![r] = s]
      BY <2>1 DEF Check, CountUnread, Refuse, LetThrough
    <3>2. \A q \in Requests : step[q] = "done" => step'[q] = "done"
      BY <3>1 DEF TypeOK
    <3>3. QED
      BY <3>1, <3>2, ListsKept
  <2>2. CASE Push(r)
    BY <2>2, ListsPushed DEF Push
  <2>3. CASE PushFails(r)
    <3>1. CASE DoPush(r)
      BY <2>3, <3>1, ListsPushed DEF PushFails
    <3>2. CASE UNCHANGED <<queue, accepted>>
      <4>1. \A q \in Requests : step[q] = "done" => step'[q] = "done"
        BY <2>3 DEF PushFails, TypeOK
      <4>2. QED
        BY <2>3, <3>2, <4>1, ListsKept DEF PushFails
    <3>3. QED
      BY <2>3, <3>1, <3>2 DEF PushFails
  <2>4. QED
    BY <1>1, <2>1, <2>2, <2>3 DEF AdminStep
<1>2. CASE Pop
  BY <1>2, ListsPopped
<1>3. CASE \/ Connect \/ Start \/ Decline \/ Draw \/ InsertRow \/ InsertConflict \/ FillCode
           \/ Finish \/ Disconnect \/ Die \/ Restart \/ Throw \/ UNCHANGED vars
  <2>1. UNCHANGED <<accepted, queue, step>> /\ job' \in {job, None}
    BY <1>3 DEF Connect, Start, Decline, Draw, InsertRow, InsertConflict, FillCode, Finish,
                Disconnect, Die, Restart, Throw, Return, admin, vars
  <2>2. QED
    BY <2>1, ListsKept
<1>4. QED
  BY <1>1, <1>2, <1>3 DEF Next, ServerStep

LEMMA InitLists == Init => Lists
  BY Bounds DEF Init, Lists, Out

-----------------------------------------------------------------------------
(***************************************************************************)
(* The work.  Nothing is done for a request that has not been started, and *)
(* the items of one that has been are done in order.                       *)
(***************************************************************************)

Begun(r) == \E i \in 1..Out : accepted[i] = r /\ ~ (job = r /\ link = "reply")

\* In "coding" the row of the next item is there already.
Ahead(r) == IF job = r /\ link = "coding" THEN 1 ELSE 0

WorkOf(r) == {k \in DOMAIN work : work[k][1] = r}

InOrder ==
  /\ \A k \in DOMAIN work : work[k][2] \in 1..size[work[k][1]]
  /\ \A k, l \in DOMAIN work : work[k] = work[l] => k = l

Works ==
  /\ \A r \in Requests : ~ Begun(r) => next[r] = 0 /\ WorkOf(r) = {}
  /\ InOrder
  /\ link \in {"busy", "coding"} => \A k \in WorkOf(job) : work[k][2] <= next[job] + Ahead(job)
  /\ link = "coding" => kind = "export" /\ More(job)

LEMMA AtWork ==
  ASSUME TypeOK, Lists, link \in {"reply", "busy", "coding"}
  PROVE  /\ job \in Requests /\ Out \in DOMAIN accepted /\ job = accepted[Out]
         /\ (Begun(job) <=> link # "reply")
<1>1. job \in Requests /\ job # None
  BY DEF TypeOK
<1>2. Out \in DOMAIN accepted /\ Out \in 1..Out /\ job = accepted[Out]
  BY <1>1 DEF Out, Lists, TypeOK
<1>3. QED
  BY <1>1, <1>2 DEF Begun

\* Steps that do no work.
LEMMA WorksKept ==
  ASSUME TypeOK, Works, UNCHANGED <<given, work, next>>,
         \A r \in Requests : Begun(r) => Begun(r)',
         link' \notin {"busy", "coding"} \/ UNCHANGED <<link, job>>
  PROVE  Works'
<1>1. \A r : WorkOf(r)' = WorkOf(r)
  BY DEF WorkOf
<1>2. InOrder'
  BY DEF Works, InOrder, given
<1>3. link' \in {"busy", "coding"} =>
        \A k \in WorkOf(job)' : work'[k][2] <= next'[job'] + Ahead(job)'
  BY <1>1 DEF Works, Ahead
<1>4. link' = "coding" => kind' = "export" /\ More(job)'
  BY DEF Works, More, given
<1>5. QED
  BY <1>1, <1>2, <1>3, <1>4 DEF Works

\* The next item of the request at work.
LEMMA OneItem ==
  ASSUME TypeOK, Lists, Works, link = "busy", More(job), work' = Append(work, Item(job)),
         UNCHANGED given
  PROVE  /\ InOrder'
         /\ \A r : r # job => WorkOf(r)' = WorkOf(r)
         /\ \A k \in DOMAIN work' : work'[k][1] = job => work'[k][2] <= next[job] + 1
         /\ Len(work') = Len(work) + 1
         /\ {work'[k] : k \in DOMAIN work'} = {work[k] : k \in DOMAIN work} \cup {Item(job)}
<1>1. PICK r \in Requests, n \in Nat : r = job /\ n = next[job]
  BY AtWork DEF TypeOK
<1>2. /\ work \in Seq(Requests \X Nat) /\ <<r, n + 1>> \in Requests \X Nat
      /\ work' = Append(work, <<r, n + 1>>)
  BY <1>1 DEF TypeOK, Item
<1>3. /\ Len(work') = Len(work) + 1 /\ DOMAIN work' = 1..(Len(work) + 1)
      /\ \A k \in DOMAIN work : work'[k] = work[k]
      /\ work'[Len(work) + 1] = <<r, n + 1>>
      /\ DOMAIN work = 1..Len(work) /\ Len(work) \in Nat
  BY <1>2, AppendOne
<1>4. \A k \in DOMAIN work' : k \in DOMAIN work \/ k = Len(work) + 1
  BY <1>3
<1>5. \A k \in DOMAIN work : work[k] \in Requests \X Nat
  BY <1>2
<1>6. \A k \in DOMAIN work : work[k][1] = r => work[k][2] <= n
  BY <1>1 DEF Works, WorkOf, Ahead
<1>7. \A k \in DOMAIN work : work[k] # <<r, n + 1>>
  BY <1>1, <1>5, <1>6
<1>8. n + 1 \in 1..size[r]
  BY <1>1 DEF More, TypeOK
<1>9. \A k, l \in DOMAIN work' : work'[k] = work'[l] => k = l
  BY <1>3, <1>4, <1>7 DEF Works, InOrder
<1>10. \A k \in DOMAIN work' : work'[k][2] \in 1..size'[work'[k][1]]
  BY <1>3, <1>4, <1>8 DEF Works, InOrder, given
<1>11. \A q : q # job => WorkOf(q)' = WorkOf(q)
  BY <1>1, <1>3, <1>4 DEF WorkOf
<1>12. \A k \in DOMAIN work' : work'[k][1] = job => work'[k][2] <= n + 1
  <2>1. ASSUME NEW k \in DOMAIN work', work'[k][1] = job PROVE work'[k][2] <= n + 1
    <3>1. CASE k = Len(work) + 1
      BY <1>3, <3>1
    <3>2. CASE k \in DOMAIN work
      BY <1>1, <1>3, <1>5, <1>6, <2>1, <3>2
    <3>3. QED
      BY <1>4, <2>1, <3>1, <3>2
  <2>2. QED
    BY <2>1
<1>13. {work'[k] : k \in DOMAIN work'} = {work[k] : k \in DOMAIN work} \cup {<<r, n + 1>>}
  <2> DEFINE New == {work'[k] : k \in DOMAIN work'}
             Old == {work[k] : k \in DOMAIN work}
  <2>1. ASSUME NEW x \in New PROVE x \in Old \cup {<<r, n + 1>>}
    <3>1. PICK k \in DOMAIN work' : x = work'[k]
      OBVIOUS
    <3>2. QED
      BY <1>3, <1>4, <3>1
  <2>2. \A x \in Old : x \in New
    BY <1>3
  <2>3. <<r, n + 1>> \in New
    <3>1. Len(work) + 1 \in DOMAIN work'
      BY <1>3
    <3>2. QED
      BY <1>3, <3>1
  <2>4. QED
    BY <2>1, <2>2, <2>3
<1>14. QED
  BY <1>1, <1>3, <1>9, <1>10, <1>11, <1>12, <1>13 DEF InOrder, Item, Rows

\* Steps of the callbacks.
LEMMA WorksAfter ==
  ASSUME TypeOK, Lists, Works, link \in {"busy", "coding"}, UNCHANGED <<given, accepted, queue>>,
         InOrder', link' # "reply",
         \A r \in Requests : r # job => WorkOf(r)' = WorkOf(r) /\ next'[r] = next[r],
         link' \in {"busy", "coding"} =>
           /\ job' = job
           /\ \A k \in DOMAIN work' : work'[k][1] = job =>
                work'[k][2] <= next'[job] + (IF link' = "coding" THEN 1 ELSE 0),
         link' = "coding" => kind = "export" /\ next'[job] < size[job]
  PROVE  Works'
<1>1. Out' = Out /\ Begun(job)
  BY AtWork DEF Out
<1>2. \A r \in Requests : Begun(r) => Begun(r)'
  BY <1>1 DEF Begun
<1>3. \A r \in Requests : ~ Begun(r)' => next'[r] = 0 /\ WorkOf(r)' = {}
  BY <1>1, <1>2 DEF Works
<1>4. link' \in {"busy", "coding"} =>
        \A k \in WorkOf(job)' : work'[k][2] <= next'[job'] + Ahead(job)'
  BY DEF WorkOf, Ahead
<1>5. link' = "coding" => kind' = "export" /\ More(job)'
  BY DEF More, given
<1>6. QED
  BY <1>3, <1>4, <1>5 DEF Works

LEMMA WorksStep == TypeOK /\ Lists /\ Works /\ [Next]_vars => Works'
<1> SUFFICES ASSUME TypeOK, Lists, Works, [Next]_vars PROVE Works'
  OBVIOUS
<1>a. \A i \in DOMAIN accepted : accepted[i] \in Requests
  BY DEF TypeOK
<1>b. Out \in Nat /\ DOMAIN accepted = 1..Len(accepted) /\ Out <= Len(accepted)
  BY DEF Out, Lists, TypeOK
<1>1. ASSUME NEW r \in Requests, AdminStep(r) PROVE Works'
  <2>1. UNCHANGED <<given, link, job, next, work>>
    BY <1>1 DEF AdminStep, Check, CountUnread, Refuse, Push, PushFails, LetThrough
  <2>2. UNCHANGED <<queue, accepted>> \/ DoPush(r)
    BY <1>1 DEF AdminStep, Check, CountUnread, Refuse, Push, PushFails, LetThrough
  <2>3. /\ Out' = Out
        /\ \A i \in 1..Out : accepted'[i] = accepted[i]
    <3>1. CASE UNCHANGED <<queue, accepted>>
      BY <3>1 DEF Out
    <3>2. CASE DoPush(r)
      <4>1. Len(queue') = Len(queue) + 1 /\ Len(accepted') = Len(accepted) + 1
        BY <3>2, AppendOne DEF DoPush, TypeOK
      <4>2. \A i \in DOMAIN accepted : accepted'[i] = accepted[i]
        BY <3>2, AppendOne DEF DoPush, TypeOK
      <4>3. Out' = Out
        BY <4>1 DEF Out, TypeOK
      <4>4. 1..Out \subseteq DOMAIN accepted
        BY <1>b
      <4>5. QED
        BY <4>2, <4>3, <4>4
    <3>3. QED
      BY <2>2, <3>1, <3>2
  <2>4. \A q \in Requests : Begun(q) => Begun(q)'
    BY <2>1, <2>3 DEF Begun
  <2>5. QED
    BY <2>1, <2>4, WorksKept
<1>2. CASE Pop
  <2>1. /\ Out' = Out + 1 /\ job' = accepted[Out + 1] /\ Out + 1 \in DOMAIN accepted
        /\ UNCHANGED <<given, accepted, next, work>> /\ link' = "reply"
    BY <1>2, ListsPopped DEF Pop, admin
  <2>2. \A i \in 1..Out : i # Out + 1 /\ i \in DOMAIN accepted
    BY <1>b
  <2>3. \A i \in 1..Out : accepted[i] # job'
    BY <2>1, <2>2 DEF Lists
  <2>4. 1..Out \subseteq 1..Out'
    BY <1>b, <2>1
  <2>5. \A q \in Requests : Begun(q) => Begun(q)'
    BY <2>1, <2>3, <2>4 DEF Begun
  <2>6. QED
    BY <2>1, <2>5, WorksKept
<1>3. CASE Connect \/ Disconnect \/ Die \/ Restart \/ UNCHANGED vars
  <2>1. /\ UNCHANGED <<given, accepted, queue, next, work>>
        /\ link' \notin {"reply", "busy", "coding"} \/ UNCHANGED <<link, job>>
    BY <1>3 DEF Connect, Disconnect, Die, Restart, admin, vars
  <2>2. Out' = Out
    BY <2>1 DEF Out
  <2>3. \A q \in Requests : Begun(q) => Begun(q)'
    BY <2>1, <2>2 DEF Begun
  <2>4. QED
    BY <2>1, <2>3, WorksKept
<1>4. CASE Decline \/ (Throw /\ link = "reply")
  <2>1. UNCHANGED <<given, accepted, queue, next, work>> /\ link' = "waiting"
    BY <1>4 DEF Decline, Throw, Return, admin
  <2>2. Out' = Out
    BY <2>1 DEF Out
  <2>3. \A q \in Requests : Begun(q) => Begun(q)'
    BY <2>1, <2>2 DEF Begun
  <2>4. QED
    BY <2>1, <2>3, WorksKept
<1>5. CASE Start
  <2>1. UNCHANGED <<given, accepted, queue, next, work, job>> /\ link = "reply" /\ link' = "busy"
    BY <1>5 DEF Start, admin
  <2>2. Out' = Out /\ job \in Requests /\ ~ Begun(job)
    BY <2>1, AtWork DEF Out
  <2>3. \A q \in Requests : Begun(q) => Begun(q)'
    BY <2>1, <2>2 DEF Begun
  <2>4. WorkOf(job) = {} /\ \A r : WorkOf(r)' = WorkOf(r)
    BY <2>1, <2>2 DEF Works, WorkOf
  <2>5. InOrder'
    BY <2>1 DEF Works, InOrder, given
  <2>6. QED
    BY <2>1, <2>3, <2>4, <2>5 DEF Works
<1>6. CASE InsertConflict \/ Finish \/ Draw \/ InsertRow \/ FillCode \/ (Throw /\ link # "reply")
  <2>1. link \in {"busy", "coding"} /\ UNCHANGED <<given, accepted, queue>> /\ link' # "reply"
    BY <1>6 DEF InsertConflict, Finish, Draw, InsertRow, FillCode, Throw, Return, admin
  <2>2. PICK j \in Requests, n \in Nat : j = job /\ n = next[j]
    BY <2>1, AtWork DEF TypeOK
  <2>3. next' = next \/ next' = [next EXCEPT ![j] = n + 1]
    BY <1>6, <2>2
       DEF InsertConflict, Finish, Draw, InsertRow, FillCode, Throw, Following
  <2>4. \A r \in Requests : r # job => next'[r] = next[r]
    BY <2>2, <2>3 DEF TypeOK
  <2>5. \/ work' = work
        \/ link = "busy" /\ More(job) /\ work' = Append(work, Item(job))
    BY <1>6 DEF InsertConflict, Finish, Draw, InsertRow, FillCode, Throw
  <2>6. InOrder' /\ \A r : r # job => WorkOf(r)' = WorkOf(r)
    <3>1. CASE work' = work
      BY <2>1, <3>1 DEF Works, InOrder, WorkOf, given
    <3>2. CASE link = "busy" /\ More(job) /\ work' = Append(work, Item(job))
      BY <2>1, <3>2, OneItem
    <3>3. QED
      BY <2>5, <3>1, <3>2
  <2>7. \A k \in DOMAIN work' : work'[k][1] = j => work'[k][2] <= n + 1 /\ (work' = work /\ link = "busy" => work'[k][2] <= n)
    <3>1. CASE work' = work
      <4>1. \A k \in DOMAIN work : work[k][2] \in Int
        BY DEF TypeOK
      <4>2. \A k \in DOMAIN work : work[k][1] = j => work[k][2] <= n + Ahead(j)
        BY <2>1, <2>2 DEF Works, WorkOf
      <4>3. Ahead(j) \in {0, 1} /\ (link = "busy" => Ahead(j) = 0)
        BY DEF Ahead
      <4>4. QED
        BY <3>1, <4>1, <4>2, <4>3
    <3>2. CASE link = "busy" /\ More(job) /\ work' = Append(work, Item(job))
      <4>1. /\ \A k \in DOMAIN work' : work'[k][1] = job => work'[k][2] <= next[job] + 1
            /\ Len(work') = Len(work) + 1
        BY <2>1, <3>2, OneItem
      <4>2. work' # work
        BY <4>1 DEF TypeOK
      <4>3. QED
        BY <2>2, <4>1, <4>2
    <3>3. QED
      BY <2>5, <3>1, <3>2
  <2>8. link' \in {"busy", "coding"} =>
          /\ job' = job
          /\ \A k \in DOMAIN work' : work'[k][1] = job =>
               work'[k][2] <= next'[job] + (IF link' = "coding" THEN 1 ELSE 0)
    <3>1. CASE Draw \/ FillCode
      <4>1. job' = job /\ next'[j] = n + 1 /\ link' = "busy"
        BY <2>2, <3>1 DEF Draw, FillCode, Following, TypeOK
      <4>2. QED
        BY <2>2, <2>7, <4>1
    <3>2. CASE InsertRow
      BY <2>2, <2>7, <3>2 DEF InsertRow
    <3>3. CASE InsertConflict \/ Finish \/ Throw
      BY <3>3 DEF InsertConflict, Finish, Throw, Return
    <3>4. QED
      BY <1>6, <3>1, <3>2, <3>3
  <2>9. link' = "coding" => kind = "export" /\ next'[job] < size[job]
    BY <1>6 DEF InsertConflict, Finish, Draw, InsertRow, FillCode, Throw, Return, More
  <2>10. QED
    BY <2>1, <2>4, <2>6, <2>8, <2>9, WorksAfter
<1>7. QED
  BY <1>1, <1>2, <1>3, <1>4, <1>5, <1>6 DEF Next, ServerStep

LEMMA InitWorks == Init => Works
<1> SUFFICES ASSUME Init PROVE Works
  OBVIOUS
<1>1. DOMAIN work = {} /\ link = "down" /\ \A r \in Requests : next[r] = 0
  BY DEF Init
<1>2. \A r : WorkOf(r) = {}
  BY <1>1 DEF WorkOf
<1>3. QED
  BY <1>1, <1>2 DEF Works, InOrder

-----------------------------------------------------------------------------
(* The promise of BatchQueue. *)

LEMMA InitQueue == Init => Queue!Init
<1> SUFFICES ASSUME Init PROVE Queue!Init
  OBVIOUS
<1>1. size \in [Requests -> Int] /\ Len(accepted) - Len(queue) = 0
  BY InitTyped DEF TypeOK, Init
<1>2. QED
  BY <1>1, Bounds DEF Init, Queue!Init

\* The item done next is none that was done before.
LEMMA DoesNext ==
  ASSUME TypeOK, Lists, Works, link = "busy", More(job), work' = Append(work, Item(job)),
         UNCHANGED <<given, accepted, queue>>
  PROVE  Queue!Do
<1>1. PICK j \in Requests, n \in Nat : j = job /\ n = next[j]
  BY AtWork DEF TypeOK
<1>2. j = accepted[Len(accepted) - Len(queue)] /\ j # None
  BY <1>1, AtWork, Bounds DEF Out
<1>3. n + 1 \in 1..size[j]
  BY <1>1 DEF More, TypeOK
<1>4. \A k \in DOMAIN work : work[k][1] = j => work[k][2] < n + 1
  <2>1. \A k \in DOMAIN work : work[k][1] = j => work[k][2] <= n
    BY <1>1 DEF Works, WorkOf, Ahead
  <2>2. \A k \in DOMAIN work : work[k][2] \in Int
    BY DEF TypeOK
  <2>3. QED
    BY <2>1, <2>2
<1>5. work' = Append(work, <<j, n + 1>>)
  BY <1>1 DEF Item
<1>6. (job' # None) \in BOOLEAN
  OBVIOUS
<1>7. Len(accepted') - Len(queue') = Len(accepted) - Len(queue)
  OBVIOUS
<1>8. UNCHANGED <<size, accepted>>
  BY DEF given
<1>9. QED
  BY <1>1, <1>2, <1>3, <1>4, <1>5, <1>6, <1>7, <1>8 DEF Queue!Do

LEMMA QueueStep == TypeOK /\ Lists /\ Works /\ [Next]_vars => [Queue!Next]_Queue!vars
<1> SUFFICES ASSUME TypeOK, Lists, Works, [Next]_vars PROVE [Queue!Next]_Queue!vars
  OBVIOUS
<1>1. ASSUME NEW r \in Requests, AdminStep(r) PROVE [Queue!Next]_Queue!vars
  <2>1. UNCHANGED <<size, work, job>>
    BY <1>1 DEF AdminStep, Check, CountUnread, Refuse, Push, PushFails, LetThrough, given
  <2>2. UNCHANGED <<queue, accepted>> \/ (DoPush(r) /\ step[r] = "push")
    BY <1>1 DEF AdminStep, Check, CountUnread, Refuse, Push, PushFails, LetThrough
  <2>3. CASE UNCHANGED <<queue, accepted>>
    BY <2>1, <2>3 DEF Queue!vars
  <2>4. CASE DoPush(r) /\ step[r] = "push"
    <3>1. Len(queue') = Len(queue) + 1 /\ Len(accepted') = Len(accepted) + 1
      BY <2>4, AppendOne DEF DoPush, TypeOK
    <3>2. Len(accepted') - Len(queue') = Len(accepted) - Len(queue)
      BY <3>1 DEF TypeOK
    <3>3. \A i \in DOMAIN accepted : accepted[i] # r
      BY <2>4 DEF Lists
    <3>4. Queue!Accept(r)
      BY <2>1, <2>4, <3>2, <3>3 DEF Queue!Accept, DoPush
    <3>5. QED
      BY <3>4 DEF Queue!Next
  <2>5. QED
    BY <2>2, <2>3, <2>4
<1>2. CASE Pop
  <2>1. Len(accepted') - Len(queue') = (Len(accepted) - Len(queue)) + 1
    BY <1>2, ListsPopped DEF Out
  <2>2. Len(accepted) - Len(queue) < Len(accepted)
    <3>1. Len(queue) \in Nat \ {0}
      BY <1>2, TakeOne DEF Pop, TypeOK
    <3>2. QED
      BY <3>1 DEF TypeOK
  <2>3. job = None /\ job' # None
    <3>1. job' \in Requests
      BY <1>2, TakeOne DEF Pop, TypeOK
    <3>2. QED
      BY <1>2, <3>1, Bounds DEF Pop, TypeOK
  <2>4. Queue!Take
    BY <1>2, <2>1, <2>2, <2>3 DEF Queue!Take, Pop, given, admin
  <2>5. QED
    BY <2>4 DEF Queue!Next
<1>3. CASE Connect \/ Start \/ FillCode \/ Restart \/ UNCHANGED vars
  <2>1. UNCHANGED <<size, accepted, queue, job, work>>
    BY <1>3 DEF Connect, Start, FillCode, Restart, given, admin, vars
  <2>2. QED
    BY <2>1 DEF Queue!vars
<1>4. ASSUME UNCHANGED <<size, accepted, queue, work>>, job' = None
      PROVE  [Queue!Next]_Queue!vars
  <2>1. CASE job = None
    BY <1>4, <2>1 DEF Queue!vars
  <2>2. CASE job # None
    <3>1. Queue!Close
      BY <1>4, <2>2 DEF Queue!Close
    <3>2. QED
      BY <3>1 DEF Queue!Next
  <2>3. QED
    BY <2>1, <2>2
<1>5. CASE Decline \/ InsertConflict \/ Finish \/ Disconnect \/ Die
  BY <1>4, <1>5 DEF Decline, InsertConflict, Finish, Disconnect, Die, Return, given, admin
<1>6. CASE InsertRow
  BY <1>6, DoesNext DEF InsertRow, admin, Queue!Next
<1>7. CASE Draw
  <2>1. CASE work' = work
    BY <1>7, <2>1 DEF Draw, given, admin, Queue!vars
  <2>2. CASE work' = Append(work, Item(job))
    BY <1>7, <2>2, DoesNext DEF Draw, admin, Queue!Next
  <2>3. QED
    BY <1>7, <2>1, <2>2 DEF Draw
<1>8. CASE Throw
  <2>1. CASE work' = work
    BY <1>4, <1>8, <2>1 DEF Throw, Return, given, admin
  <2>2. CASE link = "busy" /\ More(job) /\ work' = Append(work, Item(job))
    BY <1>8, <2>2, DoesNext DEF Throw, admin, Queue!Next
  <2>3. QED
    BY <1>8, <2>1, <2>2 DEF Throw
<1>9. QED
  BY <1>1, <1>2, <1>3, <1>5, <1>6, <1>7, <1>8 DEF Next, ServerStep

\* The servers and their list implement BatchQueue: requests are worked on in the
\* order in which they were pushed, one at a time, and none of their items twice,
\* whatever connection is lost and whichever process dies.
THEOREM BatchImplements == Spec => Implements
<1> DEFINE I == TypeOK /\ Lists /\ Works
<1>1. Init => I
  BY InitTyped, InitLists, InitWorks
<1>2. I /\ [Next]_vars => I'
  BY NextTyped, ListsStep, WorksStep
<1>3. I /\ [Next]_vars => [Queue!Next]_Queue!vars
  BY QueueStep
<1> HIDE DEF I
<1>4. QED
  BY <1>1, <1>2, <1>3, InitQueue, PTL DEF Spec, Implements, Queue!Spec

-----------------------------------------------------------------------------
(***************************************************************************)
(* The rows of an export: how many have their code, and that the rows to   *)
(* come fit within the limit of the codes, which the server has tested     *)
(* before the first.                                                       *)
(***************************************************************************)

Remaining(r) == size[r] - next[r] - Ahead(r)

Coded ==
  /\ coded <= Rows /\ Rows <= coded + 1
  /\ link = "coding" => Rows = coded + 1
  /\ faults = 0 /\ link # "coding" => Rows = coded

Fits ==
  /\ Rows <= CodeLimit
  /\ link \in {"busy", "coding"} => Rows + Remaining(job) <= CodeLimit

RowsOK == kind = "export" => Coded /\ Fits

LEMMA FaultsAdd == TypeOK /\ [Next]_vars => faults' >= faults /\ faults' \in Nat /\ faults \in Nat
<1> SUFFICES ASSUME TypeOK, [Next]_vars PROVE faults' \in {faults, faults + 1}
  BY Bounds DEF TypeOK
<1>1. ASSUME NEW r \in Requests, AdminStep(r) PROVE faults' \in {faults, faults + 1}
  BY <1>1 DEF AdminStep, Check, CountUnread, Refuse, Push, PushFails, Fault, NoFault
<1>2. CASE UNCHANGED vars
  BY <1>2 DEF vars
<1>3. QED
  BY <1>1, <1>2 DEF Next, ServerStep, Connect, Pop, Start, Decline, Draw, InsertRow, InsertConflict,
                    FillCode, Finish, Disconnect, Die, Restart, Throw, Fault, NoFault

\* Steps without a row.
LEMMA RowsKept ==
  ASSUME TypeOK, RowsOK, UNCHANGED <<given, work, coded, next>>, faults' >= faults, faults' \in Nat,
         link' \notin {"busy", "coding"} \/ UNCHANGED <<link, job>>,
         link = "coding" /\ link' # "coding" => faults' # 0
  PROVE  RowsOK'
<1>1. faults' = 0 => faults = 0
  BY DEF TypeOK
<1>2. Rows' = Rows
  BY DEF Rows
<1>3. link' \in {"busy", "coding"} => Remaining(job)' = Remaining(job)
  BY DEF Remaining, Ahead, given
<1>4. QED
  BY <1>1, <1>2, <1>3 DEF RowsOK, Coded, Fits, given

LEMMA RowsStep == TypeOK /\ Lists /\ Works /\ RowsOK /\ [Next]_vars => RowsOK'
<1> SUFFICES ASSUME TypeOK, Lists, Works, RowsOK, [Next]_vars, kind' = "export" PROVE RowsOK'
  BY DEF RowsOK
<1>0. faults' >= faults /\ faults' \in Nat
  BY FaultsAdd
<1>1. ASSUME NEW r \in Requests, AdminStep(r) PROVE RowsOK'
  <2>1. UNCHANGED <<given, link, job, next, work, coded>>
    BY <1>1 DEF AdminStep, Check, CountUnread, Refuse, Push, PushFails, LetThrough
  <2>2. QED
    BY <1>0, <2>1, RowsKept
<1>2. CASE \/ Connect \/ Pop \/ Restart \/ Decline \/ InsertConflict \/ Finish \/ Disconnect
           \/ UNCHANGED vars
  <2>1. UNCHANGED <<given, next, work, coded>>
    BY <1>2 DEF Connect, Pop, Restart, Decline, InsertConflict, Finish, Disconnect, vars
  <2>2. /\ link' \notin {"busy", "coding"} \/ UNCHANGED <<link, job>>
        /\ link = "coding" => link' = "coding"
    BY <1>2 DEF Connect, Pop, Restart, Decline, InsertConflict, Finish, Disconnect, Return, Reconnects, vars
  <2>3. QED
    BY <1>0, <2>1, <2>2, RowsKept
<1>3. CASE Die \/ (Throw /\ UNCHANGED <<work, coded>>)
  <2>1. UNCHANGED <<given, next, work, coded>> /\ link' \notin {"busy", "coding"}
    BY <1>3 DEF Die, Throw, Return
  <2>2. faults' # 0
    BY <1>3, Bounds DEF Die, Throw, Fault, TypeOK
  <2>3. QED
    BY <1>0, <2>1, <2>2, RowsKept
<1>4. CASE Start
  <2>1. /\ UNCHANGED <<given, next, work, coded, faults, job>>
        /\ link = "reply" /\ link' = "busy" /\ kind = "export"
    BY <1>4 DEF Start, NoFault, given
  <2>2. job \in Requests /\ next[job] = 0
    BY <2>1, AtWork DEF Works
  <2>3. Rows + size[job] <= CodeLimit
    BY <1>4, <2>1 DEF Start, Startable, FitsCode
  <2>4. Rows' = Rows /\ Remaining(job)' = size[job]
    BY <2>1, <2>2 DEF Rows, Remaining, Ahead, given, TypeOK
  <2>5. QED
    BY <2>1, <2>3, <2>4 DEF RowsOK, Coded, Fits
<1>5. CASE Draw
  BY <1>5 DEF Draw, given
<1>6. PICK j, n : j = job /\ n = next[j]
  OBVIOUS
<1>7. Rows \in Nat /\ coded \in Nat /\ CodeLimit \in Nat
  BY Bounds DEF TypeOK, Rows
<1>8. link \in {"busy", "coding"} => j \in Requests /\ n \in Nat /\ size[j] \in Int
  BY <1>6, AtWork DEF TypeOK
<1>9. ASSUME link = "busy", More(job), ~ CodeMissing, work' = Append(work, Item(job)), UNCHANGED given
      PROVE  Rows' = Rows + 1 /\ coded = Rows /\ n < size[j] /\ Rows + (size[j] - n) <= CodeLimit
  <2>1. Rows' = Rows + 1
    BY <1>9, OneItem DEF Rows
  <2>2. kind = "export"
    BY <1>9 DEF given
  <2>3. coded = Rows
    BY <1>7, <1>9, <2>2 DEF CodeMissing, RowsOK, Coded
  <2>4. n < size[j]
    BY <1>6, <1>9 DEF More
  <2>5. Remaining(job) = size[j] - n
    BY <1>6, <1>8, <1>9 DEF Remaining, Ahead
  <2>6. QED
    BY <1>9, <2>1, <2>2, <2>3, <2>4, <2>5 DEF RowsOK, Fits
<1>10. CASE InsertRow
  <2>1. /\ UNCHANGED <<given, next, job, coded>> /\ link' = "coding"
        /\ Rows' = Rows + 1 /\ coded = Rows /\ n < size[j] /\ Rows + (size[j] - n) <= CodeLimit
    BY <1>9, <1>10 DEF InsertRow
  <2>2. Remaining(job)' = size[j] - n - 1
    BY <1>6, <1>8, <1>10, <2>1 DEF Remaining, Ahead, given, InsertRow
  <2>3. QED
    BY <1>7, <1>8, <1>10, <2>1, <2>2 DEF RowsOK, Coded, Fits, InsertRow
<1>11. CASE FillCode
  <2>1. /\ link = "coding" /\ link' = "busy" /\ job' = j /\ UNCHANGED <<given, work, faults>>
        /\ coded' = coded + 1 /\ j \in Requests /\ n \in Nat /\ size[j] \in Int
        /\ next' = [next EXCEPT ![j] = n + 1]
    BY <1>6, <1>8, <1>11 DEF FillCode, Following, NoFault
  <2>2. Rows' = Rows /\ next'[j] = n + 1
    BY <2>1 DEF Rows, TypeOK
  <2>3. Remaining(job) = size[j] - n - 1 /\ Remaining(job)' = size[j] - (n + 1)
    BY <1>6, <2>1, <2>2 DEF Remaining, Ahead, given
  <2>4. kind = "export"
    BY <2>1 DEF given
  <2>5. QED
    BY <1>7, <2>1, <2>2, <2>3, <2>4 DEF RowsOK, Coded, Fits
<1>12. CASE Throw
  <2>1. UNCHANGED given /\ link' = "waiting" /\ faults' # 0 /\ kind = "export"
    BY <1>12, Bounds DEF Throw, Return, Fault, TypeOK, given
  <2>2. CASE UNCHANGED <<work, coded>>
    BY <1>3, <1>12, <2>2
  <2>3. CASE link = "busy" /\ More(job) /\ ~ CodeMissing /\ work' = Append(work, Item(job)) /\ UNCHANGED coded
    <3>1. Rows' = Rows + 1 /\ coded = Rows /\ n < size[j] /\ Rows + (size[j] - n) <= CodeLimit
      BY <1>9, <2>1, <2>3
    <3>2. QED
      BY <1>7, <1>8, <2>1, <2>3, <3>1 DEF RowsOK, Coded, Fits
  <2>4. CASE link = "coding" /\ coded' = coded + 1 /\ UNCHANGED work
    <3>1. Rows' = Rows
      BY <2>4 DEF Rows
    <3>2. QED
      BY <1>7, <2>1, <2>4, <3>1 DEF RowsOK, Coded, Fits
  <2>5. QED
    BY <1>12, <2>2, <2>3, <2>4 DEF Throw
<1>13. QED
  BY <1>1, <1>2, <1>3, <1>4, <1>5, <1>10, <1>11, <1>12 DEF Next, ServerStep

LEMMA InitRows == Init => RowsOK
  BY Bounds DEF Init, RowsOK, Coded, Fits, Rows

-----------------------------------------------------------------------------
(***************************************************************************)
(* Requests that are outstanding.  Only the two checks add one.            *)
(***************************************************************************)

LEMMA Shrinks ==
  ASSUME TypeOK, [Next]_vars
  PROVE  \/ Outstanding' \subseteq Outstanding /\ unsure' = unsure
         \/ \E r \in Requests : /\ Check(r) \/ CountUnread(r)
                                /\ Outstanding' \subseteq Outstanding \cup {r}
<1>1. ASSUME UNCHANGED <<step, queue, unsure>>, job' \in {job, None}
      PROVE  Outstanding' \subseteq Outstanding /\ unsure' = unsure
  BY <1>1, Bounds DEF Outstanding, InList
<1>2. ASSUME NEW r \in Requests, AdminStep(r)
      PROVE  \/ Outstanding' \subseteq Outstanding /\ unsure' = unsure
             \/ /\ Check(r) \/ CountUnread(r)
                /\ Outstanding' \subseteq Outstanding \cup {r}
  <2>1. job' = job /\ \E s : step' = [step EXCEPT ![r] = s]
    BY <1>2 DEF AdminStep, Check, CountUnread, LetThrough, Refuse, Push, PushFails
  <2>2. \A q \in Requests : q # r => step'[q] = step[q]
    BY <2>1 DEF TypeOK
  <2>3. CASE Check(r) \/ CountUnread(r)
    <3>1. queue' = queue
      BY <2>3 DEF Check, CountUnread, LetThrough
    <3>2. \A q \in Outstanding' : q # r => q \in Outstanding
      BY <2>1, <2>2, <3>1 DEF Outstanding, InList
    <3>3. QED
      BY <2>3, <3>2
  <2>4. CASE Refuse(r)
    <3>1. queue' = queue /\ step'[r] = "done" /\ unsure' = unsure
      BY <2>4 DEF Refuse, TypeOK
    <3>2. \A q \in Outstanding' : q \in Outstanding
      BY <2>1, <2>2, <3>1 DEF Outstanding, InList
    <3>3. QED
      BY <3>1, <3>2
  <2>5. CASE Push(r) \/ PushFails(r)
    <3>1. queue' \in {queue, Append(queue, r)} /\ step[r] = "push" /\ unsure' = unsure
      BY <2>5 DEF Push, PushFails, DoPush
    <3>2. \A i \in DOMAIN queue' : queue'[i] = r \/ InList(queue'[i])
      <4>1. CASE queue' = queue
        BY <4>1 DEF InList
      <4>2. CASE queue' = Append(queue, r)
        <5>1. queue \in Seq(Requests)
          BY DEF TypeOK
        <5>2. \A i \in DOMAIN queue' : i \in DOMAIN queue \/ i = Len(queue) + 1
          BY <4>2, <5>1, AppendOne
        <5>3. (\A i \in DOMAIN queue : queue'[i] = queue[i]) /\ queue'[Len(queue) + 1] = r
          BY <4>2, <5>1, AppendOne
        <5>4. QED
          BY <5>2, <5>3 DEF InList
      <4>3. QED
        BY <3>1, <4>1, <4>2
    <3>3. \A q \in Outstanding' : q # r => q \in Outstanding
      BY <2>1, <2>2, <3>2 DEF Outstanding, InList
    <3>4. r \in Outstanding
      BY <3>1 DEF Outstanding
    <3>5. QED
      BY <3>1, <3>3, <3>4
  <2>6. QED
    BY <1>2, <2>3, <2>4, <2>5 DEF AdminStep
<1>3. CASE Pop
  <2>1. UNCHANGED <<step, unsure>> /\ queue \in Seq(Requests) /\ queue # << >> /\ job' = Head(queue)
        /\ queue' = Tail(queue)
    BY <1>3 DEF Pop, Popped, admin, TypeOK
  <2>2. 1 \in DOMAIN queue /\ \A i \in DOMAIN queue' : i + 1 \in DOMAIN queue
    BY <2>1, TakeOne
  <2>3. job' = queue[1] /\ \A i \in DOMAIN queue' : queue'[i] = queue[i + 1]
    BY <2>1, TakeOne
  <2>4. InList(job') /\ \A i \in DOMAIN queue' : InList(queue'[i])
    BY <2>2, <2>3 DEF InList
  <2>5. \A q \in Outstanding' : q \in Outstanding
    BY <2>1, <2>4 DEF Outstanding, InList
  <2>6. QED
    BY <2>1, <2>5
<1>4. CASE \/ Connect \/ Start \/ Decline \/ Draw \/ InsertRow \/ InsertConflict \/ FillCode
           \/ Finish \/ Disconnect \/ Die \/ Restart \/ Throw \/ UNCHANGED vars
  <2>1. UNCHANGED <<step, queue, unsure>> /\ job' \in {job, None}
    BY <1>4 DEF Connect, Start, Decline, Draw, InsertRow, InsertConflict, FillCode, Finish,
                Disconnect, Die, Restart, Throw, Return, admin, vars
  <2>2. QED
    BY <1>1, <2>1
<1>5. QED
  BY <1>2, <1>3, <1>4 DEF Next, ServerStep

-----------------------------------------------------------------------------
(***************************************************************************)
(* While nothing has failed and no count has left out rows yet to come,    *)
(* one export is outstanding at a time, and its rows fit.                  *)
(***************************************************************************)

Certain == kind = "export" /\ faults = 0 /\ unsure = {}

Sure ==
  Certain => \A r \in Outstanding :
    Outstanding = {r} /\ size[r] # 0 /\ Rows + Remaining(r) <= CodeLimit

\* A request that has not been checked has done nothing.
LEMMA Unchecked ==
  ASSUME TypeOK, Lists, Works, NEW r \in Requests, step[r] = "check"
  PROVE  next[r] = 0 /\ WorkOf(r) = {}
<1>1. \A i \in DOMAIN accepted : accepted[i] # r
  BY DEF Lists
<1>2. \A i \in 1..Out : i \in DOMAIN accepted
  BY DEF Out, TypeOK, Lists
<1>3. ~ Begun(r)
  BY <1>1, <1>2 DEF Begun
<1>4. QED
  BY <1>3 DEF Works

\* Steps that do not fail leave the rows of the one request as they were planned.
LEMMA Planned ==
  ASSUME TypeOK, Lists, Works, [Next]_vars, kind = "export", faults' = faults,
         NEW r \in Requests, Outstanding \subseteq {r}
  PROVE  kind' = kind /\ size' = size /\ Rows' + Remaining(r)' = Rows + Remaining(r)
<1>0. next[r] \in Nat /\ Rows \in Nat /\ size[r] \in Int /\ faults \in Nat
  BY DEF TypeOK, Rows
<1>5. Ahead(r) \in {0, 1}
  BY DEF Ahead
<1>1. ASSUME UNCHANGED <<given, next, work>>, Ahead(r)' = Ahead(r)
      PROVE  kind' = kind /\ size' = size /\ Rows' + Remaining(r)' = Rows + Remaining(r)
  BY <1>1 DEF given, Rows, Remaining
<1>2. ASSUME NEW q \in Requests, AdminStep(q) PROVE UNCHANGED <<given, next, work, job, link>>
  BY <1>2 DEF AdminStep, Check, CountUnread, LetThrough, Refuse, Push, PushFails
<1>3. CASE \/ Connect \/ Pop \/ Start \/ Decline \/ InsertConflict \/ Finish \/ Restart \/ UNCHANGED vars
  <2>1. UNCHANGED <<given, next, work>>
    BY <1>3 DEF Connect, Pop, Start, Decline, InsertConflict, Finish, Restart, vars
  <2>2. (link # "coding" /\ link' # "coding") \/ UNCHANGED <<job, link>>
    BY <1>3 DEF Connect, Pop, Start, Decline, InsertConflict, Finish, Restart, Return, Reconnects, vars
  <2>3. QED
    BY <1>1, <2>1, <2>2 DEF Ahead
<1>4. CASE Disconnect \/ Die \/ Throw
  BY <1>0, <1>4 DEF Disconnect, Die, Throw, Fault
<1>6. link \in {"busy", "coding"} => job = r
  BY AtWork DEF Outstanding
<1>7. CASE Draw
  BY <1>7 DEF Draw
<1>8. CASE InsertRow
  <2>1. /\ UNCHANGED <<given, next, job>> /\ link' = "coding" /\ link = "busy" /\ job = r
        /\ work' = Append(work, Item(job)) /\ More(job)
    BY <1>6, <1>8 DEF InsertRow
  <2>2. Rows' = Rows + 1
    BY <2>1, OneItem DEF Rows
  <2>3. Ahead(r)' = 1 /\ Ahead(r) = 0
    BY <2>1 DEF Ahead
  <2>4. kind' = kind /\ size' = size /\ next' = next
    BY <2>1 DEF given
  <2>5. Remaining(r)' = size[r] - next[r] - 1 /\ Remaining(r) = size[r] - next[r] - 0
    BY <2>3, <2>4 DEF Remaining
  <2>6. QED
    BY <1>0, <2>2, <2>4, <2>5
<1>9. CASE FillCode
  <2>1. /\ UNCHANGED <<given, work, job>> /\ link' = "busy" /\ link = "coding" /\ job = r
        /\ next' = [next EXCEPT ![r] = next[r] + 1]
    BY <1>6, <1>9 DEF FillCode, Following
  <2>2. next'[r] = next[r] + 1
    BY <2>1 DEF TypeOK
  <2>3. Ahead(r)' = 0 /\ Ahead(r) = 1
    BY <2>1 DEF Ahead
  <2>4. QED
    BY <1>0, <2>1, <2>2, <2>3 DEF Remaining, given, Rows
<1>10. QED
  BY <1>1, <1>2, <1>3, <1>4, <1>7, <1>8, <1>9 DEF Next, ServerStep, Ahead

LEMMA SureStep == TypeOK /\ Lists /\ Works /\ Sure /\ [Next]_vars => Sure'
<1> SUFFICES ASSUME TypeOK, Lists, Works, Sure, [Next]_vars, Certain', NEW r \in Outstanding'
             PROVE  Outstanding' = {r} /\ size'[r] # 0 /\ Rows' + Remaining(r)' <= CodeLimit'
  BY DEF Sure
<1>0. r \in Requests
  BY DEF Outstanding
<1>1. faults' = 0 /\ faults = 0
  BY FaultsAdd DEF Certain
<1>2. CASE Outstanding' \subseteq Outstanding /\ unsure' = unsure
  <2>1. kind' = kind
    BY DEF Next, AdminStep, ServerStep, Check, CountUnread, LetThrough, Refuse, Push, PushFails,
           Connect, Pop, Start, Decline, Draw, InsertRow, InsertConflict, FillCode, Finish,
           Disconnect, Die, Restart, Throw, given, vars
  <2>2. Certain /\ r \in Outstanding
    BY <1>1, <1>2, <2>1 DEF Certain
  <2>3. Outstanding = {r} /\ size[r] # 0 /\ Rows + Remaining(r) <= CodeLimit
    BY <2>2 DEF Sure
  <2>4. kind' = kind /\ size' = size /\ Rows' + Remaining(r)' = Rows + Remaining(r)
    BY <1>0, <1>1, <2>2, <2>3, Planned DEF Certain
  <2>5. QED
    BY <1>2, <2>3, <2>4
<1>3. ASSUME NEW q \in Requests, Check(q), Outstanding' \subseteq Outstanding \cup {q}
      PROVE  Outstanding' = {r} /\ size'[r] # 0 /\ Rows' + Remaining(r)' <= CodeLimit'
  <2>1. unsure' = {} /\ UNCHANGED <<kind, size, next, work, job, link>> /\ kind = "export"
    BY <1>3 DEF Check, LetThrough, Certain, given
  <2>2. Outstanding = {}
    BY <1>3, <2>1 DEF Check
  <2>3. Outstanding' = {r} /\ q = r
    BY <1>3, <2>2
  <2>4. step[r] = "check" /\ Rows + size[r] <= CodeLimit /\ size[r] # 0
    BY <1>3, <2>1, <2>3 DEF Check, LetThrough, Acceptable, FitsCode
  <2>5. next[r] = 0
    BY <1>0, <2>4, Unchecked
  <2>6. job # r
    BY <1>0, <2>2 DEF Outstanding
  <2>7. Remaining(r)' = size[r]
    BY <1>0, <2>1, <2>5, <2>6 DEF Remaining, Ahead, TypeOK
  <2>8. QED
    BY <2>1, <2>3, <2>4, <2>7 DEF Rows
<1>4. ASSUME NEW q \in Requests, CountUnread(q) PROVE FALSE
  BY <1>1, <1>4 DEF CountUnread, Fault
<1>5. QED
  BY <1>2, <1>3, <1>4, Shrinks

LEMMA InitSure == Init => Sure
<1> SUFFICES ASSUME Init PROVE Outstanding = {}
  BY DEF Sure
<1>1. QED
  BY Bounds DEF Init, Outstanding, InList

-----------------------------------------------------------------------------
(***************************************************************************)
(* Room in the group.  The rows that are there, and the items outstanding, *)
(* but for those of requests that were counted beside others.              *)
(***************************************************************************)

Done == {work[k] : k \in DOMAIN work}
Planning == (Done \cup Items(Outstanding)) \ Items(unsure)

Sized == \A r \in Requests : size[r] <= MaxSize
Room == kind = "export" => Cardinality(Planning) <= max_count

LEMMA DoneSize ==
  ASSUME TypeOK, Works
  PROVE  IsFiniteSet(Done) /\ Cardinality(Done) = Rows
<1>1. PICK w \in Seq(Requests \X Nat) : w = work
  BY DEF TypeOK
<1>2. DOMAIN w = 1..Len(w) /\ Len(w) \in Nat
  OBVIOUS
<1>3. IsFiniteSet(DOMAIN w) /\ Cardinality(DOMAIN w) = Len(w)
  BY <1>2, FS_Interval
<1>4. PICK D : D = {w[k] : k \in DOMAIN w}
  OBVIOUS
<1>5. w \in [DOMAIN w -> D] /\ \A d \in D : \E k \in DOMAIN w : w[k] = d
  BY <1>4
<1>6. w \in Surjection(DOMAIN w, D)
  BY <1>5 DEF Surjection
<1>7. \A k, l \in DOMAIN w : w[k] = w[l] => k = l
  BY <1>1 DEF Works, InOrder
<1>8. w \in Injection(DOMAIN w, D)
  BY <1>5, <1>7 DEF Injection, IsInjective
<1>9. IsFiniteSet(D) /\ Cardinality(D) = Len(w)
  BY <1>3, <1>6, <1>8, FS_Surjection
<1>10. QED
  BY <1>1, <1>4, <1>9 DEF Done, Rows

LEMMA ItemsFinite ==
  ASSUME TypeOK, Sized, NEW R, R \subseteq Requests
  PROVE  IsFiniteSet(Items(R))
<1>1. IsFiniteSet(1..MaxSize)
  BY Bounds, FS_Interval
<1>2. IsFiniteSet(Requests \X (1..MaxSize))
  BY <1>1, Bounds, FS_Product
<1>3. \A r \in Requests : 1..size[r] \subseteq 1..MaxSize
  BY Bounds DEF Sized, TypeOK
<1>4. Items(R) \subseteq Requests \X (1..MaxSize)
  BY <1>3 DEF Items
<1>5. PICK I : I = Items(R)
  OBVIOUS
<1>6. IsFiniteSet(I)
  BY <1>2, <1>4, <1>5, FS_Subset
<1>7. QED
  BY <1>5, <1>6

LEMMA PlanningFinite ==
  ASSUME TypeOK, Works, Sized
  PROVE  IsFiniteSet(Planning) /\ Cardinality(Planning) \in Nat
<1>1. PICK D, I, U : D = Done /\ I = Items(Outstanding) /\ U = Items(unsure)
  OBVIOUS
<1>2. IsFiniteSet(D) /\ IsFiniteSet(I)
  <2>1. Outstanding \subseteq Requests
    BY DEF Outstanding
  <2>2. QED
    BY <1>1, <2>1, DoneSize, ItemsFinite
<1>3. IsFiniteSet((D \cup I) \ U)
  BY <1>2, FS_Union, FS_Difference
<1>4. Cardinality((D \cup I) \ U) \in Nat
  BY <1>3, FS_CardinalityType
<1>5. QED
  BY <1>1, <1>3, <1>4 DEF Planning

LEMMA ItemsGrow ==
  ASSUME NEW R, NEW S
  PROVE  /\ R \subseteq S => Items(R) \subseteq Items(S)
         /\ Items(R \cup S) = Items(R) \cup Items(S)
  BY DEF Items

LEMMA ItemsOfOne ==
  ASSUME TypeOK, NEW r \in Requests
  PROVE  /\ size[r] <= 0 => Items({r}) = {}
         /\ size[r] >= 0 => IsFiniteSet(Items({r})) /\ Cardinality(Items({r})) = size[r]
<1>1. PICK n \in Int : n = size[r]
  BY DEF TypeOK
<1>2. Items({r}) = {r} \X (1..n)
  BY <1>1 DEF Items
<1>3. CASE n <= 0
  <2>1. 1..n = {}
    BY <1>3
  <2>2. {r} \X (1..n) = {}
    BY <2>1
  <2>3. n >= 0 => n = 0
    BY <1>3
  <2>4. QED
    BY <1>1, <1>2, <2>2, <2>3, FS_EmptySet
<1>4. CASE n > 0
  <2>1. IsFiniteSet(1..n) /\ Cardinality(1..n) = n
    BY <1>4, FS_Interval
  <2>2. IsFiniteSet({r}) /\ Cardinality({r}) = 1
    BY FS_Singleton
  <2>3. IsFiniteSet({r} \X (1..n)) /\ Cardinality({r} \X (1..n)) = 1 * n
    BY <2>1, <2>2, FS_Product
  <2>4. 1 * n = n
    OBVIOUS
  <2>5. IsFiniteSet(Items({r})) /\ Cardinality(Items({r})) = n
    BY <1>2, <2>3, <2>4
  <2>6. ~ (n <= 0)
    BY <1>4
  <2>7. QED
    BY <1>1, <2>5, <2>6
<1>5. QED
  BY <1>1, <1>3, <1>4

\* What was given does not change.
LEMMA GivenKept == [Next]_vars => UNCHANGED given
  BY DEF Next, AdminStep, ServerStep, Check, CountUnread, LetThrough, Refuse, Push, PushFails,
         Connect, Pop, Start, Decline, Draw, InsertRow, InsertConflict, FillCode, Finish,
         Disconnect, Die, Restart, Throw, vars

\* A new row is one of the items outstanding.
LEMMA DoneGrows ==
  ASSUME TypeOK, Lists, Works, [Next]_vars
  PROVE  Done' \subseteq Done \cup Items(Outstanding)
<1>1. CASE work' = work
  BY <1>1 DEF Done
<1>2. CASE link = "busy" /\ More(job) /\ work' = Append(work, Item(job))
  <2>1. Done' = Done \cup {Item(job)}
    BY <1>2, OneItem, GivenKept DEF Done
  <2>2. PICK j \in Requests, n \in Nat : j = job /\ n = next[j]
    BY <1>2, AtWork DEF TypeOK
  <2>3. n + 1 \in 1..size[j]
    BY <1>2, <2>2 DEF More, TypeOK
  <2>4. j \in Outstanding
    BY <2>2 DEF Outstanding
  <2>5. <<j, n + 1>> \in Items(Outstanding)
    BY <2>3, <2>4 DEF Items
  <2>6. QED
    BY <2>1, <2>2, <2>5 DEF Item
<1>3. work' = work \/ (link = "busy" /\ More(job) /\ work' = Append(work, Item(job)))
  <2>1. ASSUME NEW r \in Requests, AdminStep(r) PROVE work' = work
    BY <2>1 DEF AdminStep, Check, CountUnread, LetThrough, Refuse, Push, PushFails
  <2>2. QED
    BY <2>1 DEF Next, ServerStep, Connect, Pop, Start, Decline, Draw, InsertRow, InsertConflict,
                FillCode, Finish, Disconnect, Die, Restart, Throw, vars
<1>4. QED
  BY <1>1, <1>2, <1>3

LEMMA RoomStep == TypeOK /\ Lists /\ Works /\ Sized /\ Room /\ [Next]_vars => Room'
<1> SUFFICES ASSUME TypeOK, Lists, Works, Sized, Room, [Next]_vars, kind' = "export"
             PROVE  Cardinality(Planning)' <= max_count
  BY DEF Room
<1>1. UNCHANGED <<kind, size>>
  BY GivenKept DEF given
<1>2. Cardinality(Planning) <= max_count /\ max_count \in Nat
  BY <1>1, Bounds DEF Room
<1>3. PICK D, I, U : D = Done /\ I = Items(Outstanding) /\ U = Items(unsure)
  OBVIOUS
<1>4. PICK D1, I1, U1 : D1 = Done' /\ I1 = Items(Outstanding)' /\ U1 = Items(unsure)'
  OBVIOUS
<1>5. PICK P : P = (D \cup I) \ U
  OBVIOUS
<1>6. Planning = P /\ Planning' = (D1 \cup I1) \ U1
  BY <1>3, <1>4, <1>5 DEF Planning
<1>7. IsFiniteSet(P) /\ Cardinality(P) <= max_count /\ Cardinality(P) \in Nat
  BY <1>2, <1>6, PlanningFinite
<1>8. D1 \subseteq D \cup I
  BY <1>3, <1>4, DoneGrows
<1>9. ASSUME (D1 \cup I1) \ U1 \subseteq P PROVE Cardinality(Planning)' <= max_count
  <2>1. Cardinality((D1 \cup I1) \ U1) <= Cardinality(P) /\ IsFiniteSet((D1 \cup I1) \ U1)
    BY <1>7, <1>9, FS_Subset
  <2>2. Cardinality((D1 \cup I1) \ U1) \in Nat
    BY <2>1, FS_CardinalityType
  <2>3. Cardinality((D1 \cup I1) \ U1) <= max_count
    BY <1>2, <1>7, <2>1, <2>2
  <2>4. QED
    BY <1>6, <2>3
<1>10. PICK O, O1, W, W1 : O = Outstanding /\ O1 = Outstanding' /\ W = unsure /\ W1 = unsure'
  OBVIOUS
<1>11. I = Items(O) /\ U = Items(W)
  BY <1>3, <1>10
<1>12. I1 = Items(O1) /\ U1 = Items(W1)
  BY <1>1, <1>4, <1>10 DEF Items
<1>13. CASE Outstanding' \subseteq Outstanding /\ unsure' = unsure
  <2>1. I1 \subseteq I /\ U1 = U
    BY <1>10, <1>11, <1>12, <1>13, ItemsGrow
  <2>2. QED
    BY <1>5, <1>8, <1>9, <2>1
<1>14. ASSUME NEW r \in Requests, Check(r) \/ CountUnread(r), Outstanding' \subseteq Outstanding \cup {r}
       PROVE  Cardinality(Planning)' <= max_count
  <2>1. D1 = D
    <3>1. work' = work
      BY <1>14 DEF Check, CountUnread, LetThrough
    <3>2. QED
      BY <1>3, <1>4, <3>1 DEF Done
  <2>2. I1 \subseteq I \cup Items({r})
    <3>1. O1 \subseteq O \cup {r}
      BY <1>10, <1>14
    <3>2. Items(O1) \subseteq Items(O \cup {r}) /\ Items(O \cup {r}) = Items(O) \cup Items({r})
      BY <3>1, ItemsGrow
    <3>3. QED
      BY <1>11, <1>12, <3>2
  <2>3. CASE unsure' = unsure \cup {r}
    <3>1. U1 = U \cup Items({r})
      BY <1>10, <1>11, <1>12, <2>3, ItemsGrow
    <3>2. QED
      BY <1>5, <1>9, <2>1, <2>2, <3>1
  <2>4. CASE Check(r) /\ Outstanding = {} /\ unsure' = unsure
    <3>1. U1 = U
      BY <1>10, <1>11, <1>12, <2>4
    <3>2. CASE size[r] <= 0
      <4>1. Items({r}) = {}
        BY <3>2, ItemsOfOne
      <4>2. QED
        BY <1>5, <1>9, <2>1, <2>2, <3>1, <4>1
    <3>3. CASE size[r] > 0
      <4>0. PICK n \in Int : n = size[r]
        BY DEF TypeOK
      <4>1. PICK J : J = Items({r})
        OBVIOUS
      <4>2. IsFiniteSet(J) /\ Cardinality(J) = n
        BY <3>3, <4>0, <4>1, ItemsOfOne
      <4>3. IsFiniteSet(D) /\ Cardinality(D) = Rows /\ Rows \in Nat
        BY <1>3, DoneSize DEF TypeOK, Rows
      <4>4. Rows + n <= max_count
        BY <1>1, <2>4, <4>0 DEF Check, LetThrough, Acceptable, FitsGroup
      <4>5. I = {}
        BY <1>3, <2>4 DEF Items
      <4>6. IsFiniteSet(D \cup J)
        BY <4>2, <4>3, FS_Union
      <4>7. Cardinality(D \cup J) = Rows + n - Cardinality(D \cap J)
        BY <4>2, <4>3, FS_Union
      <4>8. Cardinality(D \cap J) \in Nat
        BY <4>3, FS_Intersection, FS_CardinalityType
      <4>9. (D1 \cup I1) \ U1 \subseteq D \cup J
        BY <2>1, <2>2, <4>1, <4>5
      <4>10. PICK T : T = (D1 \cup I1) \ U1
        OBVIOUS
      <4>11. IsFiniteSet(T) /\ Cardinality(T) <= Cardinality(D \cup J)
        BY <4>6, <4>9, <4>10, FS_Subset
      <4>12. Cardinality(T) \in Nat
        BY <4>11, FS_CardinalityType
      <4>13. Cardinality(T) <= max_count
        BY <1>2, <4>3, <4>4, <4>7, <4>8, <4>11, <4>12
      <4>14. QED
        BY <1>6, <4>10, <4>13
    <3>4. QED
      BY <3>2, <3>3 DEF TypeOK
  <2>5. unsure' = unsure \cup {r} \/ (Check(r) /\ Outstanding = {} /\ unsure' = unsure)
    BY <1>14 DEF Check, CountUnread
  <2>6. QED
    BY <2>3, <2>4, <2>5
<1>15. QED
  BY <1>13, <1>14, Shrinks

LEMMA InitRoom == Init => Sized /\ Room
<1> SUFFICES ASSUME Init PROVE Sized /\ Cardinality(Planning) <= max_count
  BY DEF Room
<1>1. Outstanding = {}
  BY Bounds DEF Init, Outstanding, InList
<1>2. Done = {}
  BY DEF Init, Done
<1>3. Planning = {}
  BY <1>1, <1>2 DEF Planning, Items
<1>4. Cardinality(Planning) <= max_count
  BY <1>3, Bounds, FS_EmptySet
<1>5. \A r \in Requests : size[r] \in 0..MaxSize \/ size[r] \in -1..MaxSize
  BY DEF Init
<1>6. Sized
  BY <1>5, Bounds DEF Sized
<1>7. QED
  BY <1>4, <1>6

\* The rows that are not items of requests counted beside others have room.
LEMMA Bounded == TypeOK /\ Works /\ RowsOK /\ Sized /\ Room => ExportBounded
<1> SUFFICES ASSUME TypeOK, Works, RowsOK, Sized, Room, kind = "export"
             PROVE  /\ Rows <= max_count + Cardinality(Items(unsure))
                    /\ Rows <= CodeLimit
                    /\ Rows <= coded + 1
  BY DEF ExportBounded
<1>1. Rows <= CodeLimit /\ Rows <= coded + 1
  BY DEF RowsOK, Coded, Fits
<1>2. PICK D, P, U : D = Done /\ P = Planning /\ U = Items(unsure)
  OBVIOUS
<1>3. IsFiniteSet(D) /\ Cardinality(D) = Rows /\ Rows \in Nat
  BY <1>2, DoneSize DEF TypeOK, Rows
<1>4. IsFiniteSet(P) /\ Cardinality(P) \in Nat /\ Cardinality(P) <= max_count
  BY <1>2, PlanningFinite DEF Room
<1>5. IsFiniteSet(U)
  BY <1>2, ItemsFinite DEF TypeOK
<1>6. Cardinality(U) \in Nat /\ Cardinality(P \cap U) \in Nat
  BY <1>4, <1>5, FS_Intersection, FS_CardinalityType
<1>7. IsFiniteSet(P \cup U) /\ Cardinality(P \cup U) = Cardinality(P) + Cardinality(U) - Cardinality(P \cap U)
  BY <1>4, <1>5, FS_Union
<1>8. D \subseteq P \cup U
  BY <1>2 DEF Planning
<1>9. Cardinality(D) <= Cardinality(P \cup U)
  BY <1>7, <1>8, FS_Subset
<1>10. Rows <= max_count + Cardinality(U)
  BY <1>3, <1>4, <1>6, <1>7, <1>9, Bounds
<1>11. QED
  BY <1>1, <1>2, <1>10

LEMMA SizedKept == Sized /\ [Next]_vars => Sized'
  BY GivenKept DEF Sized, given

\* Whatever fails and whoever counts what, an export stays within the limit of the
\* codes, leaves at most one row without a code, and exceeds max_count only by
\* items of requests that were counted while others were outstanding.
THEOREM ExportsBounded == Spec => []ExportBounded
<1> DEFINE I == TypeOK /\ Lists /\ Works /\ RowsOK /\ Sized /\ Room
<1>1. Init => I
  BY InitTyped, InitLists, InitWorks, InitRows, InitRoom
<1>2. I /\ [Next]_vars => I'
  BY NextTyped, ListsStep, WorksStep, RowsStep, RoomStep, SizedKept
<1>3. I => ExportBounded
  BY Bounded
<1> HIDE DEF I
<1>4. QED
  BY <1>1, <1>2, <1>3, PTL DEF Spec

-----------------------------------------------------------------------------
(***************************************************************************)
(* Requests that are cut short.                                            *)
(***************************************************************************)

\* How a request at work is left.
Leaves ==
  \/ Decline \/ InsertConflict \/ Finish
  \/ (Disconnect \/ Die \/ Throw) /\ faults' = faults + 1

\* Only the request at work can become one that is cut short, when it is left.
LEMMA CutOnLeaving ==
  ASSUME TypeOK, [Next]_vars, NEW r \in Requests, r \in Cut', r \notin Cut
  PROVE  r = job /\ next[r] < size[r] /\ Leaves
<1>0. size' = size /\ next[r] \in Nat /\ size[r] \in Int
  BY GivenKept DEF given, TypeOK
<1>1. answer'[r] = "OK" /\ ~ InList(r)' /\ job' # r /\ next'[r] < size[r]
  BY <1>0 DEF Cut
<1>2. answer[r] # "OK" \/ InList(r) \/ job = r \/ ~ (next[r] < size[r])
  BY DEF Cut
<1>3. ASSUME NEW q \in Requests, AdminStep(q) PROVE FALSE
  <2>1. UNCHANGED <<next, job>>
    BY <1>3 DEF AdminStep, Check, CountUnread, Refuse, Push, PushFails, LetThrough
  <2>2. queue' = queue \/ queue' = Append(queue, q)
    BY <1>3 DEF AdminStep, Check, CountUnread, Refuse, Push, PushFails, LetThrough, DoPush
  <2>3. /\ InList(r) => InList(r)'
        /\ queue' = Append(queue, q) => InList(q)'
    <3>1. CASE queue' = queue
      <4>1. queue' = Append(queue, q) => FALSE
        <5>1. queue \in Seq(Requests)
          BY DEF TypeOK
        <5>2. Len(Append(queue, q)) = Len(queue) + 1
          BY <5>1, AppendOne
        <5>3. Len(queue) \in Nat
          BY <5>1
        <5>4. QED
          BY <3>1, <5>2, <5>3
      <4>2. QED
        BY <3>1, <4>1 DEF InList
    <3>2. CASE queue' = Append(queue, q)
      <4>1. /\ DOMAIN queue' = 1..(Len(queue) + 1) /\ DOMAIN queue = 1..Len(queue) /\ Len(queue) \in Nat
            /\ \A i \in DOMAIN queue : queue'[i] = queue[i]
            /\ queue'[Len(queue) + 1] = q
        BY <3>2, AppendOne DEF TypeOK
      <4>2. Len(queue) + 1 \in DOMAIN queue' /\ DOMAIN queue \subseteq DOMAIN queue'
        BY <4>1
      <4>3. QED
        BY <4>1, <4>2 DEF InList
    <3>3. QED
      BY <2>2, <3>1, <3>2
  <2>4. answer[r] # "OK"
    BY <1>1, <1>2, <2>1, <2>3
  <2>5. Push(q) /\ q = r
    BY <1>1, <1>3, <2>4
       DEF AdminStep, Check, CountUnread, Refuse, Push, PushFails, LetThrough, TypeOK, Answers
  <2>6. QED
    BY <1>1, <2>3, <2>5 DEF Push, DoPush
<1>4. CASE Pop
  <2>1. UNCHANGED <<answer, next>> /\ queue \in Seq(Requests) /\ queue # << >> /\ job = None
        /\ job' = Head(queue) /\ queue' = Tail(queue)
    BY <1>4 DEF Pop, Popped, admin, TypeOK
  <2>2. InList(r)
    BY <1>1, <1>2, <2>1, Bounds
  <2>3. PICK i \in DOMAIN queue : queue[i] = r
    BY <2>2 DEF InList
  <2>4. i # 1
    BY <1>1, <2>1, <2>3, TakeOne
  <2>5. DOMAIN queue = 1..Len(queue) /\ Len(queue) \in Nat
    BY <2>1
  <2>6. i - 1 \in DOMAIN queue' /\ (i - 1) + 1 = i
    <3>1. DOMAIN queue' = 1..(Len(queue) - 1)
      BY <2>1, TakeOne
    <3>2. QED
      BY <2>3, <2>4, <2>5, <3>1
  <2>7. queue'[i - 1] = r
    BY <2>1, <2>3, <2>6, TakeOne
  <2>8. QED
    BY <1>1, <2>6, <2>7 DEF InList
<1>5. ASSUME UNCHANGED <<answer, queue, job>>, next'[r] >= next[r], next'[r] \in Nat PROVE FALSE
  BY <1>0, <1>1, <1>2, <1>5 DEF InList
<1>6. CASE Connect \/ Start \/ InsertRow \/ Restart \/ UNCHANGED vars
  BY <1>0, <1>5, <1>6 DEF Connect, Start, InsertRow, Restart, admin, vars
<1>7. CASE Draw \/ FillCode
  <2>1. link \in {"busy", "coding"} /\ next' = [next EXCEPT ![job] = Following(@)]
    BY <1>7 DEF Draw, FillCode
  <2>2. PICK j \in Requests, n \in Nat : j = job /\ n = next[j]
    BY <2>1, Bounds DEF TypeOK
  <2>3. next' = [next EXCEPT ![j] = n + 1]
    BY <2>1, <2>2 DEF Following
  <2>4. next'[r] >= next[r] /\ next'[r] \in Nat
    BY <1>0, <2>2, <2>3 DEF TypeOK
  <2>5. QED
    BY <1>5, <1>7, <2>4 DEF Draw, FillCode, admin
<1>8. CASE Decline \/ InsertConflict \/ Finish \/ Disconnect \/ Die \/ Throw
  <2>1. UNCHANGED <<answer, queue, next>>
    BY <1>8 DEF Decline, InsertConflict, Finish, Disconnect, Die, Throw, admin
  <2>2. job = r
    BY <1>1, <1>2, <2>1 DEF InList
  <2>3. Leaves
    BY <1>8 DEF Leaves, Disconnect, Die, Throw, Fault
  <2>4. QED
    BY <1>1, <2>1, <2>2, <2>3
<1>9. QED
  BY <1>3, <1>4, <1>6, <1>7, <1>8 DEF Next, ServerStep

LEMMA CutStep ==
  TypeOK /\ Lists /\ Works /\ RowsOK /\ Sure /\ CutNeedsFault /\ [Next]_vars => CutNeedsFault'
<1> SUFFICES ASSUME TypeOK, Lists, Works, RowsOK, Sure, CutNeedsFault, [Next]_vars
             PROVE  CutNeedsFault'
  OBVIOUS
<1>1. UNCHANGED <<kind, size, table>> /\ faults' \in Nat /\ faults \in Nat /\ faults' >= faults
  BY GivenKept, FaultsAdd DEF given
<1>2. PICK C, C1 : C = Cut /\ C1 = Cut'
  OBVIOUS
<1>3. IsFiniteSet(C) /\ Cardinality(C) \in Nat
  <2>1. C \subseteq Requests
    BY <1>2 DEF Cut
  <2>2. IsFiniteSet(C)
    BY <2>1, Bounds, FS_Subset
  <2>3. QED
    BY <2>2, FS_CardinalityType
<1>4. C1 \subseteq C \/ (C1 \subseteq C \cup {job} /\ next[job] < size[job] /\ Leaves /\ job \in Requests)
  <2>1. \A r \in C1 : r \in Requests
    BY <1>2 DEF Cut
  <2>2. \A r \in C1 : r \notin C => r = job /\ next[r] < size[r] /\ Leaves
    BY <1>2, <2>1, CutOnLeaving
  <2>3. QED
    BY <2>1, <2>2
<1>5. ASSUME kind = "dispatch" PROVE Cardinality(C1) <= faults'
  <2>1. Cardinality(C) <= faults
    BY <1>2, <1>5 DEF CutNeedsFault
  <2>2. CASE C1 \subseteq C
    <3>1. IsFiniteSet(C1) /\ Cardinality(C1) <= Cardinality(C)
      BY <1>3, <2>2, FS_Subset
    <3>2. Cardinality(C1) \in Nat
      BY <3>1, FS_CardinalityType
    <3>3. QED
      BY <1>1, <1>3, <2>1, <3>1, <3>2
  <2>3. CASE C1 \subseteq C \cup {job} /\ next[job] < size[job] /\ Leaves /\ job \in Requests
    <3>1. faults' = faults + 1
      BY <1>5, <2>3 DEF Leaves, Decline, InsertConflict, Finish, Startable, More
    <3>2. PICK j : j = job
      OBVIOUS
    <3>3. IsFiniteSet(C \cup {j}) /\ Cardinality(C \cup {j}) <= Cardinality(C) + 1 /\ Cardinality(C \cup {j}) \in Nat
      BY <1>3, FS_AddElement
    <3>4. C1 \subseteq C \cup {j}
      BY <2>3, <3>2
    <3>5. IsFiniteSet(C1) /\ Cardinality(C1) <= Cardinality(C \cup {j})
      BY <3>3, <3>4, FS_Subset
    <3>6. Cardinality(C1) \in Nat
      BY <3>5, FS_CardinalityType
    <3>7. QED
      BY <1>1, <1>3, <2>1, <3>1, <3>3, <3>5, <3>6
  <2>4. QED
    BY <1>4, <2>2, <2>3
<1>6. ASSUME kind = "export", table, faults' = 0, unsure' = {} PROVE C1 = {}
  <2>1. unsure \subseteq unsure'
    BY Shrinks DEF Check, CountUnread
  <2>2. faults = 0 /\ unsure = {}
    BY <1>1, <1>6, <2>1
  <2>3. C = {}
    BY <1>2, <1>6, <2>2, <1>1 DEF CutNeedsFault
  <2>4. ASSUME C1 # {} PROVE FALSE
    <3>1. next[job] < size[job] /\ Leaves /\ job \in Requests
      BY <1>4, <2>3, <2>4
    <3>2. Decline \/ InsertConflict
      BY <1>6, <2>2, <3>1 DEF Leaves, Finish, More
    <3>3. CASE Decline
      <4>1. link = "reply" /\ ~ FitsCode(job, Rows)
        BY <1>6, <3>3 DEF Decline, Startable
      <4>2. job \in Outstanding
        BY <3>1 DEF Outstanding
      <4>3. size[job] # 0 /\ Rows + Remaining(job) <= CodeLimit
        BY <1>6, <2>2, <4>2 DEF Sure, Certain
      <4>4. next[job] = 0
        BY <3>1, <4>1, AtWork DEF Works
      <4>5. Remaining(job) = size[job]
        <5>1. PICK j \in Requests, n \in Int : j = job /\ n = size[j]
          BY <3>1 DEF TypeOK
        <5>2. Ahead(job) = 0
          BY <4>1 DEF Ahead
        <5>3. QED
          BY <4>4, <5>1, <5>2 DEF Remaining
      <4>6. QED
        BY <4>1, <4>3, <4>5 DEF FitsCode
    <3>4. CASE InsertConflict
      <4>1. link = "busy" /\ coded < Rows
        BY <3>4 DEF InsertConflict, CodeMissing
      <4>2. Rows = coded
        BY <1>6, <2>2, <4>1 DEF RowsOK, Coded
      <4>3. QED
        BY <4>1, <4>2 DEF TypeOK
    <3>5. QED
      BY <3>2, <3>3, <3>4
  <2>5. QED
    BY <2>4
<1>7. kind' = "dispatch" => Cardinality(Cut') <= faults'
  BY <1>1, <1>2, <1>5
<1>8. kind' = "export" /\ table' /\ Cut' # {} => faults' > 0 \/ unsure' # {}
  BY <1>1, <1>2, <1>6
<1>9. QED
  BY <1>7, <1>8 DEF CutNeedsFault

LEMMA InitCut == Init => CutNeedsFault
<1> SUFFICES ASSUME Init PROVE CutNeedsFault
  OBVIOUS
<1>1. Cut = {}
  BY DEF Init, Cut
<1>2. Cardinality(Cut) = 0
  BY <1>1, FS_EmptySet
<1>3. QED
  BY <1>1, <1>2 DEF CutNeedsFault, Init

\* An accepted request is left before its last item only if something failed: for
\* dispatches once for each, and for exports also if requests were counted together
\* or the table is missing.
THEOREM CutShort == Spec => []CutNeedsFault
<1> DEFINE I == TypeOK /\ Lists /\ Works /\ RowsOK /\ Sure /\ CutNeedsFault
<1>1. Init => I
  BY InitTyped, InitLists, InitWorks, InitRows, InitSure, InitCut
<1>2. I /\ [Next]_vars => I'
  BY NextTyped, ListsStep, WorksStep, RowsStep, SureStep, CutStep
<1>3. I => CutNeedsFault
  OBVIOUS
<1> HIDE DEF I
<1>4. QED
  BY <1>1, <1>2, <1>3, PTL DEF Spec

=============================================================================
