---------------------------- MODULE OnsaleWares ----------------------------
(***************************************************************************)
(* The wares of on-sale activities.  An activity sells the wares of its    *)
(* label; a ware is given a label only after a test that no other activity *)
(* of the same time has it.  Two kinds of processes do that: the label     *)
(* server, which takes one request after the other from a Redis list and   *)
(* goes through a name list of its label, and the admin workers, for       *)
(* single wares.  Each step below is one statement or command; test and    *)
(* insert are several, and nothing locks the wares in between.             *)
(***************************************************************************)
EXTENDS OnsaleActivity, Sequences

CONSTANTS
  LabelServer,  \* the label server, a process of its own
  MaxQueue      \* bound on the requests that wait for it

ASSUME WaresAssumption == LabelServer \notin Workers /\ MaxQueue \in Nat

Filers == Workers \cup {LabelServer}
Wares == UNION {s.wares : s \in Scenes}

\* The name lists of a label in Redis, by index of onsale_namelist_prefix; the
\* datum list is what a black list is taken from.
White == 0
Black == 1
Total == 2
Datum == 3

VARIABLES
  onsale,     \* table onsale_warelabelwares: pairs <<label, ware>>, which are unique
  namelist,   \* Redis: namelist[l][k] = the list with index k of label l
  queue,      \* Redis: onsale_label_list, the labels whose list is to be filed
  task,       \* task[f] = what f is doing
  overlooked, \* the wares with a label their last test has not seen
  moved       \* the activities that came, or got their label or their time, after
              \* the beginning

filing == <<onsale, namelist, queue, task, overlooked>>
wares == <<filing, moved>>

\* What a filer does: the label and time it tests for, the items <<label, ware>> it
\* was asked to file, those left, and the one it is about (into, ware).
NoWare == 0
Idle == [step |-> "idle", op |-> "sweep", label |-> NoLabel, start |-> 0, end |-> 0,
         asked |-> {}, todo |-> {}, into |-> NoLabel, ware |-> NoWare, found |-> {}]

Kind(t) == scene.sub_type[t.label]
LabelsOf(x) == {l \in Labels : <<l, x>> \in onsale}

\* Mutants: definitions below with a bug a change could bring in.
Conflict_StartOnly(t, a) ==
  \/ a.start < now /\ now < a.end /\ a.label # t.label
  \/ a.start < t.start /\ t.start < a.end

\* Is a running, or does the activity of t begin or end while a runs?
Conflict(t, a) ==
  \/ a.start < now /\ now < a.end /\ a.label # t.label
  \/ a.start < t.start /\ t.start < a.end
  \/ a.start < t.end /\ t.end < a.end

-----------------------------------------------------------------------------
WaresInit ==
  /\ Init
  /\ onsale = {}
  /\ namelist = [l \in Labels |-> [k \in 0..3 |-> {}]]
  /\ queue = << >>
  /\ task = [f \in Filers |-> Idle]
  /\ overlooked = {}
  /\ moved = {}

On(f, step) == task[f].step = step
Becomes(f, t) == task' = [task EXCEPT ![f] = t]

\* With the next ware, or done.
Loop(t) ==
  IF t.todo = {} THEN Idle
  ELSE [t EXCEPT !.step = CASE t.op = "del" /\ Kind(t) # Black -> "delete"
                            [] t.op = "add" /\ Kind(t) = Black -> "ban"
                            [] OTHER -> "labels"]

Add(l, k, x) == namelist' = [namelist EXCEPT ![l][k] = @ \cup {x}]
Remove(l, k, x) == namelist' = [namelist EXCEPT ![l][k] = @ \ {x}]

(***************************************************************************)
(* addCacheNameList, delCacheNameList, createNameList                      *)
(***************************************************************************)

\* The lists that count for a label.
Lists(l) == CASE scene.sub_type[l] = White -> {White}
              [] scene.sub_type[l] = Black -> {Black, Datum}
              [] OTHER -> {White, Total}

CacheNameList(l, k, x) ==
  /\ Add(l, k, x) \/ Remove(l, k, x)
  /\ UNCHANGED <<vars, onsale, queue, task, overlooked>>

CreateNameList(l) ==
  /\ scene.wares # {} /\ Len(queue) < MaxQueue
  /\ queue' = Append(queue, l)
  /\ UNCHANGED <<vars, onsale, namelist, task, overlooked>>

(***************************************************************************)
(* addWareLabelWares, delWareLabelWares, and the label server's callback   *)
(***************************************************************************)

\* A request about the activity of a label; each of its items has a label of its own.
Asks(w, l, S, op) ==
  /\ At(w, "idle") /\ On(w, "idle")
  /\ scene.serial => \A v \in Workers : At(v, "idle") /\ On(v, "idle")
  /\ Becomes(w, [Idle EXCEPT !.step = "group", !.op = op, !.label = l,
                             !.asked = S, !.todo = S])
  /\ UNCHANGED <<vars, onsale, namelist, queue, overlooked>>

Pop ==
  /\ On(LabelServer, "idle") /\ queue # << >>
  /\ Becomes(LabelServer, [Idle EXCEPT !.step = "group", !.label = Head(queue)])
  /\ queue' = Tail(queue)
  /\ UNCHANGED <<vars, onsale, namelist, overlooked>>

\* query_one: the activity of the label, if there is exactly one.
ReadGroup(f) ==
  /\ On(f, "group")
  /\ LET t == task[f]
         own == {g \in Exist : Row(g).label = t.label}
     IN  IF Cardinality(own) # 1 THEN Becomes(f, Idle)
         ELSE \E g \in own :
           LET u == [t EXCEPT !.start = Row(g).start, !.end = Row(g).end]
           IN  Becomes(f, IF t.op # "sweep"
                          THEN IF t.op = "add" /\ Kind(t) = Black
                               THEN [u EXCEPT !.step = "delete"] ELSE Loop(u)
                          ELSE [u EXCEPT !.step = IF Kind(t) = Black THEN "sizes"
                                                                     ELSE "members"])
  /\ UNCHANGED <<vars, onsale, namelist, queue, overlooked>>

\* An empty black list or datum list is taken for a missing one.
ReadSizes ==
  /\ On(LabelServer, "sizes")
  /\ LET t == task[LabelServer]
     IN  Becomes(LabelServer, IF {} \in {namelist[t.label][Black], namelist[t.label][Datum]}
                              THEN Idle ELSE [t EXCEPT !.step = "members"])
  /\ UNCHANGED <<vars, onsale, namelist, queue, overlooked>>

\* The wares of a white or total list, or those of the datum list not on the black one.
Members(t) ==
  LET lists == namelist[t.label]
  IN  {t.label} \X (IF Kind(t) = Black THEN lists[Datum] \ lists[Black] ELSE lists[Kind(t)])

ReadMembers ==
  /\ On(LabelServer, "members")
  /\ LET t == task[LabelServer]
     IN  Becomes(LabelServer, Loop([t EXCEPT !.todo = Members(t)]))
  /\ UNCHANGED <<vars, onsale, namelist, queue, overlooked>>

\* The other labels the next ware has.
ReadLabels(f) ==
  /\ On(f, "labels")
  /\ \E i \in task[f].todo :
       Becomes(f, [task[f] EXCEPT !.step = "groups", !.into = i[1], !.ware = i[2],
                                  !.todo = @ \ {i},
                                  !.found = LabelsOf(i[2]) \ {task[f].label}])
  /\ UNCHANGED <<vars, onsale, namelist, queue, overlooked>>

\* A ware whose labels have an activity at the same time is passed over.
TestGroups(f) ==
  /\ On(f, "groups")
  /\ LET t == task[f]
         others == {Row(g) : g \in {h \in Exist : Row(h).label \in t.found}}
     IN  Becomes(f, IF \E a \in others : Conflict(t, a) THEN Loop(t)
                    ELSE [t EXCEPT !.step = "insert"])
  /\ UNCHANGED <<vars, onsale, namelist, queue, overlooked>>

\* The ware goes under the label of the item, which need not be the one tested.
DoInsertWare(t) ==
  /\ onsale' = onsale \cup {<<t.into, t.ware>>}
  /\ overlooked' = IF t.into = t.label /\ LabelsOf(t.ware) \subseteq t.found \cup {t.label}
                   THEN overlooked ELSE overlooked \cup {t.ware}

\* The label server goes on; an admin worker notes the ware in the name list.
AfterInsert(t) == IF t.op = "sweep" THEN Loop(t) ELSE [t EXCEPT !.step = "list"]

InsertWare(f) ==
  /\ On(f, "insert")
  /\ DoInsertWare(task[f])
  /\ Becomes(f, AfterInsert(task[f]))
  /\ UNCHANGED <<vars, namelist, queue>>

\* sadd after an addition, srem after a deletion: to the white list for a label
\* that has the total list too.
ListWare(w) ==
  /\ On(w, "list")
  /\ LET t == task[w]
         k == IF Kind(t) = Black THEN Black ELSE White
     IN  /\ IF t.op = "add" THEN Add(t.label, k, t.ware) ELSE Remove(t.label, k, t.ware)
         /\ Becomes(w, Loop(t))
  /\ UNCHANGED <<vars, onsale, queue, overlooked>>

\* Wares that are banned are deleted first, then all added to the black list;
\* wares that are no longer wanted leave table and list one after the other.
DeleteWare(w) ==
  /\ On(w, "delete")
  /\ \E i \in task[w].todo :
       LET t == [task[w] EXCEPT !.todo = @ \ {i}, !.into = i[1], !.ware = i[2]]
       IN  /\ onsale' = onsale \ {i}
           /\ Becomes(w, IF t.op = "del" THEN [t EXCEPT !.step = "list"]
                         ELSE IF t.todo = {} THEN Loop([t EXCEPT !.todo = t.asked])
                         ELSE t)
  /\ UNCHANGED <<vars, namelist, queue, overlooked>>

BanWare(w) ==
  /\ On(w, "ban")
  /\ \E i \in task[w].todo :
       /\ Add(task[w].label, Black, i[2])
       /\ Becomes(w, Loop([task[w] EXCEPT !.todo = @ \ {i}]))
  /\ UNCHANGED <<vars, onsale, queue, overlooked>>

\* A process dies or gives up; or it goes on after a statement that failed: one
\* that reads answers nothing then, and no label or activity is no conflict.
FilerFails(f) ==
  /\ ~ On(f, "idle")
  /\ faults < MaxFaults /\ faults' = faults + 1
  /\ LET t == task[f]
     IN  \/ Becomes(f, Idle) /\ UNCHANGED <<onsale, overlooked>>
         \/ On(f, "labels") /\ UNCHANGED <<onsale, overlooked>> /\ \E i \in t.todo :
              Becomes(f, [t EXCEPT !.step = "groups", !.into = i[1], !.ware = i[2],
                                   !.todo = @ \ {i}, !.found = {}])
         \/ /\ On(f, "groups") /\ UNCHANGED <<onsale, overlooked>>
            /\ Becomes(f, [t EXCEPT !.step = "insert", !.found = {}])
         \/ /\ On(f, "insert")
            /\ \/ DoInsertWare(t) /\ Becomes(f, Idle)
               \/ UNCHANGED <<onsale, overlooked>> /\ Becomes(f, AfterInsert(t))
         \/ /\ On(f, "delete") /\ UNCHANGED overlooked
            /\ \E i \in t.todo : onsale' = onsale \ {i}
            /\ Becomes(f, Idle)
         \/ On(f, "list") /\ Becomes(f, Loop(t)) /\ UNCHANGED <<onsale, overlooked>>
         \/ On(f, "ban") /\ UNCHANGED <<onsale, overlooked>> /\ \E i \in t.todo :
              Becomes(f, Loop([t EXCEPT !.todo = @ \ {i}]))
  /\ UNCHANGED <<table, now, local, scene, namelist, queue>>

-----------------------------------------------------------------------------
\* The activities, whose requests the admin workers serve too; a row that is over
\* after it is written, its label kept, is not moved but closed.
Moves ==
  {g \in Exist' : g \in Exist =>
     \/ Row(g)'.label # Row(g).label
     \/ /\ now < Row(g)'.end
        /\ <<Row(g)'.start, Row(g)'.end>> # <<Row(g).start, Row(g).end>>}

NextOfActivities ==
  /\ Next
  /\ \A w \in Workers : At(w, "idle") /\ pc'[w] # "idle" =>
       \A v \in Workers : v = w \/ scene.serial => On(v, "idle")
  /\ moved' = moved \cup Moves
  /\ UNCHANGED filing

NextOfFilers ==
  \/ \E l \in scene.labels :
       \/ \E k \in Lists(l), x \in scene.wares : CacheNameList(l, k, x)
       \/ CreateNameList(l)
       \/ \E w \in Workers, S \in (SUBSET (scene.labels \X scene.wares)) \ {{}},
             op \in scene.asks \cap {"add", "del"} : Asks(w, l, S, op)
  \/ Pop \/ ReadSizes \/ ReadMembers
  \/ \E f \in Filers :
       ReadGroup(f) \/ ReadLabels(f) \/ TestGroups(f) \/ InsertWare(f) \/ FilerFails(f)
  \/ \E w \in Workers : ListWare(w) \/ DeleteWare(w) \/ BanWare(w)

WaresNext == NextOfActivities \/ (NextOfFilers /\ UNCHANGED moved)

WaresSpec == WaresInit /\ [][WaresNext]_<<vars, wares>>

-----------------------------------------------------------------------------
\* Only labels of the scene have wares, lists and requests; what a filer is doing
\* concerns them too.
WaresTypeOK ==
  /\ TypeOK
  /\ onsale \subseteq scene.labels \X scene.wares
  /\ namelist \in [Labels -> [0..3 -> SUBSET scene.wares]]
  /\ queue \in Seq(scene.labels) /\ Len(queue) <= MaxQueue
  /\ \A f \in Filers :
       /\ task[f].step \in {"idle", "group", "sizes", "members", "labels", "groups",
                           "insert", "list", "delete", "ban"}
       /\ task[f].op \in {"sweep", "add", "del"}
       /\ task[f].label \in scene.labels \cup {NoLabel}
       /\ task[f].asked \cup task[f].todo \subseteq scene.labels \X scene.wares
       /\ task[f].into \in scene.labels \cup {NoLabel}
       /\ task[f].ware \in scene.wares \cup {NoWare}
       /\ task[f].found \subseteq scene.labels \ {task[f].label}
  /\ overlooked \subseteq scene.wares /\ moved \subseteq Exist

InTime(g) == Row(g).start < now /\ now < Row(g).end
Within(g, h) == Row(h).start <= Row(g).start /\ Row(g).end <= Row(h).end

\* A ware is sold by at most one activity at a time, in whatever order wares are
\* filed, swept, and deleted and activities closed - but for (1) an activity within
\* the time of another, or of the same time, which the test does not notice, (2) a
\* ware that got a label behind the back of another filer's test, or was filed under
\* another label than tested, or whose test failed, and (3) an activity whose time or
\* label was changed, after which no ware is tested again.
OneSale ==
  \A x \in Wares \ overlooked, g, h \in Exist \ moved :
    /\ g # h /\ InTime(g) /\ InTime(h)
    /\ {Row(g).label, Row(h).label} \subseteq LabelsOf(x)
    => Within(g, h) \/ Within(h, g)

=============================================================================
