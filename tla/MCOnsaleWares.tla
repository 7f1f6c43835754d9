--------------------------- MODULE MCOnsaleWares ---------------------------
(* Instances of OnsaleActivity and OnsaleWares for TLC. *)
EXTENDS OnsaleWares, TLC

\* Nothing there at first; an activity is created for the time after a tick.
Page(l, status, start, end) ==
  [slug |-> NoSlug, label |-> l, status |-> status, start |-> start, end |-> end]
Pages(ls) == {Page(l, status, 1, 3) : l \in ls, status \in {Pending, Online, Refused}}
Bare == [serial |-> FALSE, rows |-> [g \in Ids |-> {}], sent |-> Pages({NoLabel}),
         labels |-> {}, maxId |-> 2, maxTime |-> 2,
         sub_type |-> <<0, 1>>, wares |-> {},
         asks |-> {"create", "update", "steps", "offline"}]

\* One request at a time with a ware label; every interleaving on one activity
\* while time passes; every interleaving on two activities, in one moment.
MCActivities ==
  {[Bare EXCEPT !.serial = TRUE, !.labels = {1, 2}, !.sent = Pages({NoLabel, 1})],
   [Bare EXCEPT !.maxId = 1],
   [Bare EXCEPT !.maxTime = 0]}

\* Two approved activities whose wares are filed: their times and their labels'
\* kinds, and what is asked.
There(g, p) == {[slug |-> g, label |-> g, status |-> Online, start |-> p[1], end |-> p[2]]}
Filed(p, q, kinds, asks) ==
  [Bare EXCEPT !.serial = TRUE, !.rows = <<There(1, p), There(2, q)>>, !.sent = {},
               !.labels = {1, 2}, !.sub_type = kinds, !.wares = {1},
               !.asks = asks]

\* The wares of two activities that overlap, and of one within the other; two that
\* are taken offline, or are moved to the time or the label of the other.
MCFiled ==
  {Filed(<<0, 3>>, <<1, 4>>, <<White, Black>>, {"add"}),
   Filed(<<0, 4>>, <<1, 3>>, <<Total, White>>, {"del"}),
   Filed(<<0, 3>>, <<1, 4>>, <<White, White>>, {"offline"}),
   [Filed(<<-1, 2>>, <<0, 3>>, <<White, White>>, {"update"}) EXCEPT
      !.maxTime = 1,
      !.sent = {Page(1, Pending, 0, 3), Page(NoLabel, Pending, 0, 3)}]}

MCScenes == MCActivities \cup MCFiled

WorkerSymmetry == Permutations(Workers)
=============================================================================
