--------------------------- MODULE TaskDirectory ----------------------------
(***************************************************************************)
(* The Tasks bound to one thread as the conversation sees them: the order  *)
(* in which they were last interacted with, focus and last reference, and  *)
(* the selectors by which a user's words name a Task.                      *)
(***************************************************************************)
EXTENDS Naturals, Sequences

CONSTANTS Task, None

VARIABLES
  order,     \* the bound Tasks, last_interacted_at DESC
  ended,     \* those with terminal_at set
  focus,     \* conversation_task_focus
  reference  \* conversation_task_reference

Bound == {order[i] : i \in DOMAIN order}

ToFront(t) == <<t>> \o SelectSeq(order, LAMBDA u : u # t)

(* createTaskBinding, in one transaction.                                  *)
BindTask(t) ==
  /\ order' = ToFront(t)
  /\ focus' = t /\ reference' = t
  /\ UNCHANGED ended

(* touchTaskReference                                                      *)
TouchTask(t) ==
  /\ order' = ToFront(t)
  /\ reference' = t
  /\ UNCHANGED <<focus, ended>>

(* setFocusedTask                                                          *)
FocusTask(t) ==
  /\ order' = ToFront(t)
  /\ focus' = t /\ reference' = t
  /\ UNCHANGED ended

(* updateTaskBinding records a final state; the order is left alone.       *)
EndTask(t) ==
  /\ t \in Bound \ ended
  /\ ended' = ended \cup {t}
  /\ UNCHANGED <<order, focus, reference>>

(* listActiveTasksForChat and listRecentTasksForChat                       *)
ActiveTasks == SelectSeq(order, LAMBDA t : t \notin ended)
RecentTasks == SelectSeq(order, LAMBDA t : t \in ended)

-----------------------------------------------------------------------------
(* A snapshot is what loadTaskDirectory read with four statements. The     *)
(* entries that a selector matches; a Task is resolved if it is one entry. *)
Selector(Ordinal) ==
  [by : {"focused", "latest", "previous", "only_active"}, arg : {None}]
    \cup [by : {"task"}, arg : Task] \cup [by : {"ordinal"}, arg : Ordinal]

Listed(snapshot) == snapshot.active \o snapshot.recent

Entries(snapshot, t) == SelectSeq(Listed(snapshot), LAMBDA u : u = t)

(* fitTasks: of the active Tasks, then of the ended ones, the first that   *)
(* there is room for.                                                      *)
Fitting(s, room) == SubSeq(s, 1, IF room < Len(s) THEN room ELSE Len(s))

Cut(snapshot, room) ==
  LET active == Fitting(snapshot.active, room)
  IN  [snapshot EXCEPT !.active = active,
                       !.recent = Fitting(@, room - Len(active))]

FirstOf(s) == IF s = <<>> THEN <<>> ELSE <<Head(s)>>

Matches(selector, snapshot) ==
  LET all == Listed(snapshot)
  IN  CASE selector.by = "task"        -> Entries(snapshot, selector.arg)
        [] selector.by = "ordinal"     ->
             IF selector.arg \in DOMAIN all THEN <<all[selector.arg]>> ELSE <<>>
        [] selector.by = "focused"     -> Entries(snapshot, snapshot.focus)
        [] selector.by = "latest"      -> FirstOf(all)
        [] selector.by = "previous"    ->
             IF snapshot.recent # <<>> THEN <<Head(snapshot.recent)>>
             ELSE FirstOf(Entries(snapshot, snapshot.reference))
        [] selector.by = "only_active" -> snapshot.active

Resolves(selector, snapshot, t) == Matches(selector, snapshot) = <<t>>
=============================================================================
