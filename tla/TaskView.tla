-------------------------------- MODULE TaskView --------------------------------
(***************************************************************************)
(* The user's tasks as the browser shows them: the list, its loads and     *)
(* its own changes, and the one task in the dialog (hooks/useTasks.ts,     *)
(* TaskListPanel.tsx, TaskCreateModal.tsx, TaskDetailModal.tsx, page.tsx). *)
(*                                                                         *)
(* Answers are taken in the order they come, whatever was asked since:     *)
(* loads of the list overlap, and a change of the participants is followed *)
(* by a load of its task, whichever is selected by then.  The dialog shows *)
(* the detail loaded last but acts on the task selected.                   *)
(* A task's content is who wrote it last: a version number.  A fault is a  *)
(* request that is answered with an error.                                 *)
(***************************************************************************)
EXTENDS Naturals

CONSTANTS Tasks,
          NoTask,
          MaxWrites,   \* bound: how many times tasks are created, saved or deleted
          MaxOpens,    \* bound: how many times a task is opened
          MaxLists,    \* bound: how many loads of the list are under way at once
          MaxFaults    \* bound: how many requests fail

VARIABLES table,     \* the version of every task in the table, 0 for none
          born,      \* the tasks there have been: a new one gets an id of its own
          list,      \* what the list shows: a version of some tasks, 0 for none
          lists,     \* what each load of the list may find: the tables since, none if it is over
          selected,  \* selectedTask
          detail,    \* useTaskDetail's task and its version
          loads,     \* the loads of a detail under way: the task, and its version
          changing,  \* the tasks a participant of which is being added or removed
          saves,     \* this page's changes under way: the task, its version, whether it went well
          writes, opens, faults,
          crossed,   \* history: beside or after the last load of the selected task another's ran
          misread    \* history: the last load of the selected task failed or found none

net     == <<lists, loads, changing, saves>>
counts  == <<writes, opens, faults>>
history == <<crossed, misread>>
vars    == <<table, born, list, selected, detail, net, counts, history>>

Blank == [of |-> NoTask, at |-> 0]

Init ==
  /\ table = [t \in Tasks |-> 0] /\ list = table /\ born = {}
  /\ lists = [i \in 1 .. MaxLists |-> {}]
  /\ selected = NoTask /\ detail = Blank
  /\ loads = {} /\ changing = {} /\ saves = {}
  /\ writes = 0 /\ opens = 0 /\ faults = 0
  /\ crossed = FALSE /\ misread = FALSE

Fault == faults < MaxFaults /\ faults' = faults + 1

-----------------------------------------------------------------------------
(* The list.                                                               *)

\* The list is loaded when the page opens, every 30 s and when the tab shows,
\* whether or not it is being loaded.
Load(i) ==
  /\ lists[i] = {}
  /\ lists' = [lists EXCEPT ![i] = {table}]
  /\ UNCHANGED <<table, born, list, selected, detail, loads, changing, saves, counts, history>>

\* Mutant of Loaded: an answer only ever adds to the list.
LoadedMore(i) ==
  /\ lists[i] # {}
  /\ lists' = [lists EXCEPT ![i] = {}]
  /\ \/ list' \in {[t \in Tasks |-> IF list[t] = 0 THEN s[t] ELSE list[t]] : s \in lists[i]}
        /\ UNCHANGED faults
     \/ Fault /\ UNCHANGED list
  /\ UNCHANGED <<table, born, selected, detail, loads, changing, saves, writes, opens, history>>

\* The answer, as of some moment since its sending, replaces the list.
Loaded(i) ==
  /\ lists[i] # {}
  /\ lists' = [lists EXCEPT ![i] = {}]
  /\ \/ list' \in lists[i] /\ UNCHANGED faults
     \/ Fault /\ UNCHANGED list
  /\ UNCHANGED <<table, born, selected, detail, loads, changing, saves, writes, opens, history>>

\* A change of t is served: one of another page's reaches the table, one of
\* this page's may fail instead and is answered.
Write(t, v, kind, own) ==
  /\ writes < MaxWrites
  /\ writes' = writes + 1
  /\ \E ok \in {TRUE} \cup (IF own THEN {FALSE} ELSE {}) :
       /\ IF ok THEN UNCHANGED faults ELSE Fault
       /\ table' = IF ok THEN [table EXCEPT ![t] = v] ELSE table
       /\ born' = IF ok THEN born \cup {t} ELSE born
       /\ saves' = IF own THEN saves \cup {[of |-> t, at |-> v, kind |-> kind, ok |-> ok]}
                         ELSE saves
  /\ lists' = [i \in 1 .. MaxLists |-> IF lists[i] = {} THEN {} ELSE lists[i] \cup {table'}]
  /\ UNCHANGED <<list, selected, detail, loads, changing, opens, history>>

\* handleSubmit and createTask.
Create(t, own) == t \notin born /\ Write(t, writes + 1, "create", own)

\* deleteTask, after a question.
Delete(t, own) == table[t] # 0 /\ (own => selected = t) /\ Write(t, 0, "delete", own)

\* The answer to a change of this page's: the list takes it over if it went
\* well, a change only of a task that is listed.  (A new task that a load has
\* brought already is listed twice until the next one: here, once.)  A deletion
\* closes the dialog, whatever it shows by then and however it was answered.
Saved(r) ==
  /\ saves' = saves \ {r}
  /\ list' = IF r.ok /\ (r.kind = "update" => list[r.of] # 0)
               THEN [list EXCEPT ![r.of] = r.at] ELSE list
  /\ selected' = IF r.kind = "delete" THEN NoTask ELSE selected
  /\ UNCHANGED <<table, born, detail, lists, loads, changing, counts, history>>

-----------------------------------------------------------------------------
(* The dialog.                                                             *)

\* The detail of t is loaded.
Ask(t) ==
  /\ loads' = loads \cup {[of |-> t, at |-> table[t]]}
  /\ crossed' = (t # selected' \/ \E l \in loads : l.of # t)
  /\ misread' = (misread /\ t # selected')

\* A task of the list is opened, and its detail loaded.
Open(t) ==
  /\ list[t] # 0 /\ selected = NoTask
  /\ opens < MaxOpens
  /\ opens' = opens + 1
  /\ selected' = t
  /\ Ask(t)
  /\ UNCHANGED <<table, born, list, detail, lists, changing, saves, writes, faults>>

\* Mutant of Opened: the answer to a load of another task is shown.
OpenedFirst(r) ==
  /\ loads' = loads \ {r}
  /\ detail' = (IF detail = Blank THEN r ELSE detail)
  /\ UNCHANGED <<table, born, list, selected, lists, changing, saves, counts, history>>

\* The answer: shown, whichever task is selected by then.  An error, or a task
\* that is gone, changes nothing.
Opened(r) ==
  /\ loads' = loads \ {r}
  /\ \/ r.at # 0 /\ detail' = r /\ UNCHANGED <<faults, misread>>
     \/ r.at = 0 /\ misread' = TRUE /\ UNCHANGED <<detail, faults>>
     \/ Fault /\ misread' = TRUE /\ UNCHANGED detail
  /\ UNCHANGED <<table, born, list, selected, lists, changing, saves, writes, opens, crossed>>

\* The dialog closes; the detail stays for the next task.
Close ==
  /\ selected # NoTask
  /\ selected' = NoTask
  /\ UNCHANGED <<table, born, list, detail, net, counts, history>>

\* handleSave, and the button of the next status: what the dialog holds, filled
\* from a detail, goes to the selected task.
Save ==
  /\ selected # NoTask /\ detail # Blank /\ table[selected] # 0
  /\ Write(selected, writes + 1, "update", TRUE)

\* A participant of the selected task is added or removed.
Change ==
  /\ selected # NoTask
  /\ changing' = changing \cup {selected}
  /\ UNCHANGED <<table, born, list, selected, detail, lists, loads, saves, counts, history>>

\* The answer, good or bad: the detail is loaded again of the task that it was
\* asked for, whichever is selected by now; not if the request breaks.
Changed(t) ==
  /\ UNCHANGED <<table, born, list, selected, detail, lists, saves, writes, opens>>
  /\ changing' = changing \ {t}
  /\ \/ Ask(t) /\ UNCHANGED faults
     \/ Fault /\ UNCHANGED <<loads, history>>

Next ==
  \/ Close \/ Save \/ Change
  \/ \E i \in 1 .. MaxLists : Load(i) \/ Loaded(i)
  \/ \E t \in Tasks : Open(t)
  \/ \E t \in Tasks, own \in BOOLEAN : Create(t, own) \/ Delete(t, own)
  \/ \E r \in saves : Saved(r)
  \/ \E r \in loads : Opened(r)
  \/ \E t \in changing : Changed(t)

Spec == Init /\ [][Next]_vars

\* The interval ticks while the tab is shown, and requests end.
FairSpec ==
  /\ Spec
  /\ WF_vars(\E i \in 1 .. MaxLists : Load(i))
  /\ \A i \in 1 .. MaxLists : WF_vars(Loaded(i))
  /\ WF_vars(\E r \in saves : Saved(r))
  /\ WF_vars(\E r \in loads : Opened(r))
  /\ WF_vars(\E t \in changing : Changed(t))

-----------------------------------------------------------------------------
(* Properties.                                                             *)

\* The type invariant.
TypeOK ==
  LET Versions == [of : Tasks, at : 0 .. MaxWrites] IN
  /\ {table, list} \subseteq [Tasks -> 0 .. MaxWrites]
  /\ lists \in [1 .. MaxLists -> SUBSET [Tasks -> 0 .. MaxWrites]]
  /\ born \subseteq Tasks
  /\ selected \in Tasks \cup {NoTask}
  /\ detail \in Versions \cup {Blank}
  /\ loads \subseteq Versions /\ changing \subseteq Tasks
  /\ saves \subseteq [of : Tasks, at : 0 .. MaxWrites,
                  kind : {"create", "update", "delete"}, ok : BOOLEAN]
  /\ writes \in 0 .. MaxWrites /\ opens \in 0 .. MaxOpens /\ faults \in 0 .. MaxFaults
  /\ {crossed, misread} \subseteq BOOLEAN

\* The dialog acts on the task it shows, once the loads are answered, whatever
\* was opened, closed and changed before - unless beside or after the last load
\* of that task the detail of another one was loaded (of a task shown before, or
\* after a change of its participants), or its own load failed: then another
\* task's detail may have come last, or stayed.
DetailIsSelected ==
  selected # NoTask /\ loads = {} /\ ~crossed /\ ~misread => detail.of = selected

\* When the tasks are left alone, the list is the table in the end, however
\* the loads, the answers to this page's changes and those of others crossed.
ListConverges == <>[](list = table)

=============================================================================
