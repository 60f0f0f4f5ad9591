------------------------------ MODULE Services ------------------------------
(***************************************************************************)
(* The services behind the app and the windows that show them: a task with *)
(* its WhatsApp group (TaskGroup) and the tasks as the browser shows them  *)
(* (TaskView), the linking of a line (Setup), the settings of groups       *)
(* (GroupSettings) and the list of chats (ChatList).  They share no state, *)
(* which is why a behaviour moves one of them only, chosen at the start,   *)
(* and the others keep their initial state: TLC sees the sum of their      *)
(* states and not the product.                                             *)
(***************************************************************************)
EXTENDS TaskGroup

CONSTANTS Tasks, NoTask, MaxWrites, MaxOpens, MaxLists,
          Sessions, NoSession, Flows, MaxPolls, MaxClicks,
          Instances, Groups, Calls, MaxAsks,
          Chats, NoAct, MaxTime, MaxLoads, MaxActs

ASSUME ViewBounds == {MaxWrites, MaxOpens, MaxLists} \subseteq Nat
ASSUME LinkBounds == {MaxPolls, MaxClicks} \subseteq Nat
ASSUME NoSessionIsNone == NoSession \notin Sessions
ASSUME MoreBounds == MaxAsks \in Nat /\ MaxTime \in Nat \ {0} /\ MaxActs \in Nat

VARIABLES part,
          table, born, list, lists, selected, detail, loads, changing, saves,
          writes, opens, crossed, misread,
          session, code, paired, dialing, rows, linked, flows, open, view,
          busy, pending, seen, polls, ended, step, torn, kept, clicks,
          authorised, active, tab, groups, fetched, fetching, net, disturbed, asks,
          now, store, current, chats, read, begun, reloads, act, fresh, marked, acts

Task  == INSTANCE TaskView
Link  == INSTANCE Setup WITH list <- linked
Tab   == INSTANCE GroupSettings WITH table <- authorised, Requests <- Calls
Talks == INSTANCE ChatList WITH loads <- reloads

groupVars == <<task, group, row, members, made, refused, strayed, archived, connected,
               last, req, raced, adrift>>
taskVars == <<table, born, list, lists, selected, detail, loads, changing, saves,
              writes, opens, crossed, misread>>
linkVars == <<session, code, paired, dialing, rows, linked, flows, open, view,
              busy, pending, seen, polls, ended, step, torn, kept, clicks>>
tabVars == <<authorised, active, tab, groups, fetched, fetching, net, disturbed, asks>>
talkVars == <<now, store, current, chats, read, begun, reloads, act, fresh, marked,
              acts>>
allVars == <<part, groupVars, taskVars, linkVars, tabVars, talkVars, faults>>

ServicesInit ==
  /\ part \in {"group", "tasks", "link", "tab", "talks"}
  /\ Init /\ Task!Init /\ Link!Init /\ Tab!Init /\ Talks!Init
  /\ part # "group" => connected
  /\ part # "tab" => authorised = [i \in Instances |-> [g \in Groups |-> "none"]]

ServicesNext ==
  /\ UNCHANGED part
  /\ \/ /\ part = "group" /\ Next
        /\ UNCHANGED <<taskVars, linkVars, tabVars, talkVars>>
     \/ /\ part = "tasks" /\ Task!Next
        /\ UNCHANGED <<groupVars, linkVars, tabVars, talkVars>>
     \/ /\ part = "link" /\ Link!Next
        /\ UNCHANGED <<groupVars, taskVars, tabVars, talkVars>>
     \/ /\ part = "tab" /\ Tab!Next
        /\ UNCHANGED <<groupVars, taskVars, linkVars, talkVars>>
     \/ /\ part = "talks" /\ Talks!Next
        /\ UNCHANGED <<groupVars, taskVars, linkVars, tabVars>>

ServicesSpec == ServicesInit /\ [][ServicesNext]_allVars

\* The fairness of TaskView and ChatList.
ServicesFairness ==
  /\ WF_(Task!vars)(part = "tasks" /\ \E i \in 1 .. MaxLists : Task!Load(i))
  /\ \A i \in 1 .. MaxLists : WF_(Task!vars)(part = "tasks" /\ Task!Loaded(i))
  /\ WF_(Task!vars)(part = "tasks" /\ \E r \in saves : Task!Saved(r))
  /\ WF_(Task!vars)(part = "tasks" /\ \E r \in loads : Task!Opened(r))
  /\ WF_(Task!vars)(part = "tasks" /\ \E t \in changing : Task!Changed(t))
  /\ WF_(Talks!vars)(part = "talks" /\ Talks!Poll)
  /\ WF_(Talks!vars)(part = "talks" /\ \E l \in reloads : Talks!Loaded(l))

(***************************************************************************)
(* The properties of the modules, where each states and explains its own;  *)
(* OneGroup and JoinedAreMembers are TaskGroup's.                          *)
(***************************************************************************)

\* The type invariants of the modules.
ServicesTypeOK ==
  TypeOK /\ Task!TypeOK /\ Link!TypeOK /\ Tab!TypeOK /\ Talks!TypeOK

\* The dialog of a task acts on the task it shows (useTasks.ts:138-157).
DetailIsSelected == Task!DetailIsSelected

\* Rows and sessions of lines go together (api/instances/route.ts:78-114).
RowsMatchSessions == Link!RowsMatchSessions

\* The settings window shows the code of the instance being linked and the
\* groups of the active one as they are stored (SettingsModal.tsx:102-330), and
\* the list of chats lights up for what the user has not read (useChats.ts:57-249).
ScreenIsTrue == Link!CodeIsPendings /\ Tab!GroupsAgree /\ Talks!UnreadIsNew

\* The list of tasks comes to be the table (useTasks.ts:48-133).
ListConverges == part = "tasks" => Task!ListConverges

\* Unread chats come to be shown so (useChats.ts:57-162).
UnreadShows == part = "talks" => Talks!UnreadShows
=============================================================================
