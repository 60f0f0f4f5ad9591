------------------------------- MODULE TaskGroup -------------------------------
(***************************************************************************)
(* One task, its participants and its WhatsApp group: the routes that      *)
(* create, change and delete it and add and remove its participants        *)
(* (api/tasks and api/tasks/[id]).                                         *)
(*                                                                         *)
(* Between its queries and its calls to waclaw a request is overtaken by   *)
(* others.  The routes look at the errors of waclaw but at few of the      *)
(* tables', and waclaw does not look at what WhatsApp says of every        *)
(* contact: a group made or changed without some of them is a success      *)
(* (httpserver/task_groups.go).  A fault is a query that fails, a call     *)
(* that fails before or after WhatsApp has acted, and a request that the   *)
(* platform ends where it is.                                              *)
(***************************************************************************)
EXTENDS Naturals, FiniteSets

CONSTANTS Contacts,
          MaxRequests,  \* bound: requests, which are 1 .. MaxRequests; each creates a group at most
          MaxFaults     \* bound: how many faults there are

ASSUME BoundsAreNumbers == MaxRequests \in Nat /\ MaxFaults \in Nat

Requests == 1 .. MaxRequests

VARIABLES task,       \* the row: not there yet, one of its statuses, or deleted
          group,      \* wa_group_jid: none, or the request that created the group
          row,        \* the participants' rows: none, joined or join_failure
          members,    \* the members of every group, by the request that created it
          made,       \* the requests that have had WhatsApp create a group
          archived,   \* the groups renamed as archived
          connected,  \* the instance of the task, or a fallback, has a session
          last,       \* how many requests there have been
          req,        \* the requests: kind, contacts, what they do next, what they have read
          raced,      \* history: requests that create or fill groups have overlapped
          adrift,     \* history: the session or the task has gone, or a fault gone unnoticed
          refused,    \* history: the contacts whom WhatsApp did not add or remove last time
          strayed,    \* history: the requests that have not heard of the group created
          faults

stored  == <<task, group, row>>
whats   == <<members, made, refused, strayed, archived>>
history == <<raced, adrift>>
vars    == <<stored, whats, connected, last, req, history, faults>>

NoGroup == 0

\* To the routes open, in_progress and resolved are alike.
Statuses == {"open", "closed"}

\* A request that is not made yet, and one that is over.
Unmade == [kind |-> "none", who |-> {}, at |-> "none", group |-> NoGroup, failed |-> FALSE]
AtWork(r) == req[r].at \notin {"none", "over"}

Init ==
  /\ task = "none" /\ group = NoGroup
  /\ row = [c \in Contacts |-> "none"]
  /\ members = [r \in Requests |-> {}] /\ made = {} /\ archived = {}
  /\ connected \in BOOLEAN
  /\ last = 0
  /\ req = [r \in Requests |-> Unmade]
  /\ raced = FALSE /\ adrift = FALSE /\ refused = {} /\ strayed = {}
  /\ faults = 0

Fault == faults < MaxFaults /\ faults' = faults + 1

\* A fault, and one that nobody looks at.
Noticed   == Fault /\ UNCHANGED adrift
Unnoticed == Fault /\ adrift' = TRUE
Fine      == UNCHANGED <<adrift, faults>>

\* The request r goes on at a, or starts there.
Goes(r, a) == req' = [req EXCEPT ![r].at = a]
Starts(kind, who, a) ==
  /\ last < MaxRequests
  /\ last' = last + 1
  /\ req' = [req EXCEPT ![last + 1] = [kind |-> kind, who |-> who, at |-> a,
                                        group |-> NoGroup, failed |-> FALSE]]
  /\ raced' = (raced \/ (who # {} /\ \E r \in Requests : AtWork(r) /\ req[r].who # {}))

-----------------------------------------------------------------------------
(* waclaw: WhatsApp takes the contacts it likes, and the answer is the same. *)

\* A group of the request r's.
MakeGroup(r) ==
  /\ \E some \in SUBSET req[r].who :
       /\ members' = [members EXCEPT ![r] = some]
       /\ refused' = (refused \ req[r].who) \cup (req[r].who \ some)
  /\ made' = made \cup {r}

\* Contacts come into the group g, or leave it.
Admit(g, who) ==
  \E some \in SUBSET who :
    /\ members' = [members EXCEPT ![g] = @ \cup some]
    /\ refused' = (refused \ who) \cup (who \ members'[g])

Dismiss(g, who) ==
  \E some \in SUBSET who :
    /\ members' = [members EXCEPT ![g] = @ \ some]
    /\ refused' = (refused \ who) \cup (who \cap members'[g])

-----------------------------------------------------------------------------
(* Creating the task.                                                      *)

\* POST /api/tasks: without a session no group can be asked for.  The rows of
\* the task and of its owner are inserted.
Create(who) ==
  /\ task = "none"
  /\ who # {} => connected
  /\ task' = "open"
  /\ Starts("create", who, IF who = {} THEN "over" ELSE "group")
  /\ UNCHANGED <<group, row, whats, connected, adrift, faults>>

\* The group is asked for; without a good answer the task stays without one,
\* whether WhatsApp has created it or not.
CreateGroup(r) ==
  /\ req[r].kind = "create" /\ req[r].at = "group"
  /\ \/ MakeGroup(r) /\ Goes(r, "record") /\ Fine /\ UNCHANGED strayed
     \/ MakeGroup(r) /\ Goes(r, "over") /\ Noticed /\ strayed' = strayed \cup {r}
     \/ Noticed /\ Goes(r, "over") /\ UNCHANGED <<members, made, refused, strayed>>
  /\ UNCHANGED <<stored, archived, connected, last, raced>>

\* Record the group in the task's row; an error goes unnoticed.  For an added
\* contact the invitation follows, and is taken for a failed join if it breaks.
Record(r) ==
  /\ req[r].at = "record"
  /\ \/ group' = (IF task \in Statuses THEN r ELSE group) /\ Goes(r, "insert") /\ Fine
     \/ UNCHANGED group /\ Goes(r, "insert") /\ Unnoticed
     \/ /\ req[r].kind = "add"
        /\ group' = (IF task \in Statuses THEN r ELSE group)
        /\ req' = [req EXCEPT ![r].at = "insert", ![r].failed = TRUE]
        /\ Unnoticed
  /\ UNCHANGED <<task, row, whats, connected, last, raced>>

\* Insert the rows of its members, and invite them.
InsertAll(r) ==
  /\ req[r].kind = "create" /\ req[r].at = "insert"
  /\ Goes(r, "over")
  /\ \E some \in SUBSET req[r].who :
       /\ IF some = req[r].who THEN Fine ELSE Unnoticed
       /\ row' = [c \in Contacts |-> IF c \in some /\ task \in Statuses /\ row[c] = "none"
                                       THEN "joined" ELSE row[c]]
  /\ UNCHANGED <<task, group, whats, connected, last, raced>>

-----------------------------------------------------------------------------
(* Participants.                                                           *)

\* POST participants, for a task that is or has been there.
Add(c) ==
  /\ task # "none"
  /\ Starts("add", {c}, "read")
  /\ UNCHANGED <<stored, whats, connected, adrift, faults>>

\* Mutant of ReadTask: the group in the task's row is not looked at.
ReadNoGroup(r) ==
  /\ req[r].kind = "add" /\ req[r].at = "read"
  /\ req' = [req EXCEPT ![r].at = IF connected THEN "join" ELSE "insert"]
  /\ adrift' = (adrift \/ ~connected)
  /\ UNCHANGED <<stored, whats, connected, last, raced, faults>>

\* Read the task's group, and a session: without one only the row is inserted.
ReadTask(r) ==
  /\ req[r].kind = "add" /\ req[r].at = "read"
  /\ req' = [req EXCEPT ![r].at = IF connected THEN "join" ELSE "insert", ![r].group = group]
  /\ adrift' = (adrift \/ ~connected)
  /\ UNCHANGED <<stored, whats, connected, last, raced, faults>>

\* Mutant of Join: an error of waclaw is not looked at.
JoinUnchecked(r) ==
  LET g == req[r].group IN
  /\ req[r].kind = "add" /\ req[r].at = "join"
  /\ \/ g = NoGroup /\ MakeGroup(r) /\ Goes(r, "record") /\ Fine /\ UNCHANGED strayed
     \/ g # NoGroup /\ Admit(g, req[r].who) /\ Goes(r, "insert") /\ Fine
        /\ UNCHANGED <<made, strayed>>
     \/ Noticed /\ Goes(r, "insert") /\ UNCHANGED <<members, made, refused, strayed>>
  /\ UNCHANGED <<stored, archived, connected, last, raced>>

\* A failure, which goes into the contact's row.
JoinFails(r) == Noticed /\ req' = [req EXCEPT ![r].at = "insert", ![r].failed = TRUE]

\* A task without a group gets one, of this contact; otherwise the contact is
\* added to it.  WhatsApp may have acted though the call fails.
Join(r) ==
  LET g == req[r].group IN
  /\ req[r].kind = "add" /\ req[r].at = "join"
  /\ \/ /\ g = NoGroup /\ MakeGroup(r)
        /\ \/ Goes(r, "record") /\ Fine /\ UNCHANGED strayed
           \/ JoinFails(r) /\ strayed' = strayed \cup {r}
     \/ /\ g # NoGroup /\ Admit(g, req[r].who)
        /\ \/ Goes(r, "insert") /\ Fine
           \/ JoinFails(r)
        /\ UNCHANGED <<made, strayed>>
     \/ JoinFails(r) /\ UNCHANGED <<members, made, refused, strayed>>
  /\ UNCHANGED <<stored, archived, connected, last, raced>>

\* Insert the contact's row, joined unless that failed.  A contact who has one
\* is a conflict, a task that is gone another.
InsertOne(r) ==
  /\ req[r].kind = "add" /\ req[r].at = "insert"
  /\ Goes(r, "over")
  /\ \/ /\ row' = [c \in Contacts |->
             IF c \in req[r].who /\ row[c] = "none" /\ task \in Statuses
               THEN IF req[r].failed THEN "failed" ELSE "joined"
               ELSE row[c]]
        /\ Fine
     \/ Unnoticed /\ UNCHANGED row
  /\ UNCHANGED <<task, group, whats, connected, last, raced>>

\* DELETE participants: read the task's group and session.
Remove(c) ==
  /\ row[c] # "none"
  /\ Starts("remove", {c}, "find")
  /\ UNCHANGED <<stored, whats, connected, adrift, faults>>

Find(r) ==
  /\ req[r].at = "find"
  /\ req' = [req EXCEPT ![r].at = IF connected /\ group # NoGroup THEN "leave" ELSE "delete",
                        ![r].group = group]
  /\ adrift' = (adrift \/ ~connected)
  /\ UNCHANGED <<stored, whats, connected, last, raced, faults>>

\* Take the contact out of the group; a failure goes unnoticed.
Leave(r) ==
  /\ req[r].at = "leave"
  /\ Goes(r, "delete")
  /\ \/ Dismiss(req[r].group, req[r].who) /\ Fine
     \/ Unnoticed /\ UNCHANGED <<members, refused>>
  /\ UNCHANGED <<stored, made, archived, connected, last, raced, strayed>>

DeleteRow(r) ==
  /\ req[r].at = "delete"
  /\ Goes(r, "over")
  /\ \/ row' = [c \in Contacts |-> IF c \in req[r].who THEN "none" ELSE row[c]] /\ Fine
     \/ Unnoticed /\ UNCHANGED row
  /\ UNCHANGED <<task, group, whats, connected, last, raced>>

-----------------------------------------------------------------------------
(* Changing and deleting the task.                                         *)

\* Mutant of Patch: the status is taken as it comes.
PatchUnchecked(s) ==
  /\ task \in Statuses
  /\ task' = "paused"
  /\ UNCHANGED <<group, row, whats, connected, last, req, history, faults>>

\* PATCH: the status is changed.  A task that was not closed before, when the
\* request read it with its group, has its group renamed.
Patch(s) ==
  /\ task \in Statuses
  /\ task' = s
  /\ IF s = "closed" /\ task # "closed" /\ group # NoGroup /\ connected
       THEN \/ archived' = archived \cup {group} /\ UNCHANGED faults
            \/ Fault /\ UNCHANGED archived
       ELSE UNCHANGED <<archived, faults>>
  /\ UNCHANGED <<group, row, members, made, refused, strayed, connected, last, req, history>>

\* DELETE: the rows of the participants go with the task's, the group stays.
Delete ==
  /\ task \in Statuses
  /\ task' = "deleted" /\ group' = NoGroup
  /\ row' = [c \in Contacts |-> "none"]
  /\ adrift' = TRUE
  /\ UNCHANGED <<whats, connected, last, req, raced, faults>>

-----------------------------------------------------------------------------

\* The session of the instance comes or goes.
Reconnect ==
  /\ connected' = ~connected
  /\ UNCHANGED <<stored, whats, last, req, history, faults>>

\* The platform ends a request.
Kill(r) ==
  /\ AtWork(r) /\ Unnoticed /\ Goes(r, "over")
  /\ UNCHANGED <<stored, whats, connected, last, raced>>

Step(r) ==
  \/ CreateGroup(r) \/ Record(r) \/ InsertAll(r)
  \/ ReadTask(r) \/ Join(r) \/ InsertOne(r)
  \/ Find(r) \/ Leave(r) \/ DeleteRow(r)

Next ==
  \/ \E who \in SUBSET Contacts : Create(who)
  \/ \E c \in Contacts : Add(c) \/ Remove(c)
  \/ \E s \in Statuses : Patch(s)
  \/ Delete \/ Reconnect
  \/ \E r \in Requests : Step(r) \/ Kill(r)

Spec == Init /\ [][Next]_vars

-----------------------------------------------------------------------------
(* Properties.                                                             *)

\* The type invariant.
TypeOK ==
  /\ task \in Statuses \cup {"none", "deleted"}
  /\ group \in Requests \cup {NoGroup}
  /\ row \in [Contacts -> {"none", "joined", "failed"}]
  /\ members \in [Requests -> SUBSET Contacts]
  /\ made \subseteq Requests /\ strayed \subseteq Requests /\ archived \subseteq Requests
  /\ refused \subseteq Contacts
  /\ {connected, raced, adrift} \subseteq BOOLEAN
  /\ last \in 0 .. MaxRequests /\ faults \in 0 .. MaxFaults
  /\ req \in [Requests ->
       [kind : {"none", "create", "add", "remove"}, who : SUBSET Contacts,
        at : {"none", "over", "group", "record", "insert", "read", "join", "find", "leave", "delete"},
        group : Requests \cup {NoGroup}, failed : BOOLEAN]]

\* What can go wrong unnoticed.
Clean == ~raced /\ ~adrift

\* A task has one group: whatever group a request has been told of is in the
\* task's row when it is over, and no second one is created - unless the answer
\* was lost (the group stays in WhatsApp and the next request creates another),
\* requests overlap (two first participants get a group each), the session or the
\* task goes, or a query fails whose error nobody looks at.
OneGroup ==
  Clean => \A r \in made \ strayed : req[r].at = "over" => group = r

\* A participant whose row says joined is in the task's group, and whoever is in
\* it has a row, whatever calls to waclaw failed before or after WhatsApp acted,
\* when no request is at work - with the exceptions of Clean, and of a contact
\* whom WhatsApp refused the last time: waclaw does not say so.  A row may say
\* failed of a member: one whose answer was lost, or who was added again.
JoinedAreMembers ==
  Clean /\ (\A r \in Requests : ~AtWork(r)) /\ task \in Statuses =>
    \A c \in Contacts \ refused :
      LET member == group # NoGroup /\ c \in members[group]
      IN  (row[c] = "joined" => member) /\ (member => row[c] # "none")

=============================================================================
