------------------------------ MODULE TaskProofs ------------------------------
(***************************************************************************)
(* What TLAPS proves of TaskGroup and TaskView, for any contacts and tasks *)
(* and any number of requests and faults: a task has one group, and who is *)
(* said to have joined is in it, as long as requests do not overlap and no *)
(* error goes unnoticed; and the dialog acts on the task it shows.         *)
(***************************************************************************)
EXTENDS Services, TLAPS

\* A request at work has contacts.  The task is there before any request, and
\* without it there are neither group nor rows.
OrderInv ==
  /\ \A r \in Requests : AtWork(r) => req[r].who # {}
  /\ task = "none" =>
       /\ \A r \in Requests : req[r].at = "none"
       /\ group = NoGroup
       /\ \A c \in Contacts : row[c] = "none"
  /\ ~adrift => task # "deleted"

\* Unless they overlap, one request is at work at a time.
Alone == ~raced => \A r, s \in Requests : AtWork(r) /\ AtWork(s) => r = s

\* A group that a request has been told of is the task's, or about to be while
\* the task has none; what a request has read of the group is still so.
GroupOf(r) ==
  /\ r \in made \ strayed => group = r \/ (req[r].at = "record" /\ group = NoGroup)
  /\ req[r].at \in {"group", "record"} => group = NoGroup
  /\ req[r].at \in {"join", "leave"} => req[r].group = group

GroupInv == Clean => \A r \in Requests : GroupOf(r)

\* What JoinedAreMembers says of a contact, and what is so instead of a contact
\* of the request r at work.
Member(c) == group # NoGroup /\ c \in members[group]
Good(c) ==
  /\ row[c] = "joined" => group # NoGroup
  /\ c \notin refused => (row[c] = "joined" => Member(c)) /\ (Member(c) => row[c] # "none")

Half(r, c) ==
  /\ req[r].at \in {"read", "join", "find", "leave"} => Good(c)
  /\ req[r].at \in {"read", "join", "group"} => ~req[r].failed
  /\ req[r].at = "group" => row[c] = "none"
  /\ req[r].at = "record" =>
       /\ ~req[r].failed
       /\ c \notin refused => c \in members[r]
       /\ req[r].kind = "create" => row[c] = "none"
  /\ req[r].at = "insert" /\ req[r].kind = "create" =>
       /\ row[c] = "none" /\ group # NoGroup
       /\ c \notin refused => Member(c)
  /\ req[r].at = "insert" /\ req[r].kind # "create" /\ (req[r].failed => row[c] = "joined") =>
       /\ group # NoGroup
       /\ c \notin refused => Member(c)
  /\ req[r].at = "delete" /\ c \notin refused => ~Member(c)

HalfInv ==
  Clean =>
    /\ \A c \in Contacts : (\A r \in Requests : AtWork(r) => c \notin req[r].who) => Good(c)
    /\ \A r \in Requests : AtWork(r) => \A c \in req[r].who : Half(r, c)
    /\ \A r \in Requests : req[r].at = "record" => members[r] \subseteq req[r].who

IInv == TypeOK /\ OrderInv /\ Alone /\ GroupInv /\ HalfInv

-----------------------------------------------------------------------------
(* The requests.                                                           *)

Request ==
  [kind : {"none", "create", "add", "remove"}, who : SUBSET Contacts,
   at : {"none", "over", "group", "record", "insert", "read", "join", "find", "leave", "delete"},
   group : Requests \cup {NoGroup}, failed : BOOLEAN]

LEMMA NoGroupIsNone == NoGroup \notin Requests
BY DEF NoGroup, Requests

LEMMA RequestType ==
  ASSUME TypeOK, NEW r \in Requests
  PROVE  req[r] \in Request /\ members[r] \in SUBSET Contacts
BY DEF TypeOK, Request

LEMMA GoesTo ==
  ASSUME TypeOK, NEW r \in Requests, NEW a, Goes(r, a)
  PROVE  req'[r].at = a /\ req'[r].group = req[r].group /\ req'[r].failed = req[r].failed
<1>1. req \in [Requests -> Request]  BY DEF TypeOK, Request
<1> QED  BY <1>1 DEF Goes, Request

\* What WhatsApp makes of a call: whom it has not refused is in the group, or out
\* of it, and the other groups and contacts are as they were.
Sides(g, who) ==
  /\ members' \in [Requests -> SUBSET Contacts]
  /\ refused' \subseteq Contacts
  /\ \A s \in Requests : s # g => members'[s] = members[s]
  /\ \A c \in Contacts \ who : c \in refused' <=> c \in refused

LEMMA MakeEffect ==
  ASSUME TypeOK, NEW r \in Requests, MakeGroup(r)
  PROVE  /\ Sides(r, req[r].who)
         /\ made' = made \cup {r}
         /\ members'[r] \subseteq req[r].who
         /\ \A c \in req[r].who : c \notin refused' => c \in members'[r]
<1>1. /\ req[r].who \subseteq Contacts /\ refused \subseteq Contacts
      /\ members \in [Requests -> SUBSET Contacts]
  BY DEF TypeOK
<1>2. PICK some \in SUBSET req[r].who :
        /\ members' = [members EXCEPT ![r] = some]
        /\ refused' = (refused \ req[r].who) \cup (req[r].who \ some)
  BY DEF MakeGroup
<1>3. members'[r] = some  BY <1>1, <1>2
<1> QED  BY <1>1, <1>2, <1>3 DEF MakeGroup, Sides

LEMMA AdmitEffect ==
  ASSUME TypeOK, NEW g \in Requests, NEW who \in SUBSET Contacts, Admit(g, who)
  PROVE  /\ Sides(g, who)
         /\ \A c \in Contacts \ who : c \in members'[g] <=> c \in members[g]
         /\ \A c \in who : c \notin refused' => c \in members'[g]
<1>1. refused \subseteq Contacts /\ members \in [Requests -> SUBSET Contacts]
  BY DEF TypeOK
<1>2. PICK some \in SUBSET who :
        /\ members' = [members EXCEPT ![g] = @ \cup some]
        /\ refused' = (refused \ who) \cup (who \ members'[g])
  BY DEF Admit
<1>3. members'[g] = members[g] \cup some  BY <1>1, <1>2
<1>4. members' \in [Requests -> SUBSET Contacts]  BY <1>1, <1>2
<1> QED  BY <1>1, <1>2, <1>3, <1>4 DEF Sides

LEMMA DismissEffect ==
  ASSUME TypeOK, NEW g \in Requests, NEW who \in SUBSET Contacts, Dismiss(g, who)
  PROVE  /\ Sides(g, who)
         /\ \A c \in Contacts \ who : c \in members'[g] <=> c \in members[g]
         /\ \A c \in who : c \notin refused' => c \notin members'[g]
<1>1. refused \subseteq Contacts /\ members \in [Requests -> SUBSET Contacts]
  BY DEF TypeOK
<1>2. PICK some \in SUBSET who :
        /\ members' = [members EXCEPT ![g] = @ \ some]
        /\ refused' = (refused \ who) \cup (who \cap members'[g])
  BY DEF Dismiss
<1>3. members'[g] = members[g] \ some  BY <1>1, <1>2
<1>4. members' \in [Requests -> SUBSET Contacts]  BY <1>1, <1>2
<1> QED  BY <1>1, <1>2, <1>3, <1>4 DEF Sides

\* A step of a request changes that request and nothing of the others.
LEMMA StepEffect ==
  ASSUME TypeOK, NEW r \in Requests, Step(r) \/ Kill(r)
  PROVE  /\ AtWork(r)
         /\ \A s \in Requests : s # r => req'[s] = req[s]
         /\ req'[r].who = req[r].who /\ req'[r].kind = req[r].kind
         /\ req'[r] \in Request
         /\ <<task, last, raced>>' = <<task, last, raced>>
         /\ (adrift => adrift')
<1>1. req \in [Requests -> Request]  BY DEF TypeOK, Request
<1>2. CASE CreateGroup(r)  BY <1>1, <1>2 DEF CreateGroup, Goes, Noticed, Fine, AtWork, stored, Request
<1>3. CASE Record(r)       BY <1>1, <1>3 DEF Record, Goes, Unnoticed, Fine, AtWork, whats, Request
<1>4. CASE InsertAll(r)    BY <1>1, <1>4 DEF InsertAll, Goes, Unnoticed, Fine, AtWork, whats, Request
<1>5. CASE ReadTask(r)
  <2>1. group \in Requests \cup {NoGroup}  BY DEF TypeOK
  <2> QED  BY <1>1, <1>5, <2>1 DEF ReadTask, AtWork, stored, whats, Request
<1>6. CASE Join(r)         BY <1>1, <1>6 DEF Join, JoinFails, Goes, Noticed, Fine, AtWork, stored, Request
<1>7. CASE InsertOne(r)    BY <1>1, <1>7 DEF InsertOne, Goes, Unnoticed, Fine, AtWork, whats, Request
<1>8. CASE Find(r)
  <2>1. group \in Requests \cup {NoGroup}  BY DEF TypeOK
  <2> QED  BY <1>1, <1>8, <2>1 DEF Find, AtWork, stored, whats, Request
<1>9. CASE Leave(r)        BY <1>1, <1>9 DEF Leave, Goes, Unnoticed, Fine, AtWork, stored, Request
<1>10. CASE DeleteRow(r)   BY <1>1, <1>10 DEF DeleteRow, Goes, Unnoticed, Fine, AtWork, whats, Request
<1>11. CASE Kill(r)        BY <1>1, <1>11 DEF Kill, Goes, Unnoticed, AtWork, stored, whats, Request
<1> QED  BY <1>2, <1>3, <1>4, <1>5, <1>6, <1>7, <1>8, <1>9, <1>10, <1>11 DEF Step

\* A request that starts is the next one, and the only one at work unless they
\* overlap.
LEMMA StartEffect ==
  ASSUME TypeOK, NEW kind \in {"create", "add", "remove"}, NEW who \in SUBSET Contacts,
         NEW a \in {"over", "group", "read", "find"}, Starts(kind, who, a)
  PROVE  /\ last + 1 \in Requests /\ last' = last + 1
         /\ \A s \in Requests : s # last + 1 => req'[s] = req[s]
         /\ req'[last + 1].kind = kind /\ req'[last + 1].who = who
         /\ req'[last + 1].at = a /\ ~req'[last + 1].failed
         /\ req'[last + 1] \in Request
         /\ req' \in [Requests -> Request]
         /\ raced' \in BOOLEAN /\ (raced => raced')
         /\ ~raced' /\ who # {} => \A s \in Requests : AtWork(s) => req[s].who = {}
<1>1. req \in [Requests -> Request] /\ last \in 0 .. MaxRequests  BY DEF TypeOK, Request
<1>2. last + 1 \in Requests /\ last' = last + 1
  BY <1>1, BoundsAreNumbers DEF Starts, Requests
<1> DEFINE new == [kind |-> kind, who |-> who, at |-> a, group |-> NoGroup, failed |-> FALSE]
<1>3. new \in Request /\ new.kind = kind /\ new.who = who /\ new.at = a /\ ~new.failed
  BY DEF Request, NoGroup
<1>4. req' = [req EXCEPT ![last + 1] = new]  BY DEF Starts
<1> HIDE DEF new
<1>5. req' \in [Requests -> Request] /\ req'[last + 1] = new
      /\ \A s \in Requests : s # last + 1 => req'[s] = req[s]
  BY <1>1, <1>2, <1>3, <1>4
<1>6. raced \in BOOLEAN  BY DEF TypeOK
<1>7. raced' = (raced \/ (who # {} /\ \E r \in Requests : AtWork(r) /\ req[r].who # {}))
  BY DEF Starts
<1>8. raced' \in BOOLEAN /\ (raced => raced')
      /\ (~raced' /\ who # {} => \A s \in Requests : AtWork(s) => req[s].who = {})
  BY <1>6, <1>7
<1> QED  BY <1>2, <1>3, <1>5, <1>8

-----------------------------------------------------------------------------
(* The type invariant.                                                     *)

\* The type invariant without the requests, which the lemmas above are about.
Rest ==
  /\ task \in Statuses \cup {"none", "deleted"}
  /\ group \in Requests \cup {NoGroup}
  /\ row \in [Contacts -> {"none", "joined", "failed"}]
  /\ members \in [Requests -> SUBSET Contacts]
  /\ made \subseteq Requests /\ strayed \subseteq Requests /\ archived \subseteq Requests
  /\ refused \subseteq Contacts
  /\ connected \in BOOLEAN /\ raced \in BOOLEAN /\ adrift \in BOOLEAN
  /\ last \in 0 .. MaxRequests /\ faults \in 0 .. MaxFaults

LEMMA TypeParts == TypeOK <=> Rest /\ req \in [Requests -> Request]
BY DEF TypeOK, Rest, Request

LEMMA TypePartsNext == TypeOK' <=> Rest' /\ req' \in [Requests -> Request]
BY DEF TypeOK, Rest, Request, Requests, Statuses, NoGroup

LEMMA FaultType == Rest /\ Fault => faults' \in 0 .. MaxFaults
BY BoundsAreNumbers DEF Rest, Fault

LEMMA StartType ==
  ASSUME TypeOK, NEW kind \in {"create", "add", "remove"}, NEW who \in SUBSET Contacts,
         NEW a \in {"over", "group", "read", "find"}, Starts(kind, who, a)
  PROVE  req' \in [Requests -> Request] /\ last' \in 0 .. MaxRequests /\ raced' \in BOOLEAN
<1>1. /\ last' = last + 1 /\ last + 1 \in Requests
      /\ req' \in [Requests -> Request] /\ raced' \in BOOLEAN
  BY StartEffect
<1> QED  BY <1>1, BoundsAreNumbers DEF Requests

LEMMA CreateType ==
  ASSUME TypeOK, NEW who \in SUBSET Contacts, Create(who)
  PROVE  TypeOK'
<1>1. Rest  BY TypeParts
<1>2. Starts("create", who, "over") \/ Starts("create", who, "group")
  <2>1. CASE who = {}  BY <2>1 DEF Create
  <2>2. CASE who # {}  BY <2>2 DEF Create
  <2> QED  BY <2>1, <2>2
<1>3. /\ req' \in [Requests -> Request]
      /\ last' \in 0 .. MaxRequests
      /\ raced' \in BOOLEAN
  BY <1>2, StartType
<1>4. Rest'  BY <1>1, <1>3 DEF Rest, Create, whats, Statuses
<1> QED  BY <1>3, <1>4, TypePartsNext

LEMMA AddType ==
  ASSUME TypeOK, NEW c \in Contacts, Add(c) \/ Remove(c)
  PROVE  TypeOK'
<1>1. Rest  BY TypeParts
<1>2. Starts("add", {c}, "read") \/ Starts("remove", {c}, "find")  BY DEF Add, Remove
<1>3. /\ req' \in [Requests -> Request]
      /\ last' \in 0 .. MaxRequests
      /\ raced' \in BOOLEAN
  BY <1>2, StartType
<1>4. Rest'  BY <1>1, <1>3 DEF Rest, Add, Remove, stored, whats
<1> QED  BY <1>3, <1>4, TypePartsNext

LEMMA StepType ==
  ASSUME TypeOK, NEW r \in Requests, Step(r) \/ Kill(r)
  PROVE  TypeOK'
<1>1. Rest /\ req \in [Requests -> Request]  BY TypeParts
<1>2. Fault => faults' \in 0 .. MaxFaults  BY <1>1, FaultType
<1>3. req' \in [Requests -> Request]
  <2>1. req' = [s \in Requests |-> req'[s]]
    BY <1>1 DEF Step, Kill, CreateGroup, Record, InsertAll, ReadTask, Join, JoinFails,
           InsertOne, Find, Leave, DeleteRow, Goes
  <2>2. \A s \in Requests : req'[s] \in Request  BY <1>1, StepEffect
  <2> QED  BY <2>1, <2>2
<1>4. Rest'
  <2>0. MakeGroup(r) =>
          /\ members' \in [Requests -> SUBSET Contacts] /\ refused' \subseteq Contacts
          /\ made' = made \cup {r}
    BY MakeEffect DEF Sides
  <2>1. CASE CreateGroup(r)
    BY <1>1, <1>2, <2>0, <2>1 DEF CreateGroup, Rest, Noticed, Fine, stored
  <2>2. CASE Record(r)
    BY <1>1, <1>2, <2>2 DEF Record, Rest, Unnoticed, Fine, whats
  <2>3. CASE InsertAll(r)
    BY <1>1, <1>2, <2>3 DEF InsertAll, Rest, Unnoticed, Fine, whats
  <2>4. CASE ReadTask(r)  BY <1>1, <2>4 DEF ReadTask, Rest, stored, whats
  <2>5. CASE Join(r)
    <3>1. req[r].who \in SUBSET Contacts /\ req[r].group \in Requests \cup {NoGroup}
      BY <1>1 DEF Request
    <3>2. req[r].group # NoGroup /\ Admit(req[r].group, req[r].who) =>
            members' \in [Requests -> SUBSET Contacts] /\ refused' \subseteq Contacts
      BY <3>1, AdmitEffect DEF Sides
    <3>3. Goes(r, "record") \/ Goes(r, "insert") \/ JoinFails(r)  BY <2>5 DEF Join
    <3>4. faults' \in 0 .. MaxFaults /\ adrift' = adrift
      BY <1>1, <1>2, <2>5 DEF Join, JoinFails, Rest, Noticed, Fine
    <3>5. members' \in [Requests -> SUBSET Contacts] /\ refused' \subseteq Contacts
          /\ made' \subseteq Requests /\ strayed' \subseteq Requests
      BY <1>1, <2>0, <2>5, <3>2 DEF Join, Rest
    <3> QED  BY <1>1, <2>5, <3>4, <3>5 DEF Join, Rest, stored
  <2>6. CASE InsertOne(r)
    BY <1>1, <1>2, <2>6 DEF InsertOne, Rest, Unnoticed, Fine, whats
  <2>7. CASE Find(r)  BY <1>1, <2>7 DEF Find, Rest, stored, whats
  <2>8. CASE Leave(r)
    <3>1. req[r].who \in SUBSET Contacts /\ req[r].group \in Requests \cup {NoGroup}
      BY <1>1 DEF Request
    <3>2. CASE req[r].group \in Requests /\ Dismiss(req[r].group, req[r].who)
      <4>1. members' \in [Requests -> SUBSET Contacts] /\ refused' \subseteq Contacts
        BY <3>1, <3>2, DismissEffect DEF Sides
      <4> QED  BY <1>1, <1>2, <2>8, <4>1 DEF Leave, Rest, Unnoticed, Fine, stored
    <3>3. CASE req[r].group = NoGroup /\ Dismiss(req[r].group, req[r].who)
      <4>1. members' = members  BY <1>1, <3>3, NoGroupIsNone DEF Dismiss, Rest
      <4>2. refused' \subseteq Contacts  BY <1>1, <3>1, <3>3 DEF Dismiss, Rest
      <4> QED  BY <1>1, <1>2, <2>8, <4>1, <4>2 DEF Leave, Rest, Unnoticed, Fine, stored
    <3>4. CASE UNCHANGED <<members, refused>>
      BY <1>1, <1>2, <2>8, <3>4 DEF Leave, Rest, Unnoticed, Fine, stored
    <3> QED  BY <2>8, <3>1, <3>2, <3>3, <3>4 DEF Leave
  <2>9. CASE DeleteRow(r)
    BY <1>1, <1>2, <2>9 DEF DeleteRow, Rest, Unnoticed, Fine, whats
  <2>10. CASE Kill(r)  BY <1>1, <1>2, <2>10 DEF Kill, Rest, Unnoticed, stored, whats
  <2> QED  BY <2>1, <2>2, <2>3, <2>4, <2>5, <2>6, <2>7, <2>8, <2>9, <2>10 DEF Step
<1> QED  BY <1>3, <1>4, TypePartsNext

LEMMA TypeStep == TypeOK /\ [Next]_vars => TypeOK'
<1> SUFFICES ASSUME TypeOK, [Next]_vars  PROVE TypeOK'  OBVIOUS
<1>1. Rest /\ req \in [Requests -> Request]  BY TypeParts
<1>2. Fault => faults' \in 0 .. MaxFaults  BY <1>1, FaultType
<1>3. ASSUME NEW s \in Statuses, Patch(s)  PROVE TypeOK'
  <2>1. Rest'  BY <1>1, <1>2, <1>3 DEF Patch, Rest, history, NoGroup
  <2> QED  BY <1>1, <1>3, <2>1, TypePartsNext DEF Patch
<1>4. CASE Delete
  <2>1. Rest'  BY <1>1, <1>4 DEF Delete, Rest, whats
  <2> QED  BY <1>1, <1>4, <2>1, TypePartsNext DEF Delete
<1>5. CASE Reconnect
  <2>1. Rest'  BY <1>1, <1>5 DEF Reconnect, Rest, stored, whats, history
  <2> QED  BY <1>1, <1>5, <2>1, TypePartsNext DEF Reconnect
<1>6. CASE UNCHANGED vars
  <2>1. Rest'  BY <1>1, <1>6 DEF vars, Rest, stored, whats, history
  <2> QED  BY <1>1, <1>6, <2>1, TypePartsNext DEF vars
<1> QED  BY <1>3, <1>4, <1>5, <1>6, CreateType, AddType, StepType DEF Next

-----------------------------------------------------------------------------
(* The order of requests, and requests alone.                              *)

LEMMA OrderStep == TypeOK /\ OrderInv /\ [Next]_vars => OrderInv'
<1> SUFFICES ASSUME TypeOK, OrderInv, [Next]_vars  PROVE OrderInv'  OBVIOUS
<1>1. ASSUME NEW who \in SUBSET Contacts, Create(who)  PROVE OrderInv'
  <2>1. task' = "open"  BY <1>1 DEF Create
  <2>2. CASE who = {}
    <3>1. Starts("create", who, "over")  BY <1>1, <2>2 DEF Create
    <3>2. \A r \in Requests : r # last + 1 => req'[r] = req[r]  BY <3>1, StartEffect
    <3>3. req'[last + 1].at = "over"  BY <3>1, StartEffect
    <3> QED  BY <2>1, <3>2, <3>3 DEF OrderInv, AtWork
  <2>3. CASE who # {}
    <3>1. Starts("create", who, "group")  BY <1>1, <2>3 DEF Create
    <3>2. \A r \in Requests : r # last + 1 => req'[r] = req[r]  BY <3>1, StartEffect
    <3>3. req'[last + 1].who = who  BY <3>1, StartEffect
    <3> QED  BY <2>1, <2>3, <3>2, <3>3 DEF OrderInv, AtWork
  <2> QED  BY <2>2, <2>3
<1>2. ASSUME NEW c \in Contacts, Add(c) \/ Remove(c)  PROVE OrderInv'
  <2>1. task' = task /\ adrift' = adrift /\ task # "none"
    BY <1>2 DEF Add, Remove, stored, OrderInv
  <2>2. Starts("add", {c}, "read") \/ Starts("remove", {c}, "find")
    BY <1>2 DEF Add, Remove
  <2>3. \A r \in Requests : r # last + 1 => req'[r] = req[r]
    <3>1. CASE Starts("add", {c}, "read")  BY <3>1, StartEffect
    <3>2. CASE Starts("remove", {c}, "find")  BY <3>2, StartEffect
    <3> QED  BY <2>2, <3>1, <3>2
  <2>4. req'[last + 1].who = {c}
    <3>1. CASE Starts("add", {c}, "read")  BY <3>1, StartEffect
    <3>2. CASE Starts("remove", {c}, "find")  BY <3>2, StartEffect
    <3> QED  BY <2>2, <3>1, <3>2
  <2> QED  BY <2>1, <2>3, <2>4 DEF OrderInv, AtWork
<1>3. ASSUME NEW r \in Requests, Step(r) \/ Kill(r)  PROVE OrderInv'
  <2>1. AtWork(r) /\ req'[r].who = req[r].who /\ task' = task
    BY <1>3, StepEffect
  <2>2. \A s \in Requests : s # r => req'[s] = req[s]  BY <1>3, StepEffect
  <2>3. adrift => adrift'  BY <1>3, StepEffect
  <2> QED  BY <2>1, <2>2, <2>3 DEF OrderInv, AtWork
<1>4. ASSUME NEW s \in Statuses, Patch(s)  PROVE OrderInv'
  BY <1>4 DEF Patch, OrderInv, AtWork, history, Statuses
<1>5. CASE Delete  BY <1>5 DEF Delete, OrderInv, AtWork
<1>6. CASE Reconnect  BY <1>6 DEF Reconnect, OrderInv, AtWork, stored, history
<1>7. CASE UNCHANGED vars  BY <1>7 DEF vars, OrderInv, AtWork, stored, history
<1> QED  BY <1>1, <1>2, <1>3, <1>4, <1>5, <1>6, <1>7 DEF Next

\* What has gone wrong stays so.
LEMMA CleanStep == TypeOK /\ [Next]_vars => (Clean' => Clean)
<1> SUFFICES ASSUME TypeOK, [Next]_vars  PROVE Clean' => Clean  OBVIOUS
<1>1. ASSUME NEW who \in SUBSET Contacts, Create(who)  PROVE Clean' => Clean
  BY <1>1 DEF Create, Starts, Clean
<1>2. ASSUME NEW c \in Contacts, Add(c) \/ Remove(c)  PROVE Clean' => Clean
  BY <1>2 DEF Add, Remove, Starts, Clean
<1>3. ASSUME NEW r \in Requests, Step(r) \/ Kill(r)  PROVE Clean' => Clean
  <2>1. (adrift => adrift') /\ raced' = raced  BY <1>3, StepEffect
  <2> QED  BY <2>1 DEF Clean
<1>4. ASSUME NEW s \in Statuses, Patch(s)  PROVE Clean' => Clean
  BY <1>4 DEF Patch, history, Clean
<1>5. CASE Delete  BY <1>5 DEF Delete, Clean
<1>6. CASE Reconnect  BY <1>6 DEF Reconnect, history, Clean
<1>7. CASE UNCHANGED vars  BY <1>7 DEF vars, history, Clean
<1> QED  BY <1>1, <1>2, <1>3, <1>4, <1>5, <1>6, <1>7 DEF Next

\* A request that starts with contacts finds nobody at work, unless it races.
LEMMA StartAlone ==
  ASSUME TypeOK, OrderInv, NEW kind \in {"create", "add", "remove"},
         NEW who \in SUBSET Contacts, NEW a \in {"group", "read", "find"},
         Starts(kind, who, a), who # {}, ~raced'
  PROVE  \A s \in Requests : ~AtWork(s) /\ (AtWork(s)' => s = last + 1)
<1>1. \A s \in Requests : AtWork(s) => req[s].who = {}  BY StartEffect
<1>2. \A s \in Requests : ~AtWork(s)  BY <1>1 DEF OrderInv
<1>3. \A s \in Requests : s # last + 1 => req'[s] = req[s]  BY StartEffect
<1> QED  BY <1>2, <1>3 DEF AtWork

LEMMA AloneStep == TypeOK /\ OrderInv /\ Alone /\ [Next]_vars => Alone'
<1> SUFFICES ASSUME TypeOK, OrderInv, Alone, [Next]_vars, ~raced'
             PROVE  \A r, s \in Requests : AtWork(r)' /\ AtWork(s)' => r = s
  BY DEF Alone
<1>1. ASSUME NEW who \in SUBSET Contacts, Create(who)
      PROVE  \A r, s \in Requests : AtWork(r)' /\ AtWork(s)' => r = s
  <2>1. CASE who = {}
    <3>1. Starts("create", who, "over")  BY <1>1, <2>1 DEF Create
    <3>2. \A r \in Requests : r # last + 1 => req'[r] = req[r]  BY <3>1, StartEffect
    <3>3. req'[last + 1].at = "over"  BY <3>1, StartEffect
    <3>4. ~raced  BY <3>1, StartEffect
    <3> QED  BY <3>2, <3>3, <3>4 DEF Alone, AtWork
  <2>2. CASE who # {}
    <3>1. Starts("create", who, "group")  BY <1>1, <2>2 DEF Create
    <3> QED  BY <2>2, <3>1, StartAlone
  <2> QED  BY <2>1, <2>2
<1>2. ASSUME NEW c \in Contacts, Add(c) \/ Remove(c)
      PROVE  \A r, s \in Requests : AtWork(r)' /\ AtWork(s)' => r = s
  <2>1. Starts("add", {c}, "read") \/ Starts("remove", {c}, "find")
    BY <1>2 DEF Add, Remove
  <2>2. CASE Starts("add", {c}, "read")  BY <2>2, StartAlone
  <2>3. CASE Starts("remove", {c}, "find")  BY <2>3, StartAlone
  <2> QED  BY <2>1, <2>2, <2>3
<1>3. ASSUME NEW t \in Requests, Step(t) \/ Kill(t)
      PROVE  \A r, s \in Requests : AtWork(r)' /\ AtWork(s)' => r = s
  <2>1. AtWork(t) /\ raced' = raced  BY <1>3, StepEffect
  <2>2. \A s \in Requests : s # t => req'[s] = req[s]  BY <1>3, StepEffect
  <2>3. \A s \in Requests : AtWork(s)' => AtWork(s)  BY <2>1, <2>2 DEF AtWork
  <2> QED  BY <2>1, <2>3 DEF Alone
<1>4. CASE UNCHANGED <<req, raced>>  BY <1>4 DEF Alone, AtWork
<1>5. ASSUME NEW s \in Statuses, Patch(s)  PROVE UNCHANGED <<req, raced>>
  BY <1>5 DEF Patch, history
<1>6. Delete \/ Reconnect \/ UNCHANGED vars => UNCHANGED <<req, raced>>
  BY DEF Delete, Reconnect, vars, history
<1> QED  BY <1>1, <1>2, <1>3, <1>4, <1>5, <1>6 DEF Next

-----------------------------------------------------------------------------
(* One group.                                                              *)

\* While nothing has gone wrong, nobody else is at work when a request is.
LEMMA Solo ==
  ASSUME TypeOK, Alone, Clean, NEW t \in Requests, Step(t) \/ Kill(t)
  PROVE  \A s \in Requests : s # t => ~AtWork(s) /\ ~AtWork(s)' /\ req'[s] = req[s]
<1>1. AtWork(t) /\ \A s \in Requests : s # t => req'[s] = req[s]  BY StepEffect
<1>2. \A s \in Requests : s # t => ~AtWork(s)  BY <1>1 DEF Alone, Clean
<1> QED  BY <1>1, <1>2 DEF AtWork

\* The task is there while a request is at work, unless something has gone wrong.
LEMMA TaskThere ==
  ASSUME TypeOK, OrderInv, Clean, NEW t \in Requests, AtWork(t)
  PROVE  task \in Statuses
BY DEF TypeOK, OrderInv, Clean, AtWork

LEMMA GroupStepOf ==
  ASSUME TypeOK, OrderInv, Alone, Clean, \A r \in Requests : GroupOf(r),
         NEW t \in Requests, Step(t), Clean'
  PROVE  \A r \in Requests : GroupOf(r)'
<1>1. AtWork(t) /\ req'[t] \in Request  BY StepEffect
<1>2. \A s \in Requests : s # t => ~AtWork(s) /\ req'[s] = req[s]  BY Solo
<1>3. task \in Statuses  BY <1>1, TaskThere
<1>4. GroupOf(t)  OBVIOUS
<1>5. /\ req \in [Requests -> Request] /\ group \in Requests \cup {NoGroup}
  BY DEF TypeOK, Request
<1>6. \A s \in Requests : s # t => req[s].at \in {"none", "over"}
  BY <1>2 DEF AtWork
<1>7. ~adrift'  BY DEF Clean
<1>8. CASE CreateGroup(t)
  <2>1. group' = group /\ req[t].at = "group"  BY <1>8 DEF CreateGroup, stored
  <2>2. \/ req'[t].at = "record" /\ made' = made \cup {t} /\ strayed' = strayed
        \/ req'[t].at = "over" /\ made' = made \cup {t} /\ strayed' = strayed \cup {t}
        \/ req'[t].at = "over" /\ made' = made /\ strayed' = strayed
    BY <1>8, GoesTo DEF CreateGroup, MakeGroup
  <2> QED  BY <1>2, <1>4, <2>1, <2>2 DEF GroupOf
<1>9. CASE Record(t)
  <2>1. group' = t /\ made' = made /\ strayed' = strayed
    BY <1>3, <1>7, <1>9 DEF Record, whats, Unnoticed
  <2>2. req'[t].at = "insert"  BY <1>7, <1>9, GoesTo DEF Record, Unnoticed
  <2>3. group = NoGroup  BY <1>4, <1>9 DEF Record, GroupOf
  <2>4. \A s \in Requests : s # t => s \notin made \ strayed
    BY <1>6, <2>3, NoGroupIsNone DEF GroupOf
  <2> QED  BY <1>2, <1>6, <2>1, <2>2, <2>4 DEF GroupOf
<1>10. CASE InsertAll(t) \/ InsertOne(t) \/ DeleteRow(t)
  <2>1. /\ group' = group /\ made' = made /\ strayed' = strayed
        /\ req'[t].at = "over" /\ req[t].at \in {"insert", "delete"}
    BY <1>10, GoesTo DEF InsertAll, InsertOne, DeleteRow, whats
  <2> QED  BY <1>2, <1>4, <2>1 DEF GroupOf
<1>11. CASE ReadTask(t)
  <2>1. /\ group' = group /\ made' = made /\ strayed' = strayed /\ req'[t].group = group
        /\ req'[t].at \in {"join", "insert"} /\ req[t].at = "read"
    BY <1>5, <1>11 DEF ReadTask, stored, whats, Request
  <2> QED  BY <1>2, <1>4, <2>1 DEF GroupOf
<1>12. CASE Find(t)
  <2>1. /\ group' = group /\ made' = made /\ strayed' = strayed /\ req'[t].group = group
        /\ req'[t].at \in {"leave", "delete"} /\ req[t].at = "find"
    BY <1>5, <1>12 DEF Find, stored, whats, Request
  <2> QED  BY <1>2, <1>4, <2>1 DEF GroupOf
<1>13. CASE Join(t)
  <2>1. req[t].at = "join" /\ req[t].group = group /\ group' = group
    BY <1>4, <1>13 DEF Join, stored, GroupOf
  <2>2. JoinFails(t) => req'[t].at = "insert"  BY <1>5 DEF JoinFails, Request
  <2>3. \/ /\ group = NoGroup /\ req'[t].at = "record"
           /\ made' = made \cup {t} /\ strayed' = strayed
        \/ /\ req'[t].at = "insert"
           /\ made' = made \cup {t} /\ strayed' = strayed \cup {t}
        \/ req'[t].at = "insert" /\ made' = made /\ strayed' = strayed
    BY <1>13, <2>1, <2>2, GoesTo DEF Join, MakeGroup
  <2> QED  BY <1>2, <1>4, <2>1, <2>3 DEF GroupOf
<1>14. CASE Leave(t)
  <2>1. /\ req[t].at = "leave" /\ group' = group /\ made' = made /\ strayed' = strayed
    BY <1>14 DEF Leave, stored
  <2>2. req'[t].at = "delete"  BY <1>14, GoesTo DEF Leave
  <2> QED  BY <1>2, <1>4, <2>1, <2>2 DEF GroupOf
<1> QED  BY <1>8, <1>9, <1>10, <1>11, <1>12, <1>13, <1>14 DEF Step

LEMMA GroupStep ==
  TypeOK /\ OrderInv /\ Alone /\ GroupInv /\ [Next]_vars => GroupInv'
<1> SUFFICES ASSUME TypeOK, OrderInv, Alone, GroupInv, [Next]_vars, Clean'
             PROVE  \A r \in Requests : GroupOf(r)'
  BY DEF GroupInv
<1>1. Clean /\ \A r \in Requests : GroupOf(r)  BY CleanStep DEF GroupInv
<1>2. ~adrift' /\ ~raced'  BY DEF Clean
<1>3. ASSUME NEW who \in SUBSET Contacts, Create(who)
      PROVE  \A r \in Requests : GroupOf(r)'
  <2>1. group' = group /\ made' = made /\ strayed' = strayed /\ group = NoGroup
        /\ \A r \in Requests : req[r].at = "none"
    BY <1>3 DEF Create, whats, OrderInv
  <2>2. Starts("create", who, "over") \/ Starts("create", who, "group")
    <3>1. CASE who = {}  BY <1>3, <3>1 DEF Create
    <3>2. CASE who # {}  BY <1>3, <3>2 DEF Create
    <3> QED  BY <3>1, <3>2
  <2>3. \A r \in Requests : r # last + 1 => req'[r] = req[r]
    <3>1. CASE Starts("create", who, "over")   BY <3>1, StartEffect
    <3>2. CASE Starts("create", who, "group")  BY <3>2, StartEffect
    <3> QED  BY <2>2, <3>1, <3>2
  <2>4. req'[last + 1].at \in {"over", "group"}
    <3>1. CASE Starts("create", who, "over")   BY <3>1, StartEffect
    <3>2. CASE Starts("create", who, "group")  BY <3>2, StartEffect
    <3> QED  BY <2>2, <3>1, <3>2
  <2> QED  BY <1>1, <2>1, <2>3, <2>4 DEF GroupOf
<1>4. ASSUME NEW c \in Contacts, Add(c) \/ Remove(c)
      PROVE  \A r \in Requests : GroupOf(r)'
  <2>1. group' = group /\ made' = made /\ strayed' = strayed
    BY <1>4 DEF Add, Remove, stored, whats
  <2>2. Starts("add", {c}, "read") \/ Starts("remove", {c}, "find")
    BY <1>4 DEF Add, Remove
  <2>3. /\ \A r \in Requests : r # last + 1 => req'[r] = req[r]
        /\ req'[last + 1].at \in {"read", "find"}
        /\ \A r \in Requests : ~AtWork(r)
    <3>1. CASE Starts("add", {c}, "read")
      BY <1>2, <3>1, StartEffect, StartAlone
    <3>2. CASE Starts("remove", {c}, "find")
      BY <1>2, <3>2, StartEffect, StartAlone
    <3> QED  BY <2>2, <3>1, <3>2
  <2>4. \A r \in Requests : req[r].at # "record"  BY <2>3 DEF AtWork
  <2> QED  BY <1>1, <2>1, <2>3, <2>4 DEF GroupOf
<1>5. ASSUME NEW r \in Requests, Step(r)  PROVE \A s \in Requests : GroupOf(s)'
  BY <1>1, <1>5, GroupStepOf
<1>6. ASSUME NEW r \in Requests, Kill(r)  PROVE FALSE
  BY <1>2, <1>6 DEF Kill, Unnoticed
<1>7. CASE UNCHANGED <<group, made, strayed, req>>  BY <1>1, <1>7 DEF GroupOf
<1>8. ASSUME NEW s \in Statuses, Patch(s)  PROVE UNCHANGED <<group, made, strayed, req>>
  BY <1>8 DEF Patch
<1>9. ~Delete  BY <1>2 DEF Delete
<1>10. Reconnect \/ UNCHANGED vars => UNCHANGED <<group, made, strayed, req>>
  BY DEF Reconnect, vars, stored, whats
<1> QED  BY <1>3, <1>4, <1>5, <1>6, <1>7, <1>8, <1>9, <1>10 DEF Next

-----------------------------------------------------------------------------
(* Who has joined is a member.                                             *)

\* While nothing goes wrong HalfInv is about the contacts of the one request at
\* work, and about the others.
LEMMA HalfSplit ==
  ASSUME TypeOK, Alone, Clean, NEW t \in Requests, Step(t),
         \A c \in req[t].who : IF AtWork(t)' THEN Half(t, c)' ELSE Good(c)',
         \A c \in Contacts \ req[t].who : Good(c)',
         req'[t].at = "record" => members'[t] \subseteq req[t].who
  PROVE  HalfInv'
<1>1. req'[t].who = req[t].who  BY StepEffect
<1>2. \A s \in Requests : s # t => ~AtWork(s)'  BY Solo
<1>3. \A s \in Requests : s # t => req'[s].at # "record"  BY <1>2 DEF AtWork
<1> QED  BY <1>1, <1>2, <1>3 DEF HalfInv

\* A step that leaves the stored and the group alone.
LEMMA SameGood ==
  ASSUME NEW c \in Contacts, row' = row, group' = group, c \in refused' <=> c \in refused,
         group # NoGroup => members'[group] = members[group]
  PROVE  Good(c)' <=> Good(c)
BY DEF Good, Member

LEMMA HalfStepOf ==
  ASSUME TypeOK, OrderInv, Alone, Clean, \A r \in Requests : GroupOf(r), HalfInv,
         NEW t \in Requests, Step(t), Clean'
  PROVE  HalfInv'
<1>1. AtWork(t)  BY StepEffect
<1>2. \A s \in Requests : s # t => ~AtWork(s)  BY Solo
<1>3. task \in Statuses  BY <1>1, TaskThere
<1>4. GroupOf(t) /\ req[t].who \subseteq Contacts  BY DEF TypeOK
<1>5. /\ group \in Requests \cup {NoGroup} /\ members \in [Requests -> SUBSET Contacts]
      /\ row \in [Contacts -> {"none", "joined", "failed"}]
  BY DEF TypeOK
<1>6. \A c \in req[t].who : Half(t, c)  BY <1>1 DEF HalfInv
<1>7. \A c \in Contacts \ req[t].who : Good(c)  BY <1>2 DEF HalfInv
<1>8. req[t].at = "record" => members[t] \subseteq req[t].who  BY DEF HalfInv
<1>9. ~adrift'  BY DEF Clean
<1>10. req'[t].kind = req[t].kind  BY StepEffect
<1> DEFINE Done == /\ \A c \in req[t].who : IF AtWork(t)' THEN Half(t, c)' ELSE Good(c)'
                   /\ \A c \in Contacts \ req[t].who : Good(c)'
                   /\ req'[t].at = "record" => members'[t] \subseteq req[t].who
<1>11. SUFFICES Done  BY HalfSplit
<1>12. ASSUME row' = row, group' = group, req'[t].at # "record",
              \A c \in Contacts \ req[t].who :
                /\ c \in refused' <=> c \in refused
                /\ group # NoGroup => (c \in members'[group] <=> c \in members[group]),
              \A c \in req[t].who : IF AtWork(t)' THEN Half(t, c)' ELSE Good(c)'
       PROVE  Done
  <2>1. \A c \in Contacts \ req[t].who : Good(c)'  BY <1>7, <1>12 DEF Good, Member
  <2> QED  BY <1>12, <2>1
\* A group of its own, which is not the task's yet.
<1>25. ASSUME group = NoGroup, group' = group, row' = row, MakeGroup(t)
       PROVE  /\ \A c \in Contacts \ req[t].who : Good(c)'
              /\ members'[t] \subseteq req[t].who
              /\ \A c \in req[t].who : c \notin refused' => c \in members'[t]
  <2>1. Sides(t, req[t].who)  BY <1>25, MakeEffect
  <2>2. \A c \in Contacts \ req[t].who : Good(c)'
    BY <1>7, <1>25, <2>1 DEF Sides, Good, Member
  <2> QED  BY <1>25, <2>2, MakeEffect
<1>13. CASE CreateGroup(t)
  <2>1. /\ group = NoGroup /\ group' = group /\ row' = row
        /\ req[t].kind = "create" /\ req[t].at = "group"
    BY <1>4, <1>13 DEF CreateGroup, stored, GroupOf
  <2>2. \A c \in req[t].who : row[c] = "none" /\ ~req[t].failed  BY <1>6, <2>1 DEF Half
  <2>3. CASE Goes(t, "over") /\ (MakeGroup(t) \/ UNCHANGED <<members, refused>>)
    <3>1. req'[t].at = "over"  BY <2>3, GoesTo
    <3>2. \A c \in req[t].who : Good(c)'  BY <1>4, <2>1, <2>2 DEF Good, Member
    <3>3. \A c \in Contacts \ req[t].who : Good(c)'
      <4>1. CASE MakeGroup(t)  BY <1>25, <2>1, <4>1
      <4>2. CASE UNCHANGED <<members, refused>>  BY <1>7, <2>1, <4>2, SameGood
      <4> QED  BY <2>3, <4>1, <4>2
    <3> QED  BY <3>1, <3>2, <3>3 DEF AtWork
  <2>4. CASE Goes(t, "record") /\ MakeGroup(t)
    <3>1. req'[t].at = "record" /\ req'[t].failed = req[t].failed  BY <2>4, GoesTo
    <3>2. \A c \in req[t].who : Half(t, c)'  BY <1>25, <2>1, <2>2, <2>4, <3>1 DEF Half
    <3>3. AtWork(t)'  BY <3>1 DEF AtWork
    <3> QED  BY <1>25, <2>1, <2>4, <3>2, <3>3
  <2> QED  BY <1>13, <2>3, <2>4 DEF CreateGroup
<1>14. CASE Record(t)
  <2>1. /\ group' = t /\ members' = members /\ refused' = refused /\ row' = row
        /\ Goes(t, "insert") /\ req[t].at = "record"
    BY <1>3, <1>9, <1>14 DEF Record, whats, Unnoticed
  <2>2. req'[t].at = "insert" /\ req'[t].failed = req[t].failed  BY <2>1, GoesTo
  <2>3. group = NoGroup /\ t # NoGroup  BY <1>4, <2>1, NoGroupIsNone DEF GroupOf
  <2>4. \A c \in Contacts \ req[t].who : Good(c)'
    BY <1>7, <1>8, <2>1, <2>3 DEF Good, Member
  <2>5. \A c \in req[t].who : Half(t, c)'
    BY <1>6, <1>10, <2>1, <2>2, <2>3 DEF Half, Member
  <2>6. AtWork(t)'  BY <2>2 DEF AtWork
  <2> QED  BY <2>2, <2>4, <2>5, <2>6
<1>15. CASE InsertAll(t)
  <2>1. /\ group' = group /\ members' = members /\ refused' = refused /\ Goes(t, "over")
        /\ req[t].at = "insert" /\ req[t].kind = "create"
    BY <1>15 DEF InsertAll, whats
  <2>2. row' = [c \in Contacts |-> IF c \in req[t].who /\ task \in Statuses /\ row[c] = "none"
                                     THEN "joined" ELSE row[c]]
    BY <1>9, <1>15 DEF InsertAll, Unnoticed
  <2>3. req'[t].at = "over"  BY <2>1, GoesTo
  <2>4. \A c \in req[t].who :
          group # NoGroup /\ (c \notin refused => Member(c)) /\ row'[c] = "joined"
    BY <1>3, <1>4, <1>6, <2>1, <2>2 DEF Half
  <2>5. \A c \in req[t].who : Good(c)'  BY <2>1, <2>4 DEF Good, Member
  <2>6. \A c \in Contacts \ req[t].who : Good(c)'
    BY <1>7, <2>1, <2>2 DEF Good, Member
  <2> QED  BY <2>3, <2>5, <2>6 DEF AtWork
<1>16. CASE ReadTask(t)
  <2>1. /\ group' = group /\ members' = members /\ refused' = refused /\ row' = row
        /\ connected /\ req[t].at = "read"
    BY <1>9, <1>16 DEF ReadTask, stored, whats
  <2>2. req' = [req EXCEPT ![t].at = "join", ![t].group = group]
    BY <2>1, <1>16 DEF ReadTask
  <2>3. req'[t].at = "join" /\ req'[t].failed = req[t].failed
    BY <2>2, RequestType DEF TypeOK, Request
  <2>4. \A c \in req[t].who : Half(t, c)'
    BY <1>6, <2>1, <2>3 DEF Half, Good, Member
  <2> QED  BY <1>12, <2>1, <2>3, <2>4 DEF AtWork
<1>17. CASE Join(t)
  <2>1. /\ req[t].at = "join" /\ req[t].group = group /\ req[t].kind = "add"
        /\ group' = group /\ row' = row
    BY <1>4, <1>17 DEF Join, stored, GroupOf
  <2>2. \A c \in req[t].who : Good(c) /\ ~req[t].failed  BY <1>6, <2>1 DEF Half
  <2>3. JoinFails(t) => req'[t].at = "insert" /\ req'[t].failed
    BY DEF JoinFails, TypeOK, Request
  <2>4. CASE JoinFails(t) /\ UNCHANGED <<members, refused>>
    <3>1. \A c \in req[t].who : Half(t, c)'
      BY <1>10, <2>1, <2>2, <2>3, <2>4 DEF Half, Good, Member
    <3> QED  BY <1>12, <2>1, <2>3, <2>4, <3>1 DEF AtWork
  <2>5. CASE group = NoGroup /\ MakeGroup(t) /\ Goes(t, "record")
    <3>1. req'[t].at = "record" /\ req'[t].failed = req[t].failed  BY <2>5, GoesTo
    <3>2. \A c \in req[t].who : Half(t, c)'
      BY <1>10, <1>25, <2>1, <2>2, <2>5, <3>1 DEF Half
    <3>3. AtWork(t)'  BY <3>1 DEF AtWork
    <3> QED  BY <1>25, <2>1, <2>5, <3>2, <3>3
  <2>6. CASE group = NoGroup /\ MakeGroup(t) /\ JoinFails(t)
    <3>1. \A c \in req[t].who : row[c] # "joined"  BY <2>2, <2>6 DEF Good
    <3>2. \A c \in req[t].who : Half(t, c)'
      BY <1>10, <2>1, <2>3, <2>6, <3>1 DEF Half, Member
    <3>3. AtWork(t)'  BY <2>3, <2>6 DEF AtWork
    <3> QED  BY <1>25, <2>1, <2>3, <2>6, <3>2, <3>3
  <2>7. CASE group # NoGroup /\ Admit(group, req[t].who) /\ (Goes(t, "insert") \/ JoinFails(t))
    <3>1. /\ Sides(group, req[t].who)
          /\ \A c \in Contacts \ req[t].who : c \in members'[group] <=> c \in members[group]
          /\ \A c \in req[t].who : c \notin refused' => c \in members'[group]
      BY <1>4, <1>5, <2>7, AdmitEffect
    <3>2. req'[t].at = "insert"  BY <2>3, <2>7, GoesTo
    <3>3. \A c \in req[t].who : Half(t, c)'
      BY <1>10, <2>1, <2>7, <3>1, <3>2 DEF Half, Member
    <3>4. AtWork(t)'  BY <3>2 DEF AtWork
    <3>5. \A c \in Contacts \ req[t].who : c \in refused' <=> c \in refused
      BY <3>1 DEF Sides
    <3> QED  BY <1>12, <2>1, <3>1, <3>2, <3>3, <3>4, <3>5
  <2> QED  BY <1>17, <2>1, <2>4, <2>5, <2>6, <2>7 DEF Join
<1>18. CASE InsertOne(t)
  <2>1. /\ group' = group /\ members' = members /\ refused' = refused /\ Goes(t, "over")
        /\ req[t].at = "insert" /\ req[t].kind = "add"
    BY <1>18 DEF InsertOne, whats
  <2>2. row' = [c \in Contacts |->
                 IF c \in req[t].who /\ row[c] = "none" /\ task \in Statuses
                   THEN IF req[t].failed THEN "failed" ELSE "joined"
                   ELSE row[c]]
    BY <1>9, <1>18 DEF InsertOne, Unnoticed
  <2>3. req'[t].at = "over"  BY <2>1, GoesTo
  <2>4. \A c \in req[t].who : (req[t].failed => row[c] = "joined") =>
          group # NoGroup /\ (c \notin refused => Member(c))
    BY <1>6, <2>1 DEF Half
  <2>5. \A c \in req[t].who : Good(c)'
    BY <1>3, <1>4, <2>1, <2>2, <2>4 DEF Good, Member
  <2>6. \A c \in Contacts \ req[t].who : Good(c)'
    BY <1>7, <2>1, <2>2 DEF Good, Member
  <2> QED  BY <2>3, <2>5, <2>6 DEF AtWork
<1>19. CASE Find(t)
  <2>1. /\ group' = group /\ members' = members /\ refused' = refused /\ row' = row
        /\ connected /\ req[t].at = "find"
    BY <1>9, <1>19 DEF Find, stored, whats
  <2>2. CASE group = NoGroup
    <3>1. req' = [req EXCEPT ![t].at = "delete", ![t].group = group]
      BY <2>1, <2>2, <1>19 DEF Find
    <3>2. req'[t].at = "delete"  BY <3>1 DEF TypeOK, Request
    <3>3. \A c \in req[t].who : Half(t, c)'  BY <2>1, <2>2, <3>2 DEF Half, Member
    <3> QED  BY <1>12, <2>1, <3>2, <3>3 DEF AtWork
  <2>3. CASE group # NoGroup
    <3>1. req' = [req EXCEPT ![t].at = "leave", ![t].group = group]
      BY <2>1, <2>3, <1>19 DEF Find
    <3>2. req'[t].at = "leave"  BY <3>1 DEF TypeOK, Request
    <3>3. \A c \in req[t].who : Half(t, c)'
      BY <1>6, <2>1, <3>2 DEF Half, Good, Member
    <3> QED  BY <1>12, <2>1, <3>2, <3>3 DEF AtWork
  <2> QED  BY <2>2, <2>3
<1>20. CASE Leave(t)
  <2>1. /\ req[t].at = "leave" /\ req[t].group = group /\ group' = group
        /\ row' = row /\ Goes(t, "delete") /\ Dismiss(group, req[t].who)
    BY <1>4, <1>9, <1>20 DEF Leave, stored, GroupOf, Unnoticed
  <2>2. req'[t].at = "delete"  BY <2>1, GoesTo
  <2>3. group \in Requests =>
          /\ Sides(group, req[t].who)
          /\ \A c \in Contacts \ req[t].who : c \in members'[group] <=> c \in members[group]
          /\ \A c \in req[t].who : c \notin refused' => c \notin members'[group]
    BY <1>4, <2>1, DismissEffect
  <2>4. \A c \in req[t].who : Half(t, c)'  BY <1>5, <2>1, <2>2, <2>3 DEF Half, Member
  <2>5. \A c \in Contacts \ req[t].who : c \in refused' <=> c \in refused
    <3>1. PICK some \in SUBSET req[t].who :
            refused' = (refused \ req[t].who) \cup (req[t].who \cap members'[group])
      BY <2>1 DEF Dismiss
    <3> QED  BY <3>1
  <2> QED  BY <1>5, <1>12, <2>1, <2>2, <2>3, <2>4, <2>5 DEF AtWork
<1>21. CASE DeleteRow(t)
  <2>1. /\ group' = group /\ members' = members /\ refused' = refused /\ Goes(t, "over")
        /\ req[t].at = "delete"
        /\ row' = [c \in Contacts |-> IF c \in req[t].who THEN "none" ELSE row[c]]
    BY <1>9, <1>21 DEF DeleteRow, whats, Unnoticed
  <2>2. req'[t].at = "over"  BY <2>1, GoesTo
  <2>3. \A c \in req[t].who \ refused : ~Member(c)  BY <1>6, <2>1 DEF Half
  <2>4. \A c \in req[t].who : Good(c)'  BY <1>4, <2>1, <2>3 DEF Good, Member
  <2>5. \A c \in Contacts \ req[t].who : Good(c)'
    BY <1>7, <2>1 DEF Good, Member
  <2> QED  BY <2>2, <2>4, <2>5 DEF AtWork
<1> QED
  BY <1>13, <1>14, <1>15, <1>16, <1>17, <1>18, <1>19, <1>20, <1>21 DEF Step

LEMMA HalfStep ==
  TypeOK /\ OrderInv /\ Alone /\ GroupInv /\ HalfInv /\ [Next]_vars => HalfInv'
<1> SUFFICES ASSUME TypeOK, OrderInv, Alone, GroupInv, HalfInv, [Next]_vars, Clean'
             PROVE  HalfInv'
  BY DEF HalfInv
<1>1. Clean /\ (\A r \in Requests : GroupOf(r)) /\ ~adrift' /\ ~raced'
  BY CleanStep DEF GroupInv, Clean
<1>2. ASSUME NEW who \in SUBSET Contacts, Create(who)  PROVE HalfInv'
  <2>1. /\ row' = row /\ group' = group /\ group = NoGroup
        /\ \A r \in Requests : req[r].at = "none"
        /\ \A c \in Contacts : row[c] = "none"
    BY <1>2 DEF Create, whats, OrderInv
  <2>2. \A c \in Contacts : Good(c)'  BY <2>1 DEF Good, Member
  <2>3. Starts("create", who, "over") \/ Starts("create", who, "group")
    <3>1. CASE who = {}  BY <1>2, <3>1 DEF Create
    <3>2. CASE who # {}  BY <1>2, <3>2 DEF Create
    <3> QED  BY <3>1, <3>2
  <2>4. /\ \A r \in Requests : r # last + 1 => req'[r] = req[r]
        /\ req'[last + 1].who = who /\ ~req'[last + 1].failed
        /\ req'[last + 1].at \in {"over", "group"}
    <3>1. CASE Starts("create", who, "over")   BY <3>1, StartEffect
    <3>2. CASE Starts("create", who, "group")  BY <3>2, StartEffect
    <3> QED  BY <2>3, <3>1, <3>2
  <2>5. \A r \in Requests : AtWork(r)' => r = last + 1 /\ req'[r].at = "group"
    BY <2>1, <2>4 DEF AtWork
  <2>6. \A r \in Requests : AtWork(r)' => \A c \in req'[r].who : Half(r, c)'
    BY <2>1, <2>4, <2>5 DEF Half
  <2>7. \A r \in Requests : req'[r].at # "record"  BY <2>1, <2>4
  <2> QED  BY <2>2, <2>6, <2>7 DEF HalfInv
<1>3. ASSUME NEW c \in Contacts, Add(c) \/ Remove(c)  PROVE HalfInv'
  <2>1. row' = row /\ group' = group /\ members' = members /\ refused' = refused
    BY <1>3 DEF Add, Remove, stored, whats
  <2>2. Starts("add", {c}, "read") \/ Starts("remove", {c}, "find")
    BY <1>3 DEF Add, Remove
  <2>3. /\ \A r \in Requests : ~AtWork(r) /\ (AtWork(r)' => r = last + 1)
        /\ \A r \in Requests : r # last + 1 => req'[r] = req[r]
        /\ req'[last + 1].who = {c} /\ ~req'[last + 1].failed
        /\ req'[last + 1].at \in {"read", "find"}
    <3>1. CASE Starts("add", {c}, "read")
      BY <1>1, <3>1, StartEffect, StartAlone
    <3>2. CASE Starts("remove", {c}, "find")
      BY <1>1, <3>2, StartEffect, StartAlone
    <3> QED  BY <2>2, <3>1, <3>2
  <2>4. \A d \in Contacts : Good(d)  BY <1>1, <2>3 DEF HalfInv
  <2>5. \A d \in Contacts : Good(d)'  BY <2>1, <2>4 DEF Good, Member
  <2>6. \A r \in Requests : AtWork(r)' => \A d \in req'[r].who : Half(r, d)'
    BY <2>3, <2>5 DEF Half
  <2>7. \A r \in Requests : req'[r].at # "record"  BY <2>3 DEF AtWork
  <2> QED  BY <2>5, <2>6, <2>7 DEF HalfInv
<1>4. ASSUME NEW r \in Requests, Step(r)  PROVE HalfInv'
  BY <1>1, <1>4, HalfStepOf
<1>5. ASSUME NEW r \in Requests, Kill(r)  PROVE FALSE
  BY <1>1, <1>5 DEF Kill, Unnoticed
<1>6. CASE UNCHANGED <<group, row, members, refused, req>>
  BY <1>1, <1>6 DEF HalfInv, Half, Good, Member, AtWork
<1>7. ASSUME NEW s \in Statuses, Patch(s)  PROVE UNCHANGED <<group, row, members, refused, req>>
  BY <1>7 DEF Patch
<1>8. ~Delete  BY <1>1 DEF Delete
<1>9. Reconnect \/ UNCHANGED vars => UNCHANGED <<group, row, members, refused, req>>
  BY DEF Reconnect, vars, stored, whats
<1> QED  BY <1>2, <1>3, <1>4, <1>5, <1>6, <1>7, <1>8, <1>9 DEF Next

-----------------------------------------------------------------------------
(* The theorems.                                                           *)

LEMMA Start == Init => IInv
<1> SUFFICES ASSUME Init  PROVE IInv  OBVIOUS
<1>1. TypeOK
  <2>1. Unmade \in Request  BY DEF Unmade, Request, NoGroup
  <2>2. req \in [Requests -> Request]  BY <2>1 DEF Init
  <2>3. last \in 0 .. MaxRequests /\ faults \in 0 .. MaxFaults
    BY BoundsAreNumbers DEF Init
  <2>4. /\ members \in [Requests -> SUBSET Contacts] /\ refused \subseteq Contacts
        /\ made \subseteq Requests /\ strayed \subseteq Requests /\ archived \subseteq Requests
    BY DEF Init
  <2>5. row \in [Contacts -> {"none", "joined", "failed"}]  BY DEF Init
  <2>6. /\ task \in Statuses \cup {"none", "deleted"} /\ group \in Requests \cup {NoGroup}
        /\ connected \in BOOLEAN /\ raced \in BOOLEAN /\ adrift \in BOOLEAN
    BY DEF Init
  <2>7. Rest  BY <2>3, <2>4, <2>5, <2>6 DEF Rest
  <2> QED  BY <2>2, <2>7, TypeParts
<1>2. made = {} /\ \A r \in Requests : req[r].at = "none" /\ members[r] = {}
  BY DEF Init, Unmade
<1>3. OrderInv /\ Alone /\ GroupInv
  BY <1>2 DEF Init, OrderInv, Alone, GroupInv, GroupOf, AtWork
<1>4. HalfInv
  <2>1. \A c \in Contacts : Good(c)  BY DEF Init, Good, Member
  <2> QED  BY <1>2, <2>1 DEF HalfInv, AtWork
<1> QED  BY <1>1, <1>3, <1>4 DEF IInv

LEMMA Invariant == Spec => []IInv
<1>1. IInv /\ [Next]_vars => IInv'
  BY TypeStep, OrderStep, AloneStep, GroupStep, HalfStep DEF IInv
<1> QED  BY Start, <1>1, PTL DEF Spec

\* The type invariant of TaskGroup (api/tasks).
THEOREM TypeCorrect == Spec => []TypeOK
<1>1. IInv => TypeOK  BY DEF IInv
<1> QED  BY Invariant, <1>1, PTL

\* A task has one group, the one in its row, and no group that a request has been
\* told of is left outside, whichever calls to waclaw fail, before or after
\* WhatsApp acts: as long as requests do not overlap, the session stays and no
\* error goes unnoticed (participants/route.ts:67-125, tasks/route.ts:143-172).
THEOREM TaskHasOneGroup == Spec => []OneGroup
<1>1. IInv => OneGroup
  <2> SUFFICES ASSUME IInv, Clean, NEW r \in made \ strayed, req[r].at = "over"
               PROVE  group = r
    BY DEF OneGroup
  <2>1. GroupOf(r)  BY DEF IInv, GroupInv, TypeOK
  <2> QED  BY <2>1 DEF GroupOf
<1> QED  BY Invariant, <1>1, PTL

\* Who is said to have joined is in the task's group, and who is in it has a
\* row, with the same exceptions, save contacts whom WhatsApp refused last time
\* (participants/route.ts:67-145, 188-212, tasks/route.ts:174-219,
\* task_groups.go:67-78, 138-155).
THEOREM JoinedAreInGroup == Spec => []JoinedAreMembers
<1>1. IInv => JoinedAreMembers
  <2>1. ASSUME IInv, Clean, \A r \in Requests : ~AtWork(r)
        PROVE  \A c \in Contacts : Good(c)
    BY <2>1 DEF IInv, HalfInv
  <2> QED  BY <2>1 DEF JoinedAreMembers, Good, Member
<1> QED  BY Invariant, <1>1, PTL

-----------------------------------------------------------------------------
(* TaskView: its types.                                                    *)

Version == [of : Tasks, at : 0 .. MaxWrites]
Change ==
  [of : Tasks, at : 0 .. MaxWrites, kind : {"create", "update", "delete"}, ok : BOOLEAN]

ViewNumbers ==
  /\ writes \in 0 .. MaxWrites /\ opens \in 0 .. MaxOpens
  /\ crossed \in BOOLEAN /\ misread \in BOOLEAN

ViewData ==
  /\ table \in [Tasks -> 0 .. MaxWrites] /\ list \in [Tasks -> 0 .. MaxWrites]
  /\ lists \in [1 .. MaxLists -> SUBSET [Tasks -> 0 .. MaxWrites]]
  /\ born \subseteq Tasks
  /\ selected \in Tasks \cup {NoTask}
  /\ detail \in Version \cup {Task!Blank}
  /\ loads \subseteq Version /\ changing \subseteq Tasks
  /\ saves \subseteq Change

LEMMA ViewTypes ==
  Task!TypeOK <=> ViewNumbers /\ ViewData /\ faults \in 0 .. MaxFaults
BY DEF Task!TypeOK, ViewNumbers, ViewData, Version, Change

LEMMA ViewTypesNext ==
  Task!TypeOK' <=> ViewNumbers' /\ ViewData' /\ faults' \in 0 .. MaxFaults
BY DEF Task!TypeOK, ViewNumbers, ViewData, Version, Change

LEMMA ViewFaults ==
  ASSUME faults \in 0 .. MaxFaults, Task!Fault \/ UNCHANGED faults
  PROVE  faults' \in 0 .. MaxFaults
BY BoundsAreNumbers DEF Task!Fault

\* A change of a task, with the version it writes.
LEMMA WriteType ==
  ASSUME Task!TypeOK, NEW t \in Tasks, NEW v \in 0 .. MaxWrites,
         NEW kind \in {"create", "update", "delete"}, NEW own \in BOOLEAN,
         Task!Write(t, v, kind, own)
  PROVE  Task!TypeOK'
<1>1. ViewNumbers /\ ViewData /\ faults \in 0 .. MaxFaults  BY ViewTypes
<1>2. PICK ok \in BOOLEAN :
        /\ IF ok THEN UNCHANGED faults ELSE Task!Fault
        /\ table' = IF ok THEN [table EXCEPT ![t] = v] ELSE table
        /\ born' = IF ok THEN born \cup {t} ELSE born
        /\ saves' = IF own THEN saves \cup {[of |-> t, at |-> v, kind |-> kind, ok |-> ok]}
                          ELSE saves
  BY DEF Task!Write
<1>3. faults' \in 0 .. MaxFaults  BY <1>1, <1>2, ViewFaults
<1>4. writes' \in 0 .. MaxWrites
  BY <1>1, ViewBounds DEF Task!Write, ViewNumbers
<1>5. ViewNumbers'  BY <1>1, <1>4 DEF Task!Write, ViewNumbers, Task!history
<1>6. table' \in [Tasks -> 0 .. MaxWrites]  BY <1>1, <1>2 DEF ViewData
<1>7. lists' \in [1 .. MaxLists -> SUBSET [Tasks -> 0 .. MaxWrites]]
  BY <1>1, <1>6 DEF Task!Write, ViewData
<1>8. [of |-> t, at |-> v, kind |-> kind, ok |-> TRUE] \in Change
      /\ [of |-> t, at |-> v, kind |-> kind, ok |-> FALSE] \in Change
  BY DEF Change
<1>9. saves' \subseteq Change  BY <1>1, <1>2, <1>8 DEF ViewData
<1>10. born' \subseteq Tasks  BY <1>1, <1>2 DEF ViewData
<1>11. UNCHANGED <<list, selected, detail, loads, changing>>  BY DEF Task!Write
<1>12. ViewData'
  BY <1>1, <1>6, <1>7, <1>9, <1>10, <1>11 DEF ViewData, Task!Blank
<1> QED  BY <1>3, <1>5, <1>12, ViewTypesNext

\* The next version is one.
LEMMA NextVersion ==
  ASSUME Task!TypeOK, writes < MaxWrites
  PROVE  writes + 1 \in 0 .. MaxWrites
BY ViewTypes, ViewBounds DEF ViewNumbers

LEMMA AskType ==
  ASSUME Task!TypeOK, NEW t \in Tasks, Task!Ask(t)
  PROVE  loads' \subseteq Version /\ crossed' \in BOOLEAN /\ misread' \in BOOLEAN
<1>1. ViewNumbers /\ ViewData  BY ViewTypes
<1>2. [of |-> t, at |-> table[t]] \in Version  BY <1>1 DEF ViewData, Version
<1> QED  BY <1>1, <1>2 DEF Task!Ask, ViewNumbers, ViewData

LEMMA ViewTypeStep ==
  ASSUME Task!TypeOK, Task!Next
  PROVE  Task!TypeOK'
<1>0. ViewNumbers /\ ViewData /\ faults \in 0 .. MaxFaults  BY ViewTypes
<1> USE <1>0
<1>1. ASSUME NEW i \in 1 .. MaxLists, Task!Load(i)  PROVE Task!TypeOK'
  <2>1. lists' \in [1 .. MaxLists -> SUBSET [Tasks -> 0 .. MaxWrites]]
    BY <1>1 DEF Task!Load, ViewData
  <2>2. ViewData'  BY <1>1, <2>1 DEF Task!Load, ViewData, Task!Blank
  <2>3. ViewNumbers' /\ faults' = faults
    BY <1>1 DEF Task!Load, ViewNumbers, Task!counts, Task!history
  <2> QED  BY <2>2, <2>3, ViewTypesNext
<1>2. ASSUME NEW i \in 1 .. MaxLists, Task!Loaded(i)  PROVE Task!TypeOK'
  <2>1. list' \in [Tasks -> 0 .. MaxWrites]
        /\ lists' \in [1 .. MaxLists -> SUBSET [Tasks -> 0 .. MaxWrites]]
    BY <1>2 DEF Task!Loaded, ViewData
  <2>2. ViewData'  BY <1>2, <2>1 DEF Task!Loaded, ViewData, Task!Blank
  <2>3. ViewNumbers'  BY <1>2 DEF Task!Loaded, ViewNumbers, Task!history
  <2>4. faults' \in 0 .. MaxFaults  BY <1>2, ViewFaults DEF Task!Loaded
  <2> QED  BY <2>2, <2>3, <2>4, ViewTypesNext
<1>3. CASE Task!Close
  <2>1. ViewData'  BY <1>3 DEF Task!Close, ViewData, Task!Blank, Task!net
  <2>2. ViewNumbers' /\ faults' = faults
    BY <1>3 DEF Task!Close, ViewNumbers, Task!counts, Task!history
  <2> QED  BY <2>1, <2>2, ViewTypesNext
<1>4. CASE Task!Save
  <2>1. selected \in Tasks  BY <1>4 DEF Task!Save, ViewData
  <2>2. writes + 1 \in 0 .. MaxWrites
    BY <1>4, NextVersion DEF Task!Save, Task!Write
  <2> QED  BY <1>4, <2>1, <2>2, WriteType DEF Task!Save
<1>5. CASE Task!Change
  <2>1. changing' \subseteq Tasks  BY <1>5 DEF Task!Change, ViewData
  <2>2. ViewData'  BY <1>5, <2>1 DEF Task!Change, ViewData, Task!Blank
  <2>3. ViewNumbers' /\ faults' = faults
    BY <1>5 DEF Task!Change, ViewNumbers, Task!counts, Task!history
  <2> QED  BY <2>2, <2>3, ViewTypesNext
<1>10. ASSUME NEW t \in changing, Task!Changed(t)  PROVE Task!TypeOK'
  <2>1. t \in Tasks  BY DEF ViewData
  <2>2. loads' \subseteq Version /\ crossed' \in BOOLEAN /\ misread' \in BOOLEAN
    <3>1. CASE Task!Ask(t)  BY <2>1, <3>1, AskType
    <3>2. CASE UNCHANGED <<loads, Task!history>>
      BY <3>2 DEF Task!history, ViewData, ViewNumbers
    <3> QED  BY <1>10, <3>1, <3>2 DEF Task!Changed
  <2>3. changing' \subseteq Tasks  BY <1>10 DEF Task!Changed, ViewData
  <2>4. ViewData'  BY <1>10, <2>2, <2>3 DEF Task!Changed, ViewData, Task!Blank
  <2>5. ViewNumbers'  BY <1>10, <2>2 DEF Task!Changed, ViewNumbers
  <2>6. faults' \in 0 .. MaxFaults  BY <1>10, ViewFaults DEF Task!Changed
  <2> QED  BY <2>4, <2>5, <2>6, ViewTypesNext
<1>6. ASSUME NEW t \in Tasks, Task!Open(t)  PROVE Task!TypeOK'
  <2>1. loads' \subseteq Version /\ crossed' \in BOOLEAN /\ misread' \in BOOLEAN
    BY <1>6, AskType DEF Task!Open
  <2>2. opens' \in 0 .. MaxOpens
    BY <1>6, ViewBounds DEF Task!Open, ViewNumbers
  <2>3. ViewData'  BY <1>6, <2>1 DEF Task!Open, ViewData, Task!Blank
  <2>4. ViewNumbers' /\ faults' = faults
    BY <1>6, <2>1, <2>2 DEF Task!Open, ViewNumbers
  <2> QED  BY <2>3, <2>4, ViewTypesNext
<1>7. ASSUME NEW t \in Tasks, NEW own \in BOOLEAN, Task!Create(t, own) \/ Task!Delete(t, own)
      PROVE  Task!TypeOK'
  <2>1. CASE Task!Create(t, own)
    <3>1. writes + 1 \in 0 .. MaxWrites
      BY <2>1, NextVersion DEF Task!Create, Task!Write
    <3> QED  BY <2>1, <3>1, WriteType DEF Task!Create
  <2>2. CASE Task!Delete(t, own)
    <3>1. 0 \in 0 .. MaxWrites  BY ViewBounds
    <3> QED  BY <2>2, <3>1, WriteType DEF Task!Delete
  <2> QED  BY <1>7, <2>1, <2>2
<1>8. ASSUME NEW r \in saves, Task!Saved(r)  PROVE Task!TypeOK'
  <2>1. r.of \in Tasks /\ r.at \in 0 .. MaxWrites  BY DEF ViewData, Change
  <2>2. list' \in [Tasks -> 0 .. MaxWrites]
    BY <1>8, <2>1 DEF Task!Saved, ViewData
  <2>3. ViewData'  BY <1>8, <2>2 DEF Task!Saved, ViewData, Task!Blank
  <2>4. ViewNumbers' /\ faults' = faults
    BY <1>8 DEF Task!Saved, ViewNumbers, Task!counts, Task!history
  <2> QED  BY <2>3, <2>4, ViewTypesNext
<1>9. ASSUME NEW r \in loads, Task!Opened(r)  PROVE Task!TypeOK'
  <2>1. ViewData'  BY <1>9 DEF Task!Opened, ViewData, Task!Blank
  <2>2. ViewNumbers'  BY <1>9 DEF Task!Opened, ViewNumbers
  <2>3. faults' \in 0 .. MaxFaults  BY <1>9, ViewFaults DEF Task!Opened
  <2> QED  BY <2>1, <2>2, <2>3, ViewTypesNext
<1> QED  BY <1>1, <1>2, <1>3, <1>4, <1>5, <1>6, <1>7, <1>8, <1>9, <1>10 DEF Task!Next

-----------------------------------------------------------------------------
(* TaskView: the dialog.                                                   *)

\* While no load of another task has crossed the selected one's, the loads under
\* way are the selected task's, and what the last one has left is too.
DetailInv ==
  ~crossed /\ selected # NoTask =>
    /\ \A r \in loads : r.of = selected
    /\ loads = {} /\ ~misread => detail.of = selected

\* Once the selected task is asked for, and only it, its answer is to come.
LEMMA AskDetail ==
  ASSUME NEW t, Task!Ask(t)
  PROVE  DetailInv'
<1> SUFFICES ASSUME ~crossed'  PROVE DetailInv'  BY DEF DetailInv
<1>1. t = selected' /\ \A l \in loads : l.of = t  BY DEF Task!Ask
<1>2. PICK ask : ask.of = t /\ loads' = loads \cup {ask}  BY DEF Task!Ask
<1> QED  BY <1>1, <1>2 DEF DetailInv

LEMMA DetailStep ==
  ASSUME Task!TypeOK, DetailInv, Task!Next
  PROVE  DetailInv'
<1>0. crossed \in BOOLEAN /\ misread \in BOOLEAN  BY ViewTypes DEF ViewNumbers
<1>1. CASE UNCHANGED <<crossed, selected, loads, detail, misread>>
  BY <1>1 DEF DetailInv
<1>2. CASE selected' = NoTask
  BY <1>2 DEF DetailInv
<1>3. ASSUME NEW i, Task!Load(i) \/ Task!Loaded(i)  PROVE DetailInv'
  BY <1>1, <1>3 DEF Task!Load, Task!Loaded, Task!history
<1>4. CASE Task!Change  BY <1>1, <1>4 DEF Task!Change, Task!history
<1>5. CASE Task!Close  BY <1>2, <1>5 DEF Task!Close
<1>6. ASSUME NEW t, NEW v, NEW kind, NEW own, Task!Write(t, v, kind, own)
      PROVE  DetailInv'
  BY <1>1, <1>6 DEF Task!Write, Task!history
<1>7. CASE Task!Save  BY <1>6, <1>7 DEF Task!Save
<1>8. ASSUME NEW t, Task!Changed(t)  PROVE DetailInv'
  BY <1>1, <1>8, AskDetail DEF Task!Changed, Task!history
<1>9. ASSUME NEW t, Task!Open(t)  PROVE DetailInv'
  BY <1>9, AskDetail DEF Task!Open
<1>10. ASSUME NEW t \in Tasks, NEW own \in BOOLEAN, Task!Create(t, own) \/ Task!Delete(t, own)
      PROVE  DetailInv'
  BY <1>6, <1>10 DEF Task!Create, Task!Delete
<1>11. ASSUME NEW r \in saves, Task!Saved(r)  PROVE DetailInv'
  BY <1>1, <1>2, <1>11 DEF Task!Saved, Task!history
<1>12. ASSUME NEW r \in loads, Task!Opened(r)  PROVE DetailInv'
  <2>1. loads' = loads \ {r} /\ UNCHANGED <<selected, crossed>>
    BY <1>12 DEF Task!Opened
  <2>2. detail' = r \/ misread' = TRUE  BY <1>12 DEF Task!Opened
  <2> QED  BY <1>12, <2>1, <2>2 DEF DetailInv
<1> QED  BY <1>3, <1>4, <1>5, <1>7, <1>8, <1>9, <1>10, <1>11, <1>12 DEF Task!Next

LEMMA ViewStart == Task!Init => Task!TypeOK
<1> SUFFICES ASSUME Task!Init  PROVE Task!TypeOK
  OBVIOUS
<1>1. 0 \in 0 .. MaxWrites /\ 0 \in 0 .. MaxOpens /\ 0 \in 0 .. MaxFaults
  BY BoundsAreNumbers, ViewBounds
<1>2. ViewNumbers /\ faults \in 0 .. MaxFaults  BY <1>1 DEF Task!Init, ViewNumbers
<1>3. ViewData  BY <1>1 DEF Task!Init, ViewData
<1> QED  BY <1>2, <1>3, ViewTypes

LEMMA DetailInvariant == Task!Spec => [](Task!TypeOK /\ DetailInv)
<1>1. Task!Init => Task!TypeOK  BY ViewStart
<1>2. Task!Init => DetailInv  BY DEF Task!Init, DetailInv
<1>3. Task!TypeOK /\ DetailInv /\ [Task!Next]_Task!vars => Task!TypeOK' /\ DetailInv'
  <2> SUFFICES ASSUME Task!TypeOK, DetailInv, [Task!Next]_Task!vars
               PROVE  Task!TypeOK' /\ DetailInv'
    OBVIOUS
  <2>1. CASE Task!Next  BY <2>1, ViewTypeStep, DetailStep
  <2>2. CASE UNCHANGED Task!vars
    BY <2>2 DEF Task!vars, Task!net, Task!counts, Task!history, Task!TypeOK, Task!Blank, DetailInv
  <2> QED  BY <2>1, <2>2
<1> QED  BY <1>1, <1>2, <1>3, PTL DEF Task!Spec

\* The dialog of a task acts on the task it shows, whatever is opened, saved,
\* deleted, changed and loaded meanwhile, by this page or another - as long as no
\* other task's detail was loaded beside or after the last load of its own, and
\* that has not failed (useTasks.ts:138-216).
THEOREM DialogActsOnItsTask == Task!Spec => []DetailIsSelected
<1>1. DetailInv => DetailIsSelected  BY DEF DetailInv, DetailIsSelected, Task!DetailIsSelected
<1> QED  BY <1>1, DetailInvariant, PTL

=============================================================================
