---------------------------- MODULE GroupSettings ----------------------------
(***************************************************************************)
(* The "Grupos" tab of the settings window: the groups of the active       *)
(* instance that are authorised, and whether each gets replies, kept in    *)
(* table instance_groups by api/instances/[id]/groups and copied by the    *)
(* window, which changes its copy whatever the answer to a write says.     *)
(***************************************************************************)
EXTENDS Naturals

CONSTANTS
  Instances,
  Groups,     \* groups of the line, as WhatsApp lists them
  Requests,   \* requests that may be in flight at the same time
  MaxAsks,    \* bound: requests of the user
  MaxFaults   \* bound: failing requests and lost answers

VARIABLES
  table,      \* instance_groups: send_reply of each group, or "none"
  active,     \* activeInstanceId
  tab,        \* the window is open at this tab
  groups,     \* the window's copy of the rows
  fetched,    \* groups fetched from WhatsApp
  fetching,   \* such a fetch is under way
  net,        \* requests in flight
  disturbed,  \* ghost: since the last load sent alone, requests overlapped or
              \* failed, or an answer came for another instance
  asks,       \* requests so far
  faults      \* faults so far

vars == <<table, active, tab, groups, fetched, fetching, net, disturbed, asks, faults>>

NoRows == [g \in Groups |-> "none"]
Quiet == [kind |-> "none"]
InFlight == {r \in Requests : net[r] # Quiet}

Init ==
  /\ table \in [Instances -> {NoRows, [g \in Groups |-> "on"]}]
  /\ active \in Instances
  /\ tab = FALSE
  /\ groups = NoRows
  /\ fetched = {} /\ fetching = FALSE
  /\ net = [r \in Requests |-> Quiet]
  /\ disturbed = FALSE
  /\ asks = 0 /\ faults = 0

(***************************************************************************)
(* Requests.  A write remembers the instance of the click; a load is sent  *)
(* by the tab, or again for a group that was added.                        *)
(***************************************************************************)

Load(i) == [kind |-> "load", i |-> i, at |-> "sent", rows |-> NoRows, ok |-> TRUE]

Write(kind, i, g, to) ==
  [kind |-> kind, i |-> i, g |-> g, to |-> to, at |-> "sent", rows |-> NoRows, ok |-> TRUE]

Send(r, req) ==
  /\ net' = [net EXCEPT ![r] = req]
  /\ disturbed' = IF InFlight \subseteq {r} /\ req.i = active
                    THEN disturbed /\ req.kind # "load"
                    ELSE TRUE

Ask(r, req) ==
  /\ net[r] = Quiet
  /\ asks < MaxAsks
  /\ asks' = asks + 1
  /\ Send(r, req)

Fault == faults < MaxFaults /\ faults' = faults + 1

(***************************************************************************)
(* The window.                                                             *)
(***************************************************************************)

\* The tab is opened, or its token renewed while it is open: the groups
\* fetched are forgotten and the rows loaded.
Enter(r) ==
  /\ tab' = TRUE
  /\ fetched' = {}
  /\ Ask(r, Load(active))
  /\ UNCHANGED <<table, active, groups, fetching, faults>>

Leave ==
  /\ tab
  /\ tab' = FALSE
  /\ UNCHANGED <<table, active, groups, fetched, fetching, net, disturbed, asks, faults>>

\* The tabs of the instances are behind the window.
Switch(i) ==
  /\ ~tab /\ i # active
  /\ active' = i
  /\ UNCHANGED <<table, tab, groups, fetched, fetching, net, disturbed, asks, faults>>

FetchFromWhatsApp ==
  /\ tab /\ ~fetching
  /\ fetching' = TRUE
  /\ UNCHANGED <<table, active, tab, groups, fetched, net, disturbed, asks, faults>>

Fetched ==
  /\ fetching
  /\ fetching' = FALSE
  /\ \/ fetched' = Groups /\ UNCHANGED faults
     \/ Fault /\ UNCHANGED fetched
  /\ UNCHANGED <<table, active, tab, groups, net, disturbed, asks>>

\* The checkbox "Autorizar" of a listed group, and "Remover".
ToggleAuthorize(r, g) ==
  /\ tab
  /\ groups[g] # "none" \/ g \in fetched
  /\ Ask(r, IF groups[g] # "none" THEN Write("remove", active, g, "none")
                                  ELSE Write("add", active, g, "on"))
  /\ UNCHANGED <<table, active, tab, groups, fetched, fetching, faults>>

\* The checkbox "Responder".
ToggleGroupFlag(r, g) ==
  /\ tab
  /\ groups[g] # "none"
  /\ Ask(r, Write("flag", active, g, IF groups[g] = "on" THEN "off" ELSE "on"))
  /\ UNCHANGED <<table, active, tab, groups, fetched, fetching, faults>>

(***************************************************************************)
(* The API: an upsert sets every flag again, a PATCH needs its row.        *)
(***************************************************************************)

Written(rows, req) ==
  CASE req.kind \in {"add", "remove"} -> [rows EXCEPT ![req.g] = req.to]
    [] req.kind = "flag" -> [rows EXCEPT ![req.g] = IF @ = "none" THEN @ ELSE req.to]
    [] OTHER             -> rows

Serve(r) ==
  LET req == net[r] IN
  /\ r \in InFlight /\ req.at = "sent"
  /\ \/ /\ table' = [table EXCEPT ![req.i] = Written(@, req)]
        /\ net' = [net EXCEPT ![r].at = "back", ![r].rows = table[req.i]]
        /\ UNCHANGED faults
     \/ /\ Fault
        /\ net' = [net EXCEPT ![r].at = "back", ![r].ok = FALSE]
        /\ UNCHANGED table
  /\ UNCHANGED <<active, tab, groups, fetched, fetching, disturbed, asks>>

(***************************************************************************)
(* Answers.  None is checked for its instance, and no write for success.   *)
(***************************************************************************)

\* A load that went well replaces the copy.
Loaded(r) ==
  /\ net[r].kind = "load"
  /\ groups' = IF net[r].ok THEN net[r].rows ELSE groups
  /\ net' = [net EXCEPT ![r] = Quiet]
  /\ disturbed' = (disturbed \/ ~net[r].ok \/ net[r].i # active)

\* A removal or a flag changes the copy, an addition loads it again.
Removed(r) ==
  /\ net[r].kind \in {"remove", "flag"}
  /\ groups' = [groups EXCEPT ![net[r].g] =
                  IF @ = "none" THEN @ ELSE net[r].to]
  /\ net' = [net EXCEPT ![r] = Quiet]
  /\ disturbed' = (disturbed \/ ~net[r].ok \/ net[r].i # active)

Added(r) ==
  /\ net[r].kind = "add"
  /\ Send(r, Load(net[r].i))
  /\ UNCHANGED groups

Answer(r) ==
  /\ r \in InFlight /\ net[r].at = "back"
  /\ Loaded(r) \/ Removed(r) \/ Added(r)
  /\ UNCHANGED <<table, active, tab, fetched, fetching, asks, faults>>

\* The answer never comes: fetch throws, and nothing follows.
Lose(r) ==
  /\ r \in InFlight
  /\ Fault
  /\ net' = [net EXCEPT ![r] = Quiet]
  /\ disturbed' = TRUE
  /\ UNCHANGED <<table, active, tab, groups, fetched, fetching, asks>>

Next ==
  \/ Leave \/ FetchFromWhatsApp \/ Fetched
  \/ \E i \in Instances : Switch(i)
  \/ \E r \in Requests : Enter(r) \/ Serve(r) \/ Answer(r) \/ Lose(r)
  \/ \E r \in Requests, g \in Groups : ToggleAuthorize(r, g) \/ ToggleGroupFlag(r, g)

Spec == Init /\ [][Next]_vars

(***************************************************************************)
(* Properties.                                                             *)
(***************************************************************************)

\* Types of the variables.
TypeOK ==
  /\ table \in [Instances -> [Groups -> {"none", "on", "off"}]]
  /\ groups \in [Groups -> {"none", "on", "off"}]
  /\ active \in Instances
  /\ fetched \subseteq Groups
  /\ {tab, fetching, disturbed} \subseteq BOOLEAN
  /\ \A r \in InFlight :
       /\ net[r].kind \in {"load", "add", "remove", "flag"}
       /\ net[r].i \in Instances /\ net[r].at \in {"sent", "back"}
  /\ asks \in 0..MaxAsks /\ faults \in 0..MaxFaults

\* When nothing is in flight the tab shows the rows of the active instance as
\* the table has them, so that what the user reads there is what the audio
\* filter will do: the copy the window changes by itself never drifts from the
\* table as long as requests neither overlap nor fail (SettingsModal.tsx:102-213).
GroupsAgree ==
  tab /\ InFlight = {} /\ ~disturbed => groups = table[active]
=============================================================================
