------------------------------- MODULE Setup -------------------------------
(***************************************************************************)
(* Linking a WhatsApp line: the first-run wizard and the settings window   *)
(* ask api/instances for a row and a waclaw session, start the pairing of  *)
(* that session and show its QR code, which the window then polls; rows    *)
(* and sessions are removed together by DELETE.  An instance and its       *)
(* session are the same element of Sessions here.                          *)
(***************************************************************************)
EXTENDS Naturals, FiniteSets

CONSTANTS
  Sessions,    \* sessions, each with the row that names it
  NoSession,
  Flows,       \* clicks that may be under way at the same time
  MaxPolls,    \* bound: polls of the QR view in flight
  MaxClicks,   \* bound: creates, reconnects and deletes
  MaxFaults    \* bound: calls and queries that fail, answers that are lost

VARIABLES
  session,    \* state of each waclaw session; "none" before it, "removed" after
  code,       \* lastQR of each session: "none", "live" or "expired"
  paired,     \* sessions whose store holds a device
  dialing,    \* sessions with a Connect under way
  rows,       \* table instances
  list,       \* `instances` of useInstances
  flows,      \* each click under way: who, which session, which step
  open,       \* settings window
  view,       \* its view: "list", "new" or "qr"
  busy,       \* its busy flag
  pending,    \* pendingInstance
  seen,       \* session whose code is in qrCode
  polls,      \* polls of the QR view in flight
  ended,      \* the poll effect has set its `cancelled`
  step,       \* of the wizard: "name", "qr" or "error"
  torn,       \* ghost: sessions of which a fault left only half
  kept,       \* ghost: an answer without a code came while another's was kept
  clicks,     \* clicks so far
  faults      \* faults so far

ui == <<open, view, busy, pending, seen, polls, ended, step, kept>>
go == <<session, code, paired, dialing>>
vars == <<go, rows, list, flows, ui, torn, clicks, faults>>

Idle == [by |-> "none", s |-> NoSession, at |-> "idle"]
Shown == open /\ list # {}
Here == {s \in Sessions : session[s] \notin {"none", "removed"}}

Init ==
  /\ session = [s \in Sessions |-> "none"]
  /\ code = [s \in Sessions |-> "none"]
  /\ paired = {}
  /\ dialing = {}
  /\ rows = {}
  /\ list = {}
  /\ flows = [f \in Flows |-> Idle]
  /\ open = FALSE /\ view = "list" /\ busy = FALSE
  /\ pending = NoSession /\ seen = NoSession
  /\ polls = {} /\ ended = FALSE
  /\ step = "name"
  /\ torn = {} /\ kept = FALSE /\ clicks = 0 /\ faults = 0

(***************************************************************************)
(* Helpers.                                                                *)
(***************************************************************************)

Begin(f, by, s, at) ==
  /\ flows[f] = Idle
  /\ clicks < MaxClicks
  /\ clicks' = clicks + 1
  /\ flows' = [flows EXCEPT ![f] = [by |-> by, s |-> s, at |-> at]]

At(f, at) == flows[f].at = at
Goto(f, at) == flows' = [flows EXCEPT ![f].at = at]
Finished(f) == flows' = [flows EXCEPT ![f] = Idle]

Fault == faults < MaxFaults /\ faults' = faults + 1

\* The effect of the QR view runs again: answers to its earlier polls find
\* their `cancelled` set.
Restart ==
  /\ polls' = {[p EXCEPT !.cancelled = TRUE] : p \in polls}
  /\ ended' = FALSE

\* What useInstances shows; without any instance the page is the wizard, whose
\* first page it then is, and the window is unmounted.
Lists(l) ==
  /\ list' = l
  /\ IF l = {}
       THEN /\ view' = "list" /\ busy' = FALSE
            /\ pending' = NoSession /\ seen' = NoSession /\ kept' = FALSE
            /\ Restart
       ELSE UNCHANGED <<view, busy, pending, seen, kept, polls, ended>>
  /\ step' = IF l = {} THEN step ELSE "name"
  /\ UNCHANGED open

\* The catch blocks: the wizard shows its error page, the window its message.
Failed(f) ==
  /\ Finished(f)
  /\ IF flows[f].by = "wizard"
       THEN step' = "error" /\ UNCHANGED busy
       ELSE busy' = FALSE /\ UNCHANGED step
  /\ UNCHANGED <<open, view, pending, seen, polls, ended, kept>>

(***************************************************************************)
(* The user's clicks.                                                      *)
(***************************************************************************)

\* "Continuar" of the wizard, which nothing disables while a click is served,
\* and "Criar e conectar" of the window.
ClickCreate(f) ==
  \/ /\ list = {} /\ step = "name"
     /\ Begin(f, "wizard", NoSession, "post")
     /\ UNCHANGED <<go, rows, list, ui, torn, faults>>
  \/ /\ Shown /\ view = "new" /\ ~busy
     /\ Begin(f, "window", NoSession, "post")
     /\ busy' = TRUE
     /\ UNCHANGED <<go, rows, list, open, view, pending, seen, polls, ended,
                    step, kept, torn, faults>>

ClickReconnect(f, s) ==
  /\ Shown /\ view = "list" /\ ~busy
  /\ s \in list
  /\ Begin(f, "window", s, "auth")
  /\ busy' = TRUE
  /\ UNCHANGED <<go, rows, list, open, view, pending, seen, polls, ended, step,
                 kept, torn, faults>>

ClickDelete(f, s) ==
  /\ Shown /\ view = "list"
  /\ s \in list
  /\ Begin(f, "delete", s, "unlink")
  /\ UNCHANGED <<go, rows, list, ui, torn, faults>>

Retry ==
  /\ step = "error" /\ list = {}
  /\ step' = "name"
  /\ UNCHANGED <<go, rows, list, flows, open, view, busy, pending, seen, polls,
                 ended, kept, torn, clicks, faults>>

\* Views: "+ Nova", "Voltar" and "Cancelar".  Going back keeps pending and code.
Turn(from, to) ==
  /\ Shown /\ view = from
  /\ (from = "new" => ~busy)
  /\ view' = to
  /\ IF from = "qr" THEN Restart ELSE UNCHANGED <<polls, ended>>
  /\ UNCHANGED <<go, rows, list, flows, open, busy, pending, seen, step, kept,
                 torn, clicks, faults>>

Open ==
  /\ ~open /\ list # {}
  /\ open' = TRUE
  /\ UNCHANGED <<go, rows, list, flows, view, busy, pending, seen, polls, ended,
                 step, kept, torn, clicks, faults>>

\* The window forgets what it showed, not the clicks under way.
Close ==
  /\ open
  /\ open' = FALSE
  /\ view' = "list" /\ busy' = FALSE
  /\ pending' = NoSession /\ seen' = NoSession
  /\ Restart
  /\ kept' = FALSE
  /\ UNCHANGED <<go, rows, list, flows, step, torn, clicks, faults>>

\* The page is loaded again between clicks: useInstances reads the table.
LoadPage ==
  /\ \A f \in Flows : flows[f] = Idle
  /\ list # rows
  /\ list' = rows
  /\ open' = FALSE /\ view' = "list" /\ busy' = FALSE
  /\ pending' = NoSession /\ seen' = NoSession
  /\ polls' = {} /\ ended' = FALSE
  /\ step' = "name"
  /\ kept' = FALSE
  /\ UNCHANGED <<go, rows, flows, torn, clicks, faults>>

(***************************************************************************)
(* Creating an instance.                                                   *)
(***************************************************************************)

\* POST /api/instances asks waclaw for a session first, which may be there
\* though the answer is lost or unreadable ...
CreateSession(f) ==
  /\ At(f, "post")
  /\ \/ \E s \in Sessions :
          /\ session[s] = "none"
          /\ session' = [session EXCEPT ![s] = "new"]
          /\ \/ /\ flows' = [flows EXCEPT ![f].s = s, ![f].at = "insert"]
                /\ UNCHANGED <<ui, torn, faults>>
             \/ Fault /\ torn' = torn \union {s} /\ Failed(f)
     \/ Failed(f) /\ UNCHANGED <<session, torn, faults>>
  /\ UNCHANGED <<code, paired, dialing, rows, list, clicks>>

\* ... and inserts the row then; nothing removes the session if that fails, and
\* nothing is shown of the row if only its answer is lost.
InsertRow(f) ==
  /\ At(f, "insert")
  /\ \/ /\ rows' = rows \union {flows[f].s}
        /\ Goto(f, IF flows[f].by = "wizard" THEN "auth" ELSE "reload")
        /\ UNCHANGED <<ui, torn, faults>>
     \/ /\ Fault
        /\ rows' = rows \union {flows[f].s}
        /\ Failed(f)
        /\ UNCHANGED torn
     \/ /\ Fault
        /\ torn' = torn \union {flows[f].s}
        /\ Failed(f)
        /\ UNCHANGED rows
  /\ UNCHANGED <<go, list, clicks>>

\* useInstances.reload, after a create or a delete.
Reload(f) ==
  /\ At(f, "reload")
  /\ Lists(rows)
  /\ IF flows[f].by = "delete" THEN Finished(f) ELSE Goto(f, "auth")
  /\ UNCHANGED <<go, rows, torn, clicks, faults>>

(***************************************************************************)
(* Pairing: POST /sessions/{id}/auth.                                      *)
(***************************************************************************)

\* Connect is started in the background, or the session is unknown.
Auth(f) ==
  /\ At(f, "auth")
  /\ IF flows[f].s \in Here
       THEN dialing' = dialing \union {flows[f].s} /\ Goto(f, "wait") /\ UNCHANGED ui
       ELSE Failed(f) /\ UNCHANGED dialing
  /\ UNCHANGED <<session, code, paired, rows, list, torn, clicks, faults>>

\* Connect and its events: a paired device comes online, another gets a code.
Connect(s) ==
  /\ s \in dialing
  /\ dialing' = dialing \ {s}
  /\ IF s \notin Here \/ session[s] = "connected"
       THEN UNCHANGED <<session, code>>
       ELSE \/ /\ s \in paired
               /\ session' = [session EXCEPT ![s] = "connected"]
               /\ UNCHANGED code
            \/ /\ s \notin paired
               /\ session' = [session EXCEPT ![s] = "waiting_qr"]
               /\ code' = [code EXCEPT ![s] = "live"]
            \/ /\ session' = [session EXCEPT ![s] = "disconnected"]
               /\ UNCHANGED code
  /\ UNCHANGED <<paired, rows, list, flows, ui, torn, clicks, faults>>

\* The code runs out: the session fails, and lastQR keeps the old code.
Expire(s) ==
  /\ session[s] = "waiting_qr"
  /\ session' = [session EXCEPT ![s] = "disconnected"]
  /\ code' = [code EXCEPT ![s] = "expired"]
  /\ UNCHANGED <<paired, dialing, rows, list, flows, ui, torn, clicks, faults>>

\* The phone reads a live code from the window's screen.
Scan(s) ==
  /\ Shown /\ view = "qr" /\ seen = s
  /\ session[s] = "waiting_qr" /\ code[s] = "live"
  /\ session' = [session EXCEPT ![s] = "connected"]
  /\ code' = [code EXCEPT ![s] = "none"]
  /\ paired' = paired \union {s}
  /\ UNCHANGED <<dialing, rows, list, flows, ui, torn, clicks, faults>>

\* The 100 ms loop of handleAuth answers with "connected" or with any code in
\* lastQR, and the window goes to its QR view: an answer without a code leaves
\* the code that was there.
AuthAnswered(f) ==
  LET s == flows[f].s
      hasCode == session[s] # "connected"
  IN
  /\ At(f, "wait")
  /\ s \in Here
  /\ hasCode => code[s] # "none"
  /\ Finished(f)
  /\ IF flows[f].by = "wizard"
       THEN /\ step' = IF hasCode THEN "qr" ELSE "error"
            /\ UNCHANGED <<open, view, busy, pending, seen, polls, ended, kept>>
       ELSE /\ pending' = s
            /\ view' = "qr"
            /\ busy' = FALSE
            /\ seen' = IF hasCode THEN s ELSE seen
            /\ kept' = (~hasCode /\ seen \notin {NoSession, s})
            /\ IF <<view, pending>> = <<"qr", s>> THEN UNCHANGED <<polls, ended>>
                                                  ELSE Restart
            /\ UNCHANGED <<open, step>>
  /\ UNCHANGED <<go, rows, list, torn, clicks, faults>>

\* 20 seconds without a code or a connection, or the session was removed.
AuthTimeout(f) ==
  /\ At(f, "wait")
  /\ \/ flows[f].s \notin Here
     \/ session[flows[f].s] # "connected" /\ code[flows[f].s] = "none"
  /\ Failed(f)
  /\ UNCHANGED <<go, rows, list, torn, clicks, faults>>

(***************************************************************************)
(* The QR view polls GET /sessions/{id}/qr.  The wizard polls              *)
(* /api/instances/{id}/status, which asks waclaw for GET /sessions/{id}, a *)
(* route it does not have: those polls change nothing and are left out.    *)
(***************************************************************************)

Poll ==
  /\ view = "qr" /\ pending # NoSession
  /\ ~ended
  /\ pending \in Here
  /\ Cardinality(polls) < MaxPolls
  /\ polls' = polls \union {[s |-> pending, cancelled |-> FALSE,
                             qr |-> code[pending] # "none",
                             up |-> session[pending] = "connected"]}
  /\ UNCHANGED <<go, rows, list, flows, open, view, busy, pending, seen, ended,
                 step, kept, torn, clicks, faults>>

\* Mutant of Polled: an answer counts whichever effect it is of.
PolledLate(p) ==
  /\ p \in polls
  /\ polls' = polls \ {p}
  /\ seen' = IF p.qr THEN p.s ELSE seen
  /\ ended' = (ended \/ p.up)
  /\ UNCHANGED <<go, rows, list, flows, open, view, busy, pending, step, kept, torn,
                 clicks, faults>>

\* An answer of the current effect shows its code; "connected" sets `cancelled`,
\* starts a reload (Refresh) and the timer that would leave the view, whose test
\* of `cancelled` then always fails.
Polled(p) ==
  /\ p \in polls
  /\ IF p.cancelled
       THEN polls' = polls \ {p} /\ UNCHANGED <<seen, kept, ended>>
       ELSE /\ seen' = IF p.qr THEN p.s ELSE seen
            /\ kept' = (kept /\ ~p.qr)
            /\ ended' = (ended \/ p.up)
            /\ polls' = {[q EXCEPT !.cancelled = @ \/ p.up] : q \in polls \ {p}}
  /\ UNCHANGED <<go, rows, list, flows, open, view, busy, pending, step, torn,
                 clicks, faults>>

\* The onReload of an ended effect, whose row was there when it was polled.
Refresh ==
  /\ ended
  /\ list # rows
  /\ Lists(rows)
  /\ UNCHANGED <<go, rows, flows, torn, clicks, faults>>

(***************************************************************************)
(* DELETE /api/instances/{id}: the session, as well as it goes, then the row. *)
(***************************************************************************)

\* Mutant of Unlink: the session is left where it is.
UnlinkNothing(f) ==
  /\ At(f, "unlink")
  /\ IF flows[f].s \notin rows THEN Finished(f) ELSE Goto(f, "unrow")
  /\ UNCHANGED <<go, torn, faults, rows, list, ui, clicks>>

\* waclaw may fail, which is only logged.
Unlink(f) ==
  LET s == flows[f].s IN
  /\ At(f, "unlink")
  /\ IF s \notin rows
       THEN Finished(f) /\ UNCHANGED <<session, torn, faults>>
       ELSE /\ Goto(f, "unrow")
            /\ \/ /\ session' = [session EXCEPT ![s] = "removed"]
                  /\ UNCHANGED <<torn, faults>>
               \/ /\ s \in Here
                  /\ Fault
                  /\ torn' = torn \union {s}
                  /\ UNCHANGED session
  /\ UNCHANGED <<code, paired, dialing, rows, list, ui, clicks>>

\* The row goes, or it does not, or it does and the answer is lost: then the list
\* is not loaded again.
DeleteRow(f) ==
  /\ At(f, "unrow")
  /\ \/ /\ rows' = rows \ {flows[f].s}
        /\ Goto(f, "reload")
        /\ UNCHANGED <<torn, faults>>
     \/ /\ Fault
        /\ rows' = rows \ {flows[f].s}
        /\ Finished(f)
        /\ UNCHANGED torn
     \/ /\ Fault
        /\ torn' = torn \union {flows[f].s}
        /\ Finished(f)
        /\ UNCHANGED rows
  /\ UNCHANGED <<go, list, ui, clicks>>

Click(f) ==
  ClickCreate(f) \/ \E s \in Sessions : ClickReconnect(f, s) \/ ClickDelete(f, s)

FlowStep(f) ==
  \/ CreateSession(f) \/ InsertRow(f) \/ Reload(f) \/ Auth(f) \/ AuthAnswered(f)
  \/ AuthTimeout(f) \/ Unlink(f) \/ DeleteRow(f)

Window ==
  \/ Retry \/ Open \/ Close \/ LoadPage \/ Poll \/ Refresh
  \/ Turn("list", "new") \/ Turn("new", "list") \/ Turn("qr", "list")
  \/ \E p \in polls : Polled(p)

Next ==
  \/ \E f \in Flows : Click(f) \/ FlowStep(f)
  \/ \E s \in Sessions : Connect(s) \/ Expire(s) \/ Scan(s)
  \/ Window

Spec == Init /\ [][Next]_vars

(***************************************************************************)
(* Properties.                                                             *)
(***************************************************************************)

\* Types of the variables.
TypeOK ==
  /\ session \in [Sessions -> {"none", "new", "waiting_qr", "connected",
                               "disconnected", "removed"}]
  /\ code \in [Sessions -> {"none", "live", "expired"}]
  /\ paired \subseteq Sessions /\ dialing \subseteq Sessions
  /\ rows \subseteq Sessions /\ list \subseteq Sessions /\ torn \subseteq Sessions
  /\ flows \in [Flows -> [by : {"none", "wizard", "window", "delete"},
                          s : Sessions \union {NoSession},
                          at : {"idle", "post", "insert", "reload", "auth",
                                "wait", "unlink", "unrow"}]]
  /\ {open, busy, ended, kept} \subseteq BOOLEAN
  /\ view \in {"list", "new", "qr"}
  /\ {pending, seen} \subseteq Sessions \union {NoSession}
  /\ step \in {"name", "qr", "error"}
  /\ polls \subseteq [s : Sessions, cancelled : BOOLEAN, qr : BOOLEAN, up : BOOLEAN]
  /\ Cardinality(polls) <= MaxPolls
  /\ clicks \in 0..MaxClicks /\ faults \in 0..MaxFaults

\* Rows and sessions go together: outside a create or a delete that is under
\* way a session exists exactly when its row does, unless a fault tore them
\* apart (api/instances/route.ts:78-114, [id]/route.ts:33-52).
RowsMatchSessions ==
  \A s \in Sessions \ torn :
    \/ s \in rows <=> s \in Here
    \/ \E f \in Flows : flows[f].s = s /\ flows[f].at \in {"insert", "unrow"}

\* The code in the QR view is the one of the instance being linked, so that a
\* scan links that one; only an answer without a code may leave another's there
\* (SettingsModal.tsx:216-255, 268-271).
CodeIsPendings ==
  view = "qr" /\ seen # NoSession /\ ~kept => seen = pending
=============================================================================
