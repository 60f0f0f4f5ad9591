------------------------------ MODULE Dialogs ------------------------------
(***************************************************************************)
(* The dialogs of a conversation: messages scheduled for later             *)
(* (ScheduleMessageModal over api/scheduled), the summary of the           *)
(* conversation (SummaryModal over api/summary) and a contact sent from    *)
(* the address book (ContactPickerModal).  They stay mounted while they    *)
(* are closed, so what one keeps is there when it opens for another chat,  *)
(* and no answer is matched with the chat it was asked for.                *)
(***************************************************************************)
EXTENDS Naturals, FiniteSets

CONSTANTS
  Chats,      \* conversations, the one shown being one of them
  NoChat,
  Rows,       \* scheduled rows
  MaxNet      \* bound: requests in flight

VARIABLES
  chat,       \* selectedChat of the page
  dialog,     \* the dialog that is open, or "none"
  table,      \* chat of each scheduled row, or NoChat
  items,      \* the rows the schedule dialog lists
  draft,      \* its form: "text" and "file"
  busy,       \* its busy flag
  summary,    \* the chat whose summary the summary dialog holds
  making,     \* its `loading`
  passing,    \* its `sending`
  contact,    \* `sending` of the contact picker
  net,        \* requests in flight, and files being read
  chosen,     \* ghost: what the user has put in the form since it opened
  disturbed   \* ghost: a late answer, a token refresh or the end of a sending
              \* touched what is shown, or will be

form == <<table, items, draft, busy, chosen>>
panel == <<summary, making, passing>>
vars == <<chat, dialog, form, panel, contact, net, disturbed>>

RowsOf(c) == {n \in Rows : table[n] = c}
Kinds == {"load", "read", "post", "cancel", "make", "pass", "card"}

Init ==
  /\ chat \in Chats
  /\ dialog = "none"
  /\ table = [n \in Rows |-> NoChat]
  /\ items = {}
  /\ draft = {} /\ busy = FALSE /\ chosen = {}
  /\ summary = NoChat /\ making = FALSE /\ passing = FALSE
  /\ contact = FALSE
  /\ net = {}
  /\ disturbed = {}

(***************************************************************************)
(* Helpers.                                                                *)
(***************************************************************************)

\* A request of the given kind for chat c; `with` is what it carries, `click`
\* whether a click waits for its end.
Ask(kind, c, with, click) ==
  [kind |-> kind, chat |-> c, with |-> with, click |-> click]

Send(r) ==
  /\ Cardinality(net) < MaxNet
  /\ r \notin net
  /\ net' = net \union {r}

Disturb(kind, bad) == disturbed' = IF bad THEN disturbed \union {kind} ELSE disturbed

(***************************************************************************)
(* The page.                                                               *)
(***************************************************************************)

\* Another conversation is selected; the overlay of a dialog keeps the user
\* from doing so while one is open.  The schedule dialog's `load` is another
\* function then, and its effect empties the form once more.
Select(c) ==
  /\ dialog = "none"
  /\ c # chat
  /\ chat' = c
  /\ draft' = {}
  /\ UNCHANGED <<dialog, table, items, busy, chosen, panel, contact, net, disturbed>>

\* The effect of ScheduleMessageModal on `open`: the list is loaded and the
\* attachment dropped; the text was emptied when it closed.
OpenSchedule ==
  /\ dialog = "none"
  /\ dialog' = "schedule"
  /\ draft' = draft \ {"file"}
  /\ chosen' = {}
  /\ disturbed' = (disturbed \ {"form", "items"})
                    \union {k \in {"items"} : items # RowsOf(chat)}
  /\ Send(Ask("load", chat, {}, FALSE))
  /\ UNCHANGED <<chat, table, items, busy, panel, contact>>

CloseSchedule ==
  /\ dialog = "schedule"
  /\ dialog' = "none"
  /\ draft' = {}
  /\ chosen' = {}
  /\ UNCHANGED <<chat, table, items, busy, panel, contact, net, disturbed>>

OpenSummary ==
  /\ dialog = "none"
  /\ dialog' = "summary"
  /\ UNCHANGED <<chat, form, panel, contact, net, disturbed>>

\* Mutant of CloseSummary: the summary stays for the next time.
CloseSummaryKept ==
  /\ dialog = "summary"
  /\ dialog' = "none"
  /\ UNCHANGED <<chat, form, panel, contact, net, disturbed>>

\* handleClose, not the plain onClose that ends handleSendToChat.
CloseSummary ==
  /\ dialog = "summary"
  /\ dialog' = "none"
  /\ summary' = NoChat /\ making' = FALSE /\ passing' = FALSE
  /\ disturbed' = disturbed \ {"summary"}
  /\ UNCHANGED <<chat, form, contact, net>>

OpenContacts ==
  /\ dialog = "none"
  /\ dialog' = "contacts"
  /\ UNCHANGED <<chat, form, panel, contact, net, disturbed>>

CloseContacts ==
  /\ dialog = "contacts"
  /\ dialog' = "none"
  /\ UNCHANGED <<chat, form, panel, contact, net, disturbed>>

(***************************************************************************)
(* The schedule dialog.                                                    *)
(***************************************************************************)

\* The access token is refreshed: `load` is another function, and the effect on
\* [open, load] runs again, attachment and date included.
RefreshToken ==
  /\ dialog = "schedule"
  /\ draft' = draft \ {"file"}
  /\ Disturb("form", "file" \in draft)
  /\ Send(Ask("load", chat, {}, FALSE))
  /\ UNCHANGED <<chat, dialog, table, items, busy, chosen, panel, contact>>

Type ==
  /\ dialog = "schedule" /\ ~busy
  /\ "text" \notin draft
  /\ draft' = draft \union {"text"}
  /\ chosen' = chosen \union {"text"}
  /\ UNCHANGED <<chat, dialog, table, items, busy, panel, contact, net, disturbed>>

\* A file is picked and read in the background (handleFileSelected).
Attach ==
  /\ dialog = "schedule" /\ ~busy
  /\ chosen' = chosen \union {"file"}
  /\ Send(Ask("read", chat, {}, FALSE))
  /\ UNCHANGED <<chat, dialog, table, items, draft, busy, panel, contact, disturbed>>

\* The file is in the form, whoever is looking at it now.
Attached(r) ==
  /\ r \in net /\ r.kind = "read"
  /\ net' = net \ {r}
  /\ draft' = draft \union {"file"}
  /\ Disturb("form", dialog # "schedule" \/ "file" \notin chosen \/ r.chat # chat)
  /\ UNCHANGED <<chat, dialog, table, items, busy, chosen, panel, contact>>

\* The button that takes the attachment off.
Detach ==
  /\ dialog = "schedule" /\ ~busy
  /\ "file" \in draft
  /\ draft' = draft \ {"file"}
  /\ chosen' = chosen \ {"file"}
  /\ UNCHANGED <<chat, dialog, table, items, busy, panel, contact, net, disturbed>>

\* handleSchedule: what is in the form at the click.
Schedule ==
  /\ dialog = "schedule" /\ ~busy
  /\ draft # {}
  /\ busy' = TRUE
  /\ Disturb("form", \E r \in net : r.kind = "read")
  /\ Send(Ask("post", chat, draft, TRUE))
  /\ UNCHANGED <<chat, dialog, table, items, draft, chosen, panel, contact>>

\* POST /api/scheduled is answered: the form is emptied and the list of the
\* chat of the click is loaded, which ends the click; a refusal ends it at once.
Posted(r) ==
  /\ r \in net /\ r.kind = "post"
  /\ \/ /\ \E n \in Rows :
             /\ table[n] = NoChat
             /\ table' = [table EXCEPT ![n] = r.chat]
        /\ draft' = {}
        /\ chosen' = {}
        /\ net' = (net \ {r}) \union {Ask("load", r.chat, {}, TRUE)}
        /\ disturbed' = (disturbed \union {"items"})
                          \union {k \in {"form"} : draft # r.with \/ dialog # "schedule"}
        /\ UNCHANGED busy
     \/ /\ net' = net \ {r}
        /\ busy' = FALSE
        /\ UNCHANGED <<table, draft, chosen, disturbed>>
  /\ UNCHANGED <<chat, dialog, items, panel, contact>>

\* handleCancel of a listed row.
CancelRow(n) ==
  /\ dialog = "schedule"
  /\ n \in items
  /\ Send(Ask("cancel", chat, {n}, FALSE))
  /\ UNCHANGED <<chat, dialog, form, panel, contact, disturbed>>

Cancelled(r) ==
  /\ r \in net /\ r.kind = "cancel"
  /\ table' = [n \in Rows |-> IF n \in r.with THEN NoChat ELSE table[n]]
  /\ net' = (net \ {r}) \union {Ask("load", r.chat, {}, FALSE)}
  /\ disturbed' = disturbed \union {"items"}
  /\ UNCHANGED <<chat, dialog, items, draft, busy, chosen, panel, contact>>

\* GET /api/scheduled is answered: the list is replaced, whichever chat it is of.
Loaded(r) ==
  /\ r \in net /\ r.kind = "load"
  /\ net' = net \ {r}
  /\ items' = RowsOf(r.chat)
  /\ busy' = (busy /\ ~r.click)
  /\ disturbed' = IF r.chat = chat THEN disturbed \ {"items"}
                                   ELSE disturbed \union {"items"}
  /\ UNCHANGED <<chat, dialog, table, draft, chosen, panel, contact>>

(***************************************************************************)
(* The summary dialog.                                                     *)
(***************************************************************************)

Generate ==
  /\ dialog = "summary" /\ summary = NoChat
  /\ ~making
  /\ making' = TRUE
  /\ Send(Ask("make", chat, {}, TRUE))
  /\ UNCHANGED <<chat, dialog, form, summary, passing, contact, disturbed>>

\* What POST /api/summary answers: a summary of the conversation it was asked
\* for, or an error.  Sent back to the chat, the message may have failed: the
\* route does not look.
Summarised(r) == {r.chat, NoChat}

\* The answer is shown, or the error; a dialog closed meanwhile takes it too.
Generated(r) ==
  /\ r \in net /\ r.kind = "make"
  /\ net' = net \ {r}
  /\ making' = FALSE
  /\ \E s \in Summarised(r) :
       IF s = NoChat THEN UNCHANGED <<summary, disturbed>>
       ELSE summary' = s /\ Disturb("summary", dialog # "summary" \/ s # chat)
  /\ UNCHANGED <<chat, dialog, form, passing, contact>>

\* "Outro período".
Again ==
  /\ dialog = "summary" /\ summary # NoChat
  /\ summary' = NoChat
  /\ UNCHANGED <<chat, dialog, form, making, passing, contact, net, disturbed>>

\* "Enviar no chat": the route makes another summary, of the chat shown, and
\* posts that one.
SendToChat ==
  /\ dialog = "summary" /\ summary # NoChat
  /\ ~passing
  /\ passing' = TRUE
  /\ Send(Ask("pass", chat, {}, TRUE))
  /\ UNCHANGED <<chat, dialog, form, summary, making, contact, disturbed>>

\* Its end closes whatever summary dialog is open and keeps the summary.
SentToChat(r) ==
  /\ r \in net /\ r.kind = "pass"
  /\ net' = net \ {r}
  /\ passing' = FALSE
  /\ \E s \in Summarised(r) :
       IF s = NoChat THEN UNCHANGED <<dialog, disturbed>>
       ELSE /\ dialog' = IF dialog = "summary" THEN "none" ELSE dialog
            /\ Disturb("summary", TRUE)
  /\ UNCHANGED <<chat, form, summary, making, contact>>

(***************************************************************************)
(* The contact picker: `sending` is set at a click and only a failure      *)
(* clears it again, so that one contact goes out until the composer is     *)
(* mounted anew.                                                           *)
(***************************************************************************)

SendContact ==
  /\ dialog = "contacts"
  /\ ~contact
  /\ contact' = TRUE
  /\ Send(Ask("card", chat, {}, TRUE))
  /\ UNCHANGED <<chat, dialog, form, panel, disturbed>>

ContactSent(r) ==
  /\ r \in net /\ r.kind = "card"
  /\ net' = net \ {r}
  /\ \/ /\ dialog' = IF dialog = "contacts" THEN "none" ELSE dialog
        /\ UNCHANGED contact
     \/ contact' = FALSE /\ UNCHANGED dialog
  /\ UNCHANGED <<chat, form, panel, disturbed>>

Answer(kind, click) ==
  \E r \in {r \in net : r.kind = kind /\ r.click = click} :
    \/ Attached(r) \/ Posted(r) \/ Cancelled(r) \/ Loaded(r)
    \/ Generated(r) \/ SentToChat(r) \/ ContactSent(r)

Click ==
  \/ \E c \in Chats : Select(c)
  \/ OpenSchedule \/ CloseSchedule \/ OpenSummary \/ CloseSummary
  \/ OpenContacts \/ CloseContacts
  \/ RefreshToken \/ Type \/ Attach \/ Detach \/ Schedule
  \/ \E n \in Rows : CancelRow(n)
  \/ Generate \/ Again \/ SendToChat \/ SendContact

Next == Click \/ \E kind \in Kinds, click \in BOOLEAN : Answer(kind, click)

Spec == Init /\ [][Next]_vars

\* A fetch is answered or fails, and the dialog catches both: no more is assumed
\* than what a click on "Agendar" waits for.
FairSpec == Spec /\ WF_vars(Answer("post", TRUE)) /\ WF_vars(Answer("load", TRUE))

(***************************************************************************)
(* Properties.                                                             *)
(***************************************************************************)

\* Types of the variables.
TypeOK ==
  /\ chat \in Chats
  /\ dialog \in {"none", "schedule", "summary", "contacts"}
  /\ table \in [Rows -> Chats \union {NoChat}]
  /\ items \subseteq Rows
  /\ draft \subseteq {"text", "file"} /\ chosen \subseteq {"text", "file"}
  /\ {busy, making, passing, contact} \subseteq BOOLEAN
  /\ summary \in Chats \union {NoChat}
  /\ net \subseteq [kind : Kinds, chat : Chats,
                    with : SUBSET (Rows \union {"text", "file"}), click : BOOLEAN]
  /\ disturbed \subseteq {"form", "items", "summary"}

\* What an open dialog shows is of the chat it is open for: the scheduled rows,
\* what goes into the next one, the summary; only a late answer, a refreshed
\* token or a summary that was sent to the chat changes that
\* (ScheduleMessageModal.tsx:64-110, SummaryModal.tsx:37-98).
DialogsAreOfChat ==
  /\ (dialog = "schedule" /\ "items" \notin disturbed) => items = RowsOf(chat)
  /\ (dialog = "schedule" /\ "form" \notin disturbed /\ \A r \in net : r.kind # "read")
       => draft = chosen
  /\ (dialog = "summary" /\ "summary" \notin disturbed) => summary \in {NoChat, chat}

\* What ScheduleEnds needs of every state: a flag that is up has its click's
\* request still under way, whatever was closed, opened or answered meanwhile
\* (ScheduleMessageModal.tsx:127-164, SummaryModal.tsx:37-98).
FlagsAwaited ==
  /\ busy => \E r \in net : r.click /\ r.kind \in {"post", "load"}
  /\ making => \E r \in net : r.kind = "make"
  /\ passing => \E r \in net : r.kind = "pass"

\* The schedule dialog can be used again, once the request and the load after it
\* have ended, whatever was closed or opened meanwhile
\* (ScheduleMessageModal.tsx:67-83, 127-164).
ScheduleEnds == busy ~> ~busy
=============================================================================
