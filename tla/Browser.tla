------------------------------- MODULE Browser -------------------------------
(***************************************************************************)
(* An open conversation in the browser: ChatView, Stars, Transcripts and   *)
(* Dialogs.  They share no state, which is why a behaviour moves one of    *)
(* them only, chosen at the start, and the others keep their initial       *)
(* state: TLC sees the sum of their states and not the product.            *)
(***************************************************************************)
EXTENDS Transcripts

CONSTANTS Chats, NoChat, Messages, ChatOf, At, Mine, Locals, Page,
          MaxLoads, MaxDeletes, MaxNet, MaxClicks, Rows

ASSUME ClickBound == MaxClicks \in Nat
ASSUME ViewBounds == Page \in Nat \ {0} /\ MaxLoads \in Nat /\ MaxNet \in Nat
ASSUME FiniteMessages == IsFiniteSet(Messages)
ASSUME MessagesAreSent ==
  ChatOf \in [Messages -> Chats] /\ At \in [Messages -> Nat \ {0}] /\ NoChat \notin Chats
ASSUME LocalsAreNone == Messages \cap Locals = {}

VARIABLES part,
          chat, list, cache, version, loading, older, hasOlder, sending, store,
          net, unsent, mixed, late, broken, removed,
          starlist, starred, stars, table, hydrate, clicks, clicked, unapplied,
          raced, wrong,
          selected, dialog, scheduled, items, draft, busy, summary, making,
          passing, contact, requests, chosen, disturbed

View == INSTANCE ChatView
Star == INSTANCE Stars WITH shown <- starlist
Dialog == INSTANCE Dialogs WITH chat <- selected, table <- scheduled, net <- requests

viewVars == <<chat, list, cache, version, loading, older, hasOlder, sending,
              store, net, unsent, mixed, late, broken, removed>>
starVars == <<starlist, starred, stars, table, hydrate, clicks, clicked, unapplied,
              raced, wrong>>
textVars == <<shown, text, status, runs, bulk, flying, posts, saved, paid, raw,
              unasked, dropped, twice>>
dialogVars == <<selected, dialog, scheduled, items, draft, busy, summary, making,
                passing, contact, requests, chosen, disturbed>>
allVars == <<part, viewVars, starVars, textVars, dialogVars, faults>>

BrowserInit ==
  /\ part \in {"view", "stars", "texts", "dialogs"}
  /\ View!Init /\ Star!Init /\ Init /\ Dialog!Init
  /\ part # "stars" => table = {}
  /\ part # "texts" => saved = {}

BrowserNext ==
  /\ UNCHANGED part
  /\ \/ part = "view"  /\ View!Next  /\ UNCHANGED <<starVars, textVars, dialogVars>>
     \/ part = "stars" /\ Star!Next  /\ UNCHANGED <<viewVars, textVars, dialogVars>>
     \/ part = "texts" /\ Next /\ UNCHANGED <<viewVars, starVars, dialogVars>>
     \/ /\ part = "dialogs" /\ Dialog!Next
        /\ UNCHANGED <<viewVars, starVars, textVars, faults>>

BrowserSpec == BrowserInit /\ [][BrowserNext]_allVars

\* The fairness of ChatView, Transcripts and Dialogs (Stars needs none).
BrowserFairness ==
  /\ WF_(View!vars)(part = "view" /\ View!Poll)
  /\ \A kind \in View!Kinds : WF_(View!vars)(part = "view" /\ View!Answer(kind))
  /\ WF_vars(part = "texts" /\ Hydrated)
  /\ \A x \in Audios : WF_vars(part = "texts" /\ PostStep(x))
  /\ WF_(Dialog!vars)(part = "dialogs" /\ Dialog!Answer("post", TRUE))
  /\ WF_(Dialog!vars)(part = "dialogs" /\ Dialog!Answer("load", TRUE))

(***************************************************************************)
(* The properties of the modules, where each states and explains its own;  *)
(* PaidOnce and AudioSettles are those of Transcripts.                     *)
(***************************************************************************)

\* The type invariants of the modules.
BrowserTypeOK == TypeOK /\ View!TypeOK /\ Star!TypeOK /\ Dialog!TypeOK

\* The list shown is of the chat selected (useMessages.ts:89-113), and has no
\* message twice (useMessages.ts:508-562).
ListIsRight == View!ListIsOfChat /\ View!NoDuplicates

\* What arrives is shown in the end (useMessages.ts:508-562).
PollCatchesUp == View!PollCatchesUp

\* The flags of the conversation and of the schedule dialog come down again
\* (useMessages.ts:89-234, ScheduleMessageModal.tsx:67-83, 127-164).
BusyEnds == View!BusyEnds /\ Dialog!ScheduleEnds

\* Stars shown, stars held and stars stored agree (useMessages.ts:275-392).
StarsAgree == Star!StarsAgree /\ Star!StarsShown

\* What a dialog shows is of the chat it is open for
\* (ScheduleMessageModal.tsx:64-110, SummaryModal.tsx:37-98).
DialogsAreOfChat == Dialog!DialogsAreOfChat
=============================================================================
