------------------------------ MODULE MCBrowser ------------------------------
(* An instance of Browser for TLC: two messages of one of two chats.       *)
EXTENDS Browser, TLC

CONSTANTS a, m1

MCChatOf == [m \in Messages |-> a]
MCAt == [m \in Messages |-> IF m = m1 THEN 1 ELSE 2]

\* The chat that is selected at the start matters to the dialogs only.
MCInit == BrowserInit /\ (part # "dialogs" => selected = a)

\* The page either deletes a message or sends one, and the schedule dialog stays
\* closed while the picker waits for its contact.
MCNext ==
  /\ BrowserNext
  /\ removed' = {} \/ unsent' = Locals
  /\ contact => dialog' # "schedule"

MCSpec == MCInit /\ [][MCNext]_allVars /\ BrowserFairness

=============================================================================
