------------------------------- MODULE ChatList -------------------------------
(***************************************************************************)
(* The list of chats of the app: hook useChats loads it from waclaw every  *)
(* 30 seconds and after every action of the chat menu, and marks a chat as *)
(* unread when its last message is newer than the moment the browser has   *)
(* stored for it, or when the server holds the user's own mark.  One chat  *)
(* has one JID here, and the filters and tabs of the list are left out.    *)
(***************************************************************************)
EXTENDS Naturals, FiniteSets

CONSTANTS
  Sessions,   \* sessions of the user's instances
  Chats,      \* JIDs, which the sessions share
  NoAct,
  MaxTime,    \* bound: seconds of the clock
  MaxLoads,   \* bound: loads in flight
  MaxActs,    \* bound: actions of the chat menu and changes of session
  MaxFaults   \* bound: failing requests

VARIABLES
  now,      \* the clock, in seconds
  store,    \* table chats of each session
  current,  \* the session shown
  chats,    \* allChats, each row with the session it was loaded from
  read,     \* localStorage: when each chat was last read
  begun,    \* localStorage: sessions that had their first load
  loads,    \* loads in flight, with the rows they were answered
  act,      \* the action of the menu under way
  fresh,    \* ghost: chats with a message since they were last read, or whose
            \* session's first load has stored an older moment since
  marked,   \* ghost: chats the user has marked as unread
  acts,     \* actions and changes of session so far
  faults    \* faults so far

vars == <<now, store, current, chats, read, begun, loads, act, fresh, marked,
          acts, faults>>

Keys == Sessions \X Chats

Init ==
  /\ now = 1
  /\ store = [k \in Keys |-> [at |-> "listed", last |-> 1, manual |-> FALSE]]
  /\ current \in Sessions
  /\ chats = {}
  /\ read = [k \in Keys |-> 0]
  /\ begun = {}
  /\ loads = {}
  /\ act = NoAct
  /\ fresh = Keys /\ marked = {}
  /\ acts = 0 /\ faults = 0

(***************************************************************************)
(* Helpers.                                                                *)
(***************************************************************************)

Fault == faults < MaxFaults /\ faults' = faults + 1

\* What GET chats returns: the chats with messages that are not archived.
RowsOf(s) ==
  {[key |-> <<s, c>>, last |-> store[<<s, c>>].last, manual |-> store[<<s, c>>].manual] :
     c \in {d \in Chats : store[<<s, d>>].at = "listed"}}

Reload(s) == loads' = loads \union {[s |-> s, rows |-> RowsOf(s)]}

\* The rows of the list with the JID of `c`, whichever session they are of.
SetUnread(list, c, b) ==
  {IF row.key[2] = c THEN [row EXCEPT !.unread = b, !.manual = b] ELSE row : row \in list}

\* useChats.markAsRead: now, and under the key of the session it is called for.
MarkAsRead(s, c) ==
  /\ read' = [read EXCEPT ![<<s, c>>] = now]
  /\ chats' = SetUnread(chats, c, FALSE)
  /\ fresh' = fresh \ {<<s, c>>}

Listed(c) == {row \in chats : row.key[2] = c}

(***************************************************************************)
(* Messages and time.                                                      *)
(***************************************************************************)

Tick ==
  /\ now < MaxTime
  /\ now' = now + 1
  /\ UNCHANGED <<store, current, chats, read, begun, loads, act, fresh, marked,
                 acts, faults>>

\* A message, the user's own included.  It brings back a chat that was deleted
\* and leaves one that was archived where it is.
Arrive(k) ==
  /\ store' = [store EXCEPT ![k] =
                 IF @.at = "gone" THEN [at |-> "listed", last |-> now, manual |-> FALSE]
                                  ELSE [@ EXCEPT !.last = now]]
  /\ fresh' = fresh \union {k}
  /\ UNCHANGED <<now, current, chats, read, begun, loads, act, marked, acts, faults>>

(***************************************************************************)
(* Loading.  A load stands here from the moment waclaw has read its rows.  *)
(***************************************************************************)

\* The effect on the session, the interval, or the window becoming visible.
Poll ==
  /\ Cardinality(loads) < MaxLoads
  /\ Reload(current)
  /\ UNCHANGED <<now, store, current, chats, read, begun, act, fresh, marked,
                 acts, faults>>

\* Mutant of Loaded: a chat that is listed already keeps its row.
LoadedKept(l) ==
  LET s == l.s
      first == s \notin begun /\ l.rows # {}
      seen == [k \in Keys |-> IF first /\ \E row \in l.rows : row.key = k
                                THEN (CHOOSE row \in l.rows : row.key = k).last
                                ELSE read[k]]
      old == {shown \in chats : \E row \in l.rows : row.key = shown.key}
  IN
  /\ l \in loads
  /\ loads' = loads \ {l}
  /\ begun' = IF first THEN begun \union {s} ELSE begun
  /\ read' = seen
  /\ chats' = old \union
       {[key |-> row.key, manual |-> row.manual,
         unread |-> row.manual \/ row.last > seen[row.key]] :
           row \in {new \in l.rows : \A shown \in old : shown.key # new.key}}
  /\ fresh' = fresh \union {k \in Keys : seen[k] < read[k]}
  /\ UNCHANGED <<now, store, current, act, marked, acts, faults>>

\* The answer replaces the list, of whatever session it is; the first one that
\* is not empty stores the last message of every chat as its moment, also where
\* a later one was stored while the list of the session before was still shown.
Loaded(l) ==
  LET s == l.s
      first == s \notin begun /\ l.rows # {}
      seen == [k \in Keys |-> IF first /\ \E row \in l.rows : row.key = k
                                THEN (CHOOSE row \in l.rows : row.key = k).last
                                ELSE read[k]]
  IN
  /\ l \in loads
  /\ loads' = loads \ {l}
  /\ begun' = IF first THEN begun \union {s} ELSE begun
  /\ read' = seen
  /\ chats' = {[key |-> row.key, manual |-> row.manual,
                unread |-> row.manual \/ row.last > seen[row.key]] : row \in l.rows}
  /\ fresh' = fresh \union {k \in Keys : seen[k] < read[k]}
  /\ UNCHANGED <<now, store, current, act, marked, acts, faults>>

\* The fetcher turns an error into null, which changes nothing.
Unloaded(l) ==
  /\ l \in loads
  /\ Fault
  /\ loads' = loads \ {l}
  /\ UNCHANGED <<now, store, current, chats, read, begun, act, fresh, marked, acts>>

(***************************************************************************)
(* The user.                                                               *)
(***************************************************************************)

Switch(s) ==
  /\ s # current
  /\ acts < MaxActs
  /\ acts' = acts + 1
  /\ current' = s
  /\ UNCHANGED <<now, store, chats, read, begun, loads, act, fresh, marked, faults>>

\* Opening a chat marks it as read in the browser only.
Open(c) ==
  /\ Listed(c) # {}
  /\ MarkAsRead(current, c)
  /\ UNCHANGED <<now, store, current, begun, loads, act, marked, acts, faults>>

\* An action of the chat menu, which offers either mark as the row says.
Choose(kind, c) ==
  /\ act = NoAct
  /\ acts < MaxActs
  /\ acts' = acts + 1
  /\ Listed(c) # {}
  /\ kind = "markRead" => \E row \in Listed(c) : row.unread
  /\ kind = "markUnread" => \E row \in Listed(c) : ~row.unread
  /\ act' = [kind |-> kind, key |-> <<current, c>>, at |-> "sent"]
  /\ marked' = IF kind = "markUnread" THEN marked \union {<<current, c>>} ELSE marked
  /\ UNCHANGED <<now, store, current, chats, read, begun, loads, fresh, faults>>

\* PATCH and DELETE of httpserver/chats.go.
Acted(row, kind) ==
  CASE kind = "markUnread" -> [row EXCEPT !.manual = TRUE]
    [] kind = "markRead"   -> [row EXCEPT !.manual = FALSE]
    [] kind = "archive"    -> [row EXCEPT !.at = "archived"]
    [] kind = "delete"     -> [row EXCEPT !.at = "gone"]

Serve ==
  /\ act # NoAct /\ act.at = "sent"
  /\ \/ /\ store' = [store EXCEPT ![act.key] =
                       IF @.at = "gone" THEN @ ELSE Acted(@, act.kind)]
        /\ UNCHANGED faults
     \/ Fault /\ UNCHANGED store
  /\ act' = [act EXCEPT !.at = "back"]
  /\ UNCHANGED <<now, current, chats, read, begun, loads, fresh, marked, acts>>

\* handleChatAction goes on whatever the answer: it marks the row, at the time
\* the answer comes, and loads the list again.
Answered ==
  LET s == act.key[1]
      c == act.key[2]
  IN
  /\ act # NoAct /\ act.at = "back"
  /\ \/ act.kind = "markRead" /\ MarkAsRead(s, c) /\ UNCHANGED marked
     \/ /\ act.kind = "markUnread"
        /\ chats' = SetUnread(chats, c, TRUE)
        /\ marked' = marked \union {row.key : row \in Listed(c)}
        /\ UNCHANGED <<read, fresh>>
     \/ act.kind \in {"archive", "delete"} /\ UNCHANGED <<chats, read, fresh, marked>>
  /\ Reload(s)
  /\ act' = NoAct
  /\ UNCHANGED <<now, store, current, begun, acts, faults>>

\* The request throws: the catch block only logs.
Thrown ==
  /\ act # NoAct
  /\ Fault
  /\ act' = NoAct
  /\ UNCHANGED <<now, store, current, chats, read, begun, loads, fresh, marked, acts>>

Next ==
  \/ Tick \/ Poll \/ Serve \/ Answered \/ Thrown
  \/ \E k \in Keys : Arrive(k)
  \/ \E l \in loads : Loaded(l) \/ Unloaded(l)
  \/ \E s \in Sessions : Switch(s)
  \/ \E c \in Chats :
       \/ Open(c)
       \/ \E kind \in {"markRead", "markUnread", "archive", "delete"} : Choose(kind, c)

Spec == Init /\ [][Next]_vars

\* The interval polls as long as the window is visible, and requests end.
FairSpec == Spec /\ WF_vars(Poll) /\ WF_vars(\E l \in loads : Loaded(l))

(***************************************************************************)
(* Properties.                                                             *)
(***************************************************************************)

\* Types of the variables.
TypeOK ==
  /\ now \in 1..MaxTime
  /\ store \in [Keys -> [at : {"listed", "archived", "gone"}, last : 1..MaxTime,
                         manual : BOOLEAN]]
  /\ current \in Sessions
  /\ chats \subseteq [key : Keys, manual : BOOLEAN, unread : BOOLEAN]
  /\ read \in [Keys -> 0..MaxTime]
  /\ begun \subseteq Sessions
  /\ \A l \in loads : l.s \in Sessions /\ \A row \in l.rows : row.key[1] = l.s
  /\ fresh \subseteq Keys /\ marked \subseteq Keys
  /\ acts \in 0..MaxActs /\ faults \in 0..MaxFaults

\* A chat lights up only for a message that came after the user last opened it
\* or marked it as read, or because the user marked it: no late load, and no
\* load of another session, lights a chat that was read; only the first load
\* of a session may move a moment back (useChats.ts:57-137, 233-249).
UnreadIsNew ==
  \A row \in chats : row.unread => row.key \in fresh \union marked

\* A message newer than the moment stored for its chat is shown as unread in
\* the end, unless the user reads the chat or leaves its session, however loads
\* overlap and fail (useChats.ts:57-162).
Due(s, c) ==
  /\ current = s
  /\ store[<<s, c>>].at = "listed"
  /\ store[<<s, c>>].last > read[<<s, c>>]

UnreadShows ==
  \A s \in Sessions, c \in Chats :
    Due(s, c) ~> (~Due(s, c) \/ \E row \in chats : row.key = <<s, c>> /\ row.unread)
=============================================================================
