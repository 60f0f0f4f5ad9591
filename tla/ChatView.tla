------------------------------- MODULE ChatView -------------------------------
(***************************************************************************)
(* The messages of the selected chat as the browser shows them: the hook   *)
(* that loads, pages, polls and sends (hooks/useMessages.ts), the          *)
(* page that selects chats (page.tsx) and the panel and input that call it *)
(* (ChatPanel.tsx, MessageInput.tsx).                                      *)
(*                                                                         *)
(* Every call of the hook goes on when its answer arrives, with the chat   *)
(* it was made for, whichever chat is selected by then.  The store answers *)
(* with what it held when the request was sent or when the answer came.    *)
(* Messages reach the store in any order, history after newer ones.  A     *)
(* fault is a request answered with an error, or broken on the network: an *)
(* error is null to its caller, a break throws.                            *)
(***************************************************************************)
EXTENDS Naturals, FiniteSets, SequencesExt

CONSTANTS Chats,
          NoChat,      \* nothing is selected
          Messages,    \* the messages that may reach the store
          ChatOf,      \* the chat of every message
          At,          \* the second of every message, from 1 on
          Mine,        \* the messages sent from this account
          Locals,      \* bound: the messages this page can send
          Page,        \* how many messages one answer has at most
          MaxLoads,    \* bound: how many times a chat is opened
          MaxDeletes,  \* bound: how many messages are deleted
          MaxNet,      \* bound: requests under way at once
          MaxFaults    \* bound: how many requests fail

VARIABLES chat,      \* the selected chat
          list,      \* the messages shown
          cache,     \* cacheRef: the last list of every chat
          version,   \* fetchVersionRef
          loading,
          older,     \* loadingOlder
          hasOlder,
          sending,
          store,     \* the messages waclaw has
          net,       \* the requests under way
          unsent,    \* the locals not used yet
          faults,    \* how many requests have failed
          mixed,     \* history: "chat" when what was asked for another chat has changed the list,
                     \* "order" when what was asked of another list has
          late,      \* history: the messages stored when the chat had one of their second or a later one
          broken,    \* history: the flags whose request broke
          removed    \* history: the messages deleted here

flags   == <<loading, older, hasOlder, sending>>
shown   == <<list, cache>>
opened  == <<chat, version>>
history == <<mixed, late, broken, removed>>
bounds  == <<unsent, faults>>
vars    == <<opened, shown, flags, store, net, bounds, history>>

Ids == Messages \cup Locals

-----------------------------------------------------------------------------

Init ==
  /\ chat = NoChat
  /\ list = <<>>
  /\ cache = [c \in Chats |-> <<>>]
  /\ version = 0
  /\ loading = FALSE /\ older = FALSE /\ hasOlder = TRUE /\ sending = FALSE
  /\ store = {}
  /\ net = {}
  /\ unsent = Locals /\ faults = 0
  /\ mixed = {} /\ late = {} /\ broken = {} /\ removed = {}

\* The list changes, and is written through to the cache of the selected chat.
Show(l) ==
  /\ list' = l
  /\ cache' = IF chat = NoChat THEN cache ELSE [cache EXCEPT ![chat] = l]

\* The elements of s in the order of their keys, equal ones in any order.
InOrder(s, key) ==
  CHOOSE q \in [1 .. Cardinality(s) -> s] :
    \A i, j \in DOMAIN q : i < j => q[i] # q[j] /\ key[q[i]] <= key[q[j]]

\* What is left of a list when only what is in s is kept.
Kept(l, s) ==
  LET I == {i \in DOMAIN l : l[i] \in s}
      q == InOrder(I, [i \in I |-> i])
  IN  [k \in 1 .. Cardinality(I) |-> l[q[k]]]

\* What GetMessagesByChat finds in s, Page messages at most, ascending: the
\* newest of those before a second, or of all; or the oldest after a second.
Newest(s) ==
  LET q == InOrder(s, At) IN SubSeq(q, IF Len(q) > Page THEN Len(q) - Page + 1 ELSE 1, Len(q))
Oldest(s) ==
  LET q == InOrder(s, At) IN SubSeq(q, 1, IF Len(q) > Page THEN Page ELSE Len(q))
Before(s, c, t) == Newest({m \in s : ChatOf[m] = c /\ (t > 0 => At[m] < t)})
After(s, c, t)  == Oldest({m \in s : ChatOf[m] = c /\ At[m] > t})

\* A request for chat c: at is its cursor, seen what the store holds, by the
\* version of the list it is made from, of the message it sends.
Request(kind, c, at, of) ==
  [kind |-> kind, chat |-> c, at |-> at, of |-> of, by |-> version,
   seen |-> IF of = NoChat THEN store ELSE {}]

\* What is asked of a list before a load replaces it, or a failed deletion puts
\* a message back, is asked by no version.
Outdated(rs) == {IF r.kind = "load" THEN r ELSE [r EXCEPT !.by = 0] : r \in rs}

Send(r) == Cardinality(net) < MaxNet /\ net' = net \cup {r}
Done(r) == net' = net \ {r}

\* The request r fails, by an error that its caller reads as null, or by a
\* break that nothing catches, with the flag f left as it was.
Fault == faults < MaxFaults /\ faults' = faults + 1
Break(r, f) == Fault /\ broken' = broken \cup f

-----------------------------------------------------------------------------
(* Selecting and loading.                                                  *)

\* The page selects another chat and loads it.  The hook's write-through has
\* run by then, so that the list of the chat before is in the new chat's cache.
Select(c) ==
  /\ c # chat /\ version < MaxLoads
  /\ chat' = c
  /\ version' = version + 1
  /\ cache' = [cache EXCEPT ![c] = list]
  /\ UNCHANGED list
  /\ loading' = (list = <<>>)
  /\ hasOlder' = TRUE
  /\ Send([Request("load", c, 0, NoChat) EXCEPT !.by = version + 1])
  /\ mixed' = {"chat", "order"}
  /\ UNCHANGED <<older, sending, store, bounds, late, broken, removed>>

\* Back to no chat: the list stays.
Deselect ==
  /\ chat # NoChat
  /\ chat' = NoChat
  /\ UNCHANGED <<version, shown, flags, store, net, bounds, history>>

\* Mutant of Loaded: an answer counts whichever load it is of.
LoadedUnchecked(r) ==
  /\ r.kind = "load" /\ Done(r)
  /\ \/ /\ \E s \in {r.seen, store} : Show(Before(s, r.chat, 0))
        /\ loading' = FALSE /\ mixed' = {}
        /\ UNCHANGED <<faults, broken>>
     \/ /\ Fault /\ loading' = FALSE /\ UNCHANGED <<shown, mixed, broken>>
     \/ Break(r, {"loading"}) /\ UNCHANGED <<shown, loading, mixed>>
  /\ UNCHANGED <<opened, older, hasOlder, sending, store, unsent, late, removed>>

\* The answer of a load: dropped when another load has begun, shown when it is
\* a list.  The cache it sets is that of the chat it was made for.
Loaded(r) ==
  /\ r.kind = "load"
  /\ \/ /\ r.by # version
        /\ Done(r)
        /\ UNCHANGED <<shown, loading, mixed, faults, broken>>
     \/ /\ r.by = version
        /\ \E s \in {r.seen, store} :
             LET l == Before(s, r.chat, 0)
             IN  list' = l /\ cache' = [cache EXCEPT ![r.chat] = l]
        /\ net' = Outdated(net \ {r})
        /\ loading' = FALSE /\ mixed' = {}
        /\ UNCHANGED <<faults, broken>>
     \/ /\ r.by = version
        /\ Done(r)
        /\ Fault /\ loading' = FALSE /\ UNCHANGED <<shown, mixed, broken>>
     \/ Done(r) /\ Break(r, IF r.by = version THEN {"loading"} ELSE {}) /\ UNCHANGED <<shown, loading, mixed>>
  /\ UNCHANGED <<opened, older, hasOlder, sending, store, unsent, late, removed>>

-----------------------------------------------------------------------------
(* Older messages.                                                         *)

Head1(l) == IF l[1] \in Locals THEN 0 ELSE At[l[1]]

\* The user scrolls to the top.  The second of a message of this page's own is
\* no whole number, and waclaw takes it for no cursor at all.
LoadOlder ==
  /\ chat # NoChat /\ ~older /\ hasOlder /\ list # <<>>
  /\ older' = TRUE
  /\ UNCHANGED <<opened, shown, loading, hasOlder, sending, store, bounds, history>>
  /\ Send(Request("older", chat, Head1(list), NoChat))

\* What was asked by r changes the list, out of its order when `out` says so.
Mixes(r, out) ==
  mixed' = mixed \cup {x \in {"chat"} : r.chat # chat} \cup {x \in {"order"} : out}

\* A page of older messages: put before whatever is shown now.  When there is
\* none, history is asked for from the phone, and the page once more.
LoadedOlder(r) ==
  /\ r.kind \in {"older", "retry"} /\ Done(r)
  /\ \/ \E s \in {r.seen, store} :
          LET l == Before(s, r.chat, r.at) IN
          /\ l # <<>>
          /\ Show(l \o list)
          /\ Mixes(r, r.by # version \/ r.at = 0)
          /\ older' = FALSE
          /\ UNCHANGED <<hasOlder, faults, broken>>
     \/ /\ r.kind = "retry"
        /\ \E s \in {r.seen, store} : Before(s, r.chat, r.at) = <<>>
        /\ hasOlder' = FALSE /\ older' = FALSE
        /\ UNCHANGED <<shown, mixed, faults, broken>>
     \/ r.kind = "retry" /\ Fault /\ hasOlder' = FALSE /\ older' = FALSE /\ UNCHANGED <<shown, mixed, broken>>
     \/ Break(r, {"older"}) /\ UNCHANGED <<shown, mixed, older, hasOlder>>
  /\ UNCHANGED <<opened, loading, sending, store, unsent, late, removed>>

Backfill(r) ==
  /\ r.kind = "older"
  /\ \/ /\ \E s \in {r.seen, store} : Before(s, r.chat, r.at) = <<>>
        /\ UNCHANGED faults
     \/ Fault
  /\ net' = (net \ {r}) \cup {[r EXCEPT !.kind = "retry", !.seen = store]}
  /\ UNCHANGED <<opened, shown, flags, store, unsent, history>>

-----------------------------------------------------------------------------
(* Polling.                                                                *)

FromStore(l) == Kept(l, Messages)

\* Mutant of Poll: it waits while the last message is one of the page's own.
PollUnlessOwn ==
  LET l == FromStore(list) IN
  /\ chat # NoChat /\ ~loading /\ l # <<>> /\ Last(list) \notin Locals
  /\ ~ \E r \in net : r.kind = "poll" /\ r.chat = chat
  /\ UNCHANGED <<opened, shown, flags, store, bounds, history>>
  /\ Send(Request("poll", chat, At[l[Len(l)]], NoChat))

\* The interval's tick: it asks for what is after the last message that is not
\* this page's own, and for nothing when there is none.
Poll ==
  LET l == FromStore(list) IN
  /\ chat # NoChat /\ ~loading /\ l # <<>>
  /\ ~ \E r \in net : r.kind = "poll" /\ r.chat = chat
  /\ UNCHANGED <<opened, shown, flags, store, bounds, history>>
  /\ Send(Request("poll", chat, At[l[Len(l)]], NoChat))

\* The new messages, after the list without those of the page's own that one of
\* them, from this account and within five seconds, confirms.
Merge(l, new) ==
  LET fresh == Kept(new, Messages \ ToSet(l))
      own   == IF ToSet(fresh) \cap Mine # {} THEN SUBSET Locals ELSE {{}}
  IN  {Kept(l, Ids \ near) \o fresh : near \in own}

\* The answer of a poll is merged into whatever is shown now.
Polled(r) ==
  /\ r.kind = "poll" /\ Done(r)
  /\ \/ \E s \in {r.seen, store} :
          LET new == After(s, r.chat, r.at) IN
          /\ \/ new = <<>> /\ UNCHANGED <<shown, mixed>>
             \/ new # <<>> /\ Mixes(r, r.by # version) /\ \E l \in Merge(list, new) : Show(l)
          /\ UNCHANGED faults
     \/ Fault /\ UNCHANGED <<shown, mixed>>
  /\ UNCHANGED <<opened, flags, store, unsent, late, broken, removed>>

-----------------------------------------------------------------------------
(* Sending.                                                                *)

\* A text is sent; what is shown of it is added with the answer.
SendMessage ==
  /\ chat # NoChat /\ ~sending /\ unsent # {}
  /\ sending' = TRUE
  /\ \E x \in unsent :
       /\ unsent' = unsent \ {x}
       /\ Send(Request("text", chat, 0, x))
  /\ UNCHANGED <<opened, shown, loading, older, hasOlder, store, faults, history>>

\* The answer, or an error that goes unnoticed: the message is added to
\* whatever is shown now.
SentMessage(r) ==
  /\ r.kind = "text" /\ Done(r)
  /\ \/ /\ Show(Append(list, r.of))
        /\ sending' = FALSE
        /\ UNCHANGED broken
        /\ UNCHANGED faults \/ Fault
     \/ Break(r, {"sending"}) /\ UNCHANGED <<shown, sending>>
  /\ UNCHANGED <<opened, loading, older, hasOlder, store, unsent, mixed, late, removed>>

\* A file is sent, and shown at once.
SendFile ==
  /\ chat # NoChat /\ ~sending /\ unsent # {}
  /\ sending' = TRUE
  /\ \E x \in unsent :
       /\ unsent' = unsent \ {x}
       /\ Show(Append(list, x))
       /\ Send(Request("file", chat, 0, x))
  /\ UNCHANGED <<opened, loading, older, hasOlder, store, faults, history>>

\* Mutant of SentFile: the failure leaves the button disabled.
SentFileStuck(r) ==
  /\ r.kind = "file" /\ Done(r)
  /\ \/ sending' = FALSE /\ UNCHANGED <<shown, faults>>
     \/ Fault /\ Show(Kept(list, Ids \ {r.of})) /\ UNCHANGED sending
  /\ UNCHANGED <<opened, loading, older, hasOlder, store, unsent, history>>

\* The answer; a failure of any kind takes the message off again.
SentFile(r) ==
  /\ r.kind = "file" /\ Done(r)
  /\ sending' = FALSE
  /\ \/ UNCHANGED <<shown, faults>>
     \/ Fault /\ Show(Kept(list, Ids \ {r.of}))
  /\ UNCHANGED <<opened, loading, older, hasOlder, store, unsent, history>>

-----------------------------------------------------------------------------
(* Deleting.                                                               *)

\* What is where in a list.
Slots(l) == {<<i, l[i]>> : i \in DOMAIN l}

\* A message of the list is revoked, and taken off at once.
DeleteMessage(m) ==
  LET i == SelectInSeq(list, LAMBDA n : n = m) IN
  /\ chat # NoChat /\ i > 0 /\ m \notin removed
  /\ Cardinality(removed) < MaxDeletes
  /\ Show(RemoveAt(list, i))
  /\ removed' = removed \cup {m}
  /\ Send([Request("delete", ChatOf[m], i, m) EXCEPT !.seen = Slots(list')])
  /\ UNCHANGED <<opened, flags, store, bounds, mixed, late, broken>>

\* A failure puts it back where it was, in whatever is shown now; waclaw keeps
\* it in any case.
Deleted(r) ==
  LET i == IF r.at <= Len(list) THEN r.at ELSE Len(list) + 1 IN
  /\ r.kind = "delete"
  /\ \/ Done(r) /\ UNCHANGED <<shown, mixed, faults>>
     \/ /\ Fault /\ Show(InsertAt(list, i, r.of))
        /\ net' = Outdated(net \ {r})
        /\ Mixes(r, r.by # version \/ Slots(list) # r.seen)
  /\ UNCHANGED <<opened, flags, store, unsent, late, broken, removed>>

-----------------------------------------------------------------------------
(* What happens outside.                                                   *)

\* A message reaches the store: new, sent from here or the phone, or history.
Arrive(m) ==
  /\ m \notin store
  /\ store' = store \cup {m}
  /\ late' = IF \E n \in store : ChatOf[n] = ChatOf[m] /\ At[n] >= At[m] THEN late \cup {m} ELSE late
  /\ UNCHANGED <<opened, shown, flags, net, bounds, mixed, broken, removed>>

Kinds == {"load", "older", "retry", "poll", "text", "file", "delete"}

Answer(kind) ==
  \E r \in net :
    /\ r.kind = kind
    /\ \/ Loaded(r) \/ LoadedOlder(r) \/ Backfill(r) \/ Polled(r)
       \/ SentMessage(r) \/ SentFile(r) \/ Deleted(r)

Next ==
  \/ \E c \in Chats : Select(c)
  \/ Deselect \/ LoadOlder \/ Poll \/ SendMessage \/ SendFile
  \/ \E m \in Messages : Arrive(m) \/ DeleteMessage(m)
  \/ \E kind \in Kinds : Answer(kind)

Spec == Init /\ [][Next]_vars

\* fetch ends, and the interval ticks while the tab is shown.
FairSpec == Spec /\ WF_vars(Poll) /\ \A kind \in Kinds : WF_vars(Answer(kind))

-----------------------------------------------------------------------------
(* Properties.                                                             *)

\* The type invariant.
TypeOK ==
  /\ chat \in Chats \cup {NoChat}
  /\ list \in Seq(Ids) /\ cache \in [Chats -> Seq(Ids)]
  /\ version \in 0 .. MaxLoads
  /\ {loading, older, hasOlder, sending} \subseteq BOOLEAN
  /\ mixed \subseteq {"chat", "order"}
  /\ store \subseteq Messages /\ late \subseteq store /\ removed \subseteq Messages
  /\ Cardinality(net) <= MaxNet
  /\ unsent \subseteq Locals
  /\ faults \in 0 .. MaxFaults
  /\ broken \subseteq {"loading", "older", "sending"}

\* "Stale async responses from a previous chat don't overwrite the current one"
\* (useMessages.ts:53): once a load has been answered, the list holds messages
\* of the selected chat only, whatever loads were overtaken - until a poll, a
\* page of older ones or a failed deletion of another chat ends.
ListIsOfChat ==
  chat # NoChat /\ "chat" \notin mixed =>
    \A m \in ToSet(list) \cap Messages : ChatOf[m] = chat

\* No message is shown twice, although loads, polls and pages of older ones
\* overlap - but for those that were asked of a list before a load replaced it
\* or a message was put back into it, for a page asked for before a message of
\* the page's own, and for a message put back into a list that has changed since
\* its deletion; a message once deleted may be loaded once more.
NoDuplicates ==
  "order" \notin mixed => \A m \in Messages \ removed : Cardinality({i \in DOMAIN list : list[i] = m}) <= 1

\* "Poll for new messages" (useMessages.ts:508): a message of the selected chat
\* that is newer than all the store had is shown in the end, while the chat
\* stays selected and shows a message of the store to poll from; what is before
\* the first one is left to the pages of older ones.  A message deleted here may
\* stay away.
PollCatchesUp ==
  \A m \in Messages :
    []<>(\/ m \notin store \/ m \in ToSet(list) \/ m \in late \cup removed
         \/ chat # ChatOf[m] \/ "chat" \in mixed \/ loading
         \/ FromStore(list) = <<>> \/ At[m] < At[FromStore(list)[1]])

\* What BusyEnds needs of every state: whichever chats were selected and loads
\* overtaken meanwhile, a flag that is up has the request that takes it down
\* still under way, of the load the last one - unless one like it broke
\* (useMessages.ts:89-140, 142-272).
FlagsAwaited ==
  /\ loading => "loading" \in broken \/ \E r \in net : r.kind = "load" /\ r.by = version
  /\ older => "older" \in broken \/ \E r \in net : r.kind \in {"older", "retry"}
  /\ sending => "sending" \in broken \/ \E r \in net : r.kind \in {"text", "file"}

\* A button that waits for an answer is enabled again, unless the request of a
\* load, a page or a text broke, which none of the three catches.
BusyEnds ==
  /\ []<>(~loading \/ "loading" \in broken)
  /\ []<>(~older \/ "older" \in broken)
  /\ []<>(~sending \/ "sending" \in broken)

=============================================================================
