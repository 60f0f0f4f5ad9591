--------------------------------- MODULE Stars ---------------------------------
(***************************************************************************)
(* The stars of the messages shown: the set the hook keeps of them, what   *)
(* the list shows, and the table (hooks/useMessages.ts, api/starred).      *)
(*                                                                         *)
(* Messages come from waclaw without their stars; an effect puts them on,  *)
(* and runs when the number of messages has changed.  A click shows at     *)
(* once and is sent.  Requests that overlap may be served in any order.  A *)
(* fault is an insert, delete or query that fails, or a connection that    *)
(* breaks before or after its request was served.                          *)
(***************************************************************************)
EXTENDS Naturals, FiniteSets

CONSTANTS Messages, MaxClicks, MaxFaults    \* bounds: clicks and faults

VARIABLES shown,      \* the messages in the list
          starred,    \* those of them with a star
          stars,      \* starsRef
          table,      \* starred_messages
          hydrate,    \* the request for all stars: what it may find, if under way
          clicks,     \* the clicks whose request is under way
          clicked,    \* how many clicks there have been
          faults,     \* how many faults there have been
          unapplied,  \* history: a list of the same length has replaced the list
          raced,      \* history: the messages clicked while a request of theirs was under
                      \* way, or on a list without its stars
          wrong       \* history: the messages with a request that failed

view    == <<shown, starred, stars>>
history == <<unapplied, raced, wrong>>
vars    == <<view, table, hydrate, clicks, clicked, faults, history>>

\* The page opens, and asks for the stars of the session.
Init ==
  /\ shown = {} /\ starred = {} /\ stars = {}
  /\ table \in SUBSET Messages
  /\ hydrate = {table}
  /\ clicks = {} /\ clicked = 0 /\ faults = 0
  /\ unapplied = FALSE /\ raced = {} /\ wrong = {}

Fault == faults < MaxFaults /\ faults' = faults + 1

\* The answer to the request, as of its sending or of now: it replaces the set,
\* and puts stars on the list but takes none off.
Hydrate ==
  /\ hydrate # {}
  /\ hydrate' = {}
  /\ \/ \E s \in hydrate \cup {table} :
          /\ stars' = s
          /\ starred' = starred \cup (shown \cap s)
          /\ UNCHANGED <<faults, wrong>>
     \/ Fault /\ wrong' = Messages /\ UNCHANGED <<starred, stars>>
  /\ UNCHANGED <<shown, table, clicks, clicked, unapplied, raced>>

\* The list is s now, with the stars kept of what was there; the effect of a
\* new length puts them right, unless the set is empty.
Applied(s, kept) == IF Cardinality(s) # Cardinality(shown) /\ stars # {} THEN s \cap stars ELSE kept

\* A load replaces the list by what waclaw has.
Replace(s) ==
  /\ shown' = s
  /\ starred' = Applied(s, {})
  /\ unapplied' = (Cardinality(s) = Cardinality(shown))
  /\ UNCHANGED <<stars, table, hydrate, clicks, clicked, faults, raced, wrong>>

\* A poll or a page of older messages adds to the list.
Extend(m) ==
  /\ m \notin shown
  /\ shown' = shown \cup {m}
  /\ starred' = Applied(shown', starred)
  /\ unapplied' = (unapplied /\ stars = {})
  /\ UNCHANGED <<stars, table, hydrate, clicks, clicked, faults, raced, wrong>>

Put(s, m, on) == IF on THEN s \cup {m} ELSE s \ {m}

\* toggleStar: the star of a message is put on or taken off, and sent.
Click(m) ==
  LET on == m \notin starred IN
  /\ m \in shown /\ clicked < MaxClicks
  /\ clicked' = clicked + 1
  /\ stars' = Put(stars, m, on)
  /\ starred' = Put(starred, m, on)
  /\ clicks' = clicks \cup {[of |-> m, on |-> on, nr |-> clicked', served |-> FALSE]}
  /\ raced' = IF hydrate # {} \/ unapplied \/ \E r \in clicks : r.of = m THEN raced \cup {m} ELSE raced
  /\ UNCHANGED <<shown, table, hydrate, faults, unapplied, wrong>>

\* The route inserts or deletes the row.
Serve(r) ==
  /\ ~r.served
  /\ clicks' = (clicks \ {r}) \cup {[r EXCEPT !.served = TRUE]}
  /\ \/ table' = Put(table, r.of, r.on) /\ UNCHANGED <<faults, wrong>>
     \/ Fault /\ wrong' = wrong \cup {r.of} /\ UNCHANGED table
  /\ UNCHANGED <<view, hydrate, clicked, unapplied, raced>>

\* The answer, which nobody looks at: an error of the route is no failure.
Answer(r) ==
  /\ r.served
  /\ clicks' = clicks \ {r}
  /\ UNCHANGED <<view, table, hydrate, clicked, faults, history>>

\* Mutant of Break: the set keeps what the list takes back.
BreakHalf(r) ==
  /\ Fault
  /\ clicks' = clicks \ {r}
  /\ starred' = Put(starred, r.of, ~r.on) \cap shown
  /\ wrong' = IF r.served THEN wrong \cup {r.of} ELSE wrong
  /\ UNCHANGED <<shown, stars, table, hydrate, clicked, unapplied, raced>>

\* The connection breaks: the click is taken back.
Break(r) ==
  /\ Fault
  /\ clicks' = clicks \ {r}
  /\ stars' = Put(stars, r.of, ~r.on)
  /\ starred' = Put(starred, r.of, ~r.on) \cap shown
  /\ wrong' = IF r.served THEN wrong \cup {r.of} ELSE wrong
  /\ UNCHANGED <<shown, table, hydrate, clicked, unapplied, raced>>

Next ==
  \/ Hydrate
  \/ \E s \in SUBSET Messages : Replace(s)
  \/ \E m \in Messages : Extend(m) \/ Click(m)
  \/ \E r \in clicks : Serve(r) \/ Answer(r) \/ Break(r)

Spec == Init /\ [][Next]_vars

-----------------------------------------------------------------------------
(* Properties.                                                             *)

\* The type invariant.
TypeOK ==
  /\ starred \subseteq shown /\ shown \cup stars \cup table \cup raced \cup wrong \subseteq Messages
  /\ hydrate \in SUBSET SUBSET Messages
  /\ clicks \subseteq [of : Messages, on : BOOLEAN, nr : 1 .. MaxClicks, served : BOOLEAN]
  /\ clicked \in 0 .. MaxClicks /\ faults \in 0 .. MaxFaults
  /\ unapplied \in BOOLEAN

\* When nothing is under way, a star is in the set the hook keeps if and only
\* if it is in the table: clicks, their taking back and hydration agree - but
\* for two requests for one message under way at once, a click before the
\* hydration, and failures the hook does not look at.
StarsAgree ==
  \A m \in Messages \ (raced \cup wrong) :
    hydrate = {} /\ (\A r \in clicks : r.of # m) => (m \in stars <=> m \in table)

\* "When new messages load, apply the starred set" (useMessages.ts:300): the
\* list shows the stars of the set - until a list of the same length replaces
\* it, which the effect does not see, and but for overlapping requests.
StarsShown == ~unapplied => \A m \in shown \ raced : m \in starred <=> m \in stars

=============================================================================
