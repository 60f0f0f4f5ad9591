-------------------------------- MODULE Outbox --------------------------------
(***************************************************************************)
(* What scheduled messages promise their user, free of how schedulers go   *)
(* about it.  A hand that has seen a message pending and due may take it,  *)
(* once; while it holds the message it may send it, once, and then either  *)
(* settle it or write one later message that follows it.  So nothing goes  *)
(* out early, a message nobody had seen when it was canceled or settled    *)
(* stays as it is, and each hand does each thing once.  What is not        *)
(* promised is that one hand alone takes a message: one that has seen it   *)
(* may take it after another, or after it was canceled.                    *)
(***************************************************************************)
EXTENDS Naturals

CONSTANTS Messages,
          Hands,     \* who can send
          None       \* no message

VARIABLES now,
          state,     \* "absent", "pending", "processing", "canceled" or "settled"
          due,       \* when a message is to go out
          ready,     \* the messages a hand has seen and may still take
          holds,     \* the message a hand has taken
          out,       \* who has sent it
          follows    \* the message it is the next occurrence of

vars == <<now, state, due, ready, holds, out, follows>>

Init ==
  /\ now \in Nat
  /\ state = [m \in Messages |-> "absent"]
  /\ due \in [Messages -> Nat]
  /\ ready = [h \in Hands |-> {}]
  /\ holds = [h \in Hands |-> None]
  /\ out = [m \in Messages |-> {}]
  /\ follows = [m \in Messages |-> None]

\* The message is there, for a moment from t on.
Appear(m, t, from) ==
  /\ state[m] = "absent"
  /\ state' = [state EXCEPT ![m] = "pending"]
  /\ due' \in [Messages -> Nat] /\ due'[m] >= t
  /\ \A n \in Messages : n # m => due'[n] = due[n]
  /\ follows' = [follows EXCEPT ![m] = from]

Write(m) == Appear(m, now, None) /\ UNCHANGED <<now, ready, holds, out>>

Cancel(m) ==
  /\ state[m] = "pending"
  /\ state' = [state EXCEPT ![m] = "canceled"]
  /\ UNCHANGED <<now, due, ready, holds, out, follows>>

Tick == now' = now + 1 /\ UNCHANGED <<state, due, ready, holds, out, follows>>

See(h) ==
  /\ \E seen \in SUBSET {m \in Messages : state[m] = "pending" /\ due[m] <= now} :
       ready' = [ready EXCEPT ![h] = seen]
  /\ UNCHANGED <<now, state, due, holds, out, follows>>

\* A hand takes the message, or thinks so, or does not know that it has.
Take(m, h) ==
  /\ holds[h] = None /\ m \in ready[h]
  /\ ready' = [ready EXCEPT ![h] = @ \ {m}]
  /\ holds' \in {holds, [holds EXCEPT ![h] = m]}
  /\ \/ state[m] = "pending" /\ state' = [state EXCEPT ![m] = "processing"]
     \/ state' = state /\ (state[m] = "pending" => holds' = holds)
  /\ UNCHANGED <<now, due, out, follows>>

Deliver(m, h) ==
  /\ holds[h] = m /\ due[m] <= now /\ h \notin out[m]
  /\ out' = [out EXCEPT ![m] = @ \cup {h}]
  /\ UNCHANGED <<now, state, due, ready, holds, follows>>

Settle(m, h) ==
  /\ holds[h] = m
  /\ state' = [state EXCEPT ![m] = "settled"]
  /\ holds' = [holds EXCEPT ![h] = None]
  /\ UNCHANGED <<now, due, ready, out, follows>>

\* Message n is written as the one after m.
Continue(m, n, h) ==
  /\ holds[h] = m /\ h \in out[m]
  /\ Appear(n, due[m] + 1, m)
  /\ holds' = [holds EXCEPT ![h] = None]
  /\ UNCHANGED <<now, ready, out>>

\* A hand lets go of what it holds, and perhaps forgets what it has seen.
LetGo(h) ==
  /\ holds' = [holds EXCEPT ![h] = None]
  /\ ready' \in {ready, [ready EXCEPT ![h] = {}]}
  /\ UNCHANGED <<now, state, due, out, follows>>

Next ==
  \/ Tick
  \/ \E m \in Messages : Write(m) \/ Cancel(m)
  \/ \E h \in Hands :
       \/ See(h) \/ LetGo(h)
       \/ \E m \in Messages :
            \/ Take(m, h) \/ Deliver(m, h) \/ Settle(m, h)
            \/ \E n \in Messages : Continue(m, n, h)

Spec == Init /\ [][Next]_vars

=============================================================================
