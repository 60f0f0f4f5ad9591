------------------------------ MODULE LossyFanOut ------------------------------
(***************************************************************************)
(* What the event bus of waclaw-go promises its subscribers, free of how   *)
(* Publish and unsub go about it: every subscriber has a first-in first-   *)
(* out channel of bounded capacity of its own, which is offered an event   *)
(* at most once, loses an event only when it is full, and accepts nothing  *)
(* before it is opened or after it is closed.  The channels are            *)
(* independent: a full or a closed one holds up no other.                  *)
(***************************************************************************)
EXTENDS Integers, Sequences

CONSTANTS Events,       \* the events that can be offered
          Subs,         \* the subscribers
          Capacity(_)   \* how many events a subscriber's channel buffers

VARIABLES phase,    \* phase[s] is "absent", "open" or "closed"
          sent,     \* every event the channel has accepted, in order
          received, \* how many of them have been taken out
          lost      \* the events refused because the channel was full

vars == <<phase, sent, received, lost>>

Init ==
  /\ phase = [s \in Subs |-> "absent"]
  /\ sent = [s \in Subs |-> <<>>]
  /\ received = [s \in Subs |-> 0]
  /\ lost = [s \in Subs |-> {}]

Full(s) == Len(sent[s]) - received[s] >= Capacity(s)

\* The event has not been offered to the subscriber before.
Fresh(s, e) == e \notin lost[s] /\ \A i \in 1 .. Len(sent[s]) : sent[s][i] # e

Open(s) ==
  /\ phase[s] = "absent"
  /\ phase' = [phase EXCEPT ![s] = "open"]
  /\ UNCHANGED <<sent, received, lost>>

Accept(s, e) ==
  /\ phase[s] = "open"
  /\ Fresh(s, e)
  /\ ~Full(s)
  /\ sent' = [sent EXCEPT ![s] = Append(@, e)]
  /\ UNCHANGED <<phase, received, lost>>

Lose(s, e) ==
  /\ phase[s] = "open"
  /\ Fresh(s, e)
  /\ Full(s)
  /\ lost' = [lost EXCEPT ![s] = @ \cup {e}]
  /\ UNCHANGED <<phase, sent, received>>

Take(s) ==
  /\ received[s] < Len(sent[s])
  /\ received' = [received EXCEPT ![s] = @ + 1]
  /\ UNCHANGED <<phase, sent, lost>>

Close(s) ==
  /\ phase[s] = "open"
  /\ phase' = [phase EXCEPT ![s] = "closed"]
  /\ UNCHANGED <<sent, received, lost>>

Next ==
  \E s \in Subs :
    \/ Open(s) \/ Take(s) \/ Close(s)
    \/ \E e \in Events : Accept(s, e) \/ Lose(s, e)

Spec == Init /\ [][Next]_vars

=============================================================================
