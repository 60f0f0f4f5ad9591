--------------------------------- MODULE Inbox ---------------------------------
(***************************************************************************)
(* What the audio route promises the user, free of how daemon and route go *)
(* about it: an audio that has come in is put down once, whichever of its  *)
(* deliveries and their attempts gets to it, and stays as it was put down; *)
(* a text goes back to the chat when it was wanted, after it was put down, *)
(* before its delivery is over, and once; and a delivery that is over      *)
(* stays over.  An audio of which one attempt did not see the other        *)
(* (`loose`) may be put down by each attempt, and answered by each         *)
(* delivery, once.                                                         *)
(***************************************************************************)
CONSTANTS Audios,
          Deliveries,  \* how often an audio can come in
          Of,          \* the audio of a delivery
          Attempts     \* the attempts of a delivery

VARIABLES loose,
          copy,      \* how an attempt has put its audio down, if it has
          wanted,    \* the attempts whose text is to be sent back
          filed,     \* the attempts whose text is among the transcriptions
          fate,      \* "none", "open", or how a delivery was over
          answered   \* the deliveries whose text was sent back

vars == <<loose, copy, wanted, filed, fate, answered>>

Copies == Deliveries \X Attempts
Texts == {"skipped", "failed", "transcribed"}

Init ==
  /\ loose = {}
  /\ copy = [c \in Copies |-> "none"]
  /\ wanted = {} /\ filed = {}
  /\ fate = [d \in Deliveries |-> "none"]
  /\ answered = {}

\* An attempt goes on without having seen another one of the audio.
Loosen(a) == loose' = loose \cup {a} /\ UNCHANGED <<copy, wanted, filed, fate, answered>>

Receive(d) ==
  /\ fate[d] = "none"
  /\ fate' = [fate EXCEPT ![d] = "open"]
  /\ UNCHANGED <<loose, copy, wanted, filed, answered>>

\* What is wanted is settled before the audio is put down.
Want(c) ==
  /\ fate[c[1]] # "none" /\ copy[c] = "none"
  /\ wanted' = wanted \cup {c}
  /\ UNCHANGED <<loose, copy, filed, fate, answered>>

PutDown(c, text) ==
  /\ fate[c[1]] # "none" /\ copy[c] = "none"
  /\ Of[c[1]] \notin loose => \A x \in Copies : Of[x[1]] = Of[c[1]] => copy[x] = "none"
  /\ copy' = [copy EXCEPT ![c] = text]
  /\ UNCHANGED <<loose, wanted, filed, fate, answered>>

File(c) ==
  /\ copy[c] = "transcribed"
  /\ filed' = filed \cup {c}
  /\ UNCHANGED <<loose, copy, wanted, fate, answered>>

Answer(d) ==
  /\ fate[d] = "open" /\ d \notin answered
  /\ \E n \in Attempts : <<d, n>> \in wanted /\ copy[<<d, n>>] = "transcribed"
  /\ Of[d] \notin loose => \A e \in answered : Of[e] # Of[d]
  /\ answered' = answered \cup {d}
  /\ fate' = [fate EXCEPT ![d] = "done"]
  /\ UNCHANGED <<loose, copy, wanted, filed>>

Finish(d, how) ==
  /\ fate[d] = "open"
  /\ fate' = [fate EXCEPT ![d] = how]
  /\ UNCHANGED <<loose, copy, wanted, filed, answered>>

\* Whatever is open is given up at once.
Abandon ==
  /\ fate' = [d \in Deliveries |-> IF fate[d] = "open" THEN "lost" ELSE fate[d]]
  /\ UNCHANGED <<loose, copy, wanted, filed, answered>>

Next ==
  \/ \E a \in Audios : Loosen(a)
  \/ \E c \in Copies : Want(c) \/ File(c) \/ \E text \in Texts : PutDown(c, text)
  \/ \E d \in Deliveries : Receive(d) \/ Answer(d) \/ Finish(d, "done") \/ Finish(d, "failed")
  \/ Abandon

Spec == Init /\ [][Next]_vars

=============================================================================
