------------------------- MODULE TranscriptionQueue -------------------------
(***************************************************************************)
(* The legacy path of an audio: the webhook stores a row and queues a job  *)
(* in Redis (api/webhook, lib/queue), and the worker route takes a job per *)
(* call (api/worker).  The client of lib/redis.ts is @upstash/redis with   *)
(* its defaults, which parses what Redis answers: a job comes back as an   *)
(* object, JSON.parse of it throws, and dequeue answers that there is no   *)
(* job.  What the route does with a job (backing off, downloading,         *)
(* transcribing, storing, retrying, giving up, counting for the circuit    *)
(* breaker) is never reached, nor are the dead letter queue and an open    *)
(* circuit, and they are not here.                                         *)
(***************************************************************************)
EXTENDS Naturals, SequencesExt

CONSTANTS
  Rows,      \* rows of `messages`, one per webhook call that brings an audio
  Workers,   \* calls of the worker route that may overlap
  NoJob,     \* a worker without a job
  MaxFaults  \* bound: functions that end early and failing Redis calls

VARIABLES
  status,     \* messages.status of each row, "none" before its webhook
  inserting,  \* rows whose webhook has inserted and has yet to queue the job
  queue,      \* transcription:queue, pushed at the head, popped at the end
  hand,       \* the job each worker has taken
  asked,      \* ghost: rows whose job was queued
  gone,       \* ghost: rows whose job a fault destroyed
  faults      \* faults so far

vars == <<status, inserting, queue, hand, asked, gone, faults>>

Init ==
  /\ status = [r \in Rows |-> "none"]
  /\ inserting = {}
  /\ queue = << >>
  /\ hand = [w \in Workers |-> NoJob]
  /\ asked = {} /\ gone = {} /\ faults = 0

Fault == faults < MaxFaults /\ faults' = faults + 1

(***************************************************************************)
(* The webhook.                                                            *)
(***************************************************************************)

\* The row of an audio is inserted as "pending_transcription", whether it brings
\* an address or not and whoever's it is; a job is queued only for an audio with
\* an address in a chat that is not the user's own.  No index keeps a call that is
\* delivered again from inserting another row.
Insert(r) ==
  /\ status[r] = "none"
  /\ status' = [status EXCEPT ![r] = "pending_transcription"]
  /\ \E mediaUrl, isSelf \in BOOLEAN :
       inserting' = IF mediaUrl /\ ~isSelf THEN inserting \cup {r} ELSE inserting
  /\ UNCHANGED <<queue, hand, asked, gone, faults>>

Enqueue(r) ==
  /\ r \in inserting
  /\ inserting' = inserting \ {r}
  /\ queue' = <<r>> \o queue
  /\ asked' = asked \cup {r}
  /\ UNCHANGED <<status, hand, gone, faults>>

\* The webhook's function ends, or LPUSH fails, after the insert: the answer is
\* an error, and the row has no job.
LoseWebhook(r) ==
  /\ r \in inserting
  /\ Fault
  /\ inserting' = inserting \ {r}
  /\ gone' = gone \cup {r}
  /\ UNCHANGED <<status, queue, hand, asked>>

(***************************************************************************)
(* One call of the worker route.                                           *)
(***************************************************************************)

\* dequeue: RPOP takes the job off the list ...
Pop(w) ==
  /\ hand[w] = NoJob /\ queue # << >>
  /\ hand' = [hand EXCEPT ![w] = Last(queue)]
  /\ queue' = Front(queue)
  /\ UNCHANGED <<status, inserting, asked, gone, faults>>

\* ... and JSON.parse is given the object the client has made of it: it throws,
\* the catch answers null, and the call ends with "No jobs".
Parse(w) ==
  /\ hand[w] # NoJob
  /\ hand' = [hand EXCEPT ![w] = NoJob]
  /\ UNCHANGED <<status, inserting, queue, asked, gone, faults>>

\* The route's function ends, or the answer of RPOP is lost, with the job taken.
LoseJob(w) ==
  /\ hand[w] # NoJob
  /\ Fault
  /\ gone' = gone \cup {hand[w]}
  /\ hand' = [hand EXCEPT ![w] = NoJob]
  /\ UNCHANGED <<status, inserting, queue, asked>>

Next ==
  \/ \E r \in Rows : Insert(r) \/ Enqueue(r) \/ LoseWebhook(r)
  \/ \E w \in Workers : Pop(w) \/ Parse(w) \/ LoseJob(w)

Spec == Init /\ [][Next]_vars

(***************************************************************************)
(* Properties.                                                             *)
(***************************************************************************)

\* A job that was queued, and that no fault destroyed, is transcribed or still
\* there to be: in the queue or taken by a worker.  (The plan: the worker
\* dequeues, transcribes and persists, and failed jobs are tried again.)
NoJobDropped ==
  \A r \in asked \ gone :
    status[r] = "pending_transcription" =>
      Contains(queue, r) \/ \E w \in Workers : hand[w] = r
=============================================================================
