----------------------------- MODULE AudioPipeline -----------------------------
(***************************************************************************)
(* From an audio message to its transcription and the reply: the daemon,   *)
(* which runs one task per event it reads from the stream and forwards the *)
(* event with retries (daemon/src/forwarder.ts, index.ts), and the route   *)
(* that looks up the instance, drops duplicates, filters, transcribes and  *)
(* stores (api/internal/on-audio/route.ts, lib/filter.ts).                 *)
(*                                                                         *)
(* Every await of the route is a step of its own, so requests overlap: an  *)
(* event may be read twice, and a request the daemon has given up on runs  *)
(* on beside its retry.  The messages table has no key on the message id.  *)
(* A fault is a lost request or answer, a query, transcription or send     *)
(* that fails, a request the platform ends, or a crash of the daemon.      *)
(***************************************************************************)
EXTENDS Integers

CONSTANTS Audios,      \* audio messages
          Deliveries,  \* the times the daemon reads an event from the stream
          Of,          \* Of[d] is the audio whose event the delivery d is
          Kinds,       \* the kinds of event, records of Filter's inputs and valid
          Retries,     \* DAEMON_FORWARD_MAX_RETRIES
          MaxFaults    \* bound: how many faults there are

\* What the group list of an instance can say of a chat.
NoGroup == [listed |-> FALSE, transcribe_all |-> FALSE, send_reply |-> TRUE]
Groups ==
  {NoGroup} \cup
    {[listed |-> TRUE, transcribe_all |-> t, send_reply |-> s] : t, s \in BOOLEAN}

ASSUME AudioAssumption ==
  /\ Of \in [Deliveries -> Audios]
  /\ Kinds \subseteq [valid : BOOLEAN, self : BOOLEAN, from_me : BOOLEAN, is_group : BOOLEAN]
  /\ Retries \in Nat \ {0}
  /\ MaxFaults \in Nat

\* The n-th request for the delivery d.
Requests == Deliveries \X (1 .. Retries)

AudioOf(q) == Of[q[1]]

VARIABLES event,    \* the kind of every audio's event
          enabled,  \* the session is bound to an instance that transcribes
          group,    \* the settings of every audio's chat in the group list
          task,     \* the daemon's task for every delivery
          attempt,  \* how many requests a task has made
          phase,    \* where every request is: at the query or call it makes
                    \* next, or its answer
          reply,    \* the filter wants the request's transcription sent back
          row,      \* the row a request has inserted into messages, if any
          indexed,  \* the requests that have inserted a row into transcriptions
          replied,  \* the deliveries whose reply has gone out
          raced,    \* history: the audios whose duplicate check was overtaken
          faults    \* how many faults there have been

settings   == <<event, enabled, group>>
daemonVars == <<task, attempt>>
tableVars  == <<row, indexed>>
vars == <<settings, daemonVars, phase, reply, tableVars, replied, raced, faults>>

-----------------------------------------------------------------------------

\* The answers of the route: 400, 200 skipped for three reasons, 500, and 200
\* transcribed.
Answers == {"rejected", "unbound", "duplicate", "skipped", "failed", "transcribed"}

\* A request that has passed the duplicate check and not inserted its row yet.
Unstored == {"decide", "skip", "transcribe", "fail", "store"}

\* A request the route is still working on.
Working == Unstored \cup {"lookup", "check", "index"}

\* The rows of messages that are an audio's, each named by its request.
RowsOf(a) == {q \in Requests : AudioOf(q) = a /\ row[q] # "none"}

Fault == faults < MaxFaults /\ faults' = faults + 1

Goes(q, to) == phase' = [phase EXCEPT ![q] = to]

Init ==
  /\ event \in [Audios -> Kinds]
  /\ enabled \in BOOLEAN
  /\ group \in [Audios -> Groups]
  /\ \A a \in Audios : ~event[a].is_group => group[a] = NoGroup
  /\ task = [d \in Deliveries |-> "none"]
  /\ attempt = [d \in Deliveries |-> 0]
  /\ phase = [q \in Requests |-> "none"]
  /\ reply = [q \in Requests |-> FALSE]
  /\ row = [q \in Requests |-> "none"]
  /\ indexed = {}
  /\ replied = {}
  /\ raced = {}
  /\ faults = 0

-----------------------------------------------------------------------------
(* The user's settings.                                                    *)

\* The session is bound or unbound, or its transcription switched.
Toggle ==
  /\ enabled' = ~enabled
  /\ UNCHANGED <<event, group, daemonVars, phase, reply, tableVars, replied, raced, faults>>

\* The group is put on the list, changed, or taken off.
Regroup(a) ==
  /\ event[a].is_group
  /\ \E g \in Groups : group' = [group EXCEPT ![a] = g]
  /\ UNCHANGED <<event, enabled, daemonVars, phase, reply, tableVars, replied, raced, faults>>

\* filterMessage: whether to transcribe, and whether to reply.
Filter(e, g) ==
  CASE e.self -> [process |-> FALSE, sendReply |-> FALSE]
    [] ~e.self /\ ~e.is_group -> [process |-> ~e.from_me, sendReply |-> ~e.from_me]
    [] ~e.self /\ e.is_group /\ e.from_me -> [process |-> TRUE, sendReply |-> g.send_reply]
    [] ~e.self /\ e.is_group /\ ~e.from_me ->
         [process |-> g.listed /\ g.transcribe_all, sendReply |-> g.send_reply]

-----------------------------------------------------------------------------
(* The daemon.                                                             *)

Running == {"ready", "waiting", "reply"}

\* An audio event is read from the stream: onAudioMessage starts, and fetches
\* the audio's bytes or goes on without them.
Deliver(d) ==
  /\ task[d] = "none"
  /\ task' = [task EXCEPT ![d] = "ready"]
  /\ UNCHANGED <<settings, attempt, phase, reply, tableVars, replied, raced, faults>>

\* Mutant of Retry: one attempt too many.
RetryOnceMore(d, n) == task' = [task EXCEPT ![d] = IF n <= Retries THEN "ready" ELSE "failed"]

\* The n-th attempt had no answer or a 5xx: try again, or give up.
Retry(d, n) == task' = [task EXCEPT ![d] = IF n < Retries THEN "ready" ELSE "failed"]

\* The next attempt's request, which may not get through.  The route answers
\* an event its schema refuses at once.
Post(d) ==
  LET n == attempt[d] + 1 IN
  /\ task[d] = "ready"
  /\ attempt' = [attempt EXCEPT ![d] = n]
  /\ \/ /\ task' = [task EXCEPT ![d] = "waiting"]
        /\ Goes(<<d, n>>, IF event[Of[d]].valid THEN "lookup" ELSE "rejected")
        /\ UNCHANGED faults
     \/ Fault /\ Retry(d, n) /\ UNCHANGED phase
  /\ UNCHANGED <<settings, reply, tableVars, replied, raced>>

\* Mutant of GetAnswer: 4xx is not told apart and nothing ends the task.
GetAnswerBut4xx(d) ==
  LET q == <<d, attempt[d]>> IN
  /\ task[d] = "waiting"
  /\ phase[q] \in Answers \ {"rejected"}
  /\ IF phase[q] = "failed" THEN Retry(d, attempt[d])
     ELSE task' = [task EXCEPT ![d] = IF phase[q] = "transcribed" /\ reply[q]
                                        THEN "reply" ELSE "done"]
  /\ UNCHANGED <<settings, attempt, phase, reply, tableVars, replied, raced, faults>>

\* The answer arrives: 4xx is final, 5xx is retried, and a transcription may
\* ask for a reply.
GetAnswer(d) ==
  LET q == <<d, attempt[d]>> IN
  /\ task[d] = "waiting"
  /\ phase[q] \in Answers
  /\ IF phase[q] = "failed" THEN Retry(d, attempt[d])
     ELSE task' = [task EXCEPT ![d] =
            IF phase[q] = "rejected" THEN "failed"
            ELSE IF phase[q] = "transcribed" /\ reply[q] THEN "reply" ELSE "done"]
  /\ UNCHANGED <<settings, attempt, phase, reply, tableVars, replied, raced, faults>>

\* The connection breaks, or the answer cannot be read; the request itself
\* runs on.
Drop(d) ==
  /\ task[d] = "waiting"
  /\ Fault
  /\ Retry(d, attempt[d])
  /\ UNCHANGED <<settings, attempt, phase, reply, tableVars, replied, raced>>

\* sendWaclawReply, once: a send that fails is logged, and may have gone out.
Reply(d) ==
  /\ task[d] = "reply"
  /\ task' = [task EXCEPT ![d] = "done"]
  /\ \/ replied' = replied \cup {d} /\ (UNCHANGED faults \/ Fault)
     \/ Fault /\ UNCHANGED replied
  /\ UNCHANGED <<settings, attempt, phase, reply, tableVars, raced>>

\* The daemon dies, and its tasks with it; nothing remembers them.
Crash ==
  /\ Fault
  /\ task' = [d \in Deliveries |-> IF task[d] \in Running THEN "lost" ELSE task[d]]
  /\ UNCHANGED <<settings, attempt, phase, reply, tableVars, replied, raced>>

-----------------------------------------------------------------------------
(* The route.                                                              *)

\* Look up the instance of the session; a query that fails looks like none.
Lookup(q) ==
  /\ phase[q] = "lookup"
  /\ \/ Goes(q, IF enabled THEN "check" ELSE "unbound") /\ UNCHANGED faults
     \/ Fault /\ Goes(q, "unbound")
  /\ UNCHANGED <<settings, daemonVars, reply, tableVars, replied, raced>>

\* The request goes on as the first one of its audio.
Pass(q, overtaken) ==
  /\ Goes(q, "decide")
  /\ raced' = IF overtaken THEN raced \cup {AudioOf(q)} ELSE raced

\* Another request of the audio has passed the check and not stored its row.
Overtakes(q) ==
  \E x \in Requests : AudioOf(x) = AudioOf(q) /\ phase[x] \in Unstored

\* Mutant of Check: the rows are not looked at.
CheckNothing(q) ==
  /\ phase[q] = "check"
  /\ Pass(q, Overtakes(q)) /\ UNCHANGED faults
  /\ UNCHANGED <<settings, daemonVars, reply, tableVars, replied>>

\* Look for the audio's row.  maybeSingle() finds it when there is exactly
\* one; two rows are an error, and an error looks like none.
Check(q) ==
  /\ phase[q] = "check"
  /\ \/ /\ \E x \in Requests : RowsOf(AudioOf(q)) = {x}
        /\ Goes(q, "duplicate")
        /\ UNCHANGED <<raced, faults>>
     \/ /\ \A x \in Requests : RowsOf(AudioOf(q)) # {x}
        /\ Pass(q, Overtakes(q))
        /\ UNCHANGED faults
     \/ Fault /\ Pass(q, TRUE)
  /\ UNCHANGED <<settings, daemonVars, reply, tableVars, replied>>

\* Read the group's settings and filter; a query that fails looks like a
\* group that is not listed.
Decide(q) ==
  /\ phase[q] = "decide"
  /\ \E g \in Groups :
       /\ \/ g = group[AudioOf(q)] /\ UNCHANGED faults
          \/ g = NoGroup /\ Fault
       /\ LET decision == Filter(event[AudioOf(q)], g)
          IN  /\ Goes(q, IF decision.process THEN "transcribe" ELSE "skip")
              /\ reply' = [reply EXCEPT ![q] = decision.sendReply]
  /\ UNCHANGED <<settings, daemonVars, tableVars, replied, raced>>

\* Insert the request's row; whether the query succeeds or not is the caller's.
Insert(q, status) == row' = [row EXCEPT ![q] = status] /\ UNCHANGED indexed

\* Mutant of StoreSkipped: a skipped audio is not stored.
StoreNoSkipped(q) ==
  /\ phase[q] = "skip"
  /\ Goes(q, "skipped")
  /\ UNCHANGED <<settings, daemonVars, reply, tableVars, replied, raced, faults>>

\* The audio is not to be transcribed: store it for the chat all the same.
\* An insert that fails goes unnoticed.
StoreSkipped(q) ==
  /\ phase[q] = "skip"
  /\ Goes(q, "skipped")
  /\ \/ Insert(q, "skipped") /\ UNCHANGED faults
     \/ Fault /\ UNCHANGED tableVars
  /\ UNCHANGED <<settings, daemonVars, reply, replied, raced>>

\* Get the audio and transcribe it.
Transcribe(q) ==
  /\ phase[q] = "transcribe"
  /\ \/ Goes(q, "store") /\ UNCHANGED faults
     \/ Fault /\ Goes(q, "fail")
  /\ UNCHANGED <<settings, daemonVars, reply, tableVars, replied, raced>>

\* Transcription failed: store the audio as failed and answer 500.
StoreFailed(q) ==
  /\ phase[q] = "fail"
  /\ Goes(q, "failed")
  /\ \/ Insert(q, "failed") /\ UNCHANGED faults
     \/ Fault /\ UNCHANGED tableVars
  /\ UNCHANGED <<settings, daemonVars, reply, replied, raced>>

\* Mutant of Store: the error of the insert is not looked at.
StoreUnchecked(q) ==
  /\ phase[q] = "store"
  /\ Goes(q, "index")
  /\ \/ Insert(q, "transcribed") /\ UNCHANGED faults
     \/ Fault /\ UNCHANGED tableVars
  /\ UNCHANGED <<settings, daemonVars, reply, replied, raced>>

\* Store the audio with its text.  An insert that fails, whether or not the
\* row is there, is answered 500.
Store(q) ==
  /\ phase[q] = "store"
  /\ \/ Goes(q, "index") /\ Insert(q, "transcribed") /\ UNCHANGED faults
     \/ /\ Goes(q, "failed")
        /\ Fault
        /\ Insert(q, "transcribed") \/ UNCHANGED tableVars
  /\ UNCHANGED <<settings, daemonVars, reply, replied, raced>>

\* Summarise, insert the transcription and answer; neither failing matters.
Index(q) ==
  /\ phase[q] = "index"
  /\ Goes(q, "transcribed")
  /\ \/ indexed' = indexed \cup {q} /\ UNCHANGED faults
     \/ Fault /\ UNCHANGED indexed
  /\ UNCHANGED <<settings, daemonVars, reply, row, replied, raced>>

\* The platform ends the request, at maxDuration or for a failure of its own.
Kill(q) ==
  /\ phase[q] \in Working
  /\ Fault
  /\ Goes(q, "failed")
  /\ UNCHANGED <<settings, daemonVars, reply, tableVars, replied, raced>>

-----------------------------------------------------------------------------

TaskStep(d) == Post(d) \/ GetAnswer(d) \/ Reply(d)

RequestStep(q) ==
  \/ Lookup(q) \/ Check(q) \/ Decide(q) \/ StoreSkipped(q)
  \/ Transcribe(q) \/ StoreFailed(q) \/ Store(q) \/ Index(q)

Next ==
  \/ Toggle
  \/ \E a \in Audios : Regroup(a)
  \/ \E d \in Deliveries : Deliver(d) \/ TaskStep(d) \/ Drop(d)
  \/ \E q \in Requests : RequestStep(q) \/ Kill(q)
  \/ Crash

Spec == Init /\ [][Next]_vars

\* A task and a request that have begun go on: fetch and the route's queries
\* end, at the latest when the platform ends the request.
FairSpec ==
  /\ Spec
  /\ \A d \in Deliveries : WF_vars(TaskStep(d))
  /\ \A q \in Requests : WF_vars(RequestStep(q))

-----------------------------------------------------------------------------
(* Properties.                                                             *)

\* The type invariant.
TypeOK ==
  /\ event \in [Audios -> Kinds]
  /\ enabled \in BOOLEAN
  /\ group \in [Audios -> Groups]
  /\ task \in [Deliveries -> Running \cup {"none", "done", "failed", "lost"}]
  /\ attempt \in [Deliveries -> 0 .. Retries]
  /\ phase \in [Requests -> Working \cup Answers \cup {"none"}]
  /\ reply \in [Requests -> BOOLEAN]
  /\ row \in [Requests -> {"none", "skipped", "failed", "transcribed"}]
  /\ indexed \in SUBSET Requests
  /\ replied \in SUBSET Deliveries
  /\ raced \in SUBSET Audios
  /\ faults \in 0 .. MaxFaults

\* "If we already stored this message_id for this instance, don't reprocess"
\* (route.ts): an audio is stored once and replied to once, however often its
\* event is read, its answer lost and its request repeated - unless two
\* requests were between the check and the insert at once, or the check's
\* query failed, which nothing in the code or the table prevents.
ProcessedOnce ==
  \A a \in Audios \ raced :
    /\ \A x, y \in RowsOf(a) : x = y
    /\ \A d, e \in replied : Of[d] = a /\ Of[e] = a => d = e

\* A reply only goes out for a transcription that is stored, from a request
\* of the same delivery whose filter wanted it.
RepliesAreStored ==
  \A d \in replied : \E q \in Requests :
    q[1] = d /\ row[q] = "transcribed" /\ reply[q]

\* Without faults nothing is lost, whatever the interleaving: a task ends in
\* failure only for a malformed event, and when it is done the audio is in
\* messages, transcribed by this request only with its reply sent, unless the
\* session was not bound.
NothingLost ==
  faults = 0 => \A d \in Deliveries :
    LET q == <<d, attempt[d]>> IN
    /\ task[d] = "failed" => ~event[Of[d]].valid
    /\ task[d] = "done" /\ phase[q] # "unbound" =>
         /\ RowsOf(Of[d]) # {}
         /\ phase[q] = "transcribed" /\ reply[q] => d \in replied

\* Daemon and route implement Inbox, whatever is lost, repeated or overtaken: an
\* audio is stored once, and a reply goes out once, for a transcription that is
\* stored, from a request of that delivery whose filter wanted it, before the
\* delivery is over (route.ts:60-311, forwarder.ts:28-96).
Wanted == {q \in Requests : reply[q]}
Fates  == [d \in Deliveries |-> IF task[d] \in Running THEN "open" ELSE task[d]]

Box == INSTANCE Inbox WITH
  Attempts <- 1 .. Retries, loose <- raced, copy <- row, wanted <- Wanted,
  filed <- indexed, fate <- Fates, answered <- replied

ImplementsInbox == Box!Spec

\* How many steps a task has left at most, and a request: two for an attempt, one
\* for the reply.
TaskLeft(d) ==
  CASE task[d] = "none"    -> 2 * Retries + 2
    [] task[d] = "ready"   -> 2 * (Retries - attempt[d]) + 1
    [] task[d] = "waiting" -> 2 * (Retries - attempt[d]) + 2
    [] task[d] = "reply"   -> 1
    [] OTHER               -> 0

RouteLeft(q) ==
  CASE phase[q] = "none"                   -> 7
    [] phase[q] = "lookup"                 -> 6
    [] phase[q] = "check"                  -> 5
    [] phase[q] = "decide"                 -> 4
    [] phase[q] \in {"skip", "transcribe"} -> 3
    [] phase[q] \in {"fail", "store"}      -> 2
    [] phase[q] = "index"                  -> 1
    [] OTHER                               -> 0

\* What TaskEnds needs of every step: no step of anybody, a crash or a late answer
\* included, takes a task or a request back, and each step of its own takes it
\* further, so that both end after as many as they have left
\* (forwarder.ts:28-96, route.ts:40-311).
AlwaysFurther ==
  [][ /\ \A d \in Deliveries : /\ TaskLeft(d)' <= TaskLeft(d)
                               /\ TaskStep(d) \/ Drop(d) => TaskLeft(d)' < TaskLeft(d)
      /\ \A q \in Requests : /\ RouteLeft(q)' <= RouteLeft(q)
                             /\ RequestStep(q) \/ Kill(q) => RouteLeft(q)' < RouteLeft(q) ]_vars

\* And of every state: a task that waits for the route waits for a request the
\* route is working on or has answered.
WaitsForRoute ==
  \A d \in Deliveries : task[d] = "waiting" => phase[<<d, attempt[d]>>] \in Working \cup Answers

\* The task of every event that is read comes to an end: retries are bounded,
\* and a request that never answers is not waited for for ever.
TaskEnds ==
  \A d \in Deliveries : task[d] \in Running ~> task[d] \in {"done", "failed", "lost"}

\* "5xx and network errors are retried" (forwarder.ts): a retry is not turned
\* away as a duplicate of its own failure.  The code breaks it: the row that
\* marks the failure is the one the duplicate check finds.
FailureIsRetried ==
  \A q \in Requests : phase[q] = "duplicate" =>
    \E x \in RowsOf(AudioOf(q)) : row[x] # "failed"

=============================================================================
