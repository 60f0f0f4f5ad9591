------------------------------ MODULE Transcripts ------------------------------
(***************************************************************************)
(* The transcription of the audios shown, on the browser's demand: the     *)
(* effect of the list that asks for them (hooks/useMessages.ts), the route *)
(* that looks them up or makes them (api/transcribe), and the route for an *)
(* audio this page has recorded (api/transcribe-raw).                      *)
(*                                                                         *)
(* The effect runs when the number of messages has changed, and its clean- *)
(* up cancels the run before, whose answers are then dropped.  A fault is  *)
(* a query, a fetch or a transcription that fails, or a broken connection. *)
(***************************************************************************)
EXTENDS Naturals, FiniteSets

CONSTANTS Audios, MaxRuns, MaxFaults    \* bounds: runs of the effect, faults

ASSUME BoundsAreNumbers == MaxRuns \in Nat /\ MaxFaults \in Nat

VARIABLES shown,    \* the audios in the list
          text,     \* those of them with their transcription
          status,   \* transcriptionStatus
          runs,     \* how many times the effect has run: the last is not cancelled
          bulk,     \* the run waiting for the texts stored so far, and its audios
          flying,   \* inFlightTranscriptions
          posts,    \* the requests for one audio each, by run
          saved,    \* waclaw_transcriptions
          paid,     \* how many times an audio has been given to Whisper
          raw,      \* the audios this page recorded whose transcription is on
          faults,   \* how many faults there have been
          unasked,  \* history: a list of the same length has replaced the list
          dropped,  \* history: the audios with an answer dropped since last asked for
          twice     \* history: the audios given to both routes at once

view    == <<shown, text, status>>
effect  == <<runs, bulk, flying, posts>>
server  == <<saved, paid, raw>>
history == <<unasked, dropped, twice>>
vars    == <<view, effect, server, faults, history>>

\* No run is waiting.
Idle == [run |-> 0, todo |-> {}]

Init ==
  /\ shown = {} /\ text = {}
  /\ status = [a \in Audios |-> "none"]
  /\ runs = 0 /\ bulk = Idle /\ flying = {} /\ posts = {}
  /\ saved \in SUBSET Audios
  /\ paid = [a \in Audios |-> 0]
  /\ raw = {} /\ faults = 0
  /\ unasked = FALSE /\ dropped = {} /\ twice = {}

Fault == faults < MaxFaults /\ faults' = faults + 1

-----------------------------------------------------------------------------
(* The browser.                                                            *)

\* The list's length has changed: the effect runs, and waits for the texts
\* when an audio lacks its own.
Run ==
  LET todo == shown' \ text' IN
  /\ runs < MaxRuns
  /\ runs' = runs + 1
  /\ bulk' = IF todo = {} THEN Idle ELSE [run |-> runs', todo |-> todo]
  /\ UNCHANGED <<flying, posts>>

\* A load replaces the list by what waclaw has, which knows no transcriptions.
\* The effect does not see a list of the same length.
Replace(s) ==
  /\ shown' = s /\ text' = {} /\ status' = [a \in Audios |-> "none"]
  /\ unasked' = (Cardinality(s) = Cardinality(shown))
  /\ IF unasked' THEN UNCHANGED effect ELSE Run
  /\ dropped' = {}
  /\ UNCHANGED <<server, faults, twice>>

\* A poll or a page of older messages adds to the list.
Extend(a) ==
  /\ a \notin shown
  /\ shown' = shown \cup {a}
  /\ UNCHANGED <<text, status>>
  /\ Run
  /\ unasked' = FALSE
  /\ UNCHANGED <<server, faults, dropped, twice>>

\* The audios shown whose text is stored, by GET /api/transcribe.
Stored == shown \cap saved

\* The stored texts arrive, or a failure that counts as none: they are put on
\* the list, and each audio the run is for is asked for unless it is under way
\* - those just put on the list as well.
Hydrated ==
  LET asked == bulk.todo \ flying IN
  /\ bulk # Idle /\ bulk' = Idle
  /\ \E hits \in {Stored, {}} :
       /\ IF hits = Stored THEN UNCHANGED faults ELSE Fault
       /\ text' = text \cup hits
       /\ status' = [a \in Audios |-> IF a \in asked \cap shown THEN "processing"
                                      ELSE IF a \in hits \ text THEN "completed" ELSE status[a]]
  /\ posts' = posts \cup [of : asked, run : {bulk.run}, at : {"asked"}]
  /\ flying' = flying \cup asked
  /\ dropped' = dropped \ asked
  /\ UNCHANGED <<shown, runs, server, unasked, twice>>

\* The answer for an audio: "done" with its text, or "failed".
Settle(r, outcome) ==
  IF r.run = runs
  THEN /\ status' = IF r.of \in shown
                      THEN [status EXCEPT ![r.of] = IF outcome = "done" THEN "completed" ELSE "failed"]
                      ELSE status
       /\ text' = IF outcome = "done" THEN text \cup ({r.of} \cap shown) ELSE text
       /\ UNCHANGED dropped
  ELSE /\ dropped' = dropped \cup {r.of}
       /\ UNCHANGED <<text, status>>

\* Mutant of Answered: a failure gets a status the list does not know.
AnsweredMisspelt(r) ==
  /\ posts' = posts \ {r}
  /\ flying' = flying \ {r.of}
  /\ IF r.at = "failed" THEN status' = [status EXCEPT ![r.of] = "error"] ELSE UNCHANGED status
  /\ UNCHANGED <<shown, text, dropped, runs, bulk, server, faults, unasked, twice>>

\* Mutant of Answered: an error is not told apart from a dropped answer.
AnsweredIfDone(r) ==
  /\ posts' = posts \ {r}
  /\ flying' = flying \ {r.of}
  /\ r.at \in {"done", "failed"}
  /\ IF r.at = "done" THEN Settle(r, "done") ELSE UNCHANGED <<text, status, dropped>>
  /\ UNCHANGED <<shown, runs, bulk, server, faults, unasked, twice>>

\* The answer arrives, or the connection breaks.
Answered(r) ==
  /\ posts' = posts \ {r}
  /\ flying' = flying \ {r.of}
  /\ \/ r.at \in {"done", "failed"} /\ Settle(r, r.at) /\ UNCHANGED faults
     \/ Fault /\ Settle(r, "failed")
  /\ UNCHANGED <<shown, runs, bulk, server, unasked, twice>>

-----------------------------------------------------------------------------
(* The routes.                                                             *)

Goes(r, to) == posts' = (posts \ {r}) \cup {[r EXCEPT !.at = to]}

\* Mutant of Ask: the stored text is not looked for.
AskAlways(r) ==
  /\ r.at = "asked"
  /\ Goes(r, "whisper")
  /\ paid' = [paid EXCEPT ![r.of] = @ + 1]
  /\ UNCHANGED <<view, runs, bulk, flying, saved, raw, faults, history>>

\* Look for the text, and give the audio to Whisper when there is none; the
\* query or the fetch of the audio may fail.
Ask(r) ==
  /\ r.at = "asked"
  /\ \/ r.of \in saved /\ Goes(r, "done") /\ UNCHANGED <<paid, faults, twice>>
     \/ /\ \/ r.of \notin saved /\ UNCHANGED faults
           \/ Fault
        /\ Goes(r, "whisper")
        /\ paid' = [paid EXCEPT ![r.of] = @ + 1]
        /\ twice' = twice \cup ({r.of} \cap raw)
     \/ Fault /\ Goes(r, "failed") /\ UNCHANGED <<paid, twice>>
  /\ UNCHANGED <<view, runs, bulk, flying, saved, raw, unasked, dropped>>

\* Whisper answers: the text is stored, which may fail unnoticed.
Transcribed(r) ==
  /\ r.at = "whisper"
  /\ \/ Goes(r, "done") /\ saved' = saved \cup {r.of} /\ UNCHANGED faults
     \/ Fault /\ Goes(r, "done") /\ UNCHANGED saved
     \/ Fault /\ Goes(r, "failed") /\ UNCHANGED saved
  /\ UNCHANGED <<view, runs, bulk, flying, paid, raw, history>>

\* A recording has been sent: its bytes go to Whisper, without a look at what
\* is stored or asked for by the id that the sending has given it.
Record(a) ==
  /\ paid[a] = 0 /\ a \notin saved \cup raw
  /\ raw' = raw \cup {a}
  /\ paid' = [paid EXCEPT ![a] = @ + 1]
  /\ UNCHANGED <<view, effect, saved, faults, history>>

\* The recording's text is stored, or is not, and shown on the page's own
\* message.
Recorded(a) ==
  /\ a \in raw
  /\ raw' = raw \ {a}
  /\ \/ saved' = saved \cup {a} /\ UNCHANGED faults
     \/ Fault /\ UNCHANGED saved
  /\ UNCHANGED <<view, effect, paid, history>>

-----------------------------------------------------------------------------

PostStep(a) == \E r \in posts : r.of = a /\ (Ask(r) \/ Transcribed(r) \/ Answered(r))

Next ==
  \/ \E s \in SUBSET Audios : Replace(s)
  \/ \E a \in Audios : Extend(a) \/ Record(a) \/ Recorded(a) \/ PostStep(a)
  \/ Hydrated

Spec == Init /\ [][Next]_vars

\* Requests end, and so do the routes' calls.
FairSpec == Spec /\ WF_vars(Hydrated) /\ \A a \in Audios : WF_vars(PostStep(a))

-----------------------------------------------------------------------------
(* Properties.                                                             *)

\* The type invariant.
TypeOK ==
  /\ text \subseteq shown /\ shown \cup flying \cup saved \cup raw \cup dropped \cup twice \subseteq Audios
  /\ status \in [Audios -> {"none", "processing", "completed", "failed"}]
  /\ runs \in 0 .. MaxRuns
  /\ bulk \in [run : 0 .. MaxRuns, todo : SUBSET Audios]
  /\ posts \subseteq [of : Audios, run : 1 .. MaxRuns, at : {"asked", "whisper", "done", "failed"}]
  /\ paid \in [Audios -> Nat]
  /\ faults \in 0 .. MaxFaults /\ unasked \in BOOLEAN

\* An audio is paid for once, however often the list changes while its
\* transcription is under way, by the set of those in flight and the stored
\* texts together - but for a recording that is shown by its real id before its
\* own transcription ends, and for faults.
PaidOnce == faults = 0 => \A a \in Audios \ twice : paid[a] <= 1

\* What AudioSettles needs of every state: an audio shown that is neither
\* transcribed nor said to have failed is one the last run of the effect is about to ask
\* for, or has a request under way - but for what AudioSettles sets aside
\* (useMessages.ts:394-498).
AudiosAwaited ==
  \A a \in shown \ dropped :
    \/ unasked \/ status[a] \in {"completed", "failed"}
    \/ a \in bulk.todo \/ \E r \in posts : r.of = a

\* "On every message list change, scan for audio messages without a
\* transcription" (useMessages.ts:395): an audio shown is transcribed or said to
\* have failed in the end - unless its answer came after the list had changed
\* again, or a list of the same length has replaced the list.
AudioSettles ==
  \A a \in Audios :
    []<>(\/ a \notin shown \/ unasked \/ a \in dropped
         \/ status[a] \in {"completed", "failed"})

=============================================================================
