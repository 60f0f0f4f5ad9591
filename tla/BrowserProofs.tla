----------------------------- MODULE BrowserProofs -----------------------------
(***************************************************************************)
(* What TLAPS proves of an open conversation in the browser, each part for *)
(* any messages, chats, requests and faults: that the list shown is of the *)
(* chat selected and has no message twice; that the stars shown, held and  *)
(* stored agree; that an audio is paid for once; that a dialog shows       *)
(* nothing of another chat; and the types of them all.                     *)
(*                                                                         *)
(* None of these but the waiting is inductive by itself.                   *)
(*  - Transcripts: an audio has one request at most, which is in flight as *)
(*    the hook has it, and an audio paid for is stored, or with Whisper by *)
(*    one of the routes.                                                   *)
(*  - Stars: a message whose clicks did not cross has one under way at     *)
(*    most, and set and table are as far apart as that click has got;      *)
(*    before the stars of the session have come, the set holds nothing but *)
(*    what counts as raced.                                                *)
(*  - Dialogs: a form lacks at most the attachment that is being read, and *)
(*    a summary that is kept is that of the dialog now open.               *)
(*  - ChatView: while no outlived answer has mixed it, the list is in the  *)
(*    order of time, and a request that may still change it fits it: a     *)
(*    poll brings what is newer than the last message, a page what is      *)
(*    older than the first one, and there is one of each at most for a     *)
(*    version of the list.                                                 *)
(***************************************************************************)
EXTENDS Browser, FiniteSetTheorems, SequenceTheorems, WellFoundedInduction, TLAPS

Post == [of : Audios, run : 1 .. MaxRuns, at : {"asked", "whisper", "done", "failed"}]

\* A run that waits has begun.
BulkInv == bulk = Idle \/ bulk.run \in 1 .. MaxRuns

OnePost ==
  /\ \A r \in posts : r.of \in flying
  /\ \A r, q \in posts : r.of = q.of => r = q

\* Where the money has gone.
Bought(a) ==
  a \in saved \cup raw \/ \E r \in posts : r.of = a /\ r.at = "whisper"

PaidInv ==
  faults = 0 => \A a \in Audios \ twice : paid[a] <= 1 /\ (paid[a] > 0 => Bought(a))

IInv == TypeOK /\ BulkInv /\ OnePost /\ PaidInv

-----------------------------------------------------------------------------
(* Transcripts: its types.                                                 *)

LEMMA IdleType == Idle \in [run : 0 .. MaxRuns, todo : SUBSET Audios]
BY BoundsAreNumbers DEF Idle

\* A request that goes on.
LEMMA GoesPost ==
  ASSUME NEW r \in Post, NEW to \in {"asked", "whisper", "done", "failed"}
  PROVE  /\ [r EXCEPT !.at = to] \in Post
         /\ [r EXCEPT !.at = to].of = r.of
         /\ [r EXCEPT !.at = to].at = to
BY DEF Post

LEMMA FaultType ==
  ASSUME TypeOK, faults' = faults \/ Fault
  PROVE  faults' \in 0 .. MaxFaults /\ (faults' = 0 => faults' = faults /\ faults = 0)
BY BoundsAreNumbers DEF TypeOK, Fault

LEMMA RunType ==
  ASSUME TypeOK, BulkInv, Run, shown' \subseteq Audios
  PROVE  /\ runs' \in 0 .. MaxRuns
         /\ bulk' \in [run : 0 .. MaxRuns, todo : SUBSET Audios]
         /\ BulkInv'
         /\ UNCHANGED <<flying, posts>>
<1>1. runs' \in 1 .. MaxRuns
  BY BoundsAreNumbers DEF TypeOK, Run
<1>2. [run |-> runs', todo |-> shown' \ text'] \in [run : 0 .. MaxRuns, todo : SUBSET Audios]
  BY <1>1, BoundsAreNumbers
<1>3. bulk' = Idle \/ bulk' = [run |-> runs', todo |-> shown' \ text']
  BY DEF Run
<1>4. bulk' \in [run : 0 .. MaxRuns, todo : SUBSET Audios]
  BY <1>2, <1>3, IdleType
<1>5. BulkInv'
  BY <1>1, <1>3 DEF BulkInv, Idle
<1> QED  BY <1>1, <1>4, <1>5, BoundsAreNumbers DEF Run

-----------------------------------------------------------------------------
(* Transcripts: the browser.                                               *)

\* A step that leaves requests, payments and stored texts alone.
LEMMA PaidStill ==
  ASSUME OnePost, PaidInv, UNCHANGED <<flying, posts, saved, paid, raw, faults, twice>>
  PROVE  OnePost' /\ PaidInv'
BY DEF OnePost, PaidInv, Bought

LEMMA ReplaceInv ==
  ASSUME IInv, NEW s \in SUBSET Audios, Replace(s)
  PROVE  IInv'
<1>1. /\ shown' = s /\ text' = {} /\ status' = [a \in Audios |-> "none"]
      /\ dropped' = {} /\ unasked' \in BOOLEAN
      /\ UNCHANGED <<saved, paid, raw, faults, twice>>
  BY DEF Replace, server
<1>2. /\ runs' \in 0 .. MaxRuns
      /\ bulk' \in [run : 0 .. MaxRuns, todo : SUBSET Audios]
      /\ BulkInv'
      /\ UNCHANGED <<flying, posts>>
  <2>1. CASE UNCHANGED effect  BY <2>1 DEF IInv, TypeOK, BulkInv, effect
  <2>2. CASE Run  BY <1>1, <2>2, RunType DEF IInv
  <2> QED  BY <2>1, <2>2 DEF Replace
<1>3. TypeOK'  BY <1>1, <1>2 DEF IInv, TypeOK
<1> QED  BY <1>1, <1>2, <1>3, PaidStill DEF IInv

LEMMA ExtendInv ==
  ASSUME IInv, NEW a \in Audios, Extend(a)
  PROVE  IInv'
<1>1. /\ shown' = shown \cup {a} /\ unasked' = FALSE
      /\ UNCHANGED <<text, status, saved, paid, raw, faults, dropped, twice>>
  BY DEF Extend, server
<1>2. shown' \subseteq Audios  BY <1>1 DEF IInv, TypeOK
<1>3. /\ runs' \in 0 .. MaxRuns
      /\ bulk' \in [run : 0 .. MaxRuns, todo : SUBSET Audios]
      /\ BulkInv'
      /\ UNCHANGED <<flying, posts>>
  BY <1>2, RunType DEF Extend, IInv
<1>4. TypeOK
  BY DEF IInv
<1>5. /\ text' \subseteq shown' /\ status' \in [Audios -> {"none", "processing", "completed", "failed"}]
      /\ shown' \cup flying' \cup saved' \cup raw' \cup dropped' \cup twice' \subseteq Audios
  BY <1>1, <1>2, <1>3, <1>4 DEF TypeOK
<1>6. /\ posts' \subseteq [of : Audios, run : 1 .. MaxRuns, at : {"asked", "whisper", "done", "failed"}]
      /\ paid' \in [Audios -> Nat]
      /\ faults' \in 0 .. MaxFaults /\ unasked' \in BOOLEAN
  BY <1>1, <1>3, <1>4 DEF TypeOK
<1>7. TypeOK'  BY <1>3, <1>5, <1>6 DEF TypeOK
<1> QED  BY <1>1, <1>3, <1>7, PaidStill DEF IInv

\* The audios asked for had no request under way.
LEMMA HydratedInv ==
  ASSUME IInv, Hydrated
  PROVE  IInv'
<1> DEFINE asked == bulk.todo \ flying
           new == [of : asked, run : {bulk.run}, at : {"asked"}]
<1>1. /\ bulk # Idle /\ bulk' = Idle
      /\ posts' = posts \cup new
      /\ flying' = flying \cup asked
      /\ dropped' = dropped \ asked
      /\ UNCHANGED <<shown, runs, saved, paid, raw, unasked, twice>>
  BY DEF Hydrated, server
<1>2. PICK hits \in {Stored, {}} :
        /\ IF hits = Stored THEN UNCHANGED faults ELSE Fault
        /\ text' = text \cup hits
        /\ status' = [a \in Audios |-> IF a \in asked \cap shown THEN "processing"
                                       ELSE IF a \in hits \ text THEN "completed" ELSE status[a]]
  BY DEF Hydrated
<1>3. hits \subseteq shown /\ (faults' = faults \/ Fault)
  BY <1>2 DEF Stored
<1>4. asked \subseteq Audios /\ bulk.run \in 1 .. MaxRuns
  BY <1>1 DEF IInv, TypeOK, BulkInv
<1>5. new \subseteq Post /\ \A r \in new : r.of \in asked /\ r.at = "asked"
  BY <1>4 DEF Post
<1>6. \A r, q \in new : r.of = q.of => r = q
  OBVIOUS
<1> HIDE DEF asked, new
<1>7. status' \in [Audios -> {"none", "processing", "completed", "failed"}]
  BY <1>2 DEF IInv, TypeOK
<1>8. faults' \in 0 .. MaxFaults /\ (faults' = 0 => faults' = faults /\ faults = 0)
  BY <1>3, FaultType DEF IInv
<1>9. TypeOK'
  <2>1. text' \subseteq shown'  BY <1>1, <1>2, <1>3 DEF IInv, TypeOK
  <2>2. shown' \cup flying' \cup saved' \cup raw' \cup dropped' \cup twice' \subseteq Audios
    BY <1>1, <1>4 DEF IInv, TypeOK
  <2>3. posts' \subseteq Post  BY <1>1, <1>5 DEF IInv, TypeOK, Post
  <2>4. bulk' \in [run : 0 .. MaxRuns, todo : SUBSET Audios]  BY <1>1, IdleType
  <2> QED  BY <1>1, <1>7, <1>8, <2>1, <2>2, <2>3, <2>4 DEF IInv, TypeOK, Post
<1>10. BulkInv'  BY <1>1 DEF BulkInv
<1>11. OnePost'
  <2>1. \A r \in posts : r.of \in flying /\ r.of \notin asked
    BY DEF IInv, OnePost, asked
  <2>2. \A r \in posts' : r.of \in flying'  BY <1>1, <1>5, <2>1
  <2>3. \A r, q \in posts' : r.of = q.of => r = q
    BY <1>1, <1>5, <1>6, <2>1 DEF IInv, OnePost
  <2> QED  BY <2>2, <2>3 DEF OnePost
<1>12. PaidInv'
  BY <1>1, <1>8 DEF IInv, PaidInv, Bought
<1> QED  BY <1>9, <1>10, <1>11, <1>12 DEF IInv

LEMMA AnsweredInv ==
  ASSUME IInv, NEW r \in posts, Answered(r)
  PROVE  IInv'
<1>1. /\ posts' = posts \ {r} /\ flying' = flying \ {r.of}
      /\ UNCHANGED <<shown, runs, bulk, saved, paid, raw, unasked, twice>>
  BY DEF Answered, server
<1>2. PICK outcome \in {"done", "failed"} : Settle(r, outcome)
  BY DEF Answered
<1>3. faults' = faults \/ Fault  BY DEF Answered
<1>4. faults' = faults => r.at # "whisper"
  BY FaultType DEF Answered, IInv, TypeOK, Fault
<1>5. faults' \in 0 .. MaxFaults /\ (faults' = 0 => faults' = faults /\ faults = 0)
  BY <1>3, FaultType DEF IInv
<1>6. r \in Post  BY DEF IInv, TypeOK, Post
<1>7. /\ status' \in [Audios -> {"none", "processing", "completed", "failed"}]
      /\ text' \subseteq shown
      /\ dropped' \subseteq Audios
  BY <1>2, <1>6 DEF IInv, TypeOK, Settle, Post
<1>8. TypeOK'  BY <1>1, <1>5, <1>7 DEF IInv, TypeOK
<1>9. BulkInv'  BY <1>1 DEF IInv, BulkInv
<1>10. OnePost'  BY <1>1 DEF IInv, OnePost
<1>11. PaidInv'
  <2> SUFFICES ASSUME faults' = 0, NEW a \in Audios, a \notin twice
               PROVE  paid[a] <= 1 /\ (paid[a] > 0 => Bought(a)')
    BY <1>1 DEF PaidInv
  <2>1. paid[a] <= 1 /\ (paid[a] > 0 => Bought(a))
    BY <1>5 DEF IInv, PaidInv
  <2>2. Bought(a) => Bought(a)'
    BY <1>1, <1>4, <1>5 DEF Bought
  <2> QED  BY <2>1, <2>2
<1> QED  BY <1>8, <1>9, <1>10, <1>11 DEF IInv

-----------------------------------------------------------------------------
(* Transcripts: the routes.                                                *)

\* A request that goes on takes its own place.
LEMMA GoesInv ==
  ASSUME TypeOK, OnePost, NEW r \in posts,
         NEW to \in {"asked", "whisper", "done", "failed"}, Goes(r, to),
         UNCHANGED flying
  PROVE  /\ posts' \subseteq Post
         /\ OnePost'
         /\ \A q \in posts : q.of # r.of => q \in posts'
         /\ \E q \in posts' : q.of = r.of /\ q.at = to
<1> DEFINE new == [r EXCEPT !.at = to]
<1>1. r \in Post /\ posts \subseteq Post  BY DEF TypeOK, Post
<1>2. new \in Post /\ new.of = r.of /\ new.at = to  BY <1>1, GoesPost
<1>3. posts' = (posts \ {r}) \cup {new}  BY DEF Goes
<1> HIDE DEF new
<1>4. posts' \subseteq Post  BY <1>1, <1>2, <1>3
<1>5. \A q \in posts' : q.of \in flying'  BY <1>2, <1>3 DEF OnePost
<1>6. \A q, p \in posts' : q.of = p.of => q = p  BY <1>2, <1>3 DEF OnePost
<1>7. OnePost'  BY <1>5, <1>6 DEF OnePost
<1> QED  BY <1>2, <1>3, <1>4, <1>7

\* Whisper is only asked for an audio that has not been paid for.
LEMMA AskInv ==
  ASSUME IInv, NEW r \in posts, Ask(r)
  PROVE  IInv'
<1>1. /\ r.at = "asked"
      /\ UNCHANGED <<shown, text, status, runs, bulk, flying, saved, raw, unasked, dropped>>
  BY DEF Ask, view
<1>2. r \in Post /\ r.of \in Audios  BY DEF IInv, TypeOK, Post
<1>3. PICK to \in {"done", "whisper", "failed"} : Goes(r, to)
  BY DEF Ask
<1>4. /\ posts' \subseteq Post
      /\ OnePost'
      /\ \A q \in posts : q.of # r.of => q \in posts'
      /\ \E q \in posts' : q.of = r.of /\ q.at = to
  BY <1>1, <1>3, GoesInv DEF IInv
<1>5. /\ paid' \in [Audios -> Nat]
      /\ twice' \subseteq Audios /\ twice \subseteq twice'
      /\ faults' = faults \/ Fault
  BY <1>2 DEF IInv, TypeOK, Ask
<1>6. faults' \in 0 .. MaxFaults /\ (faults' = 0 => faults' = faults /\ faults = 0)
  BY <1>5, FaultType DEF IInv
<1>7. TypeOK'  BY <1>1, <1>4, <1>5, <1>6 DEF IInv, TypeOK, Post
<1>8. BulkInv'  BY <1>1 DEF IInv, BulkInv
<1>9. PaidInv'
  <2> SUFFICES ASSUME faults' = 0, NEW a \in Audios, a \notin twice'
               PROVE  paid'[a] <= 1 /\ (paid'[a] > 0 => Bought(a)')
    BY DEF PaidInv
  <2>1. a \notin twice /\ paid[a] <= 1 /\ (paid[a] > 0 => Bought(a))
    BY <1>5, <1>6 DEF IInv, PaidInv
  <2>2. ~Fault  BY <1>6, BoundsAreNumbers DEF Fault, IInv, TypeOK
  <2>3. CASE a # r.of
    <3>1. paid'[a] = paid[a]  BY <1>2, <2>3 DEF Ask, IInv, TypeOK
    <3>2. Bought(a) => Bought(a)'  BY <1>1, <1>4, <2>3 DEF Bought
    <3> QED  BY <2>1, <3>1, <3>2
  <2>4. CASE a = r.of /\ r.of \in saved
    <3>1. Bought(a)'  BY <1>1, <2>4 DEF Bought
    <3>2. paid' = paid  BY <2>2, <2>4 DEF Ask
    <3> QED  BY <2>1, <3>1, <3>2
  <2>5. CASE a = r.of /\ r.of \notin saved
    <3>1. /\ Goes(r, "whisper")
          /\ paid' = [paid EXCEPT ![r.of] = @ + 1]
          /\ twice' = twice \cup ({r.of} \cap raw)
      BY <2>2, <2>5 DEF Ask
    <3>2. a \notin saved \cup raw  BY <2>5, <3>1
    <3>3. \A q \in posts : q.of = a => q.at = "asked"
      BY <1>1, <2>5 DEF IInv, OnePost
    <3>4. paid[a] = 0  BY <2>1, <3>2, <3>3 DEF Bought, IInv, TypeOK
    <3>5. paid'[a] = 1  BY <2>5, <3>1, <3>4 DEF IInv, TypeOK
    <3>6. \E q \in posts' : q.of = a /\ q.at = "whisper"
      BY <1>1, <2>5, <3>1, GoesInv DEF IInv
    <3> QED  BY <3>5, <3>6 DEF Bought
  <2> QED  BY <2>3, <2>4, <2>5
<1> QED  BY <1>4, <1>7, <1>8, <1>9 DEF IInv

LEMMA TranscribedInv ==
  ASSUME IInv, NEW r \in posts, Transcribed(r)
  PROVE  IInv'
<1>1. /\ r.at = "whisper"
      /\ UNCHANGED <<shown, text, status, runs, bulk, flying, paid, raw, unasked,
                     dropped, twice>>
  BY DEF Transcribed, view, history
<1>2. r \in Post /\ r.of \in Audios  BY DEF IInv, TypeOK, Post
<1>3. PICK to \in {"done", "failed"} : Goes(r, to)
  BY DEF Transcribed
<1>4. /\ posts' \subseteq Post
      /\ OnePost'
      /\ \A q \in posts : q.of # r.of => q \in posts'
  BY <1>1, <1>3, GoesInv DEF IInv
<1>5. /\ saved' \subseteq Audios /\ saved \subseteq saved'
      /\ faults' = faults \/ Fault
  BY <1>2 DEF IInv, TypeOK, Transcribed
<1>6. faults' \in 0 .. MaxFaults /\ (faults' = 0 => faults' = faults /\ faults = 0)
  BY <1>5, FaultType DEF IInv
<1>7. TypeOK'  BY <1>1, <1>4, <1>5, <1>6 DEF IInv, TypeOK, Post
<1>8. BulkInv'  BY <1>1 DEF IInv, BulkInv
<1>9. PaidInv'
  <2> SUFFICES ASSUME faults' = 0, NEW a \in Audios, a \notin twice
               PROVE  paid[a] <= 1 /\ (paid[a] > 0 => Bought(a)')
    BY <1>1 DEF PaidInv
  <2>1. paid[a] <= 1 /\ (paid[a] > 0 => Bought(a))
    BY <1>6 DEF IInv, PaidInv
  <2>2. ~Fault  BY <1>6, BoundsAreNumbers DEF Fault, IInv, TypeOK
  <2>3. saved' = saved \cup {r.of}  BY <2>2 DEF Transcribed
  <2>4. CASE a = r.of  BY <2>1, <2>3, <2>4 DEF Bought
  <2>5. CASE a # r.of
    <3>1. Bought(a) => Bought(a)'  BY <1>1, <1>4, <1>5, <2>5 DEF Bought
    <3> QED  BY <2>1, <3>1
  <2> QED  BY <2>4, <2>5
<1> QED  BY <1>4, <1>7, <1>8, <1>9 DEF IInv

LEMMA RecordInv ==
  ASSUME IInv, NEW a \in Audios, Record(a)
  PROVE  IInv'
<1>1. /\ paid[a] = 0 /\ raw' = raw \cup {a}
      /\ paid' = [paid EXCEPT ![a] = @ + 1]
      /\ UNCHANGED <<shown, text, status, runs, bulk, flying, posts, saved, faults,
                     unasked, dropped, twice>>
  BY DEF Record, view, effect, history
<1>2. /\ paid' \in [Audios -> Nat]
      /\ paid'[a] = 1
      /\ \A x \in Audios : x # a => paid'[x] = paid[x]
  BY <1>1 DEF IInv, TypeOK
<1>3. TypeOK'  BY <1>1, <1>2 DEF IInv, TypeOK
<1>4. BulkInv' /\ OnePost'  BY <1>1 DEF IInv, BulkInv, OnePost
<1>5. PaidInv'
  <2> SUFFICES ASSUME faults = 0, NEW x \in Audios, x \notin twice
               PROVE  paid'[x] <= 1 /\ (paid'[x] > 0 => Bought(x)')
    BY <1>1 DEF PaidInv
  <2>1. CASE x = a  BY <1>1, <1>2, <2>1 DEF Bought
  <2>2. CASE x # a
    <3>1. paid[x] <= 1 /\ (paid[x] > 0 => Bought(x))  BY DEF IInv, PaidInv
    <3>2. Bought(x) => Bought(x)'  BY <1>1 DEF Bought
    <3> QED  BY <1>2, <2>2, <3>1, <3>2
  <2> QED  BY <2>1, <2>2
<1> QED  BY <1>3, <1>4, <1>5 DEF IInv

LEMMA RecordedInv ==
  ASSUME IInv, NEW a \in Audios, Recorded(a)
  PROVE  IInv'
<1>1. /\ raw' = raw \ {a}
      /\ UNCHANGED <<shown, text, status, runs, bulk, flying, posts, paid,
                     unasked, dropped, twice>>
  BY DEF Recorded, view, effect, history
<1>2. /\ saved' \subseteq Audios /\ saved \subseteq saved'
      /\ faults' = faults \/ Fault
  BY DEF IInv, TypeOK, Recorded
<1>3. faults' \in 0 .. MaxFaults /\ (faults' = 0 => faults' = faults /\ faults = 0)
  BY <1>2, FaultType DEF IInv
<1>4. TypeOK'  BY <1>1, <1>2, <1>3 DEF IInv, TypeOK
<1>5. BulkInv' /\ OnePost'  BY <1>1 DEF IInv, BulkInv, OnePost
<1>6. PaidInv'
  <2> SUFFICES ASSUME faults' = 0, NEW x \in Audios, x \notin twice
               PROVE  paid[x] <= 1 /\ (paid[x] > 0 => Bought(x)')
    BY <1>1 DEF PaidInv
  <2>1. paid[x] <= 1 /\ (paid[x] > 0 => Bought(x))
    BY <1>3 DEF IInv, PaidInv
  <2>2. ~Fault  BY <1>3, BoundsAreNumbers DEF Fault, IInv, TypeOK
  <2>3. saved' = saved \cup {a}  BY <2>2 DEF Recorded
  <2>4. Bought(x) => Bought(x)'  BY <1>1, <2>3 DEF Bought
  <2> QED  BY <2>1, <2>4
<1> QED  BY <1>4, <1>5, <1>6 DEF IInv

-----------------------------------------------------------------------------
(* Transcripts: its theorems.                                              *)

LEMMA InitInv == Init => IInv
<1> SUFFICES ASSUME Init PROVE IInv  OBVIOUS
<1>1. TypeOK
  <2>1. bulk \in [run : 0 .. MaxRuns, todo : SUBSET Audios]  BY IdleType DEF Init
  <2>2. runs \in 0 .. MaxRuns /\ faults \in 0 .. MaxFaults  BY BoundsAreNumbers DEF Init
  <2>3. paid \in [Audios -> Nat]  BY DEF Init
  <2> QED  BY <2>1, <2>2, <2>3 DEF Init, TypeOK
<1>2. BulkInv /\ OnePost  BY DEF Init, BulkInv, OnePost
<1>3. \A a \in Audios : paid[a] = 0  BY DEF Init
<1>4. PaidInv  BY <1>3 DEF PaidInv
<1> QED  BY <1>1, <1>2, <1>4 DEF IInv

LEMMA StutterInv == IInv /\ UNCHANGED vars => IInv'
<1> SUFFICES ASSUME IInv, UNCHANGED vars PROVE IInv'  OBVIOUS
<1>1. TypeOK'  BY DEF IInv, TypeOK, vars, view, effect, server, history
<1>2. BulkInv'  BY DEF IInv, BulkInv, vars, effect
<1>3. OnePost' /\ PaidInv'  BY PaidStill DEF IInv, vars, effect, server, history
<1> QED  BY <1>1, <1>2, <1>3 DEF IInv

LEMMA StepInv == IInv /\ [Next]_vars => IInv'
<1>1. ASSUME IInv, NEW a \in Audios, PostStep(a)  PROVE IInv'
  BY <1>1, AskInv, TranscribedInv, AnsweredInv DEF PostStep
<1> QED
  BY <1>1, ReplaceInv, ExtendInv, HydratedInv, RecordInv, RecordedInv, StutterInv DEF Next

\* The list, the effect's runs and the routes keep their types, for any number
\* of audios, runs and faults (useMessages.ts:393-495).
THEOREM TypeCorrect == Spec => []TypeOK
<1>1. IInv => TypeOK  BY DEF IInv
<1> QED  BY <1>1, InitInv, StepInv, PTL DEF Spec

\* However often the list changes while transcriptions are under way, no audio
\* is given to Whisper twice, but for the cases PaidOnce names
\* (useMessages.ts:439-495, api/transcribe/route.ts:27-83).
THEOREM AudioPaidOnce == Spec => []PaidOnce
<1>1. IInv => PaidOnce  BY DEF IInv, PaidInv, PaidOnce
<1> QED  BY <1>1, InitInv, StepInv, PTL DEF Spec


-----------------------------------------------------------------------------
(* Transcripts: nothing is forgotten.                                      *)

\* An audio has a request under way.
Asked(x) == \E r \in posts : r.of = x

\* A text on the list is accounted for, so that a run that leaves it out leaves
\* nothing behind; an audio in flight has its request.
AwaitInv ==
  /\ \A x \in text : status[x] \in {"completed", "failed"} \/ Asked(x) \/ x \in dropped
  /\ \A x \in flying : Asked(x)
  /\ AudiosAwaited

\* The list changes, and the effect sees it or not.
LEMMA ReplaceAwaits ==
  ASSUME IInv, AwaitInv, NEW s \in SUBSET Audios, Replace(s)
  PROVE  AwaitInv'
<1>1. /\ shown' = s /\ text' = {} /\ (unasked' \/ Run) /\ UNCHANGED <<flying, posts>>
  BY DEF Replace, Run, effect
<1>2. Run => bulk'.todo = shown' \ text'  BY DEF Run, Idle
<1> QED  BY <1>1, <1>2 DEF AwaitInv, AudiosAwaited, Asked

LEMMA ExtendAwaits ==
  ASSUME IInv, AwaitInv, NEW a \in Audios, Extend(a)
  PROVE  AwaitInv'
<1>1. /\ UNCHANGED <<text, status, dropped, flying, posts>>
      /\ bulk'.todo = shown' \ text'
  BY DEF Extend, Run, Idle
<1> QED  BY <1>1 DEF AwaitInv, AudiosAwaited, Asked

\* Who is not asked for has a request already.
LEMMA HydratedAwaits ==
  ASSUME IInv, AwaitInv, Hydrated
  PROVE  AwaitInv'
<1> DEFINE asked == bulk.todo \ flying
           new == [of : asked, run : {bulk.run}, at : {"asked"}]
<1>1. /\ posts' = posts \cup new
      /\ flying' = flying \cup asked
      /\ dropped' = dropped \ asked
      /\ UNCHANGED <<shown, unasked>>
  BY DEF Hydrated
<1>2. PICK hits \in {Stored, {}} :
        /\ text' = text \cup hits
        /\ status' = [a \in Audios |-> IF a \in asked \cap shown THEN "processing"
                                       ELSE IF a \in hits \ text THEN "completed" ELSE status[a]]
  BY DEF Hydrated
<1>3. \A x \in asked : \E r \in new : r.of = x
  <2> SUFFICES ASSUME NEW x \in asked  PROVE \E r \in new : r.of = x  OBVIOUS
  <2> WITNESS [of |-> x, run |-> bulk.run, at |-> "asked"] \in new
  <2> QED  OBVIOUS
<1>5. asked \subseteq bulk.todo /\ \A x \in bulk.todo : x \in asked \/ x \in flying  OBVIOUS
<1>6. /\ hits \subseteq shown /\ shown \subseteq Audios /\ text \subseteq shown
  BY <1>2 DEF Stored, IInv, TypeOK
<1> HIDE DEF asked, new
<1>4. \A x : Asked(x) \/ x \in asked => Asked(x)'
  BY <1>1, <1>3 DEF Asked
<1>7. \A x \in flying' : Asked(x)'  BY <1>1, <1>4 DEF AwaitInv
<1>8. \A x \in shown \ asked :
        status'[x] = IF x \in hits \ text THEN "completed" ELSE status[x]
  BY <1>2, <1>6
<1>9. \A x \in text' : status'[x] \in {"completed", "failed"} \/ Asked(x)' \/ x \in dropped'
  BY <1>1, <1>2, <1>4, <1>6, <1>8 DEF AwaitInv
<1>10. \A x \in shown' \ dropped' :
         unasked' \/ status'[x] \in {"completed", "failed"} \/ Asked(x)'
  BY <1>1, <1>4, <1>5, <1>8 DEF AwaitInv, AudiosAwaited, Asked
<1> QED  BY <1>7, <1>9, <1>10 DEF AwaitInv, AudiosAwaited, Asked

\* The answer settles its audio or is dropped, and no other request is its.
LEMMA AnsweredAwaits ==
  ASSUME IInv, AwaitInv, NEW r \in posts, Answered(r)
  PROVE  AwaitInv'
<1>1. /\ posts' = posts \ {r} /\ flying' = flying \ {r.of}
      /\ UNCHANGED <<shown, bulk, unasked>>
  BY DEF Answered
<1>2. PICK outcome \in {"done", "failed"} : Settle(r, outcome)
  BY DEF Answered
<1>3. \A x : Asked(x) /\ x # r.of => Asked(x)'  BY <1>1 DEF Asked
<1>4. \A x \in shown \ {r.of} : status'[x] = status[x]
  BY <1>2 DEF Settle, IInv, TypeOK
<1>5. r.of \in shown => status'[r.of] \in {"completed", "failed"} \/ r.of \in dropped'
  BY <1>2 DEF Settle, IInv, TypeOK
<1>6. dropped \subseteq dropped' /\ text' \subseteq text \cup ({r.of} \cap shown) /\ text \subseteq shown
  BY <1>2 DEF Settle, IInv, TypeOK
<1>7. \A x \in flying' : Asked(x)'  BY <1>1, <1>3 DEF AwaitInv
<1>8. \A x \in text' : status'[x] \in {"completed", "failed"} \/ Asked(x)' \/ x \in dropped'
  BY <1>3, <1>4, <1>5, <1>6 DEF AwaitInv
<1>9. AudiosAwaited'
  BY <1>1, <1>3, <1>4, <1>5, <1>6 DEF AwaitInv, AudiosAwaited, Asked
<1> QED  BY <1>7, <1>8, <1>9 DEF AwaitInv

\* The routes and the recordings leave every request where it was, or at its
\* next call.
LEMMA RoutesAwait ==
  ASSUME IInv, AwaitInv, UNCHANGED <<view, runs, bulk, flying, unasked, dropped>>,
         UNCHANGED posts \/ \E r \in posts, to \in {"whisper", "done", "failed"} : Goes(r, to)
  PROVE  AwaitInv'
<1>1. \A x : Asked(x) => Asked(x)'
  <2>1. CASE UNCHANGED posts  BY <2>1 DEF Asked
  <2>2. ASSUME NEW r \in posts, NEW to \in {"whisper", "done", "failed"}, Goes(r, to)
        PROVE  \A x : Asked(x) => Asked(x)'
    <3>1. [r EXCEPT !.at = to].of = r.of  BY DEF IInv, TypeOK
    <3> QED  BY <2>2, <3>1 DEF Goes, Asked
  <2> QED  BY <2>1, <2>2
<1> QED  BY <1>1 DEF AwaitInv, AudiosAwaited, Asked, view

LEMMA StepAwaits == IInv /\ AwaitInv /\ [Next]_vars => AwaitInv'
<1> SUFFICES ASSUME IInv, AwaitInv, [Next]_vars  PROVE AwaitInv'  OBVIOUS
<1>1. ASSUME NEW a \in Audios, PostStep(a)  PROVE AwaitInv'
  <2>1. PICK r \in posts : Ask(r) \/ Transcribed(r) \/ Answered(r)  BY <1>1 DEF PostStep
  <2>2. CASE Ask(r)  BY <2>2, RoutesAwait DEF Ask
  <2>3. CASE Transcribed(r)  BY <2>3, RoutesAwait DEF Transcribed, history
  <2> QED  BY <2>1, <2>2, <2>3, AnsweredAwaits
<1>2. ASSUME NEW a \in Audios, Record(a) \/ Recorded(a)  PROVE AwaitInv'
  BY <1>2, RoutesAwait DEF Record, Recorded, effect, history
<1>3. CASE UNCHANGED vars  BY <1>3, RoutesAwait DEF vars, effect, history
<1> QED  BY <1>1, <1>2, <1>3, ReplaceAwaits, ExtendAwaits, HydratedAwaits DEF Next

\* However often the list changes while its transcriptions are asked for, an audio shown is settled,
\* about to be asked for, or under way, but for the cases AudioSettles names
\* (useMessages.ts:394-498).
THEOREM NoAudioForgotten == Spec => []AudiosAwaited
<1>1. Init => AwaitInv  BY DEF Init, AwaitInv, AudiosAwaited
<1>2. AwaitInv => AudiosAwaited  BY DEF AwaitInv
<1> QED  BY <1>1, <1>2, InitInv, StepInv, StepAwaits, PTL DEF Spec


-----------------------------------------------------------------------------
(* Stars: its types.                                                       *)

ClickRec == [of : Messages, on : BOOLEAN, nr : 1 .. MaxClicks, served : BOOLEAN]

StarTypes ==
  /\ starred \subseteq starlist /\ starlist \subseteq Messages /\ stars \subseteq Messages
  /\ table \subseteq Messages /\ raced \subseteq Messages /\ wrong \subseteq Messages
  /\ hydrate \subseteq SUBSET Messages
  /\ clicks \subseteq ClickRec
  /\ clicked \in 0 .. MaxClicks
  /\ unapplied \in BOOLEAN

LEMMA StarParts == Star!TypeOK <=> StarTypes /\ faults \in 0 .. MaxFaults
BY DEF Star!TypeOK, StarTypes, ClickRec

LEMMA StarPartsNext == Star!TypeOK' <=> StarTypes' /\ faults' \in 0 .. MaxFaults
BY DEF Star!TypeOK, StarTypes, ClickRec

LEMMA StarFaults ==
  ASSUME faults \in 0 .. MaxFaults, Star!Fault \/ UNCHANGED faults
  PROVE  faults' \in 0 .. MaxFaults
BY BoundsAreNumbers DEF Star!Fault

LEMMA PutIs ==
  ASSUME NEW S, NEW m, NEW on \in BOOLEAN
  PROVE  /\ m \in Star!Put(S, m, on) <=> on
         /\ \A x : x # m => (x \in Star!Put(S, m, on) <=> x \in S)
BY DEF Star!Put

\* A click that is served is the same click.
LEMMA ServedClick ==
  ASSUME NEW r \in ClickRec
  PROVE  /\ [r EXCEPT !.served = TRUE] \in ClickRec
         /\ [r EXCEPT !.served = TRUE].of = r.of
         /\ [r EXCEPT !.served = TRUE].on = r.on
         /\ [r EXCEPT !.served = TRUE].served = TRUE
BY DEF ClickRec

\* What a click adds.
LEMMA NewClick ==
  ASSUME StarTypes, NEW m \in Messages, Star!Click(m)
  PROVE  \E r \in ClickRec :
           /\ r.of = m /\ ~r.served /\ (r.on <=> m \notin starred)
           /\ clicks' = clicks \cup {r}
           /\ stars' = Star!Put(stars, m, r.on) /\ starred' = Star!Put(starred, m, r.on)
<1> DEFINE r == [of |-> m, on |-> m \notin starred, nr |-> clicked', served |-> FALSE]
<1>1. clicked' \in 1 .. MaxClicks
  BY ClickBound DEF Star!Click, StarTypes
<1>2. r \in ClickRec  BY <1>1 DEF ClickRec
<1>3. r.of = m /\ ~r.served /\ (r.on <=> m \notin starred)  OBVIOUS
<1>4. /\ clicks' = clicks \cup {r}
      /\ stars' = Star!Put(stars, m, r.on) /\ starred' = Star!Put(starred, m, r.on)
  BY DEF Star!Click
<1> QED  BY <1>2, <1>3, <1>4

LEMMA StarTypeStep ==
  ASSUME Star!TypeOK, Star!Next
  PROVE  Star!TypeOK'
<1>0. StarTypes /\ faults \in 0 .. MaxFaults  BY StarParts
<1> USE <1>0
<1>1. CASE Star!Hydrate
  <2>1. StarTypes'  BY <1>1 DEF Star!Hydrate, StarTypes
  <2>2. faults' \in 0 .. MaxFaults  BY <1>1, StarFaults DEF Star!Hydrate
  <2> QED  BY <2>1, <2>2, StarPartsNext
<1>2. ASSUME NEW s \in SUBSET Messages, Star!Replace(s)  PROVE Star!TypeOK'
  <2>1. StarTypes'  BY <1>2 DEF Star!Replace, Star!Applied, StarTypes
  <2>2. faults' = faults  BY <1>2 DEF Star!Replace
  <2> QED  BY <2>1, <2>2, StarPartsNext
<1>3. ASSUME NEW m \in Messages, Star!Extend(m)  PROVE Star!TypeOK'
  <2>1. StarTypes'  BY <1>3 DEF Star!Extend, Star!Applied, StarTypes
  <2>2. faults' = faults  BY <1>3 DEF Star!Extend
  <2> QED  BY <2>1, <2>2, StarPartsNext
<1>4. ASSUME NEW m \in Messages, Star!Click(m)  PROVE Star!TypeOK'
  <2>1. PICK r \in ClickRec :
          /\ clicks' = clicks \cup {r}
          /\ stars' = Star!Put(stars, m, r.on) /\ starred' = Star!Put(starred, m, r.on)
    BY <1>4, NewClick
  <2>2. clicked' \in 0 .. MaxClicks  BY <1>4, ClickBound DEF Star!Click, StarTypes
  <2>3. m \in starlist /\ UNCHANGED <<starlist, table, hydrate, faults, unapplied, wrong>>
    BY <1>4 DEF Star!Click
  <2>4. raced' \subseteq Messages  BY <1>4 DEF Star!Click, StarTypes
  <2>5. stars' \subseteq Messages /\ starred' \subseteq starlist
    BY <2>1, <2>3 DEF StarTypes, Star!Put
  <2>6. StarTypes'  BY <2>1, <2>2, <2>3, <2>4, <2>5 DEF StarTypes
  <2> QED  BY <2>3, <2>6, StarPartsNext
<1>5. ASSUME NEW r \in clicks, Star!Serve(r)  PROVE Star!TypeOK'
  <2>1. r \in ClickRec /\ r.of \in Messages  BY DEF StarTypes, ClickRec
  <2>2. clicks' \subseteq ClickRec  BY <1>5, <2>1, ServedClick DEF Star!Serve, StarTypes
  <2>3. table' \subseteq Messages /\ wrong' \subseteq Messages
    BY <1>5, <2>1 DEF Star!Serve, StarTypes, Star!Put
  <2>4. StarTypes'  BY <1>5, <2>2, <2>3 DEF Star!Serve, StarTypes, Star!view
  <2>5. faults' \in 0 .. MaxFaults  BY <1>5, StarFaults DEF Star!Serve
  <2> QED  BY <2>4, <2>5, StarPartsNext
<1>6. ASSUME NEW r \in clicks, Star!Answer(r)  PROVE Star!TypeOK'
  <2>1. StarTypes'  BY <1>6 DEF Star!Answer, StarTypes, Star!view, Star!history
  <2>2. faults' = faults  BY <1>6 DEF Star!Answer
  <2> QED  BY <2>1, <2>2, StarPartsNext
<1>7. ASSUME NEW r \in clicks, Star!Break(r)  PROVE Star!TypeOK'
  <2>1. r.of \in Messages  BY DEF StarTypes, ClickRec
  <2>2. stars' \subseteq Messages /\ wrong' \subseteq Messages /\ starred' \subseteq starlist
    BY <1>7, <2>1 DEF Star!Break, StarTypes, Star!Put
  <2>3. StarTypes'  BY <1>7, <2>2 DEF Star!Break, StarTypes
  <2>4. faults' \in 0 .. MaxFaults  BY <1>7, StarFaults DEF Star!Break
  <2> QED  BY <2>3, <2>4, StarPartsNext
<1> QED  BY <1>1, <1>2, <1>3, <1>4, <1>5, <1>6, <1>7 DEF Star!Next

-----------------------------------------------------------------------------
(* Stars: its safety.                                                      *)

\* Until the stars of the session have come, those set were put by clicks that
\* count as raced, and the table is as it was for everybody else.
Unhydrated ==
  hydrate # {} =>
    /\ stars \cup starred \subseteq raced
    /\ \A r \in clicks : r.of \in raced
    /\ \A s \in hydrate, m \in Messages \ raced : m \in s <=> m \in table

\* A message that was not raced has one click under way at most.
OneClick == \A r, q \in clicks : r.of = q.of /\ r.of \notin raced => r = q

\* Where set and table stand for a message: together, or as far apart as its
\* click has got.
Agrees(m) ==
  /\ (\A r \in clicks : r.of # m) => (m \in stars <=> m \in table)
  /\ \A r \in clicks : r.of = m => /\ m \in stars <=> r.on
                                   /\ m \in table <=> (r.served <=> r.on)

SetAndTable == hydrate = {} => \A m \in Messages \ (raced \cup wrong) : Agrees(m)

StarInv == Unhydrated /\ OneClick /\ SetAndTable /\ Star!StarsShown

\* Stars counts as everybody does.
LEMMA StarCount == \A S : Star!Cardinality(S) = Cardinality(S)
BY DEF Star!Cardinality, Cardinality

\* The list.
LEMMA StarListStep ==
  ASSUME StarTypes, StarInv,
         (\E s \in SUBSET Messages : Star!Replace(s)) \/ (\E m \in Messages : Star!Extend(m))
  PROVE  StarInv'
<1>1. UNCHANGED <<stars, table, hydrate, clicks, raced, wrong>>
  BY DEF Star!Replace, Star!Extend
<1>2. CASE \E s \in SUBSET Messages : Star!Replace(s)
  <2>1. starred' \subseteq stars  BY <1>2 DEF Star!Replace, Star!Applied
  <2>2. ~unapplied' => starred' = starlist' \cap stars
    BY <1>2 DEF Star!Replace, Star!Applied
  <2>3. Unhydrated'  BY <1>1, <2>1 DEF StarInv, Unhydrated
  <2>4. Star!StarsShown'  BY <1>1, <2>2 DEF Star!StarsShown
  <2>5. OneClick' /\ SetAndTable'  BY <1>1 DEF StarInv, OneClick, SetAndTable, Agrees
  <2> QED  BY <2>3, <2>4, <2>5 DEF StarInv
<1>3. ASSUME NEW m \in Messages, Star!Extend(m)  PROVE StarInv'
  <2>1. IsFiniteSet(starlist)  BY FiniteMessages, FS_Subset DEF StarTypes
  <2>2. m \notin starlist /\ starlist' = starlist \cup {m}  BY <1>3 DEF Star!Extend
  <2>3. Cardinality(starlist') # Cardinality(starlist)
    <3>1. Cardinality(starlist') = Cardinality(starlist) + 1
      BY <2>1, <2>2, FS_AddElement
    <3>2. Cardinality(starlist) \in Nat  BY <2>1, FS_CardinalityType
    <3> QED  BY <3>1, <3>2
  <2>4. starred' = IF stars # {} THEN starlist' \cap stars ELSE starred
    BY <1>3, <2>3, StarCount DEF Star!Extend, Star!Applied
  <2>5. unapplied' = (unapplied /\ stars = {})  BY <1>3 DEF Star!Extend
  <2>6. Star!StarsShown'
    BY <1>1, <2>2, <2>4, <2>5 DEF StarInv, Star!StarsShown, StarTypes
  <2>7. Unhydrated'  BY <1>1, <2>4 DEF StarInv, Unhydrated
  <2>8. OneClick' /\ SetAndTable'  BY <1>1 DEF StarInv, OneClick, SetAndTable, Agrees
  <2> QED  BY <2>6, <2>7, <2>8 DEF StarInv
<1> QED  BY <1>2, <1>3

LEMMA StarHydrateStep ==
  ASSUME StarTypes, StarInv, Star!Hydrate
  PROVE  StarInv'
<1>1. /\ hydrate # {} /\ hydrate' = {}
      /\ UNCHANGED <<starlist, table, clicks, unapplied, raced>>
  BY DEF Star!Hydrate
<1>2. Unhydrated' /\ OneClick'  BY <1>1 DEF StarInv, Unhydrated, OneClick
<1>3. CASE UNCHANGED <<starred, stars>> /\ wrong' = Messages
  BY <1>1, <1>2, <1>3 DEF StarInv, SetAndTable, Star!StarsShown
<1>4. ASSUME NEW s \in hydrate \cup {table}, stars' = s,
             starred' = starred \cup (starlist \cap s), wrong' = wrong
      PROVE  StarInv'
  <2>1. SetAndTable'
    BY <1>1, <1>4 DEF StarInv, Unhydrated, SetAndTable, Agrees
  <2>2. Star!StarsShown'
    BY <1>1, <1>4 DEF StarInv, Unhydrated, Star!StarsShown
  <2> QED  BY <1>2, <2>1, <2>2 DEF StarInv
<1> QED  BY <1>3, <1>4 DEF Star!Hydrate

LEMMA StarClickStep ==
  ASSUME StarTypes, StarInv, NEW m \in Messages, Star!Click(m)
  PROVE  StarInv'
<1>1. PICK r \in ClickRec :
        /\ r.of = m /\ ~r.served /\ (r.on <=> m \notin starred)
        /\ clicks' = clicks \cup {r}
        /\ stars' = Star!Put(stars, m, r.on) /\ starred' = Star!Put(starred, m, r.on)
  BY NewClick
<1>2. r.on \in BOOLEAN  BY DEF ClickRec
<1>3. /\ m \in starlist /\ UNCHANGED <<starlist, table, hydrate, unapplied, wrong>>
      /\ raced' = IF hydrate # {} \/ unapplied \/ \E q \in clicks : q.of = m
                    THEN raced \cup {m} ELSE raced
  BY DEF Star!Click
<1>4. /\ m \in stars' <=> r.on
      /\ m \in starred' <=> r.on
      /\ \A x : x # m => (x \in stars' <=> x \in stars) /\ (x \in starred' <=> x \in starred)
  BY <1>1, <1>2, PutIs
<1>5. Unhydrated'  BY <1>1, <1>3, <1>4 DEF StarInv, Unhydrated
<1>6. OneClick'  BY <1>1, <1>3 DEF StarInv, OneClick
<1>7. Star!StarsShown'  BY <1>3, <1>4 DEF StarInv, Star!StarsShown
<1>8. SetAndTable'
  <2> SUFFICES ASSUME hydrate = {}, NEW x \in Messages, x \notin raced', x \notin wrong
               PROVE  Agrees(x)'
    BY <1>3 DEF SetAndTable
  <2>1. Agrees(x)  BY <1>3 DEF StarInv, SetAndTable
  <2>2. CASE x = m
    <3>1. ~unapplied /\ \A q \in clicks : q.of # m  BY <1>3, <2>2
    <3>2. m \notin raced  BY <1>3, <2>2
    <3>3. m \in starred <=> m \in stars
      BY <1>3, <3>1, <3>2 DEF StarInv, Star!StarsShown
    <3>4. m \in stars <=> m \in table  BY <2>1, <2>2, <3>1 DEF Agrees
    <3> QED  BY <1>1, <1>2, <1>3, <1>4, <2>2, <3>1, <3>3, <3>4 DEF Agrees
  <2>3. CASE x # m
    BY <1>1, <1>3, <1>4, <2>1, <2>3 DEF Agrees
  <2> QED  BY <2>2, <2>3
<1> QED  BY <1>5, <1>6, <1>7, <1>8 DEF StarInv

LEMMA StarServeStep ==
  ASSUME StarTypes, StarInv, NEW r \in clicks, Star!Serve(r)
  PROVE  StarInv'
<1>1. r \in ClickRec /\ r.of \in Messages /\ r.on \in BOOLEAN  BY DEF StarTypes, ClickRec
<1>2. PICK q \in ClickRec :
        /\ q.of = r.of /\ q.on = r.on /\ q.served /\ clicks' = (clicks \ {r}) \cup {q}
  BY <1>1, ServedClick DEF Star!Serve
<1>3. ~r.served /\ UNCHANGED <<starlist, starred, stars, hydrate, unapplied, raced>>
  BY DEF Star!Serve, Star!view
<1>4. /\ \A x : x # r.of => (x \in table' <=> x \in table) /\ (x \in wrong' <=> x \in wrong)
      /\ wrong \subseteq wrong'
      /\ r.of \notin wrong' => (r.of \in table' <=> r.on)
  BY <1>1, PutIs DEF Star!Serve
<1>5. Unhydrated'
  BY <1>2, <1>3, <1>4 DEF StarInv, Unhydrated
<1>6. OneClick'  BY <1>2, <1>3 DEF StarInv, OneClick
<1>7. Star!StarsShown'  BY <1>3 DEF StarInv, Star!StarsShown
<1>8. SetAndTable'
  <2> SUFFICES ASSUME hydrate = {}, NEW x \in Messages, x \notin raced, x \notin wrong'
               PROVE  Agrees(x)'
    BY <1>3 DEF SetAndTable
  <2>1. Agrees(x)  BY <1>4 DEF StarInv, SetAndTable
  <2>2. CASE x = r.of
    <3>1. \A p \in clicks' : p.of = x => p = q
      BY <1>2, <2>2 DEF StarInv, OneClick
    <3> QED  BY <1>1, <1>2, <1>3, <1>4, <2>1, <2>2, <3>1 DEF Agrees
  <2>3. CASE x # r.of
    BY <1>2, <1>3, <1>4, <2>1, <2>3 DEF Agrees
  <2> QED  BY <2>2, <2>3
<1> QED  BY <1>5, <1>6, <1>7, <1>8 DEF StarInv

\* A click ends: answered, or taken back.
LEMMA StarEndStep ==
  ASSUME StarTypes, StarInv, NEW r \in clicks, Star!Answer(r) \/ Star!Break(r)
  PROVE  StarInv'
<1>1. r \in ClickRec /\ r.of \in Messages /\ r.on \in BOOLEAN /\ r.served \in BOOLEAN
  BY DEF StarTypes, ClickRec
<1>2. clicks' = clicks \ {r} /\ UNCHANGED <<starlist, table, hydrate, unapplied, raced>>
  BY DEF Star!Answer, Star!Break, Star!view, Star!history
<1>3. CASE Star!Answer(r)
  <2>1. r.served /\ UNCHANGED <<stars, starred, wrong>>
    BY <1>3 DEF Star!Answer, Star!view, Star!history
  <2>2. Unhydrated' /\ OneClick' /\ Star!StarsShown'
    BY <1>2, <2>1 DEF StarInv, Unhydrated, OneClick, Star!StarsShown
  <2>3. SetAndTable'
    <3> SUFFICES ASSUME hydrate = {}, NEW x \in Messages, x \notin raced, x \notin wrong
                 PROVE  Agrees(x)'
      BY <1>2, <2>1 DEF SetAndTable
    <3>1. Agrees(x)  BY DEF StarInv, SetAndTable
    <3> QED  BY <1>1, <1>2, <2>1, <3>1 DEF Agrees
  <2> QED  BY <2>2, <2>3 DEF StarInv
<1>4. CASE Star!Break(r)
  <2>1. (~r.on) \in BOOLEAN  BY <1>1
  <2>2. /\ stars' = Star!Put(stars, r.of, ~r.on)
        /\ starred' = Star!Put(starred, r.of, ~r.on) \cap starlist
        /\ wrong' = IF r.served THEN wrong \cup {r.of} ELSE wrong
    BY <1>4 DEF Star!Break
  <2>3. /\ r.of \in stars' <=> ~r.on
        /\ r.of \in starlist => (r.of \in starred' <=> ~r.on)
        /\ \A x : x # r.of => x \in stars' <=> x \in stars
        /\ \A x \in starlist : x # r.of => (x \in starred' <=> x \in starred)
        /\ starred' \subseteq starred \cup {r.of}
    <3>1. /\ r.of \in Star!Put(stars, r.of, ~r.on) <=> ~r.on
          /\ \A x : x # r.of => (x \in Star!Put(stars, r.of, ~r.on) <=> x \in stars)
      BY <2>1, PutIs
    <3>2. /\ r.of \in Star!Put(starred, r.of, ~r.on) <=> ~r.on
          /\ \A x : x # r.of => (x \in Star!Put(starred, r.of, ~r.on) <=> x \in starred)
      BY <2>1, PutIs
    <3> QED  BY <2>2, <3>1, <3>2
  <2>4. Unhydrated'  BY <1>2, <2>3 DEF StarInv, Unhydrated
  <2>5. OneClick'  BY <1>2 DEF StarInv, OneClick
  <2>6. Star!StarsShown'  BY <1>2, <2>3 DEF StarInv, Star!StarsShown
  <2>7. SetAndTable'
    <3> SUFFICES ASSUME hydrate = {}, NEW x \in Messages, x \notin raced, x \notin wrong'
                 PROVE  Agrees(x)'
      BY <1>2 DEF SetAndTable
    <3>1. x \notin wrong /\ Agrees(x)  BY <2>2 DEF StarInv, SetAndTable
    <3>2. CASE x = r.of
      <4>1. ~r.served  BY <2>2, <3>2
      <4>2. \A p \in clicks' : p.of # x
        BY <1>2, <3>2 DEF StarInv, OneClick
      <4> QED  BY <1>1, <1>2, <2>3, <3>1, <3>2, <4>1, <4>2 DEF Agrees
    <3>3. CASE x # r.of  BY <1>2, <2>3, <3>1, <3>3 DEF Agrees
    <3> QED  BY <3>2, <3>3
  <2> QED  BY <2>4, <2>5, <2>6, <2>7 DEF StarInv
<1> QED  BY <1>3, <1>4

LEMMA StarStep ==
  ASSUME StarTypes, StarInv, Star!Next
  PROVE  StarInv'
BY StarListStep, StarHydrateStep, StarClickStep, StarServeStep, StarEndStep DEF Star!Next

\* The page opens.
LEMMA StarStart ==
  ASSUME Star!Init
  PROVE  Star!TypeOK /\ StarInv
<1>1. Star!TypeOK
  <2>1. 0 \in 0 .. MaxClicks /\ 0 \in 0 .. MaxFaults  BY BoundsAreNumbers, ClickBound
  <2>2. StarTypes  BY <2>1 DEF Star!Init, StarTypes
  <2>3. faults \in 0 .. MaxFaults  BY <2>1 DEF Star!Init
  <2> QED  BY <2>2, <2>3, StarParts
<1>2. StarInv
  BY DEF Star!Init, StarInv, Unhydrated, OneClick, SetAndTable, Star!StarsShown
<1> QED  BY <1>1, <1>2

\* Nothing in the invariant moves when no variable of the component does.
LEMMA StarStutter ==
  ASSUME Star!TypeOK, StarInv, UNCHANGED Star!vars
  PROVE  Star!TypeOK' /\ StarInv'
BY DEF Star!vars, Star!view, Star!history, Star!TypeOK, StarInv, Unhydrated, OneClick,
       SetAndTable, Agrees, Star!StarsShown

\* Stars held, stars shown and stars stored agree, whatever order clicks are
\* served in and whatever breaks, but for the messages with clicks that crossed
\* and those with a request that failed (useMessages.ts:275-392).
THEOREM StarsStayTrue == Star!Spec => []StarsAgree
<1>1. Star!Init => Star!TypeOK /\ StarInv  BY StarStart
<1>2. Star!TypeOK /\ StarInv /\ [Star!Next]_Star!vars => (Star!TypeOK /\ StarInv)'
  <2> SUFFICES ASSUME Star!TypeOK, StarInv, [Star!Next]_Star!vars
               PROVE  (Star!TypeOK /\ StarInv)'
    OBVIOUS
  <2>1. CASE Star!Next
    <3>1. StarTypes  BY StarParts
    <3> QED  BY <2>1, <3>1, StarTypeStep, StarStep
  <2>2. CASE UNCHANGED Star!vars  BY <2>2, StarStutter
  <2> QED  BY <2>1, <2>2
<1>3. StarInv => StarsAgree
  BY DEF StarInv, SetAndTable, Agrees, StarsAgree, Star!StarsAgree
<1> QED  BY <1>1, <1>2, <1>3, PTL DEF Star!Spec

-----------------------------------------------------------------------------
(* Dialogs: its safety.                                                    *)

\* A closed schedule dialog keeps an attachment at most; an open one lacks at
\* most the attachment that is being read.
FormKept ==
  /\ dialog # "schedule" => draft \subseteq {"file"}
  /\ dialog = "schedule" /\ "form" \notin disturbed
       => draft \subseteq chosen /\ chosen \subseteq draft \cup {"file"}

\* A summary that was neither late nor sent is that of the dialog now open.
SummaryKept ==
  "summary" \notin disturbed /\ summary # NoChat => dialog = "summary" /\ summary = selected

DialogInv == FormKept /\ SummaryKept /\ DialogsAreOfChat

\* Opening and closing.
LEMMA DialogOpens ==
  ASSUME DialogInv,
         \/ \E c \in Chats : Dialog!Select(c)
         \/ Dialog!OpenSchedule \/ Dialog!CloseSchedule
         \/ Dialog!OpenSummary \/ Dialog!CloseSummary
         \/ Dialog!OpenContacts \/ Dialog!CloseContacts
  PROVE  DialogInv'
<1> USE DEF DialogInv, FormKept, SummaryKept, DialogsAreOfChat, Dialog!DialogsAreOfChat,
            Dialog!RowsOf, Dialog!form, Dialog!panel
<1>1. ASSUME NEW c \in Chats, Dialog!Select(c)  PROVE DialogInv'
  BY <1>1 DEF Dialog!Select
<1>2. CASE Dialog!OpenSchedule
  <2>1. /\ dialog = "none" /\ dialog' = "schedule"
        /\ draft' = {} /\ chosen' = {}
        /\ UNCHANGED <<selected, scheduled, items, summary>>
    BY <1>2 DEF Dialog!OpenSchedule
  <2>2. /\ "summary" \in disturbed' <=> "summary" \in disturbed
        /\ "items" \notin disturbed' => items = Dialog!RowsOf(selected)
    BY <1>2 DEF Dialog!OpenSchedule
  <2> QED  BY <2>1, <2>2
<1>3. CASE Dialog!CloseSchedule  BY <1>3 DEF Dialog!CloseSchedule
<1>4. CASE Dialog!OpenSummary  BY <1>4 DEF Dialog!OpenSummary
<1>5. CASE Dialog!CloseSummary  BY <1>5 DEF Dialog!CloseSummary
<1>6. CASE Dialog!OpenContacts  BY <1>6 DEF Dialog!OpenContacts
<1>7. CASE Dialog!CloseContacts  BY <1>7 DEF Dialog!CloseContacts
<1> QED  BY <1>1, <1>2, <1>3, <1>4, <1>5, <1>6, <1>7

\* The clicks of the schedule dialog.
LEMMA DialogForm ==
  ASSUME DialogInv,
         \/ Dialog!RefreshToken \/ Dialog!Type \/ Dialog!Attach \/ Dialog!Detach
         \/ Dialog!Schedule \/ \E n \in Rows : Dialog!CancelRow(n)
  PROVE  DialogInv'
<1> USE DEF DialogInv, FormKept, SummaryKept, DialogsAreOfChat, Dialog!DialogsAreOfChat,
            Dialog!RowsOf, Dialog!form, Dialog!panel, Dialog!Send, Dialog!Ask, Dialog!Disturb
<1>1. CASE Dialog!RefreshToken
  BY <1>1 DEF Dialog!RefreshToken
<1>2. CASE Dialog!Type  BY <1>2 DEF Dialog!Type
<1>3. CASE Dialog!Attach  BY <1>3 DEF Dialog!Attach
<1>4. CASE Dialog!Detach  BY <1>4 DEF Dialog!Detach
<1>5. CASE Dialog!Schedule  BY <1>5 DEF Dialog!Schedule
<1>6. ASSUME NEW n \in Rows, Dialog!CancelRow(n)  PROVE DialogInv'
  BY <1>6 DEF Dialog!CancelRow
<1> QED  BY <1>1, <1>2, <1>3, <1>4, <1>5, <1>6

\* The clicks of the other two.
LEMMA DialogPanels ==
  ASSUME DialogInv,
         Dialog!Generate \/ Dialog!Again \/ Dialog!SendToChat \/ Dialog!SendContact
  PROVE  DialogInv'
BY DEF DialogInv, FormKept, SummaryKept, DialogsAreOfChat, Dialog!DialogsAreOfChat,
       Dialog!RowsOf, Dialog!form, Dialog!panel, Dialog!Send, Dialog!Ask, Dialog!Generate,
       Dialog!Again, Dialog!SendToChat, Dialog!SendContact

\* The answers, in whatever order they come.
LEMMA DialogAnswers ==
  ASSUME DialogInv, NEW kind, NEW click, Dialog!Answer(kind, click)
  PROVE  DialogInv'
<1> USE DEF DialogInv, FormKept, SummaryKept, DialogsAreOfChat, Dialog!DialogsAreOfChat,
            Dialog!RowsOf, Dialog!form, Dialog!panel, Dialog!Ask, Dialog!Disturb
<1>1. ASSUME NEW r, Dialog!Attached(r)  PROVE DialogInv'
  BY <1>1 DEF Dialog!Attached
<1>2. ASSUME NEW r, Dialog!Posted(r)  PROVE DialogInv'
  BY <1>2 DEF Dialog!Posted
<1>3. ASSUME NEW r, Dialog!Cancelled(r)  PROVE DialogInv'
  BY <1>3 DEF Dialog!Cancelled
<1>4. ASSUME NEW r, Dialog!Loaded(r)  PROVE DialogInv'
  BY <1>4 DEF Dialog!Loaded
<1>5. ASSUME NEW r, Dialog!Generated(r)  PROVE DialogInv'
  BY <1>5 DEF Dialog!Generated, Dialog!Summarised
<1>6. ASSUME NEW r, Dialog!SentToChat(r)  PROVE DialogInv'
  BY <1>6 DEF Dialog!SentToChat, Dialog!Summarised
<1>7. ASSUME NEW r, Dialog!ContactSent(r)  PROVE DialogInv'
  BY <1>7 DEF Dialog!ContactSent
<1> QED  BY <1>1, <1>2, <1>3, <1>4, <1>5, <1>6, <1>7 DEF Dialog!Answer

\* A dialog shows nothing of another conversation, whatever stays from the last
\* time and whichever answers are late, unless one of those has touched it
\* (ScheduleMessageModal.tsx:64-110, SummaryModal.tsx:37-98).
THEOREM DialogsStayWithTheirChat == Dialog!Spec => []DialogsAreOfChat
<1>1. Dialog!Init => DialogInv
  BY DEF Dialog!Init, DialogInv, FormKept, SummaryKept, DialogsAreOfChat,
         Dialog!DialogsAreOfChat
<1>2. DialogInv /\ [Dialog!Next]_Dialog!vars => DialogInv'
  <2> SUFFICES ASSUME DialogInv, [Dialog!Next]_Dialog!vars  PROVE DialogInv'
    OBVIOUS
  <2>1. CASE Dialog!Next
    BY <2>1, DialogOpens, DialogForm, DialogPanels, DialogAnswers
       DEF Dialog!Next, Dialog!Click
  <2>2. CASE UNCHANGED Dialog!vars
    BY <2>2 DEF Dialog!vars, Dialog!form, Dialog!panel, DialogInv, FormKept, SummaryKept,
                DialogsAreOfChat, Dialog!DialogsAreOfChat, Dialog!RowsOf
  <2> QED  BY <2>1, <2>2
<1>3. DialogInv => DialogsAreOfChat  BY DEF DialogInv
<1> QED  BY <1>1, <1>2, <1>3, PTL DEF Dialog!Spec

-----------------------------------------------------------------------------
(* Dialogs: nothing is waited for in vain.                                 *)

\* The requests that take the flags of the dialogs down.
Books(r) == r.click /\ r.kind \in {"post", "load"}

\* More requests, and no flag goes up by itself.
LEMMA DialogMore ==
  ASSUME Dialog!FlagsAwaited, requests \subseteq requests',
         busy' => busy \/ \E r \in requests' : Books(r),
         making' => making \/ \E r \in requests' : r.kind = "make",
         passing' => passing \/ \E r \in requests' : r.kind = "pass"
  PROVE  Dialog!FlagsAwaited'
BY DEF Dialog!FlagsAwaited, Books

LEMMA DialogClickAwaits ==
  ASSUME Dialog!FlagsAwaited, Dialog!Click
  PROVE  Dialog!FlagsAwaited'
<1> USE DEF Dialog!form, Dialog!panel
<1>1. CASE \/ \E c \in Chats : Dialog!Select(c)
           \/ Dialog!CloseSchedule \/ Dialog!OpenSummary \/ Dialog!CloseSummary
           \/ Dialog!OpenContacts \/ Dialog!CloseContacts
           \/ Dialog!Type \/ Dialog!Detach \/ Dialog!Again
  <2>1. requests' = requests /\ (busy' => busy) /\ (making' => making) /\ (passing' => passing)
    BY <1>1 DEF Dialog!Select, Dialog!CloseSchedule, Dialog!OpenSummary, Dialog!CloseSummary,
                Dialog!OpenContacts, Dialog!CloseContacts, Dialog!Type, Dialog!Detach, Dialog!Again
  <2> QED  BY <2>1, DialogMore
<1>2. CASE \/ Dialog!OpenSchedule \/ Dialog!RefreshToken \/ Dialog!Attach \/ Dialog!SendContact
           \/ \E n \in Rows : Dialog!CancelRow(n)
  <2>1. requests \subseteq requests' /\ UNCHANGED <<busy, making, passing>>
    BY <1>2 DEF Dialog!OpenSchedule, Dialog!RefreshToken, Dialog!Attach, Dialog!SendContact,
                Dialog!CancelRow, Dialog!Send
  <2> QED  BY <2>1, DialogMore
<1>3. CASE Dialog!Schedule
  <2>1. PICK r : r = Dialog!Ask("post", selected, draft, TRUE)  OBVIOUS
  <2>2. Books(r)  BY <2>1 DEF Books, Dialog!Ask
  <2>3. requests' = requests \cup {r} /\ UNCHANGED <<making, passing>>
    BY <1>3, <2>1 DEF Dialog!Schedule, Dialog!Send
  <2>4. r \in requests' /\ requests \subseteq requests'  BY <2>3
  <2> QED  BY <2>2, <2>3, <2>4, DialogMore
<1>4. CASE Dialog!Generate
  <2>1. PICK r : r = Dialog!Ask("make", selected, {}, TRUE)  OBVIOUS
  <2>2. r.kind = "make"  BY <2>1 DEF Dialog!Ask
  <2>3. requests' = requests \cup {r} /\ UNCHANGED <<busy, passing>>
    BY <1>4, <2>1 DEF Dialog!Generate, Dialog!Send
  <2>4. r \in requests' /\ requests \subseteq requests'  BY <2>3
  <2> QED  BY <2>2, <2>3, <2>4, DialogMore
<1>5. CASE Dialog!SendToChat
  <2>1. PICK r : r = Dialog!Ask("pass", selected, {}, TRUE)  OBVIOUS
  <2>2. r.kind = "pass"  BY <2>1 DEF Dialog!Ask
  <2>3. requests' = requests \cup {r} /\ UNCHANGED <<busy, making>>
    BY <1>5, <2>1 DEF Dialog!SendToChat, Dialog!Send
  <2>4. r \in requests' /\ requests \subseteq requests'  BY <2>3
  <2> QED  BY <2>2, <2>3, <2>4, DialogMore
<1> QED  BY <1>1, <1>2, <1>3, <1>4, <1>5 DEF Dialog!Click

\* An answer ends nothing that another flag waits for, and takes its own down -
\* but for the answer to a POST, which leaves its flag to the load after it.
LEMMA DialogAnswerAwaits ==
  ASSUME Dialog!FlagsAwaited, NEW kind, NEW click, Dialog!Answer(kind, click)
  PROVE  Dialog!FlagsAwaited'
<1> USE DEF Dialog!form, Dialog!panel
<1>0. ASSUME NEW r \in requests, requests \ {r} \subseteq requests',
             busy' => busy /\ (~Books(r) \/ \E q \in requests' : Books(q)),
             making' => making /\ r.kind # "make", passing' => passing /\ r.kind # "pass"
      PROVE  Dialog!FlagsAwaited'
  BY <1>0 DEF Dialog!FlagsAwaited, Books
<1>1. ASSUME NEW r, Dialog!Attached(r) \/ Dialog!Cancelled(r) \/ Dialog!ContactSent(r)
      PROVE  Dialog!FlagsAwaited'
  <2>1. /\ r \in requests /\ requests \ {r} \subseteq requests'
        /\ r.kind \in {"read", "cancel", "card"} /\ UNCHANGED <<busy, making, passing>>
    BY <1>1 DEF Dialog!Attached, Dialog!Cancelled, Dialog!ContactSent
  <2>2. ~Books(r) /\ r.kind \notin {"make", "pass"}  BY <2>1 DEF Books
  <2> QED  BY <1>0, <2>1, <2>2
<1>2. ASSUME NEW r, Dialog!Posted(r)  PROVE Dialog!FlagsAwaited'
  <2>1. /\ r \in requests /\ r.kind = "post" /\ UNCHANGED <<making, passing>>
    BY <1>2 DEF Dialog!Posted
  <2>2. PICK q : q = Dialog!Ask("load", r.chat, {}, TRUE)  OBVIOUS
  <2>3. Books(q)  BY <2>2 DEF Books, Dialog!Ask
  <2>4. \/ requests' = (requests \ {r}) \cup {q} /\ busy' = busy
        \/ requests' = requests \ {r} /\ busy' = FALSE
    BY <1>2, <2>2 DEF Dialog!Posted
  <2> QED  BY <1>0, <2>1, <2>3, <2>4
<1>3. ASSUME NEW r, Dialog!Loaded(r)  PROVE Dialog!FlagsAwaited'
  <2>1. /\ r \in requests /\ r.kind = "load" /\ requests' = requests \ {r}
        /\ busy' = (busy /\ ~r.click) /\ UNCHANGED <<making, passing>>
    BY <1>3 DEF Dialog!Loaded
  <2> QED  BY <1>0, <2>1 DEF Books
<1>4. ASSUME NEW r, Dialog!Generated(r)  PROVE Dialog!FlagsAwaited'
  <2>1. /\ r \in requests /\ r.kind = "make" /\ requests' = requests \ {r}
        /\ making' = FALSE /\ UNCHANGED <<busy, passing>>
    BY <1>4 DEF Dialog!Generated
  <2> QED  BY <1>0, <2>1 DEF Books
<1>5. ASSUME NEW r, Dialog!SentToChat(r)  PROVE Dialog!FlagsAwaited'
  <2>1. /\ r \in requests /\ r.kind = "pass" /\ requests' = requests \ {r}
        /\ passing' = FALSE /\ UNCHANGED <<busy, making>>
    BY <1>5 DEF Dialog!SentToChat
  <2> QED  BY <1>0, <2>1 DEF Books
<1> QED  BY <1>1, <1>2, <1>3, <1>4, <1>5 DEF Dialog!Answer

\* The schedule and summary dialogs never wait for a request that is not under
\* way, whatever was closed, opened or answered meanwhile
\* (ScheduleMessageModal.tsx:127-164, SummaryModal.tsx:37-98).
THEOREM DialogsWaitForAnswers == Dialog!Spec => []Dialog!FlagsAwaited
<1>1. Dialog!Init => Dialog!FlagsAwaited  BY DEF Dialog!Init, Dialog!FlagsAwaited
<1>2. Dialog!FlagsAwaited /\ [Dialog!Next]_Dialog!vars => Dialog!FlagsAwaited'
  <2>1. UNCHANGED Dialog!vars => UNCHANGED <<requests, busy, making, passing>>
    BY DEF Dialog!vars, Dialog!form, Dialog!panel
  <2> QED  BY <2>1, DialogMore, DialogClickAwaits, DialogAnswerAwaits DEF Dialog!Next
<1> QED  BY <1>1, <1>2, PTL DEF Dialog!Spec

-----------------------------------------------------------------------------
(* ChatView: its operators on lists.                                       *)

LEMMA ViewCount == \A S : View!Cardinality(S) = Cardinality(S)
BY DEF View!Cardinality, Cardinality

LEMMA Least ==
  ASSUME NEW T, T \subseteq Nat, T # {}
  PROVE  \E n \in T : \A m \in T : n <= m
<1>1. PICK n \in T : \A m \in T : ~ (<<m, n>> \in OpToRel(<, Nat))
  BY NatLessThanWellFounded, WFMin
<1>2. ASSUME NEW m \in T  PROVE n <= m
  <2>1. m \in Nat /\ n \in Nat  OBVIOUS
  <2>2. ~(m < n)  BY <1>1, <2>1 DEF OpToRel
  <2> QED  BY <2>1, <2>2
<1> QED  BY <1>2

\* An enumeration of s in the order of its keys.
Ordered(s, key, q) ==
  /\ q \in [1 .. Cardinality(s) -> s]
  /\ \A i, j \in 1 .. Cardinality(s) : i < j => q[i] # q[j] /\ key[q[i]] <= key[q[j]]

\* The one with the least key goes before the others.
LEMMA OrderedGrows ==
  ASSUME NEW s, IsFiniteSet(s), NEW key, NEW m \in s, key[m] \in Nat,
         \A x \in s : key[x] \in Nat /\ key[m] <= key[x],
         NEW q, Ordered(s \ {m}, key, q)
  PROVE  \E p : Ordered(s, key, p)
<1> DEFINE n == Cardinality(s)
           p == [i \in 1 .. n |-> IF i = 1 THEN m ELSE q[i - 1]]
<1>1. n \in Nat \ {0} /\ Cardinality(s \ {m}) = n - 1
  BY FS_CardinalityType, FS_EmptySet, FS_RemoveElement
<1>2. \A i \in 1 .. n : i # 1 => i - 1 \in 1 .. n - 1  BY <1>1
<1>3. \A i \in 1 .. n - 1 : q[i] \in s \ {m}  BY <1>1 DEF Ordered
<1>4. \A i \in 1 .. n : p[i] \in s  BY <1>2, <1>3
<1>5. p \in [1 .. n -> s]  BY <1>4
<1>6. ASSUME NEW i \in 1 .. n, NEW j \in 1 .. n, i < j
      PROVE  p[i] # p[j] /\ key[p[i]] <= key[p[j]]
  <2>1. j # 1 /\ p[j] = q[j - 1] /\ j - 1 \in 1 .. n - 1  BY <1>1, <1>2, <1>6
  <2>2. CASE i = 1
    <3>1. p[i] = m  BY <2>2
    <3>2. p[j] \in s \ {m}  BY <1>3, <2>1
    <3> QED  BY <3>1, <3>2
  <2>3. CASE i # 1
    <3>1. p[i] = q[i - 1] /\ i - 1 \in 1 .. n - 1  BY <1>2, <2>3
    <3>2. i - 1 < j - 1  BY <1>1, <1>6
    <3> HIDE DEF p
    <3> QED  BY <1>1, <2>1, <3>1, <3>2 DEF Ordered
  <2> QED  BY <2>2, <2>3
<1> HIDE DEF p
<1> QED  BY <1>5, <1>6 DEF Ordered

\* There is one for every finite set: the smallest set without one would have
\* an element of least key, and be smaller without it.
LEMMA OrderedExists ==
  ASSUME NEW S, IsFiniteSet(S), NEW key, \A x \in S : key[x] \in Nat
  PROVE  \E q : Ordered(S, key, q)
<1> DEFINE Bad == {n \in Nat : \E s \in SUBSET S : Cardinality(s) = n
                                                   /\ ~ \E q : Ordered(s, key, q)}
<1>1. ASSUME Bad # {}  PROVE FALSE
  <2>1. PICK n \in Bad : \A k \in Bad : n <= k
    <3>1. Bad \subseteq Nat  OBVIOUS
    <3> HIDE DEF Bad
    <3> QED  BY <1>1, <3>1, Least
  <2>2. PICK s \in SUBSET S : Cardinality(s) = n /\ ~ \E q : Ordered(s, key, q)
    OBVIOUS
  <2>3. IsFiniteSet(s)  BY FS_Subset
  <2>4. s # {}
    <3>1. SUFFICES ASSUME s = {}  PROVE FALSE  OBVIOUS
    <3>2. Cardinality(s) = 0  BY <3>1, FS_EmptySet
    <3>3. [i \in 1 .. 0 |-> 0] \in [1 .. 0 -> s]  OBVIOUS
    <3>4. Ordered(s, key, [i \in 1 .. 0 |-> 0])  BY <3>2, <3>3 DEF Ordered
    <3> QED  BY <2>2, <3>4
  <2>5. PICK m \in s : \A x \in s : key[m] <= key[x]
    <3> DEFINE K == {key[x] : x \in s}
    <3>1. K \subseteq Nat /\ K # {}  BY <2>4
    <3>2. PICK k \in K : \A j \in K : k <= j
      <4> HIDE DEF K
      <4> QED  BY <3>1, Least
    <3>3. PICK m \in s : key[m] = k  OBVIOUS
    <3> QED  BY <3>2, <3>3
  <2>6. Cardinality(s \ {m}) = n - 1 /\ n \in Nat \ {0}
    BY <2>2, <2>3, <2>4, FS_RemoveElement, FS_EmptySet, FS_CardinalityType
  <2>7. n - 1 \notin Bad  BY <2>1, <2>6
  <2>8. \E q : Ordered(s \ {m}, key, q)
    <3>1. s \ {m} \in SUBSET S /\ n - 1 \in Nat  BY <2>6
    <3> QED  BY <2>6, <2>7, <3>1
  <2> QED  BY <2>2, <2>3, <2>5, <2>8, OrderedGrows
<1>2. Cardinality(S) \in Nat  BY FS_CardinalityType
<1> QED  BY <1>1, <1>2

LEMMA InOrderIs ==
  ASSUME NEW s, IsFiniteSet(s), NEW key, \A x \in s : key[x] \in Nat
  PROVE  Ordered(s, key, View!InOrder(s, key))
<1>1. PICK q : Ordered(s, key, q)  BY OrderedExists
<1> DEFINE P(p) == \A i, j \in DOMAIN p : i < j => p[i] # p[j] /\ key[p[i]] <= key[p[j]]
<1>2. q \in [1 .. Cardinality(s) -> s] /\ P(q)  BY <1>1 DEF Ordered
<1>3. View!InOrder(s, key) = CHOOSE p \in [1 .. Cardinality(s) -> s] : P(p)
  BY ViewCount DEF View!InOrder
<1>4. View!InOrder(s, key) \in [1 .. Cardinality(s) -> s] /\ P(View!InOrder(s, key))
  <2> HIDE DEF P
  <2> QED  BY <1>2, <1>3
<1> QED  BY <1>4 DEF Ordered

\* k is what is left of l of the elements of T, f where it was.
Picks(l, T, k, f) ==
  /\ f \in [1 .. Len(k) -> 1 .. Len(l)]
  /\ \A i, j \in 1 .. Len(k) : i < j => f[i] < f[j]
  /\ \A i \in 1 .. Len(k) : k[i] = l[f[i]] /\ k[i] \in T
  /\ \A i \in 1 .. Len(l) : l[i] \in T => \E x \in 1 .. Len(k) : f[x] = i

LEMMA KeptIs ==
  ASSUME NEW S, NEW l \in Seq(S), NEW T
  PROVE  /\ View!Kept(l, T) \in Seq(S)
         /\ \E f : Picks(l, T, View!Kept(l, T), f)
<1> DEFINE I == {i \in DOMAIN l : l[i] \in T}
           n == Cardinality(I)
           key == [i \in I |-> i]
           f == View!InOrder(I, key)
           k == [x \in 1 .. n |-> l[f[x]]]
<1>1. DOMAIN l = 1 .. Len(l) /\ Len(l) \in Nat  BY LenProperties
<1>2. IsFiniteSet(I)
  <2>1. IsFiniteSet(1 .. Len(l))  BY <1>1, FS_Interval
  <2> QED  BY <1>1, <2>1, FS_Subset
<1>3. n \in Nat  BY <1>2, FS_CardinalityType
<1>4. Ordered(I, key, f)
  <2>1. \A x \in I : key[x] \in Nat  BY <1>1
  <2> HIDE DEF I, key
  <2> QED  BY <1>2, <2>1, InOrderIs
<1>5. f \in [1 .. n -> I] /\ \A i, j \in 1 .. n : i < j => f[i] < f[j]
  <2>1. f \in [1 .. n -> I]  BY <1>4 DEF Ordered
  <2>2. ASSUME NEW i \in 1 .. n, NEW j \in 1 .. n, i < j  PROVE f[i] < f[j]
    <3>1. f[i] \in I /\ f[j] \in I  BY <2>1
    <3>2. key[f[i]] = f[i] /\ key[f[j]] = f[j]  BY <3>1
    <3>3. f[i] # f[j] /\ key[f[i]] <= key[f[j]]  BY <1>4, <2>2 DEF Ordered
    <3>4. f[i] \in Nat /\ f[j] \in Nat  BY <1>1, <3>1
    <3> HIDE DEF f, key
    <3> QED  BY <3>2, <3>3, <3>4
  <2> QED  BY <2>1, <2>2
<1>6. View!Kept(l, T) = k  BY ViewCount DEF View!Kept
<1>7. k \in Seq(S) /\ Len(k) = n
  <2>1. \A x \in 1 .. n : l[f[x]] \in S
    <3>1. \A x \in 1 .. n : f[x] \in 1 .. Len(l)  BY <1>1, <1>5
    <3> HIDE DEF f
    <3> QED  BY <3>1, ElementOfSeq
  <2> HIDE DEF f, n
  <2> QED  BY <1>3, <2>1
<1>8. \A i \in I : \E x \in 1 .. n : f[x] = i
  <2>1. f \in Injection(1 .. n, I)
    <3>1. ASSUME NEW x \in 1 .. n, NEW y \in 1 .. n, x # y  PROVE f[x] # f[y]
      <4>1. x < y \/ y < x  BY <1>3, <3>1
      <4>2. f[x] \in Nat /\ f[y] \in Nat  BY <1>1, <1>5
      <4>3. x < y => f[x] < f[y]  BY <1>5
      <4>4. y < x => f[y] < f[x]  BY <1>5
      <4> HIDE DEF f, n
      <4> QED  BY <4>1, <4>2, <4>3, <4>4
    <3> QED  BY <1>5, <3>1 DEF Injection, IsInjective
  <2>2. Cardinality(1 .. n) = n  BY <1>3, FS_Interval
  <2>3. f \in Surjection(1 .. n, I)
    <3> HIDE DEF f, I
    <3> QED  BY <1>2, <2>1, <2>2, FS_Injection
  <2> QED  BY <2>3 DEF Surjection
<1>9. Picks(l, T, k, f)
  <2>1. \A x \in 1 .. n : f[x] \in 1 .. Len(l) /\ l[f[x]] \in T  BY <1>1, <1>5
  <2>2. f \in [1 .. n -> 1 .. Len(l)]  BY <1>5, <2>1
  <2>3. \A x \in 1 .. n : k[x] = l[f[x]]  OBVIOUS
  <2>4. \A i \in 1 .. Len(l) : l[i] \in T => i \in I  BY <1>1
  <2> HIDE DEF k, f, n, I
  <2> QED  BY <1>5, <1>7, <1>8, <2>1, <2>2, <2>3, <2>4 DEF Picks
<1> HIDE DEF k, f
<1> QED  BY <1>6, <1>7, <1>9

-----------------------------------------------------------------------------
(* ChatView: lists in order.                                               *)

StoredIn(l) == {i \in 1 .. Len(l) : l[i] \in Messages}

\* What is of the store is ascending, and what is not in d is there once.
Orderly(l, d) ==
  \A i, j \in StoredIn(l) : i < j => At[l[i]] <= At[l[j]] /\ (l[i] = l[j] => l[i] \in d)

\* What is of the store is of chat c.
OfChat(l, c) == \A i \in StoredIn(l) : ChatOf[l[i]] = c

\* k is a part of l, in the order of l.
PartOf(k, l) ==
  \E f \in [1 .. Len(k) -> 1 .. Len(l)] :
    /\ \A i, j \in 1 .. Len(k) : i < j => f[i] < f[j]
    /\ \A i \in 1 .. Len(k) : k[i] = l[f[i]]

LEMMA PartIs ==
  ASSUME NEW k, NEW l, PartOf(k, l)
  PROVE  /\ \A d : Orderly(l, d) => Orderly(k, d)
         /\ \A c : OfChat(l, c) => OfChat(k, c)
         /\ \A i \in StoredIn(k) : \E j \in StoredIn(l) : k[i] = l[j]
<1>1. PICK f \in [1 .. Len(k) -> 1 .. Len(l)] :
        /\ \A i, j \in 1 .. Len(k) : i < j => f[i] < f[j]
        /\ \A i \in 1 .. Len(k) : k[i] = l[f[i]]
  BY DEF PartOf
<1>2. \A i \in StoredIn(k) : f[i] \in StoredIn(l) /\ k[i] = l[f[i]] /\ i \in 1 .. Len(k)
  BY <1>1 DEF StoredIn
<1>3. ASSUME NEW d, Orderly(l, d)  PROVE Orderly(k, d)
  BY <1>1, <1>2, <1>3 DEF Orderly
<1>4. ASSUME NEW c, OfChat(l, c)  PROVE OfChat(k, c)
  BY <1>2, <1>4 DEF OfChat
<1> QED  BY <1>2, <1>3, <1>4

LEMMA KeptPart ==
  ASSUME NEW S, NEW l \in Seq(S), NEW T
  PROVE  View!Kept(l, T) \in Seq(S) /\ PartOf(View!Kept(l, T), l)
<1>1. PICK f : Picks(l, T, View!Kept(l, T), f)  BY KeptIs
<1>2. PartOf(View!Kept(l, T), l)  BY <1>1 DEF Picks, PartOf
<1> QED  BY <1>2, KeptIs

Precedes(k, l) ==
  \A i \in StoredIn(k), j \in StoredIn(l) : At[k[i]] <= At[l[j]] /\ k[i] # l[j]

\* A list before another that it goes with.
LEMMA ConcatIs ==
  ASSUME NEW S, NEW k \in Seq(S), NEW l \in Seq(S)
  PROVE  /\ k \o l \in Seq(S)
         /\ \A c : OfChat(k, c) /\ OfChat(l, c) => OfChat(k \o l, c)
         /\ \A i \in StoredIn(k \o l) : \/ \E j \in StoredIn(k) : (k \o l)[i] = k[j]
                                      \/ \E j \in StoredIn(l) : (k \o l)[i] = l[j]
         /\ \A d : Orderly(k, d) /\ Orderly(l, d) /\ Precedes(k, l) => Orderly(k \o l, d)
<1> DEFINE kl == k \o l
<1>1. /\ kl \in Seq(S) /\ Len(kl) = Len(k) + Len(l)
      /\ Len(k) \in Nat /\ Len(l) \in Nat
      /\ \A i \in 1 .. Len(k) + Len(l) :
           kl[i] = IF i <= Len(k) THEN k[i] ELSE l[i - Len(k)]
  BY ConcatProperties, LenProperties
<1>2. \A i \in StoredIn(kl) :
        IF i <= Len(k) THEN i \in StoredIn(k) /\ kl[i] = k[i]
        ELSE i - Len(k) \in StoredIn(l) /\ kl[i] = l[i - Len(k)]
  <2> HIDE DEF kl
  <2> QED  BY <1>1 DEF StoredIn
<1> HIDE DEF kl
<1>3. ASSUME NEW d, Orderly(k, d), Orderly(l, d), Precedes(k, l)
      PROVE  Orderly(kl, d)
  <2> SUFFICES ASSUME NEW i \in StoredIn(kl), NEW j \in StoredIn(kl), i < j
               PROVE  At[kl[i]] <= At[kl[j]] /\ (kl[i] = kl[j] => kl[i] \in d)
    BY DEF Orderly
  <2>0. i \in Nat /\ j \in Nat  BY <1>1 DEF StoredIn
  <2>1. CASE i <= Len(k) /\ j <= Len(k)  BY <1>2, <1>3, <2>1 DEF Orderly
  <2>2. CASE i <= Len(k) /\ ~(j <= Len(k))  BY <1>2, <1>3, <2>2 DEF Precedes
  <2>3. CASE ~(i <= Len(k))
    <3>1. ~(j <= Len(k)) /\ i - Len(k) < j - Len(k)  BY <1>1, <2>0, <2>3
    <3> QED  BY <1>2, <1>3, <2>3, <3>1 DEF Orderly
  <2> QED  BY <2>1, <2>2, <2>3
<1>4. ASSUME NEW c, OfChat(k, c), OfChat(l, c)  PROVE OfChat(kl, c)
  BY <1>2, <1>4 DEF OfChat
<1>5. \A i \in StoredIn(kl) : \/ \E j \in StoredIn(k) : kl[i] = k[j]
                             \/ \E j \in StoredIn(l) : kl[i] = l[j]
  BY <1>2
<1>6. kl = k \o l  BY DEF kl
<1> QED  BY <1>1, <1>3, <1>4, <1>5, <1>6

\* A message of the page's own at the end.
LEMMA AppendOwn ==
  ASSUME NEW l \in Seq(View!Ids), NEW x \in Locals
  PROVE  /\ Append(l, x) \in Seq(View!Ids)
         /\ \A c : OfChat(l, c) => OfChat(Append(l, x), c)
         /\ \A i \in StoredIn(Append(l, x)) : \E j \in StoredIn(l) : Append(l, x)[i] = l[j]
         /\ \A d : Orderly(l, d) => Orderly(Append(l, x), d)
<1>1. x \in View!Ids /\ x \notin Messages  BY LocalsAreNone DEF View!Ids
<1>2. /\ Append(l, x) \in Seq(View!Ids) /\ Len(Append(l, x)) = Len(l) + 1 /\ Len(l) \in Nat
      /\ \A i \in 1 .. Len(l) : Append(l, x)[i] = l[i]
      /\ Append(l, x)[Len(l) + 1] = x
  BY <1>1, AppendProperties, LenProperties
<1>3. \A i \in StoredIn(Append(l, x)) : i \in StoredIn(l) /\ Append(l, x)[i] = l[i]
  <2> SUFFICES ASSUME NEW i \in StoredIn(Append(l, x))
               PROVE  i \in StoredIn(l) /\ Append(l, x)[i] = l[i]
    OBVIOUS
  <2>1. i \in 1 .. Len(l) + 1 /\ Append(l, x)[i] \in Messages  BY <1>2 DEF StoredIn
  <2>2. i # Len(l) + 1  BY <1>1, <1>2, <2>1
  <2>3. i \in 1 .. Len(l)  BY <1>2, <2>1, <2>2
  <2> QED  BY <1>2, <2>1, <2>3 DEF StoredIn
<1>4. ASSUME NEW d, Orderly(l, d)  PROVE Orderly(Append(l, x), d)
  BY <1>3, <1>4 DEF Orderly
<1>5. ASSUME NEW c, OfChat(l, c)  PROVE OfChat(Append(l, x), c)
  BY <1>3, <1>5 DEF OfChat
<1> QED  BY <1>2, <1>3, <1>4, <1>5

\* What is taken out, and put in.
LEMMA RemovedIs ==
  ASSUME NEW S, NEW l \in Seq(S), NEW i \in 1 .. Len(l)
  PROVE  /\ View!RemoveAt(l, i) \in Seq(S) /\ Len(View!RemoveAt(l, i)) = Len(l) - 1
         /\ \A x \in 1 .. Len(l) - 1 : View!RemoveAt(l, i)[x] = IF x < i THEN l[x] ELSE l[x + 1]
<1> DEFINE s1 == SubSeq(l, 1, i - 1)
           s2 == SubSeq(l, i + 1, Len(l))
<1>1. Len(l) \in Nat /\ \A x \in 1 .. Len(l) : l[x] \in S  BY LenProperties, ElementOfSeq
<1>2. /\ s1 \in Seq(S) /\ Len(s1) = i - 1
      /\ \A x \in 1 .. i - 1 : s1[x] = l[x]
  <2>1. \A x \in 1 .. i - 1 : l[x] \in S  BY <1>1
  <2>2. /\ s1 \in Seq(S) /\ Len(s1) = IF 1 <= i - 1 THEN i - 1 - 1 + 1 ELSE 0
        /\ \A x \in 1 .. i - 1 - 1 + 1 : s1[x] = l[1 + x - 1]
    <3> HIDE DEF s1
    <3> QED  BY <1>1, <2>1, SubSeqProperties DEF s1
  <2> HIDE DEF s1
  <2> QED  BY <1>1, <2>2
<1>3. /\ s2 \in Seq(S) /\ Len(s2) = Len(l) - i
      /\ \A x \in 1 .. Len(l) - i : s2[x] = l[i + x]
  <2>1. \A x \in i + 1 .. Len(l) : l[x] \in S  BY <1>1
  <2>2. /\ s2 \in Seq(S) /\ Len(s2) = IF i + 1 <= Len(l) THEN Len(l) - (i + 1) + 1 ELSE 0
        /\ \A x \in 1 .. Len(l) - (i + 1) + 1 : s2[x] = l[i + 1 + x - 1]
    <3> HIDE DEF s2
    <3> QED  BY <1>1, <2>1, SubSeqProperties DEF s2
  <2> HIDE DEF s2
  <2> QED  BY <1>1, <2>2
<1>4. View!RemoveAt(l, i) = s1 \o s2  BY DEF View!RemoveAt
<1> HIDE DEF s1, s2
<1>5. /\ s1 \o s2 \in Seq(S) /\ Len(s1 \o s2) = Len(s1) + Len(s2)
      /\ \A x \in 1 .. Len(s1) + Len(s2) :
           (s1 \o s2)[x] = IF x <= Len(s1) THEN s1[x] ELSE s2[x - Len(s1)]
  BY <1>2, <1>3, ConcatProperties
<1>6. ASSUME NEW x \in 1 .. Len(l) - 1
      PROVE  (s1 \o s2)[x] = IF x < i THEN l[x] ELSE l[x + 1]
  <2>1. x \in 1 .. Len(s1) + Len(s2)  BY <1>1, <1>2, <1>3
  <2>2. CASE x < i  BY <1>1, <1>2, <1>5, <2>1, <2>2
  <2>3. CASE ~(x < i)
    <3>1. x - Len(s1) \in 1 .. Len(l) - i /\ i + (x - Len(s1)) = x + 1  BY <1>1, <1>2, <2>3
    <3>2. ~(x <= Len(s1))  BY <1>1, <1>2, <2>3
    <3> QED  BY <1>3, <1>5, <2>1, <2>3, <3>1, <3>2
  <2> QED  BY <2>2, <2>3
<1> QED  BY <1>1, <1>2, <1>3, <1>4, <1>5, <1>6

LEMMA InsertedIs ==
  ASSUME NEW S, NEW l \in Seq(S), NEW i \in 1 .. Len(l) + 1, NEW m \in S
  PROVE  /\ View!InsertAt(l, i, m) \in Seq(S) /\ Len(View!InsertAt(l, i, m)) = Len(l) + 1
         /\ \A x \in 1 .. Len(l) + 1 :
              View!InsertAt(l, i, m)[x] = IF x < i THEN l[x] ELSE IF x = i THEN m ELSE l[x - 1]
<1> DEFINE s1 == SubSeq(l, 1, i - 1)
           s2 == SubSeq(l, i, Len(l))
           s0 == s1 \o <<m>>
<1>1. Len(l) \in Nat /\ \A x \in 1 .. Len(l) : l[x] \in S  BY LenProperties, ElementOfSeq
<1>2. /\ s1 \in Seq(S) /\ Len(s1) = i - 1
      /\ \A x \in 1 .. i - 1 : s1[x] = l[x]
  <2>1. \A x \in 1 .. i - 1 : l[x] \in S  BY <1>1
  <2>2. /\ s1 \in Seq(S) /\ Len(s1) = IF 1 <= i - 1 THEN i - 1 - 1 + 1 ELSE 0
        /\ \A x \in 1 .. i - 1 - 1 + 1 : s1[x] = l[1 + x - 1]
    <3> HIDE DEF s1
    <3> QED  BY <1>1, <2>1, SubSeqProperties DEF s1
  <2> HIDE DEF s1
  <2> QED  BY <1>1, <2>2
<1>3. /\ s2 \in Seq(S) /\ Len(s2) = Len(l) - i + 1
      /\ \A x \in 1 .. Len(l) - i + 1 : s2[x] = l[i + x - 1]
  <2>1. \A x \in i .. Len(l) : l[x] \in S  BY <1>1
  <2>2. /\ s2 \in Seq(S) /\ Len(s2) = IF i <= Len(l) THEN Len(l) - i + 1 ELSE 0
        /\ \A x \in 1 .. Len(l) - i + 1 : s2[x] = l[i + x - 1]
    <3> HIDE DEF s2
    <3> QED  BY <1>1, <2>1, SubSeqProperties DEF s2
  <2> HIDE DEF s2
  <2> QED  BY <1>1, <2>2
<1>4. View!InsertAt(l, i, m) = s0 \o s2  BY DEF View!InsertAt
<1> HIDE DEF s1, s2
<1>5. /\ s0 \in Seq(S) /\ Len(s0) = i
      /\ \A x \in 1 .. i : s0[x] = IF x < i THEN l[x] ELSE m
  <2>1. <<m>> \in Seq(S) /\ Len(<<m>>) = 1 /\ <<m>>[1] = m  OBVIOUS
  <2>2. /\ s0 \in Seq(S) /\ Len(s0) = Len(s1) + 1
        /\ \A x \in 1 .. Len(s1) + 1 :
             s0[x] = IF x <= Len(s1) THEN s1[x] ELSE <<m>>[x - Len(s1)]
    BY <1>2, <2>1, ConcatProperties
  <2> HIDE DEF s0
  <2> QED  BY <1>1, <1>2, <2>1, <2>2
<1> HIDE DEF s0
<1>6. /\ s0 \o s2 \in Seq(S) /\ Len(s0 \o s2) = Len(s0) + Len(s2)
      /\ \A x \in 1 .. Len(s0) + Len(s2) :
           (s0 \o s2)[x] = IF x <= Len(s0) THEN s0[x] ELSE s2[x - Len(s0)]
  BY <1>3, <1>5, ConcatProperties
<1>7. ASSUME NEW x \in 1 .. Len(l) + 1
      PROVE  (s0 \o s2)[x] = IF x < i THEN l[x] ELSE IF x = i THEN m ELSE l[x - 1]
  <2>1. x \in 1 .. Len(s0) + Len(s2)  BY <1>1, <1>3, <1>5
  <2>2. CASE x <= i
    <3>1. x \in 1 .. i  BY <1>1, <2>2
    <3> QED  BY <1>1, <1>5, <1>6, <2>1, <2>2, <3>1
  <2>3. CASE ~(x <= i)
    <3>1. x - i \in 1 .. Len(l) - i + 1 /\ i + (x - i) - 1 = x - 1  BY <1>1, <2>3
    <3>2. (s0 \o s2)[x] = s2[x - i]  BY <1>5, <1>6, <2>1, <2>3
    <3>3. s2[x - i] = l[x - 1]  BY <1>3, <3>1
    <3>4. ~(x < i) /\ x # i  BY <1>1, <2>3
    <3> QED  BY <3>2, <3>3, <3>4
  <2> QED  BY <1>1, <2>2, <2>3
<1> QED  BY <1>1, <1>3, <1>4, <1>5, <1>6, <1>7

LEMMA RemovedPart ==
  ASSUME NEW S, NEW l \in Seq(S), NEW i \in 1 .. Len(l)
  PROVE  PartOf(View!RemoveAt(l, i), l)
<1> DEFINE k == View!RemoveAt(l, i)
           f == [x \in 1 .. Len(l) - 1 |-> IF x < i THEN x ELSE x + 1]
<1>1. Len(l) \in Nat  BY LenProperties
<1>2. /\ Len(k) = Len(l) - 1
      /\ \A x \in 1 .. Len(l) - 1 : k[x] = IF x < i THEN l[x] ELSE l[x + 1]
  BY RemovedIs
<1>3. \A x \in 1 .. Len(l) - 1 : f[x] = (IF x < i THEN x ELSE x + 1) /\ f[x] \in 1 .. Len(l)
  BY <1>1
<1>4. f \in [1 .. Len(l) - 1 -> 1 .. Len(l)]  BY <1>3
<1> HIDE DEF k, f
<1>5. \A x, y \in 1 .. Len(l) - 1 : x < y => f[x] < f[y]  BY <1>1, <1>3
<1>6. \A x \in 1 .. Len(l) - 1 : k[x] = l[f[x]]  BY <1>2, <1>3
<1>7. PartOf(k, l)  BY <1>2, <1>4, <1>5, <1>6 DEF PartOf
<1> QED  BY <1>7 DEF k

\* A message that is put back where it was restores the list.
LEMMA PutBack ==
  ASSUME NEW S, NEW l \in Seq(S), NEW i \in 1 .. Len(l)
  PROVE  View!InsertAt(View!RemoveAt(l, i), i, l[i]) = l
<1> DEFINE k == View!RemoveAt(l, i)
           b == View!InsertAt(k, i, l[i])
<1>1. Len(l) \in Nat /\ l[i] \in S  BY LenProperties, ElementOfSeq
<1>2. /\ k \in Seq(S) /\ Len(k) = Len(l) - 1
      /\ \A x \in 1 .. Len(l) - 1 : k[x] = IF x < i THEN l[x] ELSE l[x + 1]
  BY RemovedIs
<1> HIDE DEF k
<1>3. /\ b \in Seq(S) /\ Len(b) = Len(k) + 1
      /\ \A x \in 1 .. Len(k) + 1 : b[x] = IF x < i THEN k[x] ELSE IF x = i THEN l[i] ELSE k[x - 1]
  <2> DEFINE m == l[i]
  <2>1. k \in Seq(S) /\ i \in 1 .. Len(k) + 1 /\ m \in S  BY <1>1, <1>2
  <2> HIDE DEF m
  <2>2. /\ View!InsertAt(k, i, m) \in Seq(S) /\ Len(View!InsertAt(k, i, m)) = Len(k) + 1
        /\ \A x \in 1 .. Len(k) + 1 :
             View!InsertAt(k, i, m)[x] = IF x < i THEN k[x] ELSE IF x = i THEN m ELSE k[x - 1]
    BY <2>1, InsertedIs
  <2> QED  BY <2>2 DEF m
<1> HIDE DEF b
<1>4. ASSUME NEW x \in 1 .. Len(l)  PROVE b[x] = l[x]
  <2>1. CASE x < i
    <3>1. x \in 1 .. Len(l) - 1 /\ x \in 1 .. Len(k) + 1  BY <1>1, <1>2, <2>1
    <3>2. b[x] = k[x]  BY <1>3, <2>1, <3>1
    <3>3. k[x] = l[x]  BY <1>2, <2>1, <3>1
    <3> QED  BY <3>2, <3>3
  <2>2. CASE x = i  BY <1>1, <1>2, <1>3, <2>2
  <2>3. CASE i < x
    <3>1. x - 1 \in 1 .. Len(l) - 1 /\ ~(x - 1 < i) /\ x - 1 + 1 = x  BY <1>1, <2>3
    <3>2. k[x - 1] = l[x]  BY <1>2, <3>1
    <3>3. b[x] = k[x - 1]  BY <1>1, <1>2, <1>3, <2>3
    <3> QED  BY <3>2, <3>3
  <2> QED  BY <1>1, <2>1, <2>2, <2>3
<1>5. Len(b) = Len(l)  BY <1>1, <1>2, <1>3
<1>6. b = l  BY <1>3, <1>4, <1>5, SeqEqual
<1> QED  BY <1>6 DEF b, k

\* The lists that fill the same slots are the same.
LEMMA SlotsTell ==
  ASSUME NEW S, NEW k \in Seq(S), NEW l \in Seq(S), View!Slots(k) = View!Slots(l)
  PROVE  k = l
<1>1. /\ Len(k) \in Nat /\ DOMAIN k = 1 .. Len(k)
      /\ Len(l) \in Nat /\ DOMAIN l = 1 .. Len(l)
  BY LenProperties
<1>2. \A i \in DOMAIN k : i \in DOMAIN l /\ k[i] = l[i]
  <2> SUFFICES ASSUME NEW i \in DOMAIN k  PROVE i \in DOMAIN l /\ k[i] = l[i]  OBVIOUS
  <2>1. <<i, k[i]>> \in View!Slots(l)  BY DEF View!Slots
  <2> QED  BY <2>1 DEF View!Slots
<1>3. \A i \in DOMAIN l : i \in DOMAIN k
  <2> SUFFICES ASSUME NEW i \in DOMAIN l  PROVE i \in DOMAIN k  OBVIOUS
  <2>1. <<i, l[i]>> \in View!Slots(k)  BY DEF View!Slots
  <2> QED  BY <2>1 DEF View!Slots
<1>4. Len(k) = Len(l)
  <2>1. ASSUME Len(k) # 0  PROVE Len(k) <= Len(l)
    <3>1. Len(k) \in DOMAIN k  BY <1>1, <2>1
    <3>2. Len(k) \in DOMAIN l  BY <1>2, <3>1
    <3> QED  BY <1>1, <3>2
  <2>2. ASSUME Len(l) # 0  PROVE Len(l) <= Len(k)
    <3>1. Len(l) \in DOMAIN l  BY <1>1, <2>2
    <3>2. Len(l) \in DOMAIN k  BY <1>3, <3>1
    <3> QED  BY <1>1, <3>2
  <2>3. Len(k) \in Nat /\ Len(l) \in Nat  BY <1>1
  <2>4. CASE Len(k) = 0  BY <2>2, <2>3, <2>4
  <2>5. CASE Len(l) = 0  BY <2>1, <2>3, <2>5
  <2> QED  BY <2>1, <2>2, <2>3, <2>4, <2>5
<1> QED  BY <1>1, <1>2, <1>4, SeqEqual

\* A part of an enumeration.
LEMMA PageOf ==
  ASSUME NEW s \in SUBSET Messages, NEW q, Ordered(s, At, q),
         NEW m \in Int, NEW n \in Int, 1 <= m, n <= Cardinality(s)
  PROVE  /\ SubSeq(q, m, n) \in Seq(Messages)
         /\ \A i \in 1 .. Len(SubSeq(q, m, n)) : SubSeq(q, m, n)[i] \in s
         /\ Orderly(SubSeq(q, m, n), {})
<1> DEFINE k == SubSeq(q, m, n)
<1>1. IsFiniteSet(s) /\ Cardinality(s) \in Nat
  BY FiniteMessages, FS_Subset, FS_CardinalityType
<1>2. \A i \in m .. n : i \in 1 .. Cardinality(s) /\ q[i] \in s  BY <1>1 DEF Ordered
<1>3. /\ k \in Seq(s) /\ Len(k) = IF m <= n THEN n - m + 1 ELSE 0
      /\ \A i \in 1 .. n - m + 1 : k[i] = q[m + i - 1]
  <2>1. \A i \in m .. n : q[i] \in s  BY <1>2
  <2> HIDE DEF k
  <2> QED  BY <2>1, SubSeqProperties DEF k
<1> HIDE DEF k
<1>4. \A i \in 1 .. Len(k) : m + i - 1 \in m .. n /\ k[i] = q[m + i - 1]  BY <1>3
<1>5. Orderly(k, {})
  <2> SUFFICES ASSUME NEW i \in 1 .. Len(k), NEW j \in 1 .. Len(k), i < j
               PROVE  At[k[i]] <= At[k[j]] /\ k[i] # k[j]
    BY DEF Orderly, StoredIn
  <2>1. Len(k) \in Nat  BY <1>3
  <2>2. m + i - 1 < m + j - 1  BY <2>1
  <2> QED  BY <1>2, <1>4, <2>2 DEF Ordered
<1>6. k \in Seq(Messages)  BY <1>3, SeqMonotonic
<1>7. \A i \in 1 .. Len(k) : k[i] \in s  BY <1>3, ElementOfSeq
<1> QED  BY <1>5, <1>6, <1>7 DEF k

LEMMA OrderOfAt ==
  ASSUME NEW s \in SUBSET Messages
  PROVE  /\ Ordered(s, At, View!InOrder(s, At))
         /\ Cardinality(s) \in Nat
         /\ Len(View!InOrder(s, At)) = Cardinality(s)
<1>1. IsFiniteSet(s) /\ Cardinality(s) \in Nat
  BY FiniteMessages, FS_Subset, FS_CardinalityType
<1>2. \A x \in s : At[x] \in Nat  BY MessagesAreSent
<1>3. Ordered(s, At, View!InOrder(s, At))  BY <1>1, <1>2, InOrderIs
<1>4. Len(View!InOrder(s, At)) = Cardinality(s)  BY <1>1, <1>3 DEF Ordered
<1> QED  BY <1>1, <1>3, <1>4

\* What waclaw answers.
LEMMA NewestIs ==
  ASSUME NEW s \in SUBSET Messages
  PROVE  /\ View!Newest(s) \in Seq(Messages)
         /\ \A i \in 1 .. Len(View!Newest(s)) : View!Newest(s)[i] \in s
         /\ Orderly(View!Newest(s), {})
<1> DEFINE q == View!InOrder(s, At)
           n == Cardinality(s)
           m == IF n > Page THEN n - Page + 1 ELSE 1
<1>1. Ordered(s, At, q) /\ n \in Nat /\ Len(q) = n  BY OrderOfAt
<1>2. m \in Int /\ 1 <= m /\ n \in Int /\ n <= n  BY <1>1, ViewBounds
<1>3. View!Newest(s) = SubSeq(q, m, n)  BY <1>1 DEF View!Newest
<1> HIDE DEF q, m, n
<1>4. n <= Cardinality(s)  BY <1>2 DEF n
<1> QED  BY <1>1, <1>2, <1>3, <1>4, PageOf

LEMMA OldestIs ==
  ASSUME NEW s \in SUBSET Messages
  PROVE  /\ View!Oldest(s) \in Seq(Messages)
         /\ \A i \in 1 .. Len(View!Oldest(s)) : View!Oldest(s)[i] \in s
         /\ Orderly(View!Oldest(s), {})
<1> DEFINE q == View!InOrder(s, At)
           n == IF Cardinality(s) > Page THEN Page ELSE Cardinality(s)
<1>1. Ordered(s, At, q) /\ Cardinality(s) \in Nat /\ Len(q) = Cardinality(s)  BY OrderOfAt
<1>2. n \in Int /\ n <= Cardinality(s) /\ 1 \in Int /\ 1 <= 1  BY <1>1, ViewBounds
<1>3. View!Oldest(s) = SubSeq(q, 1, n)  BY <1>1 DEF View!Oldest
<1> HIDE DEF q, n
<1> QED  BY <1>1, <1>2, <1>3, PageOf

LEMMA BeforeIs ==
  ASSUME NEW s \in SUBSET Messages, NEW c, NEW t \in Nat
  PROVE  /\ View!Before(s, c, t) \in Seq(View!Ids)
         /\ Orderly(View!Before(s, c, t), {}) /\ OfChat(View!Before(s, c, t), c)
         /\ \A i \in StoredIn(View!Before(s, c, t)) : t > 0 => At[View!Before(s, c, t)[i]] < t
<1> DEFINE m == {x \in s : ChatOf[x] = c /\ (t > 0 => At[x] < t)}
<1>1. View!Before(s, c, t) = View!Newest(m)  BY DEF View!Before
<1>2. m \in SUBSET Messages  OBVIOUS
<1>3. \A x \in m : ChatOf[x] = c /\ (t > 0 => At[x] < t)  OBVIOUS
<1> HIDE DEF m
<1>4. /\ View!Newest(m) \in Seq(Messages) /\ Orderly(View!Newest(m), {})
      /\ \A i \in 1 .. Len(View!Newest(m)) : View!Newest(m)[i] \in m
  BY <1>2, NewestIs
<1>5. View!Newest(m) \in Seq(View!Ids)
  BY <1>4, SeqMonotonic DEF View!Ids
<1> QED  BY <1>1, <1>3, <1>4, <1>5 DEF OfChat, StoredIn

LEMMA AfterIs ==
  ASSUME NEW s \in SUBSET Messages, NEW c, NEW t \in Nat
  PROVE  /\ View!After(s, c, t) \in Seq(Messages)
         /\ Orderly(View!After(s, c, t), {}) /\ OfChat(View!After(s, c, t), c)
         /\ \A i \in StoredIn(View!After(s, c, t)) : At[View!After(s, c, t)[i]] > t
<1> DEFINE m == {x \in s : ChatOf[x] = c /\ At[x] > t}
<1>1. View!After(s, c, t) = View!Oldest(m)  BY DEF View!After
<1>2. m \in SUBSET Messages  OBVIOUS
<1>3. \A x \in m : ChatOf[x] = c /\ At[x] > t  OBVIOUS
<1> HIDE DEF m
<1>4. /\ View!Oldest(m) \in Seq(Messages) /\ Orderly(View!Oldest(m), {})
      /\ \A i \in 1 .. Len(View!Oldest(m)) : View!Oldest(m)[i] \in m
  BY <1>2, OldestIs
<1> QED  BY <1>1, <1>3, <1>4 DEF OfChat, StoredIn

\* A merge: the list less some of the page's own, then what it did not have.
LEMMA MergeIs ==
  ASSUME NEW l \in Seq(View!Ids), NEW new \in Seq(Messages), NEW k \in View!Merge(l, new)
  PROVE  \E h \in Seq(View!Ids), f \in Seq(View!Ids) :
           /\ k = h \o f /\ PartOf(h, l) /\ PartOf(f, new)
           /\ \A i \in StoredIn(h), j \in StoredIn(f) : h[i] # f[j]
<1> DEFINE f == View!Kept(new, Messages \ View!ToSet(l))
<1>1. PICK near : k = View!Kept(l, View!Ids \ near) \o f  BY DEF View!Merge
<1> DEFINE h == View!Kept(l, View!Ids \ near)
<1>2. h \in Seq(View!Ids) /\ PartOf(h, l)  BY KeptPart
<1>3. PICK p : f \in Seq(Messages) /\ Picks(new, Messages \ View!ToSet(l), f, p)
  BY KeptIs
<1>4. PartOf(f, new)  BY <1>3 DEF Picks, PartOf
<1>5. f \in Seq(View!Ids)  BY <1>3, SeqMonotonic DEF View!Ids
<1>6. \A j \in StoredIn(f) : f[j] \notin View!ToSet(l)  BY <1>3 DEF Picks, StoredIn
<1>7. \A i \in StoredIn(h) : h[i] \in View!ToSet(l)
  <2>1. \A i \in StoredIn(h) : \E j \in StoredIn(l) : h[i] = l[j]  BY <1>2, PartIs
  <2>2. DOMAIN l = 1 .. Len(l)  BY LenProperties
  <2> QED  BY <2>1, <2>2 DEF StoredIn, View!ToSet
<1> HIDE DEF f, h
<1>8. k = h \o f  BY <1>1 DEF h
<1> QED  BY <1>2, <1>4, <1>5, <1>6, <1>7, <1>8

-----------------------------------------------------------------------------
(* ChatView: the invariant.                                                *)

ViewReq == [kind : View!Kinds, chat : Chats, at : Nat, of : View!Ids \cup {NoChat},
            by : 0 .. MaxLoads, seen : (SUBSET Messages) \cup (SUBSET (Nat \X View!Ids))]

Paging(r) == r.kind \in {"older", "retry"}

\* What a request of each kind carries.
Sound(r) ==
  /\ r \in ViewReq /\ r.by <= version
  /\ r.kind \in {"load", "older", "retry", "poll"} => r.seen \subseteq Messages
  /\ r.kind \in {"text", "file"} => r.of \in Locals
  /\ r.kind = "delete" => r.of \in Messages /\ r.chat = ChatOf[r.of] /\ r.at # 0

\* The requests under way: one page at a time, and one poll of a list.
NetInv ==
  /\ IsFiniteSet(net) /\ \A r \in net : Sound(r)
  /\ net # {} \/ chat # NoChat => version > 0
  /\ \A r \in net : Paging(r) => older
  /\ \A r, q \in net : Paging(r) /\ Paging(q) => r = q
  /\ \A r \in net : r.kind \in {"load", "poll"} /\ r.by = version => chat \in {r.chat, NoChat}
  /\ \A r, q \in net : /\ r.kind = "poll" /\ r.by = version
                      /\ q.kind = "poll" /\ q.by = version => r = q

ChatInv == chat # NoChat /\ "chat" \notin mixed => OfChat(list, chat)

\* Where in a list a message is put back.
Spot(r, l) == IF r.at <= Len(l) THEN r.at ELSE Len(l) + 1

\* The answer to what was asked of this list will fit it: a page before it, a
\* poll after it, a message put back where it was.
PageFits(r) == Paging(r) /\ r.at > 0 => \A i \in StoredIn(list) : r.at <= At[list[i]]
PollFits(r) == r.kind = "poll" => \A i \in StoredIn(list) : At[list[i]] <= r.at
BackFits(r) ==
  r.kind = "delete" =>
    \A l \in Seq(View!Ids) :
      View!Slots(l) = r.seen => Orderly(View!InsertAt(l, Spot(r, l), r.of), removed)

OrderInv ==
  "order" \notin mixed =>
    /\ Orderly(list, removed)
    /\ \A r \in net : r.by = version => PageFits(r) /\ PollFits(r) /\ BackFits(r)
    /\ \A r, q \in net : r.by = version /\ q.by = version /\ Paging(r) /\ q.kind = "poll"
                         => r.at <= q.at

ViewInv == View!TypeOK /\ NetInv /\ ChatInv /\ OrderInv

-----------------------------------------------------------------------------
(* ChatView: requests.                                                     *)

LEMMA RequestIs ==
  ASSUME View!TypeOK, NEW kind \in View!Kinds, NEW c \in Chats, NEW at \in Nat,
         NEW of \in View!Ids \cup {NoChat}, NEW r, r = View!Request(kind, c, at, of)
  PROVE  /\ r \in ViewReq /\ r.kind = kind /\ r.chat = c /\ r.at = at /\ r.of = of
         /\ r.by = version /\ r.seen \subseteq Messages
BY DEF View!TypeOK, View!Request, ViewReq

LEMMA SendCount ==
  ASSUME IsFiniteSet(net), NEW r, View!Send(r)
  PROVE  net' = net \cup {r} /\ IsFiniteSet(net') /\ View!Cardinality(net') <= MaxNet
<1>1. net' = net \cup {r} /\ Cardinality(net) < MaxNet  BY ViewCount DEF View!Send
<1>2. /\ IsFiniteSet(net \cup {r}) /\ Cardinality(net) \in Nat
      /\ Cardinality(net \cup {r}) \in Nat
      /\ Cardinality(net \cup {r}) <= Cardinality(net) + 1
  <2>1. Cardinality(net) \in Nat  BY FS_CardinalityType
  <2> QED  BY <2>1, FS_AddElement
<1> QED  BY <1>1, <1>2, ViewCount, ViewBounds

LEMMA LessCount ==
  ASSUME IsFiniteSet(net), View!Cardinality(net) <= MaxNet, NEW rs \in SUBSET net
  PROVE  IsFiniteSet(rs) /\ View!Cardinality(rs) <= MaxNet
<1>1. /\ IsFiniteSet(rs) /\ Cardinality(rs) <= Cardinality(net)
      /\ Cardinality(rs) \in Nat /\ Cardinality(net) \in Nat
  BY FS_Subset, FS_CardinalityType
<1> QED  BY <1>1, ViewCount, ViewBounds

LEMMA OtherCount ==
  ASSUME IsFiniteSet(net), View!Cardinality(net) <= MaxNet, NEW r \in net, NEW q
  PROVE  IsFiniteSet((net \ {r}) \cup {q}) /\ View!Cardinality((net \ {r}) \cup {q}) <= MaxNet
<1>1. /\ IsFiniteSet(net \ {r}) /\ Cardinality(net \ {r}) = Cardinality(net) - 1
      /\ Cardinality(net) \in Nat
  BY FS_RemoveElement, FS_CardinalityType
<1>2. /\ IsFiniteSet((net \ {r}) \cup {q})
      /\ Cardinality((net \ {r}) \cup {q}) <= Cardinality(net)
  BY <1>1, FS_AddElement
<1>3. Cardinality((net \ {r}) \cup {q}) \in Nat  BY <1>2, FS_CardinalityType
<1> QED  BY <1>1, <1>2, <1>3, ViewCount, ViewBounds

\* A request that no version asks any more is the same otherwise.
Old(r) == IF r.kind = "load" THEN r ELSE [r EXCEPT !.by = 0]

LEMMA OldIs ==
  ASSUME NEW r \in ViewReq
  PROVE  /\ Old(r) \in ViewReq /\ Old(r).kind = r.kind /\ Old(r).chat = r.chat
         /\ Old(r).at = r.at /\ Old(r).of = r.of /\ Old(r).seen = r.seen
         /\ r.kind = "load" => Old(r) = r
         /\ r.kind # "load" => Old(r).by = 0
BY ViewBounds DEF Old, ViewReq

LEMMA OutdatedIs ==
  ASSUME IsFiniteSet(net), View!Cardinality(net) <= MaxNet, NEW r
  PROVE  /\ View!Outdated(net \ {r}) = {Old(q) : q \in net \ {r}}
         /\ IsFiniteSet(View!Outdated(net \ {r}))
         /\ View!Cardinality(View!Outdated(net \ {r})) <= MaxNet
<1> DEFINE rs == net \ {r}
           f == [q \in rs |-> Old(q)]
           out == {Old(q) : q \in rs}
<1>1. IsFiniteSet(rs) /\ View!Cardinality(rs) <= MaxNet  BY LessCount
<1>2. f \in Surjection(rs, out)
  <2>1. f \in [rs -> out]  OBVIOUS
  <2>2. \A p \in out : \E q \in rs : f[q] = p  OBVIOUS
  <2> HIDE DEF f, rs, out
  <2> QED  BY <2>1, <2>2 DEF Surjection
<1>3. View!Outdated(net \ {r}) = out  BY DEF View!Outdated, Old
<1> HIDE DEF f, rs, out
<1>4. IsFiniteSet(out) /\ Cardinality(out) <= Cardinality(rs)
  BY <1>1, <1>2, FS_Surjection
<1>5. Cardinality(out) \in Nat /\ Cardinality(rs) \in Nat  BY <1>1, <1>4, FS_CardinalityType
<1>6. View!Cardinality(out) <= MaxNet  BY <1>1, <1>4, <1>5, ViewCount, ViewBounds
<1>7. out = {Old(q) : q \in net \ {r}}  BY DEF out, rs
<1> QED  BY <1>3, <1>4, <1>6, <1>7

\* The requests under way, less some.
LEMMA NetLess ==
  ASSUME NetInv, net' \subseteq net, version' = version, chat' \in {chat, NoChat},
         older' = older \/ \A r \in net' : ~Paging(r)
  PROVE  NetInv'
<1>1. IsFiniteSet(net')  BY FS_Subset DEF NetInv
<1>2. \A r \in net' : Sound(r)'  BY DEF NetInv, Sound
<1> QED  BY <1>1, <1>2 DEF NetInv, Paging

\* One more that is neither a page nor a poll.
LEMMA NetMore ==
  ASSUME NetInv, version > 0, NEW r, Sound(r), r.kind \in {"text", "file", "delete"},
         net' = net \cup {r}, IsFiniteSet(net'), UNCHANGED <<version, chat, older>>
  PROVE  NetInv'
BY DEF NetInv, Sound, Paging

\* Those that the list has outlived.
LEMMA NetOld ==
  ASSUME View!TypeOK, NetInv, NEW r \in net, net' = View!Outdated(net \ {r}),
         UNCHANGED <<version, chat, older>>
  PROVE  /\ NetInv' /\ View!Cardinality(net') <= MaxNet
         /\ \A q \in net' : q.by = version => q.kind = "load"
<1>1. /\ net' = {Old(q) : q \in net \ {r}} /\ IsFiniteSet(net')
      /\ View!Cardinality(net') <= MaxNet
  BY OutdatedIs DEF NetInv, View!TypeOK
<1>2. \A p \in net' : \E q \in net :
        /\ p = Old(q) /\ p \in ViewReq /\ p.kind = q.kind /\ p.chat = q.chat
        /\ p.at = q.at /\ p.of = q.of /\ p.seen = q.seen
        /\ q.kind = "load" => p = q
        /\ q.kind # "load" => p.by = 0
        /\ Sound(q)
  <2>1. \A q \in net : Sound(q) /\ q \in ViewReq  BY DEF NetInv, Sound
  <2> SUFFICES ASSUME NEW p \in net'
               PROVE  \E q \in net :
                        /\ p = Old(q) /\ p \in ViewReq /\ p.kind = q.kind /\ p.chat = q.chat
                        /\ p.at = q.at /\ p.of = q.of /\ p.seen = q.seen
                        /\ q.kind = "load" => p = q
                        /\ q.kind # "load" => p.by = 0
                        /\ Sound(q)
    OBVIOUS
  <2>2. PICK q \in net : p = Old(q)  BY <1>1
  <2> QED  BY <2>1, <2>2, OldIs
<1>3. version > 0 /\ version \in Nat  BY DEF NetInv, View!TypeOK
<1>4. ASSUME NEW p \in net'
      PROVE  /\ Sound(p)' /\ (Paging(p) => older')
             /\ p.by = version => p.kind = "load"
             /\ p.kind \in {"load", "poll"} /\ p.by = version => chat \in {p.chat, NoChat}
  <2>1. PICK q \in net :
        /\ p = Old(q) /\ p \in ViewReq /\ p.kind = q.kind /\ p.chat = q.chat
        /\ p.at = q.at /\ p.of = q.of /\ p.seen = q.seen
        /\ q.kind = "load" => p = q
        /\ q.kind # "load" => p.by = 0
        /\ Sound(q)
    BY <1>2
  <2>2. p.by <= version
    <3>1. CASE q.kind = "load"  BY <2>1, <3>1 DEF Sound
    <3>2. CASE q.kind # "load"  BY <1>3, <2>1, <3>2
    <3> QED  BY <3>1, <3>2
  <2>3. Sound(p)'  BY <2>1, <2>2 DEF Sound
  <2>4. Paging(p) => older'  BY <2>1 DEF NetInv, Paging
  <2>5. p.by = version => p.kind = "load"  BY <1>3, <2>1
  <2>6. p.kind \in {"load", "poll"} /\ p.by = version => chat \in {p.chat, NoChat}
    <3> SUFFICES ASSUME p.kind \in {"load", "poll"}, p.by = version
                 PROVE  chat \in {p.chat, NoChat}
      OBVIOUS
    <3>1. q.kind = "load" /\ p = q  BY <2>1, <2>5
    <3> QED  BY <3>1 DEF NetInv
  <2> QED  BY <2>3, <2>4, <2>5, <2>6
<1>5. \A p \in net' : p.by = version => p.kind = "load"  BY <1>4
<1>6. ASSUME NEW p \in net', NEW q \in net', Paging(p), Paging(q)  PROVE p = q
  <2>1. PICK a \in net : p = Old(a) /\ p.kind = a.kind  BY <1>2
  <2>2. PICK b \in net : q = Old(b) /\ q.kind = b.kind  BY <1>2
  <2>3. a = b  BY <1>6, <2>1, <2>2 DEF NetInv, Paging
  <2> QED  BY <2>1, <2>2, <2>3
<1>7. \A p \in net' : Paging(p) => older'  BY <1>4
<1>8. \A p \in net' : p.kind \in {"load", "poll"} /\ p.by = version' => chat' \in {p.chat, NoChat}
  BY <1>4
<1>9. \A p, q \in net' : p.kind = "poll" => p.by # version'  BY <1>5
<1> QED  BY <1>1, <1>3, <1>4, <1>5, <1>6, <1>7, <1>8, <1>9 DEF NetInv, Paging

-----------------------------------------------------------------------------
(* ChatView: the steps.                                                    *)

LEMMA OrderlyMore ==
  ASSUME NEW l, NEW c, NEW d, c \subseteq d, Orderly(l, c)
  PROVE  Orderly(l, d)
BY DEF Orderly

\* The list has lost some of its messages, or won some of the page's own, and
\* nothing new is under way that an order matters to.
LEMMA OrderKept ==
  ASSUME OrderInv, "order" \notin mixed' => "order" \notin mixed, removed \subseteq removed',
         version' = version,
         \A d : Orderly(list, d) => Orderly(list', d),
         \A i \in StoredIn(list') : \E j \in StoredIn(list) : list'[i] = list[j],
         \A r \in net' : \/ r \in net \/ r.kind \in {"load", "text", "file"}
                         \/ r.kind = "delete" /\ BackFits(r)'
  PROVE  OrderInv'
<1> SUFFICES ASSUME "order" \notin mixed'
             PROVE  /\ Orderly(list', removed')
                    /\ \A r \in net' : r.by = version' => (PageFits(r) /\ PollFits(r) /\ BackFits(r))'
                    /\ \A r, q \in net' : /\ r.by = version' /\ q.by = version'
                                         /\ Paging(r) /\ q.kind = "poll" => r.at <= q.at
  BY DEF OrderInv, Paging
<1>1. /\ Orderly(list, removed)
      /\ \A r \in net : r.by = version => PageFits(r) /\ PollFits(r) /\ BackFits(r)
      /\ \A r, q \in net : /\ r.by = version /\ q.by = version
                          /\ Paging(r) /\ q.kind = "poll" => r.at <= q.at
  BY DEF OrderInv
<1>2. Orderly(list', removed')  BY <1>1, OrderlyMore
<1>3. ASSUME NEW r \in net', r.by = version'
      PROVE  (PageFits(r) /\ PollFits(r) /\ BackFits(r))'
  <2>1. CASE r \in net
    <3>1. PageFits(r) /\ PollFits(r) /\ BackFits(r)  BY <1>1, <1>3, <2>1
    <3>2. PageFits(r)'  BY <3>1 DEF PageFits
    <3>3. PollFits(r)'  BY <3>1 DEF PollFits
    <3>4. BackFits(r)'
      <4>1. \A l : Orderly(l, removed) => Orderly(l, removed')  BY OrderlyMore
      <4> QED  BY <3>1, <4>1 DEF BackFits, Spot
    <3> QED  BY <3>2, <3>3, <3>4
  <2>2. CASE r.kind \in {"load", "text", "file"}
    BY <2>2 DEF PageFits, PollFits, BackFits, Paging
  <2>3. CASE r.kind = "delete" /\ BackFits(r)'
    BY <2>3 DEF PageFits, PollFits, Paging
  <2> QED  BY <2>1, <2>2, <2>3
<1>4. \A r, q \in net' : /\ r.by = version' /\ q.by = version'
                       /\ Paging(r) /\ q.kind = "poll" => r.at <= q.at
  BY <1>1 DEF Paging
<1> QED  BY <1>2, <1>3, <1>4

LEMMA ShowTypes ==
  ASSUME View!TypeOK, NEW l \in Seq(View!Ids), View!Show(l)
  PROVE  list' = l /\ list' \in Seq(View!Ids) /\ cache' \in [Chats -> Seq(View!Ids)]
BY DEF View!TypeOK, View!Show

\* Nothing moves but what no part of the invariant but the types is about.
LEMMA InvKept ==
  ASSUME ViewInv, View!TypeOK', NetInv', "order" \notin mixed' => "order" \notin mixed,
         "chat" \notin mixed' => "chat" \notin mixed, chat' \in {chat, NoChat},
         version' = version, removed \subseteq removed',
         \/ list' = list
         \/ PartOf(list', list)
         \/ \E x \in Locals : list' = Append(list, x),
         \A r \in net' : r \in net \/ r.kind \in {"load", "text", "file"}
  PROVE  ViewInv'
<1>1. list \in Seq(View!Ids)  BY DEF ViewInv, View!TypeOK
<1>2. /\ \A d : Orderly(list, d) => Orderly(list', d)
      /\ \A c : OfChat(list, c) => OfChat(list', c)
      /\ \A i \in StoredIn(list') : \E j \in StoredIn(list) : list'[i] = list[j]
  <2>1. CASE list' = list  BY <2>1
  <2>2. CASE PartOf(list', list)  BY <2>2, PartIs
  <2>3. ASSUME NEW x \in Locals, list' = Append(list, x)
        PROVE  /\ \A d : Orderly(list, d) => Orderly(list', d)
               /\ \A c : OfChat(list, c) => OfChat(list', c)
               /\ \A i \in StoredIn(list') : \E j \in StoredIn(list) : list'[i] = list[j]
    BY <1>1, <2>3, AppendOwn
  <2> QED  BY <2>1, <2>2, <2>3
<1>3. OrderInv'  BY <1>2, OrderKept DEF ViewInv
<1>4. ChatInv'  BY <1>2 DEF ViewInv, ChatInv
<1> QED  BY <1>3, <1>4 DEF ViewInv

LEMMA ViewSelect ==
  ASSUME ViewInv, NEW c \in Chats, View!Select(c)
  PROVE  ViewInv'
<1>11. PICK r : r = [View!Request("load", c, 0, NoChat) EXCEPT !.by = version + 1]
  OBVIOUS
<1>0. View!TypeOK /\ NetInv  BY DEF ViewInv
<1>1. /\ chat' = c /\ version' = version + 1 /\ version < MaxLoads
      /\ View!Send(r) /\ mixed' = {"chat", "order"} /\ UNCHANGED <<older, list>>
      /\ cache' = [cache EXCEPT ![c] = list] /\ loading' \in BOOLEAN /\ hasOlder' = TRUE
      /\ UNCHANGED <<sending, store, unsent, faults, late, broken, removed>>
  BY <1>11 DEF View!Select, View!bounds
<1>2. /\ r \in ViewReq /\ r.kind = "load" /\ r.chat = c /\ r.by = version + 1
      /\ r.seen \subseteq Messages
  <2>1. version + 1 \in 0 .. MaxLoads  BY <1>0, <1>1, ViewBounds DEF View!TypeOK
  <2>2. PICK q : q = View!Request("load", c, 0, NoChat)  OBVIOUS
  <2>3. /\ q \in ViewReq /\ q.kind = "load" /\ q.chat = c /\ q.seen \subseteq Messages
    BY <1>0, <2>2, RequestIs DEF View!Kinds
  <2>4. r = [q EXCEPT !.by = version + 1]  BY <1>11, <2>2
  <2> QED  BY <2>1, <2>3, <2>4 DEF ViewReq
<1>3. net' = net \cup {r} /\ IsFiniteSet(net') /\ View!Cardinality(net') <= MaxNet
  BY <1>0, <1>1, SendCount DEF NetInv
<1>4. View!TypeOK'  BY <1>0, <1>1, <1>3, ViewBounds DEF View!TypeOK
<1>5. NetInv'
  <2>0. version \in Nat  BY <1>0 DEF View!TypeOK
  <2>1. \A q \in net : q.by <= version /\ q.by \in Nat
    BY <1>0 DEF NetInv, Sound, ViewReq
  <2>2. \A q \in net : Sound(q)'
    <3> SUFFICES ASSUME NEW q \in net  PROVE Sound(q)'  OBVIOUS
    <3>1. Sound(q)  BY <1>0 DEF NetInv
    <3>2. q.by <= version'  BY <1>1, <2>0, <2>1
    <3> QED  BY <3>1, <3>2 DEF Sound
  <2>3. Sound(r)'  BY <1>1, <1>2, <2>0 DEF Sound
  <2>4. \A q \in net : q.by # version'  BY <1>1, <2>0, <2>1
  <2>5. version' > 0  BY <1>1, <2>0
  <2> QED  BY <1>0, <1>1, <1>2, <1>3, <2>2, <2>3, <2>4, <2>5 DEF NetInv, Paging
<1>6. OrderInv' /\ ChatInv'  BY <1>1 DEF OrderInv, ChatInv
<1> QED  BY <1>4, <1>5, <1>6 DEF ViewInv

LEMMA ViewDeselect ==
  ASSUME ViewInv, View!Deselect
  PROVE  ViewInv'
<1>1. /\ chat' = NoChat
      /\ UNCHANGED <<version, list, cache, loading, older, hasOlder, sending, store, net,
                     unsent, faults, mixed, late, broken, removed>>
  BY DEF View!Deselect, View!shown, View!flags, View!bounds, View!history
<1>2. View!TypeOK'  BY <1>1 DEF ViewInv, View!TypeOK
<1>3. NetInv'  BY <1>1, NetLess DEF ViewInv
<1> QED  BY <1>1, <1>2, <1>3, InvKept

LEMMA ViewArrive ==
  ASSUME ViewInv, NEW m \in Messages, View!Arrive(m)
  PROVE  ViewInv'
<1>1. /\ store' = store \cup {m} /\ late' \in {late, late \cup {m}}
      /\ UNCHANGED <<chat, version, list, cache, loading, older, hasOlder, sending, net,
                     unsent, faults, mixed, broken, removed>>
  BY DEF View!Arrive, View!opened, View!shown, View!flags, View!bounds
<1>2. View!TypeOK'  BY <1>1 DEF ViewInv, View!TypeOK
<1>3. NetInv'  BY <1>1, NetLess DEF ViewInv
<1> QED  BY <1>1, <1>2, <1>3, InvKept

\* What is sent.
LEMMA ViewSend ==
  ASSUME ViewInv, View!SendMessage \/ View!SendFile
  PROVE  ViewInv'
<1>0. View!TypeOK /\ NetInv /\ list \in Seq(View!Ids)  BY DEF ViewInv, View!TypeOK
<1>1. PICK x \in unsent, kind \in {"text", "file"} :
        /\ View!Send(View!Request(kind, chat, 0, x)) /\ unsent' = unsent \ {x}
        /\ chat # NoChat /\ sending' = TRUE
        /\ \/ UNCHANGED <<list, cache>>
           \/ View!Show(Append(list, x))
        /\ UNCHANGED <<chat, version, loading, older, hasOlder, store, faults,
                       mixed, late, broken, removed>>
  BY DEF View!SendMessage, View!SendFile, View!opened, View!shown, View!history
<1>2. x \in Locals /\ x \in View!Ids /\ chat \in Chats
  BY <1>0, <1>1 DEF View!TypeOK, View!Ids
<1>11. PICK r : r = View!Request(kind, chat, 0, x)  OBVIOUS
<1>3. /\ r \in ViewReq /\ r.kind = kind /\ r.of = x /\ r.by = version
  <2>1. kind \in View!Kinds /\ 0 \in Nat /\ x \in View!Ids \cup {NoChat}  BY <1>2 DEF View!Kinds
  <2>2. View!TypeOK /\ chat \in Chats  BY <1>0, <1>2
  <2> QED  BY <1>11, <2>1, <2>2, RequestIs
<1>4. net' = net \cup {r} /\ IsFiniteSet(net') /\ View!Cardinality(net') <= MaxNet
  BY <1>0, <1>1, <1>11, SendCount DEF NetInv
<1>5. version > 0 /\ version \in Nat  BY <1>0, <1>1 DEF NetInv, View!TypeOK
<1>6. Sound(r)  BY <1>2, <1>3, <1>5 DEF Sound
<1>7. NetInv'  BY <1>0, <1>1, <1>3, <1>4, <1>5, <1>6, NetMore
<1>8. list' = list \/ list' = Append(list, x)  BY <1>1 DEF View!Show
<1>9. list' \in Seq(View!Ids) /\ cache' \in [Chats -> Seq(View!Ids)]
  <2>1. Append(list, x) \in Seq(View!Ids)  BY <1>0, <1>2, AppendOwn
  <2>2. CASE View!Show(Append(list, x))  BY <1>0, <2>1, <2>2, ShowTypes
  <2>3. CASE UNCHANGED <<list, cache>>  BY <1>0, <2>3 DEF View!TypeOK
  <2> QED  BY <1>1, <2>2, <2>3
<1>10. View!TypeOK'  BY <1>0, <1>1, <1>4, <1>9 DEF View!TypeOK
<1> QED  BY <1>1, <1>2, <1>3, <1>4, <1>7, <1>8, <1>10, InvKept

\* The answers to what was sent.
LEMMA ViewSent ==
  ASSUME ViewInv, NEW r \in net, View!SentMessage(r) \/ View!SentFile(r)
  PROVE  ViewInv'
<1>0. View!TypeOK /\ NetInv /\ list \in Seq(View!Ids) /\ Sound(r)
  BY DEF ViewInv, View!TypeOK, NetInv
<1>1. /\ r.kind \in {"text", "file"} /\ net' = net \ {r} /\ sending' \in BOOLEAN
      /\ broken' \subseteq broken \cup {"sending"}
      /\ faults' = faults \/ View!Fault
      /\ \/ UNCHANGED <<list, cache>>
         \/ View!Show(Append(list, r.of))
         \/ View!Show(View!Kept(list, View!Ids \ {r.of}))
      /\ UNCHANGED <<chat, version, loading, older, hasOlder, store, unsent, mixed, late, removed>>
  BY <1>0 DEF View!SentMessage, View!SentFile, View!Done, View!Break, View!opened, View!shown,
         View!history, View!TypeOK
<1>2. r.of \in Locals /\ r.of \in View!Ids  BY <1>0, <1>1 DEF Sound, View!Ids
<1>3. /\ Append(list, r.of) \in Seq(View!Ids)
      /\ View!Kept(list, View!Ids \ {r.of}) \in Seq(View!Ids)
      /\ PartOf(View!Kept(list, View!Ids \ {r.of}), list)
  BY <1>0, <1>2, AppendOwn, KeptPart
<1>4. /\ list' \in Seq(View!Ids) /\ cache' \in [Chats -> Seq(View!Ids)]
      /\ list' = list \/ PartOf(list', list) \/ list' = Append(list, r.of)
  <2>1. CASE UNCHANGED <<list, cache>>  BY <1>0, <2>1 DEF View!TypeOK
  <2>2. CASE View!Show(Append(list, r.of))  BY <1>0, <1>3, <2>2, ShowTypes
  <2>3. CASE View!Show(View!Kept(list, View!Ids \ {r.of}))  BY <1>0, <1>3, <2>3, ShowTypes
  <2> QED  BY <1>1, <2>1, <2>2, <2>3
<1>5. View!Cardinality(net') <= MaxNet  BY <1>0, <1>1, LessCount DEF NetInv, View!TypeOK
<1>6. faults' \in 0 .. MaxFaults  BY <1>0, <1>1, BoundsAreNumbers DEF View!Fault, View!TypeOK
<1>7. View!TypeOK'  BY <1>0, <1>1, <1>4, <1>5, <1>6 DEF View!TypeOK
<1>8. NetInv'  BY <1>0, <1>1, NetLess
<1> QED  BY <1>1, <1>2, <1>4, <1>7, <1>8, InvKept

LEMMA FaultCount ==
  ASSUME View!TypeOK, faults' = faults \/ View!Fault
  PROVE  faults' \in 0 .. MaxFaults
BY BoundsAreNumbers DEF View!Fault, View!TypeOK

\* When all that is under way has been outlived by the list, its order is all
\* there is to it.
LEMMA OrderAlone ==
  ASSUME "order" \notin mixed' => Orderly(list', removed'),
         \A q \in net' : q.by = version' => q.kind = "load"
  PROVE  OrderInv'
<1>1. \A q \in net' : q.by = version' => (PageFits(q) /\ PollFits(q) /\ BackFits(q))'
  BY DEF PageFits, PollFits, BackFits, Paging
<1> QED  BY <1>1 DEF OrderInv, Paging

\* The answer of the last load replaces the list.
LEMMA ViewLoads ==
  ASSUME ViewInv, NEW r \in net, View!Loaded(r), r.by = version,
         NEW s \in {r.seen, store}, list' = View!Before(s, r.chat, 0),
         cache' = [cache EXCEPT ![r.chat] = list'], net' = View!Outdated(net \ {r}),
         loading' = FALSE, mixed' = {}, UNCHANGED <<faults, broken>>
  PROVE  ViewInv'
<1>0. View!TypeOK /\ NetInv /\ Sound(r) /\ r.kind = "load"
  BY DEF ViewInv, NetInv, View!Loaded
<1>1. UNCHANGED <<chat, version, older, hasOlder, sending, store, unsent, late, removed>>
  BY DEF View!Loaded, View!opened
<1>2. s \subseteq Messages /\ r.chat \in Chats  BY <1>0 DEF Sound, ViewReq, View!TypeOK
<1>3. list' \in Seq(View!Ids) /\ Orderly(list', {}) /\ OfChat(list', r.chat)
  BY <1>2, BeforeIs
<1>4. /\ NetInv' /\ View!Cardinality(net') <= MaxNet
      /\ \A q \in net' : q.by = version => q.kind = "load"
  BY <1>0, <1>1, NetOld
<1>5. View!TypeOK'
  <2>1. cache' \in [Chats -> Seq(View!Ids)]  BY <1>0, <1>3 DEF View!TypeOK
  <2> QED  BY <1>0, <1>1, <1>3, <1>4, <2>1 DEF View!TypeOK
<1>6. ChatInv'
  <2>1. chat \in {r.chat, NoChat}  BY <1>0 DEF NetInv
  <2> QED  BY <1>1, <1>3, <2>1 DEF ChatInv
<1>7. Orderly(list', removed')  BY <1>3, OrderlyMore
<1>8. OrderInv'  BY <1>1, <1>4, <1>7, OrderAlone
<1> QED  BY <1>4, <1>5, <1>6, <1>8 DEF ViewInv

LEMMA ViewLoaded ==
  ASSUME ViewInv, NEW r \in net, View!Loaded(r)
  PROVE  ViewInv'
<1>0. View!TypeOK /\ NetInv /\ list \in Seq(View!Ids)  BY DEF ViewInv, View!TypeOK
<1>1. UNCHANGED <<chat, version, older, hasOlder, sending, store, unsent, late, removed>>
  BY DEF View!Loaded, View!opened
<1>2. \/ \E s \in {r.seen, store} :
           /\ r.by = version
           /\ list' = View!Before(s, r.chat, 0) /\ cache' = [cache EXCEPT ![r.chat] = list']
           /\ net' = View!Outdated(net \ {r}) /\ loading' = FALSE /\ mixed' = {}
           /\ UNCHANGED <<faults, broken>>
      \/ /\ net' = net \ {r} /\ UNCHANGED <<list, cache, mixed>>
         /\ loading' \in {loading, FALSE} /\ broken' \subseteq broken \cup {"loading"}
         /\ faults' = faults \/ View!Fault
  BY DEF View!Loaded, View!Done, View!Break, View!shown
<1>3. CASE \E s \in {r.seen, store} :
           /\ r.by = version
           /\ list' = View!Before(s, r.chat, 0) /\ cache' = [cache EXCEPT ![r.chat] = list']
           /\ net' = View!Outdated(net \ {r}) /\ loading' = FALSE /\ mixed' = {}
           /\ UNCHANGED <<faults, broken>>
  BY <1>3, ViewLoads
<1>4. CASE /\ net' = net \ {r} /\ UNCHANGED <<list, cache, mixed>>
           /\ loading' \in {loading, FALSE} /\ broken' \subseteq broken \cup {"loading"}
           /\ faults' = faults \/ View!Fault
  <2>1. View!Cardinality(net') <= MaxNet  BY <1>0, <1>4, LessCount DEF NetInv, View!TypeOK
  <2>2. faults' \in 0 .. MaxFaults  BY <1>0, <1>4, FaultCount
  <2>3. View!TypeOK'  BY <1>0, <1>1, <1>4, <2>1, <2>2 DEF View!TypeOK
  <2>4. NetInv'  BY <1>0, <1>1, <1>4, NetLess
  <2> QED  BY <1>1, <1>4, <2>3, <2>4, InvKept
<1> QED  BY <1>2, <1>3, <1>4

\* The time of the first message, or none.
LEMMA HeadIs ==
  ASSUME NEW l \in Seq(View!Ids), l # <<>>
  PROVE  /\ View!Head1(l) \in Nat
         /\ View!Head1(l) > 0 => 1 \in StoredIn(l) /\ View!Head1(l) = At[l[1]]
<1>1. Len(l) \in Nat /\ 1 \in 1 .. Len(l) /\ l[1] \in View!Ids
  BY EmptySeq, LenProperties, ElementOfSeq
<1>2. CASE l[1] \in Locals  BY <1>2 DEF View!Head1
<1>3. CASE l[1] \notin Locals
  <2>1. l[1] \in Messages  BY <1>1, <1>3 DEF View!Ids
  <2> QED  BY <1>1, <1>3, <2>1, MessagesAreSent DEF View!Head1, StoredIn
<1> QED  BY <1>2, <1>3

\* The first page before the list is asked for.
LEMMA ViewLoadOlder ==
  ASSUME ViewInv, View!LoadOlder
  PROVE  ViewInv'
<1>0. View!TypeOK /\ NetInv /\ list \in Seq(View!Ids)  BY DEF ViewInv, View!TypeOK
<1>1. PICK r : r = View!Request("older", chat, View!Head1(list), NoChat)  OBVIOUS
<1>2. /\ chat # NoChat /\ ~older /\ list # <<>> /\ older' = TRUE /\ View!Send(r)
      /\ UNCHANGED <<chat, version, list, cache, loading, hasOlder, sending, store, unsent,
                     faults, mixed, late, broken, removed>>
  BY <1>1 DEF View!LoadOlder, View!opened, View!shown, View!bounds, View!history
<1>3. /\ View!Head1(list) \in Nat
      /\ View!Head1(list) > 0 => 1 \in StoredIn(list) /\ View!Head1(list) = At[list[1]]
  BY <1>0, <1>2, HeadIs
<1>4. /\ r \in ViewReq /\ r.kind = "older" /\ r.chat = chat /\ r.at = View!Head1(list)
      /\ r.by = version /\ r.seen \subseteq Messages
  <2>1. chat \in Chats  BY <1>0, <1>2 DEF View!TypeOK
  <2> QED  BY <1>0, <1>1, <1>3, <2>1, RequestIs DEF View!Kinds
<1>5. net' = net \cup {r} /\ IsFiniteSet(net') /\ View!Cardinality(net') <= MaxNet
  BY <1>0, <1>2, SendCount DEF NetInv
<1>6. View!TypeOK'  BY <1>0, <1>2, <1>5 DEF View!TypeOK
<1>7. \A q \in net : ~Paging(q)  BY <1>0, <1>2 DEF NetInv
<1>8. version \in Nat /\ version > 0  BY <1>0, <1>2 DEF NetInv, View!TypeOK
<1>9. NetInv'
  <2>1. \A q \in net' : Sound(q)'
    <3>1. \A q \in net : Sound(q)'  BY <1>0, <1>2 DEF NetInv, Sound
    <3>2. Sound(r)'  BY <1>2, <1>4, <1>8 DEF Sound
    <3> QED  BY <1>5, <3>1, <3>2
  <2>2. \A p, q \in net' : Paging(p) /\ Paging(q) => p = q  BY <1>5, <1>7
  <2> QED  BY <1>0, <1>2, <1>4, <1>5, <1>8, <2>1, <2>2 DEF NetInv, Paging
<1>10. ChatInv'  BY <1>2 DEF ViewInv, ChatInv
<1>11. OrderInv'
  <2> SUFFICES ASSUME "order" \notin mixed'
               PROVE  /\ Orderly(list', removed')
                      /\ \A q \in net' : q.by = version' => (PageFits(q) /\ PollFits(q) /\ BackFits(q))'
                      /\ \A p, q \in net' : /\ p.by = version' /\ q.by = version'
                                           /\ Paging(p) /\ q.kind = "poll" => p.at <= q.at
    BY DEF OrderInv, Paging
  <2>1. /\ Orderly(list, removed)
        /\ \A q \in net : q.by = version => PageFits(q) /\ PollFits(q) /\ BackFits(q)
    BY <1>2 DEF ViewInv, OrderInv
  <2>2. \A q \in net : q.by = version' => (PageFits(q) /\ PollFits(q) /\ BackFits(q))'
    BY <1>2, <2>1 DEF PageFits, PollFits, BackFits
  <2>3. PageFits(r)
    <3> SUFFICES ASSUME r.at > 0, NEW i \in StoredIn(list)  PROVE r.at <= At[list[i]]
      BY DEF PageFits
    <3>1. 1 \in StoredIn(list) /\ r.at = At[list[1]]  BY <1>3, <1>4
    <3>2. i \in Nat /\ i >= 1 /\ i \in 1 .. Len(list) /\ r.at \in Nat  BY <1>3, <1>4 DEF StoredIn
    <3>3. CASE i = 1  BY <3>1, <3>2, <3>3
    <3>4. CASE i # 1  BY <2>1, <3>1, <3>2, <3>4 DEF Orderly
    <3> QED  BY <3>3, <3>4
  <2>4. (PageFits(r) /\ PollFits(r) /\ BackFits(r))'
    BY <1>2, <1>4, <2>3 DEF PageFits, PollFits, BackFits
  <2>5. ASSUME NEW q \in net, q.kind = "poll", q.by = version  PROVE r.at <= q.at
    <3>1. q.at \in Nat  BY <1>0 DEF NetInv, Sound, ViewReq
    <3>2. CASE r.at > 0
      <4>1. 1 \in StoredIn(list) /\ r.at = At[list[1]]  BY <1>3, <1>4, <3>2
      <4> QED  BY <2>1, <2>5, <4>1 DEF PollFits
    <3>3. CASE ~(r.at > 0)  BY <1>3, <1>4, <3>1, <3>3
    <3> QED  BY <3>2, <3>3
  <2>6. \A p, q \in net' : /\ p.by = version' /\ q.by = version'
                          /\ Paging(p) /\ q.kind = "poll" => p.at <= q.at
    BY <1>2, <1>4, <1>5, <1>7, <2>5
  <2> QED  BY <1>2, <1>5, <2>1, <2>2, <2>4, <2>6
<1> QED  BY <1>6, <1>9, <1>10, <1>11 DEF ViewInv

\* History is asked for: the page is asked for once more, of the same list.
LEMMA ViewBackfill ==
  ASSUME ViewInv, NEW r \in net, View!Backfill(r)
  PROVE  ViewInv'
<1>0. View!TypeOK /\ NetInv /\ Sound(r) /\ r.kind = "older"
  BY DEF ViewInv, NetInv, View!Backfill
<1>1. PICK p : p = [r EXCEPT !.kind = "retry", !.seen = store]  OBVIOUS
<1>2. /\ net' = (net \ {r}) \cup {p}
      /\ faults' = faults \/ View!Fault
      /\ UNCHANGED <<chat, version, list, cache, loading, older, hasOlder, sending, store,
                     unsent, mixed, late, broken, removed>>
  BY <1>1 DEF View!Backfill, View!opened, View!shown, View!flags, View!history
<1>3. /\ p \in ViewReq /\ p.kind = "retry" /\ p.chat = r.chat /\ p.at = r.at
      /\ p.by = r.by /\ p.seen = store /\ store \subseteq Messages
  <2>1. r \in ViewReq /\ store \subseteq Messages  BY <1>0 DEF Sound, View!TypeOK
  <2> QED  BY <1>1, <2>1 DEF ViewReq, View!Kinds
<1>4. IsFiniteSet(net') /\ View!Cardinality(net') <= MaxNet
  <2>1. IsFiniteSet(net) /\ View!Cardinality(net) <= MaxNet  BY <1>0 DEF NetInv, View!TypeOK
  <2>2. /\ IsFiniteSet((net \ {r}) \cup {p})
        /\ View!Cardinality((net \ {r}) \cup {p}) <= MaxNet
    BY <2>1, OtherCount
  <2> QED  BY <1>2, <2>2
<1>5. faults' \in 0 .. MaxFaults  BY <1>0, <1>2, FaultCount
<1>6. View!TypeOK'  BY <1>0, <1>2, <1>4, <1>5 DEF View!TypeOK
<1>7. \A q \in net' : q = p \/ (q \in net /\ ~Paging(q))
  <2>1. \A q \in net' : q = p \/ (q \in net /\ q # r)  BY <1>2
  <2>2. \A q \in net : q # r => ~Paging(q)  BY <1>0 DEF NetInv, Paging
  <2> QED  BY <2>1, <2>2
<1>8. NetInv'
  <2>1. \A q \in net' : Sound(q)'
    <3>1. \A q \in net : Sound(q)'  BY <1>0, <1>2 DEF NetInv, Sound
    <3>2. Sound(p)'  BY <1>0, <1>2, <1>3 DEF Sound
    <3> QED  BY <1>7, <3>1, <3>2
  <2>2. \A a, b \in net' : Paging(a) /\ Paging(b) => a = b  BY <1>7
  <2>3. older /\ net # {}  BY <1>0 DEF NetInv, Paging
  <2>4. p.kind \notin {"load", "poll"}  BY <1>3
  <2> QED  BY <1>0, <1>2, <1>4, <1>7, <2>1, <2>2, <2>3, <2>4 DEF NetInv
<1>9. ChatInv'  BY <1>2 DEF ViewInv, ChatInv
<1>10. OrderInv'
  <2> SUFFICES ASSUME "order" \notin mixed'
               PROVE  /\ Orderly(list', removed')
                      /\ \A q \in net' : q.by = version' => (PageFits(q) /\ PollFits(q) /\ BackFits(q))'
                      /\ \A a, q \in net' : /\ a.by = version' /\ q.by = version'
                                           /\ Paging(a) /\ q.kind = "poll" => a.at <= q.at
    BY DEF OrderInv, Paging
  <2>1. /\ Orderly(list, removed)
        /\ \A q \in net : q.by = version => PageFits(q) /\ PollFits(q) /\ BackFits(q)
        /\ \A a, q \in net : /\ a.by = version /\ q.by = version
                            /\ Paging(a) /\ q.kind = "poll" => a.at <= q.at
    BY <1>2 DEF ViewInv, OrderInv
  <2>2. \A q \in net : q.by = version' => (PageFits(q) /\ PollFits(q) /\ BackFits(q))'
    BY <1>2, <2>1 DEF PageFits, PollFits, BackFits
  <2>3. p.by = version' => (PageFits(p) /\ PollFits(p) /\ BackFits(p))'
    BY <1>0, <1>2, <1>3, <2>1 DEF PageFits, PollFits, BackFits, Paging
  <2>4. \A a, q \in net' : /\ a.by = version' /\ q.by = version'
                          /\ Paging(a) /\ q.kind = "poll" => a.at <= q.at
    <3>1. r \in net /\ r.by = p.by /\ r.at = p.at /\ Paging(r) /\ p.kind # "poll"
      BY <1>0, <1>3 DEF Paging
    <3> QED  BY <1>2, <1>7, <2>1, <3>1
  <2> QED  BY <1>2, <1>7, <2>1, <2>2, <2>3, <2>4
<1> QED  BY <1>6, <1>8, <1>9, <1>10 DEF ViewInv

\* A page is put before the list.
LEMMA ViewPages ==
  ASSUME ViewInv, NEW r \in net, Paging(r), net' = net \ {r}, NEW s \in {r.seen, store},
         View!Show(View!Before(s, r.chat, r.at) \o list),
         View!Mixes(r, r.by # version \/ r.at = 0), older' = FALSE,
         UNCHANGED <<chat, version, loading, hasOlder, sending, store, unsent, faults, late,
                     broken, removed>>
  PROVE  ViewInv'
<1> DEFINE l == View!Before(s, r.chat, r.at)
<1>0. View!TypeOK /\ NetInv /\ Sound(r) /\ list \in Seq(View!Ids)
  BY DEF ViewInv, NetInv, View!TypeOK
<1>1. s \subseteq Messages /\ r.at \in Nat  BY <1>0 DEF Sound, ViewReq, View!TypeOK, Paging
<1>2. /\ l \in Seq(View!Ids) /\ Orderly(l, {}) /\ OfChat(l, r.chat)
      /\ \A i \in StoredIn(l) : r.at > 0 => At[l[i]] < r.at
  BY <1>1, BeforeIs
<1>3. View!Show(l \o list)  OBVIOUS
<1> HIDE DEF l
<1>4. /\ l \o list \in Seq(View!Ids)
      /\ \A c : OfChat(l, c) /\ OfChat(list, c) => OfChat(l \o list, c)
      /\ \A i \in StoredIn(l \o list) : \/ \E j \in StoredIn(l) : (l \o list)[i] = l[j]
                                      \/ \E j \in StoredIn(list) : (l \o list)[i] = list[j]
      /\ \A d : Orderly(l, d) /\ Orderly(list, d) /\ Precedes(l, list) => Orderly(l \o list, d)
  BY <1>0, <1>2, ConcatIs
<1>5. list' = l \o list /\ list' \in Seq(View!Ids) /\ cache' \in [Chats -> Seq(View!Ids)]
  BY <1>0, <1>3, <1>4, ShowTypes
<1>6. \A q \in net' : q \in net /\ ~Paging(q)  BY <1>0 DEF NetInv
<1>7. NetInv'  BY <1>0, <1>6, NetLess
<1>8. View!TypeOK'
  <2>1. View!Cardinality(net') <= MaxNet  BY <1>0, LessCount DEF NetInv, View!TypeOK
  <2>2. mixed' \subseteq {"chat", "order"}  BY <1>0 DEF View!Mixes, View!TypeOK
  <2> QED  BY <1>0, <1>5, <2>1, <2>2 DEF View!TypeOK
<1>9. ChatInv'
  <2> SUFFICES ASSUME chat # NoChat, "chat" \notin mixed'  PROVE OfChat(list', chat)
    BY DEF ChatInv
  <2>1. "chat" \notin mixed /\ r.chat = chat  BY DEF View!Mixes
  <2> QED  BY <1>2, <1>4, <1>5, <2>1 DEF ViewInv, ChatInv
<1>10. OrderInv'
  <2> SUFFICES ASSUME "order" \notin mixed'
               PROVE  /\ Orderly(list', removed')
                      /\ \A q \in net' : q.by = version' => (PageFits(q) /\ PollFits(q) /\ BackFits(q))'
                      /\ \A p, q \in net' : /\ p.by = version' /\ q.by = version'
                                           /\ Paging(p) /\ q.kind = "poll" => p.at <= q.at
    BY DEF OrderInv, Paging
  <2>1. "order" \notin mixed /\ r.by = version /\ r.at > 0  BY <1>1 DEF View!Mixes
  <2>2. /\ Orderly(list, removed)
        /\ \A q \in net : q.by = version => PageFits(q) /\ PollFits(q) /\ BackFits(q)
        /\ \A q \in net : q.by = version /\ q.kind = "poll" => r.at <= q.at
    BY <2>1 DEF ViewInv, OrderInv
  <2>3. \A j \in StoredIn(list) : r.at <= At[list[j]] /\ At[list[j]] \in Nat
    <3>1. \A j \in StoredIn(list) : At[list[j]] \in Nat  BY MessagesAreSent DEF StoredIn
    <3> QED  BY <2>1, <2>2, <3>1 DEF PageFits
  <2>4. \A i \in StoredIn(l) : At[l[i]] < r.at /\ At[l[i]] \in Nat
    <3>1. \A j \in StoredIn(l) : At[l[j]] \in Nat  BY MessagesAreSent DEF StoredIn
    <3> QED  BY <1>2, <2>1, <3>1
  <2>5. Precedes(l, list)
    <3> SUFFICES ASSUME NEW i \in StoredIn(l), NEW j \in StoredIn(list)
                 PROVE  At[l[i]] <= At[list[j]] /\ l[i] # list[j]
      BY DEF Precedes
    <3>1. At[l[i]] < At[list[j]]  BY <1>1, <2>3, <2>4
    <3>2. At[l[i]] \in Nat /\ At[list[j]] \in Nat  BY <2>3, <2>4
    <3> QED  BY <3>1, <3>2
  <2>6. Orderly(list', removed')
    <3>1. Orderly(l, removed)  BY <1>2, OrderlyMore
    <3> QED  BY <1>4, <1>5, <2>2, <2>5, <3>1
  <2>7. ASSUME NEW q \in net', q.by = version'  PROVE (PageFits(q) /\ PollFits(q) /\ BackFits(q))'
    <3>1. q \in net /\ ~Paging(q) /\ PollFits(q) /\ BackFits(q)  BY <1>6, <2>2, <2>7
    <3>2. PageFits(q)'  BY <3>1 DEF PageFits, Paging
    <3>3. BackFits(q)'  BY <3>1 DEF BackFits
    <3>4. PollFits(q)'
      <4> SUFFICES ASSUME q.kind = "poll", NEW i \in StoredIn(list')  PROVE At[list'[i]] <= q.at
        BY DEF PollFits
      <4>1. r.at <= q.at /\ q.at \in Nat  BY <1>0, <2>2, <2>7, <3>1 DEF NetInv, Sound, ViewReq
      <4>2. CASE \E j \in StoredIn(l) : list'[i] = l[j]  BY <1>1, <2>4, <4>1, <4>2
      <4>3. CASE \E j \in StoredIn(list) : list'[i] = list[j]  BY <3>1, <4>3 DEF PollFits
      <4> QED  BY <1>4, <1>5, <4>2, <4>3
    <3> QED  BY <3>2, <3>3, <3>4
  <2> QED  BY <1>6, <2>6, <2>7
<1> QED  BY <1>7, <1>8, <1>9, <1>10 DEF ViewInv

LEMMA ViewLoadedOlder ==
  ASSUME ViewInv, NEW r \in net, View!LoadedOlder(r)
  PROVE  ViewInv'
<1>0. View!TypeOK /\ NetInv /\ list \in Seq(View!Ids) /\ Paging(r) /\ net' = net \ {r}
  BY DEF ViewInv, View!TypeOK, View!LoadedOlder, View!Done, Paging
<1>1. UNCHANGED <<chat, version, loading, sending, store, unsent, late, removed>>
  BY DEF View!LoadedOlder, View!opened
<1>2. CASE \E s \in {r.seen, store} :
             /\ View!Show(View!Before(s, r.chat, r.at) \o list)
             /\ View!Mixes(r, r.by # version \/ r.at = 0)
             /\ older' = FALSE /\ UNCHANGED <<hasOlder, faults, broken>>
  BY <1>0, <1>1, <1>2, ViewPages
<1>3. CASE /\ UNCHANGED <<list, cache, mixed>>
           /\ older' \in {older, FALSE} /\ hasOlder' \in {hasOlder, FALSE}
           /\ broken' \subseteq broken \cup {"older"}
           /\ faults' = faults \/ View!Fault
  <2>1. View!Cardinality(net') <= MaxNet  BY <1>0, LessCount DEF NetInv, View!TypeOK
  <2>2. faults' \in 0 .. MaxFaults  BY <1>0, <1>3, FaultCount
  <2>3. View!TypeOK'  BY <1>0, <1>1, <1>3, <2>1, <2>2 DEF View!TypeOK
  <2>4. \A q \in net' : ~Paging(q)  BY <1>0 DEF NetInv
  <2>5. NetInv'  BY <1>0, <1>1, <2>4, NetLess
  <2> QED  BY <1>0, <1>1, <1>3, <2>3, <2>5, InvKept
<1>4. \/ \E s \in {r.seen, store} :
           /\ View!Show(View!Before(s, r.chat, r.at) \o list)
           /\ View!Mixes(r, r.by # version \/ r.at = 0)
           /\ older' = FALSE /\ UNCHANGED <<hasOlder, faults, broken>>
      \/ /\ UNCHANGED <<list, cache, mixed>>
         /\ older' \in {older, FALSE} /\ hasOlder' \in {hasOlder, FALSE}
         /\ broken' \subseteq broken \cup {"older"}
         /\ faults' = faults \/ View!Fault
  BY DEF View!LoadedOlder, View!Break, View!shown
<1> QED  BY <1>2, <1>3, <1>4

\* What a poll asks for: what is after the last message of the store.
LEMMA CursorIs ==
  ASSUME NEW l \in Seq(View!Ids), NEW k, k = View!FromStore(l), k # <<>>
  PROVE  /\ At[k[Len(k)]] \in Nat
         /\ \E j \in StoredIn(l) : At[k[Len(k)]] = At[l[j]]
         /\ \A d : Orderly(l, d) => \A i \in StoredIn(l) : At[l[i]] <= At[k[Len(k)]]
<1>1. k \in Seq(View!Ids) /\ \E p : Picks(l, Messages, k, p)  BY KeptIs DEF View!FromStore
<1>2. PICK p : Picks(l, Messages, k, p)  BY <1>1
<1> DEFINE n == Len(k)
<1>3. n \in Nat /\ n \in 1 .. n  BY <1>1, EmptySeq, LenProperties
<1>4. /\ p \in [1 .. n -> 1 .. Len(l)]
      /\ \A i, j \in 1 .. n : i < j => p[i] < p[j]
      /\ \A i \in 1 .. n : k[i] = l[p[i]] /\ k[i] \in Messages
      /\ \A i \in 1 .. Len(l) : l[i] \in Messages => \E x \in 1 .. n : p[x] = i
  BY <1>2 DEF Picks
<1>5. p[n] \in StoredIn(l) /\ k[n] = l[p[n]] /\ k[n] \in Messages  BY <1>3, <1>4 DEF StoredIn
<1>6. ASSUME NEW d, Orderly(l, d), NEW i \in StoredIn(l)  PROVE At[l[i]] <= At[k[n]]
  <2>1. i \in 1 .. Len(l) /\ l[i] \in Messages  BY DEF StoredIn
  <2>2. PICK x \in 1 .. n : p[x] = i  BY <1>4, <2>1
  <2>3. CASE x = n
    <3>1. At[l[i]] \in Nat  BY <2>1, MessagesAreSent
    <3>2. l[i] = k[n]  BY <1>5, <2>2, <2>3
    <3> QED  BY <3>1, <3>2
  <2>4. CASE x # n
    <3>1. x < n  BY <1>3, <2>4
    <3>2. i < p[n]  BY <1>3, <1>4, <2>2, <3>1
    <3> QED  BY <1>5, <1>6, <3>2 DEF Orderly
  <2> QED  BY <2>3, <2>4
<1>7. At[k[n]] \in Nat  BY <1>5, MessagesAreSent
<1> QED  BY <1>5, <1>6, <1>7

LEMMA ViewPoll ==
  ASSUME ViewInv, View!Poll
  PROVE  ViewInv'
<1>0. View!TypeOK /\ NetInv /\ list \in Seq(View!Ids)  BY DEF ViewInv, View!TypeOK
<1>1. PICK k : k = View!FromStore(list)  OBVIOUS
<1>2. PICK r : r = View!Request("poll", chat, At[k[Len(k)]], NoChat)  OBVIOUS
<1>3. /\ chat # NoChat /\ k # <<>> /\ View!Send(r)
      /\ ~ \E q \in net : q.kind = "poll" /\ q.chat = chat
      /\ UNCHANGED <<chat, version, list, cache, loading, older, hasOlder, sending, store, unsent,
                     faults, mixed, late, broken, removed>>
  BY <1>1, <1>2 DEF View!Poll, View!opened, View!shown, View!flags, View!bounds, View!history
<1>4. /\ At[k[Len(k)]] \in Nat
      /\ \E j \in StoredIn(list) : At[k[Len(k)]] = At[list[j]]
      /\ \A d : Orderly(list, d) => \A i \in StoredIn(list) : At[list[i]] <= At[k[Len(k)]]
  BY <1>0, <1>1, <1>3, CursorIs
<1>5. /\ r \in ViewReq /\ r.kind = "poll" /\ r.chat = chat /\ r.at = At[k[Len(k)]]
      /\ r.by = version /\ r.seen \subseteq Messages
  <2>1. chat \in Chats  BY <1>0, <1>3 DEF View!TypeOK
  <2> QED  BY <1>0, <1>2, <1>4, <2>1, RequestIs DEF View!Kinds
<1>6. net' = net \cup {r} /\ IsFiniteSet(net') /\ View!Cardinality(net') <= MaxNet
  BY <1>0, <1>3, SendCount DEF NetInv
<1>7. View!TypeOK'  BY <1>0, <1>3, <1>6 DEF View!TypeOK
<1>8. version \in Nat /\ version > 0  BY <1>0, <1>3 DEF NetInv, View!TypeOK
<1>9. \A q \in net : ~(q.kind = "poll" /\ q.by = version)  BY <1>0, <1>3 DEF NetInv
<1>10. NetInv'
  <2>1. \A q \in net' : Sound(q)'
    <3>1. \A q \in net : Sound(q)'  BY <1>0, <1>3 DEF NetInv, Sound
    <3>2. Sound(r)'  BY <1>3, <1>5, <1>8 DEF Sound
    <3> QED  BY <1>6, <3>1, <3>2
  <2>2. \A p, q \in net' : Paging(p) /\ Paging(q) => p = q
    BY <1>0, <1>5, <1>6 DEF NetInv, Paging
  <2>3. \A q \in net' : Paging(q) => older'  BY <1>0, <1>3, <1>5, <1>6 DEF NetInv, Paging
  <2>4. \A p, q \in net' : /\ p.kind = "poll" /\ p.by = version
                          /\ q.kind = "poll" /\ q.by = version => p = q
    BY <1>6, <1>9
  <2>5. \A q \in net' : q.kind \in {"load", "poll"} /\ q.by = version => chat \in {q.chat, NoChat}
    BY <1>0, <1>5, <1>6 DEF NetInv
  <2> QED  BY <1>3, <1>6, <1>8, <2>1, <2>2, <2>3, <2>4, <2>5 DEF NetInv, Paging
<1>11. ChatInv'  BY <1>3 DEF ViewInv, ChatInv
<1>12. OrderInv'
  <2> SUFFICES ASSUME "order" \notin mixed'
               PROVE  /\ Orderly(list', removed')
                      /\ \A q \in net' : q.by = version' => (PageFits(q) /\ PollFits(q) /\ BackFits(q))'
                      /\ \A p, q \in net' : /\ p.by = version' /\ q.by = version'
                                           /\ Paging(p) /\ q.kind = "poll" => p.at <= q.at
    BY DEF OrderInv, Paging
  <2>1. /\ Orderly(list, removed)
        /\ \A q \in net : q.by = version => PageFits(q) /\ PollFits(q) /\ BackFits(q)
    BY <1>3 DEF ViewInv, OrderInv
  <2>2. \A q \in net : q.by = version' => (PageFits(q) /\ PollFits(q) /\ BackFits(q))'
    BY <1>3, <2>1 DEF PageFits, PollFits, BackFits
  <2>3. (PageFits(r) /\ PollFits(r) /\ BackFits(r))'
    <3>1. \A i \in StoredIn(list) : At[list[i]] <= r.at  BY <1>4, <1>5, <2>1
    <3> QED  BY <1>3, <1>5, <3>1 DEF PageFits, PollFits, BackFits, Paging
  <2>4. \A q \in net : Paging(q) /\ q.by = version => q.at <= r.at
    <3> SUFFICES ASSUME NEW q \in net, Paging(q), q.by = version  PROVE q.at <= r.at  OBVIOUS
    <3>1. q.at \in Nat  BY <1>0 DEF NetInv, Sound, ViewReq
    <3>2. CASE q.at > 0  BY <1>4, <1>5, <2>1, <3>2 DEF PageFits
    <3>3. CASE ~(q.at > 0)  BY <1>4, <1>5, <3>1, <3>3
    <3> QED  BY <3>2, <3>3
  <2>5. \A p, q \in net' : /\ p.by = version' /\ q.by = version'
                          /\ Paging(p) /\ q.kind = "poll" => p.at <= q.at
    BY <1>3, <1>5, <1>6, <1>9, <2>4 DEF Paging
  <2> QED  BY <1>3, <1>6, <2>1, <2>2, <2>3, <2>5
<1> QED  BY <1>7, <1>10, <1>11, <1>12 DEF ViewInv

\* The new messages are put after the list.
LEMMA ViewMerges ==
  ASSUME ViewInv, NEW r \in net, r.kind = "poll", net' = net \ {r}, NEW s \in {r.seen, store},
         View!Mixes(r, r.by # version),
         NEW l \in View!Merge(list, View!After(s, r.chat, r.at)), View!Show(l),
         UNCHANGED <<chat, version, loading, older, hasOlder, sending, store, unsent, faults,
                     late, broken, removed>>
  PROVE  ViewInv'
<1> DEFINE new == View!After(s, r.chat, r.at)
<1>0. View!TypeOK /\ NetInv /\ Sound(r) /\ list \in Seq(View!Ids)
  BY DEF ViewInv, NetInv, View!TypeOK
<1>1. s \subseteq Messages /\ r.at \in Nat  BY <1>0 DEF Sound, ViewReq, View!TypeOK
<1>2. /\ new \in Seq(Messages) /\ Orderly(new, {}) /\ OfChat(new, r.chat)
      /\ \A i \in StoredIn(new) : At[new[i]] > r.at
  BY <1>1, AfterIs
<1>3. l \in View!Merge(list, new)  OBVIOUS
<1> HIDE DEF new
<1>4. PICK h \in Seq(View!Ids), f \in Seq(View!Ids) :
           /\ l = h \o f /\ PartOf(h, list) /\ PartOf(f, new)
           /\ \A i \in StoredIn(h), j \in StoredIn(f) : h[i] # f[j]
  BY <1>0, <1>2, <1>3, MergeIs
<1>5. /\ \A d : Orderly(list, d) => Orderly(h, d)
      /\ \A c : OfChat(list, c) => OfChat(h, c)
      /\ \A i \in StoredIn(h) : \E j \in StoredIn(list) : h[i] = list[j]
  BY <1>4, PartIs
<1>6. /\ Orderly(f, {}) /\ OfChat(f, r.chat)
      /\ \A i \in StoredIn(f) : \E j \in StoredIn(new) : f[i] = new[j]
  BY <1>2, <1>4, PartIs
<1>7. /\ l \in Seq(View!Ids)
      /\ \A c : OfChat(h, c) /\ OfChat(f, c) => OfChat(l, c)
      /\ \A i \in StoredIn(l) : \/ \E j \in StoredIn(h) : l[i] = h[j]
                              \/ \E j \in StoredIn(f) : l[i] = f[j]
      /\ \A d : Orderly(h, d) /\ Orderly(f, d) /\ Precedes(h, f) => Orderly(l, d)
  <2>1. /\ h \o f \in Seq(View!Ids)
        /\ \A c : OfChat(h, c) /\ OfChat(f, c) => OfChat(h \o f, c)
        /\ \A i \in StoredIn(h \o f) : \/ \E j \in StoredIn(h) : (h \o f)[i] = h[j]
                                      \/ \E j \in StoredIn(f) : (h \o f)[i] = f[j]
        /\ \A d : Orderly(h, d) /\ Orderly(f, d) /\ Precedes(h, f) => Orderly(h \o f, d)
    BY ConcatIs
  <2>2. l = h \o f  BY <1>4
  <2> QED  BY <2>1, <2>2
<1>8. list' = l /\ list' \in Seq(View!Ids) /\ cache' \in [Chats -> Seq(View!Ids)]
  BY <1>0, <1>7, ShowTypes
<1>9. NetInv'  BY <1>0, NetLess
<1>10. View!TypeOK'
  <2>1. View!Cardinality(net') <= MaxNet  BY <1>0, LessCount DEF NetInv, View!TypeOK
  <2>2. mixed' \subseteq {"chat", "order"}  BY <1>0 DEF View!Mixes, View!TypeOK
  <2> QED  BY <1>0, <1>8, <2>1, <2>2 DEF View!TypeOK
<1>11. ChatInv'
  <2> SUFFICES ASSUME chat # NoChat, "chat" \notin mixed'  PROVE OfChat(list', chat)
    BY DEF ChatInv
  <2>1. "chat" \notin mixed /\ r.chat = chat  BY DEF View!Mixes
  <2> QED  BY <1>5, <1>6, <1>7, <1>8, <2>1 DEF ViewInv, ChatInv
<1>12. OrderInv'
  <2> SUFFICES ASSUME "order" \notin mixed'
               PROVE  /\ Orderly(list', removed')
                      /\ \A q \in net' : q.by = version' => (PageFits(q) /\ PollFits(q) /\ BackFits(q))'
                      /\ \A p, q \in net' : /\ p.by = version' /\ q.by = version'
                                           /\ Paging(p) /\ q.kind = "poll" => p.at <= q.at
    BY DEF OrderInv, Paging
  <2>1. "order" \notin mixed /\ r.by = version  BY DEF View!Mixes
  <2>2. /\ Orderly(list, removed)
        /\ \A q \in net : q.by = version => PageFits(q) /\ PollFits(q) /\ BackFits(q)
        /\ \A q \in net : q.by = version /\ Paging(q) => q.at <= r.at
    BY <2>1 DEF ViewInv, OrderInv
  <2>3. \A i \in StoredIn(h) : At[h[i]] <= r.at /\ At[h[i]] \in Nat
    <3>1. \A i \in StoredIn(h) : At[h[i]] \in Nat  BY MessagesAreSent DEF StoredIn
    <3> QED  BY <1>5, <2>1, <2>2, <3>1 DEF PollFits
  <2>4. \A i \in StoredIn(f) : At[f[i]] > r.at /\ At[f[i]] \in Nat
    <3>1. \A i \in StoredIn(f) : At[f[i]] \in Nat  BY MessagesAreSent DEF StoredIn
    <3> QED  BY <1>2, <1>6, <3>1
  <2>5. Precedes(h, f)
    <3> SUFFICES ASSUME NEW i \in StoredIn(h), NEW j \in StoredIn(f)
                 PROVE  At[h[i]] <= At[f[j]] /\ h[i] # f[j]
      BY DEF Precedes
    <3>1. At[h[i]] <= At[f[j]]  BY <1>1, <2>3, <2>4
    <3> QED  BY <1>4, <3>1
  <2>6. Orderly(list', removed')
    <3>1. Orderly(f, removed)  BY <1>6, OrderlyMore
    <3> QED  BY <1>5, <1>7, <1>8, <2>2, <2>5, <3>1
  <2>7. ASSUME NEW q \in net', q.by = version'  PROVE (PageFits(q) /\ PollFits(q) /\ BackFits(q))'
    <3>1. /\ q \in net /\ q.kind # "poll" /\ PageFits(q) /\ BackFits(q)
          /\ Paging(q) => q.at <= r.at
      BY <1>0, <2>1, <2>2, <2>7 DEF NetInv
    <3>2. PollFits(q)'  BY <3>1 DEF PollFits
    <3>3. BackFits(q)'  BY <3>1 DEF BackFits
    <3>4. PageFits(q)'
      <4> SUFFICES ASSUME Paging(q), q.at > 0, NEW i \in StoredIn(list')
                   PROVE  q.at <= At[list'[i]]
        BY DEF PageFits, Paging
      <4>1. q.at <= r.at /\ q.at \in Nat  BY <1>0, <3>1 DEF NetInv, Sound, ViewReq
      <4>2. CASE \E j \in StoredIn(h) : list'[i] = h[j]
        <5>1. PICK j \in StoredIn(list) : list'[i] = list[j]  BY <1>5, <4>2
        <5> QED  BY <3>1, <5>1 DEF PageFits
      <4>3. CASE \E j \in StoredIn(f) : list'[i] = f[j]  BY <1>1, <2>4, <4>1, <4>3
      <4> QED  BY <1>7, <1>8, <4>2, <4>3
    <3> QED  BY <3>2, <3>3, <3>4
  <2>8. \A p, q \in net' : /\ p.by = version' /\ q.by = version'
                          /\ Paging(p) /\ q.kind = "poll" => p.at <= q.at
    BY <2>1 DEF ViewInv, OrderInv
  <2> QED  BY <2>6, <2>7, <2>8
<1> QED  BY <1>9, <1>10, <1>11, <1>12 DEF ViewInv

LEMMA ViewPolled ==
  ASSUME ViewInv, NEW r \in net, View!Polled(r)
  PROVE  ViewInv'
<1>0. View!TypeOK /\ NetInv /\ list \in Seq(View!Ids) /\ r.kind = "poll" /\ net' = net \ {r}
  BY DEF ViewInv, View!TypeOK, View!Polled, View!Done
<1>1. UNCHANGED <<chat, version, loading, older, hasOlder, sending, store, unsent, late,
                  broken, removed>>
  BY DEF View!Polled, View!opened, View!flags
<1>2. CASE \E s \in {r.seen, store} :
             /\ View!Mixes(r, r.by # version) /\ faults' = faults
             /\ \E l \in View!Merge(list, View!After(s, r.chat, r.at)) : View!Show(l)
  BY <1>0, <1>1, <1>2, ViewMerges
<1>3. CASE /\ UNCHANGED <<list, cache, mixed>>
           /\ faults' = faults \/ View!Fault
  <2>1. View!Cardinality(net') <= MaxNet  BY <1>0, LessCount DEF NetInv, View!TypeOK
  <2>2. faults' \in 0 .. MaxFaults  BY <1>0, <1>3, FaultCount
  <2>3. View!TypeOK'  BY <1>0, <1>1, <1>3, <2>1, <2>2 DEF View!TypeOK
  <2>4. NetInv'  BY <1>0, <1>1, NetLess
  <2> QED  BY <1>0, <1>1, <1>3, <2>3, <2>4, InvKept
<1>4. \/ \E s \in {r.seen, store} :
           /\ View!Mixes(r, r.by # version) /\ faults' = faults
           /\ \E l \in View!Merge(list, View!After(s, r.chat, r.at)) : View!Show(l)
      \/ /\ UNCHANGED <<list, cache, mixed>>
         /\ faults' = faults \/ View!Fault
  BY DEF View!Polled, View!shown
<1> QED  BY <1>2, <1>3, <1>4

\* A message is taken off.
LEMMA ViewDelete ==
  ASSUME ViewInv, NEW m \in Messages, View!DeleteMessage(m)
  PROVE  ViewInv'
<1>0. View!TypeOK /\ NetInv /\ list \in Seq(View!Ids) /\ Len(list) \in Nat
  BY LenProperties DEF ViewInv, View!TypeOK
<1>1. PICK i : i = View!SelectInSeq(list, LAMBDA n : n = m)  OBVIOUS
<1>2. PICK r : r = [View!Request("delete", ChatOf[m], i, m) EXCEPT !.seen = View!Slots(list')]
  OBVIOUS
<1>3. /\ chat # NoChat /\ i > 0 /\ View!Show(View!RemoveAt(list, i)) /\ removed' = removed \cup {m}
      /\ View!Send(r)
      /\ UNCHANGED <<chat, version, loading, older, hasOlder, sending, store, unsent,
                     faults, mixed, late, broken>>
  BY <1>1, <1>2 DEF View!DeleteMessage, View!opened, View!flags, View!bounds
<1>4. i \in 1 .. Len(list) /\ list[i] = m
  <2> DEFINE I == {j \in 1 .. Len(list) : list[j] = m}
  <2>1. i = IF I # {} THEN View!Min(I) ELSE 0  BY <1>1 DEF View!SelectInSeq
  <2>2. I \subseteq Nat /\ \A j \in I : j \in 1 .. Len(list) /\ list[j] = m  OBVIOUS
  <2> HIDE DEF I
  <2>3. I # {}  BY <1>3, <2>1
  <2>4. \E n \in I : \A k \in I : n <= k  BY <2>2, <2>3, Least
  <2>5. View!Min(I) \in I  BY <2>4 DEF View!Min
  <2> QED  BY <2>1, <2>2, <2>3, <2>5
<1>5. /\ View!RemoveAt(list, i) \in Seq(View!Ids)
      /\ Len(View!RemoveAt(list, i)) = Len(list) - 1
      /\ PartOf(View!RemoveAt(list, i), list)
      /\ View!InsertAt(View!RemoveAt(list, i), i, m) = list
  BY <1>0, <1>4, RemovedIs, RemovedPart, PutBack
<1>6. list' = View!RemoveAt(list, i) /\ list' \in Seq(View!Ids) /\ cache' \in [Chats -> Seq(View!Ids)]
  BY <1>0, <1>3, <1>5, ShowTypes
<1>7. /\ r \in ViewReq /\ r.kind = "delete" /\ r.chat = ChatOf[m] /\ r.at = i /\ r.of = m
      /\ r.by = version /\ r.seen = View!Slots(list')
  <2>1. View!Slots(list') \subseteq Nat \X View!Ids
    <3>1. \A k \in DOMAIN list' : k \in Nat /\ list'[k] \in View!Ids
      BY <1>6, LenProperties, ElementOfSeq
    <3> QED  BY <3>1 DEF View!Slots
  <2>2. PICK q : q = View!Request("delete", ChatOf[m], i, m)  OBVIOUS
  <2>3. m \in View!Ids /\ ChatOf[m] \in Chats /\ i \in Nat
    BY <1>0, <1>4, MessagesAreSent DEF View!Ids
  <2>4. /\ q \in ViewReq /\ q.kind = "delete" /\ q.chat = ChatOf[m] /\ q.at = i /\ q.of = m
        /\ q.by = version
    BY <1>0, <2>2, <2>3, RequestIs DEF View!Kinds
  <2>5. PICK z : z = View!Slots(list')  OBVIOUS
  <2>6. r = [q EXCEPT !.seen = z]  BY <1>2, <2>2, <2>5
  <2>7. z \in (SUBSET Messages) \cup (SUBSET (Nat \X View!Ids))  BY <2>1, <2>5
  <2>8. /\ r \in ViewReq /\ r.kind = "delete" /\ r.chat = ChatOf[m] /\ r.at = i /\ r.of = m
        /\ r.by = version /\ r.seen = z
    BY <2>4, <2>6, <2>7 DEF ViewReq
  <2> QED  BY <2>5, <2>8
<1>8. net' = net \cup {r} /\ IsFiniteSet(net') /\ View!Cardinality(net') <= MaxNet
  BY <1>0, <1>3, SendCount DEF NetInv
<1>9. View!TypeOK'  BY <1>0, <1>3, <1>6, <1>8 DEF View!TypeOK
<1>10. version \in Nat /\ version > 0  BY <1>0, <1>3 DEF NetInv, View!TypeOK
<1>11. NetInv'
  <2>1. Sound(r)  BY <1>4, <1>7, <1>10 DEF Sound
  <2> QED  BY <1>0, <1>3, <1>7, <1>8, <1>10, <2>1, NetMore
<1>12. /\ \A c : OfChat(list, c) => OfChat(list', c)
       /\ \A d : Orderly(list, d) => Orderly(list', d)
       /\ \A x \in StoredIn(list') : \E y \in StoredIn(list) : list'[x] = list[y]
  BY <1>5, <1>6, PartIs
<1>13. ChatInv'  BY <1>3, <1>12 DEF ViewInv, ChatInv
<1>14. OrderInv'
  <2> SUFFICES ASSUME "order" \notin mixed'  PROVE OrderInv'  BY DEF OrderInv
  <2>1. Orderly(list, removed) /\ OrderInv  BY <1>3 DEF ViewInv, OrderInv
  <2>2. BackFits(r)'
    <3> SUFFICES ASSUME NEW l \in Seq(View!Ids), View!Slots(l) = r.seen
                 PROVE  Orderly(View!InsertAt(l, Spot(r, l), r.of), removed')
      BY DEF BackFits, Spot
    <3>1. l = list'  BY <1>6, <1>7, SlotsTell
    <3>2. Spot(r, l) = i  BY <1>0, <1>4, <1>5, <1>6, <1>7, <3>1 DEF Spot
    <3>3. View!InsertAt(l, Spot(r, l), r.of) = list  BY <1>5, <1>6, <1>7, <3>1, <3>2
    <3>4. Orderly(list, removed')  BY <1>3, <2>1, OrderlyMore
    <3> QED  BY <3>3, <3>4
  <2>3. \A q \in net' : \/ q \in net \/ q.kind \in {"load", "text", "file"}
                        \/ q.kind = "delete" /\ BackFits(q)'
    <3> SUFFICES ASSUME NEW q \in net'
                 PROVE  \/ q \in net \/ q.kind \in {"load", "text", "file"}
                        \/ q.kind = "delete" /\ BackFits(q)'
      OBVIOUS
    <3>1. CASE q \in net  BY <3>1
    <3>2. CASE q = r
      <4>1. q.kind = "delete"  BY <1>7, <3>2
      <4>2. BackFits(q)'  BY <2>2, <3>2 DEF BackFits, Spot
      <4> QED  BY <4>1, <4>2
    <3> QED  BY <1>8, <3>1, <3>2
  <2> QED  BY <1>3, <1>12, <2>1, <2>3, OrderKept
<1> QED  BY <1>9, <1>11, <1>13, <1>14 DEF ViewInv

\* A message is put back.
LEMMA ViewPutBack ==
  ASSUME ViewInv, NEW r \in net, r.kind = "delete",
         View!Show(View!InsertAt(list, Spot(r, list), r.of)),
         net' = View!Outdated(net \ {r}), View!Mixes(r, r.by # version \/ View!Slots(list) # r.seen),
         View!Fault,
         UNCHANGED <<chat, version, loading, older, hasOlder, sending, store, unsent, late,
                     broken, removed>>
  PROVE  ViewInv'
<1>0. /\ View!TypeOK /\ NetInv /\ Sound(r) /\ list \in Seq(View!Ids) /\ Len(list) \in Nat
  BY LenProperties DEF ViewInv, NetInv, View!TypeOK
<1>1. /\ r.at \in Nat /\ r.at # 0 /\ r.of \in Messages /\ r.of \in View!Ids
      /\ r.chat = ChatOf[r.of]
  BY <1>0 DEF Sound, ViewReq, View!Ids
<1>2. PICK i : i = Spot(r, list)  OBVIOUS
<1>3. i \in 1 .. Len(list) + 1  BY <1>0, <1>1, <1>2 DEF Spot
<1>4. PICK l : l = View!InsertAt(list, i, r.of)  OBVIOUS
<1>5. /\ l \in Seq(View!Ids) /\ Len(l) = Len(list) + 1
      /\ \A x \in 1 .. Len(list) + 1 :
           l[x] = IF x < i THEN list[x] ELSE IF x = i THEN r.of ELSE list[x - 1]
  <2>1. /\ View!InsertAt(list, i, r.of) \in Seq(View!Ids)
        /\ Len(View!InsertAt(list, i, r.of)) = Len(list) + 1
        /\ \A x \in 1 .. Len(list) + 1 :
             View!InsertAt(list, i, r.of)[x] =
               IF x < i THEN list[x] ELSE IF x = i THEN r.of ELSE list[x - 1]
    BY <1>0, <1>1, <1>3, InsertedIs
  <2> QED  BY <1>4, <2>1
<1>6. list' = l /\ list' \in Seq(View!Ids) /\ cache' \in [Chats -> Seq(View!Ids)]
  BY <1>0, <1>2, <1>4, <1>5, ShowTypes
<1>7. /\ NetInv' /\ View!Cardinality(net') <= MaxNet
      /\ \A q \in net' : q.by = version => q.kind = "load"
  BY <1>0, NetOld
<1>8. View!TypeOK'
  <2>1. faults' \in 0 .. MaxFaults  BY <1>0, FaultCount
  <2>2. mixed' \subseteq {"chat", "order"}  BY <1>0 DEF View!Mixes, View!TypeOK
  <2> QED  BY <1>0, <1>6, <1>7, <2>1, <2>2 DEF View!TypeOK
<1>9. ChatInv'
  <2> SUFFICES ASSUME chat # NoChat, "chat" \notin mixed'  PROVE OfChat(list', chat)
    BY DEF ChatInv
  <2>1. "chat" \notin mixed /\ r.chat = chat  BY DEF View!Mixes
  <2>2. OfChat(list, chat)  BY <2>1 DEF ViewInv, ChatInv
  <2>3. ASSUME NEW x \in StoredIn(l)  PROVE ChatOf[l[x]] = chat
    <3>1. x \in 1 .. Len(list) + 1 /\ l[x] \in Messages  BY <1>5 DEF StoredIn
    <3>2. CASE x < i
      <4>1. l[x] = list[x] /\ x \in 1 .. Len(list)
        <5>1. l[x] = IF x < i THEN list[x] ELSE IF x = i THEN r.of ELSE list[x - 1]
          BY <1>5, <3>1
        <5> QED  BY <1>0, <1>3, <3>1, <3>2, <5>1
      <4>2. x \in StoredIn(list)  BY <3>1, <4>1 DEF StoredIn
      <4> QED  BY <2>2, <4>1, <4>2 DEF OfChat
    <3>3. CASE x = i
      <4>1. l[x] = IF x < i THEN list[x] ELSE IF x = i THEN r.of ELSE list[x - 1]
        BY <1>5, <3>1
      <4>2. l[x] = r.of  BY <1>3, <3>3, <4>1
      <4> QED  BY <1>1, <2>1, <4>2
    <3>4. CASE x > i
      <4>1. l[x] = list[x - 1] /\ x - 1 \in 1 .. Len(list)
        <5>1. l[x] = IF x < i THEN list[x] ELSE IF x = i THEN r.of ELSE list[x - 1]
          BY <1>5, <3>1
        <5> QED  BY <1>0, <1>3, <3>1, <3>4, <5>1
      <4>2. x - 1 \in StoredIn(list)  BY <3>1, <4>1 DEF StoredIn
      <4> QED  BY <2>2, <4>1, <4>2 DEF OfChat
    <3> QED  BY <1>3, <3>1, <3>2, <3>3, <3>4
  <2> QED  BY <1>6, <2>3 DEF OfChat
<1>10. "order" \notin mixed' => Orderly(list', removed')
  <2> SUFFICES ASSUME "order" \notin mixed'  PROVE Orderly(list', removed)  OBVIOUS
  <2>1. "order" \notin mixed /\ r.by = version /\ View!Slots(list) = r.seen  BY DEF View!Mixes
  <2>2. BackFits(r)  BY <2>1 DEF ViewInv, OrderInv
  <2> QED  BY <1>0, <1>2, <1>4, <1>6, <2>1, <2>2 DEF BackFits
<1>11. OrderInv'  BY <1>7, <1>10, OrderAlone
<1> QED  BY <1>7, <1>8, <1>9, <1>11 DEF ViewInv

LEMMA ViewDeleted ==
  ASSUME ViewInv, NEW r \in net, View!Deleted(r)
  PROVE  ViewInv'
<1>0. View!TypeOK /\ NetInv /\ r.kind = "delete"
  BY DEF ViewInv, View!Deleted
<1>1. UNCHANGED <<chat, version, loading, older, hasOlder, sending, store, unsent, late,
                  broken, removed>>
  BY DEF View!Deleted, View!opened, View!flags
<1>2. CASE net' = net \ {r} /\ UNCHANGED <<list, cache, mixed, faults>>
  <2>1. View!Cardinality(net') <= MaxNet  BY <1>0, <1>2, LessCount DEF NetInv, View!TypeOK
  <2>2. View!TypeOK'  BY <1>0, <1>1, <1>2, <2>1 DEF View!TypeOK
  <2>3. NetInv'  BY <1>0, <1>1, <1>2, NetLess
  <2> QED  BY <1>1, <1>2, <2>2, <2>3, InvKept
<1>3. CASE /\ View!Fault /\ View!Show(View!InsertAt(list, Spot(r, list), r.of))
           /\ net' = View!Outdated(net \ {r})
           /\ View!Mixes(r, r.by # version \/ View!Slots(list) # r.seen)
  BY <1>0, <1>1, <1>3, ViewPutBack
<1> QED  BY <1>2, <1>3 DEF View!Deleted, View!Done, View!shown, Spot

-----------------------------------------------------------------------------
(* ChatView: every step.                                                   *)

LEMMA ViewStarts == View!Init => ViewInv
<1> SUFFICES ASSUME View!Init  PROVE ViewInv  OBVIOUS
<1>1. list = <<>> /\ net = {} /\ chat = NoChat /\ removed = {}  BY DEF View!Init
<1>2. IsFiniteSet({}) /\ View!Cardinality({}) = 0  BY FS_EmptySet, ViewCount
<1>3. <<>> \in Seq(View!Ids)  BY EmptySeq
<1>4. View!TypeOK
  <2>1. cache \in [Chats -> Seq(View!Ids)]  BY <1>3 DEF View!Init
  <2>2. View!Cardinality(net) <= MaxNet  BY <1>1, <1>2, ViewBounds
  <2>3. version \in 0 .. MaxLoads /\ faults \in 0 .. MaxFaults
    BY ViewBounds, BoundsAreNumbers DEF View!Init
  <2>4. /\ {loading, older, hasOlder, sending} \subseteq BOOLEAN
        /\ mixed \subseteq {"chat", "order"} /\ broken \subseteq {"loading", "older", "sending"}
        /\ store \subseteq Messages /\ late \subseteq store /\ removed \subseteq Messages
        /\ unsent \subseteq Locals
    BY DEF View!Init
  <2> QED  BY <1>1, <1>3, <2>1, <2>2, <2>3, <2>4 DEF View!TypeOK
<1>5. NetInv  BY <1>1, <1>2 DEF NetInv
<1>6. Orderly(list, removed)
  <2>1. StoredIn(list) = {}  BY <1>1 DEF StoredIn
  <2> QED  BY <2>1 DEF Orderly
<1> QED  BY <1>1, <1>4, <1>5, <1>6 DEF ViewInv, ChatInv, OrderInv

LEMMA ViewStutters ==
  ASSUME ViewInv, UNCHANGED <<chat, list, cache, version, loading, older, hasOlder, sending, store,
                              net, unsent, mixed, late, broken, removed, faults>>
  PROVE  ViewInv'
<1>1. View!TypeOK'  BY DEF ViewInv, View!TypeOK
<1>2. NetInv'  BY NetLess DEF ViewInv
<1> QED  BY <1>1, <1>2, InvKept

LEMMA ViewKept == ViewInv /\ View!Next => ViewInv'
<1> SUFFICES ASSUME ViewInv, View!Next  PROVE ViewInv'  OBVIOUS
<1>1. CASE \E c \in Chats : View!Select(c)  BY <1>1, ViewSelect
<1>2. CASE View!Deselect  BY <1>2, ViewDeselect
<1>3. CASE View!LoadOlder  BY <1>3, ViewLoadOlder
<1>4. CASE View!Poll  BY <1>4, ViewPoll
<1>5. CASE View!SendMessage \/ View!SendFile  BY <1>5, ViewSend
<1>6. CASE \E m \in Messages : View!Arrive(m) \/ View!DeleteMessage(m)
  BY <1>6, ViewArrive, ViewDelete
<1>7. CASE \E kind \in View!Kinds : View!Answer(kind)
  <2>1. PICK r \in net : \/ View!Loaded(r) \/ View!LoadedOlder(r) \/ View!Backfill(r) \/ View!Polled(r)
                         \/ View!SentMessage(r) \/ View!SentFile(r) \/ View!Deleted(r)
    BY <1>7 DEF View!Answer
  <2> QED
    BY <2>1, ViewLoaded, ViewLoadedOlder, ViewBackfill, ViewPolled, ViewSent, ViewDeleted
<1> QED  BY <1>1, <1>2, <1>3, <1>4, <1>5, <1>6, <1>7 DEF View!Next

\* No message is twice in a list that goes by the time.
LEMMA OnceEach ==
  ASSUME NEW l \in Seq(View!Ids), NEW d, Orderly(l, d), NEW m \in Messages \ d
  PROVE  View!Cardinality({i \in DOMAIN l : l[i] = m}) <= 1
<1> DEFINE I == {i \in DOMAIN l : l[i] = m}
<1>1. DOMAIN l = 1 .. Len(l) /\ Len(l) \in Nat  BY LenProperties
<1>2. \A i, j \in I : i = j
  <2>1. \A i \in I : i \in StoredIn(l) /\ i \in Nat /\ l[i] = m /\ l[i] \notin d  BY <1>1 DEF StoredIn
  <2>2. \A i, j \in I : ~(i < j)  BY <2>1 DEF Orderly
  <2> HIDE DEF I
  <2> QED  BY <2>1, <2>2
<1> HIDE DEF I
<1>3. CASE I = {}  BY <1>3, FS_EmptySet, ViewCount DEF I
<1>4. CASE I # {}
  <2>1. PICK i \in I : TRUE  BY <1>4
  <2>2. I = {i}  BY <1>2, <2>1
  <2>3. Cardinality(I) = 1  BY <2>2, FS_Singleton
  <2> QED  BY <2>3, ViewCount DEF I
<1> QED  BY <1>3, <1>4

\* The list shown is of the chat selected and shows no message twice, whatever
\* loads, pages, polls, sendings and deletions overlap, but for what "mixed"
\* names (useMessages.ts:89-234, 508-562).
THEOREM ListStaysRight == View!Spec => []ListIsRight
<1>1. ViewInv /\ [View!Next]_View!vars => ViewInv'
  <2>1. UNCHANGED View!vars =>
          UNCHANGED <<chat, list, cache, version, loading, older, hasOlder, sending, store,
                      net, unsent, mixed, late, broken, removed, faults>>
    BY DEF View!vars, View!opened, View!shown, View!flags, View!bounds, View!history
  <2> QED  BY <2>1, ViewKept, ViewStutters
<1>2. ViewInv => ListIsRight
  <2> SUFFICES ASSUME ViewInv  PROVE View!ListIsOfChat /\ View!NoDuplicates  BY DEF ListIsRight
  <2>1. list \in Seq(View!Ids)  BY DEF ViewInv, View!TypeOK
  <2>2. View!ListIsOfChat
    <3> SUFFICES ASSUME chat # NoChat, "chat" \notin mixed,
                        NEW m \in View!ToSet(list) \cap Messages
                 PROVE  ChatOf[m] = chat
      BY DEF View!ListIsOfChat
    <3>1. PICK i \in DOMAIN list : list[i] = m  BY DEF View!ToSet
    <3>2. i \in StoredIn(list)  BY <2>1, <3>1, LenProperties DEF StoredIn
    <3> QED  BY <3>1, <3>2 DEF ViewInv, ChatInv, OfChat
  <2>3. View!NoDuplicates
    BY <2>1, OnceEach DEF ViewInv, OrderInv, View!NoDuplicates
  <2> QED  BY <2>2, <2>3
<1> QED  BY <1>1, <1>2, ViewStarts, PTL DEF View!Spec

-----------------------------------------------------------------------------
(* ChatView: nothing is waited for in vain.                                *)

\* The requests that take the flags of the list down.
Loads(r) == r.kind = "load" /\ r.by = version
Sends(r) == r.kind \in {"text", "file"}

\* The flags that went up, and those whose request is gone.
LEMMA FlagsStay ==
  ASSUME View!FlagsAwaited, broken \subseteq broken',
         loading' => \/ loading /\ (\A r \in net : Loads(r) => \E q \in net' : Loads(q)')
                     \/ "loading" \in broken' \/ \E q \in net' : Loads(q)',
         older' => \/ older /\ (\A r \in net : Paging(r) => \E q \in net' : Paging(q))
                   \/ "older" \in broken' \/ \E q \in net' : Paging(q),
         sending' => \/ sending /\ (\A r \in net : Sends(r) => \E q \in net' : Sends(q))
                     \/ "sending" \in broken' \/ \E q \in net' : Sends(q)
  PROVE  View!FlagsAwaited'
BY DEF View!FlagsAwaited, Loads, Paging, Sends

\* The clicks, the poll and what arrives.
LEMMA ClicksAwaited ==
  ASSUME ViewInv, View!FlagsAwaited,
         \/ \E c \in Chats : View!Select(c)
         \/ View!Deselect \/ View!LoadOlder \/ View!Poll \/ View!SendMessage \/ View!SendFile
         \/ \E m \in Messages : View!Arrive(m) \/ View!DeleteMessage(m)
  PROVE  View!FlagsAwaited'
<1> USE DEF View!opened, View!shown, View!flags, View!bounds, View!history, View!Send
<1>1. ASSUME NEW c \in Chats, View!Select(c)  PROVE View!FlagsAwaited'
  <2>1. PICK r : r = [View!Request("load", c, 0, NoChat) EXCEPT !.by = version + 1]  OBVIOUS
  <2>2. r.kind = "load" /\ r.by = version + 1  BY <2>1 DEF View!Request
  <2>3. net' = net \cup {r} /\ version' = version + 1 /\ UNCHANGED <<older, sending, broken>>
    BY <1>1, <2>1 DEF View!Select
  <2>4. \E q \in net' : Loads(q)'  BY <2>2, <2>3 DEF Loads
  <2>5. net \subseteq net' /\ broken \subseteq broken'  BY <2>3
  <2> QED  BY <2>3, <2>4, <2>5, FlagsStay
<1>2. CASE View!Deselect \/ \E m \in Messages : View!Arrive(m)
  <2>1. UNCHANGED <<net, version, loading, older, sending, broken>>
    BY <1>2 DEF View!Deselect, View!Arrive
  <2> QED  BY <2>1 DEF View!FlagsAwaited
<1>3. CASE View!LoadOlder
  <2>1. PICK r : r = View!Request("older", chat, View!Head1(list), NoChat)  OBVIOUS
  <2>2. Paging(r)  BY <2>1 DEF Paging, View!Request
  <2>3. net' = net \cup {r} /\ UNCHANGED <<version, loading, sending, broken>>
    BY <1>3, <2>1 DEF View!LoadOlder
  <2>4. \E q \in net' : Paging(q)  BY <2>2, <2>3
  <2>5. net \subseteq net' /\ \A q : Loads(q)' <=> Loads(q)  BY <2>3 DEF Loads
  <2> QED  BY <2>3, <2>4, <2>5, FlagsStay
<1>4. CASE View!Poll \/ \E m \in Messages : View!DeleteMessage(m)
  <2>1. net \subseteq net' /\ UNCHANGED <<version, loading, older, sending, broken>>
    BY <1>4 DEF View!Poll, View!DeleteMessage
  <2> QED  BY <2>1 DEF View!FlagsAwaited
<1>5. CASE View!SendMessage \/ View!SendFile
  <2>1. PICK x \in unsent, kind \in {"text", "file"} :
          /\ net' = net \cup {View!Request(kind, chat, 0, x)}
          /\ UNCHANGED <<version, loading, older, broken>>
    BY <1>5 DEF View!SendMessage, View!SendFile
  <2>2. PICK r : r = View!Request(kind, chat, 0, x)  OBVIOUS
  <2>3. Sends(r)  BY <2>2 DEF Sends, View!Request
  <2>4. \E q \in net' : Sends(q)  BY <2>1, <2>2, <2>3
  <2>5. net \subseteq net' /\ \A q : Loads(q)' <=> Loads(q)  BY <2>1 DEF Loads
  <2> QED  BY <2>1, <2>4, <2>5, FlagsStay
<1> QED  BY <1>1, <1>2, <1>3, <1>4, <1>5

\* The answers: the request that ends takes its flag down, or breaks.
LEMMA AnswersAwaited ==
  ASSUME ViewInv, View!FlagsAwaited, NEW r \in net,
         \/ View!Loaded(r) \/ View!LoadedOlder(r) \/ View!Backfill(r) \/ View!Polled(r)
         \/ View!SentMessage(r) \/ View!SentFile(r) \/ View!Deleted(r)
  PROVE  View!FlagsAwaited'
<1> USE DEF View!opened, View!flags, View!history, View!Done
<1>0. version' = version /\ broken \subseteq broken'
  BY DEF View!Loaded, View!LoadedOlder, View!Backfill, View!Polled, View!SentMessage,
         View!SentFile, View!Deleted, View!Break
<1>1. \A q \in net : q \in ViewReq  BY DEF ViewInv, NetInv, Sound
\* Whoever is not r stays, in its own kind and as the load it was.
<1>2. ASSUME NEW q \in net, q # r
      PROVE  \E p \in net' : p.kind = q.kind /\ (Loads(q) => Loads(p)')
  <2>1. CASE q \in net'  BY <1>0, <2>1 DEF Loads
  <2>2. CASE net' = View!Outdated(net \ {r})
    <3>1. net' = {Old(p) : p \in net \ {r}}  BY <2>2 DEF View!Outdated, Old
    <3>2. Old(q) \in net'  BY <1>2, <3>1
    <3>3. Old(q).kind = q.kind /\ (q.kind = "load" => Old(q) = q)  BY <1>1, OldIs
    <3> QED  BY <1>0, <3>2, <3>3 DEF Loads
  <2>3. q \in net' \/ net' = View!Outdated(net \ {r})
    BY <1>2 DEF View!Loaded, View!LoadedOlder, View!Backfill, View!Polled, View!SentMessage,
                View!SentFile, View!Deleted
  <2> QED  BY <2>1, <2>2, <2>3
<1>3. /\ loading /\ ~Loads(r) => \A q \in net : Loads(q) => \E p \in net' : Loads(p)'
      /\ older /\ ~Paging(r) => \A q \in net : Paging(q) => \E p \in net' : Paging(p)
      /\ sending /\ ~Sends(r) => \A q \in net : Sends(q) => \E p \in net' : Sends(p)
  BY <1>2 DEF Paging, Sends
<1>4. CASE View!Loaded(r)
  <2>1. /\ ~Paging(r) /\ ~Sends(r) /\ UNCHANGED <<older, sending>>
        /\ (~Loads(r) /\ loading' = loading) \/ loading' = FALSE \/ "loading" \in broken'
    BY <1>4 DEF View!Loaded, View!Break, Loads, Paging, Sends
  <2> QED  BY <1>0, <1>3, <2>1, FlagsStay
<1>5. CASE View!LoadedOlder(r)
  <2>1. /\ ~Loads(r) /\ ~Sends(r) /\ UNCHANGED <<loading, sending>>
        /\ older' = FALSE \/ "older" \in broken'
    BY <1>5 DEF View!LoadedOlder, View!Break, Loads, Sends
  <2> QED  BY <1>0, <1>3, <2>1, FlagsStay
<1>6. CASE View!Backfill(r)
  <2>1. /\ ~Loads(r) /\ ~Sends(r) /\ UNCHANGED <<loading, older, sending>>
        /\ [r EXCEPT !.kind = "retry", !.seen = store] \in net'
    BY <1>6 DEF View!Backfill, Loads, Sends
  <2>2. [r EXCEPT !.kind = "retry", !.seen = store].kind = "retry"  BY <1>1 DEF ViewReq
  <2>3. \E p \in net' : Paging(p)  BY <2>1, <2>2 DEF Paging
  <2> QED  BY <1>0, <1>3, <2>1, <2>3, FlagsStay
<1>7. CASE View!Polled(r) \/ View!Deleted(r)
  <2>1. /\ ~Loads(r) /\ ~Paging(r) /\ ~Sends(r) /\ UNCHANGED <<loading, older, sending>>
    BY <1>7 DEF View!Polled, View!Deleted, Loads, Paging, Sends
  <2> QED  BY <1>0, <1>3, <2>1, FlagsStay
<1>8. CASE View!SentMessage(r) \/ View!SentFile(r)
  <2>1. /\ ~Loads(r) /\ ~Paging(r) /\ UNCHANGED <<loading, older>>
        /\ sending' = FALSE \/ "sending" \in broken'
    BY <1>8 DEF View!SentMessage, View!SentFile, View!Break, Loads, Paging
  <2> QED  BY <1>0, <1>3, <2>1, FlagsStay
<1> QED  BY <1>4, <1>5, <1>6, <1>7, <1>8

\* A flag of the conversation that is up has its request under way, or one like it
\* broke, whichever chats were selected and loads overtaken meanwhile
\* (useMessages.ts:89-140, 142-272).
THEOREM FlagsWaitForAnswers == View!Spec => []View!FlagsAwaited
<1>1. View!Init => View!FlagsAwaited  BY DEF View!Init, View!FlagsAwaited
<1>2. ViewInv /\ View!FlagsAwaited /\ [View!Next]_View!vars => View!FlagsAwaited'
  <2>1. UNCHANGED View!vars => UNCHANGED <<net, version, loading, older, sending, broken>>
    BY DEF View!vars, View!opened, View!flags, View!history
  <2>2. UNCHANGED View!vars /\ View!FlagsAwaited => View!FlagsAwaited'
    BY <2>1 DEF View!FlagsAwaited
  <2> QED  BY <2>2, ClicksAwaited, AnswersAwaited DEF View!Next, View!Answer
<1>3. ViewInv /\ [View!Next]_View!vars => ViewInv'
  <2>1. UNCHANGED View!vars =>
          UNCHANGED <<chat, list, cache, version, loading, older, hasOlder, sending, store,
                      net, unsent, mixed, late, broken, removed, faults>>
    BY DEF View!vars, View!opened, View!shown, View!flags, View!bounds, View!history
  <2> QED  BY <2>1, ViewKept, ViewStutters
<1> QED  BY <1>1, <1>2, <1>3, ViewStarts, PTL DEF View!Spec

-----------------------------------------------------------------------------
(* Dialogs: its types.                                                     *)

DialogReq ==
  [kind : Dialog!Kinds, chat : Chats, with : SUBSET (Rows \cup {"text", "file"}), click : BOOLEAN]

LEMMA AskIs ==
  ASSUME NEW kind \in Dialog!Kinds, NEW c \in Chats,
         NEW with \in SUBSET (Rows \cup {"text", "file"}), NEW click \in BOOLEAN
  PROVE  Dialog!Ask(kind, c, with, click) \in DialogReq
BY DEF Dialog!Ask, DialogReq

DialogTypes ==
  /\ selected \in Chats /\ dialog \in {"none", "schedule", "summary", "contacts"}
  /\ scheduled \in [Rows -> Chats \cup {NoChat}] /\ items \subseteq Rows
  /\ draft \subseteq {"text", "file"} /\ chosen \subseteq {"text", "file"}
  /\ {busy, making, passing, contact} \subseteq BOOLEAN
  /\ summary \in Chats \cup {NoChat} /\ requests \subseteq DialogReq
  /\ disturbed \subseteq {"form", "items", "summary"}

LEMMA DialogParts == Dialog!TypeOK <=> DialogTypes
BY DEF Dialog!TypeOK, DialogTypes, DialogReq

LEMMA DialogPartsNext == Dialog!TypeOK' <=> DialogTypes'
BY DEF Dialog!TypeOK, DialogTypes, DialogReq

LEMMA DialogClickTypes ==
  ASSUME DialogTypes, Dialog!Click
  PROVE  DialogTypes'
<1> USE DEF DialogTypes, Dialog!form, Dialog!panel, Dialog!Disturb, Dialog!Send
<1>0. /\ {} \in SUBSET (Rows \cup {"text", "file"}) /\ draft \in SUBSET (Rows \cup {"text", "file"})
      /\ \A n \in items : {n} \in SUBSET (Rows \cup {"text", "file"})
      /\ {"load", "read", "post", "cancel", "make", "pass", "card"} \subseteq Dialog!Kinds
  BY DEF Dialog!Kinds
<1>1. ASSUME NEW c \in Chats, Dialog!Select(c)  PROVE DialogTypes'  BY <1>1 DEF Dialog!Select
<1>2. CASE Dialog!OpenSchedule
  <2>1. Dialog!Ask("load", selected, {}, FALSE) \in DialogReq  BY <1>0, AskIs
  <2> QED  BY <1>2, <2>1 DEF Dialog!OpenSchedule
<1>3. CASE Dialog!CloseSchedule  BY <1>3 DEF Dialog!CloseSchedule
<1>4. CASE Dialog!OpenSummary  BY <1>4 DEF Dialog!OpenSummary
<1>5. CASE Dialog!CloseSummary  BY <1>5 DEF Dialog!CloseSummary
<1>6. CASE Dialog!OpenContacts \/ Dialog!CloseContacts
  BY <1>6 DEF Dialog!OpenContacts, Dialog!CloseContacts
<1>7. CASE Dialog!RefreshToken
  <2>1. Dialog!Ask("load", selected, {}, FALSE) \in DialogReq  BY <1>0, AskIs
  <2> QED  BY <1>7, <2>1 DEF Dialog!RefreshToken
<1>8. CASE Dialog!Type \/ Dialog!Detach  BY <1>8 DEF Dialog!Type, Dialog!Detach
<1>9. CASE Dialog!Attach
  <2>1. Dialog!Ask("read", selected, {}, FALSE) \in DialogReq  BY <1>0, AskIs
  <2> QED  BY <1>9, <2>1 DEF Dialog!Attach
<1>10. CASE Dialog!Schedule
  <2>1. Dialog!Ask("post", selected, draft, TRUE) \in DialogReq  BY <1>0, AskIs
  <2> QED  BY <1>10, <2>1 DEF Dialog!Schedule
<1>11. ASSUME NEW n \in Rows, Dialog!CancelRow(n)  PROVE DialogTypes'
  <2>1. Dialog!Ask("cancel", selected, {n}, FALSE) \in DialogReq
    BY <1>0, <1>11, AskIs DEF Dialog!CancelRow
  <2> QED  BY <1>11, <2>1 DEF Dialog!CancelRow
<1>12. CASE Dialog!Generate
  <2>1. Dialog!Ask("make", selected, {}, TRUE) \in DialogReq  BY <1>0, AskIs
  <2> QED  BY <1>12, <2>1 DEF Dialog!Generate
<1>13. CASE Dialog!Again  BY <1>13 DEF Dialog!Again
<1>14. CASE Dialog!SendToChat
  <2>1. Dialog!Ask("pass", selected, {}, TRUE) \in DialogReq  BY <1>0, AskIs
  <2> QED  BY <1>14, <2>1 DEF Dialog!SendToChat
<1>15. CASE Dialog!SendContact
  <2>1. Dialog!Ask("card", selected, {}, TRUE) \in DialogReq  BY <1>0, AskIs
  <2> QED  BY <1>15, <2>1 DEF Dialog!SendContact
<1> QED
  BY <1>1, <1>2, <1>3, <1>4, <1>5, <1>6, <1>7, <1>8, <1>9, <1>10, <1>11, <1>12, <1>13, <1>14,
     <1>15 DEF Dialog!Click

LEMMA DialogAnswerTypes ==
  ASSUME DialogTypes, NEW kind, NEW click, Dialog!Answer(kind, click)
  PROVE  DialogTypes'
<1> USE DEF DialogTypes, Dialog!form, Dialog!panel, Dialog!Disturb
<1>0. /\ "load" \in Dialog!Kinds /\ {} \in SUBSET (Rows \cup {"text", "file"})
      /\ \A r \in requests : r.chat \in Chats /\ r.with \in SUBSET (Rows \cup {"text", "file"})
  BY DEF DialogReq, Dialog!Kinds
<1>1. ASSUME NEW r, Dialog!Attached(r)  PROVE DialogTypes'  BY <1>1 DEF Dialog!Attached
<1>2. ASSUME NEW r, Dialog!Posted(r)  PROVE DialogTypes'
  <2>1. Dialog!Ask("load", r.chat, {}, TRUE) \in DialogReq
    BY <1>0, <1>2, AskIs DEF Dialog!Posted
  <2> QED  BY <1>0, <1>2, <2>1 DEF Dialog!Posted
<1>3. ASSUME NEW r, Dialog!Cancelled(r)  PROVE DialogTypes'
  <2>1. Dialog!Ask("load", r.chat, {}, FALSE) \in DialogReq
    BY <1>0, <1>3, AskIs DEF Dialog!Cancelled
  <2> QED  BY <1>3, <2>1 DEF Dialog!Cancelled
<1>4. ASSUME NEW r, Dialog!Loaded(r)  PROVE DialogTypes'
  <2>1. items' \subseteq Rows /\ busy' \in BOOLEAN
    BY <1>4 DEF Dialog!Loaded, Dialog!RowsOf
  <2> QED  BY <1>4, <2>1 DEF Dialog!Loaded
<1>5. ASSUME NEW r, Dialog!Generated(r)  PROVE DialogTypes'
  BY <1>0, <1>5 DEF Dialog!Generated, Dialog!Summarised
<1>6. ASSUME NEW r, Dialog!SentToChat(r)  PROVE DialogTypes'
  BY <1>0, <1>6 DEF Dialog!SentToChat, Dialog!Summarised
<1>7. ASSUME NEW r, Dialog!ContactSent(r)  PROVE DialogTypes'
  BY <1>7 DEF Dialog!ContactSent
<1> QED  BY <1>1, <1>2, <1>3, <1>4, <1>5, <1>6, <1>7 DEF Dialog!Answer

-----------------------------------------------------------------------------
(* The parts together: a step of one leaves the others as they are, but    *)
(* for the requests that have failed, which three of them count.           *)

BrowserInv == IInv /\ ViewInv /\ Star!TypeOK /\ Dialog!TypeOK

\* More requests have failed.
FaultsOnly == faults' \in 0 .. MaxFaults /\ (faults' = 0 => faults = 0)

LEMMA FaultIsOne ==
  ASSUME faults \in 0 .. MaxFaults, faults' = faults \/ faults' = faults + 1,
         faults' \in 0 .. MaxFaults
  PROVE  FaultsOnly
BY BoundsAreNumbers DEF FaultsOnly

LEMMA ViewFaults ==
  ASSUME View!Next
  PROVE  faults' = faults \/ faults' = faults + 1
<1> USE DEF View!bounds, View!Fault, View!Break
<1>1. CASE \E kind \in View!Kinds : View!Answer(kind)
  <2>1. PICK r \in net : \/ View!Loaded(r) \/ View!LoadedOlder(r) \/ View!Backfill(r) \/ View!Polled(r)
                         \/ View!SentMessage(r) \/ View!SentFile(r) \/ View!Deleted(r)
    BY <1>1 DEF View!Answer
  <2>2. CASE View!Loaded(r)  BY <2>2 DEF View!Loaded
  <2>3. CASE View!LoadedOlder(r)  BY <2>3 DEF View!LoadedOlder
  <2>4. CASE View!Backfill(r) \/ View!Polled(r)  BY <2>4 DEF View!Backfill, View!Polled
  <2>5. CASE View!SentMessage(r) \/ View!SentFile(r)  BY <2>5 DEF View!SentMessage, View!SentFile
  <2>6. CASE View!Deleted(r)  BY <2>6 DEF View!Deleted
  <2> QED  BY <2>1, <2>2, <2>3, <2>4, <2>5, <2>6
<1>2. CASE (\E c \in Chats : View!Select(c)) \/ View!Deselect \/ View!LoadOlder \/ View!Poll
  BY <1>2 DEF View!Select, View!Deselect, View!LoadOlder, View!Poll
<1>3. CASE View!SendMessage \/ View!SendFile  BY <1>3 DEF View!SendMessage, View!SendFile
<1>4. CASE \E m \in Messages : View!Arrive(m) \/ View!DeleteMessage(m)
  BY <1>4 DEF View!Arrive, View!DeleteMessage
<1> QED  BY <1>1, <1>2, <1>3, <1>4 DEF View!Next

LEMMA StarNextFaults ==
  ASSUME Star!Next
  PROVE  faults' = faults \/ faults' = faults + 1
BY DEF Star!Next, Star!Hydrate, Star!Replace, Star!Extend, Star!Click, Star!Serve, Star!Answer,
       Star!Break, Star!Fault

LEMMA TextFaults ==
  ASSUME Next
  PROVE  faults' = faults \/ faults' = faults + 1
<1>1. ASSUME NEW a \in Audios, PostStep(a)  PROVE faults' = faults \/ faults' = faults + 1
  BY <1>1 DEF PostStep, Answered, Ask, Transcribed, Fault
<1> QED
  BY <1>1 DEF Next, Replace, Extend, Hydrated, Record, Recorded, Fault

LEMMA TextsWait ==
  ASSUME IInv, FaultsOnly, UNCHANGED textVars
  PROVE  IInv'
<1>1. TypeOK'  BY DEF IInv, TypeOK, textVars, FaultsOnly
<1>2. BulkInv' /\ OnePost'  BY DEF IInv, BulkInv, OnePost, textVars
<1>3. PaidInv'  BY DEF IInv, PaidInv, Bought, textVars, FaultsOnly
<1> QED  BY <1>1, <1>2, <1>3 DEF IInv

LEMMA ViewWaits ==
  ASSUME ViewInv, FaultsOnly, UNCHANGED viewVars
  PROVE  ViewInv'
<1>1. View!TypeOK'  BY DEF ViewInv, View!TypeOK, viewVars, FaultsOnly
<1>2. NetInv'  BY NetLess DEF ViewInv, viewVars
<1> QED  BY <1>1, <1>2, InvKept DEF viewVars

LEMMA StarsWait ==
  ASSUME Star!TypeOK, FaultsOnly, UNCHANGED starVars
  PROVE  Star!TypeOK'
<1>1. StarTypes  BY StarParts
<1>2. StarTypes'  BY <1>1 DEF StarTypes, starVars
<1> QED  BY <1>2, StarPartsNext DEF FaultsOnly

LEMMA DialogsWait ==
  ASSUME Dialog!TypeOK, UNCHANGED dialogVars
  PROVE  Dialog!TypeOK'
<1>1. DialogTypes  BY DialogParts
<1>2. DialogTypes'  BY <1>1 DEF DialogTypes, dialogVars
<1> QED  BY <1>2, DialogPartsNext

LEMMA BrowserStarts == BrowserInit => BrowserInv
<1> SUFFICES ASSUME BrowserInit  PROVE BrowserInv  OBVIOUS
<1>1. IInv /\ ViewInv /\ Star!TypeOK  BY InitInv, ViewStarts, StarStart DEF BrowserInit
<1>2. DialogTypes  BY DEF BrowserInit, Dialog!Init, DialogTypes
<1> QED  BY <1>1, <1>2, DialogParts DEF BrowserInv

LEMMA BrowserStep == BrowserInv /\ [BrowserNext]_allVars => BrowserInv'
<1> SUFFICES ASSUME BrowserInv, [BrowserNext]_allVars  PROVE BrowserInv'  OBVIOUS
<1>0. /\ IInv /\ ViewInv /\ Star!TypeOK /\ Dialog!TypeOK
      /\ faults \in 0 .. MaxFaults
  BY DEF BrowserInv, IInv, TypeOK
<1>1. CASE View!Next /\ UNCHANGED <<starVars, textVars, dialogVars>>
  <2>1. ViewInv'  BY <1>0, <1>1, ViewKept
  <2>2. FaultsOnly
    <3>1. faults' \in 0 .. MaxFaults  BY <2>1 DEF ViewInv, View!TypeOK
    <3> QED  BY <1>0, <1>1, <3>1, ViewFaults, FaultIsOne
  <2> QED  BY <1>0, <1>1, <2>1, <2>2, TextsWait, StarsWait, DialogsWait DEF BrowserInv
<1>2. CASE Star!Next /\ UNCHANGED <<viewVars, textVars, dialogVars>>
  <2>1. Star!TypeOK'  BY <1>0, <1>2, StarTypeStep
  <2>2. FaultsOnly
    <3>1. faults' \in 0 .. MaxFaults  BY <2>1, StarPartsNext
    <3> QED  BY <1>0, <1>2, <3>1, StarNextFaults, FaultIsOne
  <2> QED  BY <1>0, <1>2, <2>1, <2>2, TextsWait, ViewWaits, DialogsWait DEF BrowserInv
<1>3. CASE Next /\ UNCHANGED <<viewVars, starVars, dialogVars>>
  <2>1. IInv'  BY <1>0, <1>3, StepInv
  <2>2. FaultsOnly
    <3>1. faults' \in 0 .. MaxFaults  BY <2>1 DEF IInv, TypeOK
    <3> QED  BY <1>0, <1>3, <3>1, TextFaults, FaultIsOne
  <2> QED  BY <1>0, <1>3, <2>1, <2>2, ViewWaits, StarsWait, DialogsWait DEF BrowserInv
<1>4. CASE Dialog!Next /\ UNCHANGED <<viewVars, starVars, textVars, faults>>
  <2>1. DialogTypes'
    <3>1. DialogTypes  BY <1>0, DialogParts
    <3> QED  BY <1>4, <3>1, DialogClickTypes, DialogAnswerTypes DEF Dialog!Next
  <2>2. Dialog!TypeOK'  BY <2>1, DialogPartsNext
  <2>3. FaultsOnly  BY <1>0, <1>4 DEF FaultsOnly
  <2> QED  BY <1>0, <1>4, <2>2, <2>3, ViewWaits, StarsWait, TextsWait DEF BrowserInv
<1>5. CASE UNCHANGED allVars
  <2>1. FaultsOnly /\ UNCHANGED <<viewVars, starVars, textVars, dialogVars>>
    BY <1>0, <1>5 DEF allVars, FaultsOnly
  <2> QED  BY <1>0, <2>1, TextsWait, ViewWaits, StarsWait, DialogsWait DEF BrowserInv
<1> QED  BY <1>1, <1>2, <1>3, <1>4, <1>5 DEF BrowserNext

\* The list, the requests, the stars, the texts and the dialogs keep their
\* types (useMessages.ts, useTranscriptions.ts, ScheduleMessageModal.tsx,
\* SummaryModal.tsx, ContactPickerModal.tsx).
THEOREM BrowserTypesCorrect == BrowserSpec => []BrowserTypeOK
<1>1. BrowserInv => BrowserTypeOK  BY DEF BrowserInv, IInv, ViewInv, BrowserTypeOK
<1> QED  BY <1>1, BrowserStarts, BrowserStep, PTL DEF BrowserSpec

===============================================================================
