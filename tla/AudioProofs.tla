------------------------------ MODULE AudioProofs ------------------------------
(***************************************************************************)
(* What TLAPS proves of AudioPipeline, for any number of audios,           *)
(* deliveries, attempts and faults.                                        *)
(***************************************************************************)
EXTENDS AudioPipeline, TLAPS

\* A request that stands for its audio: past the duplicate check, or stored.
Held(q) == phase[q] \in Unstored \/ row[q] # "none"

\* An audio nobody overtook is in the hands of one request.
OneHolder ==
  \A x, y \in Requests :
    AudioOf(x) = AudioOf(y) /\ AudioOf(x) \notin raced /\ Held(x) /\ Held(y) => x = y

\* What a request's place in the route says of its row and of its event.
RequestInv(q) ==
  /\ phase[q] \in Unstored \cup {"none", "lookup", "check"} => row[q] = "none"
  /\ phase[q] \in {"index", "transcribed"} => row[q] = "transcribed"
  /\ phase[q] = "duplicate" => \E x \in Requests : AudioOf(x) = AudioOf(q) /\ row[x] # "none"
  /\ phase[q] = "rejected" => ~event[AudioOf(q)].valid
  /\ q[2] > attempt[q[1]] => phase[q] = "none"
  /\ faults = 0 => /\ phase[q] \notin {"fail", "failed"}
                   /\ phase[q] = "skipped" => row[q] # "none"

\* The answer a task ended with, or is about to reply to.
Last(d) == <<d, attempt[d]>>

TaskInv(d) ==
  /\ task[d] = "none" => attempt[d] = 0
  /\ task[d] = "ready" => attempt[d] < Retries
  /\ task[d] \in {"waiting", "reply", "done"} => attempt[d] > 0
  /\ task[d] = "reply" => phase[Last(d)] = "transcribed" /\ reply[Last(d)]
  /\ d \in replied => /\ task[d] = "done"
                      /\ phase[Last(d)] = "transcribed" /\ reply[Last(d)]
  /\ task[d] = "done" => phase[Last(d)] \in Answers
  /\ faults = 0 /\ task[d] = "failed" => attempt[d] > 0 /\ phase[Last(d)] = "rejected"
  /\ faults = 0 /\ task[d] = "done" =>
       /\ phase[Last(d)] # "rejected"
       /\ phase[Last(d)] = "transcribed" /\ reply[Last(d)] => d \in replied

\* The inductive invariant.
IInv ==
  /\ TypeOK
  /\ OneHolder
  /\ \A q \in Requests : RequestInv(q)
  /\ \A d \in Deliveries : TaskInv(d)

-----------------------------------------------------------------------------
(* Requests, and what a step of the route does.                            *)

LEMMA RequestParts ==
  /\ \A q \in Requests : /\ q[1] \in Deliveries /\ q[2] \in 1 .. Retries
                         /\ q = <<q[1], q[2]>> /\ AudioOf(q) \in Audios
  /\ \A d \in Deliveries : \A n \in 1 .. Retries : <<d, n>> \in Requests
BY AudioAssumption DEF Requests, AudioOf

LEMMA LastIsRequest ==
  ASSUME TypeOK, NEW d \in Deliveries, attempt[d] > 0
  PROVE  Last(d) \in Requests /\ Last(d)[1] = d /\ Last(d)[2] = attempt[d] /\ AudioOf(Last(d)) = Of[d]
<1>1. attempt[d] \in 1 .. Retries
  BY AudioAssumption DEF TypeOK
<1> QED BY <1>1 DEF Last, Requests, AudioOf

LEMMA FilterType ==
  ASSUME NEW e \in Kinds, NEW g \in Groups
  PROVE  Filter(e, g).process \in BOOLEAN /\ Filter(e, g).sendReply \in BOOLEAN
<1>1. /\ e.self \in BOOLEAN /\ e.from_me \in BOOLEAN /\ e.is_group \in BOOLEAN
      /\ g.listed \in BOOLEAN /\ g.transcribe_all \in BOOLEAN /\ g.send_reply \in BOOLEAN
  <2>1. e.self \in BOOLEAN /\ e.from_me \in BOOLEAN /\ e.is_group \in BOOLEAN
    BY AudioAssumption
  <2>2. CASE g = NoGroup
    BY <2>1, <2>2 DEF NoGroup
  <2>3. CASE g # NoGroup
    <3>1. PICK t, s \in BOOLEAN : g = [listed |-> TRUE, transcribe_all |-> t, send_reply |-> s]
      BY <2>3 DEF Groups
    <3> QED BY <2>1, <3>1
  <2> QED BY <2>2, <2>3
<1> QED BY <1>1 DEF Filter

\* What a step of the route does, whichever it is.
RouteStep(q) ==
  /\ phase[q] \in Working
  /\ \A x \in Requests : x # q => phase'[x] = phase[x] /\ reply'[x] = reply[x] /\ row'[x] = row[x]
  /\ phase'[q] \in (Working \cup Answers) \ {"lookup", "rejected"}
  /\ phase'[q] \in Unstored =>
       row'[q] = row[q] /\ (phase[q] \in Unstored \/ phase[q] = "check")
  /\ phase'[q] = "check" => phase[q] = "lookup" /\ row'[q] = row[q]
  /\ phase'[q] \in {"index", "transcribed"} =>
       row'[q] = "transcribed" \/ (phase[q] = "index" /\ row'[q] = row[q])
  /\ phase'[q] = "duplicate" =>
       phase[q] = "check" /\ row'[q] = row[q] /\ \E x \in Requests : RowsOf(AudioOf(q)) = {x}
  /\ row'[q] # row[q] => row'[q] # "none" /\ phase[q] \in Unstored
  /\ raced \subseteq raced'
  /\ phase[q] = "check" /\ phase'[q] \in Unstored /\ AudioOf(q) \notin raced' =>
       ~Overtakes(q) /\ \A x \in Requests : RowsOf(AudioOf(q)) # {x}
  /\ faults' \in 0 .. MaxFaults
  /\ faults' = 0 =>
       /\ faults = 0
       /\ phase'[q] = "fail" => phase[q] = "fail"
       /\ phase'[q] = "failed" => phase[q] = "fail"
       /\ phase'[q] = "skipped" => row'[q] # "none"
  /\ phase' \in [Requests -> Working \cup Answers \cup {"none"}]
  /\ reply' \in [Requests -> BOOLEAN]
  /\ row' \in [Requests -> {"none", "skipped", "failed", "transcribed"}]
  /\ indexed' \in SUBSET Requests
  /\ raced' \in SUBSET Audios
  /\ UNCHANGED <<event, enabled, group, task, attempt, replied>>

LEMMA FaultEffect ==
  ASSUME TypeOK, Fault
  PROVE  faults' \in 0 .. MaxFaults /\ faults' # 0
BY AudioAssumption DEF TypeOK, Fault

LEMMA RouteStepEffect ==
  ASSUME TypeOK, NEW q \in Requests, RequestStep(q) \/ Kill(q)
  PROVE  RouteStep(q)
<1> USE DEF RouteStep, Goes, Working, Unstored, Answers, settings, daemonVars, tableVars
<1>t. /\ phase \in [Requests -> Working \cup Answers \cup {"none"}]
      /\ reply \in [Requests -> BOOLEAN]
      /\ row \in [Requests -> {"none", "skipped", "failed", "transcribed"}]
      /\ indexed \in SUBSET Requests /\ raced \in SUBSET Audios
      /\ faults \in 0 .. MaxFaults
      /\ AudioOf(q) \in Audios
  BY RequestParts DEF TypeOK
<1>f. Fault => faults' \in 0 .. MaxFaults /\ faults' # 0
  BY FaultEffect
<1>1. CASE Lookup(q)
  BY <1>t, <1>f, <1>1 DEF Lookup
<1>2. CASE Check(q)
  BY <1>t, <1>f, <1>2 DEF Check, Pass
<1>3. CASE Decide(q)
  <2>1. PICK g \in Groups :
          /\ (g = group[AudioOf(q)] /\ UNCHANGED faults) \/ (g = NoGroup /\ Fault)
          /\ Goes(q, IF Filter(event[AudioOf(q)], g).process THEN "transcribe" ELSE "skip")
          /\ reply' = [reply EXCEPT ![q] = Filter(event[AudioOf(q)], g).sendReply]
    BY <1>3 DEF Decide
  <2>2. Filter(event[AudioOf(q)], g).sendReply \in BOOLEAN
    BY <1>t, FilterType DEF TypeOK
  <2> QED BY <1>t, <1>f, <1>3, <2>1, <2>2 DEF Decide
<1>4. CASE StoreSkipped(q)
  BY <1>t, <1>f, <1>4 DEF StoreSkipped, Insert
<1>5. CASE Transcribe(q)
  BY <1>t, <1>f, <1>5 DEF Transcribe
<1>6. CASE StoreFailed(q)
  BY <1>t, <1>f, <1>6 DEF StoreFailed, Insert
<1>7. CASE Store(q)
  <2>1. CASE Goes(q, "index") /\ Insert(q, "transcribed") /\ UNCHANGED faults
    BY <1>t, <1>7, <2>1 DEF Store, Insert
  <2>2. CASE Goes(q, "failed") /\ Fault /\ Insert(q, "transcribed")
    BY <1>t, <1>f, <1>7, <2>2 DEF Store, Insert
  <2>3. CASE Goes(q, "failed") /\ Fault /\ UNCHANGED tableVars
    BY <1>t, <1>f, <1>7, <2>3 DEF Store
  <2> QED BY <1>7, <2>1, <2>2, <2>3 DEF Store
<1>8. CASE Index(q)
  BY <1>t, <1>f, <1>8 DEF Index
<1>9. CASE Kill(q)
  BY <1>t, <1>f, <1>9 DEF Kill
<1> QED BY <1>1, <1>2, <1>3, <1>4, <1>5, <1>6, <1>7, <1>8, <1>9 DEF RequestStep

-----------------------------------------------------------------------------
(* The inductive invariant.                                                *)

LEMMA InitIInv == Init => IInv
<1> SUFFICES ASSUME Init PROVE IInv
  OBVIOUS
<1>1. TypeOK
  BY AudioAssumption DEF Init, TypeOK, Running, Working, Unstored, Answers
<1>2. OneHolder
  BY DEF Init, OneHolder, Held, Unstored
<1>3. \A q \in Requests : RequestInv(q)
  BY DEF Init, RequestInv, Unstored
<1>4. \A d \in Deliveries : TaskInv(d)
  BY AudioAssumption DEF Init, TaskInv
<1> QED BY <1>1, <1>2, <1>3, <1>4 DEF IInv

LEMMA RouteKeepsHolder ==
  ASSUME IInv, NEW q \in Requests, RouteStep(q)
  PROVE  OneHolder'
<1> USE DEF IInv
<1> SUFFICES ASSUME NEW x \in Requests, NEW y \in Requests,
                    AudioOf(x) = AudioOf(y), AudioOf(x) \notin raced',
                    Held(x)', Held(y)', x # y
             PROVE  FALSE
  BY DEF OneHolder, AudioOf
<1>1. AudioOf(x) \notin raced
  BY DEF RouteStep
<1>2. \A z \in Requests : z # q => (Held(z)' <=> Held(z))
  BY DEF RouteStep, Held
<1>3. Held(q)' => Held(q) \/ (phase[q] = "check" /\ phase'[q] \in Unstored)
  BY DEF RouteStep, Held
<1>4. CASE Held(x) /\ Held(y)
  BY <1>1, <1>4 DEF OneHolder
<1>5. CASE ~(Held(x) /\ Held(y))
  <2>1. PICK z \in Requests : z # q /\ Held(z) /\ AudioOf(z) = AudioOf(q)
    BY <1>2, <1>5
  <2>2. phase[q] = "check" /\ phase'[q] \in Unstored /\ AudioOf(q) \notin raced'
    BY <1>2, <1>3, <1>5
  <2>3. ~Overtakes(q) /\ RowsOf(AudioOf(q)) # {z}
    BY <2>2 DEF RouteStep
  <2>4. row[z] # "none"
    BY <2>1, <2>3 DEF Held, Overtakes
  <2>5. z \in RowsOf(AudioOf(q))
    BY <2>1, <2>4 DEF RowsOf
  <2>6. \A w \in RowsOf(AudioOf(q)) : w = z
    BY <1>1, <1>2, <1>5, <2>1 DEF RowsOf, OneHolder, Held
  <2> QED BY <2>3, <2>5, <2>6
<1> QED BY <1>4, <1>5

LEMMA RouteKeepsRequests ==
  ASSUME IInv, NEW q \in Requests, RouteStep(q), NEW x \in Requests
  PROVE  RequestInv(x)'
<1>1. RequestInv(x) /\ RequestInv(q) /\ phase[q] # "none"
  BY DEF IInv, RouteStep, Working, Unstored
<1>2. attempt' = attempt /\ event' = event /\ (faults' = 0 => faults = 0)
  BY DEF RouteStep
<1>3. \A z \in Requests : row[z] # "none" => row'[z] # "none"
  BY DEF RouteStep
<1>4. CASE x # q
  <2>1. phase'[x] = phase[x] /\ row'[x] = row[x]
    BY <1>4 DEF RouteStep
  <2> QED BY <1>1, <1>2, <1>3, <2>1 DEF RequestInv, AudioOf
<1>5. CASE x = q
  <2>1. phase'[q] \in Unstored \cup {"none", "lookup", "check"} => row'[q] = "none"
    BY <1>1 DEF RouteStep, RequestInv, Working, Answers, Unstored
  <2>2. phase'[q] \in {"index", "transcribed"} => row'[q] = "transcribed"
    BY <1>1 DEF RouteStep, RequestInv
  <2>3. phase'[q] = "duplicate" =>
          \E z \in Requests : AudioOf(z) = AudioOf(q) /\ row'[z] # "none"
    <3> SUFFICES ASSUME phase'[q] = "duplicate"
                 PROVE  \E z \in Requests : AudioOf(z) = AudioOf(q) /\ row'[z] # "none"
      OBVIOUS
    <3>1. PICK z \in Requests : RowsOf(AudioOf(q)) = {z}
      BY DEF RouteStep
    <3>2. AudioOf(z) = AudioOf(q) /\ row[z] # "none"
      BY <3>1 DEF RowsOf
    <3> QED BY <1>3, <3>2
  <2>4. phase'[q] # "rejected" /\ ~(q[2] > attempt[q[1]])
    BY <1>1 DEF RouteStep, RequestInv
  <2>5. faults' = 0 => phase'[q] \notin {"fail", "failed"} /\ (phase'[q] = "skipped" => row'[q] # "none")
    BY <1>1 DEF RouteStep, RequestInv
  <2> QED BY <1>2, <1>5, <2>1, <2>2, <2>3, <2>4, <2>5 DEF RequestInv, AudioOf
<1> QED BY <1>4, <1>5

LEMMA RouteKeepsTasks ==
  ASSUME IInv, NEW q \in Requests, RouteStep(q), NEW d \in Deliveries
  PROVE  TaskInv(d)'
<1>1. TypeOK /\ TaskInv(d)
  BY DEF IInv
<1>2. /\ task' = task /\ attempt' = attempt /\ replied' = replied /\ event' = event
      /\ faults' = 0 => faults = 0
  BY DEF RouteStep
<1>3. Last(d)' = Last(d)
  BY <1>2 DEF Last
<1>4. ASSUME attempt[d] > 0, phase[Last(d)] \in Answers
      PROVE  phase'[Last(d)] = phase[Last(d)] /\ reply'[Last(d)] = reply[Last(d)]
  BY <1>1, <1>4, LastIsRequest DEF RouteStep, Working, Unstored, Answers
<1> QED BY <1>1, <1>2, <1>3, <1>4 DEF TaskInv, Answers

LEMMA RouteStepIInv ==
  ASSUME IInv, NEW q \in Requests, RequestStep(q) \/ Kill(q)
  PROVE  IInv'
<1>1. TypeOK /\ RouteStep(q)
  BY RouteStepEffect DEF IInv
<1>2. TypeOK'
  BY <1>1 DEF TypeOK, RouteStep, Requests
<1> QED BY <1>1, <1>2, RouteKeepsHolder, RouteKeepsRequests, RouteKeepsTasks DEF IInv, Requests

-----------------------------------------------------------------------------
(* The steps of the daemon and of the settings.                            *)

\* A step that leaves the requests alone keeps what is said of them.
LEMMA RequestsKept ==
  ASSUME IInv, UNCHANGED <<event, attempt, phase, row, raced>>, faults' = 0 => faults = 0
  PROVE  OneHolder' /\ \A q \in Requests : RequestInv(q)'
<1>1. OneHolder'
  BY DEF IInv, OneHolder, Held, AudioOf
<1>2. ASSUME NEW q \in Requests PROVE RequestInv(q)'
  BY <1>2 DEF IInv, RequestInv, AudioOf
<1> QED BY <1>1, <1>2

LEMMA SettingsStep ==
  ASSUME IInv, Toggle \/ \E a \in Audios : Regroup(a)
  PROVE  IInv'
<1>1. /\ UNCHANGED <<event, attempt, phase, row, raced>>
      /\ UNCHANGED <<task, reply, replied, indexed, faults>>
  BY DEF Toggle, Regroup, daemonVars, tableVars
<1>2. TypeOK'
  BY <1>1 DEF IInv, TypeOK, Toggle, Regroup
<1>3. ASSUME NEW d \in Deliveries PROVE TaskInv(d)'
  BY <1>1, <1>3 DEF IInv, TaskInv, Last
<1> QED BY <1>1, <1>2, <1>3, RequestsKept DEF IInv

LEMMA DeliverStep ==
  ASSUME IInv, NEW d \in Deliveries, Deliver(d)
  PROVE  IInv'
<1>1. /\ UNCHANGED <<event, attempt, phase, row, raced>>
      /\ UNCHANGED <<enabled, group, reply, replied, indexed, faults>>
      /\ task[d] = "none" /\ task' = [task EXCEPT ![d] = "ready"]
  BY DEF Deliver, settings, tableVars
<1>2. TypeOK'
  BY <1>1 DEF IInv, TypeOK, Running
<1>3. ASSUME NEW e \in Deliveries PROVE TaskInv(e)'
  BY <1>1, <1>3, AudioAssumption DEF IInv, TypeOK, TaskInv, Last
<1> QED BY <1>1, <1>2, <1>3, RequestsKept DEF IInv

LEMMA RetryEffect ==
  ASSUME TypeOK, NEW d \in Deliveries, NEW n, Retry(d, n)
  PROVE  /\ task' \in [Deliveries -> Running \cup {"none", "done", "failed", "lost"}]
         /\ \A e \in Deliveries : e # d => task'[e] = task[e]
         /\ (n < Retries /\ task'[d] = "ready") \/ (~(n < Retries) /\ task'[d] = "failed")
BY DEF TypeOK, Retry, Running

LEMMA GetAnswerStep ==
  ASSUME IInv, NEW d \in Deliveries, GetAnswer(d)
  PROVE  IInv'
<1>1. /\ UNCHANGED <<event, attempt, phase, row, raced>>
      /\ UNCHANGED <<enabled, group, reply, replied, indexed, faults>>
      /\ task[d] = "waiting" /\ phase[Last(d)] \in Answers
  BY DEF GetAnswer, settings, tableVars, Last
<1>t. TypeOK /\ TaskInv(d) /\ attempt[d] > 0 /\ Last(d) \in Requests /\ RequestInv(Last(d))
  BY <1>1, LastIsRequest DEF IInv, TaskInv
<1>2. /\ task' \in [Deliveries -> Running \cup {"none", "done", "failed", "lost"}]
      /\ \A e \in Deliveries : e # d => task'[e] = task[e]
      /\ \/ /\ phase[Last(d)] = "failed"
            /\ (attempt[d] < Retries /\ task'[d] = "ready") \/ task'[d] = "failed"
         \/ phase[Last(d)] = "rejected" /\ task'[d] = "failed"
         \/ phase[Last(d)] = "transcribed" /\ reply[Last(d)] /\ task'[d] = "reply"
         \/ /\ phase[Last(d)] \notin {"failed", "rejected"}
            /\ ~(phase[Last(d)] = "transcribed" /\ reply[Last(d)])
            /\ task'[d] = "done"
  <2>1. CASE phase[Last(d)] = "failed"
    <3>1. Retry(d, attempt[d])
      BY <2>1 DEF GetAnswer, Last
    <3> QED BY <1>t, <2>1, <3>1, RetryEffect
  <2>2. CASE phase[Last(d)] # "failed"
    <3>1. task' = [task EXCEPT ![d] =
            IF phase[Last(d)] = "rejected" THEN "failed"
            ELSE IF phase[Last(d)] = "transcribed" /\ reply[Last(d)] THEN "reply" ELSE "done"]
      BY <2>2 DEF GetAnswer, Last
    <3> QED BY <1>t, <2>2, <3>1 DEF TypeOK, Running
  <2> QED BY <2>1, <2>2
<1>3. TypeOK'
  BY <1>1, <1>2 DEF IInv, TypeOK
<1>4. ASSUME NEW e \in Deliveries PROVE TaskInv(e)'
  <2>1. Last(e)' = Last(e) /\ TaskInv(e)
    BY <1>1 DEF Last, IInv
  <2>2. CASE e # d
    BY <1>1, <1>2, <2>1, <2>2 DEF TaskInv
  <2>3. CASE e = d
    BY <1>1, <1>t, <1>2, <2>1, <2>3 DEF TaskInv, RequestInv, Answers
  <2> QED BY <2>2, <2>3
<1> QED BY <1>1, <1>3, <1>4, RequestsKept DEF IInv

LEMMA DropStep ==
  ASSUME IInv, NEW d \in Deliveries, Drop(d)
  PROVE  IInv'
<1>1. /\ UNCHANGED <<event, attempt, phase, row, raced>>
      /\ UNCHANGED <<enabled, group, reply, replied, indexed>>
      /\ task[d] = "waiting" /\ Retry(d, attempt[d]) /\ Fault
  BY DEF Drop, settings, tableVars
<1>2. TypeOK /\ TaskInv(d) /\ faults' \in 0 .. MaxFaults /\ faults' # 0
  BY <1>1, FaultEffect DEF IInv
<1>3. TypeOK'
  BY <1>1, <1>2, RetryEffect DEF TypeOK
<1>4. ASSUME NEW e \in Deliveries PROVE TaskInv(e)'
  BY <1>1, <1>2, <1>4, RetryEffect DEF IInv, TaskInv, Last
<1> QED BY <1>1, <1>2, <1>3, <1>4, RequestsKept DEF IInv

LEMMA ReplyStep ==
  ASSUME IInv, NEW d \in Deliveries, Reply(d)
  PROVE  IInv'
<1>1. /\ UNCHANGED <<event, attempt, phase, row, raced>>
      /\ UNCHANGED <<enabled, group, reply, indexed>>
      /\ task[d] = "reply" /\ task' = [task EXCEPT ![d] = "done"]
      /\ \/ replied' = replied \cup {d} /\ faults' = faults
         \/ Fault /\ replied' \in {replied, replied \cup {d}}
  BY DEF Reply, settings, tableVars
<1>2. TypeOK /\ TaskInv(d)
  BY DEF IInv
<1>3. faults' \in 0 .. MaxFaults /\ (faults' = 0 => faults = 0 /\ replied' = replied \cup {d})
  BY <1>1, <1>2, FaultEffect DEF TypeOK
<1>4. TypeOK'
  BY <1>1, <1>2, <1>3 DEF TypeOK, Running
<1>5. ASSUME NEW e \in Deliveries PROVE TaskInv(e)'
  BY <1>1, <1>2, <1>3, <1>5 DEF IInv, TypeOK, TaskInv, Last, Answers
<1> QED BY <1>1, <1>3, <1>4, <1>5, RequestsKept DEF IInv

LEMMA CrashStep ==
  ASSUME IInv, Crash
  PROVE  IInv'
<1>1. /\ UNCHANGED <<event, attempt, phase, row, raced>>
      /\ UNCHANGED <<enabled, group, reply, replied, indexed>>
      /\ task' = [d \in Deliveries |-> IF task[d] \in Running THEN "lost" ELSE task[d]]
      /\ Fault
  BY DEF Crash, settings, tableVars
<1>2. TypeOK /\ faults' \in 0 .. MaxFaults /\ faults' # 0
  BY <1>1, FaultEffect DEF IInv
<1>3. TypeOK'
  BY <1>1, <1>2 DEF TypeOK, Running
<1>4. ASSUME NEW e \in Deliveries PROVE TaskInv(e)'
  BY <1>1, <1>2, <1>4 DEF IInv, TaskInv, Last, Running
<1> QED BY <1>1, <1>2, <1>3, <1>4, RequestsKept DEF IInv

LEMMA PostStep ==
  ASSUME IInv, NEW d \in Deliveries, Post(d)
  PROVE  IInv'
<1> DEFINE n == attempt[d] + 1
<1>1. /\ task[d] = "ready" /\ attempt' = [attempt EXCEPT ![d] = n]
      /\ \/ /\ task' = [task EXCEPT ![d] = "waiting"]
            /\ Goes(<<d, n>>, IF event[Of[d]].valid THEN "lookup" ELSE "rejected")
            /\ UNCHANGED faults
         \/ Fault /\ Retry(d, n) /\ UNCHANGED phase
      /\ UNCHANGED <<event, enabled, group, reply, row, indexed, replied, raced>>
  BY DEF Post, settings, tableVars
<1>2. /\ TypeOK /\ TaskInv(d) /\ n \in 1 .. Retries /\ <<d, n>> \in Requests
      /\ AudioOf(<<d, n>>) = Of[d]
  BY <1>1, AudioAssumption DEF IInv, TypeOK, TaskInv, Requests, AudioOf
<1>3. phase[<<d, n>>] = "none" /\ row[<<d, n>>] = "none"
  <2>1. RequestInv(<<d, n>>)
    BY <1>2 DEF IInv
  <2> QED BY <1>2, <2>1 DEF RequestInv, TypeOK
<1>4. /\ task' \in [Deliveries -> Running \cup {"none", "done", "failed", "lost"}]
      /\ \A e \in Deliveries : e # d => task'[e] = task[e] /\ attempt'[e] = attempt[e]
      /\ attempt'[d] = n /\ attempt' \in [Deliveries -> 0 .. Retries]
  BY <1>1, <1>2, RetryEffect DEF TypeOK, Running
<1>5. /\ phase' \in [Requests -> Working \cup Answers \cup {"none"}]
      /\ \A q \in Requests : q # <<d, n>> => phase'[q] = phase[q]
      /\ phase'[<<d, n>>] \in {"none", "lookup", "rejected"}
      /\ phase'[<<d, n>>] = "rejected" => ~event[Of[d]].valid
  BY <1>1, <1>2, <1>3 DEF TypeOK, Goes, Working, Answers
<1>6. /\ \/ task'[d] = "waiting"
         \/ faults' # 0 /\ task'[d] = "ready" /\ n < Retries
         \/ faults' # 0 /\ task'[d] = "failed"
      /\ faults' \in 0 .. MaxFaults
      /\ faults' = 0 => faults = 0
  BY <1>1, <1>2, FaultEffect, RetryEffect DEF TypeOK
<1>7. TypeOK'
  BY <1>1, <1>2, <1>4, <1>5, <1>6 DEF TypeOK
<1>8. OneHolder'
  <2>1. \A q \in Requests : Held(q)' => Held(q)
    BY <1>1, <1>3, <1>5 DEF Held, Unstored
  <2> QED BY <1>1, <2>1 DEF IInv, OneHolder, AudioOf
<1>9. ASSUME NEW q \in Requests PROVE RequestInv(q)'
  <2>1. RequestInv(q) /\ AudioOf(q)' = AudioOf(q)
    BY DEF IInv, AudioOf
  <2>2. CASE q = <<d, n>>
    BY <1>1, <1>2, <1>3, <1>4, <1>5, <2>1, <2>2 DEF RequestInv, Unstored
  <2>3. CASE q # <<d, n>>
    <3>1. phase'[q] = phase[q] /\ row' = row /\ event' = event
      BY <1>1, <1>5, <2>3
    <3>2. q[2] > attempt'[q[1]] => q[2] > attempt[q[1]]
      BY <1>2, <1>4, RequestParts DEF TypeOK
    <3>3. phase[q] = "duplicate" => \E x \in Requests : AudioOf(x)' = AudioOf(q)' /\ row'[x] # "none"
      BY <2>1, <3>1 DEF RequestInv, AudioOf
    <3> QED BY <1>6, <2>1, <3>1, <3>2, <3>3 DEF RequestInv
  <2> QED BY <2>2, <2>3
<1>10. ASSUME NEW e \in Deliveries PROVE TaskInv(e)'
  <2>1. CASE e = d
    BY <1>1, <1>2, <1>4, <1>6, <2>1 DEF TaskInv
  <2>2. CASE e # d
    <3>1. Last(e)' = Last(e) /\ Last(e) # <<d, n>> /\ TaskInv(e)
      BY <1>4, <2>2 DEF Last, IInv
    <3>2. attempt[e] > 0 => phase'[Last(e)] = phase[Last(e)]
      BY <1>2, <1>5, <3>1, LastIsRequest
    <3>3. task'[e] = task[e] /\ attempt'[e] = attempt[e] /\ reply' = reply /\ replied' = replied
      BY <1>1, <1>4, <2>2
    <3> QED BY <1>6, <3>1, <3>2, <3>3 DEF TaskInv
  <2> QED BY <2>1, <2>2
<1> QED BY <1>7, <1>8, <1>9, <1>10 DEF IInv

LEMMA NextIInv == IInv /\ [Next]_vars => IInv'
<1> SUFFICES ASSUME IInv, [Next]_vars PROVE IInv'
  OBVIOUS
<1>1. CASE Toggle \/ \E a \in Audios : Regroup(a)
  BY <1>1, SettingsStep
<1>2. ASSUME NEW d \in Deliveries, Deliver(d) \/ TaskStep(d) \/ Drop(d)
      PROVE  IInv'
  BY <1>2, DeliverStep, PostStep, GetAnswerStep, ReplyStep, DropStep DEF TaskStep
<1>3. ASSUME NEW q \in Requests, RequestStep(q) \/ Kill(q)
      PROVE  IInv'
  BY <1>3, RouteStepIInv
<1>4. CASE Crash
  BY <1>4, CrashStep
<1>5. CASE UNCHANGED vars
  <2>1. /\ UNCHANGED <<event, attempt, phase, row, raced>>
        /\ UNCHANGED <<enabled, group, task, reply, indexed, replied, faults>>
    BY <1>5 DEF vars, settings, daemonVars, tableVars
  <2>2. TypeOK'
    BY <2>1 DEF IInv, TypeOK
  <2>3. ASSUME NEW d \in Deliveries PROVE TaskInv(d)'
    BY <2>1, <2>3 DEF IInv, TaskInv, Last
  <2> QED BY <2>1, <2>2, <2>3, RequestsKept DEF IInv
<1> QED BY <1>1, <1>2, <1>3, <1>4, <1>5 DEF Next

LEMMA Invariance == Spec => []IInv
BY InitIInv, NextIInv, PTL DEF Spec

-----------------------------------------------------------------------------
(* The theorems.                                                           *)

\* Types, for any number of audios, deliveries and attempts: no task makes
\* more than DAEMON_FORWARD_MAX_RETRIES requests.
THEOREM TypeCorrect == Spec => []TypeOK
BY Invariance, PTL DEF IInv

\* The duplicate check of route.ts does its work for every audio whose check
\* was not overtaken: one row, one reply, through any number of deliveries,
\* retries and faults.
THEOREM AudioProcessedOnce == Spec => []ProcessedOnce
<1>1. IInv => ProcessedOnce
  <2> SUFFICES ASSUME IInv, NEW a \in Audios, a \notin raced PROVE
         /\ \A x, y \in RowsOf(a) : x = y
         /\ \A d, e \in replied : Of[d] = a /\ Of[e] = a => d = e
    BY DEF ProcessedOnce
  <2>1. \A x, y \in RowsOf(a) : x = y
    BY DEF IInv, OneHolder, Held, RowsOf
  <2>2. ASSUME NEW d \in replied, Of[d] = a
        PROVE  Last(d) \in RowsOf(a) /\ Last(d)[1] = d
    <3>1. d \in Deliveries /\ TypeOK /\ TaskInv(d)
      BY DEF IInv, TypeOK
    <3>2. attempt[d] > 0 /\ phase[Last(d)] = "transcribed"
      BY <3>1 DEF TaskInv
    <3>3. Last(d) \in Requests /\ Last(d)[1] = d /\ AudioOf(Last(d)) = a
      BY <2>2, <3>1, <3>2, LastIsRequest
    <3>4. row[Last(d)] # "none"
      BY <3>2, <3>3 DEF IInv, RequestInv
    <3> QED BY <3>3, <3>4 DEF RowsOf
  <2> QED BY <2>1, <2>2
<1> QED BY <1>1, Invariance, PTL

\* onAudioMessage only sends on what route.ts has stored, faults or none.
THEOREM RepliesComeFromRows == Spec => []RepliesAreStored
<1>1. IInv => RepliesAreStored
  <2> SUFFICES ASSUME IInv, NEW d \in replied
               PROVE  \E q \in Requests : q[1] = d /\ row[q] = "transcribed" /\ reply[q]
    BY DEF RepliesAreStored
  <2>1. d \in Deliveries /\ TypeOK /\ TaskInv(d)
    BY DEF IInv, TypeOK
  <2>2. attempt[d] > 0 /\ phase[Last(d)] = "transcribed" /\ reply[Last(d)]
    BY <2>1 DEF TaskInv
  <2>3. Last(d) \in Requests /\ Last(d)[1] = d
    BY <2>1, <2>2, LastIsRequest
  <2>4. row[Last(d)] = "transcribed"
    BY <2>2, <2>3 DEF IInv, RequestInv
  <2> QED BY <2>2, <2>3, <2>4
<1> QED BY <1>1, Invariance, PTL

\* Without faults, every task of the daemon ends with its audio in messages
\* and its reply sent, whatever the order of the requests.
THEOREM NoFaultNoLoss == Spec => []NothingLost
<1>1. IInv => NothingLost
  <2> SUFFICES ASSUME IInv, faults = 0, NEW d \in Deliveries PROVE
         /\ task[d] = "failed" => ~event[Of[d]].valid
         /\ task[d] = "done" /\ phase[Last(d)] # "unbound" =>
              /\ RowsOf(Of[d]) # {}
              /\ phase[Last(d)] = "transcribed" /\ reply[Last(d)] => d \in replied
    BY DEF NothingLost, Last
  <2>1. TypeOK /\ TaskInv(d)
    BY DEF IInv
  <2>2. CASE task[d] = "failed"
    <3>1. attempt[d] > 0 /\ phase[Last(d)] = "rejected"
      BY <2>1, <2>2 DEF TaskInv
    <3>2. Last(d) \in Requests /\ AudioOf(Last(d)) = Of[d]
      BY <2>1, <3>1, LastIsRequest
    <3> QED BY <2>2, <3>1, <3>2 DEF IInv, RequestInv
  <2>3. CASE task[d] = "done" /\ phase[Last(d)] # "unbound"
    <3>1. /\ attempt[d] > 0 /\ phase[Last(d)] \in Answers \ {"rejected", "unbound"}
          /\ phase[Last(d)] = "transcribed" /\ reply[Last(d)] => d \in replied
      BY <2>1, <2>3 DEF TaskInv
    <3>2. Last(d) \in Requests /\ AudioOf(Last(d)) = Of[d] /\ RequestInv(Last(d))
      BY <2>1, <3>1, LastIsRequest DEF IInv
    <3>3. phase[Last(d)] # "duplicate" => row[Last(d)] # "none"
      BY <3>1, <3>2 DEF RequestInv, Answers
    <3>4. \E x \in Requests : AudioOf(x) = Of[d] /\ row[x] # "none"
      BY <3>2, <3>3 DEF RequestInv
    <3> QED BY <2>3, <3>1, <3>4 DEF RowsOf
  <2> QED BY <2>2, <2>3
<1> QED BY <1>1, Invariance, PTL

-----------------------------------------------------------------------------
(* Daemon and route implement Inbox.                                       *)

\* What a request wants is settled by its filter and not before.
ReplyInv ==
  \A q \in Requests : reply[q] => phase[q] \notin {"none", "lookup", "check", "decide"}

LEMMA FateValue == ASSUME NEW d \in Deliveries
                   PROVE  Fates[d] = IF task[d] \in Running THEN "open" ELSE task[d]
BY DEF Fates

\* The delivery of a request that has begun has come in.
LEMMA BegunIsOpen ==
  ASSUME IInv, NEW q \in Requests, phase[q] # "none"
  PROVE  q[1] \in Deliveries /\ Fates[q[1]] # "none"
<1>1. q[1] \in Deliveries /\ q[2] \in 1 .. Retries /\ TypeOK /\ RequestInv(q) /\ TaskInv(q[1])
  BY RequestParts DEF IInv
<1>2. task[q[1]] # "none"
  BY <1>1 DEF RequestInv, TaskInv, TypeOK
<1> QED BY <1>1, <1>2, FateValue DEF Running

LEMMA NextReplyInv == IInv /\ ReplyInv /\ [Next]_vars => ReplyInv'
<1> SUFFICES ASSUME IInv, ReplyInv, [Next]_vars PROVE ReplyInv'
  OBVIOUS
<1>t. TypeOK
  BY DEF IInv
<1>1. CASE UNCHANGED <<phase, reply>>
  BY <1>1 DEF ReplyInv
<1>2. ASSUME NEW d \in Deliveries, Post(d) PROVE ReplyInv'
  <2> DEFINE n == attempt[d] + 1
  <2>1. /\ reply' = reply /\ \A q \in Requests : q # <<d, n>> => phase'[q] = phase[q]
        /\ phase' = phase \/ task[d] = "ready"
    BY <1>2, <1>t DEF Post, Goes, TypeOK
  <2>2. task[d] = "ready" => <<d, n>> \in Requests /\ phase[<<d, n>>] = "none"
    <3>1. SUFFICES ASSUME task[d] = "ready" PROVE <<d, n>> \in Requests /\ phase[<<d, n>>] = "none"
      OBVIOUS
    <3>2. n \in 1 .. Retries /\ n > attempt[d]
      BY <3>1, <1>t, AudioAssumption DEF IInv, TaskInv, TypeOK
    <3>3. <<d, n>> \in Requests
      BY <3>2, RequestParts
    <3>4. RequestInv(<<d, n>>)
      BY <3>3 DEF IInv
    <3> QED BY <3>2, <3>3, <3>4 DEF RequestInv
  <2> QED BY <2>1, <2>2 DEF ReplyInv
<1>3. ASSUME NEW q \in Requests, RequestStep(q) \/ Kill(q) PROVE ReplyInv'
  <2>1. RouteStep(q)
    BY <1>3, <1>t, RouteStepEffect
  <2>2. \A x \in Requests : x # q => phase'[x] = phase[x] /\ reply'[x] = reply[x]
    BY <2>1 DEF RouteStep
  <2>3. reply'[q] => phase'[q] \notin {"none", "lookup", "check", "decide"}
    <3>1. CASE Decide(q)
      BY <3>1, <1>t DEF Decide, Goes, TypeOK
    <3>2. CASE Lookup(q) \/ Check(q)
      BY <3>2 DEF Lookup, Check, ReplyInv
    <3>3. CASE StoreSkipped(q) \/ Transcribe(q) \/ StoreFailed(q) \/ Store(q) \/ Index(q) \/ Kill(q)
      BY <3>3, <1>t DEF StoreSkipped, Transcribe, StoreFailed, Store, Index, Kill, Goes, TypeOK
    <3> QED BY <1>3, <3>1, <3>2, <3>3 DEF RequestStep
  <2> QED BY <2>2, <2>3 DEF ReplyInv
<1>4. ASSUME NEW d \in Deliveries, Deliver(d) \/ GetAnswer(d) \/ Reply(d) \/ Drop(d)
      PROVE  ReplyInv'
  BY <1>1, <1>4 DEF Deliver, GetAnswer, Reply, Drop
<1>5. CASE Toggle \/ (\E a \in Audios : Regroup(a)) \/ Crash \/ UNCHANGED vars
  BY <1>1, <1>5 DEF Toggle, Regroup, Crash, vars
<1> QED BY <1>2, <1>3, <1>4, <1>5 DEF Next, TaskStep

LEMMA InitBox == Init => Box!Init
<1> SUFFICES ASSUME Init PROVE Box!Init
  OBVIOUS
<1>1. Wanted = {} /\ Fates = [d \in Deliveries |-> "none"]
  BY DEF Init, Wanted, Fates, Running
<1> QED BY <1>1 DEF Init, Box!Init, Box!Copies, Requests

\* The steps of the route.
LEMMA RouteBox ==
  ASSUME IInv, ReplyInv, NEW q \in Requests, RequestStep(q) \/ Kill(q)
  PROVE  Box!Next \/ UNCHANGED Box!vars
<1>0. /\ TypeOK /\ q \in Box!Copies /\ AudioOf(q) = Of[q[1]] /\ AudioOf(q) \in Audios
      /\ RequestInv(q) /\ task' = task /\ replied' = replied
  BY RequestParts, RouteStepEffect DEF IInv, Box!Copies, Requests, AudioOf, RouteStep
<1>1. Fates' = Fates
  BY <1>0 DEF Fates
<1>2. phase[q] # "none" => Fates[q[1]] # "none"
  BY BegunIsOpen
<1>3. ASSUME reply' = reply PROVE Wanted' = Wanted
  BY <1>3 DEF Wanted
<1>4. ASSUME UNCHANGED <<raced, row, reply, indexed>> PROVE UNCHANGED Box!vars
  BY <1>0, <1>1, <1>3, <1>4 DEF Box!vars
<1>5. ASSUME NEW text \in Box!Texts, phase[q] \in Unstored, Insert(q, text),
             UNCHANGED <<raced, reply>>
      PROVE  Box!Next
  <2>1. row[q] = "none" /\ Fates[q[1]] # "none"
    BY <1>0, <1>2, <1>5 DEF RequestInv, Unstored
  <2>2. ASSUME Of[q[1]] \notin raced, NEW x \in Box!Copies, Of[x[1]] = Of[q[1]]
        PROVE  row[x] = "none"
    <3>1. x \in Requests /\ AudioOf(x) = AudioOf(q)
      BY <1>0, <2>2 DEF Box!Copies, Requests, AudioOf
    <3>2. Held(x) => x = q
      BY <1>0, <1>5, <2>2, <3>1 DEF IInv, OneHolder, Held
    <3> QED BY <2>1, <3>2 DEF Held
  <2>3. Box!PutDown(q, text)
    BY <1>0, <1>1, <1>3, <1>5, <2>1, <2>2 DEF Box!PutDown, Insert
  <2> QED BY <1>0, <2>3 DEF Box!Next
<1>6. CASE Lookup(q) \/ Transcribe(q) \/ Kill(q)
  BY <1>4, <1>6 DEF Lookup, Transcribe, Kill, tableVars
<1>7. CASE Check(q)
  <2>1. UNCHANGED <<row, reply, indexed>> /\ raced' \in {raced, raced \cup {AudioOf(q)}}
    BY <1>7 DEF Check, Pass, tableVars
  <2>2. CASE raced' = raced
    BY <1>4, <2>1, <2>2
  <2>3. CASE raced' = raced \cup {AudioOf(q)}
    BY <1>0, <1>1, <1>3, <2>1, <2>3 DEF Box!Next, Box!Loosen
  <2> QED BY <2>1, <2>2, <2>3
<1>8. CASE Decide(q)
  <2>1. PICK wants : reply' = [reply EXCEPT ![q] = wants]
    BY <1>8 DEF Decide
  <2>2. UNCHANGED <<raced, row, indexed>> /\ phase[q] = "decide" /\ row[q] = "none" /\ ~reply[q]
    BY <1>0, <1>8 DEF Decide, tableVars, RequestInv, Unstored, ReplyInv
  <2>3. Wanted' = Wanted \/ Wanted' = Wanted \cup {q}
    BY <1>0, <2>1, <2>2 DEF Wanted, TypeOK
  <2>4. CASE Wanted' = Wanted
    BY <1>0, <1>1, <2>2, <2>4 DEF Box!vars
  <2>5. CASE Wanted' = Wanted \cup {q}
    BY <1>0, <1>1, <1>2, <2>2, <2>5 DEF Box!Next, Box!Want
  <2> QED BY <2>3, <2>4, <2>5
<1>9. CASE StoreSkipped(q)
  BY <1>4, <1>5, <1>9 DEF StoreSkipped, Unstored, Box!Texts, tableVars
<1>10. CASE StoreFailed(q)
  BY <1>4, <1>5, <1>10 DEF StoreFailed, Unstored, Box!Texts, tableVars
<1>11. CASE Store(q)
  BY <1>4, <1>5, <1>11 DEF Store, Unstored, Box!Texts, tableVars
<1>12. CASE Index(q)
  <2>1. UNCHANGED <<raced, row, reply>> /\ row[q] = "transcribed"
    BY <1>0, <1>12 DEF Index, RequestInv
  <2>2. CASE indexed' = indexed
    BY <1>4, <2>1, <2>2
  <2>3. CASE indexed' = indexed \cup {q}
    BY <1>0, <1>1, <1>3, <2>1, <2>3 DEF Box!Next, Box!File
  <2> QED BY <1>12, <2>2, <2>3 DEF Index
<1> QED BY <1>6, <1>7, <1>8, <1>9, <1>10, <1>11, <1>12 DEF RequestStep

\* A delivery that is open goes on, or is over.
LEMMA FateStep ==
  ASSUME TypeOK, NEW d \in Deliveries, task[d] \in Running,
         task' \in [Deliveries -> Running \cup {"none", "done", "failed", "lost"}],
         \A e \in Deliveries : e # d => task'[e] = task[e],
         task'[d] \in Running \cup {"done", "failed"},
         UNCHANGED <<raced, row, reply, indexed, replied>>
  PROVE  Box!Next \/ UNCHANGED Box!vars
<1>1. Wanted' = Wanted
  BY DEF Wanted
<1>2. CASE task'[d] \in Running
  <2>1. Fates' = Fates
    BY <1>2 DEF Fates
  <2> QED BY <1>1, <2>1 DEF Box!vars
<1>3. CASE task'[d] \in {"done", "failed"}
  <2>1. Fates' = [Fates EXCEPT ![d] = task'[d]] /\ Fates[d] = "open"
    BY <1>3 DEF Fates, Running
  <2>2. Box!Finish(d, task'[d])
    BY <1>1, <2>1 DEF Box!Finish
  <2> QED BY <1>3, <2>2 DEF Box!Next
<1> QED BY <1>2, <1>3

LEMMA ReplyBox ==
  ASSUME IInv, NEW d \in Deliveries, Reply(d)
  PROVE  Box!Next
<1>1. /\ TypeOK /\ TaskInv(d) /\ task[d] = "reply" /\ task' = [task EXCEPT ![d] = "done"]
      /\ UNCHANGED <<raced, row, reply, indexed>>
      /\ replied' \in {replied, replied \cup {d}}
  BY DEF IInv, Reply, tableVars
<1>2. Wanted' = Wanted /\ Fates' = [Fates EXCEPT ![d] = "done"] /\ Fates[d] = "open"
  BY <1>1 DEF Wanted, Fates, Running, TypeOK
<1>3. /\ Last(d) \in Requests /\ Last(d) \in Wanted /\ row[Last(d)] = "transcribed"
      /\ attempt[d] \in 1 .. Retries /\ d \notin replied
  <2>1. attempt[d] > 0 /\ phase[Last(d)] = "transcribed" /\ reply[Last(d)] /\ d \notin replied
    BY <1>1 DEF TaskInv
  <2>2. Last(d) \in Requests /\ RequestInv(Last(d))
    BY <1>1, <2>1, LastIsRequest DEF IInv
  <2> QED BY <1>1, <2>1, <2>2, AudioAssumption DEF RequestInv, Wanted, TypeOK
<1>4. CASE replied' = replied
  BY <1>1, <1>2, <1>4 DEF Box!Next, Box!Finish
<1>5. CASE replied' = replied \cup {d}
  <2>1. ASSUME Of[d] \notin raced, NEW e \in replied, Of[e] = Of[d] PROVE FALSE
    <3>1. e \in Deliveries /\ TaskInv(e) /\ e # d
      BY <1>1, <1>3 DEF IInv, TypeOK
    <3>2. attempt[e] > 0 /\ attempt[d] > 0 /\ phase[Last(e)] = "transcribed"
      BY <1>1, <3>1 DEF TaskInv
    <3>3. /\ Last(e) \in Requests /\ Last(e)[1] = e /\ AudioOf(Last(e)) = Of[d]
          /\ Last(d)[1] = d /\ AudioOf(Last(d)) = Of[d]
      BY <1>1, <2>1, <3>1, <3>2, LastIsRequest
    <3>4. row[Last(e)] # "none"
      BY <3>2, <3>3 DEF IInv, RequestInv
    <3>5. Last(e) = Last(d)
      BY <1>3, <2>1, <3>3, <3>4 DEF IInv, OneHolder, Held
    <3> QED BY <3>1, <3>3, <3>5
  <2>2. <<d, attempt[d]>> \in Wanted /\ row[<<d, attempt[d]>>] = "transcribed"
    BY <1>3 DEF Last
  <2>3. Box!Answer(d)
    BY <1>1, <1>2, <1>3, <1>5, <2>1, <2>2 DEF Box!Answer
  <2> QED BY <2>3 DEF Box!Next
<1> QED BY <1>1, <1>4, <1>5

LEMMA StepBox == IInv /\ ReplyInv /\ [Next]_vars => [Box!Next]_(Box!vars)
<1> SUFFICES ASSUME IInv, ReplyInv, [Next]_vars
             PROVE  Box!Next \/ UNCHANGED Box!vars
  OBVIOUS
<1>0. TypeOK
  BY DEF IInv
<1>1. ASSUME UNCHANGED <<raced, row, reply, indexed, task, replied>> PROVE UNCHANGED Box!vars
  BY <1>1 DEF Box!vars, Wanted, Fates
<1>2. CASE Toggle \/ (\E a \in Audios : Regroup(a)) \/ UNCHANGED vars
  BY <1>1, <1>2 DEF Toggle, Regroup, vars, daemonVars, tableVars
<1>3. ASSUME NEW q \in Requests, RequestStep(q) \/ Kill(q)
      PROVE  Box!Next \/ UNCHANGED Box!vars
  BY <1>3, RouteBox
<1>4. ASSUME NEW d \in Deliveries, Deliver(d) PROVE Box!Next
  <2>1. /\ task[d] = "none" /\ task' = [task EXCEPT ![d] = "ready"]
        /\ UNCHANGED <<raced, row, reply, indexed, replied>>
    BY <1>4 DEF Deliver, tableVars
  <2>2. Wanted' = Wanted /\ Fates' = [Fates EXCEPT ![d] = "open"] /\ Fates[d] = "none"
    BY <1>0, <2>1 DEF Wanted, Fates, Running, TypeOK
  <2> QED BY <2>1, <2>2 DEF Box!Next, Box!Receive
<1>5. ASSUME NEW d \in Deliveries, Post(d) \/ GetAnswer(d) \/ Drop(d)
      PROVE  Box!Next \/ UNCHANGED Box!vars
  <2>1. /\ task[d] \in Running /\ UNCHANGED <<raced, row, reply, indexed, replied>>
        /\ \/ \E v \in Running \cup {"done", "failed"} : task' = [task EXCEPT ![d] = v]
           \/ \E n : Retry(d, n)
    <3>1. CASE Post(d)
      BY <3>1 DEF Post, Running, tableVars
    <3>2. CASE GetAnswer(d)
      BY <3>2 DEF GetAnswer, Running, tableVars
    <3>3. CASE Drop(d)
      BY <3>3 DEF Drop, Running, tableVars
    <3> QED BY <1>5, <3>1, <3>2, <3>3
  <2>2. /\ task' \in [Deliveries -> Running \cup {"none", "done", "failed", "lost"}]
        /\ \A e \in Deliveries : e # d => task'[e] = task[e]
        /\ task'[d] \in Running \cup {"done", "failed"}
    BY <1>0, <2>1 DEF Retry, Running, TypeOK
  <2> QED BY <1>0, <2>1, <2>2, FateStep
<1>6. ASSUME NEW d \in Deliveries, Reply(d) PROVE Box!Next
  BY <1>6, ReplyBox
<1>7. CASE Crash
  <2>1. /\ task' = [d \in Deliveries |-> IF task[d] \in Running THEN "lost" ELSE task[d]]
        /\ UNCHANGED <<raced, row, reply, indexed, replied>>
    BY <1>7 DEF Crash, tableVars
  <2>2. /\ Wanted' = Wanted
        /\ Fates' = [d \in Deliveries |-> IF Fates[d] = "open" THEN "lost" ELSE Fates[d]]
    BY <1>0, <2>1 DEF Wanted, Fates, Running, TypeOK
  <2> QED BY <2>1, <2>2 DEF Box!Next, Box!Abandon
<1> QED BY <1>2, <1>3, <1>4, <1>5, <1>6, <1>7 DEF Next, TaskStep

\* Daemon and route implement the Inbox, for any number of audios, deliveries,
\* attempts and faults: an audio is stored and replied to as the Inbox says, and
\* what has been stored, or is over, stays so.
THEOREM PipelineImplementsInbox == Spec => ImplementsInbox
<1>1. Init => ReplyInv
  BY DEF Init, ReplyInv
<1> QED BY <1>1, InitBox, NextReplyInv, StepBox, Invariance, PTL DEF Spec, ImplementsInbox, Box!Spec

-----------------------------------------------------------------------------
(* Nothing waits for ever: what a task and a request have left.            *)

\* Every step of the route takes its request further, and no other one.
LEMMA RouteFurther ==
  ASSUME IInv, NEW q \in Requests, RequestStep(q) \/ Kill(q)
  PROVE  RouteLeft(q)' < RouteLeft(q) /\ \A x \in Requests : RouteLeft(x)' <= RouteLeft(x)
<1>1. TypeOK /\ RouteStep(q)  BY RouteStepEffect DEF IInv
<1>2. \A x \in Requests : RouteLeft(x) \in Int /\ (x # q => RouteLeft(x)' = RouteLeft(x))
  BY <1>1 DEF RouteStep, RouteLeft
<1>3. ASSUME NEW from \in Working, NEW to, phase[q] = from, phase' = [phase EXCEPT ![q] = to],
             \/ to \in Answers
             \/ from = "lookup" /\ to = "check"
             \/ from = "check" /\ to = "decide"
             \/ from = "decide" /\ to \in {"transcribe", "skip"}
             \/ from = "transcribe" /\ to \in {"store", "fail"}
             \/ from = "store" /\ to = "index"
      PROVE  RouteLeft(q)' < RouteLeft(q) /\ RouteLeft(q)' <= RouteLeft(q)
  <2>1. phase'[q] = to  BY <1>1, <1>3 DEF TypeOK
  <2> QED  BY <1>3, <2>1 DEF RouteLeft, Working, Unstored, Answers
<1>4. RouteLeft(q)' < RouteLeft(q) /\ RouteLeft(q)' <= RouteLeft(q)
  <2> USE DEF Goes, Working, Unstored, Answers
  <2>1. CASE Lookup(q)  BY <1>3, <2>1 DEF Lookup
  <2>2. CASE Check(q)  BY <1>3, <2>2 DEF Check, Pass
  <2>3. CASE Decide(q)  BY <1>3, <2>3 DEF Decide
  <2>4. CASE StoreSkipped(q)  BY <1>3, <2>4 DEF StoreSkipped
  <2>5. CASE Transcribe(q)  BY <1>3, <2>5 DEF Transcribe
  <2>6. CASE StoreFailed(q)  BY <1>3, <2>6 DEF StoreFailed
  <2>7. CASE Store(q)  BY <1>3, <2>7 DEF Store
  <2>8. CASE Index(q)  BY <1>3, <2>8 DEF Index
  <2>9. CASE Kill(q)  BY <1>3, <2>9 DEF Kill
  <2> QED  BY <2>1, <2>2, <2>3, <2>4, <2>5, <2>6, <2>7, <2>8, <2>9 DEF RequestStep
<1> QED  BY <1>2, <1>4

\* A task's step takes it further, and no other one.
LEMMA TaskFurther ==
  ASSUME IInv, NEW d \in Deliveries, TaskStep(d) \/ Drop(d)
  PROVE  TaskLeft(d)' < TaskLeft(d) /\ \A e \in Deliveries : TaskLeft(e)' <= TaskLeft(e)
<1>1. TypeOK /\ TaskInv(d)  BY DEF IInv
<1>2. attempt[d] \in Nat /\ Retries \in Nat /\ attempt[d] <= Retries
  BY <1>1, AudioAssumption DEF TypeOK
<1>3. /\ task' \in [Deliveries -> Running \cup {"none", "done", "failed", "lost"}]
      /\ \A e \in Deliveries : e # d => task'[e] = task[e] /\ attempt'[e] = attempt[e]
      /\ \/ /\ task[d] = "ready" /\ attempt'[d] = attempt[d] + 1 /\ attempt[d] < Retries
            /\ \/ task'[d] \in {"waiting", "failed"}
               \/ task'[d] = "ready" /\ attempt[d] + 1 < Retries
         \/ /\ task[d] = "waiting" /\ attempt'[d] = attempt[d]
            /\ task'[d] \in {"ready", "reply", "done", "failed"}
         \/ task[d] = "reply" /\ task'[d] = "done"
  <2>1. CASE Post(d)
    BY <1>1, <1>2, <2>1, RetryEffect DEF Post, TypeOK, TaskInv, Running
  <2>2. CASE GetAnswer(d)
    BY <1>1, <2>2 DEF GetAnswer, Retry, daemonVars, TypeOK, Running
  <2>3. CASE Reply(d)
    BY <1>1, <2>3 DEF Reply, TypeOK, Running
  <2>4. CASE Drop(d)
    BY <1>1, <2>4, RetryEffect DEF Drop, TypeOK
  <2> QED  BY <2>1, <2>2, <2>3, <2>4 DEF TaskStep
<1>4. TaskLeft(d)' < TaskLeft(d) /\ TaskLeft(d)' <= TaskLeft(d)
  <2>1. CASE task[d] = "ready"  BY <1>2, <1>3, <2>1 DEF TaskLeft
  <2>2. CASE task[d] = "waiting"  BY <1>2, <1>3, <2>2 DEF TaskLeft
  <2>3. CASE task[d] = "reply"  BY <1>3, <2>3 DEF TaskLeft
  <2> QED  BY <1>3, <2>1, <2>2, <2>3
<1>5. \A e \in Deliveries : TaskLeft(e) \in Int  BY <1>1, AudioAssumption DEF TaskLeft, TypeOK
<1>6. \A e \in Deliveries : e # d => TaskLeft(e)' = TaskLeft(e)  BY <1>3 DEF TaskLeft
<1> QED  BY <1>4, <1>5, <1>6

\* What is begun or given up outside of a task's and a request's own steps.
LEMMA OthersFurther ==
  ASSUME IInv, \/ Toggle \/ Crash \/ UNCHANGED vars
               \/ \E a \in Audios : Regroup(a)
               \/ \E d \in Deliveries : Deliver(d)
  PROVE  \A d \in Deliveries : TaskLeft(d)' <= TaskLeft(d) /\ phase' = phase
<1>1. TypeOK /\ \A d \in Deliveries : TaskInv(d)  BY DEF IInv
<1>2. ASSUME NEW d \in Deliveries
      PROVE  /\ attempt[d] \in Nat /\ Retries \in Nat /\ attempt[d] <= Retries
             /\ TaskLeft(d) \in Nat
  <2>1. attempt[d] \in Nat /\ Retries \in Nat /\ attempt[d] <= Retries
    BY <1>1, AudioAssumption DEF TypeOK
  <2> QED  BY <2>1 DEF TaskLeft
<1>3. CASE UNCHANGED <<task, attempt, phase>>  BY <1>2, <1>3 DEF TaskLeft
<1>4. CASE Crash
  <2>1. /\ task' = [d \in Deliveries |-> IF task[d] \in Running THEN "lost" ELSE task[d]]
        /\ UNCHANGED <<attempt, phase>>
    BY <1>4 DEF Crash, daemonVars
  <2>2. ASSUME NEW d \in Deliveries  PROVE TaskLeft(d)' <= TaskLeft(d)
    <3>1. CASE task[d] \in Running
      <4>1. TaskLeft(d)' = 0  BY <2>1, <3>1 DEF TaskLeft
      <4> QED  BY <1>2, <4>1
    <3>2. CASE task[d] \notin Running
      <4>1. TaskLeft(d)' = TaskLeft(d)  BY <2>1, <3>2 DEF TaskLeft
      <4> QED  BY <1>2, <4>1
    <3> QED  BY <3>1, <3>2
  <2> QED  BY <2>1, <2>2
<1>5. ASSUME NEW c \in Deliveries, Deliver(c)
      PROVE  \A d \in Deliveries : TaskLeft(d)' <= TaskLeft(d) /\ phase' = phase
  <2>1. /\ task[c] = "none" /\ attempt[c] = 0
        /\ task' = [task EXCEPT ![c] = "ready"] /\ UNCHANGED <<attempt, phase>>
    BY <1>1, <1>5 DEF Deliver, daemonVars, TaskInv
  <2>2. TaskLeft(c)' <= TaskLeft(c)  BY <1>1, <1>2, <2>1 DEF TaskLeft, TypeOK
  <2>3. ASSUME NEW d \in Deliveries, d # c  PROVE TaskLeft(d)' <= TaskLeft(d)
    <3>1. TaskLeft(d)' = TaskLeft(d)  BY <2>1, <2>3 DEF TaskLeft
    <3> QED  BY <1>2, <3>1
  <2> QED  BY <2>1, <2>2, <2>3
<1> QED
  BY <1>3, <1>4, <1>5 DEF Toggle, Regroup, vars, daemonVars

\* A task's step begins its next request, at the most.
LEMMA RequestsFurther ==
  ASSUME IInv, NEW d \in Deliveries, TaskStep(d) \/ Drop(d), NEW q \in Requests
  PROVE  RouteLeft(q)' <= RouteLeft(q)
<1>1. TypeOK /\ TaskInv(d) /\ RouteLeft(q) \in 0 .. 7  BY DEF IInv, RouteLeft
<1>2. CASE phase' = phase  BY <1>1, <1>2 DEF RouteLeft
<1>3. ASSUME NEW to, phase' = [phase EXCEPT ![<<d, attempt[d] + 1>>] = to], Post(d)
      PROVE  RouteLeft(q)' <= RouteLeft(q)
  <2>1. CASE q # <<d, attempt[d] + 1>>
    <3>1. RouteLeft(q)' = RouteLeft(q)  BY <1>1, <1>3, <2>1 DEF RouteLeft, TypeOK
    <3> QED  BY <1>1, <3>1
  <2>2. CASE q = <<d, attempt[d] + 1>>
    <3>1. phase[q] = "none"
      <4>1. RequestInv(q) /\ q[1] = d /\ q[2] = attempt[d] + 1  BY <2>2 DEF IInv
      <4> QED  BY <1>1, <4>1 DEF RequestInv, TypeOK
    <3>2. RouteLeft(q) = 7 /\ RouteLeft(q)' \in 0 .. 7  BY <3>1 DEF RouteLeft
    <3> QED  BY <3>2
  <2> QED  BY <2>1, <2>2
<1>4. phase' = phase \/ (Post(d) /\ \E to : phase' = [phase EXCEPT ![<<d, attempt[d] + 1>>] = to])
  BY DEF TaskStep, Post, GetAnswer, Reply, Drop, Goes
<1> QED  BY <1>2, <1>3, <1>4

LEMMA ServedStays == IInv /\ WaitsForRoute /\ [Next]_vars => WaitsForRoute'
<1> SUFFICES ASSUME IInv, WaitsForRoute, [Next]_vars, NEW d \in Deliveries, task'[d] = "waiting"
             PROVE  phase'[Last(d)'] \in Working \cup Answers
  BY DEF WaitsForRoute, Last
<1>1. TypeOK /\ TaskInv(d) /\ (task[d] = "waiting" => phase[Last(d)] \in Working \cup Answers)
  BY DEF IInv, WaitsForRoute, Last
<1>2. CASE task[d] = "waiting" /\ UNCHANGED <<attempt, phase>>
  BY <1>1, <1>2 DEF Last
<1>3. ASSUME NEW q \in Requests, RequestStep(q) \/ Kill(q)
      PROVE  phase'[Last(d)'] \in Working \cup Answers
  <2>1. RouteStep(q)  BY <1>1, <1>3, RouteStepEffect
  <2>2. /\ task[d] = "waiting" /\ Last(d)' = Last(d) /\ attempt[d] > 0
    BY <1>1, <2>1 DEF RouteStep, TaskInv, Last
  <2>3. Last(d) \in Requests  BY <1>1, <2>2, LastIsRequest
  <2>4. CASE Last(d) = q  BY <2>1, <2>2, <2>4 DEF RouteStep
  <2>5. CASE Last(d) # q  BY <1>1, <2>1, <2>2, <2>3, <2>5 DEF RouteStep
  <2> QED  BY <2>4, <2>5
<1>4. ASSUME NEW e \in Deliveries, Post(e)
      PROVE  phase'[Last(d)'] \in Working \cup Answers
  <2> DEFINE n == attempt[e] + 1
  <2>1. /\ n \in 1 .. Retries /\ <<e, n>> \in Requests /\ task[e] = "ready"
        /\ attempt' = [attempt EXCEPT ![e] = n]
    BY <1>1, <1>4, AudioAssumption DEF Post, IInv, TaskInv, TypeOK, Requests
  <2>2. CASE e = d
    <3>1. Last(d)' = <<d, n>>  BY <1>1, <2>1, <2>2 DEF Last, TypeOK
    <3>2. \E to \in {"lookup", "rejected"} : phase' = [phase EXCEPT ![<<d, n>>] = to]
      BY <1>1, <1>4, <2>1, <2>2, RetryEffect DEF Post, Goes
    <3> QED  BY <1>1, <2>1, <2>2, <3>1, <3>2 DEF TypeOK, Working, Answers
  <2>3. CASE e # d
    <3>1. task[d] = "waiting" /\ attempt'[d] = attempt[d]
      BY <1>1, <1>4, <2>1, <2>3, RetryEffect DEF Post, TypeOK
    <3>2. Last(d)' = Last(d) /\ Last(d) # <<e, n>> /\ Last(d) \in Requests
      BY <1>1, <2>3, <3>1, LastIsRequest DEF Last, TaskInv
    <3>3. phase'[Last(d)] = phase[Last(d)]
      BY <1>1, <1>4, <3>2 DEF Post, Goes, TypeOK
    <3> QED  BY <1>1, <3>1, <3>2, <3>3
  <2> QED  BY <2>2, <2>3
<1>5. ASSUME NEW e \in Deliveries, Deliver(e) \/ GetAnswer(e) \/ Reply(e) \/ Drop(e)
      PROVE  task[d] = "waiting" /\ UNCHANGED <<attempt, phase>>
  <2>1. UNCHANGED <<attempt, phase>>
    BY <1>5 DEF Deliver, GetAnswer, Reply, Drop, daemonVars
  <2>2. task[d] = "waiting"
    BY <1>1, <1>5 DEF Deliver, GetAnswer, Reply, Drop, Retry, TypeOK
  <2> QED  BY <2>1, <2>2
<1>6. CASE Toggle \/ (\E a \in Audios : Regroup(a)) \/ Crash \/ UNCHANGED vars
  <2>1. UNCHANGED <<attempt, phase>> /\ task[d] = "waiting"
    BY <1>1, <1>6 DEF Toggle, Regroup, Crash, vars, daemonVars, TypeOK
  <2> QED  BY <1>2, <2>1
<1> QED  BY <1>2, <1>3, <1>4, <1>5, <1>6 DEF Next, TaskStep

\* A task never waits for a request that was not sent or has disappeared in the
\* route (forwarder.ts:28-96).
THEOREM WaitingIsServed == Spec => []WaitsForRoute
<1>1. Init => WaitsForRoute  BY DEF Init, WaitsForRoute
<1> QED  BY <1>1, ServedStays, Invariance, PTL DEF Spec

\* Tasks and requests only go on, a bounded number of steps each, whatever is
\* lost, repeated or overtaken (forwarder.ts:28-96, route.ts:40-311).
THEOREM PipelineGoesOn == Spec => AlwaysFurther
<1> DEFINE Further ==
      /\ \A d \in Deliveries : /\ TaskLeft(d)' <= TaskLeft(d)
                               /\ TaskStep(d) \/ Drop(d) => TaskLeft(d)' < TaskLeft(d)
      /\ \A q \in Requests : /\ RouteLeft(q)' <= RouteLeft(q)
                             /\ RequestStep(q) \/ Kill(q) => RouteLeft(q)' < RouteLeft(q)
<1>1. IInv /\ [Next]_vars => Further
  <2> SUFFICES ASSUME IInv, [Next]_vars  PROVE Further  OBVIOUS
  <2>1. ASSUME NEW d \in Deliveries, TaskStep(d) \/ Drop(d)  PROVE TaskLeft(d)' < TaskLeft(d)
    BY <2>1, TaskFurther
  <2>2. ASSUME NEW q \in Requests, RequestStep(q) \/ Kill(q)  PROVE RouteLeft(q)' < RouteLeft(q)
    BY <2>2, RouteFurther
  <2>3. \A q \in Requests : RouteLeft(q) \in 0 .. 7  BY DEF RouteLeft
  <2>4. \A d \in Deliveries : TaskLeft(d) \in Int  BY AudioAssumption DEF IInv, TypeOK, TaskLeft
  <2>5. ASSUME NEW q \in Requests, RequestStep(q) \/ Kill(q), NEW d \in Deliveries
        PROVE  TaskLeft(d)' <= TaskLeft(d)
    <3>1. UNCHANGED <<task, attempt>>
      BY <2>5, RouteStepEffect DEF IInv, RouteStep
    <3> QED  BY <2>4, <3>1 DEF TaskLeft
  <2>6. \A d \in Deliveries : TaskLeft(d)' <= TaskLeft(d)
    BY <2>5, TaskFurther, OthersFurther DEF Next
  <2>7. ASSUME NEW q \in Requests, phase' = phase  PROVE RouteLeft(q)' <= RouteLeft(q)
    BY <2>3, <2>7 DEF RouteLeft
  <2>8. \A q \in Requests : RouteLeft(q)' <= RouteLeft(q)
    <3>1. ASSUME NEW q \in Requests  PROVE RouteLeft(q)' <= RouteLeft(q)
      <4>1. ASSUME NEW x \in Requests, RequestStep(x) \/ Kill(x)  PROVE RouteLeft(q)' <= RouteLeft(q)
        BY <4>1, RouteFurther
      <4>2. ASSUME NEW d \in Deliveries, TaskStep(d) \/ Drop(d)  PROVE RouteLeft(q)' <= RouteLeft(q)
        BY <4>2, RequestsFurther
      <4>3. ASSUME NEW d \in Deliveries, Deliver(d)  PROVE phase' = phase
        BY <4>3 DEF Deliver
      <4>4. ASSUME Toggle \/ Crash \/ UNCHANGED vars \/ \E a \in Audios : Regroup(a)
            PROVE  phase' = phase
        BY <4>4 DEF Toggle, Crash, vars, Regroup
      <4> QED  BY <2>7, <4>1, <4>2, <4>3, <4>4 DEF Next
    <3> QED  BY <3>1
  <2> QED  BY <2>1, <2>2, <2>6, <2>8
<1>2. IInv /\ [Next]_vars => [Further]_vars  BY <1>1
<1> QED  BY <1>2, Invariance, PTL DEF Spec, AlwaysFurther, Further

=============================================================================
