---------------------------- MODULE SchedulerProofs ----------------------------
(***************************************************************************)
(* What TLAPS proves of Scheduler, for any number of schedulers and rows,  *)
(* any plans and any number of faults.                                     *)
(***************************************************************************)
EXTENDS Scheduler, RecurrenceProofs, FiniteSetTheorems

\* A row a scheduler has fetched or is working on is in the table, and a row
\* it is working on is claimed, by it or by somebody else.
JobInv ==
  \A p \in Schedulers :
    /\ \A r \in batch[p] : Exists(r)
    /\ job[p] \in Rows => status[job[p]] \notin {"absent", "pending"}
    /\ job[p] \notin batch[p]

\* A scheduler has not sent a row it has yet to send, nor has anybody sent a
\* row nobody has claimed; and it sent a row it marks or reschedules.
SendRow(r, p) ==
  /\ sends[<<r, p>>] <= 1
  /\ status[r] \in {"absent", "pending"} => sends[<<r, p>>] = 0
  /\ r \in batch[p] => sends[<<r, p>>] = 0
  /\ job[p] = r /\ pc[p] = "send" => sends[<<r, p>>] = 0
  /\ job[p] = r /\ pc[p] \in {"mark", "reschedule"} => sends[<<r, p>>] > 0

SendInv == \A r \in Rows : \A p \in Schedulers : SendRow(r, p)

\* A scheduler has claimed the row, and found it pending.
Claimed(r, p) == (job[p] = r \/ sends[<<r, p>>] > 0) /\ <<r, p>> \notin blind

\* One scheduler claims a row in this way, and the row is neither canceled
\* then nor can be later.
ClaimRow(r, p) ==
  Claimed(r, p) =>
    /\ status[r] \notin {"absent", "pending", "canceled"}
    /\ \A q \in Schedulers : Claimed(r, q) => q = p

ClaimInv == \A r \in Rows : \A p \in Schedulers : ClaimRow(r, p)

\* It is being processed, or somebody who claimed it blindly has marked it.
OwnInv ==
  \A p \in Schedulers :
    job[p] \in Rows /\ <<job[p], p>> \notin blind => status[job[p]] \in {"processing", "failed"}

\* A row with a next occurrence is in the table, and was sent by the scheduler
\* that wrote this one, its only one, and is through with the row; and the
\* next occurrence lies ahead of it.
SeriesRow(c) ==
  /\ Exists(c)
  /\ Exists(parent[c])
  /\ \E p \in Schedulers :
       author[c] = {p} /\ sends[<<parent[c], p>>] > 0 /\ job[p] # parent[c]
  /\ \A d \in Rows : parent[d] = parent[c] /\ author[d] = author[c] => d = c
  /\ due[c] > due[parent[c]]
  /\ \A end \in plan[parent[c]].end : due[c] <= end

SeriesInv == \A c \in Rows : parent[c] # NoRow => SeriesRow(c)

\* The inductive invariant.
IInv ==
  /\ TypeOK
  /\ JobInv
  /\ SendInv
  /\ ClaimInv
  /\ OwnInv
  /\ SeriesInv

-----------------------------------------------------------------------------
(* What the operators the actions share do to the table, row by row.       *)

LEMMA InsertEffect ==
  ASSUME TypeOK, NEW r \in Rows, NEW d \in Nat, NEW how \in Plans,
         NEW from \in Rows \cup {NoRow}, NEW who \in SUBSET Schedulers,
         Insert(r, d, how, from, who)
  PROVE  /\ status[r] = "absent"
         /\ status'[r] = "pending" /\ due'[r] = d /\ plan'[r] = how /\ parent'[r] = from
         /\ author'[r] = who
         /\ \A s \in Rows : s # r =>
              /\ status'[s] = status[s] /\ due'[s] = due[s]
              /\ plan'[s] = plan[s] /\ parent'[s] = parent[s] /\ author'[s] = author[s]
         /\ status' \in [Rows -> Statuses \cup {"absent"}]
         /\ due' \in [Rows -> Nat]
         /\ plan' \in [Rows -> Plans]
         /\ parent' \in [Rows -> Rows \cup {NoRow}]
         /\ author' \in [Rows -> SUBSET Schedulers]
BY DEF TypeOK, Insert, Exists, Statuses

LEMMA PatchEffect ==
  ASSUME TypeOK, NEW r \in Rows, NEW from \in SUBSET Statuses, NEW to \in Statuses,
         NEW f, Patch(r, from, to, f)
  PROVE  /\ status' \in [Rows -> Statuses \cup {"absent"}]
         /\ \A s \in Rows : s # r => status'[s] = status[s]
         /\ status'[r] = status[r] \/ (status[r] \in from /\ status'[r] = to)
BY DEF TypeOK, Patch

LEMMA FateEffect ==
  ASSUME TypeOK, NEW f, Fate(f)
  PROVE  faults' \in 0 .. MaxFaults
<1>1. MaxFaults \in Nat /\ faults \in 0 .. MaxFaults
  BY SchedulerAssumption DEF TypeOK
<1>2. CASE f = "answered"
  BY <1>1, <1>2 DEF Fate
<1>3. CASE f # "answered"
  BY <1>1, <1>3 DEF Fate
<1> QED BY <1>2, <1>3

\* A step that inserts no row keeps what SeriesInv says of the others.
LEMMA SeriesKept ==
  ASSUME TypeOK, SeriesInv, UNCHANGED <<due, plan, parent, author>>,
         \A s \in Rows : Exists(s) => status'[s] # "absent",
         \A s \in Rows : \A q \in Schedulers : sends[<<s, q>>] > 0 =>
           sends'[<<s, q>>] > 0 /\ (job'[q] = s => job[q] = s)
  PROVE  SeriesInv'
<1> SUFFICES ASSUME NEW c \in Rows, parent'[c] # NoRow
             PROVE  SeriesRow(c)'
  BY DEF SeriesInv
<1>1. parent'[c] = parent[c] /\ parent[c] \in Rows /\ SeriesRow(c)
  BY DEF TypeOK, SeriesInv
<1>2. PICK p \in Schedulers :
        author[c] = {p} /\ sends[<<parent[c], p>>] > 0 /\ job[p] # parent[c]
  BY <1>1 DEF SeriesRow
<1>3. sends'[<<parent[c], p>>] > 0 /\ job'[p] # parent[c]
  BY <1>1, <1>2
<1> QED BY <1>1, <1>2, <1>3 DEF SeriesRow, Exists

\* What ClaimInv and OwnInv say of the others is kept by a step that gives
\* nobody a new claim.
LEMMA ClaimsKept ==
  ASSUME TypeOK, JobInv, SendInv, ClaimInv, OwnInv, blind' = blind,
         \A s \in Rows : \A q \in Schedulers : Claimed(s, q)' => Claimed(s, q),
         \A s \in Rows : \A q \in Schedulers : Claimed(s, q) => status'[s] \in {status[s], "failed"},
         \A q \in Schedulers : job'[q] \in Rows => job'[q] = job[q]
  PROVE  ClaimInv' /\ OwnInv'
<1>1. ClaimInv'
  BY DEF ClaimInv, ClaimRow
<1>2. OwnInv'
  <2> SUFFICES ASSUME NEW q \in Schedulers, job'[q] \in Rows, <<job'[q], q>> \notin blind
               PROVE  status'[job'[q]] \in {"processing", "failed"}
    BY DEF OwnInv
  <2>1. Claimed(job[q], q) /\ job[q] \in Rows /\ job'[q] = job[q]
    BY DEF Claimed
  <2> QED BY <2>1 DEF OwnInv
<1> QED BY <1>1, <1>2

-----------------------------------------------------------------------------
(* The initial states and the steps.                                       *)

LEMMA InitIInv == Init => IInv
<1> SUFFICES ASSUME Init PROVE IInv
  OBVIOUS
<1>1. (CHOOSE x \in Plans : TRUE) \in Plans
  BY SchedulerAssumption
<1>2. TypeOK
  BY <1>1, SchedulerAssumption DEF Init, TypeOK, Busy, Statuses
<1> QED
  BY <1>2, SchedulerAssumption
     DEF Init, IInv, JobInv, SendInv, SendRow, ClaimInv, ClaimRow, Claimed, OwnInv, SeriesInv, Exists

LEMMA PostStep ==
  ASSUME IInv, NEW r \in Rows, Post(r)
  PROVE  IInv'
<1>1. TypeOK
  BY DEF IInv
<1>2. PICK d \in today .. today + Horizon, how \in Plans : Insert(r, d, how, NoRow, {})
  BY DEF Post
<1>3. d \in Nat /\ {} \in SUBSET Schedulers /\ NoRow \in Rows \cup {NoRow}
  BY <1>1, SchedulerAssumption DEF TypeOK
<1>4. /\ status[r] = "absent"
      /\ status'[r] = "pending" /\ parent'[r] = NoRow
      /\ \A s \in Rows : s # r =>
           /\ status'[s] = status[s] /\ due'[s] = due[s]
           /\ plan'[s] = plan[s] /\ parent'[s] = parent[s] /\ author'[s] = author[s]
  BY <1>1, <1>2, <1>3, InsertEffect
<1>5. UNCHANGED <<blind, sends, today, faults, pc, batch, job>>
  BY DEF Post, procVars
<1>6. TypeOK'
  BY <1>1, <1>2, <1>3, <1>5, InsertEffect DEF TypeOK
<1>7. JobInv'
  BY <1>1, <1>4, <1>5 DEF IInv, TypeOK, JobInv, Exists
<1>8. SendInv'
  BY <1>1, <1>4, <1>5 DEF IInv, TypeOK, SendInv, SendRow
<1>9. ClaimInv' /\ OwnInv'
  BY <1>1, <1>4, <1>5, ClaimsKept DEF IInv, ClaimInv, ClaimRow, Claimed
<1>10. SeriesInv'
  <2> SUFFICES ASSUME NEW c \in Rows, parent'[c] # NoRow
               PROVE  SeriesRow(c)'
    BY DEF SeriesInv
  <2>1. c # r /\ parent'[c] = parent[c] /\ author'[c] = author[c]
    BY <1>4
  <2>2. parent[c] \in Rows /\ SeriesRow(c)
    BY <1>1, <2>1 DEF IInv, TypeOK, SeriesInv
  <2>3. parent[c] # r
    BY <1>4, <2>2 DEF SeriesRow, Exists
  <2>4. \A x \in Rows : parent'[x] = parent[c] => x # r
    BY <1>1, <1>4, <2>2, SchedulerAssumption
  <2> QED BY <1>4, <1>5, <2>1, <2>2, <2>3, <2>4 DEF SeriesRow, Exists
<1> QED BY <1>6, <1>7, <1>8, <1>9, <1>10 DEF IInv

LEMMA CancelStep ==
  ASSUME IInv, NEW r \in Rows, Cancel(r)
  PROVE  IInv'
<1>1. TypeOK'
  BY SchedulerAssumption DEF IInv, TypeOK, Busy, Statuses, Settled, Exists, Cancel, tableVars, procVars
<1>2. JobInv'
  BY SchedulerAssumption DEF IInv, TypeOK, JobInv, Busy, Statuses, Exists, Cancel, tableVars, procVars
<1>3. SendInv'
  BY SchedulerAssumption DEF IInv, TypeOK, JobInv, SendInv, SendRow, Busy, Statuses, Exists, Cancel, tableVars, procVars
<1>4. ClaimInv' /\ OwnInv'
  <2>1. TypeOK /\ JobInv /\ SendInv /\ ClaimInv /\ OwnInv
    BY DEF IInv
  <2>2. \A q \in Schedulers : job'[q] \in Rows => job'[q] = job[q]
    BY <2>1, SchedulerAssumption DEF TypeOK, Cancel, procVars
  <2>3. UNCHANGED <<blind, sends>>
    BY DEF Cancel
  <2>4. \A s \in Rows : \A q \in Schedulers : Claimed(s, q)' => Claimed(s, q)
    BY <2>2, <2>3 DEF Claimed
  <2>5. \A s \in Rows : \A q \in Schedulers : Claimed(s, q) => status'[s] \in {status[s], "failed"}
    BY <2>1 DEF ClaimInv, ClaimRow, TypeOK, Cancel, tableVars
  <2> QED BY <2>1, <2>2, <2>3, <2>4, <2>5, ClaimsKept
<1>5. SeriesInv'
  <2>1. TypeOK /\ SeriesInv /\ UNCHANGED <<due, plan, parent, author, sends>>
    BY DEF IInv, Cancel, tableVars
  <2>2. \A s \in Rows : Exists(s) => status'[s] # "absent"
    BY <2>1 DEF TypeOK, Exists, Cancel, tableVars
  <2>3. \A q \in Schedulers : \A s \in Rows : job'[q] = s => job[q] = s
    BY <2>1, SchedulerAssumption DEF TypeOK, Cancel, procVars
  <2> QED BY <2>1, <2>2, <2>3, SeriesKept
<1> QED BY <1>1, <1>2, <1>3, <1>4, <1>5 DEF IInv

LEMMA TickStep ==
  ASSUME IInv, Tick
  PROVE  IInv'
<1>1. TypeOK'
  BY SchedulerAssumption DEF IInv, TypeOK, Busy, Statuses, Settled, Exists, Tick, tableVars, procVars
<1>2. JobInv'
  BY SchedulerAssumption DEF IInv, TypeOK, JobInv, Busy, Statuses, Exists, Tick, tableVars, procVars
<1>3. SendInv'
  BY SchedulerAssumption DEF IInv, TypeOK, JobInv, SendInv, SendRow, Busy, Statuses, Exists, Tick, tableVars, procVars
<1>4. ClaimInv' /\ OwnInv'
  <2>1. TypeOK /\ JobInv /\ SendInv /\ ClaimInv /\ OwnInv
    BY DEF IInv
  <2>2. \A q \in Schedulers : job'[q] \in Rows => job'[q] = job[q]
    BY <2>1, SchedulerAssumption DEF TypeOK, Tick, procVars
  <2>3. UNCHANGED <<blind, sends>>
    BY DEF Tick
  <2>4. \A s \in Rows : \A q \in Schedulers : Claimed(s, q)' => Claimed(s, q)
    BY <2>2, <2>3 DEF Claimed
  <2>5. \A s \in Rows : \A q \in Schedulers : Claimed(s, q) => status'[s] \in {status[s], "failed"}
    BY <2>1 DEF ClaimInv, ClaimRow, TypeOK, Tick, tableVars
  <2> QED BY <2>1, <2>2, <2>3, <2>4, <2>5, ClaimsKept
<1>5. SeriesInv'
  <2>1. TypeOK /\ SeriesInv /\ UNCHANGED <<due, plan, parent, author, sends>>
    BY DEF IInv, Tick, tableVars
  <2>2. \A s \in Rows : Exists(s) => status'[s] # "absent"
    BY <2>1 DEF TypeOK, Exists, Tick, tableVars
  <2>3. \A q \in Schedulers : \A s \in Rows : job'[q] = s => job[q] = s
    BY <2>1, SchedulerAssumption DEF TypeOK, Tick, procVars
  <2> QED BY <2>1, <2>2, <2>3, SeriesKept
<1> QED BY <1>1, <1>2, <1>3, <1>4, <1>5 DEF IInv

LEMMA FetchStep ==
  ASSUME IInv, NEW p \in Schedulers, Fetch(p)
  PROVE  IInv'
<1>1. TypeOK'
  BY SchedulerAssumption DEF IInv, TypeOK, Busy, Statuses, Settled, Exists, Fetch, IsDue, tableVars, procVars
<1>2. JobInv'
  BY SchedulerAssumption DEF IInv, TypeOK, JobInv, Busy, Statuses, Exists, Fetch, IsDue, tableVars, procVars
<1>3. SendInv'
  BY SchedulerAssumption DEF IInv, TypeOK, JobInv, SendInv, SendRow, Busy, Statuses, Exists, Fetch, IsDue, tableVars, procVars
<1>4. ClaimInv' /\ OwnInv'
  <2>1. TypeOK /\ JobInv /\ SendInv /\ ClaimInv /\ OwnInv
    BY DEF IInv
  <2>2. \A q \in Schedulers : job'[q] \in Rows => job'[q] = job[q]
    BY <2>1, SchedulerAssumption DEF TypeOK, Fetch, procVars
  <2>3. UNCHANGED <<blind, sends>>
    BY DEF Fetch
  <2>4. \A s \in Rows : \A q \in Schedulers : Claimed(s, q)' => Claimed(s, q)
    BY <2>2, <2>3 DEF Claimed
  <2>5. \A s \in Rows : \A q \in Schedulers : Claimed(s, q) => status'[s] \in {status[s], "failed"}
    BY <2>1 DEF ClaimInv, ClaimRow, TypeOK, Fetch, tableVars
  <2> QED BY <2>1, <2>2, <2>3, <2>4, <2>5, ClaimsKept
<1>5. SeriesInv'
  <2>1. TypeOK /\ SeriesInv /\ UNCHANGED <<due, plan, parent, author, sends>>
    BY DEF IInv, Fetch, tableVars
  <2>2. \A s \in Rows : Exists(s) => status'[s] # "absent"
    BY <2>1 DEF TypeOK, Exists, Fetch, tableVars
  <2>3. \A q \in Schedulers : \A s \in Rows : job'[q] = s => job[q] = s
    BY <2>1, SchedulerAssumption DEF TypeOK, Fetch, procVars
  <2> QED BY <2>1, <2>2, <2>3, SeriesKept
<1> QED BY <1>1, <1>2, <1>3, <1>4, <1>5 DEF IInv

LEMMA ClaimStep ==
  ASSUME IInv, NEW p \in Schedulers, NEW r \in Rows, Claim(p, r)
  PROVE  IInv'
<1>1. TypeOK
  BY DEF IInv
<1>2. PICK f \in Fates :
        /\ Fate(f)
        /\ Patch(r, {"pending"}, "processing", f)
        /\ IF f = "answered" THEN Accept(p, r) ELSE UNCHANGED <<blind, pc, job>>
  BY DEF Claim
<1>3. /\ pc[p] = "poll" /\ r \in batch[p] /\ job[p] \notin Rows
      /\ status[r] # "absent"
      /\ \A q \in Schedulers : batch'[q] = IF q = p THEN batch[p] \ {r} ELSE batch[q]
      /\ UNCHANGED <<due, plan, parent, author, sends, today>>
  <2>1. /\ pc[p] = "poll" /\ r \in batch[p]
        /\ batch' = [batch EXCEPT ![p] = @ \ {r}]
        /\ UNCHANGED <<due, plan, parent, author, sends, today>>
    BY DEF Claim
  <2>2. job[p] \notin Rows
    BY <2>1 DEF IInv, TypeOK, Busy
  <2>3. status[r] # "absent"
    BY <2>1 DEF IInv, JobInv, Exists
  <2>4. batch \in [Schedulers -> SUBSET Rows]
    BY <1>1 DEF TypeOK
  <2>5. \A q \in Schedulers : batch'[q] = IF q = p THEN batch[p] \ {r} ELSE batch[q]
    BY <2>1, <2>4
  <2> QED BY <2>1, <2>2, <2>3, <2>5
<1>4. /\ \A s \in Rows : s # r => status'[s] = status[s]
      /\ status'[r] = status[r] \/ (status[r] = "pending" /\ status'[r] = "processing")
  <2>1. {"pending"} \in SUBSET Statuses /\ "processing" \in Statuses
    BY DEF Statuses
  <2>2. TypeOK /\ Patch(r, {"pending"}, "processing", f)
    BY <1>1, <1>2
  <2>3. /\ \A s \in Rows : s # r => status'[s] = status[s]
        /\ status'[r] = status[r] \/ (status[r] \in {"pending"} /\ status'[r] = "processing")
    BY <2>1, <2>2, PatchEffect
  <2> QED BY <2>3
<1>5. TypeOK'
  <2>1. status' \in [Rows -> Statuses \cup {"absent"}]
    BY <1>1, <1>2, PatchEffect DEF Statuses
  <2>2. faults' \in 0 .. MaxFaults
    BY <1>1, <1>2, FateEffect
  <2>3. batch' \in [Schedulers -> SUBSET Rows]
    BY <1>1 DEF Claim, TypeOK
  <2>4. /\ pc' \in [Schedulers -> Busy \cup {"poll", "down"}]
        /\ job' \in [Schedulers -> Rows \cup {NoRow}]
        /\ \A q \in Schedulers : pc'[q] \in Busy <=> job'[q] \in Rows
    BY <1>1, <1>2 DEF TypeOK, Busy, Accept
  <2>5. blind' \subseteq Rows \X Schedulers
    BY <1>1, <1>2 DEF TypeOK, Accept
  <2> QED BY <1>1, <1>3, <2>1, <2>2, <2>3, <2>4, <2>5 DEF TypeOK
<1>6. \/ /\ pc'[p] = "send" /\ job'[p] = r
         /\ status'[r] \notin {"absent", "pending"}
         /\ IF status[r] = "pending"
              THEN blind' = blind /\ status'[r] = "processing"
              ELSE blind' = blind \cup {<<r, p>>} /\ status' = status
      \/ pc'[p] = pc[p] /\ job'[p] = job[p] /\ blind' = blind
  <2>1. CASE f = "answered"
    <3>1. pc'[p] = "send" /\ job'[p] = r
      BY <1>1, <1>2, <2>1 DEF Accept, TypeOK
    <3>2. IF status[r] = "pending" THEN blind' = blind ELSE blind' = blind \cup {<<r, p>>}
      BY <1>2, <2>1 DEF Accept
    <3>3. IF status[r] = "pending" THEN status'[r] = "processing" ELSE status' = status
      BY <1>1, <1>2, <2>1 DEF Patch, TypeOK
    <3> QED BY <1>3, <3>1, <3>2, <3>3
  <2>2. CASE f # "answered"
    BY <1>2, <2>2
  <2> QED BY <2>1, <2>2
<1>7. \A q \in Schedulers : q # p => pc'[q] = pc[q] /\ job'[q] = job[q]
  BY <1>1, <1>2 DEF TypeOK, Accept
<1>8. JobInv'
  BY <1>1, <1>3, <1>4, <1>6, <1>7, SchedulerAssumption DEF IInv, TypeOK, JobInv, Exists
<1>9. SendInv'
  <2> SUFFICES ASSUME NEW s \in Rows, NEW q \in Schedulers PROVE SendRow(s, q)'
    BY DEF SendInv
  <2>1. SendRow(s, q)
    BY DEF IInv, SendInv, SendRow
  <2>2. CASE q = p
    BY <1>3, <1>4, <1>6, <2>1, <2>2 DEF SendRow
  <2>3. CASE q # p
    BY <1>3, <1>4, <1>7, <2>1, <2>3 DEF SendRow
  <2> QED BY <2>2, <2>3
<1>10. ClaimInv' /\ OwnInv'
  <2>1. \A q \in Schedulers : status[r] = "pending" => ~ Claimed(r, q)
    BY DEF IInv, ClaimInv, ClaimRow
  <2>2. \A s \in Rows : \A q \in Schedulers : s # r \/ q # p => (Claimed(s, q)' => Claimed(s, q))
    BY <1>3, <1>6, <1>7 DEF Claimed
  <2>3. Claimed(r, p)' => Claimed(r, p) \/ (status[r] = "pending" /\ status'[r] = "processing")
    BY <1>3, <1>6 DEF Claimed
  <2>4. ClaimInv'
    <3> SUFFICES ASSUME NEW s \in Rows, NEW q \in Schedulers, Claimed(s, q)'
                 PROVE  /\ status'[s] \notin {"absent", "pending", "canceled"}
                        /\ \A x \in Schedulers : Claimed(s, x)' => x = q
      BY DEF ClaimInv, ClaimRow
    <3>1. ClaimRow(s, q) /\ (Claimed(s, q) => \A x \in Schedulers : Claimed(s, x) => x = q)
      BY DEF IInv, ClaimInv, ClaimRow
    <3>2. CASE s # r
      BY <1>4, <2>2, <3>1, <3>2 DEF ClaimRow
    <3>3. CASE s = r /\ status[r] = "pending"
      BY <1>4, <2>1, <2>2, <2>3, <3>3
    <3>4. CASE s = r /\ status[r] # "pending"
      BY <1>4, <2>2, <2>3, <3>1, <3>4 DEF ClaimRow
    <3> QED BY <3>2, <3>3, <3>4
  <2>5. OwnInv'
    <3> SUFFICES ASSUME NEW q \in Schedulers, job'[q] \in Rows, <<job'[q], q>> \notin blind'
                 PROVE  status'[job'[q]] \in {"processing", "failed"}
      BY DEF OwnInv
    <3>1. blind \subseteq blind'
      BY <1>6
    <3>2. CASE q = p
      BY <1>3, <1>6, <3>2
    <3>3. CASE q # p
      <4>1. job[q] \in Rows /\ job'[q] = job[q] /\ status[job[q]] \in {"processing", "failed"}
        BY <1>7, <3>1, <3>3 DEF IInv, OwnInv
      <4> QED BY <1>4, <4>1
    <3> QED BY <3>2, <3>3
  <2> QED BY <2>4, <2>5
<1>11. SeriesInv'
  <2>1. \A s \in Rows : \A q \in Schedulers :
          sends[<<s, q>>] > 0 => sends'[<<s, q>>] > 0 /\ (job'[q] = s => job[q] = s)
    <3>1. ~ (sends[<<r, p>>] > 0)
      BY <1>1, <1>3 DEF IInv, SendInv, SendRow, TypeOK
    <3> QED BY <1>3, <1>6, <1>7, <3>1
  <2>2. \A s \in Rows : Exists(s) => status'[s] # "absent"
    BY <1>4 DEF Exists
  <2> QED BY <1>1, <1>3, <2>1, <2>2, SeriesKept DEF IInv
<1> QED BY <1>5, <1>8, <1>9, <1>10, <1>11 DEF IInv

LEMMA SendStep ==
  ASSUME IInv, NEW p \in Schedulers, Send(p)
  PROVE  IInv'
<1>1. TypeOK
  BY DEF IInv
<1>2. PICK r \in Rows : r = job[p]
  BY <1>1 DEF TypeOK, Send, Busy
<1>3. PICK result \in {"sent", "failed", "unanswered"} :
        /\ sends' = [sends EXCEPT ![<<r, p>>] = @ + (IF result = "failed" THEN 0 ELSE 1)]
        /\ pc' = [pc EXCEPT ![p] = IF result = "sent" THEN "mark" ELSE "fail"]
  BY <1>2 DEF Send
<1>4. /\ pc[p] = "send"
      /\ UNCHANGED <<status, due, plan, parent, author, blind, today, faults, batch, job>>
  BY DEF Send, tableVars
<1>5. sends[<<r, p>>] = 0 /\ r \notin batch[p] /\ status[r] \notin {"absent", "pending"}
  BY <1>2, <1>4 DEF IInv, SendInv, SendRow, JobInv
<1>6. /\ sends'[<<r, p>>] \in {0, 1}
      /\ pc'[p] = "mark" => sends'[<<r, p>>] = 1
      /\ pc'[p] \in {"mark", "fail"}
      /\ \A s \in Rows : \A q \in Schedulers :
           s # r \/ q # p => sends'[<<s, q>>] = sends[<<s, q>>]
      /\ \A q \in Schedulers : q # p => pc'[q] = pc[q]
  <2>1. sends \in [Rows \X Schedulers -> Nat] /\ <<r, p>> \in Rows \X Schedulers
    BY <1>1 DEF TypeOK
  <2>2. sends'[<<r, p>>] = sends[<<r, p>>] + (IF result = "failed" THEN 0 ELSE 1)
    BY <1>3, <2>1
  <2>3. \A x \in Rows \X Schedulers : x # <<r, p>> => sends'[x] = sends[x]
    BY <1>3, <2>1
  <2>4. ASSUME NEW s \in Rows, NEW q \in Schedulers, s # r \/ q # p
        PROVE  sends'[<<s, q>>] = sends[<<s, q>>]
    <3>1. <<s, q>> \in Rows \X Schedulers /\ <<s, q>> # <<r, p>>
      BY <2>4
    <3> QED BY <2>3, <3>1
  <2>5. /\ pc'[p] = IF result = "sent" THEN "mark" ELSE "fail"
        /\ \A q \in Schedulers : q # p => pc'[q] = pc[q]
    BY <1>1, <1>3 DEF TypeOK
  <2> QED BY <1>5, <2>2, <2>4, <2>5
<1>7. TypeOK'
  <2>1. sends' \in [Rows \X Schedulers -> Nat]
    BY <1>1, <1>3 DEF TypeOK
  <2>2. pc' \in [Schedulers -> Busy \cup {"poll", "down"}]
    BY <1>1, <1>3 DEF TypeOK, Busy
  <2> QED BY <1>1, <1>2, <1>4, <1>6, <2>1, <2>2 DEF TypeOK, Busy
<1>8. JobInv'
  BY <1>4 DEF IInv, JobInv, Exists
<1>9. SendInv'
  <2> SUFFICES ASSUME NEW s \in Rows, NEW q \in Schedulers PROVE SendRow(s, q)'
    BY DEF SendInv
  <2>1. SendRow(s, q)
    BY DEF IInv, SendInv
  <2>2. CASE s = r /\ q = p
    BY <1>4, <1>5, <1>6, <2>2 DEF SendRow
  <2>3. CASE q = p /\ s # r
    BY <1>2, <1>4, <1>6, <2>1, <2>3 DEF SendRow
  <2>4. CASE q # p
    BY <1>4, <1>6, <2>1, <2>4 DEF SendRow
  <2> QED BY <2>2, <2>3, <2>4
<1>10. ClaimInv' /\ OwnInv'
  <2>1. \A s \in Rows : \A q \in Schedulers : Claimed(s, q)' => Claimed(s, q)
    BY <1>2, <1>4, <1>6 DEF Claimed
  <2> QED BY <1>1, <1>4, <2>1, ClaimsKept DEF IInv
<1>11. SeriesInv'
  <2>1. \A s \in Rows : \A q \in Schedulers : sends[<<s, q>>] > 0 => sends'[<<s, q>>] > 0
    BY <1>1, <1>5, <1>6
  <2> QED BY <1>1, <1>4, <2>1, SeriesKept DEF IInv, Exists
<1> QED BY <1>7, <1>8, <1>9, <1>10, <1>11 DEF IInv

LEMMA MarkSentStep ==
  ASSUME IInv, NEW p \in Schedulers, MarkSent(p)
  PROVE  IInv'
<1>1. TypeOK
  BY DEF IInv
<1>2. PICK r \in Rows : r = job[p]
  BY <1>1 DEF TypeOK, MarkSent, Busy
<1>3. PICK f \in Fates : Fate(f) /\ Patch(r, {"pending"}, "sent", f)
  BY <1>2 DEF MarkSent
<1>4. /\ pc[p] = "mark" /\ pc'[p] = "reschedule"
      /\ \A q \in Schedulers : q # p => pc'[q] = pc[q]
      /\ UNCHANGED <<due, plan, parent, author, sends, blind, today, batch, job>>
  BY <1>1 DEF MarkSent, TypeOK
<1>5. status' = status
  <2>1. status[r] # "pending"
    BY <1>2 DEF IInv, JobInv
  <2> QED BY <1>3, <2>1 DEF Patch
<1>6. TypeOK'
  <2>1. faults' \in 0 .. MaxFaults
    BY <1>1, <1>3, FateEffect
  <2>2. pc' \in [Schedulers -> Busy \cup {"poll", "down"}]
    BY <1>1 DEF MarkSent, TypeOK, Busy
  <2> QED BY <1>1, <1>2, <1>4, <1>5, <2>1, <2>2 DEF TypeOK, Busy
<1>7. JobInv'
  BY <1>4, <1>5 DEF IInv, JobInv, Exists
<1>8. SendInv'
  BY <1>4, <1>5 DEF IInv, SendInv, SendRow
<1>9. ClaimInv' /\ OwnInv'
  BY <1>1, <1>4, <1>5, ClaimsKept DEF IInv, Claimed
<1>10. SeriesInv'
  BY <1>1, <1>4, <1>5, SeriesKept DEF IInv, Exists
<1> QED BY <1>6, <1>7, <1>8, <1>9, <1>10 DEF IInv

LEMMA MarkFailedStep ==
  ASSUME IInv, NEW p \in Schedulers, MarkFailed(p)
  PROVE  IInv'
<1>1. TypeOK
  BY DEF IInv
<1>2. PICK r \in Rows : r = job[p]
  BY <1>1 DEF TypeOK, MarkFailed, Busy
<1>3. PICK f \in Fates : Fate(f) /\ Patch(r, Statuses, "failed", f)
  BY <1>2 DEF MarkFailed
<1>4. /\ pc[p] = "fail" /\ pc'[p] = "poll" /\ job'[p] = NoRow
      /\ \A q \in Schedulers : q # p => pc'[q] = pc[q] /\ job'[q] = job[q]
      /\ UNCHANGED <<due, plan, parent, author, sends, blind, today, batch>>
  BY <1>1 DEF MarkFailed, TypeOK
<1>5. /\ \A s \in Rows : s # r => status'[s] = status[s]
      /\ status'[r] \in {status[r], "failed"}
      /\ status' \in [Rows -> Statuses \cup {"absent"}]
  BY <1>1, <1>3, PatchEffect DEF Statuses
<1>6. TypeOK'
  <2>1. faults' \in 0 .. MaxFaults
    BY <1>1, <1>3, FateEffect
  <2>2. /\ pc' \in [Schedulers -> Busy \cup {"poll", "down"}]
        /\ job' \in [Schedulers -> Rows \cup {NoRow}]
        /\ \A q \in Schedulers : pc'[q] \in Busy <=> job'[q] \in Rows
    BY <1>1, <1>4, SchedulerAssumption DEF MarkFailed, TypeOK, Busy
  <2> QED BY <1>1, <1>4, <1>5, <2>1, <2>2 DEF TypeOK
<1>7. \A q \in Schedulers : job'[q] \in Rows => q # p /\ job[q] = job'[q] /\ pc'[q] = pc[q]
  BY <1>4, SchedulerAssumption
<1>8. JobInv'
  BY <1>1, <1>4, <1>5, <1>7, SchedulerAssumption DEF IInv, TypeOK, JobInv, Exists
<1>9. SendInv'
  <2> SUFFICES ASSUME NEW s \in Rows, NEW q \in Schedulers PROVE SendRow(s, q)'
    BY DEF SendInv
  <2>1. SendRow(s, q)
    BY DEF IInv, SendInv
  <2> QED BY <1>4, <1>5, <1>7, <2>1 DEF SendRow
<1>10. ClaimInv' /\ OwnInv'
  <2>1. \A s \in Rows : \A q \in Schedulers : Claimed(s, q)' => Claimed(s, q)
    BY <1>4, <1>7 DEF Claimed
  <2>2. \A s \in Rows : \A q \in Schedulers : Claimed(s, q) => status'[s] \in {status[s], "failed"}
    BY <1>5
  <2> QED BY <1>1, <1>4, <1>7, <2>1, <2>2, ClaimsKept DEF IInv
<1>11. SeriesInv'
  <2>1. \A s \in Rows : Exists(s) => status'[s] # "absent"
    BY <1>5 DEF Exists
  <2>2. \A q \in Schedulers : \A s \in Rows : job'[q] = s => job[q] = s
    BY <1>7
  <2> QED BY <1>1, <1>4, <2>1, <2>2, SeriesKept DEF IInv
<1> QED BY <1>6, <1>8, <1>9, <1>10, <1>11 DEF IInv

LEMMA RescheduleStep ==
  ASSUME IInv, NEW p \in Schedulers, Reschedule(p)
  PROVE  IInv'
<1>1. TypeOK
  BY DEF IInv
<1>2. PICK r \in Rows : r = job[p]
  BY <1>1 DEF TypeOK, Reschedule, Busy
<1>3. /\ pc[p] = "reschedule" /\ job'[p] = NoRow
      /\ \A q \in Schedulers : q # p => pc'[q] = pc[q] /\ job'[q] = job[q]
      /\ UNCHANGED <<sends, blind, today, faults, batch>>
  BY <1>1 DEF Reschedule, TypeOK
<1>4. /\ pc' \in [Schedulers -> Busy \cup {"poll", "down"}]
      /\ job' \in [Schedulers -> Rows \cup {NoRow}]
      /\ \A q \in Schedulers : pc'[q] \in Busy <=> job'[q] \in Rows
  BY <1>1, SchedulerAssumption DEF Reschedule, TypeOK, Busy
<1>5. \A q \in Schedulers : job'[q] \in Rows => q # p /\ job[q] = job'[q] /\ pc'[q] = pc[q]
  BY <1>3, SchedulerAssumption
<1>6. Exists(r) /\ sends[<<r, p>>] > 0
  BY <1>2, <1>3 DEF IInv, JobInv, SendInv, SendRow, Exists
<1>7. \A c \in Rows : parent[c] = r => author[c] # {p}
  BY <1>2, SchedulerAssumption DEF IInv, SeriesInv, SeriesRow
<1>8. CASE /\ Recurs(due[r], plan[r])
           /\ \E c \in Rows : Insert(c, NextDay(due[r], plan[r]), plan[r], r, {p})
  <2>1. PICK c \in Rows : Insert(c, NextDay(due[r], plan[r]), plan[r], r, {p})
    BY <1>8
  <2>2. due[r] \in Nat /\ plan[r] \in Plans /\ IsPlan(plan[r])
    BY <1>1, SchedulerAssumption DEF TypeOK
  <2>3. /\ NextDay(due[r], plan[r]) \in Nat
        /\ NextDay(due[r], plan[r]) > due[r]
        /\ \A end \in plan[r].end : NextDay(due[r], plan[r]) <= end
    BY <1>8, <2>2, NextIsLater
  <2>4. /\ status[c] = "absent" /\ status'[c] = "pending" /\ parent'[c] = r /\ author'[c] = {p}
        /\ due'[c] = NextDay(due[r], plan[r])
        /\ \A s \in Rows : s # c =>
             /\ status'[s] = status[s] /\ due'[s] = due[s]
             /\ plan'[s] = plan[s] /\ parent'[s] = parent[s] /\ author'[s] = author[s]
    BY <1>1, <2>1, <2>2, <2>3, InsertEffect
  <2>5. c # r
    BY <1>6, <2>4 DEF Exists
  <2>6. TypeOK'
    BY <1>1, <1>3, <1>4, <2>1, <2>2, <2>3, InsertEffect DEF TypeOK
  <2>7. JobInv'
    BY <1>1, <1>3, <1>5, <2>4, SchedulerAssumption DEF IInv, TypeOK, JobInv, Exists
  <2>8. SendInv'
    <3> SUFFICES ASSUME NEW s \in Rows, NEW q \in Schedulers PROVE SendRow(s, q)'
      BY DEF SendInv
    <3>1. SendRow(s, q)
      BY DEF IInv, SendInv
    <3> QED BY <1>3, <1>5, <2>4, <3>1 DEF SendRow
  <2>9. ClaimInv' /\ OwnInv'
    <3>1. \A s \in Rows : \A q \in Schedulers : Claimed(s, q)' => Claimed(s, q)
      BY <1>3, <1>5 DEF Claimed
    <3>2. \A s \in Rows : \A q \in Schedulers : Claimed(s, q) => status'[s] = status[s]
      BY <2>4 DEF IInv, ClaimInv, ClaimRow
    <3> QED BY <1>1, <1>3, <1>5, <3>1, <3>2, ClaimsKept DEF IInv
  <2>10. SeriesInv'
    <3> SUFFICES ASSUME NEW x \in Rows, parent'[x] # NoRow
                 PROVE  SeriesRow(x)'
      BY DEF SeriesInv
    <3>1. CASE x = c
      <4>1. \A d \in Rows : parent'[d] = r /\ author'[d] = {p} => d = c
        BY <1>7, <2>4
      <4> QED BY <1>3, <1>6, <2>3, <2>4, <2>5, <3>1, <4>1, SchedulerAssumption DEF SeriesRow, Exists
    <3>2. CASE x # c
      <4>1. /\ parent'[x] = parent[x] /\ author'[x] = author[x] /\ parent[x] \in Rows
            /\ parent[x] # NoRow /\ SeriesRow(x)
        BY <1>1, <2>4, <3>2 DEF IInv, TypeOK, SeriesInv
      <4>2. parent[x] # c
        BY <2>4, <4>1 DEF SeriesRow, Exists
      <4>3. \E q \in Schedulers :
              author[x] = {q} /\ sends'[<<parent[x], q>>] > 0 /\ job'[q] # parent[x]
        BY <1>3, <1>5, <4>1 DEF SeriesRow
      <4>4. \A d \in Rows : parent'[d] = parent[x] /\ author'[d] = author[x] => d = x
        <5> SUFFICES ASSUME NEW d \in Rows, parent'[d] = parent[x], author'[d] = author[x]
                     PROVE  d = x
          OBVIOUS
        <5>1. CASE d = c
          BY <1>7, <2>4, <3>2, <4>1, <5>1
        <5>2. CASE d # c
          BY <2>4, <4>1, <5>2 DEF SeriesRow
        <5> QED BY <5>1, <5>2
      <4> QED BY <2>4, <3>2, <4>1, <4>2, <4>3, <4>4 DEF SeriesRow, Exists
    <3> QED BY <3>1, <3>2
  <2> QED BY <2>6, <2>7, <2>8, <2>9, <2>10 DEF IInv
<1>9. CASE UNCHANGED tableVars
  <2>1. UNCHANGED <<status, due, plan, parent, author>>
    BY <1>9 DEF tableVars
  <2>2. TypeOK'
    BY <1>1, <1>3, <1>4, <2>1 DEF TypeOK
  <2>3. JobInv'
    BY <1>1, <1>3, <1>5, <2>1, SchedulerAssumption DEF IInv, TypeOK, JobInv, Exists
  <2>4. SendInv'
    BY <1>3, <1>5, <2>1 DEF IInv, SendInv, SendRow
  <2>5. ClaimInv' /\ OwnInv'
    BY <1>1, <1>3, <1>5, <2>1, ClaimsKept DEF IInv, Claimed
  <2>6. SeriesInv'
    <3>1. \A q \in Schedulers : \A s \in Rows : job'[q] = s => job[q] = s
      BY <1>5
    <3> QED BY <1>1, <1>3, <2>1, <3>1, SeriesKept DEF IInv, Exists
  <2> QED BY <2>2, <2>3, <2>4, <2>5, <2>6 DEF IInv
<1> QED BY <1>2, <1>8, <1>9 DEF Reschedule

LEMMA CrashStep ==
  ASSUME IInv, NEW p \in Schedulers, Crash(p)
  PROVE  IInv'
<1>1. TypeOK'
  BY SchedulerAssumption DEF IInv, TypeOK, Busy, Statuses, Settled, Exists, Crash, tableVars, procVars
<1>2. JobInv'
  BY SchedulerAssumption DEF IInv, TypeOK, JobInv, Busy, Statuses, Exists, Crash, tableVars, procVars
<1>3. SendInv'
  BY SchedulerAssumption DEF IInv, TypeOK, JobInv, SendInv, SendRow, Busy, Statuses, Exists, Crash, tableVars, procVars
<1>4. ClaimInv' /\ OwnInv'
  <2>1. TypeOK /\ JobInv /\ SendInv /\ ClaimInv /\ OwnInv
    BY DEF IInv
  <2>2. \A q \in Schedulers : job'[q] \in Rows => job'[q] = job[q]
    BY <2>1, SchedulerAssumption DEF TypeOK, Crash, procVars
  <2>3. UNCHANGED <<blind, sends>>
    BY DEF Crash
  <2>4. \A s \in Rows : \A q \in Schedulers : Claimed(s, q)' => Claimed(s, q)
    BY <2>2, <2>3 DEF Claimed
  <2>5. \A s \in Rows : \A q \in Schedulers : Claimed(s, q) => status'[s] \in {status[s], "failed"}
    BY <2>1 DEF ClaimInv, ClaimRow, TypeOK, Crash, tableVars
  <2> QED BY <2>1, <2>2, <2>3, <2>4, <2>5, ClaimsKept
<1>5. SeriesInv'
  <2>1. TypeOK /\ SeriesInv /\ UNCHANGED <<due, plan, parent, author, sends>>
    BY DEF IInv, Crash, tableVars
  <2>2. \A s \in Rows : Exists(s) => status'[s] # "absent"
    BY <2>1 DEF TypeOK, Exists, Crash, tableVars
  <2>3. \A q \in Schedulers : \A s \in Rows : job'[q] = s => job[q] = s
    BY <2>1, SchedulerAssumption DEF TypeOK, Crash, procVars
  <2> QED BY <2>1, <2>2, <2>3, SeriesKept
<1> QED BY <1>1, <1>2, <1>3, <1>4, <1>5 DEF IInv

LEMMA RestartStep ==
  ASSUME IInv, NEW p \in Schedulers, Restart(p)
  PROVE  IInv'
<1>1. TypeOK'
  BY SchedulerAssumption DEF IInv, TypeOK, Busy, Statuses, Settled, Exists, Restart, tableVars, procVars
<1>2. JobInv'
  BY SchedulerAssumption DEF IInv, TypeOK, JobInv, Busy, Statuses, Exists, Restart, tableVars, procVars
<1>3. SendInv'
  BY SchedulerAssumption DEF IInv, TypeOK, JobInv, SendInv, SendRow, Busy, Statuses, Exists, Restart, tableVars, procVars
<1>4. ClaimInv' /\ OwnInv'
  <2>1. TypeOK /\ JobInv /\ SendInv /\ ClaimInv /\ OwnInv
    BY DEF IInv
  <2>2. \A q \in Schedulers : job'[q] \in Rows => job'[q] = job[q]
    BY <2>1, SchedulerAssumption DEF TypeOK, Restart, procVars
  <2>3. UNCHANGED <<blind, sends>>
    BY DEF Restart
  <2>4. \A s \in Rows : \A q \in Schedulers : Claimed(s, q)' => Claimed(s, q)
    BY <2>2, <2>3 DEF Claimed
  <2>5. \A s \in Rows : \A q \in Schedulers : Claimed(s, q) => status'[s] \in {status[s], "failed"}
    BY <2>1 DEF ClaimInv, ClaimRow, TypeOK, Restart, tableVars
  <2> QED BY <2>1, <2>2, <2>3, <2>4, <2>5, ClaimsKept
<1>5. SeriesInv'
  <2>1. TypeOK /\ SeriesInv /\ UNCHANGED <<due, plan, parent, author, sends>>
    BY DEF IInv, Restart, tableVars
  <2>2. \A s \in Rows : Exists(s) => status'[s] # "absent"
    BY <2>1 DEF TypeOK, Exists, Restart, tableVars
  <2>3. \A q \in Schedulers : \A s \in Rows : job'[q] = s => job[q] = s
    BY <2>1, SchedulerAssumption DEF TypeOK, Restart, procVars
  <2> QED BY <2>1, <2>2, <2>3, SeriesKept
<1> QED BY <1>1, <1>2, <1>3, <1>4, <1>5 DEF IInv

LEMMA StutterStep ==
  ASSUME IInv, UNCHANGED vars
  PROVE  IInv'
<1>1. /\ UNCHANGED <<status, due, plan, parent, author>>
      /\ UNCHANGED <<sends, blind, today, faults, pc, batch, job>>
  BY DEF vars, tableVars, procVars
<1>2. TypeOK'
  BY <1>1 DEF IInv, TypeOK
<1>3. JobInv'
  BY <1>1 DEF IInv, JobInv, Exists
<1>4. SendInv'
  BY <1>1 DEF IInv, SendInv, SendRow
<1>5. ClaimInv' /\ OwnInv'
  BY <1>1 DEF IInv, ClaimInv, ClaimRow, Claimed, OwnInv
<1>6. SeriesInv'
  BY <1>1 DEF IInv, SeriesInv, SeriesRow, Exists
<1> QED BY <1>2, <1>3, <1>4, <1>5, <1>6 DEF IInv

-----------------------------------------------------------------------------
(* The invariant and what follows from it.                                 *)

LEMMA NextIInv == IInv /\ [Next]_vars => IInv'
<1> SUFFICES ASSUME IInv, [Next]_vars PROVE IInv'
  OBVIOUS
<1>1. CASE \E r \in Rows : Post(r) \/ Cancel(r)
  BY <1>1, PostStep, CancelStep
<1>2. CASE Tick
  BY <1>2, TickStep
<1>3. CASE \E p \in Schedulers : SchedulerStep(p)
  BY <1>3, FetchStep, ClaimStep, SendStep, MarkSentStep, MarkFailedStep, RescheduleStep
     DEF SchedulerStep
<1>4. CASE \E p \in Schedulers : Crash(p) \/ Restart(p)
  BY <1>4, CrashStep, RestartStep
<1>5. CASE UNCHANGED vars
  BY <1>5, StutterStep
<1> QED BY <1>1, <1>2, <1>3, <1>4, <1>5 DEF Next

LEMMA Invariance == Spec => []IInv
BY InitIInv, NextIInv, PTL DEF Spec

\* The shape of the table and of the schedulers' state.
THEOREM TypeCorrect == Spec => []TypeOK
BY Invariance, PTL DEF IInv

\* process: no scheduler sends a message twice, and of two that send the same
\* one, one claimed a row that was pending no longer.
THEOREM MessageSentOnce == Spec => []SentOnce
<1>1. IInv => SentOnce
  BY DEF IInv, SendInv, SendRow, ClaimInv, ClaimRow, Claimed, SentOnce
<1> QED BY <1>1, Invariance, PTL

\* DELETE /api/scheduled/:id: whoever sends or continues a canceled row
\* claimed it when it was pending no longer.
THEOREM CancellationHolds == Spec => []CanceledIsSilent
<1>1. IInv => CanceledIsSilent
  <2> SUFFICES ASSUME IInv, NEW r \in Rows, status[r] = "canceled"
               PROVE  /\ \A p \in Schedulers : sends[<<r, p>>] > 0 => <<r, p>> \in blind
                      /\ \A c \in Rows : parent[c] = r => \A p \in author[c] : <<r, p>> \in blind
    BY DEF CanceledIsSilent
  <2>1. \A p \in Schedulers : sends[<<r, p>>] > 0 => <<r, p>> \in blind
    BY DEF IInv, ClaimInv, ClaimRow, Claimed
  <2>2. ASSUME NEW c \in Rows, parent[c] = r, NEW p \in author[c]
        PROVE  <<r, p>> \in blind
    <3>1. PICK q \in Schedulers : author[c] = {q} /\ sends[<<r, q>>] > 0
      BY <2>2, SchedulerAssumption DEF IInv, SeriesInv, SeriesRow
    <3> QED BY <2>1, <3>1
  <2> QED BY <2>1, <2>2
<1> QED BY <1>1, Invariance, PTL

\* reschedule: a series goes on from sent occurrences only, once by each
\* scheduler that sent one.
THEOREM SeriesOfSentMessages == Spec => []SeriesFollowsSends
<1>1. IInv => SeriesFollowsSends
  BY DEF IInv, SeriesInv, SeriesRow, SeriesFollowsSends
<1> QED BY <1>1, Invariance, PTL

\* reschedule: every occurrence is later than the one it follows.
THEOREM SeriesGoForward == Spec => []SeriesAdvances
<1>1. IInv => SeriesAdvances
  BY DEF IInv, SeriesInv, SeriesRow, SeriesAdvances
<1> QED BY <1>1, Invariance, PTL

\* updateFailed: the one write without a filter on the status only changes a
\* settled row for a scheduler that claimed it blindly.
THEOREM SettledRowsStay == Spec => SettledIsFinal
<1>1. IInv /\ [Next]_vars => [KeepsSettled]_vars
  <2> SUFFICES ASSUME IInv, Next, NEW r \in Rows, status[r] \in Settled, status'[r] # status[r]
               PROVE  /\ status'[r] = "failed"
                      /\ \E p \in Schedulers : job[p] = r /\ pc[p] = "fail" /\ <<r, p>> \in blind
    BY DEF KeepsSettled
  <2>1. TypeOK
    BY DEF IInv
  <2>2. ASSUME NEW s \in Rows, Post(s) \/ Cancel(s) PROVE FALSE
    BY <2>1, <2>2 DEF Post, Insert, Exists, Cancel, TypeOK, Settled
  <2>3. ASSUME NEW p \in Schedulers, Fetch(p) \/ Send(p) \/ MarkSent(p) \/ Reschedule(p)
        PROVE  FALSE
    <3>1. CASE Fetch(p) \/ Send(p)
      BY <3>1 DEF Fetch, Send, tableVars
    <3>2. CASE MarkSent(p)
      BY <2>1, <3>2 DEF MarkSent, Patch, TypeOK, Settled
    <3>3. CASE Reschedule(p)
      BY <2>1, <3>3 DEF Reschedule, Insert, Exists, TypeOK, Settled, tableVars
    <3> QED BY <2>3, <3>1, <3>2, <3>3
  <2>4. ASSUME NEW p \in Schedulers, NEW s \in Rows, Claim(p, s) PROVE FALSE
    BY <2>1, <2>4 DEF Claim, Patch, TypeOK, Settled
  <2>5. ASSUME NEW p \in Schedulers, MarkFailed(p)
        PROVE  /\ status'[r] = "failed"
               /\ job[p] = r /\ pc[p] = "fail" /\ <<r, p>> \in blind
    <3>1. PICK s \in Rows : s = job[p]
      BY <2>1, <2>5 DEF MarkFailed, TypeOK, Busy
    <3>2. PICK f \in Fates : Patch(s, Statuses, "failed", f)
      BY <2>5, <3>1 DEF MarkFailed
    <3>3. s = r /\ status'[r] = "failed"
      BY <2>1, <3>2 DEF Patch, TypeOK
    <3>4. status[r] \notin {"processing", "failed"}
      BY <3>3 DEF Settled
    <3>5. <<r, p>> \in blind
      BY <3>1, <3>3, <3>4 DEF IInv, OwnInv
    <3> QED BY <2>5, <3>1, <3>3, <3>5 DEF MarkFailed
  <2>6. CASE Tick \/ \E p \in Schedulers : Crash(p) \/ Restart(p)
    BY <2>6 DEF Tick, Crash, Restart, tableVars
  <2> QED BY <2>2, <2>3, <2>4, <2>5, <2>6 DEF Next, SchedulerStep
<1> QED BY <1>1, Invariance, PTL DEF Spec, SettledIsFinal

-----------------------------------------------------------------------------
(* Schedulers and table implement Outbox.                                  *)

\* A row a scheduler has fetched or is working on is due.
DueInv ==
  \A p \in Schedulers : \A r \in Rows : r \in batch[p] \/ job[p] = r => due[r] <= today

\* DueInv holds on when the batches lose rows, jobs come from batches, and the
\* clock and the rows of the table do not go back.
LEMMA DueKept ==
  ASSUME IInv, DueInv,
         today' \in Nat, today' >= today, due' \in [Rows -> Nat],
         \A r \in Rows : Exists(r) => due'[r] = due[r],
         \A p \in Schedulers : \A r \in Rows :
           r \in batch'[p] \/ job'[p] = r => r \in batch[p] \/ job[p] = r
  PROVE  DueInv'
<1> SUFFICES ASSUME NEW p \in Schedulers, NEW r \in Rows, r \in batch'[p] \/ job'[p] = r
             PROVE  due'[r] <= today'
  BY DEF DueInv
<1>1. r \in batch[p] \/ job[p] = r
  OBVIOUS
<1>2. Exists(r) /\ due[r] <= today
  BY <1>1 DEF IInv, JobInv, DueInv, Exists
<1>3. due[r] \in Nat /\ today \in Nat
  BY DEF IInv, TypeOK
<1> QED BY <1>2, <1>3

LEMMA NextDueInv == IInv /\ DueInv /\ [Next]_vars => DueInv'
<1> SUFFICES ASSUME IInv, DueInv, [Next]_vars PROVE DueInv'
  OBVIOUS
<1>0. TypeOK /\ TypeOK'
  BY NextIInv DEF IInv
<1> DEFINE Keeps == /\ today' >= today
                    /\ \A r \in Rows : Exists(r) => due'[r] = due[r]
                    /\ \A p \in Schedulers : \A r \in Rows :
                         r \in batch'[p] \/ job'[p] = r => r \in batch[p] \/ job[p] = r
<1>1. SUFFICES ASSUME ~ \E p \in Schedulers : Fetch(p) PROVE Keeps
  <2>1. CASE Keeps
    BY <1>0, <2>1, DueKept DEF TypeOK
  <2>2. ASSUME NEW p \in Schedulers, Fetch(p) PROVE DueInv'
    BY <1>0, <2>2 DEF Fetch, IsDue, DueInv, TypeOK, tableVars
  <2> QED BY <1>1, <2>1, <2>2
<1>2. ASSUME NEW r \in Rows, Post(r) PROVE Keeps
  BY <1>0, <1>2 DEF Post, Insert, TypeOK, procVars
<1>3. ASSUME NEW r \in Rows, Cancel(r) PROVE Keeps
  BY <1>0, <1>3 DEF Cancel, TypeOK, procVars
<1>4. CASE Tick
  BY <1>0, <1>4 DEF Tick, TypeOK, tableVars, procVars
<1>5. ASSUME NEW p \in Schedulers, SchedulerStep(p) PROVE Keeps
  <2>1. CASE Send(p)
    BY <1>0, <2>1 DEF Send, TypeOK, tableVars
  <2>2. CASE MarkSent(p)
    BY <1>0, <2>2 DEF MarkSent, TypeOK
  <2>3. CASE MarkFailed(p)
    BY <1>0, <2>3, SchedulerAssumption DEF MarkFailed, TypeOK
  <2>4. CASE Reschedule(p)
    <3>1. /\ UNCHANGED <<today, batch>>
          /\ \A q \in Schedulers : job'[q] \in Rows => job'[q] = job[q]
      BY <1>0, <2>4, SchedulerAssumption DEF Reschedule, TypeOK
    <3>2. \A r \in Rows : Exists(r) => due'[r] = due[r]
      BY <1>0, <2>4 DEF Reschedule, Insert, TypeOK, tableVars
    <3> QED BY <1>0, <3>1, <3>2 DEF TypeOK
  <2>5. ASSUME NEW r \in Rows, Claim(p, r) PROVE Keeps
    <3>1. /\ r \in batch[p] /\ UNCHANGED <<today, due>>
          /\ batch' = [batch EXCEPT ![p] = @ \ {r}]
      BY <2>5 DEF Claim
    <3>2. job' = job \/ job' = [job EXCEPT ![p] = r]
      BY <2>5 DEF Claim, Accept
    <3> QED BY <1>0, <3>1, <3>2 DEF TypeOK
  <2> QED BY <1>1, <1>5, <2>1, <2>2, <2>3, <2>4, <2>5 DEF SchedulerStep
<1>6. ASSUME NEW p \in Schedulers, Crash(p) \/ Restart(p) PROVE Keeps
  BY <1>0, <1>6, SchedulerAssumption DEF Crash, Restart, TypeOK, tableVars
<1>7. CASE UNCHANGED vars
  BY <1>0, <1>7 DEF vars, TypeOK, tableVars, procVars
<1> HIDE DEF Keeps
<1> QED BY <1>2, <1>3, <1>4, <1>5, <1>6, <1>7 DEF Next

\* The state of a row, and who sent it, as Box has them.
StateOf(r) == IF status[r] \in {"sent", "failed"} THEN "settled" ELSE status[r]
OutOf(r) == {p \in Schedulers : sends[<<r, p>>] > 0}
States == [r \in Rows |-> StateOf(r)]
Outs == [r \in Rows |-> OutOf(r)]

LEMMA InitBox == Init => Box!Init
<1> SUFFICES ASSUME Init PROVE Box!Init
  OBVIOUS
<1>1. today \in Nat /\ due \in [Rows -> Nat]
  BY SchedulerAssumption DEF Init
<1>2. \A r \in Rows : \A p \in Schedulers : sends[<<r, p>>] = 0
  BY DEF Init
<1> QED BY <1>1, <1>2 DEF Init, Box!Init

\* A step that only moves schedulers along is none of Box.
LEMMA QuietStep ==
  ASSUME UNCHANGED <<today, status, due, batch, job, sends, parent>>
  PROVE  UNCHANGED Box!vars
<1>1. States' = States /\ Outs' = Outs
  BY DEF States, Outs, StateOf, OutOf
<1> QED BY <1>1 DEF States, Outs, StateOf, OutOf, Box!vars

\* Changing the status of one row changes the state of that row only.
LEMMA OneState ==
  ASSUME TypeOK, NEW r \in Rows, NEW to \in Statuses,
         status'[r] = to, \A s \in Rows : s # r => status'[s] = status[s]
  PROVE  States' = [States EXCEPT ![r] = IF to \in {"sent", "failed"} THEN "settled" ELSE to]
BY DEF States, StateOf

LEMMA PostBox ==
  ASSUME IInv, IInv', NEW r \in Rows, Post(r)
  PROVE  Box!Write(r)
<1>1. TypeOK /\ TypeOK'
  BY DEF IInv
<1>2. PICK d \in today .. today + Horizon, how \in Plans : Insert(r, d, how, NoRow, {})
  BY DEF Post
<1>3. d \in Nat /\ d >= today /\ {} \in SUBSET Schedulers /\ NoRow \in Rows \cup {NoRow}
  BY <1>1, SchedulerAssumption DEF TypeOK
<1>4. /\ status[r] = "absent" /\ status'[r] = "pending" /\ due'[r] = d
      /\ \A s \in Rows : s # r => status'[s] = status[s] /\ due'[s] = due[s]
  BY <1>1, <1>2, <1>3, InsertEffect
<1>5. States' = [States EXCEPT ![r] = "pending"] /\ States[r] = "absent"
  BY <1>1, <1>4, OneState DEF States, StateOf, Statuses
<1>6. parent' = [parent EXCEPT ![r] = NoRow]
  BY <1>2 DEF Insert
<1>7. UNCHANGED <<today, sends, batch, job>>
  BY DEF Post, procVars
<1>8. Outs' = Outs
  BY <1>7 DEF Outs, OutOf
<1>9. Box!Appear(r, today, NoRow)
  BY <1>1, <1>3, <1>4, <1>5, <1>6 DEF Box!Appear, States, StateOf, TypeOK
<1> QED BY <1>7, <1>8, <1>9 DEF Box!Write, Outs, OutOf

LEMMA CancelBox ==
  ASSUME IInv, NEW r \in Rows, Cancel(r)
  PROVE  Box!Cancel(r)
<1>1. /\ status[r] = "pending" /\ status'[r] = "canceled"
      /\ \A s \in Rows : s # r => status'[s] = status[s]
      /\ UNCHANGED <<due, parent, sends, today, batch, job>>
  BY DEF IInv, TypeOK, Cancel, procVars
<1>2. States' = [States EXCEPT ![r] = "canceled"] /\ States[r] = "pending"
  BY <1>1, OneState DEF IInv, States, StateOf, Statuses
<1>3. Outs' = Outs
  BY <1>1 DEF Outs, OutOf
<1> QED BY <1>1, <1>2, <1>3 DEF Box!Cancel, States, StateOf, Outs, OutOf

LEMMA FetchBox ==
  ASSUME IInv, NEW p \in Schedulers, Fetch(p)
  PROVE  Box!See(p)
<1>1. /\ batch' = [batch EXCEPT ![p] = {r \in Rows : IsDue(r)}]
      /\ UNCHANGED <<today, status, due, job, sends, parent>>
  BY DEF Fetch, tableVars
<1>2. States' = States /\ Outs' = Outs
  BY <1>1 DEF States, Outs, StateOf, OutOf
<1>3. {r \in Rows : IsDue(r)} \in SUBSET {r \in Rows : States[r] = "pending" /\ due[r] <= today}
  BY DEF IsDue, States, StateOf
<1> QED BY <1>1, <1>2, <1>3 DEF Box!See, States, Outs, StateOf, OutOf

LEMMA ClaimBox ==
  ASSUME IInv, NEW p \in Schedulers, NEW r \in Rows, Claim(p, r)
  PROVE  Box!Take(r, p)
<1>1. TypeOK
  BY DEF IInv
<1>2. PICK f \in Fates :
        /\ Patch(r, {"pending"}, "processing", f)
        /\ IF f = "answered" THEN Accept(p, r) ELSE UNCHANGED <<blind, pc, job>>
  BY DEF Claim
<1>3. /\ pc[p] = "poll" /\ r \in batch[p] /\ batch' = [batch EXCEPT ![p] = @ \ {r}]
      /\ UNCHANGED <<due, parent, sends, today>>
  BY DEF Claim
<1>4. job[p] = NoRow
  BY <1>1, <1>3 DEF TypeOK, Busy
<1>5. Outs' = Outs
  BY <1>3 DEF Outs, OutOf
<1>6. job' = IF f = "answered" THEN [job EXCEPT ![p] = r] ELSE job
  BY <1>2 DEF Accept
<1>7. CASE f # "undelivered" /\ status[r] = "pending"
  <2>1. status'[r] = "processing" /\ \A s \in Rows : s # r => status'[s] = status[s]
    BY <1>1, <1>2, <1>7 DEF Patch, TypeOK
  <2>2. States' = [States EXCEPT ![r] = "processing"] /\ States[r] = "pending"
    BY <1>1, <1>7, <2>1, OneState DEF States, StateOf, Statuses
  <2> QED BY <1>3, <1>4, <1>5, <1>6, <2>2 DEF Box!Take, States, StateOf, Outs, OutOf
<1>8. CASE ~ (f # "undelivered" /\ status[r] = "pending")
  <2>1. status' = status
    BY <1>2, <1>8 DEF Patch
  <2>2. States' = States
    BY <2>1 DEF States, StateOf
  <2>3. States[r] = "pending" => job' = job
    BY <1>6, <1>8 DEF States, StateOf
  <2> QED BY <1>3, <1>4, <1>5, <1>6, <2>2, <2>3 DEF Box!Take, States, StateOf, Outs, OutOf
<1> QED BY <1>7, <1>8

LEMMA SendBox ==
  ASSUME IInv, DueInv, NEW p \in Schedulers, Send(p)
  PROVE  \/ \E r \in Rows : Box!Deliver(r, p)
         \/ UNCHANGED Box!vars
<1>1. TypeOK
  BY DEF IInv
<1>2. PICK r \in Rows : r = job[p]
  BY <1>1 DEF TypeOK, Send, Busy
<1>3. PICK result \in {"sent", "failed", "unanswered"} :
        sends' = [sends EXCEPT ![<<r, p>>] = @ + (IF result = "failed" THEN 0 ELSE 1)]
  BY <1>2 DEF Send
<1>4. pc[p] = "send" /\ UNCHANGED <<status, due, parent, today, batch, job>>
  BY DEF Send, tableVars
<1>5. sends[<<r, p>>] = 0
  BY <1>2, <1>4 DEF IInv, SendInv, SendRow
<1>6. /\ sends'[<<r, p>>] = IF result = "failed" THEN 0 ELSE 1
      /\ \A s \in Rows : \A q \in Schedulers :
           s # r \/ q # p => sends'[<<s, q>>] = sends[<<s, q>>]
  <2>1. sends \in [Rows \X Schedulers -> Nat] /\ <<r, p>> \in Rows \X Schedulers
    BY <1>1 DEF TypeOK
  <2>2. \A x \in Rows \X Schedulers : x # <<r, p>> => sends'[x] = sends[x]
    BY <1>3, <2>1
  <2>3. ASSUME NEW s \in Rows, NEW q \in Schedulers, s # r \/ q # p
        PROVE  sends'[<<s, q>>] = sends[<<s, q>>]
    <3>1. <<s, q>> \in Rows \X Schedulers /\ <<s, q>> # <<r, p>>
      BY <2>3
    <3> QED BY <2>2, <3>1
  <2>4. sends'[<<r, p>>] = IF result = "failed" THEN 0 ELSE 1
    BY <1>3, <1>5, <2>1
  <2> QED BY <2>3, <2>4
<1>7. States' = States
  BY <1>4 DEF States, StateOf
<1>8. CASE result = "failed"
  <2>1. \A s \in Rows : OutOf(s)' = OutOf(s)
    BY <1>5, <1>6, <1>8 DEF OutOf
  <2>2. Outs' = Outs
    BY <2>1 DEF Outs
  <2> QED BY <1>4, <1>7, <2>2 DEF States, Outs, StateOf, OutOf, Box!vars
<1>9. CASE result # "failed"
  <2>1. Outs[r] = OutOf(r) /\ p \notin Outs[r]
    BY <1>5 DEF Outs, OutOf
  <2>2. Outs' = [Outs EXCEPT ![r] = @ \cup {p}]
    <3>1. OutOf(r)' = OutOf(r) \cup {p}
      BY <1>6, <1>9 DEF OutOf
    <3>2. \A s \in Rows : s # r => OutOf(s)' = OutOf(s)
      BY <1>6 DEF OutOf
    <3> QED BY <3>1, <3>2 DEF Outs
  <2>3. due[r] <= today
    BY <1>2 DEF DueInv
  <2>4. Box!Deliver(r, p)
    BY <1>2, <1>4, <1>7, <2>1, <2>2, <2>3 DEF Box!Deliver, States, StateOf, Outs, OutOf
  <2> QED BY <2>4
<1> QED BY <1>8, <1>9

LEMMA MarkSentBox ==
  ASSUME IInv, NEW p \in Schedulers, MarkSent(p)
  PROVE  UNCHANGED Box!vars
<1>1. PICK r \in Rows : r = job[p]
  BY DEF IInv, TypeOK, MarkSent, Busy
<1>2. PICK f \in Fates : Patch(r, {"pending"}, "sent", f)
  BY <1>1 DEF MarkSent
<1>3. status[r] # "pending"
  BY <1>1 DEF IInv, JobInv
<1>4. status' = status
  BY <1>2, <1>3 DEF Patch
<1>5. UNCHANGED <<today, due, batch, job, sends, parent>>
  BY DEF MarkSent
<1> QED BY <1>4, <1>5, QuietStep

\* A scheduler lets go of its row.
LEMMA LetGoBox ==
  ASSUME NEW p \in Schedulers, UNCHANGED <<today, status, due, sends, parent>>,
         job' = [job EXCEPT ![p] = NoRow],
         batch' \in {batch, [batch EXCEPT ![p] = {}]}
  PROVE  Box!LetGo(p)
<1>1. States' = States /\ Outs' = Outs
  BY DEF States, Outs, StateOf, OutOf
<1> QED BY <1>1 DEF Box!LetGo, States, Outs, StateOf, OutOf

LEMMA MarkFailedBox ==
  ASSUME IInv, NEW p \in Schedulers, MarkFailed(p)
  PROVE  Box!LetGo(p) \/ \E r \in Rows : Box!Settle(r, p)
<1>1. TypeOK
  BY DEF IInv
<1>2. PICK r \in Rows : r = job[p]
  BY <1>1 DEF TypeOK, MarkFailed, Busy
<1>3. PICK f \in Fates : Patch(r, Statuses, "failed", f)
  BY <1>2 DEF MarkFailed
<1>4. job' = [job EXCEPT ![p] = NoRow] /\ UNCHANGED <<due, parent, sends, today, batch>>
  BY DEF MarkFailed
<1>5. CASE status' = status
  BY <1>4, <1>5, LetGoBox
<1>6. CASE status' # status
  <2>1. status'[r] = "failed" /\ \A s \in Rows : s # r => status'[s] = status[s]
    BY <1>1, <1>3, <1>6 DEF Patch, TypeOK
  <2>2. States' = [States EXCEPT ![r] = "settled"]
    BY <1>1, <2>1, OneState DEF Statuses
  <2>3. Outs' = Outs
    BY <1>4 DEF Outs, OutOf
  <2>4. Box!Settle(r, p)
    BY <1>2, <1>4, <2>2, <2>3 DEF Box!Settle, States, StateOf, Outs, OutOf
  <2> QED BY <2>4
<1> QED BY <1>5, <1>6

LEMMA RescheduleBox ==
  ASSUME IInv, NEW p \in Schedulers, Reschedule(p)
  PROVE  Box!LetGo(p) \/ \E r, c \in Rows : Box!Continue(r, c, p)
<1>1. TypeOK
  BY DEF IInv
<1>2. PICK r \in Rows : r = job[p]
  BY <1>1 DEF TypeOK, Reschedule, Busy
<1>3. /\ pc[p] = "reschedule" /\ job' = [job EXCEPT ![p] = NoRow]
      /\ UNCHANGED <<sends, today, batch>>
  BY DEF Reschedule
<1>4. CASE UNCHANGED tableVars
  BY <1>3, <1>4, LetGoBox DEF tableVars
<1>5. CASE /\ Recurs(due[r], plan[r])
           /\ \E c \in Rows : Insert(c, NextDay(due[r], plan[r]), plan[r], r, {p})
  <2>1. PICK c \in Rows : Insert(c, NextDay(due[r], plan[r]), plan[r], r, {p})
    BY <1>5
  <2>2. due[r] \in Nat /\ plan[r] \in Plans /\ IsPlan(plan[r])
    BY <1>1, SchedulerAssumption DEF TypeOK
  <2>3. NextDay(due[r], plan[r]) \in Nat /\ NextDay(due[r], plan[r]) > due[r]
    BY <1>5, <2>2, NextIsLater
  <2>4. /\ status[c] = "absent" /\ status'[c] = "pending"
        /\ due'[c] = NextDay(due[r], plan[r]) /\ due' \in [Rows -> Nat]
        /\ \A s \in Rows : s # c => status'[s] = status[s] /\ due'[s] = due[s]
    BY <1>1, <2>1, <2>2, <2>3, InsertEffect
  <2>5. parent' = [parent EXCEPT ![c] = r]
    BY <2>1 DEF Insert
  <2>6. States' = [States EXCEPT ![c] = "pending"] /\ States[c] = "absent"
    BY <1>1, <2>4, OneState DEF States, StateOf, Statuses
  <2>7. Box!Appear(c, due[r] + 1, r)
    BY <2>2, <2>3, <2>4, <2>5, <2>6 DEF Box!Appear, States, StateOf
  <2>8. Outs' = Outs
    BY <1>3 DEF Outs, OutOf
  <2>9. sends[<<r, p>>] > 0
    BY <1>2, <1>3 DEF IInv, SendInv, SendRow
  <2>10. p \in Outs[r]
    BY <2>9 DEF Outs, OutOf
  <2>11. Box!Continue(r, c, p)
    BY <1>2, <1>3, <2>7, <2>8, <2>10 DEF Box!Continue, Outs, OutOf
  <2> QED BY <2>11
<1> QED BY <1>2, <1>4, <1>5 DEF Reschedule

LEMMA StepBox == IInv /\ IInv' /\ DueInv /\ [Next]_vars => [Box!Next]_(Box!vars)
<1> SUFFICES ASSUME IInv, IInv', DueInv, [Next]_vars
             PROVE  Box!Next \/ UNCHANGED Box!vars
  OBVIOUS
<1>1. ASSUME NEW r \in Rows, Post(r) \/ Cancel(r) PROVE Box!Next
  BY <1>1, PostBox, CancelBox DEF Box!Next
<1>2. CASE Tick
  <2>1. today' = today + 1 /\ UNCHANGED <<status, due, batch, job, sends, parent>>
    BY <1>2 DEF Tick, tableVars, procVars
  <2>2. States' = States /\ Outs' = Outs
    BY <2>1 DEF States, Outs, StateOf, OutOf
  <2>3. Box!Tick
    BY <2>1, <2>2 DEF Box!Tick, States, Outs, StateOf, OutOf
  <2> QED BY <2>3 DEF Box!Next
<1>3. ASSUME NEW p \in Schedulers, SchedulerStep(p) PROVE Box!Next \/ UNCHANGED Box!vars
  <2>1. CASE Fetch(p)
    BY <2>1, FetchBox DEF Box!Next
  <2>2. CASE Send(p)
    BY <2>2, SendBox DEF Box!Next
  <2>3. CASE MarkSent(p)
    BY <2>3, MarkSentBox
  <2>4. CASE MarkFailed(p)
    BY <2>4, MarkFailedBox DEF Box!Next
  <2>5. CASE Reschedule(p)
    BY <2>5, RescheduleBox DEF Box!Next
  <2>6. ASSUME NEW r \in Rows, Claim(p, r) PROVE Box!Next
    BY <2>6, ClaimBox DEF Box!Next
  <2> QED BY <1>3, <2>1, <2>2, <2>3, <2>4, <2>5, <2>6 DEF SchedulerStep
<1>4. ASSUME NEW p \in Schedulers, Crash(p) PROVE Box!Next
  <2>1. Box!LetGo(p)
    BY <1>4, LetGoBox DEF Crash, tableVars
  <2> QED BY <2>1 DEF Box!Next
<1>5. ASSUME NEW p \in Schedulers, Restart(p) PROVE UNCHANGED Box!vars
  BY <1>5, QuietStep DEF Restart, tableVars
<1>6. CASE UNCHANGED vars
  BY <1>6, QuietStep DEF vars, tableVars, procVars
<1> QED BY <1>1, <1>2, <1>3, <1>4, <1>5, <1>6 DEF Next

\* Any number of schedulers, restarted and replaced at any moment, implement
\* the Outbox: a row goes out, is settled and goes on only by a scheduler that
\* saw it pending and due and claimed it since, once by each.
THEOREM SchedulersImplementOutbox == Spec => ImplementsOutbox
<1>1. Init => DueInv
  BY SchedulerAssumption DEF Init, DueInv
<1> QED BY <1>1, InitBox, NextDueInv, StepBox, Invariance, PTL DEF Spec, ImplementsOutbox, Box!Spec

-----------------------------------------------------------------------------
(* What a fault costs.                                                     *)

\* A fate counts as a fault unless the request is answered.
LEMMA FateCounts ==
  ASSUME TypeOK, NEW f, Fate(f)
  PROVE  faults' = faults + (IF f = "answered" THEN 0 ELSE 1)
BY DEF Fate

\* A row is stranded by a fault, one by each.
Costs == \/ Stranded' \subseteq Stranded /\ faults' \in {faults, faults + 1}
         \/ faults' = faults + 1 /\ \E x \in Rows : Stranded' \subseteq Stranded \cup {x}

LEMMA QuietCosts ==
  ASSUME UNCHANGED <<sends, faults>>,
         \A r \in Rows : status'[r] = "processing" => status[r] = "processing",
         \A p \in Schedulers : job'[p] = job[p] \/ \A r \in Rows : job[p] = r => sends[<<r, p>>] # 0
  PROVE  Costs
BY DEF Costs, Stranded

LEMMA ClaimCosts ==
  ASSUME TypeOK, NEW p \in Schedulers, NEW r \in Rows, Claim(p, r)
  PROVE  Costs
<1>1. PICK f \in Fates :
        /\ Fate(f)
        /\ Patch(r, {"pending"}, "processing", f)
        /\ IF f = "answered" THEN Accept(p, r) ELSE UNCHANGED <<blind, pc, job>>
  BY DEF Claim
<1>2. pc[p] = "poll" /\ sends' = sends /\ job[p] \notin Rows
  BY DEF Claim, TypeOK, Busy
<1>3. /\ \A s \in Rows : s # r => status'[s] = status[s]
      /\ f = "undelivered" => status' = status
      /\ status[r] # "pending" => status' = status
  BY <1>1 DEF TypeOK, Patch
<1>4. \A q \in Schedulers : q # p => job'[q] = job[q]  BY <1>1 DEF TypeOK, Accept
<1>5. faults' = faults + (IF f = "answered" THEN 0 ELSE 1)  BY <1>1, FateCounts
<1>6. job'[p] = r \/ job' = job  BY <1>1 DEF TypeOK, Accept
<1>7. \A s \in Rows : s # r => (s \in Stranded' => s \in Stranded)
  BY <1>2, <1>3, <1>4, <1>6 DEF Stranded
<1>8. CASE f = "answered"
  <2>1. r \in Stranded' => r \in Stranded
    <3>1. job'[p] = r  BY <1>1, <1>8 DEF TypeOK, Accept
    <3> QED  BY <3>1 DEF Stranded
  <2> QED  BY <1>5, <1>7, <1>8, <2>1 DEF Costs, Stranded, TypeOK
<1>9. CASE f # "answered"
  <2>1. Stranded' \subseteq Stranded \cup {r}  BY <1>7 DEF Stranded
  <2> QED  BY <1>5, <1>9, <2>1 DEF Costs
<1> QED  BY <1>8, <1>9

LEMMA SendCosts ==
  ASSUME TypeOK, NEW p \in Schedulers, Send(p)
  PROVE  Costs
<1>1. UNCHANGED <<status, job, faults>>  BY DEF Send, tableVars
<1>2. \A r \in Rows : \A q \in Schedulers : sends'[<<r, q>>] = 0 => sends[<<r, q>>] = 0
  <2>1. PICK n \in {0, 1} : sends' = [sends EXCEPT ![<<job[p], p>>] = @ + n]
    BY DEF Send
  <2>2. SUFFICES ASSUME NEW r \in Rows, NEW q \in Schedulers
                 PROVE  sends'[<<r, q>>] = 0 => sends[<<r, q>>] = 0
    OBVIOUS
  <2>3. sends \in [Rows \X Schedulers -> Nat]  BY DEF TypeOK
  <2>4. sends[<<r, q>>] \in Nat  BY <2>3
  <2>5. sends'[<<r, q>>] \in {sends[<<r, q>>], sends[<<r, q>>] + n}  BY <2>1, <2>3
  <2> QED  BY <2>4, <2>5
<1> QED  BY <1>1, <1>2 DEF Costs, Stranded

LEMMA MarkFailedCosts ==
  ASSUME IInv, NEW p \in Schedulers, MarkFailed(p)
  PROVE  Costs
<1>1. TypeOK /\ pc[p] = "fail"  BY DEF IInv, MarkFailed
<1>2. PICK r \in Rows : r = job[p]  BY <1>1 DEF TypeOK, Busy
<1>3. PICK f \in Fates : Fate(f) /\ Patch(r, Statuses, "failed", f)
  BY <1>2 DEF MarkFailed
<1>4. job' = [job EXCEPT ![p] = NoRow] /\ sends' = sends  BY DEF MarkFailed
<1>5. status[r] \in Statuses  BY <1>1, <1>2 DEF IInv, JobInv, TypeOK
<1>6. /\ \A s \in Rows : s # r => status'[s] = status[s]
      /\ f = "answered" => status'[r] = "failed"
  BY <1>1, <1>3, <1>5 DEF TypeOK, Patch
<1>7. faults' = faults + (IF f = "answered" THEN 0 ELSE 1)  BY <1>1, <1>3, FateCounts
<1>8. \A s \in Rows : s # r => (s \in Stranded' => s \in Stranded)
  BY <1>1, <1>2, <1>4, <1>6 DEF Stranded, TypeOK
<1>9. CASE f = "answered"
  <2>1. r \notin Stranded'  BY <1>6, <1>9 DEF Stranded
  <2>2. faults' = faults  BY <1>1, <1>7, <1>9 DEF TypeOK
  <2> QED  BY <1>8, <2>1, <2>2 DEF Costs, Stranded
<1>10. CASE f # "answered"
  <2>1. Stranded' \subseteq Stranded \cup {r}  BY <1>8 DEF Stranded
  <2> QED  BY <1>7, <1>10, <2>1 DEF Costs
<1> QED  BY <1>9, <1>10

LEMMA CrashCosts ==
  ASSUME TypeOK, NEW p \in Schedulers, Crash(p)
  PROVE  Costs
<1>1. /\ faults' = faults + 1 /\ job' = [job EXCEPT ![p] = NoRow]
      /\ UNCHANGED <<status, sends>>
  BY DEF Crash, tableVars
<1>2. \A r \in Rows : r # job[p] => (r \in Stranded' => r \in Stranded)
  BY <1>1 DEF Stranded, TypeOK
<1>3. CASE job[p] \in Rows
  <2>1. Stranded' \subseteq Stranded \cup {job[p]}  BY <1>2 DEF Stranded
  <2> QED  BY <1>1, <1>3, <2>1 DEF Costs
<1>4. CASE job[p] \notin Rows
  <2>1. Stranded' \subseteq Stranded  BY <1>2, <1>4 DEF Stranded
  <2> QED  BY <1>1, <2>1 DEF Costs
<1> QED  BY <1>3, <1>4

LEMMA StepCosts == IInv /\ [Next]_vars => Costs
<1> SUFFICES ASSUME IInv, [Next]_vars  PROVE Costs  OBVIOUS
<1>1. TypeOK  BY DEF IInv
<1>2. ASSUME NEW r \in Rows, Post(r) \/ Cancel(r)  PROVE Costs
  <2>1. UNCHANGED <<sends, faults, job>>  BY <1>2 DEF Post, Cancel, procVars
  <2>2. \A s \in Rows : status'[s] = "processing" => status[s] = "processing"
    BY <1>1, <1>2 DEF Post, Insert, Cancel, TypeOK
  <2> QED  BY <2>1, <2>2, QuietCosts
<1>3. ASSUME NEW p \in Schedulers, MarkSent(p)  PROVE Costs
  <2>1. PICK f \in Fates : Fate(f) /\ Patch(job[p], {"pending"}, "sent", f)
    BY <1>3 DEF MarkSent
  <2>2. UNCHANGED <<sends, job>> /\ job[p] \in Rows  BY <1>1, <1>3 DEF MarkSent, TypeOK, Busy
  <2>3. \A s \in Rows : status'[s] = "processing" => status[s] = "processing"
    BY <1>1, <2>1, <2>2 DEF Patch, TypeOK
  <2>4. Stranded' \subseteq Stranded  BY <2>2, <2>3 DEF Stranded
  <2>5. faults' = faults + (IF f = "answered" THEN 0 ELSE 1)  BY <1>1, <2>1, FateCounts
  <2> QED  BY <1>1, <2>4, <2>5 DEF Costs, TypeOK
<1>4. ASSUME NEW p \in Schedulers, Reschedule(p)  PROVE Costs
  <2>1. UNCHANGED <<sends, faults>> /\ job' = [job EXCEPT ![p] = NoRow]
        /\ pc[p] = "reschedule"
    BY <1>4 DEF Reschedule
  <2>2. \A s \in Rows : status'[s] = "processing" => status[s] = "processing"
    BY <1>1, <1>4 DEF Reschedule, Insert, tableVars, TypeOK
  <2>3. \A r \in Rows : job[p] = r => sends[<<r, p>>] # 0
    BY <1>1, <2>1 DEF IInv, SendInv, SendRow, TypeOK
  <2>4. \A q \in Schedulers : q # p => job'[q] = job[q]  BY <1>1, <2>1 DEF TypeOK
  <2> QED  BY <2>1, <2>2, <2>3, <2>4, QuietCosts
<1>5. ASSUME NEW p \in Schedulers, Fetch(p) \/ Restart(p)  PROVE Costs
  BY <1>5, QuietCosts DEF Fetch, Restart, tableVars
<1>6. CASE Tick \/ UNCHANGED vars
  BY <1>6, QuietCosts DEF Tick, vars, tableVars, procVars
<1>7. ASSUME NEW p \in Schedulers, SchedulerStep(p) \/ Crash(p) \/ Restart(p)  PROVE Costs
  BY <1>1, <1>3, <1>4, <1>5, <1>7, ClaimCosts, SendCosts, MarkFailedCosts, CrashCosts
     DEF SchedulerStep
<1> QED  BY <1>2, <1>6, <1>7 DEF Next

FewStranded == IsFiniteSet(Stranded) /\ Cardinality(Stranded) <= faults

LEMMA FewStay ==
  ASSUME FewStranded, Costs, faults \in Nat
  PROVE  FewStranded'
<1>1. IsFiniteSet(Stranded) /\ Cardinality(Stranded) <= faults  BY DEF FewStranded
<1>2. CASE Stranded' \subseteq Stranded /\ faults' \in {faults, faults + 1}
  <2>1. /\ IsFiniteSet(Stranded') /\ Cardinality(Stranded') <= Cardinality(Stranded)
    BY <1>1, <1>2, FS_Subset
  <2>2. Cardinality(Stranded) \in Nat /\ Cardinality(Stranded') \in Nat
    BY <1>1, <2>1, FS_CardinalityType
  <2>3. Cardinality(Stranded') <= faults'  BY <1>1, <1>2, <2>1, <2>2
  <2> QED  BY <2>1, <2>3 DEF FewStranded
<1>3. ASSUME NEW x \in Rows, Stranded' \subseteq Stranded \cup {x}, faults' = faults + 1
      PROVE  FewStranded'
  <2>1. PICK T : T = Stranded \cup {x}  OBVIOUS
  <2>2. /\ IsFiniteSet(T)
        /\ Cardinality(T) = IF x \in Stranded THEN Cardinality(Stranded) ELSE Cardinality(Stranded) + 1
    BY <1>1, <2>1, FS_AddElement
  <2>3. Cardinality(Stranded) \in Nat  BY <1>1, FS_CardinalityType
  <2>4. IsFiniteSet(Stranded') /\ Cardinality(Stranded') <= Cardinality(T)
    BY <1>3, <2>1, <2>2, FS_Subset
  <2>5. Cardinality(Stranded') \in Nat /\ Cardinality(T) \in Nat
    BY <2>2, <2>4, FS_CardinalityType
  <2>6. Cardinality(Stranded') <= faults'  BY <1>1, <1>3, <2>2, <2>3, <2>4, <2>5
  <2> QED  BY <2>4, <2>6 DEF FewStranded
<1> QED  BY <1>2, <1>3 DEF Costs

\* A claimed row is sent, marked, or lost to a fault of its own, for any number of
\* schedulers (scheduler.go:118-259).
THEOREM OneRowAFault == Spec => []FaultsStrandOne
<1>1. Init => FewStranded
  <2> SUFFICES ASSUME Init  PROVE FewStranded  OBVIOUS
  <2>1. Stranded = {} /\ faults = 0  BY DEF Init, Stranded
  <2> QED  BY <2>1, FS_EmptySet DEF FewStranded
<1>2. IInv /\ FewStranded /\ [Next]_vars => FewStranded'
  <2>1. IInv => faults \in Nat  BY SchedulerAssumption DEF IInv, TypeOK
  <2> QED  BY <2>1, StepCosts, FewStay
<1>3. FewStranded => FaultsStrandOne  BY DEF FewStranded, FaultsStrandOne
<1> QED  BY <1>1, <1>2, <1>3, Invariance, PTL DEF Spec

=============================================================================
