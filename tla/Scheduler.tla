------------------------------- MODULE Scheduler -------------------------------
(***************************************************************************)
(* Scheduled messages: the rows of waclaw_scheduled_messages, the API      *)
(* calls that create and cancel them (app/api/scheduled), and the          *)
(* schedulers of waclaw-go that poll for due rows, claim, send, settle and *)
(* reschedule them (internal/scheduler/scheduler.go).                      *)
(*                                                                         *)
(* Each HTTP request of a scheduler is a step of its own.  It may be lost  *)
(* before it reaches the table, or its answer may be lost after the table  *)
(* has changed; a scheduler may crash between any two steps, and two may   *)
(* run at once while one deployment replaces another.  The table's server  *)
(* answers 204 to every PATCH that it carries out, matching a row or not,  *)
(* and the code takes that for a claim: blind keeps the claims that        *)
(* matched none, of a row another scheduler has claimed or the user has    *)
(* canceled since it was fetched.                                          *)
(***************************************************************************)
EXTENDS Recurrence, FiniteSets

CONSTANTS Schedulers,  \* the scheduler processes
          Rows,        \* the ids a row can get
          NoRow,       \* no row
          Plans,       \* the recurrence parts of rows, see Recurrence
          Today,       \* the first day
          LastDay,     \* bound: the clock stops on this day
          Horizon,     \* bound: users schedule at most this many days ahead
          MaxFaults    \* bound: lost requests, lost answers and crashes in all

ASSUME SchedulerAssumption ==
  /\ NoRow \notin Rows
  /\ Plans # {}
  /\ {Today, LastDay, Horizon, MaxFaults} \subseteq Nat
  /\ \A x \in Plans : IsPlan(x)

VARIABLES status,   \* the status column, "absent" before the row is inserted
          due,      \* the day of scheduled_for
          plan,     \* the recurrence columns
          parent,   \* history: the row a row is the next occurrence of
          author,   \* history: the scheduler that inserted it as such
          sends,    \* history: how often a scheduler sent a row's message
          blind,    \* history: the claims of a row that was no longer pending
          today,    \* the clock
          faults,   \* how many faults there have been
          pc,       \* where each scheduler is
          batch,    \* the fetched rows a scheduler still has to process
          job       \* the row a scheduler is processing

tableVars == <<status, due, plan, parent, author>>
procVars  == <<pc, batch, job>>
vars == <<tableVars, sends, blind, today, faults, procVars>>

-----------------------------------------------------------------------------

Statuses == {"pending", "processing", "sent", "failed", "canceled"}

\* A status the schedulers and the API never leave.
Settled == {"sent", "failed", "canceled"}

Exists(r) == status[r] # "absent"

IsDue(r) == status[r] = "pending" /\ due[r] <= today

Init ==
  /\ status = [r \in Rows |-> "absent"]
  /\ due = [r \in Rows |-> Today]
  /\ plan = [r \in Rows |-> CHOOSE x \in Plans : TRUE]
  /\ parent = [r \in Rows |-> NoRow]
  /\ author = [r \in Rows |-> {}]
  /\ sends = [x \in Rows \X Schedulers |-> 0]
  /\ blind = {}
  /\ today = Today
  /\ faults = 0
  /\ pc = [p \in Schedulers |-> "poll"]
  /\ batch = [p \in Schedulers |-> {}]
  /\ job = [p \in Schedulers |-> NoRow]

\* Insert a pending row under a fresh id.
Insert(r, day, how, from, who) ==
  /\ ~Exists(r)
  /\ status' = [status EXCEPT ![r] = "pending"]
  /\ due' = [due EXCEPT ![r] = day]
  /\ plan' = [plan EXCEPT ![r] = how]
  /\ parent' = [parent EXCEPT ![r] = from]
  /\ author' = [author EXCEPT ![r] = who]

\* What becomes of a request: it arrives and is answered, it is lost, or it
\* arrives and the answer is lost.
Fate(f) ==
  /\ faults + (IF f = "answered" THEN 0 ELSE 1) <= MaxFaults
  /\ faults' = faults + (IF f = "answered" THEN 0 ELSE 1)

Fates == {"answered", "undelivered", "unanswered"}

\* PATCH of the row r where its status is in from.
Patch(r, from, to, f) ==
  status' = IF f # "undelivered" /\ status[r] \in from
              THEN [status EXCEPT ![r] = to] ELSE status

-----------------------------------------------------------------------------
(* The API and the clock.                                                  *)

\* POST /api/scheduled, or a row the user writes through the table's own API,
\* the only way to one that recurs: a time in the past is refused.
Post(r) ==
  /\ \E d \in today .. today + Horizon, how \in Plans : Insert(r, d, how, NoRow, {})
  /\ UNCHANGED <<sends, blind, today, faults, procVars>>

\* Mutant of Cancel: the guard on the status is dropped.
CancelAny(r) ==
  /\ Exists(r)
  /\ status' = [status EXCEPT ![r] = "canceled"]
  /\ UNCHANGED <<due, plan, parent, author, sends, blind, today, faults, procVars>>

\* Mutant of Cancel: a status the CHECK constraint of the table refuses.
CancelMisspelt(r) ==
  /\ status[r] = "pending"
  /\ status' = [status EXCEPT ![r] = "cancelled"]
  /\ UNCHANGED <<due, plan, parent, author, sends, blind, today, faults, procVars>>

\* DELETE /api/scheduled/:id, which updates pending rows only.
Cancel(r) ==
  /\ status[r] = "pending"
  /\ status' = [status EXCEPT ![r] = "canceled"]
  /\ UNCHANGED <<due, plan, parent, author, sends, blind, today, faults, procVars>>

\* Time passes.
Tick ==
  /\ today < LastDay
  /\ today' = today + 1
  /\ UNCHANGED <<tableVars, sends, blind, faults, procVars>>

-----------------------------------------------------------------------------
(* A scheduler.                                                            *)

\* Mutant of Fetch: lt in the place of lte.
FetchOverdue(p) ==
  /\ pc[p] = "poll"
  /\ batch[p] = {}
  /\ batch' = [batch EXCEPT ![p] = {r \in Rows : IsDue(r) /\ due[r] < today}]
  /\ UNCHANGED <<tableVars, sends, blind, today, faults, pc, job>>

\* Mutant of Fetch: the filter on scheduled_for is dropped.
FetchEarly(p) ==
  /\ pc[p] = "poll"
  /\ batch[p] = {}
  /\ batch' = [batch EXCEPT ![p] = {r \in Rows : status[r] = "pending"}]
  /\ UNCHANGED <<tableVars, sends, blind, today, faults, pc, job>>

\* fetchDue: read the due rows.  A poll that fails or finds none changes
\* nothing.
Fetch(p) ==
  /\ pc[p] = "poll"
  /\ batch[p] = {}
  /\ batch' = [batch EXCEPT ![p] = {r \in Rows : IsDue(r)}]
  /\ UNCHANGED <<tableVars, sends, blind, today, faults, pc, job>>

\* The scheduler takes the row for claimed; if it is not pending, blindly.
Accept(p, r) ==
  /\ pc' = [pc EXCEPT ![p] = "send"]
  /\ job' = [job EXCEPT ![p] = r]
  /\ blind' = IF status[r] = "pending" THEN blind ELSE blind \cup {<<r, p>>}

\* Mutant of Claim: its result is ignored.
ClaimUnchecked(p, r) ==
  /\ pc[p] = "poll"
  /\ r \in batch[p]
  /\ batch' = [batch EXCEPT ![p] = @ \ {r}]
  /\ \E f \in Fates : Fate(f) /\ Patch(r, {"pending"}, "processing", f)
  /\ Accept(p, r)
  /\ UNCHANGED <<due, plan, parent, author, sends, today>>

\* Mutant of Claim: its filter on the status is dropped.
ClaimUnfiltered(p, r) ==
  /\ pc[p] = "poll"
  /\ r \in batch[p]
  /\ batch' = [batch EXCEPT ![p] = @ \ {r}]
  /\ \E f \in Fates :
       /\ Fate(f)
       /\ Patch(r, Statuses, "processing", f)
       /\ IF f = "answered" THEN Accept(p, r) ELSE UNCHANGED <<blind, pc, job>>
  /\ UNCHANGED <<due, plan, parent, author, sends, today>>

\* process, first request: claim the row with a PATCH that only matches while
\* it is pending.  Any answer but 204 leaves the row to others; 204 says that
\* the PATCH was carried out, not that it matched (Prefer: return=minimal).
Claim(p, r) ==
  /\ pc[p] = "poll"
  /\ r \in batch[p]
  /\ batch' = [batch EXCEPT ![p] = @ \ {r}]
  /\ \E f \in Fates :
       /\ Fate(f)
       /\ Patch(r, {"pending"}, "processing", f)
       /\ IF f = "answered" THEN Accept(p, r) ELSE UNCHANGED <<blind, pc, job>>
  /\ UNCHANGED <<due, plan, parent, author, sends, today>>

\* process: look up the session, decode the attachment and send.  An error
\* may hide a message that did go out.
Send(p) ==
  /\ pc[p] = "send"
  /\ \E result \in {"sent", "failed", "unanswered"} :
       /\ sends' = [sends EXCEPT ![<<job[p], p>>] = @ + (IF result = "failed" THEN 0 ELSE 1)]
       /\ pc' = [pc EXCEPT ![p] = IF result = "sent" THEN "mark" ELSE "fail"]
  /\ UNCHANGED <<tableVars, blind, today, faults, batch, job>>

\* process: mark the row sent.  patchStatus filters on status=eq.pending here
\* too, and its result is ignored.
MarkSent(p) ==
  /\ pc[p] = "mark"
  /\ \E f \in Fates : Fate(f) /\ Patch(job[p], {"pending"}, "sent", f)
  /\ pc' = [pc EXCEPT ![p] = "reschedule"]
  /\ UNCHANGED <<due, plan, parent, author, sends, blind, today, batch, job>>

\* Mutant of MarkFailed: no return after updateFailed.
MarkFailedGoesOn(p) ==
  /\ pc[p] = "fail"
  /\ \E f \in Fates : Fate(f) /\ Patch(job[p], Statuses, "failed", f)
  /\ pc' = [pc EXCEPT ![p] = "reschedule"]
  /\ UNCHANGED <<due, plan, parent, author, sends, blind, today, batch, job>>

\* Mutant of MarkFailed: it filters on status=eq.pending as patchStatus does.
MarkFailedPending(p) ==
  /\ pc[p] = "fail"
  /\ \E f \in Fates : Fate(f) /\ Patch(job[p], {"pending"}, "failed", f)
  /\ pc' = [pc EXCEPT ![p] = "poll"]
  /\ job' = [job EXCEPT ![p] = NoRow]
  /\ UNCHANGED <<due, plan, parent, author, sends, blind, today, batch>>

\* updateFailed: mark the row failed whatever its status; the series ends.
MarkFailed(p) ==
  /\ pc[p] = "fail"
  /\ \E f \in Fates : Fate(f) /\ Patch(job[p], Statuses, "failed", f)
  /\ pc' = [pc EXCEPT ![p] = "poll"]
  /\ job' = [job EXCEPT ![p] = NoRow]
  /\ UNCHANGED <<due, plan, parent, author, sends, blind, today, batch>>

\* reschedule: insert the next occurrence, if there is one, once.  No answer
\* is told from another, so an insert that fails only ends the series.
Reschedule(p) ==
  /\ pc[p] = "reschedule"
  /\ \/ /\ Recurs(due[job[p]], plan[job[p]])
        /\ \E r \in Rows : Insert(r, NextDay(due[job[p]], plan[job[p]]),
                                  plan[job[p]], job[p], {p})
     \/ UNCHANGED tableVars
  /\ pc' = [pc EXCEPT ![p] = "poll"]
  /\ job' = [job EXCEPT ![p] = NoRow]
  /\ UNCHANGED <<sends, blind, today, faults, batch>>

\* The process dies; everything it knew is gone, the table stays.
Crash(p) ==
  /\ pc[p] # "down"
  /\ faults < MaxFaults
  /\ faults' = faults + 1
  /\ pc' = [pc EXCEPT ![p] = "down"]
  /\ batch' = [batch EXCEPT ![p] = {}]
  /\ job' = [job EXCEPT ![p] = NoRow]
  /\ UNCHANGED <<tableVars, sends, blind, today>>

\* New and Run: start polling.
Restart(p) ==
  /\ pc[p] = "down"
  /\ pc' = [pc EXCEPT ![p] = "poll"]
  /\ UNCHANGED <<tableVars, sends, blind, today, faults, batch, job>>

-----------------------------------------------------------------------------

SchedulerStep(p) ==
  \/ Fetch(p) \/ Send(p) \/ MarkSent(p) \/ MarkFailed(p) \/ Reschedule(p)
  \/ \E r \in Rows : Claim(p, r)

Next ==
  \/ \E r \in Rows : Post(r) \/ Cancel(r)
  \/ Tick
  \/ \E p \in Schedulers : SchedulerStep(p) \/ Crash(p) \/ Restart(p)

Spec == Init /\ [][Next]_vars

\* A running scheduler keeps working, and one that died is started again
\* (Restart=always in systemd/waclaw-go.service).
FairSpec ==
  Spec /\ \A p \in Schedulers : WF_vars(SchedulerStep(p)) /\ WF_vars(Restart(p))

-----------------------------------------------------------------------------
(* Properties.                                                             *)

Busy == {"send", "mark", "fail", "reschedule"}

\* The type invariant; a scheduler has a job exactly while it processes one.
TypeOK ==
  /\ status \in [Rows -> Statuses \cup {"absent"}]
  /\ due \in [Rows -> Nat]
  /\ plan \in [Rows -> Plans]
  /\ parent \in [Rows -> Rows \cup {NoRow}]
  /\ author \in [Rows -> SUBSET Schedulers]
  /\ sends \in [Rows \X Schedulers -> Nat]
  /\ blind \subseteq Rows \X Schedulers
  /\ today \in Nat
  /\ faults \in 0 .. MaxFaults
  /\ pc \in [Schedulers -> Busy \cup {"poll", "down"}]
  /\ batch \in [Schedulers -> SUBSET Rows]
  /\ job \in [Schedulers -> Rows \cup {NoRow}]
  /\ \A p \in Schedulers : pc[p] \in Busy <=> job[p] \in Rows

\* No scheduler sends a message twice, and of two that send the same one at
\* least one has claimed a row that was pending no longer: crashes, lost
\* answers and stale batches send nothing twice by themselves
\* (scheduler.go:149-199).
SentOnce ==
  \A r \in Rows : \A p, q \in Schedulers :
    /\ sends[<<r, p>>] <= 1
    /\ p # q /\ sends[<<r, p>>] > 0 /\ sends[<<r, q>>] > 0
         => <<r, p>> \in blind \/ <<r, q>> \in blind

\* A cancellation the API confirmed is only passed over by a scheduler that
\* had fetched the row before and claimed it blindly after: nobody else sends
\* the message, or writes a next occurrence of it.
CanceledIsSilent ==
  \A r \in Rows : status[r] = "canceled" =>
    /\ \A p \in Schedulers : sends[<<r, p>>] > 0 => <<r, p>> \in blind
    /\ \A c \in Rows : parent[c] = r => \A p \in author[c] : <<r, p>> \in blind

KeepsSettled ==
  \A r \in Rows : status[r] \in Settled /\ status'[r] # status[r] =>
    /\ status'[r] = "failed"
    /\ \E p \in Schedulers : job[p] = r /\ pc[p] = "fail" /\ <<r, p>> \in blind

\* A row that is sent, failed or canceled stays so, but for updateFailed of a
\* scheduler that claimed it blindly, which overwrites whatever it finds
\* (scheduler.go:237).
SettledIsFinal == [][KeepsSettled]_vars

\* A series only goes on from an occurrence that went out, by the scheduler
\* that sent it, and each of them continues it once: a fork takes two that
\* both sent the message, of whom SentOnce tells.
SeriesFollowsSends ==
  \A c \in Rows : parent[c] # NoRow =>
    /\ \E p \in Schedulers : author[c] = {p} /\ sends[<<parent[c], p>>] > 0
    /\ \A d \in Rows : parent[d] = parent[c] /\ author[d] = author[c] => d = c

\* The next occurrence is later than the one it follows and not past the end
\* of the series, so that no series can send itself over and over at once.
SeriesAdvances ==
  \A c \in Rows : parent[c] # NoRow =>
    /\ due[c] > due[parent[c]]
    /\ \A end \in plan[parent[c]].end : due[c] <= end

\* A claimed row that nobody works on, has sent or has marked: nobody ever will, as
\* only pending rows are fetched.
Stranded ==
  {r \in Rows : status[r] = "processing" /\ \A p \in Schedulers : job[p] # r /\ sends[<<r, p>>] = 0}

\* A lost request, a lost answer or a crash, wherever it comes, strands one row at most,
\* and nothing else strands any (scheduler.go:118-259).
FaultsStrandOne == Cardinality(Stranded) <= faults

\* The table seen by its user: of a row that a scheduler is through with only
\* that it is; and of a scheduler only what it has fetched, claimed and sent.
Box ==
  INSTANCE Outbox WITH
    Messages <- Rows,
    Hands    <- Schedulers,
    None     <- NoRow,
    now      <- today,
    state    <- [r \in Rows |-> IF status[r] \in {"sent", "failed"} THEN "settled" ELSE status[r]],
    ready    <- batch,
    holds    <- job,
    out      <- [r \in Rows |-> {p \in Schedulers : sends[<<r, p>>] > 0}],
    follows  <- parent

\* Schedulers that fetch, claim, send, mark and die in any order keep what an
\* Outbox promises: a row changes, goes out or goes on only by a scheduler
\* that has seen it pending and due and then claimed it, once, and each goes
\* on at most once by each that sent it.
ImplementsOutbox == Box!Spec

\* A due row does not stay pending: some scheduler claims it, unless it is
\* canceled.
DueIsHandled == \A r \in Rows : IsDue(r) ~> status[r] # "pending"

\* "Claim: PATCH status=processing with optimistic-lock filter
\* status=eq.pending" (scheduler.go): the claim of a canceled row fails, and
\* the row is not sent.  The code breaks it, without a fault and with one
\* scheduler.
CancelHolds ==
  \A r \in Rows : status[r] = "canceled" => \A p \in Schedulers : sends[<<r, p>>] = 0

\* "process claims one row, sends the message, then marks it sent or failed"
\* (scheduler.go): without faults, a message that went out and that no
\* scheduler still works on is marked.  The code breaks it.
MarkedSent ==
  \A r \in Rows :
    (\E p \in Schedulers : sends[<<r, p>>] > 0) /\ (\A p \in Schedulers : job[p] # r)
      => status[r] \in {"sent", "failed"}

=============================================================================
