------------------------------- MODULE EventBus -------------------------------
(***************************************************************************)
(* The in-memory pub/sub bus of waclaw-go (internal/events/bus.go).        *)
(*                                                                         *)
(* A Publish call takes a snapshot of the subscriber map under the read    *)
(* lock and then, without the lock, visits the subscribers one by one: it  *)
(* loads the subscriber's closed flag, and in a later step sends to the    *)
(* subscriber's channel or, the buffer being full, counts a drop.  An      *)
(* unsub call deletes the map entry under the write lock, and afterwards,  *)
(* without the lock, sets the flag and closes the channel.  Every access   *)
(* another goroutine can interleave with is an action of its own.          *)
(*                                                                         *)
(* A channel is kept with its history: log[s] is everything ever sent to   *)
(* it, the first taken[s] elements have been received, and the rest is     *)
(* the buffer.                                                             *)
(***************************************************************************)
EXTENDS Integers, Sequences

CONSTANTS Events,   \* the calls of Publish; each publishes an event of its own
          Subs,     \* the calls of Subscribe; each makes a subscriber of its own
          Closers,  \* the calls of the unsub functions Subscribe returns
          Handle,   \* Handle[k] is the subscriber whose unsub the call k is of
          BufSize   \* BufSize[s] is the argument of the Subscribe call s

ASSUME BusAssumption == Handle \in [Closers -> Subs] /\ BufSize \in [Subs -> Int]

VARIABLES made,      \* the subscribers whose Subscribe call has returned
          subs,      \* Bus.subs: the subscribers the map holds
          closed,    \* subscriber.closed, the atomic flag
          chClosed,  \* whether close(ch) has run
          log,       \* every event ever sent to the subscriber's channel
          taken,     \* how many of them the subscriber has received
          drops,     \* the events behind subscriber.drops
          unsub,     \* progress of every call of an unsub function
          pc,        \* progress of every Publish call
          todo,      \* the part of its snapshot a Publish call still has to visit
          open,      \* the subscriber a Publish call has just seen open, if any
          panics,    \* the runtime panics so far
          audience,  \* history: who was subscribed when the Publish call began
          before     \* history: the Publish calls over when this one began

chanVars == <<log, taken, drops>>
callVars == <<pc, todo, open, audience, before>>
subVars  == <<made, subs, closed, chClosed, unsub>>
vars     == <<subVars, chanVars, callVars, panics>>

-----------------------------------------------------------------------------

\* The capacity of the channel Subscribe makes: sizes below 1 become 1.
Cap(s) == IF BufSize[s] < 1 THEN 1 ELSE BufSize[s]

\* How many events sit in the channel's buffer.
Buffered(s) == Len(log[s]) - taken[s]

Delivered(s) == {log[s][i] : i \in 1 .. Len(log[s])}

\* A Publish call that has ended, by returning or by panicking.
Over(e) == pc[e] \in {"returned", "panicked"}

Init ==
  /\ made = {}
  /\ subs = {}
  /\ closed = [s \in Subs |-> FALSE]
  /\ chClosed = [s \in Subs |-> FALSE]
  /\ log = [s \in Subs |-> <<>>]
  /\ taken = [s \in Subs |-> 0]
  /\ drops = [s \in Subs |-> {}]
  /\ unsub = [k \in Closers |-> "idle"]
  /\ pc = [e \in Events |-> "idle"]
  /\ todo = [e \in Events |-> {}]
  /\ open = [e \in Events |-> {}]
  /\ panics = {}
  /\ audience = [e \in Events |-> {}]
  /\ before = [e \in Events |-> {}]

-----------------------------------------------------------------------------
(* Subscribing and unsubscribing.                                          *)

\* Subscribe: make the channel and enter the subscriber under the lock.
Subscribe(s) ==
  /\ s \notin made
  /\ made' = made \cup {s}
  /\ subs' = subs \cup {s}
  /\ UNCHANGED <<closed, chClosed, unsub, chanVars, callVars, panics>>

\* unsub, first step: delete the map entry under the lock.
UnsubDelete(k) ==
  /\ Handle[k] \in made
  /\ unsub[k] = "idle"
  /\ subs' = subs \ {Handle[k]}
  /\ unsub' = [unsub EXCEPT ![k] = "deleted"]
  /\ UNCHANGED <<made, closed, chClosed, chanVars, callVars, panics>>

\* Mutant of UnsubSwap: a Store in the place of the compare-and-swap.
UnsubSwapByStore(k) ==
  /\ unsub[k] = "deleted"
  /\ closed' = [closed EXCEPT ![Handle[k]] = TRUE]
  /\ unsub' = [unsub EXCEPT ![k] = "swapped"]
  /\ UNCHANGED <<made, subs, chClosed, chanVars, callVars, panics>>

\* unsub, second step: closed.CompareAndSwap(false, true).  Only the call
\* that swaps goes on to close the channel.
UnsubSwap(k) ==
  /\ unsub[k] = "deleted"
  /\ closed' = [closed EXCEPT ![Handle[k]] = TRUE]
  /\ unsub' = [unsub EXCEPT ![k] = IF closed[Handle[k]] THEN "done" ELSE "swapped"]
  /\ UNCHANGED <<made, subs, chClosed, chanVars, callVars, panics>>

\* unsub, third step: close(ch), which panics on a closed channel.
UnsubClose(k) ==
  /\ unsub[k] = "swapped"
  /\ chClosed' = [chClosed EXCEPT ![Handle[k]] = TRUE]
  /\ panics' = panics \cup
       (IF chClosed[Handle[k]] THEN {"close of closed channel"} ELSE {})
  /\ unsub' = [unsub EXCEPT ![k] = "done"]
  /\ UNCHANGED <<made, subs, closed, chanVars, callVars>>

\* The subscriber receives the oldest buffered event; a closed channel still
\* hands out what it holds.
Receive(s) ==
  /\ Buffered(s) > 0
  /\ taken' = [taken EXCEPT ![s] = @ + 1]
  /\ UNCHANGED <<subVars, log, drops, callVars, panics>>

-----------------------------------------------------------------------------
(* Publishing.                                                             *)

\* Nobody has called the unsub function of s yet.
Listening(s) ==
  s \in made /\ \A k \in Closers : Handle[k] = s => unsub[k] = "idle"

\* Publish: copy the subscriber map under the read lock.
Publish(e) ==
  /\ pc[e] = "idle"
  /\ pc' = [pc EXCEPT ![e] = "fanout"]
  /\ todo' = [todo EXCEPT ![e] = subs]
  /\ audience' = [audience EXCEPT ![e] = {s \in Subs : Listening(s)}]
  /\ before' = [before EXCEPT ![e] = {x \in Events : Over(x)}]
  /\ UNCHANGED <<open, subVars, chanVars, panics>>

\* Mutant of LoadClosed: a closed subscriber ends the loop, not its iteration.
LoadClosedBreak(e, s) ==
  /\ pc[e] = "fanout"
  /\ open[e] = {}
  /\ s \in todo[e]
  /\ IF closed[s]
       THEN todo' = [todo EXCEPT ![e] = {}] /\ UNCHANGED open
       ELSE open' = [open EXCEPT ![e] = {s}] /\ UNCHANGED todo
  /\ UNCHANGED <<pc, audience, before, subVars, chanVars, panics>>

\* closed.Load() for the next subscriber, in map order, that is in any order.
LoadClosed(e, s) ==
  /\ pc[e] = "fanout"
  /\ open[e] = {}
  /\ s \in todo[e]
  /\ IF closed[s]
       THEN todo' = [todo EXCEPT ![e] = @ \ {s}] /\ UNCHANGED open
       ELSE open' = [open EXCEPT ![e] = {s}] /\ UNCHANGED todo
  /\ UNCHANGED <<pc, audience, before, subVars, chanVars, panics>>

\* The four mutants of Send differ in when there is room, in whether the loop
\* moves on to the next subscriber, and in what a full buffer does.
SendWith(e, s, room, rest, full) ==
  /\ s \in open[e]
  /\ ~chClosed[s]
  /\ IF room
       THEN log' = [log EXCEPT ![s] = Append(@, e)] /\ UNCHANGED drops
       ELSE full /\ drops' = [drops EXCEPT ![s] = @ \cup {e}] /\ UNCHANGED log
  /\ todo' = [todo EXCEPT ![e] = rest]
  /\ open' = [open EXCEPT ![e] = {}]
  /\ UNCHANGED <<taken, pc, audience, before, subVars, panics>>

\* Mutants of Send: one event too many, one event too few, the subscriber
\* visited again, and a send without the default branch.
SendOneMore(e, s) == SendWith(e, s, Buffered(s) <= Cap(s), todo[e] \ {s}, TRUE)
SendOneLess(e, s) == SendWith(e, s, Buffered(s) + 1 < Cap(s), todo[e] \ {s}, TRUE)
SendTwice(e, s)   == SendWith(e, s, Buffered(s) < Cap(s), todo[e], TRUE)
SendBlocks(e, s)  == SendWith(e, s, Buffered(s) < Cap(s), todo[e] \ {s}, FALSE)

\* The select: send if the buffer has room, else count a drop.
Send(e, s) ==
  /\ s \in open[e]
  /\ ~chClosed[s]
  /\ IF Buffered(s) < Cap(s)
       THEN log' = [log EXCEPT ![s] = Append(@, e)] /\ UNCHANGED drops
       ELSE drops' = [drops EXCEPT ![s] = @ \cup {e}] /\ UNCHANGED log
  /\ todo' = [todo EXCEPT ![e] = @ \ {s}]
  /\ open' = [open EXCEPT ![e] = {}]
  /\ UNCHANGED <<taken, pc, audience, before, subVars, panics>>

\* The select when the channel was closed after the flag was loaded: a send
\* on a closed channel panics, and the rest of the fan-out is abandoned.
SendOnClosed(e, s) ==
  /\ s \in open[e]
  /\ chClosed[s]
  /\ panics' = panics \cup {"send on closed channel"}
  /\ pc' = [pc EXCEPT ![e] = "panicked"]
  /\ open' = [open EXCEPT ![e] = {}]
  /\ UNCHANGED <<todo, audience, before, subVars, chanVars>>

\* Publish returns when the snapshot is exhausted.
Return(e) ==
  /\ pc[e] = "fanout"
  /\ todo[e] = {}
  /\ pc' = [pc EXCEPT ![e] = "returned"]
  /\ UNCHANGED <<todo, open, audience, before, subVars, chanVars, panics>>

-----------------------------------------------------------------------------

PublishStep(e) ==
  \/ \E s \in Subs : LoadClosed(e, s) \/ Send(e, s) \/ SendOnClosed(e, s)
  \/ Return(e)

Next ==
  \/ \E s \in Subs : Subscribe(s) \/ Receive(s)
  \/ \E k \in Closers : UnsubDelete(k) \/ UnsubSwap(k) \/ UnsubClose(k)
  \/ \E e \in Events : Publish(e) \/ PublishStep(e)

Spec == Init /\ [][Next]_vars

\* A Publish call that has begun keeps running; nothing is assumed of the
\* subscribers, which may stop receiving for ever.
FairSpec == Spec /\ \A e \in Events : WF_vars(PublishStep(e))

-----------------------------------------------------------------------------
(* Properties.                                                             *)

\* A channel never holds more than its capacity, nor hands out what it has not.
BufferBounded == \A s \in Subs : Buffered(s) \in 0 .. Cap(s)

\* The type invariant: the shape of the bus, its calls and its channels.
TypeOK ==
  /\ made \in SUBSET Subs
  /\ subs \in SUBSET made
  /\ closed \in [Subs -> BOOLEAN]
  /\ chClosed \in [Subs -> BOOLEAN]
  /\ log \in [Subs -> Seq(Events)]
  /\ taken \in [Subs -> Nat]
  /\ drops \in [Subs -> SUBSET Events]
  /\ unsub \in [Closers -> {"idle", "deleted", "swapped", "done"}]
  /\ pc \in [Events -> {"idle", "fanout", "returned", "panicked"}]
  /\ todo \in [Events -> SUBSET Subs]
  /\ open \in [Events -> SUBSET Subs]
  /\ panics \in SUBSET {"send on closed channel", "close of closed channel"}
  /\ audience \in [Events -> SUBSET Subs]
  /\ before \in [Events -> SUBSET Events]
  /\ BufferBounded

\* Bus.Publish and unsub race on a subscriber's channel: the comment on Bus
\* promises that every method is safe for concurrent use, so no Publish call
\* ever panics.  The code breaks it.
NoSendOnClosed == "send on closed channel" \notin panics

\* However many calls of one unsub function run at once, its channel is
\* closed once ("Close channel only once", bus.go).
ClosedOnce == "close of closed channel" \notin panics

\* A subscriber receives two events in the order they were published
\* whenever the first Publish call was over before the second began, and
\* never receives one event twice.
PublishOrder ==
  \A s \in Subs : \A i, j \in 1 .. Len(log[s]) :
    i < j => /\ log[s][i] # log[s][j]
             /\ log[s][j] \notin before[log[s][i]]

\* Publish loses nothing silently: once it has returned, every subscriber
\* that was subscribed when it began and has not called unsub since either
\* has the event in its channel or has it counted as a drop.
NoSilentLoss ==
  \A e \in Events : \A s \in audience[e] :
    pc[e] = "returned" /\ Listening(s) => e \in Delivered(s) \cup drops[s]

\* Publish never blocks on a slow subscriber: a call that has begun ends,
\* though no subscriber may ever receive again.
PublishEnds == \A e \in Events : pc[e] = "fanout" ~> Over(e)

\* What PublishEnds needs of every step, an unsub of a visited subscriber included: a
\* call that has begun loses subscribers to visit and never gets new ones, each of its
\* own steps takes it further, and once it is over it stays so (bus.go:68-86).
GoesOn(e) ==
  /\ pc[e] = "fanout" => todo'[e] \subseteq todo[e]
  /\ Over(e) => pc'[e] = pc[e]
  /\ PublishStep(e) => \/ pc[e] = "fanout" /\ Over(e)'
                       \/ todo'[e] # todo[e]
                       \/ todo'[e] = todo[e] /\ open[e] = {} /\ open'[e] # {}

PublishGoesOn == [][\A e \in Events : GoesOn(e)]_vars

\* What does hold of panics: a Publish call only panics if an unsub call of somebody who
\* was subscribed when it began has run to its end since (bus.go:53-61, 76-85).
PanicNeedsUnsub ==
  \A e \in Events : pc[e] = "panicked" => \E s \in audience[e] : chClosed[s]

\* The bus seen from its subscribers: what each channel accepted, handed out
\* and lost.
FanOut ==
  INSTANCE LossyFanOut WITH
    Capacity <- Cap,
    phase    <- [s \in Subs |-> IF s \notin made THEN "absent"
                                ELSE IF chClosed[s] THEN "closed" ELSE "open"],
    sent     <- log,
    received <- taken,
    lost     <- drops

\* The bus implements the independent lossy channels of LossyFanOut: no
\* interleaving of Publish and unsub calls offers an event twice, loses one
\* while there is room, or delivers on a closed channel.
ImplementsFanOut == FanOut!Spec

=============================================================================
