---------------------------- MODULE EventBusProofs ----------------------------
(***************************************************************************)
(* What TLAPS proves of EventBus, for any events, subscribers, closers and *)
(* buffer sizes: the safety invariants TLC checks on small instances, and  *)
(* that the bus implements LossyFanOut.                                    *)
(***************************************************************************)
EXTENDS EventBus, TLAPS

\* How far a Publish call is determines what it still has to do.
CallInv ==
  \A e \in Events :
    /\ pc[e] = "idle" => todo[e] = {}
    /\ pc[e] = "returned" => todo[e] = {}
    /\ open[e] # {} => pc[e] = "fanout"
    /\ open[e] \subseteq todo[e]
    /\ todo[e] \subseteq made
    /\ audience[e] \subseteq made

\* How the unsub calls of a subscriber, the map, the flag and the channel
\* hang together: the one call that swapped the flag closes the channel.
HandleInv(s) ==
  /\ chClosed[s] => closed[s]
  /\ closed[s] => \E k \in Closers : Handle[k] = s /\ unsub[k] # "idle"
  /\ Listening(s) => s \in subs

CloserInv(k) ==
  /\ unsub[k] # "idle" => Handle[k] \in made
  /\ unsub[k] = "swapped" =>
       /\ closed[Handle[k]]
       /\ ~chClosed[Handle[k]]
       /\ \A l \in Closers : unsub[l] = "swapped" /\ Handle[l] = Handle[k] => l = k

UnsubInv ==
  /\ \A s \in Subs : HandleInv(s)
  /\ \A k \in Closers : CloserInv(k)

\* A subscriber a Publish call has yet to visit was not offered its event.
OfferInv ==
  \A s \in Subs : \A e \in Delivered(s) \cup drops[s] :
    pc[e] # "idle" /\ s \notin todo[e]

\* The calls recorded as over when a call began are over.
HistoryInv == \A e \in Events : \A x \in before[e] : Over(x)

\* A listening subscriber a Publish call has visited was offered its event.
LossInv ==
  \A e \in Events : \A s \in audience[e] :
    pc[e] # "idle" /\ s \notin todo[e] /\ Listening(s)
      => e \in Delivered(s) \cup drops[s]

\* The inductive invariant.
IInv ==
  /\ TypeOK
  /\ CallInv
  /\ UnsubInv
  /\ OfferInv
  /\ HistoryInv
  /\ LossInv
  /\ PublishOrder
  /\ ClosedOnce

-----------------------------------------------------------------------------

\* What sending one event does to the set of events a subscriber got.
LEMMA DeliveredAppend ==
  ASSUME NEW S, NEW q \in Seq(S), NEW e \in S
  PROVE  /\ Append(q, e) \in Seq(S)
         /\ Len(Append(q, e)) = Len(q) + 1
         /\ \A i \in 1 .. Len(q) : Append(q, e)[i] = q[i]
         /\ Append(q, e)[Len(q) + 1] = e
         /\ {Append(q, e)[i] : i \in 1 .. Len(Append(q, e))}
              = {q[i] : i \in 1 .. Len(q)} \cup {e}
<1>1. /\ Append(q, e) \in Seq(S)
      /\ Len(Append(q, e)) = Len(q) + 1
      /\ \A i \in 1 .. Len(q) : Append(q, e)[i] = q[i]
      /\ Append(q, e)[Len(q) + 1] = e
  OBVIOUS
<1>2. 1 .. Len(q) + 1 = (1 .. Len(q)) \cup {Len(q) + 1}
  OBVIOUS
<1> QED  BY <1>1, <1>2

LEMMA InitIInv == Init => IInv
<1> SUFFICES ASSUME Init PROVE IInv
  OBVIOUS
<1>1. \A s \in Subs : Delivered(s) = {}
  BY DEF Init, Delivered
<1>2. TypeOK
  <2>1. BufferBounded
    BY BusAssumption DEF Init, BufferBounded, Buffered, Cap
  <2> QED  BY <2>1 DEF Init, TypeOK
<1>3. CallInv /\ UnsubInv /\ HistoryInv
  BY DEF Init, CallInv, UnsubInv, HandleInv, CloserInv, HistoryInv, Listening
<1>4. OfferInv /\ LossInv
  BY <1>1 DEF Init, OfferInv, LossInv
<1>5. PublishOrder /\ ClosedOnce
  BY DEF Init, PublishOrder, ClosedOnce
<1> QED  BY <1>2, <1>3, <1>4, <1>5 DEF IInv

\* The bound on the buffers is preserved.
LEMMA BufferStep == TypeOK /\ [Next]_vars => BufferBounded'
<1> SUFFICES ASSUME TypeOK, [Next]_vars PROVE BufferBounded'
  OBVIOUS
<1>0. /\ log \in [Subs -> Seq(Events)] /\ taken \in [Subs -> Nat]
      /\ BufferBounded
  BY DEF TypeOK
<1>00. \A x \in Subs : Cap(x) \in Int /\ Cap(x)' = Cap(x)
  BY BusAssumption DEF Cap
<1>1. CASE UNCHANGED <<log, taken>>
  <2>1. \A x \in Subs : Buffered(x)' = Buffered(x)
    BY <1>1 DEF Buffered
  <2> QED  BY <1>0, <1>00, <2>1 DEF BufferBounded
<1>2. ASSUME NEW s \in Subs, Receive(s) PROVE BufferBounded'
  <2>1. /\ \A x \in Subs : taken'[x] = IF x = s THEN taken[x] + 1 ELSE taken[x]
        /\ log' = log /\ Buffered(s) > 0
    BY <1>0, <1>2 DEF Receive
  <2>2. \A x \in Subs : Len(log[x]) \in Nat /\ taken[x] \in Nat
    BY <1>0
  <2>3. \A x \in Subs : Buffered(x)' = IF x = s THEN Buffered(x) - 1 ELSE Buffered(x)
    BY <2>1, <2>2 DEF Buffered
  <2>4. \A x \in Subs : Buffered(x) \in 0 .. Cap(x)
    BY <1>0 DEF BufferBounded
  <2>5. ASSUME NEW x \in Subs PROVE Buffered(x)' \in 0 .. Cap(x)
    <3>1. Buffered(x) \in 0 .. Cap(x) /\ Cap(x) \in Int
      BY <1>00, <2>4
    <3>2. CASE x = s
      BY <2>1, <2>3, <3>1, <3>2
    <3>3. CASE x # s
      BY <2>3, <3>1, <3>3
    <3> QED  BY <3>2, <3>3
  <2> QED  BY <1>00, <2>5 DEF BufferBounded
<1>3. ASSUME NEW e \in Events, NEW s \in Subs, Send(e, s) PROVE BufferBounded'
  <2>1. CASE UNCHANGED log
    BY <1>1, <1>3, <2>1 DEF Send
  <2>2. CASE Buffered(s) < Cap(s) /\ log' = [log EXCEPT ![s] = Append(log[s], e)]
    <3>1. \A x \in Subs : Len(log[x]) \in Nat /\ taken[x] \in Nat
      BY <1>0
    <3>2. taken' = taken /\ Len(Append(log[s], e)) = Len(log[s]) + 1
      BY <1>0, <1>3, DeliveredAppend DEF Send
    <3>3. \A x \in Subs : Buffered(x)' = IF x = s THEN Buffered(x) + 1 ELSE Buffered(x)
      BY <1>0, <2>2, <3>1, <3>2 DEF Buffered
    <3>4. \A x \in Subs : Buffered(x) \in 0 .. Cap(x)
      BY <1>0 DEF BufferBounded
    <3>5. ASSUME NEW x \in Subs PROVE Buffered(x)' \in 0 .. Cap(x)
      <4>1. Buffered(x) \in 0 .. Cap(x) /\ Cap(x) \in Int
        BY <1>00, <3>4
      <4>2. CASE x = s
        BY <2>2, <3>3, <4>1, <4>2
      <4>3. CASE x # s
        BY <3>3, <4>1, <4>3
      <4> QED  BY <4>2, <4>3
    <3> QED  BY <1>00, <3>5 DEF BufferBounded
  <2> QED  BY <1>3, <2>1, <2>2 DEF Send
<1>4. ASSUME \/ \E s \in Subs : Subscribe(s)
             \/ \E k \in Closers : UnsubDelete(k) \/ UnsubSwap(k) \/ UnsubClose(k)
      PROVE  BufferBounded'
  BY <1>1, <1>4 DEF Subscribe, UnsubDelete, UnsubSwap, UnsubClose, chanVars
<1>5. ASSUME NEW e \in Events,
             \/ Publish(e)
             \/ Return(e)
             \/ \E s \in Subs : LoadClosed(e, s) \/ SendOnClosed(e, s)
      PROVE  BufferBounded'
  BY <1>1, <1>5 DEF Publish, Return, LoadClosed, SendOnClosed, chanVars
<1>6. CASE UNCHANGED vars
  BY <1>1, <1>6 DEF vars, chanVars
<1> QED
  BY <1>2, <1>3, <1>4, <1>5, <1>6 DEF Next, PublishStep

\* Type correctness is preserved without the rest of the invariant.
LEMMA TypeStep == TypeOK /\ [Next]_vars => TypeOK'
<1> SUFFICES ASSUME TypeOK, [Next]_vars PROVE TypeOK'
  OBVIOUS
<1>0. BufferBounded'
  BY BufferStep
<1> USE DEF subVars, chanVars, callVars
<1>1. ASSUME NEW s \in Subs, Subscribe(s) PROVE TypeOK'
  BY <1>0, <1>1 DEF Subscribe, TypeOK
<1>2. ASSUME NEW s \in Subs, Receive(s) PROVE TypeOK'
  <2>1. taken \in [Subs -> Nat]
    BY DEF TypeOK
  <2>2. taken' \in [Subs -> Nat]
    BY <1>2, <2>1 DEF Receive
  <2> QED  BY <1>0, <1>2, <2>2 DEF Receive, TypeOK
<1>3. ASSUME NEW k \in Closers, UnsubDelete(k) PROVE TypeOK'
  BY <1>0, <1>3 DEF UnsubDelete, TypeOK
<1>4. ASSUME NEW k \in Closers, UnsubSwap(k) PROVE TypeOK'
  BY <1>0, <1>4 DEF UnsubSwap, TypeOK
<1>5. ASSUME NEW k \in Closers, UnsubClose(k) PROVE TypeOK'
  BY <1>0, <1>5 DEF UnsubClose, TypeOK
<1>6. ASSUME NEW e \in Events, Publish(e) PROVE TypeOK'
  BY <1>0, <1>6 DEF Publish, TypeOK
<1>7. ASSUME NEW e \in Events, NEW s \in Subs, LoadClosed(e, s) PROVE TypeOK'
  <2>1. todo \in [Events -> SUBSET Subs] /\ open \in [Events -> SUBSET Subs]
    BY DEF TypeOK
  <2>2. todo' \in [Events -> SUBSET Subs] /\ open' \in [Events -> SUBSET Subs]
    BY <1>7, <2>1 DEF LoadClosed
  <2> QED  BY <1>0, <1>7, <2>2 DEF LoadClosed, TypeOK
<1>8. ASSUME NEW e \in Events, NEW s \in Subs, Send(e, s) PROVE TypeOK'
  <2>1. log \in [Subs -> Seq(Events)] /\ drops \in [Subs -> SUBSET Events]
    BY DEF TypeOK
  <2>2. log' \in [Subs -> Seq(Events)]
    <3>1. Append(log[s], e) \in Seq(Events)
      BY <2>1
    <3>2. log' = log \/ log' = [log EXCEPT ![s] = Append(log[s], e)]
      BY <1>8 DEF Send
    <3> QED  BY <2>1, <3>1, <3>2
  <2>3. drops' \in [Subs -> SUBSET Events]
    BY <1>8, <2>1 DEF Send
  <2> QED  BY <1>0, <1>8, <2>2, <2>3 DEF Send, TypeOK
<1>9. ASSUME NEW e \in Events, NEW s \in Subs, SendOnClosed(e, s) PROVE TypeOK'
  BY <1>0, <1>9 DEF SendOnClosed, TypeOK
<1>10. ASSUME NEW e \in Events, Return(e) PROVE TypeOK'
  BY <1>0, <1>10 DEF Return, TypeOK
<1>11. CASE UNCHANGED vars
  BY <1>0, <1>11 DEF vars, TypeOK
<1> QED
  BY <1>1, <1>2, <1>3, <1>4, <1>5, <1>6, <1>7, <1>8, <1>9, <1>10, <1>11
  DEF Next, PublishStep


\* A step of an unsub call, or Subscribe, leaves channels and calls alone.
LEMMA SubscriptionStep ==
  ASSUME IInv, TypeOK', UNCHANGED <<chanVars, callVars>>,
         \/ \E s \in Subs : Subscribe(s)
         \/ \E k \in Closers : UnsubDelete(k) \/ UnsubSwap(k) \/ UnsubClose(k)
  PROVE  IInv'
<1> USE DEF chanVars, callVars, subVars
<1>t. /\ unsub \in [Closers -> {"idle", "deleted", "swapped", "done"}]
      /\ closed \in [Subs -> BOOLEAN] /\ chClosed \in [Subs -> BOOLEAN]
      /\ Handle \in [Closers -> Subs]
  BY BusAssumption DEF IInv, TypeOK
<1>0. /\ unsub \in [Closers -> {"idle", "deleted", "swapped", "done"}]
      /\ closed \in [Subs -> BOOLEAN] /\ chClosed \in [Subs -> BOOLEAN]
      /\ Handle \in [Closers -> Subs]
      /\ UnsubInv
  BY <1>t DEF IInv
<1>1. CallInv'
  <2>1. made \subseteq made'
    BY DEF Subscribe, UnsubDelete, UnsubSwap, UnsubClose
  <2> QED  BY <2>1 DEF IInv, CallInv
<1>2. UnsubInv'
  <2> USE DEF UnsubInv, HandleInv, CloserInv, Listening
  <2>1. ASSUME NEW s \in Subs, Subscribe(s) PROVE UnsubInv'
    BY <1>0, <2>1 DEF Subscribe
  <2>2. ASSUME NEW k \in Closers, UnsubDelete(k) PROVE UnsubInv'
    BY <1>0, <2>2 DEF UnsubDelete
  <2>3. ASSUME NEW k \in Closers, UnsubSwap(k) PROVE UnsubInv'
    <3>1. \A s \in Subs : closed'[s] <=> closed[s] \/ s = Handle[k]
      BY <1>t, <2>3 DEF UnsubSwap
    <3>2. \A l \in Closers : l # k => unsub'[l] = unsub[l]
      BY <1>t, <2>3 DEF UnsubSwap
    <3>3. /\ unsub[k] = "deleted"
          /\ unsub'[k] = IF closed[Handle[k]] THEN "done" ELSE "swapped"
          /\ UNCHANGED <<made, subs, chClosed>>
      BY <1>t, <2>3 DEF UnsubSwap
    <3>4. \A s \in Subs : HandleInv(s)'
      BY <1>0, <3>1, <3>2, <3>3
    <3>5. \A l \in Closers : CloserInv(l)'
      <4>1. ~closed[Handle[k]] => \A l \in Closers : Handle[l] = Handle[k] => unsub[l] # "swapped"
        BY <1>0
      <4> QED  BY <1>0, <3>1, <3>2, <3>3, <4>1
    <3> QED  BY <3>4, <3>5
  <2>4. ASSUME NEW k \in Closers, UnsubClose(k) PROVE UnsubInv'
    <3>1. \A s \in Subs : chClosed'[s] <=> chClosed[s] \/ s = Handle[k]
      BY <1>t, <2>4 DEF UnsubClose
    <3>2. \A l \in Closers : l # k => unsub'[l] = unsub[l]
      BY <1>t, <2>4 DEF UnsubClose
    <3>3. /\ unsub[k] = "swapped" /\ unsub'[k] = "done"
          /\ UNCHANGED <<made, subs, closed>>
      BY <1>t, <2>4 DEF UnsubClose
    <3>4. \A s \in Subs : HandleInv(s)'
      BY <1>0, <3>1, <3>2, <3>3
    <3>5. \A l \in Closers : CloserInv(l)'
      BY <1>0, <3>1, <3>2, <3>3
    <3> QED  BY <3>4, <3>5
  <2> QED  BY <2>1, <2>2, <2>3, <2>4
<1>3. OfferInv' /\ HistoryInv' /\ PublishOrder'
  BY DEF IInv, OfferInv, HistoryInv, PublishOrder, Delivered, Over
<1>4. LossInv'
  <2>1. \A x \in Subs : Listening(x)' => Listening(x) \/ x \notin made
    <3>1. ASSUME NEW s \in Subs, Subscribe(s), NEW x \in Subs, Listening(x)'
          PROVE  Listening(x) \/ x \notin made
      BY <3>1 DEF Subscribe, Listening
    <3>2. ASSUME NEW k \in Closers, UnsubDelete(k) \/ UnsubSwap(k) \/ UnsubClose(k),
                 NEW x \in Subs, Listening(x)'
          PROVE  Listening(x)
      BY <1>0, <3>2 DEF UnsubDelete, UnsubSwap, UnsubClose, Listening
    <3> QED  BY <3>1, <3>2
  <2>2. \A e \in Events : \A x \in audience[e] : x \in made
    BY DEF IInv, CallInv
  <2>3. \A x \in Subs : Delivered(x)' = Delivered(x) /\ drops'[x] = drops[x]
    BY DEF Delivered
  <2>4. LossInv /\ pc' = pc /\ todo' = todo /\ audience' = audience
    BY DEF IInv
  <2>5. \A e \in Events : audience[e] \subseteq Subs
    BY DEF IInv, TypeOK
  <2> QED  BY <2>1, <2>2, <2>3, <2>4, <2>5 DEF LossInv
<1>5. ClosedOnce'
  <2>1. ASSUME NEW k \in Closers, UnsubClose(k) PROVE ClosedOnce'
    BY <1>0, <2>1 DEF UnsubClose, IInv, UnsubInv, CloserInv, ClosedOnce
  <2>2. CASE UNCHANGED panics
    BY <2>2 DEF IInv, ClosedOnce
  <2> QED  BY <2>1, <2>2 DEF Subscribe, UnsubDelete, UnsubSwap
<1> QED  BY <1>1, <1>2, <1>3, <1>4, <1>5 DEF IInv

\* Only events are delivered or dropped.
LEMMA OfferedAreEvents ==
  ASSUME TypeOK, NEW s \in Subs
  PROVE  Delivered(s) \cup drops[s] \subseteq Events
<1>1. log[s] \in Seq(Events) /\ drops[s] \subseteq Events
  BY DEF TypeOK
<1>2. \A i \in 1 .. Len(log[s]) : log[s][i] \in Events
  BY <1>1
<1> QED  BY <1>1, <1>2 DEF Delivered

\* Steps of a Publish call other than the send: they leave the channels alone.
LEMMA PublishBookkeeping ==
  ASSUME IInv, TypeOK', UNCHANGED <<subVars, chanVars>>, NEW e \in Events,
         \/ Publish(e)
         \/ Return(e)
         \/ \E s \in Subs : LoadClosed(e, s) \/ SendOnClosed(e, s)
  PROVE  IInv'
<1> USE DEF chanVars, subVars
<1>0. /\ pc \in [Events -> {"idle", "fanout", "returned", "panicked"}]
      /\ todo \in [Events -> SUBSET Subs]
      /\ open \in [Events -> SUBSET Subs]
      /\ audience \in [Events -> SUBSET Subs]
      /\ before \in [Events -> SUBSET Events]
      /\ subs \subseteq made /\ made \subseteq Subs
  BY DEF IInv, TypeOK
<1>1. \A s \in Subs : (Delivered(s) \cup drops[s])' = Delivered(s) \cup drops[s]
  BY DEF Delivered
<1>2. \A s \in Subs : Listening(s)' <=> Listening(s)
  BY DEF Listening
<1>3. UnsubInv' /\ ClosedOnce'
  <2>1. UnsubInv'
    BY DEF IInv, UnsubInv, HandleInv, CloserInv, Listening
  <2>2. panics' = panics \/ panics' = panics \cup {"send on closed channel"}
    BY DEF Publish, Return, LoadClosed, SendOnClosed
  <2> QED  BY <2>1, <2>2 DEF IInv, ClosedOnce
<1>4. \A s \in Subs : Listening(s) => s \in subs /\ ~closed[s]
  BY DEF IInv, UnsubInv, HandleInv, CloserInv, Listening
<1>5. CASE Publish(e)
  <2>1. /\ pc[e] = "idle" /\ pc' = [pc EXCEPT ![e] = "fanout"]
        /\ todo' = [todo EXCEPT ![e] = subs]
        /\ audience' = [audience EXCEPT ![e] = {s \in Subs : Listening(s)}]
        /\ before' = [before EXCEPT ![e] = {x \in Events : Over(x)}]
        /\ open' = open
    BY <1>5 DEF Publish
  <2>2. CallInv'
    BY <1>0, <2>1 DEF IInv, CallInv, Listening
  <2>3. \A s \in Subs : e \notin Delivered(s) \cup drops[s]
    BY <2>1 DEF IInv, OfferInv
  <2>4. OfferInv'
    BY <1>0, <1>1, <2>1, <2>3 DEF IInv, OfferInv
  <2>5. \A x \in Events : Over(x) => Over(x)' /\ x # e
    BY <1>0, <2>1 DEF Over
  <2>6. HistoryInv'
    BY <1>0, <2>1, <2>5 DEF IInv, HistoryInv
  <2>7. LossInv'
    BY <1>0, <1>1, <1>2, <1>4, <2>1 DEF IInv, LossInv
  <2>8. PublishOrder'
    <3>1. ASSUME NEW s \in Subs, NEW i \in 1 .. Len(log[s]) PROVE log[s][i] # e
      <4>1. log[s][i] \in Delivered(s)
        BY DEF Delivered
      <4> QED  BY <2>3, <4>1
    <3>2. \A x \in Events : x # e => before'[x] = before[x]
      BY <1>0, <2>1
    <3>3. ASSUME NEW s \in Subs, NEW i \in 1 .. Len(log[s]) PROVE log[s][i] \in Events
      <4>1. log[s] \in Seq(Events)
        BY DEF IInv, TypeOK
      <4> QED  BY <4>1
    <3>4. \A s \in Subs : \A i \in 1 .. Len(log[s]) :
            before'[log[s][i]] = before[log[s][i]]
      BY <3>1, <3>2, <3>3
    <3> QED  BY <3>4 DEF IInv, PublishOrder
  <2> QED  BY <1>3, <2>2, <2>4, <2>6, <2>7, <2>8 DEF IInv
<1>6. CASE ~Publish(e)
  <2>1. UNCHANGED <<audience, before>>
    BY <1>6 DEF Return, LoadClosed, SendOnClosed
  <2>2. \/ UNCHANGED pc
        \/ /\ pc[e] = "fanout"
           /\ \/ pc' = [pc EXCEPT ![e] = "returned"] /\ todo[e] = {} /\ todo' = todo
              \/ pc' = [pc EXCEPT ![e] = "panicked"]
    BY <1>0, <1>6 DEF Return, LoadClosed, SendOnClosed, IInv, CallInv
  <2>3. \/ UNCHANGED todo
        \/ \E s \in Subs : todo' = [todo EXCEPT ![e] = @ \ {s}] /\ closed[s]
    BY <1>6 DEF Return, LoadClosed, SendOnClosed
  <2>4. CallInv'
    <3>1. CASE Return(e)
      BY <1>0, <3>1 DEF Return, IInv, CallInv
    <3>2. ASSUME NEW s \in Subs, LoadClosed(e, s) PROVE CallInv'
      BY <1>0, <3>2 DEF LoadClosed, IInv, CallInv
    <3>3. ASSUME NEW s \in Subs, SendOnClosed(e, s) PROVE CallInv'
      BY <1>0, <3>3 DEF SendOnClosed, IInv, CallInv
    <3> QED  BY <1>6, <3>1, <3>2, <3>3
  <2>5. \A x \in Events : pc'[x] = "idle" <=> pc[x] = "idle"
    BY <1>0, <2>2
  <2>6. \A x \in Events : Over(x) => Over(x)'
    BY <1>0, <2>2 DEF Over
  <2>7. \A x \in Events : todo'[x] \subseteq todo[x]
    BY <1>0, <2>3
  <2>8. \A x \in Events : \A s \in todo[x] \ todo'[x] : closed[s]
    BY <1>0, <2>3
  <2>9. OfferInv'
    <3>1. \A s \in Subs : Delivered(s) \cup drops[s] \subseteq Events
      BY OfferedAreEvents DEF IInv
    <3> QED  BY <1>1, <2>5, <2>7, <3>1 DEF IInv, OfferInv
  <2>10. HistoryInv'
    BY <1>0, <2>1, <2>6 DEF IInv, HistoryInv
  <2>11. LossInv'
    BY <1>0, <1>1, <1>2, <1>4, <2>1, <2>5, <2>8 DEF IInv, LossInv
  <2>12. PublishOrder'
    BY <2>1 DEF IInv, PublishOrder
  <2> QED  BY <1>3, <2>4, <2>9, <2>10, <2>11, <2>12 DEF IInv
<1> QED  BY <1>5, <1>6


\* Sending to a channel, or dropping because it is full.
LEMMA SendStep ==
  ASSUME IInv, TypeOK', NEW e \in Events, NEW s \in Subs, Send(e, s)
  PROVE  IInv'
<1>0. /\ todo \in [Events -> SUBSET Subs]
      /\ open \in [Events -> SUBSET Subs]
      /\ log \in [Subs -> Seq(Events)]
      /\ drops \in [Subs -> SUBSET Events]
      /\ audience \in [Events -> SUBSET Subs]
  BY DEF IInv, TypeOK
<1>1. /\ s \in open[e]
      /\ todo' = [todo EXCEPT ![e] = @ \ {s}]
      /\ open' = [open EXCEPT ![e] = {}]
      /\ UNCHANGED <<made, subs, closed, chClosed, unsub>>
      /\ UNCHANGED <<pc, audience, before, panics>>
  BY DEF Send, subVars
<1>2. pc[e] = "fanout" /\ s \in todo[e]
  BY <1>1 DEF IInv, CallInv
<1>3. \A x \in Subs : Listening(x)' <=> Listening(x)
  BY <1>1 DEF Listening
<1>4. \A x \in Events : todo'[x] = IF x = e THEN todo[x] \ {s} ELSE todo[x]
  BY <1>0, <1>1
<1>5. e \notin Delivered(s) \cup drops[s]
  BY <1>2 DEF IInv, OfferInv
<1>6. \/ log' = [log EXCEPT ![s] = Append(log[s], e)] /\ drops' = drops
      \/ drops' = [drops EXCEPT ![s] = drops[s] \cup {e}] /\ log' = log
  BY DEF Send
<1>7. \A x \in Subs : x # s => log'[x] = log[x] /\ drops'[x] = drops[x]
  BY <1>0, <1>6
<1>8. /\ (Delivered(s) \cup drops[s])' = Delivered(s) \cup drops[s] \cup {e}
      /\ \A x \in Subs : x # s =>
           (Delivered(x) \cup drops[x])' = Delivered(x) \cup drops[x]
  <2>1. CASE log' = [log EXCEPT ![s] = Append(log[s], e)] /\ drops' = drops
    <3>1. log'[s] = Append(log[s], e) /\ log[s] \in Seq(Events)
      BY <1>0, <2>1
    <3>2. Delivered(s)' = Delivered(s) \cup {e}
      BY <3>1, DeliveredAppend DEF Delivered
    <3> QED  BY <1>7, <2>1, <3>2 DEF Delivered
  <2>2. CASE drops' = [drops EXCEPT ![s] = drops[s] \cup {e}] /\ log' = log
    BY <1>0, <1>7, <2>2 DEF Delivered
  <2> QED  BY <1>6, <2>1, <2>2
<1>9. CallInv'
  BY <1>0, <1>1, <1>4 DEF IInv, CallInv
<1>10. UnsubInv' /\ ClosedOnce'
  BY <1>1 DEF IInv, UnsubInv, HandleInv, CloserInv, Listening, ClosedOnce
<1>11. OfferInv'
  <2>1. ASSUME NEW x \in Subs, NEW y \in (Delivered(x) \cup drops[x])'
        PROVE  pc'[y] # "idle" /\ x \notin todo'[y]
    <3>1. y \in Events
      <4>1. y \in Delivered(x) \cup drops[x] \cup {e}
        BY <1>8
      <4> QED  BY <4>1, OfferedAreEvents DEF IInv
    <3>2. CASE x = s /\ y = e
      BY <1>0, <1>1, <1>2, <3>2
    <3>3. CASE y \in Delivered(x) \cup drops[x]
      BY <1>1, <1>4, <3>1, <3>3 DEF IInv, OfferInv
    <3> QED  BY <1>8, <2>1, <3>2, <3>3
  <2> QED  BY <2>1 DEF OfferInv
<1>12. HistoryInv'
  BY <1>1 DEF IInv, HistoryInv, Over
<1>13. LossInv'
  BY <1>0, <1>1, <1>3, <1>4, <1>8 DEF IInv, LossInv
<1>14. PublishOrder'
  <2>1. CASE log' = log
    BY <1>1, <2>1 DEF IInv, PublishOrder
  <2>2. CASE log' = [log EXCEPT ![s] = Append(log[s], e)]
    <3>1. /\ log[s] \in Seq(Events) /\ log'[s] = Append(log[s], e)
      BY <1>0, <2>2
    <3>2. /\ Len(log'[s]) = Len(log[s]) + 1
          /\ \A i \in 1 .. Len(log[s]) : log'[s][i] = log[s][i]
          /\ log'[s][Len(log[s]) + 1] = e
      BY <3>1, DeliveredAppend
    <3>3. ASSUME NEW i \in 1 .. Len(log[s])
          PROVE  log[s][i] # e /\ e \notin before[log[s][i]]
      <4>1. log[s][i] \in Delivered(s) /\ log[s][i] \in Events
        BY <3>1 DEF Delivered
      <4>2. ~Over(e)
        BY <1>2 DEF Over
      <4> QED  BY <1>5, <4>1, <4>2 DEF IInv, HistoryInv
    <3>4. ASSUME NEW x \in Subs, NEW i \in 1 .. Len(log'[x]), NEW j \in 1 .. Len(log'[x]), i < j
          PROVE  log'[x][i] # log'[x][j] /\ log'[x][j] \notin before'[log'[x][i]]
      <4>1. CASE x # s
        BY <1>1, <1>7, <3>4, <4>1 DEF IInv, PublishOrder
      <4>2. CASE x = s /\ j # Len(log[s]) + 1
        <5>1. Len(log[s]) \in Nat
          BY <3>1
        <5>2. i \in 1 .. Len(log[s]) /\ j \in 1 .. Len(log[s])
          BY <3>2, <3>4, <4>2, <5>1
        <5> QED  BY <1>1, <3>2, <3>4, <4>2, <5>2 DEF IInv, PublishOrder
      <4>3. CASE x = s /\ j = Len(log[s]) + 1
        <5>1. Len(log[s]) \in Nat
          BY <3>1
        <5>2. i \in 1 .. Len(log[s])
          BY <3>2, <3>4, <4>3, <5>1
        <5> QED  BY <1>1, <3>2, <3>3, <4>3, <5>2
      <4> QED  BY <4>1, <4>2, <4>3
    <3> QED  BY <3>4 DEF PublishOrder
  <2> QED  BY <1>6, <2>1, <2>2
<1> QED  BY <1>9, <1>10, <1>11, <1>12, <1>13, <1>14 DEF IInv


LEMMA NextIInv == IInv /\ [Next]_vars => IInv'
<1> SUFFICES ASSUME IInv, [Next]_vars PROVE IInv'
  OBVIOUS
<1>0. TypeOK'
  BY TypeStep DEF IInv
<1>1. ASSUME \/ \E s \in Subs : Subscribe(s)
             \/ \E k \in Closers : UnsubDelete(k) \/ UnsubSwap(k) \/ UnsubClose(k)
      PROVE  IInv'
  <2>1. UNCHANGED <<chanVars, callVars>>
    BY <1>1 DEF Subscribe, UnsubDelete, UnsubSwap, UnsubClose
  <2> QED  BY <1>0, <1>1, <2>1, SubscriptionStep
<1>2. ASSUME NEW e \in Events,
             \/ Publish(e)
             \/ Return(e)
             \/ \E s \in Subs : LoadClosed(e, s) \/ SendOnClosed(e, s)
      PROVE  IInv'
  <2>1. UNCHANGED <<subVars, chanVars>>
    BY <1>2 DEF Publish, Return, LoadClosed, SendOnClosed
  <2> QED  BY <1>0, <1>2, <2>1, PublishBookkeeping
<1>3. ASSUME NEW e \in Events, NEW s \in Subs, Send(e, s) PROVE IInv'
  BY <1>0, <1>3, SendStep
<1>4. CASE UNCHANGED <<subVars, callVars, log, drops, panics>>
  <2> USE <1>4 DEF subVars, callVars
  <2>1. CallInv' /\ HistoryInv'
    BY DEF IInv, CallInv, HistoryInv, Over
  <2>2. UnsubInv'
    BY DEF IInv, UnsubInv, HandleInv, CloserInv, Listening
  <2>3. OfferInv' /\ LossInv'
    <3>1. \A s \in Subs : (Delivered(s) \cup drops[s])' = Delivered(s) \cup drops[s]
      BY DEF Delivered
    <3>2. \A s \in Subs : Listening(s)' <=> Listening(s)
      BY DEF Listening
    <3>3. audience \in [Events -> SUBSET Subs]
      BY DEF IInv, TypeOK
    <3>4. OfferInv'
      BY <3>1 DEF IInv, OfferInv
    <3>5. LossInv'
      BY <3>1, <3>2, <3>3 DEF IInv, LossInv
    <3> QED  BY <3>4, <3>5
  <2>4. PublishOrder' /\ ClosedOnce'
    <3>1. PublishOrder /\ log' = log /\ before' = before
      BY DEF IInv
    <3>2. PublishOrder'
      BY <3>1 DEF PublishOrder
    <3> QED  BY <3>2 DEF IInv, ClosedOnce
  <2> QED  BY <1>0, <2>1, <2>2, <2>3, <2>4 DEF IInv
<1>5. ASSUME NEW s \in Subs, Receive(s) PROVE IInv'
  BY <1>4, <1>5 DEF Receive
<1>6. CASE UNCHANGED vars
  BY <1>4, <1>6 DEF vars, chanVars
<1> QED  BY <1>1, <1>2, <1>3, <1>5, <1>6 DEF Next, PublishStep

LEMMA Invariance == Spec => []IInv
BY InitIInv, NextIInv, PTL DEF Spec

-----------------------------------------------------------------------------

\* Every variable keeps its type, and no channel overflows its buffer.
THEOREM TypeCorrect == Spec => []TypeOK
BY Invariance, PTL DEF IInv

\* No channel is closed twice, however the calls of its unsub interleave.
THEOREM CloseOnce == Spec => []ClosedOnce
BY Invariance, PTL DEF IInv

\* Every subscriber receives events in publication order and at most once.
THEOREM OrderedDelivery == Spec => []PublishOrder
BY Invariance, PTL DEF IInv

\* A Publish call that returned has delivered its event to, or counted it as
\* dropped for, every subscriber that was listening from beginning to end.
THEOREM NothingLostSilently == Spec => []NoSilentLoss
<1>1. IInv => NoSilentLoss
  BY DEF IInv, CallInv, LossInv, NoSilentLoss
<1> QED  BY <1>1, Invariance, PTL


-----------------------------------------------------------------------------
(* The refinement.                                                         *)

LEMMA InitFanOut == Init => FanOut!Init
BY DEF Init, FanOut!Init

LEMMA StepFanOut == IInv /\ [Next]_vars => [FanOut!Next]_(FanOut!vars)
<1> SUFFICES ASSUME IInv, [Next]_vars PROVE FanOut!Next \/ UNCHANGED FanOut!vars
  OBVIOUS
<1> DEFINE phase == [s \in Subs |-> IF s \notin made THEN "absent"
                                   ELSE IF chClosed[s] THEN "closed" ELSE "open"]
<1>0. /\ log \in [Subs -> Seq(Events)]
      /\ taken \in [Subs -> Nat]
      /\ drops \in [Subs -> SUBSET Events]
      /\ chClosed \in [Subs -> BOOLEAN]
  BY DEF IInv, TypeOK
<1>1. CASE UNCHANGED <<made, chClosed, chanVars>>
  BY <1>1 DEF FanOut!vars, chanVars
<1>2. ASSUME NEW s \in Subs, Subscribe(s) PROVE FanOut!Next
  <2>1. ~chClosed[s]
    BY <1>2 DEF Subscribe, IInv, UnsubInv, HandleInv, CloserInv
  <2>2. FanOut!Open(s)
    BY <1>0, <1>2, <2>1 DEF Subscribe, FanOut!Open, chanVars
  <2> QED  BY <2>2 DEF FanOut!Next
<1>3. ASSUME NEW s \in Subs, Receive(s) PROVE FanOut!Next
  <2>1. FanOut!Take(s)
    BY <1>0, <1>3 DEF Receive, FanOut!Take, Buffered, subVars
  <2> QED  BY <2>1 DEF FanOut!Next
<1>4. ASSUME NEW k \in Closers, UnsubClose(k) PROVE FanOut!Next
  <2> DEFINE s == Handle[k]
  <2>0. s \in Subs
    BY BusAssumption
  <2>1. s \in made /\ ~chClosed[s]
    BY <1>4 DEF UnsubClose, IInv, UnsubInv, CloserInv
  <2>2. FanOut!Close(s)
    BY <1>0, <1>4, <2>0, <2>1 DEF UnsubClose, FanOut!Close, chanVars
  <2> QED  BY <2>0, <2>2 DEF FanOut!Next
<1>5. ASSUME NEW e \in Events, NEW s \in Subs, Send(e, s) PROVE FanOut!Next
  <2>1. s \in todo[e] /\ s \in made
    BY <1>5 DEF Send, IInv, CallInv
  <2>2. e \notin Delivered(s) \cup drops[s]
    BY <2>1 DEF IInv, OfferInv
  <2>3. phase[s] = "open" /\ phase' = phase
    BY <1>5, <2>1 DEF Send, subVars
  <2>4. FanOut!Fresh(s, e)
    BY <2>2 DEF FanOut!Fresh, Delivered
  <2>5. Cap(s) \in Int /\ Len(log[s]) \in Int /\ taken[s] \in Int
    BY <1>0, BusAssumption DEF Cap
  <2>6. CASE Buffered(s) < Cap(s)
    <3>1. ~FanOut!Full(s)
      BY <1>0, <2>6, <2>5 DEF Buffered, FanOut!Full
    <3>2. log' = [log EXCEPT ![s] = Append(@, e)] /\ UNCHANGED <<taken, drops>>
      BY <1>5, <2>6 DEF Send
    <3>3. FanOut!Accept(s, e)
      BY <2>3, <2>4, <3>1, <3>2 DEF FanOut!Accept
    <3> QED  BY <3>3 DEF FanOut!Next
  <2>7. CASE ~(Buffered(s) < Cap(s))
    <3>1. FanOut!Full(s)
      BY <1>0, <2>7, <2>5 DEF Buffered, FanOut!Full
    <3>2. drops' = [drops EXCEPT ![s] = @ \cup {e}] /\ UNCHANGED <<log, taken>>
      BY <1>5, <2>7 DEF Send
    <3>3. FanOut!Lose(s, e)
      BY <2>3, <2>4, <3>1, <3>2 DEF FanOut!Lose
    <3> QED  BY <3>3 DEF FanOut!Next
  <2> QED  BY <2>6, <2>7
<1>6. ASSUME NEW k \in Closers, UnsubDelete(k) \/ UnsubSwap(k)
      PROVE  UNCHANGED <<made, chClosed, chanVars>>
  BY <1>6 DEF UnsubDelete, UnsubSwap
<1>7. ASSUME NEW e \in Events,
             \/ Publish(e)
             \/ Return(e)
             \/ \E s \in Subs : LoadClosed(e, s) \/ SendOnClosed(e, s)
      PROVE  UNCHANGED <<made, chClosed, chanVars>>
  BY <1>7 DEF Publish, Return, LoadClosed, SendOnClosed, subVars
<1>8. CASE UNCHANGED vars
  BY <1>1, <1>8 DEF vars, subVars
<1> QED
  BY <1>1, <1>2, <1>3, <1>4, <1>5, <1>6, <1>7, <1>8 DEF Next, PublishStep

\* The bus implements the independent lossy channels of LossyFanOut.
THEOREM BusImplementsFanOut == Spec => ImplementsFanOut
BY InitFanOut, StepFanOut, Invariance, PTL DEF Spec, ImplementsFanOut, FanOut!Spec

-----------------------------------------------------------------------------
(* Calls go on, and panic only in a race with unsub.                       *)

LEMMA PublishFurther ==
  ASSUME IInv, NEW e \in Events, PublishStep(e)
  PROVE  /\ \A x \in Events : x # e => /\ todo'[x] = todo[x] /\ open'[x] = open[x]
                                       /\ pc'[x] = pc[x]
         /\ pc[e] = "fanout" /\ todo'[e] \subseteq todo[e]
         /\ \/ Over(e)'
            \/ todo'[e] # todo[e]
            \/ todo'[e] = todo[e] /\ open[e] = {} /\ open'[e] # {}
<1>1. TypeOK /\ CallInv  BY DEF IInv
<1>2. ASSUME NEW s \in Subs, LoadClosed(e, s)
      PROVE  /\ pc[e] = "fanout" /\ todo'[e] \subseteq todo[e]
             /\ todo'[e] # todo[e] \/ (todo'[e] = todo[e] /\ open[e] = {} /\ open'[e] # {})
  <2>1. /\ pc[e] = "fanout" /\ open[e] = {} /\ s \in todo[e]
        /\ todo \in [Events -> SUBSET Subs] /\ open \in [Events -> SUBSET Subs]
    BY <1>1, <1>2 DEF LoadClosed, TypeOK
  <2>2. CASE closed[s]
    <3>1. todo' = [todo EXCEPT ![e] = @ \ {s}]  BY <1>2, <2>2 DEF LoadClosed
    <3>2. todo'[e] = todo[e] \ {s}  BY <2>1, <3>1
    <3> QED  BY <2>1, <3>2
  <2>3. CASE ~closed[s]
    <3>1. todo' = todo /\ open' = [open EXCEPT ![e] = {s}]  BY <1>2, <2>3 DEF LoadClosed
    <3>2. open'[e] = {s}  BY <2>1, <3>1
    <3> QED  BY <2>1, <3>1, <3>2
  <2> QED  BY <2>2, <2>3
<1>3. ASSUME NEW s \in Subs, Send(e, s)
      PROVE  pc[e] = "fanout" /\ todo'[e] \subseteq todo[e] /\ todo'[e] # todo[e]
  <2>1. s \in todo[e] /\ pc[e] = "fanout"  BY <1>1, <1>3 DEF Send, CallInv
  <2>2. todo'[e] = todo[e] \ {s}  BY <1>1, <1>3 DEF Send, TypeOK
  <2> QED  BY <2>1, <2>2
<1>4. ASSUME NEW s \in Subs, SendOnClosed(e, s)
      PROVE  pc[e] = "fanout" /\ todo'[e] \subseteq todo[e] /\ Over(e)'
  <2>1. pc[e] = "fanout"  BY <1>1, <1>4 DEF SendOnClosed, CallInv
  <2> QED  BY <1>1, <1>4, <2>1 DEF SendOnClosed, TypeOK, Over
<1>5. ASSUME Return(e)  PROVE pc[e] = "fanout" /\ todo'[e] \subseteq todo[e] /\ Over(e)'
  BY <1>1, <1>5 DEF Return, TypeOK, Over
<1>6. \A x \in Events : x # e => todo'[x] = todo[x] /\ open'[x] = open[x] /\ pc'[x] = pc[x]
  BY <1>1 DEF PublishStep, LoadClosed, Send, SendOnClosed, Return, TypeOK
<1> QED  BY <1>2, <1>3, <1>4, <1>5, <1>6 DEF PublishStep

\* Publish calls go on and end, whatever subscribers and unsub calls do
\* (bus.go:68-86).
THEOREM PublishAlwaysGoesOn == Spec => PublishGoesOn
<1>1. IInv /\ [Next]_vars => [\A e \in Events : GoesOn(e)]_vars
  <2> SUFFICES ASSUME IInv, Next, NEW e \in Events  PROVE GoesOn(e)  OBVIOUS
  <2>1. TypeOK  BY DEF IInv
  <2>2. PublishStep(e) => GoesOn(e)
    BY PublishFurther DEF GoesOn, Over
  <2>3. ASSUME NEW x \in Events, PublishStep(x), ~PublishStep(e)  PROVE GoesOn(e)
    <3>1. e # x  BY <2>3
    <3> QED  BY <2>3, <3>1, PublishFurther DEF GoesOn
  <2>4. ASSUME NEW x \in Events, Publish(x), ~PublishStep(e)  PROVE GoesOn(e)
    BY <2>1, <2>4 DEF GoesOn, Publish, TypeOK, Over
  <2>5. ASSUME NEW s \in Subs, Subscribe(s) \/ Receive(s), ~PublishStep(e)  PROVE GoesOn(e)
    BY <2>5 DEF GoesOn, Subscribe, Receive, callVars
  <2>6. ASSUME NEW k \in Closers, UnsubDelete(k) \/ UnsubSwap(k) \/ UnsubClose(k), ~PublishStep(e)
        PROVE  GoesOn(e)
    BY <2>6 DEF GoesOn, UnsubDelete, UnsubSwap, UnsubClose, callVars
  <2> QED  BY <2>2, <2>3, <2>4, <2>5, <2>6 DEF Next
<1> QED  BY <1>1, Invariance, PTL DEF Spec, PublishGoesOn

\* Whom a Publish call has yet to visit was subscribed when it began.
RaceInv ==
  /\ \A s \in subs : Listening(s)
  /\ \A e \in Events : todo[e] \subseteq audience[e]
  /\ PanicNeedsUnsub

LEMMA RaceStep == IInv /\ RaceInv /\ [Next]_vars => RaceInv'
<1> SUFFICES ASSUME IInv, RaceInv, [Next]_vars  PROVE RaceInv'  OBVIOUS
<1>1. TypeOK /\ CallInv  BY DEF IInv
<1>2. ASSUME NEW e \in Events, Publish(e)  PROVE RaceInv'
  <2>1. /\ \A x \in Events : x # e => /\ todo'[x] = todo[x] /\ audience'[x] = audience[x]
                                      /\ pc'[x] = pc[x]
        /\ pc'[e] = "fanout" /\ todo'[e] = subs
        /\ audience'[e] = {s \in Subs : Listening(s)}
        /\ UNCHANGED <<made, subs, unsub, chClosed>>
    BY <1>1, <1>2 DEF Publish, TypeOK, subVars
  <2>2. subs \subseteq {s \in Subs : Listening(s)}  BY <1>1 DEF RaceInv, TypeOK
  <2> QED  BY <2>1, <2>2 DEF RaceInv, PanicNeedsUnsub, Listening
<1>3. ASSUME NEW e \in Events, PublishStep(e)  PROVE RaceInv'
  <2>1. UNCHANGED <<made, subs, unsub, chClosed, audience>>
    BY <1>3 DEF PublishStep, LoadClosed, Send, SendOnClosed, Return, subVars
  <2>2. \A x \in Events : todo'[x] \subseteq todo[x]  BY <1>3, PublishFurther
  <2>3. \A x \in Events : x # e => pc'[x] = pc[x]  BY <1>3, PublishFurther
  <2>4. pc'[e] = "panicked" => \E s \in audience[e] : chClosed[s]
    <3>1. ASSUME NEW s \in Subs, SendOnClosed(e, s)  PROVE s \in audience[e] /\ chClosed[s]
      BY <1>1, <3>1 DEF SendOnClosed, CallInv, RaceInv
    <3>2. pc[e] = "fanout"  BY <1>3, PublishFurther
    <3>3. ASSUME NEW s \in Subs, LoadClosed(e, s) \/ Send(e, s)  PROVE pc'[e] # "panicked"
      BY <3>2, <3>3 DEF LoadClosed, Send
    <3>4. Return(e) => pc'[e] # "panicked"  BY <1>1 DEF Return, TypeOK
    <3> QED  BY <1>3, <3>1, <3>3, <3>4 DEF PublishStep
  <2> QED  BY <2>1, <2>2, <2>3, <2>4 DEF RaceInv, PanicNeedsUnsub, Listening
<1>4. ASSUME NEW s \in Subs, Subscribe(s)  PROVE RaceInv'
  <2>1. /\ s \notin made /\ made' = made \cup {s} /\ subs' = subs \cup {s}
        /\ UNCHANGED <<unsub, chClosed, pc, todo, audience>>
    BY <1>4 DEF Subscribe, callVars
  <2>2. \A k \in Closers : Handle[k] = s => unsub[k] = "idle"
    BY <1>1, <2>1 DEF IInv, UnsubInv, CloserInv
  <2> QED  BY <2>1, <2>2 DEF RaceInv, PanicNeedsUnsub, Listening
<1>5. ASSUME NEW k \in Closers, UnsubDelete(k) \/ UnsubSwap(k) \/ UnsubClose(k)
      PROVE  RaceInv'
  <2>1. /\ UNCHANGED <<made, pc, todo, audience>>
        /\ \A s \in Subs : chClosed[s] => chClosed'[s]
        /\ \A l \in Closers : l # k => unsub'[l] = unsub[l]
    BY <1>1, <1>5 DEF UnsubDelete, UnsubSwap, UnsubClose, callVars, TypeOK
  <2>2. subs' \subseteq subs /\ Handle[k] \notin subs'
    <3>1. CASE UnsubDelete(k)  BY <3>1 DEF UnsubDelete
    <3>2. CASE UnsubSwap(k) \/ UnsubClose(k)
      <4>1. unsub[k] # "idle" /\ subs' = subs  BY <3>2 DEF UnsubSwap, UnsubClose
      <4> QED  BY <4>1 DEF RaceInv, Listening
    <3> QED  BY <1>5, <3>1, <3>2
  <2>3. \A s \in subs' : Listening(s)'
    <3> SUFFICES ASSUME NEW s \in subs'  PROVE Listening(s)'  OBVIOUS
    <3>1. Listening(s) /\ s # Handle[k]  BY <2>2 DEF RaceInv
    <3> QED  BY <2>1, <3>1 DEF Listening
  <2>4. PanicNeedsUnsub'
    BY <1>1, <2>1 DEF RaceInv, PanicNeedsUnsub, TypeOK
  <2> QED  BY <2>1, <2>3, <2>4 DEF RaceInv
<1>6. CASE (\E s \in Subs : Receive(s)) \/ UNCHANGED vars
  BY <1>6 DEF Receive, vars, subVars, callVars, RaceInv, PanicNeedsUnsub, Listening
<1> QED  BY <1>2, <1>3, <1>4, <1>5, <1>6 DEF Next

\* A Publish call nobody leaves does not panic (bus.go:53-61, 76-85).
THEOREM OnlyUnsubPanics == Spec => []PanicNeedsUnsub
<1>1. Init => RaceInv  BY DEF Init, RaceInv, PanicNeedsUnsub
<1>2. RaceInv => PanicNeedsUnsub  BY DEF RaceInv
<1> QED  BY <1>1, <1>2, RaceStep, Invariance, PTL DEF Spec

=============================================================================
