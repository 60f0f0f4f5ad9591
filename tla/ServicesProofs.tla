------------------------------ MODULE ServicesProofs ------------------------------
(***************************************************************************)
(* What TLAPS proves of Services, for any sessions, groups, chats and      *)
(* requests, and any number of faults; what it proves of the tasks is in   *)
(* TaskProofs.  Rows and sessions go together, which by itself is not      *)
(* inductive: a row about to be inserted has a session that nobody else    *)
(* inserts, and the session of a row about to be deleted has gone or is    *)
(* torn from it.  The code shown is the one asked for, because every poll  *)
(* that still counts asks for the instance being linked.  The tab shows    *)
(* the table, because a request that nothing disturbs brings or changes    *)
(* what the table has.  Chats light up for what is new, because nothing is *)
(* later than the clock, and a row on its way obeys what held when it was  *)
(* read.                                                                   *)
(***************************************************************************)
EXTENDS TaskProofs, FiniteSetTheorems

-----------------------------------------------------------------------------
(* Setup: rows and sessions go together.                                   *)

Flow == [by : {"none", "wizard", "window", "delete"},
         s : Sessions \union {NoSession},
         at : {"idle", "post", "insert", "reload", "auth", "wait", "unlink", "unrow"}]

\* The types that the proof needs.
RowTypes ==
  /\ session \in [Sessions -> {"none", "new", "waiting_qr", "connected",
                               "disconnected", "removed"}]
  /\ flows \in [Flows -> Flow]
  /\ rows \subseteq Sessions

\* A row has had a session; a row about to be inserted has its session, nobody
\* else's row, and nobody else inserts it; the session of a row about to be
\* deleted has gone.
InsertOf(f) ==
  flows[f].at = "insert" =>
    /\ flows[f].s \in Link!Here /\ flows[f].s \notin rows
    /\ \A g \in Flows : flows[g].at = "insert" /\ flows[g].s = flows[f].s => g = f

UnrowOf(f) ==
  flows[f].at = "unrow" =>
    /\ flows[f].s \in Sessions /\ session[flows[f].s] # "none"
    /\ flows[f].s \notin torn => flows[f].s \notin Link!Here

RowInv ==
  /\ RowTypes
  /\ \A s \in rows : session[s] # "none"
  /\ \A f \in Flows : InsertOf(f) /\ UnrowOf(f)
  /\ Link!RowsMatchSessions

\* A step that leaves rows and what is here alone, and moves a flow to no other
\* insert or delete.
LEMMA SameRows ==
  ASSUME RowInv, RowTypes', rows' = rows, torn' = torn,
         \A s \in Sessions : /\ session'[s] = "none" <=> session[s] = "none"
                             /\ s \in Link!Here' <=> s \in Link!Here,
         \A f \in Flows : \/ flows'[f] = flows[f]
                          \/ flows[f].at \notin {"insert", "unrow"}
                             /\ flows'[f].at \notin {"insert", "unrow"}
  PROVE  RowInv'
<1>1. \A s \in rows' : session'[s] # "none"  BY DEF RowInv, RowTypes
<1>2. \A f \in Flows : InsertOf(f)'
  BY DEF RowInv, InsertOf, Link!Here
<1>3. \A f \in Flows : UnrowOf(f)'  BY DEF RowInv, UnrowOf
<1>4. Link!RowsMatchSessions'  BY DEF RowInv, Link!RowsMatchSessions
<1> QED  BY <1>1, <1>2, <1>3, <1>4 DEF RowInv

LEMMA IdleIsFlow == Link!Idle \in Flow
BY DEF Link!Idle, Flow

\* A flow that goes on, or ends, in no insert or delete.
LEMMA MoveRows ==
  ASSUME RowInv, NEW f \in Flows, NEW new \in Flow,
         flows' = [flows EXCEPT ![f] = new],
         flows[f].at \notin {"insert", "unrow"}, new.at \notin {"insert", "unrow"},
         UNCHANGED <<session, rows, torn>>
  PROVE  RowInv'
<1>1. RowTypes'  BY DEF RowInv, RowTypes
<1>2. \A g \in Flows : \/ flows'[g] = flows[g]
                       \/ flows[g].at \notin {"insert", "unrow"}
                          /\ flows'[g].at \notin {"insert", "unrow"}
  BY DEF RowInv, RowTypes
<1>3. \A s \in Sessions : /\ session'[s] = "none" <=> session[s] = "none"
                          /\ s \in Link!Here' <=> s \in Link!Here
  BY DEF Link!Here
<1> QED  BY <1>1, <1>2, <1>3, SameRows

\* A step of the window alone.
LEMMA StillRows ==
  ASSUME RowInv, UNCHANGED <<session, rows, flows, torn>>
  PROVE  RowInv'
BY DEF RowInv, RowTypes, InsertOf, UnrowOf, Link!RowsMatchSessions, Link!Here

LEMMA EndRows ==
  ASSUME RowInv, NEW f \in Flows, Link!Finished(f), flows[f].at \notin {"insert", "unrow"},
         UNCHANGED <<session, rows, torn>>
  PROVE  RowInv'
<1>1. Link!Idle.at \notin {"insert", "unrow"}  BY DEF Link!Idle
<1> QED  BY <1>1, IdleIsFlow, MoveRows DEF Link!Finished

LEMMA GotoRows ==
  ASSUME RowInv, NEW f \in Flows, NEW at \in {"reload", "auth", "wait"}, Link!Goto(f, at),
         flows[f].at \notin {"insert", "unrow"}, UNCHANGED <<session, rows, torn>>
  PROVE  RowInv'
<1> DEFINE new == [flows[f] EXCEPT !.at = at]
<1>1. flows[f] \in Flow  BY DEF RowInv, RowTypes
<1>2. new \in Flow /\ new.at = at  BY <1>1 DEF Flow
<1>3. flows' = [flows EXCEPT ![f] = new]  BY DEF Link!Goto
<1> HIDE DEF new
<1> QED  BY <1>2, <1>3, MoveRows

\* The clicks.
LEMMA ClickRows ==
  ASSUME RowInv, NEW f \in Flows, Link!Click(f)
  PROVE  RowInv'
<1>1. ASSUME NEW by \in {"wizard", "window", "delete"},
             NEW s \in Sessions \union {NoSession}, NEW at \in {"post", "auth", "unlink"},
             Link!Begin(f, by, s, at), UNCHANGED <<session, rows, torn>>
      PROVE  RowInv'
  <2> DEFINE new == [by |-> by, s |-> s, at |-> at]
  <2>1. new \in Flow /\ new.at = at  BY DEF Flow
  <2>2. flows[f].at = "idle"  BY <1>1 DEF Link!Begin, Link!Idle
  <2>3. flows' = [flows EXCEPT ![f] = new]  BY <1>1 DEF Link!Begin
  <2> HIDE DEF new
  <2> QED  BY <1>1, <2>1, <2>2, <2>3, MoveRows
<1>2. CASE Link!ClickCreate(f)
  <2>1. UNCHANGED <<session, rows, torn>>  BY <1>2 DEF Link!ClickCreate, Link!go
  <2>2. Link!Begin(f, "wizard", NoSession, "post") \/ Link!Begin(f, "window", NoSession, "post")
    BY <1>2 DEF Link!ClickCreate
  <2> QED  BY <1>1, <2>1, <2>2
<1>3. ASSUME NEW s \in Sessions, Link!ClickReconnect(f, s)  PROVE RowInv'
  BY <1>1, <1>3 DEF Link!ClickReconnect, Link!go
<1>4. ASSUME NEW s \in Sessions, Link!ClickDelete(f, s)  PROVE RowInv'
  BY <1>1, <1>4 DEF Link!ClickDelete, Link!go
<1> QED  BY <1>2, <1>3, <1>4 DEF Link!Click

\* What happens to a session that stays.
LEMMA SessionRows ==
  ASSUME RowInv, NEW s \in Sessions, Link!Connect(s) \/ Link!Expire(s) \/ Link!Scan(s)
  PROVE  RowInv'
<1>1. UNCHANGED <<rows, flows, torn>>  BY DEF Link!Connect, Link!Expire, Link!Scan
<1>2. \/ session' = session
      \/ s \in Link!Here /\ \E x \in {"connected", "waiting_qr", "disconnected"} :
                         session' = [session EXCEPT ![s] = x]
  <2>1. CASE Link!Connect(s)  BY <2>1 DEF Link!Connect
  <2>2. CASE Link!Expire(s)   BY <2>2 DEF Link!Expire, Link!Here
  <2>3. CASE Link!Scan(s)     BY <2>3 DEF Link!Scan, Link!Here
  <2> QED  BY <2>1, <2>2, <2>3
<1>3. CASE session' = session  BY <1>1, <1>3, StillRows
<1>4. CASE s \in Link!Here /\ \E x \in {"connected", "waiting_qr", "disconnected"} :
                           session' = [session EXCEPT ![s] = x]
  <2>1. RowTypes'  BY <1>1, <1>4 DEF RowInv, RowTypes
  <2>2. \A t \in Sessions : /\ session'[t] = "none" <=> session[t] = "none"
                            /\ t \in Link!Here' <=> t \in Link!Here
    BY <1>4 DEF RowInv, RowTypes, Link!Here
  <2> QED  BY <1>1, <2>1, <2>2, SameRows
<1> QED  BY <1>2, <1>3, <1>4

\* A session that is made though the answer is lost has no row, and no flow that
\* will insert one or deletes it.
LEMMA TearRows ==
  ASSUME RowInv, NEW f \in Flows, NEW s \in Sessions, session[s] = "none",
         session' = [session EXCEPT ![s] = "new"], torn' = torn \union {s},
         Link!Finished(f), flows[f].at = "post", rows' = rows
  PROVE  RowInv'
<1>1. session'[s] = "new" /\ \A t \in Sessions : t # s => session'[t] = session[t]
  BY DEF RowInv, RowTypes
<1>2. s \notin Link!Here /\ \A t \in Sessions : t # s => (t \in Link!Here' <=> t \in Link!Here)
  BY <1>1 DEF Link!Here
<1>3. /\ flows' \in [Flows -> Flow] /\ flows'[f].at = "idle"
      /\ \A g \in Flows : g # f => flows'[g] = flows[g]
  BY IdleIsFlow DEF Link!Finished, Link!Idle, RowInv, RowTypes
<1>4. RowTypes'  BY <1>3 DEF RowInv, RowTypes
<1>5. \A t \in rows' : session'[t] # "none"  BY <1>1 DEF RowInv, RowTypes
<1>6. \A g \in Flows : flows'[g].at \in {"insert", "unrow"} => g # f /\ flows'[g] = flows[g]
  BY <1>3
<1>7. \A g \in Flows : InsertOf(g)'
  <2> SUFFICES ASSUME NEW g \in Flows, flows'[g].at = "insert"
               PROVE  InsertOf(g)'
    BY DEF InsertOf
  <2>1. /\ flows[g].s \in Link!Here /\ flows[g].s \notin rows
        /\ \A h \in Flows : flows[h].at = "insert" /\ flows[h].s = flows[g].s => h = g
    BY <1>6 DEF RowInv, InsertOf
  <2>2. flows[g].s \in Link!Here'  BY <1>2, <2>1 DEF Link!Here
  <2> QED  BY <1>6, <2>1, <2>2 DEF InsertOf
<1>8. \A g \in Flows : UnrowOf(g)'
  <2> SUFFICES ASSUME NEW g \in Flows, flows'[g].at = "unrow"
               PROVE  UnrowOf(g)'
    BY DEF UnrowOf
  <2>1. /\ flows[g].s \in Sessions /\ session[flows[g].s] # "none"
        /\ flows[g].s \notin torn => flows[g].s \notin Link!Here
    BY <1>6 DEF RowInv, UnrowOf
  <2>2. flows[g].s # s  BY <2>1
  <2> QED  BY <1>1, <1>2, <1>6, <2>1, <2>2 DEF UnrowOf
<1>9. Link!RowsMatchSessions'
  <2> SUFFICES ASSUME NEW t \in Sessions, t # s, t \notin torn
               PROVE  \/ t \in rows <=> t \in Link!Here'
                      \/ \E g \in Flows : flows'[g].s = t /\ flows'[g].at \in {"insert", "unrow"}
    BY DEF Link!RowsMatchSessions
  <2>1. CASE t \in rows <=> t \in Link!Here  BY <1>2, <2>1
  <2>2. ASSUME NEW g \in Flows, flows[g].s = t, flows[g].at \in {"insert", "unrow"}
        PROVE  flows'[g].s = t /\ flows'[g].at \in {"insert", "unrow"}
    BY <1>3, <2>2
  <2> QED  BY <2>1, <2>2 DEF RowInv, Link!RowsMatchSessions
<1> QED  BY <1>4, <1>5, <1>7, <1>8, <1>9 DEF RowInv

LEMMA CreateRows ==
  ASSUME RowInv, NEW f \in Flows, Link!CreateSession(f)
  PROVE  RowInv'
<1>1. rows' = rows /\ flows[f].at = "post"  BY DEF Link!CreateSession, Link!At
<1>2. CASE Link!Failed(f) /\ UNCHANGED <<session, torn>>
  BY <1>1, <1>2, EndRows DEF Link!Failed
<1>3. ASSUME NEW s \in Sessions, session[s] = "none",
             session' = [session EXCEPT ![s] = "new"], UNCHANGED torn,
             flows' = [flows EXCEPT ![f].s = s, ![f].at = "insert"]
      PROVE  RowInv'
  <2>1. /\ flows'[f] \in Flow /\ flows'[f].s = s /\ flows'[f].at = "insert"
        /\ flows' \in [Flows -> Flow]
        /\ \A g \in Flows : g # f => flows'[g] = flows[g]
    BY <1>3 DEF RowInv, RowTypes, Flow
  <2>2. session'[s] = "new" /\ \A t \in Sessions : t # s => session'[t] = session[t]
    BY <1>3 DEF RowInv, RowTypes
  <2>3. RowTypes'  BY <1>1, <1>3, <2>1 DEF RowInv, RowTypes
  <2>4. s \in Link!Here' /\ s \notin Link!Here /\ \A t \in Sessions : t # s => (t \in Link!Here' <=> t \in Link!Here)
    BY <1>3, <2>2 DEF Link!Here
  <2>5. s \notin rows  BY <1>3 DEF RowInv
  <2>6. \A t \in rows' : session'[t] # "none"
    BY <1>1, <2>2 DEF RowInv, RowTypes
  <2>7. \A g \in Flows : InsertOf(g)'
    <3> SUFFICES ASSUME NEW g \in Flows  PROVE InsertOf(g)'  OBVIOUS
    <3>1. CASE g = f
      <4>1. \A h \in Flows : h # f /\ flows[h].at = "insert" => flows[h].s # s
        BY <2>4 DEF RowInv, InsertOf
      <4> QED  BY <1>1, <2>1, <2>4, <2>5, <3>1, <4>1 DEF InsertOf
    <3>2. CASE g # f
      <4>1. flows[g].at = "insert" => flows[g].s \in Link!Here /\ flows[g].s # s
        BY <2>4 DEF RowInv, InsertOf
      <4>2. flows[g].at = "insert" => flows[g].s \in Sessions  BY <4>1 DEF Link!Here
      <4> QED  BY <1>1, <2>1, <2>4, <3>2, <4>1, <4>2 DEF RowInv, InsertOf
    <3> QED  BY <3>1, <3>2
  <2>8. \A g \in Flows : UnrowOf(g)'
    <3> SUFFICES ASSUME NEW g \in Flows, flows'[g].at = "unrow"
                 PROVE  UnrowOf(g)'
      BY DEF UnrowOf
    <3>1. g # f /\ flows'[g] = flows[g]  BY <2>1
    <3>2. /\ flows[g].s \in Sessions /\ session[flows[g].s] # "none"
          /\ flows[g].s \notin torn => flows[g].s \notin Link!Here
      BY <3>1 DEF RowInv, UnrowOf
    <3>3. flows[g].s # s  BY <1>3, <3>2
    <3>4. session'[flows[g].s] = session[flows[g].s]
      BY <2>2, <3>2, <3>3
    <3>5. flows[g].s \in Link!Here' <=> flows[g].s \in Link!Here
      BY <2>4, <3>2, <3>3
    <3> QED  BY <1>3, <3>1, <3>2, <3>4, <3>5 DEF UnrowOf
  <2>9. Link!RowsMatchSessions'
    <3> SUFFICES ASSUME NEW t \in Sessions, t \notin torn
                 PROVE  \/ t \in rows' <=> t \in Link!Here'
                        \/ \E g \in Flows : flows'[g].s = t /\ flows'[g].at \in {"insert", "unrow"}
      BY <1>3 DEF Link!RowsMatchSessions
    <3>1. CASE t = s  BY <2>1, <3>1
    <3>2. CASE t # s
      <4>1. t \in rows' <=> t \in rows  BY <1>1
      <4>2. t \in Link!Here' <=> t \in Link!Here  BY <2>4, <3>2
      <4>3. CASE t \in rows <=> t \in Link!Here  BY <4>1, <4>2, <4>3
      <4>4. ASSUME NEW g \in Flows, flows[g].s = t, flows[g].at \in {"insert", "unrow"}
            PROVE  flows'[g].s = t /\ flows'[g].at \in {"insert", "unrow"}
        BY <1>1, <2>1, <4>4
      <4> QED  BY <4>3, <4>4 DEF RowInv, Link!RowsMatchSessions
    <3> QED  BY <3>1, <3>2
  <2> QED  BY <2>3, <2>6, <2>7, <2>8, <2>9 DEF RowInv
<1>4. ASSUME NEW s \in Sessions, session[s] = "none",
             session' = [session EXCEPT ![s] = "new"], torn' = torn \union {s},
             Link!Failed(f)
      PROVE  RowInv'
  BY <1>1, <1>4, TearRows DEF Link!Failed
<1> QED  BY <1>1, <1>2, <1>3, <1>4 DEF Link!CreateSession

\* What a flow that leaves an insert or a delete becomes.
LEMMA LeftFlow ==
  ASSUME RowTypes, NEW f \in Flows,
         Link!Finished(f) \/ Link!Goto(f, "auth") \/ Link!Goto(f, "reload")
  PROVE  /\ flows' \in [Flows -> Flow]
         /\ flows'[f].at \notin {"insert", "unrow"}
         /\ \A g \in Flows : g # f => flows'[g] = flows[g]
<1>1. flows[f] \in Flow  BY DEF RowTypes
<1>2. CASE Link!Finished(f)
  <2>1. Link!Idle \in Flow /\ Link!Idle.at = "idle"  BY IdleIsFlow DEF Link!Idle
  <2> QED  BY <1>2, <2>1 DEF Link!Finished, RowTypes
<1>3. ASSUME NEW at \in {"auth", "reload"}, Link!Goto(f, at)
      PROVE  /\ flows' \in [Flows -> Flow]
             /\ flows'[f].at = at
             /\ \A g \in Flows : g # f => flows'[g] = flows[g]
  <2>1. [flows[f] EXCEPT !.at = at] \in Flow /\ [flows[f] EXCEPT !.at = at].at = at
    BY <1>1 DEF Flow
  <2> QED  BY <1>3, <2>1 DEF Link!Goto, RowTypes
<1> QED  BY <1>2, <1>3

\* A flow leaves its insert or delete, after which its session is in order or torn;
\* of the others nothing changes.
LEMMA LeaveRows ==
  ASSUME RowInv, NEW f \in Flows, NEW s \in Sessions, flows[f].s = s,
         Link!Finished(f) \/ Link!Goto(f, "auth") \/ Link!Goto(f, "reload"),
         session' = session, torn \subseteq torn', torn' \subseteq torn \union {s},
         rows' \subseteq rows \union {s}, rows \subseteq rows' \union {s},
         s \in rows' => session[s] # "none",
         s \in rows' => s \in rows \/ \A g \in Flows : g # f /\ flows[g].at = "insert" => flows[g].s # s,
         s \notin torn' => (s \in rows' <=> s \in Link!Here)
  PROVE  RowInv'
<1>1. /\ flows' \in [Flows -> Flow]
      /\ flows'[f].at \notin {"insert", "unrow"}
      /\ \A g \in Flows : g # f => flows'[g] = flows[g]
  BY LeftFlow DEF RowInv
<1>2. Link!Here' = Link!Here  BY DEF Link!Here
<1>3. RowTypes'  BY <1>1 DEF RowInv, RowTypes
<1>4. \A t \in rows' : session'[t] # "none"  BY DEF RowInv
<1>5. \A g \in Flows : InsertOf(g)'
  <2> SUFFICES ASSUME NEW g \in Flows, flows'[g].at = "insert"
               PROVE  InsertOf(g)'
    BY DEF InsertOf
  <2>1. g # f /\ flows'[g] = flows[g]  BY <1>1
  <2>2. /\ flows[g].s \in Link!Here /\ flows[g].s \notin rows
        /\ \A h \in Flows : flows[h].at = "insert" /\ flows[h].s = flows[g].s => h = g
    BY <2>1 DEF RowInv, InsertOf
  <2>3. flows[g].s \notin rows'  BY <2>1, <2>2
  <2>4. \A h \in Flows : flows'[h].at = "insert" /\ flows'[h].s = flows[g].s => h = g
    BY <1>1, <2>2
  <2> QED  BY <1>2, <2>1, <2>2, <2>3, <2>4 DEF InsertOf
<1>6. \A g \in Flows : UnrowOf(g)'
  BY <1>1, <1>2 DEF RowInv, UnrowOf
<1>7. Link!RowsMatchSessions'
  <2> SUFFICES ASSUME NEW t \in Sessions, t \notin torn'
               PROVE  \/ t \in rows' <=> t \in Link!Here
                      \/ \E g \in Flows : flows'[g].s = t /\ flows'[g].at \in {"insert", "unrow"}
    BY <1>2 DEF Link!RowsMatchSessions
  <2>1. CASE t = s  BY <2>1
  <2>2. CASE t # s
    <3>1. t \notin torn /\ (t \in rows' <=> t \in rows)  BY <2>2
    <3>2. CASE t \in rows <=> t \in Link!Here  BY <3>1, <3>2
    <3>3. ASSUME NEW g \in Flows, flows[g].s = t, flows[g].at \in {"insert", "unrow"}
          PROVE  flows'[g].s = t /\ flows'[g].at \in {"insert", "unrow"}
      BY <1>1, <2>2, <3>3
    <3> QED  BY <3>1, <3>2, <3>3 DEF RowInv, Link!RowsMatchSessions
  <2> QED  BY <2>1, <2>2
<1> QED  BY <1>3, <1>4, <1>5, <1>6, <1>7 DEF RowInv

LEMMA InsertRows ==
  ASSUME RowInv, NEW f \in Flows, Link!InsertRow(f)
  PROVE  RowInv'
<1> DEFINE s == flows[f].s
<1>1. flows[f].at = "insert" /\ session' = session  BY DEF Link!InsertRow, Link!At, Link!go
<1>2. /\ s \in Sessions /\ s \in Link!Here /\ session[s] # "none"
      /\ \A g \in Flows : g # f /\ flows[g].at = "insert" => flows[g].s # s
  BY <1>1 DEF RowInv, InsertOf, Link!Here
<1>3. CASE rows' = rows \union {s} /\ UNCHANGED torn
           /\ Link!Goto(f, IF flows[f].by = "wizard" THEN "auth" ELSE "reload")
  <2>1. Link!Goto(f, "auth") \/ Link!Goto(f, "reload")  BY <1>3
  <2> HIDE DEF s
  <2> QED  BY <1>1, <1>2, <1>3, <2>1, LeaveRows DEF s
<1>4. CASE torn' = torn \union {s} /\ Link!Failed(f) /\ UNCHANGED rows
  <2>1. Link!Finished(f)  BY <1>4 DEF Link!Failed
  <2> HIDE DEF s
  <2> QED  BY <1>1, <1>2, <1>4, <2>1, LeaveRows DEF s
<1>5. CASE rows' = rows \union {s} /\ Link!Failed(f) /\ UNCHANGED torn
  <2>1. Link!Finished(f)  BY <1>5 DEF Link!Failed
  <2> HIDE DEF s
  <2> QED  BY <1>1, <1>2, <1>5, <2>1, LeaveRows DEF s
<1> QED  BY <1>3, <1>4, <1>5 DEF Link!InsertRow

LEMMA DeleteRows ==
  ASSUME RowInv, NEW f \in Flows, Link!DeleteRow(f)
  PROVE  RowInv'
<1> DEFINE s == flows[f].s
<1>1. flows[f].at = "unrow" /\ session' = session  BY DEF Link!DeleteRow, Link!At, Link!go
<1>2. /\ s \in Sessions /\ session[s] # "none"
      /\ s \notin torn => s \notin Link!Here
  BY <1>1 DEF RowInv, UnrowOf
<1>3. CASE rows' = rows \ {s} /\ Link!Goto(f, "reload") /\ UNCHANGED torn
  <2> HIDE DEF s
  <2> QED  BY <1>1, <1>2, <1>3, LeaveRows DEF s
<1>4. CASE torn' = torn \union {s} /\ Link!Finished(f) /\ UNCHANGED rows
  <2>1. s \in rows' => session[s] # "none"  BY <1>2
  <2> HIDE DEF s
  <2> QED  BY <1>1, <1>2, <1>4, <2>1, LeaveRows DEF s
<1>5. CASE rows' = rows \ {s} /\ Link!Finished(f) /\ UNCHANGED torn
  <2> HIDE DEF s
  <2> QED  BY <1>1, <1>2, <1>5, LeaveRows DEF s
<1> QED  BY <1>3, <1>4, <1>5 DEF Link!DeleteRow

\* The session goes first, or is torn from its row.
LEMMA UnlinkRows ==
  ASSUME RowInv, NEW f \in Flows, Link!Unlink(f)
  PROVE  RowInv'
<1> DEFINE s == flows[f].s
<1>1. flows[f].at = "unlink" /\ rows' = rows  BY DEF Link!Unlink, Link!At
<1>2. CASE s \notin rows
  BY <1>1, <1>2, EndRows DEF Link!Unlink
<1>3. CASE s \in rows
  <2>1. s \in Sessions /\ session[s] # "none" /\ Link!Goto(f, "unrow")
    BY <1>3 DEF RowInv, RowTypes, Link!Unlink
  <2>2. \/ session' = [session EXCEPT ![s] = "removed"] /\ torn' = torn
        \/ session' = session /\ torn' = torn \union {s}
    BY <1>3 DEF Link!Unlink
  <2> HIDE DEF s
  <2>3. /\ flows' \in [Flows -> Flow]
        /\ flows'[f].s = s /\ flows'[f].at = "unrow"
        /\ \A g \in Flows : g # f => flows'[g] = flows[g]
    <3>1. flows[f] \in Flow /\ flows[f].s = s  BY DEF RowInv, RowTypes, s
    <3>2. [flows[f] EXCEPT !.at = "unrow"] \in Flow  BY <3>1 DEF Flow
    <3>3. /\ [flows[f] EXCEPT !.at = "unrow"].at = "unrow"
          /\ [flows[f] EXCEPT !.at = "unrow"].s = s
      BY <3>1 DEF Flow
    <3> QED  BY <2>1, <3>2, <3>3 DEF Link!Goto, RowInv, RowTypes
  <2>4. session' \in [Sessions -> {"none", "new", "waiting_qr", "connected",
                                   "disconnected", "removed"}]
    BY <2>2 DEF RowInv, RowTypes
  <2>5. RowTypes'  BY <1>1, <2>3, <2>4 DEF RowInv, RowTypes
  <2>6. \A t \in Sessions : t # s => session'[t] = session[t]
    BY <2>2 DEF RowInv, RowTypes
  <2>7. session'[s] # "none" /\ (s \notin torn' => s \notin Link!Here') /\ torn \subseteq torn'
        /\ torn' \subseteq torn \union {s}
    BY <2>1, <2>2 DEF RowInv, RowTypes, Link!Here
  <2>8. \A t \in Sessions : t # s => (t \in Link!Here' <=> t \in Link!Here)
    BY <2>6 DEF Link!Here
  <2>9. \A t \in rows' : session'[t] # "none"
    BY <1>1, <2>6, <2>7 DEF RowInv, RowTypes
  <2>10. \A g \in Flows : InsertOf(g)'
    <3> SUFFICES ASSUME NEW g \in Flows, flows'[g].at = "insert"
                 PROVE  InsertOf(g)'
      BY DEF InsertOf
    <3>1. g # f /\ flows'[g] = flows[g]  BY <2>3
    <3>2. /\ flows[g].s \in Link!Here /\ flows[g].s \notin rows
          /\ \A h \in Flows : flows[h].at = "insert" /\ flows[h].s = flows[g].s => h = g
      BY <3>1 DEF RowInv, InsertOf
    <3>3. flows[g].s # s /\ flows[g].s \in Sessions  BY <1>3, <3>2 DEF Link!Here
    <3>4. flows[g].s \in Link!Here'  BY <2>8, <3>2, <3>3
    <3>5. \A h \in Flows : flows'[h].at = "insert" /\ flows'[h].s = flows[g].s => h = g
      BY <2>3, <3>2
    <3> QED  BY <1>1, <3>1, <3>2, <3>4, <3>5 DEF InsertOf
  <2>11. \A g \in Flows : UnrowOf(g)'
    <3> SUFFICES ASSUME NEW g \in Flows, flows'[g].at = "unrow", g # f
                 PROVE  UnrowOf(g)'
      BY <2>1, <2>3, <2>7 DEF UnrowOf
    <3>1. flows'[g] = flows[g]  BY <2>3
    <3>2. /\ flows[g].s \in Sessions /\ session[flows[g].s] # "none"
          /\ flows[g].s \notin torn => flows[g].s \notin Link!Here
      BY <3>1 DEF RowInv, UnrowOf
    <3>3. CASE flows[g].s = s  BY <2>1, <2>7, <3>1, <3>3 DEF UnrowOf
    <3>4. CASE flows[g].s # s  BY <2>6, <2>7, <2>8, <3>1, <3>2, <3>4 DEF UnrowOf
    <3> QED  BY <3>3, <3>4
  <2>12. Link!RowsMatchSessions'
    <3> SUFFICES ASSUME NEW t \in Sessions, t \notin torn'
                 PROVE  \/ t \in rows' <=> t \in Link!Here'
                        \/ \E g \in Flows : flows'[g].s = t /\ flows'[g].at \in {"insert", "unrow"}
      BY DEF Link!RowsMatchSessions
    <3>1. CASE t = s  BY <2>3, <3>1
    <3>2. CASE t # s
      <4>1. t \notin torn /\ (t \in Link!Here' <=> t \in Link!Here)  BY <2>7, <2>8, <3>2
      <4>2. CASE t \in rows <=> t \in Link!Here  BY <1>1, <4>1, <4>2
      <4>3. ASSUME NEW g \in Flows, flows[g].s = t, flows[g].at \in {"insert", "unrow"}
            PROVE  flows'[g].s = t /\ flows'[g].at \in {"insert", "unrow"}
        <5>1. g # f  BY <1>1, <4>3
        <5> QED  BY <2>3, <4>3, <5>1
      <4> QED  BY <4>1, <4>2, <4>3 DEF RowInv, Link!RowsMatchSessions
    <3> QED  BY <3>1, <3>2
  <2> QED  BY <2>5, <2>9, <2>10, <2>11, <2>12 DEF RowInv
<1> QED  BY <1>2, <1>3

\* Reloading and pairing leave the table and the sessions as they are.
LEMMA PairRows ==
  ASSUME RowInv, NEW f \in Flows,
         Link!Reload(f) \/ Link!Auth(f) \/ Link!AuthAnswered(f) \/ Link!AuthTimeout(f)
  PROVE  RowInv'
<1>1. CASE Link!Reload(f)
  <2>1. flows[f].at = "reload" /\ UNCHANGED <<session, rows, torn>>
    BY <1>1 DEF Link!Reload, Link!At, Link!go
  <2>2. Link!Finished(f) \/ Link!Goto(f, "auth")  BY <1>1 DEF Link!Reload
  <2> QED  BY <2>1, <2>2, EndRows, GotoRows
<1>2. CASE Link!Auth(f)
  <2>1. flows[f].at = "auth" /\ UNCHANGED <<session, rows, torn>>
    BY <1>2 DEF Link!Auth, Link!At
  <2>2. Link!Finished(f) \/ Link!Goto(f, "wait")  BY <1>2 DEF Link!Auth, Link!Failed
  <2> QED  BY <2>1, <2>2, EndRows, GotoRows
<1>3. CASE Link!AuthAnswered(f)
  <2>1. flows[f].at = "wait" /\ UNCHANGED <<session, rows, torn>> /\ Link!Finished(f)
    BY <1>3 DEF Link!AuthAnswered, Link!At, Link!go
  <2> QED  BY <2>1, EndRows
<1>4. CASE Link!AuthTimeout(f)
  <2>1. flows[f].at = "wait" /\ UNCHANGED <<session, rows, torn>> /\ Link!Finished(f)
    BY <1>4 DEF Link!AuthTimeout, Link!At, Link!go, Link!Failed
  <2> QED  BY <2>1, EndRows
<1> QED  BY <1>1, <1>2, <1>3, <1>4

LEMMA FlowRows ==
  ASSUME RowInv, NEW f \in Flows, Link!FlowStep(f)
  PROVE  RowInv'
BY CreateRows, InsertRows, PairRows, UnlinkRows, DeleteRows DEF Link!FlowStep

LEMMA WindowRows ==
  ASSUME RowInv, Link!Window
  PROVE  RowInv'
<1>1. UNCHANGED <<session, rows, flows, torn>>
  BY DEF Link!Window, Link!Retry, Link!Open, Link!Close, Link!LoadPage, Link!Poll,
       Link!Refresh, Link!Turn, Link!Polled, Link!go
<1> QED  BY <1>1, StillRows

LEMMA RowStutter ==
  ASSUME RowInv, UNCHANGED Link!vars
  PROVE  RowInv'
BY StillRows DEF Link!vars, Link!go

LEMMA RowStart == Link!Init => RowInv
<1> SUFFICES ASSUME Link!Init PROVE RowInv  OBVIOUS
<1>1. RowTypes
  <2>1. flows \in [Flows -> Flow]  BY IdleIsFlow DEF Link!Init
  <2> QED  BY <2>1 DEF Link!Init, RowTypes
<1>2. \A f \in Flows : flows[f].at = "idle"  BY DEF Link!Init, Link!Idle
<1>3. \A f \in Flows : InsertOf(f) /\ UnrowOf(f)  BY <1>2 DEF InsertOf, UnrowOf
<1>4. Link!RowsMatchSessions  BY DEF Link!Init, Link!RowsMatchSessions, Link!Here
<1> QED  BY <1>1, <1>3, <1>4 DEF RowInv, Link!Init

LEMMA RowStep == RowInv /\ [Link!Next]_(Link!vars) => RowInv'
BY ClickRows, FlowRows, SessionRows, WindowRows, RowStutter DEF Link!Next

\* Rows and sessions are created and removed together, however many creates and
\* deletes overlap; only a failing insert or delete tears them apart
\* (api/instances/route.ts:78-114, [id]/route.ts:33-52).
THEOREM RowsAndSessions == Link!Spec => []RowsMatchSessions
<1>1. RowInv => RowsMatchSessions  BY DEF RowInv, RowsMatchSessions
<1> QED  BY <1>1, RowStart, RowStep, PTL DEF Link!Spec

-----------------------------------------------------------------------------
(* Setup: the code in the QR view is the one of the instance being linked. *)

LinkTypes ==
  /\ code \in [Sessions -> {"none", "live", "expired"}]
  /\ paired \subseteq Sessions /\ dialing \subseteq Sessions
  /\ linked \subseteq Sessions /\ torn \subseteq Sessions
  /\ open \in BOOLEAN /\ busy \in BOOLEAN /\ ended \in BOOLEAN /\ kept \in BOOLEAN
  /\ view \in {"list", "new", "qr"}
  /\ pending \in Sessions \cup {NoSession} /\ seen \in Sessions \cup {NoSession}
  /\ step \in {"name", "qr", "error"}
  /\ clicks \in 0 .. MaxClicks

QrPoll == [s : Sessions, cancelled : BOOLEAN, qr : BOOLEAN, up : BOOLEAN]

PollTypes ==
  /\ polls \subseteq QrPoll
  /\ IsFiniteSet(polls) /\ Cardinality(polls) <= MaxPolls

\* A poll whose effect goes on asks for the instance being linked.
OwnPolls == \A p \in polls : ~p.cancelled => view = "qr" /\ p.s = pending

LinkInv == RowInv /\ LinkTypes /\ PollTypes /\ OwnPolls /\ Link!CodeIsPendings

\* A set of polls that comes from another one, poll by poll, is no larger.
LEMMA PollImage ==
  ASSUME NEW P, NEW Q, NEW op, IsFiniteSet(P), Cardinality(P) <= MaxPolls,
         op = [p \in P |-> op[p]], Q = {op[p] : p \in P}
  PROVE  IsFiniteSet(Q) /\ Cardinality(Q) <= MaxPolls
<1>1. op \in Surjection(P, Q)
  <2>1. op \in [P -> Q]  OBVIOUS
  <2>2. \A q \in Q : \E p \in P : op[p] = q  OBVIOUS
  <2> QED  BY <2>1, <2>2 DEF Surjection
<1>2. IsFiniteSet(Q) /\ Cardinality(Q) <= Cardinality(P)
  BY <1>1, FS_Surjection
<1>3. Cardinality(P) \in Nat /\ Cardinality(Q) \in Nat  BY <1>2, FS_CardinalityType
<1> QED  BY <1>2, <1>3, LinkBounds

\* The effect ends: its polls are cancelled.
LEMMA RestartPolls ==
  ASSUME PollTypes, Link!Restart
  PROVE  PollTypes' /\ ended' \in BOOLEAN /\ \A p \in polls' : p.cancelled
<1>1. polls' = {[p EXCEPT !.cancelled = TRUE] : p \in polls} /\ ended' = FALSE
  BY DEF Link!Restart
<1>2. \A p \in polls : /\ [p EXCEPT !.cancelled = TRUE] \in QrPoll
                       /\ [p EXCEPT !.cancelled = TRUE].cancelled
  BY DEF PollTypes, QrPoll
<1>3. PICK P : P = polls  OBVIOUS
<1>4. PICK Q : Q = polls'  OBVIOUS
<1> DEFINE op == [p \in P |-> [p EXCEPT !.cancelled = TRUE]]
<1>5. Q = {op[p] : p \in P}  BY <1>1, <1>3, <1>4
<1>6. op = [p \in P |-> op[p]]  OBVIOUS
<1>7. IsFiniteSet(P) /\ Cardinality(P) <= MaxPolls  BY <1>3 DEF PollTypes
<1> HIDE DEF op
<1>8. IsFiniteSet(Q) /\ Cardinality(Q) <= MaxPolls  BY <1>5, <1>6, <1>7, PollImage
<1>9. polls' \subseteq QrPoll /\ \A p \in polls' : p.cancelled  BY <1>1, <1>2
<1> QED  BY <1>1, <1>4, <1>8, <1>9 DEF PollTypes

\* The window leaves the QR view, or stays out of it.
LEMMA OutOfQr ==
  ASSUME LinkInv, RowInv', LinkTypes', view' # "qr",
         Link!Restart \/ polls' = {} \/ (view # "qr" /\ UNCHANGED polls)
  PROVE  LinkInv'
<1>1. Link!CodeIsPendings'  BY DEF Link!CodeIsPendings
<1>2. CASE Link!Restart
  <2>1. PollTypes' /\ OwnPolls'  BY <1>2, RestartPolls DEF LinkInv, OwnPolls
  <2> QED  BY <1>1, <2>1 DEF LinkInv
<1>3. CASE polls' = {}
  <2>1. IsFiniteSet({}) /\ Cardinality({}) = 0  BY FS_EmptySet
  <2>2. PollTypes' /\ OwnPolls'  BY <1>3, <2>1, LinkBounds DEF PollTypes, OwnPolls
  <2> QED  BY <1>1, <2>2 DEF LinkInv
<1>4. CASE view # "qr" /\ UNCHANGED polls
  <2>1. PollTypes' /\ OwnPolls'  BY <1>4 DEF LinkInv, PollTypes, OwnPolls
  <2> QED  BY <1>1, <2>1 DEF LinkInv
<1> QED  BY <1>2, <1>3, <1>4

\* A step that leaves the QR view as it is.
LEMMA StillQr ==
  ASSUME LinkInv, RowInv', LinkTypes', UNCHANGED <<view, pending, seen, polls, kept>>
  PROVE  LinkInv'
BY DEF LinkInv, PollTypes, OwnPolls, Link!CodeIsPendings

LEMMA ListsLink ==
  ASSUME LinkInv, RowInv', Link!Lists(rows),
         UNCHANGED <<code, paired, dialing, torn, clicks>>
  PROVE  LinkInv'
<1>0. LinkTypes /\ rows \subseteq Sessions  BY DEF LinkInv, RowInv, RowTypes
<1>1. CASE rows = {}
  <2>1. /\ linked' = rows /\ view' = "list" /\ busy' = FALSE /\ pending' = NoSession
        /\ seen' = NoSession /\ kept' = FALSE /\ Link!Restart /\ step' = step /\ open' = open
    BY <1>1 DEF Link!Lists
  <2>2. ended' \in BOOLEAN  BY <2>1 DEF Link!Restart
  <2>3. LinkTypes'  BY <1>0, <2>1, <2>2 DEF LinkTypes
  <2> QED  BY <2>1, <2>3, OutOfQr
<1>2. CASE rows # {}
  <2>1. /\ linked' = rows /\ step' = "name" /\ open' = open
        /\ UNCHANGED <<view, busy, pending, seen, kept, polls, ended>>
    BY <1>2 DEF Link!Lists
  <2>2. LinkTypes'  BY <1>0, <2>1 DEF LinkTypes
  <2> QED  BY <2>1, <2>2, StillQr
<1> QED  BY <1>1, <1>2

LEMMA ClickLink ==
  ASSUME LinkInv, NEW f \in Flows, Link!Click(f)
  PROVE  LinkInv'
<1>1. RowInv'  BY ClickRows DEF LinkInv
<1>2. UNCHANGED <<code, paired, dialing, linked, torn, open, view, pending, seen, polls,
                  ended, step, kept>>
  BY DEF Link!Click, Link!ClickCreate, Link!ClickReconnect, Link!ClickDelete, Link!go, Link!ui
<1>3. clicks < MaxClicks /\ clicks' = clicks + 1 /\ busy' \in {busy, TRUE}
  BY DEF Link!Click, Link!ClickCreate, Link!ClickReconnect, Link!ClickDelete, Link!Begin,
       Link!ui
<1>4. clicks' \in 0 .. MaxClicks  BY <1>3, LinkBounds DEF LinkInv, LinkTypes
<1>5. LinkTypes'  BY <1>2, <1>3, <1>4 DEF LinkInv, LinkTypes
<1> QED  BY <1>1, <1>2, <1>5, StillQr

LEMMA SessionLink ==
  ASSUME LinkInv, NEW s \in Sessions, Link!Connect(s) \/ Link!Expire(s) \/ Link!Scan(s)
  PROVE  LinkInv'
<1>1. RowInv'  BY SessionRows DEF LinkInv
<1>2. UNCHANGED <<linked, torn, open, view, busy, pending, seen, polls, ended, step, kept,
                  clicks>>
  BY DEF Link!Connect, Link!Expire, Link!Scan, Link!ui
<1>3. /\ code' \in [Sessions -> {"none", "live", "expired"}]
      /\ paired' \subseteq Sessions /\ dialing' \subseteq Sessions
  BY DEF LinkInv, LinkTypes, Link!Connect, Link!Expire, Link!Scan
<1>4. LinkTypes'  BY <1>2, <1>3 DEF LinkInv, LinkTypes
<1> QED  BY <1>1, <1>2, <1>4, StillQr

\* The steps of a click that show no code.
LEMMA PlainLink ==
  ASSUME LinkInv, NEW f \in Flows,
         \/ Link!CreateSession(f) \/ Link!InsertRow(f) \/ Link!Auth(f) \/ Link!AuthTimeout(f)
         \/ Link!Unlink(f) \/ Link!DeleteRow(f)
  PROVE  LinkInv'
<1>1. RowInv'  BY CreateRows, InsertRows, PairRows, UnlinkRows, DeleteRows DEF LinkInv
<1>2. /\ UNCHANGED <<code, paired, linked, open, view, pending, seen, polls, ended, kept, clicks>>
      /\ busy' \in {busy, FALSE} /\ step' \in {step, "error"}
  BY DEF Link!CreateSession, Link!InsertRow, Link!Auth, Link!AuthTimeout, Link!Unlink,
       Link!DeleteRow, Link!Failed, Link!ui, Link!go
<1>3. dialing' \subseteq Sessions
  <2>1. dialing' = dialing \/ (flows[f].s \in Link!Here /\ dialing' = dialing \cup {flows[f].s})
    BY DEF Link!CreateSession, Link!InsertRow, Link!Auth, Link!AuthTimeout, Link!Unlink,
         Link!DeleteRow, Link!go
  <2> QED  BY <2>1 DEF LinkInv, LinkTypes, Link!Here
<1>4. torn' \subseteq Sessions
  <2>1. torn' = torn \/ \E s \in Sessions : torn' = torn \cup {s}
    <3>1. flows[f].at \in {"insert", "unrow"} => flows[f].s \in Sessions
      BY DEF LinkInv, RowInv, InsertOf, UnrowOf, Link!Here
    <3> QED
      BY <3>1 DEF Link!CreateSession, Link!InsertRow, Link!Auth, Link!AuthTimeout,
           Link!Unlink, Link!DeleteRow, Link!At, Link!Here
  <2> QED  BY <2>1 DEF LinkInv, LinkTypes
<1>5. LinkTypes'  BY <1>2, <1>3, <1>4 DEF LinkInv, LinkTypes
<1> QED  BY <1>1, <1>2, <1>5, StillQr

\* The answer that shows the code, or finds the session connected.
LEMMA AnswerLink ==
  ASSUME LinkInv, NEW f \in Flows, Link!AuthAnswered(f)
  PROVE  LinkInv'
<1>0. PICK s : s = flows[f].s  OBVIOUS
<1>1. /\ RowInv' /\ s \in Sessions
      /\ UNCHANGED <<code, paired, dialing, linked, torn, open, clicks>>
  BY <1>0, PairRows DEF LinkInv, Link!AuthAnswered, Link!Here, Link!go
<1>2. LinkTypes /\ PollTypes /\ OwnPolls /\ Link!CodeIsPendings  BY DEF LinkInv
<1>3. CASE flows[f].by = "wizard"
  <2>1. /\ UNCHANGED <<view, busy, pending, seen, polls, ended, kept>>
        /\ step' \in {"qr", "error"}
    BY <1>3 DEF Link!AuthAnswered
  <2>2. LinkTypes'  BY <1>1, <1>2, <2>1 DEF LinkTypes
  <2> QED  BY <1>1, <2>1, <2>2, StillQr
<1>4. CASE flows[f].by # "wizard"
  <2>1. /\ pending' = s /\ view' = "qr" /\ busy' = FALSE /\ step' = step
        /\ seen' = (IF session[s] # "connected" THEN s ELSE seen)
        /\ kept' = (~(session[s] # "connected") /\ seen \notin {NoSession, s})
        /\ \/ view = "qr" /\ pending = s /\ UNCHANGED <<polls, ended>>
           \/ Link!Restart
    BY <1>0, <1>4 DEF Link!AuthAnswered
  <2>2. Link!CodeIsPendings'  BY <2>1 DEF Link!CodeIsPendings
  <2>3. kept' \in BOOLEAN  BY <2>1
  <2>4. seen' \in Sessions \cup {NoSession}  BY <1>1, <1>2, <2>1 DEF LinkTypes
  <2>5. PollTypes' /\ OwnPolls' /\ ended' \in BOOLEAN
    <3>1. CASE Link!Restart  BY <1>2, <3>1, RestartPolls DEF OwnPolls
    <3>2. CASE view = "qr" /\ pending = s /\ UNCHANGED <<polls, ended>>
      BY <1>2, <2>1, <3>2 DEF OwnPolls, PollTypes, LinkTypes
    <3> QED  BY <2>1, <3>1, <3>2
  <2>6. LinkTypes'  BY <1>1, <1>2, <2>1, <2>3, <2>4, <2>5 DEF LinkTypes
  <2> QED  BY <1>1, <2>2, <2>5, <2>6 DEF LinkInv
<1> QED  BY <1>3, <1>4

LEMMA FlowLink ==
  ASSUME LinkInv, NEW f \in Flows, Link!FlowStep(f)
  PROVE  LinkInv'
<1>1. CASE Link!Reload(f)
  <2>1. RowInv'  BY <1>1, PairRows DEF LinkInv
  <2>2. Link!Lists(rows) /\ UNCHANGED <<code, paired, dialing, torn, clicks>>
    BY <1>1 DEF Link!Reload, Link!go
  <2> QED  BY <2>1, <2>2, ListsLink
<1> QED  BY <1>1, PlainLink, AnswerLink DEF Link!FlowStep

LEMMA LinkCount == \A S : Link!Cardinality(S) = Cardinality(S)
BY DEF Link!Cardinality, Cardinality

LEMMA PollLink ==
  ASSUME LinkInv, Link!Poll
  PROVE  LinkInv'
<1>1. RowInv'  BY WindowRows DEF LinkInv, Link!Window
<1>2. LinkTypes'  BY DEF LinkInv, LinkTypes, Link!Poll, Link!go
<1>3. PICK p : p = [s |-> pending, cancelled |-> FALSE, qr |-> code[pending] # "none",
                    up |-> session[pending] = "connected"]
  OBVIOUS
<1>4. /\ view = "qr" /\ pending \in Link!Here /\ Cardinality(polls) < MaxPolls
      /\ polls' = polls \cup {p}
      /\ UNCHANGED <<view, pending, seen, kept>>
  BY <1>3, LinkCount DEF Link!Poll
<1>5. p \in QrPoll /\ p.s = pending
  BY <1>3, <1>4 DEF QrPoll, Link!Here
<1>6. PICK P : P = polls  OBVIOUS
<1>7. /\ IsFiniteSet(P \cup {p})
      /\ Cardinality(P \cup {p}) \in {Cardinality(P), Cardinality(P) + 1}
      /\ Cardinality(P) \in Nat /\ Cardinality(P) < MaxPolls
  BY <1>4, <1>6, FS_AddElement, FS_CardinalityType DEF LinkInv, PollTypes
<1>8. Cardinality(P \cup {p}) <= MaxPolls  BY <1>7, LinkBounds
<1>9. PollTypes'
  <2>1. PICK Q : Q = polls'  OBVIOUS
  <2>2. Q = P \cup {p}  BY <1>4, <1>6, <2>1
  <2>3. IsFiniteSet(polls') /\ Cardinality(polls') <= MaxPolls
    BY <1>7, <1>8, <2>1, <2>2
  <2> QED  BY <1>4, <1>5, <2>3 DEF LinkInv, PollTypes
<1>10. OwnPolls' /\ Link!CodeIsPendings'
  BY <1>4, <1>5 DEF LinkInv, OwnPolls, Link!CodeIsPendings
<1> QED  BY <1>1, <1>2, <1>9, <1>10 DEF LinkInv

LEMMA PolledLink ==
  ASSUME LinkInv, NEW p \in polls, Link!Polled(p)
  PROVE  LinkInv'
<1>1. RowInv'  BY WindowRows DEF LinkInv, Link!Window
<1>2. LinkTypes /\ PollTypes /\ OwnPolls /\ Link!CodeIsPendings /\ p \in QrPoll
  BY DEF LinkInv, PollTypes
<1>3. UNCHANGED <<code, paired, dialing, linked, torn, open, view, busy, pending, step, clicks>>
  BY DEF Link!Polled, Link!go
<1>4. PICK P : P = polls \ {p}  OBVIOUS
<1>5. IsFiniteSet(P) /\ Cardinality(P) <= MaxPolls
  <2>1. PICK R : R = polls  OBVIOUS
  <2>2. P \subseteq R /\ IsFiniteSet(R) /\ Cardinality(R) <= MaxPolls
    BY <1>2, <1>4, <2>1 DEF PollTypes
  <2>3. IsFiniteSet(P) /\ Cardinality(P) <= Cardinality(R)  BY <2>2, FS_Subset
  <2>4. Cardinality(P) \in Nat /\ Cardinality(R) \in Nat
    BY <2>2, <2>3, FS_CardinalityType
  <2> QED  BY <2>2, <2>3, <2>4, LinkBounds
<1>6. CASE p.cancelled
  <2>1. polls' = P /\ UNCHANGED <<seen, kept, ended>>  BY <1>4, <1>6 DEF Link!Polled
  <2>2. LinkTypes'  BY <1>2, <1>3, <2>1 DEF LinkTypes
  <2>3. PollTypes' /\ OwnPolls' /\ Link!CodeIsPendings'
    BY <1>2, <1>3, <1>4, <1>5, <2>1 DEF PollTypes, OwnPolls, Link!CodeIsPendings
  <2> QED  BY <1>1, <2>2, <2>3 DEF LinkInv
<1>7. CASE ~p.cancelled
  <2> DEFINE op == [q \in P |-> [q EXCEPT !.cancelled = @ \/ p.up]]
  <2>1. /\ seen' = (IF p.qr THEN p.s ELSE seen) /\ kept' = (kept /\ ~p.qr)
        /\ ended' = (ended \/ p.up)
        /\ polls' = {op[q] : q \in P}
    BY <1>4, <1>7 DEF Link!Polled
  <2>2. p.s \in Sessions /\ p.s = pending /\ view = "qr"
    BY <1>2, <1>7 DEF OwnPolls, QrPoll
  <2>3. kept' \in BOOLEAN /\ ended' \in BOOLEAN  BY <2>1
  <2>4. seen' \in Sessions \cup {NoSession}  BY <1>2, <2>1, <2>2 DEF LinkTypes
  <2>5. LinkTypes'  BY <1>2, <1>3, <2>3, <2>4 DEF LinkTypes
  <2>6. Link!CodeIsPendings'  BY <1>2, <1>3, <2>1, <2>2 DEF Link!CodeIsPendings
  <2>7. \A q \in P : /\ op[q] \in QrPoll /\ op[q].s = q.s
                     /\ q.cancelled => op[q].cancelled
    <3>1. ASSUME NEW q \in P
          PROVE  op[q] \in QrPoll /\ op[q].s = q.s /\ (q.cancelled => op[q].cancelled)
      <4>1. q \in QrPoll  BY <1>2, <1>4 DEF PollTypes
      <4>2. op[q] = [q EXCEPT !.cancelled = q.cancelled \/ p.up]  OBVIOUS
      <4> QED  BY <4>1, <4>2 DEF QrPoll
    <3> QED  BY <3>1
  <2>8. op = [q \in P |-> op[q]]  OBVIOUS
  <2> HIDE DEF op
  <2>9. PICK Q : Q = {op[q] : q \in P}  OBVIOUS
  <2>10. IsFiniteSet(Q) /\ Cardinality(Q) <= MaxPolls  BY <1>5, <2>8, <2>9, PollImage
  <2>11. polls' = Q  BY <2>1, <2>9
  <2>12. PollTypes'  BY <2>7, <2>9, <2>10, <2>11 DEF PollTypes
  <2>13. OwnPolls'
    <3>1. \A q \in P : ~q.cancelled => q.s = pending
      BY <1>2, <1>4 DEF OwnPolls
    <3> QED  BY <1>3, <2>2, <2>7, <2>9, <2>11, <3>1 DEF OwnPolls
  <2> QED  BY <1>1, <2>5, <2>6, <2>12, <2>13 DEF LinkInv
<1> QED  BY <1>6, <1>7

LEMMA WindowLink ==
  ASSUME LinkInv, Link!Window
  PROVE  LinkInv'
<1>0. RowInv' /\ LinkTypes /\ rows \subseteq Sessions
  BY WindowRows DEF LinkInv, RowInv, RowTypes
<1>1. CASE Link!Retry \/ Link!Open
  <2>1. LinkTypes'  BY <1>0, <1>1 DEF LinkTypes, Link!Retry, Link!Open, Link!go
  <2>2. UNCHANGED <<view, pending, seen, polls, kept>>  BY <1>1 DEF Link!Retry, Link!Open
  <2> QED  BY <1>0, <2>1, <2>2, StillQr
<1>2. CASE Link!Close
  <2>1. LinkTypes'  BY <1>0, <1>2 DEF LinkTypes, Link!Close, Link!Restart, Link!go
  <2>2. view' # "qr" /\ Link!Restart  BY <1>2 DEF Link!Close
  <2> QED  BY <1>0, <2>1, <2>2, OutOfQr
<1>3. CASE Link!LoadPage
  <2>1. LinkTypes'  BY <1>0, <1>3 DEF LinkTypes, Link!LoadPage, Link!go
  <2>2. view' # "qr" /\ polls' = {}  BY <1>3 DEF Link!LoadPage
  <2> QED  BY <1>0, <2>1, <2>2, OutOfQr
<1>4. CASE Link!Refresh
  <2>1. Link!Lists(rows) /\ UNCHANGED <<code, paired, dialing, torn, clicks>>
    BY <1>4 DEF Link!Refresh, Link!go
  <2> QED  BY <1>0, <2>1, ListsLink
<1>5. ASSUME NEW from \in {"list", "new", "qr"}, NEW to \in {"list", "new"}, Link!Turn(from, to)
      PROVE  LinkInv'
  <2>1. /\ view = from /\ view' = to
        /\ IF from = "qr" THEN Link!Restart ELSE UNCHANGED <<polls, ended>>
        /\ UNCHANGED <<code, paired, dialing, linked, torn, open, busy, pending, seen, step,
                       kept, clicks>>
    BY <1>5 DEF Link!Turn, Link!go
  <2>2. ended' \in BOOLEAN  BY <1>0, <2>1 DEF Link!Restart, LinkTypes
  <2>3. LinkTypes'  BY <1>0, <2>1, <2>2 DEF LinkTypes
  <2> QED  BY <1>0, <2>1, <2>3, OutOfQr
<1>6. CASE Link!Turn("list", "new") \/ Link!Turn("new", "list") \/ Link!Turn("qr", "list")
  BY <1>5, <1>6
<1> QED  BY <1>1, <1>2, <1>3, <1>4, <1>6, PollLink, PolledLink DEF Link!Window

LEMMA LinkStill ==
  ASSUME LinkInv, UNCHANGED linkVars
  PROVE  LinkInv'
<1>1. RowInv'  BY StillRows DEF LinkInv, linkVars
<1>2. LinkTypes'  BY DEF LinkInv, LinkTypes, linkVars
<1>3. UNCHANGED <<view, pending, seen, polls, kept>>  BY DEF linkVars
<1> QED  BY <1>1, <1>2, <1>3, StillQr

LEMMA LinkStart == Link!Init => LinkInv
<1> SUFFICES ASSUME Link!Init PROVE LinkInv  OBVIOUS
<1>1. RowInv  BY RowStart
<1>2. LinkTypes
  <2>1. clicks \in 0 .. MaxClicks  BY LinkBounds DEF Link!Init
  <2>2. code \in [Sessions -> {"none", "live", "expired"}]  BY DEF Link!Init
  <2> QED  BY <2>1, <2>2 DEF Link!Init, LinkTypes
<1>3. IsFiniteSet({}) /\ Cardinality({}) = 0  BY FS_EmptySet
<1>4. PollTypes /\ OwnPolls /\ Link!CodeIsPendings
  BY <1>3, LinkBounds DEF Link!Init, PollTypes, OwnPolls, Link!CodeIsPendings
<1> QED  BY <1>1, <1>2, <1>4 DEF LinkInv

LEMMA LinkStep == LinkInv /\ [Link!Next]_(Link!vars) => LinkInv'
<1> SUFFICES ASSUME LinkInv, [Link!Next]_(Link!vars)  PROVE LinkInv'  OBVIOUS
<1>1. CASE UNCHANGED Link!vars
  <2>1. UNCHANGED linkVars  BY <1>1 DEF Link!vars, Link!go, Link!ui, linkVars
  <2> QED  BY <2>1, LinkStill
<1> QED  BY <1>1, ClickLink, FlowLink, SessionLink, WindowLink DEF Link!Next

LEMMA LinkTyped ==
  ASSUME LinkInv, faults \in 0 .. MaxFaults
  PROVE  Link!TypeOK
<1>1. /\ session \in [Sessions -> {"none", "new", "waiting_qr", "connected",
                                   "disconnected", "removed"}]
      /\ flows \in [Flows -> [by : {"none", "wizard", "window", "delete"},
                              s : Sessions \union {NoSession},
                              at : {"idle", "post", "insert", "reload", "auth",
                                    "wait", "unlink", "unrow"}]]
      /\ rows \subseteq Sessions
  BY DEF LinkInv, RowInv, RowTypes, Flow
<1>2. polls \subseteq [s : Sessions, cancelled : BOOLEAN, qr : BOOLEAN, up : BOOLEAN]
  BY DEF LinkInv, PollTypes, QrPoll
<1>3. LinkTypes /\ Cardinality(polls) <= MaxPolls  BY DEF LinkInv, PollTypes
<1>4. {open, busy, ended, kept} \subseteq BOOLEAN  BY <1>3 DEF LinkTypes
<1> QED  BY <1>1, <1>2, <1>3, <1>4, LinkCount DEF LinkTypes, Link!TypeOK

\* The code in the QR view is the one of the instance being linked, however late
\* the polls of another one are answered (SettingsModal.tsx:216-255, 268-271).
THEOREM CodesStayOwn == Link!Spec => []Link!CodeIsPendings
<1>1. LinkInv => Link!CodeIsPendings  BY DEF LinkInv
<1> QED  BY <1>1, LinkStart, LinkStep, PTL DEF Link!Spec

-----------------------------------------------------------------------------
(* GroupSettings: the tab shows what the table has.                        *)

TabRows == [Groups -> {"none", "on", "off"}]
TabLoad ==
  [kind : {"load"}, i : Instances, at : {"sent", "back"}, rows : TabRows, ok : BOOLEAN]
TabWrite ==
  [kind : {"add", "remove", "flag"}, i : Instances, g : Groups, to : {"none", "on", "off"},
   at : {"sent", "back"}, rows : TabRows, ok : BOOLEAN]

TabTypes ==
  /\ authorised \in [Instances -> TabRows] /\ groups \in TabRows
  /\ active \in Instances /\ fetched \subseteq Groups
  /\ tab \in BOOLEAN /\ fetching \in BOOLEAN /\ disturbed \in BOOLEAN
  /\ net \in [Calls -> {Tab!Quiet} \cup TabLoad \cup TabWrite]
  /\ \A r \in Calls : net[r].kind = "remove" => net[r].to = "none"
  /\ asks \in 0 .. MaxAsks

\* What a removal or a flag makes of the copy.
Changed(copy, call) == [copy EXCEPT ![call.g] = IF @ = "none" THEN @ ELSE call.to]

\* A request that nothing disturbs: a load brings the rows of its instance, and
\* a write changes the copy as it changes them.
Fits(call) ==
  /\ call.kind = "load" /\ call.at = "back" /\ call.ok => call.rows = authorised[call.i]
  /\ call.kind \in {"remove", "flag"} =>
       /\ call.at = "sent" => groups = authorised[call.i]
       /\ call.at = "back" /\ call.ok => Changed(groups, call) = authorised[call.i]

TabInv ==
  /\ TabTypes
  /\ ~disturbed => \A r \in Tab!InFlight : Fits(net[r]) /\ Tab!InFlight = {r}
  /\ Tab!GroupsAgree

LEMMA FlyingIs ==
  ASSUME TabTypes, NEW r \in Calls
  PROVE  /\ r \in Tab!InFlight <=> net[r] \in TabLoad \cup TabWrite
         /\ r \notin Tab!InFlight <=> net[r] = Tab!Quiet
         /\ net[r] = Tab!Quiet => net[r].kind = "none"
<1>1. \A q \in TabLoad \cup TabWrite : q.kind # "none"  BY DEF TabLoad, TabWrite
<1>2. Tab!Quiet.kind = "none"  BY DEF Tab!Quiet
<1> QED  BY <1>1, <1>2 DEF TabTypes, Tab!InFlight

LEMMA TabStart == Tab!Init => TabInv
<1> SUFFICES ASSUME Tab!Init  PROVE TabInv  OBVIOUS
<1>1. Tab!NoRows \in TabRows /\ [g \in Groups |-> "on"] \in TabRows
  BY DEF Tab!NoRows, TabRows
<1>2. Tab!Quiet.kind # "remove"  BY DEF Tab!Quiet
<1>3. TabTypes
  <2>1. authorised \in [Instances -> TabRows] /\ groups \in TabRows  BY <1>1 DEF Tab!Init
  <2>2. tab \in BOOLEAN /\ fetching \in BOOLEAN /\ disturbed \in BOOLEAN  BY DEF Tab!Init
  <2>3. asks \in 0 .. MaxAsks  BY MoreBounds DEF Tab!Init
  <2> QED  BY <1>2, <2>1, <2>2, <2>3 DEF Tab!Init, TabTypes
<1>4. Tab!InFlight = {} /\ ~tab  BY DEF Tab!Init, Tab!InFlight
<1> QED  BY <1>3, <1>4 DEF TabInv, Tab!GroupsAgree

\* A step that leaves table, copy and requests alone.
LEMMA TabStill ==
  ASSUME TabInv, TabTypes', UNCHANGED <<authorised, groups, net, disturbed>>,
         \/ tab' = tab /\ active' = active
         \/ ~tab'
  PROVE  TabInv'
<1>1. Tab!InFlight' = Tab!InFlight  BY DEF Tab!InFlight
<1> QED  BY <1>1 DEF TabInv, Tab!GroupsAgree, Fits, Changed

\* A request is sent.
LEMMA TabSends ==
  ASSUME TabInv, NEW r \in Calls, NEW call \in TabLoad \cup TabWrite,
         Tab!Send(r, call), call.kind = "remove" => call.to = "none",
         UNCHANGED <<authorised, groups, active, fetching>>,
         fetched' \subseteq Groups, tab' \in BOOLEAN, asks' \in 0 .. MaxAsks,
         \/ Fits(call)
         \/ call.kind # "load" /\ (disturbed \/ ~(Tab!InFlight \subseteq {r}) \/ call.i # active)
  PROVE  TabInv'
<1>1. /\ net' = [net EXCEPT ![r] = call]
      /\ disturbed' \in BOOLEAN
      /\ ~disturbed' => /\ Tab!InFlight \subseteq {r} /\ call.i = active
                        /\ ~disturbed \/ call.kind = "load"
  BY DEF Tab!Send, TabInv, TabTypes
<1>2. TabTypes'  BY <1>1 DEF TabInv, TabTypes
<1>3. net'[r] = call /\ \A q \in Calls : q # r => net'[q] = net[q]
  BY <1>1 DEF TabInv, TabTypes
<1>4. r \in Tab!InFlight'
  <2>1. call # Tab!Quiet  BY DEF TabLoad, TabWrite, Tab!Quiet
  <2> QED  BY <1>3, <2>1 DEF Tab!InFlight, Tab!Quiet
<1>5. ASSUME ~disturbed', NEW q \in Tab!InFlight'
      PROVE  Fits(net[q])' /\ Tab!InFlight' = {q}
  <2>1. Tab!InFlight' = {r}  BY <1>1, <1>3, <1>4, <1>5 DEF Tab!InFlight, Tab!Quiet
  <2>2. Fits(call)  BY <1>1, <1>5
  <2>3. Fits(call)'  BY <2>2 DEF Fits, Changed
  <2>4. q = r /\ net'[q] = call  BY <1>3, <2>1
  <2> QED  BY <2>1, <2>3, <2>4 DEF Fits, Changed
<1>6. Tab!GroupsAgree'  BY <1>4 DEF Tab!GroupsAgree
<1> QED  BY <1>2, <1>5, <1>6 DEF TabInv

LEMMA LoadIs ==
  ASSUME NEW j \in Instances
  PROVE  /\ Tab!Load(j) \in TabLoad /\ Tab!Load(j).kind = "load" /\ Tab!Load(j).i = j
         /\ Fits(Tab!Load(j))
<1>1. Tab!NoRows \in TabRows  BY DEF Tab!NoRows, TabRows
<1>2. /\ Tab!Load(j) \in TabLoad /\ Tab!Load(j).kind = "load" /\ Tab!Load(j).i = j
      /\ Tab!Load(j).at = "sent"
  BY <1>1 DEF Tab!Load, TabLoad
<1> QED  BY <1>2 DEF Fits

LEMMA WriteIs ==
  ASSUME NEW kind \in {"add", "remove", "flag"}, NEW j \in Instances, NEW g \in Groups,
         NEW to \in {"none", "on", "off"}, NEW call, call = Tab!Write(kind, j, g, to)
  PROVE  /\ call \in TabWrite /\ call.kind = kind /\ call.i = j /\ call.to = to
         /\ call.at = "sent"
<1>1. Tab!NoRows \in TabRows  BY DEF Tab!NoRows, TabRows
<1> QED  BY <1>1 DEF Tab!Write, TabWrite

LEMMA TabAsks ==
  ASSUME TabInv, NEW r \in Calls, NEW call \in TabLoad \cup TabWrite, Tab!Ask(r, call),
         call.kind = "remove" => call.to = "none", call.i = active, call.at = "sent",
         UNCHANGED <<authorised, groups, active, fetching>>,
         fetched' \subseteq Groups, tab' \in BOOLEAN,
         call.kind \in {"remove", "flag"} => tab
  PROVE  TabInv'
<1>1. Tab!Send(r, call) /\ net[r] = Tab!Quiet /\ asks' \in 0 .. MaxAsks
  BY MoreBounds DEF Tab!Ask, TabInv, TabTypes
<1>2. \/ Fits(call)
      \/ call.kind # "load" /\ (disturbed \/ ~(Tab!InFlight \subseteq {r}) \/ call.i # active)
  <2> SUFFICES ASSUME ~disturbed, Tab!InFlight \subseteq {r}, call.kind \in {"remove", "flag"}
               PROVE  groups = authorised[call.i]
    BY DEF Fits
  <2>1. Tab!InFlight = {}  BY <1>1 DEF Tab!InFlight
  <2> QED  BY <2>1 DEF TabInv, Tab!GroupsAgree
<1> QED  BY <1>1, <1>2, TabSends

LEMMA TabClicks ==
  ASSUME TabInv, NEW r \in Calls,
         \/ Tab!Enter(r)
         \/ \E g \in Groups : Tab!ToggleAuthorize(r, g) \/ Tab!ToggleGroupFlag(r, g)
  PROVE  TabInv'
<1>0. fetched \subseteq Groups /\ tab \in BOOLEAN /\ active \in Instances
  BY DEF TabInv, TabTypes
<1>1. CASE Tab!Enter(r)
  <2>1. PICK call : call = Tab!Load(active)  OBVIOUS
  <2>2. call \in TabLoad /\ call.kind = "load" /\ call.i = active /\ call.at = "sent"
    BY <1>0, <2>1, LoadIs DEF Tab!Load
  <2>3. /\ Tab!Ask(r, call) /\ UNCHANGED <<authorised, groups, active, fetching>>
        /\ fetched' = {} /\ tab' = TRUE
    BY <1>1, <2>1 DEF Tab!Enter
  <2> QED  BY <2>2, <2>3, TabAsks
<1>2. ASSUME NEW g \in Groups, Tab!ToggleAuthorize(r, g)  PROVE TabInv'
  <2>1. PICK call : call = IF groups[g] # "none" THEN Tab!Write("remove", active, g, "none")
                                               ELSE Tab!Write("add", active, g, "on")
    OBVIOUS
  <2>2. /\ tab /\ Tab!Ask(r, call) /\ UNCHANGED <<authorised, groups, active, fetching>>
        /\ fetched' = fetched /\ tab' = tab
    BY <1>2, <2>1 DEF Tab!ToggleAuthorize
  <2>3. CASE groups[g] # "none"
    <3>1. call \in TabWrite /\ call.kind = "remove" /\ call.i = active /\ call.to = "none" /\ call.at = "sent"
      BY <1>0, <2>1, <2>3, WriteIs
    <3> QED  BY <1>0, <2>2, <3>1, TabAsks
  <2>4. CASE groups[g] = "none"
    <3>1. call \in TabWrite /\ call.kind = "add" /\ call.i = active /\ call.at = "sent"
      BY <1>0, <2>1, <2>4, WriteIs
    <3> QED  BY <1>0, <2>2, <3>1, TabAsks
  <2> QED  BY <2>3, <2>4
<1>3. ASSUME NEW g \in Groups, Tab!ToggleGroupFlag(r, g)  PROVE TabInv'
  <2>1. PICK to \in {"on", "off"} : to = IF groups[g] = "on" THEN "off" ELSE "on"  OBVIOUS
  <2>2. PICK call : call = Tab!Write("flag", active, g, to)  OBVIOUS
  <2>3. /\ tab /\ Tab!Ask(r, call) /\ UNCHANGED <<authorised, groups, active, fetching>>
        /\ fetched' = fetched /\ tab' = tab
    BY <1>3, <2>1, <2>2 DEF Tab!ToggleGroupFlag
  <2>4. call \in TabWrite /\ call.kind = "flag" /\ call.i = active /\ call.at = "sent"
    BY <1>0, <2>2, WriteIs
  <2> QED  BY <1>0, <2>3, <2>4, TabAsks
<1> QED  BY <1>1, <1>2, <1>3

LEMMA TabServes ==
  ASSUME TabInv, NEW r \in Calls, Tab!Serve(r)
  PROVE  TabInv'
<1>0. PICK call : call = net[r]  OBVIOUS
<1>1. /\ r \in Tab!InFlight /\ call.at = "sent"
      /\ UNCHANGED <<active, tab, groups, fetched, fetching, disturbed, asks>>
  BY <1>0 DEF Tab!Serve
<1>2. call \in TabLoad \cup TabWrite /\ call.i \in Instances
  BY <1>0, <1>1, FlyingIs DEF TabInv, TabLoad, TabWrite
<1>3. authorised[call.i] \in TabRows  BY <1>2 DEF TabInv, TabTypes
<1>4. PICK written : written = Tab!Written(authorised[call.i], call)  OBVIOUS
<1>5. /\ written \in TabRows
      /\ call.kind = "load" => written = authorised[call.i]
      /\ call.kind \in {"remove", "flag"} => written = Changed(authorised[call.i], call)
  <2>1. CASE call.kind = "load"  BY <1>3, <1>4, <2>1 DEF Tab!Written
  <2>2. CASE call.kind = "flag"
    <3>1. call.to \in {"none", "on", "off"}  BY <1>2, <2>2 DEF TabLoad, TabWrite
    <3> QED  BY <1>3, <1>4, <2>2, <3>1 DEF Tab!Written, TabRows, Changed
  <2>3. CASE call.kind \in {"add", "remove"}
    <3>1. /\ call.to \in {"none", "on", "off"} /\ call.g \in Groups
          /\ call.kind = "remove" => call.to = "none"
      BY <1>0, <1>2, <2>3 DEF TabLoad, TabWrite, TabInv, TabTypes
    <3>2. written = [authorised[call.i] EXCEPT ![call.g] = call.to]
      BY <1>4, <2>3 DEF Tab!Written
    <3> QED  BY <1>3, <2>3, <3>1, <3>2 DEF TabRows, Changed
  <2> QED  BY <1>2, <2>1, <2>2, <2>3 DEF TabLoad, TabWrite
<1>6. PICK new \in TabLoad \cup TabWrite :
        /\ net' = [net EXCEPT ![r] = new] /\ new.kind = call.kind /\ new.i = call.i
        /\ new.at = "back"
        /\ call.kind # "load" => new.g = call.g /\ new.to = call.to
        /\ \/ /\ authorised' = [authorised EXCEPT ![call.i] = written]
              /\ new.rows = authorised[call.i]
           \/ authorised' = authorised /\ new.ok = FALSE
  <2>1. CASE /\ authorised' = [authorised EXCEPT ![call.i] = written]
             /\ net' = [net EXCEPT ![r].at = "back", ![r].rows = authorised[call.i]]
    <3> DEFINE new == [call EXCEPT !.at = "back", !.rows = authorised[call.i]]
    <3>1. new \in TabLoad \cup TabWrite  BY <1>2, <1>3 DEF TabLoad, TabWrite
    <3>2. net' = [net EXCEPT ![r] = new]  BY <1>0, <2>1 DEF TabInv, TabTypes
    <3>3. /\ new.kind = call.kind /\ new.i = call.i /\ new.at = "back"
          /\ new.rows = authorised[call.i]
          /\ call.kind # "load" => new.g = call.g /\ new.to = call.to
      BY <1>2 DEF TabLoad, TabWrite
    <3> HIDE DEF new
    <3> QED  BY <2>1, <3>1, <3>2, <3>3
  <2>2. CASE /\ authorised' = authorised
             /\ net' = [net EXCEPT ![r].at = "back", ![r].ok = FALSE]
    <3> DEFINE new == [call EXCEPT !.at = "back", !.ok = FALSE]
    <3>1. new \in TabLoad \cup TabWrite  BY <1>2 DEF TabLoad, TabWrite
    <3>2. net' = [net EXCEPT ![r] = new]  BY <1>0, <2>2 DEF TabInv, TabTypes
    <3>3. /\ new.kind = call.kind /\ new.i = call.i /\ new.at = "back" /\ new.ok = FALSE
          /\ call.kind # "load" => new.g = call.g /\ new.to = call.to
      BY <1>2 DEF TabLoad, TabWrite
    <3> HIDE DEF new
    <3> QED  BY <2>2, <3>1, <3>2, <3>3
  <2> QED  BY <1>0, <1>4, <2>1, <2>2 DEF Tab!Serve
<1>7. net'[r] = new /\ \A q \in Calls : q # r => net'[q] = net[q]
  BY <1>6 DEF TabInv, TabTypes
<1>8. authorised' \in [Instances -> TabRows]
  BY <1>5, <1>6 DEF TabInv, TabTypes
<1>9. TabTypes'
  <2>1. new.kind = "remove" => new.to = "none"
    BY <1>0, <1>6 DEF TabInv, TabTypes
  <2> QED  BY <1>1, <1>6, <1>7, <1>8, <2>1 DEF TabInv, TabTypes
<1>10. Tab!InFlight' = Tab!InFlight
  <2>1. new # Tab!Quiet  BY DEF TabLoad, TabWrite, Tab!Quiet
  <2> QED  BY <1>1, <1>7, <2>1 DEF Tab!InFlight, Tab!Quiet
<1>11. ASSUME ~disturbed', NEW q \in Tab!InFlight'
       PROVE  Fits(net[q])' /\ Tab!InFlight' = {q}
  <2>1. ~disturbed /\ Fits(call) /\ Tab!InFlight = {r}
    BY <1>0, <1>1, <1>11 DEF TabInv
  <2>2. q = r  BY <1>10, <1>11, <2>1
  <2>3. \/ authorised'[call.i] = written /\ new.rows = authorised[call.i]
        \/ new.ok = FALSE
    BY <1>2, <1>6 DEF TabInv, TabTypes
  <2>4. new.kind = "load" /\ new.ok => new.rows = authorised'[new.i]
    BY <1>5, <1>6, <2>3
  <2>5. new.kind \in {"remove", "flag"} /\ new.ok => Changed(groups, new) = authorised'[new.i]
    <3> SUFFICES ASSUME new.kind \in {"remove", "flag"}, new.ok
                 PROVE  Changed(groups, new) = authorised'[new.i]
      OBVIOUS
    <3>1. groups = authorised[call.i]  BY <1>1, <1>6, <2>1 DEF Fits
    <3>2. Changed(groups, new) = Changed(groups, call)  BY <1>6 DEF Changed
    <3> QED  BY <1>5, <1>6, <2>3, <3>1, <3>2
  <2>6. Fits(new)'  BY <1>1, <1>6, <2>4, <2>5 DEF Fits, Changed
  <2> QED  BY <1>7, <1>10, <1>11, <2>1, <2>2, <2>6 DEF Fits, Changed
<1>12. Tab!GroupsAgree'  BY <1>1, <1>10 DEF Tab!GroupsAgree
<1> QED  BY <1>9, <1>11, <1>12 DEF TabInv

\* The answer to a load, or to a removal or a flag: the request ends.
LEMMA TabEnds ==
  ASSUME TabInv, NEW r \in Calls, r \in Tab!InFlight,
         net' = [net EXCEPT ![r] = Tab!Quiet], groups' \in TabRows, disturbed' \in BOOLEAN,
         UNCHANGED <<authorised, active, tab, fetched, fetching, asks>>,
         ~disturbed' => ~disturbed /\ groups' = authorised[active]
  PROVE  TabInv'
<1>1. net'[r] = Tab!Quiet /\ \A q \in Calls : q # r => net'[q] = net[q]
  BY DEF TabInv, TabTypes
<1>2. TabTypes'  BY <1>1 DEF TabInv, TabTypes, Tab!Quiet
<1>3. ~disturbed' => Tab!InFlight' = {}
  <2>1. ~disturbed => Tab!InFlight = {r}  BY DEF TabInv
  <2> QED  BY <1>1, <2>1 DEF Tab!InFlight, Tab!Quiet
<1>4. Tab!GroupsAgree'  BY DEF Tab!GroupsAgree
<1> QED  BY <1>2, <1>3, <1>4 DEF TabInv

LEMMA TabAnswers ==
  ASSUME TabInv, NEW r \in Calls, Tab!Answer(r)
  PROVE  TabInv'
<1>0. PICK call : call = net[r]  OBVIOUS
<1>1. /\ r \in Tab!InFlight /\ call.at = "back"
      /\ UNCHANGED <<authorised, active, tab, fetched, fetching, asks>>
  BY <1>0 DEF Tab!Answer
<1>2. call \in TabLoad \cup TabWrite /\ call.i \in Instances
  BY <1>0, <1>1, FlyingIs DEF TabInv, TabLoad, TabWrite
<1>3. ~disturbed => Fits(call)  BY <1>0, <1>1 DEF TabInv
<1>4. call.rows \in TabRows /\ groups \in TabRows
  BY <1>2 DEF TabInv, TabTypes, TabLoad, TabWrite
<1>5. CASE Tab!Loaded(r)
  <2>1. /\ call.kind = "load" /\ groups' = (IF call.ok THEN call.rows ELSE groups)
        /\ net' = [net EXCEPT ![r] = Tab!Quiet]
        /\ disturbed' = (disturbed \/ ~call.ok \/ call.i # active)
    BY <1>0, <1>5 DEF Tab!Loaded
  <2>2. ~disturbed' => ~disturbed /\ groups' = authorised[active]
    BY <1>1, <1>3, <2>1 DEF Fits
  <2> QED  BY <1>1, <1>4, <2>1, <2>2, TabEnds
<1>6. CASE Tab!Removed(r)
  <2>1. /\ call.kind \in {"remove", "flag"} /\ groups' = Changed(groups, call)
        /\ net' = [net EXCEPT ![r] = Tab!Quiet]
        /\ disturbed' = (disturbed \/ ~call.ok \/ call.i # active)
    BY <1>0, <1>6 DEF Tab!Removed, Changed
  <2>2. groups' \in TabRows
    <3>1. call.to \in {"none", "on", "off"}  BY <1>2, <2>1 DEF TabLoad, TabWrite
    <3> QED  BY <1>4, <2>1, <3>1 DEF TabRows, Changed
  <2>3. ~disturbed' => ~disturbed /\ groups' = authorised[active]
    BY <1>1, <1>3, <2>1 DEF Fits
  <2> QED  BY <1>1, <2>1, <2>2, <2>3, TabEnds
<1>7. CASE Tab!Added(r)
  <2>1. PICK load : load = Tab!Load(call.i)  OBVIOUS
  <2>2. Tab!Send(r, load) /\ groups' = groups  BY <1>0, <1>7, <2>1 DEF Tab!Added
  <2>3. load \in TabLoad /\ load.kind = "load" /\ Fits(load)  BY <1>2, <2>1, LoadIs
  <2>4. fetched' \subseteq Groups /\ tab' \in BOOLEAN /\ asks' \in 0 .. MaxAsks
    BY <1>1 DEF TabInv, TabTypes
  <2> QED  BY <1>1, <2>2, <2>3, <2>4, TabSends
<1> QED  BY <1>5, <1>6, <1>7 DEF Tab!Answer

LEMMA TabStep == TabInv /\ [Tab!Next]_(Tab!vars) => TabInv'
<1> SUFFICES ASSUME TabInv, [Tab!Next]_(Tab!vars)  PROVE TabInv'  OBVIOUS
<1>1. ASSUME NEW r \in Calls, Tab!Lose(r)  PROVE TabInv'
  <2>1. /\ r \in Tab!InFlight /\ net' = [net EXCEPT ![r] = Tab!Quiet] /\ disturbed' = TRUE
        /\ UNCHANGED <<authorised, active, tab, groups, fetched, fetching, asks>>
    BY <1>1 DEF Tab!Lose
  <2>2. groups' \in TabRows  BY <2>1 DEF TabInv, TabTypes
  <2> QED  BY <2>1, <2>2, TabEnds
<1>2. CASE Tab!Leave
  <2>1. TabTypes'  BY <1>2 DEF Tab!Leave, TabInv, TabTypes
  <2> QED  BY <1>2, <2>1, TabStill DEF Tab!Leave
<1>3. ASSUME NEW j \in Instances, Tab!Switch(j)  PROVE TabInv'
  <2>1. TabTypes'  BY <1>3 DEF Tab!Switch, TabInv, TabTypes
  <2> QED  BY <1>3, <2>1, TabStill DEF Tab!Switch
<1>4. CASE Tab!FetchFromWhatsApp \/ Tab!Fetched
  <2>1. fetching' \in BOOLEAN /\ fetched' \subseteq Groups
    BY <1>4 DEF Tab!FetchFromWhatsApp, Tab!Fetched, TabInv, TabTypes
  <2>2. UNCHANGED <<authorised, active, tab, groups, net, disturbed, asks>>
    BY <1>4 DEF Tab!FetchFromWhatsApp, Tab!Fetched
  <2>3. TabTypes'  BY <2>1, <2>2 DEF TabInv, TabTypes
  <2> QED  BY <2>2, <2>3, TabStill
<1>5. CASE UNCHANGED Tab!vars
  <2>1. TabTypes'  BY <1>5 DEF Tab!vars, TabInv, TabTypes
  <2> QED  BY <1>5, <2>1, TabStill DEF Tab!vars
<1> QED  BY <1>1, <1>2, <1>3, <1>4, <1>5, TabClicks, TabServes, TabAnswers DEF Tab!Next

LEMMA TabTyped == TabInv /\ faults \in 0 .. MaxFaults => Tab!TypeOK
<1> SUFFICES ASSUME TabInv, faults \in 0 .. MaxFaults  PROVE Tab!TypeOK  OBVIOUS
<1>1. \A r \in Tab!InFlight : net[r] \in TabLoad \cup TabWrite
  BY FlyingIs DEF TabInv, Tab!InFlight
<1>2. \A r \in Tab!InFlight :
        /\ net[r].kind \in {"load", "add", "remove", "flag"}
        /\ net[r].i \in Instances /\ net[r].at \in {"sent", "back"}
  BY <1>1 DEF TabLoad, TabWrite
<1> QED  BY <1>2 DEF TabInv, TabTypes, TabRows, Tab!TypeOK

\* The tab shows the rows of the active instance as the table has them, when no
\* request is under way and none failed or overlapped (SettingsModal.tsx:102-213):
\* GroupsAgree, of the module GroupSettings.
THEOREM TabShowsTable == Tab!Spec => []Tab!GroupsAgree
<1>1. TabInv => Tab!GroupsAgree  BY DEF TabInv
<1> QED  BY <1>1, TabStart, TabStep, PTL DEF Tab!Spec

-----------------------------------------------------------------------------
(* ChatList: a chat lights up for what is new, or because it was marked.   *)

Keys == Sessions \X Chats
Shelves == {"listed", "archived", "gone"}
Stored == [at : Shelves, last : 1 .. MaxTime, manual : BOOLEAN]
LoadRow == [key : Keys, last : 1 .. MaxTime, manual : BOOLEAN]
ChatRow == [key : Keys, manual : BOOLEAN, unread : BOOLEAN]

TalkTypes ==
  /\ now \in 1 .. MaxTime /\ current \in Sessions
  /\ store \in [Keys -> Stored] /\ read \in [Keys -> 0 .. MaxTime]
  /\ chats \subseteq ChatRow /\ begun \subseteq Sessions
  /\ fresh \subseteq Keys /\ marked \subseteq Keys
  /\ acts \in 0 .. MaxActs

\* Nothing is later than the clock; a chat with a message after its moment is
\* fresh, and one the server holds as unread was marked by the user.
KeyOf(k) ==
  /\ store[k].last <= now /\ read[k] <= now
  /\ store[k].last > read[k] => k \in fresh
  /\ store[k].manual => k \in marked

\* The same of a row on its way to the browser, whenever it was read.
RowIs(entry) ==
  /\ entry.last <= now
  /\ entry.last > read[entry.key] => entry.key \in fresh
  /\ entry.manual => entry.key \in marked

LoadOf(l) ==
  /\ l.s \in Sessions /\ l.rows \subseteq LoadRow
  /\ \A entry \in l.rows : entry.key[1] = l.s /\ RowIs(entry)
  /\ \A entry, other \in l.rows : entry.key = other.key => entry = other

Act ==
  [kind : {"markRead", "markUnread", "archive", "delete"}, key : Keys, at : {"sent", "back"}]

ActOf ==
  act # NoAct => /\ act \in Act
                 /\ act.kind = "markUnread" => act.key \in marked

TalkInv ==
  /\ TalkTypes /\ ActOf
  /\ \A k \in Keys : KeyOf(k)
  /\ \A l \in reloads : LoadOf(l)
  /\ Talks!UnreadIsNew

LEMMA KeysAre == Talks!Keys = Keys
BY DEF Talks!Keys, Keys

LEMMA TalkStart == Talks!Init => TalkInv
<1> SUFFICES ASSUME Talks!Init  PROVE TalkInv  OBVIOUS
<1> USE KeysAre DEF Talks!Init
<1>1. TalkTypes
  <2>1. now \in 1 .. MaxTime /\ acts \in 0 .. MaxActs  BY MoreBounds
  <2>2. [at |-> "listed", last |-> 1, manual |-> FALSE] \in Stored
    BY MoreBounds DEF Stored, Shelves
  <2>3. store \in [Keys -> Stored]  BY <2>2
  <2>4. read \in [Keys -> 0 .. MaxTime]  BY MoreBounds
  <2> QED  BY <2>1, <2>3, <2>4 DEF TalkTypes
<1>2. \A k \in Keys : KeyOf(k)  BY MoreBounds DEF KeyOf
<1> QED  BY <1>1, <1>2 DEF TalkInv, ActOf, Talks!UnreadIsNew

\* A load that begins now reads rows that are as they should be.
LEMMA NewLoad ==
  ASSUME TalkTypes, \A k \in Keys : KeyOf(k)', store' = store,
         NEW s \in Sessions, NEW l, l = [s |-> s, rows |-> Talks!RowsOf(s)]
  PROVE  LoadOf(l)'
<1>1. \A entry \in l.rows :
        \E c \in Chats : /\ entry = [key |-> <<s, c>>, last |-> store[<<s, c>>].last,
                                   manual |-> store[<<s, c>>].manual]
                         /\ <<s, c>> \in Keys /\ store[<<s, c>>] \in Stored
  BY DEF Talks!RowsOf, TalkTypes, Keys
<1>2. \A entry \in l.rows :
        /\ entry.key \in Keys /\ entry.key[1] = s /\ entry.last = store[entry.key].last
        /\ entry.manual = store[entry.key].manual
        /\ entry = [key |-> entry.key, last |-> entry.last, manual |-> entry.manual]
        /\ entry \in LoadRow
  <2> SUFFICES ASSUME NEW entry \in l.rows
               PROVE  /\ entry.key \in Keys /\ entry.key[1] = s /\ entry.last = store[entry.key].last
                      /\ entry.manual = store[entry.key].manual
                      /\ entry = [key |-> entry.key, last |-> entry.last, manual |-> entry.manual]
                      /\ entry \in LoadRow
    OBVIOUS
  <2>1. PICK c \in Chats :
          /\ entry = [key |-> <<s, c>>, last |-> store[<<s, c>>].last,
                    manual |-> store[<<s, c>>].manual]
          /\ <<s, c>> \in Keys /\ store[<<s, c>>] \in Stored
    BY <1>1
  <2> QED  BY <2>1 DEF LoadRow, Stored
<1>3. \A entry \in l.rows : RowIs(entry)'
  BY <1>2 DEF RowIs, KeyOf
<1>4. \A entry, other \in l.rows : entry.key = other.key => entry = other  BY <1>2
<1> QED  BY <1>2, <1>3, <1>4 DEF LoadOf

\* A step keeps the loads under way when it brings no chat up to a moment
\* before a message without making it fresh.
LEMMA LoadsKept ==
  ASSUME TalkInv, NEW l \in reloads, now' \in Nat, now <= now',
         read' \in [Keys -> 0 .. MaxTime], marked \subseteq marked',
         \A k \in Keys : \/ read'[k] = now
                         \/ read[k] <= read'[k] /\ (k \in fresh => k \in fresh')
                         \/ k \in fresh'
  PROVE  LoadOf(l)'
<1>1. LoadOf(l) /\ now \in Nat /\ read \in [Keys -> 0 .. MaxTime]
  BY DEF TalkInv, TalkTypes
<1>2. ASSUME NEW entry \in l.rows  PROVE RowIs(entry)'
  <2>1. entry.key \in Keys /\ entry.last \in Nat /\ RowIs(entry)
    BY <1>1 DEF LoadOf, LoadRow
  <2>2. read[entry.key] \in Nat /\ read'[entry.key] \in Nat  BY <1>1, <2>1
  <2> QED  BY <1>1, <2>1, <2>2 DEF RowIs
<1> QED  BY <1>1, <1>2 DEF LoadOf

\* SetUnread of the rows with one JID.
LEMMA SetRows ==
  ASSUME chats \subseteq ChatRow, NEW c \in Chats, NEW b \in BOOLEAN
  PROVE  /\ Talks!SetUnread(chats, c, b) \subseteq ChatRow
         /\ \A entry \in Talks!SetUnread(chats, c, b) :
              \/ entry \in chats /\ entry.key[2] # c
              \/ /\ entry.key[2] = c /\ entry.unread = b
                 /\ \E old \in chats : old.key = entry.key
<1>1. ASSUME NEW entry \in Talks!SetUnread(chats, c, b)
      PROVE  /\ entry \in ChatRow
             /\ \/ entry \in chats /\ entry.key[2] # c
                \/ /\ entry.key[2] = c /\ entry.unread = b
                   /\ \E old \in chats : old.key = entry.key
  <2>1. PICK old \in chats :
          entry = IF old.key[2] = c THEN [old EXCEPT !.unread = b, !.manual = b] ELSE old
    BY DEF Talks!SetUnread
  <2>2. old \in ChatRow  OBVIOUS
  <2>3. CASE old.key[2] = c
    <3>1. /\ entry \in ChatRow /\ entry.key = old.key /\ entry.unread = b
      BY <2>1, <2>2, <2>3 DEF ChatRow
    <3> QED  BY <2>3, <3>1
  <2>4. CASE old.key[2] # c  BY <2>1, <2>2, <2>4
  <2> QED  BY <2>3, <2>4
<1> QED  BY <1>1

\* The browser marks a chat as read.
LEMMA ReadMarks ==
  ASSUME TalkInv, NEW s \in Sessions, NEW c \in Chats, Talks!MarkAsRead(s, c),
         UNCHANGED <<now, store, marked>>
  PROVE  /\ read' \in [Keys -> 0 .. MaxTime] /\ chats' \subseteq ChatRow
         /\ fresh' \subseteq Keys
         /\ \A k \in Keys : KeyOf(k)'
         /\ \A l \in reloads : LoadOf(l)'
         /\ Talks!UnreadIsNew'
<1>1. /\ read' = [read EXCEPT ![<<s, c>>] = now] /\ fresh' = fresh \ {<<s, c>>}
      /\ chats' = Talks!SetUnread(chats, c, FALSE)
      /\ <<s, c>> \in Keys
  BY DEF Talks!MarkAsRead, Keys
<1>2. /\ now \in 1 .. MaxTime /\ read \in [Keys -> 0 .. MaxTime] /\ fresh \subseteq Keys
      /\ chats \subseteq ChatRow /\ store \in [Keys -> Stored]
  BY DEF TalkInv, TalkTypes
<1>3. read' \in [Keys -> 0 .. MaxTime]  BY <1>1, <1>2, MoreBounds
<1>4. /\ read'[<<s, c>>] = now
      /\ \A k \in Keys : k # <<s, c>> => read'[k] = read[k] /\ (k \in fresh' <=> k \in fresh)
  BY <1>1, <1>2
<1>5. ASSUME NEW k \in Keys  PROVE KeyOf(k)'
  <2>1. KeyOf(k)  BY DEF TalkInv
  <2>2. store[k].last \in Nat /\ now \in Nat  BY <1>2 DEF Stored
  <2> QED  BY <1>4, <2>1, <2>2 DEF KeyOf
<1>6. ASSUME NEW l \in reloads  PROVE LoadOf(l)'
  <2>1. \A k \in Keys : \/ read'[k] = now
                        \/ read[k] <= read'[k] /\ (k \in fresh => k \in fresh')
                        \/ k \in fresh'
    BY <1>2, <1>4
  <2>2. now' \in Nat /\ now <= now' /\ marked \subseteq marked'  BY <1>2
  <2>3. LoadOf(l)'  BY <1>3, <2>1, <2>2, LoadsKept
  <2> QED  BY <2>3
<1>7. /\ chats' \subseteq ChatRow
      /\ \A entry \in chats' : entry.unread => entry \in chats /\ entry.key # <<s, c>>
  <2>1. /\ Talks!SetUnread(chats, c, FALSE) \subseteq ChatRow
        /\ \A entry \in Talks!SetUnread(chats, c, FALSE) :
             entry.unread => entry \in chats /\ entry.key[2] # c
    BY <1>2, SetRows
  <2>2. <<s, c>>[2] = c  OBVIOUS
  <2>3. \A entry \in chats' : entry.unread => entry \in chats /\ entry.key[2] # c
    BY <1>1, <2>1
  <2>4. \A entry \in chats' : entry.unread => entry \in chats /\ entry.key # <<s, c>>
    BY <2>2, <2>3
  <2> QED  BY <1>1, <2>1, <2>4
<1>8. Talks!UnreadIsNew'
  <2>1. \A entry \in chats : entry.unread => entry.key \in fresh \cup marked
    BY DEF TalkInv, Talks!UnreadIsNew
  <2> QED  BY <1>1, <1>7, <2>1 DEF Talks!UnreadIsNew
<1> QED  BY <1>1, <1>2, <1>3, <1>5, <1>6, <1>7, <1>8

\* The answer to a load becomes the list.
LEMMA TalkLoads ==
  ASSUME TalkInv, NEW l \in reloads, Talks!Loaded(l)
  PROVE  TalkInv'
<1> DEFINE first == l.s \notin begun /\ l.rows # {}
           Of(k) == CHOOSE entry \in l.rows : entry.key = k
           moments == [k \in Keys |-> IF first /\ \E entry \in l.rows : entry.key = k
                                        THEN Of(k).last ELSE read[k]]
<1>1. /\ reloads' = reloads \ {l} /\ read' = moments
      /\ begun' = (IF first THEN begun \cup {l.s} ELSE begun)
      /\ chats' = {[key |-> entry.key, manual |-> entry.manual,
                    unread |-> entry.manual \/ entry.last > moments[entry.key]] : entry \in l.rows}
      /\ fresh' = fresh \cup {k \in Keys : moments[k] < read[k]}
      /\ UNCHANGED <<now, store, current, act, marked, acts>>
  BY KeysAre DEF Talks!Loaded
<1>2. /\ now \in 1 .. MaxTime /\ read \in [Keys -> 0 .. MaxTime] /\ store \in [Keys -> Stored]
      /\ fresh \subseteq Keys
  BY DEF TalkInv, TalkTypes
<1>3. LoadOf(l)  BY DEF TalkInv
<1>4. \A entry \in l.rows : /\ entry.key \in Keys /\ entry.last \in 1 .. MaxTime
                          /\ entry.manual \in BOOLEAN /\ RowIs(entry)
                          /\ Of(entry.key) = entry
  <2> SUFFICES ASSUME NEW entry \in l.rows
               PROVE  /\ entry.key \in Keys /\ entry.last \in 1 .. MaxTime
                      /\ entry.manual \in BOOLEAN /\ RowIs(entry)
                      /\ Of(entry.key) = entry
    OBVIOUS
  <2>1. entry \in LoadRow /\ RowIs(entry)  BY <1>3 DEF LoadOf
  <2>2. Of(entry.key) \in l.rows /\ Of(entry.key).key = entry.key  OBVIOUS
  <2>3. Of(entry.key) = entry  BY <1>3, <2>2 DEF LoadOf
  <2> QED  BY <2>1, <2>3 DEF LoadRow
<1> HIDE DEF Of
<1>5. ASSUME NEW k \in Keys
      PROVE  \/ moments[k] = read[k]
             \/ \E entry \in l.rows : entry.key = k /\ moments[k] = entry.last /\ first
  <2>1. CASE first /\ \E entry \in l.rows : entry.key = k
    <3>1. PICK entry \in l.rows : entry.key = k  BY <2>1
    <3>2. moments[k] = entry.last  BY <1>4, <2>1, <3>1
    <3> QED  BY <2>1, <3>1, <3>2
  <2>2. CASE ~(first /\ \E entry \in l.rows : entry.key = k)  BY <2>2
  <2> QED  BY <2>1, <2>2
<1>6. \A entry \in l.rows : moments[entry.key] \in {entry.last, read[entry.key]}
  BY <1>4, <1>5
<1>7. moments \in [Keys -> 0 .. MaxTime] /\ \A k \in Keys : moments[k] <= now
  <2>1. ASSUME NEW k \in Keys  PROVE moments[k] \in 0 .. MaxTime /\ moments[k] <= now
    <3>1. read[k] <= now  BY DEF TalkInv, KeyOf
    <3>2. CASE moments[k] = read[k]  BY <1>2, <3>1, <3>2
    <3>3. ASSUME NEW entry \in l.rows, moments[k] = entry.last  PROVE moments[k] \in 0 .. MaxTime /\ moments[k] <= now
      BY <1>4, <3>3, MoreBounds DEF RowIs
    <3> QED  BY <1>5, <3>2, <3>3
  <2>2. moments = [k \in Keys |-> moments[k]]  OBVIOUS
  <2> HIDE DEF moments
  <2> QED  BY <2>1, <2>2
<1> HIDE DEF moments, first
<1>8. \A k \in Keys : /\ k \in fresh => k \in fresh'
                      /\ read'[k] < read[k] => k \in fresh'
  BY <1>1
<1>9. \A k \in Keys : read'[k] \in Nat /\ read[k] \in Nat  BY <1>1, <1>2, <1>7
<1>10. ASSUME NEW q \in reloads  PROVE LoadOf(q)'
  <2>1. \A k \in Keys : \/ read'[k] = now
                        \/ read[k] <= read'[k] /\ (k \in fresh => k \in fresh')
                        \/ k \in fresh'
    BY <1>8, <1>9
  <2>2. /\ now' \in Nat /\ now <= now' /\ marked \subseteq marked'
        /\ read' \in [Keys -> 0 .. MaxTime]
    BY <1>1, <1>2, <1>7
  <2> QED  BY <2>1, <2>2, LoadsKept
<1>11. ASSUME NEW k \in Keys  PROVE KeyOf(k)'
  <2>1. KeyOf(k) /\ store[k].last \in Nat  BY <1>2 DEF TalkInv, Stored
  <2>2. read'[k] <= now'  BY <1>1, <1>7
  <2>3. store'[k] = store[k]  BY <1>1
  <2>4. store'[k].last > read'[k] => k \in fresh'
    BY <1>8, <1>9, <2>1, <2>3 DEF KeyOf
  <2> QED  BY <1>1, <2>1, <2>2, <2>3, <2>4 DEF KeyOf
<1>12. chats' \subseteq ChatRow /\ Talks!UnreadIsNew'
  <2>1. ASSUME NEW x \in chats'
        PROVE  x \in ChatRow /\ (x.unread => x.key \in fresh' \cup marked')
    <3>1. PICK entry \in l.rows :
            x = [key |-> entry.key, manual |-> entry.manual,
                 unread |-> entry.manual \/ entry.last > moments[entry.key]]
      BY <1>1
    <3>2. x.key = entry.key /\ x.key \in Keys /\ x.manual = entry.manual
      BY <1>4, <3>1
    <3>3. x.unread = (entry.manual \/ entry.last > moments[entry.key])  BY <3>1
    <3>4. x \in ChatRow
      <4>1. (entry.manual \/ entry.last > moments[entry.key]) \in BOOLEAN  OBVIOUS
      <4> QED  BY <1>4, <3>1, <4>1 DEF ChatRow
    <3>5. ASSUME entry.last > moments[entry.key]  PROVE entry.key \in fresh'
      <4>1. moments[entry.key] = read[entry.key]  BY <1>4, <1>6, <3>5
      <4>2. entry.key \in fresh  BY <1>4, <3>5, <4>1 DEF RowIs
      <4> QED  BY <1>1, <4>2
    <3>6. entry.manual => entry.key \in marked'  BY <1>1, <1>4 DEF RowIs
    <3> QED  BY <3>2, <3>3, <3>4, <3>5, <3>6
  <2> QED  BY <2>1 DEF Talks!UnreadIsNew
<1>13. TalkTypes'
  <2>1. begun' \subseteq Sessions /\ fresh' \subseteq Keys
    BY <1>1, <1>2, <1>3 DEF TalkInv, TalkTypes, LoadOf
  <2> QED  BY <1>1, <1>7, <1>12, <2>1 DEF TalkInv, TalkTypes
<1>14. ActOf'  BY <1>1 DEF TalkInv, ActOf
<1> QED  BY <1>1, <1>10, <1>11, <1>12, <1>13, <1>14 DEF TalkInv

\* A step that leaves the moments alone, and what is fresh or marked.
LEMMA TalkStill ==
  ASSUME TalkInv, TalkTypes', ActOf', \A k \in Keys : KeyOf(k)',
         now' \in Nat, now <= now', read' = read, chats' = chats,
         fresh \subseteq fresh', marked \subseteq marked',
         \A l \in reloads' : l \in reloads \/ LoadOf(l)'
  PROVE  TalkInv'
<1>1. ASSUME NEW l \in reloads'  PROVE LoadOf(l)'
  <2>1. CASE l \in reloads
    <3>1. read \in [Keys -> 0 .. MaxTime]  BY DEF TalkInv, TalkTypes
    <3>2. \A k \in Keys : \/ read'[k] = now
                          \/ read[k] <= read'[k] /\ (k \in fresh => k \in fresh')
                          \/ k \in fresh'
      BY <3>1
    <3> QED  BY <2>1, <3>1, <3>2, LoadsKept
  <2> QED  BY <1>1, <2>1
<1>2. Talks!UnreadIsNew'  BY DEF TalkInv, Talks!UnreadIsNew
<1> QED  BY <1>1, <1>2 DEF TalkInv

LEMMA TalkTime ==
  ASSUME TalkInv, Talks!Tick \/ \E k \in Talks!Keys : Talks!Arrive(k)
  PROVE  TalkInv'
<1>1. /\ now \in 1 .. MaxTime /\ read \in [Keys -> 0 .. MaxTime] /\ store \in [Keys -> Stored]
      /\ fresh \subseteq Keys /\ \A k \in Keys : KeyOf(k)
  BY DEF TalkInv, TalkTypes
<1>2. \A k \in Keys : store[k].last \in Nat /\ read[k] \in Nat  BY <1>1 DEF Stored
<1>3. CASE Talks!Tick
  <2>1. /\ now < MaxTime /\ now' = now + 1
        /\ UNCHANGED <<store, current, chats, read, begun, reloads, act, fresh, marked, acts>>
    BY <1>3 DEF Talks!Tick
  <2>2. now' \in 1 .. MaxTime  BY <1>1, <2>1, MoreBounds
  <2>3. TalkTypes' /\ ActOf'  BY <2>1, <2>2 DEF TalkInv, TalkTypes, ActOf
  <2>4. ASSUME NEW k \in Keys  PROVE KeyOf(k)'
    BY <1>1, <1>2, <2>1 DEF KeyOf
  <2> QED  BY <1>1, <2>1, <2>3, <2>4, TalkStill
<1>4. ASSUME NEW j \in Keys, Talks!Arrive(j)  PROVE TalkInv'
  <2>1. PICK new \in Stored :
          /\ store' = [store EXCEPT ![j] = new] /\ new.last = now
          /\ new.manual => store[j].manual
    <3> DEFINE n == IF store[j].at = "gone" THEN [at |-> "listed", last |-> now, manual |-> FALSE]
                                            ELSE [store[j] EXCEPT !.last = now]
    <3>1. n \in Stored /\ n.last = now /\ (n.manual => store[j].manual)
      <4>1. store[j] \in Stored  BY <1>1
      <4>2. CASE store[j].at = "gone"  BY <1>1, <4>2 DEF Stored, Shelves
      <4>3. CASE store[j].at # "gone"  BY <1>1, <4>1, <4>3 DEF Stored
      <4> QED  BY <4>2, <4>3
    <3>2. store' = [store EXCEPT ![j] = n]  BY <1>4 DEF Talks!Arrive
    <3> HIDE DEF n
    <3> QED  BY <3>1, <3>2
  <2>2. /\ fresh' = fresh \cup {j}
        /\ UNCHANGED <<now, current, chats, read, begun, reloads, act, marked, acts>>
    BY <1>4 DEF Talks!Arrive
  <2>3. store'[j] = new /\ \A k \in Keys : k # j => store'[k] = store[k]
    BY <1>1, <2>1
  <2>4. store' \in [Keys -> Stored]  BY <1>1, <2>1
  <2>5. TalkTypes' /\ ActOf'  BY <2>2, <2>4 DEF TalkInv, TalkTypes, ActOf
  <2>6. ASSUME NEW k \in Keys  PROVE KeyOf(k)'
    <3>1. CASE k = j  BY <1>1, <2>1, <2>2, <2>3, <3>1 DEF KeyOf
    <3>2. CASE k # j  BY <1>1, <2>2, <2>3, <3>2 DEF KeyOf
    <3> QED  BY <3>1, <3>2
  <2> QED  BY <1>1, <2>2, <2>5, <2>6, TalkStill
<1> QED  BY <1>3, <1>4, KeysAre

LEMMA TalkPolls ==
  ASSUME TalkInv, \/ Talks!Poll
                  \/ \E l \in reloads : Talks!Unloaded(l)
                  \/ \E s \in Sessions : Talks!Switch(s)
                  \/ Talks!Thrown
                  \/ UNCHANGED Talks!vars
  PROVE  TalkInv'
<1>1. UNCHANGED <<now, store, chats, read, begun, fresh, marked>> /\ act' \in {act, NoAct}
  BY DEF Talks!Poll, Talks!Unloaded, Talks!Switch, Talks!Thrown, Talks!vars
<1>2. current' \in Sessions /\ acts' \in 0 .. MaxActs
  BY MoreBounds DEF TalkInv, TalkTypes, Talks!Poll, Talks!Unloaded, Talks!Switch, Talks!Thrown,
     Talks!vars
<1>3. TalkTypes' /\ ActOf'  BY <1>1, <1>2 DEF TalkInv, TalkTypes, ActOf
<1>4. \A k \in Keys : KeyOf(k)'  BY <1>1 DEF TalkInv, KeyOf
<1>5. ASSUME NEW l \in reloads', l \notin reloads  PROVE LoadOf(l)'
  <2>1. Talks!Reload(current)
    BY <1>5 DEF Talks!Poll, Talks!Unloaded, Talks!Switch, Talks!Thrown, Talks!vars
  <2>2. l = [s |-> current, rows |-> Talks!RowsOf(current)]  BY <1>5, <2>1 DEF Talks!Reload
  <2>3. current \in Sessions /\ TalkTypes  BY DEF TalkInv, TalkTypes
  <2> QED  BY <1>1, <1>4, <2>2, <2>3, NewLoad
<1>6. now \in Nat  BY DEF TalkInv, TalkTypes
<1> QED  BY <1>1, <1>3, <1>4, <1>5, <1>6, TalkStill

LEMMA TalkOpens ==
  ASSUME TalkInv, NEW c \in Chats, Talks!Open(c)
  PROVE  TalkInv'
<1>1. /\ Talks!MarkAsRead(current, c)
      /\ UNCHANGED <<now, store, current, begun, reloads, act, marked, acts>>
  BY DEF Talks!Open
<1>2. current \in Sessions  BY DEF TalkInv, TalkTypes
<1>3. /\ read' \in [Keys -> 0 .. MaxTime] /\ chats' \subseteq ChatRow
      /\ fresh' \subseteq Keys /\ Talks!UnreadIsNew'
      /\ \A k \in Keys : KeyOf(k)'
      /\ \A l \in reloads : LoadOf(l)'
  BY <1>1, <1>2, ReadMarks
<1>4. TalkTypes' /\ ActOf'  BY <1>1, <1>3 DEF TalkInv, TalkTypes, ActOf
<1> QED  BY <1>1, <1>3, <1>4 DEF TalkInv

LEMMA TalkChooses ==
  ASSUME TalkInv, NEW c \in Chats,
         NEW kind \in {"markRead", "markUnread", "archive", "delete"}, Talks!Choose(kind, c)
  PROVE  TalkInv'
<1>1. /\ act' = [kind |-> kind, key |-> <<current, c>>, at |-> "sent"]
      /\ marked' = (IF kind = "markUnread" THEN marked \cup {<<current, c>>} ELSE marked)
      /\ UNCHANGED <<now, store, current, chats, read, begun, reloads, fresh>>
      /\ acts' \in 0 .. MaxActs
  BY MoreBounds DEF Talks!Choose, TalkInv, TalkTypes
<1>2. <<current, c>> \in Keys  BY DEF TalkInv, TalkTypes, Keys
<1>3. marked \subseteq marked' /\ TalkTypes'  BY <1>1, <1>2 DEF TalkInv, TalkTypes
<1>4. ActOf'  BY <1>1, <1>2 DEF ActOf, Act
<1>5. \A k \in Keys : KeyOf(k)'  BY <1>1, <1>3 DEF TalkInv, KeyOf
<1>6. now \in Nat  BY DEF TalkInv, TalkTypes
<1> QED  BY <1>1, <1>3, <1>4, <1>5, <1>6, TalkStill

LEMMA TalkServes ==
  ASSUME TalkInv, Talks!Serve
  PROVE  TalkInv'
<1>1. /\ act # NoAct /\ act' = [act EXCEPT !.at = "back"]
      /\ UNCHANGED <<now, current, chats, read, begun, reloads, fresh, marked, acts>>
  BY DEF Talks!Serve
<1>2. /\ act \in Act
      /\ act.kind \in {"markRead", "markUnread", "archive", "delete"} /\ act.key \in Keys
      /\ act.kind = "markUnread" => act.key \in marked
  BY <1>1 DEF TalkInv, ActOf, Act
<1>3. store \in [Keys -> Stored]  BY DEF TalkInv, TalkTypes
<1>4. PICK new \in Stored :
        /\ store' = [store EXCEPT ![act.key] = new]
        /\ new.last = store[act.key].last
        /\ new.manual => store[act.key].manual \/ act.kind = "markUnread"
  <2> DEFINE old == store[act.key]
             n == IF old.at = "gone" THEN old ELSE Talks!Acted(old, act.kind)
  <2>1. old \in Stored  BY <1>2, <1>3
  <2>2. n \in Stored /\ n.last = old.last /\ (n.manual => old.manual \/ act.kind = "markUnread")
    <3> HIDE DEF old
    <3>1. CASE act.kind = "markUnread"  BY <2>1, <3>1 DEF Stored, Talks!Acted
    <3>2. CASE act.kind = "markRead"  BY <2>1, <3>2 DEF Stored, Talks!Acted
    <3>3. CASE act.kind = "archive"  BY <2>1, <3>3 DEF Stored, Talks!Acted, Shelves
    <3>4. CASE act.kind = "delete"  BY <2>1, <3>4 DEF Stored, Talks!Acted, Shelves
    <3> QED  BY <1>2, <3>1, <3>2, <3>3, <3>4
  <2>3. store' = [store EXCEPT ![act.key] = n] \/ store' = store  BY DEF Talks!Serve
  <2>4. store = [store EXCEPT ![act.key] = old]  BY <1>2, <1>3
  <2> HIDE DEF n
  <2> QED  BY <2>1, <2>2, <2>3, <2>4
<1>5. /\ store' \in [Keys -> Stored] /\ store'[act.key] = new
      /\ \A k \in Keys : k # act.key => store'[k] = store[k]
  BY <1>2, <1>3, <1>4
<1>6. ASSUME NEW k \in Keys  PROVE KeyOf(k)'
  <2>1. KeyOf(k)  BY DEF TalkInv
  <2>2. CASE k = act.key  BY <1>1, <1>2, <1>4, <1>5, <2>1, <2>2 DEF KeyOf
  <2>3. CASE k # act.key  BY <1>1, <1>5, <2>1, <2>3 DEF KeyOf
  <2> QED  BY <2>2, <2>3
<1>7. TalkTypes'  BY <1>1, <1>5 DEF TalkInv, TalkTypes
<1>8. ActOf'  BY <1>1, <1>2 DEF ActOf, Act
<1>9. now \in Nat  BY DEF TalkInv, TalkTypes
<1> QED  BY <1>1, <1>6, <1>7, <1>8, <1>9, TalkStill

\* The browser marks every row of a JID as unread, as the user asked.
LEMMA UnreadMarks ==
  ASSUME TalkInv, NEW c \in Chats,
         chats' = Talks!SetUnread(chats, c, TRUE),
         marked' = marked \cup {entry.key : entry \in Talks!Listed(c)},
         UNCHANGED <<now, store, read, fresh>>
  PROVE  /\ chats' \subseteq ChatRow /\ marked \subseteq marked' /\ marked' \subseteq Keys
         /\ \A k \in Keys : KeyOf(k)'
         /\ \A l \in reloads : LoadOf(l)'
         /\ Talks!UnreadIsNew'
<1>1. /\ chats \subseteq ChatRow /\ marked \subseteq Keys
      /\ read \in [Keys -> 0 .. MaxTime] /\ now \in Nat
  BY DEF TalkInv, TalkTypes
<1>2. /\ Talks!SetUnread(chats, c, TRUE) \subseteq ChatRow
      /\ \A entry \in Talks!SetUnread(chats, c, TRUE) :
           \/ entry \in chats /\ entry.key[2] # c
           \/ /\ entry.key[2] = c /\ entry.unread = TRUE
              /\ \E old \in chats : old.key = entry.key
  BY <1>1, SetRows
<1>3. marked \subseteq marked' /\ marked' \subseteq Keys
  BY <1>1 DEF Talks!Listed, ChatRow
<1>4. \A k \in Keys : KeyOf(k)'  BY <1>3 DEF TalkInv, KeyOf
<1>5. ASSUME NEW l \in reloads  PROVE LoadOf(l)'
  <2>1. \A k \in Keys : \/ read'[k] = now
                        \/ read[k] <= read'[k] /\ (k \in fresh => k \in fresh')
                        \/ k \in fresh'
    BY <1>1
  <2>2. now' \in Nat /\ now <= now' /\ read' \in [Keys -> 0 .. MaxTime]  BY <1>1
  <2> QED  BY <1>3, <2>1, <2>2, LoadsKept
<1>6. Talks!UnreadIsNew'
  <2>1. ASSUME NEW entry \in chats', entry.unread  PROVE entry.key \in fresh' \cup marked'
    <3>1. CASE entry \in chats
      BY <1>3, <2>1, <3>1 DEF TalkInv, Talks!UnreadIsNew
    <3>2. ASSUME entry.key[2] = c, NEW old \in chats, old.key = entry.key
          PROVE  entry.key \in fresh' \cup marked'
      BY <3>2 DEF Talks!Listed
    <3> QED  BY <1>2, <2>1, <3>1, <3>2
  <2> QED  BY <2>1 DEF Talks!UnreadIsNew
<1> QED  BY <1>2, <1>3, <1>4, <1>5, <1>6

LEMMA TalkAnswers ==
  ASSUME TalkInv, Talks!Answered
  PROVE  TalkInv'
<1> DEFINE s == act.key[1]
           c == act.key[2]
<1>1. /\ act # NoAct /\ act' = NoAct /\ Talks!Reload(s)
      /\ UNCHANGED <<now, store, current, begun, acts>>
  BY DEF Talks!Answered
<1>2. s \in Sessions /\ c \in Chats  BY <1>1 DEF TalkInv, ActOf, Act, Keys
<1> HIDE DEF s, c
<1>3. /\ read' \in [Keys -> 0 .. MaxTime] /\ chats' \subseteq ChatRow
      /\ fresh' \subseteq Keys /\ marked' \subseteq Keys
      /\ \A k \in Keys : KeyOf(k)'
      /\ \A l \in reloads : LoadOf(l)'
      /\ Talks!UnreadIsNew'
  <2>0. /\ read \in [Keys -> 0 .. MaxTime] /\ chats \subseteq ChatRow
        /\ fresh \subseteq Keys /\ marked \subseteq Keys
    BY DEF TalkInv, TalkTypes
  <2>1. CASE Talks!MarkAsRead(s, c) /\ UNCHANGED marked
    BY <1>1, <1>2, <2>0, <2>1, ReadMarks
  <2>2. CASE /\ chats' = Talks!SetUnread(chats, c, TRUE)
             /\ marked' = marked \cup {entry.key : entry \in Talks!Listed(c)}
             /\ UNCHANGED <<read, fresh>>
    BY <1>1, <1>2, <2>0, <2>2, UnreadMarks
  <2>3. CASE UNCHANGED <<chats, read, fresh, marked>>
    BY <1>1, <2>0, <2>3 DEF TalkInv, KeyOf, LoadOf, RowIs, Talks!UnreadIsNew
  <2> QED  BY <2>1, <2>2, <2>3 DEF Talks!Answered, s, c
<1>4. \A l \in reloads' : LoadOf(l)'
  <2>1. PICK q : q = [s |-> s, rows |-> Talks!RowsOf(s)]  OBVIOUS
  <2>2. LoadOf(q)'  BY <1>1, <1>2, <1>3, <2>1, NewLoad DEF TalkInv
  <2>3. reloads' = reloads \cup {q}  BY <1>1, <2>1 DEF Talks!Reload
  <2> QED  BY <1>3, <2>2, <2>3
<1>5. TalkTypes' /\ ActOf'  BY <1>1, <1>3 DEF TalkInv, TalkTypes, ActOf
<1> QED  BY <1>3, <1>4, <1>5 DEF TalkInv

LEMMA TalkStep ==
  ASSUME TalkInv, [Talks!Next]_(Talks!vars)
  PROVE  TalkInv'
<1>1. CASE Talks!Tick \/ \E k \in Talks!Keys : Talks!Arrive(k)  BY <1>1, TalkTime
<1>2. CASE \/ Talks!Poll \/ Talks!Thrown \/ UNCHANGED Talks!vars
           \/ \E l \in reloads : Talks!Unloaded(l)
           \/ \E s \in Sessions : Talks!Switch(s)
  BY <1>2, TalkPolls
<1>3. CASE Talks!Serve  BY <1>3, TalkServes
<1>4. CASE Talks!Answered  BY <1>4, TalkAnswers
<1>5. ASSUME NEW l \in reloads, Talks!Loaded(l)  PROVE TalkInv'  BY <1>5, TalkLoads
<1>6. ASSUME NEW c \in Chats, Talks!Open(c)  PROVE TalkInv'  BY <1>6, TalkOpens
<1>7. ASSUME NEW c \in Chats,
             NEW kind \in {"markRead", "markUnread", "archive", "delete"},
             Talks!Choose(kind, c)
      PROVE  TalkInv'
  BY <1>7, TalkChooses
<1> QED  BY <1>1, <1>2, <1>3, <1>4, <1>5, <1>6, <1>7 DEF Talks!Next

LEMMA TalkTyped ==
  ASSUME TalkInv, faults \in 0 .. MaxFaults
  PROVE  Talks!TypeOK
<1> USE KeysAre
<1>1. store \in [Keys -> [at : {"listed", "archived", "gone"}, last : 1 .. MaxTime,
                         manual : BOOLEAN]]
  BY DEF TalkInv, TalkTypes, Stored, Shelves
<1>2. chats \subseteq [key : Keys, manual : BOOLEAN, unread : BOOLEAN]
  BY DEF TalkInv, TalkTypes, ChatRow
<1>3. \A l \in reloads : l.s \in Sessions /\ \A entry \in l.rows : entry.key[1] = l.s
  BY DEF TalkInv, LoadOf
<1> QED  BY <1>1, <1>2, <1>3 DEF TalkInv, TalkTypes, Talks!TypeOK

\* A chat lights up only for a message the user has not read or because the user
\* marked it (useChats.ts:57-249): UnreadIsNew, of the module ChatList.
THEOREM ChatsLightForNews == Talks!Spec => []Talks!UnreadIsNew
<1>1. TalkInv => Talks!UnreadIsNew  BY DEF TalkInv
<1> QED  BY <1>1, TalkStart, TalkStep, PTL DEF Talks!Spec

-----------------------------------------------------------------------------
(* The services together, one of which moves while the others wait.        *)

ServicesInv ==
  /\ TypeOK /\ Task!TypeOK /\ LinkInv /\ TabInv /\ TalkInv
  /\ faults \in 0 .. MaxFaults

OneMoreFault == faults' = faults \/ (faults < MaxFaults /\ faults' = faults + 1)

LEMMA FaultsBounded ==
  ASSUME faults \in 0 .. MaxFaults, OneMoreFault
  PROVE  faults' \in 0 .. MaxFaults
BY BoundsAreNumbers DEF OneMoreFault

LEMMA LinkFaults ==
  ASSUME Link!Next
  PROVE  OneMoreFault
<1> USE DEF OneMoreFault, Link!Fault, Link!ui, Link!go
<1>1. CASE \E f \in Flows : Link!Click(f)
  BY <1>1 DEF Link!Click, Link!ClickCreate, Link!ClickReconnect, Link!ClickDelete
<1>2. ASSUME NEW f \in Flows, Link!FlowStep(f)  PROVE OneMoreFault
  <2>1. CASE Link!CreateSession(f) \/ Link!InsertRow(f)
    BY <2>1 DEF Link!CreateSession, Link!InsertRow
  <2>2. CASE Link!Reload(f) \/ Link!Auth(f)  BY <2>2 DEF Link!Reload, Link!Auth
  <2>3. CASE Link!AuthAnswered(f) \/ Link!AuthTimeout(f)
    BY <2>3 DEF Link!AuthAnswered, Link!AuthTimeout
  <2>4. CASE Link!Unlink(f) \/ Link!DeleteRow(f)  BY <2>4 DEF Link!Unlink, Link!DeleteRow
  <2> QED  BY <1>2, <2>1, <2>2, <2>3, <2>4 DEF Link!FlowStep
<1>3. CASE \E s \in Sessions : Link!Connect(s) \/ Link!Expire(s) \/ Link!Scan(s)
  BY <1>3 DEF Link!Connect, Link!Expire, Link!Scan
<1>4. CASE Link!Window
  BY <1>4 DEF Link!Window, Link!Retry, Link!Open, Link!Close, Link!LoadPage, Link!Poll,
       Link!Refresh, Link!Turn, Link!Polled
<1> QED  BY <1>1, <1>2, <1>3, <1>4 DEF Link!Next

LEMMA TabFaults ==
  ASSUME Tab!Next
  PROVE  OneMoreFault
<1> USE DEF OneMoreFault, Tab!Fault
<1>1. CASE Tab!Leave \/ Tab!FetchFromWhatsApp \/ Tab!Fetched \/ \E i \in Instances : Tab!Switch(i)
  BY <1>1 DEF Tab!Leave, Tab!FetchFromWhatsApp, Tab!Fetched, Tab!Switch
<1>2. CASE \E r \in Calls : Tab!Enter(r) \/ Tab!Answer(r)  BY <1>2 DEF Tab!Enter, Tab!Answer
<1>3. CASE \E r \in Calls : Tab!Serve(r) \/ Tab!Lose(r)  BY <1>3 DEF Tab!Serve, Tab!Lose
<1>4. CASE \E r \in Calls, g \in Groups : Tab!ToggleAuthorize(r, g) \/ Tab!ToggleGroupFlag(r, g)
  BY <1>4 DEF Tab!ToggleAuthorize, Tab!ToggleGroupFlag
<1> QED  BY <1>1, <1>2, <1>3, <1>4 DEF Tab!Next

LEMMA TalkFaults ==
  ASSUME Talks!Next
  PROVE  OneMoreFault
<1> USE DEF OneMoreFault, Talks!Fault
<1>1. CASE Talks!Tick \/ Talks!Poll \/ Talks!Serve
  BY <1>1 DEF Talks!Tick, Talks!Poll, Talks!Serve
<1>2. CASE Talks!Answered \/ Talks!Thrown  BY <1>2 DEF Talks!Answered, Talks!Thrown
<1>3. CASE (\E k \in Talks!Keys : Talks!Arrive(k)) \/ \E s \in Sessions : Talks!Switch(s)
  BY <1>3 DEF Talks!Arrive, Talks!Switch
<1>4. CASE \E l \in reloads : Talks!Loaded(l) \/ Talks!Unloaded(l)
  BY <1>4 DEF Talks!Loaded, Talks!Unloaded
<1>5. ASSUME NEW c \in Chats,
             \/ Talks!Open(c)
             \/ \E kind \in {"markRead", "markUnread", "archive", "delete"} : Talks!Choose(kind, c)
      PROVE  OneMoreFault
  BY <1>5 DEF Talks!Open, Talks!Choose
<1> QED  BY <1>1, <1>2, <1>3, <1>4, <1>5 DEF Talks!Next

LEMMA GroupWaits ==
  ASSUME TypeOK, UNCHANGED groupVars, faults' \in 0 .. MaxFaults
  PROVE  TypeOK'
BY DEF groupVars, TypeOK

LEMMA TasksWait ==
  ASSUME Task!TypeOK, UNCHANGED taskVars, faults' \in 0 .. MaxFaults
  PROVE  Task!TypeOK'
<1>1. ViewNumbers' /\ ViewData'
  BY ViewTypes DEF taskVars, ViewNumbers, ViewData, Task!Blank
<1> QED  BY <1>1, ViewTypesNext

LEMMA TabWaits ==
  ASSUME TabInv, UNCHANGED tabVars
  PROVE  TabInv'
<1>1. UNCHANGED <<authorised, active, tab, groups, fetched, fetching, net, disturbed, asks>>
  BY DEF tabVars
<1> QED  BY <1>1 DEF TabInv, TabTypes, Fits, Changed, Tab!InFlight, Tab!GroupsAgree

LEMMA TalksWait ==
  ASSUME TalkInv, UNCHANGED talkVars
  PROVE  TalkInv'
<1>1. UNCHANGED <<now, store, current, chats, read, begun, reloads, act, fresh, marked, acts>>
  BY DEF talkVars
<1>2. TalkTypes' /\ ActOf' /\ Talks!UnreadIsNew'
  BY <1>1 DEF TalkInv, TalkTypes, ActOf, Talks!UnreadIsNew
<1>3. (\A k \in Keys : KeyOf(k)') /\ \A l \in reloads' : LoadOf(l)'
  BY <1>1 DEF TalkInv, KeyOf, LoadOf, RowIs
<1> QED  BY <1>2, <1>3 DEF TalkInv

LEMMA ServicesStart == ServicesInit => ServicesInv
<1> SUFFICES ASSUME ServicesInit  PROVE ServicesInv  OBVIOUS
<1>1. TypeOK /\ Task!TypeOK  BY Start, ViewStart DEF ServicesInit, IInv
<1>2. LinkInv /\ TabInv /\ TalkInv
  BY LinkStart, TabStart, TalkStart DEF ServicesInit
<1>3. faults \in 0 .. MaxFaults  BY <1>1 DEF TypeOK
<1> QED  BY <1>1, <1>2, <1>3 DEF ServicesInv

LEMMA ServicesStep == ServicesInv /\ [ServicesNext]_allVars => ServicesInv'
<1> SUFFICES ASSUME ServicesInv, [ServicesNext]_allVars  PROVE ServicesInv'  OBVIOUS
<1>0. TypeOK /\ Task!TypeOK /\ LinkInv /\ TabInv /\ TalkInv /\ faults \in 0 .. MaxFaults
  BY DEF ServicesInv
<1>1. CASE Next /\ UNCHANGED <<taskVars, linkVars, tabVars, talkVars>>
  <2>1. TypeOK'  BY <1>0, <1>1, TypeStep
  <2>2. faults' \in 0 .. MaxFaults  BY <2>1 DEF TypeOK
  <2> QED  BY <1>0, <1>1, <2>1, <2>2, TasksWait, LinkStill, TabWaits, TalksWait DEF ServicesInv
<1>2. CASE Task!Next /\ UNCHANGED <<groupVars, linkVars, tabVars, talkVars>>
  <2>1. Task!TypeOK'  BY <1>0, <1>2, ViewTypeStep
  <2>2. faults' \in 0 .. MaxFaults  BY <2>1, ViewTypesNext
  <2> QED  BY <1>0, <1>2, <2>1, <2>2, GroupWaits, LinkStill, TabWaits, TalksWait DEF ServicesInv
<1>3. CASE Link!Next /\ UNCHANGED <<groupVars, taskVars, tabVars, talkVars>>
  <2>1. LinkInv'  BY <1>0, <1>3, LinkStep
  <2>2. faults' \in 0 .. MaxFaults  BY <1>0, <1>3, LinkFaults, FaultsBounded
  <2> QED  BY <1>0, <1>3, <2>1, <2>2, GroupWaits, TasksWait, TabWaits, TalksWait DEF ServicesInv
<1>4. CASE Tab!Next /\ UNCHANGED <<groupVars, taskVars, linkVars, talkVars>>
  <2>1. TabInv'  BY <1>0, <1>4, TabStep
  <2>2. faults' \in 0 .. MaxFaults  BY <1>0, <1>4, TabFaults, FaultsBounded
  <2> QED
    BY <1>0, <1>4, <2>1, <2>2, GroupWaits, TasksWait, LinkStill, TalksWait DEF ServicesInv
<1>5. CASE Talks!Next /\ UNCHANGED <<groupVars, taskVars, linkVars, tabVars>>
  <2>1. TalkInv'  BY <1>0, <1>5, TalkStep
  <2>2. faults' \in 0 .. MaxFaults  BY <1>0, <1>5, TalkFaults, FaultsBounded
  <2> QED  BY <1>0, <1>5, <2>1, <2>2, GroupWaits, TasksWait, LinkStill, TabWaits DEF ServicesInv
<1>6. CASE UNCHANGED allVars
  <2>1. UNCHANGED <<groupVars, taskVars, linkVars, tabVars, talkVars, faults>>
    BY <1>6 DEF allVars
  <2> QED
    BY <1>0, <2>1, GroupWaits, TasksWait, LinkStill, TabWaits, TalksWait DEF ServicesInv
<1> QED  BY <1>1, <1>2, <1>3, <1>4, <1>5, <1>6 DEF ServicesNext

\* The settings window shows the code of the instance being linked and the groups
\* as they are stored, and chats light up for what is new: ScreenIsTrue, for any
\* sessions, groups, chats, requests in flight and faults
\* (SettingsModal.tsx:102-330, useChats.ts:57-249).
THEOREM ScreensStayTrue == ServicesSpec => []ScreenIsTrue
<1>1. ServicesInv => ScreenIsTrue
  BY DEF ServicesInv, LinkInv, TabInv, TalkInv, ScreenIsTrue
<1> QED  BY <1>1, ServicesStart, ServicesStep, PTL DEF ServicesSpec

\* The task and its requests, the dialog, the linking, the settings and the list
\* keep their types, with the faults of all counted together (api/tasks,
\* useTasks.ts, SettingsModal.tsx, useChats.ts).
THEOREM ServicesTypesCorrect == ServicesSpec => []ServicesTypeOK
<1>1. ServicesInv => ServicesTypeOK
  BY LinkTyped, TabTyped, TalkTyped DEF ServicesInv, ServicesTypeOK
<1> QED  BY <1>1, ServicesStart, ServicesStep, PTL DEF ServicesSpec

===============================================================================
