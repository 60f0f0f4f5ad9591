----------------------------- MODULE MCServices -----------------------------
(* An instance of Services for TLC.  The instance and the session shown at *)
(* the start are fixed, and the contacts and the tasks come in order.  Two *)
(* requests for a task overlap, or three follow one another.  The loads of *)
(* the list of tasks overlap before a task is opened, and no other loads   *)
(* run meanwhile: the list and the dialog share the tasks only.            *)
EXTENDS Services

CONSTANTS s1, i1, c1, c2, t1, t2

MCInit == ServicesInit /\ active = i1 /\ current = s1

MCLoading == {i \in 1 .. MaxLists : lists[i] # {}}

MCSpec ==
  /\ MCInit
  /\ [][/\ ServicesNext
        /\ \A r \in Requests : c2 \in req'[r].who => \E q \in 1 .. r : c1 \in req'[q].who
        /\ last' = MaxRequests => ~raced'
        /\ t2 \in born' => t1 \in born'
        /\ Cardinality(MCLoading') > 1 => opens' = 0
        /\ MCLoading' = {} \/ (loads' = {} /\ changing' = {})]_allVars
  /\ ServicesFairness

=============================================================================
