-------------------------------- MODULE MCAudio --------------------------------
(* Instances of AudioPipeline for TLC: one audio, its event read once or     *)
(* several times.                                                            *)
EXTENDS AudioPipeline, TLC

MCOf == [d \in Deliveries |-> CHOOSE a \in Audios : TRUE]

MCKind(self, from_me, is_group) ==
  [valid |-> TRUE, self |-> self, from_me |-> from_me, is_group |-> is_group]

\* Every case of the filter, and an event the schema refuses.
MCKinds ==
  {MCKind(FALSE, f, g) : f, g \in BOOLEAN}
    \cup {MCKind(TRUE, FALSE, FALSE), [MCKind(FALSE, FALSE, FALSE) EXCEPT !.valid = FALSE]}

\* The safety run has the audios of others, where the group's settings decide
\* most; the liveness run all but those of others in a group.
MCHeard  == {k \in MCKinds : ~k.from_me}
MCSpoken == {k \in MCKinds : k.is_group => k.from_me}

\* What the settings of a group come to for the filter: skipped, transcribed
\* with a reply, and without.
MCGroups ==
  {NoGroup} \cup {[listed |-> TRUE, transcribe_all |-> TRUE, send_reply |-> s] : s \in BOOLEAN}

\* The safety run looks at deliveries up to their names.
MCInit == Init /\ \A a \in Audios : group[a] \in MCGroups
MCSpec == MCInit /\ [][Next /\ \A a \in Audios : group'[a] \in MCGroups]_vars
MCSymmetry == Permutations(Deliveries)

=============================================================================
