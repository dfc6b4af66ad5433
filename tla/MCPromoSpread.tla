---------------------------- MODULE MCPromoSpread ----------------------------
\* PromoSpread on small instances: the configurations a start may find.
EXTENDS PromoSpread

CONSTANTS s1, s2, g1, g2

\* Every enabled source is shared to every group.
Plain == [groups |-> [s \in Sources |-> Groups], foreign |-> {}, rpaused |-> {},
          gpaused |-> FALSE, dry |-> FALSE, seen |-> TRUE, ack |-> TRUE]

Rehearsal == [Plain EXCEPT !.dry = TRUE]
Unrouted == [Plain EXCEPT !.groups = [s \in Sources |-> {}]]
WithoutG1 == [Plain EXCEPT !.groups = [s \in Sources |-> Groups \ {g1}]]
WithoutS1 == [Plain EXCEPT !.groups[s1] = {}]
PausedS1 == [Plain EXCEPT !.rpaused = {s1}]
AllPaused == [Plain EXCEPT !.gpaused = TRUE]

LiveConfigs == {Plain, Rehearsal}
GroupConfigs == {Plain, WithoutG1, WithoutS1}
PostConfigs == {Plain, PausedS1, AllPaused, Unrouted}

AllFromFirst == [p \in Posts |-> s1]

=============================================================================
