--------------------------- MODULE MCChannelForward ---------------------------
\* ChannelForward on small instances: two routes of one source to one destination.
EXTENDS ChannelForward

CONSTANTS s1, d1

AllFromS1 == [m \in Messages |-> s1]
RoutesFromS1 == [r \in Routes |-> s1]
RoutesToD1 == [r \in Routes |-> d1]
Distinct == [m \in Messages |-> m]

\* The default of a route.
Direct == [limit |-> [r \in Routes |-> 0], scheduled |-> {}, dedup |-> {}, blocked |-> {},
           dry |-> FALSE]

DryRunning == [Direct EXCEPT !.dry = TRUE, !.scheduled = {2}]
\* Each route takes one of the messages, and they share a cap of one.
Capped1 == [Direct EXCEPT !.limit = [r \in Routes |-> 1], !.blocked = {<<1, 2>>, <<2, 1>>}]
Evening == [Direct EXCEPT !.scheduled = {2}, !.dedup = {2}, !.blocked = {<<2, 1>>}]

DirectOnly == {Direct}
AllConfigs == {DryRunning, Capped1, Evening}

\* Caps are counted in one run of the process, the files are read again in a second one.
OnceOrTwice == [c \in Configs |-> IF c \in {Direct, Evening} THEN 2 ELSE 1]

FirstOfFirst == {<<1, 1>>}
AllRoutes == {Routes}

=============================================================================
