-------------------------- MODULE MCPromoExclusivity --------------------------
\* PromoExclusivity on small instances.
EXTENDS PromoExclusivity, FiniteSets

CONSTANTS g1, g2

\* The k-th of a set of numbers, counted from 0 and round.
Nth(S, k) == CHOOSE x \in S : Cardinality({y \in S : y < x}) = k % Cardinality(S)

HashOf(g) == IF g = g1 THEN 1 ELSE 2

OwnerByHash == [x \in Groups \X NonEmpty(Accounts) |-> Nth(x[2], HashOf(x[1]))]

ChosenByHash ==
  [x \in Groups \X Accounts \X NonEmpty(Sources) |-> Nth(x[3], HashOf(x[1]) + x[2])]

\* accounts.json is not sorted by id.
RowsBackwards == [a \in Accounts |-> 10 - a]

\* Two accounts with an ad of their own, one with both.
TwoAds == [a \in Accounts |-> CASE a = 1 -> {1} [] a = 2 -> {1, 2} [] OTHER -> {2}]

Begins(adverts, placed) ==
  {p \in [row : {Accounts}, on : {Accounts}, routes : {TwoAds}, ads : adverts, held : placed] :
     WellFormed(p)}

\* Which accounts, all or all but one, are active and who has which group is open.
AnyProfiles ==
  Begins({[a \in Accounts |-> IF a \in A THEN TwoAds[a] ELSE {}] : A \in {S \in SUBSET Accounts : Cardinality(S) >= 2}},
         {[a \in Accounts |-> IF a \in H THEN {IF a = 1 THEN 1 ELSE 2} \X Groups ELSE {}] :
            H \in SUBSET Accounts})

NoGroups == Begins({TwoAds}, {[a \in Accounts |-> {}]})

AnyCatalog == {{}, Groups}

=============================================================================
