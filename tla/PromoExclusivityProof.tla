------------------------ MODULE PromoExclusivityProof ------------------------
(***************************************************************************)
(* For any number of accounts, groups and sources, any catalog, and any    *)
(* hashes: accounts that read the same profiles never post to one group,   *)
(* a sync leaves no group on two profiles it pushes, and it never takes a  *)
(* group from its only holder.                                             *)
(***************************************************************************)
EXTENDS PromoExclusivity, WellFoundedInduction, TLAPS

(***************************************************************************)
(* The profiles stay well-formed                                           *)
(***************************************************************************)

\* Least is an element of its set: the order of the routes picks one of them.
LEMMA LeastIn ==
  ASSUME NEW S, S \subseteq Nat, S # {}
  PROVE  Least(S) \in S
<1> DEFINE R == OpToRel(<, Nat)
<1>1. IsWellFoundedOn(R, Nat)
  BY NatLessThanWellFounded
<1>2. \E x \in S : \A y \in S : ~ (<<y, x>> \in R)
  <2> HIDE DEF R
  <2> QED
    BY <1>1, WFMin
<1>3. PICK x \in S : \A y \in S : ~ (<<y, x>> \in R)
  BY <1>2
<1>4. \A y \in S : x <= y
  <2> SUFFICES ASSUME NEW y \in S PROVE x <= y
    OBVIOUS
  <2>1. x \in Nat /\ y \in Nat
    OBVIOUS
  <2>2. ~(y < x)
    BY <1>3, <2>1 DEF OpToRel
  <2> QED
    BY <2>1, <2>2
<1> QED
  BY <1>4 DEF Least

\* ensure_group_on_profile attaches a group to a route that exists.
LEMMA HomeIn ==
  ASSUME NEW p \in Repos, NEW a \in Accounts, NEW s, p.ads[a] # {}
  PROVE  Home(p, a, s) \in p.routes[a]
<1>1. p.ads[a] \subseteq p.routes[a] /\ p.ads[a] \subseteq Nat
  BY ExclusivityAssumption DEF Repos, Profiles, WellFormed
<1>2. Least(p.ads[a]) \in p.ads[a]
  BY <1>1, LeastIn
<1> QED
  BY <1>1, <1>2 DEF Home

\* An eligible account has a source, which its profile has a route for in the end.
LEMMA EligibleSource ==
  ASSUME NEW p \in Repos, NEW a \in Eligible(p)
  PROVE  /\ a \in Accounts
         /\ AdSources(p, a) \in NonEmpty(Sources)
         /\ AdSources(p, a) \subseteq WithSources(p).routes[a]
BY ExclusivityAssumption
   DEF Repos, Profiles, WellFormed, Eligible, Collected, AdSources, NonEmpty, WithSources

\* Adding the sources keeps the profiles well-formed and leaves the groups alone.
LEMMA WithSourcesRepo ==
  ASSUME NEW p \in Repos
  PROVE  /\ WithSources(p) \in Repos
         /\ WithSources(p).held = p.held
         /\ WithSources(p).row = p.row /\ WithSources(p).on = p.on
<1>1. \A a \in Accounts : AdSources(p, a) \subseteq Sources
  BY ExclusivityAssumption DEF Repos, Profiles, AdSources
<1>2. WithSources(p) \in Profiles
  BY <1>1 DEF Repos, Profiles, WithSources
<1>3. WellFormed(WithSources(p))
  BY <1>1 DEF Repos, Profiles, WellFormed, WithSources
<1>4. /\ WithSources(p).held = p.held
      /\ WithSources(p).row = p.row /\ WithSources(p).on = p.on
  BY DEF Repos, Profiles, WithSources
<1> QED
  BY <1>2, <1>3, <1>4 DEF Repos

\* The groups each account has after the claims.
LEMMA ClaimHeld ==
  ASSUME NEW p \in Repos, NEW new \in SUBSET Groups, Eligible(p) # {}
  PROVE  /\ Claim(p, new) \in Repos
         /\ \A a \in Accounts : Claim(p, new).held[a] = HeldAfterClaim(p, new, a)
         /\ Claim(p, new).routes = WithSources(p).routes
         /\ Claim(p, new).ads = WithSources(p).ads
<1> DEFINE H(a) == HeldAfterClaim(p, new, a)
<1>1. WithSources(p) \in Repos /\ WithSources(p).held = p.held
  BY WithSourcesRepo
<1>2. Claim(p, new) = [WithSources(p) EXCEPT !.held = [a \in Accounts |-> H(a)]]
  BY DEF Claim
<1>3. \A a \in Accounts : H(a) \subseteq WithSources(p).routes[a] \X Groups
  <2> SUFFICES ASSUME NEW a \in Accounts, NEW x \in H(a)
               PROVE  x \in WithSources(p).routes[a] \X Groups
    OBVIOUS
  <2>1. CASE x \in p.held[a]
    BY <1>1, <2>1 DEF Repos, WellFormed
  <2>2. CASE x \notin p.held[a]
    <3>1. PICK g \in new : /\ Owner[<<g, Eligible(p)>>] = a
                           /\ x = <<Chosen[<<g, a, AdSources(p, a)>>], g>>
      BY <2>2 DEF HeldAfterClaim
    <3>2. a \in Eligible(p)
      <4>1. Eligible(p) \in NonEmpty(Accounts)
        BY DEF Eligible, Collected, NonEmpty, Repos, Profiles
      <4> QED
        BY <3>1, <4>1, ExclusivityAssumption
    <3>3. Chosen[<<g, a, AdSources(p, a)>>] \in AdSources(p, a)
      BY <3>2, EligibleSource, ExclusivityAssumption
    <3> QED
      BY <3>1, <3>2, <3>3, EligibleSource
  <2> QED
    BY <2>1, <2>2
<1> HIDE DEF H
<1>4. /\ Claim(p, new).held = [a \in Accounts |-> H(a)]
      /\ Claim(p, new).routes = WithSources(p).routes
      /\ Claim(p, new).ads = WithSources(p).ads
      /\ Claim(p, new).row = WithSources(p).row
      /\ Claim(p, new).on = WithSources(p).on
  BY <1>1, <1>2 DEF Repos, Profiles
<1>5. \A a \in Accounts : WithSources(p).routes[a] \subseteq Sources
  BY <1>1 DEF Repos, Profiles
<1>6. [a \in Accounts |-> H(a)] \in [Accounts -> SUBSET (Sources \X Groups)]
  BY <1>3, <1>5
<1>7. Claim(p, new) \in Profiles
  BY <1>1, <1>2, <1>6 DEF Repos, Profiles
<1>8. WellFormed(Claim(p, new))
  BY <1>1, <1>3, <1>4 DEF Repos, WellFormed
<1>9. \A a \in Accounts : Claim(p, new).held[a] = H(a)
  BY <1>4
<1> QED
  BY <1>4, <1>7, <1>8, <1>9 DEF Repos, H

\* The groups each account has after reconcile_exclusive_profiles.
LEMMA ReconcileHeld ==
  ASSUME NEW p \in Repos, NEW A \in SUBSET Accounts, NEW ids \in SUBSET A, ids # {},
         \A a \in ids : p.ads[a] # {}
  PROVE  /\ Reconcile(p, A, ids) \in Repos
         /\ \A a \in Accounts : Reconcile(p, A, ids).held[a] = HeldReconciled(p, A, ids, a)
         /\ Reconcile(p, A, ids).routes = p.routes
         /\ Reconcile(p, A, ids).ads = p.ads
<1> DEFINE H(a) == HeldReconciled(p, A, ids, a)
<1>1. Reconcile(p, A, ids) = [p EXCEPT !.held = [a \in Accounts |-> H(a)]]
  BY DEF Reconcile
<1>2. \A a \in Accounts : H(a) \subseteq p.routes[a] \X Groups
  <2> SUFFICES ASSUME NEW a \in Accounts, NEW x \in H(a)
               PROVE  x \in p.routes[a] \X Groups
    OBVIOUS
  <2>1. CASE x \in p.held[a]
    BY <2>1 DEF Repos, WellFormed
  <2>2. CASE x \notin p.held[a]
    <3>1. PICK g \in Contested(p, A) : /\ Owner[<<g, ids>>] = a
                                       /\ x = <<Home(p, a, FirstSource(p, g)), g>>
      BY <2>2 DEF HeldReconciled, Moved
    <3>2. g \in Groups /\ ids \in NonEmpty(Accounts)
      BY <3>1 DEF Contested, NonEmpty
    <3>3. a \in ids
      BY <3>1, <3>2, ExclusivityAssumption
    <3>4. Home(p, a, FirstSource(p, g)) \in p.routes[a]
      BY <3>3, HomeIn
    <3> QED
      BY <3>1, <3>2, <3>4
  <2> QED
    BY <2>1, <2>2
<1> HIDE DEF H
<1>3. /\ Reconcile(p, A, ids).held = [a \in Accounts |-> H(a)]
      /\ Reconcile(p, A, ids).routes = p.routes
      /\ Reconcile(p, A, ids).ads = p.ads
  BY <1>1 DEF Repos, Profiles
<1>4. \A a \in Accounts : p.routes[a] \subseteq Sources
  BY DEF Repos, Profiles
<1>5. [a \in Accounts |-> H(a)] \in [Accounts -> SUBSET (Sources \X Groups)]
  BY <1>2, <1>4
<1>6. Reconcile(p, A, ids) \in Profiles
  BY <1>1, <1>5 DEF Repos, Profiles
<1>7. WellFormed(Reconcile(p, A, ids))
  BY <1>2, <1>3 DEF Repos, WellFormed
<1>8. \A a \in Accounts : Reconcile(p, A, ids).held[a] = H(a)
  BY <1>3
<1> QED
  BY <1>3, <1>6, <1>7, <1>8 DEF Repos, H

LEMMA ReconcileRepo ==
  ASSUME NEW p \in Repos, NEW A \in SUBSET Accounts, NEW ids \in SUBSET A,
         \A a \in ids : p.ads[a] # {}
  PROVE  Reconcile(p, A, ids) \in Repos
<1>1. CASE ids = {}
  BY <1>1 DEF Reconcile
<1>2. CASE ids # {}
  BY <1>2, ReconcileHeld
<1> QED
  BY <1>1, <1>2

\* What sync() has in memory when it is through.
LEMMA SyncedRepo ==
  ASSUME NEW p \in Repos, NEW c \in Catalogs, Eligible(p) # {}
  PROVE  /\ Unowned(p, c) \in SUBSET Groups
         /\ Claim(p, Unowned(p, c)) \in Repos
         /\ Hosts(p) \subseteq Collected(p) /\ Collected(p) \subseteq Accounts
         /\ \A a \in Hosts(p) : Claim(p, Unowned(p, c)).ads[a] # {}
         /\ Synced(p, c) \in Repos
<1>1. Unowned(p, c) \in SUBSET Groups
  BY ExclusivityAssumption DEF Unowned
<1>2. /\ Claim(p, Unowned(p, c)) \in Repos
      /\ Claim(p, Unowned(p, c)).ads = WithSources(p).ads
  BY <1>1, ClaimHeld
<1>3. Hosts(p) \subseteq Collected(p) /\ Collected(p) \subseteq Accounts
  BY DEF Hosts, Eligible, Collected, Repos, Profiles
<1>4. \A a \in Hosts(p) : Claim(p, Unowned(p, c)).ads[a] # {}
  BY <1>2 DEF Hosts
<1>5. Synced(p, c) \in Repos
  BY <1>2, <1>3, <1>4, ReconcileRepo DEF Synced
<1> QED
  BY <1>1, <1>2, <1>3, <1>4, <1>5

LEMMA AfterSyncRepo ==
  ASSUME NEW p \in Repos, NEW c \in Catalogs, Eligible(p) # {}
  PROVE  /\ AfterSync(p, c) \in Repos
         /\ \A a \in Accounts : AfterSync(p, c).held[a] =
              IF a \in Pushed(p) THEN Synced(p, c).held[a] ELSE p.held[a]
<1>1. Synced(p, c) \in Repos
  BY SyncedRepo
<1>2. AfterSync(p, c) \in Profiles
  BY <1>1 DEF AfterSync, Commit, Repos, Profiles
<1>3. \A a \in Accounts :
        /\ AfterSync(p, c).held[a] = IF a \in Pushed(p) THEN Synced(p, c).held[a] ELSE p.held[a]
        /\ AfterSync(p, c).ads[a] = IF a \in Pushed(p) THEN Synced(p, c).ads[a] ELSE p.ads[a]
        /\ AfterSync(p, c).routes[a] =
             IF a \in Pushed(p) THEN Synced(p, c).routes[a] ELSE p.routes[a]
  BY <1>1 DEF AfterSync, Commit, Repos, Profiles
<1>4. WellFormed(AfterSync(p, c))
  <2> SUFFICES ASSUME NEW a \in Accounts
               PROVE  /\ AfterSync(p, c).ads[a] \subseteq AfterSync(p, c).routes[a]
                      /\ AfterSync(p, c).held[a] \subseteq AfterSync(p, c).routes[a] \X Groups
    BY DEF WellFormed
  <2>1. CASE a \in Pushed(p)
    BY <1>1, <1>3, <2>1 DEF Repos, WellFormed
  <2>2. CASE a \notin Pushed(p)
    BY <1>3, <2>2 DEF Repos, WellFormed
  <2> QED
    BY <2>1, <2>2
<1> QED
  BY <1>2, <1>3, <1>4 DEF Repos

(***************************************************************************)
(* Type correctness                                                        *)
(***************************************************************************)

LEMMA InitTypeOK == Init => TypeOK
BY ExclusivityAssumption DEF Init, TypeOK, NoRepo, Repos, Profiles, WellFormed

LEMMA StepTypeOK ==
  ASSUME TypeOK, [Next]_vars
  PROVE  TypeOK'
<1> USE DEF TypeOK
<1>1. CASE UNCHANGED vars
  BY <1>1 DEF vars
<1>2. ASSUME NEW c \in Catalogs, Sync(c)
      PROVE  TypeOK'
  <2>1. repo' \in Repos
    BY <1>2, AfterSyncRepo DEF Sync
  <2> QED
    BY <1>2, <2>1 DEF Sync
<1>3. CASE Repair
  <2> DEFINE ids == {a \in Collected(repo) : repo.ads[a] # {}}
  <2>1. Collected(repo) \in SUBSET Accounts
    BY DEF Collected, Repos, Profiles
  <2>2. ids \in SUBSET Collected(repo) /\ \A a \in ids : repo.ads[a] # {}
    OBVIOUS
  <2>3. repo' = Reconcile(repo, Collected(repo), ids)
    BY <1>3 DEF Repair
  <2> HIDE DEF ids
  <2>4. repo' \in Repos
    BY <2>1, <2>2, <2>3, ReconcileRepo
  <2> QED
    BY <1>3, <2>4 DEF Repair
<1>4. ASSUME NEW a \in Accounts, JobStart(a)
      PROVE  TypeOK'
  BY <1>4 DEF JobStart, Advertised
<1>5. ASSUME NEW a \in Accounts, JobEnd(a)
      PROVE  TypeOK'
  <2>1. NoRepo \in Repos
    BY DEF NoRepo, Repos, Profiles, WellFormed
  <2> QED
    BY <1>5, <2>1 DEF JobEnd
<1>6. CASE Operator
  <2>1. ASSUME NEW p \in Repos, EditFile(p)
        PROVE  TypeOK'
    BY <2>1, ExclusivityAssumption DEF EditFile, Edit
  <2>2. ASSUME NEW a \in Accounts, SwitchAccount(a)
        PROVE  TypeOK'
    <3>1. /\ [repo EXCEPT !.row = IF a \in @ THEN @ \ {a} ELSE @ \cup {a}] \in Repos
          /\ [repo EXCEPT !.on = IF a \in @ THEN @ \ {a} ELSE @ \cup {a}] \in Repos
      BY DEF Repos, Profiles, WellFormed
    <3> QED
      BY <2>1, <2>2, <3>1 DEF SwitchAccount
  <2>3. ASSUME NEW a \in Accounts, NEW s \in Sources, SwitchRoute(a, s)
        PROVE  TypeOK'
    <3>1. s \in repo.routes[a]
      BY <2>3 DEF SwitchRoute
    <3>2. [repo EXCEPT !.ads[a] = IF s \in @ THEN @ \ {s} ELSE @ \cup {s}] \in Repos
      BY <3>1, ZenonT(60) DEF Repos, Profiles, WellFormed
    <3> QED
      BY <2>1, <2>3, <3>2 DEF SwitchRoute
  <2>4. ASSUME NEW a \in Accounts, NEW s \in Sources, NEW g \in Groups, AddGroup(a, s, g)
        PROVE  TypeOK'
    <3> DEFINE newHeld == [repo.held EXCEPT ![a] = @ \cup {<<s, g>>}]
               newRoutes == [repo.routes EXCEPT ![a] = @ \cup {s}]
               newAds == [repo.ads EXCEPT ![a] = IF s \in repo.routes[a] THEN @ ELSE @ \cup {s}]
               q == [repo EXCEPT !.held = newHeld, !.routes = newRoutes, !.ads = newAds]
    <3>1. /\ repo.held \in [Accounts -> SUBSET (Sources \X Groups)]
          /\ repo.routes \in [Accounts -> SUBSET Sources]
          /\ repo.ads \in [Accounts -> SUBSET Sources]
      BY DEF Repos, Profiles
    <3>2. /\ newHeld \in [Accounts -> SUBSET (Sources \X Groups)]
          /\ newRoutes \in [Accounts -> SUBSET Sources]
          /\ newAds \in [Accounts -> SUBSET Sources]
      BY <3>1
    <3>3. \A b \in Accounts :
            /\ newAds[b] \subseteq newRoutes[b]
            /\ newHeld[b] \subseteq newRoutes[b] \X Groups
      <4> SUFFICES ASSUME NEW b \in Accounts
                   PROVE  newAds[b] \subseteq newRoutes[b] /\ newHeld[b] \subseteq newRoutes[b] \X Groups
        OBVIOUS
      <4>1. /\ repo.ads[b] \subseteq repo.routes[b]
            /\ repo.held[b] \subseteq repo.routes[b] \X Groups
        BY DEF Repos, WellFormed
      <4>2. CASE b = a
        BY <3>1, <4>1, <4>2
      <4>3. CASE b # a
        BY <3>1, <4>1, <4>3
      <4> QED
        BY <4>2, <4>3
    <3>4. EditFile(q)
      BY <2>4 DEF AddGroup
    <3> HIDE DEF newHeld, newRoutes, newAds
    <3>5. q \in Profiles
      BY <3>2 DEF Repos, Profiles
    <3>6. q.held = newHeld /\ q.routes = newRoutes /\ q.ads = newAds
      BY DEF Repos, Profiles
    <3>7. q \in Repos
      BY <3>3, <3>5, <3>6 DEF Repos, WellFormed
    <3> QED
      BY <2>1, <3>4, <3>7
  <2>5. ASSUME NEW a \in Accounts, NEW s \in Sources, NEW g \in Groups, RemoveGroup(a, s, g)
        PROVE  TypeOK'
    <3>1. [repo EXCEPT !.held[a] = @ \ {<<s, g>>}] \in Repos
      BY DEF Repos, Profiles, WellFormed
    <3> QED
      BY <2>1, <2>5, <3>1 DEF RemoveGroup
  <2>6. ASSUME NEW a \in Accounts, NEW g \in Groups, ChatAdd(a, g) \/ ChatRemove(a, g)
        PROVE  TypeOK'
    BY <2>6, ExclusivityAssumption DEF ChatAdd, ChatRemove, Edit
  <2> QED
    BY <1>6, <2>2, <2>3, <2>4, <2>5, <2>6 DEF Operator
<1> QED
  BY <1>1, <1>2, <1>3, <1>4, <1>5, <1>6 DEF Next

\* The profiles stay what migrate_routes can read: each group on a route of its account.
THEOREM ProfilesCorrect == Spec => []TypeOK
<1>1. Init => TypeOK
  BY InitTypeOK
<1>2. TypeOK /\ [Next]_vars => TypeOK'
  BY StepTypeOK
<1> QED
  BY <1>1, <1>2, PTL DEF Spec

(***************************************************************************)
(* Exclusivity                                                             *)
(***************************************************************************)

\* Of two accounts that advertise a group in the same profiles, one finds it foreign.
LEMMA OneSnapshot ==
  ASSUME NEW p \in Repos, NEW a \in Accounts, NEW b \in Accounts, a # b,
         NEW g \in Groups,
         g \in Advertised(p, a), g \in Advertised(p, b)
  PROVE  g \in Foreign(p, a) \cup Foreign(p, b)
<1>1. a \in Sourced(p) /\ b \in Sourced(p)
  BY DEF Advertised, Sourced, Siblings, ActivePromo, Repos, Profiles, WellFormed
<1>2. Holds(p, a, g) /\ Holds(p, b, g)
  BY DEF Advertised, Holds, Repos, Profiles, WellFormed
<1>3. {a, b} \subseteq Holders(p, Siblings(p), g)
  BY <1>1, <1>2 DEF Holders, Sourced
<1>4. /\ Holders(p, Siblings(p), g) \notin {{}, {a}}
      /\ Holders(p, Siblings(p), g) \notin {{}, {b}}
  BY <1>3
<1>5. Owner[<<g, Sourced(p)>>] # a \/ Owner[<<g, Sourced(p)>>] # b
  OBVIOUS
<1> QED
  BY <1>1, <1>4, <1>5 DEF Foreign

\* Jobs that began with the same profiles never post to the same group, unless by chat.
THEOREM OnlyStaleSafe == Spec => []OnlyStale
<1>1. TypeOK => OnlyStale
  <2> SUFFICES ASSUME TypeOK,
                      NEW a \in up, NEW b \in up, a # b, checkout[a] = checkout[b],
                      NEW g \in Targets(a) \cap Targets(b)
               PROVE  \/ g \notin Advertised(checkout[a], a)
                      \/ g \notin Advertised(checkout[b], b)
    BY DEF OnlyStale
  <2>1. a \in Accounts /\ b \in Accounts /\ checkout[a] \in Repos /\ g \in Groups
    BY DEF TypeOK, Targets
  <2>2. g \notin Foreign(checkout[a], a) /\ g \notin Foreign(checkout[a], b)
    BY DEF Targets
  <2> QED
    BY <2>1, <2>2, OneSnapshot
<1> QED
  BY <1>1, ProfilesCorrect, PTL

\* Reconciling leaves a group that had two holders with its rightful owner at most, and gives
\* no group a second holder.
LEMMA ReconcileExclusive ==
  ASSUME NEW p \in Repos, NEW A \in SUBSET Accounts, NEW ids \in SUBSET A, ids # {},
         \A a \in ids : p.ads[a] # {},
         NEW a \in A, NEW b \in A, NEW g \in Groups,
         Holds(Reconcile(p, A, ids), a, g), Holds(Reconcile(p, A, ids), b, g)
  PROVE  a = b
<1>1. \A d \in A : Holds(Reconcile(p, A, ids), d, g) =>
        IF g \in Contested(p, A) THEN d = Owner[<<g, ids>>] ELSE Holds(p, d, g)
  <2> SUFFICES ASSUME NEW d \in A, Holds(Reconcile(p, A, ids), d, g)
               PROVE  IF g \in Contested(p, A) THEN d = Owner[<<g, ids>>] ELSE Holds(p, d, g)
    OBVIOUS
  <2>1. PICK s \in Sources : <<s, g>> \in Reconcile(p, A, ids).held[d]
    BY DEF Holds
  <2>2. Reconcile(p, A, ids).held[d] = HeldReconciled(p, A, ids, d)
    BY ReconcileHeld
  <2>3. CASE <<s, g>> \in p.held[d] /\ (g \in Contested(p, A) => Owner[<<g, ids>>] = d)
    BY <2>3 DEF Holds
  <2>4. CASE g \in Contested(p, A) /\ Owner[<<g, ids>>] = d
    BY <2>4
  <2>5. \/ <<s, g>> \in p.held[d] /\ (g \in Contested(p, A) => Owner[<<g, ids>>] = d)
        \/ g \in Contested(p, A) /\ Owner[<<g, ids>>] = d
    <3>1. CASE <<s, g>> \in p.held[d] /\ (<<s, g>>[2] \in Contested(p, A) =>
                                            Owner[<<<<s, g>>[2], ids>>] = d)
      BY <3>1
    <3>2. CASE <<s, g>> \in Moved(p, A, ids, d)
      BY <3>2 DEF Moved
    <3> QED
      BY <2>1, <2>2, <3>1, <3>2 DEF HeldReconciled
  <2> QED
    BY <2>3, <2>4, <2>5
<1>2. CASE g \in Contested(p, A)
  BY <1>1, <1>2
<1>3. CASE g \notin Contested(p, A)
  <2>1. Holds(p, a, g) /\ Holds(p, b, g)
    BY <1>1, <1>3
  <2> QED
    BY <1>3, <2>1 DEF Contested
<1> QED
  BY <1>2, <1>3

\* After a sync no group is on two of the profiles it has pushed.
THEOREM PushedExclusiveSafe == Spec => []PushedExclusive
<1>1. TypeOK => PushedExclusive
  <2> SUFFICES ASSUME TypeOK, Hosts(repo) # {}, NEW c \in Catalogs, NEW g \in Groups,
                      NEW a \in Pushed(repo), NEW b \in Pushed(repo),
                      Holds(AfterSync(repo, c), a, g), Holds(AfterSync(repo, c), b, g)
               PROVE  a = b
    BY DEF PushedExclusive
  <2>1. repo \in Repos /\ Eligible(repo) # {}
    BY DEF TypeOK, Hosts
  <2>2. a \in Collected(repo) /\ b \in Collected(repo)
    BY DEF Pushed, Eligible
  <2>3. Holds(Synced(repo, c), a, g) /\ Holds(Synced(repo, c), b, g)
    BY <2>1, <2>2, AfterSyncRepo, SyncedRepo DEF Holds
  <2> QED
    BY <2>1, <2>2, <2>3, SyncedRepo, ReconcileExclusive DEF Synced
<1> QED
  BY <1>1, ProfilesCorrect, PTL

\* A group whose only holder is eligible is neither claimed nor contested.
LEMMA StickyHolder ==
  ASSUME NEW p \in Repos, NEW c \in Catalogs, NEW g \in Groups, NEW a \in Eligible(p),
         Holders(p, Collected(p), g) = {a}
  PROVE  Holds(AfterSync(p, c), a, g)
<1> DEFINE q == Claim(p, Unowned(p, c))
<1>1. a \in Accounts /\ a \in Collected(p) /\ Eligible(p) # {}
  BY DEF Eligible, Collected, Repos, Profiles
<1>2. g \notin Unowned(p, c)
  <2>1. FirstHolder(p, g) = a
    BY ExclusivityAssumption, <1>1 DEF FirstHolder
  <2> QED
    BY <2>1 DEF Unowned
<1>3. \A d \in Collected(p) : Holds(q, d, g) <=> Holds(p, d, g)
  <2> SUFFICES ASSUME NEW d \in Collected(p)
               PROVE  Holds(q, d, g) <=> Holds(p, d, g)
    OBVIOUS
  <2>1. d \in Accounts
    BY SyncedRepo, <1>1
  <2>2. q.held[d] = HeldAfterClaim(p, Unowned(p, c), d)
    BY <1>1, <2>1, SyncedRepo, ClaimHeld
  <2>3. \A s \in Sources : <<s, g>> \in q.held[d] <=> <<s, g>> \in p.held[d]
    <3> SUFFICES ASSUME NEW s \in Sources
                 PROVE  <<s, g>> \in q.held[d] <=> <<s, g>> \in p.held[d]
      OBVIOUS
    <3>1. <<s, g>>[2] \notin Unowned(p, c)
      BY <1>2
    <3>2. <<s, g>> \notin {<<Chosen[<<h, d, AdSources(p, d)>>], h>> :
                            h \in {k \in Unowned(p, c) : Owner[<<k, Eligible(p)>>] = d}}
      BY <1>2
    <3> QED
      BY <2>2, <3>1, <3>2 DEF HeldAfterClaim
  <2> QED
    BY <2>3 DEF Holds
<1>4. Holds(p, a, g) /\ \A d \in Collected(p) : Holds(p, d, g) => d = a
  BY DEF Holders
<1>5. g \notin Contested(q, Collected(p))
  BY <1>3, <1>4 DEF Contested
<1> HIDE DEF q
<1>6. Holds(Reconcile(q, Collected(p), Hosts(p)), a, g)
  <2>1. CASE Hosts(p) = {}
    BY <1>1, <1>3, <1>4, <2>1 DEF Reconcile
  <2>2. CASE Hosts(p) # {}
    <3>1. /\ q \in Repos
          /\ Hosts(p) \in SUBSET Collected(p) /\ Collected(p) \in SUBSET Accounts
          /\ \A d \in Hosts(p) : q.ads[d] # {}
      BY <1>1, SyncedRepo DEF q
    <3>3. Reconcile(q, Collected(p), Hosts(p)).held[a] =
            HeldReconciled(q, Collected(p), Hosts(p), a)
      BY <1>1, <2>2, <3>1, ReconcileHeld
    <3>2. \A s \in Sources : <<s, g>> \in q.held[a] =>
            <<s, g>> \in Reconcile(q, Collected(p), Hosts(p)).held[a]
      BY <1>1, <1>5, <3>3 DEF HeldReconciled
    <3> QED
      BY <1>1, <1>3, <1>4, <3>2 DEF Holds
  <2> QED
    BY <2>1, <2>2
<1>7. Holds(Synced(p, c), a, g)
  BY <1>6 DEF Synced, q
<1>8. CASE a \in Pushed(p)
  BY <1>1, <1>7, <1>8, AfterSyncRepo DEF Holds
<1>9. CASE a \notin Pushed(p)
  BY <1>1, <1>4, <1>9, AfterSyncRepo DEF Holds
<1> QED
  BY <1>8, <1>9

\* No sync takes a group from the only account that has it and can advertise.
THEOREM NeverStealsSafe == Spec => NeverSteals
<1>1. TypeOK /\ [Next]_vars =>
        [\A c \in Catalogs : Sync(c) =>
           \A a \in Eligible(repo) : \A g \in Groups :
             Holders(repo, Collected(repo), g) = {a} => Holds(repo', a, g)]_vars
  BY StickyHolder DEF TypeOK, Sync
<1> QED
  BY <1>1, ProfilesCorrect, PTL DEF Spec, NeverSteals

=============================================================================
