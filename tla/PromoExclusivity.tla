--------------------------- MODULE PromoExclusivity ---------------------------
(***************************************************************************)
(* Which promo account may post to which group.  The account profiles are  *)
(* files of the repository.  The nightly sync moves groups between them;   *)
(* the operator edits them; every job of an account works from the         *)
(* checkout it began with and filters its routes by the profiles of its    *)
(* siblings in that checkout.                                              *)
(*                                                                         *)
(* sync() rewrites its own checkout and pushes it only on top of the same  *)
(* commit, so checkout, rewriting and commit are one step or none.         *)
(***************************************************************************)
EXTENDS Naturals

CONSTANTS Accounts,  \* rows of accounts.json
          Groups,    \* destination groups, by group_norm_key
          Sources,   \* ad channels, in the order the routes are sorted by
          PromoIds,  \* accounts whose id begins with "promo"
          RowOf,     \* the position of an account in accounts.json
          Owner,     \* rightful_owner: the hash of a group among the ids it may go to
          Chosen,    \* the source of an owner a new group goes to, also by a hash
          Fallback,  \* PROMO_SOURCE_FALLBACK, as a set of at most one source
          Catalogs,  \* the promo_ready catalogs a sync may find
          Begin,     \* the profiles to begin with
          MaxEdits   \* bound: edits of the operator, in files and by chat

NonEmpty(S) == (SUBSET S) \ {{}}

Profiles == [row : SUBSET Accounts,                      \* rows that are not disabled
             on : SUBSET Accounts,                       \* promo_spread.enabled
             routes : [Accounts -> SUBSET Sources],      \* sources with a route
             ads : [Accounts -> SUBSET Sources],         \* sources with an enabled route
             held : [Accounts -> SUBSET (Sources \X Groups)]]

\* What migrate_routes makes of a file: groups are groups of a route.
WellFormed(p) ==
  \A a \in Accounts : p.ads[a] \subseteq p.routes[a] /\ p.held[a] \subseteq p.routes[a] \X Groups

Repos == {p \in Profiles : WellFormed(p)}

ASSUME ExclusivityAssumption ==
  /\ PromoIds \subseteq Accounts
  /\ RowOf \in [Accounts -> Nat]
  /\ Sources \subseteq Nat
  /\ \A g \in Groups, ids \in NonEmpty(Accounts) : Owner[<<g, ids>>] \in ids
  /\ \A g \in Groups, a \in Accounts, S \in NonEmpty(Sources) : Chosen[<<g, a, S>>] \in S
  /\ Fallback \subseteq Sources
  /\ \A c \in Catalogs : c \subseteq Groups
  /\ Begin \subseteq Repos
  /\ MaxEdits \in Nat

VARIABLES
  repo,      \* the profiles on the branch
  up,        \* accounts whose job runs
  checkout,  \* the profiles the job of an account began with
  cfg,       \* the groups on the enabled routes of its running module
  edits      \* how many edits the operator has made

vars == <<repo, up, checkout, cfg, edits>>

NoRepo == [row |-> {}, on |-> {}, routes |-> [a \in Accounts |-> {}],
           ads |-> [a \in Accounts |-> {}], held |-> [a \in Accounts |-> {}]]

Init ==
  /\ repo \in Begin
  /\ up = {}
  /\ checkout = [a \in Accounts |-> NoRepo]
  /\ cfg = [a \in Accounts |-> {}]
  /\ edits = 0

----------------------------------------------------------------------------
(***************************************************************************)
(* Reading the profiles                                                    *)
(***************************************************************************)

Holds(p, a, g) == \E s \in Sources : <<s, g>> \in p.held[a]

Holders(p, A, g) == {a \in A : Holds(p, a, g)}

\* is_active_promo_profile
ActivePromo(p, a) == a \in p.on /\ (a \in PromoIds \/ p.routes[a] # {})

\* Mutant: accounts that are switched off in accounts.json are no siblings.
SiblingsEnabled(p) == {a \in p.row : ActivePromo(p, a)}

\* load_sibling_promo_profiles: the enabled flag of the row is not asked.
Siblings(p) == {a \in Accounts : ActivePromo(p, a)}

\* _collect_promo_profiles
Collected(p) == {a \in p.row : ActivePromo(p, a)}

\* foreign_group_norms_for_account
Sourced(p) == {a \in Siblings(p) : p.ads[a] # {}}

\* Mutant: contested groups only are looked at, and every holder keeps them.
ForeignUncontested(p, a) ==
  {g \in Groups : /\ a \in Sourced(p)
                  /\ Holders(p, Siblings(p), g) # {}
                  /\ ~Holds(p, a, g)
                  /\ Owner[<<g, Sourced(p)>>] # a}

Foreign(p, a) ==
  {g \in Groups : /\ a \in Sourced(p)
                  /\ Holders(p, Siblings(p), g) \notin {{}, {a}}
                  /\ Owner[<<g, Sourced(p)>>] # a}

----------------------------------------------------------------------------
(***************************************************************************)
(* sync                                                                    *)
(***************************************************************************)

AdSources(p, a) == IF p.ads[a] # {} THEN p.ads[a] ELSE Fallback

Eligible(p) == {a \in Collected(p) : AdSources(p, a) # {}}

\* Every eligible account gets a route for each of its sources.
WithSources(p) ==
  [p EXCEPT !.routes = [a \in Accounts |->
                          IF a \in Eligible(p) THEN @[a] \cup AdSources(p, a) ELSE @[a]],
            !.ads = [a \in Accounts |->
                       IF a \in Eligible(p) THEN @[a] \cup (AdSources(p, a) \ p.routes[a])
                       ELSE @[a]]]

FirstHolder(p, g) ==
  CHOOSE a \in Holders(p, Collected(p), g) :
    \A b \in Holders(p, Collected(p), g) : RowOf[a] <= RowOf[b]

\* Mutant: a group that has an owner is claimed again.
UnownedAny(p, catalog) == catalog

\* Sticky: a group that an eligible account holds is left where it is.
Unowned(p, catalog) ==
  {g \in catalog : \/ Holders(p, Collected(p), g) = {}
                   \/ FirstHolder(p, g) \notin Eligible(p)}

\* claim_group for each of `new': strip it from the other profiles, give it to its owner.
HeldAfterClaim(p, new, a) ==
  IF a \in Collected(p)
    THEN {x \in p.held[a] : x[2] \in new => Owner[<<x[2], Eligible(p)>>] = a}
         \cup {<<Chosen[<<g, a, AdSources(p, a)>>], g>> :
                 g \in {h \in new : Owner[<<h, Eligible(p)>>] = a}}
    ELSE p.held[a]

Claim(p, new) ==
  [WithSources(p) EXCEPT !.held = [a \in Accounts |-> HeldAfterClaim(p, new, a)]]

Least(S) == CHOOSE s \in S : \A t \in S : s <= t

\* Mutant: the preferred source is not looked for among the routes.
HomePreferred(p, a, preferred) == preferred

\* ensure_group_on_profile: the route of the preferred source, though it may be disabled,
\* else the first enabled one, else the first.
Home(p, a, preferred) ==
  IF preferred \in p.routes[a] THEN preferred
  ELSE IF p.ads[a] # {} THEN Least(p.ads[a])
  ELSE Least(p.routes[a])

Contested(p, A) ==
  {g \in Groups : \E a, b \in A : a # b /\ Holds(p, a, g) /\ Holds(p, b, g)}

\* The source of the first placement of a group, in the order of the profiles.
FirstSource(p, g) == Least({s \in Sources : <<s, g>> \in p.held[FirstHolder(p, g)]})

\* Groups that come to account a although it did not have them.
Moved(p, A, ids, a) ==
  {<<Home(p, a, FirstSource(p, g)), g>> :
     g \in {h \in Contested(p, A) : Owner[<<h, ids>>] = a /\ ~Holds(p, a, h)}}

\* Mutant: the losers of a contested group are not stripped.
HeldKept(p, A, ids, a) == IF a \in A THEN p.held[a] \cup Moved(p, A, ids, a) ELSE p.held[a]

\* reconcile_exclusive_profiles: a contested group goes to its rightful owner among `ids',
\* and every other profile of A is stripped of it.
HeldReconciled(p, A, ids, a) ==
  IF a \in A
    THEN {x \in p.held[a] : x[2] \in Contested(p, A) => Owner[<<x[2], ids>>] = a}
         \cup Moved(p, A, ids, a)
    ELSE p.held[a]

Reconcile(p, A, ids) ==
  IF ids = {} THEN p
  ELSE [p EXCEPT !.held = [a \in Accounts |-> HeldReconciled(p, A, ids, a)]]

\* The accounts a contested group may go to.
Hosts(p) == {a \in Eligible(p) : WithSources(p).ads[a] # {}}

\* The profiles in memory when sync() is through with them.
Synced(p, catalog) == Reconcile(Claim(p, Unowned(p, catalog)), Collected(p), Hosts(p))

\* Only eligible accounts are written, and the workflow commits promo*.json only.
Pushed(p) == Eligible(p) \cap PromoIds

Commit(p, q) ==
  [p EXCEPT !.routes = [a \in Accounts |-> IF a \in Pushed(p) THEN q.routes[a] ELSE @[a]],
            !.ads = [a \in Accounts |-> IF a \in Pushed(p) THEN q.ads[a] ELSE @[a]],
            !.held = [a \in Accounts |-> IF a \in Pushed(p) THEN q.held[a] ELSE @[a]]]

AfterSync(p, catalog) == Commit(p, Synced(p, catalog))

Sync(catalog) ==
  /\ UNCHANGED <<up, checkout, cfg, edits>>
  /\ Eligible(repo) # {}
  /\ repo' = AfterSync(repo, catalog)

\* repair_local_overlaps, run and committed by hand: every collected profile is written.
Repair ==
  /\ repo' = Reconcile(repo, Collected(repo), {a \in Collected(repo) : repo.ads[a] # {}})
  /\ UNCHANGED <<up, checkout, cfg, edits>>

----------------------------------------------------------------------------
(***************************************************************************)
(* The operator and the jobs                                               *)
(***************************************************************************)

Edit == edits < MaxEdits /\ edits' = edits + 1

EditFile(p) ==
  /\ Edit
  /\ repo' = p
  /\ UNCHANGED <<up, checkout, cfg>>

\* promo_add_route and promo_group_add of the panel: a new route is enabled.
AddGroup(a, s, g) ==
  EditFile([repo EXCEPT
    !.held = [repo.held EXCEPT ![a] = @ \cup {<<s, g>>}],
    !.routes = [repo.routes EXCEPT ![a] = @ \cup {s}],
    !.ads = [repo.ads EXCEPT ![a] = IF s \in repo.routes[a] THEN @ ELSE @ \cup {s}]])

RemoveGroup(a, s, g) ==
  /\ <<s, g>> \in repo.held[a]
  /\ EditFile([repo EXCEPT !.held[a] = @ \ {<<s, g>>}])

SwitchRoute(a, s) ==
  /\ s \in repo.routes[a]
  /\ EditFile([repo EXCEPT !.ads[a] = IF s \in @ THEN @ \ {s} ELSE @ \cup {s}])

SwitchAccount(a) ==
  \/ EditFile([repo EXCEPT !.row = IF a \in @ THEN @ \ {a} ELSE @ \cup {a}])
  \/ EditFile([repo EXCEPT !.on = IF a \in @ THEN @ \ {a} ELSE @ \cup {a}])

\* The groups on the enabled routes of a profile, if its module is enabled.
Advertised(p, a) ==
  {g \in Groups : a \in p.on /\ \E s \in p.ads[a] : <<s, g>> \in p.held[a]}

\* The profile overrides whatever routes an earlier job was given by chat.
JobStart(a) ==
  /\ a \notin up
  /\ up' = up \cup {a}
  /\ checkout' = [checkout EXCEPT ![a] = repo]
  /\ cfg' = [cfg EXCEPT ![a] = Advertised(repo, a)]
  /\ UNCHANGED <<repo, edits>>

JobEnd(a) ==
  /\ a \in up
  /\ up' = up \ {a}
  /\ checkout' = [checkout EXCEPT ![a] = NoRepo]
  /\ cfg' = [cfg EXCEPT ![a] = {}]
  /\ UNCHANGED <<repo, edits>>

\* "/promo group add" and "remove": the module is loaded again with the new routes.
ChatAdd(a, g) ==
  /\ a \in up /\ a \in checkout[a].on
  /\ g \notin cfg[a]
  /\ Edit
  /\ cfg' = [cfg EXCEPT ![a] = @ \cup {g}]
  /\ UNCHANGED <<repo, up, checkout>>

ChatRemove(a, g) ==
  /\ a \in up /\ a \in checkout[a].on
  /\ g \in cfg[a]
  /\ Edit
  /\ cfg' = [cfg EXCEPT ![a] = @ \ {g}]
  /\ UNCHANGED <<repo, up, checkout>>

Operator ==
  \E a \in Accounts :
    \/ SwitchAccount(a)
    \/ \E s \in Sources : SwitchRoute(a, s)
    \/ \E s \in Sources, g \in Groups : AddGroup(a, s, g) \/ RemoveGroup(a, s, g)
    \/ \E g \in Groups : ChatAdd(a, g) \/ ChatRemove(a, g)

Next ==
  \/ \E c \in Catalogs : Sync(c)
  \/ Repair
  \/ \E a \in Accounts : JobStart(a) \/ JobEnd(a)
  \/ Operator

Spec == Init /\ [][Next]_vars

\* A job ends at the latest after the six hours of its timeout.
FairSpec == Spec /\ \A a \in Accounts : WF_vars(JobEnd(a))

----------------------------------------------------------------------------
(***************************************************************************)
(* Properties                                                              *)
(***************************************************************************)

TypeOK ==
  /\ repo \in Repos
  /\ up \subseteq Accounts
  /\ checkout \in [Accounts -> Repos]
  /\ cfg \in [Accounts -> SUBSET Groups]
  /\ edits \in 0..MaxEdits

\* What the module of an account posts to: its routes without the foreign groups.
Targets(a) == cfg[a] \ Foreign(checkout[a], a)

\* Two jobs that began with the same profiles never post to the same group, whatever these
\* profiles say, except to a group that one of them was given by chat.
OnlyStale ==
  \A a, b \in up :
    a # b /\ checkout[a] = checkout[b] =>
      \A g \in Targets(a) \cap Targets(b) :
        g \notin Advertised(checkout[a], a) \/ g \notin Advertised(checkout[b], b)

\* After a sync no group is on two of the profiles it has pushed, whatever the operator has
\* done to them before, if one account at least has an enabled ad.
PushedExclusive ==
  Hosts(repo) # {} =>
    \A c \in Catalogs, g \in Groups : \A a, b \in Pushed(repo) :
      Holds(AfterSync(repo, c), a, g) /\ Holds(AfterSync(repo, c), b, g) => a = b

\* A sync never takes a group from the only account that has it, if that account has an ad.
NeverSteals ==
  [][\A c \in Catalogs : Sync(c) =>
       \A a \in Eligible(repo) : \A g \in Groups :
         Holders(repo, Collected(repo), g) = {a} => Holds(repo', a, g)]_vars

\* Once the operator leaves the profiles alone, the accounts stop sharing groups for good:
\* the jobs that began with older profiles end, and no sync passes a group back and forth.
Disjoint == \A a, b \in up : a # b => Targets(a) \cap Targets(b) = {}

Converges == <>[]Disjoint

\* promo_group_sync.py:132, "each group is owned by at most one promo account": what a sync
\* leaves in the repository.
SyncedExclusive ==
  [][\A c \in Catalogs : Sync(c) => Contested(repo', Collected(repo')) = {}]_vars

=============================================================================
