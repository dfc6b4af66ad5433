------------------------- MODULE AdminAccountsProof -------------------------
(***************************************************************************)
(* Proofs about AdminAccounts: for any admins, accounts, sessions, slow    *)
(* handlers, first owners and uses of the panel.                           *)
(*                                                                         *)
(* An admin's message, a handler that goes on and a login run each change  *)
(* a few of the stores.  Effects says what any step does to each of them,  *)
(* which is shown action by action (StepEffects); the invariants are then  *)
(* shown to survive these effects, and looked at again action by action    *)
(* only where the step matters to them: SureAsked for the conversations,   *)
(* Found for the saves, Alone and Steady for handlers that overlap,        *)
(* SecretInv for the secrets, Agree for registry and rows, Owners for the  *)
(* credentials of a login.                                                 *)
(***************************************************************************)
EXTENDS AdminAccounts, TLAPS

----------------------------------------------------------------------------
(* What the state may be *)

Run == [acc : Accounts, action : {"send", "complete"}, sess : Sessions]
Watcher == [by : Users, sess : Sessions]

Ordered ==
    /\ older \subseteq Made \X Made
    /\ \A s, t \in Made : <<s, t>> \in older <=> s # t /\ <<t, s>> \notin older

Talks ==
    /\ wiz \in [Users -> States] /\ asked = [u \in Users |-> asked[u]]
    /\ \A u \in Users : wiz[u] \in Waiting => wiz[u].sess \in Made
    /\ said \in [Users -> {x \in States : x.st = "sure"} \cup {None}]
Tables ==
    /\ acct \in [Accounts -> Row \cup {None}] /\ sess \in [Sessions -> Session \cup {None}]
    /\ Ordered
Github == reg \in [Accounts -> {"none", "on", "off"}] /\ secret \in [Accounts -> BOOLEAN]

\* What a handler holds at each of its waits
Holding(r, made) ==
    /\ r.op \in Kinds \cup Texts /\ r.at \in Early => r.row # None
    /\ r.op \in {"code", "done"} => r.sess \in made
    /\ r.at \in Saving => r.row \in Row /\ r.row.owner = r.by
    /\ r.todo \subseteq made
Hands ==
    /\ busy \in [Slots -> Asker \cup {None}]
    /\ \A k \in Slots : busy[k] # None => Holding(busy[k], Made)
Errands ==
    /\ runs \subseteq Run /\ watch \subseteq Watcher
    /\ \A r \in runs \cup watch : r.sess \in Made
Typed == Talks /\ Tables /\ Github /\ Hands /\ Errands

----------------------------------------------------------------------------
(* Conversations and sessions *)

(* Where a conversation is tells what else its row holds.                    *)
LEMMA StateShape ==
    ASSUME NEW w \in States
    PROVE  /\ w.st \in {"idle", "menu", "pick", "action", "otp", "2fa", "sure", "edit", "id", "phone"}
           /\ w.st = "action" => w.acc \in Accounts
           /\ w.st = "sure" => w.kind \in Kinds \cup Starts /\ w.acc \in Accounts
           /\ w.st = "edit" => w.kind \in {"rename", "role"} /\ w.acc \in Accounts
           /\ w.st = "id" => w.kind \in Starts
           /\ w.st = "phone" => w.kind \in Starts /\ w.acc \in Accounts
           /\ w \in Waiting <=> w.st \in {"otp", "2fa"}
           /\ w \in Waiting => w.sess \in Sessions /\ w.acc \in Accounts
  BY DEF States, Idle, Menu, Pick, Action, Waiting

LEMMA StateMade ==
    /\ Idle \in States /\ Menu \in States /\ Pick \in States
    /\ Idle.st = "idle" /\ Menu.st = "menu" /\ Pick.st = "pick"
    /\ \A a \in Accounts : Action(a) \in States /\ Action(a).st = "action"
    /\ \A k \in Kinds \cup Starts, a \in Accounts :
         Sure(k, a) \in States /\ Sure(k, a).st = "sure" /\ Sure(k, a).kind = k /\ Sure(k, a).acc = a
    /\ \A k \in {"rename", "role"}, a \in Accounts : Edit(k, a) \in States /\ Edit(k, a).st = "edit"
    /\ \A s \in Sessions, a \in Accounts :
         /\ AwaitOtp(s, a) \in States /\ AwaitOtp(s, a).sess = s /\ AwaitOtp(s, a).acc = a
         /\ Await2fa(s, a) \in States /\ Await2fa(s, a).sess = s /\ Await2fa(s, a).acc = a
         /\ AwaitOtp(s, a).st = "otp" /\ Await2fa(s, a).st = "2fa"
    /\ \A k \in Starts : [st |-> "id", kind |-> k] \in States
    /\ \A k \in Starts, a \in Accounts : [st |-> "phone", kind |-> k, acc |-> a] \in States
  BY DEF States, Idle, Menu, Pick, Action, Waiting, Sure, Edit, AwaitOtp, Await2fa

LEMMA DetailState ==
    ASSUME NEW u, NEW a \in Accounts
    PROVE  Detail(u, a) \in States /\ Detail(u, a).st \in {"action", "menu"}
  BY StateMade DEF Detail

(* Touching sessions, or making one, keeps them in the order of their last   *)
(* touch (LoginSession.py:84).                                               *)
LEMMA TouchOrders ==
    ASSUME Ordered, NEW now, Touch(now), Made' = Made \cup now,
           now \subseteq Made \/ \E s : now = {s}
    PROVE  Ordered'
  <1>1. older' = {p \in older : p[1] \in now => p[2] \in now} \cup ((Made \ now) \X now)
    BY DEF Touch
  <1>2. older' \subseteq Made' \X Made' BY <1>1 DEF Ordered
  <1>0. \A x, y : <<x, y>> \in older' <=>
            (<<x, y>> \in older /\ (x \in now => y \in now)) \/ (x \in Made \ now /\ y \in now)
    <2> DEFINE m == Made
    <2>1. older \subseteq m \X m BY DEF Ordered
    <2> HIDE DEF m
    <2> QED BY <1>1, <2>1 DEF m
  <1>3. ASSUME NEW s \in Made', NEW t \in Made'
        PROVE  <<s, t>> \in older' <=> s # t /\ <<t, s>> \notin older'
    <2>1. <<s, t>> \in older' <=>
            (<<s, t>> \in older /\ (s \in now => t \in now)) \/ (s \in Made \ now /\ t \in now)
      BY <1>0
    <2>2. <<t, s>> \in older' <=>
            (<<t, s>> \in older /\ (t \in now => s \in now)) \/ (t \in Made \ now /\ s \in now)
      BY <1>0
    <2>3. CASE s \in Made /\ t \in Made
      <3>1. <<s, t>> \in older <=> s # t /\ <<t, s>> \notin older BY <2>3 DEF Ordered
      <3>2. CASE s \in now <=> t \in now BY <2>1, <2>2, <3>1, <3>2
      <3>3. CASE ~(s \in now <=> t \in now) BY <2>1, <2>2, <2>3, <3>3
      <3> QED BY <3>2, <3>3
    <2>4. CASE ~(s \in Made /\ t \in Made)
      <3>1. ~(now \subseteq Made) BY <2>4
      <3>2. PICK x : now = {x} BY <3>1
      <3>3. x \notin Made BY <3>1, <3>2
      <3>4. <<s, t>> \notin older /\ <<t, s>> \notin older BY <2>4 DEF Ordered
      <3>5. (s \in Made <=> s # x) /\ (t \in Made <=> t # x) BY <3>2, <3>3
      <3>6. <<s, t>> \in older' <=> s # x /\ t = x BY <2>1, <3>2, <3>4, <3>5
      <3>7. <<t, s>> \in older' <=> t # x /\ s = x BY <2>2, <3>2, <3>4, <3>5
      <3> QED BY <2>4, <3>5, <3>6, <3>7
    <2> QED BY <2>3, <2>4
  <1> QED BY <1>2, <1>3 DEF Ordered

----------------------------------------------------------------------------
(* What one step does to each store *)

(* The conversation of one admin moves on; a question is noted with it.      *)
Replies(u, w) ==
    /\ Say(u, w) /\ w \in States /\ (w \in Waiting => w.sess \in Made')
    /\ IF w.st = "sure" THEN asked' = [asked EXCEPT ![u] = <<w.kind, w.acc>>]
       ELSE asked' = asked \/ asked' = [asked EXCEPT ![u] = None]
Converses == UNCHANGED <<wiz, asked>> \/ \E u \in Users, w \in States : Replies(u, w)

(* A confirmation is heard, or has been acted on.                            *)
Listens ==
    \/ said' = said
    \/ \E u \in Users :
         \/ said' = [said EXCEPT ![u] = None]
         \/ (wiz[u].st = "sure" /\ said' = [said EXCEPT ![u] = wiz[u]])

(* A session is never forgotten, nor its admin and account.                  *)
Keeps(x, y) == y \in Session /\ y.acc = x.acc /\ y.by = x.by
Stores ==
    /\ sess' \in [Sessions -> Session \cup {None}] /\ Ordered'
    /\ \A s \in Made : Keeps(sess[s], sess'[s])

(* A row is written by a handler that had found it, or deleted.              *)
Wrote(k) == Written(k) /\ Over(k)
Deleted(k) ==
    LET r == busy[k] over == Overtakes(k, r.acc, None) IN
    /\ r # None /\ r.op = "delete" /\ r.at = "second"
    /\ acct' = [acct EXCEPT ![r.acc] = None]
    /\ \E again \in BOOLEAN : busy' = [busy EXCEPT ![k] = [@ EXCEPT !.at = "fetch", !.again = again]]
    /\ turned' = turned \cup over
    /\ crossed' = IF over = {} THEN crossed ELSE crossed \cup {r.acc}
Rows ==
    \/ UNCHANGED <<acct, turned>> /\ crossed \subseteq crossed'
    \/ \E k \in Slots : Wrote(k) \/ Deleted(k)

(* A handler begins, goes on, ends, or hears of a login.                     *)
Same(r, q) ==
    /\ r # None /\ q \in Asker
    /\ q.by = r.by /\ q.op = r.op /\ q.acc = r.acc /\ q.sess = r.sess
    /\ q.at \in Early => r.at \in Early /\ q.row = r.row
    /\ r.at \in Saving => q.at = r.at /\ q.row = r.row
    /\ q.at \in Saving /\ r.at \notin Saving => r.at \in Early /\ q.at = At(r.acc) /\ MayPut(r.by, r.acc)
    /\ (r.met => q.met) /\ (r.again => q.again)
Steps(k, q) ==
    /\ busy[k] # None /\ Same(busy[k], q) /\ Holding(q, Made')
    /\ busy' = [busy EXCEPT ![k] = q]

\* What a handler knows when it begins
Opens(r) ==
    /\ ~r.again /\ \A k \in Slots : BusyWith(k, r.acc) => r.met
    /\ \/ /\ r.at = "first" /\ r.op # "done" /\ r.row = acct[r.acc]
          /\ r.op \in Kinds \cup Texts => Owned(r.by, r.acc)
       \/ r.op = "done" /\ r.at = At(r.acc) /\ MayPut(r.by, r.acc)
    /\ r.op = "code" => wiz[r.by] \in Waiting /\ r.sess = wiz[r.by].sess /\ r.acc = wiz[r.by].acc
Begins(r) == Joins(r) /\ Opens(r) /\ Holding(r, Made')
Renews(a) ==
    busy' = [k \in Slots |-> IF BusyWith(k, a) THEN [busy[k] EXCEPT !.again = TRUE] ELSE busy[k]]
Handles ==
    \/ UNCHANGED busy
    \/ \E k \in Slots : busy[k] # None /\ Over(k) /\ (busy[k].at \in Saving => Wrote(k))
    \/ \E k \in Slots, q \in Asker : Steps(k, q)
    \/ \E r \in Asker : Begins(r)
    \/ \E a : Renews(a)

Errs ==
    /\ runs' \subseteq Run /\ watch' \subseteq Watcher
    /\ \A r \in (runs' \ runs) \cup (watch' \ watch) : r.sess \in Made'

Effects == Converses /\ Listens /\ Stores /\ Rows /\ Github' /\ Handles /\ Errs

----------------------------------------------------------------------------
(* Sessions and rows, each way of writing them *)

LEMMA MadeStays ==
    ASSUME AdminAssumption, Stores
    PROVE  Made \subseteq Made'
  BY DEF Stores, Keeps, Made, AdminAssumption

LEMMA Stored ==
    ASSUME AdminAssumption, Tables, NEW s \in Sessions, NEW x \in Session,
           sess' = [sess EXCEPT ![s] = x], Touch({s}), s \in Made => Keeps(sess[s], x)
    PROVE  Stores /\ s \in Made' /\ Made' = Made \cup {s}
  <1>1. sess' \in [Sessions -> Session \cup {None}] /\ sess'[s] = x
        /\ \A t \in Sessions : t # s => sess'[t] = sess[t]
    BY DEF Tables
  <1>2. x # None BY DEF AdminAssumption
  <1>3. Made' = Made \cup {s} BY <1>1, <1>2 DEF Made
  <1>4. Ordered' BY <1>3, TouchOrders DEF Tables
  <1>5. ASSUME NEW t \in Made PROVE Keeps(sess[t], sess'[t])
    BY <1>1 DEF Keeps, Made, Tables
  <1> QED BY <1>1, <1>3, <1>4, <1>5 DEF Stores

LEMMA Rewritten ==
    ASSUME AdminAssumption, Tables, NEW s \in Made, NEW x \in Session,
           sess' = [sess EXCEPT ![s] = x], UNCHANGED older, Keeps(sess[s], x)
    PROVE  Stores /\ Made' = Made
  <1>1. sess' \in [Sessions -> Session \cup {None}] /\ sess'[s] = x
        /\ \A t \in Sessions : t # s => sess'[t] = sess[t]
    BY DEF Tables, Made
  <1>2. x # None BY DEF AdminAssumption
  <1>3. Made' = Made BY <1>1, <1>2 DEF Made
  <1>4. Ordered' BY <1>3 DEF Tables, Ordered
  <1>5. ASSUME NEW t \in Made PROVE Keeps(sess[t], sess'[t])
    BY <1>1 DEF Keeps, Made, Tables
  <1> QED BY <1>1, <1>3, <1>4, <1>5 DEF Stores

LEMMA Unwritten ==
    ASSUME Tables, UNCHANGED <<sess, older>>
    PROVE  Stores /\ Made' = Made
  <1>1. Made' = Made BY DEF Made
  <1>2. Ordered' BY <1>1 DEF Tables, Ordered
  <1>3. \A s \in Made : sess[s] \in Session BY DEF Made, Tables
  <1> QED BY <1>1, <1>2, <1>3 DEF Stores, Tables, Keeps

LEMMA RowOwner ==
    ASSUME AdminAssumption, Tables, NEW a \in Accounts
    PROVE  /\ acct[a] = None <=> Owner(acct[a]) = None
           /\ acct[a] # None => acct[a] \in Row /\ Owner(acct[a]) = acct[a].owner
           /\ \A row \in Row : row # None /\ Owner(row) = row.owner /\ row.owner # None
  BY DEF AdminAssumption, Tables, Owner, Row

LEMMA SameRows ==
    ASSUME UNCHANGED <<acct, turned>>, crossed \subseteq crossed'
    PROVE  Rows
  BY DEF Rows

LEMMA MadeSession ==
    ASSUME Tables, NEW s \in Made
    PROVE  s \in Sessions /\ sess[s] \in Session /\ sess[s].acc \in Accounts /\ sess[s].by \in Users
  BY DEF Tables, Made, Session

LEMMA ClearedSession ==
    ASSUME NEW x \in Session, NEW st \in {"done", "cancelled"}
    PROVE  Cleared(x, st) \in Session /\ Keeps(x, Cleared(x, st))
  BY DEF Cleared, Session, Keeps

----------------------------------------------------------------------------
(* The handlers that are busy *)

Told(j, a) == IF BusyWith(j, a) THEN [busy[j] EXCEPT !.met = TRUE] ELSE busy[j]
Fresh(k) ==
    /\ busy[k] = None /\ Opens(busy'[k]) /\ busy'[k] \in Asker
    /\ \A j \in Slots : j # k => busy'[j] = Told(j, busy'[k].acc)

LEMMA SameItself ==
    ASSUME Hands, NEW k \in Slots, busy[k] # None, Made \subseteq Made',
           NEW q \in {busy[k], [busy[k] EXCEPT !.met = TRUE], [busy[k] EXCEPT !.again = TRUE]}
    PROVE  Same(busy[k], q) /\ Holding(q, Made')
  <1> DEFINE r == busy[k]
  <1>1. r \in Asker /\ Holding(r, Made) BY DEF Hands
  <1>2. /\ q \in Asker /\ q.by = r.by /\ q.op = r.op /\ q.acc = r.acc /\ q.sess = r.sess
        /\ q.row = r.row /\ q.at = r.at /\ q.todo = r.todo /\ (r.met => q.met) /\ (r.again => q.again)
    BY <1>1 DEF Asker
  <1>3. r # None OBVIOUS
  <1> HIDE DEF r
  <1>4. Same(r, q) BY <1>2, <1>3 DEF Same
  <1>5. Holding(q, Made') BY <1>1, <1>2 DEF Holding
  <1> QED BY <1>4, <1>5 DEF r

(* A handler that is busy after a step was busy with the same before, or has *)
(* just begun.                                                               *)
LEMMA Carried ==
    ASSUME Hands, Handles, Made \subseteq Made', NEW k \in Slots, busy'[k] # None
    PROVE  (Same(busy[k], busy'[k]) \/ Fresh(k)) /\ Holding(busy'[k], Made')
  <1>1. CASE UNCHANGED busy BY <1>1, SameItself
  <1>2. ASSUME NEW j \in Slots, Over(j) PROVE Same(busy[k], busy'[k]) /\ Holding(busy'[k], Made')
    <2>1. busy'[k] = busy[k] BY <1>2 DEF Over, Hands
    <2> QED BY <2>1, SameItself
  <1>3. ASSUME NEW j \in Slots, NEW q \in Asker, Steps(j, q)
        PROVE  Same(busy[k], busy'[k]) /\ Holding(busy'[k], Made')
    <2>1. CASE k = j
      <3>1. busy'[k] = q BY <1>3, <2>1 DEF Steps, Hands
      <3> QED BY <1>3, <2>1, <3>1 DEF Steps
    <2>2. CASE k # j
      <3>1. busy'[k] = busy[k] BY <1>3, <2>2 DEF Steps, Hands
      <3> QED BY <3>1, SameItself
    <2> QED BY <2>1, <2>2
  <1>4. ASSUME NEW r \in Asker, Begins(r)
        PROVE  (Same(busy[k], busy'[k]) \/ Fresh(k)) /\ Holding(busy'[k], Made')
    <2>4. PICK i \in Slots :
            /\ busy[i] = None
            /\ busy' = [j \in Slots |-> CASE j = i -> r
                                         [] BusyWith(j, r.acc) -> [busy[j] EXCEPT !.met = TRUE]
                                         [] OTHER -> busy[j]]
      BY <1>4 DEF Begins, Joins
    <2>5. ~BusyWith(i, r.acc) BY <2>4 DEF BusyWith
    <2>6. busy'[i] = r BY <2>4, <2>5
    <2>7. \A j \in Slots : j # i => busy'[j] = Told(j, r.acc) BY <2>4, ZenonT(30) DEF Told
    <2>1. /\ busy[i] = None /\ busy'[i] = r
          /\ \A j \in Slots : j # i => busy'[j] = Told(j, r.acc)
      BY <2>4, <2>6, <2>7
    <2>2. CASE k = i BY <1>4, <2>1, <2>2 DEF Fresh, Begins
    <2>3. CASE k # i
      <3>1. busy'[k] = Told(k, r.acc) BY <2>1, <2>3
      <3>2. busy[k] # None BY <3>1 DEF Told, BusyWith
      <3> QED BY <3>1, <3>2, SameItself DEF Told
    <2> QED BY <2>2, <2>3
  <1>5. ASSUME NEW a, Renews(a) PROVE Same(busy[k], busy'[k]) /\ Holding(busy'[k], Made')
    <2>1. busy'[k] = IF BusyWith(k, a) THEN [busy[k] EXCEPT !.again = TRUE] ELSE busy[k]
      BY <1>5 DEF Renews
    <2>2. busy[k] # None BY <2>1 DEF BusyWith
    <2> QED BY <2>1, <2>2, SameItself
  <1> QED BY <1>1, <1>2, <1>3, <1>4, <1>5 DEF Handles

LEMMA HandlerShape ==
    ASSUME Typed, NEW k \in Slots, busy[k] # None
    PROVE  /\ busy[k] \in Asker /\ busy[k].by \in Users /\ busy[k].acc \in Accounts
           /\ busy[k].op \in Kinds \cup Texts /\ busy[k].at \in Early => busy[k].row \in Row
           /\ busy[k].op \in {"code", "done"} => busy[k].sess \in Made
           /\ busy[k].at \in Saving => busy[k].row \in Row /\ busy[k].row.owner = busy[k].by
           /\ busy[k].todo \subseteq Made
  BY DEF Typed, Hands, Holding, Asker

(* A handler goes on to its next request, or has found the row.              *)
LEMMA Gone ==
    ASSUME Typed, NEW k \in Slots, busy[k] # None, busy[k].at \in Early, Made \subseteq Made', Goes(k)
    PROVE  Handles
  <1> DEFINE r == busy[k]  q == [r EXCEPT !.at = "second"]
  <1>1. r \in Asker /\ Holding(r, Made) BY DEF Typed, Hands
  <1>2. /\ q \in Asker /\ q.by = r.by /\ q.op = r.op /\ q.acc = r.acc /\ q.sess = r.sess
        /\ q.row = r.row /\ q.at = "second" /\ q.todo = r.todo /\ q.met = r.met /\ q.again = r.again
    BY <1>1 DEF Asker, Early
  <1>3. busy' = [busy EXCEPT ![k] = q] BY DEF Goes
  <1> HIDE DEF q
  <1>4. Same(r, q) BY <1>2 DEF Same, Early, Saving
  <1>5. Holding(q, Made') BY <1>1, <1>2 DEF Holding, Early, Saving
  <1> QED BY <1>2, <1>3, <1>4, <1>5 DEF Handles, Steps

LEMMA Searched ==
    ASSUME AdminAssumption, Typed, NEW k \in Slots, busy[k] # None, busy[k].at \in Early,
           MayPut(busy[k].by, busy[k].acc), NEW row \in Row, Made \subseteq Made', Finds(k, row)
    PROVE  Handles
  <1> DEFINE r == busy[k]  mine == [row EXCEPT !.owner = r.by]
             q == [r EXCEPT !.at = At(r.acc), !.row = mine]
  <1>1. r \in Asker /\ Holding(r, Made) /\ r.by \in Users BY HandlerShape DEF Typed, Hands
  <1>2. mine \in Row /\ mine.owner = r.by BY <1>1 DEF Row
  <1>3. At(r.acc) \in Saving BY DEF At, Saving
  <1>4. busy' = [busy EXCEPT ![k] = q] BY DEF Finds
  <1> HIDE DEF mine
  <1>5. /\ q \in Asker /\ q.by = r.by /\ q.op = r.op /\ q.acc = r.acc /\ q.sess = r.sess
        /\ q.row = mine /\ q.at = At(r.acc) /\ q.todo = r.todo /\ q.met = r.met /\ q.again = r.again
    BY <1>1, <1>2, <1>3 DEF Asker
  <1> HIDE DEF q
  <1>6. Same(r, q) BY <1>3, <1>5 DEF Same, Early, Saving
  <1>7. Holding(q, Made') BY <1>1, <1>2, <1>3, <1>5 DEF Holding, Early, Saving
  <1> QED BY <1>4, <1>5, <1>6, <1>7 DEF Handles, Steps

\* Only a handler that is not about to save ends without
Freed(k) == busy[k].at \in Early \cup {"fetch", "cancel"} \/ Written(k)

LEMMA Finished ==
    ASSUME NEW k \in Slots, busy[k] # None, Over(k), Freed(k)
    PROVE  Handles
  BY DEF Handles, Freed, Wrote, Early, Saving

(* A message, the button that asks for the run, or the task that watches it  *)
(* begins a handler.                                                         *)
LEMMA Asked ==
    ASSUME AdminAssumption, Typed, NEW u \in Users, NEW a \in Accounts, NEW op \in Ops \ {"done"},
           NEW s \in Sessions \cup {None}, Joins(Request(u, op, a, s)), Made \subseteq Made',
           op \in Kinds \cup Texts => Owned(u, a),
           op = "code" => wiz[u] \in Waiting /\ s = wiz[u].sess /\ a = wiz[u].acc
    PROVE  Handles
  <1> DEFINE r == Request(u, op, a, s)
  <1>1. /\ r \in Asker /\ r.by = u /\ r.op = op /\ r.acc = a /\ r.sess = s /\ r.row = acct[a]
        /\ r.at = "first" /\ ~r.again /\ r.todo = {} /\ (\A k \in Slots : BusyWith(k, a) => r.met)
    BY DEF Request, Asker, Early, Typed, Tables
  <1>2. Joins(r) OBVIOUS
  <1> HIDE DEF r
  <1>3. Opens(r) BY <1>1 DEF Opens
  <1>4. op = "code" => s \in Made' BY DEF Typed, Talks
  <1>5. Holding(r, Made') BY <1>1, <1>4 DEF Holding, Owned, Saving
  <1> QED BY <1>1, <1>2, <1>3, <1>5 DEF Begins, Handles

LEMMA Readied ==
    ASSUME AdminAssumption, Typed, NEW u \in Users, NEW s \in Made, Readies(u, s), UNCHANGED sess
    PROVE  Handles
  <1> DEFINE a == sess[s].acc  on == (acct[a] # None /\ acct[a].on)
             row == [owner |-> u, on |-> on, logged |-> TRUE, st |-> "ready"]
             q == Request(u, "done", a, s)
             r == [q EXCEPT !.at = At(a), !.row = row]
  <1>1. s \in Sessions /\ a \in Accounts BY MadeSession DEF Typed
  <1>2. on \in BOOLEAN BY <1>1 DEF Typed, Tables, Row
  <1>3. Joins(r) /\ MayPut(u, a) BY DEF Readies
  <1> HIDE DEF on
  <1>4. row \in Row /\ row.owner = u BY <1>2 DEF Row
  <1>5. At(a) \in Saving BY DEF At, Saving
  <1>6. /\ q \in Asker /\ q.by = u /\ q.op = "done" /\ q.acc = a /\ q.sess = s /\ ~q.again
        /\ q.todo = {} /\ (\A k \in Slots : BusyWith(k, a) => q.met)
    BY <1>1 DEF Request, Asker, Ops, Early, Typed, Tables
  <1> HIDE DEF row, q
  <1>7. /\ r \in Asker /\ r.by = u /\ r.op = "done" /\ r.acc = a /\ r.sess = s /\ ~r.again
        /\ r.row = row /\ r.at = At(a) /\ r.todo = {} /\ (\A k \in Slots : BusyWith(k, a) => r.met)
    BY <1>4, <1>5, <1>6 DEF Asker
  <1> HIDE DEF r, a
  <1>8. Opens(r) BY <1>3, <1>7 DEF Opens
  <1>9. Made' = Made BY DEF Made
  <1>10. Holding(r, Made') BY <1>4, <1>5, <1>7, <1>9 DEF Holding, Kinds, Texts
  <1> QED BY <1>3, <1>7, <1>8, <1>10 DEF Begins, Handles

----------------------------------------------------------------------------
(* The type invariant under the effects *)

LEMMA RowsTyped ==
    ASSUME AdminAssumption, Typed, Rows
    PROVE  acct' \in [Accounts -> Row \cup {None}]
  <1>1. ASSUME NEW k \in Slots, Wrote(k) PROVE acct' \in [Accounts -> Row \cup {None}]
    <2>1. busy[k] # None /\ busy[k].at \in Saving BY <1>1 DEF Wrote, Written
    <2>2. acct' = acct \/ acct' = [acct EXCEPT ![busy[k].acc] = busy[k].row]
      BY <1>1 DEF Wrote, Written
    <2> QED BY <2>1, <2>2, HandlerShape DEF Typed, Tables
  <1>2. ASSUME NEW k \in Slots, Deleted(k) PROVE acct' \in [Accounts -> Row \cup {None}]
    BY <1>2 DEF Deleted, Typed, Tables
  <1> QED BY <1>1, <1>2 DEF Rows, Typed, Tables

LEMMA EffectsTyped ==
    ASSUME AdminAssumption, Typed, Effects
    PROVE  Typed'
  <1>1. Made \subseteq Made' BY MadeStays DEF Effects
  <1>2. Talks'
    <2>3. said' \in [Users -> {x \in States : x.st = "sure"} \cup {None}]
      BY DEF Effects, Listens, Typed, Talks
    <2>1. CASE UNCHANGED <<wiz, asked>> BY <1>1, <2>1, <2>3 DEF Typed, Talks
    <2>2. ASSUME NEW u \in Users, NEW w \in States, Replies(u, w) PROVE Talks'
      <3>1. wiz' = [wiz EXCEPT ![u] = w] /\ (w \in Waiting => w.sess \in Made')
        BY <2>2 DEF Replies, Say
      <3>2. wiz' \in [Users -> States] /\ \A v \in Users : wiz'[v] \in Waiting => wiz'[v].sess \in Made'
        BY <1>1, <2>2, <3>1 DEF Typed, Talks
      <3>3. asked' = [v \in Users |-> asked'[v]] BY <2>2 DEF Replies, Typed, Talks
      <3> QED BY <2>3, <3>2, <3>3 DEF Talks
    <2> QED BY <2>1, <2>2 DEF Effects, Converses
  <1>3. Tables' BY RowsTyped DEF Effects, Stores, Tables
  <1>4. Hands'
    <2>1. ASSUME NEW k \in Slots, busy'[k] # None PROVE busy'[k] \in Asker /\ Holding(busy'[k], Made')
      BY <1>1, <2>1, Carried DEF Effects, Typed, Same, Fresh
    <2>2. busy' = [k \in Slots |-> busy'[k]]
      BY DEF Effects, Handles, Typed, Hands, Over, Steps, Begins, Joins, Renews
    <2> QED BY <2>1, <2>2 DEF Hands
  <1>5. Errands' BY <1>1 DEF Effects, Errs, Typed, Errands
  <1> QED BY <1>2, <1>3, <1>4, <1>5 DEF Typed, Effects

----------------------------------------------------------------------------
(* The effects of each action *)

(* The messages that only move the conversation, a wait for a code never     *)
(* beginning by one.                                                         *)
Quiets(u) ==
    \/ OpenMenu(u) \/ Depart(u) \/ GivePhone(u) \/ StartManage(u) \/ Decline(u) \/ NeedTwofa(u)
    \/ \E kind \in Starts : MenuChoice(u, kind)
    \/ \E a \in Accounts : GiveId(u, a) \/ ManagePick(u, a)
    \/ \E kind \in Kinds \cup {"rename", "role"} : ManageAction(u, kind)
Moves(u, w) ==
    /\ Replies(u, w) /\ Answered
    /\ w \in Waiting => wiz[u] \in Waiting /\ w.sess = wiz[u].sess /\ w.acc = wiz[u].acc

LEMMA Plain ==
    ASSUME Typed, NEW u \in Users, NEW w \in States, Say(u, w), Quick(u),
           w.st \notin {"sure", "otp", "2fa"}
    PROVE  Moves(u, w)
  BY StateShape DEF Moves, Replies, Quick, Closed, Typed, Talks

LEMMA QuietMoves ==
    ASSUME AdminAssumption, Typed, NEW u \in Users, Quiets(u)
    PROVE  \E w \in States : Moves(u, w)
  <1> DEFINE x == wiz[u]
  <1>1. x \in States BY DEF Typed, Talks
  <1> HIDE DEF x
  <1>2. CASE OpenMenu(u) \/ Depart(u) \/ StartManage(u)
    BY <1>2, Plain, StateMade DEF OpenMenu, Depart, StartManage
  <1>3. CASE GivePhone(u)
    <2>1. x.st = "phone" /\ x.kind \in Starts /\ x.acc \in Accounts
      BY <1>1, <1>3, StateShape DEF GivePhone, x
    <2> DEFINE w == Sure(x.kind, x.acc)
    <2>2. w \in States /\ w.st = "sure" /\ w \notin Waiting BY <2>1, StateMade DEF Waiting
    <2>3. Answered /\ Say(u, w) /\ asked' = [asked EXCEPT ![u] = <<w.kind, w.acc>>]
      BY <1>3 DEF GivePhone, Ask, x
    <2> HIDE DEF w
    <2> QED BY <2>2, <2>3 DEF Moves, Replies
  <1>4. CASE Decline(u)
    <2>1. x.acc \in Accounts BY <1>1, <1>4, StateShape DEF Decline, x
    <2>2. PICK w \in {Menu, Detail(u, x.acc)} : Say(u, w) /\ Quick(u) BY <1>4 DEF Decline, x
    <2>3. w \in States /\ w.st \in {"action", "menu"} BY <2>1, <2>2, DetailState, StateMade
    <2> QED BY <2>2, <2>3, Plain
  <1>5. CASE NeedTwofa(u)
    <2> DEFINE w == Await2fa(x.sess, x.acc)
    <2>1. x.st = "otp" /\ Say(u, w) /\ Quick(u) BY <1>5 DEF NeedTwofa, x
    <2>2. x \in Waiting /\ x.sess \in Sessions /\ x.acc \in Accounts BY <1>1, <2>1, StateShape
    <2>3. w \in States /\ w.st = "2fa" /\ w.sess = x.sess /\ w.acc = x.acc BY <2>2, StateMade
    <2> HIDE DEF w
    <2>4. x.sess \in Made /\ Made' = Made BY <2>1, <2>2 DEF Typed, Talks, Quick, Answered, d1, Made, x
    <2> QED BY <2>1, <2>2, <2>3, <2>4 DEF Moves, Replies, Quick, Closed, x
  <1>6. ASSUME NEW kind \in Starts, MenuChoice(u, kind) PROVE \E w \in States : Moves(u, w)
    <2> DEFINE w == [st |-> "id", kind |-> kind]
    <2>1. w \in States /\ w.st = "id" BY StateMade
    <2> QED BY <1>6, <2>1, Plain DEF MenuChoice
  <1>7. ASSUME NEW a \in Accounts, GiveId(u, a) \/ ManagePick(u, a) PROVE \E w \in States : Moves(u, w)
    <2>1. CASE GiveId(u, a)
      <3> DEFINE w == [st |-> "phone", kind |-> x.kind, acc |-> a]
      <3>1. x.kind \in Starts BY <1>1, <2>1, StateShape DEF GiveId, x
      <3>2. w \in States /\ w.st = "phone" BY <3>1, StateMade
      <3>3. Say(u, w) /\ Quick(u) BY <2>1 DEF GiveId, x
      <3> QED BY <3>2, <3>3, Plain
    <2>2. CASE ManagePick(u, a) BY <2>2, DetailState, Plain DEF ManagePick
    <2> QED BY <1>7, <2>1, <2>2
  <1>8. ASSUME NEW kind \in Kinds \cup {"rename", "role"}, ManageAction(u, kind)
        PROVE  \E w \in States : Moves(u, w)
    <2>1. x.acc \in Accounts BY <1>1, <1>8, StateShape DEF ManageAction, x
    <2>2. CASE kind \in Kinds /\ Ask(u, Sure(kind, x.acc)) /\ Answered
      <3> DEFINE w == Sure(kind, x.acc)
      <3>1. w \in States /\ w.st = "sure" /\ w \notin Waiting BY <2>1, <2>2, StateMade DEF Waiting
      <3>2. Say(u, w) /\ asked' = [asked EXCEPT ![u] = <<w.kind, w.acc>>] BY <2>2 DEF Ask
      <3> HIDE DEF w
      <3> QED BY <2>2, <3>1, <3>2 DEF Moves, Replies
    <2>3. CASE kind \in {"rename", "role"} /\ Say(u, Edit(kind, x.acc)) /\ Quick(u)
      BY <2>1, <2>3, StateMade, Plain
    <2> QED BY <1>8, <2>2, <2>3 DEF ManageAction, x
  <1> QED BY <1>2, <1>3, <1>4, <1>5, <1>6, <1>7, <1>8 DEF Quiets

LEMMA Quieted ==
    ASSUME Typed, UNCHANGED <<sess, older>>
    PROVE  Stores /\ Made' = Made
  BY Unwritten DEF Typed

LEMMA QuietEffects ==
    ASSUME AdminAssumption, Typed, NEW u \in Users, NEW w \in States, Moves(u, w)
    PROVE  Effects
  <1>1. UNCHANGED <<said, acct, sess, older, reg, secret, watch, runs, busy, turned, crossed>>
    BY DEF Moves, Answered, d1, github, tasks, hist
  <1>2. Stores /\ Rows BY <1>1, Quieted, SameRows
  <1>3. Github' /\ Handles /\ Errs /\ Listens
    BY <1>1 DEF Github, Typed, Handles, Errs, Errands, Listens
  <1>4. Converses BY DEF Moves, Converses
  <1> QED BY <1>2, <1>3, <1>4 DEF Effects

LEMMA CheckRunEffects ==
    ASSUME AdminAssumption, Typed, NEW u \in Users, CheckRun(u)
    PROVE  Effects
  <1>1. wiz[u] \in States /\ wiz[u].st = "otp" BY DEF CheckRun, Typed, Talks
  <1>2. wiz[u].sess \in Made BY <1>1, StateShape DEF Typed, Talks
  <1>3. UNCHANGED <<bot, acct, sess, older, reg, secret, watch, runs, turned, crossed>>
    BY DEF CheckRun, d1, github, tasks, hist
  <1>4. Stores /\ Rows BY <1>3, Quieted, SameRows
  <1>5. Github' /\ Errs /\ Converses /\ Listens
    BY <1>3 DEF bot, Github, Typed, Converses, Listens, Errs, Errands
  <1>6. Handles BY <1>2, <1>3, Readied DEF CheckRun
  <1> QED BY <1>4, <1>5, <1>6 DEF Effects

LEMMA WatchEffects ==
    ASSUME AdminAssumption, Typed, NEW w \in watch, WatchEnds(w)
    PROVE  Effects
  <1>1. w \in Watcher /\ w.sess \in Made /\ w.by \in Users BY DEF Typed, Errands, Watcher
  <1>2. UNCHANGED <<bot, acct, sess, older, reg, secret, runs, turned, crossed>>
    BY DEF WatchEnds, d1, github, hist
  <1>3. Stores /\ Rows BY <1>2, Quieted, SameRows
  <1>4. Github' /\ Errs /\ Converses /\ Listens
    BY <1>2 DEF WatchEnds, bot, Github, Typed, Converses, Listens, Errs, Errands
  <1>5. Handles BY <1>1, <1>2, Readied DEF WatchEnds, Handles
  <1> QED BY <1>3, <1>4, <1>5 DEF Effects

LEMMA CancelEffects ==
    ASSUME AdminAssumption, Typed, NEW u \in Users, Cancel(u)
    PROVE  Effects
  <1>1. wiz[u] \in States BY DEF Typed, Talks
  <1>2. Replies(u, Idle) BY StateMade DEF Cancel, Closed, Replies, Waiting, Idle
  <1>3. Github' /\ Handles /\ Errs /\ Rows /\ Listens
    BY SameRows DEF Cancel, github, tasks, hist, Github, Typed, Handles, Errs, Errands, Listens
  <1>4. CASE wiz[u].st \in {"otp", "2fa"}
    <2> DEFINE s == wiz[u].sess  x == Cleared(sess[s], "cancelled")
    <2>1. s \in Made BY <1>1, <1>4, StateShape DEF Typed, Talks
    <2>2. s \in Sessions /\ sess[s] \in Session BY <2>1, MadeSession DEF Typed
    <2>3. x \in Session /\ Keeps(sess[s], x) BY <2>2, ClearedSession
    <2>4. sess' = [sess EXCEPT ![s] = x] /\ Touch({s}) BY <1>4 DEF Cancel
    <2> HIDE DEF x, s
    <2>5. Stores BY <2>2, <2>3, <2>4, Stored DEF Typed
    <2> QED BY <1>2, <1>3, <2>5, StateMade DEF Effects, Converses
  <1>5. CASE wiz[u].st \notin {"otp", "2fa"}
    <2>1. Stores BY <1>5, Quieted DEF Cancel
    <2> QED BY <1>2, <1>3, <2>1, StateMade DEF Effects, Converses
  <1> QED BY <1>4, <1>5

LEMMA PressEffects ==
    ASSUME AdminAssumption, Typed, NEW u \in Users, Press(u)
    PROVE  Effects
  <1>1. UNCHANGED <<wiz, asked, acct, sess, older, reg, secret, watch, runs, busy, turned, crossed>>
    BY DEF Press, d1, github, tasks, hist
  <1>2. Stores /\ Rows BY <1>1, Quieted, SameRows
  <1>3. Github' /\ Handles /\ Errs /\ Converses
    BY <1>1 DEF Github, Typed, Handles, Errs, Errands, Converses
  <1>4. Listens BY DEF Press, Listens
  <1> QED BY <1>2, <1>3, <1>4 DEF Effects

(* The second read finds an account or leads away.                           *)
LEMMA TakesShape ==
    ASSUME AdminAssumption, NEW u, NEW w \in States, NEW kind \in Kinds \cup Starts
    PROVE  /\ Takes(kind, w) \in Accounts \cup {None}
           /\ Away(u, kind, w) \in States /\ Away(u, kind, w).st \in {"idle", "menu", "action"}
  <1>1. About(w) \in Accounts \cup {None} BY StateShape DEF About
  <1>2. ASSUME NEW kinds, Confirms(w, kinds) PROVE w.acc \in Accounts
    BY <1>2, StateShape DEF Confirms
  <1>3. Takes(kind, w) \in Accounts \cup {None} BY <1>1, <1>2 DEF Takes
  <1>4. CASE Away(u, kind, w) \in {Idle, Menu} BY <1>3, <1>4, StateMade
  <1>5. CASE About(w) # None /\ Away(u, kind, w) = Detail(u, About(w))
    BY <1>1, <1>3, <1>5, DetailState
  <1> QED BY <1>4, <1>5 DEF Away

LEMMA ConfirmEffects ==
    ASSUME AdminAssumption, Typed, NEW u \in Users, Confirm(u)
    PROVE  Effects
  <1> DEFINE w == wiz[u]  kind == said[u].kind  a == Takes(kind, w)
  <1>1. w \in States /\ kind \in Kinds \cup Starts
    BY StateShape DEF Typed, Talks, Confirm
  <1>2. UNCHANGED <<acct, sess, older, reg, secret, watch, runs, turned, crossed, asked>>
    BY DEF Confirm, d1, github, tasks, hist
  <1>3. Stores /\ Rows /\ Made' = Made BY <1>2, Quieted, SameRows
  <1>4. Github' /\ Errs BY <1>2 DEF Github, Typed, Errs, Errands
  <1>5. Listens BY DEF Confirm, Listens
  <1>6. CASE a # None /\ (kind \in Kinds => Owned(u, a))
    <2>1. Joins(Request(u, kind, a, None)) /\ UNCHANGED wiz BY <1>6 DEF Confirm
    <2>2. a \in Accounts BY <1>1, <1>6, TakesShape
    <2>3. kind \in Ops \ {"done"} /\ kind # "code" /\ kind \notin Texts BY <1>1 DEF Ops, Kinds, Starts, Texts
    <2> HIDE DEF a, kind
    <2>4. Handles BY <1>3, <1>6, <2>1, <2>2, <2>3, Asked
    <2> QED BY <1>2, <1>3, <1>4, <1>5, <2>1, <2>4 DEF Effects, Converses
  <1>7. CASE ~(a # None /\ (kind \in Kinds => Owned(u, a)))
    <2> DEFINE v == Away(u, kind, w)
    <2>1. Say(u, v) /\ UNCHANGED busy BY <1>7 DEF Confirm
    <2>2. v \in States /\ v.st \in {"idle", "menu", "action"} BY <1>1, TakesShape
    <2> HIDE DEF v
    <2>3. Replies(u, v) BY <1>2, <2>1, <2>2 DEF Replies, Waiting
    <2> QED BY <1>3, <1>4, <1>5, <2>1, <2>2, <2>3 DEF Effects, Converses, Handles
  <1> QED BY <1>6, <1>7

LEMMA TextEffects ==
    ASSUME AdminAssumption, Typed, NEW u \in Users, NEW op \in Texts, GiveText(u, op)
    PROVE  Effects
  <1> DEFINE w == wiz[u]
  <1>1. UNCHANGED <<bot, acct, sess, older, reg, secret, watch, runs, turned, crossed>>
    BY DEF GiveText, d1, github, tasks, hist
  <1>2. Stores /\ Rows /\ Made' = Made BY <1>1, Quieted, SameRows
  <1>3. Github' /\ Errs /\ Converses /\ Listens
    BY <1>1 DEF bot, Github, Typed, Errs, Errands, Converses, Listens
  <1>4. w.acc \in Accounts /\ Owned(u, w.acc) BY StateShape DEF Typed, Talks, GiveText
  <1>5. Joins(Request(u, op, w.acc, None)) BY DEF GiveText, Submit
  <1>6. op \in Ops \ {"done"} /\ op # "code" BY DEF Ops, Texts
  <1>7. Handles BY <1>2, <1>4, <1>5, <1>6, Asked
  <1> QED BY <1>2, <1>3, <1>7 DEF Effects

(* A code is kept in the session the conversation waits for.                 *)
LEMMA CodeStores ==
    ASSUME AdminAssumption, Typed, NEW u \in Users, GiveCode(u)
    PROVE  /\ Stores /\ Joins(Request(u, "code", wiz[u].acc, wiz[u].sess))
           /\ wiz[u] \in Waiting /\ wiz[u].sess \in Made /\ Made' = Made
           /\ \A s \in Sessions : s # wiz[u].sess => sess'[s] = sess[s]
  <1> DEFINE w == wiz[u]  s == w.sess  y == (sess[s].otp \/ w.st = "otp")
             x == [sess[s] EXCEPT !.otp = y]
  <1>1. w \in States /\ w.st \in {"otp", "2fa"} BY DEF Typed, Talks, GiveCode
  <1>2. w \in Waiting /\ w.acc \in Accounts /\ s \in Made BY <1>1, StateShape DEF Typed, Talks
  <1>3. s \in Sessions /\ sess[s] \in Session BY <1>2, MadeSession DEF Typed
  <1>4. sess' = [sess EXCEPT ![s] = x] /\ Touch({s}) BY DEF GiveCode
  <1>5. y \in BOOLEAN OBVIOUS
  <1> HIDE DEF y
  <1>6. x \in Session /\ Keeps(sess[s], x) BY <1>3, <1>5 DEF Session, Keeps
  <1>7. Joins(Request(u, "code", w.acc, s)) BY DEF GiveCode, Submit
  <1> HIDE DEF w, s, x
  <1>8. Stores /\ Made' = Made
    <2>1. Stores /\ Made' = Made \cup {s} BY <1>3, <1>4, <1>6, Stored DEF Typed
    <2> QED BY <1>2, <2>1
  <1>10. \A t \in Sessions : t # s => sess'[t] = sess[t] BY <1>4 DEF Typed, Tables
  <1> QED BY <1>2, <1>7, <1>8, <1>10 DEF w, s

LEMMA CodeEffects ==
    ASSUME AdminAssumption, Typed, NEW u \in Users, GiveCode(u)
    PROVE  Effects
  <1>1. UNCHANGED <<bot, acct, reg, secret, watch, runs, turned, crossed>>
    BY DEF GiveCode, github, tasks, hist
  <1>2. Stores /\ wiz[u] \in Waiting /\ wiz[u].sess \in Made /\ Made' = Made
        /\ Joins(Request(u, "code", wiz[u].acc, wiz[u].sess))
    BY CodeStores
  <1>3. wiz[u].sess \in Sessions /\ wiz[u].acc \in Accounts BY <1>2 DEF Made, Waiting
  <1>4. "code" \in Ops \ {"done"} /\ "code" \notin Kinds \cup Texts BY DEF Ops, Kinds, Texts
  <1>5. Handles BY <1>2, <1>3, <1>4, Asked
  <1>6. Rows BY <1>1, SameRows
  <1>7. Github' /\ Errs /\ Converses /\ Listens
    BY <1>1 DEF bot, Github, Typed, Errs, Errands, Converses, Listens
  <1> QED BY <1>2, <1>5, <1>6, <1>7 DEF Effects

(* A handler that ends with a message, or without.                           *)
LEMMA Ended ==
    ASSUME NEW k \in Slots, busy[k] # None, NEW u \in Users, NEW w \in States, Ends(k, u, w),
           w.st # "sure", w \in Waiting => w.sess \in Made', UNCHANGED asked, Freed(k)
    PROVE  Converses /\ Handles
  BY Finished DEF Ends, Replies, Converses

LEMMA Died ==
    ASSUME NEW k \in Slots, busy[k] # None, Dies(k), UNCHANGED asked, Freed(k)
    PROVE  Converses /\ Handles
  BY Finished DEF Dies, Converses

LEMMA RegistryKept ==
    ASSUME Typed, NEW a \in Accounts, NEW v \in {"on", "off"}, Registry(a, v) \/ UNCHANGED reg,
           UNCHANGED secret
    PROVE  Github'
  BY DEF Typed, Github, Registry

LEMMA SwitchedRow ==
    ASSUME NEW row \in Row, NEW on \in BOOLEAN
    PROVE  Switched(row, on) \in Row /\ Switched(row, on).on = on
  BY DEF Switched, Row

LEMMA EnabledEffects ==
    ASSUME AdminAssumption, Typed, NEW k \in Slots, NEW done \in BOOLEAN, NEW heard \in Heard,
           SetEnabled(k, done, heard)
    PROVE  Effects
  <1> DEFINE r == busy[k]  on == (r.op = "enable")
  <1>1. r # None /\ r.op \in {"enable", "disable"} /\ r.at \in Early BY DEF SetEnabled, Early
  <1>2. r.by \in Users /\ r.acc \in Accounts /\ r.row \in Row BY <1>1, HandlerShape DEF Kinds
  <1>3. UNCHANGED <<said, acct, sess, older, secret, watch, runs, turned, crossed, asked>>
    BY DEF SetEnabled, d1, tasks
  <1>4. Stores /\ Rows /\ Made' = Made BY <1>3, Quieted, SameRows
  <1>5. Errs /\ Listens BY <1>3 DEF Typed, Errs, Errands, Listens
  <1>6. Github'
    <2>1. \E v \in {"on", "off"} : Registry(r.acc, v) \/ UNCHANGED reg BY DEF SetEnabled
    <2> QED BY <1>2, <1>3, <2>1, RegistryKept
  <1>7. Converses /\ Handles
    <2>1. CASE MayPut(r.by, r.acc) /\ Finds(k, Switched(r.row, on))
      <3>1. on \in BOOLEAN OBVIOUS
      <3> HIDE DEF on
      <3>2. Switched(r.row, on) \in Row BY <1>2, <3>1, SwitchedRow
      <3> QED BY <1>1, <1>3, <1>4, <2>1, <3>2, Searched DEF Finds, Converses
    <2>2. CASE Ends(k, r.by, Detail(r.by, r.acc))
      <3>1. Detail(r.by, r.acc) \in States /\ Detail(r.by, r.acc).st \in {"action", "menu"}
        BY <1>2, DetailState
      <3> QED BY <1>1, <1>2, <1>3, <2>2, <3>1, Ended DEF Waiting, Freed
    <2>3. CASE Dies(k) BY <1>1, <1>3, <2>3, Died DEF Freed
    <2> QED BY <2>1, <2>2, <2>3 DEF SetEnabled
  <1> QED BY <1>4, <1>5, <1>6, <1>7 DEF Effects

LEMMA SetTextEffects ==
    ASSUME AdminAssumption, Typed, NEW k \in Slots, NEW heard \in Heard, SetText(k, heard)
    PROVE  Effects
  <1> DEFINE r == busy[k]
  <1>1. r # None /\ r.op \in Texts /\ r.at \in Early BY DEF SetText, Early, Texts
  <1>2. r.by \in Users /\ r.acc \in Accounts /\ r.row \in Row BY <1>1, HandlerShape
  <1>3. UNCHANGED <<said, acct, sess, older, reg, secret, watch, runs, turned, crossed, asked>>
    BY DEF SetText, d1, github, tasks, hist
  <1>4. Stores /\ Rows /\ Made' = Made BY <1>3, Quieted, SameRows
  <1>5. Errs /\ Listens /\ Github' BY <1>3 DEF Typed, Errs, Errands, Listens, Github
  <1>6. Converses /\ Handles
    <2>1. CASE MayPut(r.by, r.acc) /\ Finds(k, r.row)
      BY <1>1, <1>2, <1>3, <1>4, <2>1, Searched DEF Finds, Converses
    <2>2. CASE \E w \in {Edit("rename", r.acc), Edit("role", r.acc), Detail(r.by, r.acc)} : Ends(k, r.by, w)
      <3>1. PICK w \in {Edit("rename", r.acc), Edit("role", r.acc), Detail(r.by, r.acc)} : Ends(k, r.by, w)
        BY <2>2
      <3>2. w \in States /\ w.st \in {"action", "menu", "edit"} BY <1>2, <3>1, DetailState, StateMade
      <3> QED BY <1>1, <1>2, <1>3, <3>1, <3>2, Ended DEF Waiting, Freed
    <2>3. CASE Dies(k) BY <1>1, <1>3, <2>3, Died DEF Freed
    <2> QED BY <2>1, <2>2, <2>3 DEF SetText
  <1> QED BY <1>4, <1>5, <1>6 DEF Effects

LEMMA SecretEffects ==
    ASSUME AdminAssumption, Typed, NEW k \in Slots, NEW done \in BOOLEAN, NEW heard \in Heard,
           LogoutSecret(k, done, heard)
    PROVE  Effects
  <1> DEFINE r == busy[k]
  <1>1. r # None /\ r.op = "logout" /\ r.at \in Early BY DEF LogoutSecret, Early
  <1>2. r.by \in Users /\ r.acc \in Accounts BY <1>1, HandlerShape
  <1>3. UNCHANGED <<said, acct, sess, older, reg, watch, runs, turned, crossed, asked>>
    BY DEF LogoutSecret, d1, tasks, hist
  <1>4. Stores /\ Rows /\ Made' = Made BY <1>3, Quieted, SameRows
  <1>5. Errs /\ Listens BY <1>3 DEF Typed, Errs, Errands, Listens
  <1>6. Github' BY <1>2, <1>3 DEF LogoutSecret, Typed, Github
  <1>7. Converses /\ Handles
    <2>1. CASE Goes(k) /\ UNCHANGED wiz BY <1>1, <1>3, <1>4, <2>1, Gone DEF Converses
    <2>2. CASE Ends(k, r.by, Detail(r.by, r.acc))
      <3>1. Detail(r.by, r.acc) \in States /\ Detail(r.by, r.acc).st \in {"action", "menu"}
        BY <1>2, DetailState
      <3> QED BY <1>1, <1>2, <1>3, <2>2, <3>1, Ended DEF Waiting, Freed
    <2>3. CASE Dies(k) BY <1>1, <1>3, <2>3, Died DEF Freed
    <2> QED BY <2>1, <2>2, <2>3 DEF LogoutSecret, AfterLogoutError
  <1> QED BY <1>4, <1>5, <1>6, <1>7 DEF Effects

LEMMA LogoutEffects ==
    ASSUME AdminAssumption, Typed, NEW k \in Slots, NEW done \in BOOLEAN, NEW heard \in Heard,
           LogoutRow(k, done, heard)
    PROVE  Effects
  <1> DEFINE r == busy[k]  row == [r.row EXCEPT !.on = FALSE, !.logged = FALSE, !.st = "scaffolded"]
  <1>1. r # None /\ r.op = "logout" /\ r.at \in Early BY DEF LogoutRow, Early
  <1>2. r.by \in Users /\ r.acc \in Accounts /\ r.row \in Row BY <1>1, HandlerShape DEF Kinds
  <1>3. UNCHANGED <<said, acct, sess, older, secret, watch, runs, turned, crossed, asked>>
    BY DEF LogoutRow, d1, tasks
  <1>4. Stores /\ Rows /\ Made' = Made BY <1>3, Quieted, SameRows
  <1>5. Errs /\ Listens BY <1>3 DEF Typed, Errs, Errands, Listens
  <1>6. Github' BY <1>2, <1>3, RegistryKept DEF LogoutRow
  <1>7. Converses /\ Handles
    <2>1. CASE MayPut(r.by, r.acc) /\ Finds(k, row)
      <3>1. row \in Row BY <1>2 DEF Row
      <3> HIDE DEF row
      <3> QED BY <1>1, <1>3, <1>4, <2>1, <3>1, Searched DEF Finds, Converses
    <2>2. CASE Dies(k) BY <1>1, <1>3, <2>2, Died DEF Freed
    <2> QED BY <2>1, <2>2 DEF LogoutRow
  <1> QED BY <1>4, <1>5, <1>6, <1>7 DEF Effects

LEMMA RegistryEffects ==
    ASSUME AdminAssumption, Typed, NEW k \in Slots, NEW done \in BOOLEAN, NEW heard \in Heard,
           DeleteRegistry(k, done, heard)
    PROVE  Effects
  <1>1. busy[k] # None /\ busy[k].acc \in Accounts /\ busy[k].at \in Early
    BY HandlerShape DEF DeleteRegistry, Early
  <1>2. UNCHANGED <<wiz, asked, said, acct, sess, older, secret, watch, runs, turned, crossed>>
    BY DEF DeleteRegistry, d1, tasks
  <1>3. Stores /\ Rows /\ Made' = Made BY <1>2, Quieted, SameRows
  <1>4. Errs /\ Listens /\ Converses BY <1>2 DEF Typed, Errs, Errands, Listens, Converses
  <1>5. Github' BY <1>1, <1>2 DEF DeleteRegistry, Typed, Github
  <1>6. Handles BY <1>1, <1>3, Gone, Finished DEF DeleteRegistry, Freed
  <1> QED BY <1>3, <1>4, <1>5, <1>6 DEF Effects

(* A deletion that goes on to the sessions of the account.                   *)
LEMMA DeletedSteps ==
    ASSUME Typed, NEW k \in Slots, Deleted(k), busy[k].again => busy'[k].again, Made \subseteq Made'
    PROVE  Handles
  <1> DEFINE r == busy[k]
  <1>1. PICK again \in BOOLEAN : busy' = [busy EXCEPT ![k] = [@ EXCEPT !.at = "fetch", !.again = again]]
    BY DEF Deleted
  <1> DEFINE q == [r EXCEPT !.at = "fetch", !.again = again]
  <1>2. r # None /\ r.at = "second" /\ r \in Asker /\ Holding(r, Made) BY DEF Deleted, Typed, Hands
  <1>3. /\ q \in Asker /\ q.by = r.by /\ q.op = r.op /\ q.acc = r.acc /\ q.sess = r.sess
        /\ q.row = r.row /\ q.at = "fetch" /\ q.todo = r.todo /\ q.met = r.met /\ q.again = again
    BY <1>2 DEF Asker, Early
  <1>4. busy' = [busy EXCEPT ![k] = q] BY <1>1
  <1>5. busy'[k] = q BY <1>4 DEF Typed, Hands
  <1> HIDE DEF q
  <1>6. Same(r, q) BY <1>2, <1>3, <1>5 DEF Same, Early, Saving
  <1>7. Holding(q, Made') BY <1>2, <1>3 DEF Holding, Early, Saving
  <1> QED BY <1>2, <1>3, <1>4, <1>6, <1>7 DEF Handles, Steps

LEMMA DeleteEffects ==
    ASSUME AdminAssumption, Typed, NEW k \in Slots, NEW done \in BOOLEAN, NEW heard \in Heard,
           DeleteRow(k, done, heard)
    PROVE  Effects
  <1> DEFINE r == busy[k]  again == (r.again \/ heard = "error")
  <1>1. r # None /\ r.acc \in Accounts /\ r \in Asker /\ r.at \in Early
    BY HandlerShape DEF DeleteRow, Early
  <1>2. UNCHANGED <<wiz, asked, said, sess, older, reg, watch, runs>> BY DEF DeleteRow, tasks
  <1>3. Stores /\ Made' = Made BY <1>2, Quieted
  <1>4. Errs /\ Listens /\ Converses BY <1>2 DEF Typed, Errs, Errands, Listens, Converses
  <1>5. Github' BY <1>1, <1>2 DEF DeleteRow, Typed, Github
  <1>6. CASE heard = "cut"
    <2>1. Over(k) /\ UNCHANGED <<acct, turned, crossed>> BY <1>6 DEF DeleteRow
    <2> QED BY <1>1, <1>3, <1>4, <1>5, <2>1, SameRows, Finished DEF Effects, Freed
  <1>7. CASE heard # "cut"
    <2>5. busy' = [busy EXCEPT ![k] = [@ EXCEPT !.at = "fetch", !.again = again]] BY <1>7 DEF DeleteRow
    <2>6. again \in BOOLEAN BY <1>1 DEF Asker
    <2>1. again \in BOOLEAN /\ busy' = [busy EXCEPT ![k] = [@ EXCEPT !.at = "fetch", !.again = again]]
      BY <2>5, <2>6
    <2>2. busy'[k].again = again BY <1>1, <2>1 DEF Typed, Hands, Asker
    <2>3. Deleted(k)
      <3> HIDE DEF again
      <3> QED BY <1>7, <2>1 DEF DeleteRow, Deleted
    <2>4. Handles BY <1>3, <2>2, <2>3, DeletedSteps
    <2> QED BY <1>3, <1>4, <1>5, <2>3, <2>4 DEF Effects, Rows
  <1> QED BY <1>6, <1>7

LEMMA FetchEffects ==
    ASSUME AdminAssumption, Typed, NEW k \in Slots, NEW some \in SUBSET Sessions, Fetch(k, some)
    PROVE  Effects
  <1> DEFINE r == busy[k]  left == {s \in some : sess[s].by = r.by}
             q == [r EXCEPT !.at = "cancel", !.todo = left]
  <1>1. r # None /\ r.at = "fetch" /\ r \in Asker BY HandlerShape DEF Fetch
  <1>2. UNCHANGED <<bot, acct, sess, older, reg, secret, watch, runs, turned>>
    BY DEF Fetch, d1, github, tasks
  <1>3. Stores /\ Rows /\ Made' = Made BY <1>2, Quieted, SameRows DEF Fetch
  <1>4. Errs /\ Listens /\ Converses /\ Github'
    BY <1>2 DEF bot, Typed, Errs, Errands, Listens, Converses, Github
  <1>5. left \subseteq Made /\ left \subseteq Sessions BY DEF Fetch, SessionsOf
  <1>6. busy' = [busy EXCEPT ![k] = q] BY DEF Fetch
  <1> HIDE DEF left
  <1>7. /\ q \in Asker /\ q.by = r.by /\ q.op = r.op /\ q.acc = r.acc /\ q.sess = r.sess
        /\ q.at = "cancel" /\ q.todo = left /\ q.met = r.met /\ q.again = r.again
    BY <1>1, <1>5 DEF Asker
  <1> HIDE DEF q
  <1>8. Same(r, q) BY <1>1, <1>7 DEF Same, Early, Saving
  <1>9. Holding(r, Made) BY <1>1 DEF Typed, Hands
  <1>10. Holding(q, Made') BY <1>3, <1>5, <1>7, <1>9 DEF Holding, Early, Saving
  <1>11. Handles BY <1>1, <1>6, <1>7, <1>8, <1>10 DEF Handles, Steps
  <1> QED BY <1>3, <1>4, <1>11 DEF Effects

LEMMA CancelSessionStores ==
    ASSUME AdminAssumption, Typed, NEW k \in Slots, NEW s \in Sessions, CancelSession(k, s)
    PROVE  Stores /\ Made' = Made /\ s \in Made /\ sess' = [sess EXCEPT ![s] = Cleared(sess[s], "cancelled")]
  <1> DEFINE x == Cleared(sess[s], "cancelled")
  <1>1. s \in Made BY HandlerShape DEF CancelSession
  <1>2. sess[s] \in Session BY <1>1, MadeSession DEF Typed
  <1>3. x \in Session /\ Keeps(sess[s], x) BY <1>2, ClearedSession
  <1>4. sess' = [sess EXCEPT ![s] = x] /\ Touch({s}) BY DEF CancelSession, SessionLeft
  <1> HIDE DEF x
  <1>5. Stores /\ Made' = Made \cup {s} BY <1>3, <1>4, Stored DEF Typed
  <1> QED BY <1>1, <1>4, <1>5 DEF x

LEMMA CancelSessionEffects ==
    ASSUME AdminAssumption, Typed, NEW k \in Slots, NEW s \in Sessions, CancelSession(k, s)
    PROVE  Effects
  <1> DEFINE r == busy[k]  left == r.todo \ {s}  q == [r EXCEPT !.todo = left]
  <1>1. r # None /\ r \in Asker /\ Holding(r, Made) BY DEF CancelSession, Typed, Hands
  <1>2. UNCHANGED <<bot, acct, reg, secret, watch, runs, turned, crossed>>
    BY DEF CancelSession, github, tasks, hist
  <1>3. Stores /\ Rows /\ Made' = Made BY <1>2, CancelSessionStores, SameRows
  <1>4. Errs /\ Listens /\ Converses /\ Github'
    BY <1>2 DEF bot, Typed, Errs, Errands, Listens, Converses, Github
  <1>5. left \subseteq r.todo OBVIOUS
  <1>6. busy' = [busy EXCEPT ![k] = q] BY DEF CancelSession
  <1> HIDE DEF left
  <1>7. /\ q \in Asker /\ q.by = r.by /\ q.op = r.op /\ q.acc = r.acc /\ q.sess = r.sess
        /\ q.row = r.row /\ q.at = r.at /\ q.todo = left /\ q.met = r.met /\ q.again = r.again
    BY <1>1, <1>5 DEF Asker
  <1> HIDE DEF q
  <1>8. Same(r, q) BY <1>1, <1>7 DEF Same
  <1>10. Holding(q, Made') BY <1>1, <1>3, <1>5, <1>7 DEF Holding
  <1>11. Handles BY <1>1, <1>6, <1>7, <1>8, <1>10 DEF Handles, Steps
  <1> QED BY <1>3, <1>4, <1>11 DEF Effects

LEMMA DeleteEndsEffects ==
    ASSUME AdminAssumption, Typed, NEW k \in Slots, NEW cut \in BOOLEAN, DeleteEnds(k, cut)
    PROVE  Effects
  <1>1. busy[k] # None /\ busy[k].by \in Users /\ busy[k].at \in {"fetch", "cancel"}
    BY HandlerShape DEF DeleteEnds
  <1>2. UNCHANGED <<said, acct, sess, older, reg, secret, watch, runs, turned, asked>>
    BY DEF DeleteEnds, d1, github, tasks
  <1>3. Stores /\ Rows BY <1>2, Quieted, SameRows DEF DeleteEnds
  <1>4. Errs /\ Listens /\ Github' BY <1>2 DEF Typed, Errs, Errands, Listens, Github
  <1>5. Converses /\ Handles
    <2>1. CASE Dies(k) BY <1>1, <1>2, <2>1, Died DEF Freed
    <2>2. CASE Ends(k, busy[k].by, Menu) BY <1>1, <1>2, <2>2, Ended, StateMade DEF Waiting, Freed
    <2> QED BY <2>1, <2>2 DEF DeleteEnds
  <1> QED BY <1>3, <1>4, <1>5 DEF Effects

(* The row that a handler writes at last                                     *)
LEMMA WrittenShape ==
    ASSUME AdminAssumption, Typed, NEW k \in Slots, Written(k)
    PROVE  LET r == busy[k] IN
           /\ r # None /\ r \in Asker /\ r.by \in Users /\ r.acc \in Accounts /\ r.at \in Saving
           /\ r.row \in Row /\ r.row.owner = r.by
           /\ ~Fails(k) /\ r.at = "insert" => Lands(k)
           /\ Lands(k) => acct' = [acct EXCEPT ![r.acc] = r.row]
           /\ ~Lands(k) => acct' = acct
  <1>1. busy[k] # None /\ busy[k].at \in Saving BY DEF Written
  <1>2. ~Fails(k) /\ busy[k].at = "insert" => Lands(k) BY DEF Fails, Lands
  <1> QED BY <1>1, <1>2, HandlerShape DEF Written

LEMMA SavedEffects ==
    ASSUME AdminAssumption, Typed, NEW k \in Slots, Saved(k)
    PROVE  Effects
  <1> DEFINE r == busy[k]
  <1>1. Written(k) BY DEF Saved
  <1>2. r # None /\ r.by \in Users /\ r.acc \in Accounts BY <1>1, WrittenShape
  <1>3. UNCHANGED <<said, sess, older, reg, secret, watch, runs, asked>> BY DEF Saved, Written
  <1>4. Stores BY <1>3, Quieted
  <1>5. Errs /\ Listens /\ Github' BY <1>3 DEF Typed, Errs, Errands, Listens, Github
  <1>6. PICK w \in {Action(r.acc), Menu} : Dies(k) \/ Ends(k, r.by, w) BY DEF Saved
  <1>7. w \in States /\ w.st \in {"action", "menu"} BY <1>2, <1>6, StateMade
  <1>8. Converses /\ Handles BY <1>1, <1>2, <1>3, <1>6, <1>7, Died, Ended DEF Waiting, Freed
  <1>9. Rows BY <1>1, <1>6 DEF Rows, Wrote, Dies, Ends
  <1> QED BY <1>4, <1>5, <1>8, <1>9 DEF Effects

(* A login is sought for.                                                    *)
LEMMA StartEffects ==
    ASSUME AdminAssumption, Typed, NEW k \in Slots, NEW out \in {"ok", "conflict", "error", "cut"},
           Start(k, out)
    PROVE  Effects
  <1> DEFINE r == busy[k]  a == r.acc
             on == (acct[a] # None /\ acct[a].on)  logged == (acct[a] # None /\ acct[a].logged)
             row == [owner |-> r.by, on |-> on, logged |-> logged, st |-> "logging_in"]
  <1>1. r # None /\ r.op \in Starts /\ r.at \in Early BY DEF Start, Early
  <1>2. r.by \in Users /\ a \in Accounts BY <1>1, HandlerShape
  <1>3. UNCHANGED <<said, acct, sess, older, reg, secret, watch, runs, turned, crossed>>
    BY DEF Start, d1, github, tasks, hist
  <1>4. Stores /\ Rows /\ Made' = Made BY <1>3, Quieted, SameRows
  <1>5. Errs /\ Listens /\ Github' BY <1>3 DEF Typed, Errs, Errands, Listens, Github
  <1>6. CASE out = "ok"
    <2>1. MayPut(r.by, a) /\ UNCHANGED asked /\ Finds(k, row) BY <1>6 DEF Start
    <2>2. on \in BOOLEAN /\ logged \in BOOLEAN BY <1>2 DEF Typed, Tables, Row
    <2> HIDE DEF on, logged
    <2>3. row \in Row BY <1>2, <2>2 DEF Row
    <2> HIDE DEF row
    <2>4. Handles BY <1>1, <1>4, <2>1, <2>3, Searched
    <2> QED BY <1>4, <1>5, <2>1, <2>4 DEF Effects, Converses, Finds
  <1>7. CASE out = "conflict"
    <2>1. Ends(k, r.by, Menu) /\ UNCHANGED asked BY <1>7 DEF Start
    <2>2. Converses /\ Handles BY <1>1, <1>2, <2>1, Ended, StateMade DEF Waiting, Freed
    <2> QED BY <1>4, <1>5, <2>2 DEF Effects
  <1>8. CASE out = "error"
    <2> DEFINE w == Sure(r.op, a)
    <2>1. Over(k) /\ Ask(r.by, w) BY <1>8 DEF Start
    <2>2. w \in States /\ w.st = "sure" /\ w \notin Waiting BY <1>1, <1>2, StateMade DEF Waiting
    <2> HIDE DEF w
    <2>3. Replies(r.by, w) BY <2>1, <2>2 DEF Ask, Replies
    <2> QED BY <1>1, <1>2, <1>4, <1>5, <2>1, <2>2, <2>3, Finished DEF Effects, Converses, Freed
  <1>9. CASE out = "cut"
    <2>1. Dies(k) /\ UNCHANGED asked BY <1>9 DEF Start
    <2> QED BY <1>1, <1>4, <1>5, <2>1, Died DEF Effects, Freed
  <1> QED BY <1>6, <1>7, <1>8, <1>9

(* A login that has taken effect: the session it makes                       *)
LEMMA StartedStores ==
    ASSUME AdminAssumption, Typed, NEW k \in Slots, NEW s \in Sessions,
           NEW out \in {"ok", "error", "cut"}, Started(k, s, out)
    PROVE  /\ s \notin Made /\ Stores /\ \A t \in Made : sess'[t] = sess[t]
           /\ Fails(k) => UNCHANGED <<sess, older, reg, runs>> /\ Made' = Made
           /\ ~Fails(k) => /\ Made' = Made \cup {s}
                           /\ sess'[s].by = busy[k].by /\ sess'[s].acc = busy[k].acc
  <1> DEFINE r == busy[k]  a == r.acc
             x == [acc |-> a, by |-> r.by, phone |-> TRUE, otp |-> FALSE, old |-> FALSE,
                   st |-> "sending", res |-> "none"]
  <1>1. r.by \in Users /\ a \in Accounts BY WrittenShape DEF Started
  <1>2. x \in Session /\ x.by = r.by /\ x.acc = a BY <1>1 DEF Session
  <1>3. s \notin Made BY DEF Started, Made
  <1>4. CASE Fails(k)
    <2>1. UNCHANGED <<sess, older, reg, runs>> BY <1>4 DEF Started
    <2> QED BY <1>3, <1>4, <2>1, Quieted
  <1>5. CASE ~Fails(k)
    <2>1. sess' = [sess EXCEPT ![s] = x] /\ Touch({s}) BY <1>5 DEF Started
    <2> HIDE DEF x
    <2>2. Stores /\ Made' = Made \cup {s} BY <1>2, <1>3, <2>1, Stored DEF Typed
    <2>3. sess'[s] = x /\ \A t \in Made : sess'[t] = sess[t]
      BY <1>3, <2>1 DEF Typed, Tables, Made
    <2> QED BY <1>2, <1>3, <1>5, <2>2, <2>3
  <1> QED BY <1>4, <1>5

LEMMA StartedEffects ==
    ASSUME AdminAssumption, Typed, NEW k \in Slots, NEW s \in Sessions,
           NEW out \in {"ok", "error", "cut"}, Started(k, s, out)
    PROVE  Effects
  <1> DEFINE r == busy[k]  a == r.acc
  <1>1. Written(k) /\ r.op \in Starts BY DEF Started
  <1>2. r # None /\ r.by \in Users /\ a \in Accounts BY <1>1, WrittenShape
  <1>3. UNCHANGED <<said, secret, watch>> BY DEF Started, Written
  <1>4. Stores /\ (~Fails(k) => s \in Made') BY StartedStores
  <1>5. Listens BY <1>3 DEF Listens
  <1>6. Github'
    <2>1. reg' = reg \/ reg' = [reg EXCEPT ![a] = "off"] BY DEF Started
    <2> QED BY <1>2, <1>3, <2>1 DEF Typed, Github
  <1>7. Errs
    <2> DEFINE x == [acc |-> a, action |-> "send", sess |-> s]
    <2>1. x \in Run /\ x.sess = s BY <1>2 DEF Run
    <2>2. UNCHANGED watch /\ (runs' = runs \/ (~Fails(k) /\ runs' = runs \cup {x})) BY <1>3 DEF Started
    <2> HIDE DEF x
    <2> QED BY <1>4, <2>1, <2>2 DEF Errs, Typed, Errands
  <1>8. Converses /\ Over(k)
    <2>1. CASE ~Fails(k) /\ out = "ok"
      <3> DEFINE w == AwaitOtp(s, a)
      <3>1. w \in States /\ w.st = "otp" /\ w.sess = s BY <1>2, StateMade
      <3>2. Ends(k, r.by, w) /\ UNCHANGED asked BY <2>1 DEF Started
      <3> HIDE DEF w
      <3> QED BY <1>1, <1>2, <1>4, <2>1, <3>1, <3>2, Ended DEF Ends, Freed
    <2>2. CASE ~Fails(k) /\ out = "error"
      <3> DEFINE w == Sure(r.op, a)
      <3>1. Over(k) /\ Ask(r.by, w) BY <2>2 DEF Started
      <3>2. w \in States /\ w.st = "sure" /\ w \notin Waiting BY <1>1, <1>2, StateMade DEF Waiting
      <3> HIDE DEF w
      <3>3. Replies(r.by, w) BY <3>1, <3>2 DEF Ask, Replies
      <3> QED BY <1>2, <3>1, <3>2, <3>3 DEF Converses
    <2>3. CASE ~(~Fails(k) /\ out \in {"ok", "error"})
      <3>1. Dies(k) /\ UNCHANGED asked BY <2>3 DEF Started
      <3> QED BY <1>1, <1>2, <3>1, Died DEF Dies, Freed
    <2> QED BY <2>1, <2>2, <2>3
  <1>9. Rows /\ Handles BY <1>1, <1>2, <1>8 DEF Rows, Wrote, Handles
  <1> QED BY <1>4, <1>5, <1>6, <1>7, <1>8, <1>9 DEF Effects

LEMMA LoginDoneStores ==
    ASSUME AdminAssumption, Typed, NEW k \in Slots, LoginDone(k)
    PROVE  /\ Stores /\ Made' = Made /\ busy[k].sess \in Made
           /\ \/ UNCHANGED sess
              \/ sess' = [sess EXCEPT ![busy[k].sess] = Cleared(sess[busy[k].sess], "done")]
  <1> DEFINE r == busy[k]  s == r.sess  x == Cleared(sess[s], "done")
  <1>1. r # None /\ r.op = "done" BY DEF LoginDone, Written
  <1>2. s \in Made BY <1>1, HandlerShape
  <1>3. s \in Sessions /\ sess[s] \in Session BY <1>2, MadeSession DEF Typed
  <1>4. x \in Session /\ Keeps(sess[s], x) BY <1>3, ClearedSession
  <1>5. CASE UNCHANGED <<sess, older>> BY <1>2, <1>5, Quieted
  <1>6. CASE sess' = [sess EXCEPT ![s] = x] /\ Touch({s})
    <2> HIDE DEF x, s
    <2>1. Stores /\ Made' = Made \cup {s} BY <1>3, <1>4, <1>6, Stored DEF Typed
    <2>2. Made' = Made BY <1>2, <2>1
    <2> QED BY <1>2, <1>6, <2>1, <2>2 DEF s, x
  <1> QED BY <1>5, <1>6 DEF LoginDone

LEMMA LoginDoneEffects ==
    ASSUME AdminAssumption, Typed, NEW k \in Slots, LoginDone(k)
    PROVE  Effects
  <1> DEFINE r == busy[k]
  <1>1. Written(k) BY DEF LoginDone
  <1>2. r # None /\ r.by \in Users BY <1>1, WrittenShape
  <1>3. UNCHANGED <<said, reg, secret, watch, runs, asked>> BY DEF LoginDone, Written
  <1>4. Errs /\ Listens /\ Github' BY <1>3 DEF Typed, Errs, Errands, Listens, Github
  <1>5. Stores BY LoginDoneStores
  <1>6. Dies(k) \/ Ends(k, r.by, Idle) BY DEF LoginDone
  <1>7. Converses /\ Handles BY <1>1, <1>2, <1>3, <1>6, Died, Ended, StateMade DEF Waiting, Freed
  <1>8. Rows BY <1>1, <1>6 DEF Rows, Wrote, Dies, Ends
  <1> QED BY <1>4, <1>5, <1>7, <1>8 DEF Effects

LEMMA DispatchEffects ==
    ASSUME AdminAssumption, Typed, NEW k \in Slots, NEW done \in BOOLEAN, NEW heard \in Heard,
           Dispatch(k, done, heard)
    PROVE  Effects
  <1> DEFINE r == busy[k]  s == r.sess  x == [sess[s] EXCEPT !.st = "completing", !.res = "none"]
  <1>1. r # None /\ r.op = "code" /\ r.at \in Early BY DEF Dispatch, Early
  <1>2. r.by \in Users /\ r.acc \in Accounts /\ s \in Made BY <1>1, HandlerShape
  <1>3. s \in Sessions /\ sess[s] \in Session BY <1>2, MadeSession DEF Typed
  <1>4. Stores
    <2>1. x \in Session /\ Keeps(sess[s], x) BY <1>3 DEF Session, Keeps
    <2>2. CASE UNCHANGED <<sess, older>> BY <2>2, Quieted
    <2>3. CASE done
      <3>1. sess' = [sess EXCEPT ![s] = x] /\ Touch({s}) BY <1>3, <2>3 DEF Dispatch, Typed, Tables
      <3> HIDE DEF x
      <3> QED BY <1>3, <2>1, <3>1, Stored DEF Typed
    <2> QED BY <2>2, <2>3 DEF Dispatch
  <1>5. Rows /\ Github' /\ Listens
    BY SameRows DEF Dispatch, github, hist, Typed, Github, Listens
  <1>6. Made \subseteq Made' BY <1>4, MadeStays
  <1>7. Errs
    <2> DEFINE y == [acc |-> r.acc, action |-> "complete", sess |-> s]  z == [by |-> r.by, sess |-> s]
    <2>1. y \in Run /\ z \in Watcher /\ y.sess = s /\ z.sess = s BY <1>2, <1>3 DEF Run, Watcher
    <2>2. runs' \subseteq runs \cup {y} /\ watch' \subseteq watch \cup {z} BY DEF Dispatch
    <2> HIDE DEF y, z
    <2> QED BY <1>2, <1>6, <2>1, <2>2 DEF Errs, Typed, Errands
  <1>8. Converses /\ Handles
    <2>1. CASE heard = "ok"
      <3> DEFINE w == AwaitOtp(s, r.acc)
      <3>1. w \in States /\ w.st = "otp" /\ w.sess = s BY <1>2, <1>3, StateMade
      <3>2. Ends(k, r.by, w) /\ UNCHANGED asked BY <2>1 DEF Dispatch
      <3> HIDE DEF w
      <3> QED BY <1>1, <1>2, <1>6, <3>1, <3>2, Ended DEF Freed
    <2>2. CASE heard # "ok"
      <3>1. Dies(k) /\ UNCHANGED asked BY <2>2 DEF Dispatch
      <3> QED BY <1>1, <3>1, Died DEF Freed
    <2> QED BY <2>1, <2>2
  <1> QED BY <1>4, <1>5, <1>7, <1>8 DEF Effects

(* What the bridge hands out is a session of the account that can be used.   *)
LEMMA Handed ==
    ASSUME NEW a, NEW action, ForBridge(a, action) # None
    PROVE  LET s == ForBridge(a, action) IN
           s \in Made /\ sess[s].acc = a /\ Fits(sess[s], action)
  BY DEF ForBridge

LEMMA SendEffects ==
    ASSUME AdminAssumption, Typed, NEW r \in runs, RunSend(r)
    PROVE  Effects
  <1> DEFINE s == ForBridge(r.acc, "send")  x == [sess[s] EXCEPT !.st = "awaiting_otp"]
  <1>1. Rows /\ Github' /\ Converses /\ Listens /\ Handles
    BY SameRows DEF RunSend, github, bot, Typed, Github, Converses, Listens, Handles
  <1>2. Errs BY DEF RunSend, Errs, Typed, Errands
  <1>3. Stores
    <2>1. CASE UNCHANGED <<sess, older>> BY <2>1, Quieted
    <2>2. CASE s # None /\ sess' = [sess EXCEPT ![s] = x] /\ Touch({s})
      <3>1. s \in Made BY <2>2, Handed
      <3>2. s \in Sessions /\ sess[s] \in Session BY <3>1, MadeSession DEF Typed
      <3>3. x \in Session /\ Keeps(sess[s], x) BY <3>2 DEF Session, Keeps
      <3> HIDE DEF x, s
      <3> QED BY <2>2, <3>2, <3>3, Stored DEF Typed
    <2> QED BY <2>1, <2>2 DEF RunSend
  <1> QED BY <1>1, <1>2, <1>3 DEF Effects

LEMMA CompleteEffects ==
    ASSUME AdminAssumption, Typed, NEW r \in runs, NEW ok \in BOOLEAN, RunComplete(r, ok)
    PROVE  Effects
  <1> DEFINE s == r.sess  x == [sess[s] EXCEPT !.res = IF ok THEN "done" ELSE "failed"]
  <1>1. s \in Made /\ r.acc \in Accounts BY DEF Typed, Errands, Run
  <1>2. s \in Sessions /\ sess[s] \in Session BY <1>1, MadeSession DEF Typed
  <1>3. x \in Session /\ Keeps(sess[s], x) BY <1>2 DEF Session, Keeps
  <1>4. sess' = [sess EXCEPT ![s] = x] /\ UNCHANGED older BY DEF RunComplete
  <1> HIDE DEF x, s
  <1>5. Stores BY <1>1, <1>3, <1>4, Rewritten DEF Typed
  <1>6. Rows /\ Converses /\ Listens BY SameRows DEF RunComplete, bot, Typed, Converses, Listens
  <1>7. Github' BY <1>1 DEF RunComplete, Typed, Github
  <1>8. Handles BY DEF RunComplete, Handles, Renews
  <1>9. Errs BY DEF RunComplete, Errs, Typed, Errands
  <1> QED BY <1>5, <1>6, <1>7, <1>8, <1>9 DEF Effects

LEMMA ExpireEffects ==
    ASSUME AdminAssumption, Typed, NEW s \in Sessions, Expire(s)
    PROVE  Effects
  <1> DEFINE x == [sess[s] EXCEPT !.old = TRUE]
  <1>1. s \in Made BY DEF Expire, Made
  <1>2. sess[s] \in Session BY <1>1, MadeSession DEF Typed
  <1>3. x \in Session /\ Keeps(sess[s], x) BY <1>2 DEF Session, Keeps
  <1>4. sess' = [sess EXCEPT ![s] = x] /\ UNCHANGED older BY DEF Expire
  <1> HIDE DEF x
  <1>5. Stores BY <1>1, <1>3, <1>4, Rewritten DEF Typed
  <1>6. Rows /\ Converses /\ Listens /\ Github' /\ Handles /\ Errs
    BY SameRows DEF Expire, bot, github, tasks, hist, Typed, Github, Converses, Listens, Handles, Errs, Errands
  <1> QED BY <1>5, <1>6 DEF Effects

LEMMA StillEffects ==
    ASSUME AdminAssumption, Typed, UNCHANGED vars
    PROVE  Effects
  <1> USE DEF vars, bot, d1, github, tasks, hist
  <1>1. Stores /\ Rows BY Quieted, SameRows
  <1>2. Github' /\ Converses /\ Listens /\ Handles /\ Errs
    BY DEF Typed, Github, Converses, Listens, Handles, Errs, Errands
  <1> QED BY <1>1, <1>2 DEF Effects

LEMMA StepEffects ==
    ASSUME AdminAssumption, Typed, [Next]_vars
    PROVE  Effects
  <1>1. ASSUME NEW u \in Users, Talk(u) PROVE Effects
    <2>1. CASE Quiets(u) BY <2>1, QuietMoves, QuietEffects
    <2>2. CASE Cancel(u) \/ CheckRun(u) \/ Press(u) \/ Confirm(u) \/ GiveCode(u)
      BY <2>2, CancelEffects, CheckRunEffects, PressEffects, ConfirmEffects, CodeEffects
    <2>3. ASSUME NEW op \in Texts, GiveText(u, op) PROVE Effects
      BY <2>3, TextEffects
    <2> QED BY <1>1, <2>1, <2>2, <2>3 DEF Talk, Quiets
  <1>2. ASSUME NEW k \in Slots, Answer(k) PROVE Effects
    <2>1. ASSUME NEW done \in BOOLEAN, NEW heard \in Heard,
                 \/ SetEnabled(k, done, heard) \/ LogoutSecret(k, done, heard)
                 \/ LogoutRow(k, done, heard) \/ DeleteRegistry(k, done, heard)
                 \/ DeleteRow(k, done, heard) \/ Dispatch(k, done, heard)
          PROVE  Effects
      BY <2>1, EnabledEffects, SecretEffects, LogoutEffects, RegistryEffects, DeleteEffects,
         DispatchEffects
    <2>2. ASSUME NEW heard \in Heard, SetText(k, heard) PROVE Effects BY <2>2, SetTextEffects
    <2>3. ASSUME NEW some \in SUBSET Sessions, Fetch(k, some) PROVE Effects BY <2>3, FetchEffects
    <2>4. ASSUME NEW s \in Sessions, CancelSession(k, s) PROVE Effects BY <2>4, CancelSessionEffects
    <2>5. ASSUME NEW cut \in BOOLEAN, DeleteEnds(k, cut) PROVE Effects BY <2>5, DeleteEndsEffects
    <2>6. ASSUME NEW out \in {"ok", "conflict", "error", "cut"}, Start(k, out) PROVE Effects
      BY <2>6, StartEffects
    <2>7. ASSUME NEW s \in Sessions, NEW out \in {"ok", "error", "cut"}, Started(k, s, out)
          PROVE  Effects
      BY <2>7, StartedEffects
    <2>8. CASE Saved(k) \/ LoginDone(k) BY <2>8, SavedEffects, LoginDoneEffects
    <2> QED BY <1>2, <2>1, <2>2, <2>3, <2>4, <2>5, <2>6, <2>7, <2>8 DEF Answer
  <1>3. ASSUME NEW r \in runs, RunSend(r) \/ \E ok \in BOOLEAN : RunComplete(r, ok) PROVE Effects
    BY <1>3, SendEffects, CompleteEffects
  <1>4. ASSUME NEW w \in watch, WatchEnds(w) PROVE Effects BY <1>4, WatchEffects
  <1>5. ASSUME NEW s \in Sessions, Expire(s) PROVE Effects BY <1>5, ExpireEffects
  <1>6. CASE UNCHANGED vars BY <1>6, StillEffects
  <1> QED BY <1>1, <1>2, <1>3, <1>4, <1>5, <1>6 DEF Next

LEMMA InitTyped ==
    ASSUME AdminAssumption, LoginAssumption, Init
    PROVE  Typed
  <1> USE DEF Init
  <1>1. Ordered
    <2>1. \A s, t \in Made : s = t BY DEF LoginAssumption, Made
    <2> QED BY <2>1 DEF Ordered
  <1>2. Talks
    <2>1. \A u \in Users : wiz[u] = Idle /\ Idle.st = "idle" BY StateMade
    <2> QED BY <2>1, StateMade DEF Talks, Waiting, Idle
  <1>3. acct \in [Accounts -> Row \cup {None}]
    <2>1. ASSUME NEW a \in Accounts PROVE acct[a] \in Row \cup {None}
      BY DEF AdminAssumption, Row
    <2> QED BY <2>1
  <1>4. sess \in [Sessions -> Session \cup {None}] BY DEF LoginAssumption
  <1>5. Tables BY <1>1, <1>3, <1>4 DEF Tables
  <1>6. Github BY DEF Github
  <1>7. Hands BY DEF Hands
  <1>8. Errands BY DEF Errands
  <1> QED BY <1>2, <1>5, <1>6, <1>7, <1>8 DEF Typed

LEMMA TypedOK == Typed => TypeOK
  BY DEF Typed, TypeOK, Talks, Tables, Ordered, Github, Hands, Holding, Errands

(* Every table holds rows of its kind, the sessions are in the order of      *)
(* their last touch, and a conversation, a handler, a task or a run that     *)
(* waits for a session waits for one that was made (AccountsController.py,   *)
(* LoginSession.py).                                                         *)
THEOREM TypeCorrect == Spec => []TypeOK
  <1>1. Init => Typed BY InitTyped, AdminAssumption, LoginAssumption
  <1>2. Typed /\ [Next]_vars => Typed' BY StepEffects, EffectsTyped, AdminAssumption
  <1> QED BY <1>1, <1>2, TypedOK, PTL DEF Spec

----------------------------------------------------------------------------
(* A save that nobody has overtaken still finds the account as it found it.  *)

Found ==
    \A k \in Slots :
      /\ k \in turned => busy[k] # None /\ busy[k].at \in Saving /\ busy[k].acc \in crossed
      /\ busy[k] # None /\ k \notin turned =>
           /\ busy[k].at = "update" => Owner(acct[busy[k].acc]) \in {busy[k].by, Nobody}
           /\ busy[k].at = "insert" => Owner(acct[busy[k].acc]) = None

(* The account of another handler changes hands: the saves know.             *)
LEMMA Overtaken ==
    ASSUME AdminAssumption, Typed, Found, NEW j \in Slots, NEW k \in Slots, k # j,
           Wrote(j) \/ Deleted(j), busy[k] # None
    PROVE  /\ busy'[k] = busy[k] /\ crossed \subseteq crossed'
           /\ k \in turned' <=> k \in turned \/ (/\ busy[k].at \in Saving
                                                /\ Owner(acct'[busy[k].acc]) # Owner(acct[busy[k].acc]))
           /\ k \in turned' => busy[k].acc \in crossed'
  <1> DEFINE a == busy[j].acc  b == busy[k].acc
  <1>1. busy[j] # None /\ a \in Accounts /\ b \in Accounts BY HandlerShape DEF Wrote, Written, Deleted
  <1>2. busy'[k] = busy[k] BY DEF Wrote, Deleted, Over, Typed, Hands
  <1>3. PICK o : /\ turned' \ {j} = (turned \cup Overtakes(j, a, o)) \ {j}
                 /\ crossed' = IF Overtakes(j, a, o) = {} THEN crossed ELSE crossed \cup {a}
                 /\ o = Owner(acct'[a]) /\ \A c \in Accounts \ {a} : acct'[c] = acct[c]
    <2>1. CASE Wrote(j)
      <3> DEFINE o == IF Lands(j) THEN busy[j].by ELSE Owner(acct[a])
      <3>1. /\ turned' = (turned \ {j}) \cup Overtakes(j, a, o)
            /\ crossed' = IF Overtakes(j, a, o) = {} THEN crossed ELSE crossed \cup {a}
        BY <2>1 DEF Wrote, Written
      <3>2. o = Owner(acct'[a]) /\ \A c \in Accounts \ {a} : acct'[c] = acct[c]
        BY <1>1, <2>1, WrittenShape, RowOwner DEF Wrote, Typed, Tables
      <3> HIDE DEF o
      <3> QED BY <3>1, <3>2
    <2>2. CASE Deleted(j)
      <3>1. None = Owner(acct'[a]) /\ \A c \in Accounts \ {a} : acct'[c] = acct[c]
        BY <1>1, <2>2 DEF Deleted, Typed, Tables, Owner
      <3> QED BY <2>2, <3>1 DEF Deleted
    <2> QED BY <2>1, <2>2
  <1>4. k \in Overtakes(j, a, o) <=> Owner(acct'[b]) # Owner(acct[b]) /\ busy[k].at \in Saving
    <2>1. b # a => acct'[b] = acct[b] BY <1>1, <1>3
    <2> QED BY <1>3, <2>1 DEF Overtakes, BusyWith
  <1>5. k \in turned' <=> k \in turned \/ k \in Overtakes(j, a, o) BY <1>3
  <1>6. k \in Overtakes(j, a, o) => b = a BY DEF Overtakes, BusyWith
  <1>7. crossed \subseteq crossed' BY <1>3
  <1>8. k \in Overtakes(j, a, o) => a \in crossed' BY <1>3
  <1>9. k \in turned => b \in crossed BY DEF Found
  <1>10. k \in turned' => b \in crossed' BY <1>5, <1>6, <1>7, <1>8, <1>9
  <1> QED BY <1>2, <1>4, <1>5, <1>7, <1>10, Zenon

LEMMA Goner ==
    ASSUME AdminAssumption, Typed, Handles, NEW k \in Slots, busy[k] # None, busy'[k] = None
    PROVE  Over(k) /\ (busy[k].at \in Saving => Wrote(k))
  <1>1. busy[k] \in Asker BY DEF Typed, Hands
  <1>2. ASSUME NEW j \in Slots, Over(j), busy[j].at \in Saving => Wrote(j)
        PROVE  Over(k) /\ (busy[k].at \in Saving => Wrote(k))
    <2>1. j = k BY <1>2 DEF Over, Typed, Hands
    <2> QED BY <1>2, <2>1
  <1>3. ASSUME NEW j \in Slots, NEW q \in Asker, Steps(j, q) PROVE FALSE
    BY <1>3 DEF Steps, Typed, Hands, AdminAssumption
  <1>4. ASSUME NEW r \in Asker, Begins(r) PROVE FALSE
    <2>1. PICK i \in Slots :
            /\ busy[i] = None
            /\ busy' = [j \in Slots |-> CASE j = i -> r
                                         [] BusyWith(j, r.acc) -> [busy[j] EXCEPT !.met = TRUE]
                                         [] OTHER -> busy[j]]
      BY <1>4 DEF Begins, Joins
    <2>2. k # i BY <2>1
    <2>3. busy'[k] \in {busy[k], [busy[k] EXCEPT !.met = TRUE]} BY <2>1, <2>2
    <2>4. [busy[k] EXCEPT !.met = TRUE] \in Asker BY <1>1 DEF Asker
    <2> QED BY <1>1, <2>3, <2>4 DEF AdminAssumption
  <1>5. ASSUME NEW a, Renews(a) PROVE FALSE
    <2>1. busy'[k] \in {busy[k], [busy[k] EXCEPT !.again = TRUE]} BY <1>5 DEF Renews
    <2>2. [busy[k] EXCEPT !.again = TRUE] \in Asker BY <1>1 DEF Asker
    <2> QED BY <1>1, <2>1, <2>2 DEF AdminAssumption
  <1> QED BY <1>2, <1>3, <1>4, <1>5 DEF Handles

LEMMA FoundKept ==
    ASSUME AdminAssumption, Typed, Found, Effects
    PROVE  Found'
  <1>1. ASSUME NEW j \in Slots, Wrote(j) \/ Deleted(j) PROVE Found'
    <2> SUFFICES ASSUME NEW k \in Slots
                 PROVE  /\ k \in turned' => /\ busy'[k] # None /\ busy'[k].at \in Saving
                                            /\ busy'[k].acc \in crossed'
                        /\ busy'[k] # None /\ k \notin turned' =>
                             /\ busy'[k].at = "update"
                                  => Owner(acct'[busy'[k].acc]) \in {busy'[k].by, Nobody}
                             /\ busy'[k].at = "insert" => Owner(acct'[busy'[k].acc]) = None
      BY DEF Found, Owner
    <2>1. CASE k = j /\ Wrote(j)
      <3>1. busy'[k] = None BY <2>1 DEF Wrote, Over, Typed, Hands
      <3>2. k \notin turned' BY <2>1 DEF Wrote, Written, Overtakes
      <3> QED BY <3>1, <3>2
    <2>2. CASE k = j /\ Deleted(j)
      <3>1. busy[k] \in Asker /\ busy[k].at = "second" BY <2>2 DEF Deleted, Typed, Hands
      <3>2. busy'[k].at = "fetch" BY <2>2, <3>1 DEF Deleted, Typed, Hands, Asker
      <3>3. k \notin turned' BY <2>2, <3>1 DEF Deleted, Overtakes, Found, Saving
      <3> QED BY <3>2, <3>3
    <2>3. CASE k # j /\ busy[k] # None
      <3>1. /\ busy'[k] = busy[k] /\ crossed \subseteq crossed'
            /\ k \in turned' <=> k \in turned \/ (/\ busy[k].at \in Saving
                                                 /\ Owner(acct'[busy[k].acc]) # Owner(acct[busy[k].acc]))
            /\ k \in turned' => busy[k].acc \in crossed'
        BY <1>1, <2>3, Overtaken
      <3>2. CASE k \in turned' BY <2>3, <3>1, <3>2 DEF Found
      <3>3. CASE k \notin turned'
        <4>1. k \notin turned BY <3>1, <3>3
        <4>2. busy[k].at \in Saving => Owner(acct'[busy[k].acc]) = Owner(acct[busy[k].acc]) BY <3>1, <3>3
        <4>3. /\ busy[k].at = "update" => Owner(acct[busy[k].acc]) \in {busy[k].by, Nobody}
              /\ busy[k].at = "insert" => Owner(acct[busy[k].acc]) = None
          BY <2>3, <4>1 DEF Found
        <4>4. busy'[k] = busy[k] BY <3>1
        <4>5. ASSUME busy[k].at = "update" PROVE Owner(acct'[busy[k].acc]) \in {busy[k].by, Nobody}
          <5>1. busy[k].at \in Saving BY <4>5 DEF Saving
          <5> QED BY <4>2, <4>3, <4>5, <5>1, Zenon
        <4>6. ASSUME busy[k].at = "insert" PROVE Owner(acct'[busy[k].acc]) = None
          <5>1. busy[k].at \in Saving BY <4>6 DEF Saving
          <5> QED BY <4>2, <4>3, <4>6, <5>1, Zenon
        <4> QED BY <3>3, <4>4, <4>5, <4>6
      <3> QED BY <3>2, <3>3
    <2>4. CASE k # j /\ busy[k] = None
      <3>1. busy'[k] = None
        <4>1. CASE Wrote(j) BY <2>4, <4>1 DEF Wrote, Over, Typed, Hands
        <4>2. CASE Deleted(j) BY <2>4, <4>2 DEF Deleted, Typed, Hands
        <4> QED BY <1>1, <4>1, <4>2
      <3>2. k \notin turned BY <2>4, Zenon DEF Found
      <3>3. k \notin turned' BY <1>1, <2>4, <3>2 DEF Wrote, Written, Deleted, Overtakes, BusyWith
      <3> QED BY <3>1, <3>3
    <2> QED BY <1>1, <2>1, <2>2, <2>3, <2>4
  <1>2. CASE UNCHANGED <<acct, turned>> /\ crossed \subseteq crossed' /\ (\A j \in Slots : ~Wrote(j))
    <2> SUFFICES ASSUME NEW k \in Slots
                 PROVE  /\ k \in turned => /\ busy'[k] # None /\ busy'[k].at \in Saving
                                           /\ busy'[k].acc \in crossed'
                        /\ busy'[k] # None /\ k \notin turned =>
                             /\ busy'[k].at = "update"
                                  => Owner(acct[busy'[k].acc]) \in {busy'[k].by, Nobody}
                             /\ busy'[k].at = "insert" => Owner(acct[busy'[k].acc]) = None
      BY <1>2 DEF Found, Owner
    <2>1. CASE k \in turned
      <3>1. busy[k] # None /\ busy[k].at \in Saving /\ busy[k].acc \in crossed BY <2>1 DEF Found
      <3>2. busy'[k] # None BY <1>2, <3>1, Goner DEF Effects
      <3>3. ~Fresh(k) BY <3>1 DEF Fresh
      <3>4. Same(busy[k], busy'[k]) BY <3>2, <3>3, MadeStays, Carried DEF Effects, Typed
      <3> QED BY <1>2, <2>1, <3>1, <3>2, <3>4 DEF Same
    <2>2. CASE busy'[k] # None /\ k \notin turned
      <3>1. Same(busy[k], busy'[k]) \/ Fresh(k) BY <2>2, MadeStays, Carried DEF Effects, Typed
      <3>2. CASE Same(busy[k], busy'[k]) /\ busy[k].at \in Saving
        BY <2>2, <3>2 DEF Same, Found
      <3>3. CASE busy'[k].at \in Saving => /\ busy'[k].at = At(busy'[k].acc) /\ busy'[k].acc \in Accounts
                                           /\ MayPut(busy'[k].by, busy'[k].acc)
        BY <2>2, <3>3, RowOwner DEF At, MayPut, Saving, Typed
      <3>4. CASE Same(busy[k], busy'[k]) /\ busy[k].at \notin Saving
        BY <3>3, <3>4 DEF Same, Asker
      <3>5. CASE Fresh(k)
        <4>1. busy'[k] \in Asker BY <3>5 DEF Fresh
        <4> QED BY <3>3, <3>5, <4>1 DEF Fresh, Opens, Asker, Saving
      <3> QED BY <3>1, <3>2, <3>4, <3>5
    <2> QED BY <2>1, <2>2
  <1> QED BY <1>1, <1>2 DEF Effects, Rows

(* The account of one admin becomes another's only by a save that had found  *)
(* it free, or his own, before it was deleted, made or claimed meanwhile     *)
(* (Account.py:100-108): no handler that reads it afresh takes it over.      *)
THEOREM OwnerStays == Spec => OwnerKept
  <1>1. Typed /\ Found /\ [Next]_vars =>
          [\A a \in Accounts :
             acct[a] # None /\ acct'[a] # None /\ Owner(acct[a]) \notin {Nobody, Owner(acct'[a])}
               => \E k \in turned : BusyWith(k, a) /\ Over(k)]_vars
    <2> SUFFICES ASSUME Typed, Found, [Next]_vars, NEW a \in Accounts,
                        acct[a] # None, acct'[a] # None, Owner(acct[a]) \notin {Nobody, Owner(acct'[a])}
                 PROVE  \E k \in turned : BusyWith(k, a) /\ Over(k)
      OBVIOUS
    <2>1. Rows BY StepEffects, AdminAssumption DEF Effects
    <2>2. ASSUME NEW k \in Slots, Wrote(k) PROVE k \in turned /\ BusyWith(k, a) /\ Over(k)
      <3> DEFINE r == busy[k]
      <3>1. /\ r # None /\ r.acc \in Accounts /\ r.at \in Saving /\ r.row \in Row /\ r.row.owner = r.by
            /\ Lands(k) => acct' = [acct EXCEPT ![r.acc] = r.row]
            /\ ~Lands(k) => acct' = acct
        BY <2>2, WrittenShape, AdminAssumption DEF Wrote
      <3>2. acct'[a] # acct[a] OBVIOUS
      <3>3. Lands(k) /\ r.acc = a /\ acct'[a] = r.row BY <3>1, <3>2 DEF Typed, Tables
      <3>4. Owner(acct'[a]) = r.by BY <3>1, <3>3 DEF Owner
      <3>5. r.at = "update" BY <3>1, <3>3 DEF Lands
      <3>6. k \in turned BY <3>1, <3>3, <3>4, <3>5 DEF Found
      <3> QED BY <2>2, <3>1, <3>3, <3>6 DEF BusyWith, Wrote
    <2>3. ASSUME NEW k \in Slots, Deleted(k) PROVE FALSE
      <3>1. acct' = [acct EXCEPT ![busy[k].acc] = None] BY <2>3 DEF Deleted
      <3> QED BY <3>1 DEF Typed, Tables
    <2>4. CASE acct' = acct BY <2>4
    <2> QED BY <2>1, <2>2, <2>3, <2>4 DEF Rows
  <1>2. Init => Typed /\ Found
    <2>1. Init => Found BY DEF Init, Found
    <2> QED BY <2>1, InitTyped, AdminAssumption, LoginAssumption
  <1>3. Typed /\ Found /\ [Next]_vars => Typed' /\ Found'
    BY StepEffects, EffectsTyped, FoundKept, AdminAssumption
  <1> QED BY <1>1, <1>2, <1>3, PTL DEF Spec, OwnerKept

----------------------------------------------------------------------------
(* Nothing is done that was not asked about: a conversation that waits for a *)
(* confirmation is about the last question of its admin.                     *)

SureAsked ==
    \A u \in Users : wiz[u].st = "sure" => asked[u] = <<wiz[u].kind, wiz[u].acc>>
ConfirmInv == SureAsked /\ ~unasked

LEMMA SureKept ==
    ASSUME Typed, SureAsked, Converses
    PROVE  SureAsked'
  <1>1. CASE UNCHANGED <<wiz, asked>> BY <1>1 DEF SureAsked
  <1>2. ASSUME NEW u \in Users, NEW w \in States, Replies(u, w) PROVE SureAsked'
    <2>1. wiz' = [wiz EXCEPT ![u] = w] BY <1>2 DEF Replies, Say
    <2>2. \A v \in Users : v # u => wiz'[v] = wiz[v] /\ asked'[v] = asked[v]
      BY <1>2, <2>1 DEF Replies, Typed, Talks
    <2>3. wiz'[u] = w BY <2>1 DEF Typed, Talks
    <2>4. w.st = "sure" => asked'[u] = <<w.kind, w.acc>>
      BY <1>2 DEF Replies, Typed, Talks
    <2> QED BY <2>2, <2>3, <2>4 DEF SureAsked
  <1> QED BY <1>1, <1>2 DEF Converses

(* What an answer from the outside leaves of the two errors                  *)
LEMMA AnswerErrs ==
    ASSUME NEW k \in Slots, Answer(k)
    PROVE  unasked' = unasked /\ strange' = strange
  <1>1. ASSUME NEW done \in BOOLEAN, NEW heard \in Heard,
               SetEnabled(k, done, heard) \/ LogoutSecret(k, done, heard)
        PROVE  unasked' = unasked /\ strange' = strange
    BY <1>1 DEF SetEnabled, LogoutSecret, hist
  <1>2. ASSUME NEW done \in BOOLEAN, NEW heard \in Heard,
               LogoutRow(k, done, heard) \/ DeleteRegistry(k, done, heard)
        PROVE  unasked' = unasked /\ strange' = strange
    BY <1>2 DEF LogoutRow, DeleteRegistry, hist
  <1>3. ASSUME NEW done \in BOOLEAN, NEW heard \in Heard,
               DeleteRow(k, done, heard) \/ Dispatch(k, done, heard)
        PROVE  unasked' = unasked /\ strange' = strange
    BY <1>3 DEF DeleteRow, Dispatch, hist
  <1>4. ASSUME NEW heard \in Heard, SetText(k, heard)
        PROVE  unasked' = unasked /\ strange' = strange
    BY <1>4 DEF SetText, hist
  <1>5. ASSUME NEW some \in SUBSET Sessions, Fetch(k, some)
        PROVE  unasked' = unasked /\ strange' = strange
    BY <1>5 DEF Fetch, bot
  <1>6. ASSUME NEW s \in Sessions, CancelSession(k, s)
        PROVE  unasked' = unasked /\ strange' = strange
    BY <1>6 DEF CancelSession, bot, hist
  <1>7. ASSUME NEW cut \in BOOLEAN, DeleteEnds(k, cut)
        PROVE  unasked' = unasked /\ strange' = strange
    BY <1>7 DEF DeleteEnds
  <1>8. ASSUME NEW out \in {"ok", "conflict", "error", "cut"}, Start(k, out)
        PROVE  unasked' = unasked /\ strange' = strange
    BY <1>8 DEF Start, hist
  <1>9. CASE Written(k) BY <1>9 DEF Written
  <1> QED
    BY <1>1, <1>2, <1>3, <1>4, <1>5, <1>6, <1>7, <1>8, <1>9 DEF Answer, Started, Saved, LoginDone

(* What is acted on, in a conversation that is still where it was when the   *)
(* confirmation was heard, is what it asked about.                           *)
LEMMA TakesWhatIsAsked ==
    ASSUME AdminAssumption, NEW w \in States, w.st = "sure"
    PROVE  Takes(w.kind, w) = w.acc
  <1>1. w.kind \in Kinds \cup Starts /\ w.acc \in Accounts BY StateShape
  <1>2. About(w) = w.acc BY DEF About
  <1> QED BY <1>1, <1>2 DEF Takes, Confirms, Kinds, Starts

LEMMA UnaskedKept ==
    ASSUME AdminAssumption, Typed, ConfirmInv, [Next]_vars
    PROVE  ~unasked'
  <1>1. ASSUME NEW u \in Users, Talk(u) PROVE ~unasked'
    <2>1. CASE Confirm(u)
      <3> DEFINE w == wiz[u]  kind == said[u].kind  a == Takes(kind, w)
      <3>1. w \in States /\ said[u] # None /\ said[u].st = "sure" BY <2>1 DEF Confirm, Typed, Talks
      <3>2. unasked' = unasked \/ unasked' = (unasked \/ (w = said[u] /\ asked[u] # <<kind, a>>))
        BY <2>1 DEF Confirm
      <3>3. w = said[u] => asked[u] = <<kind, a>>
        <4>1. SUFFICES ASSUME w = said[u] PROVE asked[u] = <<kind, a>> OBVIOUS
        <4>2. w.st = "sure" /\ kind = w.kind BY <3>1, <4>1
        <4>3. a = w.acc BY <3>1, <4>2, TakesWhatIsAsked
        <4> QED BY <4>2, <4>3 DEF ConfirmInv, SureAsked
      <3> QED BY <3>2, <3>3 DEF ConfirmInv
    <2>2. CASE Quiets(u)
      <3>1. PICK w : Moves(u, w) BY <2>2, QuietMoves
      <3> QED BY <3>1 DEF Moves, Answered, ConfirmInv
    <2>3. CASE Cancel(u) \/ CheckRun(u) \/ Press(u) \/ GiveCode(u)
      BY <2>3 DEF Cancel, CheckRun, Press, GiveCode, bot, ConfirmInv
    <2>4. ASSUME NEW op \in Texts, GiveText(u, op) PROVE ~unasked'
      BY <2>4 DEF GiveText, bot, ConfirmInv
    <2> QED BY <1>1, <2>1, <2>2, <2>3, <2>4 DEF Talk, Quiets
  <1>2. ASSUME NEW k \in Slots, Answer(k) PROVE ~unasked'
    BY <1>2, AnswerErrs DEF ConfirmInv
  <1>3. ASSUME NEW r \in runs, RunSend(r) \/ \E ok \in BOOLEAN : RunComplete(r, ok) PROVE ~unasked'
    BY <1>3 DEF RunSend, RunComplete, bot, ConfirmInv
  <1>4. ASSUME NEW w \in watch, WatchEnds(w) PROVE ~unasked' BY <1>4 DEF WatchEnds, bot, ConfirmInv
  <1>5. ASSUME NEW s \in Sessions, Expire(s) PROVE ~unasked' BY <1>5 DEF Expire, bot, ConfirmInv
  <1>6. CASE UNCHANGED vars BY <1>6 DEF vars, bot, ConfirmInv
  <1> QED BY <1>1, <1>2, <1>3, <1>4, <1>5, <1>6 DEF Next

(* An account is switched, logged out or deleted, and a login begun, only    *)
(* when the admin was asked about just that and has not turned to something  *)
(* else, whatever slow handlers wrote to his conversation in the meantime.   *)
(* Excepted is a conversation that is written between the two reads of the   *)
(* confirmation (AccountsController.py:297, 836, 882, 922).                  *)
THEOREM ActsAsAsked == Spec => []Confirmed
  <1>1. ASSUME Init PROVE Typed /\ ConfirmInv
    <2>1. Typed /\ ~unasked BY <1>1, InitTyped, AdminAssumption, LoginAssumption DEF Init
    <2>2. \A u \in Users : wiz[u].st = "idle" BY <1>1, StateMade DEF Init
    <2> QED BY <2>1, <2>2 DEF ConfirmInv, SureAsked
  <1>2. Typed /\ ConfirmInv /\ [Next]_vars => Typed' /\ ConfirmInv'
    BY StepEffects, EffectsTyped, SureKept, UnaskedKept, AdminAssumption DEF Effects, ConfirmInv
  <1>3. ConfirmInv => Confirmed BY DEF ConfirmInv, Confirmed
  <1> QED BY <1>1, <1>2, <1>3, PTL DEF Spec

----------------------------------------------------------------------------
(* Handlers that overlap know of it, and one that does not still works on    *)
(* the row its admin owns.                                                   *)

Alone ==
    \A j, k \in Slots : j # k /\ busy[j] # None /\ busy[k] # None /\ busy[j].acc = busy[k].acc
                          => busy[j].met
\* Handlers that ask GitHub about a row
Held == Early \cup Saving
Steady ==
    \A k \in Slots : busy[k] # None /\ busy[k].op \in Kinds \cup Texts /\ busy[k].at \in Held
                         /\ ~busy[k].met
                       => Owned(busy[k].by, busy[k].acc)

LEMMA AloneKept ==
    ASSUME AdminAssumption, Typed, Alone, Effects
    PROVE  Alone'
  <1> SUFFICES ASSUME NEW j \in Slots, NEW k \in Slots, j # k, busy'[j] # None, busy'[k] # None,
                      busy'[j].acc = busy'[k].acc
               PROVE  busy'[j].met
    BY DEF Alone
  <1>1. CASE Same(busy[j], busy'[j]) /\ Same(busy[k], busy'[k])
    <2>1. /\ busy[j] # None /\ busy[k] # None /\ busy'[j].acc = busy[j].acc /\ busy'[k].acc = busy[k].acc
          /\ busy[j].met => busy'[j].met
      BY <1>1 DEF Same
    <2>2. busy[j].acc = busy[k].acc BY <2>1
    <2> QED BY <2>1, <2>2 DEF Alone
  <1>2. CASE Fresh(j)
    <2>1. Opens(busy'[j]) /\ busy'[k] = Told(k, busy'[j].acc) BY <1>2 DEF Fresh
    <2>3. busy[k] # None BY <2>1 DEF Told, BusyWith
    <2>4. busy[k] \in Asker BY <2>3 DEF Typed, Hands
    <2>5. busy'[k].acc = busy[k].acc BY <2>1, <2>4 DEF Told, Asker
    <2> QED BY <2>1, <2>3, <2>5 DEF Opens, BusyWith
  <1>3. CASE Fresh(k)
    <2>2. busy'[j] = Told(j, busy'[k].acc) BY <1>3 DEF Fresh
    <2>3. busy[j] # None BY <2>2 DEF Told, BusyWith
    <2>4. busy[j] \in Asker BY <2>3 DEF Typed, Hands
    <2>5. busy'[j].acc = busy[j].acc BY <2>2, <2>4 DEF Told, Asker
    <2> QED BY <2>2, <2>3, <2>4, <2>5 DEF Told, BusyWith, Asker
  <1>4. (Same(busy[j], busy'[j]) \/ Fresh(j)) /\ (Same(busy[k], busy'[k]) \/ Fresh(k))
    BY MadeStays, Carried DEF Effects, Typed
  <1> QED BY <1>1, <1>2, <1>3, <1>4

(* Only a handler that is busy with an account changes its row, or leaves    *)
(* its saves overtaken.                                                      *)
LEMMA RowStays ==
    ASSUME AdminAssumption, Typed, Rows, NEW a \in Accounts,
           \A k \in Slots : BusyWith(k, a) => ~Wrote(k) /\ ~Deleted(k)
    PROVE  acct'[a] = acct[a]
  <1>1. ASSUME NEW k \in Slots, Wrote(k) PROVE acct'[a] = acct[a]
    <2>1. busy[k] # None /\ busy[k].acc # a BY <1>1 DEF Wrote, Written, BusyWith
    <2> QED BY <1>1, <2>1, WrittenShape DEF Wrote, Typed, Tables
  <1>2. ASSUME NEW k \in Slots, Deleted(k) PROVE acct'[a] = acct[a]
    <2>1. busy[k] # None /\ busy[k].acc # a BY <1>2 DEF Deleted, BusyWith
    <2> QED BY <1>2, <2>1 DEF Deleted, Typed, Tables
  <1> QED BY <1>1, <1>2 DEF Rows

LEMMA SteadyKept ==
    ASSUME AdminAssumption, Typed, Alone, Steady, Effects
    PROVE  Steady'
  <1> SUFFICES ASSUME NEW k \in Slots, busy'[k] # None, busy'[k].op \in Kinds \cup Texts,
                      busy'[k].at \in Held, ~busy'[k].met
               PROVE  \A u, a : u = busy'[k].by /\ a = busy'[k].acc => Owned(u, a)'
    BY DEF Steady, Owned
  <1> TAKE u, a
  <1> HAVE u = busy'[k].by /\ a = busy'[k].acc
  <1>1. CASE Same(busy[k], busy'[k])
    <2>1. /\ busy[k] # None /\ busy[k].op \in Kinds \cup Texts /\ ~busy[k].met
          /\ u = busy[k].by /\ a = busy[k].acc
      BY <1>1 DEF Same
    <2>6. busy[k].at \in Held BY <1>1 DEF Same, Held
    <2>2. u \in Users /\ a \in Accounts /\ Owned(u, a) BY <2>1, <2>6, HandlerShape DEF Steady
    <2>3. ASSUME NEW j \in Slots, BusyWith(j, a), Wrote(j) \/ Deleted(j) PROVE FALSE
      <3>1. j = k BY <2>1, <2>3 DEF Alone, BusyWith
      <3>2. CASE Wrote(j)
        <4>1. busy'[j] = None BY <3>2 DEF Wrote, Over, Typed, Hands
        <4> QED BY <3>1, <4>1
      <3>3. CASE Deleted(j)
        <4>1. busy[j] \in Asker BY <2>1, <3>1 DEF Typed, Hands
        <4>2. busy'[j].at = "fetch" BY <3>3, <4>1 DEF Deleted, Typed, Hands, Asker
        <4> QED BY <3>1, <4>2 DEF Held, Early, Saving
      <3> QED BY <2>3, <3>2, <3>3
    <2>4. acct'[a] = acct[a] BY <2>2, <2>3, RowStays DEF Effects
    <2> QED BY <2>2, <2>4 DEF Owned
  <1>2. CASE Fresh(k)
    <2>1. Opens(busy'[k]) /\ busy'[k] \in Asker BY <1>2 DEF Fresh
    <2>2. Owned(u, a) /\ a \in Accounts
      BY <2>1 DEF Opens, Asker, Kinds, Texts
    <2>3. \A j \in Slots : ~BusyWith(j, a) BY <2>1 DEF Opens
    <2>4. acct'[a] = acct[a] BY <2>2, <2>3, RowStays DEF Effects
    <2> QED BY <2>2, <2>4 DEF Owned
  <1>3. Same(busy[k], busy'[k]) \/ Fresh(k) BY MadeStays, Carried DEF Effects, Typed
  <1> QED BY <1>1, <1>2, <1>3

----------------------------------------------------------------------------
(* A logout goes on to its row, and a deletion to the sessions, only when    *)
(* the secret was deleted or an error is kept, and knows of a login that has *)
(* set it again.                                                             *)

Spared(r) == (r.op = "logout" /\ r.at \in {"second"} \cup Saving) \/ r.at \in {"fetch", "cancel"}
SecretInv ==
    \A k \in Slots : busy[k] # None /\ Spared(busy[k]) /\ ~busy[k].again => ~secret[busy[k].acc]

\* No handler has come so far in this step
Later ==
    \A k \in Slots : busy'[k] # None /\ Spared(busy'[k]) => busy[k] # None /\ Spared(busy[k])
Fewer == \A a \in Accounts : secret'[a] => secret[a]

LEMMA LaterHeld ==
    ASSUME Typed,
           \/ UNCHANGED busy
           \/ \E k \in Slots : Over(k)
           \/ \E k \in Slots : \E q : /\ busy[k] # None /\ busy' = [busy EXCEPT ![k] = q]
                                      /\ Spared(q) => Spared(busy[k])
           \/ \E r : Joins(r) /\ ~Spared(r)
           \/ \E a : Renews(a)
    PROVE  Later
  <1> SUFFICES ASSUME NEW j \in Slots, busy'[j] # None, Spared(busy'[j])
               PROVE  busy[j] # None /\ Spared(busy[j])
    BY DEF Later
  <1>1. CASE UNCHANGED busy BY <1>1
  <1>2. ASSUME NEW k \in Slots, Over(k) PROVE busy[j] # None /\ Spared(busy[j])
    BY <1>2 DEF Over, Typed, Hands
  <1>3. ASSUME NEW k \in Slots, NEW q, busy[k] # None, busy' = [busy EXCEPT ![k] = q],
               Spared(q) => Spared(busy[k])
        PROVE  busy[j] # None /\ Spared(busy[j])
    <2>1. CASE j = k BY <1>3, <2>1 DEF Typed, Hands
    <2>2. CASE j # k BY <1>3, <2>2 DEF Typed, Hands
    <2> QED BY <2>1, <2>2
  <1>4. ASSUME NEW r, Joins(r), ~Spared(r) PROVE busy[j] # None /\ Spared(busy[j])
    <2>1. PICK i \in Slots :
            /\ busy[i] = None
            /\ busy' = [n \in Slots |-> CASE n = i -> r
                                         [] BusyWith(n, r.acc) -> [busy[n] EXCEPT !.met = TRUE]
                                         [] OTHER -> busy[n]]
      BY <1>4 DEF Joins
    <2>2. j # i
      <3>1. ~BusyWith(i, r.acc) BY <2>1 DEF BusyWith
      <3>2. busy'[i] = r BY <2>1, <3>1
      <3> QED BY <1>4, <3>2
    <2>3. busy'[j] = Told(j, r.acc) BY <2>1, <2>2, ZenonT(30) DEF Told
    <2>4. busy[j] # None BY <2>3 DEF Told, BusyWith
    <2>5. busy[j] \in Asker BY <2>4 DEF Typed, Hands
    <2> QED BY <2>3, <2>4, <2>5 DEF Told, Asker, Spared
  <1>5. ASSUME NEW a, Renews(a) PROVE busy[j] # None /\ Spared(busy[j])
    <2>1. busy'[j] = IF BusyWith(j, a) THEN [busy[j] EXCEPT !.again = TRUE] ELSE busy[j]
      BY <1>5 DEF Renews
    <2>2. busy[j] # None BY <2>1 DEF BusyWith
    <2>3. busy[j] \in Asker BY <2>2 DEF Typed, Hands
    <2> QED BY <2>1, <2>2, <2>3 DEF Asker, Spared
  <1> QED BY <1>1, <1>2, <1>3, <1>4, <1>5

\* A handler that finds the row was as far as that before, or is no logout
LEMMA FindsLater ==
    ASSUME Typed, NEW k \in Slots, busy[k] # None, NEW row, Finds(k, row),
           busy[k].op = "logout" => busy[k].at = "second"
    PROVE  Later
  <1> DEFINE r == busy[k]
             q == [r EXCEPT !.at = At(r.acc), !.row = [row EXCEPT !.owner = r.by]]
  <1>1. r \in Asker BY DEF Typed, Hands
  <1>2. q.op = r.op /\ q.at \in Saving BY <1>1 DEF Asker, At, Saving
  <1>3. busy' = [busy EXCEPT ![k] = q] BY DEF Finds
  <1> HIDE DEF q
  <1>4. Spared(q) => Spared(r) BY <1>2 DEF Spared, Saving
  <1> QED BY <1>3, <1>4, LaterHeld

LEMMA SecretHeld ==
    ASSUME AdminAssumption, Typed, SecretInv, Effects, Later, Fewer
    PROVE  SecretInv'
  <1> SUFFICES ASSUME NEW k \in Slots, busy'[k] # None, Spared(busy'[k]), ~busy'[k].again
               PROVE  ~secret'[busy'[k].acc]
    BY DEF SecretInv, Spared
  <1>1. busy[k] # None /\ Spared(busy[k]) BY DEF Later
  <1>2. Same(busy[k], busy'[k]) BY <1>1, MadeStays, Carried DEF Effects, Typed, Fresh
  <1>3. ~busy[k].again /\ busy[k].acc = busy'[k].acc BY <1>2 DEF Same
  <1>4. busy[k].acc \in Accounts BY <1>1, HandlerShape
  <1> QED BY <1>1, <1>3, <1>4 DEF SecretInv, Fewer

\* One handler comes so far, and has deleted the secret or keeps an error
LEMMA SecretReached ==
    ASSUME AdminAssumption, Typed, SecretInv, Fewer, NEW k \in Slots, busy[k] # None, NEW q,
           busy' = [busy EXCEPT ![k] = q], q.acc = busy[k].acc,
           q.again \/ ~secret'[busy[k].acc]
    PROVE  SecretInv'
  <1> SUFFICES ASSUME NEW j \in Slots, busy'[j] # None, Spared(busy'[j]), ~busy'[j].again
               PROVE  ~secret'[busy'[j].acc]
    BY DEF SecretInv, Spared
  <1>1. CASE j = k
    <2>1. busy'[j] = q BY <1>1 DEF Typed, Hands
    <2> QED BY <1>1, <2>1
  <1>2. CASE j # k
    <2>1. busy'[j] = busy[j] BY <1>2 DEF Typed, Hands
    <2>2. busy[j].acc \in Accounts BY <2>1, HandlerShape
    <2> QED BY <2>1, <2>2 DEF SecretInv, Fewer
  <1> QED BY <1>1, <1>2

LEMMA LogoutSecretForgets ==
    ASSUME AdminAssumption, Typed, SecretInv, LogoutForgets, NEW k \in Slots,
           NEW done \in BOOLEAN, NEW heard \in Heard, heard = "ok" => done, LogoutSecret(k, done, heard)
    PROVE  SecretInv' /\ LogoutForgets'
  <1> DEFINE r == busy[k]  q == [r EXCEPT !.at = "second"]
  <1>1. r # None /\ r.op = "logout" /\ r \in Asker /\ r.acc \in Accounts BY HandlerShape DEF LogoutSecret
  <1>2. Fewer /\ (done => ~secret'[r.acc])
    BY <1>1 DEF LogoutSecret, Fewer, Typed, Github
  <1>3. gone' = gone BY DEF LogoutSecret, hist
  <1>4. LogoutForgets' BY <1>2, <1>3 DEF LogoutForgets, LogoutSecret, Typed, Github
  <1>5. CASE Over(k)
    <2>1. Later BY <1>5, LaterHeld
    <2>2. Effects BY SecretEffects
    <2> QED BY <1>2, <1>4, <2>1, <2>2, SecretHeld
  <1>6. CASE Goes(k) /\ heard = "ok"
    <2>1. busy' = [busy EXCEPT ![k] = q] BY <1>6 DEF Goes
    <2>2. q.acc = r.acc BY <1>1 DEF Asker
    <2> HIDE DEF q
    <2> QED BY <1>1, <1>2, <1>4, <1>6, <2>1, <2>2, SecretReached
  <1> QED BY <1>5, <1>6 DEF LogoutSecret, HeardSecret, Ends, Dies

LEMMA DeleteRowForgets ==
    ASSUME AdminAssumption, Typed, SecretInv, LogoutForgets, NEW k \in Slots,
           NEW done \in BOOLEAN, NEW heard \in Heard, heard = "ok" => done, DeleteRow(k, done, heard)
    PROVE  SecretInv' /\ LogoutForgets'
  <1> DEFINE r == busy[k]  again == r.again \/ heard = "error"
             q == [r EXCEPT !.at = "fetch", !.again = again]
  <1>1. r # None /\ r \in Asker /\ r.acc \in Accounts BY HandlerShape DEF DeleteRow
  <1>2. secret' = (IF done THEN [secret EXCEPT ![r.acc] = FALSE] ELSE secret) /\ gone' = gone
    BY DEF DeleteRow
  <1>3. Fewer /\ (done => ~secret'[r.acc]) BY <1>1, <1>2 DEF Fewer, Typed, Github
  <1>4. LogoutForgets'
    <2>1. \A a \in gone : secret'[a] => secret[a] BY <1>1, <1>2 DEF Typed, Github
    <2> QED BY <1>2, <2>1 DEF LogoutForgets
  <1>5. CASE heard = "cut"
    <2>1. Over(k) BY <1>5 DEF DeleteRow
    <2>2. Later BY <2>1, LaterHeld
    <2>3. Effects BY DeleteEffects
    <2> QED BY <1>3, <1>4, <2>2, <2>3, SecretHeld
  <1>6. CASE heard # "cut"
    <2>1. busy' = [busy EXCEPT ![k] = q] BY <1>6 DEF DeleteRow
    <2>2. q.acc = r.acc /\ q.again = again BY <1>1 DEF Asker
    <2>3. again \/ ~secret'[r.acc] BY <1>3, <1>6 DEF Heard
    <2> HIDE DEF q, again
    <2> QED BY <1>1, <1>3, <1>4, <2>1, <2>2, <2>3, SecretReached
  <1> QED BY <1>5, <1>6

\* A handler that reports the account logged out, or deleted
LEMMA EndForgets ==
    ASSUME AdminAssumption, Typed, SecretInv, LogoutForgets, Effects, NEW k \in Slots,
           busy[k] # None, Over(k), UNCHANGED secret,
           gone' = gone \/ (Spared(busy[k]) /\ ~busy[k].again /\ gone' = gone \cup {busy[k].acc})
    PROVE  SecretInv' /\ LogoutForgets'
  <1>1. Later BY LaterHeld
  <1>2. Fewer BY DEF Fewer
  <1>3. SecretInv' BY <1>1, <1>2, SecretHeld
  <1> QED BY <1>3 DEF SecretInv, LogoutForgets

LEMMA CompleteForgets ==
    ASSUME Typed, SecretInv, LogoutForgets, NEW r \in runs, NEW ok \in BOOLEAN, RunComplete(r, ok)
    PROVE  SecretInv' /\ LogoutForgets'
  <1>1. CASE ~ok
    <2>1. UNCHANGED <<secret, gone, busy>> BY <1>1 DEF RunComplete
    <2> QED BY <2>1 DEF SecretInv, LogoutForgets, Spared
  <1>2. CASE ok
    <2> DEFINE a == r.acc
    <2>1. secret' = [secret EXCEPT ![a] = TRUE] /\ gone' = gone \ {a} /\ Renews(a)
      BY <1>2 DEF RunComplete, Renews
    <2>2. \A b : b # a => secret'[b] = secret[b] BY <2>1 DEF Typed, Github
    <2>3. LogoutForgets' BY <2>1, <2>2 DEF LogoutForgets
    <2>4. ASSUME NEW k \in Slots, busy'[k] # None, Spared(busy'[k]), ~busy'[k].again
          PROVE  ~secret'[busy'[k].acc]
      <3>1. busy'[k] = IF BusyWith(k, a) THEN [busy[k] EXCEPT !.again = TRUE] ELSE busy[k]
        BY <2>1 DEF Renews
      <3>2. busy[k] # None BY <2>4, <3>1 DEF BusyWith
      <3>3. busy[k] \in Asker BY <3>2 DEF Typed, Hands
      <3>4. busy'[k] = busy[k] /\ busy[k].acc # a BY <2>4, <3>1, <3>2, <3>3 DEF BusyWith, Asker
      <3> QED BY <2>2, <2>4, <3>4 DEF SecretInv
    <2> QED BY <2>3, <2>4 DEF SecretInv, Spared
  <1> QED BY <1>1, <1>2

\* The steps that change no secret, and in which no handler comes so far
Uninvolved == UNCHANGED <<secret, gone>> /\ Later

\* A message or a task that begins a handler
Quiet == UNCHANGED busy \/ (\E u, op, a, s : Joins(Request(u, op, a, s)))
                        \/ (\E u, s : Readies(u, s))

LEMMA QuietLater ==
    ASSUME Typed, Quiet
    PROVE  Later
  <1>1. CASE UNCHANGED busy BY <1>1, LaterHeld
  <1>2. ASSUME NEW u, NEW op, NEW a, NEW s, Joins(Request(u, op, a, s)) PROVE Later
    <2>1. ~Spared(Request(u, op, a, s)) BY DEF Request, Spared, Saving
    <2> QED BY <1>2, <2>1, LaterHeld
  <1>3. ASSUME NEW u, NEW s, Readies(u, s) PROVE Later
    <2> DEFINE a == sess[s].acc
               row == [owner |-> u, on |-> acct[a] # None /\ acct[a].on, logged |-> TRUE, st |-> "ready"]
               r == [Request(u, "done", a, s) EXCEPT !.at = At(a), !.row = row]
    <2>1. Joins(r) BY <1>3 DEF Readies
    <2>2. ~Spared(r) BY DEF Request, Spared, At
    <2> HIDE DEF r
    <2> QED BY <2>1, <2>2, LaterHeld
  <1> QED BY <1>1, <1>2, <1>3 DEF Quiet

LEMMA TalkQuiet ==
    ASSUME AdminAssumption, Typed, NEW u \in Users, Talk(u)
    PROVE  Quiet /\ UNCHANGED <<acct, reg, secret, gone, apart, turned, crossed>>
  <1>1. CASE Quiets(u)
    <2>1. PICK w : Moves(u, w) BY <1>1, QuietMoves
    <2> QED BY <2>1 DEF Moves, Answered, d1, github, hist, Quiet
  <1>2. CASE Cancel(u) \/ CheckRun(u) \/ Press(u)
    BY <1>2 DEF Cancel, CheckRun, Press, d1, github, hist, Quiet
  <1>3. CASE Confirm(u) \/ GiveCode(u)
    BY <1>3 DEF Confirm, GiveCode, Submit, d1, github, hist, Quiet
  <1>4. ASSUME NEW op \in Texts, GiveText(u, op)
        PROVE  Quiet /\ UNCHANGED <<acct, reg, secret, gone, apart, turned, crossed>>
    BY <1>4 DEF GiveText, Submit, d1, github, hist, Quiet
  <1> QED BY <1>1, <1>2, <1>3, <1>4 DEF Talk, Quiets

LEMMA AnswerForgets ==
    ASSUME AdminAssumption, Typed, SecretInv, LogoutForgets, Effects, NEW k \in Slots, Answer(k)
    PROVE  Uninvolved \/ (SecretInv' /\ LogoutForgets')
  <1>1. ASSUME NEW done \in BOOLEAN, NEW heard \in Heard, heard = "ok" => done,
               \/ SetEnabled(k, done, heard) \/ LogoutSecret(k, done, heard)
               \/ LogoutRow(k, done, heard) \/ DeleteRegistry(k, done, heard)
               \/ DeleteRow(k, done, heard) \/ Dispatch(k, done, heard)
        PROVE  Uninvolved \/ (SecretInv' /\ LogoutForgets')
    <2>1. CASE SetEnabled(k, done, heard)
      <3>1. UNCHANGED <<secret, gone>> /\ busy[k] # None /\ busy[k].op # "logout"
        BY <2>1 DEF SetEnabled
      <3>2. Over(k) \/ \E row : Finds(k, row) BY <2>1 DEF SetEnabled, Ends, Dies
      <3> QED BY <3>1, <3>2, LaterHeld, FindsLater DEF Uninvolved
    <2>2. CASE LogoutRow(k, done, heard)
      <3>1. UNCHANGED <<secret, gone>> /\ busy[k] # None /\ busy[k].at = "second"
        BY <2>2 DEF LogoutRow
      <3>2. Over(k) \/ \E row : Finds(k, row) BY <2>2 DEF LogoutRow, Dies
      <3> QED BY <3>1, <3>2, LaterHeld, FindsLater DEF Uninvolved
    <2>3. CASE DeleteRegistry(k, done, heard)
      <3>1. UNCHANGED <<secret, gone>> /\ busy[k] # None /\ busy[k].op = "delete"
        BY <2>3 DEF DeleteRegistry
      <3>2. CASE Over(k) BY <3>1, <3>2, LaterHeld DEF Uninvolved
      <3>3. CASE Goes(k)
        <4> DEFINE q == [busy[k] EXCEPT !.at = "second"]
        <4>1. busy[k] \in Asker BY <3>1 DEF Typed, Hands
        <4>2. q.op = "delete" /\ q.at = "second" BY <3>1, <4>1 DEF Asker
        <4>3. busy' = [busy EXCEPT ![k] = q] BY <3>3 DEF Goes
        <4>4. ~Spared(q) BY <4>2 DEF Spared
        <4> HIDE DEF q
        <4> QED BY <3>1, <4>3, <4>4, LaterHeld DEF Uninvolved
      <3> QED BY <2>3, <3>2, <3>3 DEF DeleteRegistry
    <2>4. CASE Dispatch(k, done, heard)
      <3>1. UNCHANGED <<secret, gone>> /\ Over(k)
        BY <2>4 DEF Dispatch, Ends, Dies, github, hist
      <3> QED BY <3>1, LaterHeld DEF Uninvolved
    <2> QED BY <1>1, <2>1, <2>2, <2>3, <2>4, LogoutSecretForgets, DeleteRowForgets
  <1>2. ASSUME NEW heard \in Heard, SetText(k, heard) PROVE Uninvolved
    <2>1. UNCHANGED <<secret, gone>> /\ busy[k] # None /\ busy[k].op # "logout"
      BY <1>2 DEF SetText, github, hist, Texts
    <2>2. Over(k) \/ \E row : Finds(k, row) BY <1>2 DEF SetText, Ends, Dies
    <2> QED BY <2>1, <2>2, LaterHeld, FindsLater DEF Uninvolved
  <1>3. ASSUME NEW out \in {"ok", "conflict", "error", "cut"}, Start(k, out) PROVE Uninvolved
    <2>1. UNCHANGED <<secret, gone>> /\ busy[k] # None /\ busy[k].op # "logout"
      BY <1>3 DEF Start, github, hist, Starts
    <2>2. Over(k) \/ \E row : Finds(k, row) BY <1>3 DEF Start, Ends, Dies
    <2> QED BY <2>1, <2>2, LaterHeld, FindsLater DEF Uninvolved
  <1>4. ASSUME NEW some \in SUBSET Sessions, Fetch(k, some) PROVE Uninvolved
    <2>1. UNCHANGED <<secret, gone>> /\ busy[k] # None /\ busy[k].at = "fetch"
      BY <1>4 DEF Fetch, github
    <2>2. \E q : busy' = [busy EXCEPT ![k] = q] BY <1>4 DEF Fetch
    <2> QED BY <2>1, <2>2, LaterHeld DEF Uninvolved, Spared
  <1>5. ASSUME NEW s \in Sessions, CancelSession(k, s) PROVE Uninvolved
    <2> DEFINE left == busy[k].todo \ {s}  q == [busy[k] EXCEPT !.todo = left]
    <2>1. UNCHANGED <<secret, gone>> /\ busy[k] # None BY <1>5 DEF CancelSession, github, hist
    <2>2. busy[k] \in Asker BY <2>1 DEF Typed, Hands
    <2>3. busy' = [busy EXCEPT ![k] = q] BY <1>5 DEF CancelSession
    <2> HIDE DEF left
    <2>4. q.op = busy[k].op /\ q.at = busy[k].at BY <2>2 DEF Asker
    <2> HIDE DEF q
    <2>5. Spared(q) => Spared(busy[k]) BY <2>4 DEF Spared
    <2> QED BY <2>1, <2>3, <2>5, LaterHeld DEF Uninvolved
  <1>6. ASSUME NEW cut \in BOOLEAN, DeleteEnds(k, cut) PROVE SecretInv' /\ LogoutForgets'
    <2>1. busy[k] # None /\ Over(k) /\ UNCHANGED secret /\ Spared(busy[k])
      BY <1>6 DEF DeleteEnds, Ends, Dies, github, Spared
    <2>2. gone' = gone \/ (~busy[k].again /\ gone' = gone \cup {busy[k].acc}) BY <1>6 DEF DeleteEnds
    <2> QED BY <2>1, <2>2, EndForgets
  <1>7. CASE Saved(k)
    <2>1. busy[k] # None /\ busy[k].at \in Saving /\ UNCHANGED secret BY <1>7 DEF Saved, Written
    <2>2. Over(k) BY <1>7 DEF Saved, Ends, Dies
    <2>3. \/ gone' = gone
          \/ busy[k].op = "logout" /\ ~busy[k].again /\ gone' = gone \cup {busy[k].acc}
      BY <1>7 DEF Saved
    <2> QED BY <2>1, <2>2, <2>3, EndForgets DEF Spared
  <1>8. ASSUME NEW s \in Sessions, NEW out \in {"ok", "error", "cut"}, Started(k, s, out)
        PROVE  Uninvolved
    <2>1. UNCHANGED <<secret, gone>> /\ Over(k) BY <1>8 DEF Started, Written, Ends, Dies
    <2> QED BY <2>1, LaterHeld DEF Uninvolved
  <1>9. CASE LoginDone(k)
    <2>1. UNCHANGED <<secret, gone>> /\ Over(k) BY <1>9 DEF LoginDone, Written, Ends, Dies
    <2> QED BY <2>1, LaterHeld DEF Uninvolved
  <1> QED BY <1>1, <1>2, <1>3, <1>4, <1>5, <1>6, <1>7, <1>8, <1>9 DEF Answer

LEMMA ForgetsKept ==
    ASSUME AdminAssumption, Typed, SecretInv, LogoutForgets, [Next]_vars
    PROVE  SecretInv' /\ LogoutForgets'
  <1>0. Effects BY StepEffects
  <1>1. ASSUME NEW u \in Users, Talk(u) PROVE Uninvolved
    BY <1>1, TalkQuiet, QuietLater DEF Uninvolved
  <1>2. ASSUME NEW k \in Slots, Answer(k) PROVE Uninvolved \/ (SecretInv' /\ LogoutForgets')
    BY <1>0, <1>2, AnswerForgets
  <1>3. ASSUME NEW r \in runs, RunSend(r) PROVE Uninvolved
    <2>1. UNCHANGED <<secret, gone, busy>> BY <1>3 DEF RunSend, github
    <2> QED BY <2>1, LaterHeld DEF Uninvolved
  <1>4. ASSUME NEW r \in runs, NEW ok \in BOOLEAN, RunComplete(r, ok) PROVE SecretInv' /\ LogoutForgets'
    BY <1>4, CompleteForgets
  <1>5. ASSUME NEW w \in watch, WatchEnds(w) PROVE Uninvolved
    <2>1. UNCHANGED <<secret, gone>> /\ Quiet BY <1>5 DEF WatchEnds, github, hist, Quiet
    <2> QED BY <2>1, QuietLater DEF Uninvolved
  <1>6. ASSUME NEW s \in Sessions, Expire(s) PROVE Uninvolved
    <2>1. UNCHANGED <<secret, gone, busy>> BY <1>6 DEF Expire, github, hist
    <2> QED BY <2>1, LaterHeld DEF Uninvolved
  <1>7. CASE UNCHANGED vars
    <2>1. UNCHANGED <<secret, gone, busy>> BY <1>7 DEF vars, github, hist
    <2> QED BY <2>1 DEF SecretInv, LogoutForgets, Spared
  <1>8. CASE Uninvolved
    <2>1. Later /\ Fewer BY <1>8 DEF Uninvolved, Fewer
    <2> QED BY <1>0, <1>8, <2>1, SecretHeld DEF Uninvolved, LogoutForgets
  <1> QED BY <1>1, <1>2, <1>3, <1>4, <1>5, <1>6, <1>7, <1>8 DEF Next

(* An account that the bot reported logged out, or deleted without an error, *)
(* has no session secret until a later login sets it (AccountService.py:317).*)
THEOREM Forgotten == Spec => []LogoutForgets
  <1>1. Init => Typed /\ SecretInv /\ LogoutForgets
    BY InitTyped, AdminAssumption, LoginAssumption DEF Init, SecretInv, LogoutForgets
  <1>2. Typed /\ SecretInv /\ LogoutForgets /\ [Next]_vars => (Typed /\ SecretInv /\ LogoutForgets)'
    BY StepEffects, EffectsTyped, ForgetsKept, AdminAssumption
  <1> QED BY <1>1, <1>2, PTL DEF Spec


----------------------------------------------------------------------------
(* The registry and the table agree: the row a handler is about to write     *)
(* says what the registry says, unless another handler met it.               *)

\* A handler that is to bring the row in line with the registry
Unsettled(k, a) ==
    BusyWith(k, a) /\ busy[k].at \in Saving /\ busy[k].op \in {"enable", "disable", "logout"}
Agree ==
    \A a \in Accounts \ apart :
      acct[a] # None /\ reg[a] # "none" /\ (\A k \in Slots : ~Unsettled(k, a))
        => (acct[a].on <=> reg[a] = "on")
Prepared(k) ==
    busy[k] # None /\ ~busy[k].met /\ busy[k].op \in Kinds \cup Texts =>
      LET r == busy[k] a == r.acc IN
      /\ r.op \in Texts /\ r.at = "first" /\ a \notin apart => acct[a] = r.row
      /\ r.at \in Saving =>
           /\ r.at = "update"
           /\ (r.op \in {"enable", "disable"} \/ a \notin apart) /\ reg[a] # "none"
                => (r.row.on <=> reg[a] = "on")
AgreeInv == Alone /\ Steady /\ Agree /\ \A k \in Slots : Prepared(k)

Remains(k, a) ==
    /\ busy'[k] # None /\ busy'[k].acc = a
    /\ busy'[k].at \in Saving /\ busy'[k].op \in {"enable", "disable", "logout"}
Fair(a) ==
    \/ a \in apart' \/ acct'[a] = None \/ reg'[a] = "none" \/ (\E k \in Slots : Remains(k, a))
    \/ (acct'[a].on <=> reg'[a] = "on")

(* One handler goes on, and touches nothing but its account.                 *)
LEMMA AgreeKept ==
    ASSUME Typed, AgreeInv, NEW k \in Slots, busy[k] # None,
           \A j \in Slots \ {k} : busy'[j] = busy[j],
           \A a \in Accounts \ {busy[k].acc} :
             acct'[a] = acct[a] /\ reg'[a] = reg[a] /\ (a \in apart' <=> a \in apart),
           Fair(busy[k].acc), Prepared(k)'
    PROVE  Agree' /\ \A j \in Slots : Prepared(j)'
  <1> DEFINE b == busy[k].acc
  <1>1. b \in Accounts BY HandlerShape
  <1>2. ASSUME NEW a \in Accounts PROVE Fair(a)
    <2>1. CASE a = b BY <2>1
    <2>2. CASE a # b
      <3>1. acct'[a] = acct[a] /\ reg'[a] = reg[a] /\ (a \in apart' <=> a \in apart) BY <2>2
      <3>2. \A j \in Slots : Unsettled(j, a) => Remains(j, a) BY <2>2 DEF Unsettled, Remains, BusyWith
      <3> QED BY <3>1, <3>2 DEF Fair, AgreeInv, Agree
    <2> QED BY <2>1, <2>2
  <1>3. Agree' BY <1>2 DEF Agree, Fair, Unsettled, Remains, BusyWith
  <1>4. ASSUME NEW j \in Slots, j # k PROVE Prepared(j)'
    <2>1. busy'[j] = busy[j] BY <1>4
    <2>2. CASE BusyWith(j, b) BY <1>4, <2>1, <2>2 DEF AgreeInv, Alone, Prepared, BusyWith
    <2>3. CASE busy[j] # None /\ busy[j].acc # b
      <3> DEFINE c == busy[j].acc
      <3>1. c \in Accounts \ {b} BY <2>3, HandlerShape
      <3>2. acct'[c] = acct[c] /\ reg'[c] = reg[c] /\ (c \in apart' <=> c \in apart) BY <3>1
      <3>3. Prepared(j) BY DEF AgreeInv
      <3> QED BY <2>1, <3>2, <3>3 DEF Prepared
    <2>4. CASE busy[j] = None BY <2>1, <2>4 DEF Prepared
    <2> QED BY <2>2, <2>3, <2>4 DEF BusyWith
  <1> QED BY <1>3, <1>4

\* A handler of which nothing is asked
LEMMA Careless ==
    ASSUME NEW k \in Slots,
           \/ busy'[k] = None \/ busy'[k].at \notin {"first"} \cup Saving
           \/ busy'[k].op \notin Kinds \cup Texts
    PROVE  Prepared(k)'
  BY DEF Prepared

(* A handler that nobody met is the only one, and its admin owns the row.    *)
LEMMA Unmet ==
    ASSUME Typed, AgreeInv, NEW k \in Slots, busy[k] # None, ~busy[k].met,
           busy[k].op \in Kinds \cup Texts, busy[k].at \in Held
    PROVE  /\ MayPut(busy[k].by, busy[k].acc) /\ acct[busy[k].acc] # None
           /\ At(busy[k].acc) = "update"
           /\ \A j \in Slots : j # k => ~BusyWith(j, busy[k].acc)
  <1>1. Owned(busy[k].by, busy[k].acc) BY DEF AgreeInv, Steady
  <1>2. \A j \in Slots : j # k => ~BusyWith(j, busy[k].acc) BY DEF AgreeInv, Alone, BusyWith
  <1> QED BY <1>1, <1>2 DEF MayPut, Owned, At

LEMMA Untouched ==
    ASSUME Typed, AgreeInv, NEW k \in Slots, busy[k] # None,
           \A j \in Slots \ {k} : busy'[j] = busy[j],
           ~Unsettled(k, busy[k].acc), UNCHANGED <<acct, reg, apart>>
    PROVE  Fair(busy[k].acc)
  <1> DEFINE a == busy[k].acc
  <1>1. a \in Accounts BY HandlerShape
  <1>2. \A j \in Slots : Unsettled(j, a) => Remains(j, a) BY DEF Unsettled, Remains, BusyWith
  <1> QED BY <1>1, <1>2 DEF Fair, AgreeInv, Agree

\* What has become of the handlers once one has found its row, or is over
LEMMA Sought ==
    ASSUME Typed, NEW k \in Slots, busy[k] # None, NEW row \in Row, Finds(k, row)
    PROVE  /\ busy'[k].at = At(busy[k].acc) /\ busy'[k].row.on = row.on
           /\ busy'[k].op = busy[k].op /\ busy'[k].acc = busy[k].acc /\ busy'[k].met = busy[k].met
           /\ busy'[k] \in Asker
           /\ \A j \in Slots \ {k} : busy'[j] = busy[j]
  <1> DEFINE r == busy[k]  mine == [row EXCEPT !.owner = r.by]  at == At(r.acc)
             q == [r EXCEPT !.at = at, !.row = mine]
  <1>1. r \in Asker /\ r.by \in Users BY HandlerShape
  <1>2. mine \in Row /\ mine.on = row.on BY <1>1 DEF Row
  <1>3. at \in Saving BY DEF At, Saving
  <1>4. busy' = [busy EXCEPT ![k] = q] BY DEF Finds
  <1> HIDE DEF mine, at
  <1>5. /\ q.at = at /\ q.row = mine /\ q.op = r.op /\ q.acc = r.acc /\ q.met = r.met
        /\ q \in Asker
    BY <1>1, <1>2, <1>3 DEF Asker
  <1> HIDE DEF q
  <1>6. busy'[k] = q /\ \A j \in Slots \ {k} : busy'[j] = busy[j] BY <1>4 DEF Typed, Hands
  <1> QED BY <1>2, <1>5, <1>6 DEF at

LEMMA OthersStay ==
    ASSUME Typed, NEW k \in Slots, busy[k] # None,
           Over(k) \/ Goes(k) \/ \E q : busy' = [busy EXCEPT ![k] = q]
    PROVE  /\ \A j \in Slots \ {k} : busy'[j] = busy[j]
           /\ Over(k) => busy'[k] = None
           /\ Goes(k) => busy'[k].at = "second"
  <1>1. busy[k] \in Asker BY DEF Typed, Hands
  <1> QED BY <1>1 DEF Over, Goes, Typed, Hands, Asker

\* The account of a handler, and no other
Local(k) ==
    /\ \A j \in Slots \ {k} : busy'[j] = busy[j]
    /\ \A a \in Accounts \ {busy[k].acc} :
         acct'[a] = acct[a] /\ reg'[a] = reg[a] /\ (a \in apart' <=> a \in apart)
    /\ Fair(busy[k].acc) /\ Prepared(k)'

LEMMA EnabledFair ==
    ASSUME AdminAssumption, Typed, AgreeInv, NEW k \in Slots, NEW done \in BOOLEAN,
           NEW heard \in Heard, heard = "ok" => done, SetEnabled(k, done, heard)
    PROVE  Local(k)
  <1> DEFINE r == busy[k]  on == (r.op = "enable")  a == r.acc  row == Switched(r.row, on)
  <1>1. r # None /\ r.op \in {"enable", "disable"} /\ r.at = "first" BY DEF SetEnabled
  <1>2. r \in Asker /\ a \in Accounts /\ r.row \in Row BY <1>1, HandlerShape DEF Kinds, Early
  <1>3. /\ UNCHANGED acct
        /\ IF done THEN Registry(a, IF on THEN "on" ELSE "off") ELSE UNCHANGED reg
        /\ apart' = IF r.met \/ (done /\ heard # "ok") THEN apart \cup {a} ELSE apart
    BY DEF SetEnabled, d1
  <1>4. on \in BOOLEAN OBVIOUS
  <1>5. row \in Row /\ row.on = on BY <1>2, <1>4, SwitchedRow
  <1>6. (\A c \in Accounts \ {a} : acct'[c] = acct[c] /\ reg'[c] = reg[c] /\ (c \in apart' <=> c \in apart))
        /\ (reg'[a] = "none" \/ ~done \/ reg'[a] = IF on THEN "on" ELSE "off")
    BY <1>2, <1>3 DEF Registry, Typed, Github
  <1>7. CASE heard = "ok" /\ MayPut(r.by, a) /\ Finds(k, row)
    <2>1. /\ busy'[k].at = At(a) /\ busy'[k].row.on = on /\ busy'[k].op = r.op /\ busy'[k].acc = a
          /\ busy'[k].met = r.met /\ busy'[k] \in Asker
          /\ \A j \in Slots \ {k} : busy'[j] = busy[j]
      BY <1>1, <1>5, <1>7, Sought
    <2>2. At(a) \in Saving /\ busy'[k] # None BY <2>1 DEF At, Saving, AdminAssumption
    <2>3. Remains(k, a) BY <1>1, <2>1, <2>2 DEF Remains
    <2>4. Fair(a) BY <2>3 DEF Fair
    <2>5. reg'[a] # "none" => (on <=> reg'[a] = "on") BY <1>6, <1>7
    <2>6. ~r.met => At(a) = "update" BY <1>1, Unmet DEF Kinds, Held, Early
    <2>7. Prepared(k)' BY <1>1, <2>1, <2>2, <2>5, <2>6 DEF Prepared, Texts
    <2> QED BY <1>6, <2>1, <2>4, <2>7 DEF Local
  <1>8. CASE Over(k)
    <2>1. busy'[k] = None /\ \A j \in Slots \ {k} : busy'[j] = busy[j] BY <1>1, <1>8, OthersStay
    <2>2. Prepared(k)' BY <2>1, Careless
    <2>3. CASE r.met \/ (done /\ heard # "ok") BY <1>3, <1>6, <2>1, <2>2, <2>3 DEF Local, Fair
    <2>4. CASE ~(r.met \/ (done /\ heard # "ok")) /\ ~done
      <3>1. UNCHANGED <<acct, reg, apart>> BY <1>3, <2>4
      <3>2. ~Unsettled(k, a) BY <1>1 DEF Unsettled, Saving
      <3>3. Fair(a) BY <1>1, <2>1, <3>1, <3>2, Untouched
      <3> QED BY <1>6, <2>1, <2>2, <3>3 DEF Local
    <2>5. CASE ~r.met /\ done /\ heard = "ok"
      <3>1. MayPut(r.by, a) BY <1>1, <2>5, Unmet DEF Kinds, Held, Early
      <3>2. Finds(k, row) BY <2>5, <3>1 DEF SetEnabled
      <3> QED BY <1>7, <2>5, <3>1, <3>2
    <2> QED BY <2>3, <2>4, <2>5
  <1> QED BY <1>7, <1>8 DEF SetEnabled, Ends, Dies

LEMMA SetTextFair ==
    ASSUME AdminAssumption, Typed, AgreeInv, NEW k \in Slots, NEW heard \in Heard, SetText(k, heard)
    PROVE  Local(k)
  <1> DEFINE r == busy[k]  a == r.acc
  <1>1. r # None /\ r.op \in Texts /\ r.at = "first" BY DEF SetText
  <1>2. r.row \in Row /\ a \in Accounts BY <1>1, HandlerShape DEF Early
  <1>3. UNCHANGED <<acct, reg, apart>> BY DEF SetText, d1, github, hist
  <1>4. ~Unsettled(k, a) BY <1>1 DEF Unsettled, Saving
  <1>5. CASE Finds(k, r.row)
    <2>1. /\ busy'[k].at = At(a) /\ busy'[k].row.on = r.row.on /\ busy'[k].op = r.op /\ busy'[k].acc = a
          /\ busy'[k].met = r.met /\ busy'[k] \in Asker
          /\ \A j \in Slots \ {k} : busy'[j] = busy[j]
      BY <1>1, <1>2, <1>5, Sought
    <2>2. Fair(a) BY <1>1, <1>3, <1>4, <2>1, Untouched
    <2>3. CASE r.met BY <1>3, <2>1, <2>2, <2>3 DEF Local, Prepared
    <2>4. CASE ~r.met
      <3>1. /\ acct[a] # None /\ At(a) = "update"
            /\ \A j \in Slots : j # k => ~BusyWith(j, a)
        BY <1>1, <2>4, Unmet DEF Held, Early
      <3>2. \A j \in Slots : ~Unsettled(j, a) BY <1>4, <3>1 DEF Unsettled
      <3>3. a \notin apart => acct[a] = r.row BY <1>1, <2>4 DEF AgreeInv, Prepared
      <3>4. a \notin apart /\ reg[a] # "none" => (r.row.on <=> reg[a] = "on")
        BY <1>2, <3>1, <3>2, <3>3 DEF AgreeInv, Agree
      <3>5. a \notin apart' /\ reg'[a] # "none" => (r.row.on <=> reg'[a] = "on") BY <1>3, <3>4
      <3>6. Prepared(k)' BY <1>1, <2>1, <3>1, <3>5 DEF Prepared, Texts
      <3> QED BY <1>3, <2>1, <2>2, <3>6 DEF Local
    <2> QED BY <2>3, <2>4
  <1>6. CASE Over(k)
    <2>1. busy'[k] = None /\ \A j \in Slots \ {k} : busy'[j] = busy[j] BY <1>1, <1>6, OthersStay
    <2>2. Prepared(k)' /\ Fair(a) BY <1>1, <1>3, <1>4, <2>1, Careless, Untouched
    <2> QED BY <1>3, <2>1, <2>2 DEF Local
  <1> QED BY <1>5, <1>6 DEF SetText, Ends, Dies

LEMMA LogoutFair ==
    ASSUME AdminAssumption, Typed, AgreeInv, NEW k \in Slots, NEW done \in BOOLEAN,
           NEW heard \in Heard, heard = "ok" => done, LogoutRow(k, done, heard)
    PROVE  Local(k)
  <1> DEFINE r == busy[k]  a == r.acc
             row == [r.row EXCEPT !.on = FALSE, !.logged = FALSE, !.st = "scaffolded"]
  <1>1. r # None /\ r.op = "logout" /\ r.at = "second" BY DEF LogoutRow
  <1>2. a \in Accounts /\ r.row \in Row BY <1>1, HandlerShape DEF Kinds, Early
  <1>3. /\ UNCHANGED acct
        /\ IF done THEN Registry(a, "off") ELSE UNCHANGED reg
        /\ apart' = IF r.met \/ heard # "ok" THEN apart \cup {a} ELSE apart
    BY DEF LogoutRow, d1
  <1>4. row \in Row /\ row.on = FALSE BY <1>2 DEF Row
  <1>5. (\A c \in Accounts \ {a} : acct'[c] = acct[c] /\ reg'[c] = reg[c] /\ (c \in apart' <=> c \in apart))
        /\ (reg'[a] \in {"none", "off"} \/ ~done)
    BY <1>2, <1>3 DEF Registry, Typed, Github
  <1> HIDE DEF row
  <1>6. CASE Finds(k, row)
    <2>1. /\ busy'[k].at = At(a) /\ busy'[k].row.on = FALSE /\ busy'[k].op = r.op /\ busy'[k].acc = a
          /\ busy'[k].met = r.met /\ busy'[k] \in Asker
          /\ \A j \in Slots \ {k} : busy'[j] = busy[j]
      BY <1>1, <1>4, <1>6, Sought
    <2>2. At(a) \in Saving /\ busy'[k] # None BY <2>1 DEF At, Saving, AdminAssumption
    <2>3. Remains(k, a) BY <1>1, <2>1, <2>2 DEF Remains
    <2>4. Fair(a) BY <2>3 DEF Fair
    <2>5. ~r.met => At(a) = "update" BY <1>1, Unmet DEF Kinds, Held, Early
    <2>6. ~r.met /\ a \notin apart' => reg'[a] \in {"none", "off"} BY <1>3, <1>5
    <2>7. Prepared(k)' BY <1>1, <2>1, <2>2, <2>5, <2>6 DEF Prepared, Texts
    <2> QED BY <1>5, <2>1, <2>4, <2>7 DEF Local
  <1>7. CASE Over(k)
    <2>1. busy'[k] = None /\ \A j \in Slots \ {k} : busy'[j] = busy[j] BY <1>1, <1>7, OthersStay
    <2>2. Prepared(k)' BY <2>1, Careless
    <2>3. CASE r.met \/ heard # "ok" BY <1>3, <1>5, <2>1, <2>2, <2>3 DEF Local, Fair
    <2>4. CASE ~r.met /\ heard = "ok"
      <3>1. MayPut(r.by, a) BY <1>1, <2>4, Unmet DEF Kinds, Held, Early
      <3>2. Finds(k, row) BY <2>4, <3>1 DEF LogoutRow, row
      <3> QED BY <1>6, <3>2
    <2> QED BY <2>3, <2>4
  <1> QED BY <1>6, <1>7 DEF LogoutRow, Dies, row

LEMMA DeleteFair ==
    ASSUME AdminAssumption, Typed, AgreeInv, NEW k \in Slots, NEW done \in BOOLEAN,
           NEW heard \in Heard, DeleteRegistry(k, done, heard) \/ DeleteRow(k, done, heard)
    PROVE  Local(k)
  <1> DEFINE r == busy[k]  a == r.acc
  <1>1. r # None /\ a \in Accounts /\ r \in Asker /\ r.at \in Early
    BY HandlerShape DEF DeleteRegistry, DeleteRow, Early
  <1>2. ~Unsettled(k, a) BY <1>1 DEF Unsettled, Saving, Early
  <1>3. CASE DeleteRegistry(k, done, heard)
    <2>1. /\ UNCHANGED acct /\ reg' = (IF done THEN [reg EXCEPT ![a] = "none"] ELSE reg)
          /\ apart' = IF r.met THEN apart \cup {a} ELSE apart
          /\ Over(k) \/ Goes(k)
      BY <1>3 DEF DeleteRegistry, d1
    <2>2. (\A j \in Slots \ {k} : busy'[j] = busy[j]) /\ Prepared(k)'
      <3>1. (\A j \in Slots \ {k} : busy'[j] = busy[j]) /\ (busy'[k] = None \/ busy'[k].at = "second")
        BY <1>1, <2>1, OthersStay
      <3> QED BY <3>1, Careless DEF Saving
    <2>3. \A c \in Accounts \ {a} : acct'[c] = acct[c] /\ reg'[c] = reg[c] /\ (c \in apart' <=> c \in apart)
      BY <2>1 DEF Typed, Github
    <2>4. CASE r.met BY <2>1, <2>2, <2>3, <2>4 DEF Local, Fair
    <2>5. CASE done
      <3>1. reg'[a] = "none" BY <1>1, <2>1, <2>5 DEF Typed, Github
      <3> QED BY <2>2, <2>3, <3>1 DEF Local, Fair
    <2>6. CASE ~r.met /\ ~done
      <3>1. UNCHANGED <<acct, reg, apart>> BY <2>1, <2>6
      <3> QED BY <1>1, <1>2, <2>2, <2>3, <3>1, Untouched DEF Local
    <2> QED BY <2>4, <2>5, <2>6
  <1>4. CASE DeleteRow(k, done, heard)
    <2>1. UNCHANGED <<reg, apart>> BY <1>4 DEF DeleteRow
    <2>2. CASE heard = "cut"
      <3>1. Over(k) /\ UNCHANGED acct BY <1>4, <2>2 DEF DeleteRow
      <3>2. busy'[k] = None /\ \A j \in Slots \ {k} : busy'[j] = busy[j] BY <1>1, <3>1, OthersStay
      <3> QED BY <1>1, <1>2, <2>1, <3>1, <3>2, Careless, Untouched DEF Local
    <2>3. CASE heard # "cut"
      <3> DEFINE again == r.again \/ heard = "error"  q == [r EXCEPT !.at = "fetch", !.again = again]
      <3>1. acct' = [acct EXCEPT ![a] = None] /\ busy' = [busy EXCEPT ![k] = q]
        BY <1>4, <2>3 DEF DeleteRow
      <3>2. q.at = "fetch" BY <1>1 DEF Asker
      <3> HIDE DEF q
      <3>3. busy'[k].at = "fetch" /\ \A j \in Slots \ {k} : busy'[j] = busy[j]
        BY <3>1, <3>2 DEF Typed, Hands
      <3>4. acct'[a] = None /\ \A c \in Accounts \ {a} : acct'[c] = acct[c]
        BY <1>1, <3>1 DEF Typed, Tables
      <3>5. Prepared(k)' BY <3>3, Careless DEF Saving
      <3> QED BY <2>1, <3>3, <3>4, <3>5 DEF Local, Fair
    <2> QED BY <2>2, <2>3
  <1> QED BY <1>3, <1>4

(* The other steps of a handler that leave rows and registry alone           *)
LEMMA AsideFair ==
    ASSUME AdminAssumption, Typed, AgreeInv, NEW k \in Slots, busy[k] # None,
           busy[k].at \in Early \cup {"fetch", "cancel"}, UNCHANGED <<acct, reg, apart>>,
           \A j \in Slots \ {k} : busy'[j] = busy[j],
           \/ busy'[k] = None \/ busy'[k].at \notin {"first"} \cup Saving
           \/ busy'[k].op \notin Kinds \cup Texts
    PROVE  Local(k)
  <1>1. ~Unsettled(k, busy[k].acc) BY DEF Unsettled, Saving, Early
  <1>2. Fair(busy[k].acc) BY <1>1, Untouched
  <1> QED BY <1>2, Careless DEF Local

LEMMA WaitsFair ==
    ASSUME AdminAssumption, Typed, AgreeInv, NEW k \in Slots,
           \/ \E done \in BOOLEAN, heard \in Heard : LogoutSecret(k, done, heard) \/ Dispatch(k, done, heard)
           \/ \E some \in SUBSET Sessions : Fetch(k, some)
           \/ \E s \in Sessions : CancelSession(k, s)
           \/ \E cut \in BOOLEAN : DeleteEnds(k, cut)
    PROVE  Local(k)
  <1>1. ASSUME NEW done \in BOOLEAN, NEW heard \in Heard, LogoutSecret(k, done, heard)
        PROVE  Local(k)
    <2>1. busy[k] # None /\ busy[k].at \in Early /\ UNCHANGED <<acct, reg, apart>> /\ (Over(k) \/ Goes(k))
      BY <1>1 DEF LogoutSecret, d1, hist, Early, Ends, Dies
    <2>2. (\A j \in Slots \ {k} : busy'[j] = busy[j]) /\ (busy'[k] = None \/ busy'[k].at = "second")
      BY <2>1, OthersStay
    <2> QED BY <2>1, <2>2, AsideFair DEF Saving
  <1>2. ASSUME NEW done \in BOOLEAN, NEW heard \in Heard, Dispatch(k, done, heard) PROVE Local(k)
    <2>1. busy[k] # None /\ busy[k].at \in Early /\ UNCHANGED <<acct, reg, apart>> /\ Over(k)
      BY <1>2 DEF Dispatch, github, hist, Early, Ends, Dies
    <2>2. (\A j \in Slots \ {k} : busy'[j] = busy[j]) /\ busy'[k] = None BY <2>1, OthersStay
    <2> QED BY <2>1, <2>2, AsideFair
  <1>3. ASSUME NEW some \in SUBSET Sessions, Fetch(k, some) PROVE Local(k)
    <2> DEFINE left == {s \in some : sess[s].by = busy[k].by}
               q == [busy[k] EXCEPT !.at = "cancel", !.todo = left]
    <2>1. busy[k] # None /\ busy[k].at = "fetch" /\ UNCHANGED <<acct, reg, apart>>
          /\ busy' = [busy EXCEPT ![k] = q]
      BY <1>3 DEF Fetch, d1, github
    <2>2. busy[k] \in Asker BY <2>1 DEF Typed, Hands
    <2> HIDE DEF left
    <2>3. q.at = "cancel" BY <2>2 DEF Asker
    <2> HIDE DEF q
    <2>4. busy'[k] = q /\ \A j \in Slots \ {k} : busy'[j] = busy[j] BY <2>1 DEF Typed, Hands
    <2> QED BY <2>1, <2>3, <2>4, AsideFair DEF Saving
  <1>4. ASSUME NEW s \in Sessions, CancelSession(k, s) PROVE Local(k)
    <2> DEFINE left == busy[k].todo \ {s}  q == [busy[k] EXCEPT !.todo = left]
    <2>1. busy[k] # None /\ UNCHANGED <<acct, reg, apart>> /\ busy' = [busy EXCEPT ![k] = q]
      BY <1>4 DEF CancelSession, github, hist
    <2>2. busy[k] \in Asker /\ left \subseteq busy[k].todo BY <2>1 DEF Typed, Hands
    <2> HIDE DEF left
    <2>8. q \in Asker BY <2>2 DEF Asker
    <2>3. q.at = busy[k].at /\ q.op = busy[k].op /\ q.acc = busy[k].acc /\ q.met = busy[k].met
          /\ q.row = busy[k].row
      BY <2>2 DEF Asker
    <2> HIDE DEF q
    <2>4. busy'[k] = q /\ \A j \in Slots \ {k} : busy'[j] = busy[j] BY <2>1 DEF Typed, Hands
    <2>5. \A j \in Slots : Unsettled(j, busy[k].acc) => Remains(j, busy[k].acc)
      <3>1. q # None BY <2>8 DEF AdminAssumption
      <3> QED BY <2>3, <2>4, <3>1 DEF Unsettled, Remains, BusyWith
    <2>6. Fair(busy[k].acc) BY <2>1, <2>5, HandlerShape DEF Fair, AgreeInv, Agree
    <2>7. Prepared(k)' BY <2>1, <2>3, <2>4 DEF Prepared, AgreeInv
    <2> QED BY <2>1, <2>4, <2>6, <2>7 DEF Local
  <1>5. ASSUME NEW cut \in BOOLEAN, DeleteEnds(k, cut) PROVE Local(k)
    <2>1. busy[k] # None /\ busy[k].at \in {"fetch", "cancel"} /\ UNCHANGED <<acct, reg, apart>> /\ Over(k)
      BY <1>5 DEF DeleteEnds, d1, github, Ends, Dies
    <2>2. (\A j \in Slots \ {k} : busy'[j] = busy[j]) /\ busy'[k] = None BY <2>1, OthersStay
    <2> QED BY <2>1, <2>2, AsideFair
  <1> QED BY <1>1, <1>2, <1>3, <1>4, <1>5

LEMMA StartFair ==
    ASSUME AdminAssumption, Typed, AgreeInv, NEW k \in Slots,
           NEW out \in {"ok", "conflict", "error", "cut"}, Start(k, out)
    PROVE  Local(k)
  <1> DEFINE r == busy[k]  a == r.acc  had == acct[a] # None
             row == [owner |-> r.by, on |-> had /\ acct[a].on, logged |-> had /\ acct[a].logged,
                     st |-> "logging_in"]
  <1>1. r # None /\ r.op \in Starts /\ r.at \in Early /\ UNCHANGED <<acct, reg, apart>>
    BY DEF Start, d1, github, hist, Early
  <1>2. r.op \notin Kinds \cup Texts BY <1>1 DEF Starts, Kinds, Texts
  <1>3. r.by \in Users /\ a \in Accounts BY <1>1, HandlerShape
  <1>4. row \in Row BY <1>3 DEF Row, Typed, Tables
  <1>5. Finds(k, row) \/ Over(k) BY DEF Start, Ends, Dies
  <1> HIDE DEF row
  <1>6. CASE Finds(k, row)
    <2>1. busy'[k].op = r.op /\ \A j \in Slots \ {k} : busy'[j] = busy[j] BY <1>1, <1>4, <1>6, Sought
    <2> QED BY <1>1, <1>2, <2>1, AsideFair
  <1>7. CASE Over(k)
    <2>1. busy'[k] = None /\ \A j \in Slots \ {k} : busy'[j] = busy[j] BY <1>1, <1>7, OthersStay
    <2> QED BY <1>1, <2>1, AsideFair
  <1> QED BY <1>5, <1>6, <1>7

\* A row is written, the registry changed at most with a new account
LEMMA WritesElsewhere ==
    ASSUME AdminAssumption, Typed, NEW k \in Slots, Written(k), Over(k)
    PROVE  /\ busy[k] # None /\ busy[k].acc \in Accounts /\ busy'[k] = None
           /\ \A j \in Slots \ {k} : busy'[j] = busy[j]
           /\ \A a \in Accounts \ {busy[k].acc} : acct'[a] = acct[a]
           /\ Prepared(k)'
  <1>1. busy[k] # None /\ busy[k].acc \in Accounts
        /\ (acct' = acct \/ acct' = [acct EXCEPT ![busy[k].acc] = busy[k].row])
    BY WrittenShape
  <1>2. busy'[k] = None /\ \A j \in Slots \ {k} : busy'[j] = busy[j] BY <1>1, OthersStay
  <1> QED BY <1>1, <1>2, Careless DEF Typed, Tables

LEMMA LoginFair ==
    ASSUME AdminAssumption, Typed, AgreeInv, NEW k \in Slots,
           LoginDone(k) \/ \E s \in Sessions, out \in {"ok", "error", "cut"} : Started(k, s, out)
    PROVE  Local(k)
  <1> DEFINE a == busy[k].acc
  <1>1. Written(k) /\ Over(k) /\ apart' = apart \cup {a} BY DEF LoginDone, Started, Ends, Dies
  <1>2. \A c \in Accounts \ {a} : reg'[c] = reg[c]
    BY DEF LoginDone, Started, Typed, Github
  <1> QED BY <1>1, <1>2, WritesElsewhere DEF Local, Fair

LEMMA SavedFair ==
    ASSUME AdminAssumption, Typed, AgreeInv, NEW k \in Slots, Saved(k)
    PROVE  Local(k)
  <1> DEFINE r == busy[k]  a == r.acc
  <1>1. Written(k) /\ Over(k) /\ reg' = reg /\ r.op \in Kinds \cup Texts
    BY DEF Saved, Ends, Dies, Kinds, Texts
  <1>2. apart' = CASE r.met -> apart \cup {a}
                   [] ~r.met /\ r.op \in {"enable", "disable"} -> apart \ {a}
                   [] OTHER -> apart
    BY DEF Saved
  <1>3. \A c \in Accounts \ {a} : acct'[c] = acct[c] /\ reg'[c] = reg[c] /\ (c \in apart' <=> c \in apart)
    BY <1>1, <1>2, WritesElsewhere
  <1>4. Fair(a)
    <2>1. CASE r.met BY <1>2, <2>1 DEF Fair
    <2>2. CASE ~r.met /\ (r.op \in {"enable", "disable"} \/ a \notin apart)
      <3>1. r # None /\ r.at \in Saving /\ a \in Accounts /\ r.row \in Row
            /\ (Lands(k) => acct' = [acct EXCEPT ![a] = r.row])
        BY <1>1, WrittenShape
      <3>2. acct[a] # None BY <1>1, <2>2, <3>1, Unmet DEF Held
      <3>3. r.at = "update" /\ (reg[a] # "none" => (r.row.on <=> reg[a] = "on"))
        BY <1>1, <2>2, <3>1 DEF AgreeInv, Prepared
      <3>4. Lands(k) BY <3>2, <3>3 DEF Lands
      <3>5. acct'[a] = r.row BY <3>1, <3>4 DEF Typed, Tables
      <3> QED BY <1>1, <3>3, <3>5 DEF Fair
    <2>3. CASE ~r.met /\ r.op \notin {"enable", "disable"} /\ a \in apart BY <1>2, <2>3 DEF Fair
    <2> QED BY <2>1, <2>2, <2>3
  <1> QED BY <1>1, <1>3, <1>4, WritesElsewhere DEF Local

LEMMA AnswerFair ==
    ASSUME AdminAssumption, Typed, AgreeInv, NEW k \in Slots, Answer(k)
    PROVE  busy[k] # None /\ Local(k)
  <1>1. busy[k] # None
    BY Zenon DEF Answer, SetEnabled, LogoutSecret, LogoutRow, DeleteRegistry, DeleteRow, Dispatch, SetText,
           Fetch, CancelSession, DeleteEnds, Start, Started, Saved, LoginDone, Written
  <1>2. ASSUME NEW done \in BOOLEAN, NEW heard \in Heard, heard = "ok" => done,
               \/ SetEnabled(k, done, heard) \/ LogoutSecret(k, done, heard)
               \/ LogoutRow(k, done, heard) \/ DeleteRegistry(k, done, heard)
               \/ DeleteRow(k, done, heard) \/ Dispatch(k, done, heard)
        PROVE  Local(k)
    BY <1>2, EnabledFair, LogoutFair, DeleteFair, WaitsFair
  <1>3. ASSUME NEW heard \in Heard, SetText(k, heard) PROVE Local(k) BY <1>3, SetTextFair
  <1>4. ASSUME NEW some \in SUBSET Sessions, Fetch(k, some) PROVE Local(k) BY <1>4, WaitsFair
  <1>5. ASSUME NEW s \in Sessions, CancelSession(k, s) PROVE Local(k) BY <1>5, WaitsFair
  <1>6. ASSUME NEW cut \in BOOLEAN, DeleteEnds(k, cut) PROVE Local(k) BY <1>6, WaitsFair
  <1>7. ASSUME NEW out \in {"ok", "conflict", "error", "cut"}, Start(k, out) PROVE Local(k)
    BY <1>7, StartFair
  <1>8. ASSUME NEW s \in Sessions, NEW out \in {"ok", "error", "cut"}, Started(k, s, out)
        PROVE  Local(k)
    BY <1>8, LoginFair
  <1>9. CASE Saved(k) BY <1>1, <1>9, SavedFair
  <1>10. CASE LoginDone(k) BY <1>1, <1>10, LoginFair
  <1> QED BY <1>1, <1>2, <1>3, <1>4, <1>5, <1>6, <1>7, <1>8, <1>9, <1>10, Zenon DEF Answer

\* A handler has come that was not there, and the others are the same
Comes(k, r) ==
    /\ busy[k] = None /\ busy'[k] = r
    /\ \A j \in Slots : j # k => busy'[j] = Told(j, r.acc)

LEMMA Joined ==
    ASSUME NEW r, Joins(r)
    PROVE  \E k \in Slots : Comes(k, r)
  <1>1. PICK k \in Slots :
          /\ busy[k] = None
          /\ busy' = [j \in Slots |-> CASE j = k -> r
                                       [] BusyWith(j, r.acc) -> [busy[j] EXCEPT !.met = TRUE]
                                       [] OTHER -> busy[j]]
    BY DEF Joins
  <1>2. ~BusyWith(k, r.acc) BY <1>1 DEF BusyWith
  <1>3. busy'[k] = r BY <1>1, <1>2
  <1>4. \A j \in Slots : j # k => busy'[j] = Told(j, r.acc) BY <1>1, ZenonT(30) DEF Told
  <1> QED BY <1>1, <1>3, <1>4 DEF Comes

(* Where no row and nothing of the registry changes, a handler may come, and *)
(* the others are where they were.                                           *)
LEMMA CalmKept ==
    ASSUME Typed, AgreeInv, UNCHANGED <<acct, reg, apart>>,
           \A j \in Slots :
             \/ /\ busy[j] # None /\ busy'[j] # None /\ (busy[j].met => busy'[j].met)
                /\ busy'[j].acc = busy[j].acc /\ busy'[j].op = busy[j].op
                /\ busy'[j].at = busy[j].at /\ busy'[j].row = busy[j].row
             \/ busy[j] = None /\ Prepared(j)'
    PROVE  Agree' /\ \A j \in Slots : Prepared(j)'
  <1>1. \A j \in Slots : \A a : Unsettled(j, a) => Remains(j, a) BY DEF Unsettled, Remains, BusyWith
  <1>2. Agree' BY <1>1 DEF AgreeInv, Agree, Unsettled, Remains, BusyWith
  <1>3. ASSUME NEW j \in Slots, busy[j] # None PROVE Prepared(j)'
    <2>1. /\ busy[j].met => busy'[j].met
          /\ busy'[j].acc = busy[j].acc /\ busy'[j].op = busy[j].op
          /\ busy'[j].at = busy[j].at /\ busy'[j].row = busy[j].row
      BY <1>3
    <2>2. Prepared(j) BY DEF AgreeInv
    <2> QED BY <1>3, <2>1, <2>2 DEF Prepared
  <1> QED BY <1>2, <1>3

LEMMA ComesCalm ==
    ASSUME AdminAssumption, Typed, AgreeInv, UNCHANGED <<acct, reg, apart>>, NEW k \in Slots, NEW r,
           Comes(k, r), r.op \in Texts /\ r.at = "first" => acct[r.acc] = r.row,
           r.at \in Saving => r.op \notin Kinds \cup Texts
    PROVE  Agree' /\ \A j \in Slots : Prepared(j)'
  <1>1. Prepared(k)' BY DEF Comes, Prepared, Kinds, Texts
  <1>2. ASSUME NEW j \in Slots, j # k
        PROVE  \/ /\ busy[j] # None /\ busy'[j] # None /\ (busy[j].met => busy'[j].met)
                  /\ busy'[j].acc = busy[j].acc /\ busy'[j].op = busy[j].op
                  /\ busy'[j].at = busy[j].at /\ busy'[j].row = busy[j].row
               \/ busy[j] = None /\ Prepared(j)'
    <2>1. busy'[j] = Told(j, r.acc) BY <1>2 DEF Comes
    <2>2. CASE busy[j] = None BY <2>1, <2>2 DEF Told, BusyWith, Prepared
    <2>3. CASE busy[j] # None
      <3>1. busy[j] \in Asker BY <2>3 DEF Typed, Hands
      <3>2. [busy[j] EXCEPT !.met = TRUE] \in Asker BY <3>1 DEF Asker
      <3>3. busy'[j] # None BY <2>1, <2>3, <3>2 DEF Told, AdminAssumption
      <3> QED BY <2>1, <2>3, <3>1, <3>3 DEF Told, Asker
    <2> QED BY <2>2, <2>3
  <1>3. \A j \in Slots :
             \/ /\ busy[j] # None /\ busy'[j] # None /\ (busy[j].met => busy'[j].met)
                /\ busy'[j].acc = busy[j].acc /\ busy'[j].op = busy[j].op
                /\ busy'[j].at = busy[j].at /\ busy'[j].row = busy[j].row
             \/ busy[j] = None /\ Prepared(j)'
    BY <1>1, <1>2 DEF Comes
  <1> QED BY <1>3, CalmKept

LEMMA QuietKept ==
    ASSUME AdminAssumption, Typed, AgreeInv, UNCHANGED <<acct, reg, apart>>, Quiet
    PROVE  Agree' /\ \A j \in Slots : Prepared(j)'
  <1>1. CASE UNCHANGED busy
    <2>1. \A j \in Slots : busy[j] = None => Prepared(j)' BY <1>1 DEF Prepared
    <2>2. \A j \in Slots : busy'[j] = busy[j] BY <1>1
    <2> QED BY <2>1, <2>2, CalmKept
  <1>2. ASSUME NEW u, NEW op, NEW a, NEW s, Joins(Request(u, op, a, s))
        PROVE  Agree' /\ \A j \in Slots : Prepared(j)'
    <2> DEFINE r == Request(u, op, a, s)
    <2>1. r.acc = a /\ r.at = "first" /\ r.row = acct[a] BY DEF Request
    <2>2. Joins(r) BY <1>2
    <2> HIDE DEF r
    <2>3. PICK k \in Slots : Comes(k, r) BY <2>2, Joined
    <2> QED BY <2>1, <2>3, ComesCalm DEF Saving
  <1>3. ASSUME NEW u, NEW s, Readies(u, s) PROVE Agree' /\ \A j \in Slots : Prepared(j)'
    <2> DEFINE a == sess[s].acc
               row == [owner |-> u, on |-> acct[a] # None /\ acct[a].on, logged |-> TRUE, st |-> "ready"]
               r == [Request(u, "done", a, s) EXCEPT !.at = At(a), !.row = row]
    <2>1. Joins(r) BY <1>3 DEF Readies
    <2>2. r.op = "done" BY DEF Request
    <2> HIDE DEF r
    <2>3. PICK k \in Slots : Comes(k, r) BY <2>1, Joined
    <2> QED BY <2>2, <2>3, ComesCalm DEF Texts, Kinds
  <1> QED BY <1>1, <1>2, <1>3 DEF Quiet

LEMMA RenewsKept ==
    ASSUME AdminAssumption, Typed, AgreeInv, UNCHANGED <<acct, reg, apart>>, NEW a, Renews(a)
    PROVE  Agree' /\ \A j \in Slots : Prepared(j)'
  <1>1. ASSUME NEW j \in Slots
        PROVE  \/ /\ busy[j] # None /\ busy'[j] # None /\ (busy[j].met => busy'[j].met)
                  /\ busy'[j].acc = busy[j].acc /\ busy'[j].op = busy[j].op
                  /\ busy'[j].at = busy[j].at /\ busy'[j].row = busy[j].row
               \/ busy[j] = None /\ Prepared(j)'
    <2>1. busy'[j] = IF BusyWith(j, a) THEN [busy[j] EXCEPT !.again = TRUE] ELSE busy[j] BY DEF Renews
    <2>2. CASE busy[j] = None BY <2>1, <2>2 DEF BusyWith, Prepared
    <2>3. CASE busy[j] # None
      <3>1. busy[j] \in Asker BY <2>3 DEF Typed, Hands
      <3>2. [busy[j] EXCEPT !.again = TRUE] \in Asker BY <3>1 DEF Asker
      <3>3. busy'[j] # None BY <2>1, <2>3, <3>2 DEF AdminAssumption
      <3> QED BY <2>1, <2>3, <3>1, <3>3 DEF Asker
    <2> QED BY <2>2, <2>3
  <1> QED BY <1>1, CalmKept

LEMMA AgreeStep ==
    ASSUME AdminAssumption, Typed, AgreeInv, [Next]_vars
    PROVE  Agree' /\ \A j \in Slots : Prepared(j)'
  <1>1. ASSUME NEW u \in Users, Talk(u) PROVE Agree' /\ \A j \in Slots : Prepared(j)'
    BY <1>1, TalkQuiet, QuietKept
  <1>2. ASSUME NEW k \in Slots, Answer(k) PROVE Agree' /\ \A j \in Slots : Prepared(j)'
    <2>1. busy[k] # None /\ Local(k) BY <1>2, AnswerFair
    <2> QED BY <2>1, AgreeKept DEF Local
  <1>3. ASSUME NEW r \in runs, RunSend(r) PROVE Agree' /\ \A j \in Slots : Prepared(j)'
    <2>1. UNCHANGED <<acct, reg, apart, busy>> BY <1>3 DEF RunSend, github
    <2> QED BY <2>1, QuietKept DEF Quiet
  <1>4. ASSUME NEW r \in runs, NEW ok \in BOOLEAN, RunComplete(r, ok)
        PROVE  Agree' /\ \A j \in Slots : Prepared(j)'
    <2>1. UNCHANGED <<acct, reg, apart>> /\ (UNCHANGED busy \/ Renews(r.acc))
      BY <1>4 DEF RunComplete, Renews
    <2> QED BY <2>1, QuietKept, RenewsKept DEF Quiet
  <1>5. ASSUME NEW w \in watch, WatchEnds(w) PROVE Agree' /\ \A j \in Slots : Prepared(j)'
    <2>1. UNCHANGED <<acct, reg, apart>> /\ Quiet BY <1>5 DEF WatchEnds, d1, github, hist, Quiet
    <2> QED BY <2>1, QuietKept
  <1>6. ASSUME NEW s \in Sessions, Expire(s) PROVE Agree' /\ \A j \in Slots : Prepared(j)'
    <2>1. UNCHANGED <<acct, reg, apart, busy>> BY <1>6 DEF Expire, github, hist
    <2> QED BY <2>1, QuietKept DEF Quiet
  <1>7. CASE UNCHANGED vars
    <2>1. UNCHANGED <<acct, reg, apart, busy>> BY <1>7 DEF vars, d1, github, hist
    <2> QED BY <2>1, QuietKept DEF Quiet
  <1> QED BY <1>1, <1>2, <1>3, <1>4, <1>5, <1>6, <1>7 DEF Next

(* The registry and the table agree on which accounts run, unless handlers   *)
(* overlapped, one was cut off or heard an error of what was done, or a      *)
(* login wrote the row (AccountService.py:163).                              *)
THEOREM RegistryAndTable == Spec => []RegistryAgrees
  <1>1. ASSUME Init PROVE Typed /\ AgreeInv
    <2>1. Alone /\ Steady /\ \A k \in Slots : Prepared(k) BY <1>1 DEF Init, Alone, Steady, Prepared
    <2>2. ASSUME NEW a \in Accounts, acct[a] # None, reg[a] # "none"
          PROVE  acct[a].on <=> reg[a] = "on"
      <3>1. FirstOwner[a] # None BY <1>1, <2>2 DEF Init
      <3> QED BY <1>1, <3>1 DEF Init
    <2> QED BY <1>1, <2>1, <2>2, InitTyped, AdminAssumption, LoginAssumption DEF AgreeInv, Agree
  <1>2. Typed /\ AgreeInv /\ [Next]_vars => (Typed /\ AgreeInv)'
    <2> SUFFICES ASSUME Typed, AgreeInv, [Next]_vars PROVE (Typed /\ AgreeInv)' OBVIOUS
    <2>1. Effects /\ Typed' BY StepEffects, EffectsTyped, AdminAssumption
    <2>2. Alone' /\ Steady' BY <2>1, AloneKept, SteadyKept, AdminAssumption DEF AgreeInv
    <2>3. Agree' /\ \A j \in Slots : Prepared(j)' BY AgreeStep, AdminAssumption
    <2> QED BY <2>1, <2>2, <2>3 DEF AgreeInv
  <1>3. Typed /\ AgreeInv => RegistryAgrees
    <2> SUFFICES ASSUME Typed, AgreeInv, NEW a \in Accounts \ apart, acct[a] # None, reg[a] # "none",
                        \A k \in Slots : ~BusyWith(k, a)
                 PROVE  acct[a].on = (reg[a] = "on")
      BY DEF RegistryAgrees
    <2>1. \A k \in Slots : ~Unsettled(k, a) BY DEF Unsettled
    <2>2. acct[a].on <=> reg[a] = "on" BY <2>1 DEF AgreeInv, Agree
    <2>3. acct[a].on \in BOOLEAN BY DEF Typed, Tables, Row
    <2> QED BY <2>2, <2>3
  <1> QED BY <1>1, <1>2, <1>3, PTL DEF Spec

----------------------------------------------------------------------------
(* A session that the bridge may hand out was made by the owner of its       *)
(* account, unless the account is being deleted or was written by others;    *)
(* so are the conversations and the handlers that may fill one.  A deletion  *)
(* that nobody meets has all that are left on its list.                      *)

Useful(x) == Fits(x, "send") \/ Fits(x, "complete")
Good(u, a) == a \in crossed \/ Deleting(a) \/ Owned(u, a)
SGood(s) == Useful(sess[s]) => Good(sess[s].by, sess[s].acc)
WGood(u) ==
    wiz[u] \in Waiting =>
      Good(u, wiz[u].acc) /\ sess[wiz[u].sess].by = u /\ sess[wiz[u].sess].acc = wiz[u].acc
BGood(k) ==
    busy[k] # None /\ busy[k].op = "code" =>
      /\ Good(busy[k].by, busy[k].acc)
      /\ sess[busy[k].sess].by = busy[k].by /\ sess[busy[k].sess].acc = busy[k].acc
Clears(k) == busy[k] # None /\ busy[k].at \in {"fetch", "cancel"}
DGood(k) ==
    Clears(k) /\ ~busy[k].met /\ busy[k].acc \notin crossed =>
      /\ \A s \in Made : sess[s].acc = busy[k].acc /\ Useful(sess[s])
                           => sess[s].by = busy[k].by /\ (busy[k].at = "cancel" => s \in busy[k].todo)
      /\ \A u \in Users : wiz[u] \in Waiting /\ wiz[u].acc = busy[k].acc => u = busy[k].by
Owners ==
    /\ \A s \in Made : SGood(s)
    /\ \A u \in Users : WGood(u)
    /\ \A k \in Slots : BGood(k) /\ DGood(k)

\* Whoever owns the account before the step does so after it
Holds(a) == \A u \in Users : Good(u, a) => Good(u, a)'
\* The conversation of u does not begin to wait
Resting(u) ==
    wiz'[u] \in Waiting => wiz[u] \in Waiting /\ wiz'[u].sess = wiz[u].sess /\ wiz'[u].acc = wiz[u].acc
\* The session does not begin to be useful
Unarmed(s) == Useful(sess'[s]) => Useful(sess[s])
\* Deletions of the account know of another handler
Crowded(a) ==
    \A k \in Slots : busy'[k] # None /\ busy'[k].at \in {"fetch", "cancel"} /\ busy'[k].acc = a
                       => busy'[k].met
\* A deletion is where it was
Stands(k) ==
    busy'[k] # None /\ busy'[k].at \in {"fetch", "cancel"} =>
      Clears(k) /\ busy'[k].at = busy[k].at /\ busy'[k].todo = busy[k].todo

LEMMA SStays ==
    ASSUME Typed, Stores, NEW s \in Made, SGood(s), Unarmed(s), Holds(sess[s].acc)
    PROVE  SGood(s)'
  <1> SUFFICES ASSUME Useful(sess'[s]) PROVE \A u, a : u = sess'[s].by /\ a = sess'[s].acc => Good(u, a)'
    BY DEF SGood, Good, Owned, Deleting, BusyWith, Useful, Fits
  <1> TAKE u, a
  <1> HAVE u = sess'[s].by /\ a = sess'[s].acc
  <1>1. u = sess[s].by /\ a = sess[s].acc BY DEF Stores, Keeps
  <1>2. u \in Users BY <1>1, MadeSession DEF Typed
  <1>3. Good(u, a) BY <1>1 DEF SGood, Unarmed
  <1> QED BY <1>1, <1>2, <1>3 DEF Holds

LEMMA WStays ==
    ASSUME Typed, Stores, NEW u \in Users, WGood(u), Resting(u), wiz[u] \in Waiting => Holds(wiz[u].acc)
    PROVE  WGood(u)'
  <1> SUFFICES ASSUME wiz'[u] \in Waiting
               PROVE  \A a, s : a = wiz'[u].acc /\ s = wiz'[u].sess =>
                        Good(u, a)' /\ sess'[s].by = u /\ sess'[s].acc = a
    BY DEF WGood, Good, Owned, Deleting, BusyWith
  <1> TAKE a, s
  <1> HAVE a = wiz'[u].acc /\ s = wiz'[u].sess
  <1>1. wiz[u] \in Waiting /\ a = wiz[u].acc /\ s = wiz[u].sess BY DEF Resting
  <1>2. s \in Made BY <1>1 DEF Typed, Talks
  <1>3. Keeps(sess[s], sess'[s]) BY <1>2 DEF Stores
  <1> QED BY <1>1, <1>3 DEF WGood, Holds, Keeps

LEMMA BStays ==
    ASSUME AdminAssumption, Typed, Effects, Owners, NEW k \in Slots,
           \A a \in Accounts : Holds(a) \/ (busy'[k] # None /\ busy'[k].op = "code" => busy'[k].acc # a)
    PROVE  BGood(k)'
  <1> SUFFICES ASSUME busy'[k] # None, busy'[k].op = "code"
               PROVE  \A u, a, s : u = busy'[k].by /\ a = busy'[k].acc /\ s = busy'[k].sess =>
                        Good(u, a)' /\ sess'[s].by = u /\ sess'[s].acc = a
    BY DEF BGood, Good, Owned, Deleting, BusyWith
  <1> TAKE u, a, s
  <1> HAVE u = busy'[k].by /\ a = busy'[k].acc /\ s = busy'[k].sess
  <1>0. Stores /\ Handles BY DEF Effects
  <1>1. CASE Same(busy[k], busy'[k])
    <2>1. busy[k] # None /\ busy[k].op = "code" /\ u = busy[k].by /\ a = busy[k].acc /\ s = busy[k].sess
      BY <1>1 DEF Same
    <2>2. u \in Users /\ a \in Accounts /\ s \in Made BY <2>1, HandlerShape
    <2>3. Good(u, a) /\ sess[s].by = u /\ sess[s].acc = a BY <2>1 DEF Owners, BGood
    <2>4. Keeps(sess[s], sess'[s]) BY <1>0, <2>2 DEF Stores
    <2>5. Holds(a) BY <2>2, Zenon
    <2> QED BY <2>2, <2>3, <2>4, <2>5 DEF Holds, Keeps
  <1>2. CASE Fresh(k)
    <2>1. Opens(busy'[k]) /\ busy'[k] \in Asker BY <1>2 DEF Fresh
    <2>2. u \in Users /\ a \in Accounts /\ wiz[u] \in Waiting /\ s = wiz[u].sess /\ a = wiz[u].acc
      BY <2>1 DEF Opens, Asker
    <2>3. s \in Made /\ Good(u, a) /\ sess[s].by = u /\ sess[s].acc = a
      BY <2>2 DEF Typed, Talks, Owners, WGood
    <2>4. Keeps(sess[s], sess'[s]) BY <1>0, <2>3 DEF Stores
    <2>5. Holds(a) BY <2>2, Zenon
    <2> QED BY <2>2, <2>3, <2>4, <2>5 DEF Holds, Keeps
  <1> QED BY <1>0, <1>1, <1>2, MadeStays, Carried DEF Typed

LEMMA DStays ==
    ASSUME AdminAssumption, Typed, Effects, Owners, NEW k \in Slots, Stands(k),
           \A s \in Made' : (s \in Made /\ Unarmed(s)) \/ Crowded(sess'[s].acc),
           \A u \in Users : Resting(u) \/ Crowded(wiz'[u].acc)
    PROVE  DGood(k)'
  <1> SUFFICES ASSUME busy'[k] # None, busy'[k].at \in {"fetch", "cancel"}, ~busy'[k].met,
                      busy'[k].acc \notin crossed'
               PROVE  /\ \A s \in Made' : sess'[s].acc = busy'[k].acc /\ Useful(sess'[s])
                           => sess'[s].by = busy'[k].by
                              /\ (busy'[k].at = "cancel" => s \in busy'[k].todo)
                      /\ \A u \in Users : wiz'[u] \in Waiting /\ wiz'[u].acc = busy'[k].acc
                                            => u = busy'[k].by
    BY DEF DGood, Clears, Useful, Fits
  <1>1. Clears(k) /\ busy'[k].at = busy[k].at /\ busy'[k].todo = busy[k].todo BY DEF Stands
  <1>2. Same(busy[k], busy'[k]) BY <1>1, MadeStays, Carried DEF Clears, Effects, Typed, Fresh
  <1>3. ~busy[k].met /\ busy'[k].acc = busy[k].acc /\ busy'[k].by = busy[k].by BY <1>2, Zenon DEF Same
  <1>4. crossed \subseteq crossed' BY DEF Effects, Rows, Wrote, Written, Deleted
  <1>5. busy[k].acc \notin crossed BY <1>3, <1>4
  <1>6. ~Crowded(busy[k].acc) BY <1>3 DEF Crowded
  <1>7. DGood(k) BY DEF Owners
  <1>8. ASSUME NEW s \in Made', sess'[s].acc = busy[k].acc, Useful(sess'[s])
        PROVE  sess'[s].by = busy[k].by /\ (busy[k].at = "cancel" => s \in busy[k].todo)
    <2>1. s \in Made /\ Unarmed(s) BY <1>6, <1>8
    <2>2. Keeps(sess[s], sess'[s]) BY <2>1 DEF Effects, Stores
    <2> QED BY <1>1, <1>3, <1>5, <1>7, <1>8, <2>1, <2>2 DEF DGood, Keeps, Unarmed
  <1>9. ASSUME NEW u \in Users, wiz'[u] \in Waiting, wiz'[u].acc = busy[k].acc PROVE u = busy[k].by
    <2>1. Resting(u) BY <1>6, <1>9
    <2> QED BY <1>1, <1>3, <1>5, <1>7, <1>9, <2>1 DEF DGood, Resting
  <1> QED BY <1>1, <1>3, <1>8, <1>9

LEMMA OwnersStay ==
    ASSUME AdminAssumption, Typed, Effects, Owners, \A a \in Accounts : Holds(a),
           \A s \in Made' : (s \in Made /\ Unarmed(s)) \/ (SGood(s)' /\ Crowded(sess'[s].acc)),
           \A u \in Users : Resting(u) \/ (WGood(u)' /\ Crowded(wiz'[u].acc)),
           \A k \in Slots : Stands(k) \/ DGood(k)'
    PROVE  Owners'
  <1>1. ASSUME NEW s \in Made' PROVE SGood(s)'
    <2>1. CASE s \in Made /\ Unarmed(s)
      <3>1. SGood(s) /\ Holds(sess[s].acc) BY <2>1, MadeSession DEF Typed, Owners
      <3> QED BY <2>1, <3>1, SStays DEF Effects
    <2> QED BY <2>1
  <1>2. ASSUME NEW u \in Users PROVE WGood(u)'
    <2>1. CASE Resting(u)
      <3>1. wiz[u] \in Waiting => wiz[u].acc \in Accounts BY StateShape DEF Typed, Talks
      <3> QED BY <2>1, <3>1, WStays DEF Effects, Owners
    <2> QED BY <2>1
  <1>3. ASSUME NEW k \in Slots PROVE BGood(k)' BY BStays
  <1>4. ASSUME NEW k \in Slots PROVE DGood(k)'
    <2>1. CASE Stands(k) BY <2>1, DStays
    <2> QED BY <2>1
  <1> QED BY <1>1, <1>2, <1>3, <1>4 DEF Owners

(* An account stays with its owner, or is on the list of those others wrote, *)
(* unless a deletion of it is over.                                          *)
LEMMA RowsHold ==
    ASSUME AdminAssumption, Typed, Found, Effects, NEW a \in Accounts,
           a \in crossed' \/ \A k \in Slots : Clears(k) /\ busy[k].acc = a => ~Over(k)
    PROVE  Holds(a)
  <1> SUFFICES ASSUME NEW u \in Users, Good(u, a), a \notin crossed'
               PROVE  Owned(u, a)' \/ Deleting(a)'
    BY Zenon DEF Holds, Good
  <1>0. crossed \subseteq crossed' /\ a \notin crossed BY DEF Effects, Rows, Wrote, Written, Deleted
  <1>1. CASE Deleting(a)
    <2>1. PICK k \in Slots : Clears(k) /\ busy[k].acc = a BY <1>1 DEF Deleting, BusyWith, Clears
    <2>2. busy'[k] # None BY <2>1, Goner DEF Effects, Clears
    <2>3. Same(busy[k], busy'[k]) BY <2>1, <2>2, MadeStays, Carried DEF Clears, Effects, Typed, Fresh
    <2>4. busy[k].at \notin Early \cup Saving BY <2>1 DEF Clears, Early, Saving
    <2>5. busy'[k].at \in {"fetch", "cancel"} /\ busy'[k].acc = a
      BY <2>1, <2>3, <2>4 DEF Same, Asker
    <2> QED BY <2>2, <2>5 DEF Deleting, BusyWith
  <1>2. CASE Owned(u, a)
    <2>1. ASSUME NEW k \in Slots, Wrote(k) PROVE Owned(u, a)'
      <3> DEFINE r == busy[k]
      <3>1. /\ r # None /\ r.acc \in Accounts /\ r.at \in Saving /\ r.row \in Row /\ r.row.owner = r.by
            /\ Lands(k) => acct' = [acct EXCEPT ![r.acc] = r.row]
            /\ ~Lands(k) => acct' = acct
        BY <2>1, WrittenShape DEF Wrote
      <3>2. CASE r.acc = a /\ Lands(k)
        <4>1. r.at = "update" BY <1>2, <3>1, <3>2 DEF Lands, Owned
        <4>2. k \notin turned BY <1>0, <3>2 DEF Found
        <4>3. Owner(acct[a]) \in {r.by, Nobody} BY <3>1, <3>2, <4>1, <4>2 DEF Found
        <4>4. u = r.by BY <1>2, <4>3 DEF Owned, Owner, AdminAssumption
        <4>5. acct'[a] = r.row BY <3>1, <3>2 DEF Typed, Tables
        <4> QED BY <3>1, <4>4, <4>5, RowOwner DEF Owned, Typed
      <3>3. CASE ~(r.acc = a /\ Lands(k))
        <4>1. acct'[a] = acct[a] BY <3>1, <3>3 DEF Typed, Tables
        <4> QED BY <1>2, <4>1 DEF Owned
      <3> QED BY <3>2, <3>3
    <2>2. ASSUME NEW k \in Slots, Deleted(k) PROVE Owned(u, a)' \/ Deleting(a)'
      <3>1. CASE busy[k].acc = a
        <4>1. busy[k] \in Asker BY <2>2 DEF Deleted, Typed, Hands
        <4>2. PICK again \in BOOLEAN :
                busy' = [busy EXCEPT ![k] = [busy[k] EXCEPT !.at = "fetch", !.again = again]]
          BY <2>2 DEF Deleted, Typed, Hands
        <4> DEFINE q == [busy[k] EXCEPT !.at = "fetch", !.again = again]
        <4>3. q \in Asker /\ q.at = "fetch" /\ q.acc = a BY <3>1, <4>1 DEF Asker
        <4>4. busy' = [busy EXCEPT ![k] = q] BY <4>2
        <4> HIDE DEF q
        <4>5. busy'[k] = q BY <4>4 DEF Typed, Hands
        <4>6. busy'[k] # None BY <4>3, <4>5 DEF AdminAssumption
        <4> QED BY <4>3, <4>5, <4>6 DEF Deleting, BusyWith
      <3>2. CASE busy[k].acc # a
        <4>1. acct'[a] = acct[a] BY <2>2, <3>2 DEF Deleted, Typed, Tables
        <4> QED BY <1>2, <4>1 DEF Owned
      <3> QED BY <3>1, <3>2
    <2>3. CASE acct' = acct BY <1>2, <2>3 DEF Owned
    <2> QED BY <2>1, <2>2, <2>3 DEF Effects, Rows
  <1> QED BY <1>0, <1>1, <1>2 DEF Good

LEMMA SayRests ==
    ASSUME Typed, NEW v \in Users, NEW w, Say(v, w) \/ UNCHANGED wiz, w \notin Waiting, NEW u \in Users
    PROVE  Resting(u)
  BY DEF Say, Resting, Typed, Talks

LEMMA ClearedUseless ==
    ASSUME NEW x \in Session, NEW st \in {"done", "cancelled"}
    PROVE  ~Useful(Cleared(x, st))
  BY DEF Useful, Fits, Cleared, Session

(* No deletion goes on in this step.                                         *)
LEMMA AllStand ==
    ASSUME Typed,
           \/ UNCHANGED busy
           \/ \E k \in Slots : Over(k)
           \/ \E k \in Slots : \E q : /\ busy[k] # None /\ busy' = [busy EXCEPT ![k] = q]
                                      /\ q.at \notin {"fetch", "cancel"}
           \/ \E r : Joins(r) /\ r.at \notin {"fetch", "cancel"}
           \/ \E a : Renews(a)
    PROVE  \A j \in Slots : Stands(j)
  <1> SUFFICES ASSUME NEW j \in Slots PROVE Stands(j) OBVIOUS
  <1>1. CASE UNCHANGED busy BY <1>1 DEF Stands, Clears
  <1>2. ASSUME NEW k \in Slots, Over(k) PROVE Stands(j)
    BY <1>2 DEF Over, Stands, Clears, Typed, Hands
  <1>3. ASSUME NEW k \in Slots, NEW q, busy[k] # None, busy' = [busy EXCEPT ![k] = q],
               q.at \notin {"fetch", "cancel"}
        PROVE  Stands(j)
    BY <1>3 DEF Stands, Clears, Typed, Hands
  <1>4. ASSUME NEW r, Joins(r), r.at \notin {"fetch", "cancel"} PROVE Stands(j)
    <2>1. PICK k \in Slots : Comes(k, r) BY <1>4, Joined
    <2>2. CASE j = k BY <1>4, <2>1, <2>2 DEF Comes, Stands
    <2>3. CASE j # k
      <3>1. busy'[j] = Told(j, r.acc) BY <2>1, <2>3 DEF Comes
      <3>2. CASE busy[j] = None BY <3>1, <3>2 DEF Told, BusyWith, Stands
      <3>3. CASE busy[j] # None
        <4>1. busy[j] \in Asker BY <3>3 DEF Typed, Hands
        <4> QED BY <3>1, <3>3, <4>1 DEF Told, Asker, Stands, Clears
      <3> QED BY <3>2, <3>3
    <2> QED BY <2>2, <2>3
  <1>5. ASSUME NEW a, Renews(a) PROVE Stands(j)
    <2>1. busy'[j] = IF BusyWith(j, a) THEN [busy[j] EXCEPT !.again = TRUE] ELSE busy[j]
      BY <1>5 DEF Renews
    <2>2. CASE busy[j] = None BY <2>1, <2>2 DEF BusyWith, Stands
    <2>3. CASE busy[j] # None
      <3>1. busy[j] \in Asker BY <2>3 DEF Typed, Hands
      <3> QED BY <2>1, <2>3, <3>1 DEF Asker, Stands, Clears
    <2> QED BY <2>2, <2>3
  <1> QED BY <1>1, <1>2, <1>3, <1>4, <1>5

\* No deletion begins, goes on or ends in this step
Elsewhere ==
    \/ UNCHANGED busy
    \/ \E k \in Slots : busy[k] # None /\ ~Clears(k) /\ Over(k)
    \/ \E k \in Slots : \E q : /\ busy[k] # None /\ ~Clears(k) /\ busy' = [busy EXCEPT ![k] = q]
                               /\ q.at \notin {"fetch", "cancel"}
    \/ \E r : Joins(r) /\ r.at \notin {"fetch", "cancel"}
    \/ \E a : Renews(a)

LEMMA Aside ==
    ASSUME AdminAssumption, Typed, Found, Effects, Elsewhere
    PROVE  (\A j \in Slots : Stands(j)) /\ (\A a \in Accounts : Holds(a))
  <1>1. \A j \in Slots : Stands(j) BY AllStand DEF Elsewhere
  <1>2. ASSUME NEW j \in Slots, Clears(j) PROVE busy'[j] # None
    <2>1. busy[j] \in Asker /\ busy[j] # None BY <1>2 DEF Typed, Hands, Clears
    <2>2. CASE UNCHANGED busy BY <2>1, <2>2
    <2>3. ASSUME NEW k \in Slots, NEW q, ~Clears(k), busy' = [busy EXCEPT ![k] = q]
          PROVE  busy'[j] # None
      BY <1>2, <2>1, <2>3 DEF Typed, Hands
    <2>4. ASSUME NEW r, Joins(r) PROVE busy'[j] # None
      <3>1. PICK k \in Slots : Comes(k, r) BY <2>4, Joined
      <3>2. j # k /\ busy'[j] = Told(j, r.acc) BY <2>1, <3>1 DEF Comes
      <3>3. [busy[j] EXCEPT !.met = TRUE] \in Asker BY <2>1 DEF Asker
      <3> QED BY <2>1, <3>2, <3>3 DEF Told, AdminAssumption
    <2>5. ASSUME NEW a, Renews(a) PROVE busy'[j] # None
      <3>1. busy'[j] \in {busy[j], [busy[j] EXCEPT !.again = TRUE]} BY <2>5 DEF Renews
      <3>2. [busy[j] EXCEPT !.again = TRUE] \in Asker BY <2>1 DEF Asker
      <3> QED BY <2>1, <3>1, <3>2 DEF AdminAssumption
    <2> QED BY <2>2, <2>3, <2>4, <2>5 DEF Elsewhere, Over
  <1>3. ASSUME NEW j \in Slots, Clears(j) PROVE ~Over(j)
    <2>1. busy'[j] # None BY <1>2, <1>3
    <2> QED BY <2>1 DEF Over, Typed, Hands
  <1>4. ASSUME NEW a \in Accounts PROVE Holds(a) BY <1>3, RowsHold
  <1> QED BY <1>1, <1>4

LEMMA CalmOwners ==
    ASSUME AdminAssumption, Typed, Found, Effects, Owners, Elsewhere, UNCHANGED sess,
           \A u \in Users : Resting(u)
    PROVE  Owners'
  <1>1. (\A a \in Accounts : Holds(a)) /\ (\A k \in Slots : Stands(k)) BY Aside
  <1>2. \A s \in Made' : s \in Made /\ Unarmed(s) BY DEF Made, Unarmed
  <1> QED BY <1>1, <1>2, OwnersStay

\* One session is written, and it does not begin to be useful
LEMMA WrittenOwners ==
    ASSUME AdminAssumption, Typed, Found, Effects, Owners, Elsewhere, \A u \in Users : Resting(u),
           NEW s \in Made, NEW x, sess' = [sess EXCEPT ![s] = x], Useful(x) => Useful(sess[s])
    PROVE  Owners'
  <1>1. (\A a \in Accounts : Holds(a)) /\ (\A k \in Slots : Stands(k)) BY Aside
  <1>2. \A t \in Made' : t \in Made /\ Unarmed(t) BY DEF Made, Unarmed, Typed, Tables
  <1> QED BY <1>1, <1>2, OwnersStay

LEMMA QuietAside ==
    ASSUME Typed, Quiet
    PROVE  Elsewhere
  <1>1. ASSUME NEW u, NEW op, NEW a, NEW s, Joins(Request(u, op, a, s)) PROVE Elsewhere
    <2>1. Request(u, op, a, s).at \notin {"fetch", "cancel"} BY DEF Request
    <2> QED BY <1>1, <2>1 DEF Elsewhere
  <1>2. ASSUME NEW u, NEW s, Readies(u, s) PROVE Elsewhere
    <2> DEFINE a == sess[s].acc
               row == [owner |-> u, on |-> acct[a] # None /\ acct[a].on, logged |-> TRUE, st |-> "ready"]
               r == [Request(u, "done", a, s) EXCEPT !.at = At(a), !.row = row]
    <2>1. Joins(r) BY <1>2 DEF Readies
    <2>2. r.at \notin {"fetch", "cancel"} BY DEF Request, At
    <2> HIDE DEF r
    <2> QED BY <2>1, <2>2 DEF Elsewhere
  <1> QED BY <1>1, <1>2 DEF Quiet, Elsewhere

LEMMA SGoodNow ==
    ASSUME NEW s, NEW u, NEW a, sess'[s].by = u, sess'[s].acc = a, Good(u, a)'
    PROVE  SGood(s)'
  BY DEF SGood, Good, Owned, Deleting, BusyWith

(* A conversation begins to wait for a session that its admin has made.      *)
LEMMA AwaitGood ==
    ASSUME AdminAssumption, Typed, NEW u \in Users, NEW s \in Sessions, NEW b \in Accounts,
           Say(u, AwaitOtp(s, b)), Good(u, b)', sess'[s].by = u, sess'[s].acc = b, Crowded(b),
           NEW v \in Users
    PROVE  Resting(v) \/ (WGood(v)' /\ Crowded(wiz'[v].acc))
  <1>1. CASE v # u
    <2>1. wiz'[v] = wiz[v] BY <1>1 DEF Say, Typed, Talks
    <2> QED BY <2>1 DEF Resting
  <1>2. CASE v = u
    <2> DEFINE w == AwaitOtp(s, b)
    <2>1. w.sess = s /\ w.acc = b BY StateMade
    <2>2. wiz'[u] = w BY DEF Say, Typed, Talks
    <2> HIDE DEF w
    <2>3. WGood(u)' BY <2>1, <2>2 DEF WGood, Good, Owned, Deleting, BusyWith
    <2> QED BY <1>2, <2>1, <2>2, <2>3 DEF Crowded
  <1> QED BY <1>1, <1>2

\* Alone: a deletion of the account of a handler that ends has met it
LEMMA EndCrowds ==
    ASSUME Typed, Alone, NEW k \in Slots, busy[k] # None, Over(k)
    PROVE  Crowded(busy[k].acc)
  BY DEF Crowded, Alone, Over, Typed, Hands

LEMMA CancelOwners ==
    ASSUME AdminAssumption, Typed, Found, Effects, Owners, NEW u \in Users, Cancel(u)
    PROVE  Owners'
  <1>1. Idle \notin Waiting BY DEF Idle, Waiting
  <1>2. Say(u, Idle) /\ Elsewhere BY DEF Cancel, Elsewhere
  <1>3. \A v \in Users : Resting(v) BY <1>1, <1>2, SayRests
  <1>4. CASE wiz[u].st \in {"otp", "2fa"}
    <2> DEFINE s == wiz[u].sess  x == Cleared(sess[s], "cancelled")
    <2>1. s \in Made BY <1>4, StateShape DEF Typed, Talks
    <2>2. sess[s] \in Session BY <2>1, MadeSession DEF Typed
    <2>3. sess' = [sess EXCEPT ![s] = x] BY <1>4 DEF Cancel
    <2>4. ~Useful(x) BY <2>2, ClearedUseless
    <2> HIDE DEF x, s
    <2> QED BY <1>2, <1>3, <2>1, <2>3, <2>4, WrittenOwners
  <1>5. CASE wiz[u].st \notin {"otp", "2fa"}
    <2>1. UNCHANGED sess BY <1>5 DEF Cancel
    <2> QED BY <1>2, <1>3, <2>1, CalmOwners
  <1> QED BY <1>4, <1>5

LEMMA CodeOwners ==
    ASSUME AdminAssumption, Typed, Found, Effects, Owners, NEW u \in Users, GiveCode(u)
    PROVE  Owners'
  <1> SUFFICES ASSUME NEW b \in Accounts, NEW w, w = wiz[u], b = w.acc PROVE Owners'
    BY CodeStores DEF Waiting
  <1> DEFINE r == Request(u, "code", b, w.sess)
  <1>1. /\ Joins(r) /\ w \in Waiting /\ w.sess \in Made /\ Made' = Made
        /\ \A t \in Sessions : t # w.sess => sess'[t] = sess[t]
    BY CodeStores
  <1>2. r.acc = b /\ r.at = "first" BY DEF Request
  <1> HIDE DEF r
  <1>3. (\A a \in Accounts : Holds(a)) /\ (\A k \in Slots : Stands(k)) BY <1>1, <1>2, Aside DEF Elsewhere
  <1>4. UNCHANGED wiz BY DEF GiveCode, bot
  <1>6. Crowded(b)
    <2>1. PICK k \in Slots : Comes(k, r) BY <1>1, Joined
    <2> SUFFICES ASSUME NEW j \in Slots, busy'[j] # None, busy'[j].at \in {"fetch", "cancel"},
                        busy'[j].acc = b
                 PROVE  busy'[j].met
      BY DEF Crowded
    <2>2. j # k /\ busy'[j] = Told(j, b) BY <1>2, <2>1 DEF Comes
    <2>3. busy[j] # None BY <2>2 DEF Told, BusyWith
    <2>4. busy[j] \in Asker BY <2>3 DEF Typed, Hands
    <2> QED BY <2>2, <2>4 DEF Told, BusyWith, Asker
  <1>7. ASSUME NEW s \in Made' PROVE (s \in Made /\ Unarmed(s)) \/ (SGood(s)' /\ Crowded(sess'[s].acc))
    <2>1. CASE s = w.sess
      <3>1. sess'[s].by = u /\ sess'[s].acc = b
        BY <1>1, <2>1 DEF Effects, Stores, Keeps, Owners, WGood
      <3>2. Good(u, b) BY <1>1 DEF Owners, WGood
      <3>3. Good(u, b)' BY <1>3, <3>2 DEF Holds
      <3> QED BY <1>6, <3>1, <3>3, SGoodNow DEF Crowded
    <2>2. CASE s # w.sess BY <1>1, <2>2 DEF Unarmed, Made
    <2> QED BY <2>1, <2>2
  <1>8. \A v \in Users : Resting(v) BY <1>4 DEF Resting
  <1> QED BY <1>3, <1>7, <1>8, OwnersStay

LEMMA TalkOwners ==
    ASSUME AdminAssumption, Typed, Found, Effects, Owners, NEW u \in Users, Talk(u)
    PROVE  Owners'
  <1>0. Elsewhere BY TalkQuiet, QuietAside
  <1>1. CASE Quiets(u)
    <2>1. PICK w : Moves(u, w) BY <1>1, QuietMoves
    <2>2. UNCHANGED sess BY <2>1 DEF Moves, Answered, d1
    <2>3. \A v \in Users : Resting(v)
      BY <2>1 DEF Moves, Replies, Say, Resting, Typed, Talks
    <2> QED BY <1>0, <2>2, <2>3, CalmOwners
  <1>2. CASE Cancel(u) \/ GiveCode(u) BY <1>2, CancelOwners, CodeOwners
  <1>3. CASE CheckRun(u) \/ Press(u) \/ \E op \in Texts : GiveText(u, op)
    <2>1. UNCHANGED <<sess, wiz>> BY <1>3 DEF CheckRun, Press, GiveText, d1, bot
    <2>2. \A v \in Users : Resting(v) BY <2>1 DEF Resting
    <2> QED BY <1>0, <2>1, <2>2, CalmOwners
  <1>4. CASE Confirm(u)
    <2> DEFINE w == Away(u, said[u].kind, wiz[u])
    <2>1. UNCHANGED sess /\ (Say(u, w) \/ UNCHANGED wiz) BY <1>4 DEF Confirm, d1
    <2>2. wiz[u] \in States /\ said[u].kind \in Kinds \cup Starts
      BY <1>4, StateShape DEF Typed, Talks, Confirm
    <2>3. w.st \in {"idle", "menu", "action"} BY <2>2, TakesShape
    <2> HIDE DEF w
    <2>4. w \notin Waiting BY <2>3 DEF Waiting
    <2>5. \A v \in Users : Resting(v) BY <2>1, <2>4, SayRests
    <2> QED BY <1>0, <2>1, <2>5, CalmOwners
  <1> QED BY <1>1, <1>2, <1>3, <1>4 DEF Talk, Quiets

LEMMA OnwardAside ==
    ASSUME Typed, NEW k \in Slots, busy[k] # None, ~Clears(k),
           Over(k) \/ Goes(k) \/ \E row : Finds(k, row)
    PROVE  Elsewhere
  <1> DEFINE r == busy[k]
  <1>1. r \in Asker BY DEF Typed, Hands
  <1>2. CASE Over(k) BY <1>2 DEF Elsewhere
  <1>3. CASE Goes(k)
    <2> DEFINE q == [r EXCEPT !.at = "second"]
    <2>1. busy' = [busy EXCEPT ![k] = q] BY <1>3 DEF Goes
    <2>2. q.at = "second" BY <1>1 DEF Asker
    <2> HIDE DEF q
    <2> QED BY <2>1, <2>2 DEF Elsewhere
  <1>4. ASSUME NEW row, Finds(k, row) PROVE Elsewhere
    <2> DEFINE mine == [row EXCEPT !.owner = r.by]  q == [r EXCEPT !.at = At(r.acc), !.row = mine]
    <2>1. busy' = [busy EXCEPT ![k] = q] BY <1>4 DEF Finds
    <2> HIDE DEF mine
    <2>2. q.at = At(r.acc) BY <1>1 DEF Asker
    <2>3. q.at \notin {"fetch", "cancel"} BY <2>2 DEF At
    <2> HIDE DEF q
    <2> QED BY <2>1, <2>3 DEF Elsewhere
  <1> QED BY <1>2, <1>3, <1>4

LEMMA SavingOwners ==
    ASSUME AdminAssumption, Typed, Found, Effects, Owners, NEW k \in Slots,
           \/ \E done \in BOOLEAN, heard \in Heard :
                \/ SetEnabled(k, done, heard) \/ LogoutSecret(k, done, heard)
                \/ LogoutRow(k, done, heard) \/ DeleteRegistry(k, done, heard)
           \/ \E heard \in Heard : SetText(k, heard)
           \/ \E out \in {"ok", "conflict", "error", "cut"} : Start(k, out)
           \/ Saved(k)
    PROVE  Owners'
  <1> DEFINE r == busy[k]
             said1 == {Menu, Detail(r.by, r.acc), Action(r.acc), Edit("rename", r.acc), Edit("role", r.acc),
                       Sure(r.op, r.acc)}
  <1>1. UNCHANGED sess
    <2>1. CASE \E done \in BOOLEAN, heard \in Heard :
                 SetEnabled(k, done, heard) \/ LogoutSecret(k, done, heard)
      BY <2>1 DEF SetEnabled, LogoutSecret, d1
    <2>2. CASE \E done \in BOOLEAN, heard \in Heard :
                 LogoutRow(k, done, heard) \/ DeleteRegistry(k, done, heard)
      BY <2>2 DEF LogoutRow, DeleteRegistry, d1
    <2>3. CASE \E heard \in Heard : SetText(k, heard) BY <2>3 DEF SetText, d1
    <2>4. CASE \E out \in {"ok", "conflict", "error", "cut"} : Start(k, out)
      BY <2>4 DEF Start, d1
    <2>5. CASE Saved(k) BY <2>5, Zenon DEF Saved
    <2> QED BY <2>1, <2>2, <2>3, <2>4, <2>5, Zenon
  <1>2. r # None /\ ~Clears(k)
    BY DEF SetEnabled, LogoutSecret, LogoutRow, DeleteRegistry, SetText, Start, Saved, Written, Saving, Clears
  <1>3. Over(k) \/ Goes(k) \/ \E row : Finds(k, row)
    <2>1. CASE \E done \in BOOLEAN, heard \in Heard :
                 SetEnabled(k, done, heard) \/ LogoutSecret(k, done, heard)
      BY <2>1 DEF SetEnabled, LogoutSecret, Ends, Dies
    <2>2. CASE \E done \in BOOLEAN, heard \in Heard :
                 LogoutRow(k, done, heard) \/ DeleteRegistry(k, done, heard)
      BY <2>2 DEF LogoutRow, DeleteRegistry, Dies
    <2>3. CASE \E heard \in Heard : SetText(k, heard) BY <2>3 DEF SetText, Ends, Dies
    <2>4. CASE \E out \in {"ok", "conflict", "error", "cut"} : Start(k, out)
      BY <2>4 DEF Start, Ends, Dies
    <2>5. CASE Saved(k) BY <2>5 DEF Saved, Ends, Dies
    <2> QED BY <2>1, <2>2, <2>3, <2>4, <2>5
  <1>4. Elsewhere BY <1>2, <1>3, OnwardAside
  <1>5. \A w \in said1 : w \notin Waiting BY DEF Menu, Detail, Action, Edit, Sure, Waiting
  <1>6. UNCHANGED wiz \/ \E w \in said1 : Say(r.by, w)
    <2>1. CASE \E done \in BOOLEAN, heard \in Heard :
                 SetEnabled(k, done, heard) \/ LogoutSecret(k, done, heard)
      BY <2>1 DEF SetEnabled, LogoutSecret, Ends, Dies, Finds, AfterLogoutError
    <2>2. CASE \E done \in BOOLEAN, heard \in Heard :
                 LogoutRow(k, done, heard) \/ DeleteRegistry(k, done, heard)
      BY <2>2 DEF LogoutRow, DeleteRegistry, Dies, Finds
    <2>3. CASE \E heard \in Heard : SetText(k, heard) BY <2>3 DEF SetText, Ends, Dies, Finds
    <2>4. CASE \E out \in {"ok", "conflict", "error", "cut"} : Start(k, out)
      BY <2>4 DEF Start, Ends, Dies, Finds, Ask
    <2>5. CASE Saved(k) BY <2>5 DEF Saved, Ends, Dies
    <2> QED BY <2>1, <2>2, <2>3, <2>4, <2>5
  <1>7. r.by \in Users BY <1>2, HandlerShape
  <1> HIDE DEF said1
  <1>8. \A u \in Users : Resting(u)
    <2>1. CASE UNCHANGED wiz BY <2>1 DEF Resting
    <2>2. ASSUME NEW w \in said1, Say(r.by, w) PROVE \A u \in Users : Resting(u)
      BY <1>5, <1>7, <2>2, SayRests
    <2> QED BY <1>6, <2>1, <2>2
  <1> QED BY <1>1, <1>4, <1>8, CalmOwners, Zenon

LEMMA LoginOwners ==
    ASSUME AdminAssumption, Typed, Found, Effects, Owners, NEW k \in Slots, LoginDone(k)
    PROVE  Owners'
  <1>1. busy[k] # None /\ ~Clears(k) BY DEF LoginDone, Written, Saving, Clears
  <1>2. Over(k) /\ (Say(busy[k].by, Idle) \/ UNCHANGED wiz) BY DEF LoginDone, Ends, Dies
  <1>3. Elsewhere BY <1>1, <1>2 DEF Elsewhere
  <1>4. Idle \notin Waiting BY DEF Idle, Waiting
  <1>5. \A u \in Users : Resting(u) BY <1>1, <1>2, <1>4, HandlerShape, SayRests
  <1>6. CASE UNCHANGED sess BY <1>3, <1>5, <1>6, CalmOwners
  <1>7. CASE sess' = [sess EXCEPT ![busy[k].sess] = Cleared(sess[busy[k].sess], "done")]
    <2> DEFINE s == busy[k].sess  x == Cleared(sess[s], "done")
    <2>1. s \in Made BY LoginDoneStores
    <2>2. sess[s] \in Session BY <2>1, MadeSession DEF Typed
    <2>3. ~Useful(x) BY <2>2, ClearedUseless
    <2>4. sess' = [sess EXCEPT ![s] = x] BY <1>7
    <2> HIDE DEF x, s
    <2> QED BY <1>3, <1>5, <2>1, <2>3, <2>4, WrittenOwners
  <1> QED BY <1>6, <1>7, LoginDoneStores

LEMMA StartedOwners ==
    ASSUME AdminAssumption, Typed, Found, Alone, Effects, Owners, NEW k \in Slots, NEW s \in Sessions,
           NEW out \in {"ok", "error", "cut"}, Started(k, s, out)
    PROVE  Owners'
  <1> SUFFICES ASSUME NEW u \in Users, NEW b \in Accounts, u = busy[k].by, b = busy[k].acc PROVE Owners'
    BY WrittenShape DEF Started
  <1>1. /\ busy[k] # None /\ ~Clears(k) /\ Written(k) /\ Over(k)
        /\ \/ UNCHANGED wiz
           \/ ~Fails(k) /\ Say(u, AwaitOtp(s, b))
           \/ Say(u, Sure(busy[k].op, b))
    BY DEF Started, Written, Saving, Clears, Ends, Dies, Ask
  <1>2. Elsewhere BY <1>1 DEF Elsewhere
  <1>3. (\A a \in Accounts : Holds(a)) /\ (\A j \in Slots : Stands(j)) BY <1>2, Aside
  <1>4. Sure(busy[k].op, b) \notin Waiting BY DEF Sure, Waiting
  <1>5. CASE Fails(k)
    <2>1. UNCHANGED sess BY <1>5, StartedStores
    <2>2. \A v \in Users : Resting(v) BY <1>1, <1>4, <1>5, SayRests
    <2> QED BY <1>2, <2>1, <2>2, CalmOwners
  <1>6. CASE ~Fails(k)
    <2>1. /\ Made' = Made \cup {s} /\ sess'[s].by = u /\ sess'[s].acc = b
          /\ \A t \in Made : sess'[t] = sess[t]
      BY <1>6, StartedStores
    <2>2. Good(u, b)'
      <3>1. /\ busy[k].at \in Saving /\ busy[k].row \in Row /\ busy[k].row.owner = u
            /\ Lands(k) => acct' = [acct EXCEPT ![b] = busy[k].row]
        BY <1>1, WrittenShape
      <3>2. CASE Lands(k)
        <4>1. acct'[b] = busy[k].row BY <3>1, <3>2 DEF Typed, Tables
        <4>2. acct'[b] # None BY <3>1, <4>1 DEF AdminAssumption
        <4> QED BY <3>1, <4>1, <4>2 DEF Good, Owned
      <3>3. CASE ~Lands(k)
        <4>0. ~(busy[k].at = "insert" /\ acct[b] # None) /\ ~(busy[k].at = "update" <=> acct[b] # None)
          BY <1>6, <3>3, Zenon DEF Lands, Fails
        <4>1. busy[k].at = "update" /\ acct[b] = None BY <3>1, <4>0 DEF Saving
        <4>2. Owner(acct[b]) \notin {u, Nobody} BY <4>1 DEF Owner, AdminAssumption
        <4>3. b \in crossed
          <5>1. k \in turned => busy[k].acc \in crossed BY DEF Found
          <5>2. k \notin turned => Owner(acct[busy[k].acc]) \in {busy[k].by, Nobody}
            <6>1. busy[k] # None BY <1>1, Zenon
            <6>2. busy[k].at = "update" BY <4>1, Zenon
            <6> QED BY <6>1, <6>2, Zenon DEF Found
          <5> QED BY <4>2, <5>1, <5>2
        <4>4. b \in crossed' BY <4>3 DEF Effects, Rows, Wrote, Written, Deleted
        <4> QED BY <4>4 DEF Good
      <3> QED BY <3>2, <3>3
    <2>3. Crowded(b) BY <1>1, EndCrowds
    <2>4. ASSUME NEW t \in Made' PROVE (t \in Made /\ Unarmed(t)) \/ (SGood(t)' /\ Crowded(sess'[t].acc))
      <3>1. CASE t = s BY <2>1, <2>2, <2>3, <3>1, SGoodNow DEF Crowded
      <3>2. CASE t # s BY <2>1, <3>2 DEF Unarmed
      <3> QED BY <3>1, <3>2
    <2>5. ASSUME NEW v \in Users PROVE Resting(v) \/ (WGood(v)' /\ Crowded(wiz'[v].acc))
      <3>1. CASE Say(u, AwaitOtp(s, b)) BY <2>1, <2>2, <2>3, <3>1, AwaitGood
      <3>2. CASE UNCHANGED wiz \/ Say(u, Sure(busy[k].op, b)) BY <1>4, <3>2, SayRests
      <3> QED BY <1>1, <3>1, <3>2
    <2> QED BY <1>3, <2>4, <2>5, OwnersStay
  <1> QED BY <1>5, <1>6

LEMMA DispatchOwners ==
    ASSUME AdminAssumption, Typed, Found, Alone, Effects, Owners, NEW k \in Slots, NEW done \in BOOLEAN,
           NEW heard \in Heard, Dispatch(k, done, heard)
    PROVE  Owners'
  <1>1. busy[k] # None /\ busy[k].op = "code" /\ ~Clears(k) /\ Over(k) BY DEF Dispatch, Clears, Ends, Dies
  <1> SUFFICES ASSUME NEW u \in Users, NEW b \in Accounts, NEW s \in Made,
                      u = busy[k].by, b = busy[k].acc, s = busy[k].sess
               PROVE  Owners'
    BY <1>1, HandlerShape
  <1>2. (\A a \in Accounts : Holds(a)) /\ (\A j \in Slots : Stands(j)) BY <1>1, Aside DEF Elsewhere
  <1>3. Good(u, b) /\ sess[s].by = u /\ sess[s].acc = b BY <1>1 DEF Owners, BGood
  <1>4. s \in Sessions BY MadeSession DEF Typed
  <1>5. Good(u, b)' /\ sess'[s].by = u /\ sess'[s].acc = b
    BY <1>2, <1>3 DEF Holds, Effects, Stores, Keeps
  <1>6. Crowded(b) BY <1>1, EndCrowds
  <1>7. Made' = Made
    <2>1. \A t \in Sessions : t # s => sess'[t] = sess[t] BY DEF Dispatch, Typed, Tables
    <2>2. Made \subseteq Made' BY MadeStays DEF Effects
    <2> QED BY <2>1, <2>2 DEF Made
  <1>8. ASSUME NEW t \in Made' PROVE (t \in Made /\ Unarmed(t)) \/ (SGood(t)' /\ Crowded(sess'[t].acc))
    <2>1. CASE t = s BY <1>5, <1>6, <2>1, SGoodNow DEF Crowded
    <2>2. CASE t # s
      <3>1. sess'[t] = sess[t] BY <2>2 DEF Dispatch, Typed, Tables, Made
      <3> QED BY <1>7, <3>1 DEF Unarmed
    <2> QED BY <2>1, <2>2
  <1>9. ASSUME NEW v \in Users PROVE Resting(v) \/ (WGood(v)' /\ Crowded(wiz'[v].acc))
    <2>1. CASE heard = "ok"
      <3>1. Say(u, AwaitOtp(s, b)) BY <2>1 DEF Dispatch, Ends
      <3> QED BY <1>4, <1>5, <1>6, <3>1, AwaitGood
    <2>2. CASE heard # "ok"
      <3>1. UNCHANGED wiz BY <2>2 DEF Dispatch, Dies
      <3> QED BY <3>1 DEF Resting
    <2> QED BY <2>1, <2>2
  <1> QED BY <1>2, <1>8, <1>9, OwnersStay

(* The steps of a deletion from its row on.                                  *)
\* k alone goes on, and keeps whom it is about
Proceeds(k, q) ==
    /\ busy[k] # None /\ busy' = [busy EXCEPT ![k] = q] /\ q \in Asker
    /\ q.by = busy[k].by /\ q.acc = busy[k].acc /\ q.met = busy[k].met

LEMMA ProceedsHold ==
    ASSUME AdminAssumption, Typed, Found, Effects, NEW k \in Slots, NEW q, Proceeds(k, q)
    PROVE  /\ \A a \in Accounts : Holds(a)
           /\ \A j \in Slots : j # k => Stands(j)
           /\ busy'[k] = q /\ q # None
  <1>1. q # None BY DEF Proceeds, AdminAssumption
  <1>2. busy'[k] = q /\ \A j \in Slots : j # k => busy'[j] = busy[j] BY DEF Proceeds, Typed, Hands
  <1>3. \A j \in Slots : Clears(j) => ~Over(j)
    BY <1>1, <1>2 DEF Clears, Over, Typed, Hands
  <1>4. \A a \in Accounts : Holds(a) BY <1>3, RowsHold
  <1>5. \A j \in Slots : j # k => Stands(j) BY <1>2 DEF Stands, Clears
  <1> QED BY <1>1, <1>2, <1>4, <1>5

\* A deletion that nobody met has its sessions on its list
LEMMA DGoodNow ==
    ASSUME NEW k, NEW u, NEW b, u = busy'[k].by, b = busy'[k].acc,
           ~busy'[k].met /\ b \notin crossed' =>
             /\ \A s \in Made' : sess'[s].acc = b /\ Useful(sess'[s])
                                   => sess'[s].by = u /\ (busy'[k].at = "cancel" => s \in busy'[k].todo)
             /\ \A v \in Users : wiz'[v] \in Waiting /\ wiz'[v].acc = b => v = u
    PROVE  DGood(k)'
  BY DEF DGood, Clears, Useful, Fits

LEMMA DeleteOwners ==
    ASSUME AdminAssumption, Typed, Found, Alone, Steady, Effects, Owners, NEW k \in Slots,
           NEW done \in BOOLEAN, NEW heard \in Heard, DeleteRow(k, done, heard)
    PROVE  Owners'
  <1> SUFFICES ASSUME NEW u \in Users, NEW b \in Accounts, u = busy[k].by, b = busy[k].acc
               PROVE  Owners'
    BY HandlerShape DEF DeleteRow
  <1>1. /\ busy[k] # None /\ busy[k].op = "delete" /\ busy[k].at = "second" /\ ~Clears(k)
        /\ UNCHANGED <<sess, wiz>> /\ crossed \subseteq crossed'
    BY DEF DeleteRow, Clears
  <1>2. \A v \in Users : Resting(v) BY <1>1 DEF Resting
  <1>3. CASE heard = "cut"
    <2>1. Elsewhere BY <1>1, <1>3 DEF DeleteRow, Elsewhere
    <2> QED BY <1>1, <1>2, <2>1, CalmOwners
  <1>4. CASE heard # "cut"
    <2> DEFINE again == busy[k].again \/ heard = "error"
               q == [busy[k] EXCEPT !.at = "fetch", !.again = again]
    <2>1. busy[k] \in Asker BY <1>1 DEF Typed, Hands
    <2>2. again \in BOOLEAN BY <2>1 DEF Asker
    <2>3. busy' = [busy EXCEPT ![k] = q] BY <1>4 DEF DeleteRow
    <2> HIDE DEF again
    <2>4. q \in Asker /\ q.at = "fetch" /\ q.by = u /\ q.acc = b /\ q.met = busy[k].met
      BY <2>1, <2>2 DEF Asker
    <2> HIDE DEF q
    <2>5. Proceeds(k, q) BY <1>1, <2>3, <2>4 DEF Proceeds
    <2>6. /\ \A a \in Accounts : Holds(a) /\ \A j \in Slots : j # k => Stands(j)
          /\ busy'[k] = q
      BY <2>5, ProceedsHold
    <2>7. DGood(k)'
      <3> SUFFICES ASSUME ~busy[k].met, b \notin crossed'
                   PROVE  /\ \A s \in Made' : sess'[s].acc = b /\ Useful(sess'[s]) => sess'[s].by = u
                          /\ \A v \in Users : wiz'[v] \in Waiting /\ wiz'[v].acc = b => v = u
        BY <2>4, <2>6, DGoodNow
      <3>1. Owned(u, b) BY <1>1 DEF Steady, Kinds, Held, Early
      <3>2. ~Deleting(b) BY <1>1 DEF Deleting, BusyWith, Alone, Clears
      <3>3. \A v : Good(v, b) => v = u BY <1>1, <3>1, <3>2 DEF Good, Owned
      <3>4. Made' = Made /\ \A s \in Made : sess'[s] = sess[s] BY <1>1 DEF Made
      <3>5. ASSUME NEW s \in Made, sess[s].acc = b, Useful(sess[s]) PROVE sess[s].by = u
        BY <3>3, <3>5 DEF Owners, SGood
      <3>6. ASSUME NEW v \in Users, wiz[v] \in Waiting, wiz[v].acc = b PROVE v = u
        BY <3>3, <3>6 DEF Owners, WGood
      <3> QED BY <1>1, <3>4, <3>5, <3>6
    <2>8. \A s \in Made' : s \in Made /\ Unarmed(s) BY <1>1 DEF Made, Unarmed
    <2> QED BY <1>2, <2>6, <2>7, <2>8, OwnersStay
  <1> QED BY <1>3, <1>4

LEMMA FetchOwners ==
    ASSUME AdminAssumption, Typed, Found, Effects, Owners, NEW k \in Slots,
           NEW some \in SUBSET Sessions, Fetch(k, some)
    PROVE  Owners'
  <1> SUFFICES ASSUME NEW u \in Users, NEW b \in Accounts, u = busy[k].by, b = busy[k].acc
               PROVE  Owners'
    BY HandlerShape DEF Fetch
  <1> DEFINE left == {s \in some : sess[s].by = u}
             q == [busy[k] EXCEPT !.at = "cancel", !.todo = left]
  <1>1. /\ busy[k] # None /\ busy[k].at = "fetch" /\ UNCHANGED <<sess, wiz>>
        /\ busy' = [busy EXCEPT ![k] = q] /\ (some = SessionsOf(b) \/ b \in crossed')
        /\ crossed \subseteq crossed' /\ left \in SUBSET Sessions
    BY DEF Fetch, d1, bot
  <1>2. busy[k] \in Asker BY <1>1 DEF Typed, Hands
  <1>3. left = {s \in some : sess[s].by = u} OBVIOUS
  <1> HIDE DEF left
  <1>4. q \in Asker /\ q.at = "cancel" /\ q.by = u /\ q.acc = b /\ q.met = busy[k].met /\ q.todo = left
    BY <1>1, <1>2 DEF Asker
  <1> HIDE DEF q
  <1>5. Proceeds(k, q) BY <1>1, <1>4 DEF Proceeds
  <1>6. /\ \A a \in Accounts : Holds(a) /\ \A j \in Slots : j # k => Stands(j)
        /\ busy'[k] = q
    BY <1>5, ProceedsHold
  <1>7. \A v \in Users : Resting(v) BY <1>1 DEF Resting
  <1>8. \A s \in Made' : s \in Made /\ Unarmed(s) BY <1>1 DEF Made, Unarmed
  <1>9. DGood(k)'
    <2> SUFFICES ASSUME ~busy[k].met, b \notin crossed'
                 PROVE  /\ \A s \in Made' : sess'[s].acc = b /\ Useful(sess'[s])
                                              => sess'[s].by = u /\ s \in left
                        /\ \A v \in Users : wiz'[v] \in Waiting /\ wiz'[v].acc = b => v = u
      BY <1>4, <1>6, DGoodNow
    <2>1. Clears(k) /\ b \notin crossed BY <1>1 DEF Clears
    <2>2. /\ \A s \in Made : sess[s].acc = b /\ Useful(sess[s]) => sess[s].by = u
          /\ \A v \in Users : wiz[v] \in Waiting /\ wiz[v].acc = b => v = u
      BY <2>1 DEF Owners, DGood
    <2>3. \A s \in Made : sess[s].acc = b /\ sess[s].by = u => s \in left
      BY <1>1, <1>3 DEF SessionsOf
    <2>4. Made' = Made BY <1>1 DEF Made
    <2> QED BY <1>1, <2>2, <2>3, <2>4
  <1> QED BY <1>6, <1>7, <1>8, <1>9, OwnersStay

LEMMA CancelSessionOwners ==
    ASSUME AdminAssumption, Typed, Found, Effects, Owners, NEW k \in Slots, NEW s \in Sessions,
           CancelSession(k, s)
    PROVE  Owners'
  <1> SUFFICES ASSUME NEW u \in Users, NEW b \in Accounts, u = busy[k].by, b = busy[k].acc
               PROVE  Owners'
    BY HandlerShape DEF CancelSession
  <1> DEFINE left == busy[k].todo \ {s}  q == [busy[k] EXCEPT !.todo = left]
             x == Cleared(sess[s], "cancelled")
  <1>1. /\ busy[k] # None /\ s \in busy[k].todo /\ UNCHANGED <<wiz, crossed>>
        /\ busy' = [busy EXCEPT ![k] = q] /\ sess' = [sess EXCEPT ![s] = x]
    BY DEF CancelSession, SessionLeft, bot, hist
  <1>2. busy[k] \in Asker /\ s \in Made BY <1>1, HandlerShape
  <1>3. left \in SUBSET Sessions BY <1>2 DEF Asker
  <1>4. left = busy[k].todo \ {s} OBVIOUS
  <1> HIDE DEF left
  <1>5. q \in Asker /\ q.at = busy[k].at /\ q.by = u /\ q.acc = b /\ q.met = busy[k].met /\ q.todo = left
    BY <1>2, <1>3 DEF Asker
  <1> HIDE DEF q
  <1>6. Proceeds(k, q) BY <1>1, <1>5 DEF Proceeds
  <1>7. /\ \A a \in Accounts : Holds(a) /\ \A j \in Slots : j # k => Stands(j)
        /\ busy'[k] = q
    BY <1>6, ProceedsHold
  <1>8. \A v \in Users : Resting(v) BY <1>1 DEF Resting
  <1>9. ~Useful(x) BY <1>2, MadeSession, ClearedUseless DEF Typed
  <1> HIDE DEF x
  <1>10. \A t \in Sessions : t # s => sess'[t] = sess[t] BY <1>1 DEF Typed, Tables
  <1>11. Made' = Made
    <2>1. Made \subseteq Made' BY MadeStays DEF Effects
    <2> QED BY <1>2, <1>10, <2>1 DEF Made
  <1>12. sess'[s] = x BY <1>1 DEF Typed, Tables
  <1>13. \A t \in Made' : t \in Made /\ Unarmed(t) BY <1>9, <1>10, <1>11, <1>12 DEF Made, Unarmed
  <1>14. Stands(k) \/ DGood(k)'
    <2> SUFFICES ASSUME Clears(k), ~busy[k].met, b \notin crossed
                 PROVE  /\ \A t \in Made' : sess'[t].acc = b /\ Useful(sess'[t])
                                              => sess'[t].by = u /\ (q.at = "cancel" => t \in left)
                        /\ \A v \in Users : wiz'[v] \in Waiting /\ wiz'[v].acc = b => v = u
      <3>1. CASE ~Clears(k) BY <1>1, <1>5, <1>7, <3>1 DEF Stands, Clears
      <3>2. CASE Clears(k) BY <1>1, <1>5, <1>7, <3>2, DGoodNow
      <3> QED BY <3>1, <3>2
    <2>1. /\ \A t \in Made : sess[t].acc = b /\ Useful(sess[t])
                               => sess[t].by = u /\ (busy[k].at = "cancel" => t \in busy[k].todo)
          /\ \A v \in Users : wiz[v] \in Waiting /\ wiz[v].acc = b => v = u
      BY DEF Owners, DGood
    <2>2. ASSUME NEW t \in Made', sess'[t].acc = b, Useful(sess'[t])
          PROVE  sess'[t].by = u /\ (q.at = "cancel" => t \in left)
      <3>1. t # s BY <1>9, <1>12, <2>2
      <3>2. t \in Made /\ sess'[t] = sess[t] BY <1>10, <1>11, <3>1 DEF Made
      <3> QED BY <1>4, <1>5, <2>1, <2>2, <3>1, <3>2
    <2> QED BY <1>1, <2>1, <2>2
  <1> QED BY <1>7, <1>8, <1>13, <1>14, OwnersStay

(* A deletion is over: nobody can be given the account's credentials, or it  *)
(* is known that some may be left.                                           *)
LEMMA DeleteEndsOwners ==
    ASSUME AdminAssumption, Typed, Found, Alone, Effects, Owners, NEW k \in Slots, NEW cut \in BOOLEAN,
           DeleteEnds(k, cut)
    PROVE  Owners'
  <1> SUFFICES ASSUME NEW u \in Users, NEW b \in Accounts, u = busy[k].by, b = busy[k].acc
               PROVE  Owners'
    BY HandlerShape DEF DeleteEnds
  <1>1. /\ busy[k] # None /\ Clears(k) /\ Over(k) /\ UNCHANGED sess /\ crossed \subseteq crossed'
        /\ Say(u, Menu) \/ UNCHANGED wiz
    BY DEF DeleteEnds, Clears, Ends, Dies, d1
  <1>2. Menu \notin Waiting BY DEF Menu, Waiting
  <1>3. \A v \in Users : Resting(v) BY <1>1, <1>2, SayRests
  <1>4. \A j \in Slots : Stands(j) BY <1>1, AllStand
  <1>5. \A s \in Made' : s \in Made /\ Unarmed(s) BY <1>1 DEF Made, Unarmed
  <1>6. \A j \in Slots : j # k /\ busy[j] # None => ~Over(j)
    BY <1>1 DEF Over, Typed, Hands
  <1>7. \A a \in Accounts : a # b \/ b \in crossed' => Holds(a)
    BY <1>6, RowsHold DEF Clears
  <1>8. CASE b \in crossed'
    <2>1. \A a \in Accounts : Holds(a) BY <1>7, <1>8
    <2> QED BY <1>3, <1>4, <1>5, <2>1, OwnersStay
  <1>9. CASE b \notin crossed'
    <2>1. busy[k].at = "cancel" /\ busy[k].todo = {} /\ ~busy[k].met /\ Say(u, Menu)
      BY <1>9 DEF DeleteEnds, Ends
    <2>2. b \notin crossed BY <1>1, <1>9
    <2>3. /\ \A s \in Made : sess[s].acc = b => ~Useful(sess[s])
          /\ \A v \in Users : wiz[v] \in Waiting /\ wiz[v].acc = b => v = u
      BY <1>1, <2>1, <2>2 DEF Owners, DGood
    <2>4. ASSUME NEW s \in Made' PROVE SGood(s)'
      <3>1. s \in Made /\ Unarmed(s) /\ SGood(s) /\ sess[s].acc \in Accounts
        BY <1>5, MadeSession DEF Owners, Typed
      <3>2. CASE sess[s].acc # b BY <1>7, <3>1, <3>2, SStays DEF Effects
      <3>3. CASE sess[s].acc = b
        <4>1. ~Useful(sess'[s]) BY <2>3, <3>1, <3>3 DEF Unarmed
        <4> QED BY <4>1 DEF SGood, Useful, Fits
      <3> QED BY <3>2, <3>3
    <2>5. ASSUME NEW v \in Users PROVE WGood(v)'
      <3>1. CASE wiz'[v] \in Waiting
        <4>1. wiz[v] \in Waiting /\ wiz'[v].acc = wiz[v].acc /\ WGood(v)
          BY <1>3, <3>1 DEF Resting, Owners
        <4>2. wiz[v].acc \in Accounts BY <4>1 DEF Waiting
        <4>3. wiz[v].acc # b
          <5>1. wiz'[u] = Menu BY <2>1 DEF Say, Typed, Talks
          <5> QED BY <1>2, <2>3, <3>1, <4>1, <5>1
        <4> QED BY <1>3, <1>7, <4>1, <4>2, <4>3, WStays DEF Effects
      <3>2. CASE wiz'[v] \notin Waiting BY <3>2 DEF WGood
      <3> QED BY <3>1, <3>2
    <2>6. ASSUME NEW j \in Slots PROVE BGood(j)'
      <3>1. busy'[j] # None => j # k /\ busy'[j] = busy[j] BY <1>1 DEF Over, Typed, Hands
      <3>2. busy'[j] # None => busy'[j].acc # b BY <1>1, <2>1, <3>1 DEF Alone
      <3>3. \A a \in Accounts : Holds(a) \/ (busy'[j] # None /\ busy'[j].op = "code" => busy'[j].acc # a)
        BY <1>7, <3>2
      <3> QED BY <3>3, BStays
    <2>7. ASSUME NEW j \in Slots PROVE DGood(j)' BY <1>3, <1>4, <1>5, DStays
    <2> QED BY <2>4, <2>5, <2>6, <2>7 DEF Owners
  <1> QED BY <1>8, <1>9

LEMMA RunOwners ==
    ASSUME AdminAssumption, Typed, Found, Effects, Owners,
           \/ \E r \in runs : RunSend(r) \/ \E ok \in BOOLEAN : RunComplete(r, ok)
           \/ \E s \in Sessions : Expire(s)
    PROVE  Owners'
  <1>1. ASSUME NEW r \in runs, RunSend(r) PROVE Owners'
    <2> DEFINE s == ForBridge(r.acc, "send")  x == [sess[s] EXCEPT !.st = "awaiting_otp"]
    <2>1. UNCHANGED <<wiz, busy>> BY <1>1 DEF RunSend, bot
    <2>2. Elsewhere /\ \A u \in Users : Resting(u) BY <2>1 DEF Resting, Elsewhere
    <2>3. CASE UNCHANGED sess BY <2>2, <2>3, CalmOwners
    <2>4. CASE s # None /\ sess' = [sess EXCEPT ![s] = x]
      <3>1. s \in Made /\ Fits(sess[s], "send") BY <2>4, Handed
      <3>2. Useful(sess[s]) BY <3>1 DEF Useful
      <3> HIDE DEF s, x
      <3> QED BY <2>2, <2>4, <3>1, <3>2, WrittenOwners
    <2> QED BY <1>1, <2>3, <2>4 DEF RunSend
  <1>2. ASSUME NEW r \in runs, NEW ok \in BOOLEAN, RunComplete(r, ok) PROVE Owners'
    <2> DEFINE s == r.sess  x == [sess[s] EXCEPT !.res = IF ok THEN "done" ELSE "failed"]
    <2>1. UNCHANGED wiz /\ sess' = [sess EXCEPT ![s] = x]
      BY <1>2 DEF RunComplete, bot
    <2>2. \A u \in Users : Resting(u) BY <2>1 DEF Resting
    <2>3. s \in Made /\ sess[s] \in Session BY MadeSession DEF Typed, Errands
    <2>4. Useful(x) => Useful(sess[s]) BY <2>3 DEF Useful, Fits, Session
    <2>5. Elsewhere BY <1>2 DEF RunComplete, Elsewhere, Renews
    <2> HIDE DEF s, x
    <2> QED BY <2>1, <2>2, <2>3, <2>4, <2>5, WrittenOwners
  <1>3. ASSUME NEW s \in Sessions, Expire(s) PROVE Owners'
    <2> DEFINE x == [sess[s] EXCEPT !.old = TRUE]
    <2>1. UNCHANGED <<wiz, busy>> /\ sess' = [sess EXCEPT ![s] = x] BY <1>3 DEF Expire, bot
    <2>2. Elsewhere /\ \A u \in Users : Resting(u) BY <2>1 DEF Resting, Elsewhere
    <2>3. s \in Made /\ sess[s] \in Session BY <1>3, MadeSession DEF Typed, Expire, Made
    <2>4. Useful(x) => Useful(sess[s]) BY <2>3 DEF Useful, Fits, Session
    <2> HIDE DEF x
    <2> QED BY <2>1, <2>2, <2>3, <2>4, WrittenOwners
  <1> QED BY <1>1, <1>2, <1>3

LEMMA OwnersKept ==
    ASSUME AdminAssumption, Typed, Found, Effects, Alone, Steady, Owners, [Next]_vars
    PROVE  Owners'
  <1>1. ASSUME NEW u \in Users, Talk(u) PROVE Owners' BY <1>1, TalkOwners
  <1>2. ASSUME NEW k \in Slots, Answer(k) PROVE Owners'
    <2>1. ASSUME NEW done \in BOOLEAN, NEW heard \in Heard,
                 \/ SetEnabled(k, done, heard) \/ LogoutSecret(k, done, heard)
                 \/ LogoutRow(k, done, heard) \/ DeleteRegistry(k, done, heard)
                 \/ DeleteRow(k, done, heard) \/ Dispatch(k, done, heard)
          PROVE  Owners'
      BY <2>1, SavingOwners, DeleteOwners, DispatchOwners
    <2>2. ASSUME NEW heard \in Heard, SetText(k, heard) PROVE Owners' BY <2>2, SavingOwners
    <2>3. ASSUME NEW some \in SUBSET Sessions, Fetch(k, some) PROVE Owners' BY <2>3, FetchOwners
    <2>4. ASSUME NEW s \in Sessions, CancelSession(k, s) PROVE Owners' BY <2>4, CancelSessionOwners
    <2>5. ASSUME NEW cut \in BOOLEAN, DeleteEnds(k, cut) PROVE Owners' BY <2>5, DeleteEndsOwners
    <2>6. ASSUME NEW out \in {"ok", "conflict", "error", "cut"}, Start(k, out) PROVE Owners'
      BY <2>6, SavingOwners
    <2>7. ASSUME NEW s \in Sessions, NEW out \in {"ok", "error", "cut"}, Started(k, s, out)
          PROVE  Owners'
      BY <2>7, StartedOwners
    <2>8. CASE Saved(k) \/ LoginDone(k) BY <2>8, SavingOwners, LoginOwners
    <2> QED BY <1>2, <2>1, <2>2, <2>3, <2>4, <2>5, <2>6, <2>7, <2>8 DEF Answer
  <1>3. ASSUME NEW w \in watch, WatchEnds(w) PROVE Owners'
    <2>1. UNCHANGED <<sess, wiz>> /\ Elsewhere
      BY <1>3, QuietAside DEF WatchEnds, bot, d1, Quiet
    <2>2. \A u \in Users : Resting(u) BY <2>1 DEF Resting
    <2> QED BY <2>1, <2>2, CalmOwners
  <1>4. CASE UNCHANGED vars
    <2>1. UNCHANGED <<sess, wiz, busy>> BY <1>4 DEF vars, bot, d1
    <2>2. Elsewhere /\ \A u \in Users : Resting(u) BY <2>1 DEF Resting, Elsewhere
    <2> QED BY <2>1, <2>2, CalmOwners
  <1> QED BY <1>1, <1>2, <1>3, <1>4, RunOwners DEF Next

LEMMA NeverStrange ==
    ASSUME AdminAssumption, Typed, Owners, ~strange, [Next]_vars
    PROVE  ~strange'
  <1>1. ASSUME NEW a, NEW action \in {"send", "complete"}, Served(a, ForBridge(a, action))
        PROVE  ~strange'
    <2> DEFINE s == ForBridge(a, action)
    <2>1. s # None => s \in Made /\ sess[s].acc = a /\ Fits(sess[s], action) BY Handed
    <2>2. s # None => Good(sess[s].by, a) BY <2>1 DEF Owners, SGood, Useful
    <2> QED BY <1>1, <2>2 DEF Served, Good, Owned
  <1>2. ASSUME NEW u \in Users, Talk(u) PROVE ~strange'
    <2>1. CASE Quiets(u)
      <3>1. PICK w : Moves(u, w) BY <2>1, QuietMoves
      <3> QED BY <3>1 DEF Moves, Answered, hist
    <2>2. CASE Cancel(u) \/ CheckRun(u) \/ Press(u) BY <2>2 DEF Cancel, CheckRun, Press, hist
    <2>3. CASE Confirm(u) \/ GiveCode(u) BY <2>3 DEF Confirm, GiveCode, hist
    <2>4. ASSUME NEW op \in Texts, GiveText(u, op) PROVE ~strange' BY <2>4 DEF GiveText, hist
    <2> QED BY <1>2, <2>1, <2>2, <2>3, <2>4 DEF Talk, Quiets
  <1>3. ASSUME NEW k \in Slots, Answer(k) PROVE ~strange' BY <1>3, AnswerErrs
  <1>4. ASSUME NEW r \in runs, RunSend(r) \/ \E ok \in BOOLEAN : RunComplete(r, ok) PROVE ~strange'
    BY <1>1, <1>4 DEF RunSend, RunComplete
  <1>5. ASSUME NEW w \in watch, WatchEnds(w) PROVE ~strange' BY <1>5 DEF WatchEnds, hist
  <1>6. ASSUME NEW s \in Sessions, Expire(s) PROVE ~strange' BY <1>6 DEF Expire, hist
  <1>7. CASE UNCHANGED vars BY <1>7 DEF vars, hist
  <1> QED BY <1>2, <1>3, <1>4, <1>5, <1>6, <1>7 DEF Next

LEMMA SessionsOwned ==
    ASSUME AdminAssumption, LoginAssumption, Init
    PROVE  \A s \in Made : SGood(s)
  <1> SUFFICES ASSUME NEW s \in Made PROVE \A u, a : u = sess[s].by /\ a = sess[s].acc => Owned(u, a)
    BY DEF SGood, Good
  <1> TAKE u, a
  <1> HAVE u = sess[s].by /\ a = sess[s].acc
  <1>1. s \in Sessions /\ FirstSession[s] # None /\ sess[s] = FirstSession[s] BY DEF Made, Init
  <1>2. FirstSession[s] \in Session BY <1>1 DEF LoginAssumption
  <1>3. u \in Users /\ a \in Accounts BY <1>1, <1>2 DEF Session
  <1>4. FirstOwner[a] = u /\ u # None BY <1>1, <1>3 DEF AdminAssumption, LoginAssumption
  <1>5. acct[a] = [owner |-> u, on |-> TRUE, logged |-> TRUE, st |-> "ready"] BY <1>3, <1>4 DEF Init
  <1>6. acct[a] # None
    <2>1. acct[a] \in Row BY <1>3, <1>5 DEF Row
    <2> QED BY <2>1 DEF AdminAssumption
  <1> QED BY <1>5, <1>6 DEF Owned

(* A login run gets credentials that the account's owner has given: those of *)
(* an earlier owner go with the account.  Excepted are accounts whose rows   *)
(* or sessions were written by others during the deletion or a save, whose   *)
(* deletion was cut off or is not over, or that had more sessions than a     *)
(* deletion reads (AccountService.py:413-430, LoginSession.py:147).          *)
THEOREM GivenByOwner == Spec => []ServedByOwner
  <1> DEFINE Inv == Typed /\ Found /\ Alone /\ Steady /\ Owners /\ ~strange
  <1>1. ASSUME Init PROVE Inv
    <2>1. Typed BY <1>1, InitTyped, AdminAssumption, LoginAssumption
    <2>2. Found /\ Alone /\ Steady /\ ~strange /\ \A k \in Slots : BGood(k) /\ DGood(k)
      BY <1>1 DEF Init, Found, Alone, Steady, BGood, DGood, Clears
    <2>3. \A u \in Users : WGood(u)
      <3>1. \A u \in Users : wiz[u] = Idle BY <1>1 DEF Init
      <3>2. Idle \notin Waiting BY DEF Idle, Waiting
      <3> QED BY <3>1, <3>2 DEF WGood
    <2>4. \A s \in Made : SGood(s) BY <1>1, SessionsOwned, AdminAssumption, LoginAssumption
    <2> QED BY <2>1, <2>2, <2>3, <2>4 DEF Owners
  <1>2. ASSUME Inv, [Next]_vars PROVE Inv'
    <2>1. Effects /\ Typed' BY <1>2, StepEffects, EffectsTyped, AdminAssumption
    <2>2. Found' BY <1>2, <2>1, FoundKept, AdminAssumption
    <2>3. Alone' /\ Steady' BY <1>2, <2>1, AloneKept, SteadyKept, AdminAssumption
    <2>4. Owners' BY <1>2, <2>1, OwnersKept, AdminAssumption
    <2>5. ~strange' BY <1>2, NeverStrange, AdminAssumption
    <2> QED BY <2>1, <2>2, <2>3, <2>4, <2>5
  <1>3. Inv => ServedByOwner BY DEF ServedByOwner
  <1> QED BY <1>1, <1>2, <1>3, PTL DEF Spec
=============================================================================
