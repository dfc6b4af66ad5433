-------------------------- MODULE CloudflareAIProof --------------------------
(***************************************************************************)
(* Proofs about CloudflareAI, for any accounts, clients, priorities and    *)
(* answers: its types, and that it implements Rotation.                    *)
(*                                                                         *)
(* UsableLists says that the list a chat begins with has every usable      *)
(* account once.  Asking ties the position, the attempts and the accounts  *)
(* asked so far: those asked are the last ones round the list from the     *)
(* position on, hence the chat asks nobody twice and ends when nobody is   *)
(* left.  Refusals is needed where a next chat of the same process begins: *)
(* who has refused is not on its list, and if someone has, the list is not *)
(* empty, since the account that answered last is on it.                   *)
(***************************************************************************)
EXTENDS CloudflareAI, FiniteSetTheorems, TLAPS

----------------------------------------------------------------------------
(* The order of the accounts *)

LEMMA AbleFinite ==
    ASSUME NEW t
    PROVE  IsFiniteSet(Able(t)) /\ Cardinality(Able(t)) \in Nat
  <1>1. Able(t) \in SUBSET Accounts /\ IsFiniteSet(Accounts) BY AIAssumption DEF Able
  <1>2. IsFiniteSet(Able(t)) BY <1>1, FS_Subset
  <1> QED BY <1>2, FS_CardinalityType

\* Rows of usable accounts, with what the order looks at
LEMMA AbleRow ==
    ASSUME NEW t \in Table, NEW a \in Able(t)
    PROVE  a \in Nat /\ t[a].pri \in Nat /\ t[a] \in Row
  <1>1. a \in Accounts /\ t[a] # None /\ t[a] \in Row \cup {None} BY DEF Able, Available, Has, Table
  <1>2. a \in Nat BY <1>1, AIAssumption
  <1>3. MaxPri \in Nat BY AIAssumption
  <1> QED BY <1>1, <1>2, <1>3 DEF Row

(* Of two usable accounts one comes before the other, and an order of        *)
(* three has no hole.                                                        *)
LEMMA BeforeOrders ==
    ASSUME NEW t \in Table, NEW a \in Able(t), NEW b \in Able(t), NEW d \in Able(t)
    PROVE  /\ ~Before(t, a, a)
           /\ a # b => Before(t, a, b) \/ Before(t, b, a)
           /\ Before(t, d, a) /\ Before(t, a, b) => Before(t, d, b)
  <1>1. a \in Nat /\ b \in Nat /\ d \in Nat BY AbleRow
  <1>2. t[a].pri \in Nat /\ t[b].pri \in Nat /\ t[d].pri \in Nat BY AbleRow
  <1> QED BY <1>1, <1>2 DEF Before

(* The number of accounts before an account is its own.                      *)
LEMMA PlaceIs ==
    ASSUME NEW t \in Table, NEW a \in Able(t)
    PROVE  /\ Cardinality(Above(Able(t), t, a)) \in 0..Cardinality(Able(t)) - 1
           /\ \A b \in Able(t) : Cardinality(Above(Able(t), t, a)) = Cardinality(Above(Able(t), t, b))
                => a = b
  <1> DEFINE S == Able(t)
             P(b) == Above(S, t, b)
  <1>0. IsFiniteSet(S) /\ Cardinality(S) \in Nat BY AbleFinite
  <1>1. ASSUME NEW b \in S
        PROVE  P(b) \in SUBSET S /\ IsFiniteSet(P(b)) /\ Cardinality(P(b)) \in Nat /\ b \notin P(b)
    <2>1. P(b) \in SUBSET S BY DEF Above
    <2>2. b \notin P(b) BY BeforeOrders DEF Above
    <2>3. IsFiniteSet(P(b)) BY <1>0, <2>1, FS_Subset
    <2> QED BY <2>1, <2>2, <2>3, FS_CardinalityType
  <1>2. ASSUME NEW b \in S, NEW d \in S, Before(t, b, d)
        PROVE  Cardinality(P(b)) < Cardinality(P(d))
    <2>1. P(b) \subseteq P(d) BY <1>2, BeforeOrders DEF Above
    <2>2. b \in P(d) /\ b \notin P(b) BY <1>1, <1>2 DEF Above
    <2>3. P(b) \in SUBSET P(d) /\ P(b) # P(d) BY <2>1, <2>2
    <2>4. Cardinality(P(b)) <= Cardinality(P(d)) /\ Cardinality(P(b)) # Cardinality(P(d))
      BY <1>1, <2>3, FS_Subset
    <2>5. Cardinality(P(b)) \in Nat /\ Cardinality(P(d)) \in Nat BY <1>1
    <2> QED BY <2>4, <2>5
  <1>3. Cardinality(P(a)) < Cardinality(S)
    <2>1. P(a) \in SUBSET S /\ P(a) # S BY <1>1
    <2>2. Cardinality(P(a)) <= Cardinality(S) /\ Cardinality(P(a)) # Cardinality(S)
      BY <1>0, <2>1, FS_Subset
    <2> QED BY <2>2, <1>0, <1>1
  <1>4. ASSUME NEW b \in S, Cardinality(P(a)) = Cardinality(P(b)) PROVE a = b
    <2>1. Cardinality(P(a)) \in Nat BY <1>1
    <2>2. ~Before(t, a, b) /\ ~Before(t, b, a) BY <1>2, <1>4, <2>1
    <2> QED BY <2>2, BeforeOrders
  <1>5. a \in S OBVIOUS
  <1> HIDE DEF S, P
  <1>6. Cardinality(P(a)) \in 0..Cardinality(S) - 1 BY <1>0, <1>1, <1>3, <1>5
  <1> QED BY <1>4, <1>6 DEF S, P

(* The list has each usable account once, and no other.                      *)
LEMMA UsableLists ==
    ASSUME NEW t \in Table
    PROVE  /\ Usable(t) \in Seq(Accounts) /\ Len(Usable(t)) = Cardinality(Able(t))
           /\ Members(Usable(t)) = Able(t)
           /\ \A j, k \in DOMAIN Usable(t) : Usable(t)[j] = Usable(t)[k] => j = k
  <1> DEFINE S == Able(t)
             n == Cardinality(S)
             P == [a \in S |-> Cardinality(Above(S, t, a))]
             U == Usable(t)
  <1>0. IsFiniteSet(S) /\ n \in Nat BY AbleFinite
  <1>1. P \in Injection(S, 0..n - 1)
    <2>1. \A a \in S : P[a] \in 0..n - 1 BY PlaceIs
    <2>2. \A a, b \in S : P[a] = P[b] => a = b BY PlaceIs
    <2> QED BY <2>1, <2>2 DEF Injection, IsInjective
  <1>2. IsFiniteSet(0..n - 1) /\ Cardinality(0..n - 1) = n
    BY <1>0, FS_Interval, SMTT(30)
  <1>3. P \in Surjection(S, 0..n - 1)
    <2> HIDE DEF P
    <2> QED BY <1>1, <1>2, FS_Injection
  <1>4. \A k \in 1..n : \E a \in S : P[a] = k - 1
    <2>1. \A i \in 0..n - 1 : \E a \in S : P[a] = i BY <1>3 DEF Surjection
    <2> HIDE DEF P
    <2>2. \A k \in 1..n : k - 1 \in 0..n - 1 BY <1>0
    <2> QED BY <2>1, <2>2
  <1>5. U = [k \in 1..n |-> CHOOSE a \in S : P[a] = k - 1]
    BY DEF Usable
  <1>6. \A k \in 1..n : U[k] \in S /\ P[U[k]] = k - 1
    <2> HIDE DEF P, S, n, U
    <2> QED BY <1>4, <1>5
  <1>7. \A a \in S : \A b \in S : P[a] = P[b] => a = b BY PlaceIs
  <1>8. \A a \in S : P[a] \in 0..n - 1 BY PlaceIs
  <1>9. S \subseteq Accounts BY DEF Able
  <1> HIDE DEF P, S, n, U
  <1>10. U \in [1..n -> Accounts] /\ DOMAIN U = 1..n BY <1>5, <1>6, <1>9
  <1>11. U \in Seq(Accounts) /\ Len(U) = n BY <1>0, <1>10
  <1>12. ASSUME NEW j \in 1..n, NEW k \in 1..n, U[j] = U[k] PROVE j = k
    <2>1. j - 1 = k - 1 BY <1>6, <1>12
    <2> QED BY <2>1, <1>0
  <1>13. ASSUME NEW a \in S PROVE \E k \in 1..n : U[k] = a
    <2> DEFINE k == P[a] + 1
    <2>1. P[a] \in 0..n - 1 BY <1>8
    <2>2. k \in 1..n /\ k - 1 = P[a] BY <2>1, <1>0
    <2> HIDE DEF k
    <2>3. U[k] \in S /\ P[U[k]] = P[a] BY <2>2, <1>6
    <2>4. U[k] = a BY <2>3, <1>7
    <2> QED BY <2>2, <2>4
  <1>14. Members(U) = S BY <1>6, <1>10, <1>13 DEF Members
  <1> QED BY <1>10, <1>11, <1>12, <1>14 DEF S, n, U

----------------------------------------------------------------------------
(* What the state may be *)

Outcomes == {"new", "asking", "no_accounts", "answered", "aborted", "exhausted", "failed"}

Typed ==
    /\ file \in Table /\ mem \in [Clients -> Table]
    /\ at \in [Clients -> {"idle", "loaded", "ready", "asking"}]
    /\ for \in [Clients -> {"tools", "json", "plain"}] /\ said \in [Clients -> Outcomes]
    /\ accs \in [Clients -> Seq(Accounts)]
    /\ idx \in [Clients -> Nat] /\ tries \in [Clients -> Nat] /\ quota \in [Clients -> BOOLEAN]
    /\ cur \in [Clients -> Nat] /\ rounds \in [Clients -> Nat]
    /\ asked \in [Clients -> SUBSET Accounts] /\ refused \in [Clients -> SUBSET Accounts]

\* How many accounts have their turn before account k, round the list from here
Ahead(c, k) ==
    IF k > idx[c] THEN k - idx[c] - 1 ELSE k + Len(accs[c]) - idx[c] - 1

\* A chat: the accounts that were asked are those that come last, and the others are usable
Asking(c) ==
    /\ idx[c] < Len(accs[c]) /\ tries[c] < Len(accs[c])
    /\ \A j, k \in DOMAIN accs[c] : accs[c][j] = accs[c][k] => j = k
    /\ \A k \in DOMAIN accs[c] :
         accs[c][k] \in asked[c] <=> Ahead(c, k) >= Len(accs[c]) - tries[c]
    /\ Members(accs[c]) \ asked[c] \subseteq Able(mem[c])

\* No chat is going on
Quiet(c) ==
    accs[c] = <<>> /\ idx[c] = 0 /\ tries[c] = 0 /\ quota[c] = FALSE /\ asked[c] = {}

\* Who has refused is not usable, and a process that goes on has somebody to ask
Refusals(c) ==
    /\ refused[c] \cap Able(mem[c]) = {}
    /\ at[c] \in {"idle", "loaded"} => refused[c] = {}
    /\ at[c] = "ready" /\ refused[c] # {} => Kind[c] = "agent" /\ Able(mem[c]) # {}

\* What the agent asks for
Purpose(c) ==
    /\ Kind[c] # "agent" => for[c] = "plain"
    /\ rounds[c] <= Rounds[c] /\ (for[c] = "tools" => rounds[c] < Rounds[c])
    /\ at[c] = "idle" => rounds[c] = 0

Well(c) ==
    /\ at[c] = "asking" <=> said[c] = "asking"
    /\ IF at[c] = "asking" THEN Asking(c) ELSE Quiet(c)
    /\ Refusals(c) /\ Purpose(c)

Rotating == \A c \in Clients : Well(c)

Sound == Typed /\ Rotating

----------------------------------------------------------------------------
(* The file and its copies *)

LEMMA RowOf ==
    ASSUME NEW t \in Table, NEW a \in Accounts
    PROVE  /\ t[a] \in Row \cup {None}
           /\ Has(t, a) => t[a] \in Row /\ t[a].on \in BOOLEAN /\ t[a].burnt \in BOOLEAN
                           /\ t[a].pri \in 0..MaxPri
  BY DEF Table, Has, Row

LEMMA NothingTable == Nothing \in Table
  BY DEF Nothing, Table

LEMMA AddedTable ==
    ASSUME NEW t \in Table, NEW a \in Accounts, NEW p \in 0..MaxPri
    PROVE  Added(t, a, p) \in Table
  BY DEF Added, Table, Row

\* A mark changes one row, and only whether it is burnt
LEMMA MarkedTable ==
    ASSUME NEW t \in Table, NEW a \in Accounts, Has(t, a), NEW burns \in BOOLEAN
    PROVE  /\ Marked(t, a, burns) \in Table
           /\ Able(Marked(t, a, burns)) = IF burns THEN Able(t) \ {a} ELSE Able(t)
  <1> DEFINE row == [t[a] EXCEPT !.burnt = @ \/ burns]
             m == Marked(t, a, burns)
  <1>1. t[a] \in Row BY RowOf
  <1>2. row \in Row /\ row.on = t[a].on /\ row.burnt = (t[a].burnt \/ burns)
    BY <1>1 DEF Row
  <1>3. m = [t EXCEPT ![a] = row] BY DEF Marked
  <1> HIDE DEF row, m
  <1>4. m \in Table /\ m[a] = row /\ \A b \in Accounts \ {a} : m[b] = t[b]
    BY <1>2, <1>3 DEF Table
  <1>5. row # None BY <1>2, FileAssumption
  <1>6. Available(m, a) <=> Available(t, a) /\ ~burns
    BY <1>2, <1>4, <1>5, <1>1 DEF Available, Has
  <1>7. \A b \in Accounts \ {a} : Available(m, b) <=> Available(t, b)
    BY <1>4 DEF Available, Has
  <1>8. Able(m) = IF burns THEN Able(t) \ {a} ELSE Able(t)
    BY <1>6, <1>7 DEF Able
  <1> QED BY <1>4, <1>8 DEF m

LEMMA EditedTable ==
    ASSUME NEW t \in Table, NEW a \in Accounts
    PROVE  /\ [t EXCEPT ![a] = None] \in Table
           /\ Has(t, a) => /\ \A on \in BOOLEAN : Switched(t, a, on) \in Table
                           /\ \A p \in 0..MaxPri : [t EXCEPT ![a].pri = p] \in Table
  <1>1. [t EXCEPT ![a] = None] \in Table BY DEF Table
  <1>2. ASSUME Has(t, a), NEW on \in BOOLEAN PROVE Switched(t, a, on) \in Table
    <2>1. t[a] \in Row BY <1>2, RowOf
    <2>2. [t[a] EXCEPT !.on = on, !.burnt = @ /\ ~on] \in Row BY <2>1 DEF Row
    <2>3. Switched(t, a, on) = [t EXCEPT ![a] = [t[a] EXCEPT !.on = on, !.burnt = @ /\ ~on]]
      BY DEF Switched, Table
    <2> QED BY <2>2, <2>3 DEF Table
  <1>3. ASSUME Has(t, a), NEW p \in 0..MaxPri PROVE [t EXCEPT ![a].pri = p] \in Table
    <2>1. t[a] \in Row BY <1>3, RowOf
    <2>2. [t[a] EXCEPT !.pri = p] \in Row BY <2>1 DEF Row
    <2>3. [t EXCEPT ![a].pri = p] = [t EXCEPT ![a] = [t[a] EXCEPT !.pri = p]] BY DEF Table
    <2> QED BY <2>2, <2>3 DEF Table
  <1> QED BY <1>1, <1>2, <1>3

LEMMA RenewedTable ==
    ASSUME NEW t \in Table
    PROVE  Renewed(t) \in Table /\ Able(t) \subseteq Able(Renewed(t))
  <1>1. ASSUME NEW a \in Accounts, Has(t, a)
        PROVE  [t[a] EXCEPT !.burnt = FALSE] \in Row /\ [t[a] EXCEPT !.burnt = FALSE].on = t[a].on
               /\ [t[a] EXCEPT !.burnt = FALSE].burnt = FALSE
    <2>1. t[a] \in Row BY <1>1, RowOf
    <2> QED BY <2>1 DEF Row
  <1>2. Renewed(t) \in Table BY <1>1 DEF Renewed, Table
  <1>3. ASSUME NEW a \in Able(t) PROVE a \in Able(Renewed(t))
    <2>1. a \in Accounts /\ Has(t, a) /\ t[a].on BY DEF Able, Available
    <2>2. Renewed(t)[a] = [t[a] EXCEPT !.burnt = FALSE] BY <2>1 DEF Renewed
    <2>3. Renewed(t)[a] # None BY <1>1, <2>1, <2>2, FileAssumption
    <2> QED BY <1>1, <2>1, <2>2, <2>3 DEF Able, Available, Has
  <1> QED BY <1>2, <1>3

LEMMA SaveEffect ==
    ASSUME Typed, NEW c \in Clients, NEW t \in Table, Save(c, t) \/ Drop(c)
    PROVE  /\ file' \in Table /\ mem' \in [Clients -> Table]
           /\ \A d \in Clients \ {c} : mem'[d] = mem[d]
           /\ Save(c, t) /\ at'[c] # "idle" => mem'[c] = t
           /\ Drop(c) /\ at'[c] # "idle" => mem'[c] = mem[c]
  <1>1. file \in Table /\ mem \in [Clients -> Table] BY DEF Typed
  <1>2. CASE Save(c, t)
    <2>1. PICK v \in {Nothing, t} : mem' = [mem EXCEPT ![c] = v] /\ (at'[c] # "idle" => v = t)
      BY <1>2 DEF Save
    <2>2. file' = t /\ v \in Table BY <1>2, NothingTable DEF Save
    <2>3. Drop(c) /\ at'[c] # "idle" => mem'[c] = mem[c] BY <1>1 DEF Drop
    <2> QED BY <1>1, <2>1, <2>2, <2>3
  <1>3. CASE Drop(c)
    <2>1. PICK v \in {Nothing, mem[c]} :
            mem' = [mem EXCEPT ![c] = v] /\ (at'[c] # "idle" => v = mem[c])
      BY <1>3 DEF Drop
    <2>2. file' = file /\ v \in Table BY <1>1, <1>3, NothingTable DEF Drop
    <2>3. Save(c, t) /\ at'[c] # "idle" => mem'[c] = t BY <1>1 DEF Save
    <2> QED BY <1>1, <2>1, <2>2, <2>3
  <1> QED BY <1>2, <1>3

----------------------------------------------------------------------------
(* What a step leaves alone *)

\* Nothing of client d changes
Same(d) ==
    /\ mem'[d] = mem[d] /\ at'[d] = at[d] /\ for'[d] = for[d] /\ rounds'[d] = rounds[d]
    /\ accs'[d] = accs[d] /\ idx'[d] = idx[d] /\ tries'[d] = tries[d]
    /\ quota'[d] = quota[d] /\ asked'[d] = asked[d]
    /\ said'[d] = said[d] /\ refused'[d] = refused[d]

\* Client c takes a step that keeps the invariant
Steps(c) == Typed' /\ Well(c)' /\ \A d \in Clients \ {c} : Same(d)

LEMMA WellStays ==
    ASSUME NEW d \in Clients, Well(d), Same(d)
    PROVE  Well(d)'
  BY DEF Well, Same, Asking, Ahead, Quiet, Refusals, Purpose

LEMMA StepsSound ==
    ASSUME Sound, NEW c \in Clients, Steps(c)
    PROVE  Sound'
  BY WellStays DEF Sound, Rotating, Steps

\* The chat of c ends
LEMMA OverEffect ==
    ASSUME Typed, NEW c \in Clients, Over(c)
    PROVE  /\ accs' \in [Clients -> Seq(Accounts)] /\ idx' \in [Clients -> Nat]
           /\ tries' \in [Clients -> Nat] /\ quota' \in [Clients -> BOOLEAN]
           /\ asked' \in [Clients -> SUBSET Accounts] /\ Quiet(c)'
           /\ \A d \in Clients \ {c} :
                /\ accs'[d] = accs[d] /\ idx'[d] = idx[d] /\ tries'[d] = tries[d]
                /\ quota'[d] = quota[d] /\ asked'[d] = asked[d]
  BY DEF Typed, Over, Quiet

LEMMA DoneEffect ==
    ASSUME Typed, NEW c \in Clients, Done(c)
    PROVE  /\ at' \in [Clients -> {"idle", "loaded", "ready", "asking"}]
           /\ for' \in [Clients -> {"tools", "json", "plain"}]
           /\ rounds' \in [Clients -> Nat] /\ cur' \in [Clients -> Nat]
           /\ refused' \in [Clients -> SUBSET Accounts]
           /\ at'[c] = "idle" /\ for'[c] = "plain" /\ rounds'[c] = 0 /\ refused'[c] = {}
           /\ \A d \in Clients \ {c} :
                /\ at'[d] = at[d] /\ for'[d] = for[d] /\ rounds'[d] = rounds[d]
                /\ refused'[d] = refused[d]
  BY DEF Typed, Done

LEMMA GoonEffect ==
    ASSUME Typed, NEW c \in Clients, NEW what \in {"tools", "json", "plain"}, NEW n \in Nat,
           Goon(c, what, n)
    PROVE  /\ at' \in [Clients -> {"idle", "loaded", "ready", "asking"}]
           /\ for' \in [Clients -> {"tools", "json", "plain"}]
           /\ rounds' \in [Clients -> Nat] /\ refused' \in [Clients -> SUBSET Accounts]
           /\ at'[c] = "ready" /\ for'[c] = what /\ rounds'[c] = n /\ refused'[c] = refused[c]
           /\ \A d \in Clients \ {c} :
                /\ at'[d] = at[d] /\ for'[d] = for[d] /\ rounds'[d] = rounds[d]
                /\ refused'[d] = refused[d]
  BY DEF Typed, Goon

\* A client that is done keeps nothing that could be wrong
LEMMA DoneWell ==
    ASSUME NEW c \in Clients, at'[c] = "idle", for'[c] = "plain", rounds'[c] = 0,
           refused'[c] = {}, Quiet(c)', said'[c] # "asking"
    PROVE  Well(c)'
  <1>1. Rounds[c] \in Nat BY AIAssumption
  <1> QED BY <1>1 DEF Well, Refusals, Purpose

----------------------------------------------------------------------------
(* Steps between two chats *)

LEMMA FinalIs ==
    ASSUME NEW c \in Clients
    PROVE  Final(c) \in {"json", "plain"} /\ (Kind[c] # "agent" => Final(c) = "plain")
  BY AIAssumption DEF Final

LEMMA LoadSteps ==
    ASSUME Sound, NEW c \in Clients, Load(c)
    PROVE  Steps(c)
  <1>1. Typed /\ Well(c) BY DEF Sound, Rotating
  <1>2. Rounds[c] \in Nat /\ (Kind[c] # "agent" => Rounds[c] = 0) BY AIAssumption
  <1>3. Typed' BY <1>1, FinalIs DEF Load, Typed, Outcomes, chat
  <1>4. /\ mem'[c] = file /\ at'[c] \in {"loaded", "ready"} /\ said'[c] = "new"
        /\ for'[c] = (IF Rounds[c] > 0 THEN "tools" ELSE Final(c)) /\ rounds'[c] = rounds[c]
        /\ refused'[c] = refused[c] /\ UNCHANGED chat
    BY <1>1 DEF Load, Typed
  <1>5. Quiet(c)' BY <1>1, <1>4 DEF Well, Quiet, chat, Load
  <1>6. refused[c] = {} /\ rounds[c] = 0 BY <1>1 DEF Well, Refusals, Purpose, Load
  <1>7. Refusals(c)' BY <1>4, <1>6 DEF Refusals
  <1>8. Purpose(c)' BY <1>2, <1>4, <1>6, FinalIs DEF Purpose
  <1>9. Well(c)' BY <1>4, <1>5, <1>7, <1>8 DEF Well
  <1>10. \A d \in Clients \ {c} : Same(d) BY <1>1 DEF Load, Typed, Same, chat
  <1> QED BY <1>3, <1>9, <1>10 DEF Steps

LEMMA HydrateSteps ==
    ASSUME Sound, NEW c \in Clients, NEW heard \in BOOLEAN, Hydrate(c, heard)
    PROVE  Steps(c)
  <1> DEFINE t == [a \in Accounts |-> IF a \in Bridge /\ ~Has(mem[c], a)
                                      THEN [on |-> TRUE, burnt |-> FALSE, pri |-> 0]
                                      ELSE mem[c][a]]
  <1>1. Typed /\ Well(c) BY DEF Sound, Rotating
  <1>2. mem[c] \in Table BY <1>1 DEF Typed
  <1>3. 0 \in 0..MaxPri BY AIAssumption
  <1>4. [on |-> TRUE, burnt |-> FALSE, pri |-> 0] \in Row BY <1>3 DEF Row
  <1>5. t \in Table BY <1>2, <1>4 DEF Table
  <1>6. Save(c, t) \/ Drop(c) BY DEF Hydrate
  <1>7. /\ at[c] = "loaded" /\ at' = [at EXCEPT ![c] = "ready"]
        /\ UNCHANGED <<for, rounds, chat, cur, said, refused, bounds>>
    BY DEF Hydrate
  <1> HIDE DEF t
  <1>8. /\ file' \in Table /\ mem' \in [Clients -> Table]
        /\ \A d \in Clients \ {c} : mem'[d] = mem[d]
    BY <1>1, <1>5, <1>6, SaveEffect
  <1>9. Typed' BY <1>1, <1>7, <1>8 DEF Typed, chat
  <1>10. at'[c] = "ready" /\ said[c] # "asking" BY <1>1, <1>7 DEF Typed, Well
  <1>11. Quiet(c)' BY <1>1, <1>7 DEF Well, Quiet, chat
  <1>12. Refusals(c)' BY <1>1, <1>7, <1>10 DEF Well, Refusals
  <1>13. Purpose(c)' BY <1>1, <1>7, <1>10 DEF Well, Purpose
  <1>14. Well(c)' BY <1>7, <1>10, <1>11, <1>12, <1>13 DEF Well
  <1>15. \A d \in Clients \ {c} : Same(d) BY <1>1, <1>7, <1>8 DEF Typed, Same, chat
  <1> QED BY <1>9, <1>14, <1>15 DEF Steps

\* A command is done, whatever it wrote
LEMMA CommandSteps ==
    ASSUME Sound, NEW c \in Clients, at[c] = "ready", Done(c), UNCHANGED <<chat, said>>,
           NEW t \in Table, Save(c, t) \/ Drop(c)
    PROVE  Steps(c)
  <1>1. Typed /\ Well(c) BY DEF Sound, Rotating
  <1>2. Quiet(c)' BY <1>1 DEF Well, Quiet, chat
  <1>3. said'[c] # "asking" BY <1>1 DEF Well
  <1>4. Well(c)' BY <1>1, <1>2, <1>3, DoneEffect, DoneWell
  <1>5. Typed' BY <1>1, DoneEffect, SaveEffect DEF Typed, chat
  <1>6. \A d \in Clients \ {c} : Same(d) BY <1>1, DoneEffect, SaveEffect DEF Same, chat
  <1> QED BY <1>4, <1>5, <1>6 DEF Steps

LEMMA TestSteps ==
    ASSUME Sound, NEW c \in Clients, NEW a \in Accounts, NEW refuses \in BOOLEAN,
           Test(c, a, refuses)
    PROVE  Steps(c)
  <1>1. mem[c] \in Table BY DEF Sound, Typed
  <1>2. \E t \in Table : Save(c, t) \/ Drop(c)
    BY <1>1, MarkedTable DEF Test
  <1> QED BY <1>2, CommandSteps DEF Test

LEMMA EditSteps ==
    ASSUME Sound, NEW c \in Clients, NEW a \in Accounts, Edit(c, a)
    PROVE  Steps(c)
  <1> DEFINE t == mem[c]
             Count == Cardinality({b \in Accounts : Has(t, b)})
  <1>1. t \in Table BY DEF Sound, Typed
  <1>2. Count \in Nat
    <2>1. {b \in Accounts : Has(t, b)} \in SUBSET Accounts /\ IsFiniteSet(Accounts)
      BY AIAssumption
    <2> QED BY <2>1, FS_Subset, FS_CardinalityType
  <1>3. /\ at[c] = "ready" /\ Done(c) /\ UNCHANGED <<chat, said>>
        /\ \/ ~Has(t, a) /\ \E p \in {0, Count} : p <= MaxPri /\ Save(c, Added(t, a, p))
           \/ Has(t, a) /\ \/ Save(c, [t EXCEPT ![a] = None])
                           \/ \E on \in BOOLEAN : Save(c, Switched(t, a, on))
                           \/ \E p \in 0..MaxPri : Save(c, [t EXCEPT ![a].pri = p])
           \/ Drop(c)
    BY DEF Edit
  <1>4. ASSUME NEW p \in {0, Count}, p <= MaxPri PROVE p \in 0..MaxPri
    <2> HIDE DEF Count
    <2> QED BY <1>2, <1>4, AIAssumption
  <1> HIDE DEF t, Count
  <1>5. \E u \in Table : Save(c, u) \/ Drop(c)
    <2>1. CASE Drop(c) BY <2>1, <1>1
    <2>2. CASE ~Has(t, a) /\ \E p \in {0, Count} : p <= MaxPri /\ Save(c, Added(t, a, p))
      BY <2>2, <1>1, <1>4, AddedTable
    <2>3. CASE Has(t, a) /\ Save(c, [t EXCEPT ![a] = None]) BY <2>3, <1>1, EditedTable
    <2>4. CASE Has(t, a) /\ \E on \in BOOLEAN : Save(c, Switched(t, a, on))
      BY <2>4, <1>1, EditedTable
    <2>5. CASE Has(t, a) /\ \E p \in 0..MaxPri : Save(c, [t EXCEPT ![a].pri = p])
      BY <2>5, <1>1, EditedTable
    <2> QED BY <1>3, <2>1, <2>2, <2>3, <2>4, <2>5
  <1> QED BY <1>3, <1>5, CommandSteps

----------------------------------------------------------------------------
(* Steps of a chat *)

LEMMA BeginSteps ==
    ASSUME Sound, NEW c \in Clients, Begin(c)
    PROVE  Steps(c)
  <1> DEFINE U == Usable(mem[c])
  <1>1. Typed /\ Well(c) BY DEF Sound, Rotating
  <1>2. mem[c] \in Table BY <1>1 DEF Typed
  <1>3. at[c] = "ready" /\ Drop(c) BY DEF Begin
  <1>4. /\ file' \in Table /\ mem' \in [Clients -> Table]
        /\ \A d \in Clients \ {c} : mem'[d] = mem[d]
        /\ at'[c] # "idle" => mem'[c] = mem[c]
    BY <1>1, <1>2, <1>3, SaveEffect
  <1>5. CASE Able(mem[c]) = {}
    <2>1. said' = [said EXCEPT ![c] = "no_accounts"] /\ Done(c) /\ UNCHANGED chat
      BY <1>5 DEF Begin
    <2>2. Quiet(c)' BY <1>1, <1>3, <2>1 DEF Well, Quiet, chat
    <2>3. said'[c] # "asking" BY <1>1, <2>1 DEF Typed
    <2>4. Well(c)' BY <1>1, <2>1, <2>2, <2>3, DoneEffect, DoneWell
    <2>5. Typed' BY <1>1, <1>4, <2>1, DoneEffect DEF Typed, Outcomes, chat
    <2>6. \A d \in Clients \ {c} : Same(d)
      BY <1>1, <1>4, <2>1, DoneEffect, SMTT(30) DEF Typed, Same, chat
    <2> QED BY <2>4, <2>5, <2>6 DEF Steps
  <1>6. CASE Able(mem[c]) # {}
    <2>1. /\ said' = [said EXCEPT ![c] = "asking"] /\ at' = [at EXCEPT ![c] = "asking"]
          /\ accs' = [accs EXCEPT ![c] = U] /\ idx' = [idx EXCEPT ![c] = Place(c, U)]
          /\ cur' = [cur EXCEPT ![c] = Place(c, U)]
          /\ UNCHANGED <<tries, quota, asked, for, rounds, refused>>
      BY <1>6 DEF Begin
    <2>2. /\ U \in Seq(Accounts) /\ Members(U) = Able(mem[c])
          /\ \A j, k \in DOMAIN U : U[j] = U[k] => j = k
      BY <1>2, UsableLists
    <2> HIDE DEF U
    <2>3. Len(U) \in Nat \ {0} /\ DOMAIN U = 1..Len(U) BY <1>6, <2>2 DEF Members
    <2>4. Place(c, U) \in 0..Len(U) - 1 BY <1>1, <2>3 DEF Place, Typed
    <2>5. Typed' BY <1>1, <1>4, <2>1, <2>2, <2>4 DEF Typed, Outcomes
    <2>6. /\ at'[c] = "asking" /\ said'[c] = "asking" /\ accs'[c] = U
          /\ idx'[c] = Place(c, U) /\ tries'[c] = tries[c] /\ asked'[c] = asked[c]
          /\ mem'[c] = mem[c] /\ refused'[c] = refused[c] /\ for'[c] = for[c]
          /\ rounds'[c] = rounds[c]
      BY <1>1, <1>4, <2>1 DEF Typed
    <2>7. tries[c] = 0 /\ asked[c] = {} BY <1>1, <1>3 DEF Well, Quiet
    <2>8. \A k \in DOMAIN U : (Ahead(c, k) < Len(accs[c]))'
      BY <2>3, <2>4, <2>6 DEF Ahead
    <2>9. Asking(c)'
      <3>1. (idx[c] < Len(accs[c]) /\ tries[c] < Len(accs[c]))' BY <2>3, <2>4, <2>6, <2>7
      <3>2. \A k \in DOMAIN U : ~(Ahead(c, k) >= Len(accs[c]) - tries[c])'
        <4> SUFFICES ASSUME NEW k \in DOMAIN U
                     PROVE  ~(Ahead(c, k)' >= Len(U) - 0)
          BY <2>6, <2>7
        <4>1. Ahead(c, k)' < Len(U) BY <2>6, <2>8
        <4>2. Ahead(c, k)' \in Int BY <2>3, <2>4, <2>6 DEF Ahead
        <4> QED BY <4>1, <4>2, <2>3
      <3>3. (Members(accs[c]) \ asked[c] \subseteq Able(mem[c]))' BY <2>2, <2>6, <2>7
      <3> QED BY <2>2, <2>6, <2>7, <3>1, <3>2, <3>3 DEF Asking
    <2>10. Refusals(c)' BY <1>1, <2>6 DEF Well, Refusals
    <2>11. Purpose(c)' BY <1>1, <2>6 DEF Well, Purpose
    <2>12. Well(c)' BY <2>6, <2>9, <2>10, <2>11 DEF Well
    <2>13. \A d \in Clients \ {c} : Same(d) BY <1>1, <1>4, <2>1 DEF Typed, Same
    <2> QED BY <2>5, <2>12, <2>13 DEF Steps
  <1> QED BY <1>5, <1>6

(* Whose turn it is was not asked yet, and is usable.                        *)
LEMMA TurnUsable ==
    ASSUME Sound, NEW c \in Clients, at[c] = "asking"
    PROVE  /\ idx[c] + 1 \in DOMAIN accs[c] /\ Turn(c) \in Members(accs[c]) \ asked[c]
           /\ Turn(c) \in Accounts /\ Turn(c) \in Able(mem[c]) /\ Has(mem[c], Turn(c))
  <1>1. Typed /\ Asking(c) BY DEF Sound, Rotating, Well
  <1>2. accs[c] \in Seq(Accounts) /\ idx[c] \in Nat /\ tries[c] \in Nat BY <1>1 DEF Typed
  <1>3. idx[c] + 1 \in DOMAIN accs[c] BY <1>1, <1>2 DEF Asking
  <1>4. Ahead(c, idx[c] + 1) = 0 BY <1>2 DEF Ahead
  <1>5. ~(0 >= Len(accs[c]) - tries[c]) BY <1>1, <1>2 DEF Asking
  <1>6. Turn(c) \in Members(accs[c]) \ asked[c]
    BY <1>1, <1>3, <1>4, <1>5 DEF Asking, Turn, Members
  <1>7. Turn(c) \in Able(mem[c]) BY <1>1, <1>6 DEF Asking
  <1> QED BY <1>3, <1>6, <1>7 DEF Able, Available

\* The chat of c ends with an answer or an error, and its process or a next chat follows
LEMMA EndSteps ==
    ASSUME Sound, NEW c \in Clients, at[c] = "asking", Over(c),
           NEW e \in Outcomes \ {"asking"}, said' = [said EXCEPT ![c] = e],
           cur' \in [Clients -> Nat], file' \in Table, mem' \in [Clients -> Table],
           \A d \in Clients \ {c} : mem'[d] = mem[d],
           \/ Done(c)
           \/ /\ Kind[c] = "agent" /\ Able(mem'[c]) = Able(mem[c])
              /\ \E what \in {"tools", "json", "plain"}, n \in Nat :
                   /\ n <= Rounds[c] /\ (what = "tools" => n < Rounds[c])
                   /\ Goon(c, what, n)
    PROVE  Steps(c)
  <1>1. Typed /\ Well(c) BY DEF Sound, Rotating
  <1>2. said'[c] = e /\ e # "asking" /\ said' \in [Clients -> Outcomes]
        /\ \A d \in Clients \ {c} : said'[d] = said[d]
    BY <1>1 DEF Typed
  <1>3. Quiet(c)' BY <1>1, OverEffect
  <1>4. CASE Done(c)
    <2>1. Well(c)' BY <1>1, <1>2, <1>3, <1>4, DoneEffect, DoneWell
    <2>2. Typed' BY <1>1, <1>2, <1>4, OverEffect, DoneEffect DEF Typed
    <2>3. \A d \in Clients \ {c} : Same(d)
      BY <1>1, <1>2, <1>4, OverEffect, DoneEffect DEF Same
    <2> QED BY <2>1, <2>2, <2>3 DEF Steps
  <1>5. ASSUME Kind[c] = "agent", Able(mem'[c]) = Able(mem[c]),
               NEW what \in {"tools", "json", "plain"}, NEW n \in Nat,
               n <= Rounds[c], what = "tools" => n < Rounds[c], Goon(c, what, n)
        PROVE  Steps(c)
    <2>1. at'[c] = "ready" /\ for'[c] = what /\ rounds'[c] = n /\ refused'[c] = refused[c]
      BY <1>1, <1>5, GoonEffect
    <2>2. Able(mem[c]) # {} BY TurnUsable
    <2>3. Refusals(c)' BY <1>1, <1>5, <2>1, <2>2 DEF Well, Refusals
    <2>4. Purpose(c)' BY <1>5, <2>1 DEF Purpose
    <2>5. Well(c)' BY <1>2, <1>3, <2>1, <2>3, <2>4 DEF Well
    <2>6. Typed'
      <3>1. /\ at' \in [Clients -> {"idle", "loaded", "ready", "asking"}]
            /\ for' \in [Clients -> {"tools", "json", "plain"}]
            /\ rounds' \in [Clients -> Nat] /\ refused' \in [Clients -> SUBSET Accounts]
        BY <1>1, <1>5, GoonEffect
      <3> QED BY <1>1, <1>2, <3>1, OverEffect DEF Typed
    <2>7. \A d \in Clients \ {c} : Same(d)
      BY <1>1, <1>2, <1>5, OverEffect, GoonEffect DEF Same
    <2> QED BY <2>5, <2>6, <2>7 DEF Steps
  <1> QED BY <1>4, <1>5

LEMMA AnswerSteps ==
    ASSUME Sound, NEW c \in Clients, NEW content \in {"calls", "good", "text", "nothing"},
           Answer(c, content)
    PROVE  Steps(c)
  <1> DEFINE t == Marked(mem[c], Turn(c), FALSE)
             n == rounds[c] + 1
  <1>1. Typed /\ Well(c) BY DEF Sound, Rotating
  <1>2. /\ at[c] = "asking" /\ (content = "calls" => for[c] = "tools")
        /\ said' = [said EXCEPT ![c] = "answered"] /\ Over(c) /\ Save(c, t)
    BY DEF Answer
  <1>3. t \in Table /\ Able(t) = Able(mem[c]) BY <1>1, <1>2, TurnUsable, MarkedTable DEF Typed
  <1> HIDE DEF t
  <1>4. /\ file' \in Table /\ mem' \in [Clients -> Table]
        /\ \A d \in Clients \ {c} : mem'[d] = mem[d]
        /\ at'[c] # "idle" => mem'[c] = t
    BY <1>1, <1>2, <1>3, SaveEffect
  <1>5. rounds[c] \in Nat /\ rounds[c] <= Rounds[c] /\ Rounds[c] \in Nat
        /\ (for[c] = "tools" => Kind[c] = "agent" /\ rounds[c] < Rounds[c])
        /\ for[c] \in {"tools", "json", "plain"}
    BY <1>1, AIAssumption DEF Typed, Well, Purpose
  <1>6. n \in Nat /\ (for[c] = "tools" => n <= Rounds[c]) BY <1>5
  <1>7. "answered" \in Outcomes \ {"asking"} BY DEF Outcomes
  <1>8. CASE content = "calls"
    <2>1. Goon(c, IF n < Rounds[c] THEN "tools" ELSE Final(c), n) /\ cur' = [cur EXCEPT ![c] = idx[c]]
      BY <1>8 DEF Answer
    <2>2. cur' \in [Clients -> Nat] BY <1>1, <2>1 DEF Typed
    <2>3. at'[c] = "ready" BY <1>1, <2>1 DEF Goon, Typed
    <2> DEFINE what == IF n < Rounds[c] THEN "tools" ELSE Final(c)
    <2>4. what \in {"tools", "json", "plain"} /\ (what = "tools" => n < Rounds[c]) /\ Goon(c, what, n)
      BY <2>1, FinalIs
    <2> HIDE DEF what, n
    <2>5. n <= Rounds[c] /\ Kind[c] = "agent" BY <1>2, <1>5, <1>6, <1>8
    <2> QED BY <1>2, <1>3, <1>4, <1>6, <1>7, <2>2, <2>3, <2>4, <2>5, EndSteps
  <1>9. CASE Done(c)
    <2>1. cur' \in [Clients -> Nat] BY <1>1, <1>9, DoneEffect
    <2> QED BY <1>2, <1>4, <1>7, <1>9, <2>1, EndSteps
  <1>10. CASE /\ content # "calls" /\ for[c] = "tools"
              /\ Goon(c, Final(c), rounds[c]) /\ cur' = [cur EXCEPT ![c] = idx[c]]
    <2>1. cur' \in [Clients -> Nat] BY <1>1, <1>10 DEF Typed
    <2>2. at'[c] = "ready" BY <1>1, <1>10 DEF Goon, Typed
    <2>3. Final(c) \in {"json", "plain"} BY FinalIs
    <2>4. Final(c) \in {"tools", "json", "plain"} /\ Final(c) # "tools" BY <2>3
    <2> QED BY <1>2, <1>3, <1>4, <1>5, <1>7, <1>10, <2>1, <2>2, <2>4, EndSteps
  <1> QED BY <1>8, <1>9, <1>10 DEF Answer

LEMMA NoJsonSteps ==
    ASSUME Sound, NEW c \in Clients, NoJson(c)
    PROVE  Steps(c)
  <1>1. Typed /\ Well(c) BY DEF Sound, Rotating
  <1>2. /\ at[c] = "asking" /\ for[c] = "json" /\ said' = [said EXCEPT ![c] = "aborted"]
        /\ Over(c) /\ Goon(c, "plain", rounds[c]) /\ UNCHANGED <<file, mem, cur>>
    BY DEF NoJson, store
  <1>3. Kind[c] = "agent" /\ rounds[c] \in Nat /\ rounds[c] <= Rounds[c]
    BY <1>1, <1>2 DEF Typed, Well, Purpose
  <1>4. "aborted" \in Outcomes \ {"asking"} BY DEF Outcomes
  <1>5. file' \in Table /\ mem' \in [Clients -> Table] /\ cur' \in [Clients -> Nat]
        /\ Able(mem'[c]) = Able(mem[c]) /\ \A d \in Clients \ {c} : mem'[d] = mem[d]
    BY <1>1, <1>2 DEF Typed
  <1> QED BY <1>2, <1>3, <1>4, <1>5, EndSteps

LEMMA ErrorSteps ==
    ASSUME Sound, NEW c \in Clients, Error(c)
    PROVE  Steps(c)
  <1>1. Typed BY DEF Sound
  <1>2. /\ at[c] = "asking" /\ said' = [said EXCEPT ![c] = "aborted"] /\ Over(c) /\ Done(c)
        /\ Save(c, Marked(mem[c], Turn(c), FALSE))
    BY DEF Error
  <1>3. Marked(mem[c], Turn(c), FALSE) \in Table BY <1>1, <1>2, TurnUsable, MarkedTable DEF Typed
  <1>4. file' \in Table /\ mem' \in [Clients -> Table] /\ \A d \in Clients \ {c} : mem'[d] = mem[d]
    BY <1>1, <1>2, <1>3, SaveEffect
  <1>5. cur' \in [Clients -> Nat] BY <1>1, <1>2, DoneEffect
  <1>6. "aborted" \in Outcomes \ {"asking"} BY DEF Outcomes
  <1> QED BY <1>2, <1>4, <1>5, <1>6, EndSteps

(* The next position is one further round the list.                          *)
LEMMA NextIs ==
    ASSUME Typed, NEW c \in Clients, idx[c] < Len(accs[c])
    PROVE  NextIdx(c) = IF idx[c] + 1 = Len(accs[c]) THEN 0 ELSE idx[c] + 1
  <1>1. idx[c] \in Nat /\ Len(accs[c]) \in Nat BY DEF Typed
  <1>2. ASSUME NEW n \in Nat, NEW x \in Nat, x < n
        PROVE  (x + 1) % n = IF x + 1 = n THEN 0 ELSE x + 1
    <2>1. CASE x + 1 = n
      <3>1. n % n = 0 BY <1>2
      <3> QED BY <2>1, <3>1
    <2>2. CASE x + 1 # n
      <3>1. x + 1 \in Nat /\ x + 1 < n BY <1>2, <2>2
      <3> DEFINE y == x + 1
      <3>2. ASSUME NEW z \in Nat, z < n PROVE z % n = z BY <1>2, <3>2
      <3> QED BY <2>2, <3>1, <3>2
    <2> QED BY <2>1, <2>2
  <1> QED BY <1>1, <1>2 DEF NextIdx

(* One step round the list brings every account nearer by one, and puts the  *)
(* one that had its turn at the end.                                         *)
LEMMA AheadMoves ==
    ASSUME Typed, NEW c \in Clients, at[c] = "asking", Asking(c),
           accs'[c] = accs[c], idx'[c] = NextIdx(c), NEW k \in DOMAIN accs[c]
    PROVE  /\ Ahead(c, k) \in 0..Len(accs[c]) - 1
           /\ Ahead(c, k) = 0 <=> k = idx[c] + 1
           /\ Ahead(c, k)' = IF Ahead(c, k) = 0 THEN Len(accs[c]) - 1 ELSE Ahead(c, k) - 1
  <1>1. idx[c] \in Nat /\ accs[c] \in Seq(Accounts) BY DEF Typed
  <1>2. Len(accs[c]) \in Nat /\ k \in 1..Len(accs[c]) BY <1>1
  <1>3. idx[c] < Len(accs[c]) BY DEF Asking
  <1>4. NextIdx(c) = IF idx[c] + 1 = Len(accs[c]) THEN 0 ELSE idx[c] + 1 BY <1>3, NextIs
  <1> DEFINE L == Len(accs[c])
             i == idx[c]
             j == NextIdx(c)
  <1>5. Ahead(c, k) = IF k > i THEN k - i - 1 ELSE k + L - i - 1 BY DEF Ahead
  <1>6. Ahead(c, k)' = IF k > j THEN k - j - 1 ELSE k + L - j - 1 BY DEF Ahead
  <1> HIDE DEF L, i, j
  <1>7. i \in Nat /\ L \in Nat /\ i < L /\ k \in 1..L /\ j = IF i + 1 = L THEN 0 ELSE i + 1
    BY <1>1, <1>2, <1>3, <1>4 DEF L, i, j
  <1>8. Ahead(c, k) \in 0..L - 1 BY <1>5, <1>7
  <1>9. Ahead(c, k) = 0 <=> k = i + 1 BY <1>5, <1>7
  <1>10. Ahead(c, k)' = IF Ahead(c, k) = 0 THEN L - 1 ELSE Ahead(c, k) - 1
    <2>1. CASE i + 1 = L BY <1>5, <1>6, <1>7, <2>1
    <2>2. CASE i + 1 # L BY <1>5, <1>6, <1>7, <2>2
    <2> QED BY <2>1, <2>2
  <1> QED BY <1>8, <1>9, <1>10 DEF L, i

(* A chat has nobody left but the one whose turn it is just when that is its *)
(* last attempt.                                                             *)
LEMMA LastAttempt ==
    ASSUME Typed, NEW c \in Clients, at[c] = "asking", Asking(c)
    PROVE  (Members(accs[c]) \ asked[c]) \ {Turn(c)} = {} <=> ~(tries[c] + 1 < Len(accs[c]))
  <1> DEFINE L == Len(accs[c])
  <1>1. /\ idx[c] \in Nat /\ tries[c] \in Nat /\ accs[c] \in Seq(Accounts) /\ L \in Nat
        /\ DOMAIN accs[c] = 1..L
    BY DEF Typed
  <1>2. idx[c] < L /\ tries[c] < L BY DEF Asking
  <1>3. CASE tries[c] + 1 < L
    <2> DEFINE k == IF idx[c] + 1 = L THEN 1 ELSE idx[c] + 2
    <2>1. k \in 1..L /\ k # idx[c] + 1 /\ Ahead(c, k) = 1
      <3>1. CASE idx[c] + 1 = L BY <1>1, <1>2, <1>3, <3>1 DEF Ahead
      <3>2. CASE idx[c] + 1 # L BY <1>1, <1>2, <1>3, <3>2 DEF Ahead
      <3> QED BY <3>1, <3>2
    <2>2. ~(1 >= L - tries[c]) BY <1>1, <1>3
    <2> HIDE DEF k
    <2>3. accs[c][k] \notin asked[c] BY <1>1, <2>1, <2>2 DEF Asking
    <2>4. idx[c] + 1 \in 1..L BY <1>1, <1>2
    <2>5. accs[c][k] # Turn(c) BY <1>1, <2>1, <2>4 DEF Asking, Turn
    <2> QED BY <1>1, <1>3, <2>1, <2>3, <2>5 DEF Members
  <1>4. CASE ~(tries[c] + 1 < L)
    <2>1. tries[c] + 1 = L BY <1>1, <1>2, <1>4
    <2>2. ASSUME NEW k \in 1..L, accs[c][k] \notin asked[c] PROVE accs[c][k] = Turn(c)
      <3>1. ~(Ahead(c, k) >= L - tries[c]) BY <1>1, <2>2 DEF Asking
      <3>2. Ahead(c, k) = 0 BY <1>1, <1>2, <2>1, <3>1 DEF Ahead
      <3>3. k = idx[c] + 1 BY <1>1, <1>2, <3>2 DEF Ahead
      <3> QED BY <3>3 DEF Turn
    <2> QED BY <1>1, <1>4, <2>2 DEF Members
  <1> QED BY <1>3, <1>4

LEMMA RotateSteps ==
    ASSUME Sound, NEW c \in Clients, NEW reply \in {"silent", "refusal", "quota"},
           Rotate(c, reply)
    PROVE  Steps(c)
  <1> DEFINE burns == reply # "silent"
             hits == quota[c] \/ reply = "quota"
             n == tries[c] + 1
             a == Turn(c)
             t == Marked(mem[c], a, burns)
             L == Len(accs[c])
  <1>1. Typed /\ Well(c) /\ at[c] = "asking" BY DEF Sound, Rotating, Rotate
  <1>2. Asking(c) /\ Refusals(c) /\ Purpose(c) /\ said[c] = "asking" BY <1>1 DEF Well
  <1>3. a \in Accounts /\ Has(mem[c], a) /\ a \in Able(mem[c]) BY <1>1, TurnUsable
  <1>4. t \in Table /\ Able(t) = (IF burns THEN Able(mem[c]) \ {a} ELSE Able(mem[c]))
    BY <1>1, <1>3, MarkedTable DEF Typed
  <1>5. Save(c, t) BY DEF Rotate
  <1>6. /\ file' \in Table /\ mem' \in [Clients -> Table]
        /\ \A d \in Clients \ {c} : mem'[d] = mem[d]
        /\ at'[c] # "idle" => mem'[c] = t
    BY <1>1, <1>4, <1>5, SaveEffect
  <1>7. CASE n < L
    <2>1. /\ idx' = [idx EXCEPT ![c] = NextIdx(c)] /\ tries' = [tries EXCEPT ![c] = n]
          /\ quota' = [quota EXCEPT ![c] = hits]
          /\ asked' = [asked EXCEPT ![c] = @ \cup {a}]
          /\ refused' = (IF burns THEN [refused EXCEPT ![c] = @ \cup {a}] ELSE refused)
          /\ UNCHANGED <<accs, said, at, for, rounds, cur>>
      BY <1>7 DEF Rotate, Attempts, agent
    <2>2. NextIdx(c) \in Nat
      <3>1. idx[c] \in Nat /\ idx[c] < Len(accs[c]) BY <1>1, <1>2 DEF Asking, Typed
      <3> QED BY <1>1, <3>1, NextIs
    <2>3. n \in Nat /\ hits \in BOOLEAN /\ quota[c] \in BOOLEAN BY <1>1 DEF Typed
    <2>4. Typed'
      <3> HIDE DEF n, hits, a, burns, t
      <3>1. asked' \in [Clients -> SUBSET Accounts] /\ refused' \in [Clients -> SUBSET Accounts]
        BY <1>1, <1>3, <2>1 DEF Typed
      <3>2. quota' \in [Clients -> BOOLEAN] BY <1>1, <2>1, <2>3 DEF Typed
      <3>3. idx' \in [Clients -> Nat] /\ tries' \in [Clients -> Nat]
        BY <1>1, <2>1, <2>2, <2>3 DEF Typed
      <3> QED BY <1>1, <1>6, <2>1, <3>1, <3>2, <3>3 DEF Typed
    <2>5. /\ accs'[c] = accs[c] /\ idx'[c] = NextIdx(c) /\ tries'[c] = n
          /\ asked'[c] = asked[c] \cup {a} /\ mem'[c] = t
          /\ refused'[c] = IF burns THEN refused[c] \cup {a} ELSE refused[c]
      <3> HIDE DEF n, hits, a, burns, t
      <3> QED BY <1>1, <1>6, <2>1 DEF Typed
    <2>6. Asking(c)'
      <3>1. idx[c] \in Nat /\ tries[c] \in Nat /\ accs[c] \in Seq(Accounts) /\ L \in Nat
        BY <1>1 DEF Typed
      <3>2. NextIdx(c) < L BY <1>1, <1>2, <3>1, NextIs DEF Asking
      <3>3. (idx[c] < Len(accs[c]) /\ tries[c] < Len(accs[c]))' BY <1>7, <2>5, <3>2
      <3>4. ASSUME NEW k \in DOMAIN accs[c]
            PROVE  accs[c][k] \in asked[c] \cup {a} <=> Ahead(c, k)' >= L - n
        <4>1. idx[c] + 1 \in DOMAIN accs[c] /\ a = accs[c][idx[c] + 1]
          BY <1>1, TurnUsable DEF Turn
        <4>2. accs[c][k] = a <=> k = idx[c] + 1 BY <1>2, <4>1, <3>4 DEF Asking
        <4>3. accs[c][k] \in asked[c] <=> Ahead(c, k) >= L - tries[c] BY <1>2, <3>4 DEF Asking
        <4>4. /\ Ahead(c, k) \in 0..L - 1 /\ (Ahead(c, k) = 0 <=> k = idx[c] + 1)
              /\ Ahead(c, k)' = IF Ahead(c, k) = 0 THEN L - 1 ELSE Ahead(c, k) - 1
          BY <1>1, <1>2, <2>5, <3>4, AheadMoves
        <4>5. Ahead(c, k)' >= L - n <=> Ahead(c, k) = 0 \/ Ahead(c, k) >= L - tries[c]
          <5> HIDE DEF L
          <5> QED BY <3>1, <4>4
        <4> QED BY <4>2, <4>3, <4>4, <4>5
      <3>5. Members(accs[c]) \ (asked[c] \cup {a}) \subseteq Able(t)
        BY <1>2, <1>4 DEF Asking
      <3> HIDE DEF t, n, a, burns
      <3> QED BY <1>2, <2>5, <3>3, <3>4, <3>5 DEF Asking
    <2>7. Refusals(c)'
      <3>1. refused[c] \cap Able(mem[c]) = {} BY <1>2 DEF Refusals
      <3>2. refused'[c] \cap Able(t) = {} BY <1>4, <2>5, <3>1
      <3>3. at'[c] = "asking" BY <1>1, <2>1
      <3> HIDE DEF t
      <3> QED BY <2>5, <3>2, <3>3 DEF Refusals
    <2>8. Purpose(c)' BY <1>1, <1>2, <2>1 DEF Purpose
    <2>9. Well(c)' BY <1>1, <1>2, <2>1, <2>6, <2>7, <2>8 DEF Well
    <2>10. \A d \in Clients \ {c} : Same(d)
      <3> HIDE DEF n, hits, a, burns, t
      <3> QED BY <1>1, <1>6, <2>1 DEF Typed, Same
    <2> QED BY <2>4, <2>9, <2>10 DEF Steps
  <1>8. CASE ~(n < L)
    <2>1. /\ said' = [said EXCEPT ![c] = IF hits THEN "exhausted" ELSE "failed"]
          /\ Over(c) /\ Done(c)
      BY <1>8 DEF Rotate, Attempts
    <2>2. \E e \in Outcomes \ {"asking"} : said' = [said EXCEPT ![c] = e]
      <3> HIDE DEF hits
      <3>1. CASE hits BY <2>1, <3>1 DEF Outcomes
      <3>2. CASE ~hits BY <2>1, <3>2 DEF Outcomes
      <3> QED BY <3>1, <3>2
    <2>3. cur' \in [Clients -> Nat] BY <1>1, <2>1, DoneEffect
    <2> QED BY <1>1, <1>6, <2>1, <2>2, <2>3, EndSteps
  <1> QED BY <1>7, <1>8

----------------------------------------------------------------------------
(* The invariant *)

LEMMA MidnightSound ==
    ASSUME Sound, Midnight
    PROVE  Sound'
  <1>1. Typed BY DEF Sound
  <1>2. /\ file' = Renewed(file) /\ mem' = [c \in Clients |-> Renewed(mem[c])]
        /\ refused' = [c \in Clients |-> {}]
        /\ UNCHANGED <<at, for, rounds, accs, idx, tries, quota, asked, cur, said>>
    BY DEF Midnight, agent, chat
  <1>3. Typed' BY <1>1, <1>2, RenewedTable DEF Typed
  <1>4. ASSUME NEW c \in Clients PROVE Well(c)'
    <2>1. Well(c) BY DEF Sound, Rotating
    <2>2. Able(mem[c]) \subseteq Able(mem'[c]) BY <1>1, <1>2, RenewedTable DEF Typed
    <2>3. Asking(c) => Asking(c)' BY <1>2, <2>2 DEF Asking, Ahead
    <2>4. Quiet(c) => Quiet(c)' BY <1>2 DEF Quiet
    <2>5. Refusals(c)' BY <1>2 DEF Refusals
    <2>6. Purpose(c)' BY <1>2, <2>1 DEF Well, Purpose
    <2> QED BY <1>2, <2>1, <2>3, <2>4, <2>5, <2>6 DEF Well
  <1> QED BY <1>3, <1>4 DEF Sound, Rotating

LEMMA InitSound == ASSUME Init PROVE Sound
  <1>1. Typed BY NothingTable, FileAssumption DEF Init, Typed, Outcomes
  <1>2. ASSUME NEW c \in Clients PROVE Well(c)
    <2>1. Rounds[c] \in Nat BY AIAssumption
    <2> QED BY <2>1 DEF Init, Well, Quiet, Refusals, Purpose
  <1> QED BY <1>1, <1>2 DEF Sound, Rotating

LEMMA SoundNext == ASSUME Sound, [Next]_vars PROVE Sound'
  <1>1. CASE UNCHANGED vars
    BY <1>1 DEF vars, store, agent, chat, bounds, Sound, Typed, Rotating, Well, Asking,
                Ahead, Quiet, Refusals, Purpose
  <1>2. ASSUME NEW c \in Clients, Load(c) \/ Goes(c) PROVE Steps(c)
    BY <1>2, LoadSteps, HydrateSteps, BeginSteps, AnswerSteps, NoJsonSteps, ErrorSteps,
       RotateSteps, TestSteps, EditSteps DEF Goes, Reply
  <1> QED BY <1>1, <1>2, StepsSound, MidnightSound DEF Next

LEMMA AlwaysSound == Spec => []Sound
  <1>1. Init => Sound BY InitSound
  <1>2. Sound /\ [Next]_vars => Sound' BY SoundNext
  <1> QED BY <1>1, <1>2, PTL DEF Spec

(* The copies of the file, and the variables of every chat, are what the     *)
(* code takes them for: a position that is carried over never points past    *)
(* the end of a list that has become shorter (provider.py:216).              *)
THEOREM TypeCorrect == Spec => []TypeOK
  <1>1. Sound => TypeOK
    BY DEF Sound, Typed, Rotating, Well, Asking, Purpose, TypeOK
  <1> QED BY <1>1, AlwaysSound, PTL

----------------------------------------------------------------------------
(* The chats implement the abstract rotation *)

Left == [c \in Clients |-> Members(accs[c]) \ asked[c]]

\* Only the chat of c changes, and has S left
LEMMA LeftChanges ==
    ASSUME NEW c \in Clients, NEW S, Members(accs'[c]) \ asked'[c] = S,
           \A d \in Clients \ {c} : Same(d)
    PROVE  Left' = [Left EXCEPT ![c] = S]
  <1>1. ASSUME NEW d \in Clients \ {c} PROVE Left'[d] = Left[d] BY <1>1 DEF Left, Same
  <1>2. Left'[c] = S BY DEF Left
  <1>3. DOMAIN Left' = Clients /\ DOMAIN Left = Clients BY DEF Left
  <1>4. Left' = [d \in Clients |-> Left'[d]] BY DEF Left
  <1>5. [Left EXCEPT ![c] = S] = [d \in Clients |-> IF d = c THEN S ELSE Left[d]] BY DEF Left
  <1> HIDE DEF Left
  <1> QED BY <1>1, <1>2, <1>4, <1>5

LEMMA QuietLeft ==
    ASSUME NEW c \in Clients, Quiet(c)
    PROVE  Members(accs[c]) \ asked[c] = {} /\ Left[c] = {}
  BY DEF Quiet, Members, Left

LEMMA InitRotates == ASSUME Init PROVE Abstract!Init
  <1>1. Left = [c \in Clients |-> {}] BY DEF Init, Left, Members
  <1> QED BY <1>1 DEF Init, Abstract!Init, Left

LEMMA LoadRotates ==
    ASSUME Sound, NEW c \in Clients, Load(c)
    PROVE  Abstract!Begin(c)
  <1>1. Typed /\ Well(c) BY DEF Sound, Rotating
  <1>2. said[c] # "asking" /\ refused[c] = {} BY <1>1 DEF Well, Refusals, Load
  <1>3. refused' = [refused EXCEPT ![c] = {}] BY <1>1, <1>2 DEF Load, Typed
  <1>4. UNCHANGED <<accs, asked, quota>> /\ said' = [said EXCEPT ![c] = "new"] BY DEF Load, chat
  <1>5. UNCHANGED Left BY <1>4 DEF Left
  <1> QED BY <1>2, <1>3, <1>4, <1>5 DEF Abstract!Begin, Left

\* A command that asks nobody twice
LEMMA CommandRotates ==
    ASSUME Sound, NEW c \in Clients, at[c] = "ready", Kind[c] # "agent", Done(c),
           UNCHANGED <<chat, said>>
    PROVE  UNCHANGED Abstract!rotation
  <1>1. Typed /\ Well(c) BY DEF Sound, Rotating
  <1>2. refused[c] = {} BY <1>1 DEF Well, Refusals
  <1>3. refused' = refused BY <1>1, <1>2 DEF Done, Typed
  <1>4. UNCHANGED Left BY DEF Left, chat
  <1> QED BY <1>3, <1>4 DEF Abstract!rotation, Left, chat

LEMMA HydrateRotates ==
    ASSUME NEW c \in Clients, NEW heard \in BOOLEAN, Hydrate(c, heard)
    PROVE  UNCHANGED Abstract!rotation
  <1>1. UNCHANGED <<accs, asked, quota, said, refused>> BY DEF Hydrate, chat
  <1>2. UNCHANGED Left BY <1>1 DEF Left
  <1> QED BY <1>1, <1>2 DEF Abstract!rotation, Left

LEMMA BeginRotates ==
    ASSUME Sound, NEW c \in Clients, Begin(c)
    PROVE  \E T \in SUBSET Accounts : Abstract!Ask(c, T)
  <1> DEFINE S == Able(mem[c])
  <1>1. Typed /\ Well(c) /\ Steps(c) BY BeginSteps DEF Sound, Rotating
  <1>2. said[c] # "asking" /\ Quiet(c) BY <1>1 DEF Well, Begin
  <1>3. S \in SUBSET Accounts BY DEF Able
  <1>4. S \cap refused[c] = {} BY <1>1 DEF Well, Refusals
  <1>5. Left' = [Left EXCEPT ![c] = S] /\ UNCHANGED <<quota, refused>>
        /\ said' = [said EXCEPT ![c] = IF S = {} THEN "no_accounts" ELSE "asking"]
    <2>1. CASE S = {}
      <3>1. said' = [said EXCEPT ![c] = "no_accounts"] /\ Done(c) /\ UNCHANGED chat
        BY <2>1 DEF Begin
      <3>2. refused[c] = {} BY <1>1, <2>1 DEF Well, Refusals, Begin
      <3>3. refused' = refused BY <1>1, <3>1, <3>2 DEF Done, Typed
      <3>4. Members(accs'[c]) \ asked'[c] = {} BY <1>2, <3>1, QuietLeft DEF chat
      <3>5. Left' = [Left EXCEPT ![c] = {}] BY <1>1, <3>4, LeftChanges DEF Steps
      <3>6. UNCHANGED quota BY <3>1 DEF chat
      <3> QED BY <2>1, <3>1, <3>3, <3>5, <3>6
    <2>2. CASE S # {}
      <3>1. /\ said' = [said EXCEPT ![c] = "asking"] /\ accs' = [accs EXCEPT ![c] = Usable(mem[c])]
            /\ UNCHANGED <<quota, asked, refused>>
        BY <2>2 DEF Begin
      <3>2. Members(Usable(mem[c])) = S BY <1>1, UsableLists DEF Typed
      <3>3. accs'[c] = Usable(mem[c]) /\ asked'[c] = {} BY <1>1, <1>2, <3>1 DEF Typed, Quiet
      <3>4. Members(accs'[c]) \ asked'[c] = S BY <3>2, <3>3
      <3>5. Left' = [Left EXCEPT ![c] = S] BY <1>1, <3>4, LeftChanges DEF Steps
      <3> HIDE DEF S
      <3> QED BY <2>2, <3>1, <3>5
    <2> QED BY <2>1, <2>2
  <1> HIDE DEF S
  <1>6. PICK T \in SUBSET Accounts : T = S BY <1>3
  <1>7. Abstract!Ask(c, T) BY <1>2, <1>4, <1>5, <1>6 DEF Abstract!Ask, Left
  <1> QED BY <1>7

\* The account that has its turn is asked, and the chat ends
LEMMA EndRotates ==
    ASSUME Sound, NEW c \in Clients, at[c] = "asking", Steps(c), Over(c),
           NEW refuses \in BOOLEAN, NEW hits \in BOOLEAN, hits => refuses,
           NEW e \in {"answered", "aborted", "exhausted", "failed"},
           Abstract!MayEnd(e, refuses, Left[c] \ {Turn(c)}, quota[c] \/ hits),
           said' = [said EXCEPT ![c] = e],
           \/ refused' = [refused EXCEPT ![c] = {}]
           \/ refused' = [refused EXCEPT ![c] =
                            IF refuses THEN refused[c] \cup {Turn(c)} ELSE refused[c]]
    PROVE  Abstract!Hear(c, Turn(c), refuses, hits)
  <1>1. Typed /\ Well(c) BY DEF Sound, Rotating
  <1>2. said[c] = "asking" BY <1>1 DEF Well
  <1>3. Turn(c) \in Left[c] BY TurnUsable DEF Left
  <1>4. Quiet(c)' BY <1>1, OverEffect
  <1>5. Members(accs'[c]) \ asked'[c] = {} BY <1>4 DEF Quiet, Members
  <1>6. Left' = [Left EXCEPT ![c] = {}] BY <1>5, LeftChanges DEF Steps
  <1>7. quota' = [quota EXCEPT ![c] = FALSE] BY DEF Over
  <1>8. e \in Abstract!Ends BY DEF Abstract!Ends
  <1> QED BY <1>2, <1>3, <1>6, <1>7, <1>8 DEF Abstract!Hear, Left

LEMMA AnswerRotates ==
    ASSUME Sound, NEW c \in Clients, NEW content \in {"calls", "good", "text", "nothing"},
           Answer(c, content)
    PROVE  Abstract!Hear(c, Turn(c), FALSE, FALSE)
  <1>1. at[c] = "asking" /\ Over(c) /\ said' = [said EXCEPT ![c] = "answered"] BY DEF Answer
  <1>2. refused' = [refused EXCEPT ![c] = {}] \/ refused' = refused BY DEF Answer, Done, Goon
  <1>3. refused = [refused EXCEPT ![c] = refused[c]] BY DEF Sound, Typed
  <1>4. Abstract!MayEnd("answered", FALSE, Left[c] \ {Turn(c)}, quota[c] \/ FALSE)
    BY DEF Abstract!MayEnd
  <1> QED BY <1>1, <1>2, <1>3, <1>4, AnswerSteps, EndRotates

LEMMA NoJsonRotates ==
    ASSUME Sound, NEW c \in Clients, NoJson(c)
    PROVE  Abstract!Hear(c, Turn(c), FALSE, FALSE)
  <1>1. at[c] = "asking" /\ Over(c) /\ said' = [said EXCEPT ![c] = "aborted"] BY DEF NoJson
  <1>2. refused' = refused BY DEF NoJson, Goon
  <1>3. refused = [refused EXCEPT ![c] = refused[c]] BY DEF Sound, Typed
  <1>4. Abstract!MayEnd("aborted", FALSE, Left[c] \ {Turn(c)}, quota[c] \/ FALSE)
    BY DEF Abstract!MayEnd
  <1> QED BY <1>1, <1>2, <1>3, <1>4, NoJsonSteps, EndRotates

LEMMA ErrorRotates ==
    ASSUME Sound, NEW c \in Clients, Error(c)
    PROVE  Abstract!Hear(c, Turn(c), FALSE, FALSE)
  <1>1. at[c] = "asking" /\ Over(c) /\ said' = [said EXCEPT ![c] = "aborted"] BY DEF Error
  <1>2. refused' = [refused EXCEPT ![c] = {}] BY DEF Error, Done
  <1>3. Abstract!MayEnd("aborted", FALSE, Left[c] \ {Turn(c)}, quota[c] \/ FALSE)
    BY DEF Abstract!MayEnd
  <1> QED BY <1>1, <1>2, <1>3, ErrorSteps, EndRotates

LEMMA RotateRotates ==
    ASSUME Sound, NEW c \in Clients, NEW reply \in {"silent", "refusal", "quota"},
           Rotate(c, reply)
    PROVE  Abstract!Hear(c, Turn(c), reply # "silent", reply = "quota")
  <1> DEFINE burns == reply # "silent"
             hits == reply = "quota"
             a == Turn(c)
             n == tries[c] + 1
  <1>1. Typed /\ Well(c) /\ at[c] = "asking" /\ Steps(c)
    BY RotateSteps DEF Sound, Rotating, Rotate
  <1>2. Asking(c) /\ said[c] = "asking" BY <1>1 DEF Well
  <1>3. a \in Left[c] BY <1>1, TurnUsable DEF Left
  <1>4. Left[c] \ {a} = {} <=> ~(n < Len(accs[c])) BY <1>1, <1>2, LastAttempt DEF Left
  <1>5. burns \in BOOLEAN /\ hits \in BOOLEAN /\ (hits => burns) /\ quota[c] \in BOOLEAN
    BY <1>1 DEF Typed
  <1>6. CASE n < Len(accs[c])
    <2>1. /\ asked' = [asked EXCEPT ![c] = @ \cup {a}] /\ UNCHANGED <<accs, said>>
          /\ quota' = [quota EXCEPT ![c] = quota[c] \/ hits]
          /\ refused' = (IF burns THEN [refused EXCEPT ![c] = @ \cup {a}] ELSE refused)
      BY <1>6 DEF Rotate, Attempts
    <2>2. Members(accs'[c]) \ asked'[c] = Left[c] \ {a}
      <3>1. asked'[c] = asked[c] \cup {a} /\ accs'[c] = accs[c] BY <1>1, <2>1 DEF Typed
      <3> HIDE DEF a
      <3> QED BY <3>1 DEF Left
    <2>3. Left' = [Left EXCEPT ![c] = Left[c] \ {a}] BY <1>1, <2>2, LeftChanges DEF Steps
    <2>4. refused' = [refused EXCEPT ![c] = IF burns THEN refused[c] \cup {a} ELSE refused[c]]
      <3> HIDE DEF burns, a
      <3>1. refused = [refused EXCEPT ![c] = refused[c]] BY <1>1 DEF Typed
      <3>2. CASE burns BY <2>1, <3>2
      <3>3. CASE ~burns BY <2>1, <3>1, <3>3
      <3> QED BY <3>2, <3>3
    <2>5. Left[c] \ {a} # {} BY <1>4, <1>6
    <2> HIDE DEF a, burns, hits
    <2>6. Abstract!Hear(c, a, burns, hits)
      BY <1>2, <1>3, <1>5, <2>1, <2>3, <2>4, <2>5 DEF Abstract!Hear, Left
    <2> QED BY <2>6 DEF a, burns, hits
  <1>7. CASE ~(n < Len(accs[c]))
    <2> DEFINE e == IF quota[c] \/ hits THEN "exhausted" ELSE "failed"
    <2>1. said' = [said EXCEPT ![c] = e] /\ Over(c) /\ Done(c)
      BY <1>7 DEF Rotate, Attempts
    <2>2. refused' = [refused EXCEPT ![c] = {}] BY <2>1 DEF Done
    <2>3. Abstract!MayEnd(e, burns, Left[c] \ {a}, quota[c] \/ hits)
      <3>1. Left[c] \ {a} = {} BY <1>4, <1>7
      <3> HIDE DEF a, burns, hits
      <3>2. CASE quota[c] \/ hits BY <3>1, <3>2 DEF Abstract!MayEnd
      <3>3. CASE ~(quota[c] \/ hits) BY <3>1, <3>3 DEF Abstract!MayEnd
      <3> QED BY <3>2, <3>3
    <2>4. e \in {"answered", "aborted", "exhausted", "failed"} OBVIOUS
    <2> HIDE DEF e, burns, hits
    <2>5. Abstract!Hear(c, a, burns, hits)
      BY <1>1, <1>5, <2>1, <2>2, <2>3, <2>4, EndRotates
    <2> QED BY <2>5 DEF burns, hits
  <1> QED BY <1>6, <1>7

LEMMA NextRotates ==
    ASSUME Sound, [Next]_vars
    PROVE  [Abstract!Next]_(Abstract!rotation)
  <1>1. CASE UNCHANGED vars
    <2>1. UNCHANGED <<accs, asked, quota, refused, said>> BY <1>1 DEF vars, chat
    <2>2. UNCHANGED Left BY <2>1 DEF Left
    <2>3. UNCHANGED Abstract!rotation BY <2>1, <2>2 DEF Abstract!rotation, Left
    <2> QED BY <2>3
  <1>2. ASSUME Midnight PROVE Abstract!Midnight
    <2>1. refused' = [c \in Clients |-> {}] /\ UNCHANGED <<accs, asked, quota, said>>
      BY <1>2 DEF Midnight, chat
    <2>2. UNCHANGED Left BY <2>1 DEF Left
    <2> QED BY <2>1, <2>2 DEF Abstract!Midnight, Left
  <1>3. ASSUME NEW c \in Clients, NEW a \in Accounts, NEW refuses \in BOOLEAN,
               Test(c, a, refuses) \/ Edit(c, a)
        PROVE  UNCHANGED Abstract!rotation
    BY <1>3, CommandRotates DEF Test, Edit
  <1>4. ASSUME NEW c \in Clients, Reply(c)
        PROVE  \E a \in Accounts, refuses, hits \in BOOLEAN : Abstract!Hear(c, a, refuses, hits)
    <2>1. Turn(c) \in Accounts
      <3>1. at[c] = "asking" BY <1>4 DEF Reply, Answer, NoJson, Error, Rotate
      <3> QED BY <3>1, TurnUsable
    <2>2. CASE \/ \E content \in {"calls", "good", "text", "nothing"} : Answer(c, content)
               \/ NoJson(c) \/ Error(c)
      <3>1. Abstract!Hear(c, Turn(c), FALSE, FALSE)
        BY <2>2, AnswerRotates, NoJsonRotates, ErrorRotates
      <3> QED BY <2>1, <3>1
    <2>3. ASSUME NEW reply \in {"silent", "refusal", "quota"}, Rotate(c, reply)
          PROVE  \E a \in Accounts, refuses, hits \in BOOLEAN : Abstract!Hear(c, a, refuses, hits)
      <3>1. Abstract!Hear(c, Turn(c), reply # "silent", reply = "quota") BY <2>3, RotateRotates
      <3>2. (reply # "silent") \in BOOLEAN /\ (reply = "quota") \in BOOLEAN OBVIOUS
      <3> QED BY <2>1, <3>1, <3>2
    <2> QED BY <1>4, <2>2, <2>3 DEF Reply
  <1>5. ASSUME NEW c \in Clients, Load(c) \/ Goes(c)
        PROVE  Abstract!Next \/ UNCHANGED Abstract!rotation
    <2>1. CASE Load(c) BY <2>1, LoadRotates DEF Abstract!Next
    <2>2. CASE Begin(c) BY <2>2, BeginRotates DEF Abstract!Next
    <2>3. CASE Reply(c) BY <2>3, <1>4 DEF Abstract!Next
    <2>4. CASE \E heard \in BOOLEAN : Hydrate(c, heard) BY <2>4, HydrateRotates
    <2>5. CASE \/ \E a \in Accounts, refuses \in BOOLEAN : Test(c, a, refuses)
               \/ \E a \in Accounts : Edit(c, a)
      BY <2>5, <1>3
    <2> QED BY <1>5, <2>1, <2>2, <2>3, <2>4, <2>5 DEF Goes
  <1> QED BY <1>1, <1>2, <1>5 DEF Next, Abstract!Next

(* For any accounts, clients, priorities and answers every chat asks each    *)
(* usable account at most once and no other, nobody who has refused that     *)
(* day, gives up only when it has asked them all, and says truly why         *)
(* (provider.py:178).                                                        *)
THEOREM Implements == Spec => Rotates
  <1>1. Init => Abstract!Init BY InitRotates
  <1>2. Sound /\ [Next]_vars => [Abstract!Next]_(Abstract!rotation) BY NextRotates
  <1> QED BY <1>1, <1>2, AlwaysSound, PTL DEF Spec, Rotates, Abstract!Spec
=============================================================================
