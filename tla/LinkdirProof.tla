---------------------------- MODULE LinkdirProof ----------------------------
(***************************************************************************)
(* Proofs about Linkdir, for any collectors, chats, looks, plans, budgets  *)
(* and thresholds.                                                         *)
(*                                                                         *)
(* Typed is the type invariant.  Sane says of every run what its place     *)
(* implies: which chat it has in hand (Polite), that the guard's file is   *)
(* open once the run met a flood (Careful), and that what it joined today  *)
(* is in the guard's count (Frugal), up to one join whose answer was lost. *)
(* Kept says of every catalog where the rows are that it has ranked; each  *)
(* step keeps it for its own run (KeptBy) and, as it gives D1 no older row *)
(* unnoted (Newer), for the others.                                        *)
(***************************************************************************)
EXTENDS Linkdir, TLAPS

----------------------------------------------------------------------------
(* Values *)

Catalog == [Chats -> Item \cup {None}]
Guards == {g \in Guard : \A a \in Actions : g.used[a] <= Limit[a]}
Pool == [cat : Catalog, guard : [Collectors -> Guards]]
Batch == {b \in [rest : SUBSET Chats, all : SUBSET Chats,
                 then : {"next", "sweep", "export", "leave"}] : b.rest \subseteq b.all}

\* A row that is ranked: what is seen of a chat, or what was only found
Rows == [ident : 0..100, qual : 0..100, can : Rights \cup {"absent"}, inside : Rights,
         dead : BOOLEAN, dense : BOOLEAN, small : BOOLEAN, link : BOOLEAN]

\* A set of numbers of the scale with a lowest one
Scaled(S) == S \subseteq 0..100 /\ \E x \in S : \A y \in S : x <= y

LEMMA ScaledMore ==
    ASSUME NEW S, Scaled(S), NEW T, NEW x \in 0..100, T = S \/ T = S \cup {x}
    PROVE  Scaled(T)
  <1>1. PICK m \in S : \A y \in S : m <= y BY DEF Scaled
  <1>2. S \subseteq 0..100 /\ m \in 0..100 BY <1>1 DEF Scaled
  <1>3. CASE m <= x BY <1>1, <1>2, <1>3 DEF Scaled
  <1>4. CASE ~(m <= x) /\ T = S \cup {x}
    <2>1. \A y \in T : x <= y BY <1>1, <1>2, <1>4
    <2>2. x \in T /\ T \subseteq 0..100 BY <1>2, <1>4
    <2> QED BY <2>1, <2>2 DEF Scaled
  <1> QED BY <1>3, <1>4

(* The blend of two scores and its gates stay on the scale (scoring).        *)
LEMMA RankBound == \A l \in Rows : Rank(l) \in 0..100
  <1> SUFFICES ASSUME NEW l \in Rows PROVE Rank(l) \in 0..100
    OBVIOUS
  <1> DEFINE blend == (4 * l.ident + 6 * l.qual) \div 10
             gate == [small |-> 35, dead |-> 28, link |-> 30, unknown |-> 32, closed |-> 55]
             shut == {g \in DOMAIN gate : CASE g = "small" -> l.small
                                            [] g = "dead" -> l.dead
                                            [] g = "link" -> l.link
                                            [] g = "unknown" -> l.ident < 25 /\ ~l.dense
                                            [] g = "closed" -> l.can = "no"}
             with(S, g) == IF g \in shut THEN S \cup {gate[g]} ELSE S
             one == with({blend}, "small")  two == with(one, "dead")
             three == with(two, "link")  four == with(three, "unknown")
             five == with(four, "closed")
  <1>1. l.ident \in 0..100 /\ l.qual \in 0..100 BY DEF Rows
  <1>2. blend \in 0..100
    <2> DEFINE x == 4 * l.ident  y == 6 * l.qual  z == x + y
    <2>1. x \in 0..400 /\ y \in 0..600 BY <1>1
    <2> HIDE DEF x, y
    <2>2. z \in 0..1000 BY <2>1
    <2> HIDE DEF z
    <2>3. z \div 10 \in 0..100 BY <2>2
    <2> QED BY <2>3 DEF z, x, y
  <1>3. DOMAIN gate = {"small", "dead", "link", "unknown", "closed"}
        /\ shut \subseteq DOMAIN gate
        /\ \A g \in DOMAIN gate : gate[g] \in 0..100
    <2>1. DOMAIN gate = {"small", "dead", "link", "unknown", "closed"} OBVIOUS
    <2>2. shut \subseteq DOMAIN gate
      <3> HIDE DEF gate
      <3> QED OBVIOUS
    <2>3. \A g \in DOMAIN gate : gate[g] \in 0..100
      <3> HIDE DEF shut
      <3> QED BY <2>1
    <2> QED BY <2>1, <2>2, <2>3
  <1>4. Rank(l) = Lowest({blend} \cup {gate[g] : g \in shut})
    BY DEF Rank
  <1> HIDE DEF blend, shut, gate
  <1>5. five = {blend} \cup {gate[g] : g \in shut}
    <2>1. \A x : x \in five <=> x = blend \/ \E g \in DOMAIN gate : g \in shut /\ x = gate[g]
      BY <1>3
    <2> QED BY <1>3, <2>1
  <1>6. Scaled({blend}) BY <1>2 DEF Scaled
  <1>7. \A S, g : Scaled(S) /\ g \in DOMAIN gate => Scaled(with(S, g))
    BY <1>3, ScaledMore
  <1>8. Scaled(five)
    <2> HIDE DEF with
    <2> QED BY <1>3, <1>6, <1>7
  <1> HIDE DEF five
  <1>9. Lowest(five) \in five BY <1>8 DEF Scaled, Lowest
  <1> QED BY <1>4, <1>5, <1>8, <1>9 DEF Scaled

LEMMA MergedTyped ==
    ASSUME NEW prev \in Item \cup {None}, NEW l \in Rows, NEW t \in 0..MaxTime
    PROVE  Merged(prev, l, t) \in Item
  <1> DEFINE can == CASE l.can # "absent" -> l.can
                      [] prev = None -> "unknown"
                      [] OTHER -> prev.can
             st == CASE Verdict(l) # "junk" /\ l.can = "yes" -> "active"
                     [] Verdict(l) # "junk" -> "review"
                     [] OTHER -> "junk"
  <1>1. can \in Rights BY DEF Rows, Rights, Item
  <1>2. st \in {"active", "review", "junk", "stale"} OBVIOUS
  <1>3. Rank(l) \in 0..100 /\ l.ident \in 0..100 BY RankBound DEF Rows
  <1>4. Merged(prev, l, t) = [st |-> st, can |-> can, rank |-> Rank(l), ident |-> l.ident, at |-> t]
    BY DEF Merged
  <1> HIDE DEF can, st
  <1> QED BY <1>1, <1>2, <1>3, <1>4 DEF Item

\* Rows of an upsert; the row of a chat that cannot be resolved is Gone
AreRows(f) == DOMAIN f \subseteq Chats /\ \A ch \in DOMAIN f : f[ch] \in Rows \cup {Gone}

LEMMA UpsertedTyped ==
    ASSUME NEW items \in Catalog, NEW f, AreRows(f), NEW t \in 0..MaxTime
    PROVE  Upserted(items, f, t) \in Catalog /\ Ranked(f) \in SUBSET Chats
  <1>1. ASSUME NEW ch \in Chats, ch \in DOMAIN f, Persists(f[ch])
        PROVE  Merged(items[ch], f[ch], t) \in Item
    <2>1. f[ch] \in Rows BY <1>1 DEF AreRows, Persists
    <2>2. items[ch] \in Item \cup {None} BY DEF Catalog
    <2> QED BY <2>1, <2>2, MergedTyped
  <1>2. Upserted(items, f, t) \in Catalog
    BY <1>1 DEF Upserted, Catalog
  <1> QED BY <1>2 DEF Ranked, AreRows

LEMMA StaleTyped ==
    ASSUME NEW items \in Catalog, NEW t, NEW grace
    PROVE  MarkStale(items, t, grace) \in Catalog
  <1>1. ASSUME NEW ch \in Chats, Demoted(items[ch], t, grace)
        PROVE  [items[ch] EXCEPT !.st = "stale"] \in Item
    <2>1. items[ch] \in Item BY <1>1 DEF Demoted, Catalog
    <2> QED BY <2>1 DEF Item
  <1> QED BY <1>1 DEF MarkStale, Catalog

(* The rows of the five kinds of steps.                                      *)
LEMMA LookRows ==
    ASSUME NEW ch \in Chats, NEW l \in LooksOf[ch]
    PROVE  l \in Rows /\ Bare(l) \in Rows /\ Inside(l) \in Rows /\ Outside(l) \in Rows
  <1>1. l \in Look BY LinkdirAssumption
  <1>2. l \in Rows BY <1>1 DEF Look, Rows
  <1>3. Bare(l) \in Rows BY <1>1, LinkdirAssumption DEF Look, Rows, Bare
  <1>4. Inside(l) \in Rows BY <1>1 DEF Look, Rows, Inside, Rights
  <1>5. Outside(l) \in Rows
    <2> DEFINE can == IF l.can = "no" THEN "no" ELSE "unknown"
    <2>1. Outside(l) = [l EXCEPT !.qual = BareQuality, !.dead = FALSE, !.dense = FALSE,
                                 !.link = TRUE, !.can = can]
      BY DEF Outside
    <2>2. can \in Rights BY DEF Rights
    <2> HIDE DEF can
    <2> QED BY <1>2, <2>1, <2>2, LinkdirAssumption DEF Rows
  <1> QED BY <1>2, <1>3, <1>4, <1>5

LEMMA OneRows ==
    ASSUME NEW ch \in Chats, NEW l \in Rows \cup {Gone}
    PROVE  AreRows(One(ch, l))
  BY DEF AreRows, One

LEMMA EmptyTyped ==
    NoItems \in Catalog /\ NewGuard \in Guards /\ EmptyPool \in Pool /\ NoBatch \in Batch
  <1>1. NoItems \in Catalog BY DEF NoItems, Catalog
  <1>2. NewGuard \in Guards BY LinkdirAssumption DEF NewGuard, Guards, Guard
  <1>3. NoBatch \in Batch BY DEF NoBatch, Batch
  <1> QED BY <1>1, <1>2, <1>3 DEF EmptyPool, Pool

LEMMA GuardTyped ==
    ASSUME NEW g \in Guards
    PROVE  /\ Opened(g) \in Guards
           /\ \A a \in Actions : g.used[a] < Limit[a] => Recorded(g, a) \in Guards
           /\ today \in 0..MaxDays => Rolled(g) \in Guards /\ Rolled(g).day = today
           /\ \A h \in Aged(g) : h \in Guards
  <1>1. g \in Guard /\ \A a \in Actions : g.used[a] <= Limit[a] BY DEF Guards
  <1>2. Opened(g) \in Guards BY <1>1 DEF Opened, Guards, Guard
  <1>3. ASSUME NEW a \in Actions, g.used[a] < Limit[a] PROVE Recorded(g, a) \in Guards
    <2>1. Recorded(g, a) \in Guard /\ Recorded(g, a).used = [g.used EXCEPT ![a] = @ + 1]
      BY <1>1 DEF Recorded, Guard
    <2>2. \A b \in Actions : g.used[b] \in Nat /\ Limit[b] \in Nat
      BY <1>1, LinkdirAssumption DEF Guard
    <2>3. \A b \in Actions : [g.used EXCEPT ![a] = @ + 1][b] <= Limit[b]
      BY <1>1, <1>3, <2>2 DEF Guard
    <2> QED BY <2>1, <2>3 DEF Guards
  <1>4. ASSUME today \in 0..MaxDays PROVE Rolled(g) \in Guards /\ Rolled(g).day = today
    <2>1. NewGuard \in Guards BY EmptyTyped
    <2>2. [g EXCEPT !.used = NewGuard.used, !.day = today] \in Guards
      BY <1>1, <1>4, <2>1 DEF Guards, Guard
    <2> QED BY <1>1, <2>2 DEF Rolled, Guards, Guard
  <1>5. ASSUME NEW h \in Aged(g) PROVE h \in Guards
    <2>1. [g EXCEPT !.open = FALSE] \in Guards BY <1>1 DEF Guards, Guard
    <2> QED BY <1>5, <2>1 DEF Aged
  <1> QED BY <1>2, <1>3, <1>4, <1>5

----------------------------------------------------------------------------
(* The state *)

World ==
    /\ now \in 0..MaxTime /\ today \in 0..MaxDays
    /\ jobs \in [Jobs -> {"pending", "claimed", "done", "failed"}]
    /\ d1 \in Catalog
Stores ==
    /\ disk \in [Collectors -> Pool]
    /\ cache = NoPool \/ cache \in Pool
    /\ \A u \in uploads : u.pool \in Pool
\* A catalog, and what its step has queued, sends and has ranked
Ledger ==
    /\ mem \in [Collectors -> Catalog] /\ out \in [Collectors -> Batch]
    /\ pend \in [Collectors -> SUBSET Chats] /\ ranked \in [Collectors -> SUBSET Chats]
Hands ==
    /\ found \in [Collectors -> SUBSET Chats] /\ todo \in [Collectors -> SUBSET Chats]
    /\ held \in [Collectors -> SUBSET Jobs] /\ member \in [Collectors -> SUBSET Chats]
Typed == World /\ Stores /\ Ledger /\ Hands

LEMMA TypedInit == Init => Typed
  <1> SUFFICES ASSUME Init PROVE Typed
    OBVIOUS
  <1>1. World
    <2>1. now = 0 /\ today = 0 /\ jobs = [j \in Jobs |-> "pending"] /\ d1 = NoItems
      BY DEF Init
    <2> QED BY <2>1, EmptyTyped, LinkdirAssumption DEF World
  <1>2. Stores
    <2>1. disk = [c \in Collectors |-> EmptyPool] /\ cache = NoPool /\ uploads = {} BY DEF Init
    <2> QED BY <2>1, EmptyTyped DEF Stores
  <1>3. Ledger
    <2>1. /\ mem = [c \in Collectors |-> NoItems] /\ pend = [c \in Collectors |-> {}]
          /\ ranked = [c \in Collectors |-> {}] /\ out = [c \in Collectors |-> NoBatch]
      BY DEF Init
    <2> QED BY <2>1, EmptyTyped DEF Ledger
  <1>4. Hands
    <2>1. /\ found = [c \in Collectors |-> {}] /\ todo = [c \in Collectors |-> {}]
          /\ held = [c \in Collectors |-> {}] /\ member \in [Collectors -> {{}}]
      BY DEF Init
    <2> QED BY <2>1 DEF Hands
  <1> QED BY <1>1, <1>2, <1>3, <1>4 DEF Typed

----------------------------------------------------------------------------
(* What the parts of the steps do to the ledger *)

LEMMA EmptiedLedger ==
    ASSUME Ledger, NEW c \in Collectors, Emptied(c), mem' \in [Collectors -> Catalog]
    PROVE  Ledger'
  BY EmptyTyped DEF Ledger, Emptied

LEMMA OpenLedger ==
    ASSUME Ledger, Stores, NEW c \in Collectors, Open(c)
    PROVE  Ledger'
  <1>1. disk[c].cat \in Catalog BY DEF Stores, Pool
  <1>2. mem' \in [Collectors -> Catalog] BY <1>1 DEF Ledger, Open
  <1> QED BY <1>2, EmptiedLedger DEF Open

LEMMA LeaveLedger ==
    ASSUME Ledger, NEW c \in Collectors, Close(c)
    PROVE  Ledger'
  <1>1. mem' \in [Collectors -> Catalog] BY EmptyTyped DEF Ledger, Close
  <1> QED BY <1>1, EmptiedLedger DEF Close

LEMMA UpsertLedger ==
    ASSUME Ledger, World, NEW c \in Collectors, NEW f, AreRows(f), Upsert(c, f)
    PROVE  Ledger'
  <1>1. mem[c] \in Catalog BY DEF Ledger
  <1>2. Upserted(mem[c], f, now) \in Catalog /\ Ranked(f) \in SUBSET Chats
    BY <1>1, UpsertedTyped DEF World
  <1>3. /\ mem' = [mem EXCEPT ![c] = Upserted(mem[c], f, now)] /\ out' = out
        /\ pend' = [pend EXCEPT ![c] = pend[c] \cup Ranked(f)]
        /\ ranked' = [ranked EXCEPT ![c] = ranked[c] \cup Ranked(f)]
    BY DEF Upsert
  <1> HIDE DEF Upserted, Ranked
  <1> QED BY <1>2, <1>3 DEF Ledger

LEMMA FlushLedger ==
    ASSUME Ledger, NEW c \in Collectors, NEW then \in {"next", "sweep", "export", "leave"},
           BeginFlush(c, then), ranked' = ranked, mem' \in [Collectors -> Catalog]
    PROVE  Ledger'
  <1>1. pend[c] \in SUBSET Chats BY DEF Ledger
  <1>2. [rest |-> pend[c], all |-> pend[c], then |-> then] \in Batch BY <1>1 DEF Batch
  <1> QED BY <1>2 DEF Ledger, BeginFlush

LEMMA SendLedger ==
    ASSUME Ledger, NEW c \in Collectors, NEW C, NEW done, NEW answer,
           SendChunk(c, C, done, answer)
    PROVE  Ledger'
  <1>1. out[c] \in Batch /\ pend[c] \in SUBSET Chats BY DEF Ledger
  <1>2. TakenBack(out[c], C, answer) \in SUBSET Chats BY <1>1 DEF TakenBack, Batch
  <1>3. [out[c] EXCEPT !.rest = @ \ C] \in Batch BY <1>1 DEF Batch
  <1>4. mem' = mem /\ ranked' = ranked BY DEF SendChunk
  <1>5. out' \in [Collectors -> Batch]
    <2>1. out' = [out EXCEPT ![c] = [out[c] EXCEPT !.rest = @ \ C]]
          \/ out' = [out EXCEPT ![c] = NoBatch]
      BY DEF SendChunk
    <2> QED BY <1>3, <2>1, EmptyTyped DEF Ledger
  <1>6. pend' \in [Collectors -> SUBSET Chats]
    <2>1. pend' = pend \/ pend' = [pend EXCEPT ![c] = pend[c]]
          \/ pend' = [pend EXCEPT ![c] = pend[c] \cup TakenBack(out[c], C, answer)]
      BY DEF SendChunk
    <2> QED BY <1>1, <1>2, <2>1 DEF Ledger
  <1> QED BY <1>4, <1>5, <1>6 DEF Ledger

LEMMA QuietLedger == Ledger /\ UNCHANGED catalog => Ledger'
  BY DEF Ledger, catalog

LEMMA EnrichRows ==
    ASSUME Hands, NEW c \in Collectors, NEW E, NEW view \in Views
    PROVE  AreRows([ch \in found[c] |-> IF ch \in E THEN view[ch] ELSE Bare(view[ch])])
  <1>1. found[c] \subseteq Chats BY DEF Hands
  <1>2. \A ch \in Chats : view[ch] \in LooksOf[ch] BY DEF Views
  <1>3. \A ch \in Chats : view[ch] \in Rows /\ Bare(view[ch]) \in Rows BY <1>2, LookRows
  <1> QED BY <1>1, <1>3 DEF AreRows

LEMMA SearchLedger ==
    ASSUME Typed, NEW c \in Collectors, Search(c)
    PROVE  Ledger'
  <1>1. CASE \E J \in SUBSET Jobs : Claim(c, J)
    BY <1>1, OpenLedger, LeaveLedger DEF Typed, Claim, Leave
  <1>2. CASE \E j \in Jobs, F \in SUBSET Chats, heard \in BOOLEAN :
               \E answer \in {"ok", "error"} : Query(c, j, answer, F, heard)
    BY <1>2, QuietLedger DEF Typed, Query
  <1>3. CASE \E E \in SUBSET Chats, view \in Views : Enrich(c, E, view)
    BY <1>3, EnrichRows, UpsertLedger DEF Typed, Enrich
  <1> QED BY <1>1, <1>2, <1>3 DEF Search

LEMMA SnowballLedger ==
    ASSUME Typed, NEW c \in Collectors, Snowball(c)
    PROVE  Ledger'
  <1>1. CASE \E heard \in BOOLEAN : BeginSnowball(c, heard)
    BY <1>1, OpenLedger, LeaveLedger DEF Typed, BeginSnowball, Leave
  <1>2. CASE \E s \in Chats, F \in SUBSET Chats, got \in BOOLEAN :
               \E answer \in {"ok", "error", "flood"} : ReadSeed(c, s, got, answer, F)
    BY <1>2, QuietLedger DEF Typed, ReadSeed
  <1>3. ASSUME NEW ch \in Chats, NEW l \in Seen(ch), Resolve(c, ch, l) PROVE Ledger'
    <2>1. CASE UNCHANGED catalog BY <2>1, QuietLedger DEF Typed
    <2>2. CASE Upsert(c, One(ch, l))
      <3>1. l \in Rows \cup {Gone} BY LookRows DEF Seen
      <3> QED BY <2>2, <3>1, OneRows, UpsertLedger DEF Typed
    <2> QED BY <1>3, <2>1, <2>2 DEF Resolve
  <1>4. ASSUME NEW ch \in Chats, NEW answer \in {"ok", "error", "flood"}, NEW l \in Seen(ch),
               Peek(c, ch, answer, l)
        PROVE  Ledger'
    <2>1. CASE UNCHANGED catalog BY <2>1, QuietLedger DEF Typed
    <2>2. CASE answer = "ok" /\ Upsert(c, One(ch, Outside(l)))
      <3>1. l \in LooksOf[ch] BY <1>4, <2>2 DEF Peek, Seen
      <3>2. Outside(l) \in Rows BY <3>1, LookRows
      <3> QED BY <2>2, <3>2, OneRows, UpsertLedger DEF Typed
    <2> QED BY <1>4, <2>1, <2>2 DEF Peek
  <1>5. CASE StopReading(c) \/ StopResolving(c) \/ StopPeeking(c)
    BY <1>5, QuietLedger DEF Typed, StopReading, StopResolving, StopPeeking
  <1> QED BY <1>1, <1>2, <1>3, <1>4, <1>5 DEF Snowball

LEMMA VerifyLedger ==
    ASSUME Typed, NEW c \in Collectors, Ranks(c) \/ Verify(c)
    PROVE  Ledger'
  <1>1. CASE \E heard \in BOOLEAN : BeginRerank(c, heard)
    BY <1>1, OpenLedger, LeaveLedger DEF Typed, BeginRerank, Leave
  <1>2. ASSUME NEW ch \in Chats, NEW l \in Seen(ch), Rerank(c, ch, l) PROVE Ledger'
    <2>1. Upsert(c, One(ch, l)) BY <1>2 DEF Rerank
    <2>2. l \in Rows \cup {Gone} BY LookRows DEF Seen
    <2> QED BY <2>1, <2>2, OneRows, UpsertLedger DEF Typed
  <1>3. CASE \E heard \in BOOLEAN, T \in SUBSET Chats : BeginVerify(c, heard, T)
    BY <1>3, OpenLedger, LeaveLedger DEF Typed, BeginVerify, Leave
  <1>4. CASE \E ch \in Chats, answer \in {"joined", "already", "flood", "refused"} :
               Join(c, ch, answer)
    BY <1>4, QuietLedger DEF Typed, Join
  <1>5. ASSUME NEW ch \in Chats, NEW l \in Seen(ch), NEW left \in BOOLEAN,
               VerifyLook(c, ch, l, left)
        PROVE  Ledger'
    <2>1. CASE UNCHANGED catalog BY <2>1, QuietLedger DEF Typed
    <2>2. CASE l # Gone /\ Upsert(c, One(ch, Inside(l)))
      <3>1. Inside(l) \in Rows BY <2>2, LookRows DEF Seen
      <3> QED BY <2>2, <3>1, OneRows, UpsertLedger DEF Typed
    <2> QED BY <1>5, <2>1, <2>2 DEF VerifyLook
  <1>6. CASE StopJoining(c)
    BY <1>6, QuietLedger DEF Typed, StopJoining
  <1>7. CASE \E ch \in Chats, done \in BOOLEAN : JoinLost(c, ch, done)
    BY <1>7, LeaveLedger DEF Typed, JoinLost, Leave
  <1> QED BY <1>1, <1>2, <1>3, <1>4, <1>5, <1>6, <1>7 DEF Ranks, Verify

\* A catalog that was swept
Swept(c) == [ch \in Chats |-> IF ch \in pend[c] THEN mem[c][ch]
                              ELSE MarkStale(mem[c], now, Grace)[ch]]

LEMMA SweptTyped ==
    ASSUME Ledger, NEW c \in Collectors
    PROVE  Swept(c) \in Catalog
  <1>1. mem[c] \in Catalog /\ MarkStale(mem[c], now, Grace) \in Catalog
    BY StaleTyped DEF Ledger
  <1> QED BY <1>1 DEF Swept, Catalog

LEMMA RunLedger ==
    ASSUME Typed, NEW c \in Collectors, Run(c)
    PROVE  Ledger'
  <1>1. CASE \E p \in Plans : \E g \in Aged(Restored.guard[c]) : Begin(c, p, g)
    BY <1>1, QuietLedger DEF Typed, Begin
  <1>2. CASE Save(c)
    <2>1. mem' \in [Collectors -> Catalog] /\ ranked' = ranked BY <1>2 DEF Save, Typed, Ledger
    <2> QED BY <1>2, <2>1, FlushLedger DEF Typed, Save
  <1>3. CASE Sweep(c)
    <2>1. Swept(c) \in Catalog BY SweptTyped DEF Typed
    <2>2. mem' = [mem EXCEPT ![c] = Swept(c)] /\ ranked' = ranked BY <1>3 DEF Sweep, Swept
    <2>3. mem' \in [Collectors -> Catalog] BY <2>1, <2>2 DEF Typed, Ledger
    <2>4. CASE BeginFlush(c, "export") BY <2>2, <2>3, <2>4, FlushLedger DEF Typed
    <2>5. CASE UNCHANGED <<pend, out>> BY <2>2, <2>3, <2>5 DEF Typed, Ledger
    <2> QED BY <1>3, <2>4, <2>5 DEF Sweep
  <1>4. CASE \E told \in BOOLEAN : Export(c, told)
    <2>1. mem' \in [Collectors -> Catalog] /\ ranked' = ranked BY <1>4 DEF Export, Typed, Ledger
    <2> QED BY <1>4, <2>1, FlushLedger DEF Typed, Export
  <1>5. CASE Raises(c) \/ StepEnds(c)
    BY <1>5, LeaveLedger DEF Typed, Raises, StepEnds, Leave
  <1>6. CASE \E told \in BOOLEAN : Finish(c, told)
    BY <1>6, QuietLedger DEF Typed, Finish
  <1>7. CASE End(c)
    BY <1>7, LeaveLedger DEF Typed, End
  <1>8. CASE \E C \in SUBSET Chats, done \in BOOLEAN :
               \E answer \in {"ok", "refused", "raised"} : SendChunk(c, C, done, answer)
    BY <1>8, SendLedger DEF Typed
  <1> QED BY <1>1, <1>2, <1>3, <1>4, <1>5, <1>6, <1>7, <1>8 DEF Run

\* A step outside of the runs
Elsewhere ==
    \/ \E u \in uploads : Merge(u) \/ Supersede(u)
    \/ \E j \in Jobs : LeaseEnds(j)

LEMMA ElsewhereQuiet ==
    ASSUME Elsewhere
    PROVE  UNCHANGED <<env, pc, steps, runs, disk, catalog, hands, member, hist>>
  BY DEF Elsewhere, Merge, Supersede, LeaseEnds

LEMMA LedgerStep ==
    ASSUME Typed, [Next]_vars
    PROVE  Ledger'
  <1>1. CASE Elsewhere
    BY <1>1, ElsewhereQuiet, QuietLedger DEF Typed
  <1>2. CASE Midnight
    BY <1>2, QuietLedger DEF Typed, Midnight
  <1>3. CASE UNCHANGED vars
    BY <1>3, QuietLedger DEF Typed, vars
  <1> QED BY <1>1, <1>2, <1>3, SearchLedger, SnowballLedger, VerifyLedger, RunLedger
          DEF Next, Elsewhere

----------------------------------------------------------------------------
(* What the steps do to the pool directory *)

LEMMA GuardStores ==
    ASSUME Stores, NEW c \in Collectors, NEW g \in Guards, SaveGuard(c, g),
           cache' = cache, uploads' = uploads
    PROVE  Stores'
  <1>1. disk' = [disk EXCEPT ![c] = [disk[c] EXCEPT !.guard = [disk[c].guard EXCEPT ![c] = g]]]
    BY DEF SaveGuard
  <1>2. disk[c] \in Pool BY DEF Stores
  <1>3. [disk[c] EXCEPT !.guard = [disk[c].guard EXCEPT ![c] = g]] \in Pool
    BY <1>2 DEF Pool
  <1> QED BY <1>1, <1>3 DEF Stores

LEMMA CatalogStores ==
    ASSUME Stores, NEW c \in Collectors, NEW items \in Catalog,
           disk' = [disk EXCEPT ![c].cat = items], cache' = cache, uploads' = uploads
    PROVE  Stores'
  <1>1. disk' = [disk EXCEPT ![c] = [disk[c] EXCEPT !.cat = items]]
    OBVIOUS
  <1>2. disk[c] \in Pool BY DEF Stores
  <1>3. [disk[c] EXCEPT !.cat = items] \in Pool BY <1>2 DEF Pool
  <1> QED BY <1>1, <1>3 DEF Stores

LEMMA QuietStores == Stores /\ UNCHANGED <<disk, store>> => Stores'
  BY DEF Stores, store

(* The guard a request finds is of today; it and the one the request leaves  *)
(* stay within the budget.                                                   *)
LEMMA OwnGuard ==
    ASSUME Stores, World, NEW c \in Collectors
    PROVE  /\ GuardOf(c) \in Guards /\ Opened(GuardOf(c)) \in Guards
           /\ GuardOf(c).day = today
           /\ \A a \in Actions : Allow(c, a) => /\ Recorded(GuardOf(c), a) \in Guards
                                               /\ Opened(Recorded(GuardOf(c), a)) \in Guards
  <1>1. disk[c].guard[c] \in Guards /\ today \in 0..MaxDays BY DEF Stores, Pool, World
  <1>2. GuardOf(c) \in Guards /\ GuardOf(c).day = today BY <1>1, GuardTyped DEF GuardOf
  <1>3. \A a \in Actions : Allow(c, a) => Recorded(GuardOf(c), a) \in Guards
    BY <1>2, GuardTyped DEF Allow
  <1> QED BY <1>2, <1>3, GuardTyped

\* What a request may leave of the guard
Leaves(c, a) ==
    LET g == GuardOf(c) IN {g, Opened(g), Recorded(g, a), Opened(Recorded(g, a))}

LEMMA RequestStores ==
    ASSUME Typed, NEW c \in Collectors, NEW a \in Actions, Allow(c, a),
           NEW g \in Leaves(c, a), SaveGuard(c, g), UNCHANGED store
    PROVE  Stores'
  <1>1. g \in Guards BY OwnGuard DEF Typed, Leaves
  <1> QED BY <1>1, GuardStores DEF Typed, store

LEMMA SnowballStores ==
    ASSUME Typed, NEW c \in Collectors, Search(c) \/ Snowball(c) \/ Ranks(c)
    PROVE  Stores'
  <1>1. CASE Search(c)
    BY <1>1, QuietStores DEF Typed, Search, Claim, Query, Enrich, Leave, NoChange, store
  <1>2. CASE Ranks(c)
    BY <1>2, QuietStores DEF Typed, Ranks, BeginRerank, Rerank, NoChange, store
  <1>3. CASE \E heard \in BOOLEAN : BeginSnowball(c, heard)
    BY <1>3, QuietStores DEF Typed, BeginSnowball, NoChange
  <1>4. ASSUME NEW s \in Chats, NEW F \in SUBSET Chats, NEW got \in BOOLEAN,
               NEW answer \in {"ok", "error", "flood"}, ReadSeed(c, s, got, answer, F)
        PROVE  Stores'
    <2>1. Allow(c, "seed_read") /\ UNCHANGED store BY <1>4 DEF ReadSeed, Request
    <2>2. \E g \in Leaves(c, "seed_read") : SaveGuard(c, g)
      BY <1>4 DEF ReadSeed, Request, Leaves
    <2> QED BY <2>1, <2>2, RequestStores DEF Actions
  <1>5. ASSUME NEW ch \in Chats, NEW l \in Seen(ch), Resolve(c, ch, l) PROVE Stores'
    <2>1. /\ Allow(c, "resolve_username") /\ UNCHANGED store
          /\ \E g \in Leaves(c, "resolve_username") : SaveGuard(c, g)
      BY <1>5 DEF Resolve, Request, Leaves
    <2> QED BY <2>1, RequestStores DEF Actions
  <1>6. ASSUME NEW ch \in Chats, NEW answer \in {"ok", "error", "flood"}, NEW l \in Seen(ch),
               Peek(c, ch, answer, l)
        PROVE  Stores'
    <2>1. /\ Allow(c, "invite_peek") /\ UNCHANGED store
          /\ \E g \in Leaves(c, "invite_peek") : SaveGuard(c, g)
      BY <1>6 DEF Peek, Request, Leaves
    <2> QED BY <2>1, RequestStores DEF Actions
  <1>7. CASE StopReading(c) \/ StopResolving(c) \/ StopPeeking(c)
    BY <1>7, QuietStores DEF Typed, StopReading, StopResolving, StopPeeking, NoChange
  <1> QED BY <1>1, <1>2, <1>3, <1>4, <1>5, <1>6, <1>7 DEF Snowball

LEMMA VerifyStores ==
    ASSUME Typed, NEW c \in Collectors, Verify(c)
    PROVE  Stores'
  <1>1. ASSUME NEW ch \in Chats, NEW answer \in {"joined", "already", "flood", "refused"},
               Join(c, ch, answer)
        PROVE  Stores'
    <2>1. /\ Allow(c, "join") /\ UNCHANGED store
          /\ \E g \in Leaves(c, "join") : SaveGuard(c, g)
      BY <1>1 DEF Join, JoinRecorded, Leaves
    <2> QED BY <2>1, RequestStores DEF Actions
  <1>2. CASE \E heard \in BOOLEAN, T \in SUBSET Chats : BeginVerify(c, heard, T)
    BY <1>2, QuietStores DEF Typed, BeginVerify, NoChange
  <1>3. CASE \E ch \in Chats : \E l \in Seen(ch), left \in BOOLEAN : VerifyLook(c, ch, l, left)
    BY <1>3, QuietStores DEF Typed, VerifyLook
  <1>4. CASE StopJoining(c) \/ \E ch \in Chats, done \in BOOLEAN : JoinLost(c, ch, done)
    BY <1>4, QuietStores DEF Typed, StopJoining, JoinLost, NoChange
  <1> QED BY <1>1, <1>2, <1>3, <1>4 DEF Verify

(* A restored directory is a pool, with a guard of another day or the same.  *)
LEMMA BeginStores ==
    ASSUME Typed, NEW c \in Collectors, NEW p, NEW g \in Aged(Restored.guard[c]), Begin(c, p, g)
    PROVE  Stores'
  <1>1. Restored \in Pool BY EmptyTyped DEF Typed, Stores, Restored
  <1>2. Restored.guard[c] \in Guards BY <1>1 DEF Pool
  <1>3. g \in Guards BY <1>2, GuardTyped
  <1>4. [Restored EXCEPT !.guard[c] = g] \in Pool
    <2>1. [Restored EXCEPT !.guard = [Restored.guard EXCEPT ![c] = g]] \in Pool
      BY <1>1, <1>3 DEF Pool
    <2> QED BY <2>1
  <1>5. disk' = [disk EXCEPT ![c] = [Restored EXCEPT !.guard[c] = g]] /\ UNCHANGED store
    BY DEF Begin
  <1> QED BY <1>4, <1>5 DEF Typed, Stores, store

LEMMA RunStores ==
    ASSUME Typed, NEW c \in Collectors, Run(c)
    PROVE  Stores'
  <1>1. CASE Save(c) \/ \E told \in BOOLEAN : Export(c, told)
    <2>1. mem[c] \in Catalog BY DEF Typed, Ledger
    <2>2. disk' = [disk EXCEPT ![c].cat = mem[c]] /\ UNCHANGED store BY <1>1 DEF Save, Export
    <2> QED BY <2>1, <2>2, CatalogStores DEF Typed, store
  <1>2. CASE Sweep(c)
    <2>1. Swept(c) \in Catalog BY SweptTyped DEF Typed
    <2>2. disk' = [disk EXCEPT ![c].cat = Swept(c)] /\ UNCHANGED store BY <1>2 DEF Sweep, Swept
    <2> QED BY <2>1, <2>2, CatalogStores DEF Typed, store
  <1>3. CASE Raises(c) \/ StepEnds(c)
    BY <1>3, QuietStores DEF Typed, Raises, StepEnds, NoChange
  <1>4. ASSUME NEW told \in BOOLEAN, Finish(c, told) PROVE Stores'
    <2>1. disk' = [disk EXCEPT ![c].cat = MarkStale(disk[c].cat, now, Grace)] /\ UNCHANGED store
      BY <1>4 DEF Finish
    <2>2. MarkStale(disk[c].cat, now, Grace) \in Catalog BY StaleTyped DEF Typed, Stores, Pool
    <2> QED BY <2>1, <2>2, CatalogStores DEF Typed, store
  <1>5. CASE End(c)
    <2>1. /\ disk' = [disk EXCEPT ![c] = EmptyPool] /\ cache' = cache
          /\ uploads' = uploads \cup {[by |-> c, run |-> runs[c], pool |-> disk[c]]}
      BY <1>5 DEF End, Forget, Upload
    <2> QED BY <2>1, EmptyTyped DEF Typed, Stores
  <1>6. CASE \E C \in SUBSET Chats, done \in BOOLEAN :
               \E answer \in {"ok", "refused", "raised"} : SendChunk(c, C, done, answer)
    BY <1>6, QuietStores DEF Typed, SendChunk
  <1> QED BY <1>1, <1>2, <1>3, <1>4, <1>5, <1>6, BeginStores DEF Run

(* A merge keeps the newer items and the upload's guards.                    *)
LEMMA ElsewhereStores ==
    ASSUME Typed, Elsewhere
    PROVE  Stores'
  <1>1. ASSUME NEW u \in uploads, Merge(u) PROVE Stores'
    <2>1. Restored \in Pool /\ u.pool \in Pool BY EmptyTyped DEF Typed, Stores, Restored
    <2>2. Union(Restored.cat, u.pool.cat) \in Catalog BY <2>1 DEF Pool, Catalog, Union
    <2>3. MergedPool(Restored, u.pool) \in Pool BY <2>1, <2>2 DEF Pool, MergedPool
    <2>4. cache' = NoPool \/ cache' \in Pool
      BY <1>1, <2>3 DEF Typed, Stores, Merge, Stored
    <2>5. disk' = disk /\ uploads' = uploads \ {u} BY <1>1 DEF Merge
    <2> QED BY <2>4, <2>5 DEF Typed, Stores
  <1>2. CASE \E u \in uploads : Supersede(u)
    BY <1>2 DEF Typed, Stores, Supersede
  <1>3. CASE \E j \in Jobs : LeaseEnds(j)
    BY <1>3, QuietStores DEF Typed, LeaseEnds
  <1> QED BY <1>1, <1>2, <1>3 DEF Elsewhere

LEMMA StoresStep ==
    ASSUME Typed, [Next]_vars
    PROVE  Stores'
  <1>1. CASE UNCHANGED vars
    BY <1>1, QuietStores DEF Typed, vars
  <1>2. CASE Midnight
    BY <1>2, QuietStores DEF Typed, Midnight
  <1> QED BY <1>1, <1>2, SnowballStores, VerifyStores, RunStores, ElsewhereStores
          DEF Next, Elsewhere

----------------------------------------------------------------------------
(* What they do to the bridge, the day and what a run has in hand *)

LEMMA QuietWorld == World /\ UNCHANGED <<env, jobs, d1>> => World'
  BY DEF World, env

LEMMA RunWorld ==
    ASSUME Typed, NEW c \in Collectors, Run(c)
    PROVE  World'
  <1>1. CASE Save(c)
    <2>1. now' \in 0..MaxTime BY <1>1, LinkdirAssumption DEF Typed, World, Save
    <2> QED BY <1>1, <2>1 DEF Typed, World, Save, bridge, mirror
  <1>2. ASSUME NEW told \in BOOLEAN, Export(c, told) \/ Finish(c, told) PROVE World'
    <2>1. MarkStale(d1, now, 0) \in Catalog BY StaleTyped DEF Typed, World
    <2>2. d1' = (IF told THEN MarkStale(d1, now, 0) ELSE d1) /\ UNCHANGED <<env, jobs>>
      BY <1>2 DEF Export, Finish
    <2> QED BY <2>1, <2>2 DEF Typed, World, env
  <1>3. ASSUME NEW C \in SUBSET Chats, NEW done \in BOOLEAN, NEW answer,
               SendChunk(c, C, done, answer)
        PROVE  World'
    <2>1. mem[c] \in Catalog BY DEF Typed, Ledger
    <2>2. d1' = d1 \/ d1' = [ch \in Chats |-> IF ch \in C THEN mem[c][ch] ELSE d1[ch]]
      BY <1>3 DEF SendChunk, mirror
    <2>3. d1' \in Catalog BY <2>1, <2>2 DEF Catalog, Typed, World
    <2> QED BY <1>3, <2>3 DEF Typed, World, SendChunk, env
  <1>4. CASE \/ \E p \in Plans : \E g \in Aged(Restored.guard[c]) : Begin(c, p, g)
             \/ Raises(c) \/ StepEnds(c) \/ Sweep(c) \/ End(c)
    BY <1>4, QuietWorld DEF Typed, Begin, Raises, StepEnds, Sweep, End, NoChange, bridge, mirror
  <1> QED BY <1>1, <1>2, <1>3, <1>4 DEF Run

LEMMA WorldStep ==
    ASSUME Typed, [Next]_vars
    PROVE  World'
  <1>1. ASSUME NEW c \in Collectors, Search(c) PROVE World'
    <2>1. UNCHANGED <<env, d1>>
      BY <1>1 DEF Search, Claim, Query, Enrich, NoChange, bridge, mirror
    <2>2. jobs' \in [Jobs -> {"pending", "claimed", "done", "failed"}]
      BY <1>1 DEF Typed, World, Search, Claim, Query, Enrich, NoChange, bridge
    <2> QED BY <2>1, <2>2 DEF Typed, World, env
  <1>2. ASSUME NEW c \in Collectors, Snowball(c) PROVE World'
    BY <1>2, QuietWorld DEF Typed, Snowball, BeginSnowball, ReadSeed, Resolve, Peek,
       StopReading, StopResolving, StopPeeking, Request, NoChange, bridge, mirror
  <1>3. ASSUME NEW c \in Collectors, Ranks(c) \/ Verify(c) PROVE World'
    BY <1>3, QuietWorld DEF Typed, Ranks, Verify, BeginRerank, Rerank, BeginVerify, Join,
       VerifyLook, JoinLost, StopJoining, NoChange, bridge, mirror
  <1>4. CASE Elsewhere
    <2>1. UNCHANGED <<env, d1>> BY <1>4 DEF Elsewhere, Merge, Supersede, LeaseEnds, bridge, mirror
    <2>2. jobs' \in [Jobs -> {"pending", "claimed", "done", "failed"}]
      BY <1>4 DEF Typed, World, Elsewhere, Merge, Supersede, LeaseEnds, bridge
    <2> QED BY <2>1, <2>2 DEF Typed, World, env
  <1>5. CASE Midnight
    <2>1. today' \in 0..MaxDays BY <1>5, LinkdirAssumption DEF Typed, World, Midnight
    <2> QED BY <1>5, <2>1 DEF Typed, World, Midnight, bridge, mirror
  <1>6. CASE UNCHANGED vars
    BY <1>6, QuietWorld DEF Typed, vars, bridge, mirror
  <1> QED BY <1>1, <1>2, <1>3, <1>4, <1>5, <1>6, RunWorld DEF Next, Elsewhere

LEMMA QuietHands == Hands /\ UNCHANGED <<found, todo, held, member>> => Hands'
  BY DEF Hands

LEMMA LeaveHands ==
    ASSUME Hands, NEW c \in Collectors, Leave(c), member' = member
    PROVE  Hands'
  BY DEF Hands, Leave, Close

LEMMA HandsStep ==
    ASSUME Typed, [Next]_vars
    PROVE  Hands'
  <1>1. ASSUME NEW c \in Collectors, Search(c) PROVE Hands'
    <2>1. CASE \E J \in SUBSET Jobs : Claim(c, J)
      BY <2>1, LeaveHands DEF Typed, Hands, Claim
    <2>2. CASE \E j \in Jobs, F \in SUBSET Chats, heard \in BOOLEAN :
                 \E answer \in {"ok", "error"} : Query(c, j, answer, F, heard)
      BY <2>2 DEF Typed, Hands, Query
    <2>3. CASE \E E \in SUBSET Chats, view \in Views : Enrich(c, E, view)
      BY <2>3 DEF Typed, Hands, Enrich, NoChange
    <2> QED BY <1>1, <2>1, <2>2, <2>3 DEF Search
  <1>2. ASSUME NEW c \in Collectors, Snowball(c) PROVE Hands'
    <2>1. ASSUME NEW heard \in BOOLEAN, BeginSnowball(c, heard) PROVE Hands'
      <3>1. SeedsOf(c, heard) \in SUBSET Chats BY DEF SeedsOf, WithStatus
      <3> QED BY <2>1, <3>1, LeaveHands DEF Typed, Hands, BeginSnowball, NoChange
    <2>2. CASE \E s \in Chats, F \in SUBSET Chats, got \in BOOLEAN :
                 \E answer \in {"ok", "error", "flood"} : ReadSeed(c, s, got, answer, F)
      BY <2>2 DEF Typed, Hands, ReadSeed, Request
    <2>3. CASE \/ \E ch \in Chats : \E l \in Seen(ch) : Resolve(c, ch, l)
               \/ \E ch \in Chats, answer \in {"ok", "error", "flood"} :
                    \E l \in Seen(ch) : Peek(c, ch, answer, l)
      BY <2>3 DEF Typed, Hands, Resolve, Peek, Request
    <2>4. CASE StopReading(c) \/ StopResolving(c) \/ StopPeeking(c)
      BY <2>4 DEF Typed, Hands, StopReading, StopResolving, StopPeeking, NoChange
    <2> QED BY <1>2, <2>1, <2>2, <2>3, <2>4 DEF Snowball
  <1>3. ASSUME NEW c \in Collectors, Ranks(c) PROVE Hands'
    <2>1. ASSUME NEW heard \in BOOLEAN, BeginRerank(c, heard) PROVE Hands'
      <3>1. Targets(c, heard) \in SUBSET Chats BY DEF Targets, WithStatus
      <3> QED BY <2>1, <3>1, LeaveHands DEF Typed, Hands, BeginRerank, NoChange
    <2>2. CASE \E ch \in Chats : \E l \in Seen(ch) : Rerank(c, ch, l)
      BY <2>2 DEF Typed, Hands, Rerank
    <2> QED BY <1>3, <2>1, <2>2 DEF Ranks
  <1>4. ASSUME NEW c \in Collectors, Verify(c) PROVE Hands'
    <2>1. CASE \E heard \in BOOLEAN, T \in SUBSET Chats : BeginVerify(c, heard, T)
      BY <2>1, LeaveHands DEF Typed, Hands, BeginVerify, NoChange
    <2>2. CASE \E ch \in Chats, answer \in {"joined", "already", "flood", "refused"} :
                 Join(c, ch, answer)
      BY <2>2 DEF Typed, Hands, Join
    <2>3. CASE \E ch \in Chats : \E l \in Seen(ch), left \in BOOLEAN :
                 VerifyLook(c, ch, l, left)
      BY <2>3 DEF Typed, Hands, VerifyLook, LeaveAfter
    <2>4. CASE StopJoining(c) \/ \E ch \in Chats, done \in BOOLEAN : JoinLost(c, ch, done)
      BY <2>4 DEF Typed, Hands, StopJoining, JoinLost, Leave, Close, NoChange
    <2> QED BY <1>4, <2>1, <2>2, <2>3, <2>4 DEF Verify
  <1>5. ASSUME NEW c \in Collectors, Run(c) PROVE Hands'
    <2>1. CASE \/ \E p \in Plans : \E g \in Aged(Restored.guard[c]) : Begin(c, p, g)
               \/ \E C \in SUBSET Chats, done \in BOOLEAN :
                    \E answer \in {"ok", "refused", "raised"} : SendChunk(c, C, done, answer)
               \/ Save(c) \/ Sweep(c) \/ \E told \in BOOLEAN : Export(c, told) \/ Finish(c, told)
      BY <2>1, QuietHands DEF Typed, Begin, SendChunk, Save, Sweep, Export, Finish, hands
    <2>2. CASE Raises(c) \/ StepEnds(c)
      BY <2>2, LeaveHands DEF Typed, StepEnds, Raises, NoChange
    <2>3. CASE End(c)
      BY <2>3 DEF Typed, Hands, End, Close
    <2> QED BY <1>5, <2>1, <2>2, <2>3 DEF Run
  <1>6. CASE Elsewhere \/ Midnight \/ UNCHANGED vars
    BY <1>6, ElsewhereQuiet, QuietHands DEF Typed, Midnight, vars, hands
  <1> QED BY <1>1, <1>2, <1>3, <1>4, <1>5, <1>6 DEF Next, Elsewhere

LEMMA TypedStep == Typed /\ [Next]_vars => Typed'
  BY WorldStep, StoresStep, LedgerStep, HandsStep DEF Typed

(* The catalogs, wherever they are kept, hold well-formed items, and no      *)
(* guard file has more recorded than the budgets allow, whatever is restored,*)
(* merged, refused or cut off (catalog.py, safety_guard.py).                 *)
THEOREM TypeCorrect == Spec => []TypeOK
  <1>1. Typed => TypeOK
    <2> SUFFICES ASSUME Typed PROVE TypeOK
      OBVIOUS
    <2>1. \A c \in Collectors : \A a \in Actions : disk[c].guard[c].used[a] <= Limit[a]
      BY DEF Typed, Stores, Pool, Guards
    <2>2. \A c \in Collectors : disk[c].cat \in Catalog /\ mem[c] \in Catalog
      BY DEF Typed, Stores, Ledger, Pool
    <2>3. \A c \in Collectors : out[c].rest \subseteq out[c].all BY DEF Typed, Ledger, Batch
    <2> QED BY <2>1, <2>2, <2>3 DEF Typed, World, Ledger, Hands, TypeOK, Catalog
  <1> QED BY <1>1, TypedInit, TypedStep, PTL DEF Spec

----------------------------------------------------------------------------
(* The course of a run *)

Course ==
    /\ pc = [c \in Collectors |-> pc[c]] /\ steps = [c \in Collectors |-> steps[c]]
    /\ joins = [c \in Collectors |-> joins[c]] /\ excused = [c \in Collectors |-> excused[c]]
    /\ flooded = [c \in Collectors |-> flooded[c]]
    /\ pressed = [c \in Collectors |-> pressed[c]]

Within == {"query", "enrich", "read", "resolve", "peek", "rank", "join", "look", "lookin",
           "save", "send", "sweep", "export", "leave"}
Distinct(s) == \A i, j \in 1..Len(s) : s[i] = s[j] => i = j
Ahead(s) == \E i \in 1..Len(s) : s[i] = "verify"

\* Where a run is
Placed(c) ==
    /\ steps[c] \in Seq(Steps) /\ Distinct(steps[c])
    /\ pc[c] \in Within => steps[c] # <<>>
    /\ pc[c] \in {"join", "look", "lookin"} => Head(steps[c]) = "verify"
\* Its circuit is open once it was flooded
Careful(c) ==
    /\ ~pressed[c] /\ (flooded[c] => GuardOf(c).open)
    /\ pc[c] = "off" => ~flooded[c]
\* The one chat it may be in is the one it looks at
Polite(c) ==
    /\ pc[c] = "look" => \E ch : found[c] = {ch}
    /\ \A ch \in member[c] \ excused[c] : pc[c] = "look" /\ ch \in found[c]
\* Its joins are recorded, but for one without an answer, which ends the step
Frugal(c) ==
    /\ joins[c] \in Nat /\ joins[c] <= Limit["join"]
    /\ Ahead(steps[c]) => joins[c] <= GuardOf(c).used["join"]
    /\ pc[c] = "off" => joins[c] = 0
Sane(c) == Placed(c) /\ Careful(c) /\ Polite(c) /\ Frugal(c)
RunInv == Course /\ \A c \in Collectors : Sane(c)

\* What an invariant of a run depends on
Same(d) ==
    /\ pc'[d] = pc[d] /\ steps'[d] = steps[d] /\ disk'[d] = disk[d] /\ found'[d] = found[d]
    /\ member'[d] = member[d] /\ joins'[d] = joins[d] /\ excused'[d] = excused[d]
    /\ flooded'[d] = flooded[d] /\ pressed'[d] = pressed[d]
Alone(c) == Course' /\ \A d \in Collectors \ {c} : Same(d)

LEMMA SaneSame ==
    ASSUME NEW d \in Collectors, Sane(d), Same(d), today' = today
    PROVE  Sane(d)'
  <1>1. GuardOf(d)' = GuardOf(d) BY DEF Same, GuardOf, Rolled
  <1> QED BY <1>1 DEF Sane, Placed, Careful, Polite, Frugal, Same

(* A step of a run changes nothing of another run.                           *)
LEMMA LeaveAlone ==
    ASSUME Typed, Course, NEW c \in Collectors, Leave(c), hist' = hist, member' = member,
           disk' = disk \/ (\E items : disk' = [disk EXCEPT ![c].cat = items])
    PROVE  Alone(c)
  BY DEF Typed, Stores, Hands, Course, Alone, Same, Leave, Close, Goto, hist

\* What a step changes of a run
LEMMA OneAlone ==
    ASSUME Typed, Course, NEW c \in Collectors,
           \E p : pc' = [pc EXCEPT ![c] = p],
           steps' = steps \/ \E p : steps' = [steps EXCEPT ![c] = p],
           disk' = disk \/ (\E items : disk' = [disk EXCEPT ![c].cat = items])
                        \/ (\E pool : disk' = [disk EXCEPT ![c] = pool]),
           found' = found \/ \E F : found' = [found EXCEPT ![c] = F],
           UNCHANGED <<member, hist>>
    PROVE  Alone(c)
  BY DEF Typed, Stores, Hands, Course, Alone, Same, hist

LEMMA SearchAlone ==
    ASSUME Typed, Course, NEW c \in Collectors, Search(c) \/ Ranks(c)
    PROVE  Alone(c)
  <1>1. CASE \E J \in SUBSET Jobs : Claim(c, J)
    <2>1. CASE Leave(c) BY <1>1, <2>1, LeaveAlone DEF Claim
    <2> QED BY <1>1, <2>1, OneAlone DEF Claim, Goto
  <1>2. CASE \E j \in Jobs, F \in SUBSET Chats, heard \in BOOLEAN :
               \E answer \in {"ok", "error"} : Query(c, j, answer, F, heard)
    <2>1. \E p : pc' = [pc EXCEPT ![c] = p] BY <1>2 DEF Query, Goto, Course
    <2> QED BY <1>2, <2>1, OneAlone DEF Query
  <1>3. CASE \E E \in SUBSET Chats, view \in Views : Enrich(c, E, view)
    BY <1>3, OneAlone DEF Enrich, NoChange, Goto
  <1>4. ASSUME NEW heard \in BOOLEAN, BeginRerank(c, heard) PROVE Alone(c)
    <2>1. CASE Leave(c) BY <1>4, <2>1, LeaveAlone DEF BeginRerank, NoChange
    <2> QED BY <1>4, <2>1, OneAlone DEF BeginRerank, NoChange, Goto
  <1>5. CASE \E ch \in Chats : \E l \in Seen(ch) : Rerank(c, ch, l)
    <2>1. \E p : pc' = [pc EXCEPT ![c] = p] BY <1>5 DEF Rerank, Goto, Course
    <2> QED BY <1>5, <2>1, OneAlone DEF Rerank
  <1> QED BY <1>1, <1>2, <1>3, <1>4, <1>5 DEF Search, Ranks

LEMMA SnowballAlone ==
    ASSUME Typed, Course, NEW c \in Collectors, Snowball(c)
    PROVE  Alone(c)
  <1>1. ASSUME NEW heard \in BOOLEAN, BeginSnowball(c, heard) PROVE Alone(c)
    <2>1. CASE Leave(c) BY <1>1, <2>1, LeaveAlone DEF BeginSnowball, NoChange
    <2> QED BY <1>1, <2>1, OneAlone DEF BeginSnowball, NoChange, Goto
  <1>2. ASSUME NEW g, NEW answer, Request(c, g, answer), pc' = pc, NEW F,
               found' = [found EXCEPT ![c] = F]
        PROVE  Alone(c)
    BY <1>2 DEF Typed, Stores, Hands, Course, Alone, Same, Request, SaveGuard, Asked
  <1>3. CASE \E s \in Chats, F \in SUBSET Chats, got \in BOOLEAN :
               \E answer \in {"ok", "error", "flood"} : ReadSeed(c, s, got, answer, F)
    BY <1>2, <1>3 DEF ReadSeed
  <1>4. CASE \E ch \in Chats : \E l \in Seen(ch) : Resolve(c, ch, l)
    BY <1>2, <1>4 DEF Resolve
  <1>5. CASE \E ch \in Chats, answer \in {"ok", "error", "flood"} :
               \E l \in Seen(ch) : Peek(c, ch, answer, l)
    BY <1>2, <1>5 DEF Peek
  <1>6. CASE StopReading(c) \/ StopResolving(c) \/ StopPeeking(c)
    BY <1>6, OneAlone DEF StopReading, StopResolving, StopPeeking, NoChange, Goto
  <1> QED BY <1>1, <1>3, <1>4, <1>5, <1>6 DEF Snowball

LEMMA VerifyAlone ==
    ASSUME Typed, Course, NEW c \in Collectors, Verify(c)
    PROVE  Alone(c)
  <1>1. ASSUME NEW heard \in BOOLEAN, NEW T \in SUBSET Chats, BeginVerify(c, heard, T)
        PROVE  Alone(c)
    <2>1. CASE Leave(c) BY <1>1, <2>1, LeaveAlone DEF BeginVerify, NoChange
    <2> QED BY <1>1, <2>1, OneAlone DEF BeginVerify, NoChange, Goto
  <1>2. ASSUME NEW ch \in Chats, NEW answer \in {"joined", "already", "flood", "refused"},
               Join(c, ch, answer)
        PROVE  Alone(c)
    <2>1. /\ \E g : SaveGuard(c, g)
          /\ \E M : member' = [member EXCEPT ![c] = M]
          /\ \E n : joins' = [joins EXCEPT ![c] = n]
          /\ \E F : found' = [found EXCEPT ![c] = F]
          /\ \E p : pc' = [pc EXCEPT ![c] = p]
          /\ Asked(c, answer) /\ UNCHANGED <<steps, excused>>
      BY <1>2 DEF Join
    <2> QED BY <2>1 DEF Typed, Stores, Hands, Course, Alone, Same, SaveGuard, Asked
  <1>3. CASE \E ch \in Chats : \E l \in Seen(ch), left \in BOOLEAN : VerifyLook(c, ch, l, left)
    <2>1. /\ \E M : member' = [member EXCEPT ![c] = M] \/ member' = member
          /\ \E X : excused' = [excused EXCEPT ![c] = X] \/ excused' = excused
          /\ \E F : found' = [found EXCEPT ![c] = F]
          /\ \E p : pc' = [pc EXCEPT ![c] = p]
          /\ UNCHANGED <<steps, disk, joins, flooded, pressed>>
      BY <1>3 DEF VerifyLook, LeaveAfter, Goto
    <2> QED BY <2>1 DEF Typed, Stores, Hands, Course, Alone, Same
  <1>4. CASE StopJoining(c)
    BY <1>4, OneAlone DEF StopJoining, NoChange, Goto
  <1>5. CASE \E ch \in Chats, done \in BOOLEAN : JoinLost(c, ch, done)
    <2>1. /\ \E M : member' = [member EXCEPT ![c] = M]
          /\ \E X : excused' = [excused EXCEPT ![c] = X]
          /\ \E n : joins' = [joins EXCEPT ![c] = n]
          /\ \E F : found' = [found EXCEPT ![c] = F]
          /\ \E p : pc' = [pc EXCEPT ![c] = p]
          /\ \E p : steps' = [steps EXCEPT ![c] = p]
          /\ Asked(c, "lost") /\ disk' = disk
      BY <1>5 DEF JoinLost, Leave, Close, Goto
    <2> QED BY <2>1 DEF Typed, Stores, Hands, Course, Alone, Same, Asked
  <1> QED BY <1>1, <1>2, <1>3, <1>4, <1>5 DEF Verify

LEMMA RunAlone ==
    ASSUME Typed, Course, NEW c \in Collectors, Run(c)
    PROVE  Alone(c)
  <1>1. CASE \E p \in Plans : \E g \in Aged(Restored.guard[c]) : Begin(c, p, g)
    BY <1>1, OneAlone DEF Begin, Goto, hands
  <1>2. ASSUME NEW then, BeginFlush(c, then)
        PROVE  \E p : pc' = [pc EXCEPT ![c] = p]
    BY <1>2 DEF BeginFlush, Goto
  <1>3. CASE Save(c) \/ \E told \in BOOLEAN : Export(c, told)
    <2>1. \E p : pc' = [pc EXCEPT ![c] = p] BY <1>2, <1>3 DEF Save, Export
    <2> QED BY <1>3, <2>1, OneAlone DEF Save, Export, hands
  <1>4. CASE Sweep(c)
    <2>1. \E p : pc' = [pc EXCEPT ![c] = p] BY <1>2, <1>4 DEF Sweep, Goto
    <2> QED BY <1>4, <2>1, OneAlone DEF Sweep, hands
  <1>5. CASE Raises(c) \/ StepEnds(c)
    BY <1>5, LeaveAlone DEF Raises, StepEnds, NoChange
  <1>6. CASE \E told \in BOOLEAN : Finish(c, told)
    BY <1>6, OneAlone DEF Finish, Goto, hands
  <1>7. CASE End(c)
    BY <1>7 DEF Typed, Stores, Hands, Course, Alone, Same, End, Goto, Close, Forget
  <1>8. CASE \E C \in SUBSET Chats, done \in BOOLEAN :
               \E answer \in {"ok", "refused", "raised"} : SendChunk(c, C, done, answer)
    <2>1. \E p : pc' = [pc EXCEPT ![c] = p] BY <1>8 DEF SendChunk, Goto, Course
    <2> QED BY <1>8, <2>1, OneAlone DEF SendChunk, hands
  <1> QED BY <1>1, <1>3, <1>4, <1>5, <1>6, <1>7, <1>8 DEF Run

(* A plan names a step once, hence verifies once; so does what is left of it.*)
LEMMA TailLeft ==
    ASSUME NEW s \in Seq(Steps), s # <<>>, Distinct(s)
    PROVE  /\ Tail(s) \in Seq(Steps) /\ Distinct(Tail(s))
           /\ Ahead(Tail(s)) => Ahead(s) /\ Head(s) # "verify"
  <1>1. Len(s) \in Nat \ {0} /\ Len(Tail(s)) = Len(s) - 1
    OBVIOUS
  <1>2. \A i \in 1..Len(Tail(s)) : i + 1 \in 1..Len(s) /\ Tail(s)[i] = s[i + 1]
    BY <1>1
  <1>3. Head(s) = s[1] /\ 1 \in 1..Len(s)
    BY <1>1
  <1>4. Distinct(Tail(s))
    <2> SUFFICES ASSUME NEW i \in 1..Len(Tail(s)), NEW j \in 1..Len(Tail(s)), Tail(s)[i] = Tail(s)[j]
                 PROVE  i = j
      BY DEF Distinct
    <2>1. i + 1 \in 1..Len(s) /\ j + 1 \in 1..Len(s) /\ s[i + 1] = s[j + 1] BY <1>2
    <2>2. i + 1 = j + 1 BY <2>1 DEF Distinct
    <2> QED BY <1>1, <2>2
  <1>5. ASSUME NEW i \in 1..Len(Tail(s)), Tail(s)[i] = "verify"
        PROVE  Ahead(s) /\ Head(s) # "verify"
    <2>1. i + 1 \in 1..Len(s) /\ s[i + 1] = "verify" BY <1>2, <1>5
    <2>2. s[1] = "verify" => i + 1 = 1 BY <1>3, <2>1 DEF Distinct
    <2>3. i + 1 # 1 BY <1>1
    <2> QED BY <1>3, <2>1, <2>2, <2>3 DEF Ahead
  <1> QED BY <1>4, <1>5 DEF Ahead

\* A step of the run that asks nothing of Telegram that is guarded: it stays
\* within its part of the plan, or goes on to the next
Plain(c) ==
    /\ GuardOf(c)' = GuardOf(c) /\ hist' = hist /\ member' = member
    /\ pc[c] \notin {"off", "look", "lookin"} /\ pc'[c] \notin {"off", "look", "lookin"}
    /\ \/ /\ steps'[c] = steps[c] /\ steps[c] # <<>>
          /\ pc'[c] = "join" => pc[c] = "join" \/ Head(steps[c]) = "verify"
       \/ steps'[c] = steps[c] /\ pc'[c] = "swept"
       \/ steps'[c] = Tail(steps[c]) /\ steps[c] # <<>> /\ pc'[c] = "next"

LEMMA PlainSane ==
    ASSUME NEW c \in Collectors, Sane(c), Plain(c)
    PROVE  Sane(c)'
  <1> DEFINE s == steps[c]
  <1>0. /\ s \in Seq(Steps) /\ Distinct(s)
        /\ s # <<>> => /\ Tail(s) \in Seq(Steps) /\ Distinct(Tail(s))
                       /\ Ahead(Tail(s)) => Ahead(s)
    BY TailLeft DEF Sane, Placed
  <1> HIDE DEF s
  <1>1. Placed(c)'
    <2>1. CASE steps'[c] = s /\ s # <<>> /\ (pc'[c] = "join" => pc[c] = "join" \/ Head(s) = "verify")
      <3>1. pc[c] = "join" => Head(s) = "verify" BY DEF Sane, Placed, s
      <3> QED BY <1>0, <2>1, <3>1 DEF Placed, Plain
    <2>2. CASE steps'[c] = s /\ pc'[c] = "swept"
      BY <1>0, <2>2 DEF Placed, Within
    <2>3. CASE steps'[c] = Tail(s) /\ s # <<>> /\ pc'[c] = "next"
      BY <1>0, <2>3 DEF Placed, Within
    <2> QED BY <2>1, <2>2, <2>3 DEF Plain, s
  <1>2. Careful(c)' BY DEF Sane, Careful, Plain, hist
  <1>3. Polite(c)' BY DEF Sane, Polite, Plain, hist
  <1>4. Frugal(c)'
    <2>1. Ahead(steps'[c]) => Ahead(s) BY <1>0 DEF Plain, s
    <2>2. GuardOf(c)' = GuardOf(c) /\ joins' = joins /\ pc'[c] # "off" BY DEF Plain, hist
    <2> QED BY <2>1, <2>2 DEF Sane, Frugal, s
  <1> QED BY <1>1, <1>2, <1>3, <1>4 DEF Sane

LEMMA SameGuard ==
    ASSUME Stores, NEW c \in Collectors,
           disk' = disk \/ (\E items : disk' = [disk EXCEPT ![c].cat = items]), today' = today
    PROVE  GuardOf(c)' = GuardOf(c)
  <1>1. disk'[c].guard[c] = disk[c].guard[c]
    <2>1. disk[c] \in Pool /\ disk \in [Collectors -> Pool] BY DEF Stores
    <2>2. ASSUME NEW items, disk' = [disk EXCEPT ![c].cat = items]
          PROVE  disk'[c].guard = disk[c].guard
      <3>1. disk'[c] = [disk[c] EXCEPT !.cat = items] BY <2>1, <2>2
      <3> QED BY <2>1, <3>1 DEF Pool
    <2> QED BY <2>2
  <1> QED BY <1>1 DEF GuardOf, Rolled

LEMMA LeavePlain ==
    ASSUME Typed, Course, NEW c \in Collectors, Leave(c), hist' = hist, member' = member,
           disk' = disk \/ (\E items : disk' = [disk EXCEPT ![c].cat = items]),
           pc[c] \notin {"off", "look", "lookin"}, steps[c] # <<>>, today' = today
    PROVE  Plain(c)
  <1>1. GuardOf(c)' = GuardOf(c) BY SameGuard DEF Typed
  <1>2. steps'[c] = Tail(steps[c]) /\ pc'[c] = "next" BY DEF Course, Leave, Goto
  <1> QED BY <1>1, <1>2 DEF Plain

\* The step goes on with another part
LEMMA MovePlain ==
    ASSUME Typed, Course, NEW c \in Collectors, NEW p \in (Within \cup {"next"}) \ {"look", "lookin"},
           pc' = [pc EXCEPT ![c] = p] \/ (pc' = pc /\ p = pc[c]), steps' = steps,
           hist' = hist, member' = member,
           disk' = disk \/ (\E items : disk' = [disk EXCEPT ![c].cat = items]),
           pc[c] \notin {"off", "look", "lookin"}, steps[c] # <<>>, today' = today,
           p = "join" => pc[c] = "join" \/ Head(steps[c]) = "verify"
    PROVE  Plain(c)
  <1>1. GuardOf(c)' = GuardOf(c) BY SameGuard DEF Typed
  <1>2. pc'[c] = p BY DEF Course
  <1> QED BY <1>1, <1>2 DEF Plain, Within

LEMMA SearchPlain ==
    ASSUME Typed, Course, NEW c \in Collectors, Sane(c), Search(c) \/ Ranks(c)
    PROVE  Plain(c)
  <1>0. pc[c] \in Within => steps[c] # <<>> BY DEF Sane, Placed
  <1>1. ASSUME NEW J \in SUBSET Jobs, Claim(c, J) PROVE Plain(c)
    <2>1. CASE J = {} BY <1>1, <2>1, LeavePlain DEF Claim, Step, env
    <2>2. CASE J # {}
      <3>1. Goto(c, "query") /\ steps' = steps BY <1>1, <2>2 DEF Claim
      <3> QED BY <1>1, <3>1, MovePlain DEF Claim, Step, Goto, Within, env
    <2> QED BY <2>1, <2>2
  <1>2. ASSUME NEW j \in Jobs, NEW F \in SUBSET Chats, NEW heard \in BOOLEAN,
               NEW answer \in {"ok", "error"}, Query(c, j, answer, F, heard)
        PROVE  Plain(c)
    <2>1. /\ pc[c] = "query" /\ (Goto(c, "enrich") \/ pc' = pc)
          /\ UNCHANGED <<steps, disk, member, hist, today>>
      BY <1>2 DEF Query, env
    <2>2. CASE Goto(c, "enrich") BY <1>0, <2>1, <2>2, MovePlain DEF Goto, Within
    <2>3. CASE pc' = pc BY <1>0, <2>1, <2>3, MovePlain DEF Within
    <2> QED BY <2>1, <2>2, <2>3
  <1>3. ASSUME NEW E \in SUBSET Chats, NEW view \in Views, Enrich(c, E, view) PROVE Plain(c)
    <2>1. pc[c] = "enrich" /\ Goto(c, "save") /\ UNCHANGED <<steps, disk, member, hist, today>>
      BY <1>3 DEF Enrich, NoChange, env
    <2> QED BY <1>0, <2>1, MovePlain DEF Goto, Within
  <1>4. ASSUME NEW heard \in BOOLEAN, BeginRerank(c, heard) PROVE Plain(c)
    <2>1. CASE Leave(c) BY <1>4, <2>1, LeavePlain DEF BeginRerank, Step, NoChange, env
    <2>2. CASE (Goto(c, "rank") \/ Goto(c, "save")) /\ steps' = steps
      BY <1>4, <2>2, MovePlain DEF BeginRerank, Step, NoChange, Goto, Within, env
    <2> QED BY <1>4, <2>1, <2>2 DEF BeginRerank
  <1>5. ASSUME NEW ch \in Chats, NEW l \in Seen(ch), Rerank(c, ch, l) PROVE Plain(c)
    <2>1. /\ pc[c] = "rank" /\ (Goto(c, "save") \/ pc' = pc)
          /\ UNCHANGED <<steps, disk, member, hist, today>>
      BY <1>5 DEF Rerank, env
    <2>2. CASE Goto(c, "save") BY <1>0, <2>1, <2>2, MovePlain DEF Goto, Within
    <2>3. CASE pc' = pc BY <1>0, <2>1, <2>3, MovePlain DEF Within
    <2> QED BY <2>1, <2>2, <2>3
  <1> QED BY <1>1, <1>2, <1>3, <1>4, <1>5 DEF Search, Ranks

(* A guarded request that keeps its place: it is only made while the circuit *)
(* is closed, hence before any flood, and a flood opens it.                  *)
LEMMA AskedSane ==
    ASSUME Typed, Course, NEW c \in Collectors, Sane(c), NEW a \in Actions, Allow(c, a),
           NEW answer, Asked(c, answer), NEW g \in Leaves(c, a), SaveGuard(c, g),
           answer = "flood" => g.open, today' = today
    PROVE  /\ ~flooded[c] /\ ~pressed'[c] /\ (flooded'[c] => GuardOf(c)'.open)
           /\ GuardOf(c)' = g /\ GuardOf(c).used["join"] <= g.used["join"]
           /\ GuardOf(c).used["join"] \in Nat
           /\ GuardOf(c).used["join"] <= Limit["join"]
  <1>1. ~GuardOf(c).open BY DEF Allow
  <1>2. ~flooded[c] /\ ~pressed[c] BY <1>1 DEF Sane, Careful
  <1>3. /\ GuardOf(c) \in Guard /\ GuardOf(c).used["join"] <= Limit["join"]
        /\ GuardOf(c).day = today
    BY OwnGuard DEF Typed, Guards, Actions
  <1>4. g.day = today BY <1>3 DEF Leaves, Recorded, Opened, Guard
  <1>5. GuardOf(c)' = g
    <2>1. disk'[c].guard[c] = g BY DEF Typed, Stores, Pool, SaveGuard
    <2> QED BY <1>4, <2>1 DEF GuardOf, Rolled
  <1>6. (flooded'[c] => answer = "flood") /\ ~pressed'[c] BY <1>2 DEF Course, Asked
  <1>7. \A h \in Guard : Opened(h).used = h.used BY DEF Opened, Guard
  <1>8. Recorded(GuardOf(c), a) \in Guard BY <1>3 DEF Recorded, Guard
  <1>9. GuardOf(c).used["join"] <= Recorded(GuardOf(c), a).used["join"]
    BY <1>3 DEF Recorded, Guard, Actions
  <1>10. GuardOf(c).used["join"] \in Nat BY <1>3 DEF Guard, Actions
  <1>11. GuardOf(c).used["join"] <= g.used["join"]
    BY <1>3, <1>7, <1>8, <1>9, <1>10 DEF Leaves
  <1>12. flooded'[c] => GuardOf(c)'.open BY <1>5, <1>6
  <1> QED BY <1>2, <1>3, <1>5, <1>6, <1>10, <1>11, <1>12

(* A guard on which a flood was noted is open.                               *)
LEMMA OpenedOpen ==
    ASSUME Typed, NEW c \in Collectors, NEW a \in Actions
    PROVE  Opened(GuardOf(c)).open /\ Opened(Recorded(GuardOf(c), a)).open
  <1>1. GuardOf(c) \in Guard BY OwnGuard DEF Typed, Guards
  <1>2. Recorded(GuardOf(c), a) \in Guard BY <1>1 DEF Recorded, Guard
  <1> QED BY <1>1, <1>2 DEF Opened, Guard

LEMMA OwnGuardThen ==
    ASSUME Stores', World', NEW c \in Collectors
    PROVE  GuardOf(c)' \in Guards
  <1>1. disk'[c].guard[c] \in Guards /\ today' \in 0..MaxDays BY DEF Stores, Pool, World
  <1>2. NewGuard \in Guards BY EmptyTyped
  <1> QED BY <1>1, <1>2 DEF GuardOf, Rolled, Guards, Guard

LEMMA RequestSane ==
    ASSUME Typed, Course, NEW c \in Collectors, Sane(c), NEW a \in Actions, Allow(c, a),
           NEW answer, NEW g \in Leaves(c, a), Request(c, g, answer), pc' = pc,
           pc[c] \in {"read", "resolve", "peek"}, answer = "flood" => g.open
    PROVE  Sane(c)'
  <1>1. /\ ~pressed'[c] /\ (flooded'[c] => GuardOf(c)'.open)
        /\ GuardOf(c)' = g /\ GuardOf(c).used["join"] <= g.used["join"]
        /\ GuardOf(c).used["join"] \in Nat
    BY AskedSane DEF Request, env
  <1>2. UNCHANGED <<pc, steps, member, joins, excused>> BY DEF Request
  <1>3. Placed(c)' BY <1>2 DEF Sane, Placed
  <1>4. Careful(c)' BY <1>1, <1>2 DEF Careful
  <1>5. Polite(c)' BY <1>2 DEF Sane, Polite
  <1>6. g.used["join"] \in Nat
    <2>1. g \in Guards BY OwnGuard DEF Typed, Leaves
    <2> QED BY <2>1 DEF Guards, Guard, Actions
  <1>7. Frugal(c)' BY <1>1, <1>2, <1>6 DEF Sane, Frugal
  <1> QED BY <1>3, <1>4, <1>5, <1>7 DEF Sane

LEMMA SnowballSane ==
    ASSUME Typed, Course, NEW c \in Collectors, Sane(c), Snowball(c)
    PROVE  Sane(c)'
  <1>0. pc[c] \in Within => steps[c] # <<>> BY DEF Sane, Placed
  <1>1. ASSUME NEW heard \in BOOLEAN, BeginSnowball(c, heard) PROVE Sane(c)'
    <2>1. CASE Leave(c)
      BY <1>1, <2>1, LeavePlain, PlainSane DEF BeginSnowball, Step, NoChange, env
    <2>2. CASE Goto(c, "read") /\ steps' = steps
      BY <1>1, <2>2, MovePlain, PlainSane DEF BeginSnowball, Step, NoChange, Goto, Within, env
    <2> QED BY <1>1, <2>1, <2>2 DEF BeginSnowball
  <1>2. ASSUME NEW s \in Chats, NEW F \in SUBSET Chats, NEW got \in BOOLEAN,
               NEW answer \in {"ok", "error", "flood"}, ReadSeed(c, s, got, answer, F)
        PROVE  Sane(c)'
    <2> DEFINE G == IF got THEN Recorded(GuardOf(c), "seed_read") ELSE GuardOf(c)
               g == IF answer = "flood" THEN Opened(G) ELSE G
    <2>1. g \in Leaves(c, "seed_read") /\ (answer = "flood" => g.open)
      BY OpenedOpen DEF Leaves, Actions
    <2>2. /\ Request(c, g, answer) /\ Allow(c, "seed_read")
          /\ pc' = pc /\ pc[c] \in {"read", "resolve", "peek"}
      BY <1>2 DEF ReadSeed
    <2> HIDE DEF g
    <2> QED BY <2>1, <2>2, RequestSane DEF Actions
  <1>3. ASSUME NEW ch \in Chats, NEW l \in Seen(ch), Resolve(c, ch, l) PROVE Sane(c)'
    BY <1>3, RequestSane DEF Resolve, Actions, Leaves
  <1>4. ASSUME NEW ch \in Chats, NEW answer \in {"ok", "error", "flood"}, NEW l \in Seen(ch),
               Peek(c, ch, answer, l)
        PROVE  Sane(c)'
    <2> DEFINE g == CASE answer = "ok" -> Recorded(GuardOf(c), "invite_peek")
                      [] answer = "flood" -> Opened(GuardOf(c))
                      [] OTHER -> GuardOf(c)
    <2>1. g \in Leaves(c, "invite_peek") /\ (answer = "flood" => g.open)
      BY OpenedOpen DEF Leaves, Actions
    <2>2. /\ Request(c, g, answer) /\ Allow(c, "invite_peek")
          /\ pc' = pc /\ pc[c] \in {"read", "resolve", "peek"}
      BY <1>4 DEF Peek
    <2> HIDE DEF g
    <2> QED BY <2>1, <2>2, RequestSane DEF Actions
  <1>5. CASE StopReading(c)
    BY <1>0, <1>5, MovePlain, PlainSane DEF StopReading, NoChange, Goto, Within, env
  <1>6. CASE StopResolving(c)
    BY <1>0, <1>6, MovePlain, PlainSane DEF StopResolving, NoChange, Goto, Within, env
  <1>7. CASE StopPeeking(c)
    BY <1>0, <1>7, MovePlain, PlainSane DEF StopPeeking, NoChange, Goto, Within, env
  <1> QED BY <1>1, <1>2, <1>3, <1>4, <1>5, <1>6, <1>7 DEF Snowball

(* A join is recorded with the answer; the chat it was joined for is the one *)
(* that is looked at (method_verify_postable.py:205).                        *)
LEMMA JoinSane ==
    ASSUME Typed, Course, NEW c \in Collectors, Sane(c), NEW ch \in Chats,
           NEW answer \in {"joined", "already", "flood", "refused"}, Join(c, ch, answer)
    PROVE  Sane(c)'
  <1> DEFINE G == GuardOf(c)
             g == CASE answer \in {"joined", "already"} -> Recorded(G, "join")
                    [] answer = "flood" -> Opened(G)
                    [] OTHER -> G
  <1>0. Allow(c, "join") /\ Asked(c, answer) /\ SaveGuard(c, g) /\ pc[c] = "join"
    BY DEF Join, JoinRecorded
  <1>1. /\ ~pressed'[c] /\ (flooded'[c] => GuardOf(c)'.open)
        /\ GuardOf(c)' = g /\ G.used["join"] <= g.used["join"]
        /\ G.used["join"] \in Nat /\ G.used["join"] <= Limit["join"]
    <2>1. answer = "flood" => g.open BY OpenedOpen DEF Actions
    <2>2. g \in Leaves(c, "join") BY DEF Leaves
    <2>3. today' = today BY DEF Join, env
    <2> HIDE DEF g
    <2> QED BY <1>0, <2>1, <2>2, <2>3, AskedSane DEF Actions
  <1>2. steps' = steps /\ excused' = excused BY DEF Join
  <1>3. pc'[c] = CASE answer = "joined" -> "look"
                   [] answer = "already" -> "lookin"
                   [] OTHER -> "join"
    BY DEF Join, Course
  <1>4. Placed(c)' BY <1>0, <1>2, <1>3 DEF Sane, Placed, Within
  <1>5. Careful(c)' BY <1>1, <1>3 DEF Careful
  <1>6. Polite(c)'
    <2>1. member[c] \subseteq excused[c] BY <1>0 DEF Sane, Polite
    <2>2. CASE answer = "joined"
      <3>1. member'[c] = member[c] \cup {ch} /\ found'[c] = {ch} BY <2>2 DEF Join, Typed, Hands
      <3> QED BY <1>2, <1>3, <2>1, <2>2, <3>1 DEF Polite
    <2>3. CASE answer # "joined"
      <3>1. member'[c] = member[c] BY <2>3 DEF Join, Typed, Hands
      <3> QED BY <1>2, <1>3, <2>1, <2>3, <3>1 DEF Polite
    <2> QED BY <2>2, <2>3
  <1>7. Frugal(c)'
    <2>1. Ahead(steps[c])
      <3>1. steps[c] # <<>> /\ Head(steps[c]) = "verify" /\ steps[c] \in Seq(Steps)
        BY <1>0 DEF Sane, Placed, Within
      <3>2. 1 \in 1..Len(steps[c]) /\ steps[c][1] = "verify" BY <3>1
      <3> QED BY <3>2 DEF Ahead
    <2>2. joins[c] \in Nat /\ joins[c] <= G.used["join"] BY <2>1 DEF Sane, Frugal
    <2>3. G.used["join"] < Limit["join"] /\ Limit["join"] \in Nat
      BY <1>0, LinkdirAssumption DEF Allow, Actions
    <2>4. CASE answer = "joined"
      <3>1. joins'[c] = joins[c] + 1 BY <2>4 DEF Join, Course
      <3>2. G \in Guard BY OwnGuard DEF Typed, Guards
      <3>3. g.used["join"] = G.used["join"] + 1
        BY <2>4, <3>2 DEF Recorded, Guard, Actions
      <3> HIDE DEF G, g
      <3> QED BY <1>1, <1>3, <2>2, <2>3, <2>4, <3>1, <3>3 DEF Frugal
    <2>5. CASE answer # "joined"
      <3>1. joins'[c] = joins[c] BY <2>5 DEF Join, Course
      <3>2. g.used["join"] \in Nat
        <4>1. G \in Guards /\ Opened(G) \in Guards /\ Recorded(G, "join") \in Guards
          BY <1>0, OwnGuard DEF Typed, Actions
        <4>2. g \in Guards BY <4>1
        <4> HIDE DEF g
        <4> QED BY <4>2 DEF Guards, Guard, Actions
      <3> HIDE DEF G, g
      <3> QED BY <1>1, <1>3, <2>2, <2>3, <2>5, <3>1, <3>2 DEF Frugal
    <2> QED BY <2>4, <2>5
  <1> QED BY <1>4, <1>5, <1>6, <1>7 DEF Sane

(* The chat that was joined is left, or it is excused.                       *)
LEMMA LookSane ==
    ASSUME Typed, Course, NEW c \in Collectors, Sane(c), NEW ch \in Chats,
           NEW l \in Seen(ch), NEW left \in BOOLEAN, VerifyLook(c, ch, l, left)
    PROVE  Sane(c)'
  <1>1. /\ pc[c] \in {"look", "lookin"} /\ ch \in found[c] /\ pc'[c] = "join"
        /\ UNCHANGED <<today, steps, disk, joins, flooded, pressed>>
    BY DEF VerifyLook, Goto, Course, env
  <1>2. Placed(c)' BY <1>1 DEF Sane, Placed, Within
  <1>3. Careful(c)' BY <1>1 DEF Sane, Careful, GuardOf, Rolled
  <1>4. Frugal(c)' BY <1>1 DEF Sane, Frugal, GuardOf, Rolled
  <1>5. member'[c] \subseteq excused'[c]
    <2>1. CASE pc[c] = "look"
      <3>1. found[c] = {ch} BY <1>1, <2>1 DEF Sane, Polite
      <3>2. member[c] \ excused[c] \subseteq {ch} BY <3>1 DEF Sane, Polite
      <3>3. /\ member'[c] = IF left THEN member[c] \ {ch} ELSE member[c]
            /\ excused'[c] = IF left THEN excused[c] ELSE excused[c] \cup {ch}
        BY <2>1 DEF VerifyLook, LeaveAfter, Typed, Hands, Course
      <3> QED BY <3>2, <3>3
    <2>2. CASE pc[c] = "lookin"
      <3>1. member' = member /\ excused' = excused BY <2>2 DEF VerifyLook
      <3> QED BY <2>2, <3>1 DEF Sane, Polite
    <2> QED BY <1>1, <2>1, <2>2
  <1>6. Polite(c)' BY <1>1, <1>5 DEF Polite
  <1> QED BY <1>2, <1>3, <1>4, <1>6 DEF Sane

(* A join without an answer is not recorded, but it ends the step that       *)
(* joins.                                                                    *)
LEMMA LostSane ==
    ASSUME Typed, Course, NEW c \in Collectors, Sane(c), NEW ch \in Chats,
           NEW done \in BOOLEAN, JoinLost(c, ch, done)
    PROVE  Sane(c)'
  <1> DEFINE s == steps[c]
  <1>1. /\ pc[c] = "join" /\ Allow(c, "join") /\ Asked(c, "lost") /\ disk' = disk
        /\ pc'[c] = "next" /\ steps'[c] = Tail(s)
    BY DEF JoinLost, Leave, Goto, Course
  <1>2. s \in Seq(Steps) /\ s # <<>> /\ Distinct(s) /\ Head(s) = "verify"
    BY <1>1 DEF Sane, Placed, Within
  <1>3. Tail(s) \in Seq(Steps) /\ Distinct(Tail(s)) /\ ~Ahead(Tail(s))
    BY <1>2, TailLeft
  <1>4. Placed(c)' BY <1>1, <1>3 DEF Placed, Within
  <1>5. ~flooded[c] BY <1>1 DEF Sane, Careful, Allow
  <1>6. Careful(c)'
    <2>1. ~flooded'[c] /\ ~pressed'[c] BY <1>1, <1>5 DEF Asked, Course, Sane, Careful
    <2> QED BY <2>1 DEF Careful
  <1>7. Polite(c)'
    <2>1. member[c] \subseteq excused[c] BY <1>1 DEF Sane, Polite
    <2>2. /\ member'[c] = IF done THEN member[c] \cup {ch} ELSE member[c]
          /\ excused'[c] = IF done THEN excused[c] \cup {ch} ELSE excused[c]
      BY DEF JoinLost, Typed, Hands, Course
    <2> QED BY <1>1, <2>1, <2>2 DEF Polite
  <1>8. Frugal(c)'
    <2>0. Stores /\ World BY DEF Typed
    <2>1. Ahead(s)
      <3>1. 1 \in 1..Len(s) /\ s[1] = "verify" BY <1>2
      <3> QED BY <3>1 DEF Ahead
    <2>2. joins[c] \in Nat /\ joins[c] <= GuardOf(c).used["join"] BY <2>1 DEF Sane, Frugal
    <2>3. GuardOf(c).used["join"] < Limit["join"] /\ Limit["join"] \in Nat
      BY <1>1, LinkdirAssumption DEF Allow, Actions
    <2>4. GuardOf(c).used["join"] \in Nat
      BY OwnGuard DEF Typed, Guards, Guard, Actions
    <2>5. joins'[c] = IF done THEN joins[c] + 1 ELSE joins[c] BY DEF JoinLost, Course
    <2> QED BY <1>1, <1>3, <2>2, <2>3, <2>4, <2>5 DEF Frugal
  <1> QED BY <1>4, <1>6, <1>7, <1>8 DEF Sane

LEMMA VerifySane ==
    ASSUME Typed, Course, NEW c \in Collectors, Sane(c), Verify(c)
    PROVE  Sane(c)'
  <1>1. ASSUME NEW heard \in BOOLEAN, NEW T \in SUBSET Chats, BeginVerify(c, heard, T)
        PROVE  Sane(c)'
    <2>1. CASE Leave(c)
      BY <1>1, <2>1, LeavePlain, PlainSane DEF BeginVerify, Step, NoChange, env
    <2>2. CASE Goto(c, "join") /\ steps' = steps
      BY <1>1, <2>2, MovePlain, PlainSane DEF BeginVerify, Step, NoChange, Goto, Within, env
    <2> QED BY <1>1, <2>1, <2>2 DEF BeginVerify
  <1>2. CASE StopJoining(c)
    <2>1. pc[c] = "join" /\ Goto(c, "save") /\ steps' = steps /\ disk' = disk
          /\ hist' = hist /\ member' = member /\ steps[c] # <<>> /\ today' = today
      BY <1>2 DEF StopJoining, NoChange, Sane, Placed, Within, env
    <2> QED BY <2>1, MovePlain, PlainSane DEF Goto, Within
  <1> QED BY <1>1, <1>2, JoinSane, LookSane, LostSane DEF Verify

LEMMA RunSane ==
    ASSUME Typed, Course, NEW c \in Collectors, Sane(c), Run(c)
    PROVE  Sane(c)'
  <1>0. pc[c] \in Within => steps[c] # <<>> BY DEF Sane, Placed
  <1>1. ASSUME NEW p \in Plans, NEW g \in Aged(Restored.guard[c]), Begin(c, p, g)
        PROVE  Sane(c)'
    <2>1. /\ pc[c] = "off" /\ pc'[c] = "next" /\ steps'[c] = p
          /\ UNCHANGED <<found, member, joins, excused, flooded, pressed>>
      BY <1>1 DEF Begin, Goto, Course, hist, hands
    <2>2. p \in Seq(Steps) /\ Distinct(p) BY LinkdirAssumption DEF Distinct
    <2>3. Placed(c)' BY <2>1, <2>2 DEF Placed, Within
    <2>4. Careful(c)' BY <2>1 DEF Sane, Careful
    <2>5. Polite(c)' BY <2>1 DEF Sane, Polite
    <2>6. GuardOf(c)' \in Guards
      <3>1. Stores' /\ World' BY <1>1, StoresStep, WorldStep DEF Next, Run
      <3> QED BY <3>1, OwnGuardThen
    <2>7. GuardOf(c)'.used["join"] \in Nat BY <2>6 DEF Guards, Guard, Actions
    <2>8. Frugal(c)' BY <2>1, <2>7, LinkdirAssumption DEF Sane, Frugal, Actions
    <2> QED BY <2>3, <2>4, <2>5, <2>8 DEF Sane
  <1>2. ASSUME NEW then \in {"sweep", "export", "leave"}, BeginFlush(c, then) \/ Goto(c, then),
               pc[c] \in {"save", "sweep", "export"}, NEW items,
               disk' = [disk EXCEPT ![c].cat = items],
               UNCHANGED <<today, steps, hist, member>>
        PROVE  Sane(c)'
    <2>1. \E p \in {"sweep", "export", "leave", "send"} : Goto(c, p) BY <1>2 DEF BeginFlush
    <2> QED BY <1>0, <1>2, <2>1, MovePlain, PlainSane DEF Goto, Within
  <1>3. ASSUME Save(c) \/ Sweep(c) \/ \E told \in BOOLEAN : Export(c, told) PROVE Sane(c)'
    <2>1. /\ pc[c] \in {"save", "sweep", "export"}
          /\ \E items : disk' = [disk EXCEPT ![c].cat = items]
          /\ UNCHANGED <<today, steps, hist, member>>
      BY <1>3 DEF Save, Sweep, Export, env
    <2>2. \E then \in {"sweep", "export", "leave"} : BeginFlush(c, then) \/ Goto(c, then)
      BY <1>3 DEF Save, Sweep, Export
    <2> QED BY <1>2, <2>1, <2>2
  <1>4. CASE Raises(c) \/ StepEnds(c)
    <2>1. /\ pc[c] \in {"query", "peek", "leave"} /\ Leave(c) /\ hist' = hist /\ member' = member
          /\ disk' = disk /\ today' = today
      BY <1>4 DEF Raises, StepEnds, NoChange, env
    <2> QED BY <1>0, <2>1, LeavePlain, PlainSane DEF Within
  <1>5. ASSUME NEW told \in BOOLEAN, Finish(c, told) PROVE Sane(c)'
    <2>1. /\ pc[c] = "next" /\ pc'[c] = "swept" /\ steps' = steps /\ hist' = hist
          /\ member' = member /\ \E items : disk' = [disk EXCEPT ![c].cat = items]
          /\ today' = today
      BY <1>5 DEF Finish, Goto, Course, env
    <2>2. GuardOf(c)' = GuardOf(c) BY <2>1, SameGuard DEF Typed
    <2> QED BY <2>1, <2>2, PlainSane DEF Plain
  <1>6. CASE End(c)
    <2>1. /\ pc'[c] = "off" /\ steps'[c] = <<>> /\ joins'[c] = 0 /\ ~flooded'[c] /\ ~pressed'[c]
          /\ excused'[c] = (IF pc[c] = "look" THEN excused[c] \cup found[c] ELSE excused[c])
          /\ member' = member
      BY <1>6 DEF End, Goto, Forget, Course
    <2>2. Placed(c)' BY <2>1 DEF Placed, Within, Distinct
    <2>3. Careful(c)' BY <2>1 DEF Careful
    <2>4. Polite(c)' BY <2>1 DEF Sane, Polite
    <2>5. Frugal(c)'
      <3>1. ~Ahead(<<>>) BY DEF Ahead
      <3> QED BY <2>1, <3>1, LinkdirAssumption DEF Frugal, Actions
    <2> QED BY <2>2, <2>3, <2>4, <2>5 DEF Sane
  <1>7. ASSUME NEW C \in SUBSET Chats, NEW done \in BOOLEAN, NEW answer,
               SendChunk(c, C, done, answer)
        PROVE  Sane(c)'
    <2>1. out[c].then \in {"next", "sweep", "export", "leave"} BY DEF Typed, Ledger, Batch
    <2>2. /\ pc[c] = "send" /\ (Goto(c, out[c].then) \/ pc' = pc)
          /\ UNCHANGED <<today, disk, steps, hist, member>>
      BY <1>7 DEF SendChunk, env
    <2>3. CASE pc' = pc BY <1>0, <2>2, <2>3, MovePlain, PlainSane DEF Within
    <2>4. CASE Goto(c, out[c].then)
      BY <1>0, <2>1, <2>2, <2>4, MovePlain, PlainSane DEF Goto, Within
    <2> QED BY <2>2, <2>3, <2>4
  <1> QED BY <1>1, <1>3, <1>4, <1>5, <1>6, <1>7 DEF Run

(* At midnight the joins count anew, and so does the guard.                  *)
LEMMA MidnightSane ==
    ASSUME Typed, Course, Midnight
    PROVE  Course' /\ \A c \in Collectors : Sane(c) => Sane(c)'
  <1>1. UNCHANGED <<pc, steps, disk, found, member, excused, flooded, pressed>>
        /\ joins' = [c \in Collectors |-> 0]
    BY DEF Midnight, hands
  <1>2. Course' BY <1>1 DEF Course
  <1>3. ASSUME NEW c \in Collectors, Sane(c) PROVE Sane(c)'
    <2>1. GuardOf(c)'.open = GuardOf(c).open
      BY <1>1 DEF GuardOf, Rolled, Typed, Stores, Pool, Guards, Guard
    <2>2. GuardOf(c)'.used["join"] \in Nat
      <3>1. Stores' /\ World' BY StoresStep, WorldStep DEF Next
      <3>2. GuardOf(c)' \in Guards BY <3>1, OwnGuardThen
      <3> QED BY <3>2 DEF Guards, Guard, Actions
    <2>3. Placed(c)' /\ Polite(c)' BY <1>1, <1>3 DEF Sane, Placed, Polite
    <2>4. Careful(c)' BY <1>1, <1>3, <2>1 DEF Sane, Careful
    <2>5. Frugal(c)' BY <1>1, <1>3, <2>2, LinkdirAssumption DEF Sane, Frugal, Actions
    <2> QED BY <2>3, <2>4, <2>5 DEF Sane
  <1> QED BY <1>2, <1>3

(* Only midnight changes the day.                                            *)
LEMMA DayStays ==
    ASSUME NEW c \in Collectors, Search(c) \/ Snowball(c) \/ Ranks(c) \/ Verify(c) \/ Run(c)
    PROVE  today' = today
  <1>1. CASE Search(c) BY <1>1 DEF Search, Claim, Query, Enrich, NoChange, env
  <1>2. CASE Snowball(c)
    <2>1. CASE \E heard \in BOOLEAN : BeginSnowball(c, heard)
      BY <2>1 DEF BeginSnowball, NoChange, env
    <2>2. CASE StopReading(c) \/ StopResolving(c) \/ StopPeeking(c)
      BY <2>2 DEF StopReading, StopResolving, StopPeeking, NoChange, env
    <2>3. CASE \E s \in Chats, F \in SUBSET Chats, got \in BOOLEAN :
                 \E answer \in {"ok", "error", "flood"} : ReadSeed(c, s, got, answer, F)
      BY <2>3 DEF ReadSeed, Request, env
    <2>4. CASE \E ch \in Chats : \E l \in Seen(ch) : Resolve(c, ch, l)
      BY <2>4 DEF Resolve, Request, env
    <2>5. CASE \E ch \in Chats, answer \in {"ok", "error", "flood"} :
                 \E l \in Seen(ch) : Peek(c, ch, answer, l)
      BY <2>5 DEF Peek, Request, env
    <2> QED BY <1>2, <2>1, <2>2, <2>3, <2>4, <2>5 DEF Snowball
  <1>3. CASE Ranks(c) BY <1>3 DEF Ranks, BeginRerank, Rerank, NoChange, env
  <1>4. CASE Verify(c)
    <2>1. CASE \E heard \in BOOLEAN, T \in SUBSET Chats : BeginVerify(c, heard, T)
      BY <2>1 DEF BeginVerify, NoChange, env
    <2>2. CASE \E ch \in Chats, answer \in {"joined", "already", "flood", "refused"} :
                 Join(c, ch, answer)
      BY <2>2 DEF Join, env
    <2>3. CASE \E ch \in Chats : \E l \in Seen(ch), left \in BOOLEAN : VerifyLook(c, ch, l, left)
      BY <2>3 DEF VerifyLook, env
    <2>4. CASE \E ch \in Chats, done \in BOOLEAN : JoinLost(c, ch, done)
      BY <2>4 DEF JoinLost, env
    <2>5. CASE StopJoining(c) BY <2>5 DEF StopJoining, NoChange, env
    <2> QED BY <1>4, <2>1, <2>2, <2>3, <2>4, <2>5 DEF Verify
  <1>5. CASE Run(c)
    <2>1. CASE \E C \in SUBSET Chats, done \in BOOLEAN :
                 \E answer \in {"ok", "refused", "raised"} : SendChunk(c, C, done, answer)
      BY <2>1 DEF SendChunk, env
    <2>2. CASE Save(c) \/ Sweep(c) \/ \E told \in BOOLEAN : Export(c, told) \/ Finish(c, told)
      BY <2>2 DEF Save, Sweep, Export, Finish, env
    <2>3. CASE \/ \E p \in Plans : \E g \in Aged(Restored.guard[c]) : Begin(c, p, g)
               \/ StepEnds(c) \/ Raises(c) \/ End(c)
      BY <2>3 DEF Begin, StepEnds, Raises, End, NoChange, env
    <2> QED BY <1>5, <2>1, <2>2, <2>3 DEF Run
  <1> QED BY <1>1, <1>2, <1>3, <1>4, <1>5

LEMMA RunInit == Init => RunInv
  <1> SUFFICES ASSUME Init PROVE RunInv
    OBVIOUS
  <1>1. /\ pc = [c \in Collectors |-> "off"] /\ steps = [c \in Collectors |-> <<>>]
        /\ joins = [c \in Collectors |-> 0] /\ excused = [c \in Collectors |-> {}]
        /\ flooded = [c \in Collectors |-> FALSE] /\ pressed = [c \in Collectors |-> FALSE]
        /\ member \in [Collectors -> {{}}]
    BY DEF Init
  <1>2. Course BY <1>1 DEF Course
  <1>3. ASSUME NEW c \in Collectors PROVE Sane(c)
    <2>1. Placed(c) BY <1>1 DEF Placed, Within, Distinct
    <2>2. Careful(c) BY <1>1 DEF Careful
    <2>3. Polite(c) BY <1>1 DEF Polite
    <2>4. Frugal(c)
      <3>1. ~Ahead(<<>>) BY DEF Ahead
      <3> QED BY <1>1, <3>1, LinkdirAssumption DEF Frugal, Actions
    <2> QED BY <2>1, <2>2, <2>3, <2>4 DEF Sane
  <1> QED BY <1>2, <1>3 DEF RunInv

LEMMA RunStep ==
    ASSUME Typed, RunInv, [Next]_vars
    PROVE  RunInv'
  <1>1. Course /\ \A c \in Collectors : Sane(c) BY DEF RunInv
  <1>2. ASSUME NEW c \in Collectors, Search(c) \/ Snowball(c) \/ Ranks(c) \/ Verify(c) \/ Run(c)
        PROVE  RunInv'
    <2>1. Alone(c) BY <1>1, <1>2, SearchAlone, SnowballAlone, VerifyAlone, RunAlone
    <2>2. Sane(c)'
      BY <1>1, <1>2, SearchPlain, PlainSane, SnowballSane, VerifySane, RunSane
    <2>3. \A d \in Collectors \ {c} : Sane(d)' BY <1>1, <1>2, <2>1, DayStays, SaneSame DEF Alone
    <2> QED BY <2>1, <2>2, <2>3 DEF RunInv, Alone
  <1>3. CASE Elsewhere \/ UNCHANGED vars
    <2>1. UNCHANGED <<today, pc, steps, disk, found, member, joins, excused, flooded, pressed>>
      BY <1>3, ElsewhereQuiet DEF vars, env, hands, hist
    <2>2. \A c \in Collectors : Same(c) BY <2>1 DEF Same
    <2>3. Course' BY <1>1, <2>1 DEF Course
    <2> QED BY <1>1, <2>1, <2>2, <2>3, SaneSame DEF RunInv
  <1>4. CASE Midnight BY <1>1, <1>4, MidnightSane DEF RunInv
  <1> QED BY <1>2, <1>3, <1>4 DEF Next, Elsewhere

LEMMA RunInvariant == Spec => [](Typed /\ RunInv)
  <1>1. Typed /\ RunInv /\ [Next]_vars => (Typed /\ RunInv)'
    BY TypedStep, RunStep
  <1> QED BY <1>1, TypedInit, RunInit, PTL DEF Spec

(* No guarded request follows a flood the guard was told of, in the step     *)
(* that met it or in a later one (safety_guard.py:136).                      *)
THEOREM CircuitKept == Spec => []CircuitHolds
  <1>1. RunInv => CircuitHolds BY DEF RunInv, Sane, Careful, CircuitHolds
  <1> QED BY <1>1, RunInvariant, PTL

(* A chat joined to be verified is left, whatever its profile said           *)
(* (method_verify_postable.py:287).                                          *)
THEOREM LeftAgain == Spec => []LeavesAgain
  <1>1. RunInv => LeavesAgain BY DEF RunInv, Sane, Polite, LeavesAgain
  <1> QED BY <1>1, RunInvariant, PTL

(* Of one day, a run joins no more chats than its budget, even if an answer  *)
(* is lost: the join that is not recorded is the last, because a plan        *)
(* verifies once (method_verify_postable.py:200, pipeline.py:172).           *)
THEOREM JoinsBounded == Spec => []JoinsWithinBudget
  <1>1. RunInv => JoinsWithinBudget BY DEF RunInv, Sane, Frugal, JoinsWithinBudget
  <1> QED BY <1>1, RunInvariant, PTL

----------------------------------------------------------------------------
(* What is sent *)

\* Nothing is left of a batch but in its loop, and what was ranked is sent,
\* queued or in the batch
Kept(c) ==
    /\ pc[c] # "send" => out[c].rest = {}
    /\ Bridged => \A ch \in ranked[c] :
         \/ ch \in pend[c] \cup out[c].rest \cup outdated
         \/ Time(d1[ch]) >= Time(mem[c][ch])

\* D1 has no older rows than before, but for those that are noted
Newer ==
    /\ outdated \subseteq outdated'
    /\ \A ch \in Chats : ch \in outdated' \/ Time(d1'[ch]) >= Time(d1[ch])

Only(c) ==
    \A d \in Collectors \ {c} : /\ mem'[d] = mem[d] /\ pend'[d] = pend[d]
                                /\ out'[d] = out[d] /\ ranked'[d] = ranked[d]
KeptBy(c) == Newer /\ Only(c) /\ Kept(c)'

LEMMA TimeNat == \A i \in Item \cup {None} : Time(i) \in Nat
  BY LinkdirAssumption DEF Time, Item

LEMMA TimeStale ==
    ASSUME NEW items \in Catalog, NEW t \in Nat, NEW grace \in Nat, NEW ch \in Chats
    PROVE  Time(MarkStale(items, t, grace)[ch]) = Time(items[ch])
  <1>1. CASE Demoted(items[ch], t, grace)
    <2>1. items[ch] \in Item /\ items[ch] # None BY <1>1 DEF Demoted, Catalog
    <2>2. MarkStale(items, t, grace)[ch] = [items[ch] EXCEPT !.st = "stale"]
      BY <1>1 DEF MarkStale
    <2>3. [items[ch] EXCEPT !.st = "stale"] \in Item BY <2>1 DEF Item
    <2>4. [items[ch] EXCEPT !.st = "stale"].at = items[ch].at BY <2>1 DEF Item
    <2>5. MarkStale(items, t, grace)[ch] # None BY <2>2, <2>3, LinkdirAssumption
    <2> QED BY <2>1, <2>2, <2>4, <2>5 DEF Time
  <1>2. CASE ~Demoted(items[ch], t, grace) BY <1>2 DEF MarkStale
  <1> QED BY <1>1, <1>2

LEMMA MirrorNewer == Typed /\ UNCHANGED mirror => Newer
  <1> SUFFICES ASSUME Typed, UNCHANGED mirror PROVE Newer
    OBVIOUS
  <1>1. \A ch \in Chats : Time(d1[ch]) \in Nat BY TimeNat DEF Typed, World, Catalog
  <1> QED BY <1>1 DEF mirror, Newer

LEMMA SweptNewer ==
    ASSUME Typed, NEW told \in BOOLEAN, outdated' = outdated,
           d1' = IF told THEN MarkStale(d1, now, 0) ELSE d1
    PROVE  Newer
  <1>1. \A ch \in Chats : Time(d1[ch]) \in Nat BY TimeNat DEF Typed, World, Catalog
  <1>2. \A ch \in Chats : Time(d1'[ch]) = Time(d1[ch]) BY TimeStale DEF Typed, World
  <1> QED BY <1>1, <1>2 DEF Newer

(* What D1 gets from another run loses nothing of this one.                  *)
LEMMA KeptSame ==
    ASSUME Typed, World', NEW d \in Collectors, Kept(d), Newer, pc'[d] = pc[d], mem'[d] = mem[d],
           pend'[d] = pend[d], out'[d] = out[d], ranked'[d] = ranked[d]
    PROVE  Kept(d)'
  <1>1. \A ch \in Chats : /\ Time(d1[ch]) \in Nat /\ Time(mem[d][ch]) \in Nat
    BY TimeNat DEF Typed, World, Ledger, Catalog
  <1>2. \A ch \in Chats : Time(d1'[ch]) \in Nat
    BY TimeNat DEF Typed, World, Ledger, Catalog
  <1>3. ranked[d] \subseteq Chats BY DEF Typed, Ledger
  <1> QED BY <1>1, <1>2, <1>3 DEF Kept, Newer

LEMMA EmptiedKept ==
    ASSUME Typed, NEW c \in Collectors, Emptied(c), NEW items, mem' = [mem EXCEPT ![c] = items]
    PROVE  Only(c) /\ Kept(c)'
  <1>1. pend'[c] = {} /\ out'[c] = NoBatch /\ ranked'[c] = {} BY DEF Typed, Ledger, Emptied
  <1>2. Only(c) BY DEF Typed, Ledger, Emptied, Only
  <1> QED BY <1>1, <1>2 DEF Kept, NoBatch

LEMMA QuietKept ==
    ASSUME Typed, World', NEW c \in Collectors, Kept(c), Newer, UNCHANGED catalog,
           pc[c] # "send"
    PROVE  Only(c) /\ Kept(c)'
  <1>1. \A ch \in Chats : /\ Time(d1[ch]) \in Nat /\ Time(mem[c][ch]) \in Nat
                          /\ Time(d1'[ch]) \in Nat
    BY TimeNat DEF Typed, World, Ledger, Catalog
  <1>2. UNCHANGED <<mem, pend, out, ranked>> BY DEF catalog
  <1>3. ranked[c] \subseteq Chats BY DEF Typed, Ledger
  <1> QED BY <1>1, <1>2, <1>3 DEF Kept, Newer, Only

LEMMA UpsertKept ==
    ASSUME Typed, NEW c \in Collectors, Kept(c), NEW f, Upsert(c, f), UNCHANGED mirror,
           pc[c] # "send"
    PROVE  KeptBy(c)
  <1>1. Newer BY MirrorNewer
  <1>2. /\ mem'[c] = Upserted(mem[c], f, now) /\ pend'[c] = pend[c] \cup Ranked(f)
        /\ ranked'[c] = ranked[c] \cup Ranked(f) /\ out' = out
    BY DEF Typed, Ledger, Upsert
  <1>3. Only(c) BY DEF Typed, Ledger, Upsert, Only
  <1>4. ASSUME NEW ch \in Chats \ Ranked(f) PROVE mem'[c][ch] = mem[c][ch]
    BY <1>2, <1>4 DEF Upserted, Ranked
  <1>5. ranked[c] \subseteq Chats BY DEF Typed, Ledger
  <1> QED BY <1>1, <1>2, <1>3, <1>4, <1>5 DEF Kept, KeptBy, mirror

(* A flush takes the whole queue into its batch; the sweep before it changes *)
(* no time of a row.                                                         *)
LEMMA FlushKept ==
    ASSUME Typed, World', NEW c \in Collectors, Kept(c), Newer, NEW then,
           \/ BeginFlush(c, then)
           \/ Goto(c, then) /\ UNCHANGED <<pend, out>>,
           pc[c] # "send", pc = [d \in Collectors |-> pc[d]], ranked' = ranked,
           NEW items, mem' = [mem EXCEPT ![c] = items],
           \A ch \in Chats : Time(items[ch]) = Time(mem[c][ch])
    PROVE  Only(c) /\ Kept(c)'
  <1>1. Only(c) BY DEF Typed, Ledger, BeginFlush, Only
  <1>2. \A ch \in Chats : /\ Time(d1[ch]) \in Nat /\ Time(mem[c][ch]) \in Nat
                          /\ Time(d1'[ch]) \in Nat
    BY TimeNat DEF Typed, World, Ledger, Catalog
  <1>3. ranked[c] \subseteq Chats /\ mem'[c] = items BY DEF Typed, Ledger
  <1>4. out[c].rest = {} BY DEF Kept
  <1>5. /\ pc'[c] # "send" => out'[c].rest = {}
        /\ Bridged => pend[c] \subseteq pend'[c] \cup out'[c].rest
    <2>1. CASE BeginFlush(c, then) /\ ~(pend[c] = {} \/ ~Bridged)
      BY <2>1 DEF BeginFlush, Goto, Typed, Ledger
    <2>2. CASE BeginFlush(c, then) /\ (pend[c] = {} \/ ~Bridged)
      BY <1>4, <2>2 DEF BeginFlush, Typed, Ledger
    <2>3. CASE Goto(c, then) /\ UNCHANGED <<pend, out>> BY <1>4, <2>3
    <2> QED BY <2>1, <2>2, <2>3
  <1>6. ASSUME Bridged, NEW ch \in ranked'[c]
        PROVE  \/ ch \in pend'[c] \cup out'[c].rest \cup outdated'
               \/ Time(d1'[ch]) >= Time(mem'[c][ch])
    <2>1. ch \in ranked[c] /\ ch \in Chats BY <1>3, <1>6
    <2>2. \/ ch \in pend[c] \cup outdated
          \/ Time(d1[ch]) >= Time(mem[c][ch])
      BY <1>4, <1>6, <2>1 DEF Kept
    <2>3. Time(mem'[c][ch]) = Time(mem[c][ch]) BY <1>3, <2>1
    <2>4. CASE ch \in pend[c] \cup outdated BY <1>5, <1>6, <2>4 DEF Newer
    <2>5. CASE Time(d1[ch]) >= Time(mem[c][ch]) BY <1>2, <2>1, <2>3, <2>5 DEF Newer
    <2> QED BY <2>2, <2>4, <2>5
  <1> QED BY <1>1, <1>5, <1>6 DEF Kept

LEMMA SentKept ==
    ASSUME Typed, Typed', Course, NEW c \in Collectors, Kept(c), NEW C \in SUBSET Chats,
           NEW done \in BOOLEAN, NEW answer \in {"ok", "refused", "raised"},
           SendChunk(c, C, done, answer)
    PROVE  KeptBy(c)
  <1>1. /\ C \subseteq out[c].rest /\ out[c].rest \subseteq out[c].all /\ pc[c] = "send"
        /\ answer = "ok" => done
        /\ mem' = mem /\ ranked' = ranked /\ ranked[c] \subseteq Chats
    BY DEF SendChunk, Typed, Ledger, Batch
  <1>2. \A ch \in Chats : /\ Time(d1[ch]) \in Nat /\ Time(mem[c][ch]) \in Nat
                          /\ Time(d1'[ch]) \in Nat
    BY TimeNat DEF Typed, World, Ledger, Catalog
  <1>3. \/ /\ done /\ d1' = [ch \in Chats |-> IF ch \in C THEN mem[c][ch] ELSE d1[ch]]
           /\ outdated' = outdated \cup {ch \in C : Time(d1[ch]) > Time(mem[c][ch])}
        \/ ~done /\ d1' = d1 /\ outdated' = outdated
    BY DEF SendChunk, mirror
  <1>4. Newer BY <1>2, <1>3 DEF Newer
  <1>5. Only(c) BY DEF Typed, Ledger, SendChunk, Only
  <1>6. /\ pc'[c] # "send" => out'[c].rest = {}
        /\ \/ out[c].rest \subseteq pend'[c] \cup out'[c].rest
           \/ done /\ out[c].rest \subseteq pend'[c] \cup out'[c].rest \cup C
        /\ pend[c] \subseteq pend'[c]
    <2>1. CASE answer = "ok" /\ out[c].rest # C
      <3>1. out'[c].rest = out[c].rest \ C /\ pend' = pend /\ pc' = pc
        BY <2>1 DEF SendChunk, Typed, Ledger, Batch
      <3> QED BY <1>1, <2>1, <3>1
    <2>2. CASE answer = "ok" /\ out[c].rest = C
      <3>1. out'[c].rest = {} /\ pend'[c] = pend[c]
        BY <2>2 DEF SendChunk, Typed, Ledger, NoBatch
      <3> QED BY <1>1, <2>2, <3>1
    <2>3. CASE answer # "ok"
      <3>1. out'[c].rest = {} /\ pend'[c] = pend[c] \cup TakenBack(out[c], C, answer)
        BY <2>3 DEF SendChunk, Typed, Ledger, NoBatch
      <3>2. out[c].rest \subseteq TakenBack(out[c], C, answer) BY <1>1 DEF TakenBack
      <3> QED BY <3>1, <3>2
    <2> QED BY <2>1, <2>2, <2>3
  <1>7. ASSUME Bridged, NEW ch \in ranked'[c]
        PROVE  \/ ch \in pend'[c] \cup out'[c].rest \cup outdated'
               \/ Time(d1'[ch]) >= Time(mem'[c][ch])
    <2>1. ch \in ranked[c] /\ ch \in Chats /\ mem' = mem BY <1>1, <1>7
    <2>2. CASE done /\ ch \in C
      <3>1. d1'[ch] = mem[c][ch] BY <1>3, <2>1, <2>2
      <3> QED BY <1>2, <2>1, <3>1
    <2>3. CASE ch \in pend[c] \cup out[c].rest /\ ~(done /\ ch \in C) BY <1>6, <2>3
    <2>4. CASE ch \in outdated BY <1>4, <2>4 DEF Newer
    <2>5. CASE Time(d1[ch]) >= Time(mem[c][ch]) BY <1>2, <1>4, <2>1, <2>5 DEF Newer
    <2> QED BY <1>7, <2>1, <2>2, <2>3, <2>4, <2>5 DEF Kept
  <1> QED BY <1>4, <1>5, <1>6, <1>7 DEF Kept, KeptBy

LEMMA LeaveKept ==
    ASSUME Typed, NEW c \in Collectors, Leave(c) \/ Open(c), UNCHANGED mirror
    PROVE  KeptBy(c)
  <1>1. Emptied(c) /\ \E items : mem' = [mem EXCEPT ![c] = items] BY DEF Leave, Close, Open
  <1> QED BY <1>1, EmptiedKept, MirrorNewer DEF KeptBy

LEMMA StillKept ==
    ASSUME Typed, World', NEW c \in Collectors, Kept(c), UNCHANGED catalog, UNCHANGED mirror,
           pc[c] # "send"
    PROVE  KeptBy(c)
  BY QuietKept, MirrorNewer DEF KeptBy

LEMMA SearchKept ==
    ASSUME Typed, World', NEW c \in Collectors, Kept(c), Search(c) \/ Ranks(c)
    PROVE  KeptBy(c)
  <1>1. CASE \E J \in SUBSET Jobs : Claim(c, J) BY <1>1, LeaveKept DEF Claim
  <1>2. CASE \E j \in Jobs, F \in SUBSET Chats, heard \in BOOLEAN :
               \E answer \in {"ok", "error"} : Query(c, j, answer, F, heard)
    BY <1>2, StillKept DEF Query
  <1>3. CASE \E E \in SUBSET Chats, view \in Views : Enrich(c, E, view)
    <2>1. pc[c] = "enrich" /\ (\E f : Upsert(c, f)) /\ UNCHANGED mirror
      BY <1>3 DEF Enrich, NoChange, bridge
    <2> QED BY <2>1, UpsertKept
  <1>4. CASE \E heard \in BOOLEAN : BeginRerank(c, heard)
    BY <1>4, LeaveKept DEF BeginRerank, NoChange, bridge
  <1>5. CASE \E ch \in Chats : \E l \in Seen(ch) : Rerank(c, ch, l)
    <2>1. pc[c] = "rank" /\ (\E f : Upsert(c, f)) /\ UNCHANGED mirror
      BY <1>5 DEF Rerank, bridge
    <2> QED BY <2>1, UpsertKept
  <1> QED BY <1>1, <1>2, <1>3, <1>4, <1>5 DEF Search, Ranks

LEMMA SnowballKept ==
    ASSUME Typed, World', NEW c \in Collectors, Kept(c), Snowball(c)
    PROVE  KeptBy(c)
  <1>1. CASE \E heard \in BOOLEAN : BeginSnowball(c, heard)
    BY <1>1, LeaveKept DEF BeginSnowball, NoChange, bridge
  <1>2. CASE \E s \in Chats, F \in SUBSET Chats, got \in BOOLEAN :
               \E answer \in {"ok", "error", "flood"} : ReadSeed(c, s, got, answer, F)
    <2>1. pc[c] = "read" /\ UNCHANGED catalog /\ UNCHANGED mirror
      BY <1>2 DEF ReadSeed, Request, bridge
    <2> QED BY <2>1, StillKept
  <1>3. CASE \/ \E ch \in Chats : \E l \in Seen(ch) : Resolve(c, ch, l)
             \/ \E ch \in Chats, answer \in {"ok", "error", "flood"} :
                  \E l \in Seen(ch) : Peek(c, ch, answer, l)
    <2>1. /\ pc[c] \in {"resolve", "peek"} /\ UNCHANGED mirror
          /\ UNCHANGED catalog \/ \E f : Upsert(c, f)
      BY <1>3 DEF Resolve, Peek, Request, bridge
    <2> QED BY <2>1, StillKept, UpsertKept
  <1>4. CASE StopReading(c) \/ StopResolving(c) \/ StopPeeking(c)
    BY <1>4, StillKept DEF StopReading, StopResolving, StopPeeking, NoChange, bridge
  <1> QED BY <1>1, <1>2, <1>3, <1>4 DEF Snowball

LEMMA VerifyKept ==
    ASSUME Typed, World', NEW c \in Collectors, Kept(c), Verify(c)
    PROVE  KeptBy(c)
  <1>1. CASE \E heard \in BOOLEAN, T \in SUBSET Chats : BeginVerify(c, heard, T)
    BY <1>1, LeaveKept DEF BeginVerify, NoChange, bridge
  <1>2. CASE \E ch \in Chats, answer \in {"joined", "already", "flood", "refused"} :
               Join(c, ch, answer)
    <2>1. pc[c] = "join" /\ UNCHANGED catalog /\ UNCHANGED mirror BY <1>2 DEF Join, bridge
    <2> QED BY <2>1, StillKept
  <1>3. CASE \E ch \in Chats : \E l \in Seen(ch), left \in BOOLEAN : VerifyLook(c, ch, l, left)
    <2>1. /\ pc[c] \in {"look", "lookin"} /\ UNCHANGED mirror
          /\ UNCHANGED catalog \/ \E f : Upsert(c, f)
      BY <1>3 DEF VerifyLook, bridge
    <2> QED BY <2>1, StillKept, UpsertKept
  <1>4. CASE StopJoining(c) BY <1>4, StillKept DEF StopJoining, NoChange, bridge
  <1>5. CASE \E ch \in Chats, done \in BOOLEAN : JoinLost(c, ch, done)
    BY <1>5, LeaveKept DEF JoinLost, bridge
  <1> QED BY <1>1, <1>2, <1>3, <1>4, <1>5 DEF Verify

LEMMA RunKept ==
    ASSUME Typed, Typed', Course, NEW c \in Collectors, Kept(c), Run(c)
    PROVE  KeptBy(c)
  <1>1. CASE \E p \in Plans : \E g \in Aged(Restored.guard[c]) : Begin(c, p, g)
    BY <1>1, StillKept DEF Typed, Begin, bridge
  <1>2. CASE \E C \in SUBSET Chats, done \in BOOLEAN :
               \E answer \in {"ok", "refused", "raised"} : SendChunk(c, C, done, answer)
    BY <1>2, SentKept
  <1> DEFINE Flushes(items) ==
        /\ \E then : BeginFlush(c, then) \/ (Goto(c, then) /\ UNCHANGED <<pend, out>>)
        /\ pc[c] # "send" /\ ranked' = ranked /\ mem' = [mem EXCEPT ![c] = items]
        /\ \A ch \in Chats : Time(items[ch]) = Time(mem[c][ch])
  <1>3. ASSUME NEW items, Flushes(items), Newer PROVE KeptBy(c)
    BY <1>3, FlushKept DEF KeptBy, Course, Typed
  <1>4. mem = [mem EXCEPT ![c] = mem[c]] /\ mem[c] \in Catalog BY DEF Typed, Ledger
  <1>5. CASE Save(c)
    <2>1. UNCHANGED mirror /\ Flushes(mem[c]) BY <1>4, <1>5 DEF Save, bridge
    <2> QED BY <1>3, <2>1, MirrorNewer
  <1>6. CASE Sweep(c)
    <2> DEFINE swept == [ch \in Chats |-> IF ch \in pend[c] THEN mem[c][ch]
                                          ELSE MarkStale(mem[c], now, Grace)[ch]]
    <2>1. ASSUME NEW ch \in Chats PROVE Time(swept[ch]) = Time(mem[c][ch])
      <3>1. now \in Nat /\ Grace \in Nat BY LinkdirAssumption DEF Typed, World
      <3>2. Time(MarkStale(mem[c], now, Grace)[ch]) = Time(mem[c][ch])
        BY <1>4, <3>1, TimeStale
      <3> QED BY <3>2
    <2>2. UNCHANGED mirror /\ mem' = [mem EXCEPT ![c] = swept] BY <1>6 DEF Sweep, bridge
    <2>3. /\ pc[c] = "sweep" /\ ranked' = ranked
          /\ \E then : BeginFlush(c, then) \/ (Goto(c, then) /\ UNCHANGED <<pend, out>>)
      BY <1>6 DEF Sweep
    <2> HIDE DEF swept
    <2>4. Flushes(swept) BY <2>1, <2>2, <2>3
    <2> QED BY <1>3, <2>2, <2>4, MirrorNewer
  <1>7. ASSUME NEW told \in BOOLEAN, Export(c, told) PROVE KeptBy(c)
    <2>1. Newer BY <1>7, SweptNewer DEF Export
    <2>2. Flushes(mem[c]) BY <1>4, <1>7 DEF Export
    <2> QED BY <1>3, <2>1, <2>2
  <1>8. CASE Raises(c) \/ StepEnds(c)
    BY <1>8, LeaveKept DEF Raises, StepEnds, NoChange, bridge
  <1>9. ASSUME NEW told \in BOOLEAN, Finish(c, told) PROVE KeptBy(c)
    <2>1. Newer BY <1>9, SweptNewer DEF Finish
    <2>2. pc[c] = "next" /\ UNCHANGED catalog BY <1>9 DEF Finish
    <2> QED BY <2>1, <2>2, QuietKept DEF KeptBy, Typed
  <1>10. CASE End(c)
    <2>1. Emptied(c) /\ (\E items : mem' = [mem EXCEPT ![c] = items]) /\ UNCHANGED mirror
      BY <1>10 DEF End, Close, bridge
    <2> QED BY <2>1, EmptiedKept, MirrorNewer DEF KeptBy
  <1> QED BY <1>1, <1>2, <1>5, <1>6, <1>7, <1>8, <1>9, <1>10 DEF Run

LEMMA KeptStep ==
    ASSUME Typed, Typed', Course, \A c \in Collectors : Kept(c), [Next]_vars
    PROVE  \A c \in Collectors : Kept(c)'
  <1>1. ASSUME NEW c \in Collectors, Search(c) \/ Snowball(c) \/ Ranks(c) \/ Verify(c) \/ Run(c)
        PROVE  \A d \in Collectors : Kept(d)'
    <2>1. Alone(c) BY <1>1, SearchAlone, SnowballAlone, VerifyAlone, RunAlone
    <2>2. KeptBy(c) BY <1>1, SearchKept, SnowballKept, VerifyKept, RunKept DEF Typed
    <2>3. \A d \in Collectors \ {c} : Kept(d)'
      BY <2>1, <2>2, KeptSame DEF KeptBy, Only, Alone, Same, Typed
    <2> QED BY <2>2, <2>3 DEF KeptBy
  <1>2. CASE Elsewhere \/ Midnight \/ UNCHANGED vars
    <2>1. UNCHANGED <<pc, catalog, mirror>>
      BY <1>2 DEF Elsewhere, Merge, Supersede, LeaseEnds, Midnight, vars, bridge
    <2>2. Newer BY <2>1, MirrorNewer
    <2> QED BY <2>1, <2>2, KeptSame DEF catalog, Typed
  <1> QED BY <1>1, <1>2 DEF Next, Elsewhere

(* What a step ranked is in D1, on its way or queued, however many chunks    *)
(* the bridge refuses or fails on, and whatever other runs send meanwhile    *)
(* (catalog.py:140).                                                         *)
THEOREM NothingForgotten == Spec => []NoneForgotten
  <1> DEFINE All == \A c \in Collectors : Kept(c)
  <1>1. Init => All
    <2> SUFFICES ASSUME Init, NEW c \in Collectors PROVE Kept(c)
      OBVIOUS
    <2>1. out[c] = NoBatch /\ ranked[c] = {} BY DEF Init
    <2> QED BY <2>1 DEF Kept, NoBatch
  <1>2. Typed /\ RunInv /\ All /\ [Next]_vars => (Typed /\ RunInv /\ All)'
    <2> SUFFICES ASSUME Typed, RunInv, All, [Next]_vars PROVE (Typed /\ RunInv /\ All)'
      OBVIOUS
    <2>1. Typed' /\ RunInv' BY TypedStep, RunStep
    <2>2. \A c \in Collectors : Kept(c)' BY <2>1, KeptStep DEF RunInv
    <2> QED BY <2>1, <2>2
  <1>3. All => NoneForgotten BY DEF Kept, NoneForgotten
  <1> HIDE DEF All
  <1> QED BY <1>1, <1>2, <1>3, TypedInit, RunInit, PTL DEF Spec
=============================================================================
