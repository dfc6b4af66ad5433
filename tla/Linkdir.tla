------------------------------ MODULE Linkdir ------------------------------
(***************************************************************************)
(* The linkdir finders: batch runs that look for Telegram chats where      *)
(* members may post, and keep them in a shared catalog.  A run of a        *)
(* collector restores the pool directory from the Actions cache, takes the *)
(* steps search, snowball, rerank and verify_postable, uploads the         *)
(* directory and is gone; a job of its own then merges the upload into the *)
(* cache.  The catalog is mirrored in D1 through the bridge.               *)
(*                                                                         *)
(* An action runs from one request to the next.  A run may be cut off      *)
(* between any two: its memory is lost, its directory is uploaded.  A run  *)
(* is shorter than a circuit (90 minutes against two hours at least), but  *)
(* midnight may fall into it.                                              *)
(*                                                                         *)
(* A chat is what a profile of it shows (a look), which changes from one   *)
(* reading to the next; a chat that cannot be read is Gone.  The scores of a *)
(* look are numbers of the instance; the rank, the verdict and all that    *)
(* follows from them are computed as the code does.  An invite link has a   *)
(* key of its own in the catalog, hence is a chat without a user name.  The *)
(* clock counts the steps that saved a catalog.  Snowball makes one hop, as *)
(* config.json says.                                                        *)
(***************************************************************************)
EXTENDS Naturals, FiniteSets, Sequences

CONSTANTS
    Collectors,     \* accounts that run the pipeline
    Chats,          \* chats of Telegram
    Named,          \* those with a user name; the others are invite links
    Jobs,           \* search jobs of the bridge
    LooksOf,        \* what each chat may look like when it is read
    Plans,          \* sequences of steps a run may be asked for, each at most once
    Limit,          \* daily budget of each guarded action
    PerRun,         \* verify_postable.per_run_limit
    Chunk,          \* _SYNC_CHUNK: rows sent to the bridge at a time
    Bridged,        \* whether the address of the bridge is configured
    StaleAge,       \* catalog.stale_hours
    Grace,          \* catalog.stale_rank_grace
    JunkFloor,      \* catalog.junk_rank_floor
    BareQuality,    \* quality of a chat that was only found, not read
    MinIdentity,    \* snowball.min_upsert_identity
    VerifyRank,     \* verify_postable.min_rank
    Refuses,        \* whether the cache refuses a key it already has
    MaxTime,        \* bound: writing steps
    MaxRuns,        \* bound: runs of a collector
    MaxDays,        \* bound: midnights
    Gone, None

Steps == {"search", "snowball", "rerank", "verify"}
Actions == {"seed_read", "resolve_username", "invite_peek", "join"}
Rights == {"yes", "no", "unknown"}
\* dense: two links or more, and a quarter of the messages has one or could
\* not be read.  link: nothing but the invite was read.
Look == [ident : 0..100, qual : 0..100, can : Rights, inside : Rights,
         dead : BOOLEAN, dense : BOOLEAN, small : BOOLEAN, link : {FALSE}]
Item == [st : {"active", "review", "junk", "stale"}, can : Rights,
         rank : 0..100, ident : 0..100, at : 0..MaxTime]
Guard == [used : [Actions -> Nat], open : BOOLEAN, day : 0..MaxDays]

ASSUME LinkdirAssumption ==
    /\ LooksOf \in [Chats -> SUBSET Look] /\ Gone \notin Look /\ Named \subseteq Chats
    /\ \A p \in Plans : /\ p \in Seq(Steps)
                        /\ \A i, j \in 1..Len(p) : p[i] = p[j] => i = j
    /\ Limit \in [Actions -> Nat] /\ PerRun \in Nat /\ Chunk \in Nat \ {0} /\ Bridged \in BOOLEAN
    /\ StaleAge \in Nat /\ Grace \in Nat /\ JunkFloor \in Nat
    /\ BareQuality \in 0..100 /\ MinIdentity \in Nat /\ VerifyRank \in Nat
    /\ Refuses \in BOOLEAN /\ None \notin Item
    /\ MaxTime \in Nat /\ MaxRuns \in Nat /\ MaxDays \in Nat

VARIABLES
    now,
    today,      \* midnights so far
    jobs,       \* search jobs at the bridge
    d1,         \* the catalog behind the bridge
    cache,      \* the pool directory in the Actions cache, or NoPool
    uploads,    \* uploaded directories that wait for their merge job
    \* a run
    pc, steps,  \* where it is, and the steps it has still to take
    runs,       \* runs begun
    disk,       \* data/pool on its runner
    mem,        \* items of the LinkDirCatalog in use
    pend,       \* its _pending_sync
    out,        \* the batch of a flush: what is still to send, all of it, where it goes on
    found,      \* chats it has found and not handled yet
    todo,       \* jobs, seeds, candidates or targets of the loop it is in
    held,       \* search jobs it has claimed
    member,     \* chats its account is in
    \* history
    ranked,     \* chats this catalog has ranked and saved a row of
    outdated,   \* chats whose row in D1 was replaced by an older one
    joins,      \* chats the run has joined today
    excused,    \* chats it could not leave: cut off, or an answer lost
    flooded,    \* a guarded request of the run was answered by a FloodWait
    pressed     \* a guarded request was made after that

env == <<now, today>>
mirror == <<d1, outdated>>
bridge == <<jobs, mirror>>
store == <<cache, uploads>>
catalog == <<mem, pend, out, ranked>>
hands == <<found, todo, held>>
hist == <<joins, excused, flooded, pressed>>
vars == <<env, bridge, store, pc, steps, runs, disk, catalog, hands, member, hist>>

NoItems == [ch \in Chats |-> None]
NewGuard == [used |-> [a \in Actions |-> 0], open |-> FALSE, day |-> 0]
NoBatch == [rest |-> {}, all |-> {}, then |-> "next"]
NoPool == [cat |-> None]
EmptyPool == [cat |-> NoItems, guard |-> [c \in Collectors |-> NewGuard]]

----------------------------------------------------------------------------
(* Ranking a look *)

Least(a, b) == IF a < b THEN a ELSE b
Lowest(S) == CHOOSE x \in S : \A y \in S : x <= y

\* rank_candidate: the blend of both scores, lowered by the gates
Rank(l) ==
    LET gate == [small |-> 35, dead |-> 28, link |-> 30, unknown |-> 32, closed |-> 55]
        shut == {g \in DOMAIN gate : CASE g = "small" -> l.small
                                       [] g = "dead" -> l.dead
                                       [] g = "link" -> l.link
                                       [] g = "unknown" -> l.ident < 25 /\ ~l.dense
                                       [] g = "closed" -> l.can = "no"}
    IN Lowest({(4 * l.ident + 6 * l.qual) \div 10} \cup {gate[g] : g \in shut})

Verdict(l) ==
    CASE l.can = "yes" /\ Rank(l) >= 70 /\ l.qual >= 50 /\ l.ident >= 40
           /\ (l.dense \/ l.ident >= 60) -> "keep"
      [] Rank(l) >= 50 /\ l.ident >= 35 -> "review"
      [] l.can = "no" /\ l.ident >= 55 -> "review"
      [] OTHER -> "junk"

\* A search result that is not enriched: no activity, and no word of the rights
Bare(l) == [l EXCEPT !.qual = BareQuality, !.can = "absent", !.dead = FALSE,
                     !.dense = FALSE]

\* The look of a member, and that of an invite link (CheckChatInvite)
Inside(l) == [l EXCEPT !.can = l.inside]
Outside(l) == [l EXCEPT !.qual = BareQuality, !.dead = FALSE, !.dense = FALSE, !.link = TRUE,
                        !.can = IF l.can = "no" THEN "no" ELSE "unknown"]

\* should_persist_row: junk only if it has a user name, which the row of a
\* link has not.  A chat that cannot be resolved is a row of rank 0.
Persists(l) ==
    /\ l # Gone
    /\ Verdict(l) # "junk" \/ (Rank(l) >= JunkFloor /\ l.ident >= 35 /\ ~l.link)

\* Mutant: the row's rights are taken even if it has none
MergedBlank(prev, l, t) ==
    [st |-> IF Verdict(l) # "junk" THEN "review" ELSE "junk",
     can |-> l.can, rank |-> Rank(l), ident |-> l.ident, at |-> t]

\* upsert_from_search: rights a row does not mention stay what they were
Merged(prev, l, t) ==
    [st |-> CASE Verdict(l) # "junk" /\ l.can = "yes" -> "active"
              [] Verdict(l) # "junk" -> "review"
              [] OTHER -> "junk",
     can |-> CASE l.can # "absent" -> l.can
               [] prev = None -> "unknown"
               [] OTHER -> prev.can,
     rank |-> Rank(l), ident |-> l.ident, at |-> t]

\* The catalog with the rows of f, a function from chats to looks
Upserted(items, f, t) ==
    [ch \in Chats |->
        IF ch \in DOMAIN f /\ Persists(f[ch]) THEN Merged(items[ch], f[ch], t) ELSE items[ch]]
Ranked(f) == {ch \in DOMAIN f : Persists(f[ch])}

----------------------------------------------------------------------------
(* Sweeping and listing *)

Old(i, t) == t > i.at + StaleAge

\* mark_stale, with the grace (the catalog) or without (the bridge)
Demoted(i, t, grace) ==
    /\ i # None /\ i.st \in {"active", "review"} /\ Old(i, t)
    /\ ~(grace > 0 /\ i.st = "active" /\ i.rank >= grace)
MarkStale(items, t, grace) ==
    [ch \in Chats |-> IF Demoted(items[ch], t, grace)
                      THEN [items[ch] EXCEPT !.st = "stale"] ELSE items[ch]]

\* list_items of some statuses
WithStatus(items, S) == {ch \in Chats : items[ch] # None /\ items[ch].st \in S}

----------------------------------------------------------------------------
(* The safety guard: its file is in the pool directory *)

\* _rollover_day, in every check and every record
Rolled(g) == IF g.day = today THEN g ELSE [g EXCEPT !.used = NewGuard.used, !.day = today]
GuardOf(c) == Rolled(disk[c].guard[c])

\* Mutant: the budget only, not the circuit
AllowBudget(c, a) == GuardOf(c).used[a] < Limit[a]

\* SafetyGuard.allow
Allow(c, a) == ~GuardOf(c).open /\ GuardOf(c).used[a] < Limit[a]

Recorded(g, a) == [g EXCEPT !.used[a] = @ + 1]
Opened(g) == [g EXCEPT !.open = TRUE]
SaveGuard(c, g) == disk' = [disk EXCEPT ![c].guard[c] = g]

\* What a guarded request adds to the history
Asked(c, answer) ==
    /\ flooded' = [flooded EXCEPT ![c] = @ \/ answer = "flood"]
    /\ pressed' = [pressed EXCEPT ![c] = @ \/ flooded[c]]

----------------------------------------------------------------------------
(* A run: what its steps have in common *)

NoChange(c) == UNCHANGED <<env, bridge, store, runs, member, hist>>
Goto(c, p) == pc' = [pc EXCEPT ![c] = p]

Emptied(c) ==
    /\ pend' = [pend EXCEPT ![c] = {}] /\ out' = [out EXCEPT ![c] = NoBatch]
    /\ ranked' = [ranked EXCEPT ![c] = {}]

\* LinkDirCatalog(): each step makes one of its own from the file
Open(c) == mem' = [mem EXCEPT ![c] = disk[c].cat] /\ Emptied(c)

\* The catalog is dropped, with what it has not sent
Close(c) ==
    /\ mem' = [mem EXCEPT ![c] = NoItems] /\ Emptied(c)
    /\ found' = [found EXCEPT ![c] = {}] /\ todo' = [todo EXCEPT ![c] = {}]

\* The step is over, or has raised: run_once goes on with the next
Leave(c) ==
    /\ Goto(c, "next") /\ steps' = [steps EXCEPT ![c] = Tail(@)]
    /\ Close(c) /\ held' = [held EXCEPT ![c] = {}]

Step(c, s) == pc[c] = "next" /\ steps[c] # <<>> /\ Head(steps[c]) = s

\* upsert_from_search of the rows of f, not saved yet
Upsert(c, f) ==
    /\ mem' = [mem EXCEPT ![c] = Upserted(@, f, now)]
    /\ pend' = [pend EXCEPT ![c] = @ \cup Ranked(f)]
    /\ ranked' = [ranked EXCEPT ![c] = @ \cup Ranked(f)]
    /\ UNCHANGED out

----------------------------------------------------------------------------
(* Sending to the bridge *)

Time(i) == IF i = None THEN 0 ELSE i.at + 1

\* _flush_bridge_sync takes the whole queue.  Without a bridge it is dropped.
BeginFlush(c, then) ==
    /\ pend' = [pend EXCEPT ![c] = {}]
    /\ IF pend[c] = {} \/ ~Bridged
       THEN Goto(c, then) /\ UNCHANGED out
       ELSE /\ out' = [out EXCEPT ![c] = [rest |-> pend[c], all |-> pend[c], then |-> then]]
            /\ Goto(c, "send")

\* Mutant: only the chunk that failed is queued again
TakenBackChunk(o, C, answer) == C

\* failed: the chunk and what comes after it; the whole batch on an exception
TakenBack(o, C, answer) == IF answer = "raised" THEN o.all ELSE o.rest

\* upsert_items of a chunk, which D1 may have done although it fails
SendChunk(c, C, done, answer) ==
    LET o == out[c] IN
    /\ pc[c] = "send" /\ C \subseteq o.rest
    /\ Cardinality(C) = Least(Chunk, Cardinality(o.rest))
    /\ answer = "ok" => done
    /\ IF done
       THEN /\ d1' = [ch \in Chats |-> IF ch \in C THEN mem[c][ch] ELSE d1[ch]]
            /\ outdated' = outdated \cup {ch \in C : Time(d1[ch]) > Time(mem[c][ch])}
       ELSE UNCHANGED mirror
    /\ IF answer = "ok" /\ o.rest # C
       THEN out' = [out EXCEPT ![c].rest = @ \ C] /\ UNCHANGED <<pend, pc>>
       ELSE /\ pend' = [pend EXCEPT ![c] = IF answer = "ok" THEN @
                                          ELSE @ \cup TakenBack(o, C, answer)]
            /\ out' = [out EXCEPT ![c] = NoBatch] /\ Goto(c, o.then)
    /\ UNCHANGED <<env, jobs, store, steps, runs, disk, mem, ranked, hands, member, hist>>

\* catalog.save()
Save(c) ==
    /\ pc[c] = "save" /\ now < MaxTime /\ now' = now + 1
    /\ disk' = [disk EXCEPT ![c].cat = mem[c]]
    /\ BeginFlush(c, IF Head(steps[c]) \in {"search", "rerank"} THEN "sweep" ELSE "export")
    /\ UNCHANGED <<today, bridge, store, steps, runs, mem, ranked, hands, member,
                   hist>>

\* mark_stale with the grace; it flushes if it has demoted a row.  A row that
\* is still queued was ranked by this step, hence is young.
Sweep(c) ==
    LET swept == [ch \in Chats |-> IF ch \in pend[c] THEN mem[c][ch]
                                   ELSE MarkStale(mem[c], now, Grace)[ch]] IN
    /\ pc[c] = "sweep"
    /\ mem' = [mem EXCEPT ![c] = swept] /\ disk' = [disk EXCEPT ![c].cat = swept]
    /\ IF swept # mem[c] THEN BeginFlush(c, "export")
       ELSE Goto(c, "export") /\ UNCHANGED <<pend, out>>
    /\ UNCHANGED <<env, bridge, store, steps, runs, ranked, hands, member, hist>>

\* The bridge is told to sweep as well, without a grace; then the export
\* writes the file again and flushes what is left
Export(c, told) ==
    /\ pc[c] = "export" /\ (told => Bridged /\ Head(steps[c]) \in {"search", "rerank"})
    /\ d1' = IF told THEN MarkStale(d1, now, 0) ELSE d1
    /\ disk' = [disk EXCEPT ![c].cat = mem[c]]
    /\ BeginFlush(c, "leave")
    /\ UNCHANGED <<env, jobs, outdated, store, steps, runs, mem, ranked, hands, member, hist>>

StepEnds(c) == pc[c] = "leave" /\ Leave(c) /\ UNCHANGED disk /\ NoChange(c)

----------------------------------------------------------------------------
(* search *)

\* claim_search_jobs; no job, no search
Claim(c, J) ==
    /\ Step(c, "search") /\ J \subseteq {j \in Jobs : Bridged /\ jobs[j] = "pending"}
    /\ IF J = {} THEN Leave(c) /\ UNCHANGED jobs
       ELSE /\ jobs' = [j \in Jobs |-> IF j \in J THEN "claimed" ELSE jobs[j]]
            /\ held' = [held EXCEPT ![c] = J]
            /\ Open(c) /\ Goto(c, "query")
            /\ UNCHANGED <<steps, found, todo>>
    /\ UNCHANGED <<env, mirror, store, runs, disk, member, hist>>

\* search_once and complete_job, which the bridge may not hear
Query(c, j, answer, F, heard) ==
    /\ pc[c] = "query" /\ j \in held[c]
    /\ F \subseteq Named /\ (answer = "error" => F = {})
    /\ found' = [found EXCEPT ![c] = @ \cup F]
    /\ held' = [held EXCEPT ![c] = @ \ {j}]
    /\ jobs' = IF ~heard THEN jobs
               ELSE [jobs EXCEPT ![j] = IF answer = "ok" THEN "done" ELSE "failed"]
    /\ IF held[c] = {j} THEN Goto(c, "enrich") ELSE UNCHANGED pc
    /\ UNCHANGED catalog
    /\ UNCHANGED <<env, mirror, store, steps, runs, disk, todo, member, hist>>

\* Of what was found, the first by identity are read, as far as they can be
\* (E); the rows go to the catalog.  The title is the same in both.
Views == {v \in [Chats -> UNION {LooksOf[ch] : ch \in Chats}] :
              \A ch \in Chats : v[ch] \in LooksOf[ch]}
Enrich(c, E, view) ==
    LET Row == [ch \in found[c] |-> IF ch \in E THEN view[ch] ELSE Bare(view[ch])] IN
    /\ pc[c] = "enrich" /\ E \subseteq {ch \in found[c] : view[ch].ident >= 35}
    /\ Upsert(c, Row)
    /\ found' = [found EXCEPT ![c] = {}]
    /\ Goto(c, "save")
    /\ UNCHANGED <<disk, steps, todo, held>> /\ NoChange(c)

----------------------------------------------------------------------------
(* snowball *)

\* list_items asks the bridge, or the catalog itself
Listed(c, heard) == IF heard /\ Bridged THEN d1 ELSE disk[c].cat
SeedsOf(c, heard) == WithStatus(Listed(c, heard), {"active", "review"}) \cap Named

BeginSnowball(c, heard) ==
    /\ Step(c, "snowball")
    /\ IF GuardOf(c).open \/ SeedsOf(c, heard) = {} THEN Leave(c)
       ELSE /\ todo' = [todo EXCEPT ![c] = SeedsOf(c, heard)]
            /\ Open(c) /\ Goto(c, "read")
            /\ UNCHANGED <<steps, found, held>>
    /\ UNCHANGED disk /\ NoChange(c)

\* A guarded request of a step that keeps its place
Request(c, g, answer) ==
    /\ SaveGuard(c, g)
    /\ Asked(c, answer)
    /\ UNCHANGED <<env, bridge, store, steps, runs, held, member, joins, excused>>

\* A seed is found (got), which counts, and its messages are read: user names
\* that the catalog does not have, and invite links, known or not (known_refs
\* has them by address, _split_links asks by hash).  A flood opens the circuit.
ReadSeed(c, s, got, answer, F) ==
    LET fresh == ((Chats \ Named) \cup {ch \in Named : mem[c][ch] = None}) \ found[c]
        g == IF got THEN Recorded(GuardOf(c), "seed_read") ELSE GuardOf(c)
    IN
    /\ pc[c] = "read" /\ s \in todo[c] /\ Allow(c, "seed_read")
    /\ answer = "ok" => got
    /\ F \subseteq fresh /\ (answer # "ok" => F = {})
    /\ Request(c, IF answer = "flood" THEN Opened(g) ELSE g, answer)
    /\ found' = [found EXCEPT ![c] = @ \cup F]
    /\ todo' = [todo EXCEPT ![c] = IF answer = "flood" THEN {} ELSE @ \ {s}]
    /\ UNCHANGED catalog /\ UNCHANGED pc

\* The seeds are read or the budget is spent
StopReading(c) ==
    /\ pc[c] = "read" /\ (todo[c] = {} \/ ~Allow(c, "seed_read"))
    /\ Goto(c, "resolve") /\ todo' = [todo EXCEPT ![c] = {}]
    /\ UNCHANGED catalog /\ UNCHANGED <<disk, found, held, steps>> /\ NoChange(c)

\* _persist_candidate
Candidate(l) == Persists(l) /\ (Verdict(l) # "junk" \/ l.ident >= MinIdentity)
One(ch, l) == [x \in {ch} |-> l]

\* What a reading of a chat may bring
Seen(ch) == LooksOf[ch] \cup {Gone}

\* A user name is resolved and read.  resolve_and_profile makes a row of rank
\* 0 of any exception, a FloodWait too: the guard learns of none.
Resolve(c, ch, l) ==
    /\ pc[c] = "resolve" /\ ch \in found[c] \cap Named /\ Allow(c, "resolve_username")
    /\ Request(c, Recorded(GuardOf(c), "resolve_username"), "ok")
    /\ IF Candidate(l) THEN Upsert(c, One(ch, l)) ELSE UNCHANGED catalog
    /\ found' = [found EXCEPT ![c] = @ \ {ch}]
    /\ UNCHANGED <<pc, todo>>

\* What is left is invite links, or a budget is spent
StopResolving(c) ==
    /\ pc[c] = "resolve" /\ Goto(c, "peek")
    /\ UNCHANGED catalog /\ UNCHANGED <<disk, found, todo, held, steps>> /\ NoChange(c)

\* CheckChatInvite, without joining
Peek(c, ch, answer, l) ==
    LET g == CASE answer = "ok" -> Recorded(GuardOf(c), "invite_peek")
               [] answer = "flood" -> Opened(GuardOf(c))
               [] OTHER -> GuardOf(c)
    IN
    /\ pc[c] = "peek" /\ ch \in found[c] \ Named /\ Allow(c, "invite_peek")
    /\ answer = "ok" <=> l # Gone
    /\ Request(c, g, answer)
    /\ IF answer = "ok" /\ Candidate(Outside(l))
       THEN Upsert(c, One(ch, Outside(l))) ELSE UNCHANGED catalog
    /\ found' = [found EXCEPT ![c] = IF answer = "flood" THEN {} ELSE @ \ {ch}]
    /\ UNCHANGED <<pc, todo>>

StopPeeking(c) ==
    /\ pc[c] = "peek" /\ Goto(c, "save")
    /\ found' = [found EXCEPT ![c] = {}]
    /\ UNCHANGED catalog /\ UNCHANGED <<disk, todo, held, steps>> /\ NoChange(c)

----------------------------------------------------------------------------
(* rerank *)

\* A target without a user name is skipped
Targets(c, heard) == WithStatus(Listed(c, heard), {"active", "review", "stale"}) \cap Named

BeginRerank(c, heard) ==
    /\ Step(c, "rerank")
    /\ IF WithStatus(Listed(c, heard), {"active", "review", "stale"}) = {} THEN Leave(c)
       ELSE /\ todo' = [todo EXCEPT ![c] = Targets(c, heard)]
            /\ Open(c) /\ Goto(c, IF Targets(c, heard) = {} THEN "save" ELSE "rank")
            /\ UNCHANGED <<steps, found, held>>
    /\ UNCHANGED disk /\ NoChange(c)

\* A chat that cannot be read, or is low junk by now, leaves no trace
Rerank(c, ch, l) ==
    /\ pc[c] = "rank" /\ ch \in todo[c]
    /\ Upsert(c, One(ch, l))
    /\ todo' = [todo EXCEPT ![c] = @ \ {ch}]
    /\ IF todo[c] = {ch} THEN Goto(c, "save") ELSE UNCHANGED pc
    /\ UNCHANGED <<env, bridge, store, steps, runs, disk, found, held, member, hist>>

----------------------------------------------------------------------------
(* verify_postable *)

\* _load_verify_pool: the bridge's rows first, then the local ones
Pooled(c, heard) ==
    [ch \in Chats |-> IF heard /\ Bridged /\ d1[ch] # None THEN d1[ch] ELSE disk[c].cat[ch]]
Candidates(items) ==
    {ch \in Named : /\ items[ch] # None
                    /\ items[ch].can = "unknown" /\ items[ch].st # "junk"
                    /\ items[ch].rank >= VerifyRank}

\* per_run_limit of them
BeginVerify(c, heard, T) ==
    LET C == Candidates(Pooled(c, heard)) IN
    /\ Step(c, "verify")
    /\ T \subseteq C /\ Cardinality(T) = Least(PerRun, Cardinality(C))
    /\ IF Limit["join"] = 0 \/ T = {} THEN Leave(c)
       ELSE /\ todo' = [todo EXCEPT ![c] = T]
            /\ Open(c) /\ Goto(c, "join")
            /\ UNCHANGED <<steps, found, held>>
    /\ UNCHANGED disk /\ NoChange(c)

\* Mutant: a join is recorded once the chat has been verified
RecordedLate(c, ch) == GuardOf(c)

\* guard.record("join"), right after the answer
JoinRecorded(c, ch) == Recorded(GuardOf(c), "join")

\* JoinChannelRequest: found holds the chat while its profile is read
Join(c, ch, answer) ==
    /\ pc[c] = "join" /\ ch \in todo[c] /\ Allow(c, "join")
    /\ answer = "already" <=> (ch \in member[c] /\ answer # "refused" /\ answer # "flood")
    /\ SaveGuard(c, CASE answer \in {"joined", "already"} -> JoinRecorded(c, ch)
                      [] answer = "flood" -> Opened(GuardOf(c))
                      [] OTHER -> GuardOf(c))
    /\ Asked(c, answer)
    /\ member' = [member EXCEPT ![c] = IF answer = "joined" THEN @ \cup {ch} ELSE @]
    /\ joins' = [joins EXCEPT ![c] = IF answer = "joined" THEN @ + 1 ELSE @]
    /\ found' = [found EXCEPT ![c] = IF answer \in {"joined", "already"} THEN {ch} ELSE {}]
    /\ todo' = [todo EXCEPT ![c] = IF answer = "flood" THEN {} ELSE @ \ {ch}]
    /\ pc' = [pc EXCEPT ![c] = CASE answer = "joined" -> "look"
                                 [] answer = "already" -> "lookin"
                                 [] OTHER -> "join"]
    /\ UNCHANGED catalog
    /\ UNCHANGED <<env, bridge, store, steps, runs, held, excused>>

\* Mutant: the chat is left only when it could be verified
LeaveVerified(c, ch, l, left) ==
    IF l # Gone THEN member' = [member EXCEPT ![c] = IF left THEN @ \ {ch} ELSE @]
    ELSE UNCHANGED member

\* finally: _leave_quietly, which may fail
LeaveAfter(c, ch, l, left) ==
    member' = [member EXCEPT ![c] = IF left THEN @ \ {ch} ELSE @]

\* The profile as a member sees it, or an exception; then the chat is left if
\* it was joined for this
VerifyLook(c, ch, l, left) ==
    /\ pc[c] \in {"look", "lookin"} /\ ch \in found[c]
    /\ IF l # Gone THEN Upsert(c, One(ch, Inside(l))) ELSE UNCHANGED catalog
    /\ IF pc[c] = "look"
       THEN /\ LeaveAfter(c, ch, l, left)
            /\ excused' = [excused EXCEPT ![c] = IF left THEN @ ELSE @ \cup {ch}]
       ELSE UNCHANGED <<member, excused>>
    /\ found' = [found EXCEPT ![c] = {}]
    /\ Goto(c, "join")
    /\ UNCHANGED <<env, bridge, store, steps, runs, disk, todo, held, joins, flooded, pressed>>

StopJoining(c) ==
    /\ pc[c] = "join" /\ (todo[c] = {} \/ ~Allow(c, "join"))
    /\ Goto(c, "save") /\ todo' = [todo EXCEPT ![c] = {}]
    /\ UNCHANGED catalog /\ UNCHANGED <<disk, found, held, steps>> /\ NoChange(c)

\* A join without an answer: not an RPCError, so the step raises unsaved
JoinLost(c, ch, done) ==
    /\ pc[c] = "join" /\ ch \in todo[c] \ member[c] /\ Allow(c, "join")
    /\ member' = [member EXCEPT ![c] = IF done THEN @ \cup {ch} ELSE @]
    /\ joins' = [joins EXCEPT ![c] = IF done THEN @ + 1 ELSE @]
    /\ excused' = [excused EXCEPT ![c] = IF done THEN @ \cup {ch} ELSE @]
    /\ Asked(c, "lost") /\ Leave(c)
    /\ UNCHANGED <<env, bridge, store, runs, disk>>

----------------------------------------------------------------------------
(* The run as a whole *)

\* A connection error where a step catches only Telegram's own
Raises(c) ==
    /\ pc[c] \in {"query", "peek"} /\ Leave(c)
    /\ UNCHANGED disk /\ NoChange(c)

\* A circuit may have ended since the guard's file was written
Aged(g) == {g, [g EXCEPT !.open = FALSE]}

Restored == IF cache = NoPool THEN EmptyPool ELSE cache

\* The job restores the pool directory, whatever run had written it
Begin(c, p, g) ==
    /\ pc[c] = "off" /\ runs[c] < MaxRuns
    /\ disk' = [disk EXCEPT ![c] = [Restored EXCEPT !.guard[c] = g]]
    /\ runs' = [runs EXCEPT ![c] = @ + 1]
    /\ steps' = [steps EXCEPT ![c] = p] /\ Goto(c, "next")
    /\ UNCHANGED <<env, bridge, store, catalog, hands, member, hist>>

Forget(c) ==
    /\ disk' = [disk EXCEPT ![c] = EmptyPool]
    /\ joins' = [joins EXCEPT ![c] = 0]
    /\ flooded' = [flooded EXCEPT ![c] = FALSE] /\ pressed' = [pressed EXCEPT ![c] = FALSE]

Upload(c, pool) == uploads' = uploads \cup {[by |-> c, run |-> runs[c], pool |-> pool]}

\* run_once sweeps and exports a last time
Finish(c, told) ==
    /\ pc[c] = "next" /\ steps[c] = <<>> /\ (told => Bridged)
    /\ Goto(c, "swept")
    /\ disk' = [disk EXCEPT ![c].cat = MarkStale(@, now, Grace)]
    /\ d1' = IF told THEN MarkStale(d1, now, 0) ELSE d1
    /\ UNCHANGED <<env, jobs, outdated, store, steps, runs, catalog, hands, member, hist>>

\* The run ends, or is cut off anywhere; its directory is uploaded
End(c) ==
    /\ pc[c] # "off" /\ Goto(c, "off")
    /\ Upload(c, disk[c])
    /\ excused' = [excused EXCEPT ![c] = IF pc[c] = "look" THEN @ \cup found[c] ELSE @]
    /\ Close(c) /\ held' = [held EXCEPT ![c] = {}] /\ steps' = [steps EXCEPT ![c] = <<>>]
    /\ Forget(c)
    /\ UNCHANGED <<env, bridge, cache, runs, member>>

----------------------------------------------------------------------------
(* The merge jobs: one at a time (concurrency group linkdir-pool-merge) *)

\* _union_items: the newer ranking wins, the cache's own on a tie
Union(dst, src) ==
    [ch \in Chats |-> IF Time(src[ch]) > Time(dst[ch]) THEN src[ch] ELSE dst[ch]]

\* merge_pool_cache: every other file is the upload's copy
MergedPool(pool, up) == [cat |-> Union(pool.cat, up.cat), guard |-> up.guard]

\* actions/cache/save: a key that exists is refused
Stored(pool) == IF Refuses /\ cache # NoPool THEN cache ELSE pool

Merge(u) ==
    /\ u \in uploads /\ uploads' = uploads \ {u}
    /\ cache' = Stored(MergedPool(Restored, u.pool))
    /\ UNCHANGED <<env, bridge, pc, steps, runs, disk, catalog, hands, member, hist>>

\* A waiting job of the group is cancelled when another one is queued
Supersede(u) ==
    /\ u \in uploads /\ Cardinality(uploads) > 1
    /\ uploads' = uploads \ {u}
    /\ UNCHANGED <<env, bridge, cache, pc, steps, runs, disk, catalog, hands, member, hist>>

----------------------------------------------------------------------------
(* The day and the bridge *)

\* What a run joins counts for the new day
Midnight ==
    /\ today < MaxDays /\ today' = today + 1
    /\ joins' = [c \in Collectors |-> 0]
    /\ UNCHANGED <<now, bridge, store, pc, steps, runs, disk, catalog, hands, member,
                   excused, flooded, pressed>>

\* The lease of a job that nobody has completed ends
LeaseEnds(j) ==
    /\ jobs[j] = "claimed" /\ jobs' = [jobs EXCEPT ![j] = "pending"]
    /\ UNCHANGED <<env, mirror, store, pc, steps, runs, disk, catalog, hands, member, hist>>

----------------------------------------------------------------------------
Init ==
    /\ now = 0 /\ today = 0
    /\ jobs = [j \in Jobs |-> "pending"] /\ d1 = NoItems /\ outdated = {}
    /\ cache = NoPool /\ uploads = {}
    /\ pc = [c \in Collectors |-> "off"] /\ steps = [c \in Collectors |-> <<>>]
    /\ runs = [c \in Collectors |-> 0]
    /\ disk = [c \in Collectors |-> EmptyPool] /\ mem = [c \in Collectors |-> NoItems]
    /\ pend = [c \in Collectors |-> {}] /\ out = [c \in Collectors |-> NoBatch]
    /\ ranked = [c \in Collectors |-> {}] /\ found = [c \in Collectors |-> {}]
    /\ todo = [c \in Collectors |-> {}] /\ held = [c \in Collectors |-> {}]
    /\ member \in [Collectors -> {{}}]
    /\ joins = [c \in Collectors |-> 0] /\ excused = [c \in Collectors |-> {}]
    /\ flooded = [c \in Collectors |-> FALSE] /\ pressed = [c \in Collectors |-> FALSE]

Search(c) ==
    \/ \E J \in SUBSET Jobs : Claim(c, J)
    \/ \E j \in Jobs, F \in SUBSET Chats, heard \in BOOLEAN :
         \E answer \in {"ok", "error"} : Query(c, j, answer, F, heard)
    \/ \E E \in SUBSET Chats, view \in Views : Enrich(c, E, view)

Snowball(c) ==
    \/ \E heard \in BOOLEAN : BeginSnowball(c, heard)
    \/ \E s \in Chats, F \in SUBSET Chats, got \in BOOLEAN :
         \E answer \in {"ok", "error", "flood"} : ReadSeed(c, s, got, answer, F)
    \/ \E ch \in Chats : \E l \in Seen(ch) : Resolve(c, ch, l)
    \/ \E ch \in Chats, answer \in {"ok", "error", "flood"} :
         \E l \in Seen(ch) : Peek(c, ch, answer, l)
    \/ StopReading(c) \/ StopResolving(c) \/ StopPeeking(c)

Ranks(c) ==
    \/ \E heard \in BOOLEAN : BeginRerank(c, heard)
    \/ \E ch \in Chats : \E l \in Seen(ch) : Rerank(c, ch, l)

Verify(c) ==
    \/ \E heard \in BOOLEAN, T \in SUBSET Chats : BeginVerify(c, heard, T)
    \/ \E ch \in Chats :
         \/ \E answer \in {"joined", "already", "flood", "refused"} : Join(c, ch, answer)
         \/ \E l \in Seen(ch), left \in BOOLEAN : VerifyLook(c, ch, l, left)
         \/ \E done \in BOOLEAN : JoinLost(c, ch, done)
    \/ StopJoining(c)

Run(c) ==
    \/ \E p \in Plans : \E g \in Aged(Restored.guard[c]) : Begin(c, p, g)
    \/ \E C \in SUBSET Chats, done \in BOOLEAN :
         \E answer \in {"ok", "refused", "raised"} : SendChunk(c, C, done, answer)
    \/ Save(c) \/ Sweep(c) \/ StepEnds(c)
    \/ \E told \in BOOLEAN : Export(c, told)
    \/ Raises(c)
    \/ \E told \in BOOLEAN : Finish(c, told)
    \/ End(c)

Next ==
    \/ \E c \in Collectors : Search(c) \/ Snowball(c) \/ Ranks(c) \/ Verify(c) \/ Run(c)
    \/ \E u \in uploads : Merge(u) \/ Supersede(u)
    \/ \E j \in Jobs : LeaseEnds(j)
    \/ Midnight

Spec == Init /\ [][Next]_vars

----------------------------------------------------------------------------
TypeOK ==
    /\ now \in 0..MaxTime
    /\ jobs \in [Jobs -> {"pending", "claimed", "done", "failed"}]
    /\ d1 \in [Chats -> Item \cup {None}] /\ today \in 0..MaxDays
    /\ \A c \in Collectors :
         /\ mem[c] \in [Chats -> Item \cup {None}]
         /\ disk[c].cat \in [Chats -> Item \cup {None}]
         /\ \A a \in Actions : disk[c].guard[c].used[a] <= Limit[a]
         /\ pend[c] \subseteq Chats /\ out[c].rest \subseteq out[c].all
         /\ found[c] \subseteq Chats /\ todo[c] \subseteq Chats
         /\ held[c] \subseteq Jobs /\ member[c] \subseteq Chats

(* What a step has ranked is in D1, is on its way there, or is queued for   *)
(* the next flush, until the step is over, however many chunks the bridge    *)
(* refuses or fails on (catalog.py:140).  Excepted: chats of which an older  *)
(* row reached D1 after a newer one.                                         *)
NoneForgotten ==
    Bridged => \A c \in Collectors : \A ch \in ranked[c] :
        \/ ch \in pend[c] \cup out[c].rest \cup outdated
        \/ Time(d1[ch]) >= Time(mem[c][ch])

(* An account is left in no chat that it joined to verify: it leaves when    *)
(* the profile fails as well.  Excused are a leave that failed, a join       *)
(* without an answer and a run cut off in between                            *)
(* (method_verify_postable.py:287).                                          *)
LeavesAgain ==
    \A c \in Collectors : \A ch \in member[c] \ excused[c] : pc[c] = "look" /\ ch \in found[c]

(* Of one day, a run joins no more chats than safety.daily_joins, whatever  *)
(* becomes of the joins (method_verify_postable.py:200, README "Time-boxed   *)
(* by").  At midnight the budget begins anew, within the run too.            *)
JoinsWithinBudget == \A c \in Collectors : joins[c] <= Limit["join"]

(* After a FloodWait that the guard was told of, the run makes no guarded    *)
(* request, in that step or a later one: the circuit is in the file          *)
(* (safety_guard.py:136).  Search, rerank and the swallowed exceptions of    *)
(* resolve_and_profile are outside of it.                                    *)
CircuitHolds == \A c \in Collectors : ~pressed[c]
=============================================================================
