------------------------------ MODULE PromoSpread ------------------------------
(***************************************************************************)
(* The promo_spread module: posts of the source channels are shared to the *)
(* destination groups, one queue job per group, by one slow worker.        *)
(*                                                                         *)
(* Three tasks of one asyncio process interleave at their awaits: start()  *)
(* running the catch-up, the NewMessage handler, and the worker.  Code     *)
(* between two awaits runs alone, so it is one action; the exception is    *)
(* _enqueue_post, which saves the queue file once per group: it is one     *)
(* action per save (`intake'), between which nothing but a crash happens.  *)
(* A stop cancels the worker wherever it waits; a crash ends the process.  *)
(* Both leave the two state files as they are, and a later start goes on   *)
(* from them.                                                              *)
(***************************************************************************)
EXTENDS PromoQueue, SafetyGuard, FiniteSets

CONSTANTS Sources,       \* source channels
          SourceOf,      \* the channel each post is published in
          Configs,       \* the configurations a start may find
          CatchupLimit,  \* catchup_limit
          Window,        \* catchup_hours
          Fresh,         \* DEFAULT_PRIME_ENQUEUE_HOURS
          MayFail,       \* groups whose resolution may fail when the module starts
          MaxJobs        \* bound: no crash inside an intake once a share has had this many jobs

ASSUME SpreadAssumption ==
  /\ Destinations = Groups
  /\ SourceOf \in [Posts -> Sources]
  /\ CatchupLimit \in Nat /\ Window \in Nat /\ Fresh \in Nat
  /\ \A c \in Configs :
       /\ c.groups \in [Sources -> SUBSET Groups]  \* routes[].groups, enabled routes only
       /\ c.foreign \subseteq Groups               \* _load_foreign_group_norms
       /\ c.rpaused \subseteq Sources              \* routes with paused
       /\ c.gpaused \in BOOLEAN                    \* paused
       /\ c.dry \in BOOLEAN                        \* dry_run
       /\ c.seen \in BOOLEAN                       \* seen_reaction is not disabled
       /\ c.ack \in BOOLEAN                        \* ack_reaction is not disabled
  /\ MayFail \subseteq Groups

VARIABLES
  up,         \* "down", "idle" (loaded without a valid route), or "live"
  conf,       \* the configuration of the running instance
  routes,     \* _routes_by_source: the resolved groups of each source
  ents,       \* _group_entities: the groups whose entity is known
  todo,       \* routes start() has still to catch up
  batch,      \* posts of the current route catch-up has still to look at
  priming,    \* the seen history was empty when that route was fetched
  intake,     \* the _enqueue_post in progress
  wk,         \* where the worker is
  cur,        \* the job it holds, as peeked by pop_next
  published,  \* posts that exist
  age,        \* their age, up to just past Window
  inbox,      \* posts whose NewMessage update is still to be dispatched
  recorded,   \* history: shares whose delivery was noted and marked done
  excused,    \* history: posts whose first intake was torn by a crash or came twice
  unread      \* history: sources whose posts this instance could not fetch

procVars == <<up, conf, routes, ents>>
catchVars == <<todo, batch, priming>>
workVars == <<wk, cur>>
envVars == <<published, age, inbox>>
histVars == <<recorded, excused, unread>>

vars == <<queueVars, guardVars, procVars, catchVars, intake, workVars, envVars, histVars>>

MaxAge == (IF Window > Fresh THEN Window ELSE Fresh) + 1

NoIntake == [post |-> 0, groups |-> {}, made |-> FALSE]

\* The worker between jobs.
NoCur == [share |-> CHOOSE x \in Shares : TRUE, id |-> 0]

WorkerStates == {"off", "idle", "pacing", "lookup", "sending", "posted", "alert", "sleep"}

TypeOK ==
  /\ QueueTypeOK
  /\ GuardTypeOK
  /\ up \in {"down", "idle", "live"}
  /\ conf \in Configs
  /\ routes \in [Sources -> SUBSET Groups]
  /\ ents \subseteq Groups
  /\ todo \subseteq Sources
  /\ batch \subseteq Posts
  /\ priming \in BOOLEAN
  /\ intake \in [post : Posts \cup {0}, groups : SUBSET Groups, made : BOOLEAN]
  /\ wk \in WorkerStates
  /\ cur \in [share : Shares, id : Nat]
  /\ published \subseteq Posts
  /\ age \in [Posts -> 0..MaxAge]
  /\ inbox \subseteq Posts
  /\ recorded \subseteq Shares
  /\ excused \subseteq Posts
  /\ unread \subseteq Sources

Init ==
  /\ QueueInit
  /\ GuardInit
  /\ up = "down"
  /\ conf \in Configs
  /\ routes = [s \in Sources |-> {}]
  /\ ents = {}
  /\ todo = {} /\ batch = {} /\ priming = FALSE
  /\ intake = NoIntake
  /\ wk = "off" /\ cur = NoCur
  /\ published = {}
  /\ age = [p \in Posts |-> 0]
  /\ inbox = {}
  /\ recorded = {} /\ excused = {}
  /\ unread = {}

\* No task is between two saves of _enqueue_post.
Settling == intake = NoIntake

----------------------------------------------------------------------------
(***************************************************************************)
(* The outside world: Telegram and the clock.                              *)
(***************************************************************************)

\* A post appears.  Its update reaches the process only while the handler is registered.
Publish(p) ==
  /\ Settling
  /\ p \notin published
  /\ \A q \in Posts : q < p => q \in published
  /\ published' = published \cup {p}
  /\ inbox' = IF up = "live" /\ routes[SourceOf[p]] # {} THEN inbox \cup {p} ELSE inbox
  /\ UNCHANGED <<queueVars, guardVars, procVars, catchVars, intake, workVars, age, histVars>>

Tick ==
  /\ Settling
  /\ GuardTick
  /\ age' = [p \in Posts |->
               IF p \in published /\ age[p] < MaxAge THEN age[p] + 1 ELSE age[p]]
  /\ UNCHANGED <<queueVars, procVars, catchVars, intake, workVars, published, inbox, histVars>>

----------------------------------------------------------------------------
(***************************************************************************)
(* start and stop                                                          *)
(***************************************************************************)

\* The groups a start resolves: not owned by another promo account, and not in `bad'.
Resolved(c, bad) == [s \in Sources |-> (c.groups[s] \ c.foreign) \ bad]

HasRoute(r) == \E s \in Sources : r[s] # {}

Start(c, bad) ==
  /\ up = "down"
  /\ conf' = c
  /\ routes' = Resolved(c, bad)
  /\ ents' = UNION {Resolved(c, bad)[s] : s \in Sources}
  /\ IF HasRoute(Resolved(c, bad))
       THEN /\ up' = "live"
            /\ wk' = "idle"
            /\ todo' = IF c.gpaused THEN {}
                       ELSE {s \in Sources \ c.rpaused : Resolved(c, bad)[s] # {}}
       ELSE /\ up' = "idle"
            /\ UNCHANGED <<wk, todo>>
  /\ UNCHANGED <<queueVars, guardVars, batch, priming, intake, cur, envVars, recorded, excused, unread>>

\* What both ends of an instance do: the worker is gone, updates find no handler.
Down ==
  /\ up # "down"
  /\ up' = "down"
  /\ routes' = [s \in Sources |-> {}]
  /\ ents' = {}
  /\ todo' = {} /\ batch' = {} /\ priming' = FALSE
  /\ wk' = "off" /\ cur' = NoCur
  /\ inbox' = {}
  /\ unread' = {}

\* stop() after start() has returned.
Stop ==
  /\ Settling
  /\ todo = {} /\ batch = {}
  /\ Down
  /\ UNCHANGED <<queueVars, guardVars, conf, intake, published, age, recorded, excused>>

Crash ==
  /\ Settling
  /\ Down
  /\ UNCHANGED <<queueVars, guardVars, conf, intake, published, age, recorded, excused>>

\* The process dies between two saves of _enqueue_post: the groups left are not enqueued,
\* and the post has no seen marker.
CrashInIntake ==
  /\ ~Settling
  /\ \A g \in Groups : jobs[<<intake.post, g>>].id < MaxJobs
  /\ Down
  /\ intake' = NoIntake
  /\ excused' = excused \cup {intake.post}
  /\ UNCHANGED <<queueVars, guardVars, conf, published, age, recorded>>

----------------------------------------------------------------------------
(***************************************************************************)
(* _enqueue_post: one save per group, then the seen marker.                *)
(***************************************************************************)

BeginIntake(p) ==
  intake' = [post |-> p, groups |-> routes[SourceOf[p]], made |-> FALSE]

IntakeOne(g) ==
  /\ g \in intake.groups
  /\ Enqueue(<<intake.post, g>>)
  /\ intake' = [intake EXCEPT !.groups = @ \ {g},
                              !.made = @ \/ jobs[<<intake.post, g>>].st # "pending"]
  /\ UNCHANGED <<seen, acked, guardVars, procVars, catchVars, workVars, envVars, histVars>>

\* Mutant: the post is never given the seen marker.
IntakeEndUnseen ==
  /\ ~Settling
  /\ intake.groups = {}
  /\ intake' = NoIntake
  /\ UNCHANGED <<queueVars, guardVars, procVars, catchVars, workVars, envVars, histVars>>

\* _react_seen: claimed only if a job was created and the reaction is not disabled.
IntakeEnd ==
  /\ ~Settling
  /\ intake.groups = {}
  /\ intake' = NoIntake
  /\ IF intake.made /\ conf.seen THEN ClaimSeen(intake.post) ELSE UNCHANGED seen
  /\ UNCHANGED <<jobs, line, filed, acked, guardVars, procVars, catchVars, workVars,
                 envVars, histVars>>

\* _on_new_message.  The handler does not look at the seen marker: the update of a post
\* that catch-up has taken already enqueues it again.
Dispatch(p) ==
  /\ up = "live"
  /\ Settling
  /\ p \in inbox
  /\ inbox' = inbox \ {p}
  /\ IF routes[SourceOf[p]] = {} \/ SourceOf[p] \in conf.rpaused \/ conf.gpaused
       THEN UNCHANGED <<intake, excused>>
       ELSE /\ BeginIntake(p)
            /\ excused' = IF p \in seen THEN excused \cup {p} ELSE excused
  /\ UNCHANGED <<queueVars, guardVars, procVars, catchVars, workVars, published, age,
                 recorded, unread>>

----------------------------------------------------------------------------
(***************************************************************************)
(* _catchup_route                                                          *)
(***************************************************************************)

\* select_catchup_posts: the last CatchupLimit posts that are not older than the window.
Recent(s) == {p \in published : SourceOf[p] = s /\ age[p] <= Window}

\* Mutant: posts older than one that is already seen are taken as seen.
SelectedAhead(s) == {p \in Recent(s) : \A q \in seen : SourceOf[q] = s => q < p}

Selected(s) == {p \in Recent(s) : Cardinality({q \in Recent(s) : q > p}) < CatchupLimit}

CatchupFetch(s) ==
  /\ up = "live"
  /\ Settling
  /\ batch = {}
  /\ s \in todo
  /\ todo' = todo \ {s}
  /\ batch' = Selected(s)
  /\ priming' = (seen = {} /\ batch' # {})
  /\ UNCHANGED <<queueVars, guardVars, procVars, intake, workVars, envVars, recorded, excused,
                 unread>>

\* get_messages failed: the route is left without catch-up.
CatchupFetchFail(s) ==
  /\ up = "live"
  /\ Settling
  /\ batch = {}
  /\ s \in todo
  /\ todo' = todo \ {s}
  /\ unread' = unread \cup {s}
  /\ UNCHANGED batch
  /\ UNCHANGED <<queueVars, guardVars, procVars, priming, intake, workVars, envVars,
                 recorded, excused>>

\* The next post of the batch, oldest first.
NextOfBatch(p) ==
  /\ up = "live"
  /\ Settling
  /\ p \in batch
  /\ \A q \in batch : p <= q
  /\ batch' = batch \ {p}
  /\ priming' = (priming /\ batch' # {})
  /\ UNCHANGED todo
  /\ UNCHANGED <<guardVars, procVars, workVars, envVars, recorded, excused, unread>>

CatchupSkip(p) ==
  /\ NextOfBatch(p)
  /\ p \in seen
  /\ UNCHANGED <<queueVars, intake>>

CatchupBaseline(p) ==
  /\ NextOfBatch(p)
  /\ p \notin seen
  /\ priming /\ age[p] > Fresh
  /\ ClaimSeen(p)
  /\ UNCHANGED <<jobs, line, filed, acked, intake>>

\* Mutant: catch-up does not ask whether the post was seen.
CatchupTakeSeen(p) ==
  /\ NextOfBatch(p)
  /\ ~(priming /\ age[p] > Fresh)
  /\ BeginIntake(p)
  /\ UNCHANGED queueVars

CatchupTake(p) ==
  /\ NextOfBatch(p)
  /\ p \notin seen
  /\ ~(priming /\ age[p] > Fresh)
  /\ BeginIntake(p)
  /\ UNCHANGED queueVars

----------------------------------------------------------------------------
(***************************************************************************)
(* _worker_once up to the delivery                                         *)
(***************************************************************************)

CurPost == cur.share[1]
CurGroup == cur.share[2]

WorkerAt(s) == up = "live" /\ Settling /\ wk = s

\* A tick that is held back or finds nothing still lets circuit_status forget a pause that
\* is over; all that it changes otherwise is samples and logs.
WorkerHold ==
  /\ WorkerAt("idle")
  /\ breaker /\ left = 0
  /\ ~conf.gpaused
  /\ ~Active \/ ~BudgetOk \/ line = <<>>
  /\ Refresh
  /\ UNCHANGED <<queueVars, procVars, catchVars, intake, workVars, envVars, histVars>>

\* pop_next gives the oldest pending job and leaves it in the queue.
MayPop == WorkerAt("idle") /\ ~conf.gpaused /\ Active /\ BudgetOk /\ line # <<>>

WorkerDefer ==
  /\ MayPop
  /\ ~CooldownOk(Head(line)[2])
  /\ Defer(Head(line), jobs[Head(line)].id)
  /\ Refresh
  /\ UNCHANGED <<seen, acked, procVars, catchVars, intake, workVars, envVars, histVars>>

\* Mutant: the cooldown of the group is not asked for.
WorkerPickHot ==
  /\ MayPop
  /\ cur' = [share |-> Head(line), id |-> jobs[Head(line)].id]
  /\ wk' = "pacing"
  /\ Refresh
  /\ UNCHANGED <<queueVars, procVars, catchVars, intake, envVars, histVars>>

WorkerPick ==
  /\ MayPop
  /\ CooldownOk(Head(line)[2])
  /\ cur' = [share |-> Head(line), id |-> jobs[Head(line)].id]
  /\ wk' = "pacing"
  /\ Refresh
  /\ UNCHANGED <<queueVars, procVars, catchVars, intake, envVars, histVars>>

WorkerRests == wk' = "idle" /\ cur' = NoCur

\* After the human delay the window, the circuit and the budgets are asked again; the
\* cooldown is not, nor whether the job is still in the queue.
PaceAbort ==
  /\ WorkerAt("pacing")
  /\ ~Active \/ ~BudgetOk
  /\ Refresh
  /\ WorkerRests
  /\ UNCHANGED <<queueVars, procVars, catchVars, intake, envVars, histVars>>

\* Mutant: nothing is asked again after the delay.
PaceEndUnchecked ==
  /\ WorkerAt("pacing")
  /\ Refresh
  /\ wk' = "lookup"
  /\ UNCHANGED <<queueVars, procVars, catchVars, intake, cur, envVars, histVars>>

PaceEnd ==
  /\ WorkerAt("pacing")
  /\ Active /\ BudgetOk
  /\ Refresh
  /\ wk' = "lookup"
  /\ UNCHANGED <<queueVars, procVars, catchVars, intake, cur, envVars, histVars>>

----------------------------------------------------------------------------
(***************************************************************************)
(* _deliver_item                                                           *)
(***************************************************************************)

\* _maybe_ack_source_post, on the queue file a mark has just written.
TryAck == acked' = IF conf.ack /\ CanAck(jobs', CurPost) THEN acked \cup {CurPost} ELSE acked

\* The job is given up: marked, reported, and the post acknowledged if that was the last.
GiveUp(retry) ==
  /\ MarkFailed(cur.share, cur.id, retry)
  /\ TryAck
  /\ WorkerRests
  /\ UNCHANGED <<seen, guardVars, procVars, catchVars, intake, envVars, histVars>>

\* The group of a queued job that no route names any more is resolved again, without joining.
\* Neither the routes nor the groups owned by other accounts are asked.
LookupFail ==
  /\ WorkerAt("lookup")
  /\ CurGroup \notin ents
  /\ GiveUp(FALSE)

SourceGone ==
  /\ WorkerAt("lookup")
  /\ CurGroup \in ents
  /\ routes[SourceOf[CurPost]] = {}
  /\ GiveUp(FALSE)

LookupDone ==
  /\ WorkerAt("lookup")
  /\ CurGroup \notin ents
  /\ ents' = ents \cup {CurGroup}
  /\ UNCHANGED <<queueVars, guardVars, up, conf, routes, catchVars, intake, workVars,
                 envVars, histVars>>

DryRun ==
  /\ WorkerAt("lookup")
  /\ CurGroup \in ents
  /\ routes[SourceOf[CurPost]] # {}
  /\ conf.dry
  /\ NoteSuccess(CurGroup)
  /\ MarkDone(cur.share, cur.id)
  /\ TryAck
  /\ WorkerRests
  /\ UNCHANGED <<seen, procVars, catchVars, intake, envVars, histVars>>

BeginSend ==
  /\ WorkerAt("lookup")
  /\ CurGroup \in ents
  /\ routes[SourceOf[CurPost]] # {}
  /\ ~conf.dry
  /\ wk' = "sending"
  /\ UNCHANGED <<queueVars, guardVars, procVars, catchVars, intake, cur, envVars, histVars>>

\* The post was deleted in the channel before it was forwarded.
SourceMissing ==
  /\ WorkerAt("sending")
  /\ GiveUp(FALSE)

\* Telegram has the message in the group; the reply is on its way.
Forward ==
  /\ WorkerAt("sending")
  /\ wk' = "posted"
  /\ UNCHANGED <<queueVars, guardVars, procVars, catchVars, intake, cur, envVars, histVars>>

\* Mutant: the job is left pending after a delivery.
DeliveredUnmarked ==
  /\ WorkerAt("posted")
  /\ NoteSuccess(CurGroup)
  /\ UNCHANGED <<jobs, line, filed>>
  /\ TryAck
  /\ WorkerRests
  /\ recorded' = recorded \cup {cur.share}
  /\ UNCHANGED <<seen, procVars, catchVars, intake, envVars, excused, unread>>

Delivered ==
  /\ WorkerAt("posted")
  /\ NoteSuccess(CurGroup)
  /\ MarkDone(cur.share, cur.id)
  /\ TryAck
  /\ WorkerRests
  /\ recorded' = recorded \cup {cur.share}
  /\ UNCHANGED <<seen, procVars, catchVars, intake, envVars, excused, unread>>

\* The process dies between the saves that record a delivery: the send is noted, the job may
\* be marked, and the ack is not given.
CrashInRecord ==
  /\ WorkerAt("posted")
  /\ NoteSuccess(CurGroup)
  /\ \/ /\ MarkDone(cur.share, cur.id)
        /\ recorded' = recorded \cup {cur.share}
     \/ UNCHANGED <<jobs, line, filed, recorded>>
  /\ Down
  /\ UNCHANGED <<seen, acked, conf, intake, published, age, excused>>

\* RPCError or any other exception, before the message was accepted or after.
SendError ==
  /\ wk \in {"sending", "posted"}
  /\ WorkerAt(wk)
  /\ GiveUp(TRUE)

\* The job goes to the back of the line, and the worker sits the wait out.
WorkerSleeps == wk' = "sleep" /\ cur' = NoCur

DeferCur ==
  /\ Defer(cur.share, cur.id)
  /\ UNCHANGED <<seen, acked, procVars, catchVars, intake, envVars, histVars>>

FloodWait ==
  /\ WorkerAt("sending")
  /\ NoteFloodWait
  /\ DeferCur
  /\ WorkerSleeps

PeerFlood ==
  /\ WorkerAt("sending")
  /\ NotePeerFlood
  /\ DeferCur
  /\ WorkerRests

SlowMode ==
  /\ WorkerAt("sending")
  /\ DeferCur
  /\ WorkerSleeps
  /\ UNCHANGED guardVars

SleepEnd ==
  /\ WorkerAt("sleep")
  /\ WorkerRests
  /\ UNCHANGED <<queueVars, guardVars, procVars, catchVars, intake, envVars, histVars>>

\* ChatWriteForbidden: the admins are told before the post is acknowledged.
Forbidden ==
  /\ WorkerAt("sending")
  /\ MarkFailed(cur.share, cur.id, FALSE)
  /\ wk' = "alert"
  /\ UNCHANGED <<seen, acked, guardVars, procVars, catchVars, intake, cur, envVars,
                 histVars>>

AlertDone ==
  /\ WorkerAt("alert")
  /\ UNCHANGED <<jobs, line, filed>>
  /\ TryAck
  /\ WorkerRests
  /\ UNCHANGED <<seen, guardVars, procVars, catchVars, intake, envVars, histVars>>

----------------------------------------------------------------------------
\* "/promo queue clear": a PromoQueue of the command's own, whatever the worker is doing.
QueueClear ==
  /\ up # "down"
  /\ Settling
  /\ line # <<>>
  /\ ClearPending
  /\ UNCHANGED <<seen, acked, guardVars, procVars, catchVars, intake, workVars,
                 envVars, histVars>>

Worker ==
  \/ WorkerHold \/ WorkerDefer \/ WorkerPick \/ PaceAbort \/ PaceEnd
  \/ LookupFail \/ LookupDone \/ SourceGone \/ DryRun \/ BeginSend
  \/ SourceMissing \/ Forward \/ Delivered \/ SendError
  \/ FloodWait \/ PeerFlood \/ SlowMode \/ SleepEnd \/ Forbidden \/ AlertDone

Catchup ==
  \/ \E s \in Sources : CatchupFetch(s) \/ CatchupFetchFail(s)
  \/ \E p \in Posts : CatchupSkip(p) \/ CatchupBaseline(p) \/ CatchupTake(p)

Intake == (\E g \in Groups : IntakeOne(g)) \/ IntakeEnd

Next ==
  \/ \E p \in Posts : Publish(p) \/ Dispatch(p)
  \/ Tick
  \/ \E c \in Configs, bad \in SUBSET MayFail : Start(c, bad)
  \/ Stop \/ Crash \/ CrashInIntake \/ CrashInRecord
  \/ Intake
  \/ Catchup
  \/ Worker
  \/ QueueClear

Spec == Init /\ [][Next]_vars

\* The clock runs and the tasks of a live process get their turns.  Telegram may make the
\* worker wait again and again, but not for ever: what can infinitely often be sent, fail for
\* good or be refused infinitely often does.
SendEnds == Forward \/ SourceMissing \/ SendError \/ Forbidden

Fairness ==
  /\ WF_vars(Tick)
  /\ WF_vars(Intake)
  /\ WF_vars(Worker)
  /\ SF_vars(SendEnds)

FairSpec == Spec /\ Fairness

----------------------------------------------------------------------------
(***************************************************************************)
(* Properties                                                              *)
(***************************************************************************)

\* The worker holds a job it may post.
Committed == wk \in {"pacing", "lookup", "sending", "posted"}

\* A share whose delivery was recorded is never posted to its group again: not by catch-up
\* after a restart, not by a retry, not after a clear or a deferral.  Posts whose update
\* arrived after catch-up had taken them, or whose first intake was torn by a crash, are out.
NoRepost ==
  wk \in {"sending", "posted"} => cur.share \notin recorded \/ CurPost \in excused

\* The ack reaction says that every share of the post is settled, and it stays true: no job
\* of an acknowledged post is pending later, whatever is restarted or caught up.
AckIsFinal ==
  \A p \in acked \ excused : \A g \in Groups : jobs[<<p, g>>].st # "pending"

\* A group is posted to only when its cooldown is over, although the cooldown is asked for
\* before the human delay and not after it.
CooldownHeld == wk \in {"sending", "posted"} => CooldownOk(CurGroup)

\* Nothing is posted while the circuit is open, also right after a restart.
CircuitHeld == wk \in {"sending", "posted"} => ~(breaker /\ left > 0)

\* The recorded posts of any hour and any day stay within the budgets, over restarts too.
WithinBudget ==
  /\ SentWithin(HourLen) <= HourlyBudget
  /\ SentWithin(DayLen) <= DailyBudget

\* Once a start is through with its catch-up, no post is left behind: each post young enough
\* for the window and new enough for the limit is seen, or has its jobs, or is about to be
\* dispatched - wherever the process was stopped, torn or restarted before.  Sources that were
\* paused, not routed or could not be read in this run are out.
CaughtUp == up = "live" /\ Settling /\ todo = {} /\ batch = {}

Followed(s) == routes[s] # {} /\ s \notin conf.rpaused /\ ~conf.gpaused /\ s \notin unread

Newest(p) == Cardinality({q \in published : SourceOf[q] = SourceOf[p] /\ q > p}) < CatchupLimit

NothingMissed ==
  CaughtUp =>
    \A p \in published \ inbox :
      Followed(SourceOf[p]) /\ Newest(p) /\ age[p] <= Window =>
        \/ p \in seen
        \/ \A g \in routes[SourceOf[p]] : jobs[<<p, g>>].st # "none"

\* When the process stays up, every job leaves the queue: no deferral, cooldown, pause of the
\* circuit, budget or retry holds it for ever, and none starves behind another.
StaysUp == <>[](up = "live")

JobsSettle ==
  StaysUp => \A x \in Shares : jobs[x].st = "pending" ~> jobs[x].st # "pending"

----------------------------------------------------------------------------
\* What the queue file and the worker amount to, for the ledger.
Status == [x \in Shares |-> jobs[x].st]

InHand == IF wk \in {"sending", "posted"} THEN {cur.share} ELSE {}

Delivery ==
  INSTANCE Ledger WITH
    share <- Status, hand <- InHand, noted <- recorded, loose <- excused

\* What promo_spread does with its shares, over intakes torn in the middle, restarts, retries and
\* clears, is what the ledger allows: taken in once, posted while due or picked, never after
\* its delivery is noted, acknowledged when settled.
KeepsLedger == Delivery!Spec

=============================================================================
