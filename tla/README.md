# Verification of telegram-auto

telegram-auto is a Telethon userbot that runs as GitHub Actions jobs of about six
hours: each run logs one account in, starts the modules its profile enables, and is
stopped (or killed) and started again from the state files the last run saved.  This
directory holds TLA+ models of the parts that keep state, interleave at awaits or
survive restarts, the TLC runs that check them, and TLAPS proofs of what matters most.

    tlc -config PromoGroups.cfg MCPromoSpread.tla     # one run
    tlapm ChannelForwardProof.tla                     # one proof module

## 1. The system

| part | state it keeps | operations | interacts with |
|---|---|---|---|
| `modules/promo_spread/queue.py` | `promo_queue.json`: jobs, seen and ack markers | enqueue, pop_next, mark_done, mark_failed, defer, clear_pending, claim markers | handler, catch-up, worker, admin command, each with an object of its own over one file |
| `modules/promo_spread/safety.py` | `promo_safety.json`: sends, last send per group, flood strikes, pause | is_active_now, budget_ok, group_cooldown_ok, note_* | worker |
| `modules/promo_spread/module.py` | routes, entities, album buffers, the worker task | start (with catch-up), stop, on_new_message, worker loop | queue, safety, Telegram, admin bridge |
| `app/promo_exclusivity.py`, `app/promo_group_sync.py` | account profiles (JSON files in the repository) | reconcile, claim, strip, sync | promo_spread asks it for foreign groups at construction |
| `modules/channel_forward/*` | queue, quota, last_seen, dedup files | handler, album flush, delivery, publisher, catch-up, edits and deletes | Telegram, admin commands |
| `app/runtime.py`, `app/loader.py`, `main.py` | running module instances, runtime overlay | start, stop, reload, set_enabled, patch config | every module, command bridge |
| `app/command_poller.py`, `command_handlers.py`, `agent_bus.py` | nothing but the poll loop | poll, ack, execute, report | admin bot (HTTP), runtime |
| `app/singleton.py`, `app/storage.py` | lock file; JSON files | acquire, release; atomic save | main |
| `modules/group_pool/pool.py`, `scripts/merge_*` | group pool JSON | upsert, set_status, next, merge | admin commands, workflows |
| `app/cloudflare_ai/*` | `cloudflare_ai.json`: AI accounts, who is active, whose quota is used up today | chat with rotation, mark_used, /cfai, hydration from the bridge | agent, digest |
| `experiments/linkdir_finders/*` | catalog and guard (pool directory in the Actions cache), jobs and a mirror of the catalog (D1) | search, snowball, rerank, verify_postable, export, merge | Telegram, bridge, pool-merge workflow |
| `modules/auto_reply` | the routes an admin is changing | admin commands and menus | runtime, channel_forward |
| digest, group_inspect, link_harvest | little | reports | runtime |
| `cf-admin-bot/*` | conversations, accounts and login sessions (D1); registry and secrets (GitHub) | panels, bridge endpoints | command poller, login workflow |
| `.github/workflows/*` | the data directory as an Actions cache | run, save, watchdog | main |

### What is hard, and what would make each part right

* **promo_spread** (modelled).  Three tasks of one asyncio process (catch-up inside
  `start()`, the handler, the worker) interleave at awaits; the worker holds a job over a
  delay of minutes while the file changes below it; the process may die between any two
  saves.  Right means: a recorded delivery is never repeated; no post is left behind; the
  ack reaction is true and stays true; cooldown, budgets and circuit breaker hold over
  restarts; every job settles.
* **exclusivity** (modelled).  Every account filters its groups for itself, from the
  checkout its job began with, while a nightly sync and the operator move groups between
  the profiles.  Right means: jobs with the same profiles never share a group, a sync
  leaves no overlap and steals from nobody, and sharing ends once the operator rests.
* **channel_forward** (modelled in part).  Quota, dedup, `last_seen` and the publish queue
  are four files updated one after the other around awaits, by handlers, the catch-up and
  the publisher at once.  Right means: the daily cap of a destination counts every post,
  nothing recorded is published again, nothing that came while the account was offline
  is left out.
* **module runtime, command bridge, admin commands** (modelled, but for texts and reports).
  Start, stop and reload await without a lock, a command on routes waits seconds for a
  check of a channel and then saves the list it took before.  Right means: one instance of
  a module, the one that is loaded, as long as no two operations overlap; no source with
  two routes; nobody's route lost to another's command; a remote command runs once unless
  its acknowledgement is lost.
* **linkdir finders** (modelled in part).  Collectors work side by side on copies of a
  catalog, and every step may be cut off.  Right means: what was ranked is sent or waits;
  an account leaves what it joined to look at it; the daily budgets and the circuit
  of the guard hold across the steps, which share nothing but a file.
* **accounts panel and login** (modelled in part).  A handler that waits for GitHub writes
  the row it read before, while the same admin and others go on; two requests to GitHub and
  a table are not one transaction.  Right means: nothing is done that was not asked about,
  rows and credentials stay with their owner, a logged-out account has no secret, registry
  and table agree.
* **Cloudflare AI rotation** (modelled).  The list of usable accounts changes between two
  chats, and a position in it is carried over; three loops are nested.  Right means: each
  usable account is asked at most once, one that refused is not asked again that day, the
  caller is told the truth, and the agent ends.
* **state continuity** (planned).  The Actions cache is saved only by a job that ends
  normally, so a killed job rolls its files back.  Right means: a rollback repeats at most
  what the killed job did.
* **process lock** (planned).  Two processes of one account may find the same stale lock.
* **group pool** (planned).  Pools are held in memory and saved whole: right means that no
  update of another holder is lost.

## 2. Modules

| module | models |
|---|---|
| `PromoQueue` | `queue.py`, one operator per method, each an atomic step as in the code (lock, reload, change, save) |
| `SafetyGuard` | `safety.py`, with ages in place of timestamps |
| `PromoSpread` | `module.py`, `catchup.py` over the two modules above: actions, fairness, properties |
| `MCPromoSpread` | the constants and configurations of its runs |
| `Ledger` | abstract: what promo_spread promises about the shares of its posts |
| `PromoQueueProof`, `PromoSpreadProof` | the proofs about these, and that `PromoSpread` implements `Ledger` |
| `PromoExclusivity` | `promo_exclusivity.py`, `promo_group_sync.py`, the profiles and the jobs that read them |
| `MCPromoExclusivity`, `PromoExclusivityProof` | its runs and its proofs |
| `ChannelForward`, `MCChannelForward`, `ChannelForwardProof` | the deliveries of `channel_forward`, their runs and their proofs |
| `ControlPlane`, `MCControlPlane` | `runtime.py`, `loader.py`, the chat commands of `auto_reply` on modules and routes, the poller and its handlers |
| `ControlPlaneProof` | the proofs about remote commands and saved routes, and about the instances of the modules |
| `Linkdir`, `MCLinkdir`, `LinkdirProof` | the finders that feed the promo groups, the catalog, the merge job; the proofs |
| `AdminAccounts`, `MCAdminAccounts`, `AdminAccountsProof` | `AccountsController.py`, `AccountService.py`, their two tables, the login runs; the proofs |
| `Rotation` | abstract: what a chat over several AI accounts promises its caller |
| `CloudflareAI`, `MCCloudflareAI`, `CloudflareAIProof` | `app/cloudflare_ai`, which implements `Rotation`; the proof that it does |

All models of an asyncio process take the code between two awaits as one action: nothing
else of the process runs there.  A place where another task may run is a value of a
variable that says where the task waits.

### PromoSpread

| state | code |
|---|---|
| `jobs`, `filed`, `line`, `seen`, `acked` | the entries of `promo_queue.json`, their order in the file and by `created_at`, the two kinds of markers |
| `since`, `sent`, `strikes`, `breaker`, `left`, `quiet` | `promo_safety.json` and the clock against the active windows |
| `up`, `conf`, `routes`, `ents` | the running instance, its configuration, what `start()` resolved |
| `todo`, `batch`, `priming` | how far the catch-up inside `start()` is |
| `intake` | an `_enqueue_post` between two saves (one save per group) |
| `wk`, `cur` | where the worker waits and the job it has peeked |
| `published`, `age`, `inbox` | Telegram: posts, their age, updates on their way |
| `recorded`, `excused`, `unread` | history for the properties; no action reads them |

`Start`, `Stop` and `Crash` are the life of the process, `Dispatch` the handler,
`CatchupFetch`, `CatchupSkip`, `CatchupBaseline`, `CatchupTake` the catch-up, `IntakeOne`
and `IntakeEnd` an enqueue, and one action per await of the worker goes from `WorkerPick`
over the human delay (`PaceEnd`), the lookup of the post and `Forward` to `Delivered` or
one of the errors.  `CrashInIntake` and `CrashInRecord` die between two saves.
`QueueClear` is the admin command.  Pause, resume and dry run change the configuration
by a restart of the module, so they are a `Stop` and a `Start` with another of `Configs`.

`Ledger` knows neither files nor tasks: only what became of each share, the share in the
`hand`, the shares whose delivery was `noted`, the acknowledged posts, and those of which less is
promised (`loose`: torn by a crash, or come twice).  The refinement `KeepsLedger` maps the hand to
the worker's job while it is `sending` or `posted`, `noted` to `recorded`, `loose` to `excused`,
and a share's state to that of its newest job.  The saves of an intake are its `TakeIn`s, the end
of a delivery is a `Deliver`, `Settle` or `Release`; catch-up, time, pacing and lookups are
stutters.

### PromoExclusivity

`repo` holds the profiles on the branch, `checkout` what each running job read, `cfg` the
groups its module really advertises.  `Sync` is the whole workflow step (claim, sticky
owners, reconcile, write, commit); `Repair` is `repair_local_overlaps`, run by hand;
`AddGroup`, `RemoveGroup`, `EditFile`, `SwitchAccount`, `SwitchRoute`, `ChatAdd` and
`ChatRemove` the operator, by the panel, in the files and by chat; `JobStart` and `JobEnd`
the jobs.  `Owner` and `Chosen` are the two hashes: any function that picks a member.

### ChannelForward

`task` has one record for every delivery that may go on: the handler of each message, the
catch-up in `start()` and the publisher.  A record says where the task waits (`at`), what
it has to deliver (`work`), the share it delivers (`cur`), whether this is the fallback
(`second`), and whether and on which day it took a slot of the quota (`slot`).  `queue`
(its pending items), `lastSeen`, `quota` and `remembered` are the four files.  `Refuse`, `Enqueue`,
`SkipCapped`, `DryRun` and `BeginSend` are the outcomes of `process_messages` up to its
first await; `Reply`, `RestEnd`, `SendError`, `GiveUp` and `FloodWait` those of `_deliver`
and `_forward_fallback`.  `Stop`, `End` and `Kill` differ in what they cancel and refund:
a cancelled delivery runs its `finally`, a killed one does not.  In each of them Telegram
may have published the requests under way or not.

### ControlPlane

`conf` and `overlay` are the configuration in memory and its file, `inst` every instance
made in a life of the process with the routes it was given (a deep copy), `loaded` what the
runtime holds.  `task` says for each admin, the poller and the loader which await it is in:
a `start()`, a `stop()` or the check of a channel, with the list of routes it took before
(`snap`).  `AskAdd` ... `SaveRemove` are the two halves of a command with a check,
`ChangeNow` and `Import` the commands without one, `SetEnabled`, `ReloadModule` and `Patch`
the runtime as chat and remote commands use it.  `Enqueue`, `Poll`, `Acknowledge` (in
`Dispatch`) and `Report` are the way of a remote command; `bridge` is the admin bot's side
of it.  A `config_patch` (`Patched`) may set `enabled` and a whole list of routes, as
`agent_bus.py:71` documents, with or without a reload; nothing checks that list, so the
sources it has twice are kept in `doubled`.  The profile of the account switches modules on
and off (`ProfileOn`).

### Linkdir

A collector's run has a place (`pc`), the steps it has still to take, a disk that lives as
long as the runner, and the catalog object of its step (`mem`).  `pend` is what the step has
queued for D1 (`_pending_sync`) and `out` the batch of a flush: `BeginFlush` takes the whole
queue, `SendChunk` sends one chunk of it, which the bridge may do, refuse, or do and fail to
answer, and `TakenBack` is what goes back to the queue.  A step flushes at its save, at the
sweep if that demoted a row, and at the export.  What a reading of a chat shows (its look) are
numbers and facts from which rank, gates, verdict and status are computed with the thresholds
of the code; each reading may show another look of `LooksOf`, or nothing.  A chat without a
user name is an invite link, which is peeked at and ranked with the gate for what cannot be
read (`Outside`).  Every check and every record of the guard begins a new day first (`Rolled`),
so `Midnight` may fall anywhere into a run.  `Asked` notes each guarded request; `End` cuts a
run off anywhere and uploads its directory, `Merge` is the merge job on the shared cache,
which refuses a key it has.

### AdminAccounts

`wiz` is the conversation of each admin, `busy` the handlers under way, each with the row it
has read or is about to write and the await it is at: `first` and `second` wait for GitHub,
`update` and `insert` are a save that has found the row, or none, and not yet written it
(`Account.upsert_owned`), `fetch` and `cancel` a deletion whose row is gone and whose sessions
are not.  An answer of GitHub combines whether the request was carried out with what was heard
of it (done, an error, nothing because the worker was cut off).  A confirmation is two steps,
as the code reads the conversation twice: `Press` sends it to the handler of the question of
then, `Confirm` acts on the conversation of now.  `Written` writes the row by its id, whoever
has it; an update of a row that is gone does nothing, an insert of one that is there fails.  A
deletion (`DeleteRegistry`, `DeleteRow`, `Fetch`, `CancelSession`, `DeleteEnds`) reads
`SessionLimit` sessions at most (20 in the code), cancels those of its admin one by one, and
may be cut off anywhere.  `older` is the order of the sessions by `updated_at`, `secret` and
`reg` are GitHub's, `runs` the login runs, which ask the bridge (`ForBridge`) for the newest
fitting session of an account.

Four histories name the races that the code leaves open, and the properties are stated outside
of them: `said` (the conversation a confirmation was sent to), `turned` (saves whose account
changed hands since they found it), `crossed` (the accounts of these, and those of which a
deletion may have left sessions) and `apart` (registry and row may differ).

### CloudflareAI and Rotation

Each client (an agent run, a `/cfai test`, an editing command) has its own copy of the file
and writes it whole.  `accs`, `idx`, `tries` and `quota` are the local variables of `chat`,
`cur` the carried-over `_current_idx`.  `Rotation` knows only the set of accounts that are
`left`, whether one of those asked had its quota used up, who is `spent` for the day and how
the last chat ended; the refinement maps `left` to the usable accounts of the list that were
not asked.  A begin is an `Ask`, each answer a `Hear` of the account whose turn it is, a load
of the file the `Begin` of a process; hydration and commands are stutters.

## 3. Runs

| run | what it asks | instance |
|---|---|---|
| `promo_groups` | `NoRepost`, `AckIsFinal`, `CooldownHeld`, `CircuitHeld`, `WithinBudget` where budgets, cooldowns, windows and the breaker bite and a start may find other groups or no route for the source | 1 post, 2 groups, queue of 1; 1.5 million states |
| `promo_posts` | `AckIsFinal`, `NothingMissed`, `KeepsLedger` (refinement) where posts race and the queue overflows, groups fail to resolve and starts are paused or unrouted | 2 posts, 1 group, queue of 1; 1.1 million states |
| `promo_live` | `JobsSettle`, under fairness, with and without dry run | 2 posts, 1 group, queue of 2; 30 thousand states |
| `exclusivity` | `OnlyStale`, `PushedExclusive`, `NeverSteals`, `Converges` | 3 accounts of which two or all are active, 2 sources, every placement of a group; 57 thousand states |
| `exclusivity_synced` | violation of `SyncedExclusive` | 3 accounts, none with the group |
| `forward` | `CapCounts`, `NoRepost`, `FirstComplete` | 2 messages, 2 routes to one destination, 3 configurations; 980 thousand states |
| `forward_missed` | violation of `NothingMissed` | the same with no schedule |
| `control` | `OneRoutePerSource`, `SparesOthers`, `LoadedLive`, `NoOrphan`, `RunsWhatIsSaved`, `AtMostOnce` | 2 admins with 2 commands, 2 sources, 2 modules, 1 remote command (a patch with a source twice, without a reload, among them), 3 instances; 1.5 million states |
| `linkdir` | `NoneForgotten`, `LeavesAgain`, `JoinsWithinBudget`, `CircuitHolds` | a collector with 2 runs, 2 named chats and an invite link, chunks of 1, budgets of 1, a midnight; 628 thousand states |
| `accounts` | `Confirmed`, `OwnerKept`, `LogoutForgets`, `RegistryAgrees`, `ServedByOwner` | 2 admins, 2 accounts of which one has a login under way, 2 sessions and a deletion that reads 1, 2 handlers at once; 553 thousand states |
| `accounts_delete` | violation of `DeletesOwn` | the same with no login yet, 1 session and 3 handlers, 2 at a time |
| `cloudflare_ai` | `Rotates` (refinement), `RunEnds` (under fairness) | 3 accounts, an agent with tools and a schema, a test, an edit, 1 midnight; 45 thousand states |

The properties and what they mean in the code are in the comments above them.

Why the bounds are enough.  Cooldowns, windows and the breaker are compared with ages, so
a length of one or two units distinguishes before, at and after; ages stop where no test
can tell them from larger ones, so time itself is not bounded.  A queue of one place makes
the size cap cut a pending job; two attempts give a retry and a last failure.  `MaxJobs`
only keeps crashes in the middle of an intake from making new jobs for ever.  Two groups
are needed for an intake torn in the middle and for an ack that waits for the other group;
two posts for the race of handler and catch-up, and for starvation.  Exclusivity needs
three accounts: the two that share a group and a third one that decides over the hash, and
one edit by the operator from *any* placement, since a run starts from all of them.  For
the forwarder two routes to one destination share a cap, two messages overtake each other,
one share whose requests may fail (`MayFail`) covers the fallback, and a second start of
the scheduled configuration reads what the first one left.  Under the cap each route takes
one of the messages, so that what they share is the cap alone; the cap is checked within
one start, as the quota file is not read by `start()`.  The runs of the forwarder choose one of the configurations at the
beginning; mixed ones add no code path that the three do not have.

The control plane needs two admins, for a command that waits while the other one saves; three
instances are the two modules of a boot and a start of one of them beside it, a restart
begins to count anew.  The patch with a source twice does not have the legacy route, so that
it also overtakes commands on that one.  A budget of one makes every guard of the finders bite,
and two verifications per run (`PerRun`) are more than it; chunks of one row make a batch of two
fail in the middle, after what D1 has taken of it.  The two groups (whose rights only a member
sees) are alike, and the link leads to a channel nobody may write in; plans that search, follow
links and verify, and rerank meet over the cache, the D1 rows and the guard that the first run
left, cut off anywhere.  Collectors side by side meet only in the cache and in D1; the run has
one of them, the theorems any number.

The first account is what two admins can quarrel about, the second what a slow handler of the
same admin may bring the conversation to; the login under way is what a deletion finds, and
with the one that follows there are more sessions than `SessionLimit` reads.  Two handlers
under way are each race of two, and `u2` only adds, which makes it the later owner.  `MaxOps`
counts confirmations, texts and codes; once it is reached no conversation is led on (`More`),
as nothing could come of it, while all that is under way ends.
Of three AI accounts one is in use, one switched off until an edit, one
only on the bridge: the list gets longer and shorter under a carried-over position, the ring
wraps, and clients begin with what another has written in between.

`Rehearsal` and `DryRunning` are dry runs; `MayFail` is the set of groups, or shares, for
which Telegram may refuse.

### What the violations show

* `exclusivity_synced`: a group is stripped from an account without an enabled route in
  memory, but that profile is not written; the new owner's is.
* `forward_missed`: `last_seen` of a later route is moved past the missed messages by the
  handler while the catch-up is busy with an earlier one.
* `accounts_delete`: the second of two confirmations of a deletion has checked the owner
  before its requests to GitHub, and then removes by id the row that another admin has added.

### Divergences without a run

Met while modelling; the models behave as the code does, and no property claims the contrary.

| code | what it does | what is said |
|---|---|---|
| `promo_spread/module.py:537` | a job queued before a restart is sent to a group that another account owns by now; the filter is asked when `start()` resolves the routes | `module.py:107` "never send to a group owned by another promo" |
| `promo_spread/module.py:264` | the first of two routes writes a marker, so the second takes a new state file for an old one and enqueues its backlog | comment at line 262 |
| `promo_spread/module.py:413` | with the seen reaction disabled no marker is claimed, and every start enqueues what was delivered before | `module.py:243` "published while no run was alive" |
| `channel_forward/delivery.py:152` | the slot of a delivery that failed or was cancelled after Telegram had published is given back | `quota.py:43` "destination-wide cap" |
| `command_handlers.py:125` | a remote pause_route is reported done, but the running instance keeps its copy of the routes | `command_handlers.py:82` |
| `command_handlers.py:158` | flush_queue calls `clear`, which `PromoQueue` does not have | its name |
| `command_poller.py:138` | a handler's answer without `ok`, as that of ping, is reported as failed | |
| `runtime.py:145` | a config_patch with `enabled: false` switches a protected module off at the next start | `PROTECTED_MODULES` |
| `pool-merge.yml:66` | the merged directory is saved under a constant key, which the Actions cache refuses once it exists | linkdir `README.md:31` |
| `linkdir_finders/catalog.py:473` | the grace is given at every sweep, so a chat that cannot be read any more stays active | linkdir `README.md:38` "one extra sweep" |
| `cloudflare_ai/provider.py:298` | "all accounts reached their daily limit" when one had and the others failed otherwise | `provider.py:38` |
| `cloudflare_ai/store.py:88` | a copy of the store writes back what it read, undoing a /cfai command in between | |

### Fairness

`promo_live` assumes that the clock runs (`WF Tick`), that a task of a live process gets
its turn (`WF Intake`, `WF Worker`: one event loop, no task blocks it), and that Telegram
does not answer with FloodWait or PeerFlood for ever (`SF SendEnds`): a send that is tried
again and again is at some time answered for good.  It does not assume that Telegram ever
says yes.  The property has a premise, `StaysUp`: a process that is restarted before every
send need not settle anything.  Starts, stops, crashes and commands are not fair.
`exclusivity` assumes that a job ends (`WF JobEnd`): the workflow has `timeout-minutes`.
Neither a sync nor a start has to happen.
`cloudflare_ai` assumes that some client goes on whenever one can: a request has a time-out
of 60 s, and an agent run waits for nothing else.  No client is favoured, and commands need
never begin.  The safety-only runs (`control`, `linkdir`, `accounts`, `forward`) assume
nothing.  `promo_groups` and `promo_posts` need none:
their properties are about states and steps.

## 4. Proofs

Checked by tlapm for every value of the constants that satisfies the named assumptions
(`QueueAssumption`, `GuardAssumption`, `SpreadAssumption`, `ExclusivityAssumption`,
`ControlAssumption`, `LinkdirAssumption`, `AdminAssumption`, `LoginAssumption`,
`ForwardAssumption`, `AIAssumption`, `FileAssumption`).

* **`PromoQueueProof`** has a lemma for each operation of the queue: both orders of the
  file hold every pending share exactly once (`Orders`), whatever is enqueued, cut, marked,
  deferred or cleared.
* **`PromoSpreadProof`**, first part: `TypeCorrect`, `CooldownSafe` and `CircuitSafe`, from the
  inductive invariant `SafeInv == TypeOK /\ QueueInv /\ IntakePost /\ PaceInv`.  `QueueInv`
  is needed for the types already, since the worker takes the head of `line` and looks its
  job up.  `PaceInv` extends the cooldown and the breaker to every place the worker passes
  between the question and the send: the cooldown of a group that was free stays free
  while the one worker waits, and the breaker is asked again after the delay.
* **`PromoSpreadProof`**, second part: `NoRepostSafe` and `AckSafe`.  Neither property is inductive:
  whether catch-up may enqueue a post again depends on its marker.  `HistInv` adds that
  every post with a job has its marker or is the one in hand (`MarkerInv`), that an intake
  under way makes only new jobs (`IntakeInv`), that the job in the worker's hands is the
  pending one or none is (`HeldInv`), and that a recorded share is not pending
  (`RecordInv`).  The theorems assume `SeenMarkersOn`, that no configuration disables the
  seen reaction: without it no marker is ever claimed (see the divergences above).
* **`PromoSpreadProof`**, third part: `BudgetSafe` and `MissesNothing`.  `BudgetInv` adds to
  the budgets that there is room for one more send from the check after the human delay to
  the note of the send; that time only shrinks a window, and that a note adds one, are facts
  about the cardinality of its entries (`EntriesAge`, `EntriesGrow`).  `MissInv` says that a
  post a live instance has to look after is on its way (its source has still to be caught
  up, it is in the batch, being taken in, or its update is due), marked, or has a job for
  every group; it needs that what the window and the limit cover only shrinks
  (`WantedBefore`) and that a share with a job keeps counting as one (`JobsStay`).
* **`PromoSpreadProof`**, fourth part: `LedgerKeeps`, the refinement of `Ledger`, from
  `RepostInv` of the second part and under `SeenMarkersOn`.  Each step of `Next` is shown to be a
  step of the ledger or a stutter (`LedgerNext`): the first intake of a post finds its shares new,
  a mark by the id in the worker's hands settles its share unless it left the queue
  (`MarkIsSettle`), and a post that is acknowledged has a job and none that is pending
  (`AckIsAllowed`).  `LedgerSuffices` shows that the ledger is not too weak: it implies
  `NoRepost` and `AckIsFinal`.
* **`PromoExclusivityProof`**: `ProfilesCorrect` (types: every group stays on a route its
  profile has), `OnlyStaleSafe`, `PushedExclusiveSafe`, `NeverStealsSafe`.  `TypeOK` is the
  inductive invariant; the other three follow from it and from lemmas about the functions
  of the sync: what a claim and a reconciliation leave on each profile, and that a sticky
  owner is the only candidate.
* **`ControlPlaneProof`**, first part: `RunsOnce` and `SingleRoutes`.  The lemmas of its first part say
  that each operation of the runtime touches the task of its actor alone.  `OnceInv` is
  needed because `AtMostOnce` does not say which commands may still come: one that the
  bridge may hand out again has run only as often as its acknowledgement was lost, those
  in the batch are such, and the one in hand is not in the batch.  `RoutesInv` adds to the
  saved list every list that a command took before its check: it has no source twice, and
  not the one to be added, except for sources in `doubled`; a patch replaces the list while
  others wait, hence what they took is related to what they save and not to the saved list.
  `SingleRoutes` assumes `SoundFiles`, that the checkout and the profile have no source twice.
* **`ControlPlaneProof`**, second part: `TypeCorrect`, `OnlyStarted`, `NoSecondInstance`, `SavedIsRun`
  and `OthersSpared`.  The runtime takes no lock; what stands in for one is that an instance
  that starts or stops is in the hand of the one task that awaits it.  `Held` states this for
  every actor together with what `loaded` and the boot's list hold, and it is inductive
  whatever overlaps.  `Calm` adds, for the modules that are not `spoiled`, that nobody but one
  actor has an instance in hand and that every other one is dead; `Fed` that the loaded
  forwarder has the saved routes, which a task that has a reload in hand may still owe.
  `OthersSpared` is about one step and uses `RoutesInv` of the first part.
* **`ChannelForwardProof`**: `TypeCorrect`, `NeverAgain`, `CapHolds`, `FirstCaughtUp`.  `Sound`
  adds to the types what the place of a task says of its work: it delivers a share of its own,
  the publisher a pending one, and no message is queued twice.  Three invariants stand on it.
  `Trail`: a share that nobody took `twice` is waited for, in hand or queued in one place
  (`Single`), `last_seen` has come as far as what was noted (`Reached`), the catch-up asks for
  nothing older (`Asked`), and what was noted is in no hand but that of the task that posted
  it (`Settled`); this is why a restart does not post it again.  `Counted`: the posts of a day
  and the slots held by deliveries that have not posted are at most the count of the file and
  the posts without a slot (`Slots`), and the count is at most a cap (`Within`).  `Pursued`:
  what the first route still owes is in the hands of the catch-up, or newer than `last_seen`
  and than all that any task will note.  That the route comes first is needed: its `last_seen`
  is read in the same step that registers the handlers (`forward_missed` shows a second route).
* **`CloudflareAIProof`**: `TypeCorrect`, and `Implements`, the refinement of `Rotation`.
  `UsableLists` is about the sorted list: the number of usable accounts before an account is
  its own, hence the list has each of them once.  `Asking` ties position, attempts and the
  accounts asked: those asked are the last ones round the list (`Ahead`), so the turn is never
  that of an account asked before and the last attempt leaves nobody (`LastAttempt`).
  `Refusals` carries this over to the next chat of the same process: who has refused is not
  usable, and if somebody has, another one is.
* **`LinkdirProof`**: `TypeCorrect`, `NothingForgotten`, `CircuitKept`, `LeftAgain`,
  `JoinsBounded`.  `Typed` bounds every copy of the guard's counters, wherever it lies (disk,
  cache, uploaded directory), which is what makes the budgets hold over restored caches.
  `Sane` says what a collector's place implies; it is needed since none of the next three
  properties mentions the place: a flood has opened the guard's file (`Careful`), a chat that
  was joined is the one in hand (`Polite`), and the joins of the day are in the count of the
  guard's day up to one whose answer was lost, after which no step verifies any more (`Frugal`);
  a count of an earlier day is worth nothing.  The last needs that a plan names a step once,
  which `LinkdirAssumption` says of `Plans`: `run_once` asks of each step whether it is in the
  list (`pipeline.py:134-195`).  `NothingForgotten` is about a queue,
  a batch and a mirror that other runs write as well: `Kept` adds that nothing is left in a
  batch outside of a flush, and `Newer` that whatever another run writes to D1 is as new as what
  was there, or noted.
* **`AdminAccountsProof`**: `TypeCorrect`, `OwnerStays`, `ActsAsAsked`, `Forgotten`,
  `RegistryAndTable`, `GivenByOwner`.  `StepEffects` says for every action what it does to
  conversations, sessions, rows, handlers and runs; the invariants are shown to survive these
  effects.  `OwnerStays` needs that a save outside of `turned` still has the owner it found
  (`Found`): every write and every deletion tells the saves under way.  `ActsAsAsked` needs that
  a conversation waiting for a confirmation is about the last question (`SureAsked`).
  `Forgotten` needs that a logout that goes on to its row has deleted the secret or was met by a
  login (`SecretInv`).  The last two theorems are about handlers that overlap: those that do
  know of it (`Alone`), the others still work on the row they have read (`Steady`; `Agree` and
  `Prepared` for what a switch is about to write).  `Owners` is the invariant of `GivenByOwner`:
  outside of `crossed`, every credential
  that a session still holds, and every code that a conversation or a handler is about to give,
  comes from the owner of the account, and what a deletion under way has still to cancel is all
  that is left of its admin's.

Every invariant and every action property of a passing run is proved, and the refinements
of `Rotation` and `Ledger`.  Only model-checked: the liveness properties `JobsSettle`, `Converges` and
`RunEnds`, and the violations.  Liveness under fairness is out of the prover's reach, and so
is induction over data where it needs an operator as a parameter; the least element of a set
of numbers (`SomeLeast`) is had from the well-foundedness of the naturals instead.

The models hold their data in a form that can be reasoned about: the list of usable accounts
is defined by the number of accounts before each one, not by a sort, the sends of a window are
counted as a set, and the publish queue keeps only the pending items, in their order, as
nothing reads the settled ones.

## 5. Not modelled, and why

* Albums (buffers with a timer per group of messages) are planned for both modules that
  have them; a post or a message is one message here.
* The pruning of markers to 300 and of settled jobs to 150: a marker pruned while its post
  is inside the catch-up window would repeat it; with the shipped window and limit
  (`catchup_limit` 3) that takes hundreds of posts in hours.
* Edits and deletions of forwarded messages, and the queue commands of `channel_forward`;
  its commands on routes are in `ControlPlane`.
* What a filter, a fingerprint or a hash computes: sets and functions as constants.
* Joining groups, reports, texts, reactions other than their markers, statistics.
* Of the linkdir finders the heuristics behind the identity score, the AI queries, reflection
  and the scripts that search web directories: they choose what to look at.  An invite link to
  a chat the account is already in, which the peek resolves to a user name, is left out.
* `ForwardController`, the status pages of `PanelController`, menus and texts.  Telegram's
  login, Cloudflare's gateway, GitHub and D1 are external: what may come back is a choice.
* In `AdminAccounts` the validation of ids, phones and labels, and the watch over a login run
  beyond its end.  In `ControlPlane` what a module does with its routes.
* The components listed as planned in section 1, and the panels, reports and reader modules
  that keep no state a decision depends on.

What is one step here although the code awaits in between, and what the properties except:

* The admin bot awaits D1 at every row.  A message whose handler asks D1 alone (menus, picks,
  questions, back, cancel) is one step of `AdminAccounts`; confirmations are read twice, saves
  find and then write, deletions take their sessions one by one, and whatever asks GitHub waits.
  An admin has one confirmation between its two readings at a time.  What
  `UserState.merge_context` leaves in a conversation that another handler has replaced is not
  kept.  The orchestrator of logins is not in the repository: that it saves the row, then makes
  the session, then dispatches the run, is assumed.
* `Confirmed` excepts a conversation that is written between the two readings of one
  confirmation: the bot then acts on an account it has not asked about.  `OwnerKept` excepts a
  save whose row was deleted, made or claimed between its find and its write: it takes the
  account over.  `ServedByOwner` excepts accounts whose deletion was cut off, found more than
  twenty sessions (`.limit(20)`), or met other handlers: the next owner's run may be given a
  session of the last.  None of these exceptions is a claim that the code is right there.
* `OneRoutePerSource` excepts the sources of which a `config_patch` itself has two routes.
* The guard of the finders begins a new day at every check, so a run over midnight has a budget
  for each of its days; `JoinsWithinBudget` is about one day, and all a run may join is
  `per_run_limit`.  A circuit lasts two hours at least and a run 90 minutes at most
  (`run-linkdir.yml:43`, `linkdir-catalog-refresh.yml:31`), so none ends within a run.
* `NoneForgotten` ends with the step: `LinkDirCatalog` is dropped with what it could not send,
  and the rows are left to the file of the pool.  It excepts chats of which D1 got an older row
  after a newer one, as two collectors write it without comparing.

A `Kill` or a `Crash` leaves the files as they are, as on a machine of one's own; on Actions
a killed job loses what it saved, which is the planned model of continuity.

## 6. Hazards

`PROJECT.json` lists 40 places of the code that are hard to test, each with the properties
that would catch it.  Those without one say why: the model either behaves as the code does
and no claim about it is made anywhere, or it does not keep what is said.  Beside them the
maintainers may want to look at these: a message in the publish queue of `channel_forward`
has not moved `last_seen`, so a restart inside the window publishes it by catch-up and by
the publisher; `PublishQueue.add` ignores the route, so the second scheduled destination of
a source gets nothing queued; a FloodWait sleep of `promo_spread` is kept in memory only; a
search job of the finders is completed before its results are saved.

## 7. What could come next

1. **promo_spread**: album buffering; the pruning of markers; a ledger over the rollback of a
   killed job's files.
2. **exclusivity**: an abstract ownership specification that the sync implements.
3. **channel_forward**: edits, deletions, albums, queue clear.
4. **Continuity**: cache save and rollback over jobs; the process lock.
5. **Smaller parts**: the group pool and its lost updates, `ForwardController`.

Modules to be proved about keep recursion in functions and folds, and every operation in
an action of its own, so that the proofs have one step for each.
