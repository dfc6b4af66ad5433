---------------------------- MODULE ChannelForward ----------------------------
(***************************************************************************)
(* The channel_forward module: messages of the source channels are         *)
(* published to the destinations of their routes.                          *)
(*                                                                         *)
(* One asyncio process runs many deliveries at once: the catch-up inside   *)
(* start(), the publisher that works off the queue of scheduled messages,  *)
(* and one handler task for each new message.  All of them go through      *)
(* process_messages and share four files, each of which is read, changed   *)
(* and saved in one step: publish_queue.json, forward_state.json,          *)
(* daily_quota.json and dedup.json.  Between two awaits a task runs alone, *)
(* so what it does there is one action.                                    *)
(*                                                                         *)
(* A message is published alone: albums, edits and deletions are left out. *)
(***************************************************************************)
EXTENDS Integers, Sequences, FiniteSets

CONSTANTS Messages,      \* messages of the source channels, by id
          Sources,       \* source channels
          SourceOf,      \* the channel of each message
          Routes,        \* routes, in the order of the configuration
          RouteSource,   \* the source of each route
          Dests,         \* destination channels
          DestOf,        \* the destination of each route
          Fingerprint,   \* content_fingerprint of each message
          Configs,       \* the configurations a profile may have
          Actives,       \* the routes a start may find enabled, resolvable and not paused
          CatchupLimit,  \* catch_up_limit
          MayFail,       \* bound: shares whose requests may fail or meet a FloodWait
          MaxStarts      \* bound: how often the module is started, for each configuration

Shares == Routes \X Messages

ASSUME ForwardAssumption ==
  /\ Messages \subseteq Nat \ {0} /\ IsFiniteSet(Messages)
  /\ SourceOf \in [Messages -> Sources]
  /\ Routes \subseteq Nat
  /\ Routes # {}
  /\ RouteSource \in [Routes -> Sources]
  /\ DestOf \in [Routes -> Dests]
  /\ \A c \in Configs :
       /\ c.limit \in [Routes -> Nat]    \* schedule.max_posts_per_day, 0 for none
       /\ c.scheduled \subseteq Routes   \* routes whose schedule is enabled
       /\ c.dedup \subseteq Routes       \* routes whose dedup is enabled
       /\ c.blocked \subseteq Shares     \* what the filters of the routes reject
       /\ c.dry \in BOOLEAN             \* dry_run
  /\ DOMAIN Fingerprint = Messages
  /\ Actives \subseteq (SUBSET Routes) \ {{}}
  /\ CatchupLimit \in Nat \ {0}
  /\ MayFail \subseteq Shares
  /\ MaxStarts \in [Configs -> Nat]

VARIABLES
  up,          \* "down", "stopped" (the process runs, the module does not), or "live"
  active,      \* the routes of the running instance
  conf,        \* the configuration of its profile
  starts,      \* how often the module has been started
  todo,        \* routes start() has still to catch up
  task,        \* the deliveries going on
  queue,       \* publish_queue.json: the pending items, oldest first
  lastSeen,    \* forward_state.json: last_seen of each route, 0 for none
  quota,       \* daily_quota.json: the count of each destination for today
  remembered,  \* dedup.json: entries younger than the window
  published,   \* messages that exist
  inbox,       \* messages whose NewMessage update is still to be dispatched
  open,        \* the clock is inside the schedule
  posts,       \* history: messages posted today to each destination over capped routes
  unpaid,      \* history: how many of them hold no slot of the quota
  handled,     \* history: shares that were published, queued, refused or given up
  recorded,    \* history: shares whose publication was noted in last_seen
  twice,       \* history: shares that two tasks, or a task and the queue, held at once
  offline,     \* history: messages published while no handler was registered
  torn         \* history: routes whose catch-up could not read or was cut short

fileVars == <<queue, lastSeen, quota, remembered>>
procVars == <<up, active, conf, starts>>
envVars == <<published, inbox, open>>
capVars == <<posts, unpaid>>
histVars == <<handled, recorded, twice, offline, torn>>

vars == <<procVars, todo, task, fileVars, envVars, capVars, histVars>>

----------------------------------------------------------------------------
\* Tasks: the handler of a message has the name of the message.

CatchUp == 0
Publisher == -1

Tasks == Messages \cup {CatchUp, Publisher}

\* <<r, 0>> stands for no message.
Cells == Routes \X (Messages \cup {0})

NoCell == <<CHOOSE r \in Routes : TRUE, 0>>

\* `sending' is a request to Telegram under way, `resting' the delay after its answer.
TaskStates == {"off", "ready", "asking", "fetching", "sending", "resting"}

Task == [at : TaskStates,
         work : SUBSET Shares,               \* what is left to deliver, with the current one
         cur : Cells,                        \* what is being delivered
         second : BOOLEAN,                   \* _forward_fallback
         slot : {"none", "today", "old"},    \* `consumed', and on which day
         made : BOOLEAN]                     \* the current delivery has posted today

Idle == [at |-> "off", work |-> {}, cur |-> NoCell, second |-> FALSE, slot |-> "none",
         made |-> FALSE]

Least(S) == CHOOSE x \in S : \A y \in S : x <= y

TypeOK ==
  /\ up \in {"down", "stopped", "live"}
  /\ active \subseteq Routes
  /\ conf \in Configs
  /\ starts \in 0..MaxStarts[conf]
  /\ todo \subseteq Routes
  /\ task \in [Tasks -> Task]
  /\ queue \in Seq(Shares)
  /\ lastSeen \in [Routes -> Messages \cup {0}]
  /\ quota \in [Dests -> Nat]
  /\ remembered \subseteq {<<r, Fingerprint[m]>> : r \in Routes, m \in Messages}
  /\ published \subseteq Messages
  /\ inbox \subseteq Messages
  /\ open \in BOOLEAN
  /\ posts \in [Dests -> Nat] /\ unpaid \in [Dests -> Nat]
  /\ handled \subseteq Shares /\ recorded \subseteq Shares /\ twice \subseteq Shares
  /\ offline \subseteq Messages
  /\ torn \subseteq Routes

Init ==
  /\ up = "down" /\ active = {} /\ conf \in Configs /\ starts = 0
  /\ todo = {}
  /\ task = [t \in Tasks |-> Idle]
  /\ queue = <<>>
  /\ lastSeen = [r \in Routes |-> 0]
  /\ quota = [d \in Dests |-> 0]
  /\ remembered = {}
  /\ published = {} /\ inbox = {}
  /\ open \in (IF conf.scheduled = {} THEN {TRUE} ELSE BOOLEAN)
  /\ posts = [d \in Dests |-> 0] /\ unpaid = [d \in Dests |-> 0]
  /\ handled = {} /\ recorded = {} /\ twice = {} /\ offline = {} /\ torn = {}

----------------------------------------------------------------------------
(***************************************************************************)
(* The files                                                               *)
(***************************************************************************)

\* Mutant: a later call with an older message counts.
SetLastSeenBack(x) == lastSeen' = [lastSeen EXCEPT ![x[1]] = x[2]]

\* set_last_seen: it never goes back.
SetLastSeen(x) == lastSeen' = [lastSeen EXCEPT ![x[1]] = IF x[2] > @ THEN x[2] ELSE @]

\* PublishQueue.add: an item of the same message is enough, whichever route it is for.
Added(x) == IF \E k \in DOMAIN queue : queue[k][2] = x[2] THEN queue ELSE Append(queue, x)

\* What list_pending gives.
Pending == {queue[k] : k \in DOMAIN queue}

\* mark_done, mark_failed, mark_skipped: a pending item is so no more.
Place(x) == CHOOSE k \in DOMAIN queue : queue[k] = x

Without(x) == [k \in 1..Len(queue) - 1 |-> IF k < Place(x) THEN queue[k] ELSE queue[k + 1]]

\* Mutant: the cap is passed by one.
FullLoose(q, r) == conf.limit[r] > 0 /\ q[DestOf[r]] > conf.limit[r]

\* at_limit
Full(q, r) == conf.limit[r] > 0 /\ q[DestOf[r]] >= conf.limit[r]

Capped(d) == {r \in Routes : DestOf[r] = d /\ conf.limit[r] > 0}

\* The tasks with a request to Telegram under way.
Sending == {t \in Tasks : task[t].at = "sending"}

\* The tasks of T that deliver to d over a capped route.
Bound(T, d) == {t \in T : task[t].slot # "none" /\ DestOf[task[t].cur[1]] = d}

\* Mutant: the count is not held at zero.
AfterRefundBelow(n, refunds) == n - refunds

\* refund counts down today's slots, also when the slot was taken yesterday.
AfterRefund(n, refunds) == IF n > refunds THEN n - refunds ELSE 0

\* Telegram publishes what the tasks of S are sending, and the tasks of T give their slots
\* back.  A post has no slot if its task has posted before or took its slot yesterday; a
\* refund takes the slot of a post that is out, or of someone else.
Account(S, T) ==
  /\ quota' = [d \in Dests |-> AfterRefund(quota[d], Cardinality(Bound(T, d)))]
  /\ posts' = [d \in Dests |-> posts[d] + Cardinality(Bound(S, d))]
  /\ unpaid' = [d \in Dests |->
       unpaid[d]
         + Cardinality({t \in Bound(S, d) : task[t].slot = "old" \/ task[t].made})
         + Cardinality({t \in Bound(T, d) : task[t].slot = "old" \/ task[t].made \/ t \in S})]

----------------------------------------------------------------------------
(***************************************************************************)
(* Telegram and the clock                                                  *)
(***************************************************************************)

Watched == {RouteSource[r] : r \in active}

Publish(m) ==
  /\ m \notin published
  /\ \A n \in Messages : n < m => n \in published
  /\ published' = published \cup {m}
  /\ inbox' = IF up = "live" /\ SourceOf[m] \in Watched THEN inbox \cup {m} ELSE inbox
  /\ offline' = IF up = "live" THEN offline ELSE offline \cup {m}
  /\ UNCHANGED <<procVars, todo, task, fileVars, open, capVars, handled, recorded,
                 twice, torn>>

\* Midnight in the time zone of the routes: counts are kept by day.
NewDay ==
  /\ quota' = [d \in Dests |-> 0]
  /\ posts' = [d \in Dests |-> 0]
  /\ unpaid' = [d \in Dests |-> 0]
  /\ task' = [t \in Tasks |->
                [task[t] EXCEPT !.slot = IF @ = "today" THEN "old" ELSE @, !.made = FALSE]]
  /\ UNCHANGED <<procVars, todo, queue, lastSeen, remembered, envVars, histVars>>

\* The schedule opens or closes.
Window ==
  /\ conf.scheduled # {}
  /\ open' = ~open
  /\ UNCHANGED <<procVars, todo, task, fileVars, published, inbox, capVars, histVars>>

\* An entry is older than window_hours.
Forget(e) ==
  /\ e \in remembered
  /\ remembered' = remembered \ {e}
  /\ UNCHANGED <<procVars, todo, task, queue, lastSeen, quota, envVars, capVars, histVars>>

----------------------------------------------------------------------------
(***************************************************************************)
(* start, stop and the end of the process                                  *)
(***************************************************************************)

\* The task of start() asks for the history of the first route of S.
Asking(S) == [Idle EXCEPT !.at = "asking", !.cur = <<Least(S), lastSeen[Least(S)]>>]

\* There is no await between the registration of the handlers and the first last_seen.
Start(a) ==
  /\ up # "live"
  /\ starts < MaxStarts[conf]
  /\ up' = "live" /\ active' = a /\ starts' = starts + 1
  /\ UNCHANGED conf
  /\ todo' = a \ {Least(a)}
  /\ task' = [task EXCEPT ![CatchUp] = Asking(a), ![Publisher].at = "ready"]
  /\ UNCHANGED <<fileVars, envVars, capVars, histVars>>

\* Routes the catch-up is not through with.
Uncaught ==
  todo \cup {x[1] : x \in task[CatchUp].work}
       \cup (IF task[CatchUp].at = "asking" THEN {task[CatchUp].cur[1]} ELSE {})

\* An item the publisher has published and not marked stays in the queue.
Unmarked == {task[Publisher].cur} \cap recorded

\* stop(), as part of a reload: the publisher is cancelled wherever it waits, the handler
\* tasks go on.
Stop(lost, S) ==
  /\ up = "live"
  /\ task[CatchUp].at = "off"
  /\ up' = "stopped" /\ active' = {}
  /\ S \subseteq {Publisher}
  /\ Account(S, {Publisher})
  /\ task' = [task EXCEPT ![Publisher] = Idle]
  /\ inbox' = inbox \ lost
  /\ twice' = twice \cup Unmarked
  /\ UNCHANGED <<conf, starts, todo, queue, lastSeen, remembered, published, open,
                 handled, recorded, offline, torn>>

Down ==
  /\ up # "down"
  /\ up' = "down" /\ active' = {}
  /\ task' = [t \in Tasks |-> Idle]
  /\ inbox' = {}
  /\ torn' = torn \cup Uncaught
  /\ todo' = {}
  /\ twice' = twice \cup Unmarked
  /\ UNCHANGED <<conf, starts, queue, lastSeen, remembered, published, open, handled,
                 recorded, offline>>

\* The job ends: asyncio.run cancels every task that is left, which gives its slot back.
End(S) == Down /\ Account(S, Tasks)

\* The process is killed (Stop-Process -Force); the files stay.
Kill(S) == Down /\ Account(S, {})

----------------------------------------------------------------------------
(***************************************************************************)
(* Where the work of the tasks comes from                                  *)
(***************************************************************************)

\* _on_new_message
Dispatch(m) ==
  /\ up = "live"
  /\ m \in inbox
  /\ inbox' = inbox \ {m}
  /\ task' = [task EXCEPT ![m].work = {r \in active : RouteSource[r] = SourceOf[m]} \X {m},
                          ![m].at = IF SourceOf[m] \in Watched THEN "ready" ELSE "off"]
  /\ UNCHANGED <<procVars, todo, fileVars, published, open, capVars, histVars>>

CatchUpFree == task[CatchUp].at = "ready" /\ task[CatchUp].work = {}

\* catch_up_routes, one route after the other: last_seen is read, then the history asked for.
CatchUpAsk ==
  /\ CatchUpFree
  /\ todo # {}
  /\ todo' = todo \ {Least(todo)}
  /\ task' = [task EXCEPT ![CatchUp] = Asking(todo)]
  /\ UNCHANGED <<procVars, fileVars, envVars, capVars, histVars>>

CatchUpFails ==
  /\ task[CatchUp].at = "asking"
  /\ task' = [task EXCEPT ![CatchUp] = [Idle EXCEPT !.at = "ready"]]
  /\ torn' = torn \cup {task[CatchUp].cur[1]}
  /\ UNCHANGED <<procVars, todo, fileVars, envVars, capVars, handled, recorded, twice, offline>>

OfRoute(r) == {m \in published : SourceOf[m] = RouteSource[r]}

\* The newest messages after last_seen.
Missed(r, last) ==
  {m \in OfRoute(r) : m > last /\ Cardinality({n \in OfRoute(r) : n > m}) < CatchupLimit}

\* Someone else has share x in hand, or will have it.
Elsewhere(x) ==
  \/ x[2] \in inbox
  \/ \E t \in Tasks : x \in task[t].work
  \/ x \in Pending

\* Mutant: last_seen is read when the history has come.
CatchUpFetchLate ==
  LET r == task[CatchUp].cur[1]
      batch == {r} \X Missed(r, lastSeen[r])
  IN  /\ task[CatchUp].at = "asking"
      /\ task' = [task EXCEPT ![CatchUp] = [Idle EXCEPT !.at = "ready", !.work = batch]]
      /\ twice' = twice \cup {x \in batch : Elsewhere(x)}
      /\ UNCHANGED <<procVars, todo, fileVars, envVars, capVars, handled, recorded, offline,
                     torn>>

CatchUpFetch ==
  LET r == task[CatchUp].cur[1]
      batch == {r} \X Missed(r, task[CatchUp].cur[2])
  IN  /\ task[CatchUp].at = "asking"
      /\ task' = [task EXCEPT ![CatchUp] = [Idle EXCEPT !.at = "ready", !.work = batch]]
      /\ twice' = twice \cup {x \in batch : Elsewhere(x)}
      /\ UNCHANGED <<procVars, todo, fileVars, envVars, capVars, handled, recorded, offline,
                     torn>>

\* start() returns.
CatchUpEnd ==
  /\ CatchUpFree
  /\ todo = {}
  /\ task' = [task EXCEPT ![CatchUp] = Idle]
  /\ UNCHANGED <<procVars, todo, fileVars, envVars, capVars, histVars>>

\* _flush_queue_once works on the items that are pending now.
PublisherTick ==
  /\ task[Publisher].at = "ready"
  /\ task[Publisher].work = {}
  /\ queue # <<>>
  /\ task' = [task EXCEPT ![Publisher].work = Pending]
  /\ UNCHANGED <<procVars, todo, fileVars, envVars, capVars, histVars>>

\* The catch-up goes by message, a handler by route, the publisher by the order of the queue.
Foremost(t, x) ==
  /\ task[t].at = "ready"
  /\ x \in task[t].work
  /\ IF t = Publisher
       THEN \E k \in DOMAIN queue :
              queue[k] = x /\ \A j \in DOMAIN queue : queue[j] \in task[t].work => k <= j
       ELSE \A y \in task[t].work : x[1] <= y[1] /\ x[2] <= y[2]

\* The route is unknown, paused or closed: the item stays in the queue.
PublisherSkip(x) ==
  /\ Foremost(Publisher, x)
  /\ x[1] \notin active \/ (x[1] \in conf.scheduled /\ ~open)
  /\ task' = [task EXCEPT ![Publisher].work = @ \ {x}]
  /\ UNCHANGED <<procVars, todo, fileVars, envVars, capVars, histVars>>

PublisherFetch(x) ==
  /\ Foremost(Publisher, x)
  /\ x[1] \in active /\ (x[1] \in conf.scheduled => open)
  /\ task' = [task EXCEPT ![Publisher].at = "fetching", ![Publisher].cur = x]
  /\ UNCHANGED <<procVars, todo, fileVars, envVars, capVars, histVars>>

\* The task turns to what it has to do next.
Proceed(t, x) ==
  [Idle EXCEPT !.work = task[t].work \ {x},
               !.at = IF t \in Messages /\ task[t].work \subseteq {x} THEN "off" ELSE "ready"]

\* The message cannot be fetched or was deleted: the item is marked failed.
PublisherLose ==
  LET x == task[Publisher].cur
  IN  /\ task[Publisher].at = "fetching"
      /\ task' = [task EXCEPT ![Publisher] = Proceed(Publisher, x)]
      /\ queue' = Without(x)
      /\ UNCHANGED <<procVars, todo, lastSeen, quota, remembered, envVars, capVars, histVars>>

----------------------------------------------------------------------------
(***************************************************************************)
(* process_messages up to the first request                                *)
(***************************************************************************)

\* Task t is about to process share x.
Facing(t, x) ==
  \/ t # Publisher /\ Foremost(t, x)
  \/ t = Publisher /\ task[t].at = "fetching" /\ task[t].cur = x

\* What the caller does with the answer: the publisher marks its item done, or skipped when the
\* cap is reached by then; else the item stays.
Conclude(t, x, ok) ==
  /\ task' = [task EXCEPT ![t] = Proceed(t, x)]
  /\ queue' = IF t = Publisher /\ (ok \/ Full(quota', x[1])) THEN Without(x) ELSE queue

Entry(x) == <<x[1], Fingerprint[x[2]]>>

Screened(x) == x \in conf.blocked \/ (x[1] \in conf.dedup /\ Entry(x) \in remembered)

Refuse(t, x) ==
  /\ Facing(t, x)
  /\ Screened(x)
  /\ UNCHANGED <<quota, capVars>>
  /\ Conclude(t, x, FALSE)
  /\ handled' = handled \cup {x}
  /\ UNCHANGED <<procVars, todo, lastSeen, remembered, envVars, recorded, twice, offline, torn>>

Closed(t, x) == t # Publisher /\ x[1] \in conf.scheduled /\ ~open

Enqueue(t, x) ==
  /\ Facing(t, x)
  /\ ~Screened(x) /\ Closed(t, x)
  /\ task' = [task EXCEPT ![t] = Proceed(t, x)]
  /\ queue' = Added(x)
  /\ handled' = IF x \in Pending' THEN handled \cup {x} ELSE handled
  /\ UNCHANGED <<procVars, todo, lastSeen, quota, remembered, envVars, capVars, recorded, twice,
                 offline, torn>>

\* _skip_daily_cap
SkipCapped(t, x) ==
  /\ Facing(t, x)
  /\ ~Screened(x) /\ ~Closed(t, x)
  /\ Full(quota, x[1])
  /\ SetLastSeen(x)
  /\ UNCHANGED <<quota, capVars>>
  /\ Conclude(t, x, FALSE)
  /\ handled' = handled \cup {x}
  /\ UNCHANGED <<procVars, todo, remembered, envVars, recorded, twice, offline, torn>>

\* A dry run only says so, but takes the item from the queue.
DryRun(t, x) ==
  /\ Facing(t, x)
  /\ ~Screened(x) /\ ~Closed(t, x) /\ ~Full(quota, x[1])
  /\ conf.dry
  /\ UNCHANGED <<quota, capVars>>
  /\ Conclude(t, x, TRUE)
  /\ handled' = handled \cup {x}
  /\ UNCHANGED <<procVars, todo, lastSeen, remembered, envVars, recorded, twice, offline, torn>>

\* try_consume, then _deliver.
BeginSend(t, x) ==
  /\ Facing(t, x)
  /\ ~Screened(x) /\ ~Closed(t, x) /\ ~Full(quota, x[1])
  /\ ~conf.dry
  /\ task' = [task EXCEPT ![t].at = "sending", ![t].cur = x,
                          ![t].slot = IF conf.limit[x[1]] > 0 THEN "today" ELSE "none"]
  /\ quota' = IF conf.limit[x[1]] > 0 THEN [quota EXCEPT ![DestOf[x[1]]] = @ + 1] ELSE quota
  /\ UNCHANGED <<procVars, todo, queue, lastSeen, remembered, envVars, capVars, histVars>>

----------------------------------------------------------------------------
(***************************************************************************)
(* _deliver and _forward_fallback                                          *)
(***************************************************************************)

Cur(t) == task[t].cur

\* Share x, if the catch-up has just asked for what comes before it.
Overtaken(x) ==
  {y \in {x} : /\ task[CatchUp].at = "asking"
               /\ task[CatchUp].cur[1] = y[1] /\ task[CatchUp].cur[2] < y[2]}

\* The answer: last_seen is set before the delay, by the fallback after it.
Reply(t) ==
  /\ t \in Sending
  /\ Account({t}, {})
  /\ task' = [task EXCEPT ![t].at = "resting", ![t].made = task[t].slot # "none"]
  /\ IF task[t].second
       THEN UNCHANGED <<lastSeen, recorded, twice>>
       ELSE /\ SetLastSeen(Cur(t))
            /\ recorded' = recorded \cup {Cur(t)}
            /\ twice' = twice \cup Overtaken(Cur(t))
  /\ UNCHANGED <<procVars, todo, queue, remembered, envVars, handled, offline, torn>>

RestEnd(t) ==
  /\ task[t].at = "resting"
  /\ UNCHANGED <<quota, capVars>>
  /\ Conclude(t, Cur(t), TRUE)
  /\ remembered' = IF Cur(t)[1] \in conf.dedup THEN remembered \cup {Entry(Cur(t))} ELSE remembered
  /\ SetLastSeen(Cur(t))
  /\ recorded' = recorded \cup {Cur(t)}
  /\ handled' = handled \cup {Cur(t)}
  /\ twice' = twice \cup Overtaken(Cur(t))
  /\ UNCHANGED <<procVars, todo, envVars, offline, torn>>

\* Any error but FloodWait, before or after Telegram has published (S): the message is
\* forwarded instead.
SendError(t, S) ==
  /\ t \in Sending
  /\ ~task[t].second
  /\ Cur(t) \in MayFail
  /\ Account(S, {})
  /\ task' = [task EXCEPT ![t].second = TRUE, ![t].made = S # {} /\ task[t].slot # "none"]
  /\ UNCHANGED <<procVars, todo, queue, lastSeen, remembered, envVars, histVars>>

\* The fallback fails too, and the slot is given back.
GiveUp(t, S) ==
  /\ t \in Sending
  /\ task[t].second
  /\ Account(S, {t})
  /\ Conclude(t, Cur(t), FALSE)
  /\ handled' = handled \cup {Cur(t)}
  /\ UNCHANGED <<procVars, todo, lastSeen, remembered, envVars, recorded, twice, offline, torn>>

\* FloodWait leaves process_messages: a handler drops the routes it has left, the catch-up ends
\* with start() failing, the publisher marks its item failed.
FloodWait(t) ==
  /\ t \in Sending
  /\ ~task[t].second
  /\ Cur(t) \in MayFail
  /\ Account({}, {t})
  /\ task' = [task EXCEPT ![t] = IF t = Publisher THEN Proceed(t, Cur(t)) ELSE Idle]
  /\ queue' = IF t = Publisher THEN Without(Cur(t)) ELSE queue
  /\ IF t = CatchUp THEN torn' = torn \cup Uncaught /\ todo' = {}
     ELSE UNCHANGED <<torn, todo>>
  /\ UNCHANGED <<procVars, lastSeen, remembered, envVars, handled, recorded, twice, offline>>

----------------------------------------------------------------------------
Process(t) ==
  \E x \in task[t].work :
    Refuse(t, x) \/ Enqueue(t, x) \/ SkipCapped(t, x) \/ DryRun(t, x) \/ BeginSend(t, x)

Deliver(t) ==
  \/ Reply(t) \/ RestEnd(t) \/ FloodWait(t)
  \/ \E S \in SUBSET {t} : SendError(t, S) \/ GiveUp(t, S)

CatchUpStep == CatchUpAsk \/ CatchUpFails \/ CatchUpFetch \/ CatchUpEnd

PublisherStep ==
  \/ PublisherTick \/ PublisherLose
  \/ \E x \in task[Publisher].work : PublisherSkip(x) \/ PublisherFetch(x)

Next ==
  \/ \E m \in Messages : Publish(m) \/ Dispatch(m)
  \/ NewDay \/ Window
  \/ \E e \in remembered : Forget(e)
  \/ \E a \in Actives : Start(a)
  \/ \E S \in SUBSET Sending : (\E lost \in SUBSET inbox : Stop(lost, S)) \/ End(S) \/ Kill(S)
  \/ CatchUpStep \/ PublisherStep
  \/ \E t \in Tasks : Process(t) \/ Deliver(t)

Spec == Init /\ [][Next]_vars

----------------------------------------------------------------------------
(***************************************************************************)
(* Properties                                                              *)
(***************************************************************************)

\* The daily cap of a destination, which is that of one of its routes, holds for every post
\* that still has its slot, over all its routes, tasks, restarts and refunds.  The posts without
\* a slot are those of deliveries that were cancelled, that failed after the message was out, or
\* that went over midnight.
CapCounts ==
  \A d \in Dests : Capped(d) # {} =>
    \E r \in Capped(d) : posts[d] <= conf.limit[r] + unpaid[d]

\* A recorded message is published again on its route only if another task or the queue had it
\* in hand at the time, or its item was left unmarked: never by a catch-up after a restart.
NoRepost ==
  \A t \in Tasks :
    task[t].at = "sending" /\ ~task[t].second /\ Cur(t) \in recorded => Cur(t) \in twice

\* Once start() has returned, every message that came while the module was not running, and
\* that is new enough for the limit, was dealt with.
CaughtUp == up = "live" /\ task[CatchUp].at = "off"

Newest(m) ==
  Cardinality({n \in published : SourceOf[n] = SourceOf[m] /\ n > m}) < CatchupLimit

Complete(r) ==
  CaughtUp /\ r \in active \ torn =>
    \A m \in offline : SourceOf[m] = RouteSource[r] /\ Newest(m) => <<r, m>> \in handled

\* The first route has nothing left behind, whatever handlers deliver meanwhile: unless its
\* catch-up was cut short or its messages went through the schedule.
FirstComplete == Least(Routes) \notin conf.scheduled => Complete(Least(Routes))

\* catchup.py:1, "Catch-up/backfill for missed messages while offline": on every route.  The
\* code does not keep it (run forward_missed).
NothingMissed == \A r \in Routes : Complete(r)

=============================================================================
