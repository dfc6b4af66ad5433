------------------------- MODULE ChannelForwardProof -------------------------
(***************************************************************************)
(* Proofs about ChannelForward, for any messages, routes, destinations,    *)
(* configurations and limits.                                              *)
(*                                                                         *)
(* Sound is the type invariant with what a task's place implies: a task    *)
(* that delivers has a share of its own work in hand, and the publisher's  *)
(* share is pending.  Over it there are three invariants: Trail says where *)
(* a share that was noted as published can still be in hand (NeverAgain),  *)
(* Counted that posts and slots held are covered by the count and what is  *)
(* unpaid (CapHolds), Pursued where the messages that the first route owes *)
(* are while start() catches up (FirstCaughtUp).                           *)
(***************************************************************************)
EXTENDS ChannelForward, FiniteSetTheorems, WellFoundedInduction, TLAPS

----------------------------------------------------------------------------
(* The least number of a set *)

(* Routes and messages are numbers, hence the least of them exists.          *)
LEMMA SomeLeast ==
    ASSUME NEW S, S \subseteq Nat, S # {}
    PROVE  \E x \in S : \A y \in S : x <= y
  <1> DEFINE Below == {p \in Nat \X Nat : p[1] < p[2]}
  <1>1. IsWellFoundedOn(Below, Nat) BY NatLessThanWellFounded DEF OpToRel
  <1>2. \E x \in S : \A y \in S : ~(<<y, x>> \in Below) BY <1>1, WFMin, Zenon
  <1>3. PICK x \in S : \A y \in S : ~(<<y, x>> \in Below) BY <1>2
  <1>4. ASSUME NEW y \in S PROVE x <= y
    <2>1. <<y, x>> \in Nat \X Nat /\ ~(<<y, x>>[1] < <<y, x>>[2]) BY <1>3
    <2> QED BY <2>1
  <1> QED BY <1>4

LEMMA LeastIs ==
    ASSUME NEW S, S \subseteq Nat, S # {}
    PROVE  Least(S) \in S /\ \A y \in S : Least(S) <= y
  BY SomeLeast DEF Least

----------------------------------------------------------------------------
(* What the state may be *)

\* The items of the publish queue
Once == \A j, k \in DOMAIN queue : queue[j][2] = queue[k][2] => j = k

Files ==
    /\ queue \in Seq(Shares) /\ Once
    /\ lastSeen \in [Routes -> Messages \cup {0}]
    /\ quota \in [Dests -> Nat]
    /\ remembered \subseteq {<<r, Fingerprint[m]>> : r \in Routes, m \in Messages}

Course ==
    /\ up \in {"down", "stopped", "live"}
    /\ active \subseteq Routes /\ conf \in Configs /\ starts \in 0..MaxStarts[conf]
    /\ todo \subseteq Routes
    /\ published \subseteq Messages /\ inbox \subseteq published /\ open \in BOOLEAN

Notes ==
    /\ posts \in [Dests -> Nat] /\ unpaid \in [Dests -> Nat]
    /\ handled \subseteq Shares /\ recorded \subseteq Shares /\ twice \subseteq Shares
    /\ offline \subseteq Messages /\ torn \subseteq Routes

Underway == {"sending", "resting"}

\* What the place of a task says of what it holds
Good(t) ==
    /\ \A x \in task[t].work : x[2] \in published
    /\ t \in Messages => \A x \in task[t].work : x[2] = t
    /\ t \in Messages /\ task[t].work = {} => task[t].at = "off"
    /\ t = Publisher => task[t].work \subseteq Pending
    /\ task[t].at \in {"fetching"} \cup Underway => task[t].cur \in task[t].work
    /\ task[t].at = "asking" => t = CatchUp
    /\ task[t].at = "fetching" => t = Publisher
    /\ task[t].at \in {"off", "asking"} => task[t].work = {}
    /\ task[t].slot # "none" => task[t].at \in Underway /\ conf.limit[task[t].cur[1]] > 0
    /\ task[t].made => task[t].slot # "none" \/ task[t].at \in Underway
    /\ task[t].made => task[t].at = "resting" \/ task[t].second

Hands ==
    /\ task \in [Tasks -> Task] /\ \A t \in Tasks : Good(t)
    /\ \A m \in inbox : task[m].at = "off"
    /\ up # "live" => active = {} /\ task[CatchUp].at = "off" /\ task[Publisher].at = "off"

\* All that is waited for, kept or noted was published
Known ==
    /\ \A x \in Pending \cup recorded : x[2] \in published
    /\ \A r \in Routes : lastSeen[r] \in published \cup {0}

Sound == Files /\ Course /\ Notes /\ Hands /\ Known

----------------------------------------------------------------------------
(* The queue *)

LEMMA PendingShares ==
    ASSUME queue \in Seq(Shares)
    PROVE  Pending \subseteq Shares
  BY DEF Pending

(* An item that is added is pending, unless its message is so already, and   *)
(* nothing else changes (queue.py:24).                                       *)
LEMMA AddedPending ==
    ASSUME queue \in Seq(Shares), Once, NEW x \in Shares, queue' = Added(x)
    PROVE  /\ queue' \in Seq(Shares) /\ Once'
           /\ Pending' = Pending \/ (Pending' = Pending \cup {x} /\ \A y \in Pending : y[2] # x[2])
  <1>1. CASE \E k \in DOMAIN queue : queue[k][2] = x[2]
    BY <1>1 DEF Added, Once, Pending
  <1>2. CASE ~\E k \in DOMAIN queue : queue[k][2] = x[2]
    <2>1. queue' = Append(queue, x) BY <1>2 DEF Added
    <2>2. /\ queue' \in Seq(Shares) /\ DOMAIN queue = 1..Len(queue)
          /\ DOMAIN queue' = 1..(Len(queue) + 1) /\ Len(queue) \in Nat
          /\ \A k \in DOMAIN queue : queue'[k] = queue[k]
          /\ queue'[Len(queue) + 1] = x
      BY <2>1
    <2>3. DOMAIN queue' = DOMAIN queue \cup {Len(queue) + 1} BY <2>2
    <2>4. Once' BY <1>2, <2>2, <2>3 DEF Once
    <2>5. Pending' = Pending \cup {x} BY <2>2, <2>3 DEF Pending
    <2>6. \A y \in Pending : y[2] # x[2] BY <1>2 DEF Pending
    <2> QED BY <2>2, <2>4, <2>5, <2>6
  <1> QED BY <1>1, <1>2

(* An item that is marked leaves the others pending (queue.py:63-100).       *)
LEMMA WithoutPending ==
    ASSUME queue \in Seq(Shares), Once, NEW x \in Pending, queue' = Without(x)
    PROVE  queue' \in Seq(Shares) /\ Once' /\ Pending' = Pending \ {x}
  <1> DEFINE n == Len(queue)
             p == Place(x)
  <1>1. p \in DOMAIN queue /\ queue[p] = x BY DEF Place, Pending
  <1>2. n \in Nat /\ DOMAIN queue = 1..n OBVIOUS
  <1>3. n - 1 \in Nat BY <1>1, <1>2
  <1>4. \A k \in 1..(n - 1) : k \in DOMAIN queue /\ k + 1 \in DOMAIN queue BY <1>2, <1>3
  <1>5. queue' = [k \in 1..(n - 1) |-> IF k < p THEN queue[k] ELSE queue[k + 1]]
    BY DEF Without
  <1> HIDE DEF n, p
  <1>6. \A k \in 1..(n - 1) : queue'[k] = IF k < p THEN queue[k] ELSE queue[k + 1] BY <1>5
  <1>7. \A k \in DOMAIN queue : queue[k] \in Shares OBVIOUS
  <1>8. queue' \in [1..(n - 1) -> Shares] BY <1>4, <1>5, <1>7
  <1>9. queue' \in Seq(Shares) /\ DOMAIN queue' = 1..(n - 1)
    <2>1. ASSUME NEW m \in Nat, NEW q \in [1..m -> Shares] PROVE q \in Seq(Shares) OBVIOUS
    <2> QED BY <1>3, <1>5, <1>8, <2>1
  <1>10. \A k \in 1..(n - 1) : \E j \in DOMAIN queue :
           queue'[k] = queue[j] /\ j # p /\ j = (IF k < p THEN k ELSE k + 1)
    BY <1>1, <1>2, <1>4, <1>6
  <1>11. Once'
    <2> SUFFICES ASSUME NEW j \in 1..(n - 1), NEW k \in 1..(n - 1), queue'[j][2] = queue'[k][2]
                 PROVE  j = k
      BY <1>9 DEF Once
    <2>1. PICK i \in DOMAIN queue : queue'[j] = queue[i] /\ i = (IF j < p THEN j ELSE j + 1)
      BY <1>10
    <2>2. PICK l \in DOMAIN queue : queue'[k] = queue[l] /\ l = (IF k < p THEN k ELSE k + 1)
      BY <1>10
    <2>3. i = l BY <2>1, <2>2 DEF Once
    <2> QED BY <1>1, <1>2, <2>1, <2>2, <2>3
  <1>12. ASSUME NEW y \in Pending' PROVE y \in Pending \ {x}
    <2>1. PICK k \in 1..(n - 1) : y = queue'[k] BY <1>9, <1>12 DEF Pending
    <2>2. PICK j \in DOMAIN queue : y = queue[j] /\ j # p BY <2>1, <1>10
    <2>3. y # x BY <1>1, <2>2 DEF Once
    <2> QED BY <2>2, <2>3 DEF Pending
  <1>13. ASSUME NEW y \in Pending, y # x PROVE y \in Pending'
    <2>1. PICK j \in DOMAIN queue : y = queue[j] BY DEF Pending
    <2>2. j # p BY <1>1, <1>13, <2>1
    <2>3. CASE j < p
      <3>1. j \in 1..(n - 1) /\ queue'[j] = y BY <1>1, <1>2, <1>6, <2>1, <2>3
      <3> QED BY <3>1, <1>9 DEF Pending
    <2>4. CASE p < j
      <3>1. j - 1 \in 1..(n - 1) /\ queue'[j - 1] = y BY <1>1, <1>2, <1>6, <2>1, <2>4
      <3> QED BY <3>1, <1>9 DEF Pending
    <2> QED BY <1>1, <1>2, <2>2, <2>3, <2>4
  <1> QED BY <1>9, <1>11, <1>12, <1>13

----------------------------------------------------------------------------
(* Tasks *)

Turn(t, v) == task' = [task EXCEPT ![t] = v]

LEMMA TasksFinite == IsFiniteSet(Tasks)
  <1>1. IsFiniteSet(Messages \cup {CatchUp}) BY ForwardAssumption, FS_AddElement
  <1>2. IsFiniteSet((Messages \cup {CatchUp}) \cup {Publisher}) BY <1>1, FS_AddElement
  <1>3. Tasks = (Messages \cup {CatchUp}) \cup {Publisher} BY DEF Tasks
  <1> QED BY <1>2, <1>3

LEMMA TaskNames ==
    /\ CatchUp \in Tasks /\ Publisher \in Tasks /\ Messages \subseteq Tasks
    /\ CatchUp # Publisher /\ CatchUp \notin Messages /\ Publisher \notin Messages
  BY ForwardAssumption DEF Tasks, CatchUp, Publisher

LEMMA CellOf ==
    /\ NoCell \in Cells /\ Shares \subseteq Cells
    /\ \A x \in Shares : x[1] \in Routes /\ x[2] \in Messages /\ x = <<x[1], x[2]>>
    /\ \A r \in Routes, m \in Messages \cup {0} : <<r, m>> \in Cells
    /\ \A x \in Cells : x[1] \in Routes /\ x[2] \in Messages \cup {0}
  BY ForwardAssumption DEF NoCell, Cells, Shares

LEMMA TaskParts ==
    ASSUME NEW v \in Task
    PROVE  /\ v.at \in TaskStates /\ v.work \subseteq Shares /\ v.cur \in Cells
           /\ v.second \in BOOLEAN /\ v.slot \in {"none", "today", "old"} /\ v.made \in BOOLEAN
  BY DEF Task

LEMMA IdleTask ==
    /\ Idle \in Task
    /\ Idle.at = "off" /\ Idle.work = {} /\ Idle.second = FALSE /\ Idle.slot = "none"
    /\ Idle.made = FALSE
  BY CellOf DEF Idle, Task, TaskStates

LEMMA Turned ==
    ASSUME task \in [Tasks -> Task], NEW t \in Tasks, NEW v \in Task, Turn(t, v)
    PROVE  /\ task' \in [Tasks -> Task] /\ task'[t] = v
           /\ \A s \in Tasks : s # t => task'[s] = task[s]
  BY DEF Turn

(* A task that nothing was done to is as good as before.                     *)
LEMMA GoodStays ==
    ASSUME NEW t, Good(t), task'[t] = task[t], published \subseteq published', conf' = conf,
           t = Publisher => Pending \subseteq Pending' \/ task[t].work \subseteq Pending'
    PROVE  Good(t)'
  BY DEF Good

LEMMA HandsTurn ==
    ASSUME Sound, NEW t \in Tasks, NEW v \in Task, Turn(t, v), Good(t)',
           UNCHANGED <<up, active, published, conf>>, inbox' \subseteq inbox \ {t},
           t # Publisher => Pending \subseteq Pending',
           up = "live" \/ t \in Messages \/ v.at = "off"
    PROVE  Hands'
  <1>1. /\ task' \in [Tasks -> Task] /\ task'[t] = v
        /\ \A s \in Tasks : s # t => task'[s] = task[s]
    BY Turned DEF Sound, Hands
  <1>2. \A s \in Tasks : Good(s)' BY <1>1, GoodStays DEF Sound, Hands
  <1>3. \A m \in inbox' : task'[m].at = "off"
    BY <1>1, TaskNames DEF Sound, Hands, Course
  <1>4. up' # "live" => active' = {} /\ task'[CatchUp].at = "off" /\ task'[Publisher].at = "off"
    BY <1>1, TaskNames DEF Sound, Hands
  <1> QED BY <1>1, <1>2, <1>3, <1>4 DEF Hands

\* The task is through with x
Ends(t, x) == t \in Tasks /\ x \in task[t].work /\ Turn(t, Proceed(t, x))

LEMMA ProceedTask ==
    ASSUME Sound, NEW t \in Tasks, NEW x \in task[t].work
    PROVE  /\ Proceed(t, x) \in Task /\ Proceed(t, x).work = task[t].work \ {x}
           /\ Proceed(t, x).at \in {"off", "ready"} /\ Proceed(t, x).slot = "none"
           /\ Proceed(t, x).made = FALSE
           /\ Proceed(t, x).at = "off" <=> t \in Messages /\ Proceed(t, x).work = {}
  BY IdleTask, CellOf, TaskParts DEF Proceed, Idle, Task, TaskStates, Sound, Hands

LEMMA EndsHands ==
    ASSUME Sound, NEW t, NEW x, Ends(t, x), UNCHANGED <<up, active, published, conf, inbox>>,
           t = Publisher => Pending \ {x} \subseteq Pending',
           t # Publisher => Pending \subseteq Pending'
    PROVE  Hands'
  <1> DEFINE v == Proceed(t, x)
  <1>1. t \in Tasks /\ x \in task[t].work /\ Turn(t, v) BY DEF Ends
  <1>2. /\ v \in Task /\ v.work = task[t].work \ {x} /\ v.at \in {"off", "ready"}
        /\ v.slot = "none" /\ v.made = FALSE /\ (v.at = "off" <=> t \in Messages /\ v.work = {})
    BY <1>1, ProceedTask
  <1> HIDE DEF v
  <1>3. task'[t] = v BY <1>1, <1>2, Turned DEF Sound, Hands
  <1>4. Good(t) BY <1>1 DEF Sound, Hands
  <1>5. Good(t)' BY <1>2, <1>3, <1>4 DEF Good, Underway
  <1>6. task[t].at # "off" BY <1>1, <1>4 DEF Good
  <1>7. t \notin inbox /\ (up = "live" \/ t \in Messages)
    BY <1>1, <1>6 DEF Sound, Hands, Tasks, CatchUp, Publisher
  <1> QED BY <1>1, <1>2, <1>5, <1>7, HandsTurn

----------------------------------------------------------------------------
(* Files, counts and the clock *)

LEMMA BoundFinite ==
    ASSUME NEW T, T \subseteq Tasks, NEW d
    PROVE  IsFiniteSet(Bound(T, d)) /\ Cardinality(Bound(T, d)) \in Nat
  <1>1. Bound(T, d) \in SUBSET Tasks BY DEF Bound
  <1> QED BY <1>1, TasksFinite, FS_Subset, FS_CardinalityType

LEMMA CountFinite ==
    ASSUME NEW S, S \subseteq Tasks
    PROVE  IsFiniteSet(S) /\ Cardinality(S) \in Nat
  BY TasksFinite, FS_Subset, FS_CardinalityType

LEMMA AccountTyped ==
    ASSUME Sound, NEW S, NEW T, S \subseteq Tasks, T \subseteq Tasks, Account(S, T)
    PROVE  quota' \in [Dests -> Nat] /\ posts' \in [Dests -> Nat] /\ unpaid' \in [Dests -> Nat]
  <1>1. ASSUME NEW d \in Dests
        PROVE  /\ AfterRefund(quota[d], Cardinality(Bound(T, d))) \in Nat
               /\ posts[d] + Cardinality(Bound(S, d)) \in Nat
    <2>1. quota[d] \in Nat /\ posts[d] \in Nat BY DEF Sound, Files, Notes
    <2>2. Cardinality(Bound(T, d)) \in Nat /\ Cardinality(Bound(S, d)) \in Nat BY BoundFinite
    <2> QED BY <2>1, <2>2 DEF AfterRefund
  <1>2. ASSUME NEW d \in Dests
        PROVE  unpaid[d]
                 + Cardinality({t \in Bound(S, d) : task[t].slot = "old" \/ task[t].made})
                 + Cardinality({t \in Bound(T, d) : task[t].slot = "old" \/ task[t].made \/ t \in S})
                 \in Nat
    <2>1. /\ {t \in Bound(S, d) : task[t].slot = "old" \/ task[t].made} \subseteq Tasks
          /\ {t \in Bound(T, d) : task[t].slot = "old" \/ task[t].made \/ t \in S} \subseteq Tasks
      BY DEF Bound
    <2>2. unpaid[d] \in Nat BY DEF Sound, Notes
    <2> QED BY <2>1, <2>2, CountFinite
  <1> QED BY <1>1, <1>2 DEF Account

LEMMA SetLastSeenKnown ==
    ASSUME Sound, NEW x \in Shares, SetLastSeen(x), x[2] \in published, published' = published
    PROVE  /\ lastSeen' \in [Routes -> Messages \cup {0}]
           /\ \A r \in Routes : lastSeen'[r] \in published' \cup {0}
           /\ \A r \in Routes : lastSeen'[r] >= lastSeen[r]
           /\ lastSeen'[x[1]] >= x[2]
  <1>1. /\ x[1] \in Routes /\ x[2] \in Messages /\ Messages \subseteq Nat
        /\ lastSeen \in [Routes -> Messages \cup {0}]
    BY CellOf, ForwardAssumption DEF Sound, Files
  <1>2. x[2] \in Nat /\ \A r \in Routes : lastSeen[r] \in Nat
    <2>1. Messages \cup {0} \subseteq Nat BY <1>1
    <2>2. \A r \in Routes : lastSeen[r] \in Messages \cup {0} BY <1>1
    <2> QED BY <1>1, <2>1, <2>2
  <1>3. lastSeen' = [lastSeen EXCEPT ![x[1]] = IF x[2] > lastSeen[x[1]] THEN x[2] ELSE lastSeen[x[1]]]
    BY DEF SetLastSeen
  <1>4. \A r \in Routes : lastSeen'[r] = IF r = x[1] /\ x[2] > lastSeen[r] THEN x[2] ELSE lastSeen[r]
    BY <1>1, <1>3
  <1>5. lastSeen' \in [Routes -> Messages \cup {0}] BY <1>1, <1>3
  <1>6. \A r \in Routes : lastSeen'[r] \in published' \cup {0} BY <1>4 DEF Sound, Known
  <1>7. \A r \in Routes : lastSeen'[r] >= lastSeen[r] BY <1>2, <1>4
  <1>8. lastSeen'[x[1]] >= x[2]
    <2> DEFINE l == lastSeen[x[1]]
               n == lastSeen'[x[1]]
               m == x[2]
    <2>1. l \in Nat /\ m \in Nat /\ n = (IF m > l THEN m ELSE l) BY <1>1, <1>2, <1>4
    <2> HIDE DEF l, n, m
    <2>2. n >= m BY <2>1
    <2> QED BY <2>2 DEF n, m
  <1> QED BY <1>5, <1>6, <1>7, <1>8

\* What a step that is not about the process or the channels leaves alone
Steady == UNCHANGED <<procVars, todo, envVars, offline, torn>>

LEMMA SteadyCourse ==
    ASSUME Sound, Steady PROVE Course'
  BY DEF Sound, Course, Steady, procVars, envVars

LEMMA QueueKept == ASSUME queue' = queue PROVE Pending' = Pending /\ (Once => Once')
  BY DEF Pending, Once

----------------------------------------------------------------------------
(* Each step keeps the state sound *)

LEMMA PublishSound == ASSUME Sound, NEW m \in Messages, Publish(m) PROVE Sound'
  <1> USE DEF procVars, fileVars, capVars
  <1>1. /\ UNCHANGED <<up, active, conf, starts, todo, task, queue, lastSeen, quota, remembered>>
        /\ UNCHANGED <<open, posts, unpaid, handled, recorded, twice, torn>>
        /\ published' = published \cup {m} /\ inbox' \subseteq inbox \cup {m} /\ m \notin published
        /\ offline' \subseteq offline \cup {m}
    BY DEF Publish
  <1>2. Files' BY <1>1, QueueKept DEF Sound, Files
  <1>3. Course' BY <1>1 DEF Sound, Course
  <1>4. Notes' BY <1>1 DEF Sound, Notes
  <1>5. Hands'
    <2>1. \A t \in Tasks : Good(t)' BY <1>1, QueueKept, GoodStays DEF Sound, Hands
    <2>2. task[m].work = {} /\ task[m].at = "off"
      <3>1. m \in Tasks /\ Good(m) BY TaskNames DEF Sound, Hands
      <3>2. task[m].work = {} BY <1>1, <3>1 DEF Good
      <3> QED BY <3>1, <3>2 DEF Good
    <2> QED BY <1>1, <2>1, <2>2 DEF Sound, Hands
  <1>6. Known' BY <1>1, QueueKept DEF Sound, Known
  <1> QED BY <1>2, <1>3, <1>4, <1>5, <1>6 DEF Sound

\* What a step of a task that touches no queue may do to the rest
Around(t) ==
    /\ UNCHANGED <<procVars, published, open, queue, remembered, handled, offline>>
    /\ inbox' \subseteq inbox \ {t} /\ todo' \subseteq Routes
    /\ lastSeen' = lastSeen \/ \E x \in task[t].work : SetLastSeen(x)
    /\ quota' \in [Dests -> Nat] /\ posts' \in [Dests -> Nat] /\ unpaid' \in [Dests -> Nat]
    /\ recorded' \subseteq recorded \cup task[t].work
    /\ twice' \subseteq Shares /\ torn' \subseteq Routes

LEMMA TurnSound ==
    ASSUME Sound, NEW t \in Tasks, NEW v \in Task, Turn(t, v), Good(t)', Around(t),
           up = "live" \/ t \in Messages \/ v.at = "off"
    PROVE  Sound'
  <1>0. UNCHANGED <<up, active, conf, starts>> BY DEF Around, procVars
  <1>1. Pending' = Pending /\ Once' BY QueueKept DEF Around, Sound, Files
  <1>2. task[t].work \subseteq Shares /\ \A x \in task[t].work : x[2] \in published
    BY TaskParts DEF Sound, Hands, Good
  <1>3. /\ lastSeen' \in [Routes -> Messages \cup {0}]
        /\ \A r \in Routes : lastSeen'[r] \in published' \cup {0}
    <2>1. CASE lastSeen' = lastSeen BY <2>1 DEF Around, Sound, Files, Known
    <2>2. CASE \E x \in task[t].work : SetLastSeen(x)
      BY <1>2, <2>2, SetLastSeenKnown DEF Around
    <2> QED BY <2>1, <2>2 DEF Around
  <1>4. Files' BY <1>1, <1>3 DEF Around, Sound, Files
  <1>5. Course' BY <1>0 DEF Around, Sound, Course
  <1>6. Notes' BY <1>2 DEF Around, Sound, Notes
  <1>7. Hands' BY <1>0, <1>1, HandsTurn DEF Around
  <1>8. Known' BY <1>1, <1>2, <1>3 DEF Around, Sound, Known
  <1> QED BY <1>4, <1>5, <1>6, <1>7, <1>8 DEF Sound

\* What a step by which task t is through with x may do to the rest
Besides(t, x) ==
    /\ Steady /\ queue' \in Seq(Shares) /\ Once'
    /\ Pending' \subseteq Pending \cup {x}
    /\ Pending \ {x} \subseteq Pending' /\ (t # Publisher => Pending \subseteq Pending')
    /\ lastSeen' = lastSeen \/ SetLastSeen(x)
    /\ remembered' \subseteq remembered \cup {Entry(x)}
    /\ quota' \in [Dests -> Nat] /\ posts' \in [Dests -> Nat] /\ unpaid' \in [Dests -> Nat]
    /\ handled' \subseteq handled \cup {x} /\ recorded' \subseteq recorded \cup {x}
    /\ twice' \subseteq twice \cup {x}

LEMMA EndsSound ==
    ASSUME Sound, NEW t, NEW x, Ends(t, x), Besides(t, x)
    PROVE  Sound'
  <1>0. UNCHANGED <<up, active, conf, starts, todo, published, inbox, open, offline, torn>>
    BY DEF Besides, Steady, procVars, envVars
  <1>1. x \in Shares /\ x[2] \in published BY TaskParts DEF Ends, Sound, Hands, Good
  <1>2. /\ lastSeen' \in [Routes -> Messages \cup {0}]
        /\ \A r \in Routes : lastSeen'[r] \in published' \cup {0}
    <2>1. CASE lastSeen' = lastSeen BY <1>0, <2>1 DEF Sound, Files, Known
    <2>2. CASE SetLastSeen(x) BY <1>0, <1>1, <2>2, SetLastSeenKnown
    <2> QED BY <2>1, <2>2 DEF Besides
  <1>3. Entry(x) \in {<<r, Fingerprint[m]>> : r \in Routes, m \in Messages}
    BY <1>1, CellOf DEF Entry
  <1>4. Files'
    <2>1. remembered \subseteq {<<r, Fingerprint[m]>> : r \in Routes, m \in Messages}
      BY DEF Sound, Files
    <2>2. remembered' \subseteq remembered \cup {Entry(x)} BY DEF Besides
    <2>3. remembered' \subseteq {<<r, Fingerprint[m]>> : r \in Routes, m \in Messages}
      BY <1>3, <2>1, <2>2
    <2> QED BY <1>2, <2>3 DEF Besides, Files
  <1>5. Course' BY <1>0 DEF Sound, Course
  <1>6. Notes' BY <1>0, <1>1 DEF Besides, Sound, Notes
  <1>7. Hands' BY <1>0, EndsHands DEF Besides
  <1>8. Known' BY <1>0, <1>1, <1>2 DEF Besides, Sound, Known
  <1> QED BY <1>4, <1>5, <1>6, <1>7, <1>8 DEF Sound

LEMMA FacingWork ==
    ASSUME Sound, NEW t \in Tasks, NEW x \in task[t].work, Facing(t, x)
    PROVE  /\ x \in Shares /\ x[2] \in published /\ (t = Publisher => x \in Pending)
           /\ task[t].at \in {"ready", "fetching"} /\ task[t].slot = "none" /\ ~task[t].made
           /\ task[t].at = "fetching" => t = Publisher
  <1>1. task[t] \in Task /\ Good(t) BY DEF Sound, Hands
  <1>2. task[t].at \in {"ready", "fetching"} BY DEF Facing, Foremost
  <1> QED BY <1>1, <1>2, TaskParts DEF Good, Underway

LEMMA ConcludeEnds ==
    ASSUME Sound, NEW t \in Tasks, NEW x \in task[t].work, NEW ok, Conclude(t, x, ok)
    PROVE  /\ Ends(t, x) /\ queue' \in Seq(Shares) /\ Once'
           /\ Pending' = Pending \/ (t = Publisher /\ Pending' = Pending \ {x})
           /\ t = Publisher /\ ok = TRUE => Pending' = Pending \ {x}
  <1>1. Ends(t, x) BY DEF Conclude, Ends, Turn
  <1>2. t = Publisher => x \in Pending BY DEF Sound, Hands, Good
  <1>3. queue' = queue \/ (t = Publisher /\ queue' = Without(x)) BY DEF Conclude
  <1>4. t = Publisher /\ ok = TRUE => queue' = Without(x) BY DEF Conclude
  <1> QED BY <1>1, <1>2, <1>3, <1>4, WithoutPending, QueueKept DEF Sound, Files

LEMMA ProcessEnds ==
    ASSUME Sound, NEW t \in Tasks, NEW x \in task[t].work,
           Refuse(t, x) \/ Enqueue(t, x) \/ SkipCapped(t, x) \/ DryRun(t, x)
    PROVE  /\ Ends(t, x) /\ Besides(t, x) /\ UNCHANGED <<recorded, twice>>
           /\ x \in Pending' \ Pending => t # Publisher
  <1> USE DEF capVars, histVars
  <1>1. Facing(t, x) BY DEF Refuse, Enqueue, SkipCapped, DryRun
  <1>2. /\ x \in Shares /\ x[2] \in published /\ (t = Publisher => x \in Pending)
    BY <1>1, FacingWork
  <1>3. quota \in [Dests -> Nat] /\ posts \in [Dests -> Nat] /\ unpaid \in [Dests -> Nat]
    BY DEF Sound, Files, Notes
  <1>4. ASSUME \E ok : Conclude(t, x, ok), Steady, UNCHANGED <<quota, posts, unpaid, remembered>>,
               UNCHANGED <<recorded, twice>>, lastSeen' = lastSeen \/ SetLastSeen(x),
               handled' = handled \cup {x}
        PROVE  Ends(t, x) /\ Besides(t, x) /\ Pending' \subseteq Pending
    <2>1. PICK ok : Conclude(t, x, ok) BY <1>4
    <2>2. /\ Ends(t, x) /\ queue' \in Seq(Shares) /\ Once'
          /\ Pending' = Pending \/ (t = Publisher /\ Pending' = Pending \ {x})
      BY <2>1, ConcludeEnds
    <2> QED BY <1>2, <1>3, <1>4, <2>2 DEF Besides
  <1>5. CASE Refuse(t, x) BY <1>4, <1>5 DEF Refuse, Steady
  <1>6. CASE SkipCapped(t, x) BY <1>4, <1>6 DEF SkipCapped, Steady
  <1>7. CASE DryRun(t, x) BY <1>4, <1>7 DEF DryRun, Steady
  <1>8. CASE Enqueue(t, x)
    <2>1. /\ queue' \in Seq(Shares) /\ Once'
          /\ Pending' = Pending \/ Pending' = Pending \cup {x}
      BY <1>2, <1>8, AddedPending DEF Enqueue, Sound, Files
    <2>2. Besides(t, x) BY <1>2, <1>3, <1>8, <2>1 DEF Besides, Enqueue, Steady
    <2>3. Ends(t, x) BY <1>8 DEF Enqueue, Ends, Turn
    <2>4. t # Publisher /\ UNCHANGED <<recorded, twice>> BY <1>8 DEF Enqueue, Closed
    <2> QED BY <2>2, <2>3, <2>4
  <1> QED BY <1>5, <1>6, <1>7, <1>8

(* A request for x is sent.                                                  *)
LEMMA BeginTurn ==
    ASSUME Sound, NEW t \in Tasks, NEW x \in task[t].work, BeginSend(t, x)
    PROVE  \E v \in Task :
             /\ Turn(t, v) /\ Good(t)' /\ Around(t) /\ (up = "live" \/ t \in Messages)
             /\ v.at = "sending" /\ v.cur = x /\ v.work = task[t].work /\ v.made = FALSE
             /\ v.slot = (IF conf.limit[x[1]] > 0 THEN "today" ELSE "none")
  <1> USE DEF capVars, histVars
  <1>1. Facing(t, x) BY DEF BeginSend
  <1>2. /\ x \in Shares /\ x[2] \in published /\ (t = Publisher => x \in Pending)
        /\ task[t].at \in {"ready", "fetching"} /\ task[t].slot = "none" /\ ~task[t].made
        /\ task[t].at = "fetching" => t = Publisher
    BY <1>1, FacingWork
  <1>3. quota \in [Dests -> Nat] /\ posts \in [Dests -> Nat] /\ unpaid \in [Dests -> Nat]
    BY DEF Sound, Files, Notes
  <1> DEFINE slot == IF conf.limit[x[1]] > 0 THEN "today" ELSE "none"
             v == [task[t] EXCEPT !.at = "sending", !.cur = x, !.slot = slot]
  <1>4. task[t] \in Task /\ Good(t) /\ x[1] \in Routes /\ x \in Cells
    BY <1>2, CellOf DEF Sound, Hands
  <1>5. v \in Task BY <1>4 DEF Task, TaskStates
  <1>6. /\ v.at = "sending" /\ v.cur = x /\ v.work = task[t].work /\ v.made = task[t].made
        /\ v.slot = slot
    BY <1>4 DEF Task
  <1> HIDE DEF v
  <1>7. Turn(t, v) BY DEF BeginSend, Turn, v
  <1>8. task'[t] = v BY <1>5, <1>7, Turned DEF Sound, Hands
  <1>9. UNCHANGED <<queue, conf, published>> /\ Pending' = Pending
    BY QueueKept DEF BeginSend, procVars, envVars
  <1>10. Good(t)' BY <1>2, <1>4, <1>6, <1>8, <1>9 DEF Good, Underway
  <1>11. quota' \in [Dests -> Nat]
    <2>1. DestOf[x[1]] \in Dests BY <1>4, ForwardAssumption
    <2> QED BY <1>3, <2>1 DEF BeginSend
  <1>12. t \notin inbox /\ (up = "live" \/ t \in Messages)
    BY <1>2, TaskNames DEF Sound, Hands, Tasks
  <1>13. Around(t)
    BY <1>3, <1>11, <1>12 DEF BeginSend, Around, envVars, procVars, Sound, Course, Notes
  <1>14. v.made = FALSE BY <1>2, <1>4, <1>6, TaskParts
  <1>15. v.slot = (IF conf.limit[x[1]] > 0 THEN "today" ELSE "none") BY <1>6
  <1> HIDE DEF slot
  <1> WITNESS v \in Task
  <1> QED BY <1>5, <1>6, <1>7, <1>10, <1>12, <1>13, <1>14, <1>15

LEMMA ProcessSound ==
    ASSUME Sound, NEW t \in Tasks, NEW x \in task[t].work,
           Refuse(t, x) \/ Enqueue(t, x) \/ SkipCapped(t, x) \/ DryRun(t, x) \/ BeginSend(t, x)
    PROVE  Sound'
  <1>1. CASE BeginSend(t, x) BY <1>1, BeginTurn, TurnSound
  <1>2. CASE ~BeginSend(t, x) BY <1>2, ProcessEnds, EndsSound
  <1> QED BY <1>1, <1>2

(* The answers, and what comes of them (delivery.py).                        *)
LEMMA SendingTask ==
    ASSUME Sound, NEW t \in Tasks, task[t].at \in Underway
    PROVE  /\ Cur(t) \in task[t].work /\ Cur(t) \in Shares /\ Cur(t)[2] \in published
           /\ t \notin inbox /\ (up = "live" \/ t \in Messages)
  BY TaskParts, TaskNames DEF Sound, Hands, Good, Cur, Underway, Tasks

LEMMA DeliverSound ==
    ASSUME Sound, NEW t \in Tasks,
           Reply(t) \/ \E S \in SUBSET {t} : SendError(t, S)
    PROVE  Sound'
  <1> USE DEF capVars, histVars
  <1>1. t \in Sending /\ task[t].at = "sending" BY DEF Reply, SendError, Sending
  <1>2. /\ Cur(t) \in task[t].work /\ Cur(t) \in Shares /\ Cur(t)[2] \in published
        /\ t \notin inbox /\ (up = "live" \/ t \in Messages)
    BY <1>1, SendingTask DEF Underway
  <1>3. task[t] \in Task /\ Good(t) BY DEF Sound, Hands
  <1>4. ASSUME NEW v \in Task, Turn(t, v), v.work = task[t].work, v.cur = task[t].cur,
               v.slot = task[t].slot, v.at \in Underway, v.made => v.at = "resting" \/ v.second,
               UNCHANGED <<queue, conf, published>>, Around(t)
        PROVE  Sound'
    <2>1. task'[t] = v BY <1>4, Turned DEF Sound, Hands
    <2>2. Pending' = Pending BY <1>4, QueueKept
    <2>3. Good(t)' BY <1>1, <1>3, <1>4, <2>1, <2>2 DEF Good, Underway
    <2> QED BY <1>2, <1>4, <2>3, TurnSound
  <1>5. CASE Reply(t)
    <2> DEFINE v == [task[t] EXCEPT !.at = "resting", !.made = task[t].slot # "none"]
    <2>1. v \in Task BY <1>3 DEF Task, TaskStates
    <2>2. /\ v.work = task[t].work /\ v.cur = task[t].cur /\ v.slot = task[t].slot
          /\ v.at = "resting"
      BY <1>3 DEF Task
    <2>3. Turn(t, v) BY <1>5 DEF Reply, Turn
    <2> HIDE DEF v
    <2>4. quota' \in [Dests -> Nat] /\ posts' \in [Dests -> Nat] /\ unpaid' \in [Dests -> Nat]
      BY <1>5, AccountTyped DEF Reply
    <2>5. /\ lastSeen' = lastSeen \/ SetLastSeen(Cur(t))
          /\ recorded' \subseteq recorded \cup {Cur(t)} /\ twice' \subseteq twice \cup {Cur(t)}
      BY <1>5 DEF Reply, Overtaken
    <2>6. /\ UNCHANGED <<procVars, todo, queue, remembered, envVars, handled, offline, torn>>
      BY <1>5 DEF Reply
    <2>7. Around(t)
      BY <1>2, <2>4, <2>5, <2>6 DEF Around, envVars, Sound, Course, Notes
    <2> QED BY <1>4, <2>1, <2>2, <2>3, <2>6, <2>7 DEF procVars, envVars, Underway
  <1>6. CASE \E S \in SUBSET {t} : SendError(t, S)
    <2>0. PICK S \in SUBSET {t} : SendError(t, S) BY <1>6
    <2> DEFINE v == [task[t] EXCEPT !.second = TRUE, !.made = S # {} /\ task[t].slot # "none"]
    <2>1. v \in Task BY <1>3 DEF Task
    <2>2. /\ v.work = task[t].work /\ v.cur = task[t].cur /\ v.slot = task[t].slot
          /\ v.at = "sending" /\ v.second = TRUE
      BY <1>1, <1>3 DEF Task
    <2>3. Turn(t, v) BY <2>0 DEF SendError, Turn
    <2> HIDE DEF v
    <2>4. quota' \in [Dests -> Nat] /\ posts' \in [Dests -> Nat] /\ unpaid' \in [Dests -> Nat]
      BY <2>0, AccountTyped DEF SendError
    <2>5. UNCHANGED <<procVars, todo, queue, lastSeen, remembered, envVars, handled, recorded, twice, offline, torn>>
      BY <2>0 DEF SendError
    <2>6. Around(t)
      BY <1>2, <2>4, <2>5 DEF Around, envVars, Sound, Course, Notes
    <2> QED BY <1>4, <2>1, <2>2, <2>3, <2>5, <2>6 DEF procVars, envVars, Underway
  <1> QED BY <1>5, <1>6

LEMMA DoneEnds ==
    ASSUME Sound, NEW t \in Tasks, RestEnd(t) \/ \E S \in SUBSET {t} : GiveUp(t, S)
    PROVE  /\ Ends(t, Cur(t)) /\ Besides(t, Cur(t)) /\ Pending' \subseteq Pending
           /\ RestEnd(t) /\ t = Publisher => Cur(t) \notin Pending'
  <1> USE DEF capVars, histVars
  <1> DEFINE x == Cur(t)
  <1>1. task[t].at \in Underway BY DEF RestEnd, GiveUp, Sending, Underway
  <1>2. x \in task[t].work /\ x \in Shares BY <1>1, SendingTask
  <1>3. \E ok : Conclude(t, x, ok) BY DEF RestEnd, GiveUp
  <1> HIDE DEF x
  <1>4. /\ Ends(t, x) /\ queue' \in Seq(Shares) /\ Once'
        /\ Pending' = Pending \/ (t = Publisher /\ Pending' = Pending \ {x})
    BY <1>2, <1>3, ConcludeEnds
  <1>5. quota' \in [Dests -> Nat] /\ posts' \in [Dests -> Nat] /\ unpaid' \in [Dests -> Nat]
    <2>1. CASE RestEnd(t) BY <2>1 DEF RestEnd, Sound, Files, Notes
    <2>2. CASE \E S \in SUBSET {t} : GiveUp(t, S) BY <2>2, AccountTyped DEF GiveUp
    <2> QED BY <2>1, <2>2
  <1>6. Besides(t, x)
    <2>1. CASE RestEnd(t)
      BY <1>2, <1>4, <1>5, <2>1 DEF RestEnd, Besides, Steady, Overtaken, x
    <2>2. CASE \E S \in SUBSET {t} : GiveUp(t, S)
      BY <1>2, <1>4, <1>5, <2>2 DEF GiveUp, Besides, Steady, x
    <2> QED BY <2>1, <2>2
  <1>7. RestEnd(t) /\ t = Publisher => x \notin Pending'
    <2>1. ASSUME RestEnd(t), t = Publisher PROVE Pending' = Pending \ {x}
      <3>1. Conclude(t, x, TRUE) BY <2>1 DEF RestEnd, x
      <3> QED BY <1>2, <2>1, <3>1, ConcludeEnds
    <2> QED BY <2>1
  <1> QED BY <1>4, <1>6, <1>7 DEF x

LEMMA DoneSound ==
    ASSUME Sound, NEW t \in Tasks, RestEnd(t) \/ \E S \in SUBSET {t} : GiveUp(t, S)
    PROVE  Sound'
  BY DoneEnds, EndsSound

LEMMA IdleGood ==
    ASSUME NEW t, task'[t] = Idle PROVE Good(t)'
  BY IdleTask DEF Good, Underway

LEMMA UncaughtRoutes == ASSUME Sound PROVE Uncaught \subseteq Routes
  <1>1. task[CatchUp] \in Task /\ todo \subseteq Routes
    BY TaskNames DEF Sound, Hands, Course
  <1>2. task[CatchUp].work \subseteq Shares /\ task[CatchUp].cur \in Cells BY <1>1, TaskParts
  <1> QED BY <1>1, <1>2, CellOf DEF Uncaught

LEMMA FloodEnds ==
    ASSUME Sound, FloodWait(Publisher)
    PROVE  /\ Ends(Publisher, Cur(Publisher)) /\ Besides(Publisher, Cur(Publisher))
           /\ Pending' \subseteq Pending
  <1> USE DEF capVars, histVars
  <1> DEFINE t == Publisher
             x == Cur(t)
  <1>1. task[t].at \in Underway /\ t \in Tasks BY TaskNames DEF FloodWait, Sending, Underway
  <1>2. x \in task[t].work /\ x \in Shares BY <1>1, SendingTask
  <1>3. quota' \in [Dests -> Nat] /\ posts' \in [Dests -> Nat] /\ unpaid' \in [Dests -> Nat]
    BY <1>1, AccountTyped DEF FloodWait
  <1>4. UNCHANGED <<procVars, lastSeen, remembered, envVars, handled, recorded, twice, offline, todo, torn>>
    BY TaskNames DEF FloodWait
  <1>5. x \in Pending BY <1>1, <1>2 DEF Sound, Hands, Good
  <1>6. Ends(t, x) BY <1>1, <1>2 DEF FloodWait, Ends, Turn
  <1>7. queue' = Without(x) BY DEF FloodWait
  <1>8. queue' \in Seq(Shares) /\ Once' /\ Pending' = Pending \ {x}
    BY <1>5, <1>7, WithoutPending DEF Sound, Files
  <1> HIDE DEF x
  <1>9. Besides(t, x) BY <1>2, <1>3, <1>4, <1>8 DEF Besides, Steady
  <1> QED BY <1>6, <1>8, <1>9 DEF x

LEMMA FloodSound == ASSUME Sound, NEW t \in Tasks, FloodWait(t) PROVE Sound'
  <1> USE DEF capVars, histVars
  <1> DEFINE x == Cur(t)
  <1>1. task[t].at \in Underway BY DEF FloodWait, Sending, Underway
  <1>2. x \in task[t].work /\ x \in Shares /\ t \notin inbox /\ (up = "live" \/ t \in Messages)
    BY <1>1, SendingTask
  <1>3. quota' \in [Dests -> Nat] /\ posts' \in [Dests -> Nat] /\ unpaid' \in [Dests -> Nat]
    BY AccountTyped DEF FloodWait
  <1>4. /\ UNCHANGED <<procVars, lastSeen, remembered, envVars, handled, recorded, twice, offline>>
        /\ UNCHANGED <<todo, torn>> \/ (t = CatchUp /\ torn' = torn \cup Uncaught /\ todo' = {})
    BY DEF FloodWait
  <1>5. CASE t = Publisher BY <1>5, FloodEnds, EndsSound
  <1>6. CASE t # Publisher
    <2>1. Turn(t, Idle) /\ queue' = queue BY <1>6 DEF FloodWait, Turn
    <2>2. Good(t)' BY <2>1, IdleTask, IdleGood, Turned DEF Sound, Hands
    <2>3. todo' \subseteq Routes /\ torn' \subseteq Routes
      BY <1>4, UncaughtRoutes DEF Sound, Course, Notes
    <2>4. Around(t)
      BY <1>2, <1>3, <1>4, <2>1, <2>3 DEF Around, envVars, Sound, Course, Notes
    <2> QED BY <1>2, <2>1, <2>2, <2>4, IdleTask, TurnSound
  <1> QED BY <1>5, <1>6

LEMMA DispatchSound == ASSUME Sound, NEW m \in Messages, Dispatch(m) PROVE Sound'
  <1> USE DEF capVars, histVars
  <1> DEFINE mine == {r \in active : RouteSource[r] = SourceOf[m]}
             v == [task[m] EXCEPT !.work = mine \X {m},
                                  !.at = IF SourceOf[m] \in Watched THEN "ready" ELSE "off"]
  <1>1. /\ m \in Tasks /\ task[m] \in Task /\ Good(m) /\ m \in inbox /\ task[m].at = "off"
        /\ m \in published /\ active \subseteq Routes
    BY TaskNames DEF Dispatch, Sound, Hands, Course
  <1>2. task[m].slot = "none" /\ task[m].made = FALSE BY <1>1, TaskParts DEF Good, Underway
  <1>3. mine \X {m} \subseteq Shares BY <1>1 DEF Shares
  <1>4. mine = {} <=> SourceOf[m] \notin Watched BY DEF Watched
  <1>5. \A x \in mine \X {m} : x[2] = m OBVIOUS
  <1>6. mine \X {m} = {} <=> mine = {}
    <2>1. \A r \in mine : <<r, m>> \in mine \X {m} OBVIOUS
    <2>2. mine \X {m} # {} => mine # {} OBVIOUS
    <2> QED BY <2>1, <2>2
  <1> HIDE DEF mine
  <1>7. v \in Task BY <1>1, <1>3 DEF Task, TaskStates
  <1>8. /\ v.work = mine \X {m} /\ v.slot = "none" /\ v.made = FALSE
        /\ v.at = (IF SourceOf[m] \in Watched THEN "ready" ELSE "off")
    BY <1>1, <1>2 DEF Task
  <1>9. Turn(m, v) BY DEF Dispatch, Turn, mine
  <1> HIDE DEF v
  <1>10. task'[m] = v BY <1>1, <1>7, <1>9, Turned DEF Sound, Hands
  <1>11. published' = published BY DEF Dispatch
  <1>12. Good(m)' BY <1>1, <1>4, <1>5, <1>6, <1>8, <1>10, <1>11, TaskNames DEF Good, Underway
  <1>13. Around(m) BY DEF Dispatch, Around, fileVars, Sound, Course, Files, Notes
  <1> QED BY <1>1, <1>7, <1>9, <1>12, <1>13, TurnSound

LEMMA AskingTask ==
    ASSUME Sound, NEW S, S \subseteq Routes, S # {}
    PROVE  /\ Asking(S) \in Task /\ Asking(S).at = "asking" /\ Asking(S).work = {}
           /\ Asking(S).slot = "none" /\ Asking(S).made = FALSE
           /\ Least(S) \in S /\ Asking(S).cur = <<Least(S), lastSeen[Least(S)]>>
           /\ \A r \in S : Least(S) <= r
  <1>1. Least(S) \in S /\ \A r \in S : Least(S) <= r BY ForwardAssumption, LeastIs
  <1>2. <<Least(S), lastSeen[Least(S)]>> \in Cells BY <1>1, CellOf DEF Sound, Files
  <1> QED BY <1>1, <1>2, IdleTask DEF Asking, Idle, Task, TaskStates

LEMMA CatchUpTurn ==
    ASSUME Sound, CatchUpStep
    PROVE  \E v \in Task : Turn(CatchUp, v) /\ v.slot = "none"
  <1>0. CatchUp \in Tasks /\ task[CatchUp] \in Task BY TaskNames DEF Sound, Hands
  <1>1. CASE CatchUpAsk
    <2>1. todo # {} /\ todo \subseteq Routes BY <1>1 DEF CatchUpAsk, Sound, Course
    <2>2. Asking(todo) \in Task /\ Asking(todo).slot = "none" BY <2>1, AskingTask
    <2>3. Turn(CatchUp, Asking(todo)) BY <1>1 DEF CatchUpAsk, Turn
    <2> QED BY <2>2, <2>3
  <1>2. ASSUME NEW W, W \subseteq Shares, Turn(CatchUp, [Idle EXCEPT !.at = "ready", !.work = W])
        PROVE  \E v \in Task : Turn(CatchUp, v) /\ v.slot = "none"
    <2> DEFINE v == [Idle EXCEPT !.at = "ready", !.work = W]
    <2>1. v \in Task /\ v.slot = "none" BY <1>2, IdleTask DEF Idle, Task, TaskStates
    <2> QED BY <1>2, <2>1
  <1>3. CASE CatchUpFails
    <2> DEFINE v == [Idle EXCEPT !.at = "ready"]
    <2>1. v \in Task /\ v.slot = "none" BY IdleTask DEF Idle, Task, TaskStates
    <2>2. Turn(CatchUp, v) BY <1>3 DEF CatchUpFails, Turn
    <2> QED BY <2>1, <2>2
  <1>4. CASE CatchUpFetch
    <2> DEFINE W == {task[CatchUp].cur[1]} \X Missed(task[CatchUp].cur[1], task[CatchUp].cur[2])
    <2>1. task[CatchUp].cur[1] \in Routes BY <1>0, TaskParts, CellOf
    <2>2. W \subseteq Shares BY <2>1 DEF Missed, OfRoute, Shares, Sound, Course
    <2>3. Turn(CatchUp, [Idle EXCEPT !.at = "ready", !.work = W])
      BY <1>4 DEF CatchUpFetch, Turn
    <2> HIDE DEF W
    <2> QED BY <1>2, <2>2, <2>3
  <1>5. CASE CatchUpEnd
    <2>1. Turn(CatchUp, Idle) BY <1>5 DEF CatchUpEnd, Turn
    <2> QED BY <2>1, IdleTask
  <1> QED BY <1>1, <1>3, <1>4, <1>5 DEF CatchUpStep

LEMMA CatchUpSound == ASSUME Sound, CatchUpStep PROVE Sound'
  <1> USE DEF capVars, histVars
  <1>0. /\ CatchUp \in Tasks /\ task[CatchUp] \in Task /\ Good(CatchUp)
        /\ CatchUp \notin Messages /\ CatchUp # Publisher /\ CatchUp \notin inbox
    BY TaskNames DEF Sound, Hands, Course
  <1>1. ASSUME NEW v \in Task, Turn(CatchUp, v), v.at \in {"off", "ready", "asking"},
               v.at \in {"off", "asking"} => v.work = {},
               \A x \in v.work : x[2] \in published, v.slot = "none", v.made = FALSE,
               task[CatchUp].at # "off", todo' \subseteq todo,
               torn' \subseteq torn \cup Routes, twice' \subseteq Shares,
               UNCHANGED <<procVars, fileVars, envVars, capVars, handled, recorded, offline>>
        PROVE  Sound'
    <2>1. task'[CatchUp] = v BY <1>0, <1>1, Turned DEF Sound, Hands
    <2>2. up = "live" BY <1>1 DEF Sound, Hands
    <2>3. published' = published BY <1>1 DEF envVars
    <2>4. Good(CatchUp)' BY <1>0, <1>1, <2>1, <2>3 DEF Good, Underway
    <2>5. Around(CatchUp)
      BY <1>0, <1>1 DEF Around, envVars, fileVars, Sound, Course, Files, Notes
    <2> QED BY <1>0, <1>1, <2>2, <2>4, <2>5, TurnSound
  <1>2. twice \subseteq Shares /\ todo \subseteq Routes /\ published \subseteq Messages
    BY DEF Sound, Notes, Course
  <1>3. CASE CatchUpAsk
    <2> DEFINE v == Asking(todo)
    <2>1. /\ v \in Task /\ v.at = "asking" /\ v.work = {} /\ v.slot = "none" /\ v.made = FALSE
      BY <1>2, <1>3, AskingTask DEF CatchUpAsk
    <2>2. /\ Turn(CatchUp, v) /\ task[CatchUp].at # "off" /\ todo' \subseteq todo
          /\ torn' = torn /\ twice' = twice
          /\ UNCHANGED <<procVars, fileVars, envVars, capVars, handled, recorded, offline>>
      BY <1>3 DEF CatchUpAsk, CatchUpFree, Turn
    <2> HIDE DEF v
    <2> QED BY <1>1, <1>2, <2>1, <2>2
  <1>4. CASE CatchUpFails
    <2> DEFINE v == [Idle EXCEPT !.at = "ready"]
    <2>1. /\ v \in Task /\ v.at = "ready" /\ v.work = {} /\ v.slot = "none" /\ v.made = FALSE
      BY IdleTask DEF Idle, Task, TaskStates
    <2>2. task[CatchUp].cur[1] \in Routes BY <1>0, TaskParts, CellOf
    <2>3. Turn(CatchUp, v) BY <1>4 DEF CatchUpFails, Turn
    <2> HIDE DEF v
    <2> QED BY <1>1, <1>2, <1>4, <2>1, <2>2, <2>3 DEF CatchUpFails
  <1>5. CASE CatchUpFetch
    <2> DEFINE r == task[CatchUp].cur[1]
               batch == {r} \X Missed(r, task[CatchUp].cur[2])
               v == [Idle EXCEPT !.at = "ready", !.work = batch]
    <2>1. r \in Routes BY <1>0, TaskParts, CellOf
    <2>2. batch \subseteq Shares /\ \A x \in batch : x[2] \in published
      BY <1>2, <2>1 DEF Missed, OfRoute, Shares
    <2>3. Turn(CatchUp, v) BY <1>5 DEF CatchUpFetch, Turn
    <2>4. twice' = twice \cup {x \in batch : Elsewhere(x)} BY <1>5 DEF CatchUpFetch
    <2> HIDE DEF batch, r
    <2>5. /\ v \in Task /\ v.at = "ready" /\ v.work = batch /\ v.slot = "none" /\ v.made = FALSE
      BY <2>2, IdleTask DEF Idle, Task, TaskStates
    <2> HIDE DEF v
    <2> QED BY <1>1, <1>2, <1>5, <2>2, <2>3, <2>4, <2>5 DEF CatchUpFetch
  <1>6. CASE CatchUpEnd
    BY <1>1, <1>2, <1>6, IdleTask DEF CatchUpEnd, CatchUpFree, Turn
  <1> QED BY <1>3, <1>4, <1>5, <1>6 DEF CatchUpStep

LEMMA PublisherSound ==
    ASSUME Sound,
           PublisherTick \/ \E x \in task[Publisher].work : PublisherSkip(x) \/ PublisherFetch(x)
    PROVE  Sound'
  <1> USE DEF capVars, histVars
  <1>0. /\ Publisher \in Tasks /\ task[Publisher] \in Task /\ Good(Publisher)
        /\ Publisher \notin Messages /\ Publisher \notin inbox
    BY TaskNames DEF Sound, Hands, Course
  <1>1. task[Publisher].at = "ready"
    BY DEF PublisherTick, PublisherSkip, PublisherFetch, Foremost
  <1>2. up = "live" BY <1>1 DEF Sound, Hands
  <1>3. /\ task[Publisher].slot = "none" /\ task[Publisher].made = FALSE
        /\ task[Publisher].work \subseteq Shares
    BY <1>0, <1>1, TaskParts DEF Good, Underway
  <1>4. Pending \subseteq Shares /\ \A x \in Pending : x[2] \in published
    BY PendingShares DEF Sound, Files, Known
  <1>5. UNCHANGED <<procVars, todo, fileVars, envVars, capVars, histVars>>
    BY DEF PublisherTick, PublisherSkip, PublisherFetch
  <1>6. ASSUME NEW v \in Task, Turn(Publisher, v), v.at \in {"ready", "fetching"},
               v.work \subseteq Pending, v.at = "fetching" => v.cur \in v.work,
               v.slot = "none", v.made = FALSE
        PROVE  Sound'
    <2>1. task'[Publisher] = v BY <1>0, <1>6, Turned DEF Sound, Hands
    <2>2. Pending' = Pending /\ published' = published
      BY <1>5, QueueKept DEF fileVars, envVars
    <2>3. Good(Publisher)' BY <1>0, <1>4, <1>6, <2>1, <2>2 DEF Good, Underway
    <2>4. Around(Publisher)
      BY <1>0, <1>5 DEF Around, envVars, fileVars, Sound, Course, Files, Notes
    <2> QED BY <1>0, <1>2, <1>6, <2>3, <2>4, TurnSound
  <1>7. CASE PublisherTick
    <2> DEFINE v == [task[Publisher] EXCEPT !.work = Pending]
    <2>1. v \in Task BY <1>0, <1>4 DEF Task
    <2>2. /\ v.at = "ready" /\ v.work = Pending /\ v.slot = "none" /\ v.made = FALSE
      BY <1>0, <1>1, <1>3 DEF Task
    <2>3. Turn(Publisher, v) BY <1>7 DEF PublisherTick, Turn
    <2> HIDE DEF v
    <2> QED BY <1>6, <2>1, <2>2, <2>3
  <1>8. CASE \E x \in task[Publisher].work : PublisherSkip(x)
    <2>0. PICK x \in task[Publisher].work : PublisherSkip(x) BY <1>8
    <2> DEFINE v == [task[Publisher] EXCEPT !.work = task[Publisher].work \ {x}]
    <2>1. v \in Task BY <1>0, <1>3 DEF Task
    <2>2. /\ v.at = "ready" /\ v.work \subseteq Pending /\ v.slot = "none" /\ v.made = FALSE
      BY <1>0, <1>1, <1>3 DEF Task, Good
    <2>3. Turn(Publisher, v) BY <2>0 DEF PublisherSkip, Turn
    <2> HIDE DEF v
    <2> QED BY <1>6, <2>1, <2>2, <2>3
  <1>9. CASE \E x \in task[Publisher].work : PublisherFetch(x)
    <2>0. PICK x \in task[Publisher].work : PublisherFetch(x) BY <1>9
    <2> DEFINE v == [task[Publisher] EXCEPT !.at = "fetching", !.cur = x]
    <2>1. v \in Task BY <1>0, <1>3, CellOf DEF Task, TaskStates
    <2>2. /\ v.at = "fetching" /\ v.work = task[Publisher].work /\ v.cur = x
          /\ v.slot = "none" /\ v.made = FALSE
      BY <1>0, <1>3 DEF Task
    <2>3. Turn(Publisher, v) BY <2>0 DEF PublisherFetch, Turn
    <2>4. task[Publisher].work \subseteq Pending BY <1>0 DEF Good
    <2> HIDE DEF v
    <2> QED BY <1>6, <2>1, <2>2, <2>3, <2>4
  <1> QED BY <1>7, <1>8, <1>9

LEMMA LoseEnds ==
    ASSUME Sound, PublisherLose
    PROVE  /\ Ends(Publisher, task[Publisher].cur) /\ Besides(Publisher, task[Publisher].cur)
           /\ Pending' \subseteq Pending
  <1> USE DEF capVars, histVars
  <1> DEFINE x == task[Publisher].cur
  <1>1. Publisher \in Tasks /\ Good(Publisher) BY TaskNames DEF Sound, Hands
  <1>2. x \in task[Publisher].work /\ x \in Pending
    BY <1>1 DEF PublisherLose, Good
  <1>3. queue' = Without(x) /\ Ends(Publisher, x)
    BY <1>1, <1>2 DEF PublisherLose, Ends, Turn
  <1>4. queue' \in Seq(Shares) /\ Once' /\ Pending' = Pending \ {x}
    BY <1>2, <1>3, WithoutPending DEF Sound, Files
  <1>5. UNCHANGED <<procVars, todo, lastSeen, quota, remembered, envVars, capVars, histVars>>
    BY DEF PublisherLose
  <1> HIDE DEF x
  <1>6. Besides(Publisher, x)
    BY <1>4, <1>5 DEF Besides, Steady, Sound, Files, Notes
  <1> QED BY <1>3, <1>4, <1>6 DEF x

LEMMA LoseSound == ASSUME Sound, PublisherLose PROVE Sound'
  BY LoseEnds, EndsSound

LEMMA ClockSound ==
    ASSUME Sound, NewDay \/ Window \/ \E e \in remembered : Forget(e)
    PROVE  Sound'
  <1> USE DEF capVars, histVars, procVars, fileVars, envVars
  <1>1. CASE NewDay
    <2> DEFINE v(t) == [task[t] EXCEPT !.slot = IF @ = "today" THEN "old" ELSE @, !.made = FALSE]
    <2>1. task' = [t \in Tasks |-> v(t)] BY <1>1 DEF NewDay
    <2>2. ASSUME NEW t \in Tasks
          PROVE  /\ v(t) \in Task /\ v(t).at = task[t].at /\ v(t).work = task[t].work
                 /\ v(t).cur = task[t].cur /\ v(t).made = FALSE
                 /\ v(t).slot = (IF task[t].slot = "today" THEN "old" ELSE task[t].slot)
      <3>1. task[t] \in Task BY DEF Sound, Hands
      <3> QED BY <3>1 DEF Task
    <2> HIDE DEF v
    <2>3. /\ UNCHANGED <<up, active, conf, starts, todo, published, inbox, open, queue, lastSeen>>
          /\ UNCHANGED <<remembered, handled, recorded, twice, offline, torn>>
          /\ quota' \in [Dests -> Nat] /\ posts' \in [Dests -> Nat] /\ unpaid' \in [Dests -> Nat]
      BY <1>1 DEF NewDay
    <2>4. Pending' = Pending /\ Once' BY <2>3, QueueKept DEF Sound, Files
    <2>5. ASSUME NEW t \in Tasks PROVE Good(t)'
      <3>1. Good(t) /\ task'[t] = v(t) BY <2>1 DEF Sound, Hands
      <3> QED BY <2>2, <2>3, <2>4, <3>1 DEF Good
    <2>6. task' \in [Tasks -> Task] /\ \A t \in Tasks : task'[t].at = task[t].at BY <2>1, <2>2
    <2>7. Hands' BY <2>3, <2>5, <2>6, TaskNames DEF Sound, Hands, Course
    <2> QED BY <2>3, <2>4, <2>7 DEF Sound, Files, Course, Notes, Known
  <1>2. CASE Window \/ \E e \in remembered : Forget(e)
    <2>1. /\ UNCHANGED <<up, active, conf, starts, todo, task, published, inbox, queue, lastSeen>>
          /\ UNCHANGED <<quota, posts, unpaid, handled, recorded, twice, offline, torn>>
          /\ open' \in BOOLEAN /\ remembered' \subseteq remembered
      BY <1>2 DEF Window, Forget, Sound, Course
    <2>2. Pending' = Pending /\ Once' BY <2>1, QueueKept DEF Sound, Files
    <2>3. \A t \in Tasks : Good(t)' BY <2>1, <2>2, GoodStays DEF Sound, Hands
    <2> QED BY <2>1, <2>2, <2>3 DEF Sound, Files, Course, Notes, Hands, Known
  <1> QED BY <1>1, <1>2

(* A start hands two tasks their work, and leaves the handlers of an earlier *)
(* instance alone.                                                           *)
LEMMA StartTasks ==
    ASSUME Sound, NEW a \in Actives, Start(a)
    PROVE  /\ task' \in [Tasks -> Task] /\ task'[CatchUp] = Asking(a)
           /\ task'[Publisher].at = "ready" /\ task'[Publisher].work = {}
           /\ task'[Publisher].slot = "none" /\ task'[Publisher].made = FALSE
           /\ task[CatchUp].work = {} /\ task[Publisher].work = {}
           /\ \A t \in Tasks \ {CatchUp, Publisher} : task'[t] = task[t]
  <1> DEFINE v == Asking(a)
             w == [task[Publisher] EXCEPT !.at = "ready"]
  <1>0. /\ CatchUp \in Tasks /\ Publisher \in Tasks /\ CatchUp # Publisher
        /\ task[CatchUp] \in Task /\ task[Publisher] \in Task
        /\ Good(CatchUp) /\ Good(Publisher)
        /\ task \in [Tasks -> Task] /\ task[Publisher].at = "off" /\ task[CatchUp].at = "off"
    BY TaskNames DEF Start, Sound, Hands
  <1>1. v \in Task BY ForwardAssumption, AskingTask
  <1>2. /\ w \in Task /\ w.at = "ready" /\ w.work = task[Publisher].work
        /\ w.slot = task[Publisher].slot /\ w.made = task[Publisher].made
    BY <1>0 DEF Task, TaskStates
  <1>3. task' = [task EXCEPT ![CatchUp] = v, ![Publisher] = w]
    <2> DEFINE one == [task EXCEPT ![CatchUp] = v]
    <2>1. task' = [one EXCEPT ![Publisher] = [one[Publisher] EXCEPT !.at = "ready"]] BY DEF Start
    <2>2. one[Publisher] = task[Publisher] BY <1>0
    <2> QED BY <2>1, <2>2
  <1>4. /\ task[Publisher].slot = "none" /\ task[Publisher].made = FALSE
        /\ task[Publisher].work = {} /\ task[CatchUp].work = {}
    BY <1>0, TaskParts DEF Good, Underway
  <1> HIDE DEF v, w
  <1>5. /\ task' \in [Tasks -> Task] /\ task'[CatchUp] = v /\ task'[Publisher] = w
        /\ \A t \in Tasks \ {CatchUp, Publisher} : task'[t] = task[t]
    BY <1>0, <1>1, <1>2, <1>3
  <1> QED BY <1>2, <1>4, <1>5 DEF v

LEMMA StartSound == ASSUME Sound, NEW a \in Actives, Start(a) PROVE Sound'
  <1> USE DEF capVars, histVars, procVars, fileVars, envVars
  <1>0. /\ CatchUp \in Tasks /\ Publisher \in Tasks /\ CatchUp # Publisher /\ Messages \subseteq Tasks
        /\ CatchUp \notin Messages /\ Publisher \notin Messages
    BY TaskNames
  <1>1. a \subseteq Routes /\ a # {} BY ForwardAssumption
  <1>2. /\ Asking(a) \in Task /\ Asking(a).at = "asking" /\ Asking(a).work = {}
        /\ Asking(a).slot = "none" /\ Asking(a).made = FALSE
    BY <1>1, AskingTask
  <1>3. /\ task' \in [Tasks -> Task] /\ task'[CatchUp] = Asking(a)
        /\ task'[Publisher].at = "ready" /\ task'[Publisher].work = {}
        /\ task'[Publisher].slot = "none" /\ task'[Publisher].made = FALSE
        /\ \A t \in Tasks \ {CatchUp, Publisher} : task'[t] = task[t]
    BY StartTasks
  <1>4. /\ up' = "live" /\ active' = a /\ conf' = conf /\ starts < MaxStarts[conf] /\ starts' = starts + 1
        /\ todo' \subseteq Routes
        /\ UNCHANGED <<published, inbox, open, queue, lastSeen, quota, remembered>>
        /\ UNCHANGED <<posts, unpaid, handled, recorded, twice, offline, torn>>
    BY <1>1 DEF Start
  <1>5. Pending' = Pending /\ Once' BY <1>4, QueueKept DEF Sound, Files
  <1>6. ASSUME NEW t \in Tasks PROVE Good(t)'
    <2>1. CASE t = CatchUp BY <1>0, <1>2, <1>3, <2>1 DEF Good, Underway
    <2>2. CASE t = Publisher BY <1>0, <1>3, <2>2 DEF Good, Underway
    <2>3. CASE t \notin {CatchUp, Publisher}
      BY <1>3, <1>4, <1>5, <2>3, GoodStays DEF Sound, Hands
    <2> QED BY <2>1, <2>2, <2>3
  <1>7. \A m \in inbox' : task'[m].at = "off"
    BY <1>0, <1>3, <1>4 DEF Sound, Hands, Course
  <1>8. Hands' BY <1>3, <1>4, <1>6, <1>7 DEF Hands
  <1>9. Course'
    <2>1. MaxStarts[conf] \in Nat /\ starts \in 0..MaxStarts[conf]
      BY ForwardAssumption DEF Sound, Course
    <2>2. starts' \in 0..MaxStarts'[conf'] BY <1>4, <2>1
    <2> QED BY <1>1, <1>4, <2>2 DEF Sound, Course
  <1>10. Files' /\ Notes' /\ Known' BY <1>4, <1>5 DEF Sound, Files, Notes, Known
  <1> QED BY <1>8, <1>9, <1>10 DEF Sound

LEMMA UnmarkedShares == ASSUME Sound PROVE Unmarked \subseteq Shares
  BY DEF Unmarked, Sound, Notes

LEMMA StopSound ==
    ASSUME Sound, NEW lost, NEW S \in SUBSET Sending, Stop(lost, S)
    PROVE  Sound'
  <1>0. /\ Publisher \in Tasks /\ CatchUp \in Tasks /\ CatchUp # Publisher
        /\ task[CatchUp].at = "off"
        /\ Publisher \notin Messages /\ Messages \subseteq Tasks
    BY TaskNames DEF Stop
  <1>1. quota' \in [Dests -> Nat] /\ posts' \in [Dests -> Nat] /\ unpaid' \in [Dests -> Nat]
    BY <1>0, AccountTyped DEF Stop, Sending
  <1>2. Turn(Publisher, Idle) BY DEF Stop, Turn
  <1>3. /\ task' \in [Tasks -> Task] /\ task'[Publisher] = Idle
        /\ \A s \in Tasks : s # Publisher => task'[s] = task[s]
    BY <1>0, <1>2, IdleTask, Turned DEF Sound, Hands
  <1>4. /\ up' = "stopped" /\ active' = {} /\ inbox' \subseteq inbox
        /\ UNCHANGED <<conf, starts, todo, queue, lastSeen, remembered, published, open>>
        /\ UNCHANGED <<handled, recorded, offline, torn>> /\ twice' = twice \cup Unmarked
    BY DEF Stop
  <1>5. Pending' = Pending /\ Once' BY <1>4, QueueKept DEF Sound, Files
  <1>6. \A t \in Tasks : Good(t)'
    BY <1>3, <1>4, <1>5, IdleGood, GoodStays DEF Sound, Hands
  <1>7. Hands' BY <1>0, <1>3, <1>4, <1>6, IdleTask DEF Sound, Hands, Course
  <1> QED BY <1>1, <1>4, <1>5, <1>7, UnmarkedShares DEF Sound, Files, Course, Notes, Known

LEMMA DownSound ==
    ASSUME Sound, NEW S \in SUBSET Sending, End(S) \/ Kill(S)
    PROVE  Sound'
  <1>1. quota' \in [Dests -> Nat] /\ posts' \in [Dests -> Nat] /\ unpaid' \in [Dests -> Nat]
    BY AccountTyped DEF End, Kill, Sending
  <1>2. /\ up' = "down" /\ active' = {} /\ inbox' = {} /\ todo' = {}
        /\ torn' = torn \cup Uncaught /\ twice' = twice \cup Unmarked
        /\ UNCHANGED <<conf, starts, queue, lastSeen, remembered, published, open>>
        /\ UNCHANGED <<handled, recorded, offline>>
        /\ task' = [t \in Tasks |-> Idle]
    BY DEF End, Kill, Down
  <1>3. task' \in [Tasks -> Task] /\ \A t \in Tasks : task'[t] = Idle BY <1>2, IdleTask
  <1>4. \A t \in Tasks : Good(t)' BY <1>3, IdleGood
  <1>5. Hands' BY <1>2, <1>3, <1>4, IdleTask, TaskNames DEF Hands
  <1>6. Pending' = Pending /\ Once' BY <1>2, QueueKept DEF Sound, Files
  <1> QED BY <1>1, <1>2, <1>5, <1>6, UnmarkedShares, UncaughtRoutes
          DEF Sound, Files, Course, Notes, Known

LEMMA InitSound == ASSUME Init PROVE Sound
  <1>1. task \in [Tasks -> Task] /\ \A t \in Tasks : task[t] = Idle BY IdleTask DEF Init
  <1>2. Hands BY <1>1, IdleTask, TaskNames DEF Init, Hands, Good, Underway
  <1>3. queue \in Seq(Shares) /\ Once /\ Pending = {} BY DEF Init, Once, Pending
  <1>4. Files BY <1>3 DEF Init, Files
  <1>5. conf \in Configs /\ MaxStarts[conf] \in Nat BY ForwardAssumption DEF Init
  <1>6. Course
    <2>1. 0 \in 0..MaxStarts[conf] BY <1>5
    <2>2. open \in BOOLEAN BY DEF Init
    <2> QED BY <1>5, <2>1, <2>2 DEF Init, Course
  <1>7. Notes /\ Known BY <1>3 DEF Init, Notes, Known
  <1> QED BY <1>2, <1>4, <1>6, <1>7 DEF Sound

LEMMA SoundNext == ASSUME Sound, [Next]_vars PROVE Sound'
  <1>1. CASE Next
    <2>1. CASE \E m \in Messages : Publish(m) \/ Dispatch(m)
      BY <2>1, PublishSound, DispatchSound
    <2>2. CASE NewDay \/ Window \/ \E e \in remembered : Forget(e) BY <2>2, ClockSound
    <2>3. CASE \E a \in Actives : Start(a) BY <2>3, StartSound
    <2>4. CASE \E S \in SUBSET Sending :
                 (\E lost \in SUBSET inbox : Stop(lost, S)) \/ End(S) \/ Kill(S)
      BY <2>4, StopSound, DownSound
    <2>5. CASE CatchUpStep BY <2>5, CatchUpSound
    <2>6. CASE PublisherStep BY <2>6, PublisherSound, LoseSound DEF PublisherStep
    <2>7. CASE \E t \in Tasks : Process(t) BY <2>7, ProcessSound DEF Process
    <2>8. CASE \E t \in Tasks : Deliver(t) BY <2>8, DeliverSound, DoneSound, FloodSound DEF Deliver
    <2> QED BY <1>1, <2>1, <2>2, <2>3, <2>4, <2>5, <2>6, <2>7, <2>8 DEF Next
  <1>2. CASE UNCHANGED vars
    <2>1. Pending' = Pending /\ Once' BY <1>2, QueueKept DEF vars, fileVars, Sound, Files
    <2>2. \A t \in Tasks : Good(t)'
      BY <1>2, <2>1, GoodStays DEF Sound, Hands, vars, procVars, envVars
    <2> QED BY <1>2, <2>1, <2>2 DEF vars, procVars, fileVars, envVars, capVars, histVars,
                                    Sound, Files, Course, Notes, Hands, Known
  <1> QED BY <1>1, <1>2

LEMMA AlwaysSound == Spec => []Sound
  <1>1. Init => Sound BY InitSound
  <1>2. Sound /\ [Next]_vars => Sound' BY SoundNext
  <1> QED BY <1>1, <1>2, PTL DEF Spec

(* The state of the module, of its files and of the notes has its type: a    *)
(* task stands for a share that exists, its count never falls below zero.    *)
THEOREM TypeCorrect == Spec => []TypeOK
  <1>1. Sound => TypeOK
    BY DEF Sound, Files, Course, Notes, Hands, TypeOK
  <1> QED BY <1>1, AlwaysSound, PTL

----------------------------------------------------------------------------
(* Nothing is posted again after it was noted *)

\* A share that nobody took twice is waited for, in hand or queued in one place only
Single == \A x \in Shares \ twice :
    /\ x[2] \in inbox =>
         x \notin task[x[2]].work /\ x \notin task[CatchUp].work /\ x \notin Pending
    /\ x \in task[x[2]].work => x \notin task[CatchUp].work /\ x \notin Pending
    /\ x \in task[CatchUp].work => x \notin Pending

\* last_seen has come as far as what was noted, and so does what the catch-up asks for
Reached == \A x \in recorded : lastSeen[x[1]] >= x[2]

Asked == task[CatchUp].at = "asking" =>
    \A x \in recorded \ twice : x[1] = task[CatchUp].cur[1] => task[CatchUp].cur[2] >= x[2]

\* What was noted is in no hand but that of the task that has posted it and rests
Settled == \A x \in recorded \ twice :
    /\ x[2] \notin inbox
    /\ \A t \in Tasks : x \in task[t].work => task[t].at = "resting" /\ task[t].cur = x
    /\ x \in Pending => x \in task[Publisher].work

Trail == Single /\ Reached /\ Asked /\ Settled

(* A task that takes up work nobody else has in hand, or drops some.         *)
LEMMA TurnTrail ==
    ASSUME Sound, Trail, NEW t \in Tasks, NEW v \in Task, Turn(t, v), task[t].at # "resting",
           Pending' = Pending, inbox' \subseteq inbox, recorded' = recorded, lastSeen' = lastSeen,
           twice \subseteq twice',
           v.at = "asking" => v.cur[2] = lastSeen[v.cur[1]],
           \A x \in v.work \ task[t].work :
             \/ x \in twice'
             \/ t = Publisher /\ x \in Pending
             \/ x \notin recorded /\ x \in Shares /\ ~(x \in Pending)
                /\ ( \/ t \in Messages /\ x[2] = t /\ t \in inbox /\ t \notin inbox'
                     \/ t = CatchUp /\ x[2] \notin inbox /\ x \notin task[x[2]].work )
    PROVE  Trail'
  <1>1. /\ task' \in [Tasks -> Task] /\ task'[t] = v
        /\ \A s \in Tasks : s # t => task'[s] = task[s]
    BY Turned DEF Sound, Hands
  <1>2. /\ CatchUp \in Tasks /\ Publisher \in Tasks /\ CatchUp # Publisher /\ Messages \subseteq Tasks
        /\ CatchUp \notin Messages /\ Publisher \notin Messages
    BY TaskNames
  <1>3. v.work \subseteq Shares /\ \A x \in Shares : x[2] \in Messages BY TaskParts, CellOf
  <1>4. recorded \subseteq Shares BY DEF Sound, Notes
  <1>5. \A s \in Messages : Good(s) BY <1>2 DEF Sound, Hands
  <1>6. Single'
    <2> SUFFICES ASSUME NEW x \in Shares \ twice'
                 PROVE  /\ x[2] \in inbox' =>
                             x \notin task'[x[2]].work /\ x \notin task'[CatchUp].work /\ x \notin Pending'
                        /\ x \in task'[x[2]].work => x \notin task'[CatchUp].work /\ x \notin Pending'
                        /\ x \in task'[CatchUp].work => x \notin Pending'
      BY DEF Single
    <2>1. /\ x \in Shares \ twice /\ x[2] \in Messages /\ x[2] \in Tasks BY <1>2, <1>3
    <2>2. /\ x[2] \in inbox => x \notin task[x[2]].work /\ x \notin task[CatchUp].work /\ x \notin Pending
          /\ x \in task[x[2]].work => x \notin task[CatchUp].work /\ x \notin Pending
          /\ x \in task[CatchUp].work => x \notin Pending
      BY <2>1 DEF Trail, Single
    <2>3. CASE x \in v.work \ task[t].work
      BY <1>1, <1>2, <2>1, <2>2, <2>3
    <2>4. CASE x \notin v.work \ task[t].work
      BY <1>1, <1>2, <2>1, <2>2, <2>4
    <2> QED BY <2>3, <2>4
  <1>7. Reached' BY DEF Trail, Reached
  <1>8. Asked'
    <2>1. CASE t = CatchUp
      <3> SUFFICES ASSUME v.at = "asking", NEW x \in recorded \ twice, x[1] = v.cur[1]
                   PROVE  v.cur[2] >= x[2]
        BY <1>1, <2>1 DEF Asked
      <3> QED BY DEF Trail, Reached
    <2>2. CASE t # CatchUp BY <1>1, <1>2, <2>2 DEF Trail, Asked
    <2> QED BY <2>1, <2>2
  <1>9. Settled'
    <2> SUFFICES ASSUME NEW x \in recorded \ twice'
                 PROVE  /\ x[2] \notin inbox'
                        /\ \A s \in Tasks : x \in task'[s].work =>
                             task'[s].at = "resting" /\ task'[s].cur = x
                        /\ x \in Pending' => x \in task'[Publisher].work
      BY DEF Settled
    <2>1. /\ x \in recorded \ twice /\ x[2] \notin inbox
          /\ \A s \in Tasks : x \in task[s].work => task[s].at = "resting" /\ task[s].cur = x
          /\ x \in Pending => x \in task[Publisher].work
      BY DEF Trail, Settled
    <2>2. x \notin task[t].work BY <2>1
    <2>3. t = Publisher => x \notin Pending BY <2>1, <2>2
    <2>4. x \notin v.work BY <2>1, <2>2, <2>3
    <2> QED BY <1>1, <1>2, <2>1, <2>3, <2>4
  <1> QED BY <1>6, <1>7, <1>8, <1>9 DEF Trail

(* A task that is through with a share, and notes it if it has posted it.    *)
LEMMA EndsTrail ==
    ASSUME Sound, Trail, NEW t, NEW x, Ends(t, x), Besides(t, x), twice \subseteq twice',
           task[t].at = "resting" => task[t].cur = x,
           \/ recorded' = recorded /\ task[t].at # "resting"
           \/ /\ recorded' = recorded \cup {x} /\ x \notin Pending' \ Pending
              /\ t = Publisher => x \notin Pending'
              /\ SetLastSeen(x) /\ Overtaken(x) \subseteq twice',
           x \in Pending' \ Pending => t # Publisher
    PROVE  Trail'
  <1> DEFINE v == Proceed(t, x)
  <1>0. t \in Tasks /\ x \in task[t].work /\ Turn(t, v) BY DEF Ends
  <1>1. v \in Task /\ v.work = task[t].work \ {x} /\ v.at \in {"off", "ready"}
    BY <1>0, ProceedTask
  <1> HIDE DEF v
  <1>2. /\ task' \in [Tasks -> Task] /\ task'[t] = v
        /\ \A s \in Tasks : s # t => task'[s] = task[s]
    BY <1>0, <1>1, Turned DEF Sound, Hands
  <1>3. /\ CatchUp \in Tasks /\ Publisher \in Tasks /\ CatchUp # Publisher /\ Messages \subseteq Tasks
        /\ CatchUp \notin Messages /\ Publisher \notin Messages
    BY TaskNames
  <1>4. x \in Shares /\ x[2] \in published BY <1>0, TaskParts DEF Sound, Hands, Good
  <1>5. t \in Messages => x[2] = t BY <1>0 DEF Sound, Hands, Good
  <1>6. t = Publisher => x \in Pending BY <1>0 DEF Sound, Hands, Good
  <1>7. /\ inbox' = inbox /\ published' = published
        /\ Pending' \subseteq Pending \cup {x} /\ recorded \subseteq Shares
    BY DEF Besides, Steady, envVars, Sound, Notes
  <1>8. \A y \in Shares : y[1] \in Routes /\ y[2] \in Messages /\ y[2] \in Tasks BY <1>3, CellOf
  <1>9. t \in Messages \/ t = CatchUp \/ t = Publisher BY <1>0 DEF Tasks
  <1>10. Single'
    <2> SUFFICES ASSUME NEW y \in Shares \ twice'
                 PROVE  /\ y[2] \in inbox' =>
                             y \notin task'[y[2]].work /\ y \notin task'[CatchUp].work /\ y \notin Pending'
                        /\ y \in task'[y[2]].work => y \notin task'[CatchUp].work /\ y \notin Pending'
                        /\ y \in task'[CatchUp].work => y \notin Pending'
      BY DEF Single
    <2>1. /\ y[2] \in inbox => y \notin task[y[2]].work /\ y \notin task[CatchUp].work /\ y \notin Pending
          /\ y \in task[y[2]].work => y \notin task[CatchUp].work /\ y \notin Pending
          /\ y \in task[CatchUp].work => y \notin Pending
      BY DEF Trail, Single
    <2>2. CASE y # x \/ x \notin Pending' \ Pending
      BY <1>1, <1>2, <1>3, <1>7, <1>8, <2>1, <2>2
    <2>3. CASE y = x /\ x \in Pending' \ Pending
      BY <1>0, <1>1, <1>2, <1>3, <1>5, <1>7, <1>8, <1>9, <2>1, <2>3
    <2> QED BY <2>2, <2>3
  <1>11. \A r \in Routes : lastSeen'[r] >= lastSeen[r]
    <2>1. CASE lastSeen' = lastSeen
      <3>1. \A r \in Routes : lastSeen[r] \in Messages \cup {0} BY DEF Sound, Files
      <3>2. Messages \cup {0} \subseteq Nat BY ForwardAssumption
      <3>3. \A r \in Routes : lastSeen[r] \in Nat BY <3>1, <3>2
      <3> QED BY <2>1, <3>3
    <2>2. CASE SetLastSeen(x) BY <1>4, <1>7, <2>2, SetLastSeenKnown
    <2> QED BY <2>1, <2>2 DEF Besides
  <1>12. Reached'
    <2> SUFFICES ASSUME NEW y \in recorded' PROVE lastSeen'[y[1]] >= y[2] BY DEF Reached
    <2>1. CASE y \in recorded
      <3>1. y[1] \in Routes /\ y[2] \in Nat /\ lastSeen[y[1]] >= y[2]
        BY <1>7, <1>8, <2>1, ForwardAssumption DEF Trail, Reached
      <3>2. lastSeen'[y[1]] >= lastSeen[y[1]] BY <1>11, <3>1
      <3>3. lastSeen[y[1]] \in Nat /\ lastSeen'[y[1]] \in Nat
        <4>1. lastSeen' \in [Routes -> Messages \cup {0}]
          BY EndsSound DEF Sound, Files
        <4>2. lastSeen \in [Routes -> Messages \cup {0}] BY DEF Sound, Files
        <4>3. lastSeen'[y[1]] \in Messages \cup {0} /\ lastSeen[y[1]] \in Messages \cup {0}
          BY <3>1, <4>1, <4>2
        <4>4. Messages \cup {0} \subseteq Nat BY ForwardAssumption
        <4> QED BY <4>3, <4>4
      <3> DEFINE a == lastSeen[y[1]]
                 b == lastSeen'[y[1]]
                 n == y[2]
      <3>4. a \in Nat /\ b \in Nat /\ n \in Nat /\ a >= n /\ b >= a BY <3>1, <3>2, <3>3
      <3> HIDE DEF a, b, n
      <3>5. b >= n BY <3>4
      <3> QED BY <3>5 DEF b, n
    <2>2. CASE y \notin recorded
      <3>1. y = x /\ SetLastSeen(x) BY <2>2
      <3> QED BY <1>4, <1>7, <3>1, SetLastSeenKnown
    <2> QED BY <2>1, <2>2
  <1>13. Asked'
    <2> SUFFICES ASSUME task'[CatchUp].at = "asking", NEW y \in recorded' \ twice',
                        y[1] = task'[CatchUp].cur[1]
                 PROVE  task'[CatchUp].cur[2] >= y[2]
      BY DEF Asked
    <2>1. t # CatchUp /\ task'[CatchUp] = task[CatchUp] BY <1>1, <1>2, <1>3
    <2>2. CASE y \in recorded BY <2>1, <2>2 DEF Trail, Asked
    <2>3. CASE y \notin recorded
      <3>1. y = x /\ Overtaken(x) \subseteq twice' BY <2>3
      <3>2. ~(task[CatchUp].cur[2] < y[2]) BY <2>1, <3>1 DEF Overtaken
      <3>3. task[CatchUp].cur \in Cells BY <1>3, TaskParts DEF Sound, Hands
      <3>4. task[CatchUp].cur[2] \in Nat /\ y[2] \in Nat
        BY <1>4, <1>8, <3>1, <3>3, CellOf, ForwardAssumption
      <3>5. task[CatchUp].cur[2] >= y[2] BY <3>2, <3>4
      <3> QED BY <2>1, <3>5
    <2> QED BY <2>2, <2>3
  <1>14. Settled'
    <2> SUFFICES ASSUME NEW y \in recorded' \ twice'
                 PROVE  /\ y[2] \notin inbox'
                        /\ \A s \in Tasks : y \in task'[s].work =>
                             task'[s].at = "resting" /\ task'[s].cur = y
                        /\ y \in Pending' => y \in task'[Publisher].work
      BY DEF Settled
    <2>1. CASE y # x
      <3>1. /\ y \in recorded \ twice /\ y[2] \notin inbox
            /\ \A s \in Tasks : y \in task[s].work => task[s].at = "resting" /\ task[s].cur = y
            /\ y \in Pending => y \in task[Publisher].work
        BY <2>1 DEF Trail, Settled
      <3>2. y \notin task[t].work
        <4>1. y \in task[t].work => task[t].cur = y /\ task[t].at = "resting" BY <1>0, <3>1
        <4> QED BY <2>1, <4>1
      <3>3. y \notin v.work BY <1>1, <3>2
      <3>4. y \in Pending' => y \in Pending BY <1>7, <2>1
      <3> QED BY <1>2, <1>3, <1>7, <3>1, <3>2, <3>3, <3>4
    <2>2. CASE y = x
      <3>0. x \notin v.work BY <1>1
      <3>1. /\ x \in Shares \ twice /\ x[2] \in Tasks BY <1>4, <1>8, <2>2
      <3>2. /\ x[2] \in inbox => x \notin task[x[2]].work /\ x \notin task[CatchUp].work /\ x \notin Pending
            /\ x \in task[x[2]].work => x \notin task[CatchUp].work /\ x \notin Pending
            /\ x \in task[CatchUp].work => x \notin Pending
        BY <3>1 DEF Trail, Single
      <3>3. x \in recorded' BY <2>2
      <3>4. CASE x \in recorded /\ task[t].at # "resting"
        BY <1>0, <2>2, <3>4 DEF Trail, Settled
      <3>5. CASE x \notin Pending' \ Pending /\ (t = Publisher => x \notin Pending')
        <4>1. x[2] \notin inbox BY <1>0, <1>5, <1>6, <1>9, <3>2
        <4>2. x \notin Pending' BY <1>0, <1>5, <1>9, <3>2, <3>5
        <4>3. ASSUME NEW s \in Tasks, x \in task'[s].work PROVE FALSE
          <5>1. s # t /\ x \in task[s].work BY <1>2, <3>0, <4>3
          <5>2. s \in Messages => s = x[2] BY <5>1 DEF Sound, Hands, Good
          <5>3. s = Publisher => x \in Pending BY <5>1 DEF Sound, Hands, Good
          <5>4. s \in Messages \/ s = CatchUp \/ s = Publisher BY DEF Tasks
          <5> QED BY <1>0, <1>5, <1>6, <1>9, <3>2, <5>1, <5>2, <5>3, <5>4
        <4> QED BY <1>7, <2>2, <4>1, <4>2, <4>3
      <3> QED BY <3>3, <3>4, <3>5
    <2> QED BY <2>1, <2>2
  <1> QED BY <1>10, <1>12, <1>13, <1>14 DEF Trail

(* What is answered is noted, unless the fallback answers (delivery.py).     *)
LEMMA ReplyTrail == ASSUME Sound, Trail, NEW t \in Tasks, Reply(t) PROVE Trail'
  <1> USE DEF capVars, histVars
  <1> DEFINE x == Cur(t)
             v == [task[t] EXCEPT !.at = "resting", !.made = task[t].slot # "none"]
  <1>1. task[t].at = "sending" BY DEF Reply, Sending
  <1>2. task[t] \in Task /\ x \in task[t].work /\ x \in Shares /\ x[2] \in published
    BY <1>1, SendingTask DEF Underway, Sound, Hands
  <1>3. v \in Task /\ v.work = task[t].work /\ v.cur = x /\ v.at = "resting"
    BY <1>2 DEF Task, TaskStates, Cur
  <1>4. Turn(t, v) BY DEF Reply, Turn
  <1> HIDE DEF v
  <1>5. /\ task' \in [Tasks -> Task] /\ task'[t] = v
        /\ \A s \in Tasks : s # t => task'[s] = task[s]
    BY <1>3, <1>4, Turned DEF Sound, Hands
  <1>6. UNCHANGED <<queue, inbox, published>> /\ Pending' = Pending
    BY QueueKept DEF Reply, envVars
  <1>7. CASE task[t].second
    <2>1. UNCHANGED <<lastSeen, recorded, twice>> BY <1>7 DEF Reply
    <2> QED BY <1>1, <1>3, <1>4, <1>6, <2>1, TurnTrail
  <1>8. CASE ~task[t].second
    <2>1. SetLastSeen(x) /\ recorded' = recorded \cup {x} /\ twice' = twice \cup Overtaken(x)
      BY <1>8 DEF Reply
    <2> HIDE DEF x
    <2>2. /\ CatchUp \in Tasks /\ Publisher \in Tasks /\ Messages \subseteq Tasks
          /\ CatchUp \notin Messages /\ Publisher \notin Messages
      BY TaskNames
    <2>3. recorded \subseteq Shares /\ \A y \in Shares : y[1] \in Routes /\ y[2] \in Messages
      BY CellOf DEF Sound, Notes
    <2>4. \A s \in Tasks : task'[s].work = task[s].work BY <1>3, <1>5
    <2>5. Single'
      <3> SUFFICES ASSUME NEW y \in Shares \ twice'
                   PROVE  /\ y[2] \in inbox' =>
                               y \notin task'[y[2]].work /\ y \notin task'[CatchUp].work /\ y \notin Pending'
                          /\ y \in task'[y[2]].work => y \notin task'[CatchUp].work /\ y \notin Pending'
                          /\ y \in task'[CatchUp].work => y \notin Pending'
        BY DEF Single
      <3>1. y[2] \in Tasks /\ y \in Shares \ twice BY <2>1, <2>2, <2>3
      <3> QED BY <1>6, <2>2, <2>4, <3>1 DEF Trail, Single
    <2>6. Reached'
      <3> SUFFICES ASSUME NEW y \in recorded' PROVE lastSeen'[y[1]] >= y[2] BY DEF Reached
      <3>1. CASE y = x BY <1>2, <1>6, <2>1, <3>1, SetLastSeenKnown
      <3>2. CASE y # x
        <4>1. y \in recorded BY <2>1, <3>2
        <4>2. lastSeen[y[1]] >= y[2] /\ y[1] \in Routes /\ y[2] \in Messages
          BY <2>3, <4>1 DEF Trail, Reached
        <4>3. lastSeen'[y[1]] >= lastSeen[y[1]] /\ lastSeen' \in [Routes -> Messages \cup {0}]
          BY <1>2, <1>6, <2>1, <4>2, SetLastSeenKnown
        <4>4. lastSeen[y[1]] \in Messages \cup {0} /\ lastSeen'[y[1]] \in Messages \cup {0}
          BY <4>2, <4>3 DEF Sound, Files
        <4>5. Messages \cup {0} \subseteq Nat BY ForwardAssumption
        <4> DEFINE a == lastSeen[y[1]]
                   b == lastSeen'[y[1]]
                   n == y[2]
        <4>6. a \in Nat /\ b \in Nat /\ n \in Nat /\ a >= n /\ b >= a
          BY <4>2, <4>3, <4>4, <4>5
        <4> HIDE DEF a, b, n
        <4>7. b >= n BY <4>6
        <4> QED BY <4>7 DEF b, n
      <3> QED BY <3>1, <3>2
    <2>7. Asked'
      <3> SUFFICES ASSUME task'[CatchUp].at = "asking", NEW y \in recorded' \ twice',
                          y[1] = task'[CatchUp].cur[1]
                   PROVE  task'[CatchUp].cur[2] >= y[2]
        BY DEF Asked
      <3>1. task'[CatchUp] = task[CatchUp] BY <1>3, <1>5, <2>2
      <3>2. CASE y # x BY <2>1, <3>1, <3>2 DEF Trail, Asked
      <3>3. CASE y = x
        <4>1. ~(task[CatchUp].cur[2] < y[2]) BY <2>1, <3>1, <3>3 DEF Overtaken
        <4>2. task[CatchUp].cur \in Cells BY <2>2, TaskParts DEF Sound, Hands
        <4>3. task[CatchUp].cur[2] \in Nat /\ y[2] \in Nat
          BY <1>2, <2>3, <3>3, <4>2, CellOf, ForwardAssumption
        <4>4. task[CatchUp].cur[2] >= y[2] BY <4>1, <4>3
        <4> QED BY <3>1, <4>4
      <3> QED BY <3>2, <3>3
    <2>8. Settled'
      <3> SUFFICES ASSUME NEW y \in recorded' \ twice'
                   PROVE  /\ y[2] \notin inbox'
                          /\ \A s \in Tasks : y \in task'[s].work =>
                               task'[s].at = "resting" /\ task'[s].cur = y
                          /\ y \in Pending' => y \in task'[Publisher].work
        BY DEF Settled
      <3>1. CASE y # x
        <4>1. /\ y \in recorded \ twice /\ y[2] \notin inbox
              /\ \A s \in Tasks : y \in task[s].work => task[s].at = "resting" /\ task[s].cur = y
              /\ y \in Pending => y \in task[Publisher].work
          BY <2>1, <3>1 DEF Trail, Settled
        <4>2. y \notin task[t].work BY <1>1, <4>1
        <4> QED BY <1>5, <1>6, <2>2, <2>4, <4>1, <4>2
      <3>2. CASE y = x
        <4>1. /\ x \in Shares \ twice /\ x[2] \in Tasks /\ x \in task[t].work
          BY <1>2, <2>1, <2>2, <2>3, <3>2
        <4>2. /\ x[2] \in inbox => x \notin task[x[2]].work /\ x \notin task[CatchUp].work /\ x \notin Pending
              /\ x \in task[x[2]].work => x \notin task[CatchUp].work /\ x \notin Pending
              /\ x \in task[CatchUp].work => x \notin Pending
          BY <4>1 DEF Trail, Single
        <4>3. ASSUME NEW s \in Tasks, x \in task[s].work
              PROVE  s \in {x[2], CatchUp, Publisher} /\ (s = Publisher => x \in Pending)
          BY <4>3 DEF Sound, Hands, Good, Tasks
        <4>4. x[2] \notin inbox BY <4>1, <4>2, <4>3
        <4>5. \A s \in Tasks : x \in task[s].work => s = t BY <4>1, <4>2, <4>3
        <4>6. x \in Pending => t = Publisher BY <4>1, <4>2, <4>3
        <4> QED BY <1>3, <1>5, <1>6, <2>2, <2>4, <3>2, <4>1, <4>4, <4>5, <4>6
      <3> QED BY <3>1, <3>2
    <2> QED BY <2>5, <2>6, <2>7, <2>8 DEF Trail
  <1> QED BY <1>7, <1>8

LEMMA TasksTrail ==
    ASSUME Sound, Trail, NEW t \in Tasks, Process(t) \/ Deliver(t)
    PROVE  Trail'
  <1> USE DEF capVars, histVars
  <1>1. ASSUME NEW x \in task[t].work,
               Refuse(t, x) \/ Enqueue(t, x) \/ SkipCapped(t, x) \/ DryRun(t, x)
        PROVE  Trail'
    <2>1. Facing(t, x) BY <1>1 DEF Refuse, Enqueue, SkipCapped, DryRun
    <2>2. task[t].at # "resting" BY <2>1, FacingWork
    <2>3. /\ Ends(t, x) /\ Besides(t, x) /\ UNCHANGED <<recorded, twice>>
          /\ x \in Pending' \ Pending => t # Publisher
      BY <1>1, ProcessEnds
    <2> QED BY <2>2, <2>3, EndsTrail
  <1>2. ASSUME NEW x \in task[t].work, BeginSend(t, x) PROVE Trail'
    <2>1. PICK v \in Task : Turn(t, v) /\ v.at = "sending" /\ v.work = task[t].work
      BY <1>2, BeginTurn, ZenonT(60)
    <2>2. Facing(t, x) BY <1>2 DEF BeginSend
    <2>3. task[t].at # "resting" BY <2>2, FacingWork
    <2>4. UNCHANGED <<queue, inbox, recorded, lastSeen, twice>> /\ Pending' = Pending
      BY <1>2, QueueKept DEF BeginSend, envVars
    <2> QED BY <2>1, <2>3, <2>4, TurnTrail
  <1>3. CASE RestEnd(t) \/ \E S \in SUBSET {t} : GiveUp(t, S)
    <2> DEFINE x == Cur(t)
    <2>1. /\ Ends(t, x) /\ Besides(t, x) /\ Pending' \subseteq Pending
          /\ RestEnd(t) /\ t = Publisher => x \notin Pending'
      BY <1>3, DoneEnds
    <2>2. CASE RestEnd(t)
      <3>1. /\ SetLastSeen(x) /\ recorded' = recorded \cup {x}
            /\ twice' = twice \cup Overtaken(x) /\ task[t].cur = x
        BY <2>2 DEF RestEnd, Cur
      <3> HIDE DEF x
      <3> QED BY <2>1, <2>2, <3>1, EndsTrail
    <2>3. CASE \E S \in SUBSET {t} : GiveUp(t, S)
      <3>1. task[t].at = "sending" /\ UNCHANGED <<recorded, twice>>
        BY <2>3 DEF GiveUp, Sending
      <3> HIDE DEF x
      <3> QED BY <2>1, <3>1, EndsTrail
    <2> QED BY <1>3, <2>2, <2>3
  <1>4. CASE FloodWait(t)
    <2> DEFINE x == Cur(t)
    <2>1. task[t].at = "sending" BY <1>4 DEF FloodWait, Sending
    <2>2. UNCHANGED <<inbox, recorded, twice, lastSeen>> BY <1>4 DEF FloodWait, envVars
    <2>3. CASE t = Publisher
      <3>1. Ends(t, x) /\ Besides(t, x) /\ Pending' \subseteq Pending
        BY <1>4, <2>3, FloodEnds
      <3> HIDE DEF x
      <3> QED BY <2>1, <2>2, <3>1, EndsTrail
    <2>4. CASE t # Publisher
      <3>1. Turn(t, Idle) /\ queue' = queue BY <1>4, <2>4 DEF FloodWait, Turn
      <3> QED BY <2>1, <2>2, <3>1, IdleTask, QueueKept, TurnTrail
    <2> QED BY <2>3, <2>4
  <1>5. CASE \E S \in SUBSET {t} : SendError(t, S)
    <2>0. PICK S \in SUBSET {t} : SendError(t, S) BY <1>5
    <2> DEFINE v == [task[t] EXCEPT !.second = TRUE, !.made = S # {} /\ task[t].slot # "none"]
    <2>1. task[t].at = "sending" /\ task[t] \in Task
      BY <2>0 DEF SendError, Sending, Sound, Hands
    <2>2. v \in Task /\ v.work = task[t].work /\ v.at = "sending" BY <2>1 DEF Task
    <2>3. Turn(t, v) BY <2>0 DEF SendError, Turn
    <2>4. UNCHANGED <<queue, inbox, recorded, lastSeen, twice>> /\ Pending' = Pending
      BY <2>0, QueueKept DEF SendError, envVars
    <2> HIDE DEF v
    <2> QED BY <2>1, <2>2, <2>3, <2>4, TurnTrail
  <1>6. CASE Reply(t) BY <1>6, ReplyTrail
  <1> QED BY <1>1, <1>2, <1>3, <1>4, <1>5, <1>6 DEF Process, Deliver

LEMMA CatchUpTrail == ASSUME Sound, Trail, CatchUpStep PROVE Trail'
  <1> USE DEF capVars, histVars, fileVars, envVars
  <1>0. /\ CatchUp \in Tasks /\ CatchUp # Publisher /\ task[CatchUp] \in Task /\ Good(CatchUp)
    BY TaskNames DEF Sound, Hands
  <1>1. task[CatchUp].at # "resting" /\ UNCHANGED <<queue, inbox, recorded, lastSeen>>
    BY DEF CatchUpStep, CatchUpAsk, CatchUpFails, CatchUpFetch, CatchUpEnd, CatchUpFree
  <1>2. Pending' = Pending BY <1>1, QueueKept
  <1>3. CASE CatchUpAsk
    <2>1. todo # {} /\ todo \subseteq Routes BY <1>3 DEF CatchUpAsk, Sound, Course
    <2> DEFINE v == Asking(todo)
    <2>2. v \in Task /\ v.work = {} /\ v.cur = <<Least(todo), lastSeen[Least(todo)]>>
      BY <2>1, AskingTask
    <2>3. Turn(CatchUp, v) /\ twice' = twice BY <1>3 DEF CatchUpAsk, Turn
    <2> HIDE DEF v
    <2> QED BY <1>0, <1>1, <1>2, <2>2, <2>3, TurnTrail
  <1>4. CASE CatchUpFails
    <2> DEFINE v == [Idle EXCEPT !.at = "ready"]
    <2>1. v \in Task /\ v.at = "ready" /\ v.work = {} BY IdleTask DEF Idle, Task, TaskStates
    <2>2. Turn(CatchUp, v) /\ twice' = twice BY <1>4 DEF CatchUpFails, Turn
    <2> HIDE DEF v
    <2> QED BY <1>0, <1>1, <1>2, <2>1, <2>2, TurnTrail
  <1>5. CASE CatchUpFetch
    <2> DEFINE r == task[CatchUp].cur[1]
               last == task[CatchUp].cur[2]
               batch == {r} \X Missed(r, last)
               v == [Idle EXCEPT !.at = "ready", !.work = batch]
    <2>1. r \in Routes /\ last \in Messages \cup {0} /\ task[CatchUp].at = "asking"
      BY <1>0, <1>5, TaskParts, CellOf DEF CatchUpFetch
    <2>2. /\ batch \subseteq Shares
          /\ \A x \in batch : x[1] = r /\ x[2] > last /\ x[2] \in Nat
      BY <2>1, ForwardAssumption DEF Missed, OfRoute, Shares, Sound, Course
    <2>3. Turn(CatchUp, v) BY <1>5 DEF CatchUpFetch, Turn
    <2>4. twice' = twice \cup {x \in batch : Elsewhere(x)} BY <1>5 DEF CatchUpFetch
    <2>5. last \in Nat
      <3>1. Messages \cup {0} \subseteq Nat BY ForwardAssumption
      <3> QED BY <2>1, <3>1
    <2> HIDE DEF batch
    <2>6. v \in Task /\ v.at = "ready" /\ v.work = batch
      BY <2>2, IdleTask DEF Idle, Task, TaskStates
    <2> HIDE DEF v
    <2>7. ASSUME NEW x \in batch, x \notin twice'
          PROVE  /\ x \notin recorded /\ x \in Shares /\ x \notin Pending
                 /\ x[2] \notin inbox /\ x \notin task[x[2]].work
      <3>1. x[2] \in Tasks BY <2>2, CellOf, TaskNames
      <3>2. ~Elsewhere(x) /\ x \notin twice BY <2>4, <2>7
      <3>3. x \in recorded => last >= x[2] BY <2>1, <2>2, <3>2 DEF Trail, Asked
      <3> DEFINE n == x[2]
      <3>4. n > last /\ n \in Nat BY <2>2
      <3> HIDE DEF last
      <3>5. ~(last >= n) BY <2>5, <3>4
      <3> QED BY <2>2, <3>1, <3>2, <3>3, <3>5 DEF Elsewhere
    <2>8. twice \subseteq twice' BY <2>4
    <2> QED BY <1>0, <1>1, <1>2, <2>3, <2>6, <2>7, <2>8, TurnTrail
  <1>6. CASE CatchUpEnd
    <2>1. Turn(CatchUp, Idle) /\ twice' = twice BY <1>6 DEF CatchUpEnd, Turn
    <2> QED BY <1>0, <1>1, <1>2, <2>1, IdleTask, TurnTrail
  <1> QED BY <1>3, <1>4, <1>5, <1>6 DEF CatchUpStep

LEMMA PublisherTrail == ASSUME Sound, Trail, PublisherStep PROVE Trail'
  <1> USE DEF capVars, histVars, fileVars, envVars
  <1>0. Publisher \in Tasks /\ Publisher # CatchUp /\ task[Publisher] \in Task /\ Good(Publisher)
    BY TaskNames DEF Sound, Hands
  <1>1. ASSUME NEW v \in Task, Turn(Publisher, v), v.at # "asking", v.work \subseteq Pending,
               task[Publisher].at # "resting",
               UNCHANGED <<queue, inbox, recorded, lastSeen, twice>>
        PROVE  Trail'
    BY <1>0, <1>1, QueueKept, TurnTrail
  <1>2. CASE PublisherTick
    <2> DEFINE v == [task[Publisher] EXCEPT !.work = Pending]
    <2>1. v \in Task BY <1>0, PendingShares DEF Task, Sound, Files
    <2>2. v.at = task[Publisher].at /\ v.work = Pending /\ task[Publisher].at = "ready"
      BY <1>0, <1>2 DEF Task, PublisherTick
    <2>3. Turn(Publisher, v) BY <1>2 DEF PublisherTick, Turn
    <2> HIDE DEF v
    <2> QED BY <1>1, <1>2, <2>1, <2>2, <2>3 DEF PublisherTick
  <1>3. CASE \E x \in task[Publisher].work : PublisherSkip(x)
    <2>0. PICK x \in task[Publisher].work : PublisherSkip(x) BY <1>3
    <2> DEFINE v == [task[Publisher] EXCEPT !.work = task[Publisher].work \ {x}]
    <2>1. v \in Task BY <1>0, TaskParts DEF Task
    <2>2. /\ v.at = task[Publisher].at /\ v.work \subseteq Pending
          /\ task[Publisher].at = "ready"
      BY <1>0, <2>0 DEF Task, PublisherSkip, Foremost, Good
    <2>3. Turn(Publisher, v) BY <2>0 DEF PublisherSkip, Turn
    <2> HIDE DEF v
    <2> QED BY <1>1, <2>0, <2>1, <2>2, <2>3 DEF PublisherSkip
  <1>4. CASE \E x \in task[Publisher].work : PublisherFetch(x)
    <2>0. PICK x \in task[Publisher].work : PublisherFetch(x) BY <1>4
    <2> DEFINE v == [task[Publisher] EXCEPT !.at = "fetching", !.cur = x]
    <2>1. v \in Task BY <1>0, TaskParts, CellOf DEF Task, TaskStates
    <2>2. /\ v.at = "fetching" /\ v.work \subseteq Pending
          /\ task[Publisher].at = "ready"
      BY <1>0, <2>0 DEF Task, PublisherFetch, Foremost, Good
    <2>3. Turn(Publisher, v) BY <2>0 DEF PublisherFetch, Turn
    <2> HIDE DEF v
    <2> QED BY <1>1, <2>0, <2>1, <2>2, <2>3 DEF PublisherFetch
  <1>5. CASE PublisherLose
    <2>1. /\ Ends(Publisher, task[Publisher].cur) /\ Besides(Publisher, task[Publisher].cur)
          /\ Pending' \subseteq Pending
      BY <1>5, LoseEnds
    <2>2. task[Publisher].at = "fetching" /\ UNCHANGED <<recorded, twice>>
      BY <1>5 DEF PublisherLose
    <2> QED BY <2>1, <2>2, EndsTrail
  <1> QED BY <1>2, <1>3, <1>4, <1>5 DEF PublisherStep

LEMMA DispatchTrail == ASSUME Sound, Trail, NEW m \in Messages, Dispatch(m) PROVE Trail'
  <1> USE DEF capVars, histVars, fileVars
  <1> DEFINE mine == {r \in active : RouteSource[r] = SourceOf[m]}
             v == [task[m] EXCEPT !.work = mine \X {m},
                                  !.at = IF SourceOf[m] \in Watched THEN "ready" ELSE "off"]
  <1>1. /\ m \in Tasks /\ task[m] \in Task /\ m \in inbox /\ task[m].at = "off"
        /\ active \subseteq Routes /\ m # Publisher
    BY TaskNames DEF Dispatch, Sound, Hands, Course
  <1>2. mine \X {m} \subseteq Shares BY <1>1 DEF Shares
  <1>3. \A x \in mine \X {m} : x[2] = m OBVIOUS
  <1> HIDE DEF mine
  <1>4. v \in Task BY <1>1, <1>2 DEF Task, TaskStates
  <1>5. v.work = mine \X {m} /\ v.at # "asking" BY <1>1 DEF Task
  <1>6. Turn(m, v) BY DEF Dispatch, Turn, mine
  <1> HIDE DEF v
  <1>7. UNCHANGED <<queue, recorded, lastSeen, twice>> /\ Pending' = Pending
        /\ inbox' = inbox \ {m}
    BY QueueKept DEF Dispatch
  <1>8. ASSUME NEW x \in v.work, x \notin twice'
        PROVE  x \notin recorded /\ x \in Shares /\ x \notin Pending /\ x[2] = m
    <2>1. x \in Shares \ twice /\ x[2] = m BY <1>2, <1>3, <1>5, <1>7, <1>8
    <2>2. x \notin Pending BY <1>1, <2>1 DEF Trail, Single
    <2>3. x \notin recorded BY <1>1, <2>1 DEF Trail, Settled
    <2> QED BY <2>1, <2>2, <2>3
  <1> QED BY <1>1, <1>4, <1>5, <1>6, <1>7, <1>8, TurnTrail

LEMMA PublishTrail == ASSUME Sound, Trail, NEW m \in Messages, Publish(m) PROVE Trail'
  <1> USE DEF procVars, fileVars, capVars
  <1>1. /\ UNCHANGED <<task, queue, lastSeen, recorded, twice>>
        /\ inbox' \subseteq inbox \cup {m} /\ m \notin published
    BY DEF Publish
  <1>2. Pending' = Pending BY <1>1, QueueKept
  <1>3. ASSUME NEW x \in Shares, x[2] = m
        PROVE  x \notin Pending /\ x \notin recorded /\ \A t \in Tasks : x \notin task[t].work
    BY <1>1, <1>3 DEF Sound, Known, Hands, Good
  <1>4. /\ CatchUp \in Tasks /\ Messages \subseteq Tasks /\ recorded \subseteq Shares
        /\ \A x \in Shares : x[2] \in Messages
    BY TaskNames, CellOf DEF Sound, Notes
  <1>5. Single' BY <1>1, <1>2, <1>3, <1>4 DEF Trail, Single
  <1>6. Reached' /\ Asked' BY <1>1 DEF Trail, Reached, Asked
  <1>7. Settled' BY <1>1, <1>2, <1>3, <1>4 DEF Trail, Settled
  <1> QED BY <1>5, <1>6, <1>7 DEF Trail

LEMMA ClockTrail ==
    ASSUME Sound, Trail, NewDay \/ Window \/ \E e \in remembered : Forget(e)
    PROVE  Trail'
  <1> USE DEF capVars, histVars, procVars, fileVars, envVars
  <1>1. UNCHANGED <<queue, lastSeen, inbox, recorded, twice>>
    BY DEF NewDay, Window, Forget
  <1>2. ASSUME NEW t \in Tasks
        PROVE  task'[t].work = task[t].work /\ task'[t].at = task[t].at /\ task'[t].cur = task[t].cur
    <2>1. task[t] \in Task BY DEF Sound, Hands
    <2>2. CASE NewDay BY <2>1, <2>2 DEF NewDay, Task
    <2>3. CASE ~NewDay BY <2>3 DEF Window, Forget
    <2> QED BY <2>2, <2>3
  <1>3. Pending' = Pending BY <1>1, QueueKept
  <1>4. /\ CatchUp \in Tasks /\ Publisher \in Tasks /\ Messages \subseteq Tasks
        /\ \A x \in Shares : x[2] \in Messages
    BY TaskNames, CellOf
  <1>5. Single' BY <1>1, <1>2, <1>3, <1>4 DEF Trail, Single
  <1>6. Reached' /\ Asked' BY <1>1, <1>2, <1>4 DEF Trail, Reached, Asked
  <1>7. Settled' BY <1>1, <1>2, <1>3, <1>4 DEF Trail, Settled
  <1> QED BY <1>5, <1>6, <1>7 DEF Trail

LEMMA StartTrail == ASSUME Sound, Trail, NEW a \in Actives, Start(a) PROVE Trail'
  <1> USE DEF capVars, histVars, procVars, fileVars, envVars
  <1>0. /\ CatchUp \in Tasks /\ Publisher \in Tasks /\ CatchUp # Publisher /\ Messages \subseteq Tasks
        /\ CatchUp \notin Messages /\ Publisher \notin Messages
        /\ \A x \in Shares : x[2] \in Messages
    BY TaskNames, CellOf
  <1>1. /\ task'[CatchUp] = Asking(a) /\ task'[Publisher].work = {}
        /\ task[CatchUp].work = {} /\ task[Publisher].work = {}
        /\ \A t \in Tasks \ {CatchUp, Publisher} : task'[t] = task[t]
    BY StartTasks
  <1>2. /\ Asking(a).at = "asking" /\ Asking(a).work = {}
        /\ Asking(a).cur = <<Least(a), lastSeen[Least(a)]>>
    BY ForwardAssumption, AskingTask
  <1>3. UNCHANGED <<queue, lastSeen, inbox, recorded, twice>> BY DEF Start
  <1>4. Pending' = Pending BY <1>3, QueueKept
  <1>5. \A t \in Tasks : task'[t].work = task[t].work BY <1>1, <1>2
  <1>6. Single' BY <1>0, <1>3, <1>4, <1>5 DEF Trail, Single
  <1>7. Reached' BY <1>3 DEF Trail, Reached
  <1>8. Asked' BY <1>1, <1>2, <1>3 DEF Trail, Asked, Reached
  <1>9. Settled' BY <1>0, <1>1, <1>2, <1>3, <1>4, <1>5 DEF Trail, Settled
  <1> QED BY <1>6, <1>7, <1>8, <1>9 DEF Trail

(* The end: what was posted and left in the queue is marked as held twice.   *)
LEMMA LeaveTrail ==
    ASSUME Sound, Trail, twice' = twice \cup Unmarked, inbox' \subseteq inbox,
           UNCHANGED <<queue, lastSeen, recorded>>, task'[Publisher] = Idle,
           \A t \in Tasks : task'[t] = Idle \/ task'[t] = task[t]
    PROVE  Trail'
  <1>1. /\ CatchUp \in Tasks /\ Publisher \in Tasks /\ Messages \subseteq Tasks
        /\ recorded \subseteq Shares /\ \A x \in Shares : x[2] \in Messages
    BY TaskNames, CellOf DEF Sound, Notes
  <1>2. Pending' = Pending BY QueueKept
  <1>3. \A t \in Tasks : task'[t].work = {} \/ task'[t] = task[t] BY IdleTask
  <1>4. Single' BY <1>1, <1>2, <1>3 DEF Trail, Single
  <1>5. Reached' BY DEF Trail, Reached
  <1>6. Asked' BY <1>1, IdleTask DEF Trail, Asked
  <1>7. \A x \in recorded \ twice' : x \notin Pending
    <2> SUFFICES ASSUME NEW x \in recorded \ twice', x \in Pending PROVE FALSE OBVIOUS
    <2>1. x \in task[Publisher].work BY DEF Trail, Settled
    <2>2. task[Publisher].cur = x BY <1>1, <2>1 DEF Trail, Settled
    <2> QED BY <2>2 DEF Unmarked
  <1>8. Settled' BY <1>1, <1>2, <1>3, <1>7 DEF Trail, Settled
  <1> QED BY <1>4, <1>5, <1>6, <1>8 DEF Trail

LEMMA StopTrail ==
    ASSUME Sound, Trail, NEW lost, NEW S, Stop(lost, S) \/ End(S) \/ Kill(S)
    PROVE  Trail'
  <1>1. Publisher \in Tasks BY TaskNames
  <1>2. task'[Publisher] = Idle /\ \A t \in Tasks : task'[t] = Idle \/ task'[t] = task[t]
    BY <1>1 DEF Stop, End, Kill, Down, Sound, Hands
  <1>3. /\ twice' = twice \cup Unmarked /\ inbox' \subseteq inbox
        /\ UNCHANGED <<queue, lastSeen, recorded>>
    BY DEF Stop, End, Kill, Down
  <1> QED BY <1>2, <1>3, LeaveTrail

LEMMA InitTrail == ASSUME Init PROVE Trail
  <1>1. Pending = {} /\ inbox = {} /\ recorded = {} BY DEF Init, Pending
  <1>2. \A t \in Tasks : task[t].work = {} BY IdleTask DEF Init
  <1>3. CatchUp \in Tasks /\ Messages \subseteq Tasks /\ \A x \in Shares : x[2] \in Messages
    BY TaskNames, CellOf
  <1> QED BY <1>1, <1>2, <1>3 DEF Trail, Single, Reached, Asked, Settled

LEMMA TrailNext == ASSUME Sound, Trail, [Next]_vars PROVE Trail'
  <1>1. CASE Next
    <2>1. CASE \E m \in Messages : Publish(m) \/ Dispatch(m)
      BY <2>1, PublishTrail, DispatchTrail
    <2>2. CASE NewDay \/ Window \/ \E e \in remembered : Forget(e) BY <2>2, ClockTrail
    <2>3. CASE \E a \in Actives : Start(a) BY <2>3, StartTrail
    <2>4. CASE \E S \in SUBSET Sending :
                 (\E lost \in SUBSET inbox : Stop(lost, S)) \/ End(S) \/ Kill(S)
      BY <2>4, StopTrail
    <2>5. CASE CatchUpStep BY <2>5, CatchUpTrail
    <2>6. CASE PublisherStep BY <2>6, PublisherTrail
    <2>7. CASE \E t \in Tasks : Process(t) \/ Deliver(t) BY <2>7, TasksTrail
    <2> QED BY <1>1, <2>1, <2>2, <2>3, <2>4, <2>5, <2>6, <2>7 DEF Next
  <1>2. CASE UNCHANGED vars
    <2>1. UNCHANGED <<task, queue, lastSeen, inbox, recorded, twice>> /\ Pending' = Pending
      BY <1>2, QueueKept DEF vars, fileVars, envVars, histVars
    <2> QED BY <2>1 DEF Trail, Single, Reached, Asked, Settled
  <1> QED BY <1>1, <1>2

LEMMA AlwaysTrail == Spec => []Trail
  <1>1. Init => Trail BY InitTrail
  <1>2. Sound /\ Trail /\ [Next]_vars => Trail' BY TrailNext
  <1> QED BY <1>1, <1>2, AlwaysSound, PTL DEF Spec

(* A message that was noted as published is sent again on its route only if  *)
(* somebody else had it in hand at the time: no restart, no crash between    *)
(* the answer and the mark, and no catch-up posts it a second time.          *)
THEOREM NeverAgain == Spec => []NoRepost
  <1>1. Sound /\ Trail => NoRepost
    <2> SUFFICES ASSUME Sound, Trail, NEW t \in Tasks, task[t].at = "sending",
                        Cur(t) \in recorded, Cur(t) \notin twice
                 PROVE  FALSE
      BY DEF NoRepost
    <2>1. Cur(t) \in task[t].work BY SendingTask DEF Underway
    <2> QED BY <2>1 DEF Trail, Settled
  <1> QED BY <1>1, AlwaysSound, AlwaysTrail, PTL

----------------------------------------------------------------------------
(* The daily cap *)

\* The deliveries of today that hold a slot for what they have not posted yet
Held(d) == {t \in Tasks : task[t].slot = "today" /\ task[t].made = FALSE
                          /\ DestOf[task[t].cur[1]] = d}

Slots == \A d \in Dests : posts[d] + Cardinality(Held(d)) <= quota[d] + unpaid[d]

Within == \A d \in Dests : quota[d] > 0 => \E r \in Capped(d) : quota[d] <= conf.limit[r]

Counted == Slots /\ Within

LEMMA HeldFinite ==
    ASSUME NEW d
    PROVE  IsFiniteSet(Held(d)) /\ Cardinality(Held(d)) \in Nat
  <1>1. Held(d) \subseteq Tasks BY DEF Held
  <1> QED BY <1>1, CountFinite

LEMMA ThreeParts ==
    ASSUME NEW H, IsFiniteSet(H), NEW A \in SUBSET H, NEW B \in SUBSET H, NEW C \in SUBSET H,
           A \cap B = {}, A \cap C = {}, B \cap C = {}
    PROVE  /\ Cardinality(A) \in Nat /\ Cardinality(B) \in Nat /\ Cardinality(C) \in Nat
           /\ Cardinality(H) \in Nat
           /\ Cardinality(A) + Cardinality(B) + Cardinality(C) <= Cardinality(H)
  <1>1. IsFiniteSet(A) /\ IsFiniteSet(B) /\ IsFiniteSet(C) BY FS_Subset
  <1>2. /\ Cardinality(A) \in Nat /\ Cardinality(B) \in Nat /\ Cardinality(C) \in Nat
        /\ Cardinality(H) \in Nat
    BY <1>1, FS_CardinalityType
  <1>3. IsFiniteSet(A \cup B) /\ Cardinality(A \cup B) = Cardinality(A) + Cardinality(B)
    <2>1. Cardinality(A \cap B) = 0 BY FS_EmptySet
    <2>2. /\ IsFiniteSet(A \cup B)
          /\ Cardinality(A \cup B) = Cardinality(A) + Cardinality(B) - Cardinality(A \cap B)
      BY <1>1, FS_Union
    <2> QED BY <1>2, <2>1, <2>2
  <1>4. Cardinality((A \cup B) \cup C) = Cardinality(A) + Cardinality(B) + Cardinality(C)
    <2>1. (A \cup B) \cap C = {} OBVIOUS
    <2>2. Cardinality((A \cup B) \cap C) = 0 BY <2>1, FS_EmptySet
    <2>3. Cardinality((A \cup B) \cup C)
            = Cardinality(A \cup B) + Cardinality(C) - Cardinality((A \cup B) \cap C)
      BY <1>1, <1>3, FS_Union
    <2> QED BY <1>2, <1>3, <2>2, <2>3
  <1>5. (A \cup B) \cup C \in SUBSET H OBVIOUS
  <1>6. Cardinality((A \cup B) \cup C) <= Cardinality(H) BY <1>5, FS_Subset
  <1> QED BY <1>2, <1>4, <1>6

LEMMA Split ==
    ASSUME NEW S, IsFiniteSet(S), NEW P \in SUBSET S
    PROVE  /\ Cardinality(S) \in Nat /\ Cardinality(P) \in Nat /\ Cardinality(S \ P) \in Nat
           /\ Cardinality(S) = Cardinality(P) + Cardinality(S \ P)
  <1>1. IsFiniteSet(P) /\ IsFiniteSet(S \ P) BY FS_Subset
  <1>2. P \cap (S \ P) = {} /\ P \cup (S \ P) = S OBVIOUS
  <1>3. Cardinality(P \cap (S \ P)) = 0 BY <1>2, FS_EmptySet
  <1>4. Cardinality(P \cup (S \ P)) = Cardinality(P) + Cardinality(S \ P) - Cardinality(P \cap (S \ P))
    BY <1>1, FS_Union
  <1>5. Cardinality(S) \in Nat /\ Cardinality(P) \in Nat /\ Cardinality(S \ P) \in Nat
    BY <1>1, FS_CardinalityType
  <1> QED BY <1>2, <1>3, <1>4, <1>5

(* What is posted over a slot leaves the slots that are held, and what has   *)
(* none is noted; a refund takes a slot that is held, or is noted.           *)
LEMMA AccountSlots ==
    ASSUME Sound, Slots, NEW S \in SUBSET Tasks, NEW T \in SUBSET Tasks, Account(S, T),
           \A d \in Dests : Held(d)' \subseteq Held(d) \ (S \cup T)
    PROVE  Slots'
  <1> SUFFICES ASSUME NEW d \in Dests
               PROVE  posts'[d] + Cardinality(Held(d)') <= quota'[d] + unpaid'[d]
    BY DEF Slots
  <1> DEFINE B == Bound(S, d)
             P == {t \in B : task[t].slot = "old" \/ task[t].made}
             C == Bound(T, d)
             U == {t \in C : task[t].slot = "old" \/ task[t].made \/ t \in S}
  <1>1. /\ quota'[d] = AfterRefund(quota[d], Cardinality(C))
        /\ posts'[d] = posts[d] + Cardinality(B)
        /\ unpaid'[d] = unpaid[d] + Cardinality(P) + Cardinality(U)
    BY DEF Account
  <1>2. \A t \in Tasks : task[t].slot \in {"none", "today", "old"} /\ task[t].made \in BOOLEAN
    BY TaskParts DEF Sound, Hands
  <1>3. B \ P \in SUBSET Held(d) /\ B \ P \subseteq S
    BY <1>2 DEF Bound, Held
  <1>4. C \ U \in SUBSET Held(d) /\ C \ U \subseteq T /\ (C \ U) \cap S = {}
    BY <1>2 DEF Bound, Held
  <1>5. P \in SUBSET B /\ U \in SUBSET C OBVIOUS
  <1>6. IsFiniteSet(B) /\ IsFiniteSet(C) BY BoundFinite
  <1> HIDE DEF B, C, P, U
  <1>7. Held(d)' \in SUBSET Held(d) /\ Held(d)' \cap S = {} /\ Held(d)' \cap T = {} OBVIOUS
  <1>8. /\ Cardinality(B \ P) \in Nat /\ Cardinality(C \ U) \in Nat
        /\ Cardinality(Held(d)') \in Nat /\ Cardinality(Held(d)) \in Nat
        /\ Cardinality(B \ P) + Cardinality(C \ U) + Cardinality(Held(d)') <= Cardinality(Held(d))
    <2>1. /\ (B \ P) \cap (C \ U) = {} /\ (B \ P) \cap Held(d)' = {}
          /\ (C \ U) \cap Held(d)' = {}
      BY <1>3, <1>4, <1>7
    <2> DEFINE H == Held(d)
               K == Held(d)'
               posted == B \ P
               given == C \ U
    <2>2. /\ IsFiniteSet(H) /\ posted \in SUBSET H /\ given \in SUBSET H /\ K \in SUBSET H
          /\ posted \cap given = {} /\ posted \cap K = {} /\ given \cap K = {}
      BY <1>3, <1>4, <1>7, <2>1, HeldFinite
    <2> HIDE DEF H, K, posted, given
    <2>3. /\ Cardinality(posted) \in Nat /\ Cardinality(given) \in Nat
          /\ Cardinality(K) \in Nat /\ Cardinality(H) \in Nat
          /\ Cardinality(posted) + Cardinality(given) + Cardinality(K) <= Cardinality(H)
      BY <2>2, ThreeParts
    <2> QED BY <2>3 DEF H, K, posted, given
  <1>9. /\ Cardinality(B) = Cardinality(P) + Cardinality(B \ P) /\ Cardinality(P) \in Nat
        /\ Cardinality(C) = Cardinality(U) + Cardinality(C \ U) /\ Cardinality(U) \in Nat
    BY <1>5, <1>6, Split
  <1>10. posts[d] \in Nat /\ quota[d] \in Nat /\ unpaid[d] \in Nat
    BY DEF Sound, Files, Notes
  <1>11. posts[d] + Cardinality(Held(d)) <= quota[d] + unpaid[d] BY DEF Slots
  <1>12. AfterRefund(quota[d], Cardinality(C)) >= quota[d] - Cardinality(C)
    BY <1>8, <1>9, <1>10 DEF AfterRefund
  <1>13. AfterRefund(quota[d], Cardinality(C)) \in Nat
    BY <1>8, <1>9, <1>10 DEF AfterRefund
  <1> QED BY <1>1, <1>8, <1>9, <1>10, <1>11, <1>12, <1>13

LEMMA AccountWithin ==
    ASSUME Sound, Within, NEW S \in SUBSET Tasks, NEW T \in SUBSET Tasks, Account(S, T),
           conf' = conf
    PROVE  Within'
  <1> SUFFICES ASSUME NEW d \in Dests, quota'[d] > 0
               PROVE  \E r \in Capped(d) : quota'[d] <= conf.limit[r]
    BY DEF Within, Capped
  <1> DEFINE k == Cardinality(Bound(T, d))
             n == quota[d]
             q == quota'[d]
  <1>1. q = AfterRefund(n, k) BY DEF Account
  <1>2. n \in Nat /\ k \in Nat BY BoundFinite DEF Sound, Files
  <1> HIDE DEF k, n
  <1>3. q <= n /\ n > 0 /\ q \in Nat
    <2>1. q > 0 OBVIOUS
    <2> HIDE DEF q
    <2> QED BY <1>1, <1>2, <2>1 DEF AfterRefund
  <1>4. PICK r \in Capped(d) : n <= conf.limit[r] BY <1>3 DEF Within, n
  <1>5. conf.limit[r] \in Nat BY ForwardAssumption DEF Capped, Sound, Course
  <1> HIDE DEF q
  <1>6. q <= conf.limit[r] BY <1>2, <1>3, <1>4, <1>5
  <1> QED BY <1>6 DEF q

(* Nothing is counted, and no slot is taken.                                 *)
LEMMA CountedStays ==
    ASSUME Sound, Counted, UNCHANGED <<quota, posts, unpaid, conf>>,
           \A d \in Dests : Held(d)' \subseteq Held(d)
    PROVE  Counted'
  <1>1. Slots'
    <2> SUFFICES ASSUME NEW d \in Dests
                 PROVE  posts[d] + Cardinality(Held(d)') <= quota[d] + unpaid[d]
      BY DEF Slots
    <2>1. /\ Cardinality(Held(d)') <= Cardinality(Held(d)) /\ Cardinality(Held(d)) \in Nat
          /\ Cardinality(Held(d)') \in Nat
      BY HeldFinite, FS_Subset, FS_CardinalityType
    <2>2. posts[d] \in Nat /\ quota[d] \in Nat /\ unpaid[d] \in Nat
      BY DEF Sound, Files, Notes
    <2>3. posts[d] + Cardinality(Held(d)) <= quota[d] + unpaid[d] BY DEF Counted, Slots
    <2> QED BY <2>1, <2>2, <2>3
  <1>2. Within' BY DEF Counted, Within, Capped
  <1> QED BY <1>1, <1>2 DEF Counted

LEMMA HeldTurn ==
    ASSUME Sound, NEW t \in Tasks, NEW v \in Task, Turn(t, v), NEW d
    PROVE  /\ Held(d)' \subseteq Held(d) \cup {t}
           /\ v.slot # "today" \/ v.made = TRUE => Held(d)' \subseteq Held(d) \ {t}
           /\ (v.slot = task[t].slot /\ v.made = task[t].made /\ v.cur = task[t].cur)
                => Held(d)' \subseteq Held(d)
  <1>1. /\ task' \in [Tasks -> Task] /\ task'[t] = v
        /\ \A s \in Tasks : s # t => task'[s] = task[s]
    BY Turned DEF Sound, Hands
  <1> QED BY <1>1 DEF Held

LEMMA HeldEnds ==
    ASSUME Sound, NEW t, NEW x, Ends(t, x), NEW d
    PROVE  Held(d)' \subseteq Held(d) \ {t}
  <1>1. t \in Tasks /\ x \in task[t].work /\ Turn(t, Proceed(t, x)) BY DEF Ends
  <1>2. Proceed(t, x) \in Task /\ Proceed(t, x).slot = "none" BY <1>1, ProceedTask
  <1> QED BY <1>1, <1>2, HeldTurn

(* The slot of a request is counted before the request is made.              *)
LEMMA BeginCounted ==
    ASSUME Sound, Counted, NEW t \in Tasks, NEW x \in task[t].work, BeginSend(t, x)
    PROVE  Counted'
  <1> USE DEF capVars, procVars
  <1>1. PICK v \in Task :
           /\ Turn(t, v) /\ v.cur = x /\ v.made = FALSE
           /\ v.slot = (IF conf.limit[x[1]] > 0 THEN "today" ELSE "none")
    BY BeginTurn
  <1>2. /\ x \in Shares /\ task[t].slot = "none"
    <2>1. Facing(t, x) BY DEF BeginSend
    <2> QED BY <2>1, FacingWork
  <1>3. UNCHANGED <<posts, unpaid, conf>> BY DEF BeginSend
  <1>4. CASE ~(conf.limit[x[1]] > 0)
    <2>1. quota' = quota BY <1>4 DEF BeginSend
    <2>2. v.slot # "today" BY <1>1, <1>4
    <2>3. \A d \in Dests : Held(d)' \subseteq Held(d) BY <1>1, <2>2, HeldTurn
    <2> QED BY <1>3, <2>1, <2>3, CountedStays
  <1>5. CASE conf.limit[x[1]] > 0
    <2> DEFINE e == DestOf[x[1]]
    <2>0. x[1] \in Routes /\ e \in Dests /\ conf.limit[x[1]] \in Nat
      BY <1>2, CellOf, ForwardAssumption DEF Sound, Course
    <2>1. quota \in [Dests -> Nat] BY DEF Sound, Files
    <2>2. quota' = [quota EXCEPT ![e] = quota[e] + 1] BY <1>5, <2>0, <2>1 DEF BeginSend
    <2>3. quota[e] < conf.limit[x[1]]
      <3>1. ~(quota[e] >= conf.limit[x[1]]) BY <1>5 DEF BeginSend, Full
      <3>2. quota[e] \in Nat BY <2>0, <2>1
      <3> QED BY <2>0, <3>1, <3>2
    <2>4. x[1] \in Capped(e) BY <1>5, <2>0 DEF Capped
    <2> HIDE DEF e
    <2>5. quota'[e] = quota[e] + 1 /\ \A d \in Dests : d # e => quota'[d] = quota[d]
      BY <2>0, <2>1, <2>2
    <2>6. \A d \in Dests : quota[d] \in Nat /\ posts[d] \in Nat /\ unpaid[d] \in Nat
      BY DEF Sound, Files, Notes
    <2>7. Within'
      <3> SUFFICES ASSUME NEW d \in Dests, quota'[d] > 0
                   PROVE  \E r \in Capped(d) : quota'[d] <= conf.limit[r]
        BY <1>3 DEF Within, Capped
      <3>1. CASE d = e
        <4>1. quota'[d] <= conf.limit[x[1]] BY <2>0, <2>3, <2>5, <2>6, <3>1
        <4> QED BY <2>4, <3>1, <4>1
      <3>2. CASE d # e BY <2>5, <3>2 DEF Counted, Within
      <3> QED BY <3>1, <3>2
    <2>8. Slots'
      <3> SUFFICES ASSUME NEW d \in Dests
                   PROVE  posts[d] + Cardinality(Held(d)') <= quota'[d] + unpaid[d]
        BY <1>3 DEF Slots
      <3>1. posts[d] + Cardinality(Held(d)) <= quota[d] + unpaid[d] BY DEF Counted, Slots
      <3>2. Cardinality(Held(d)) \in Nat /\ IsFiniteSet(Held(d)) BY HeldFinite
      <3>3. CASE d = e
        <4>1. Held(d)' \subseteq Held(d) \cup {t} BY <1>1, HeldTurn
        <4>2. t \notin Held(d) BY <1>2 DEF Held
        <4>3. /\ IsFiniteSet(Held(d) \cup {t})
              /\ Cardinality(Held(d) \cup {t}) = Cardinality(Held(d)) + 1
          BY <3>2, <4>2, FS_AddElement
        <4>4. /\ Cardinality(Held(d)') <= Cardinality(Held(d) \cup {t})
              /\ Cardinality(Held(d)') \in Nat
          BY <4>1, <4>3, FS_Subset, FS_CardinalityType
        <4> QED BY <2>5, <2>6, <3>1, <3>2, <3>3, <4>3, <4>4
      <3>4. CASE d # e
        <4>1. Held(d)' \subseteq Held(d)
          <5>1. task'[t] = v /\ \A s \in Tasks : s # t => task'[s] = task[s]
            BY <1>1, Turned DEF Sound, Hands
          <5> QED BY <1>1, <3>4, <5>1 DEF Held, e
        <4>2. /\ Cardinality(Held(d)') <= Cardinality(Held(d))
              /\ Cardinality(Held(d)') \in Nat
          BY <3>2, <4>1, FS_Subset, FS_CardinalityType
        <4> QED BY <2>5, <2>6, <3>1, <3>2, <3>4, <4>2
      <3> QED BY <3>3, <3>4
    <2> QED BY <2>7, <2>8 DEF Counted
  <1> QED BY <1>4, <1>5

LEMMA TasksCounted ==
    ASSUME Sound, Counted, NEW t \in Tasks, Process(t) \/ Deliver(t)
    PROVE  Counted'
  <1> USE DEF capVars, histVars, procVars
  <1>1. ASSUME NEW x \in task[t].work,
               Refuse(t, x) \/ Enqueue(t, x) \/ SkipCapped(t, x) \/ DryRun(t, x)
        PROVE  Counted'
    <2>1. Ends(t, x) BY <1>1, ProcessEnds
    <2>2. UNCHANGED <<quota, posts, unpaid, conf>>
      BY <1>1 DEF Refuse, Enqueue, SkipCapped, DryRun
    <2> QED BY <2>1, <2>2, HeldEnds, CountedStays
  <1>2. ASSUME NEW x \in task[t].work, BeginSend(t, x) PROVE Counted' BY <1>2, BeginCounted
  <1>3. CASE RestEnd(t)
    <2>1. Ends(t, Cur(t)) BY <1>3, DoneEnds
    <2>2. UNCHANGED <<quota, posts, unpaid, conf>> BY <1>3 DEF RestEnd
    <2> QED BY <2>1, <2>2, HeldEnds, CountedStays
  <1>4. ASSUME NEW S \in SUBSET Tasks, NEW T \in SUBSET Tasks, Account(S, T), conf' = conf,
               \A d \in Dests : Held(d)' \subseteq Held(d) \ (S \cup T)
        PROVE  Counted'
    BY <1>4, AccountSlots, AccountWithin DEF Counted
  <1>5. task[t] \in Task /\ Good(t) BY DEF Sound, Hands
  <1>6. CASE \E S \in SUBSET {t} : GiveUp(t, S)
    <2>1. PICK S \in SUBSET {t} : GiveUp(t, S) BY <1>6
    <2>2. Ends(t, Cur(t)) BY <1>6, DoneEnds
    <2>3. \A d \in Dests : Held(d)' \subseteq Held(d) \ (S \cup {t}) BY <2>2, HeldEnds
    <2> QED BY <1>4, <2>1, <2>3 DEF GiveUp
  <1>7. CASE FloodWait(t)
    <2>1. \A d \in Dests : Held(d)' \subseteq Held(d) \ {t}
      <3>1. CASE t = Publisher BY <1>7, <3>1, FloodEnds, HeldEnds
      <3>2. CASE t # Publisher
        <4>1. Turn(t, Idle) BY <1>7, <3>2 DEF FloodWait, Turn
        <4> QED BY <4>1, IdleTask, HeldTurn
      <3> QED BY <3>1, <3>2
    <2>2. \A d \in Dests : Held(d)' \subseteq Held(d) \ ({} \cup {t}) BY <2>1
    <2>3. Account({}, {t}) /\ conf' = conf BY <1>7 DEF FloodWait
    <2> QED BY <1>4, <2>2, <2>3
  <1>8. CASE Reply(t)
    <2> DEFINE v == [task[t] EXCEPT !.at = "resting", !.made = task[t].slot # "none"]
    <2>1. v \in Task /\ v.slot = task[t].slot /\ v.made = (task[t].slot # "none")
      BY <1>5 DEF Task, TaskStates
    <2>2. Turn(t, v) BY <1>8 DEF Reply, Turn
    <2> HIDE DEF v
    <2>3. v.slot # "today" \/ v.made = TRUE BY <2>1
    <2>4. \A d \in Dests : Held(d)' \subseteq Held(d) \ ({t} \cup {})
      BY <2>1, <2>2, <2>3, HeldTurn
    <2>5. Account({t}, {}) /\ conf' = conf BY <1>8 DEF Reply
    <2> QED BY <1>4, <2>4, <2>5
  <1>9. CASE \E S \in SUBSET {t} : SendError(t, S)
    <2>0. PICK S \in SUBSET {t} : SendError(t, S) BY <1>9
    <2> DEFINE v == [task[t] EXCEPT !.second = TRUE, !.made = S # {} /\ task[t].slot # "none"]
    <2>1. /\ v \in Task /\ v.slot = task[t].slot /\ v.cur = task[t].cur
          /\ v.made = (S # {} /\ task[t].slot # "none")
      BY <1>5 DEF Task
    <2>2. Turn(t, v) BY <2>0 DEF SendError, Turn
    <2> HIDE DEF v
    <2>3. task[t].at = "sending" /\ ~task[t].second BY <2>0 DEF SendError, Sending
    <2>4. task[t].made = FALSE BY <1>5, <2>3, TaskParts DEF Good
    <2>5. \A d \in Dests : Held(d)' \subseteq Held(d) \ (S \cup {})
      <3>1. CASE S = {}
        <4>1. v.made = task[t].made BY <2>1, <2>4, <3>1
        <4> QED BY <2>1, <2>2, <3>1, <4>1, HeldTurn
      <3>2. CASE S = {t}
        <4>1. v.slot # "today" \/ v.made = TRUE BY <2>1, <3>2
        <4> QED BY <2>1, <2>2, <3>2, <4>1, HeldTurn
      <3> QED BY <3>1, <3>2
    <2>6. Account(S, {}) /\ conf' = conf BY <2>0 DEF SendError
    <2> QED BY <1>4, <2>5, <2>6
  <1> QED BY <1>1, <1>2, <1>3, <1>6, <1>7, <1>8, <1>9 DEF Process, Deliver

LEMMA OthersCounted ==
    ASSUME Sound, Counted,
           \/ \E m \in Messages : Publish(m) \/ Dispatch(m)
           \/ Window \/ \E e \in remembered : Forget(e)
           \/ \E a \in Actives : Start(a)
           \/ CatchUpStep \/ PublisherStep
    PROVE  Counted'
  <1> USE DEF capVars, histVars, procVars, fileVars
  <1>1. UNCHANGED <<quota, posts, unpaid, conf>>
    BY DEF Publish, Dispatch, Window, Forget, Start, CatchUpStep, CatchUpAsk, CatchUpFails,
           CatchUpFetch, CatchUpEnd, PublisherStep, PublisherTick, PublisherLose, PublisherSkip,
           PublisherFetch
  <1>2. CASE \E m \in Messages : Publish(m)
    BY <1>1, <1>2, CountedStays DEF Publish, Held
  <1>3. CASE \E m \in Messages : Dispatch(m)
    <2>1. PICK m \in Messages : Dispatch(m) BY <1>3
    <2>2. m \in Tasks /\ task[m] \in Task BY TaskNames DEF Sound, Hands
    <2>3. /\ task'[m].slot = task[m].slot /\ task'[m].made = task[m].made
          /\ task'[m].cur = task[m].cur /\ \A s \in Tasks : s # m => task'[s] = task[s]
      BY <2>1, <2>2 DEF Dispatch, Task, Sound, Hands
    <2>4. \A d \in Dests : Held(d)' \subseteq Held(d) BY <2>3 DEF Held
    <2> QED BY <1>1, <2>4, CountedStays
  <1>4. CASE Window \/ \E e \in remembered : Forget(e)
    BY <1>1, <1>4, CountedStays DEF Window, Forget, Held
  <1>5. CASE \E a \in Actives : Start(a)
    <2>1. PICK a \in Actives : Start(a) BY <1>5
    <2>2. /\ task'[CatchUp] = Asking(a) /\ task'[Publisher].slot = "none"
          /\ \A t \in Tasks \ {CatchUp, Publisher} : task'[t] = task[t]
      BY <2>1, StartTasks
    <2>3. Asking(a).slot = "none" BY ForwardAssumption, AskingTask
    <2>4. \A d \in Dests : Held(d)' \subseteq Held(d) BY <2>2, <2>3 DEF Held
    <2> QED BY <1>1, <2>4, CountedStays
  <1>6. CASE CatchUpStep
    <2>0. CatchUp \in Tasks BY TaskNames
    <2>1. task'[CatchUp].slot = "none" /\ \A s \in Tasks : s # CatchUp => task'[s] = task[s]
      <3>1. \E v \in Task : Turn(CatchUp, v) /\ v.slot = "none" BY <1>6, CatchUpTurn
      <3> QED BY <2>0, <3>1, Turned DEF Sound, Hands
    <2>2. \A d \in Dests : Held(d)' \subseteq Held(d) BY <2>1 DEF Held
    <2> QED BY <1>1, <2>2, CountedStays
  <1>7. CASE PublisherStep
    <2>0. Publisher \in Tasks /\ task[Publisher] \in Task BY TaskNames DEF Sound, Hands
    <2>1. CASE PublisherLose BY <1>1, <2>1, LoseEnds, HeldEnds, CountedStays
    <2>2. CASE PublisherTick \/ \E x \in task[Publisher].work : PublisherSkip(x)
      <3>1. /\ task'[Publisher].slot = task[Publisher].slot
            /\ task'[Publisher].made = task[Publisher].made
            /\ task'[Publisher].cur = task[Publisher].cur
            /\ \A s \in Tasks : s # Publisher => task'[s] = task[s]
        BY <2>0, <2>2 DEF PublisherTick, PublisherSkip, Task, Sound, Hands
      <3>2. \A d \in Dests : Held(d)' \subseteq Held(d) BY <3>1 DEF Held
      <3> QED BY <1>1, <3>2, CountedStays
    <2>3. CASE \E x \in task[Publisher].work : PublisherFetch(x)
      <3>0. task[Publisher].at = "ready" BY <2>3 DEF PublisherFetch, Foremost
      <3>1. task[Publisher].slot = "none"
        BY <2>0, <3>0, TaskParts DEF Good, Underway, Sound, Hands
      <3>2. /\ task'[Publisher].slot = task[Publisher].slot
            /\ \A s \in Tasks : s # Publisher => task'[s] = task[s]
        BY <2>0, <2>3 DEF PublisherFetch, Task, Sound, Hands
      <3>3. \A d \in Dests : Held(d)' \subseteq Held(d) BY <3>1, <3>2 DEF Held
      <3> QED BY <1>1, <3>3, CountedStays
    <2> QED BY <1>7, <2>1, <2>2, <2>3 DEF PublisherStep
  <1> QED BY <1>2, <1>3, <1>4, <1>5, <1>6, <1>7

LEMMA NewDayCounted == ASSUME Sound, NewDay PROVE Counted'
  <1>1. \A d \in Dests : quota'[d] = 0 /\ posts'[d] = 0 /\ unpaid'[d] = 0 BY DEF NewDay
  <1>2. \A t \in Tasks : task'[t].slot # "today"
    <2> SUFFICES ASSUME NEW t \in Tasks PROVE task'[t].slot # "today" OBVIOUS
    <2>1. task[t] \in Task BY DEF Sound, Hands
    <2>2. task'[t].slot = IF task[t].slot = "today" THEN "old" ELSE task[t].slot
      BY <2>1 DEF NewDay, Task
    <2> QED BY <2>2
  <1>3. \A d \in Dests : Held(d)' = {} BY <1>2 DEF Held
  <1>4. \A d \in Dests : Cardinality(Held(d)') = 0 BY <1>3, FS_EmptySet
  <1> QED BY <1>1, <1>4 DEF Counted, Slots, Within

LEMMA StopCounted ==
    ASSUME Sound, Counted, NEW lost, NEW S \in SUBSET Sending, Stop(lost, S) \/ End(S) \/ Kill(S)
    PROVE  Counted'
  <1>0. Publisher \in Tasks /\ S \in SUBSET Tasks BY TaskNames DEF Sending
  <1>1. conf' = conf BY DEF Stop, End, Kill, Down
  <1>2. CASE Stop(lost, S)
    <2>1. Turn(Publisher, Idle) /\ S \subseteq {Publisher} /\ Account(S, {Publisher})
      BY <1>2 DEF Stop, Turn
    <2>2. \A d \in Dests : Held(d)' \subseteq Held(d) \ {Publisher}
      BY <1>0, <2>1, IdleTask, HeldTurn
    <2>3. \A d \in Dests : Held(d)' \subseteq Held(d) \ (S \cup {Publisher}) BY <2>1, <2>2
    <2> QED BY <1>0, <1>1, <2>1, <2>3, AccountSlots, AccountWithin DEF Counted
  <1>3. CASE End(S) \/ Kill(S)
    <2>1. \A t \in Tasks : task'[t] = Idle BY <1>3 DEF End, Kill, Down
    <2>2. \A d \in Dests : Held(d)' = {} BY <2>1, IdleTask DEF Held
    <2>3. \A T, d : Held(d)' = {} => Held(d)' \subseteq Held(d) \ (S \cup T) OBVIOUS
    <2>4. Account(S, Tasks) \/ Account(S, {}) BY <1>3 DEF End, Kill
    <2>5. Tasks \in SUBSET Tasks /\ {} \in SUBSET Tasks OBVIOUS
    <2> QED BY <1>0, <1>1, <2>2, <2>3, <2>4, <2>5, AccountSlots, AccountWithin DEF Counted
  <1> QED BY <1>2, <1>3

LEMMA InitCounted == ASSUME Init PROVE Counted
  <1>1. \A d \in Dests : quota[d] = 0 /\ posts[d] = 0 /\ unpaid[d] = 0 BY DEF Init
  <1>2. \A d \in Dests : Held(d) = {} BY IdleTask DEF Init, Held
  <1>3. \A d \in Dests : Cardinality(Held(d)) = 0 BY <1>2, FS_EmptySet
  <1> QED BY <1>1, <1>3 DEF Counted, Slots, Within

LEMMA CountedNext == ASSUME Sound, Counted, [Next]_vars PROVE Counted'
  <1>1. CASE Next
    <2>1. CASE \/ \E m \in Messages : Publish(m) \/ Dispatch(m)
               \/ Window \/ \E e \in remembered : Forget(e)
               \/ \E a \in Actives : Start(a)
               \/ CatchUpStep \/ PublisherStep
      BY <2>1, OthersCounted
    <2>2. CASE NewDay BY <2>2, NewDayCounted
    <2>3. CASE \E S \in SUBSET Sending :
                 (\E lost \in SUBSET inbox : Stop(lost, S)) \/ End(S) \/ Kill(S)
      BY <2>3, StopCounted
    <2>4. CASE \E t \in Tasks : Process(t) \/ Deliver(t) BY <2>4, TasksCounted
    <2> QED BY <1>1, <2>1, <2>2, <2>3, <2>4 DEF Next
  <1>2. CASE UNCHANGED vars
    <2>1. UNCHANGED <<task, quota, posts, unpaid, conf>>
      BY <1>2 DEF vars, fileVars, capVars, procVars
    <2> QED BY <2>1, CountedStays DEF Held
  <1> QED BY <1>1, <1>2

LEMMA AlwaysCounted == Spec => []Counted
  <1>1. Init => Counted BY InitCounted
  <1>2. Sound /\ Counted /\ [Next]_vars => Counted' BY CountedNext
  <1> QED BY <1>1, <1>2, AlwaysSound, PTL DEF Spec

(* The daily cap of a destination holds for all posts that have their slot,  *)
(* whatever tasks share it, cancel, fail over and give slots back, and over  *)
(* every restart (quota.py:28).                                              *)
THEOREM CapHolds == Spec => []CapCounts
  <1>1. Sound /\ Counted => CapCounts
    <2> SUFFICES ASSUME Sound, Counted, NEW d \in Dests, Capped(d) # {}
                 PROVE  \E r \in Capped(d) : posts[d] <= conf.limit[r] + unpaid[d]
      BY DEF CapCounts
    <2>1. /\ posts[d] \in Nat /\ quota[d] \in Nat /\ unpaid[d] \in Nat
          /\ Cardinality(Held(d)) \in Nat
          /\ posts[d] + Cardinality(Held(d)) <= quota[d] + unpaid[d]
      BY HeldFinite DEF Sound, Files, Notes, Counted, Slots
    <2>2. \A r \in Capped(d) : conf.limit[r] \in Nat
      BY ForwardAssumption DEF Capped, Sound, Course
    <2>3. \E r \in Capped(d) : quota[d] <= conf.limit[r]
      <3>1. CASE quota[d] > 0 BY <3>1 DEF Counted, Within
      <3>2. CASE quota[d] = 0
        <4>1. \A r \in Capped(d) : quota[d] <= conf.limit[r] BY <2>2, <3>2
        <4> QED BY <4>1
      <3> QED BY <2>1, <3>1, <3>2
    <2>4. PICK r \in Capped(d) : quota[d] <= conf.limit[r] BY <2>3
    <2>5. posts[d] <= conf.limit[r] + unpaid[d] BY <2>1, <2>2, <2>4
    <2> QED BY <2>5
  <1> QED BY <1>1, AlwaysSound, AlwaysCounted, PTL

----------------------------------------------------------------------------
(* What the catch-up owes to the first route *)

FirstRoute == Least(Routes)

\* m came while the module was off, is new enough, and was not dealt with
Owed(m) ==
    /\ SourceOf[m] = RouteSource[FirstRoute] /\ Newest(m)
    /\ <<FirstRoute, m>> \notin handled /\ FirstRoute \notin torn

\* The catch-up has asked for what comes before m, or has got m
InCatchUp(m) ==
    /\ up = "live" /\ FirstRoute \in active
    /\ \/ /\ task[CatchUp].at = "asking" /\ task[CatchUp].cur[1] = FirstRoute
          /\ m > task[CatchUp].cur[2]
       \/ <<FirstRoute, m>> \in task[CatchUp].work

\* The next catch-up will ask for what comes before m: nothing later was noted, or will be
Behind(m) ==
    /\ m > lastSeen[FirstRoute]
    /\ \A t \in Tasks : \A x \in task[t].work : x[1] = FirstRoute => m > x[2]
    /\ ~(up = "live" /\ FirstRoute \in active)

Pursued ==
    /\ \A m \in published, n \in Messages : n < m => n \in published
    /\ offline \subseteq published
    /\ task[CatchUp].at # "off" => todo \subseteq active
    /\ task[CatchUp].at = "asking" => task[CatchUp].cur[1] \in active
    /\ FirstRoute \notin conf.scheduled =>
         /\ \A x \in Pending : x[1] # FirstRoute
         /\ \A m \in offline : Owed(m) => InCatchUp(m) \/ Behind(m)

LEMMA FirstRouteIs == FirstRoute \in Routes /\ \A r \in Routes : FirstRoute <= r
  BY ForwardAssumption, LeastIs DEF FirstRoute

(* What a step does to last_seen of the first route.                         *)
LEMMA SetLastSeenFirst ==
    ASSUME Sound, NEW x \in Shares, SetLastSeen(x)
    PROVE  \/ lastSeen'[FirstRoute] = lastSeen[FirstRoute]
           \/ x[1] = FirstRoute /\ lastSeen'[FirstRoute] = x[2]
  <1>1. lastSeen \in [Routes -> Messages \cup {0}] /\ FirstRoute \in Routes /\ x[1] \in Routes
    BY FirstRouteIs, CellOf DEF Sound, Files
  <1> QED BY <1>1 DEF SetLastSeen

\* No task gets more of the first route but while that is active
NoMore ==
    \A t \in Tasks : \A x \in task'[t].work :
      x \in task[t].work \/ x[1] # FirstRoute \/ (up = "live" /\ FirstRoute \in active)

\* last_seen of the first route is left, or is that of a share some task has in hand
SeenOnly ==
    \/ lastSeen'[FirstRoute] = lastSeen[FirstRoute]
    \/ \E t \in Tasks : \E x \in task[t].work :
         x[1] = FirstRoute /\ lastSeen'[FirstRoute] = x[2]

LEMMA StepPursued ==
    ASSUME Sound, Pursued, UNCHANGED <<up, active, conf, published, offline>>,
           handled \subseteq handled', torn \subseteq torn', NoMore, SeenOnly,
           FirstRoute \notin conf.scheduled =>
             \A x \in Pending' : x \in Pending \/ x[1] # FirstRoute,
           task'[CatchUp].at # "off" => todo' \subseteq active,
           task'[CatchUp].at = "asking" => task'[CatchUp].cur[1] \in active,
           \A m \in offline : InCatchUp(m) /\ Owed(m)' => InCatchUp(m)'
    PROVE  Pursued'
  <1>1. ASSUME NEW m \in offline, Owed(m)' PROVE Owed(m) BY <1>1 DEF Owed, Newest
  <1>2. ASSUME NEW m \in offline, Behind(m) PROVE Behind(m)'
    <2>1. m > lastSeen'[FirstRoute]
      <3>1. CASE lastSeen'[FirstRoute] = lastSeen[FirstRoute] BY <1>2, <3>1 DEF Behind
      <3>2. CASE lastSeen'[FirstRoute] # lastSeen[FirstRoute]
        <4>1. PICK t \in Tasks : \E x \in task[t].work :
                x[1] = FirstRoute /\ lastSeen'[FirstRoute] = x[2]
          BY <3>2 DEF SeenOnly
        <4>2. PICK x \in task[t].work : x[1] = FirstRoute /\ lastSeen'[FirstRoute] = x[2]
          BY <4>1
        <4> QED BY <1>2, <4>2 DEF Behind
      <3> QED BY <3>1, <3>2
    <2>2. \A t \in Tasks : \A x \in task'[t].work : x[1] = FirstRoute => m > x[2]
      BY <1>2 DEF Behind, NoMore
    <2> QED BY <1>2, <2>1, <2>2 DEF Behind
  <1>3. ASSUME FirstRoute \notin conf.scheduled, NEW m \in offline, Owed(m)'
        PROVE  InCatchUp(m)' \/ Behind(m)'
    BY <1>1, <1>2, <1>3 DEF Pursued
  <1> QED BY <1>3 DEF Pursued

(* A step that leaves the catch-up alone.                                    *)
LEMMA AsidePursued ==
    ASSUME Sound, Pursued, UNCHANGED <<up, active, conf, published, offline, todo>>,
           handled \subseteq handled', torn \subseteq torn', NoMore, SeenOnly,
           FirstRoute \notin conf.scheduled =>
             \A x \in Pending' : x \in Pending \/ x[1] # FirstRoute,
           task'[CatchUp] = task[CatchUp]
    PROVE  Pursued'
  BY StepPursued DEF Pursued, InCatchUp

(* A task that is through with a share, which then is handled, or torn off.  *)
LEMMA EndsPursued ==
    ASSUME Sound, Pursued, NEW t, NEW x, Ends(t, x), Besides(t, x), handled \subseteq handled',
           FirstRoute \notin conf.scheduled =>
             \/ x \in handled' /\ Pending' \subseteq Pending
             \/ x[1] # FirstRoute
             \/ t = Publisher /\ Pending' \subseteq Pending
    PROVE  Pursued'
  <1>0. t \in Tasks /\ x \in task[t].work /\ Turn(t, Proceed(t, x)) BY DEF Ends
  <1>1. /\ Proceed(t, x) \in Task /\ Proceed(t, x).work = task[t].work \ {x}
        /\ Proceed(t, x).at \in {"off", "ready"}
    BY <1>0, ProceedTask
  <1>2. /\ task'[t].work = task[t].work \ {x} /\ task'[t].at \in {"off", "ready"}
        /\ \A s \in Tasks : s # t => task'[s] = task[s]
    BY <1>0, <1>1, Turned DEF Sound, Hands
  <1>3. x \in Shares /\ x = <<x[1], x[2]>> BY <1>0, TaskParts, CellOf DEF Sound, Hands
  <1>4. /\ UNCHANGED <<up, active, conf, published, offline, todo, torn>>
        /\ Pending' \subseteq Pending \cup {x}
    BY DEF Besides, Steady, procVars, envVars
  <1>5. NoMore BY <1>2 DEF NoMore
  <1>6. SeenOnly
    <2>1. CASE lastSeen' = lastSeen BY <2>1 DEF SeenOnly
    <2>2. CASE SetLastSeen(x) BY <1>0, <1>3, <2>2, SetLastSeenFirst DEF SeenOnly
    <2> QED BY <2>1, <2>2 DEF Besides
  <1>7. FirstRoute \notin conf.scheduled =>
          \A y \in Pending' : y \in Pending \/ y[1] # FirstRoute
    BY <1>4
  <1>8. CatchUp \in Tasks /\ CatchUp # Publisher BY TaskNames
  <1>9. CASE t # CatchUp BY <1>2, <1>4, <1>5, <1>6, <1>7, <1>8, <1>9, AsidePursued
  <1>10. CASE t = CatchUp
    <2>1. task[CatchUp].at # "off" /\ task[CatchUp].at # "asking"
      BY <1>0, <1>10 DEF Sound, Hands, Good
    <2>2. todo \subseteq active BY <2>1 DEF Pursued
    <2>3. ASSUME FirstRoute \notin conf.scheduled, NEW m \in offline, InCatchUp(m), Owed(m)'
          PROVE  InCatchUp(m)'
      <3>1. <<FirstRoute, m>> \in task[CatchUp].work BY <2>1, <2>3 DEF InCatchUp
      <3>2. <<FirstRoute, m>> # x
        <4>1. <<FirstRoute, m>> \notin handled' BY <2>3 DEF Owed
        <4>2. CASE x[1] # FirstRoute BY <4>2
        <4>3. CASE x \in handled' BY <4>1, <4>3
        <4> QED BY <1>8, <1>10, <2>3, <4>2, <4>3
      <3> QED BY <1>2, <1>4, <1>10, <2>3, <3>1, <3>2 DEF InCatchUp
    <2>4. CASE FirstRoute \notin conf.scheduled
      BY <1>2, <1>4, <1>5, <1>6, <1>7, <1>10, <2>2, <2>3, <2>4, StepPursued
    <2>5. CASE FirstRoute \in conf.scheduled
      BY <1>2, <1>4, <1>10, <2>2, <2>5 DEF Pursued
    <2> QED BY <2>4, <2>5
  <1> QED BY <1>9, <1>10

LEMMA ProcessPursued ==
    ASSUME Sound, Pursued, NEW t \in Tasks, NEW x \in task[t].work,
           Refuse(t, x) \/ Enqueue(t, x) \/ SkipCapped(t, x) \/ DryRun(t, x)
    PROVE  Pursued'
  <1>1. Ends(t, x) /\ Besides(t, x) BY ProcessEnds
  <1>2. CASE Enqueue(t, x)
    <2>1. x[1] \in conf.scheduled /\ handled \subseteq handled' BY <1>2 DEF Enqueue, Closed
    <2> QED BY <1>1, <2>1, EndsPursued
  <1>3. CASE Refuse(t, x) \/ SkipCapped(t, x) \/ DryRun(t, x)
    <2>1. \E ok : Conclude(t, x, ok) BY <1>3 DEF Refuse, SkipCapped, DryRun
    <2>2. Pending' \subseteq Pending BY <2>1, ConcludeEnds
    <2>3. handled' = handled \cup {x} BY <1>3 DEF Refuse, SkipCapped, DryRun
    <2> QED BY <1>1, <2>2, <2>3, EndsPursued
  <1> QED BY <1>2, <1>3

(* A task whose work is as it was.                                           *)
LEMMA SendPursued ==
    ASSUME Sound, Pursued, NEW t \in Tasks, NEW v \in Task, Turn(t, v), v.work = task[t].work,
           task[t].at # "off", task[t].at # "asking", v.at # "asking",
           UNCHANGED <<up, active, conf, published, offline, todo, torn, handled, queue>>,
           lastSeen' = lastSeen \/ \E x \in task[t].work : SetLastSeen(x)
    PROVE  Pursued'
  <1>1. task'[t] = v /\ \A s \in Tasks : s # t => task'[s] = task[s]
    BY Turned DEF Sound, Hands
  <1>2. NoMore BY <1>1 DEF NoMore
  <1>3. SeenOnly
    <2>1. CASE lastSeen' = lastSeen BY <2>1 DEF SeenOnly
    <2>2. CASE \E x \in task[t].work : SetLastSeen(x)
      <3>1. PICK x \in task[t].work : SetLastSeen(x) BY <2>2
      <3>2. x \in Shares BY TaskParts DEF Sound, Hands
      <3> QED BY <3>1, <3>2, SetLastSeenFirst DEF SeenOnly
    <2> QED BY <2>1, <2>2
  <1>4. Pending' = Pending BY QueueKept
  <1>5. CatchUp \in Tasks BY TaskNames
  <1>6. CASE t # CatchUp BY <1>1, <1>2, <1>3, <1>4, <1>5, <1>6, AsidePursued
  <1>7. CASE t = CatchUp
    <2>1. todo \subseteq active BY <1>7 DEF Pursued
    <2>2. \A m \in offline : InCatchUp(m) /\ Owed(m)' => InCatchUp(m)'
      BY <1>1, <1>7 DEF InCatchUp
    <2> QED BY <1>1, <1>2, <1>3, <1>4, <1>7, <2>1, <2>2, StepPursued
  <1> QED BY <1>6, <1>7

LEMMA TasksPursued ==
    ASSUME Sound, Pursued, NEW t \in Tasks, Process(t) \/ Deliver(t)
    PROVE  Pursued'
  <1> USE DEF capVars, histVars, procVars, envVars
  <1>0. task[t] \in Task /\ Good(t) BY DEF Sound, Hands
  <1>1. ASSUME NEW x \in task[t].work, BeginSend(t, x) PROVE Pursued'
    <2>1. PICK v \in Task : Turn(t, v) /\ v.at = "sending" /\ v.work = task[t].work
      BY <1>1, BeginTurn
    <2>2. Facing(t, x) BY <1>1 DEF BeginSend
    <2>3. task[t].at \in {"ready", "fetching"} BY <2>2, FacingWork
    <2>4. UNCHANGED <<up, active, conf, published, offline, todo, torn, handled, queue, lastSeen>>
      BY <1>1 DEF BeginSend
    <2> QED BY <2>1, <2>3, <2>4, SendPursued
  <1>2. CASE Reply(t)
    <2> DEFINE v == [task[t] EXCEPT !.at = "resting", !.made = task[t].slot # "none"]
    <2>1. v \in Task /\ v.work = task[t].work /\ v.at = "resting" BY <1>0 DEF Task, TaskStates
    <2>2. Turn(t, v) BY <1>2 DEF Reply, Turn
    <2> HIDE DEF v
    <2>3. task[t].at = "sending" /\ Cur(t) \in task[t].work
      BY <1>2, SendingTask DEF Reply, Sending, Underway
    <2>4. /\ UNCHANGED <<up, active, conf, published, offline, todo, torn, handled, queue>>
          /\ lastSeen' = lastSeen \/ SetLastSeen(Cur(t))
      BY <1>2 DEF Reply
    <2> QED BY <2>1, <2>2, <2>3, <2>4, SendPursued
  <1>3. CASE \E S \in SUBSET {t} : SendError(t, S)
    <2>0. PICK S \in SUBSET {t} : SendError(t, S) BY <1>3
    <2> DEFINE v == [task[t] EXCEPT !.second = TRUE, !.made = S # {} /\ task[t].slot # "none"]
    <2>1. v \in Task /\ v.work = task[t].work /\ v.at = task[t].at BY <1>0 DEF Task
    <2>2. Turn(t, v) BY <2>0 DEF SendError, Turn
    <2> HIDE DEF v
    <2>3. task[t].at = "sending" BY <2>0 DEF SendError, Sending
    <2>4. UNCHANGED <<up, active, conf, published, offline, todo, torn, handled, queue, lastSeen>>
      BY <2>0 DEF SendError
    <2> QED BY <2>1, <2>2, <2>3, <2>4, SendPursued
  <1>4. CASE RestEnd(t) \/ \E S \in SUBSET {t} : GiveUp(t, S)
    <2>1. Ends(t, Cur(t)) /\ Besides(t, Cur(t)) /\ Pending' \subseteq Pending BY <1>4, DoneEnds
    <2>2. handled' = handled \cup {Cur(t)} BY <1>4 DEF RestEnd, GiveUp
    <2> QED BY <2>1, <2>2, EndsPursued
  <1>5. CASE FloodWait(t)
    <2>0. /\ UNCHANGED <<up, active, conf, published, offline, handled, lastSeen>>
          /\ \/ UNCHANGED <<todo, torn>> /\ t # CatchUp
             \/ t = CatchUp /\ torn' = torn \cup Uncaught /\ todo' = {}
      BY <1>5 DEF FloodWait
    <2>1. CASE t = Publisher
      <3>1. /\ Ends(t, Cur(t)) /\ Besides(t, Cur(t)) /\ Pending' \subseteq Pending
        BY <1>5, <2>1, FloodEnds
      <3> QED BY <2>0, <2>1, <3>1, EndsPursued
    <2>2. CASE t # Publisher
      <3>1. Turn(t, Idle) /\ queue' = queue BY <1>5, <2>2 DEF FloodWait, Turn
      <3>2. task'[t] = Idle /\ \A s \in Tasks : s # t => task'[s] = task[s]
        BY <3>1, IdleTask, Turned DEF Sound, Hands
      <3>3. NoMore BY <3>2, IdleTask DEF NoMore
      <3>4. SeenOnly BY <2>0 DEF SeenOnly
      <3>5. Pending' = Pending BY <3>1, QueueKept
      <3>6. CatchUp \in Tasks BY TaskNames
      <3>7. CASE t # CatchUp BY <2>0, <3>2, <3>3, <3>4, <3>5, <3>6, <3>7, AsidePursued
      <3>8. CASE t = CatchUp
        <4>1. task[CatchUp].at = "sending" BY <1>5, <3>8 DEF FloodWait, Sending
        <4>2. \A m \in offline : InCatchUp(m) => FirstRoute \in torn'
          <5>1. ASSUME NEW m \in offline, InCatchUp(m) PROVE FirstRoute \in Uncaught
            <6>1. <<FirstRoute, m>> \in task[CatchUp].work BY <4>1, <5>1 DEF InCatchUp
            <6> QED BY <6>1 DEF Uncaught
          <5> QED BY <2>0, <3>8, <5>1
        <4>3. \A m \in offline : InCatchUp(m) /\ Owed(m)' => InCatchUp(m)' BY <4>2 DEF Owed
        <4> QED BY <2>0, <3>2, <3>3, <3>4, <3>5, <3>8, <4>3, IdleTask, StepPursued
      <3> QED BY <3>7, <3>8
    <2> QED BY <2>1, <2>2
  <1> QED BY <1>1, <1>2, <1>3, <1>4, <1>5, ProcessPursued DEF Process, Deliver

LEMMA CatchUpPursued == ASSUME Sound, Pursued, CatchUpStep PROVE Pursued'
  <1> USE DEF capVars, histVars, fileVars, envVars, procVars
  <1>0. /\ CatchUp \in Tasks /\ task[CatchUp] \in Task /\ Good(CatchUp)
        /\ CatchUp # Publisher /\ task \in [Tasks -> Task]
    BY TaskNames DEF Sound, Hands
  <1>1. /\ UNCHANGED <<up, active, conf, published, offline, queue, lastSeen, handled>>
        /\ torn \subseteq torn' /\ task[CatchUp].at # "off"
        /\ todo' \subseteq todo
    BY DEF CatchUpStep, CatchUpAsk, CatchUpFails, CatchUpFetch, CatchUpEnd, CatchUpFree
  <1>2. Pending' = Pending /\ SeenOnly BY <1>1, QueueKept DEF SeenOnly
  <1>3. todo \subseteq active /\ up = "live" BY <1>1 DEF Pursued, Sound, Hands
  <1>4. ASSUME NEW v \in Task, Turn(CatchUp, v), v.at = "asking" => v.cur[1] \in active,
               \A x \in v.work : x[1] # FirstRoute \/ FirstRoute \in active,
               \A m \in offline : InCatchUp(m) /\ Owed(m)' => <<FirstRoute, m>> \in v.work
        PROVE  Pursued'
    <2>1. task'[CatchUp] = v /\ \A s \in Tasks : s # CatchUp => task'[s] = task[s]
      BY <1>0, <1>4, Turned
    <2>2. NoMore BY <1>3, <1>4, <2>1 DEF NoMore
    <2>3. \A m \in offline : InCatchUp(m) /\ Owed(m)' => InCatchUp(m)'
      BY <1>1, <1>4, <2>1 DEF InCatchUp
    <2> QED BY <1>1, <1>2, <1>3, <1>4, <2>1, <2>2, <2>3, StepPursued
  <1>5. ASSUME CatchUpFree, NEW m PROVE ~InCatchUp(m)
    BY <1>5 DEF CatchUpFree, InCatchUp
  <1>6. CASE CatchUpAsk
    <2>1. todo # {} /\ todo \subseteq Routes BY <1>6 DEF CatchUpAsk, Sound, Course
    <2> DEFINE v == Asking(todo)
    <2>2. /\ v \in Task /\ v.work = {} /\ v.cur = <<Least(todo), lastSeen[Least(todo)]>>
          /\ Least(todo) \in todo
      BY <2>1, AskingTask
    <2>3. Turn(CatchUp, v) /\ CatchUpFree BY <1>6 DEF CatchUpAsk, Turn
    <2> HIDE DEF v
    <2> QED BY <1>3, <1>4, <1>5, <2>2, <2>3
  <1>7. CASE CatchUpFails
    <2> DEFINE v == [Idle EXCEPT !.at = "ready"]
    <2>1. v \in Task /\ v.at = "ready" /\ v.work = {} BY IdleTask DEF Idle, Task, TaskStates
    <2>2. Turn(CatchUp, v) BY <1>7 DEF CatchUpFails, Turn
    <2>3. \A m \in offline : ~(InCatchUp(m) /\ Owed(m)')
      <3> SUFFICES ASSUME NEW m \in offline, InCatchUp(m), Owed(m)' PROVE FALSE OBVIOUS
      <3>1. task[CatchUp].at = "asking" /\ torn' = torn \cup {task[CatchUp].cur[1]}
        BY <1>7 DEF CatchUpFails
      <3>2. task[CatchUp].work = {} BY <1>0, <3>1 DEF Good
      <3>3. task[CatchUp].cur[1] = FirstRoute BY <3>2 DEF InCatchUp
      <3> QED BY <3>1, <3>3 DEF Owed
    <2> HIDE DEF v
    <2> QED BY <1>4, <2>1, <2>2, <2>3
  <1>8. CASE CatchUpFetch
    <2> DEFINE r == task[CatchUp].cur[1]
               last == task[CatchUp].cur[2]
               batch == {r} \X Missed(r, last)
               v == [Idle EXCEPT !.at = "ready", !.work = batch]
    <2>1. r \in Routes /\ task[CatchUp].at = "asking" /\ r \in active
      BY <1>0, <1>8, TaskParts, CellOf DEF CatchUpFetch, Pursued
    <2>2. batch \subseteq Shares /\ \A x \in batch : x[1] = r
      BY <2>1 DEF Missed, OfRoute, Shares, Sound, Course
    <2>3. Turn(CatchUp, v) BY <1>8 DEF CatchUpFetch, Turn
    <2>4. ASSUME NEW m \in offline, InCatchUp(m), Owed(m)' PROVE <<FirstRoute, m>> \in batch
      <3>1. task[CatchUp].work = {} BY <1>0, <2>1 DEF Good
      <3>2. r = FirstRoute /\ m > last BY <2>4, <3>1 DEF InCatchUp
      <3>3. SourceOf[m] = RouteSource[r] /\ Newest(m)
        BY <1>1, <2>4, <3>2 DEF Owed, Newest
      <3>4. m \in published BY DEF Pursued
      <3>5. {n \in OfRoute(r) : n > m} = {n \in published : SourceOf[n] = SourceOf[m] /\ n > m}
        BY <3>3 DEF OfRoute
      <3>6. Cardinality({n \in OfRoute(r) : n > m}) < CatchupLimit BY <3>3, <3>5 DEF Newest
      <3>7. m \in Missed(r, last) BY <3>2, <3>3, <3>4, <3>6 DEF Missed, OfRoute
      <3> QED BY <3>2, <3>7
    <2> HIDE DEF batch
    <2>5. v \in Task /\ v.at = "ready" /\ v.work = batch
      BY <2>2, IdleTask DEF Idle, Task, TaskStates
    <2> HIDE DEF v
    <2>6. \A x \in batch : x[1] # FirstRoute \/ FirstRoute \in active BY <2>1, <2>2
    <2> QED BY <1>4, <2>3, <2>4, <2>5, <2>6
  <1>9. CASE CatchUpEnd
    <2>1. Turn(CatchUp, Idle) /\ CatchUpFree BY <1>9 DEF CatchUpEnd, Turn
    <2> QED BY <1>4, <1>5, <2>1, IdleTask
  <1> QED BY <1>6, <1>7, <1>8, <1>9 DEF CatchUpStep

LEMMA PublisherPursued == ASSUME Sound, Pursued, PublisherStep PROVE Pursued'
  <1> USE DEF capVars, histVars, fileVars, envVars, procVars
  <1>0. /\ Publisher \in Tasks /\ task[Publisher] \in Task /\ CatchUp \in Tasks
        /\ CatchUp # Publisher /\ Good(Publisher) /\ task \in [Tasks -> Task]
    BY TaskNames DEF Sound, Hands
  <1>1. CASE PublisherLose
    <2>1. /\ Ends(Publisher, task[Publisher].cur) /\ Besides(Publisher, task[Publisher].cur)
          /\ Pending' \subseteq Pending
      BY <1>1, LoseEnds
    <2>2. handled' = handled BY <1>1 DEF PublisherLose
    <2> QED BY <2>1, <2>2, EndsPursued
  <1>2. CASE PublisherTick \/ \E x \in task[Publisher].work : PublisherSkip(x) \/ PublisherFetch(x)
    <2>1. /\ UNCHANGED <<up, active, conf, published, offline, todo, queue, lastSeen, handled, torn>>
          /\ task[Publisher].at = "ready"
      BY <1>2 DEF PublisherTick, PublisherSkip, PublisherFetch, Foremost
    <2>2. /\ task'[Publisher].work \subseteq Pending
          /\ \A s \in Tasks : s # Publisher => task'[s] = task[s]
      <3>1. CASE PublisherTick BY <1>0, <3>1 DEF PublisherTick, Task
      <3>2. CASE \E x \in task[Publisher].work : PublisherSkip(x)
        BY <1>0, <3>2 DEF PublisherSkip, Task, Good
      <3>3. CASE \E x \in task[Publisher].work : PublisherFetch(x)
        BY <1>0, <3>3 DEF PublisherFetch, Task, Good
      <3> QED BY <1>2, <3>1, <3>2, <3>3
    <2>3. Pending' = Pending /\ SeenOnly BY <2>1, QueueKept DEF SeenOnly
    <2>4. CASE FirstRoute \notin conf.scheduled
      <3>1. NoMore BY <2>2, <2>4 DEF NoMore, Pursued
      <3> QED BY <1>0, <2>1, <2>2, <2>3, <3>1, AsidePursued
    <2>5. CASE FirstRoute \in conf.scheduled
      BY <1>0, <2>1, <2>2, <2>5 DEF Pursued
    <2> QED BY <2>4, <2>5
  <1> QED BY <1>1, <1>2 DEF PublisherStep

LEMMA DispatchPursued == ASSUME Sound, Pursued, NEW m \in Messages, Dispatch(m) PROVE Pursued'
  <1> USE DEF capVars, histVars, fileVars, procVars
  <1>0. /\ m \in Tasks /\ task[m] \in Task /\ CatchUp \in Tasks /\ CatchUp # m
        /\ task \in [Tasks -> Task]
    BY TaskNames DEF Sound, Hands
  <1>1. /\ UNCHANGED <<up, active, conf, published, offline, todo, queue, lastSeen, handled, torn>>
        /\ up = "live"
    BY DEF Dispatch
  <1>2. /\ task'[m].work = {r \in active : RouteSource[r] = SourceOf[m]} \X {m}
        /\ \A s \in Tasks : s # m => task'[s] = task[s]
    BY <1>0 DEF Dispatch, Task
  <1>3. \A x \in task'[m].work : x[1] \in active BY <1>2
  <1>4. NoMore BY <1>0, <1>1, <1>2, <1>3 DEF NoMore
  <1>5. Pending' = Pending /\ SeenOnly BY <1>1, QueueKept DEF SeenOnly
  <1> QED BY <1>0, <1>1, <1>2, <1>4, <1>5, AsidePursued

(* A new message makes none newer, and comes after all there is.             *)
LEMMA PublishPursued == ASSUME Sound, Pursued, NEW m \in Messages, Publish(m) PROVE Pursued'
  <1> USE DEF procVars, fileVars, capVars
  <1>1. /\ UNCHANGED <<up, active, conf, todo, task, queue, lastSeen, handled, torn>>
        /\ m \notin published /\ published' = published \cup {m}
        /\ \A n \in Messages : n < m => n \in published
        /\ offline' = IF up = "live" THEN offline ELSE offline \cup {m}
    BY DEF Publish
  <1>2. Pending' = Pending BY <1>1, QueueKept
  <1>3. published \subseteq Messages /\ Messages \subseteq Nat /\ m > 0 /\ IsFiniteSet(Messages)
    BY ForwardAssumption DEF Sound, Course
  <1>4. \A k \in published : m > k
    <2> SUFFICES ASSUME NEW k \in published PROVE m > k OBVIOUS
    <2>1. k \in Nat /\ m \in Nat /\ k # m BY <1>1, <1>3
    <2>2. ~(m < k) BY <1>1, <1>3 DEF Pursued
    <2> QED BY <2>1, <2>2
  <1>5. ASSUME NEW k, Newest(k)' PROVE Newest(k)
    <2> DEFINE A == {n \in published : SourceOf[n] = SourceOf[k] /\ n > k}
               B == {n \in published' : SourceOf[n] = SourceOf[k] /\ n > k}
    <2>1. B \subseteq Messages /\ A \subseteq B BY <1>1, <1>3
    <2>2. IsFiniteSet(B) BY <1>3, <2>1, FS_Subset
    <2>3. Cardinality(A) <= Cardinality(B) /\ Cardinality(A) \in Nat /\ Cardinality(B) \in Nat
      BY <2>1, <2>2, FS_Subset, FS_CardinalityType
    <2>4. Cardinality(B) < CatchupLimit BY <1>5 DEF Newest
    <2> HIDE DEF A, B
    <2>5. Cardinality(A) < CatchupLimit BY <2>3, <2>4, ForwardAssumption
    <2> QED BY <2>5 DEF Newest, A
  <1>6. ASSUME NEW k, Owed(k)' PROVE Owed(k) BY <1>1, <1>5, <1>6 DEF Owed
  <1>7. ASSUME NEW k PROVE InCatchUp(k)' = InCatchUp(k) /\ Behind(k)' = Behind(k)
    BY <1>1 DEF InCatchUp, Behind
  <1>8. ASSUME up # "live" PROVE Behind(m)
    <2>1. lastSeen[FirstRoute] \in published \cup {0} BY FirstRouteIs DEF Sound, Known
    <2>2. m > lastSeen[FirstRoute] BY <1>3, <1>4, <2>1
    <2>3. \A t \in Tasks : \A x \in task[t].work : m > x[2]
      BY <1>4 DEF Sound, Hands, Good
    <2> QED BY <1>8, <2>2, <2>3 DEF Behind
  <1>9. \A k \in published', n \in Messages : n < k => n \in published'
    BY <1>1 DEF Pursued
  <1>10. offline' \subseteq published' BY <1>1 DEF Pursued
  <1>11. ASSUME FirstRoute \notin conf.scheduled, NEW k \in offline', Owed(k)'
         PROVE  InCatchUp(k)' \/ Behind(k)'
    <2>1. CASE k \in offline BY <1>6, <1>7, <1>11, <2>1 DEF Pursued
    <2>2. CASE k \notin offline
      <3>1. k = m /\ up # "live" BY <1>1, <1>11, <2>2
      <3> QED BY <1>7, <1>8, <3>1
    <2> QED BY <2>1, <2>2
  <1> QED BY <1>1, <1>2, <1>9, <1>10, <1>11 DEF Pursued

LEMMA ClockPursued ==
    ASSUME Sound, Pursued, NewDay \/ Window \/ \E e \in remembered : Forget(e)
    PROVE  Pursued'
  <1> USE DEF capVars, histVars, procVars, fileVars, envVars
  <1>1. UNCHANGED <<up, active, conf, published, offline, todo, queue, lastSeen, handled, torn>>
    BY DEF NewDay, Window, Forget
  <1>2. ASSUME NEW t \in Tasks
        PROVE  task'[t].work = task[t].work /\ task'[t].at = task[t].at /\ task'[t].cur = task[t].cur
    <2>1. task[t] \in Task BY DEF Sound, Hands
    <2>2. CASE NewDay BY <2>1, <2>2 DEF NewDay, Task
    <2>3. CASE ~NewDay BY <2>3 DEF Window, Forget
    <2> QED BY <2>2, <2>3
  <1>3. CatchUp \in Tasks BY TaskNames
  <1>4. NoMore /\ SeenOnly BY <1>1, <1>2 DEF NoMore, SeenOnly
  <1>5. Pending' = Pending BY <1>1, QueueKept
  <1>6. \A m \in offline : InCatchUp(m) => InCatchUp(m)' BY <1>1, <1>2, <1>3 DEF InCatchUp
  <1>7. /\ task'[CatchUp].at # "off" => todo' \subseteq active
        /\ task'[CatchUp].at = "asking" => task'[CatchUp].cur[1] \in active
    BY <1>1, <1>2, <1>3 DEF Pursued
  <1> QED BY <1>1, <1>4, <1>5, <1>6, <1>7, StepPursued

(* A start asks for the first route first, if it is active at all.           *)
LEMMA StartPursued == ASSUME Sound, Pursued, NEW a \in Actives, Start(a) PROVE Pursued'
  <1> USE DEF capVars, histVars, procVars, fileVars, envVars
  <1>0. a \subseteq Routes /\ a # {} BY ForwardAssumption
  <1>1. /\ Asking(a).at = "asking" /\ Asking(a).work = {} /\ Least(a) \in a
        /\ Asking(a).cur = <<Least(a), lastSeen[Least(a)]>>
        /\ \A r \in a : Least(a) <= r
    BY <1>0, AskingTask
  <1>2. /\ task'[CatchUp] = Asking(a) /\ task'[Publisher].work = {}
        /\ \A t \in Tasks \ {CatchUp, Publisher} : task'[t] = task[t]
    BY StartTasks
  <1>3. /\ UNCHANGED <<conf, published, offline, queue, lastSeen, handled, torn>>
        /\ up # "live" /\ up' = "live" /\ active' = a /\ todo' \subseteq a
    BY DEF Start
  <1>4. Pending' = Pending BY <1>3, QueueKept
  <1>5. ASSUME NEW m \in offline, Owed(m)', FirstRoute \notin conf.scheduled
        PROVE  InCatchUp(m)' \/ Behind(m)'
    <2>1. Owed(m) BY <1>3, <1>5 DEF Owed, Newest
    <2>2. Behind(m) BY <1>3, <1>5, <2>1 DEF Pursued, InCatchUp
    <2>3. CASE FirstRoute \in a
      <3>1. Least(a) = FirstRoute
        <4>1. Least(a) \in Nat /\ FirstRoute \in Nat BY <1>0, <1>1, FirstRouteIs, ForwardAssumption
        <4>2. Least(a) <= FirstRoute /\ FirstRoute <= Least(a) BY <1>0, <1>1, <2>3, FirstRouteIs
        <4> QED BY <4>1, <4>2
      <3> QED BY <1>1, <1>2, <1>3, <2>2, <2>3, <3>1 DEF Behind, InCatchUp
    <2>4. CASE FirstRoute \notin a
      <3>1. \A t \in Tasks : \A x \in task'[t].work : x \in task[t].work BY <1>1, <1>2
      <3> QED BY <1>3, <2>2, <2>4, <3>1 DEF Behind
    <2> QED BY <2>3, <2>4
  <1>6. task'[CatchUp].cur[1] \in active' BY <1>1, <1>2, <1>3
  <1> QED BY <1>3, <1>4, <1>5, <1>6 DEF Pursued

LEMMA StopPursued ==
    ASSUME Sound, Pursued, NEW lost, NEW S, Stop(lost, S) \/ End(S) \/ Kill(S)
    PROVE  Pursued'
  <1>0. CatchUp \in Tasks /\ Publisher \in Tasks /\ CatchUp # Publisher BY TaskNames
  <1>1. /\ UNCHANGED <<conf, published, offline, queue, lastSeen, handled>>
        /\ up' # "live" /\ active' = {}
        /\ \A t \in Tasks : task'[t] = Idle \/ task'[t] = task[t]
    BY <1>0 DEF Stop, End, Kill, Down, Sound, Hands
  <1>2. task'[CatchUp].at = "off"
    BY <1>0, IdleTask DEF Stop, End, Kill, Down, Sound, Hands
  <1>3. Pending' = Pending BY <1>1, QueueKept
  <1>4. ASSUME NEW m \in offline, Owed(m)', InCatchUp(m) PROVE FALSE
    <2>1. CASE Stop(lost, S)
      <3>1. task[CatchUp].at = "off" BY <2>1 DEF Stop
      <3>2. task[CatchUp].work = {} BY <1>0, <3>1 DEF Sound, Hands, Good
      <3> QED BY <1>4, <3>1, <3>2 DEF InCatchUp
    <2>2. CASE End(S) \/ Kill(S)
      <3>1. torn' = torn \cup Uncaught BY <2>2 DEF End, Kill, Down
      <3>2. FirstRoute \in Uncaught
        <4>1. CASE <<FirstRoute, m>> \in task[CatchUp].work BY <4>1 DEF Uncaught
        <4>2. CASE <<FirstRoute, m>> \notin task[CatchUp].work
          BY <1>4, <4>2 DEF InCatchUp, Uncaught
        <4> QED BY <4>1, <4>2
      <3> QED BY <1>4, <3>1, <3>2 DEF Owed
    <2> QED BY <2>1, <2>2
  <1>5. torn \subseteq torn' BY DEF Stop, End, Kill, Down
  <1>6. ASSUME NEW m \in offline, Owed(m)', FirstRoute \notin conf.scheduled PROVE Behind(m)'
    <2>1. Owed(m) BY <1>1, <1>5, <1>6 DEF Owed, Newest
    <2>2. Behind(m) BY <1>4, <1>6, <2>1 DEF Pursued
    <2> QED BY <1>1, <2>2, IdleTask DEF Behind
  <1> QED BY <1>1, <1>2, <1>3, <1>6 DEF Pursued

LEMMA InitPursued == ASSUME Init PROVE Pursued
  <1>1. Pending = {} /\ published = {} /\ offline = {} BY DEF Init, Pending
  <1>2. task[CatchUp].at = "off" BY IdleTask, TaskNames DEF Init
  <1> QED BY <1>1, <1>2 DEF Pursued

LEMMA PursuedNext == ASSUME Sound, Pursued, [Next]_vars PROVE Pursued'
  <1>1. CASE Next
    <2>1. CASE \E m \in Messages : Publish(m) \/ Dispatch(m)
      BY <2>1, PublishPursued, DispatchPursued
    <2>2. CASE NewDay \/ Window \/ \E e \in remembered : Forget(e) BY <2>2, ClockPursued
    <2>3. CASE \E a \in Actives : Start(a) BY <2>3, StartPursued
    <2>4. CASE \E S \in SUBSET Sending :
                 (\E lost \in SUBSET inbox : Stop(lost, S)) \/ End(S) \/ Kill(S)
      BY <2>4, StopPursued
    <2>5. CASE CatchUpStep BY <2>5, CatchUpPursued
    <2>6. CASE PublisherStep BY <2>6, PublisherPursued
    <2>7. CASE \E t \in Tasks : Process(t) \/ Deliver(t) BY <2>7, TasksPursued
    <2> QED BY <1>1, <2>1, <2>2, <2>3, <2>4, <2>5, <2>6, <2>7 DEF Next
  <1>2. CASE UNCHANGED vars
    <2>1. UNCHANGED <<up, active, conf, todo, task, queue, lastSeen, published, handled, offline, torn>>
      BY <1>2 DEF vars, fileVars, envVars, histVars, procVars
    <2>2. Pending' = Pending BY <2>1, QueueKept
    <2> QED BY <2>1, <2>2 DEF Pursued, Owed, Newest, InCatchUp, Behind
  <1> QED BY <1>1, <1>2

LEMMA AlwaysPursued == Spec => []Pursued
  <1>1. Init => Pursued BY InitPursued
  <1>2. Sound /\ Pursued /\ [Next]_vars => Pursued' BY PursuedNext
  <1> QED BY <1>1, <1>2, AlwaysSound, PTL DEF Spec

(* Once start() has returned, the first route has nothing left of what came  *)
(* while the module was off, for any number of routes, messages, restarts    *)
(* and handlers that deliver newer messages meanwhile (catchup.py).          *)
THEOREM FirstCaughtUp == Spec => []FirstComplete
  <1>1. Sound /\ Pursued => FirstComplete
    <2> SUFFICES ASSUME Sound, Pursued, FirstRoute \notin conf.scheduled, CaughtUp,
                        FirstRoute \in active \ torn, NEW m \in offline,
                        SourceOf[m] = RouteSource[FirstRoute], Newest(m),
                        <<FirstRoute, m>> \notin handled
                 PROVE  FALSE
      BY DEF FirstComplete, Complete, FirstRoute
    <2>1. Owed(m) BY DEF Owed
    <2>2. task[CatchUp].work = {} /\ task[CatchUp].at = "off"
      BY TaskNames DEF CaughtUp, Sound, Hands, Good
    <2> QED BY <2>1, <2>2 DEF Pursued, InCatchUp, Behind, CaughtUp
  <1> QED BY <1>1, AlwaysSound, AlwaysPursued, PTL
=============================================================================
