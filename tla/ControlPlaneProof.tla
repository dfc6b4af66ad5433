-------------------------- MODULE ControlPlaneProof --------------------------
(***************************************************************************)
(* Proofs about ControlPlane, for any admins, sources, commands and bounds:*)
(* a remote command runs at most once more than its acknowledgement was    *)
(* lost, and no source ever has two routes; what is loaded has started, no *)
(* second instance is left behind, what runs is what is saved, and a       *)
(* command that was checked leaves the routes of other admins alone.       *)
(*                                                                         *)
(* The runtime takes no lock, so the argument of the second part is about  *)
(* hands: every instance that is starting or stopping is held by the one   *)
(* task that awaits it (Held).  Calm and Fed build on that, for the        *)
(* modules whose starts and stops have not overlapped.  Effects sorts the  *)
(* steps of the process by what they do to the runtime, and each           *)
(* invariant is shown for each of these kinds.                             *)
(***************************************************************************)
EXTENDS ControlPlane, FiniteSetTheorems, TLAPS

----------------------------------------------------------------------------
(* What a step of one actor leaves of the tasks of the others *)

IsTask(t) == DOMAIN t = {"pc", "act", "mod", "src", "snap", "i"}
Tasks == task = [a \in Actors |-> task[a]] /\ \A a \in Actors : IsTask(task[a])

\* The task of a alone changes; it goes on with something else than a check
Only(a) == Tasks' /\ \A b \in Actors \ {a} : task'[b] = task[b]
Ends(a) == Only(a) /\ task'[a].pc # "checking"

(* Finishing and awaiting, the two ways a command of the runtime leaves its  *)
(* actor, touch no other task (runtime.py:59-90).                            *)
LEMMA FinishEnds ==
    ASSUME Tasks, NEW a \in Actors, Finish(a)
    PROVE  Ends(a)
  <1>1. CASE a = Poller
    <2>1. task' = [task EXCEPT ![a] = [task[a] EXCEPT !.pc = "report"]]
      BY <1>1 DEF Finish, Over
    <2> QED BY <2>1 DEF Tasks, IsTask, Only, Ends
  <1>2. CASE a # Poller
    <2>1. task' = [task EXCEPT ![a] = Idle]
      BY <1>2 DEF Finish, Over
    <2> QED BY <2>1 DEF Tasks, IsTask, Only, Ends, Idle
  <1> QED BY <1>1, <1>2

LEMMA AwaitEnds ==
    ASSUME Tasks, NEW a \in Actors, NEW pc \in Awaiting, NEW m, NEW i, Await(a, pc, m, i)
    PROVE  Ends(a)
  <1> DEFINE t == [task[a] EXCEPT !.pc = pc, !.mod = m, !.i = i, !.snap = {}]
  <1>1. task' = [task EXCEPT ![a] = t]
    BY DEF Await
  <1>2. IsTask(t) /\ t.pc = pc
    <2>1. IsTask(task[a]) BY DEF Tasks
    <2> QED BY <2>1 DEF IsTask
  <1>3. t.pc # "checking"
    BY <1>2 DEF Awaiting
  <1> HIDE DEF t
  <1> QED BY <1>1, <1>2, <1>3 DEF Tasks, Only, Ends

LEMMA CreateEnds ==
    ASSUME Tasks, NEW a \in Actors, NEW m, NEW rs, NEW is, Create(a, m, rs, is)
    PROVE  Ends(a)
  <1>1. Await(a, "starting", m, Fresh) BY DEF Create
  <1> QED BY <1>1, AwaitEnds DEF Awaiting

LEMMA StartEnds ==
    ASSUME Tasks, NEW a \in Actors, NEW m, NEW rs, StartModule(a, m, rs)
    PROVE  Ends(a)
  <1>1. CASE Pop(a, m, "restarting")
    <2>1. Await(a, "restarting", m, loaded[m]) BY <1>1 DEF Pop
    <2> QED BY <2>1, AwaitEnds DEF Awaiting
  <1>2. CASE Create(a, m, rs, inst)
    BY <1>2, CreateEnds
  <1> QED BY <1>1, <1>2 DEF StartModule

LEMMA StopEnds ==
    ASSUME Tasks, NEW a \in Actors, NEW m, StopModule(a, m)
    PROVE  Ends(a)
  <1>1. CASE Pop(a, m, "stopping")
    <2>1. Await(a, "stopping", m, loaded[m]) BY <1>1 DEF Pop
    <2> QED BY <2>1, AwaitEnds DEF Awaiting
  <1>2. CASE Finish(a)
    BY <1>2, FinishEnds
  <1> QED BY <1>1, <1>2 DEF StopModule

(* The operations of ModuleRuntime as the commands call them.                *)
LEMMA PatchEnds ==
    ASSUME Tasks, NEW a \in Actors, NEW m, NEW c, NEW reload, Patch(a, m, c, reload)
    PROVE  Ends(a)
  BY StartEnds, FinishEnds DEF Patch

LEMMA SetEnabledEnds ==
    ASSUME Tasks, NEW a \in Actors, NEW m, NEW b, SetEnabled(a, m, b)
    PROVE  Ends(a)
  BY StartEnds, StopEnds, FinishEnds DEF SetEnabled

LEMMA ReloadEnds ==
    ASSUME Tasks, NEW a \in Actors, NEW m, ReloadModule(a, m)
    PROVE  Ends(a)
  BY StartEnds, FinishEnds DEF ReloadModule

LEMMA HandleEnds ==
    ASSUME Tasks, NEW k, Handle(k)
    PROVE  Ends(Poller)
  <1>1. Poller \in Actors BY DEF Actors
  <1> QED BY <1>1, PatchEnds, SetEnabledEnds, ReloadEnds, FinishEnds DEF Handle, TogglePause

(* A chat command leaves the other tasks and the remote commands alone.      *)
NoRemote == UNCHANGED <<inbox, doing, bridge, runs, missed>>

LEMMA CheckOnly ==
    ASSUME Tasks, NEW a \in Actors, NEW act, NEW s, Check(a, act, s)
    PROVE  Only(a) /\ NoRemote /\ conf' = conf /\ overlay' = overlay
           /\ task'[a].snap = conf.routes /\ task'[a].act = act /\ task'[a].src = s
  <1> DEFINE t == [Idle EXCEPT !.pc = "checking", !.act = act, !.src = s, !.snap = conf.routes]
  <1>1. task' = [task EXCEPT ![a] = t]
    BY DEF Check
  <1>2. IsTask(t) /\ t.snap = conf.routes /\ t.act = act /\ t.src = s
    BY DEF IsTask, Idle
  <1>3. NoRemote /\ conf' = conf /\ overlay' = overlay
    BY DEF Check, Asks, NotChat, NoRemote
  <1> HIDE DEF t
  <1>4. Only(a) /\ task'[a] = t
    BY <1>1, <1>2 DEF Tasks, Only
  <1> QED BY <1>2, <1>3, <1>4

LEMMA ChatOnly ==
    ASSUME Tasks, NEW a \in Admins, Chat(a)
    PROVE  Only(a) /\ NoRemote
  <1>1. a \in Actors BY DEF Actors
  <1>2. CASE \E s \in Sources : AskAdd(a, s) \/ AskChange(a, s) \/ AskRemove(a, s)
    BY <1>1, <1>2, CheckOnly DEF AskAdd, AskChange, AskRemove
  <1>3. CASE \E s \in Sources : ChangeNow(a, s) \/ Import(a, s)
    <2>1. NoRemote BY <1>3 DEF ChangeNow, Import, Asks, NotChat, NoRemote
    <2>2. \E c : Patch(a, Forward, c, TRUE)
      BY <1>3 DEF ChangeNow, Import
    <2> QED BY <1>1, <2>1, <2>2, PatchEnds DEF Ends
  <1>4. CASE CheckFails(a)
    BY <1>1, <1>4, FinishEnds DEF CheckFails, NotChat, NoRemote, Ends
  <1>5. CASE SaveAdd(a) \/ SaveChange(a) \/ SaveRemove(a)
    <2>1. NoRemote BY <1>5 DEF SaveAdd, SaveChange, SaveRemove, NotChat, NoRemote
    <2>2. \E c : Patch(a, Forward, c, TRUE)
      BY <1>5 DEF SaveAdd, SaveChange, SaveRemove
    <2> QED BY <1>1, <2>1, <2>2, PatchEnds DEF Ends
  <1>6. CASE \E m \in Modules : ChatModule(a, m)
    <2>1. NoRemote BY <1>6 DEF ChatModule, Asks, NotChat, NoRemote
    <2> QED BY <1>1, <1>6, <2>1, SetEnabledEnds, ReloadEnds DEF ChatModule, Ends
  <1> QED BY <1>2, <1>3, <1>4, <1>5, <1>6 DEF Chat

(* So do the answers that a start or a stop gets.                            *)
LEMMA RuntimeEnds ==
    ASSUME Tasks, NEW a \in Actors, Runtime(a)
    PROVE  Ends(a) /\ NoRemote /\ task[a].pc # "idle" /\ conf' = conf /\ overlay' = overlay
  <1>1. CASE \E raised \in BOOLEAN : StopReturns(a, raised)
    <2>1. (\E m, rs, is : Create(a, m, rs, is)) \/ Finish(a)
      BY <1>1 DEF StopReturns
    <2>2. NoRemote /\ task[a].pc # "idle" /\ conf' = conf /\ overlay' = overlay
      BY <1>1 DEF StopReturns, NoRemote
    <2> QED BY <2>1, <2>2, CreateEnds, FinishEnds
  <1>2. CASE StartReturns(a) \/ \E left \in BOOLEAN : StartRaises(a, left)
    <2>1. Finish(a)
      BY <1>2 DEF StartReturns, StartRaises
    <2>2. NoRemote /\ task[a].pc # "idle" /\ conf' = conf /\ overlay' = overlay
      BY <1>2 DEF StartReturns, StartRaises, NoRemote
    <2> QED BY <2>1, <2>2, FinishEnds
  <1> QED BY <1>1, <1>2 DEF Runtime

(* And the loader.                                                           *)
LEMMA LoaderEnds ==
    ASSUME Tasks, LoadNext \/ LoadReturns \/ (\E left \in BOOLEAN : LoadRaises(left)) \/ Bind
    PROVE  /\ NoRemote /\ conf' = conf /\ overlay' = overlay
           /\ Tasks' /\ \A b \in Actors : task'[b] = task[b] \/ b = Loader
           /\ task'[Loader].pc # "checking" \/ task' = task
  <1>1. NoRemote /\ conf' = conf /\ overlay' = overlay
    BY DEF LoadNext, LoadReturns, LoadRaises, Bind, NotLoad, NoRemote
  <1>2. (\E m, rs, is : Create(Loader, m, rs, is)) \/ Finish(Loader) \/ task' = task
    BY DEF LoadNext, LoadReturns, LoadRaises, Bind
  <1>3. Ends(Loader) \/ task' = task
    BY <1>2, CreateEnds, FinishEnds DEF Actors
  <1> QED BY <1>1, <1>3 DEF Ends, Only, Tasks

LEMMA EmptyTasks ==
    ASSUME Empty
    PROVE  Tasks' /\ inbox' = {} /\ \A a \in Actors : task'[a] = Idle
  <1>1. task' = [a \in Actors |-> Idle] /\ inbox' = {} BY DEF Empty
  <1>2. IsTask(Idle) BY DEF IsTask, Idle
  <1> QED BY <1>1, <1>2 DEF Tasks

----------------------------------------------------------------------------
(* Remote commands *)

Status == {"none", "pending", "acked", "done", "failed"}

\* A command that the bridge may still hand out has run only as often as its
\* acknowledgement was lost; the commands in the batch are such, and the one
\* in hand is not in the batch any more
OnceInv ==
    /\ bridge \in [Commands -> [st : Status, ask : Requests]]
    /\ runs \in [Commands -> Nat] /\ missed \in [Commands -> Nat]
    /\ inbox \subseteq Commands
    /\ \A c \in Commands : runs[c] <= 1 + missed[c]
    /\ \A c \in Commands : bridge[c].st \in {"none", "pending"} => runs[c] <= missed[c]
    /\ \A c \in inbox : bridge[c].st = "pending"
    /\ task[Poller].pc # "idle" => doing.c \notin inbox

LEMMA PollerIsNobody ==
    Poller \notin Admins /\ Poller # Loader /\ Poller \in Actors
  BY ControlAssumption DEF Poller, Loader, Actors

(* Nothing that keeps the commands and does not wake the poller disturbs it. *)
LEMMA OnceQuiet ==
    ASSUME OnceInv, NoRemote, task[Poller].pc = "idle" => task'[Poller].pc = "idle"
    PROVE  OnceInv'
  BY DEF OnceInv, NoRemote

LEMMA OnceEnqueue ==
    ASSUME OnceInv, Tasks, NEW c \in Commands, NEW k \in Asked, Enqueue(c, k)
    PROVE  OnceInv' /\ Tasks'
  <1>1. /\ bridge[c].st = "none"
        /\ bridge' = [bridge EXCEPT ![c] = [st |-> "pending", ask |-> k]]
        /\ UNCHANGED <<task, inbox, doing, runs, missed>>
    BY DEF Enqueue, memory
  <1>2. k \in Requests BY ControlAssumption
  <1>3. bridge' \in [Commands -> [st : Status, ask : Requests]]
    BY <1>1, <1>2 DEF OnceInv, Status
  <1>4. \A d \in Commands : bridge'[d].st = IF d = c THEN "pending" ELSE bridge[d].st
    BY <1>1 DEF OnceInv
  <1> QED BY <1>1, <1>3, <1>4 DEF OnceInv, Tasks

LEMMA OncePoll ==
    ASSUME OnceInv, Tasks, Poll
    PROVE  OnceInv' /\ Tasks'
  BY DEF OnceInv, Tasks, Poll

LEMMA OnceDispatch ==
    ASSUME OnceInv, Tasks, NEW c \in Commands, NEW heard \in BOOLEAN, Dispatch(c, heard)
    PROVE  OnceInv' /\ Tasks'
  <1>1. /\ c \in inbox /\ inbox' = inbox \ {c} /\ doing'.c = c
        /\ runs' = [runs EXCEPT ![c] = @ + 1]
        /\ Acknowledge(c, heard) /\ Handle(bridge[c].ask)
    BY DEF Dispatch
  <1>2. Tasks'
    BY <1>1, HandleEnds DEF Ends, Only
  <1>3. bridge[c].st = "pending" /\ runs[c] <= missed[c]
    BY <1>1 DEF OnceInv
  <1>4. bridge' \in [Commands -> [st : Status, ask : Requests]]
    BY <1>1 DEF OnceInv, Acknowledge, Status
  <1>5. \A d \in Commands : bridge'[d].st = IF d = c /\ heard THEN "acked" ELSE bridge[d].st
    BY <1>1 DEF OnceInv, Acknowledge
  <1>6. /\ runs' \in [Commands -> Nat] /\ missed' \in [Commands -> Nat]
        /\ runs'[c] = runs[c] + 1
        /\ missed'[c] = IF heard THEN missed[c] ELSE missed[c] + 1
        /\ \A d \in Commands \ {c} : runs'[d] = runs[d] /\ missed'[d] = missed[d]
    BY <1>1 DEF OnceInv, Acknowledge
  <1>7. \A d \in Commands :
          /\ runs'[d] <= 1 + missed'[d]
          /\ bridge'[d].st \in {"none", "pending"} => runs'[d] <= missed'[d]
    <2> SUFFICES ASSUME NEW d \in Commands
                 PROVE  /\ runs'[d] <= 1 + missed'[d]
                        /\ bridge'[d].st \in {"none", "pending"} => runs'[d] <= missed'[d]
      OBVIOUS
    <2>1. CASE d = c
      BY <1>3, <1>5, <1>6, <2>1 DEF OnceInv
    <2>2. CASE d # c
      BY <1>5, <1>6, <2>2 DEF OnceInv
    <2> QED BY <2>1, <2>2
  <1>8. inbox' \subseteq Commands /\ \A d \in inbox' : bridge'[d].st = "pending"
    BY <1>1, <1>5 DEF OnceInv
  <1> QED BY <1>1, <1>2, <1>4, <1>6, <1>7, <1>8 DEF OnceInv

LEMMA OnceReport ==
    ASSUME OnceInv, Tasks, NEW heard \in BOOLEAN, Report(heard)
    PROVE  OnceInv' /\ Tasks'
  <1>1. /\ task[Poller].pc = "report" /\ task' = [task EXCEPT ![Poller] = Idle]
        /\ UNCHANGED <<inbox, runs, missed>>
    BY DEF Report
  <1>2. \E s \in {"done", "failed"} :
          bridge' = IF heard THEN [bridge EXCEPT ![doing.c].st = s] ELSE bridge
    BY DEF Report
  <1>3. bridge' \in [Commands -> [st : Status, ask : Requests]]
    <2>1. PICK s \in {"done", "failed"} :
            bridge' = IF heard THEN [bridge EXCEPT ![doing.c].st = s] ELSE bridge
      BY <1>2
    <2>2. s \in Status BY DEF Status
    <2>3. bridge \in [Commands -> [st : Status, ask : Requests]] BY DEF OnceInv
    <2>4. [bridge EXCEPT ![doing.c].st = s] \in [Commands -> [st : Status, ask : Requests]]
      BY <2>2, <2>3
    <2> QED BY <2>1, <2>3, <2>4
  <1>4. \A d \in Commands : bridge'[d].st = bridge[d].st
                            \/ (d = doing.c /\ bridge'[d].st \in {"done", "failed"})
    BY <1>2 DEF OnceInv
  <1>5. doing.c \notin inbox BY <1>1 DEF OnceInv
  <1>6. Tasks' /\ task'[Poller].pc = "idle"
    <2>1. IsTask(Idle) /\ Idle.pc = "idle" BY DEF IsTask, Idle
    <2> QED BY <1>1, <2>1, PollerIsNobody DEF Tasks
  <1> QED BY <1>1, <1>3, <1>4, <1>5, <1>6 DEF OnceInv

LEMMA OnceInit == Init => OnceInv /\ Tasks
  <1> SUFFICES ASSUME Init PROVE OnceInv /\ Tasks
    OBVIOUS
  <1>1. /\ bridge = [c \in Commands |-> [st |-> "none", ask |-> NoRequest]]
        /\ runs = [c \in Commands |-> 0] /\ missed = [c \in Commands |-> 0]
        /\ inbox = {} /\ task = [a \in Actors |-> Idle]
    BY DEF Init
  <1>2. NoRequest \in Requests BY DEF NoRequest, Requests, Modules
  <1>3. bridge \in [Commands -> [st : Status, ask : Requests]]
    BY <1>1, <1>2 DEF Status
  <1>4. Tasks BY <1>1 DEF Tasks, IsTask, Idle
  <1> QED BY <1>1, <1>3, <1>4 DEF OnceInv

(* The poller is woken by Dispatch alone, and whatever else happens keeps    *)
(* the commands as they are or ends the process with its batch.              *)
LEMMA OnceStep ==
    ASSUME OnceInv, Tasks, [Next]_vars
    PROVE  OnceInv' /\ Tasks'
  <1>1. ASSUME NEW a \in Admins, Chat(a) PROVE OnceInv' /\ Tasks'
    <2>1. Only(a) /\ NoRemote BY <1>1, ChatOnly
    <2>2. task'[Poller] = task[Poller] BY <2>1, PollerIsNobody DEF Only
    <2> QED BY <2>1, <2>2, OnceQuiet DEF Only
  <1>2. ASSUME NEW a \in Actors, Runtime(a) PROVE OnceInv' /\ Tasks'
    <2>1. Ends(a) /\ NoRemote /\ task[a].pc # "idle" BY <1>2, RuntimeEnds
    <2>2. task[Poller].pc = "idle" => task'[Poller].pc = "idle"
      BY <2>1, PollerIsNobody DEF Ends, Only
    <2> QED BY <2>1, <2>2, OnceQuiet DEF Ends, Only
  <1>3. CASE Remote
    BY <1>3, OnceEnqueue, OncePoll, OnceDispatch, OnceReport DEF Remote
  <1>4. CASE LoadNext \/ LoadReturns \/ (\E left \in BOOLEAN : LoadRaises(left)) \/ Bind
    <2>1. NoRemote /\ Tasks' /\ task'[Poller] = task[Poller]
      BY <1>4, LoaderEnds, PollerIsNobody
    <2> QED BY <2>1, OnceQuiet
  <1>5. CASE Boot \/ Leave
    <2>1. Empty /\ UNCHANGED <<bridge, runs, missed>> BY <1>5 DEF Boot, Leave
    <2>2. Tasks' /\ inbox' = {} BY <2>1, EmptyTasks
    <2> QED BY <2>1, <2>2 DEF OnceInv
  <1>6. CASE UNCHANGED vars
    BY <1>6 DEF vars, memory, OnceInv, Tasks
  <1> QED BY <1>1, <1>2, <1>3, <1>4, <1>5, <1>6 DEF Next, Life

(* A remote command runs once, and again only as often as the bridge missed  *)
(* its acknowledgement, over any number of restarts of the poller            *)
(* (command_poller.py:118).                                                  *)
THEOREM RunsOnce == Spec => []AtMostOnce
  <1>1. OnceInv /\ Tasks => AtMostOnce
    BY DEF OnceInv, AtMostOnce
  <1>2. (OnceInv /\ Tasks) /\ [Next]_vars => (OnceInv /\ Tasks)'
    BY OnceStep
  <1> QED BY <1>1, <1>2, OnceInit, PTL DEF Spec

----------------------------------------------------------------------------
(* Routes *)

Single(routes) == \A r1, r2 \in routes : r1.src = r2.src => r1 = r2

\* The files of the repository have no source twice
SoundFiles ==
    Single(RepoConfig.routes) /\ (ProfileRoutes # NoFile => Single(ProfileRoutes))

\* No source but those of D has two routes
Apart(routes, D) ==
    SoundFiles => \A r1, r2 \in routes : r1.src = r2.src => r1 = r2 \/ r1.src \in D
Sound(c, D) == c \in Config /\ Apart(c.routes, D)

LEMMA FilesSound == ASSUME NEW D PROVE Sound(RepoConfig, D)
  BY ControlAssumption DEF Sound, Apart, SoundFiles, Single

LEMMA SoundMore ==
    ASSUME NEW c, NEW D, NEW E, Sound(c, D), D \subseteq E
    PROVE  Sound(c, E)
  BY DEF Sound, Apart

\* What a checking command will save has one route for each source, and its own
\* source is not among them
Snapped(a) ==
    task[a].pc = "checking" =>
      /\ task[a].snap \subseteq Route /\ Apart(task[a].snap, doubled) /\ task[a].src \in Sources
      /\ task[a].act = "add" => ~Known(task[a].snap, task[a].src)
RoutesInv ==
    /\ Sound(conf, doubled)
    /\ overlay # NoFile => Sound(overlay, doubled)
    /\ \A a \in Actors : Snapped(a)

(* The changes a command makes to a list of routes keep its sources apart.   *)
LEMMA AddedSound ==
    ASSUME Sound(conf, doubled), NEW rs \in SUBSET Route, Apart(rs, doubled), NEW s \in Sources, ~Known(rs, s),
           NEW a \in Admins
    PROVE  Sound(Added(rs, s, a), doubled)
  <1> DEFINE new == NewRoute(s, a)
  <1>1. new \in Route /\ new.src = s BY DEF NewRoute, Route
  <1>2. Apart(rs \cup {new}, doubled) BY <1>1 DEF Apart, Known
  <1>3. Added(rs, s, a).routes = rs \cup {new} /\ Added(rs, s, a) \in Config
    BY <1>1 DEF Added, Switched, WithRoutes, Sound, Config, Modules
  <1> QED BY <1>2, <1>3 DEF Sound

LEMMA ReplacedSound ==
    ASSUME Sound(conf, doubled), NEW rs \in SUBSET Route, Apart(rs, doubled), NEW r \in rs,
           NEW new \in Route, new.src = r.src
    PROVE  Sound(WithRoutes(Replace(rs, r, new)), doubled)
  <1>1. Replace(rs, r, new) \in SUBSET Route /\ Apart(Replace(rs, r, new), doubled)
    BY DEF Replace, Apart
  <1> HIDE DEF Replace
  <1>2. /\ WithRoutes(Replace(rs, r, new)).routes = Replace(rs, r, new)
        /\ WithRoutes(Replace(rs, r, new)) \in Config
    BY <1>1 DEF WithRoutes, Sound, Config
  <1> QED BY <1>1, <1>2 DEF Sound

LEMMA RemovedSound ==
    ASSUME Sound(conf, doubled), NEW rs \in SUBSET Route, Apart(rs, doubled), NEW r
    PROVE  Sound(WithRoutes(rs \ {r}), doubled)
  BY DEF Sound, WithRoutes, Config, Apart

LEMMA SwitchedSound ==
    ASSUME Sound(conf, doubled), NEW m, NEW b \in BOOLEAN
    PROVE  Sound(Switched(conf, m, b), doubled)
  BY DEF Sound, Switched, Config

\* The configuration is left alone, or a sound one is taken and written
Saves == (conf' = conf /\ overlay' = overlay) \/ (overlay' = conf' /\ Sound(conf', doubled'))

LEMMA PatchSaves ==
    ASSUME NEW a, NEW m, NEW c, NEW reload, Sound(c, doubled'), Patch(a, m, c, reload)
    PROVE  Saves
  BY DEF Patch, Persist, Saves

LEMMA SwitchSaves ==
    ASSUME Sound(conf, doubled), doubled \subseteq doubled', NEW a, NEW m, NEW b \in BOOLEAN,
           SetEnabled(a, m, b) \/ ReloadModule(a, m)
    PROVE  Saves
  <1>1. CASE conf' = conf /\ overlay' = overlay
    BY <1>1 DEF Saves
  <1>2. CASE Persist(Switched(conf, m, b))
    BY <1>2, SwitchedSound, SoundMore DEF Persist, Saves
  <1> QED BY <1>1, <1>2 DEF SetEnabled, ReloadModule

(* A step that saves a sound configuration and ends with its command, or     *)
(* goes on to something else than a check, keeps the invariant.              *)
LEMMA RoutesKept ==
    ASSUME RoutesInv, NEW a \in Actors, Ends(a), Saves, doubled \subseteq doubled'
    PROVE  RoutesInv'
  <1>1. Sound(conf', doubled') /\ (overlay' # NoFile => Sound(overlay', doubled'))
    BY SoundMore DEF RoutesInv, Saves
  <1>2. ASSUME NEW b \in Actors, task'[b] = task[b] PROVE Snapped(b)'
    <2>1. Apart(task[b].snap, doubled) => Apart(task[b].snap, doubled') BY DEF Apart
    <2> QED BY <1>2, <2>1 DEF RoutesInv, Snapped
  <1>3. \A b \in Actors : Snapped(b)'
    BY <1>2 DEF Ends, Only, Snapped
  <1> QED BY <1>1, <1>3 DEF RoutesInv

(* The commands that save at once.                                           *)
LEMMA ChangeNowSaves ==
    ASSUME RoutesInv, NEW a \in Admins, NEW s \in Sources, ChangeNow(a, s) \/ Import(a, s)
    PROVE  doubled' = doubled /\ Saves /\ \E c : Patch(a, Forward, c, TRUE)
  <1>0. doubled' = doubled BY DEF ChangeNow, Import, Asks, NotChat
  <1>1. Sound(conf, doubled) /\ conf.routes \in SUBSET Route /\ Apart(conf.routes, doubled)
    BY DEF RoutesInv, Sound, Config
  <1>2. CASE ChangeNow(a, s)
    <2>1. PICK r \in Editable(conf.routes, s, a) :
            \E new \in {Changed(r, a)} \cup {Shown(r, a, p) : p \in BOOLEAN}
                      \cup {Paused(r, p) : p \in BOOLEAN}
                      \cup (IF r.owner = NoOne THEN {Claimed(r, a)} ELSE {}) :
              Patch(a, Forward, WithRoutes(Replace(conf.routes, r, new)), TRUE)
      BY <1>2 DEF ChangeNow
    <2>2. PICK new \in {Changed(r, a)} \cup {Shown(r, a, p) : p \in BOOLEAN}
                      \cup {Paused(r, p) : p \in BOOLEAN}
                      \cup (IF r.owner = NoOne THEN {Claimed(r, a)} ELSE {}) :
            Patch(a, Forward, WithRoutes(Replace(conf.routes, r, new)), TRUE)
      BY <2>1
    <2>3. r \in conf.routes /\ r \in Route BY <1>1 DEF Editable
    <2>4. new \in Route /\ new.src = r.src
      BY <2>2, <2>3 DEF Changed, Shown, Paused, Claimed, Route
    <2> QED BY <1>0, <1>1, <2>2, <2>3, <2>4, ReplacedSound, PatchSaves
  <1>3. CASE Import(a, s)
    <2>1. ~Known(conf.routes, s) /\ Patch(a, Forward, Added(conf.routes, s, a), TRUE)
      BY <1>3 DEF Import
    <2> QED BY <1>0, <1>1, <2>1, AddedSound, PatchSaves
  <1> QED BY <1>2, <1>3

(* The commands that save what they took before a check.                     *)
LEMMA CheckedSaves ==
    ASSUME RoutesInv, NEW a \in Admins, SaveAdd(a) \/ SaveChange(a) \/ SaveRemove(a)
    PROVE  doubled' = doubled /\ Saves /\ \E c : Patch(a, Forward, c, TRUE)
  <1> DEFINE rs == task[a].snap
             s == task[a].src
  <1>0. doubled' = doubled BY DEF SaveAdd, SaveChange, SaveRemove, NotChat
  <1>1. Sound(conf, doubled) /\ rs \in SUBSET Route /\ Apart(rs, doubled) /\ s \in Sources
    <2>1. a \in Actors BY DEF Actors
    <2>2. task[a].pc = "checking" BY DEF SaveAdd, SaveChange, SaveRemove
    <2> QED BY <2>1, <2>2 DEF RoutesInv, Snapped
  <1>2. CASE SaveAdd(a)
    <2>1. Patch(a, Forward, Added(rs, s, a), TRUE) /\ ~Known(rs, s)
      BY <1>2 DEF SaveAdd, RoutesInv, Snapped, Actors
    <2> HIDE DEF rs, s
    <2> QED BY <1>0, <1>1, <2>1, AddedSound, PatchSaves
  <1>3. CASE SaveChange(a)
    <2>1. PICK r \in Editable(rs, s, a) :
            Patch(a, Forward, WithRoutes(Replace(rs, r, Changed(r, a))), TRUE)
      BY <1>3 DEF SaveChange
    <2> HIDE DEF rs, s
    <2>2. r \in rs /\ r \in Route BY <1>1, <2>1 DEF Editable
    <2>3. Changed(r, a) \in Route /\ Changed(r, a).src = r.src
      BY <2>2 DEF Changed, Route
    <2> QED BY <1>0, <1>1, <2>1, <2>2, <2>3, ReplacedSound, PatchSaves
  <1>4. CASE SaveRemove(a)
    <2>1. PICK r : Patch(a, Forward, WithRoutes(rs \ {r}), TRUE)
      BY <1>4, Zenon DEF SaveRemove
    <2> HIDE DEF rs, s
    <2> QED BY <1>0, <1>1, <2>1, RemovedSound, PatchSaves
  <1> QED BY <1>2, <1>3, <1>4

LEMMA RoutesChat ==
    ASSUME RoutesInv, Tasks, NEW a \in Admins, Chat(a)
    PROVE  RoutesInv'
  <1>1. a \in Actors BY DEF Actors
  <1>0. doubled' = doubled
    BY Zenon DEF Chat, AskAdd, AskChange, AskRemove, Check, Asks, ChangeNow, Import, CheckFails,
                 SaveAdd, SaveChange, SaveRemove, ChatModule, NotChat
  <1>2. ASSUME NEW s \in Sources, NEW act, Check(a, act, s), act = "add" => ~Known(conf.routes, s)
        PROVE  RoutesInv'
    <2>1. Only(a) /\ conf' = conf /\ overlay' = overlay
          /\ task'[a].snap = conf.routes /\ task'[a].act = act /\ task'[a].src = s
      BY <1>1, <1>2, CheckOnly
    <2>2. conf.routes \subseteq Route /\ Apart(conf.routes, doubled) BY DEF RoutesInv, Sound, Config
    <2>3. Snapped(a)' BY <1>0, <1>2, <2>1, <2>2 DEF Snapped
    <2>4. \A b \in Actors \ {a} : Snapped(b)' BY <1>0, <2>1 DEF RoutesInv, Only, Snapped
    <2> QED BY <1>0, <2>1, <2>3, <2>4 DEF RoutesInv
  <1>3. CASE \E s \in Sources : AskAdd(a, s) \/ AskChange(a, s) \/ AskRemove(a, s)
    BY <1>2, <1>3 DEF AskAdd, AskChange, AskRemove
  <1>4. CASE \E s \in Sources : ChangeNow(a, s) \/ Import(a, s)
    BY <1>0, <1>1, <1>4, ChangeNowSaves, PatchEnds, RoutesKept
  <1>5. CASE CheckFails(a)
    <2>1. Finish(a) /\ conf' = conf /\ overlay' = overlay BY <1>5 DEF CheckFails
    <2> QED BY <1>0, <1>1, <2>1, FinishEnds, RoutesKept DEF Saves
  <1>6. CASE SaveAdd(a) \/ SaveChange(a) \/ SaveRemove(a)
    BY <1>0, <1>1, <1>6, CheckedSaves, PatchEnds, RoutesKept
  <1>7. CASE \E m \in Modules : ChatModule(a, m)
    <2>1. PICK m \in Modules : (\E b \in BOOLEAN : SetEnabled(a, m, b)) \/ ReloadModule(a, m)
      BY <1>7 DEF ChatModule
    <2>2. Saves BY <1>0, <2>1, SwitchSaves DEF RoutesInv
    <2>3. Ends(a) BY <1>1, <2>1, SetEnabledEnds, ReloadEnds
    <2> QED BY <1>0, <1>1, <2>2, <2>3, RoutesKept
  <1> QED BY <1>3, <1>4, <1>5, <1>6, <1>7 DEF Chat

(* What a remote command asks is sound, too, but for the sources of which it *)
(* has two routes itself.                                                    *)
LEMMA PatchedSound ==
    ASSUME Sound(conf, doubled), NEW k \in Requests, k.act = "patch",
           doubled' = doubled \cup Doubled(k)
    PROVE  Sound(Patched(k), doubled')
  <1>1. /\ k.mod \in Modules
        /\ k.on \in BOOLEAN \cup {NoFile}
        /\ k.routes \in {NoFile} \cup SUBSET Route
    <2>1. k \in [act : {"patch"}, mod : Modules, on : BOOLEAN \cup {NoFile},
                 routes : {NoFile} \cup SUBSET Route, reload : BOOLEAN]
      BY DEF Requests
    <2>2. k.mod \in Modules BY <2>1
    <2>3. k.on \in BOOLEAN \cup {NoFile} BY <2>1
    <2>4. k.routes \in {NoFile} \cup SUBSET Route BY <2>1
    <2> QED BY <2>2, <2>3, <2>4, Zenon
  <1>2. conf.on \in [Modules -> BOOLEAN] /\ conf.routes \subseteq Route BY DEF Sound, Config
  <1>3. Patched(k) \in Config
    <2>1. Patched(k).on \in [Modules -> BOOLEAN]
      <3>1. CASE k.on = NoFile BY <1>2, <3>1 DEF Patched
      <3>2. CASE k.on # NoFile
        <4>1. k.on \in BOOLEAN BY <1>1, <3>2, Zenon
        <4>2. Patched(k).on = [conf.on EXCEPT ![k.mod] = k.on] BY <3>2 DEF Patched
        <4> QED BY <1>2, <4>1, <4>2
      <3> QED BY <3>1, <3>2
    <2>2. Patched(k).routes \subseteq Route
      <3>1. k.routes = NoFile \/ k.routes \in SUBSET Route BY <1>1, Zenon
      <3> QED BY <1>2, <3>1 DEF Patched
    <2>3. Patched(k) = [on |-> Patched(k).on, routes |-> Patched(k).routes] BY DEF Patched
    <2> QED BY <2>1, <2>2, <2>3 DEF Config
  <1>4. CASE k.mod = Forward /\ k.routes # NoFile
    <2>1. Patched(k).routes = k.routes BY <1>4 DEF Patched
    <2>2. k.routes \in SUBSET Route BY <1>1, <1>4, Zenon
    <2>3. \A r1, r2 \in k.routes : r1.src = r2.src => r1 = r2 \/ r1.src \in Doubled(k)
      BY <1>4, <2>2 DEF Doubled, Route
    <2> QED BY <1>3, <2>1, <2>3 DEF Sound, Apart
  <1>5. CASE ~(k.mod = Forward /\ k.routes # NoFile)
    <2>1. Patched(k).routes = conf.routes BY <1>5 DEF Patched
    <2> QED BY <1>3, <2>1 DEF Sound, Apart
  <1> QED BY <1>4, <1>5

LEMMA HandleSaves ==
    ASSUME RoutesInv, NEW k \in Requests, Handle(k), doubled' = doubled \cup Doubled(k)
    PROVE  Saves
  <1>1. Sound(conf, doubled) /\ doubled \subseteq doubled' BY DEF RoutesInv
  <1>2. CASE k.act \in {"on", "off"}
    BY <1>1, <1>2, SwitchSaves DEF Handle
  <1>3. CASE k.act = "reload"
    BY <1>1, <1>3, SwitchSaves DEF Handle
  <1>4. CASE k.act = "patch"
    <2>1. Patch(Poller, k.mod, Patched(k), k.reload) BY <1>4 DEF Handle
    <2>2. Sound(Patched(k), doubled') BY <1>1, <1>4, PatchedSound
    <2> QED BY <2>1, <2>2, PatchSaves
  <1>5. CASE k.act \in {"pause", "resume"} /\ Known(conf.routes, k.src)
    <2> DEFINE p == k.act = "pause"
    <2>1. TogglePause(k.src, p) BY <1>5 DEF Handle
    <2>2. PICK r \in conf.routes :
            Patch(Poller, Forward, WithRoutes(Replace(conf.routes, r, Paused(r, p))), FALSE)
      BY <2>1 DEF TogglePause
    <2>3. conf.routes \in SUBSET Route /\ Apart(conf.routes, doubled) /\ p \in BOOLEAN
      BY <1>1 DEF Sound, Config
    <2> HIDE DEF p
    <2>4. Paused(r, p) \in Route /\ Paused(r, p).src = r.src BY <2>3 DEF Paused, Route
    <2>5. Sound(WithRoutes(Replace(conf.routes, r, Paused(r, p))), doubled')
      BY <1>1, <2>3, <2>4, ReplacedSound, SoundMore
    <2> QED BY <2>2, <2>5, PatchSaves
  <1>6. CASE ~(k.act \in {"on", "off", "reload", "patch"})
             /\ ~(k.act \in {"pause", "resume"} /\ Known(conf.routes, k.src))
    BY <1>6 DEF Handle, Saves
  <1> QED BY <1>2, <1>3, <1>4, <1>5, <1>6

LEMMA RoutesRemote ==
    ASSUME RoutesInv, Tasks, OnceInv, Remote
    PROVE  RoutesInv'
  <1>1. CASE \E c \in Commands, k \in Asked : Enqueue(c, k)
    BY <1>1 DEF Enqueue, memory, RoutesInv, Snapped
  <1>2. CASE Poll
    BY <1>2 DEF Poll, RoutesInv, Snapped
  <1>3. ASSUME NEW c \in Commands, NEW heard \in BOOLEAN, Dispatch(c, heard) PROVE RoutesInv'
    <2>1. /\ Handle(bridge[c].ask) /\ bridge[c].ask \in Requests
          /\ doubled' = doubled \cup Doubled(bridge[c].ask)
      BY <1>3 DEF Dispatch, OnceInv
    <2>2. doubled \subseteq doubled' BY <2>1
    <2> QED BY <2>1, <2>2, HandleEnds, HandleSaves, RoutesKept, PollerIsNobody
  <1>4. ASSUME NEW heard \in BOOLEAN, Report(heard) PROVE RoutesInv'
    <2>1. /\ task' = [task EXCEPT ![Poller] = Idle] /\ UNCHANGED <<conf, overlay, doubled>>
      BY <1>4 DEF Report
    <2>2. Ends(Poller) BY <2>1, PollerIsNobody DEF Ends, Only, Tasks, IsTask, Idle
    <2> QED BY <2>1, <2>2, RoutesKept, PollerIsNobody DEF Saves
  <1> QED BY <1>1, <1>2, <1>3, <1>4 DEF Remote

LEMMA RoutesLife ==
    ASSUME RoutesInv, Tasks, Life
    PROVE  RoutesInv'
  <1>1. CASE Boot
    <2>1. conf' = WithProfile(Loaded) /\ UNCHANGED <<overlay, doubled>> /\ Empty
      BY <1>1 DEF Boot
    <2>2. Sound(Loaded, doubled) BY FilesSound DEF RoutesInv, Loaded
    <2>3. WithProfile(Loaded) \in Config
      <3>1. Loaded.on \in [Modules -> BOOLEAN] /\ Loaded.routes \subseteq Route
        BY <2>2 DEF Sound, Config
      <3>2. WithProfile(Loaded).on \in [Modules -> BOOLEAN]
        BY <3>1, ControlAssumption DEF WithProfile
      <3>3. WithProfile(Loaded).routes \subseteq Route
        BY <3>1, ControlAssumption DEF WithProfile
      <3> QED BY <3>2, <3>3 DEF WithProfile, Config
    <2>4. WithProfile(Loaded).routes = IF ProfileRoutes = NoFile THEN Loaded.routes ELSE ProfileRoutes
      BY DEF WithProfile
    <2>5. Apart(conf'.routes, doubled') BY <2>1, <2>2, <2>4 DEF Sound, Apart, SoundFiles, Single
    <2>6. \A a \in Actors : Snapped(a)' BY <2>1, EmptyTasks DEF Snapped, Idle
    <2> QED BY <2>1, <2>3, <2>5, <2>6 DEF RoutesInv, Sound
  <1>2. CASE Leave
    <2>1. conf' = RepoConfig /\ UNCHANGED <<overlay, doubled>> /\ Empty BY <1>2 DEF Leave
    <2>2. \A a \in Actors : Snapped(a)' BY <2>1, EmptyTasks DEF Snapped, Idle
    <2> QED BY <2>1, <2>2, FilesSound DEF RoutesInv
  <1>3. CASE LoadNext \/ LoadReturns \/ (\E left \in BOOLEAN : LoadRaises(left)) \/ Bind
    <2>1. /\ conf' = conf /\ overlay' = overlay
          /\ \A b \in Actors : task'[b] = task[b] \/ (b = Loader /\ task'[b].pc # "checking")
      BY <1>3, LoaderEnds
    <2>2. doubled' = doubled BY <1>3 DEF LoadNext, LoadReturns, LoadRaises, Bind, NotLoad
    <2> QED BY <2>1, <2>2 DEF RoutesInv, Snapped
  <1> QED BY <1>1, <1>2, <1>3 DEF Life

LEMMA RoutesStep ==
    ASSUME OnceInv, Tasks, RoutesInv, [Next]_vars
    PROVE  RoutesInv'
  <1>1. ASSUME NEW a \in Actors, Runtime(a) PROVE RoutesInv'
    <2>1. doubled' = doubled BY <1>1 DEF Runtime, StopReturns, StartReturns, StartRaises
    <2> QED BY <1>1, <2>1, RuntimeEnds, RoutesKept DEF Saves
  <1>2. CASE UNCHANGED vars
    BY <1>2 DEF vars, memory, RoutesInv, Snapped
  <1> QED BY <1>1, <1>2, RoutesChat, RoutesRemote, RoutesLife DEF Next

LEMMA RoutesInvariant == Spec => [](OnceInv /\ Tasks /\ RoutesInv)
  <1> DEFINE Inv == OnceInv /\ Tasks /\ RoutesInv
  <1>1. Init => Inv
    <2>1. Init => RoutesInv
      BY FilesSound DEF Init, RoutesInv, Snapped, Idle
    <2> QED BY <2>1, OnceInit
  <1>2. Inv /\ [Next]_vars => Inv'
    BY OnceStep, RoutesStep
  <1> QED BY <1>1, <1>2, PTL DEF Spec

(* However long the checks of two admins take, and whatever saves itself     *)
(* in between, no source gets two routes, as long as the files of the        *)
(* repository have none and no config_patch has itself two of the source     *)
(* (modules/auto_reply/module.py:325, command_handlers.py:45).               *)
THEOREM SingleRoutes == SoundFiles /\ Spec => []OneRoutePerSource
  <1> SUFFICES ASSUME SoundFiles PROVE Spec => []OneRoutePerSource
    OBVIOUS
  <1>1. OnceInv /\ Tasks /\ RoutesInv => OneRoutePerSource
    BY DEF RoutesInv, Sound, Apart, OneRoutePerSource
  <1> QED BY <1>1, RoutesInvariant, PTL

----------------------------------------------------------------------------
(* The module runtime: what its state may be *)

Inst == [mod : Modules, st : {"none", "starting", "live", "dead"}, routes : SUBSET Route]
Waits(a) == task[a].pc \in Awaiting

\* Instances are numbered as they are made
Numbered == \E n \in 0..MaxStarts : \A i \in Instances : inst[i].st # "none" <=> i <= n

\* An actor that awaits a start or a stop has an instance of its own: a start
\* has not answered for it yet, a stop has taken it out of `loaded`
Holds(a) ==
    Waits(a) =>
      /\ task[a].mod \in Modules /\ task[a].i \in Instances
      /\ inst[task[a].i].mod = task[a].mod
      /\ inst[task[a].i].st = IF task[a].pc = "starting" THEN "starting" ELSE "live"
      /\ \A m \in Modules : task[a].i # loaded[m] /\ task[a].i # got[m]
      /\ \A b \in Actors : Waits(b) /\ task[b].i = task[a].i => b = a

Held ==
    /\ inst \in [Instances -> Inst] /\ Numbered
    /\ loaded \in [Modules -> 0..MaxStarts] /\ got \in [Modules -> 0..MaxStarts]
    /\ \A m \in Modules : /\ loaded[m] # 0 => loaded[m] \in Live(m)
                          /\ got[m] # 0 => got[m] \in Live(m)
                          /\ loaded[m] # 0 => loaded[m] # got[m]
    /\ \A a \in Actors : Holds(a)

\* The phases of the process, and what there is in each
Phase ==
    /\ up \in {"down", "loading", "up"}
    /\ todo \in {<<>>, <<Forward>>, <<Control, Forward>>}
    /\ todo # <<>> => up = "loading"
    /\ inbox # {} => up = "up"
    /\ \A a \in Actors : task[a].pc \in Awaiting \cup {"idle", "checking", "report"}
    /\ task[Loader].pc \in {"idle", "starting"}
    /\ task[Loader].pc = "starting" => up = "loading"
    /\ up # "loading" => \A m \in Modules : got[m] = 0
    /\ up = "down" => \A a \in Actors : task[a].pc = "idle"
    /\ up = "down" => \A m \in Modules : loaded[m] = 0 /\ Live(m) = {}

(* The next number is free, and taking it leaves no gap.                     *)
LEMMA FreshFree ==
    ASSUME Held, Fresh \in Instances
    PROVE  /\ inst[Fresh].st = "none"
           /\ \E n \in 0..MaxStarts : \A i \in Instances : (i = Fresh \/ inst[i].st # "none") <=> i <= n
  <1>0. MaxStarts \in Nat BY ControlAssumption
  <1>1. PICK n \in 0..MaxStarts : \A i \in Instances : inst[i].st # "none" <=> i <= n
    BY DEF Held, Numbered
  <1>2. {i \in Instances : inst[i].st # "none"} = 1..n
    <2> DEFINE made == {i \in Instances : inst[i].st # "none"}
    <2>1. made \subseteq 1..n BY <1>0, <1>1 DEF Instances
    <2>2. 1..n \subseteq made BY <1>0, <1>1 DEF Instances
    <2> QED BY <2>1, <2>2
  <1>3. Fresh = n + 1
    <2>1. n \in Int /\ 1 \in Int /\ n \in Nat BY <1>0
    <2>2. Cardinality(1..n) = IF 1 > n THEN 0 ELSE n - 1 + 1 BY <2>1, FS_Interval
    <2>3. Cardinality(1..n) = n BY <2>1, <2>2
    <2> QED BY <1>2, <2>3 DEF Fresh
  <1>4. n + 1 \in 0..MaxStarts BY <1>0, <1>3 DEF Instances
  <1>5. inst[n + 1].st = "none" BY <1>0, <1>1, <1>3 DEF Instances
  <1>6. \A i \in Instances : (i = n + 1 \/ inst[i].st # "none") <=> i <= n + 1
    BY <1>0, <1>1 DEF Instances
  <1> QED BY <1>3, <1>4, <1>5, <1>6

----------------------------------------------------------------------------
(* What an operation of the runtime does, whoever calls it *)

\* It is over
Marks(a, m) == spoiled' = [spoiled EXCEPT ![m] = @ \/ Overlap(a, m)]
Rests(a) ==
    /\ inst' = inst /\ loaded' = loaded /\ task'[a].pc \notin Awaiting
    /\ spoiled' = spoiled \/ \E m \in Modules : Marks(a, m)
\* The instance in `loaded` is taken out to be stopped
Pops(a, m) ==
    /\ loaded[m] # 0 /\ loaded' = [loaded EXCEPT ![m] = 0] /\ inst' = inst
    /\ task'[a].pc \in {"stopping", "restarting"} /\ task'[a].mod = m /\ task'[a].i = loaded[m]
    /\ Marks(a, m)
\* A new instance with the routes of this moment
Makes(a, m, is) ==
    /\ Fresh \in Instances
    /\ inst' = [is EXCEPT ![Fresh] = [mod |-> m, st |-> "starting", routes |-> conf'.routes]]
    /\ loaded' = loaded
    /\ task'[a].pc = "starting" /\ task'[a].mod = m /\ task'[a].i = Fresh

\* The routes in use are those that are saved, if they were before
Keeps ==
    ~unloaded' /\ conf'.on[Forward] =>
      ~unloaded /\ conf.on[Forward] /\ conf'.routes = conf.routes
Does(a) ==
    /\ Only(a)
    /\ \/ Rests(a) /\ Keeps
       \/ \E m \in Modules : /\ Pops(a, m) \/ (loaded[m] = 0 /\ Makes(a, m, inst) /\ Marks(a, m))
                             /\ m # Forward => Keeps

LEMMA AwaitValue ==
    ASSUME Tasks, NEW a \in Actors, NEW pc \in Awaiting, NEW m, NEW i, Await(a, pc, m, i)
    PROVE  Only(a) /\ task'[a].pc = pc /\ task'[a].mod = m /\ task'[a].i = i
  <1> DEFINE t == [task[a] EXCEPT !.pc = pc, !.mod = m, !.i = i, !.snap = {}]
  <1>1. task' = [task EXCEPT ![a] = t] BY DEF Await
  <1>2. t.pc = pc /\ t.mod = m /\ t.i = i
    <2>1. IsTask(task[a]) BY DEF Tasks
    <2> QED BY <2>1 DEF IsTask
  <1>3. Only(a) BY AwaitEnds DEF Ends
  <1> HIDE DEF t
  <1> QED BY <1>1, <1>2, <1>3 DEF Tasks

LEMMA FinishRests ==
    ASSUME Tasks, NEW a \in Actors, Finish(a)
    PROVE  Only(a) /\ task'[a].pc \in {"idle", "report"} /\ (a # Poller => task'[a].pc = "idle")
  <1>1. Only(a) BY FinishEnds DEF Ends
  <1>2. CASE a = Poller
    <2>1. task' = [task EXCEPT ![a] = [task[a] EXCEPT !.pc = "report"]]
      BY <1>2 DEF Finish, Over
    <2> QED BY <1>1, <1>2, <2>1 DEF Tasks, IsTask
  <1>3. CASE a # Poller
    <2>1. task' = [task EXCEPT ![a] = Idle] BY <1>3 DEF Finish, Over
    <2> QED BY <1>1, <1>3, <2>1 DEF Tasks, Idle
  <1> QED BY <1>2, <1>3

(* start_module and stop_module, up to their first await (runtime.py:59-90). *)
LEMMA StartDoes ==
    ASSUME Tasks, NEW a \in Actors, NEW m \in Modules, NEW rs, StartModule(a, m, rs),
           conf'.routes = rs
    PROVE  /\ Only(a)
           /\ Pops(a, m) \/ (loaded[m] = 0 /\ Makes(a, m, inst) /\ Marks(a, m))
           /\ m # Forward /\ unloaded => unloaded'
  <1>1. Marks(a, m) BY DEF StartModule, Marks
  <1>2. CASE loaded[m] # 0
    <2>1. Pop(a, m, "restarting") BY <1>2 DEF StartModule
    <2>2. Await(a, "restarting", m, loaded[m]) /\ "restarting" \in Awaiting
      BY <2>1 DEF Pop, Awaiting
    <2>3. Only(a) /\ task'[a].pc = "restarting" /\ task'[a].mod = m /\ task'[a].i = loaded[m]
      BY <2>2, AwaitValue
    <2>4. Pops(a, m) BY <1>1, <1>2, <2>1, <2>3 DEF Pop, Pops
    <2> QED BY <2>1, <2>3, <2>4 DEF Pop
  <1>3. CASE loaded[m] = 0
    <2>1. Create(a, m, rs, inst) /\ loaded' = loaded BY <1>3 DEF StartModule
    <2>2. Await(a, "starting", m, Fresh) /\ "starting" \in Awaiting BY <2>1 DEF Create, Awaiting
    <2>3. Only(a) /\ task'[a].pc = "starting" /\ task'[a].mod = m /\ task'[a].i = Fresh
      BY <2>2, AwaitValue
    <2>4. Makes(a, m, inst)
      <3>1. Fresh \in Instances /\ inst' = [inst EXCEPT ![Fresh] =
              [mod |-> m, st |-> "starting", routes |-> conf'.routes]]
        BY <2>1 DEF Create
      <3> QED BY <2>1, <2>3, <3>1 DEF Makes
    <2>5. m # Forward /\ unloaded => unloaded' BY <2>1 DEF Create
    <2> QED BY <1>1, <1>3, <2>3, <2>4, <2>5
  <1> QED BY <1>2, <1>3

LEMMA StopDoes ==
    ASSUME Tasks, NEW a \in Actors, NEW m \in Modules, StopModule(a, m)
    PROVE  /\ Only(a) /\ unloaded' = unloaded
           /\ Pops(a, m) \/ (inst' = inst /\ loaded' = loaded /\ loaded[m] = 0 /\ Marks(a, m)
                              /\ task'[a].pc \notin Awaiting)
  <1>1. Marks(a, m) BY DEF StopModule, Marks
  <1>2. CASE loaded[m] # 0
    <2>1. Pop(a, m, "stopping") BY <1>2 DEF StopModule
    <2>2. Await(a, "stopping", m, loaded[m]) /\ "stopping" \in Awaiting
      BY <2>1 DEF Pop, Awaiting
    <2>3. Only(a) /\ task'[a].pc = "stopping" /\ task'[a].mod = m /\ task'[a].i = loaded[m]
      BY <2>2, AwaitValue
    <2> QED BY <1>1, <1>2, <2>1, <2>3 DEF Pop, Pops
  <1>3. CASE loaded[m] = 0
    <2>1. Finish(a) /\ UNCHANGED <<inst, loaded, unloaded>> BY <1>3 DEF StopModule
    <2> QED BY <1>1, <1>3, <2>1, FinishRests DEF Awaiting
  <1> QED BY <1>2, <1>3

LEMMA FinishDoes ==
    ASSUME Tasks, NEW a \in Actors, Finish(a), inst' = inst, loaded' = loaded,
           spoiled' = spoiled, Keeps
    PROVE  Does(a)
  BY FinishRests DEF Does, Rests, Awaiting

(* patch_module_config (runtime.py:128): another module than channel_forward *)
(* has no routes to change.                                                  *)
LEMMA PatchDoes ==
    ASSUME Tasks, NEW a \in Actors, NEW m \in Modules, NEW c, NEW reload \in BOOLEAN,
           Patch(a, m, c, reload),
           m # Forward => c.routes = conf.routes /\ (c.on[Forward] => conf.on[Forward])
    PROVE  Does(a)
  <1>1. conf' = c BY DEF Patch, Persist
  <1>2. CASE reload /\ c.on[m]
    <2>1. StartModule(a, m, c.routes) BY <1>2 DEF Patch
    <2>2. /\ Only(a)
          /\ Pops(a, m) \/ (loaded[m] = 0 /\ Makes(a, m, inst) /\ Marks(a, m))
          /\ m # Forward /\ unloaded => unloaded'
      BY <1>1, <2>1, StartDoes
    <2>3. m # Forward => Keeps BY <1>1, <2>2 DEF Keeps
    <2> QED BY <2>2, <2>3 DEF Does
  <1>3. CASE ~(reload /\ c.on[m])
    <2>1. Finish(a) /\ NoModule /\ unloaded' = (unloaded \/ (m = Forward /\ ~reload))
      BY <1>3 DEF Patch
    <2>2. Keeps BY <1>1, <1>3, <2>1 DEF Keeps
    <2> QED BY <2>1, <2>2, FinishDoes DEF NoModule
  <1> QED BY <1>2, <1>3

LEMMA SwitchDoes ==
    ASSUME Tasks, conf \in Config, NEW a \in Actors, NEW m \in Modules, NEW b \in BOOLEAN,
           SetEnabled(a, m, b)
    PROVE  Does(a)
  <1>1. CASE m \in Protected /\ ~b
    BY <1>1, FinishDoes DEF SetEnabled, NoModule, Keeps
  <1>2. CASE ~(m \in Protected /\ ~b)
    <2>1. conf' = Switched(conf, m, b) BY <1>2 DEF SetEnabled, Persist
    <2>2. /\ conf'.routes = conf.routes /\ conf'.on[m] = b
          /\ m # Forward => conf'.on[Forward] = conf.on[Forward]
      BY <2>1 DEF Switched, Config, Modules
    <2>3. CASE b
      <3>1. StartModule(a, m, conf.routes) BY <1>2, <2>3 DEF SetEnabled
      <3>2. /\ Only(a)
            /\ Pops(a, m) \/ (loaded[m] = 0 /\ Makes(a, m, inst) /\ Marks(a, m))
            /\ m # Forward /\ unloaded => unloaded'
        BY <2>2, <3>1, StartDoes
      <3>3. m # Forward => Keeps BY <2>2, <3>2 DEF Keeps
      <3> QED BY <3>2, <3>3 DEF Does
    <2>4. CASE ~b
      <3>1. StopModule(a, m) BY <1>2, <2>4 DEF SetEnabled
      <3>2. /\ Only(a) /\ unloaded' = unloaded
            /\ Pops(a, m) \/ (inst' = inst /\ loaded' = loaded /\ loaded[m] = 0 /\ Marks(a, m)
                               /\ task'[a].pc \notin Awaiting)
        BY <3>1, StopDoes
      <3>3. Keeps BY <2>2, <2>4, <3>2 DEF Keeps
      <3> QED BY <3>2, <3>3 DEF Does, Rests
    <2> QED BY <2>3, <2>4
  <1> QED BY <1>1, <1>2

LEMMA ReloadDoes ==
    ASSUME Tasks, NEW a \in Actors, NEW m \in Modules, ReloadModule(a, m)
    PROVE  Does(a)
  <1>1. conf' = conf BY DEF ReloadModule
  <1>2. CASE m \in Protected \/ ~conf.on[m]
    BY <1>2, FinishDoes DEF ReloadModule, NoModule, Keeps
  <1>3. CASE ~(m \in Protected \/ ~conf.on[m])
    <2>1. StartModule(a, m, conf.routes) BY <1>3 DEF ReloadModule
    <2>2. /\ Only(a)
          /\ Pops(a, m) \/ (loaded[m] = 0 /\ Makes(a, m, inst) /\ Marks(a, m))
          /\ m # Forward /\ unloaded => unloaded'
      BY <1>1, <2>1, StartDoes
    <2>3. m # Forward => Keeps BY <1>1, <2>2 DEF Keeps
    <2> QED BY <2>2, <2>3 DEF Does
  <1> QED BY <1>2, <1>3

(* A remote command.                                                         *)
LEMMA HandleDoes ==
    ASSUME Tasks, conf \in Config, NEW k \in Requests, Handle(k)
    PROVE  Does(Poller)
  <1>0. /\ Poller \in Actors /\ Forward \in Modules
        /\ k.act \in {"on", "off", "reload", "patch"} => k.mod \in Modules
        /\ k.act = "patch" => k.reload \in BOOLEAN /\ (k.on = NoFile \/ k.on \in BOOLEAN)
    BY PollerIsNobody DEF Requests, Modules
  <1>1. CASE k.act \in {"on", "off"}
    BY <1>0, <1>1, SwitchDoes DEF Handle
  <1>2. CASE k.act = "reload"
    BY <1>0, <1>2, ReloadDoes DEF Handle
  <1>3. CASE k.act = "patch"
    <2> DEFINE c == Patched(k)
    <2>1. Patch(Poller, k.mod, c, k.reload) BY <1>3 DEF Handle
    <2>2. k.mod # Forward => c.routes = conf.routes /\ (c.on[Forward] => conf.on[Forward])
      BY <1>0, <1>3 DEF Patched, Config, Modules
    <2> HIDE DEF c
    <2> QED BY <1>0, <1>3, <2>1, <2>2, PatchDoes
  <1>4. CASE k.act \in {"pause", "resume"} /\ Known(conf.routes, k.src)
    <2>1. \E c : Patch(Poller, Forward, c, FALSE) BY <1>4 DEF Handle, TogglePause
    <2> QED BY <1>0, <2>1, PatchDoes
  <1>5. CASE ~(k.act \in {"on", "off", "reload", "patch"})
             /\ ~(k.act \in {"pause", "resume"} /\ Known(conf.routes, k.src))
    <2>1. Finish(Poller) /\ NoModule /\ UNCHANGED <<conf, overlay, unloaded>>
      BY <1>5 DEF Handle
    <2> QED BY <1>0, <2>1, FinishDoes DEF NoModule, Keeps
  <1> QED BY <1>1, <1>2, <1>3, <1>4, <1>5

\* The step of an actor that awaited nothing of the runtime
Calls(a) ==
    /\ a # Loader /\ Does(a) /\ UNCHANGED <<up, todo, got>> /\ ~Waits(a)
    /\ task'[a].pc \in Awaiting \cup {"idle", "checking", "report"}
    /\ up # "down" \/ task[a].pc # "idle"

LEMMA DoesPc ==
    ASSUME Tasks, NEW a \in Actors, Finish(a) \/ (\E m, i : \E pc \in Awaiting : Await(a, pc, m, i))
    PROVE  task'[a].pc \in Awaiting \cup {"idle", "checking", "report"}
  BY FinishRests, AwaitValue

LEMMA ChatCalls ==
    ASSUME Tasks, conf \in Config, NEW a \in Admins, Chat(a)
    PROVE  Calls(a) /\ inbox' = inbox
  <1>0. a \in Actors /\ Forward \in Modules /\ a # Loader
    BY ControlAssumption DEF Actors, Modules
  <1>1. ASSUME NEW s \in Sources, NEW act, Check(a, act, s) PROVE Calls(a) /\ inbox' = inbox
    <2>1. Only(a) BY <1>0, <1>1, CheckOnly
    <2>2. /\ task[a].pc = "idle" /\ up # "down" /\ UNCHANGED <<up, todo, got, inbox>>
          /\ UNCHANGED <<conf, inst, loaded, spoiled, unloaded>>
      BY <1>1 DEF Check, Asks, NotChat
    <2>3. task'[a].pc = "checking"
      BY <1>0, <1>1 DEF Check, Tasks, Idle
    <2> QED BY <1>0, <2>1, <2>2, <2>3 DEF Calls, Does, Rests, Keeps, Waits, Awaiting
  <1>2. CASE \E s \in Sources : AskAdd(a, s) \/ AskChange(a, s) \/ AskRemove(a, s)
    BY <1>1, <1>2 DEF AskAdd, AskChange, AskRemove
  <1>3. ASSUME NEW m \in Modules, NEW c, NEW reload \in BOOLEAN, Patch(a, m, c, reload)
        PROVE  task'[a].pc \in Awaiting \cup {"idle", "checking", "report"}
    BY <1>0, <1>3, DoesPc DEF Patch, StartModule, Pop, Create, Awaiting
  <1>4. CASE \E s \in Sources : ChangeNow(a, s) \/ Import(a, s)
    <2>1. /\ task[a].pc = "idle" /\ up # "down" /\ UNCHANGED <<up, todo, got, inbox>>
          /\ \E c : Patch(a, Forward, c, TRUE)
      BY <1>4 DEF ChangeNow, Import, Asks, NotChat
    <2>2. Does(a) BY <1>0, <2>1, PatchDoes
    <2> QED BY <1>0, <1>3, <2>1, <2>2 DEF Calls, Waits, Awaiting
  <1>5. CASE CheckFails(a)
    <2>1. /\ task[a].pc = "checking" /\ UNCHANGED <<up, todo, got, inbox>> /\ Finish(a)
          /\ UNCHANGED <<conf, inst, loaded, spoiled, unloaded>>
      BY <1>5 DEF CheckFails, NotChat
    <2>2. Does(a) BY <1>0, <2>1, FinishDoes DEF Keeps
    <2> QED BY <1>0, <2>1, <2>2, DoesPc DEF Calls, Waits, Awaiting
  <1>6. CASE SaveAdd(a) \/ SaveChange(a) \/ SaveRemove(a)
    <2>1. /\ task[a].pc = "checking" /\ UNCHANGED <<up, todo, got, inbox>>
          /\ \E c : Patch(a, Forward, c, TRUE)
      BY <1>6 DEF SaveAdd, SaveChange, SaveRemove, NotChat
    <2>2. Does(a) BY <1>0, <2>1, PatchDoes
    <2> QED BY <1>0, <1>3, <2>1, <2>2 DEF Calls, Waits, Awaiting
  <1>7. ASSUME NEW m \in Modules, ChatModule(a, m) PROVE Calls(a) /\ inbox' = inbox
    <2>1. /\ task[a].pc = "idle" /\ up # "down" /\ UNCHANGED <<up, todo, got, inbox>>
          /\ (\E b \in BOOLEAN : SetEnabled(a, m, b)) \/ ReloadModule(a, m)
      BY <1>7 DEF ChatModule, Asks, NotChat
    <2>2. Does(a) BY <1>0, <2>1, SwitchDoes, ReloadDoes
    <2>3. task'[a].pc \in Awaiting \cup {"idle", "checking", "report"}
      BY <1>0, <2>1, DoesPc DEF SetEnabled, ReloadModule, StartModule, StopModule, Pop, Create,
         Awaiting
    <2> QED BY <1>0, <2>1, <2>2, <2>3 DEF Calls, Waits, Awaiting
  <1> QED BY <1>2, <1>4, <1>5, <1>6, <1>7 DEF Chat

LEMMA RemoteCalls ==
    ASSUME Tasks, conf \in Config, OnceInv, Phase, Remote
    PROVE  \/ UNCHANGED <<up, conf, inst, loaded, task, todo, got, spoiled, unloaded>>
              /\ (inbox' = inbox \/ up = "up")
           \/ Calls(Poller) /\ inbox' \subseteq inbox
  <1>0. Poller \in Actors /\ Poller # Loader BY PollerIsNobody
  <1>1. CASE (\E c \in Commands, k \in Asked : Enqueue(c, k)) \/ Poll
    BY <1>1 DEF Enqueue, Poll, NotPoll, memory
  <1>2. ASSUME NEW c \in Commands, NEW heard \in BOOLEAN, Dispatch(c, heard)
        PROVE  Calls(Poller) /\ inbox' \subseteq inbox
    <2>1. /\ Handle(bridge[c].ask) /\ bridge[c].ask \in Requests /\ task[Poller].pc = "idle"
          /\ inbox' = inbox \ {c} /\ inbox # {} /\ UNCHANGED <<up, todo, got>>
      BY <1>2 DEF Dispatch, OnceInv, NotPoll
    <2>2. Does(Poller) BY <2>1, HandleDoes, SMTT(30)
    <2>3. task'[Poller].pc \in Awaiting \cup {"idle", "checking", "report"}
      BY <1>0, <2>1, DoesPc DEF Handle, TogglePause, Patch, SetEnabled, ReloadModule, StartModule, StopModule,
         Pop, Create, Awaiting
    <2>4. up # "down" BY <2>1 DEF Phase
    <2> QED BY <1>0, <2>1, <2>2, <2>3, <2>4 DEF Calls, Waits, Awaiting
  <1>3. ASSUME NEW heard \in BOOLEAN, Report(heard) PROVE Calls(Poller) /\ inbox' \subseteq inbox
    <2>1. /\ task' = [task EXCEPT ![Poller] = Idle] /\ task[Poller].pc = "report"
          /\ UNCHANGED <<conf, inst, loaded, inbox, spoiled, unloaded, up, todo, got>>
      BY <1>3 DEF Report, NotPoll
    <2>2. Only(Poller) /\ task'[Poller].pc = "idle"
      BY <1>0, <2>1 DEF Only, Tasks, IsTask, Idle
    <2> QED BY <1>0, <2>1, <2>2 DEF Calls, Does, Rests, Keeps, Waits, Awaiting
  <1> QED BY <1>1, <1>2, <1>3 DEF Remote

----------------------------------------------------------------------------
(* Every instance is held by one hand *)

LEMMA RestsHeld ==
    ASSUME Held, NEW a \in Actors, Only(a), ~Waits(a)', inst' = inst, loaded' = loaded, got' = got
    PROVE  Held'
  <1>1. \A b \in Actors : Holds(b)' BY DEF Held, Holds, Waits, Only
  <1> QED BY <1>1 DEF Held, Numbered, Live

LEMMA PopsHeld ==
    ASSUME Held, NEW a \in Actors, Only(a), ~Waits(a), NEW m \in Modules, Pops(a, m), got' = got
    PROVE  Held'
  <1>1. /\ loaded[m] \in Live(m) /\ loaded[m] # 0 /\ inst' = inst
        /\ loaded' \in [Modules -> 0..MaxStarts] /\ loaded'[m] = 0
        /\ \A n \in Modules \ {m} : loaded'[n] = loaded[n]
    BY ControlAssumption DEF Held, Pops
  <1>2. Holds(a)'
    <2>1. loaded[m] \in Instances /\ inst[loaded[m]].mod = m /\ inst[loaded[m]].st = "live"
      BY <1>1 DEF Live
    <2>2. ASSUME NEW n \in Modules PROVE loaded[m] # loaded'[n] /\ loaded[m] # got'[n]
      BY <1>1, <2>1 DEF Held, Live
    <2>3. \A b \in Actors \ {a} : Waits(b)' => task'[b].i # loaded[m]
      BY DEF Held, Holds, Waits, Only
    <2> QED BY <1>1, <2>1, <2>2, <2>3 DEF Holds, Pops, Waits
  <1>3. ASSUME NEW b \in Actors \ {a} PROVE Holds(b)'
    <2>1. Waits(b) => task[b].i # loaded[m] BY DEF Held, Holds
    <2>2. \A n \in Modules : loaded'[n] # 0 => loaded'[n] = loaded[n] BY <1>1
    <2>3. Waits(b) => task[b].i # 0 BY DEF Held, Holds, Instances
    <2>4. task'[a].i = loaded[m] BY DEF Pops
    <2> QED BY <1>1, <2>1, <2>2, <2>3, <2>4 DEF Held, Holds, Waits, Only
  <1> QED BY <1>1, <1>2, <1>3 DEF Held, Numbered, Live

\* The instances, as far as the actor has not touched its own
Mostly(is, a) ==
    /\ is \in [Instances -> Inst]
    /\ \A i \in Instances : is[i] = inst[i]
         \/ (Waits(a) /\ i = task[a].i /\ is[i].st # "none" /\ is[i].mod = inst[i].mod)

LEMMA MakesHeld ==
    ASSUME Held, NEW a \in Actors, Only(a), NEW m \in Modules, NEW is, Mostly(is, a),
           Makes(a, m, is), got' = got, conf'.routes \in SUBSET Route
    PROVE  Held'
  <1> DEFINE new == [mod |-> m, st |-> "starting", routes |-> conf'.routes]
  <1>1. /\ Fresh \in Instances /\ inst[Fresh].st = "none"
        /\ inst' = [is EXCEPT ![Fresh] = new] /\ loaded' = loaded
    BY FreshFree DEF Makes
  <1>2. new \in Inst BY DEF Inst
  <1>3. inst' \in [Instances -> Inst] BY <1>1, <1>2 DEF Mostly
  <1>4. /\ inst'[Fresh] = new
        /\ \A i \in Instances \ {Fresh} : inst'[i] = is[i]
    BY <1>1 DEF Mostly
  <1> HIDE DEF new
  <1>5. \A i \in Instances : inst[i].st # "none" => (is[i].st # "none" /\ i # Fresh)
    BY <1>1 DEF Mostly
  <1>6. \A i \in Instances : Waits(a) /\ i = task[a].i => inst[i].st # "none"
    BY DEF Held, Holds
  <1>7. \A i \in Instances : inst'[i].st # "none" <=> (i = Fresh \/ inst[i].st # "none")
    BY <1>1, <1>4, <1>5, <1>6 DEF Mostly, new
  <1>8. Numbered'
    <2>1. PICK n \in 0..MaxStarts :
            \A i \in Instances : (i = Fresh \/ inst[i].st # "none") <=> i <= n
      BY <1>1, FreshFree
    <2>2. \A i \in Instances : inst'[i].st # "none" <=> i <= n BY <1>7, <2>1
    <2> QED BY <2>2 DEF Numbered
  <1>9. ASSUME NEW i \in Instances, inst[i].st # "none", Waits(a) => i # task[a].i
        PROVE  inst'[i] = inst[i]
    BY <1>4, <1>5, <1>9 DEF Mostly
  <1>10. ASSUME NEW n \in Modules
         PROVE  /\ loaded'[n] # 0 => loaded'[n] \in Live(n)'
                /\ got'[n] # 0 => got'[n] \in Live(n)'
    <2>1. Waits(a) => task[a].i # loaded[n] /\ task[a].i # got[n] BY DEF Held, Holds
    <2> QED BY <1>1, <1>9, <2>1 DEF Held, Live
  <1>11. Holds(a)'
    <2>1. task'[a].pc = "starting" /\ task'[a].mod = m /\ task'[a].i = Fresh BY DEF Makes
    <2>2. \A n \in Modules : Fresh # loaded'[n] /\ Fresh # got'[n]
      <3> SUFFICES ASSUME NEW n \in Modules PROVE Fresh # loaded[n] /\ Fresh # got[n]
        BY <1>1
      <3>1. Fresh # 0 BY <1>1 DEF Instances
      <3> QED BY <1>1, <3>1 DEF Held, Live
    <2>3. \A b \in Actors \ {a} : Waits(b)' => task'[b].i # Fresh
      BY <1>1 DEF Held, Holds, Waits, Only
    <2>4. inst'[Fresh].mod = m /\ inst'[Fresh].st = "starting" BY <1>4 DEF new
    <2> QED BY <1>1, <2>1, <2>2, <2>3, <2>4 DEF Holds
  <1>12. ASSUME NEW b \in Actors \ {a} PROVE Holds(b)'
    <2>1. task'[b] = task[b] BY DEF Only
    <2>2. CASE Waits(b)
      <3>1. task[b].i \in Instances /\ inst[task[b].i].st # "none"
        BY <2>2 DEF Held, Holds
      <3>2. Waits(a) => task[b].i # task[a].i BY <2>2 DEF Held, Holds
      <3>3. inst'[task[b].i] = inst[task[b].i] BY <1>9, <3>1, <3>2
      <3>4. task'[a].i = Fresh /\ task[b].i # Fresh BY <1>1, <3>1 DEF Makes
      <3> QED BY <1>1, <2>1, <2>2, <3>1, <3>3, <3>4 DEF Held, Holds, Waits, Only
    <2>3. CASE ~Waits(b) BY <2>1, <2>3 DEF Holds, Waits
    <2> QED BY <2>2, <2>3
  <1> QED BY <1>1, <1>3, <1>8, <1>10, <1>11, <1>12 DEF Held

LEMMA CallsHeld ==
    ASSUME Held, NEW a \in Actors, Calls(a), conf' \in Config
    PROVE  Held'
  <1>1. Only(a) /\ ~Waits(a) /\ got' = got BY DEF Calls, Does
  <1>2. CASE Rests(a) BY <1>1, <1>2, RestsHeld DEF Rests, Waits
  <1>3. ASSUME NEW m \in Modules, Pops(a, m) PROVE Held' BY <1>1, <1>3, PopsHeld
  <1>4. ASSUME NEW m \in Modules, Makes(a, m, inst) PROVE Held'
    <2>1. Mostly(inst, a) BY DEF Held, Mostly
    <2> QED BY <1>1, <1>4, <2>1, MakesHeld DEF Config
  <1> QED BY <1>2, <1>3, <1>4 DEF Calls, Does

\* What the actor's instance comes to
Turned(a, x) == inst' = [inst EXCEPT ![task[a].i] = x]

(* An instance that a hand lets go is dead, or goes to the place in `loaded` *)
(* or `got` that it was made for, or to nowhere.                             *)
LEMMA TurnedHeld ==
    ASSUME Held, NEW a \in Actors, Only(a), Waits(a), ~Waits(a)', NEW x \in Inst, Turned(a, x),
           x.st # "none", x.mod = task[a].mod,
           loaded' = loaded \/ (loaded' = [loaded EXCEPT ![task[a].mod] = task[a].i] /\ got' = got),
           got' = got \/ (got' = [got EXCEPT ![task[a].mod] = task[a].i] /\ loaded' = loaded),
           loaded' # loaded \/ got' # got => x.st = "live"
    PROVE  Held'
  <1> DEFINE i == task[a].i
             m == task[a].mod
  <1>1. /\ i \in Instances /\ m \in Modules /\ inst[i].mod = m /\ inst[i].st # "none"
        /\ \A n \in Modules : i # loaded[n] /\ i # got[n]
        /\ \A b \in Actors \ {a} : Waits(b) => task[b].i # i
    BY DEF Held, Holds
  <1>2. /\ inst' \in [Instances -> Inst] /\ inst'[i] = x
        /\ \A j \in Instances \ {i} : inst'[j] = inst[j]
    BY <1>1 DEF Held, Turned
  <1>3. Numbered'
    <2>1. \A j \in Instances : inst'[j].st # "none" <=> inst[j].st # "none" BY <1>1, <1>2
    <2> QED BY <2>1 DEF Held, Numbered
  <1>4. i \in 0..MaxStarts /\ i # 0 BY <1>1, ControlAssumption DEF Instances
  <1> HIDE DEF i, m
  <1>5. /\ loaded' \in [Modules -> 0..MaxStarts] /\ got' \in [Modules -> 0..MaxStarts]
        /\ \A n \in Modules : loaded'[n] = loaded[n] \/ (n = m /\ loaded'[n] = i /\ got' = got /\ x.st = "live")
        /\ \A n \in Modules : got'[n] = got[n] \/ (n = m /\ got'[n] = i /\ loaded' = loaded /\ x.st = "live")
    BY <1>1, <1>4 DEF Held, i, m
  <1>6. ASSUME NEW n \in Modules
        PROVE  /\ loaded'[n] # 0 => loaded'[n] \in Live(n)'
               /\ got'[n] # 0 => got'[n] \in Live(n)'
               /\ loaded'[n] # 0 => loaded'[n] # got'[n]
    <2>1. \A j \in Live(n) : j # i => j \in Live(n)' BY <1>2 DEF Live
    <2>2. x.st = "live" /\ n = m => i \in Live(n)' BY <1>1, <1>2 DEF Live, m
    <2> QED BY <1>1, <1>5, <2>1, <2>2 DEF Held
  <1>7. ASSUME NEW b \in Actors PROVE Holds(b)'
    <2>1. CASE b = a BY <2>1 DEF Holds, Waits
    <2>2. CASE b # a
      <3>1. task'[b] = task[b] BY <2>2 DEF Only
      <3>2. CASE Waits(b)
        <4>1. task[b].i \in Instances \ {i} BY <1>1, <2>2, <3>2 DEF Held, Holds
        <4>2. inst'[task[b].i] = inst[task[b].i] BY <1>2, <4>1
        <4>3. \A n \in Modules : task[b].i # loaded'[n] /\ task[b].i # got'[n]
          BY <1>5, <3>2, <4>1 DEF Held, Holds
        <4>4. \A d \in Actors : Waits(d)' => d # a /\ Waits(d) /\ task'[d] = task[d]
          BY DEF Only, Waits
        <4> QED BY <3>1, <3>2, <4>1, <4>2, <4>3, <4>4 DEF Held, Holds, Waits
      <3>3. CASE ~Waits(b) BY <3>1, <3>3 DEF Holds, Waits
      <3> QED BY <3>2, <3>3
    <2> QED BY <2>1, <2>2
  <1> QED BY <1>2, <1>3, <1>5, <1>6, <1>7 DEF Held

----------------------------------------------------------------------------
(* What the answers to a start or a stop do, and the loader *)

\* The instance is dead, is left with its handlers by a start or a stop that
\* raised, or takes its place
Left(a, b) == spoiled' = [spoiled EXCEPT ![task[a].mod] = @ \/ b]
Lets(a) ==
    /\ Only(a) /\ Waits(a) /\ task'[a].pc \in {"idle", "report"}
    /\ a # Poller => task'[a].pc = "idle"
    /\ UNCHANGED <<conf, unloaded, up, todo, inbox>>
    /\ \E x \in Inst :
         /\ Turned(a, x) /\ x.mod = task[a].mod
         /\ \/ x.st = "dead" /\ UNCHANGED <<loaded, got, spoiled>>
            \/ x.st = "live" /\ UNCHANGED <<loaded, got>> /\ Left(a, TRUE)
            \/ /\ x.st = "live" /\ x.routes = inst[task[a].i].routes /\ task[a].pc = "starting"
               /\ spoiled' = spoiled
               /\ \/ /\ a # Loader /\ got' = got
                     /\ loaded' = [loaded EXCEPT ![task[a].mod] = task[a].i]
                  \/ /\ a = Loader /\ loaded' = loaded
                     /\ got' = [got EXCEPT ![task[a].mod] = task[a].i]

\* The stopped instance is followed by a new one
Restarts(a) ==
    /\ Only(a) /\ task[a].pc = "restarting"
    /\ \E b \in BOOLEAN :
         /\ Makes(a, task[a].mod, IF b THEN inst ELSE [inst EXCEPT ![task[a].i] = Gone(task[a].mod)])
         /\ Left(a, b)
    /\ task[a].mod # Forward /\ unloaded => unloaded'
    /\ UNCHANGED <<conf, got, up, todo, inbox>>

Settled(a) == task[a].mod \in Modules /\ task[a].i \in Instances /\ inst[task[a].i] \in Inst

LEMMA HandSettled ==
    ASSUME Held, NEW a \in Actors, Waits(a)
    PROVE  Settled(a) /\ inst = [i \in Instances |-> inst[i]]
  BY DEF Held, Holds, Settled

LEMMA RuntimeLets ==
    ASSUME Tasks, Held, spoiled \in [Modules -> BOOLEAN], NEW a \in Actors, Runtime(a)
    PROVE  Lets(a) \/ Restarts(a)
  <1>1. ASSUME NEW raised \in BOOLEAN, StopReturns(a, raised) PROVE Lets(a) \/ Restarts(a)
    <2> DEFINE is == IF raised THEN inst ELSE [inst EXCEPT ![task[a].i] = Gone(task[a].mod)]
    <2>1. /\ task[a].pc \in {"stopping", "restarting"} /\ Waits(a)
          /\ spoiled' = [spoiled EXCEPT ![task[a].mod] = @ \/ raised]
          /\ UNCHANGED <<up, conf, loaded, todo, got, inbox>>
      BY <1>1 DEF StopReturns, Waits, Awaiting
    <2>2. Settled(a) /\ inst = [i \in Instances |-> inst[i]] BY <2>1, HandSettled
    <2>3. CASE task[a].pc = "restarting"
      <3>1. Create(a, task[a].mod, conf.routes, is) BY <1>1, <2>3 DEF StopReturns
      <3>2. Await(a, "starting", task[a].mod, Fresh) /\ "starting" \in Awaiting
        BY <3>1 DEF Create, Awaiting
      <3>3. /\ Only(a) /\ task'[a].pc = "starting" /\ task'[a].mod = task[a].mod
            /\ task'[a].i = Fresh
        BY <3>2, AwaitValue
      <3>4. Makes(a, task[a].mod, is) BY <2>1, <3>1, <3>3 DEF Create, Makes
      <3>5. task[a].mod # Forward /\ unloaded => unloaded' BY <3>1 DEF Create
      <3> QED BY <2>1, <2>3, <3>3, <3>4, <3>5 DEF Restarts, Left
    <2>4. CASE task[a].pc = "stopping"
      <3>1. inst' = is /\ Finish(a) /\ unloaded' = unloaded BY <1>1, <2>4 DEF StopReturns
      <3>2. /\ Only(a) /\ task'[a].pc \in {"idle", "report"}
            /\ a # Poller => task'[a].pc = "idle"
        BY <3>1, FinishRests
      <3>3. CASE raised
        <4>1. Turned(a, inst[task[a].i]) BY <2>2, <3>1, <3>3 DEF Turned
        <4>2. inst[task[a].i].st = "live" /\ inst[task[a].i].mod = task[a].mod
          BY <2>1, <2>4 DEF Held, Holds
        <4>3. Left(a, TRUE) BY <2>1, <3>3 DEF Left
        <4> QED BY <2>1, <2>2, <3>1, <3>2, <4>1, <4>2, <4>3 DEF Lets, Settled
      <3>4. CASE ~raised
        <4> DEFINE x == Gone(task[a].mod)
        <4>1. Turned(a, x) /\ x \in Inst /\ x.mod = task[a].mod /\ x.st = "dead"
          BY <2>2, <3>1, <3>4 DEF Turned, Gone, Inst, Settled
        <4>2. spoiled' = spoiled BY <2>1, <2>2, <3>4 DEF Settled
        <4> HIDE DEF x
        <4> QED BY <2>1, <3>1, <3>2, <4>1, <4>2 DEF Lets
      <3> QED BY <3>3, <3>4
    <2> QED BY <2>1, <2>3, <2>4
  <1>2. CASE StartReturns(a)
    <2>1. /\ task[a].pc = "starting" /\ Waits(a) /\ a # Loader /\ Finish(a)
          /\ inst' = [inst EXCEPT ![task[a].i].st = "live"]
          /\ loaded' = [loaded EXCEPT ![task[a].mod] = task[a].i]
          /\ UNCHANGED <<conf, unloaded, up, todo, inbox, got, spoiled>>
      BY <1>2 DEF StartReturns, Waits, Awaiting
    <2>2. Settled(a) /\ inst[task[a].i].mod = task[a].mod
      BY <2>1, HandSettled DEF Held, Holds
    <2>3. /\ Only(a) /\ task'[a].pc \in {"idle", "report"}
          /\ a # Poller => task'[a].pc = "idle"
      BY <2>1, FinishRests
    <2> DEFINE x == [inst[task[a].i] EXCEPT !.st = "live"]
    <2>4. Turned(a, x) BY <2>1 DEF Turned
    <2>5. x \in Inst /\ x.mod = task[a].mod /\ x.st = "live" /\ x.routes = inst[task[a].i].routes
      BY <2>2 DEF Settled, Inst
    <2> HIDE DEF x
    <2> QED BY <2>1, <2>3, <2>4, <2>5 DEF Lets
  <1>3. ASSUME NEW left \in BOOLEAN, StartRaises(a, left) PROVE Lets(a)
    <2>1. /\ task[a].pc = "starting" /\ Waits(a) /\ Finish(a)
          /\ inst' = [inst EXCEPT ![task[a].i] =
                        IF left THEN [@ EXCEPT !.st = "live"] ELSE Gone(task[a].mod)]
          /\ spoiled' = [spoiled EXCEPT ![task[a].mod] = @ \/ left]
          /\ UNCHANGED <<conf, unloaded, up, todo, inbox, got, loaded>>
      BY <1>3 DEF StartRaises, Waits, Awaiting
    <2>2. Settled(a) /\ inst[task[a].i].mod = task[a].mod
      BY <2>1, HandSettled DEF Held, Holds
    <2>3. /\ Only(a) /\ task'[a].pc \in {"idle", "report"}
          /\ a # Poller => task'[a].pc = "idle"
      BY <2>1, FinishRests
    <2>4. CASE left
      <3> DEFINE x == [inst[task[a].i] EXCEPT !.st = "live"]
      <3>1. Turned(a, x) /\ Left(a, TRUE) BY <2>1, <2>4 DEF Turned, Left
      <3>2. x \in Inst /\ x.mod = task[a].mod /\ x.st = "live" BY <2>2 DEF Settled, Inst
      <3> HIDE DEF x
      <3> QED BY <2>1, <2>3, <3>1, <3>2 DEF Lets
    <2>5. CASE ~left
      <3> DEFINE x == Gone(task[a].mod)
      <3>1. Turned(a, x) /\ spoiled' = spoiled BY <2>1, <2>2, <2>5 DEF Turned, Settled
      <3>2. x \in Inst /\ x.mod = task[a].mod /\ x.st = "dead" BY <2>2 DEF Settled, Inst, Gone
      <3> HIDE DEF x
      <3> QED BY <2>1, <2>3, <3>1, <3>2 DEF Lets
    <2> QED BY <2>4, <2>5
  <1> QED BY <1>1, <1>2, <1>3 DEF Runtime

\* The loader goes on to the next module, starts it or passes it over
Loads ==
    /\ up = "loading" /\ task[Loader].pc = "idle" /\ todo # <<>> /\ todo' = Tail(todo)
    /\ \/ UNCHANGED <<inst, task, unloaded>>
       \/ Only(Loader) /\ Makes(Loader, Head(todo), inst)
          /\ (Head(todo) # Forward /\ unloaded => unloaded')
    /\ UNCHANGED <<conf, loaded, got, up, inbox, spoiled>>

LEMMA LoadNextLoads ==
    ASSUME Tasks, LoadNext
    PROVE  Loads
  <1>1. Loader \in Actors BY DEF Actors
  <1>2. /\ up = "loading" /\ task[Loader].pc = "idle" /\ todo # <<>> /\ todo' = Tail(todo)
        /\ UNCHANGED <<conf, loaded, got, up, inbox, spoiled>>
    BY DEF LoadNext, NotLoad
  <1>3. CASE UNCHANGED <<inst, task, unloaded>> BY <1>2, <1>3 DEF Loads
  <1>4. CASE Create(Loader, Head(todo), conf.routes, inst)
    <2>1. Await(Loader, "starting", Head(todo), Fresh) /\ "starting" \in Awaiting
      BY <1>4 DEF Create, Awaiting
    <2>2. /\ Only(Loader) /\ task'[Loader].pc = "starting" /\ task'[Loader].mod = Head(todo)
          /\ task'[Loader].i = Fresh
      BY <1>1, <2>1, AwaitValue
    <2>3. Makes(Loader, Head(todo), inst) BY <1>2, <1>4, <2>2 DEF Create, Makes
    <2>4. Head(todo) # Forward /\ unloaded => unloaded' BY <1>4 DEF Create
    <2> QED BY <1>2, <2>2, <2>3, <2>4 DEF Loads
  <1> QED BY <1>3, <1>4 DEF LoadNext

LEMMA LoaderLets ==
    ASSUME Tasks, Held, spoiled \in [Modules -> BOOLEAN],
           LoadReturns \/ \E left \in BOOLEAN : LoadRaises(left)
    PROVE  Lets(Loader)
  <1> DEFINE a == Loader
  <1>0. a \in Actors BY DEF Actors
  <1>1. /\ task[a].pc = "starting" /\ Waits(a) /\ Finish(a)
        /\ UNCHANGED <<conf, unloaded, up, todo, inbox, loaded>>
    BY DEF LoadReturns, LoadRaises, NotLoad, Waits, Awaiting
  <1>2. Settled(a) /\ inst[task[a].i].mod = task[a].mod
    BY <1>0, <1>1, HandSettled DEF Held, Holds
  <1>3. /\ Only(a) /\ task'[a].pc \in {"idle", "report"}
        /\ a # Poller => task'[a].pc = "idle"
    BY <1>0, <1>1, FinishRests
  <1> DEFINE x == [inst[task[a].i] EXCEPT !.st = "live"]
             y == Gone(task[a].mod)
  <1>4. x \in Inst /\ x.mod = task[a].mod /\ x.st = "live" /\ x.routes = inst[task[a].i].routes
    BY <1>2 DEF Settled, Inst
  <1>5. y \in Inst /\ y.mod = task[a].mod /\ y.st = "dead" BY <1>2 DEF Settled, Inst, Gone
  <1>6. CASE LoadReturns
    <2>1. Turned(a, x) /\ got' = [got EXCEPT ![task[a].mod] = task[a].i] /\ spoiled' = spoiled
      BY <1>6 DEF LoadReturns, Turned
    <2> HIDE DEF x, y
    <2> QED BY <1>1, <1>3, <1>4, <2>1 DEF Lets
  <1>7. ASSUME NEW left \in BOOLEAN, LoadRaises(left) PROVE Lets(a)
    <2>1. /\ inst' = [inst EXCEPT ![task[a].i] =
                        IF left THEN [@ EXCEPT !.st = "live"] ELSE Gone(task[a].mod)]
          /\ spoiled' = [spoiled EXCEPT ![task[a].mod] = @ \/ left] /\ got' = got
      BY <1>7 DEF LoadRaises
    <2>2. CASE left
      <3>1. Turned(a, x) /\ Left(a, TRUE) BY <2>1, <2>2 DEF Turned, Left
      <3> HIDE DEF x, y
      <3> QED BY <1>1, <1>3, <1>4, <2>1, <3>1 DEF Lets
    <2>3. CASE ~left
      <3>1. Turned(a, y) /\ spoiled' = spoiled BY <1>2, <2>1, <2>3 DEF Turned, Settled
      <3> HIDE DEF x, y
      <3> QED BY <1>1, <1>3, <1>5, <2>1, <3>1 DEF Lets
    <2> QED BY <2>2, <2>3
  <1> QED BY <1>6, <1>7

----------------------------------------------------------------------------
(* The steps of the process, by what they do to the runtime *)

Rooms == <<inst, loaded, got, task, spoiled, todo, unloaded, conf>>
Binds ==
    /\ up = "loading" /\ up' = "up" /\ task[Loader].pc = "idle" /\ todo = <<>>
    /\ loaded' = got /\ got' = [m \in Modules |-> 0]
    /\ UNCHANGED <<inst, task, spoiled, todo, unloaded, conf, inbox>>
Begins ==
    /\ Empty
    /\ \/ up = "down" /\ up' = "loading" /\ todo' = <<Control, Forward>>
       \/ up # "down" /\ up' = "down" /\ todo' = <<>>

LEMMA Effects ==
    ASSUME Tasks, conf \in Config, OnceInv, Held, Phase, spoiled \in [Modules -> BOOLEAN],
           [Next]_vars
    PROVE  \/ UNCHANGED <<Rooms, up>> /\ (inbox' \subseteq inbox \/ up = "up")
           \/ \E a \in Actors : Calls(a) /\ inbox' \subseteq inbox
           \/ \E a \in Actors : Lets(a) \/ Restarts(a)
           \/ Loads \/ Binds \/ Begins
  <1>1. ASSUME NEW a \in Admins, Chat(a) PROVE a \in Actors /\ Calls(a) /\ inbox' \subseteq inbox
    BY <1>1, ChatCalls DEF Actors
  <1>2. ASSUME NEW a \in Actors, Runtime(a) PROVE Lets(a) \/ Restarts(a)
    BY <1>2, RuntimeLets
  <1>3. CASE Remote BY <1>3, RemoteCalls, PollerIsNobody DEF Rooms
  <1>4. CASE Life
    <2>1. CASE Boot \/ Leave BY <2>1 DEF Boot, Leave, Begins
    <2>2. CASE Bind BY <2>2 DEF Bind, Binds, NotLoad
    <2>3. Loader \in Actors BY DEF Actors
    <2> QED BY <1>4, <2>1, <2>2, <2>3, LoadNextLoads, LoaderLets DEF Life
  <1>5. CASE UNCHANGED vars BY <1>5 DEF vars, memory, Rooms
  <1> QED BY <1>1, <1>2, <1>3, <1>4, <1>5 DEF Next

LEMMA EmptyHeld ==
    ASSUME Empty
    PROVE  Held' /\ spoiled' \in [Modules -> BOOLEAN] /\ \A m \in Modules : Live(m)' = {}
  <1>1. /\ inst' = [i \in Instances |-> NoInst] /\ task' = [a \in Actors |-> Idle]
        /\ loaded' = [m \in Modules |-> 0] /\ got' = [m \in Modules |-> 0]
        /\ spoiled' = [m \in Modules |-> FALSE]
    BY DEF Empty
  <1>2. NoInst \in Inst BY DEF NoInst, Inst, Modules
  <1>3. 0 \in 0..MaxStarts /\ \A i \in Instances : ~(i <= 0) BY ControlAssumption DEF Instances
  <1>4. \A i \in Instances : inst'[i].st # "none" <=> i <= 0 BY <1>1, <1>3 DEF NoInst
  <1>5. Numbered' BY <1>3, <1>4 DEF Numbered
  <1>6. \A a \in Actors : ~Waits(a)' BY <1>1 DEF Waits, Awaiting, Idle
  <1>7. \A m \in Modules : Live(m)' = {} BY <1>1 DEF Live, NoInst
  <1> QED BY <1>1, <1>2, <1>3, <1>5, <1>6, <1>7 DEF Held, Holds

LEMMA LetsHeld ==
    ASSUME Held, NEW a \in Actors, Lets(a)
    PROVE  Held'
  <1>1. ~Waits(a)' BY DEF Lets, Waits, Awaiting
  <1> QED BY <1>1, TurnedHeld DEF Lets

LEMMA RestartsHeld ==
    ASSUME Held, NEW a \in Actors, Restarts(a), conf' \in Config
    PROVE  Held'
  <1>1. Waits(a) /\ Only(a) /\ got' = got BY DEF Restarts, Waits, Awaiting
  <1>2. Settled(a) /\ inst[task[a].i].mod = task[a].mod BY <1>1, HandSettled DEF Held, Holds
  <1>3. PICK b \in BOOLEAN :
          Makes(a, task[a].mod, IF b THEN inst ELSE [inst EXCEPT ![task[a].i] = Gone(task[a].mod)])
    BY DEF Restarts
  <1> DEFINE is == IF b THEN inst ELSE [inst EXCEPT ![task[a].i] = Gone(task[a].mod)]
  <1>4. Mostly(is, a)
    <2>1. Gone(task[a].mod) \in Inst BY <1>2 DEF Settled, Inst, Gone
    <2> QED BY <1>1, <1>2, <2>1 DEF Held, Mostly, Settled, Gone
  <1> HIDE DEF is
  <1> QED BY <1>1, <1>2, <1>3, <1>4, MakesHeld DEF Settled, Config, is

LEMMA LoadsHeld ==
    ASSUME Held, Phase, Loads, conf' \in Config
    PROVE  Held'
  <1>1. Loader \in Actors BY DEF Actors
  <1>2. CASE UNCHANGED <<inst, task>>
    BY <1>2 DEF Loads, Held, Numbered, Live, Holds, Waits
  <1>3. CASE Only(Loader) /\ Makes(Loader, Head(todo), inst)
    <2>1. Head(todo) \in Modules
      <3>1. todo = <<Forward>> \/ todo = <<Control, Forward>> BY DEF Loads, Phase
      <3> QED BY <3>1 DEF Modules
    <2>2. Mostly(inst, Loader) BY DEF Held, Mostly
    <2> QED BY <1>1, <1>3, <2>1, <2>2, MakesHeld DEF Loads, Config
  <1> QED BY <1>2, <1>3 DEF Loads

LEMMA BindsHeld ==
    ASSUME Held, Phase, Binds
    PROVE  Held'
  <1>1. /\ loaded' = got /\ got' = [m \in Modules |-> 0] /\ inst' = inst /\ task' = task
    BY DEF Binds
  <1>2. \A a \in Actors : Waits(a) => task[a].i # 0 BY DEF Held, Holds, Instances
  <1>3. \A a \in Actors : Holds(a)' BY <1>1, <1>2 DEF Held, Holds, Waits
  <1>4. 0 \in 0..MaxStarts BY ControlAssumption
  <1> QED BY <1>1, <1>3, <1>4 DEF Held, Numbered, Live

Founded == Tasks /\ OnceInv /\ conf \in Config /\ conf' \in Config

LEMMA HeldStep ==
    ASSUME Founded, Held, Phase, spoiled \in [Modules -> BOOLEAN], [Next]_vars
    PROVE  Held' /\ spoiled' \in [Modules -> BOOLEAN]
  <1>1. CASE UNCHANGED <<Rooms, up>>
    BY <1>1 DEF Rooms, Held, Numbered, Live, Holds, Waits
  <1>2. ASSUME NEW a \in Actors, Calls(a) PROVE Held' /\ spoiled' \in [Modules -> BOOLEAN]
    <2>1. Held' BY <1>2, CallsHeld DEF Founded
    <2>2. spoiled' = spoiled \/ \E m \in Modules : Marks(a, m)
      BY <1>2 DEF Calls, Does, Rests, Pops
    <2> QED BY <2>1, <2>2 DEF Marks
  <1>3. ASSUME NEW a \in Actors, Lets(a) PROVE Held' /\ spoiled' \in [Modules -> BOOLEAN]
    BY <1>3, LetsHeld DEF Lets, Left
  <1>4. ASSUME NEW a \in Actors, Restarts(a) PROVE Held' /\ spoiled' \in [Modules -> BOOLEAN]
    BY <1>4, RestartsHeld DEF Founded, Restarts, Left
  <1>5. CASE Loads BY <1>5, LoadsHeld DEF Founded, Loads
  <1>6. CASE Binds BY <1>6, BindsHeld DEF Binds
  <1>7. CASE Begins BY <1>7, EmptyHeld DEF Begins
  <1> QED BY <1>1, <1>2, <1>3, <1>4, <1>5, <1>6, <1>7, Effects DEF Founded

(* Which phase the process is in.                                            *)
LEMMA PhaseStep ==
    ASSUME Founded, Held, Phase, spoiled \in [Modules -> BOOLEAN], [Next]_vars
    PROVE  Phase'
  <1>0. Loader \in Actors /\ Loader # Poller BY PollerIsNobody DEF Actors
  <1>1. CASE UNCHANGED <<Rooms, up>> /\ (inbox' \subseteq inbox \/ up = "up")
    BY <1>1 DEF Rooms, Phase, Live
  <1>2. ASSUME NEW a \in Actors, Calls(a), inbox' \subseteq inbox PROVE Phase'
    <2>1. /\ Only(a) /\ UNCHANGED <<up, todo, got>> /\ up # "down" /\ a # Loader
          /\ task'[a].pc \in Awaiting \cup {"idle", "checking", "report"}
      BY <1>2 DEF Calls, Does, Phase
    <2> QED BY <1>0, <1>2, <2>1 DEF Phase, Only
  <1>3. ASSUME NEW a \in Actors, Lets(a) PROVE Phase'
    <2>1. /\ Only(a) /\ UNCHANGED <<up, todo, inbox>> /\ task[a].pc # "idle"
          /\ task'[a].pc \in {"idle", "report"} /\ (a = Loader => task'[a].pc = "idle")
          /\ got' = got \/ a = Loader
      BY <1>0, <1>3 DEF Lets, Waits, Awaiting
    <2>2. up # "down" /\ (a = Loader => up = "loading") BY <2>1 DEF Phase
    <2> QED BY <2>1, <2>2, <1>0 DEF Phase, Only
  <1>4. ASSUME NEW a \in Actors, Restarts(a) PROVE Phase'
    <2>1. /\ Only(a) /\ UNCHANGED <<up, todo, inbox, got>> /\ task[a].pc = "restarting"
          /\ task'[a].pc = "starting"
      BY <1>4 DEF Restarts, Makes
    <2>2. up # "down" /\ a # Loader BY <1>0, <2>1 DEF Phase
    <2> QED BY <1>0, <2>1, <2>2 DEF Phase, Only, Awaiting
  <1>5. CASE Loads
    <2>1. Tail(todo) \in {<<>>, <<Forward>>}
      <3>1. todo = <<Forward>> \/ todo = <<Control, Forward>> BY <1>5 DEF Loads, Phase
      <3>2. Tail(<<Forward>>) = <<>> OBVIOUS
      <3>3. Tail(<<Control, Forward>>) = <<Forward>> OBVIOUS
      <3> QED BY <3>1, <3>2, <3>3
    <2>2. task' = task \/ (Only(Loader) /\ task'[Loader].pc = "starting") BY <1>5 DEF Loads, Makes
    <2>3. UNCHANGED <<got, up, inbox>> /\ todo' = Tail(todo) /\ up = "loading" BY <1>5 DEF Loads
    <2> QED BY <1>0, <2>1, <2>2, <2>3 DEF Phase, Only, Awaiting
  <1>6. CASE Binds
    BY <1>6 DEF Binds, Phase
  <1>7. CASE Begins
    <2>1. \A a \in Actors : task'[a].pc = "idle" BY <1>7, EmptyTasks DEF Begins, Idle
    <2>2. inbox' = {} /\ \A m \in Modules : loaded'[m] = 0 /\ got'[m] = 0
      BY <1>7 DEF Begins, Empty
    <2>3. \A m \in Modules : Live(m)' = {} BY <1>7, EmptyHeld DEF Begins
    <2> QED BY <1>0, <1>7, <2>1, <2>2, <2>3 DEF Begins, Phase
  <1> QED BY <1>1, <1>2, <1>3, <1>4, <1>5, <1>6, <1>7, Effects DEF Founded

----------------------------------------------------------------------------
(* Calm: as long as nothing has spoiled a module, one hand at most is at it, *)
(* and its live instance is the loaded one or the one in that hand.          *)

Pending(m) == (m = Forward /\ todo # <<>>) \/ (m = Control /\ todo = <<Control, Forward>>)
OneHand(m) ==
    /\ \A a, b \in Busy(m) : a = b
    /\ Busy(m) # {} => loaded[m] = 0
    /\ Live(m) \subseteq {loaded[m]} \cup {task[a].i : a \in Busy(m)}
LoadersHand(m) ==
    /\ loaded[m] = 0 /\ Busy(m) \subseteq {Loader} /\ Live(m) \subseteq {got[m]}
    /\ Busy(m) # {} \/ Pending(m) => got[m] = 0
    /\ Pending(m) => Busy(m) = {}
Calm ==
    \A m \in Modules : ~spoiled[m] =>
      /\ up = "up" => OneHand(m)
      /\ up = "loading" => LoadersHand(m)

Marked == spoiled \in [Modules -> BOOLEAN]

LEMMA BusyOnly ==
    ASSUME NEW a \in Actors, Only(a), NEW m
    PROVE  /\ Busy(m) \ {a} = Busy(m)' \ {a}
           /\ a \in Busy(m) <=> Waits(a) /\ task[a].mod = m
           /\ a \in Busy(m)' <=> Waits(a)' /\ task'[a].mod = m
           /\ \A b \in Busy(m) \ {a} : task'[b] = task[b]
           /\ (a \in Busy(m) <=> a \in Busy(m)') => Busy(m)' = Busy(m)
  <1>1. \A b \in Actors \ {a} : b \in Busy(m) <=> b \in Busy(m)' BY DEF Busy, Only
  <1>2. Busy(m) \subseteq Actors /\ Busy(m)' \subseteq Actors BY DEF Busy
  <1>3. ASSUME a \in Busy(m) <=> a \in Busy(m)' PROVE Busy(m)' = Busy(m) BY <1>1, <1>2, <1>3
  <1>4. a \in Busy(m) <=> Waits(a) /\ task[a].mod = m BY DEF Busy, Waits
  <1>5. a \in Busy(m)' <=> Waits(a)' /\ task'[a].mod = m BY DEF Busy, Waits
  <1> QED BY <1>1, <1>2, <1>3, <1>4, <1>5 DEF Only

(* The hands and instances of a module that a step does not touch.           *)
LEMMA CalmApart ==
    ASSUME Calm, NEW m \in Modules, ~spoiled[m], up' = up, todo' = todo, Busy(m)' = Busy(m),
           \A b \in Busy(m) : task'[b].i = task[b].i, Live(m)' = Live(m),
           loaded'[m] = loaded[m], got'[m] = got[m]
    PROVE  (up' = "up" => OneHand(m)') /\ (up' = "loading" => LoadersHand(m)')
  BY DEF Calm, OneHand, LoadersHand, Pending

LEMMA CalmCalls ==
    ASSUME Held, Phase, Marked, Calm, NEW a \in Actors, Calls(a)
    PROVE  Calm'
  <1>1. /\ Only(a) /\ ~Waits(a) /\ UNCHANGED <<up, todo, got>>
    BY DEF Calls, Does
  <1> SUFFICES ASSUME NEW m \in Modules, ~spoiled'[m]
               PROVE  (up' = "up" => OneHand(m)') /\ (up' = "loading" => LoadersHand(m)')
    BY DEF Calm
  <1>2. \A n \in Modules : Marks(a, n) => (spoiled'[m] <=> spoiled[m] \/ (n = m /\ Overlap(a, m)))
    BY DEF Marks, Marked
  <1>3. ~spoiled[m] BY <1>2 DEF Calls, Does, Rests, Pops
  <1>4. a \notin Busy(m) BY <1>1, BusyOnly
  <1>5. CASE Rests(a)
    <2>1. a \notin Busy(m)' BY <1>1, <1>5, BusyOnly DEF Rests, Waits
    <2>2. Busy(m)' = Busy(m) /\ \A b \in Busy(m) : task'[b] = task[b] BY <1>1, <1>4, <2>1, BusyOnly
    <2> QED BY <1>1, <1>3, <1>5, <2>2, CalmApart DEF Rests, Live
  <1>6. ASSUME NEW n \in Modules, Pops(a, n) \/ (loaded[n] = 0 /\ Makes(a, n, inst) /\ Marks(a, n))
        PROVE  (up' = "up" => OneHand(m)') /\ (up' = "loading" => LoadersHand(m)')
    <2>1. /\ Waits(a)' /\ task'[a].mod = n /\ Marks(a, n)
          /\ loaded'[m] = IF n = m THEN 0 ELSE loaded[m]
      BY <1>6 DEF Pops, Makes, Waits, Awaiting, Held
    <2>2. Live(m)' = Live(m)
      <3>1. CASE Pops(a, n) BY <3>1 DEF Pops, Live
      <3>2. CASE Makes(a, n, inst)
        <4>1. Fresh \in Instances /\ inst[Fresh].st = "none" BY <3>2, FreshFree DEF Makes
        <4>2. inst' = [inst EXCEPT ![Fresh] = [mod |-> n, st |-> "starting", routes |-> conf'.routes]]
          BY <3>2 DEF Makes
        <4>3. inst'[Fresh].st = "starting" /\ \A i \in Instances \ {Fresh} : inst'[i] = inst[i]
          BY <4>1, <4>2 DEF Held
        <4> QED BY <4>1, <4>3 DEF Live
      <3> QED BY <1>6, <3>1, <3>2
    <2>3. CASE n # m
      <3>1. Busy(m)' = Busy(m) /\ \A b \in Busy(m) : task'[b] = task[b]
        BY <1>1, <1>4, <2>1, <2>3, BusyOnly
      <3> QED BY <1>1, <1>3, <2>1, <2>2, <2>3, <3>1, CalmApart
    <2>4. CASE n = m
      <3>1. ~Overlap(a, m) BY <1>2, <2>1, <2>4
      <3>2. up = "up" /\ Busy(m) = {} BY <1>4, <3>1 DEF Overlap, Calls, Phase
      <3>3. Busy(m)' = {a} BY <1>1, <2>1, <2>4, <3>2, BusyOnly
      <3>4. Live(m) \subseteq {loaded[m]} BY <1>3, <3>2 DEF Calm, OneHand
      <3>5. Live(m)' \subseteq {0} \cup {task'[a].i}
        <4>1. CASE Pops(a, n) BY <2>2, <2>4, <3>4, <4>1 DEF Pops
        <4>2. CASE loaded[n] = 0 BY <2>2, <2>4, <3>4, <4>2
        <4> QED BY <1>6, <4>1, <4>2
      <3> QED BY <1>1, <2>1, <2>4, <3>2, <3>3, <3>5 DEF OneHand
    <2> QED BY <2>3, <2>4
  <1> QED BY <1>5, <1>6 DEF Calls, Does

LEMMA CalmLets ==
    ASSUME Held, Phase, Marked, Calm, NEW a \in Actors, Lets(a)
    PROVE  Calm'
  <1> DEFINE n == task[a].mod
             i == task[a].i
  <1>1. /\ Only(a) /\ Waits(a) /\ ~Waits(a)' /\ UNCHANGED <<up, todo>>
    BY DEF Lets, Waits, Awaiting
  <1>2. n \in Modules /\ i \in Instances /\ inst[i].mod = n BY <1>1 DEF Held, Holds
  <1>3. PICK x \in Inst :
         /\ Turned(a, x) /\ x.mod = n
         /\ \/ x.st = "dead" /\ UNCHANGED <<loaded, got, spoiled>>
            \/ x.st = "live" /\ UNCHANGED <<loaded, got>> /\ Left(a, TRUE)
            \/ /\ x.st = "live" /\ task[a].pc = "starting" /\ spoiled' = spoiled
               /\ \/ a # Loader /\ got' = got /\ loaded' = [loaded EXCEPT ![n] = i]
                  \/ a = Loader /\ loaded' = loaded /\ got' = [got EXCEPT ![n] = i]
    BY DEF Lets
  <1>4. inst'[i] = x /\ \A j \in Instances \ {i} : inst'[j] = inst[j]
    BY <1>2, <1>3 DEF Turned, Held
  <1> SUFFICES ASSUME NEW m \in Modules, ~spoiled'[m]
               PROVE  (up' = "up" => OneHand(m)') /\ (up' = "loading" => LoadersHand(m)')
    BY DEF Calm
  <1>5. ~spoiled[m] BY <1>2, <1>3 DEF Left, Marked
  <1>6. CASE n # m
    <2>1. Busy(m)' = Busy(m) /\ \A b \in Busy(m) : task'[b] = task[b]
      BY <1>1, <1>6, BusyOnly
    <2>2. Live(m)' = Live(m) BY <1>2, <1>3, <1>4, <1>6 DEF Live
    <2>3. loaded'[m] = loaded[m] /\ got'[m] = got[m] BY <1>3, <1>6 DEF Held
    <2> QED BY <1>1, <1>5, <2>1, <2>2, <2>3, CalmApart
  <1>7. CASE n = m
    <2>1. a \in Busy(m) /\ a \notin Busy(m)' BY <1>1, <1>7, BusyOnly
    <2>2. Busy(m)' = Busy(m) \ {a} BY <1>1, <2>1, BusyOnly
    <2>3. Live(m)' = IF x.st = "live" THEN Live(m) \cup {i} ELSE Live(m) \ {i}
      BY <1>2, <1>3, <1>4, <1>7 DEF Live
    <2>4. ~Left(a, TRUE) BY <1>2, <1>7 DEF Left, Marked
    <2>5. CASE up = "up"
      <3>1. OneHand(m) BY <1>5, <2>5 DEF Calm
      <3>2. Busy(m) = {a} /\ loaded[m] = 0 /\ a # Loader
        BY <1>1, <2>1, <2>5, <3>1 DEF OneHand, Phase, Waits, Awaiting
      <3>3. Live(m) \subseteq {0, i} BY <3>1, <3>2 DEF OneHand
      <3>4. 0 \notin Live(m) BY DEF Live, Instances
      <3>5. Busy(m)' = {} BY <2>2, <3>2
      <3>6. Live(m)' \subseteq {loaded'[m]}
        <4>1. CASE x.st = "dead" BY <2>3, <3>3, <3>4, <4>1
        <4>2. CASE x.st = "live"
          <5>1. loaded' = [loaded EXCEPT ![n] = i] BY <1>3, <2>4, <3>2, <4>2
          <5>2. loaded'[m] = i BY <1>7, <5>1 DEF Held
          <5> QED BY <2>3, <3>3, <3>4, <4>2, <5>2
        <4> QED BY <1>3, <4>1, <4>2
      <3> QED BY <1>1, <2>5, <3>5, <3>6 DEF OneHand
    <2>6. CASE up = "loading"
      <3>1. LoadersHand(m) BY <1>5, <2>6 DEF Calm
      <3>2. a = Loader /\ Busy(m) = {a} /\ got[m] = 0 /\ ~Pending(m) /\ loaded[m] = 0
        BY <2>1, <3>1 DEF LoadersHand
      <3>3. Live(m) = {} /\ Busy(m)' = {} /\ ~Pending(m)'
        <4>1. 0 \notin Live(m) BY DEF Live, Instances
        <4> QED BY <1>1, <2>2, <3>1, <3>2, <4>1 DEF LoadersHand, Pending
      <3>4. Live(m)' \subseteq {got'[m]} /\ loaded'[m] = 0
        BY <1>2, <1>3, <1>7, <2>3, <2>4, <3>2, <3>3 DEF Held
      <3> QED BY <1>1, <2>6, <3>3, <3>4 DEF LoadersHand
    <2> QED BY <1>1, <2>5, <2>6
  <1> QED BY <1>6, <1>7

LEMMA CalmRestarts ==
    ASSUME Held, Phase, Marked, Calm, NEW a \in Actors, Restarts(a)
    PROVE  Calm'
  <1> DEFINE n == task[a].mod
             i == task[a].i
  <1>1. /\ Only(a) /\ Waits(a) /\ task[a].pc = "restarting" /\ UNCHANGED <<up, todo, got>>
    BY DEF Restarts, Waits, Awaiting
  <1>2. n \in Modules /\ i \in Instances /\ inst[i].mod = n BY <1>1 DEF Held, Holds
  <1>3. PICK b \in BOOLEAN :
         /\ Makes(a, n, IF b THEN inst ELSE [inst EXCEPT ![i] = Gone(n)])
         /\ Left(a, b)
    BY DEF Restarts
  <1> DEFINE is == IF b THEN inst ELSE [inst EXCEPT ![i] = Gone(n)]
  <1>4. /\ inst' = [is EXCEPT ![Fresh] = [mod |-> n, st |-> "starting", routes |-> conf'.routes]]
        /\ Fresh \in Instances /\ inst[Fresh].st = "none" /\ loaded' = loaded
        /\ Waits(a)' /\ task'[a].mod = n
    BY <1>3, FreshFree DEF Makes, Waits, Awaiting
  <1>5. /\ inst'[Fresh].st = "starting"
        /\ ~b => inst'[i].st # "live"
        /\ \A j \in Instances \ {Fresh, i} : inst'[j] = inst[j]
        /\ inst'[i].mod = n \/ i = Fresh
        /\ b => inst'[i] = inst[i] \/ i = Fresh
    BY <1>2, <1>4 DEF Held, Gone
  <1> SUFFICES ASSUME NEW m \in Modules, ~spoiled'[m]
               PROVE  (up' = "up" => OneHand(m)') /\ (up' = "loading" => LoadersHand(m)')
    BY DEF Calm
  <1>6. ~spoiled[m] /\ (n = m => ~b) BY <1>2, <1>3 DEF Left, Marked
  <1>7. CASE n # m
    <2>1. a \notin Busy(m) /\ a \notin Busy(m)' BY <1>1, <1>4, <1>7, BusyOnly
    <2>2. Busy(m)' = Busy(m) /\ \A c \in Busy(m) : task'[c] = task[c] BY <1>1, <2>1, BusyOnly
    <2>3. Live(m)' = Live(m) BY <1>2, <1>4, <1>5, <1>7 DEF Live
    <2> QED BY <1>1, <1>4, <1>6, <2>2, <2>3, CalmApart
  <1>8. CASE n = m
    <2>1. a \in Busy(m) /\ Busy(m)' = Busy(m)
      <3>1. a \in Busy(m) /\ a \in Busy(m)' BY <1>1, <1>4, <1>8, BusyOnly
      <3> QED BY <1>1, <3>1, BusyOnly
    <2>2. up = "up"
      <3>1. a # Loader BY <1>1 DEF Phase
      <3>2. up = "loading" => LoadersHand(m) BY <1>6 DEF Calm
      <3>3. up # "down" BY <1>1 DEF Phase
      <3> QED BY <2>1, <3>1, <3>2, <3>3 DEF LoadersHand, Phase
    <2>3. OneHand(m) BY <1>6, <2>2 DEF Calm
    <2>4. Busy(m) = {a} /\ loaded[m] = 0 BY <2>1, <2>3 DEF OneHand
    <2>5. Live(m) \subseteq {i}
      <3>1. 0 \notin Live(m) BY DEF Live, Instances
      <3> QED BY <2>3, <2>4, <3>1 DEF OneHand
    <2>6. Live(m)' = {}
      <3> SUFFICES ASSUME NEW j \in Live(m)' PROVE FALSE
        OBVIOUS
      <3>1. j \in Instances /\ inst'[j].st = "live" /\ inst'[j].mod = m BY DEF Live
      <3>2. j # Fresh /\ j # i BY <1>5, <1>6, <1>8, <3>1
      <3>3. j \in Live(m) BY <1>5, <3>1, <3>2 DEF Live
      <3> QED BY <2>5, <3>2, <3>3
    <2> QED BY <1>1, <1>4, <2>1, <2>2, <2>3, <2>4, <2>6 DEF OneHand
  <1> QED BY <1>7, <1>8

LEMMA PendingLoads ==
    ASSUME Phase, Loads
    PROVE  /\ Head(todo) \in Modules /\ Pending(Head(todo))
           /\ \A m \in Modules : Pending(m)' => Pending(m) /\ m # Head(todo)
  <1>1. todo = <<Forward>> \/ todo = <<Control, Forward>> BY DEF Loads, Phase
  <1>2. /\ Tail(<<Forward>>) = <<>> /\ Tail(<<Control, Forward>>) = <<Forward>>
        /\ Head(<<Forward>>) = Forward /\ Head(<<Control, Forward>>) = Control
        /\ Len(<<Forward>>) = 1 /\ Len(<<Control, Forward>>) = 2 /\ <<Forward>> # <<>>
    OBVIOUS
  <1>3. todo' = Tail(todo) BY DEF Loads
  <1>4. <<Forward>> # <<Control, Forward>> /\ <<Control, Forward>> # <<>> /\ <<>> # <<Control, Forward>>
    BY <1>2
  <1> QED BY <1>1, <1>2, <1>3, <1>4, ControlAssumption DEF Pending, Modules

LEMMA CalmLoads ==
    ASSUME Held, Phase, Marked, Calm, Loads
    PROVE  Calm'
  <1>0. Loader \in Actors BY DEF Actors
  <1>1. /\ UNCHANGED <<loaded, got, up, spoiled>> /\ up = "loading" /\ task[Loader].pc = "idle"
    BY DEF Loads
  <1> SUFFICES ASSUME NEW m \in Modules, ~spoiled[m] PROVE LoadersHand(m)'
    BY <1>1 DEF Calm
  <1>2. LoadersHand(m) /\ (Pending(m)' => Pending(m)) BY <1>1, PendingLoads DEF Calm
  <1>3. CASE UNCHANGED <<inst, task>>
    BY <1>1, <1>2, <1>3 DEF LoadersHand, Busy, Live
  <1>4. CASE Only(Loader) /\ Makes(Loader, Head(todo), inst)
    <2>1. Fresh \in Instances /\ inst[Fresh].st = "none" /\ inst'[Fresh].st = "starting"
          /\ \A j \in Instances \ {Fresh} : inst'[j] = inst[j]
      BY <1>4, FreshFree DEF Makes, Held
    <2>2. Live(m)' = Live(m) BY <2>1 DEF Live
    <2>3. Busy(m)' = Busy(m) \cup (IF Head(todo) = m THEN {Loader} ELSE {})
      <3>1. ~Waits(Loader) /\ Waits(Loader)' /\ task'[Loader].mod = Head(todo)
        BY <1>1, <1>4 DEF Waits, Awaiting, Makes
      <3> QED BY <1>0, <1>4, <3>1, BusyOnly
    <2>4. Head(todo) = m => got[m] = 0 /\ ~Pending(m)' BY <1>2, PendingLoads DEF LoadersHand
    <2> QED BY <1>1, <1>2, <2>2, <2>3, <2>4 DEF LoadersHand
  <1> QED BY <1>3, <1>4 DEF Loads

LEMMA CalmBinds ==
    ASSUME Held, Phase, Marked, Calm, Binds
    PROVE  Calm'
  <1>1. /\ up = "loading" /\ up' = "up" /\ task[Loader].pc = "idle"
        /\ loaded' = got /\ UNCHANGED <<inst, task, spoiled>>
    BY DEF Binds
  <1> SUFFICES ASSUME NEW m \in Modules, ~spoiled[m] PROVE OneHand(m)'
    BY <1>1 DEF Calm
  <1>2. LoadersHand(m) BY <1>1 DEF Calm
  <1>3. Busy(m) = {} BY <1>1, <1>2 DEF LoadersHand, Busy, Awaiting
  <1>4. Busy(m)' = {} /\ Live(m)' = Live(m) BY <1>1, <1>3 DEF Busy, Live
  <1> QED BY <1>1, <1>2, <1>4 DEF OneHand, LoadersHand

LEMMA CalmBegins ==
    ASSUME Begins
    PROVE  Calm'
  <1>1. \A m \in Modules : loaded'[m] = 0 /\ got'[m] = 0 /\ Live(m)' = {}
    BY EmptyHeld DEF Begins, Empty
  <1>2. \A m \in Modules : Busy(m)' = {}
    BY EmptyTasks DEF Begins, Busy, Idle, Awaiting
  <1> QED BY <1>1, <1>2 DEF Calm, OneHand, LoadersHand

LEMMA CalmStep ==
    ASSUME Founded, Held, Phase, Marked, Calm, [Next]_vars
    PROVE  Calm'
  <1>1. CASE UNCHANGED <<Rooms, up>>
    BY <1>1 DEF Rooms, Calm, OneHand, LoadersHand, Busy, Live, Pending
  <1> QED BY <1>1, CalmCalls, CalmLets, CalmRestarts, CalmLoads, CalmBinds, CalmBegins, Effects
      DEF Founded, Marked

----------------------------------------------------------------------------
(* Fed: what is loaded of channel_forward, and what is on its way there, has *)
(* the routes that are saved.                                                *)

Serves(i) == i # 0 => inst[i].routes = conf.routes
InUse == ~spoiled[Forward] /\ ~unloaded /\ conf.on[Forward] /\ up # "down"
AllServe ==
    /\ Serves(loaded[Forward]) /\ Serves(got[Forward])
    /\ \A a \in Busy(Forward) : task[a].pc = "starting" => Serves(task[a].i)
Fed == InUse => AllServe

(* Making an instance leaves those in use alone.                             *)
LEMMA MadeApart ==
    ASSUME Held, NEW a \in Actors, NEW m, Makes(a, m, inst)
    PROVE  /\ inst'[Fresh].routes = conf'.routes
           /\ \A i \in Instances : inst[i].st # "none" => inst'[i] = inst[i]
  <1>1. Fresh \in Instances /\ inst[Fresh].st = "none" BY FreshFree DEF Makes
  <1> QED BY <1>1 DEF Makes, Held

\* The instances that some hand or place holds
LEMMA InUseMade ==
    ASSUME Held
    PROVE  /\ \A m \in Modules : loaded[m] # 0 => loaded[m] \in Instances /\ inst[loaded[m]].st # "none"
           /\ \A m \in Modules : got[m] # 0 => got[m] \in Instances /\ inst[got[m]].st # "none"
           /\ \A m : \A a \in Busy(m) : task[a].i \in Instances /\ inst[task[a].i].st # "none"
  BY DEF Held, Holds, Live, Busy, Waits

LEMMA FedCalls ==
    ASSUME Held, Phase, Marked, Fed, NEW a \in Actors, Calls(a)
    PROVE  Fed'
  <1> SUFFICES ASSUME InUse' PROVE AllServe' BY DEF Fed
  <1>0. Forward \in Modules BY DEF Modules
  <1>1. /\ Only(a) /\ ~Waits(a) /\ UNCHANGED <<up, todo, got>> BY DEF Calls, Does
  <1>2. \A n \in Modules :
          Marks(a, n) => (spoiled'[Forward] <=> spoiled[Forward] \/ (n = Forward /\ Overlap(a, Forward)))
    BY <1>0 DEF Marks, Marked
  <1>3. ~spoiled[Forward] BY <1>2 DEF InUse, Calls, Does, Rests, Pops
  <1>4. a \notin Busy(Forward) BY <1>1, BusyOnly
  <1>5. ASSUME Keeps PROVE AllServe /\ conf'.routes = conf.routes
    BY <1>1, <1>3, <1>5 DEF Keeps, Fed, InUse
  <1>6. CASE Rests(a) /\ Keeps
    <2>1. a \notin Busy(Forward)' BY <1>1, <1>6, BusyOnly DEF Rests, Waits
    <2>2. Busy(Forward)' = Busy(Forward) /\ \A b \in Busy(Forward) : task'[b] = task[b]
      BY <1>1, <1>4, <2>1, BusyOnly
    <2> QED BY <1>1, <1>5, <1>6, <2>2 DEF AllServe, Serves, Rests
  <1>7. ASSUME NEW n \in Modules, Pops(a, n) \/ (loaded[n] = 0 /\ Makes(a, n, inst) /\ Marks(a, n)),
               n # Forward => Keeps
        PROVE  AllServe'
    <2>1. /\ Waits(a)' /\ task'[a].mod = n /\ Marks(a, n)
          /\ loaded'[Forward] = IF n = Forward THEN 0 ELSE loaded[Forward]
      BY <1>0, <1>7 DEF Pops, Makes, Waits, Awaiting, Held
    <2>2. \A i \in Instances : inst[i].st # "none" => inst'[i] = inst[i]
      BY <1>7, MadeApart DEF Pops
    <2>3. CASE n # Forward
      <3>1. a \notin Busy(Forward)' BY <1>1, <2>1, <2>3, BusyOnly
      <3>2. Busy(Forward)' = Busy(Forward) /\ \A b \in Busy(Forward) : task'[b] = task[b]
        BY <1>1, <1>4, <3>1, BusyOnly
      <3>3. AllServe /\ conf'.routes = conf.routes BY <1>5, <1>7, <2>3
      <3>4. Serves(loaded[Forward])' /\ Serves(got[Forward])'
        BY <1>0, <1>1, <2>1, <2>2, <2>3, <3>3, InUseMade DEF AllServe, Serves
      <3>5. ASSUME NEW b \in Busy(Forward), task[b].pc = "starting" PROVE Serves(task[b].i)'
        <4>1. inst'[task[b].i] = inst[task[b].i] BY <2>2, InUseMade
        <4> QED BY <3>2, <3>3, <3>5, <4>1 DEF AllServe, Serves
      <3> QED BY <3>2, <3>4, <3>5 DEF AllServe
    <2>4. CASE n = Forward
      <3>1. ~Overlap(a, Forward) BY <1>2, <2>1, <2>4 DEF InUse
      <3>2. up = "up" /\ Busy(Forward) = {} BY <1>4, <3>1 DEF Overlap, Calls, Phase
      <3>3. Busy(Forward)' \subseteq {a} BY <1>1, <3>2, BusyOnly
      <3>4. loaded'[Forward] = 0 /\ got'[Forward] = 0 BY <1>0, <1>1, <2>1, <2>4, <3>2 DEF Phase
      <3>5. task'[a].pc = "starting" => inst'[task'[a].i].routes = conf'.routes
        BY <1>7, MadeApart DEF Pops, Makes
      <3> QED BY <3>3, <3>4, <3>5 DEF AllServe, Serves
    <2> QED BY <2>3, <2>4
  <1> QED BY <1>6, <1>7 DEF Calls, Does

LEMMA FedLets ==
    ASSUME Held, Phase, Marked, Fed, NEW a \in Actors, Lets(a)
    PROVE  Fed'
  <1> SUFFICES ASSUME InUse' PROVE AllServe' BY DEF Fed
  <1> DEFINE n == task[a].mod
             i == task[a].i
  <1>0. Forward \in Modules BY DEF Modules
  <1>1. /\ Only(a) /\ Waits(a) /\ ~Waits(a)' /\ UNCHANGED <<up, conf, unloaded>>
    BY DEF Lets, Waits, Awaiting
  <1>2. /\ n \in Modules /\ i \in Instances /\ inst[i].mod = n
        /\ \A m \in Modules : i # loaded[m] /\ i # got[m]
        /\ \A b \in Actors \ {a} : Waits(b) => task[b].i # i
    BY <1>1 DEF Held, Holds
  <1>3. PICK x \in Inst :
         /\ Turned(a, x)
         /\ \/ UNCHANGED <<loaded, got, spoiled>>
            \/ UNCHANGED <<loaded, got>> /\ Left(a, TRUE)
            \/ /\ x.routes = inst[i].routes /\ task[a].pc = "starting" /\ spoiled' = spoiled
               /\ \/ got' = got /\ loaded' = [loaded EXCEPT ![n] = i]
                  \/ loaded' = loaded /\ got' = [got EXCEPT ![n] = i]
    BY DEF Lets
  <1>4. inst'[i] = x /\ \A j \in Instances \ {i} : inst'[j] = inst[j]
    BY <1>2, <1>3 DEF Turned, Held
  <1>5. ~spoiled[Forward] BY <1>0, <1>2, <1>3 DEF Left, Marked, InUse
  <1>6. AllServe BY <1>1, <1>5 DEF Fed, InUse
  <1>7. ASSUME NEW b \in Busy(Forward)', task'[b].pc = "starting" PROVE Serves(task[b].i)'
    <2>1. b # a /\ b \in Busy(Forward) /\ task'[b] = task[b] /\ Waits(b)
      BY <1>1 DEF Busy, Only, Waits
    <2>2. task[b].i \in Instances \ {i} BY <1>2, <2>1, InUseMade DEF Busy
    <2> QED BY <1>1, <1>4, <1>6, <1>7, <2>1, <2>2 DEF AllServe, Serves
  <1>8. Serves(loaded[Forward])' /\ Serves(got[Forward])'
    <2>1. ASSUME NEW j, j = loaded[Forward] \/ j = got[Forward] PROVE Serves(j)'
      <3>1. j # 0 => j \in Instances \ {i} BY <1>0, <1>2, <2>1, InUseMade
      <3> QED BY <1>1, <1>4, <1>6, <2>1, <3>1 DEF AllServe, Serves
    <2>2. CASE UNCHANGED <<loaded, got>> BY <2>1, <2>2
    <2>3. CASE x.routes = inst[i].routes /\ task[a].pc = "starting"
               /\ \/ got' = got /\ loaded' = [loaded EXCEPT ![n] = i]
                  \/ loaded' = loaded /\ got' = [got EXCEPT ![n] = i]
      <3>1. n = Forward => inst'[i].routes = conf'.routes
        <4>1. n = Forward => a \in Busy(Forward) BY <1>1 DEF Busy, Waits
        <4>2. n = Forward => Serves(i) BY <1>6, <2>3, <4>1 DEF AllServe
        <4>3. i # 0 BY <1>2 DEF Instances
        <4> QED BY <1>1, <1>4, <2>3, <4>2, <4>3 DEF Serves
      <3>2. /\ loaded'[Forward] = loaded[Forward] \/ (n = Forward /\ loaded'[Forward] = i)
            /\ got'[Forward] = got[Forward] \/ (n = Forward /\ got'[Forward] = i)
        BY <1>0, <1>2, <2>3 DEF Held
      <3> QED BY <2>1, <3>1, <3>2 DEF Serves
    <2> QED BY <1>3, <2>2, <2>3
  <1> QED BY <1>7, <1>8 DEF AllServe

LEMMA FedRestarts ==
    ASSUME Held, Phase, Marked, Calm, Fed, NEW a \in Actors, Restarts(a)
    PROVE  Fed'
  <1> SUFFICES ASSUME InUse' PROVE AllServe' BY DEF Fed
  <1> DEFINE n == task[a].mod
             i == task[a].i
  <1>0. Forward \in Modules BY DEF Modules
  <1>1. /\ Only(a) /\ Waits(a) /\ task[a].pc = "restarting" /\ UNCHANGED <<up, conf, got>>
        /\ n # Forward /\ unloaded => unloaded'
    BY DEF Restarts, Waits, Awaiting
  <1>2. /\ n \in Modules /\ i \in Instances /\ inst[i].mod = n
        /\ \A m \in Modules : i # loaded[m] /\ i # got[m]
        /\ \A b \in Actors \ {a} : Waits(b) => task[b].i # i
    BY <1>1 DEF Held, Holds
  <1>3. PICK b \in BOOLEAN :
         /\ Makes(a, n, IF b THEN inst ELSE [inst EXCEPT ![i] = Gone(n)])
         /\ Left(a, b)
    BY DEF Restarts
  <1> DEFINE is == IF b THEN inst ELSE [inst EXCEPT ![i] = Gone(n)]
  <1>4. /\ inst' = [is EXCEPT ![Fresh] = [mod |-> n, st |-> "starting", routes |-> conf'.routes]]
        /\ Fresh \in Instances /\ inst[Fresh].st = "none" /\ loaded' = loaded
        /\ Waits(a)' /\ task'[a].mod = n /\ task'[a].i = Fresh
    BY <1>3, FreshFree DEF Makes, Waits, Awaiting
  <1>5. /\ inst'[Fresh].routes = conf'.routes
        /\ \A j \in Instances \ {Fresh, i} : inst'[j] = inst[j]
    BY <1>2, <1>4 DEF Held
  <1>6. ~spoiled[Forward] BY <1>0, <1>2, <1>3 DEF Left, Marked, InUse
  <1>7. \A j \in Instances : inst[j].st # "none" /\ j # i => inst'[j] = inst[j] BY <1>4, <1>5
  <1>8. CASE n # Forward
    <2>1. AllServe BY <1>1, <1>6, <1>8 DEF Fed, InUse
    <2>2. ASSUME NEW c \in Busy(Forward)', task'[c].pc = "starting" PROVE Serves(task[c].i)'
      <3>1. c # a BY <1>1, <1>4, <1>8, BusyOnly
      <3>2. c \in Busy(Forward) /\ task'[c] = task[c] /\ Waits(c) BY <1>1, <3>1 DEF Busy, Only, Waits
      <3>3. inst'[task[c].i] = inst[task[c].i]
        <4>1. task[c].i # i BY <1>2, <3>1, <3>2 DEF Busy
        <4> QED BY <1>7, <3>2, <4>1, InUseMade
      <3> QED BY <1>1, <2>1, <2>2, <3>2, <3>3 DEF AllServe, Serves
    <2>3. Serves(loaded[Forward])' /\ Serves(got[Forward])'
      <3>1. ASSUME NEW j, j = loaded[Forward] \/ j = got[Forward] PROVE Serves(j)'
        <4>1. j # 0 => inst'[j] = inst[j] BY <1>0, <1>2, <1>7, <3>1, InUseMade
        <4> QED BY <1>1, <2>1, <3>1, <4>1 DEF AllServe, Serves
      <3> QED BY <1>1, <1>4, <3>1 DEF Serves
    <2> QED BY <2>2, <2>3 DEF AllServe
  <1>9. CASE n = Forward
    <2>1. a \in Busy(Forward) BY <1>1, <1>9, BusyOnly
    <2>2. up = "up"
      <3>1. a # Loader BY <1>1 DEF Phase
      <3>2. up = "loading" => LoadersHand(Forward) BY <1>0, <1>6 DEF Calm
      <3>3. up # "down" BY <1>1 DEF Phase
      <3> QED BY <2>1, <3>1, <3>2, <3>3 DEF LoadersHand, Phase
    <2>3. OneHand(Forward) BY <1>0, <1>6, <2>2 DEF Calm
    <2>4. Busy(Forward) = {a} /\ loaded[Forward] = 0 BY <2>1, <2>3 DEF OneHand
    <2>5. got[Forward] = 0 BY <1>0, <2>2 DEF Phase
    <2>6. Busy(Forward)' \subseteq {a} BY <1>1, <2>4, BusyOnly
    <2> QED BY <1>1, <1>4, <1>5, <2>4, <2>5, <2>6 DEF AllServe, Serves
  <1> QED BY <1>8, <1>9

LEMMA FedLoads ==
    ASSUME Held, Phase, Marked, Calm, Fed, Loads
    PROVE  Fed'
  <1> SUFFICES ASSUME InUse' PROVE AllServe' BY DEF Fed
  <1>0. Loader \in Actors /\ Forward \in Modules BY DEF Actors, Modules
  <1>1. /\ UNCHANGED <<conf, loaded, got, up, spoiled>> /\ up = "loading" /\ task[Loader].pc = "idle"
        /\ ~spoiled[Forward]
    BY DEF Loads, InUse
  <1>2. CASE UNCHANGED <<inst, task, unloaded>>
    BY <1>1, <1>2 DEF Fed, InUse, AllServe, Serves, Busy
  <1>3. CASE Only(Loader) /\ Makes(Loader, Head(todo), inst)
             /\ (Head(todo) # Forward /\ unloaded => unloaded')
    <2>1. /\ inst'[Fresh].routes = conf'.routes
          /\ \A i \in Instances : inst[i].st # "none" => inst'[i] = inst[i]
          /\ task'[Loader].i = Fresh /\ Waits(Loader)' /\ task'[Loader].mod = Head(todo)
          /\ ~Waits(Loader)
      BY <1>0, <1>1, <1>3, MadeApart DEF Makes, Waits, Awaiting
    <2>2. CASE Head(todo) # Forward
      <3>1. AllServe BY <1>1, <1>3, <2>2 DEF Fed, InUse
      <3>2. Loader \notin Busy(Forward) /\ Loader \notin Busy(Forward)'
        BY <1>0, <1>3, <2>1, <2>2, BusyOnly
      <3>3. Busy(Forward)' = Busy(Forward) /\ \A b \in Busy(Forward) : task'[b] = task[b]
        BY <1>0, <1>3, <3>2, BusyOnly
      <3>4. Serves(loaded[Forward])' /\ Serves(got[Forward])'
        BY <1>0, <1>1, <2>1, <3>1, InUseMade DEF AllServe, Serves
      <3>5. ASSUME NEW b \in Busy(Forward), task[b].pc = "starting" PROVE Serves(task[b].i)'
        <4>1. inst'[task[b].i] = inst[task[b].i] BY <2>1, InUseMade
        <4> QED BY <1>1, <3>1, <3>3, <3>5, <4>1 DEF AllServe, Serves
      <3> QED BY <3>3, <3>4, <3>5 DEF AllServe
    <2>3. CASE Head(todo) = Forward
      <3>1. LoadersHand(Forward) /\ Pending(Forward) BY <1>0, <1>1, <2>3, PendingLoads DEF Calm
      <3>2. Busy(Forward) = {} /\ got[Forward] = 0 /\ loaded[Forward] = 0 BY <3>1 DEF LoadersHand
      <3>3. Busy(Forward)' \subseteq {Loader} BY <1>0, <1>3, <3>2, BusyOnly
      <3> QED BY <1>1, <2>1, <3>2, <3>3 DEF AllServe, Serves
    <2> QED BY <2>2, <2>3
  <1> QED BY <1>2, <1>3 DEF Loads

LEMMA FedStep ==
    ASSUME Founded, Held, Phase, Marked, Calm, Fed, [Next]_vars
    PROVE  Fed'
  <1>1. CASE UNCHANGED <<Rooms, up>>
    BY <1>1 DEF Rooms, Fed, InUse, AllServe, Serves, Busy
  <1>2. CASE Binds
    <2>1. /\ up = "loading" /\ loaded' = got /\ UNCHANGED <<inst, task, spoiled, unloaded, conf>>
          /\ got'[Forward] = 0
      BY <1>2 DEF Binds, Modules
    <2> QED BY <2>1 DEF Fed, InUse, AllServe, Serves, Busy
  <1>3. CASE Begins
    <2>1. loaded'[Forward] = 0 /\ got'[Forward] = 0 BY <1>3 DEF Begins, Empty, Modules
    <2>2. Busy(Forward)' = {} BY <1>3, EmptyTasks DEF Begins, Busy, Idle, Awaiting
    <2> QED BY <2>1, <2>2 DEF Fed, AllServe, Serves
  <1> QED BY <1>1, <1>2, <1>3, FedCalls, FedLets, FedRestarts, FedLoads, Effects DEF Founded, Marked

----------------------------------------------------------------------------
(* The invariant, and what follows from it *)

Runs == Held /\ Phase /\ Marked /\ Calm /\ Fed

LEMMA RunsInvariant == Spec => [](OnceInv /\ Tasks /\ RoutesInv /\ Runs)
  <1> DEFINE Inv == OnceInv /\ Tasks /\ RoutesInv /\ Runs
  <1>1. Init => Runs
    <2> SUFFICES ASSUME Init PROVE Runs
      OBVIOUS
    <2>1. /\ inst = [i \in Instances |-> NoInst] /\ task = [a \in Actors |-> Idle]
          /\ loaded = [m \in Modules |-> 0] /\ got = [m \in Modules |-> 0]
          /\ spoiled = [m \in Modules |-> FALSE] /\ up = "down" /\ todo = <<>> /\ inbox = {}
      BY DEF Init
    <2>2. NoInst \in Inst BY DEF NoInst, Inst, Modules
    <2>3. 0 \in 0..MaxStarts /\ \A i \in Instances : ~(i <= 0) BY ControlAssumption DEF Instances
    <2>4. Numbered BY <2>1, <2>3 DEF Numbered, NoInst
    <2>5. \A a \in Actors : ~Waits(a) /\ task[a].pc = "idle" BY <2>1 DEF Waits, Awaiting, Idle
    <2>6. \A m \in Modules : Live(m) = {} BY <2>1 DEF Live, NoInst
    <2>7. Held BY <2>1, <2>2, <2>3, <2>4, <2>5 DEF Held, Holds
    <2>8. Loader \in Actors BY DEF Actors
    <2>9. Phase BY <2>1, <2>5, <2>6, <2>8 DEF Phase
    <2>10. Calm /\ Fed /\ Marked BY <2>1 DEF Calm, Fed, InUse, Marked
    <2> QED BY <2>7, <2>9, <2>10 DEF Runs
  <1>2. Inv /\ [Next]_vars => Inv'
    <2> SUFFICES ASSUME Inv, [Next]_vars PROVE Inv'
      OBVIOUS
    <2>1. OnceInv' /\ Tasks' /\ RoutesInv' BY OnceStep, RoutesStep
    <2>2. Founded BY <2>1 DEF Founded, RoutesInv, Sound
    <2>3. Held' /\ Marked' BY <2>2, HeldStep DEF Runs, Marked
    <2> QED BY <2>1, <2>2, <2>3, PhaseStep, CalmStep, FedStep DEF Runs, Marked
  <1>3. Init => Inv
    <2>1. Init => OnceInv /\ Tasks /\ RoutesInv
      BY FilesSound, OnceInit DEF Init, RoutesInv, Snapped, Idle
    <2> QED BY <1>1, <2>1
  <1> QED BY <1>2, <1>3, PTL DEF Spec

(* The files, the instances and the tasks of the process are what the code   *)
(* takes them for.                                                           *)
THEOREM TypeCorrect == Spec => []TypeOK
  <1>1. OnceInv /\ Tasks /\ RoutesInv /\ Runs => TypeOK
    <2> SUFFICES ASSUME OnceInv, Tasks, RoutesInv, Runs PROVE TypeOK
      OBVIOUS
    <2>1. up \in {"down", "loading", "up"} BY DEF Runs, Phase
    <2>2. conf \in Config /\ overlay \in Config \cup {NoFile} BY DEF RoutesInv, Sound
    <2>3. loaded \in [Modules -> 0..MaxStarts] /\ got \in [Modules -> 0..MaxStarts]
      BY DEF Runs, Held
    <2>4. \A i \in Instances : /\ inst[i].mod \in Modules /\ inst[i].routes \subseteq Route
                               /\ inst[i].st \in {"none", "starting", "live", "dead"}
      BY DEF Runs, Held, Inst
    <2>5. \A a \in Actors : /\ task[a].pc \in Awaiting \cup {"idle", "checking", "report"}
                            /\ task[a].pc \in Awaiting => inst[task[a].i].mod = task[a].mod
      BY DEF Runs, Phase, Held, Holds, Waits
    <2>6. \A c \in Commands : bridge[c].st \in {"none", "pending", "acked", "done", "failed"}
      BY DEF OnceInv, Status
    <2> QED BY <2>1, <2>2, <2>3, <2>4, <2>5, <2>6 DEF TypeOK, OnceInv
  <1> QED BY <1>1, RunsInvariant, PTL

(* Whatever starts and stops overlap, raise or are cut short, what `loaded`  *)
(* holds has finished its start and has not been stopped (runtime.py:59-90): *)
(* every other instance is in the hand of the actor that awaits it.          *)
THEOREM OnlyStarted == Spec => []LoadedLive
  <1>1. Runs => LoadedLive BY DEF Runs, Held, LoadedLive
  <1> QED BY <1>1, RunsInvariant, PTL

(* No sequence of reloads, switches, patches and restarts that do not        *)
(* overlap leaves a second instance of a module that receives messages.      *)
THEOREM NoSecondInstance == Spec => []NoOrphan
  <1>1. Runs => NoOrphan BY DEF Runs, Calm, OneHand, NoOrphan
  <1> QED BY <1>1, RunsInvariant, PTL

(* Nor does it leave channel_forward at rest with other routes than the      *)
(* saved ones, whoever changed them last, and from wherever.                 *)
THEOREM SavedIsRun == Spec => []RunsWhatIsSaved
  <1>1. Runs => RunsWhatIsSaved
    BY DEF Runs, Fed, InUse, AllServe, Serves, RunsWhatIsSaved
  <1> QED BY <1>1, RunsInvariant, PTL

----------------------------------------------------------------------------
(* What a checked command saves *)

\* The step that ends the check of an admin's command
EndsCheck(a) == task[a].pc = "checking" /\ task'[a].pc # "checking" /\ up' # "down"
Spares(a) == \A r \in task[a].snap \cap conf.routes : r.owner \notin {a, NoOne} => r \in conf'.routes

LEMMA ChatSpares ==
    ASSUME Tasks, conf \in Config, NEW a \in Admins, EndsCheck(a), Chat(a)
    PROVE  Spares(a)
  <1> DEFINE rs == task[a].snap
  <1>0. task[a].pc = "checking" BY DEF EndsCheck
  <1>1. ASSUME NEW new \in SUBSET rs, NEW rest,
               \A r \in rs \ new : r.owner \in {a, NoOne}, conf'.routes = new \cup rest
        PROVE  Spares(a)
    BY <1>1 DEF Spares
  <1>2. CASE CheckFails(a) BY <1>2 DEF CheckFails, Spares
  <1>3. CASE SaveAdd(a)
    <2>1. conf' = Added(rs, task[a].src, a) BY <1>3 DEF SaveAdd, Patch, Persist
    <2>2. conf'.routes = rs \cup {NewRoute(task[a].src, a)}
      BY <2>1 DEF Added, Switched, WithRoutes, Config
    <2> HIDE DEF rs
    <2> QED BY <1>1, <2>2
  <1>4. CASE SaveChange(a)
    <2>1. PICK r \in Editable(rs, task[a].src, a) :
            conf' = WithRoutes(Replace(rs, r, Changed(r, a)))
      BY <1>4 DEF SaveChange, Patch, Persist
    <2>2. conf'.routes = (rs \ {r}) \cup {Changed(r, a)} BY <2>1 DEF WithRoutes, Config, Replace
    <2>3. r.owner \in {a, NoOne} BY <2>1 DEF Editable, CanEdit
    <2> HIDE DEF rs
    <2> QED BY <1>1, <2>2, <2>3
  <1>5. CASE SaveRemove(a)
    <2>1. PICK r \in Editable(rs, task[a].src, a) : conf' = WithRoutes(rs \ {r})
      BY <1>5 DEF SaveRemove, Patch, Persist
    <2>2. conf'.routes = (rs \ {r}) \cup {} BY <2>1 DEF WithRoutes, Config
    <2>3. r.owner \in {a, NoOne} BY <2>1 DEF Editable, CanEdit
    <2> HIDE DEF rs
    <2> QED BY <1>1, <2>2, <2>3
  <1>6. CASE \/ \E s \in Sources : \/ AskAdd(a, s) \/ AskChange(a, s) \/ AskRemove(a, s)
                                   \/ ChangeNow(a, s) \/ Import(a, s)
             \/ \E m \in Modules : ChatModule(a, m)
    BY <1>0, <1>6 DEF AskAdd, AskChange, AskRemove, Check, ChangeNow, Import, ChatModule, Asks
  <1> QED BY <1>2, <1>3, <1>4, <1>5, <1>6 DEF Chat

LEMMA StepSpares ==
    ASSUME Tasks, OnceInv, RoutesInv, Runs, NEW a \in Admins, EndsCheck(a), [Next]_vars
    PROVE  Spares(a)
  <1>0. a \in Actors /\ a # Poller /\ a # Loader /\ task[a].pc = "checking" /\ task'[a] # task[a]
    BY ControlAssumption DEF Actors, EndsCheck
  <1>1. ASSUME NEW b \in Admins, Chat(b) PROVE Spares(a)
    <2>1. CASE b = a BY <1>1, <2>1, ChatSpares DEF RoutesInv, Sound
    <2>2. CASE b # a BY <1>0, <1>1, <2>2, ChatOnly DEF Only
    <2> QED BY <2>1, <2>2
  <1>2. ASSUME NEW b \in Actors, Runtime(b) PROVE Spares(a)
    <2>1. Only(b) /\ conf' = conf BY <1>2, RuntimeEnds DEF Ends
    <2> QED BY <2>1 DEF Spares
  <1>3. CASE Remote
    <2>1. task' = task \/ Only(Poller)
      BY <1>3, RemoteCalls DEF RoutesInv, Sound, Runs, Calls, Does
    <2> QED BY <1>0, <2>1 DEF Only
  <1>4. CASE Life
    <2>1. CASE Boot BY <1>0, <2>1 DEF Boot, Runs, Phase
    <2>2. CASE Leave BY <2>2 DEF Leave, EndsCheck
    <2>3. CASE LoadNext \/ LoadReturns \/ (\E left \in BOOLEAN : LoadRaises(left)) \/ Bind
      BY <2>3, LoaderEnds DEF Spares
    <2> QED BY <1>4, <2>1, <2>2, <2>3 DEF Life
  <1>5. CASE UNCHANGED vars BY <1>0, <1>5 DEF vars, memory
  <1> QED BY <1>1, <1>2, <1>3, <1>4, <1>5 DEF Next

(* A command that saves a list taken before its check leaves what it knew of *)
(* the other admins' routes (access.py:34), however old that list is.        *)
THEOREM OthersSpared == Spec => SparesOthers
  <1>1. OnceInv /\ Tasks /\ RoutesInv /\ Runs /\ [Next]_vars =>
          [\A a \in Admins :
             task[a].pc = "checking" /\ task'[a].pc # "checking" /\ up' # "down" =>
               \A r \in task[a].snap \cap conf.routes :
                 r.owner \notin {a, NoOne} => r \in conf'.routes]_vars
    BY StepSpares DEF EndsCheck, Spares
  <1> QED BY <1>1, RunsInvariant, PTL DEF Spec, SparesOthers
=============================================================================
