---------------------------- MODULE ControlPlane ----------------------------
(***************************************************************************)
(* The control plane of one userbot process: ModuleRuntime (the modules,   *)
(* their configuration and the two files it is saved to), load_modules at  *)
(* boot, the admins' chat commands and the poller of remote commands.      *)
(*                                                                         *)
(* The process is one event loop: an action runs from one await to the     *)
(* next.  The awaits that matter are those of a module's start() and       *)
(* stop() and of the checks of a channel before a route is saved.  The     *)
(* runtime takes no lock, and a chat command runs beside the other         *)
(* admin's, beside the poller and beside the loader.                       *)
(*                                                                         *)
(* A route keeps what access and liveness depend on; every other setting   *)
(* (mode, filter, schedule, destinations, ...) is its author, the admin    *)
(* who set it last.  config/modules.json is in the checkout, so a restart  *)
(* finds the repository's; data/modules.runtime.json is the overlay.       *)
(***************************************************************************)
EXTENDS Naturals, FiniteSets, Sequences

CONSTANTS
    Admins,         \* users with access to the chat commands
    Sources,        \* source channels
    Control,        \* the module that handles the chat commands (auto_reply)
    Forward,        \* the module the routes belong to (channel_forward)
    Commands,       \* commands the admin bot may enqueue
    Asked,          \* what they may ask
    Untidy,         \* modules whose start or stop may raise with handlers left
    RepoConfig,     \* config/modules.json of the checkout
    ProfileRoutes,  \* routes the account's profile sets, or NoFile
    ProfileOn,      \* what the profile sets `enabled` to, of the modules it names
    MaxChats,       \* bound: chat commands
    MaxStarts,      \* bound: instances made in one life of the process
    MaxMissed,      \* bound: acknowledgements of a command that get lost
    NoOne, NoFile

Modules == {Control, Forward}
Protected == {Control}
Poller == "poller"
Loader == "loader"
Actors == Admins \cup {Poller, Loader}
Instances == 1..MaxStarts

Route == [src: Sources, owner: Admins \cup {NoOne}, public: BOOLEAN,
          paused: BOOLEAN, author: Admins \cup {NoOne}]
Config == [on: [Modules -> BOOLEAN], routes: SUBSET Route]

\* What a remote command may ask.  A config_patch has any list of routes and
\* `enabled`, or neither of them, and is reloaded or not.
Requests ==
    [act : {"on", "off", "reload", "ping"}, mod : Modules]
    \cup [act : {"pause", "resume"}, src : Sources]
    \cup [act : {"patch"}, mod : Modules, on : BOOLEAN \cup {NoFile},
          routes : {NoFile} \cup SUBSET Route, reload : BOOLEAN]
NoRequest == [act |-> "ping", mod |-> Forward]

ASSUME ControlAssumption ==
    /\ Control # Forward
    /\ NoOne \notin Admins
    /\ Poller \notin Admins /\ Loader \notin Admins
    /\ MaxChats \in Nat /\ MaxStarts \in Nat /\ MaxMissed \in Nat
    /\ RepoConfig \in Config /\ NoFile \notin Config
    /\ ProfileRoutes \in {NoFile} \cup SUBSET Route
    /\ DOMAIN ProfileOn \subseteq Modules
    /\ \A m \in DOMAIN ProfileOn : ProfileOn[m] \in BOOLEAN
    /\ Asked \subseteq Requests /\ Untidy \subseteq Modules

VARIABLES
    up,         \* whether the process runs
    conf,       \* modules_config, in memory
    overlay,    \* data/modules.runtime.json
    inst,       \* the instances of modules made in this life
    loaded,     \* ModuleRuntime.loaded: the instance of a module, 0 for none
    task,       \* what an actor awaits
    todo,       \* modules load_modules has still to start
    got,        \* instances load_modules has started
    bridge,     \* remote commands: what they ask, and their state at the bot
    inbox,      \* commands of the poller's current batch
    doing,      \* the command the poller handles, and what it will report
    \* bounds
    chats,
    \* history
    runs,       \* times a remote command was executed
    missed,     \* acknowledgements of it the bridge did not get
    spoiled,    \* starts or stops of the module overlapped, or one raised late
    unloaded,   \* routes were patched without a reload
    doubled     \* sources of which a config_patch had two routes

memory == <<conf, inst, loaded, task, todo, got, inbox, doing, unloaded, spoiled>>
vars == <<up, overlay, memory, bridge, chats, runs, missed, doubled>>

Idle == [pc |-> "idle", act |-> "none", mod |-> Forward, src |-> NoFile,
         snap |-> {}, i |-> 0]
NoCommand == [c |-> NoOne, ok |-> FALSE]
NoInst == [mod |-> Forward, st |-> "none", routes |-> {}]
Gone(m) == [mod |-> m, st |-> "dead", routes |-> {}]

----------------------------------------------------------------------------
(* Access to a route *)

CanEdit(r, a) == r.owner \in {NoOne, a}

\* Mutant: need_edit is forgotten
EditableAny(routes, s, a) == {r \in routes : r.src = s}

\* _find_route(source, need_edit=True)
Editable(routes, s, a) == {r \in routes : r.src = s /\ CanEdit(r, a)}
Known(routes, s) == \E r \in routes : r.src = s

\* Mutant: the arguments of default_route_dict swapped
NewRouteSwapped(s, a) ==
    [src |-> s, owner |-> s, public |-> FALSE, paused |-> FALSE, author |-> a]

NewRoute(s, a) ==
    [src |-> s, owner |-> a, public |-> FALSE, paused |-> FALSE, author |-> a]

\* A setting of the route is changed: the route is an object of the snapshot.
Changed(r, a) == [r EXCEPT !.author = a]
Claimed(r, a) == [r EXCEPT !.owner = a]
Shown(r, a, p) == [r EXCEPT !.public = p, !.owner = IF @ = NoOne THEN a ELSE @]
Paused(r, p) == [r EXCEPT !.paused = p]
Replace(routes, r, new) == (routes \ {r}) \cup {new}

----------------------------------------------------------------------------
(* Instances of modules *)

Fresh == Cardinality({i \in Instances : inst[i].st # "none"}) + 1
Live(m) == {i \in Instances : inst[i].mod = m /\ inst[i].st = "live"}
Awaiting == {"stopping", "restarting", "starting"}
Busy(m) == {a \in Actors : task[a].pc \in Awaiting /\ task[a].mod = m}

\* Another start or stop of the module is under way; until bind_loaded runs,
\* the loader's own instances are not in `loaded`.
Overlap(a, m) == Busy(m) \ {a} # {} \/ up = "loading"

\* What is left for the actor once its command is over: the poller reports it.
Over(a) == IF a = Poller THEN [task[a] EXCEPT !.pc = "report"] ELSE Idle
Finish(a) == task' = [task EXCEPT ![a] = Over(a)]
Await(a, pc, m, i) ==
    task' = [task EXCEPT ![a] = [@ EXCEPT !.pc = pc, !.mod = m, !.i = i, !.snap = {}]]

\* cls(client, deepcopy(cfg)) and start() up to its first await
Create(a, m, rs, is) ==
    /\ Fresh \in Instances
    /\ inst' = [is EXCEPT ![Fresh] = [mod |-> m, st |-> "starting", routes |-> rs]]
    /\ Await(a, "starting", m, Fresh)
    /\ unloaded' = (unloaded /\ m # Forward)

\* Mutant: the instance stays in `loaded` while it stops
PopKept(a, m, pc) ==
    /\ Await(a, pc, m, loaded[m])
    /\ UNCHANGED <<inst, loaded, unloaded>>

\* stop_module up to its await: the instance leaves `loaded` first
Pop(a, m, pc) ==
    /\ loaded' = [loaded EXCEPT ![m] = 0]
    /\ Await(a, pc, m, loaded[m])
    /\ UNCHANGED <<inst, unloaded>>

\* Mutant: the running instance is not stopped first
StartBeside(a, m, rs) ==
    /\ Create(a, m, rs, inst) /\ UNCHANGED loaded
    /\ spoiled' = [spoiled EXCEPT ![m] = @ \/ Overlap(a, m)]

StartModule(a, m, rs) ==
    /\ IF loaded[m] # 0 THEN Pop(a, m, "restarting")
       ELSE Create(a, m, rs, inst) /\ UNCHANGED loaded
    /\ spoiled' = [spoiled EXCEPT ![m] = @ \/ Overlap(a, m)]

StopModule(a, m) ==
    /\ IF loaded[m] # 0 THEN Pop(a, m, "stopping")
       ELSE Finish(a) /\ UNCHANGED <<inst, loaded, unloaded>>
    /\ spoiled' = [spoiled EXCEPT ![m] = @ \/ Overlap(a, m)]

NoModule == UNCHANGED <<inst, loaded, spoiled>>

Persist(c) == conf' = c /\ overlay' = c

\* Mutant: a running module is not reloaded
PatchRunning(a, m, c, reload) ==
    /\ Persist(c)
    /\ IF reload /\ c.on[m] /\ loaded[m] = 0 THEN StartModule(a, m, c.routes)
       ELSE /\ Finish(a) /\ NoModule
            /\ unloaded' = (unloaded \/ (m = Forward /\ ~reload))

\* patch_module_config: update, persist, and reload if the module is enabled
Patch(a, m, c, reload) ==
    /\ Persist(c)
    /\ IF reload /\ c.on[m] THEN StartModule(a, m, c.routes)
       ELSE /\ Finish(a) /\ NoModule
            /\ unloaded' = (unloaded \/ (m = Forward /\ ~reload))

WithRoutes(rs) == [conf EXCEPT !.routes = rs]
Switched(c, m, b) == [c EXCEPT !.on[m] = b]

\* set_enabled and reload_module
SetEnabled(a, m, b) ==
    IF m \in Protected /\ ~b
    THEN Finish(a) /\ NoModule /\ UNCHANGED <<conf, overlay, unloaded>>
    ELSE /\ Persist(Switched(conf, m, b))
         /\ IF b THEN StartModule(a, m, conf.routes) ELSE StopModule(a, m)

ReloadModule(a, m) ==
    /\ UNCHANGED <<conf, overlay>>
    /\ IF m \in Protected \/ ~conf.on[m] THEN Finish(a) /\ NoModule /\ UNCHANGED unloaded
       ELSE StartModule(a, m, conf.routes)

\* mod.stop() returns, or raises with the handlers still registered; then
\* start_module goes on with the configuration of this moment.
StopReturns(a, raised) ==
    LET t == task[a]
        is == IF raised THEN inst ELSE [inst EXCEPT ![t.i] = Gone(t.mod)]
    IN
    /\ t.pc \in {"stopping", "restarting"} /\ (raised => t.mod \in Untidy)
    /\ spoiled' = [spoiled EXCEPT ![t.mod] = @ \/ raised]
    /\ IF t.pc = "restarting" THEN Create(a, t.mod, conf.routes, is)
       ELSE inst' = is /\ Finish(a) /\ UNCHANGED unloaded
    /\ UNCHANGED <<up, conf, overlay, loaded, todo, got, bridge, inbox, doing, chats,
                   runs, missed, doubled>>

\* instance.start() returns: the instance takes the place in `loaded`
StartReturns(a) ==
    LET t == task[a] IN
    /\ a # Loader /\ t.pc = "starting"
    /\ inst' = [inst EXCEPT ![t.i].st = "live"]
    /\ loaded' = [loaded EXCEPT ![t.mod] = t.i]
    /\ Finish(a)
    /\ UNCHANGED <<up, conf, overlay, todo, got, bridge, inbox, doing, chats,
                   runs, missed, spoiled, unloaded, doubled>>

\* instance.start() raises, before its handlers are registered or after
StartRaises(a, left) ==
    LET t == task[a] IN
    /\ a # Loader /\ t.pc = "starting" /\ (left => t.mod \in Untidy)
    /\ inst' = [inst EXCEPT ![t.i] = IF left THEN [@ EXCEPT !.st = "live"] ELSE Gone(t.mod)]
    /\ spoiled' = [spoiled EXCEPT ![t.mod] = @ \/ left]
    /\ Finish(a)
    /\ UNCHANGED <<up, conf, overlay, loaded, todo, got, bridge, inbox, doing, chats,
                   runs, missed, unloaded, doubled>>

----------------------------------------------------------------------------
(* The admins' chat commands: one command of an admin at a time *)

\* What every chat command leaves alone
NotChat == UNCHANGED <<up, todo, got, bridge, inbox, doing, runs, missed, doubled>>

\* The message reaches a handler of the control module
Asks(a) ==
    /\ up # "down" /\ task[a].pc = "idle" /\ Live(Control) # {}
    /\ chats < MaxChats /\ chats' = chats + 1
    /\ NotChat

\* Up to the first await: the routes as they are now will be saved
Check(a, act, s) ==
    /\ Asks(a)
    /\ task' = [task EXCEPT ![a] =
         [Idle EXCEPT !.pc = "checking", !.act = act, !.src = s, !.snap = conf.routes]]
    /\ UNCHANGED <<conf, overlay, inst, loaded, spoiled, unloaded>>

\* /forward add; set, mode, filter and schedule; remove
AskAdd(a, s) == ~Known(conf.routes, s) /\ Check(a, "add", s)
AskChange(a, s) == Editable(conf.routes, s, a) # {} /\ Check(a, "change", s)
AskRemove(a, s) == Editable(conf.routes, s, a) # {} /\ Check(a, "remove", s)

\* The source cannot be joined, or the destination takes no posts
CheckFails(a) ==
    /\ task[a].pc = "checking" /\ task[a].act \in {"add", "change"}
    /\ Finish(a)
    /\ UNCHANGED <<conf, overlay, chats, inst, loaded, spoiled, unloaded>> /\ NotChat

\* Mutant: the route joins the list of this moment, checked before the await
AddedNow(rs, s, a) == Switched(WithRoutes(conf.routes \cup {NewRoute(s, a)}), Forward, TRUE)

\* The list to save: the snapshot with this command's change
Added(rs, s, a) == Switched(WithRoutes(rs \cup {NewRoute(s, a)}), Forward, TRUE)

SaveAdd(a) ==
    /\ task[a].pc = "checking" /\ task[a].act = "add"
    /\ Patch(a, Forward, Added(task[a].snap, task[a].src, a), TRUE)
    /\ UNCHANGED chats /\ NotChat

SaveChange(a) ==
    /\ task[a].pc = "checking" /\ task[a].act = "change"
    /\ \E r \in Editable(task[a].snap, task[a].src, a) :
         Patch(a, Forward, WithRoutes(Replace(task[a].snap, r, Changed(r, a))), TRUE)
    /\ UNCHANGED chats /\ NotChat

SaveRemove(a) ==
    /\ task[a].pc = "checking" /\ task[a].act = "remove"
    /\ \E r \in Editable(task[a].snap, task[a].src, a) :
         Patch(a, Forward, WithRoutes(task[a].snap \ {r}), TRUE)
    /\ UNCHANGED chats /\ NotChat

\* /forward visibility, claim, pause, resume, dest, media, dedup, delivery,
\* allow, regex, link: found and saved without an await
ChangeNow(a, s) ==
    /\ Asks(a)
    /\ \E r \in Editable(conf.routes, s, a) :
         \E new \in {Changed(r, a)} \cup {Shown(r, a, p) : p \in BOOLEAN}
                    \cup {Paused(r, p) : p \in BOOLEAN}
                    \cup (IF r.owner = NoOne THEN {Claimed(r, a)} ELSE {}) :
           Patch(a, Forward, WithRoutes(Replace(conf.routes, r, new)), TRUE)

\* /forward import: no check of the channels, so no await
Import(a, s) ==
    /\ Asks(a)
    /\ ~Known(conf.routes, s)
    /\ Patch(a, Forward, Added(conf.routes, s, a), TRUE)

ChatModule(a, m) ==
    /\ Asks(a)
    /\ \/ \E b \in BOOLEAN : SetEnabled(a, m, b)
       \/ ReloadModule(a, m)

----------------------------------------------------------------------------
(* The remote commands *)

NotPoll == UNCHANGED <<up, todo, got, chats>>

\* AgentCommandBus.enqueue, or the admin bot itself
Enqueue(c, k) ==
    /\ bridge[c].st = "none"
    /\ bridge' = [bridge EXCEPT ![c] = [st |-> "pending", ask |-> k]]
    /\ NotPoll /\ UNCHANGED <<overlay, memory, runs, missed, doubled>>

\* GET /internal/commands/poll: the batch is kept while its commands run
Poll ==
    /\ up = "up" /\ task[Poller].pc = "idle" /\ inbox = {}
    /\ inbox' = {c \in Commands : bridge[c].st = "pending"}
    /\ inbox' # {}
    /\ NotPoll
    /\ UNCHANGED <<overlay, conf, inst, loaded, task, doing, spoiled, unloaded, bridge,
                   runs, missed, doubled>>

\* Mutant: only the result is posted
AcknowledgeLate(c, heard) == UNCHANGED <<bridge, missed>>

\* POST ack, before the handler runs; the bridge may not get it
Acknowledge(c, heard) ==
    /\ bridge' = IF heard THEN [bridge EXCEPT ![c].st = "acked"] ELSE bridge
    /\ missed' = IF heard THEN missed ELSE [missed EXCEPT ![c] = @ + 1]
    /\ heard \/ missed[c] < MaxMissed

\* cfg.update(patch)
Patched(k) ==
    [on |-> IF k.on = NoFile THEN conf.on ELSE [conf.on EXCEPT ![k.mod] = k.on],
     routes |-> IF k.mod = Forward /\ k.routes # NoFile THEN k.routes ELSE conf.routes]

\* _toggle_route_pause, of the first route found: patched with reload=False
TogglePause(s, p) ==
    \E r \in {x \in conf.routes : x.src = s} :
      Patch(Poller, Forward, WithRoutes(Replace(conf.routes, r, Paused(r, p))), FALSE)

\* The handlers, up to their first await
Handle(k) ==
    CASE k.act \in {"on", "off"} -> SetEnabled(Poller, k.mod, k.act = "on")
      [] k.act = "reload" -> ReloadModule(Poller, k.mod)
      [] k.act = "patch" -> Patch(Poller, k.mod, Patched(k), k.reload)
      [] k.act \in {"pause", "resume"} /\ Known(conf.routes, k.src) ->
            TogglePause(k.src, k.act = "pause")
      [] OTHER -> Finish(Poller) /\ NoModule /\ UNCHANGED <<conf, overlay, unloaded>>

\* Sources of which a patch has two routes
Doubled(k) ==
    IF k.act = "patch" /\ k.mod = Forward /\ k.routes # NoFile
    THEN {s \in Sources : \E r1, r2 \in k.routes : r1 # r2 /\ r1.src = s /\ r2.src = s}
    ELSE {}

\* result.get("ok"): a ping has none, a refused or failed start is ok
Succeeds(k) ==
    /\ k.act # "ping"
    /\ k.act \in {"pause", "resume"} => Known(conf.routes, k.src)

Dispatch(c, heard) ==
    /\ task[Poller].pc = "idle" /\ c \in inbox
    /\ inbox' = inbox \ {c}
    /\ doing' = [c |-> c, ok |-> Succeeds(bridge[c].ask)]
    /\ runs' = [runs EXCEPT ![c] = @ + 1]
    /\ Acknowledge(c, heard)
    /\ Handle(bridge[c].ask)
    /\ doubled' = doubled \cup Doubled(bridge[c].ask)
    /\ NotPoll

\* POST ack with the result
Report(heard) ==
    /\ task[Poller].pc = "report"
    /\ bridge' = IF heard THEN [bridge EXCEPT ![doing.c].st = IF doing.ok THEN "done" ELSE "failed"]
                ELSE bridge
    /\ task' = [task EXCEPT ![Poller] = Idle]
    /\ doing' = NoCommand
    /\ NotPoll
    /\ UNCHANGED <<overlay, conf, inst, loaded, inbox, spoiled, unloaded, runs, missed,
                   doubled>>

----------------------------------------------------------------------------
(* The life of the process *)

\* load_app_config: the overlay, else the checkout; then the account's profile
\* replaces the keys it has.
Loaded == IF overlay = NoFile THEN RepoConfig ELSE overlay
WithProfile(c) ==
    [on |-> [m \in Modules |-> IF m \in DOMAIN ProfileOn THEN ProfileOn[m] ELSE c.on[m]],
     routes |-> IF ProfileRoutes = NoFile THEN c.routes ELSE ProfileRoutes]

Empty ==
    /\ inst' = [i \in Instances |-> NoInst]
    /\ loaded' = [m \in Modules |-> 0] /\ got' = [m \in Modules |-> 0]
    /\ task' = [a \in Actors |-> Idle]
    /\ inbox' = {} /\ doing' = NoCommand
    /\ unloaded' = FALSE /\ spoiled' = [m \in Modules |-> FALSE]

Boot ==
    /\ up = "down" /\ up' = "loading"
    /\ conf' = WithProfile(Loaded)
    /\ todo' = <<Control, Forward>>
    /\ Empty
    /\ UNCHANGED <<overlay, bridge, chats, runs, missed, doubled>>

NotLoad == UNCHANGED <<overlay, conf, inbox, doing, bridge, chats, runs, missed, doubled>>

\* load_modules: the next module of the registry, if it is enabled by now
LoadNext ==
    /\ up = "loading" /\ task[Loader].pc = "idle" /\ todo # <<>>
    /\ todo' = Tail(todo)
    /\ IF conf.on[Head(todo)] THEN Create(Loader, Head(todo), conf.routes, inst)
       ELSE UNCHANGED <<inst, task, unloaded>>
    /\ NotLoad /\ UNCHANGED <<up, loaded, got, spoiled>>

LoadReturns ==
    LET t == task[Loader] IN
    /\ t.pc = "starting"
    /\ inst' = [inst EXCEPT ![t.i].st = "live"]
    /\ got' = [got EXCEPT ![t.mod] = t.i]
    /\ Finish(Loader)
    /\ NotLoad /\ UNCHANGED <<up, loaded, todo, spoiled, unloaded>>

LoadRaises(left) ==
    LET t == task[Loader] IN
    /\ t.pc = "starting" /\ (left => t.mod \in Untidy)
    /\ inst' = [inst EXCEPT ![t.i] = IF left THEN [@ EXCEPT !.st = "live"] ELSE Gone(t.mod)]
    /\ spoiled' = [spoiled EXCEPT ![t.mod] = @ \/ left]
    /\ Finish(Loader)
    /\ NotLoad /\ UNCHANGED <<up, loaded, got, todo, unloaded>>

\* bind_loaded: what the chat commands have loaded meanwhile is overwritten
Bind ==
    /\ up = "loading" /\ task[Loader].pc = "idle" /\ todo = <<>>
    /\ loaded' = got /\ up' = "up" /\ got' = [m \in Modules |-> 0]
    /\ NotLoad /\ UNCHANGED <<inst, task, todo, spoiled, unloaded>>

\* MAX_RUNTIME_SECONDS, a signal or a kill: the memory is gone, the overlay
\* stays.  (stop_modules changes nothing the next life finds.)
Leave ==
    /\ up # "down"
    /\ up' = "down" /\ todo' = <<>> /\ conf' = RepoConfig
    /\ Empty
    /\ UNCHANGED <<overlay, bridge, chats, runs, missed, doubled>>

----------------------------------------------------------------------------
Init ==
    /\ up = "down" /\ chats = 0
    /\ conf = RepoConfig /\ overlay = NoFile
    /\ inst = [i \in Instances |-> NoInst]
    /\ loaded = [m \in Modules |-> 0] /\ got = [m \in Modules |-> 0]
    /\ task = [a \in Actors |-> Idle] /\ todo = <<>>
    /\ bridge = [c \in Commands |-> [st |-> "none", ask |-> NoRequest]]
    /\ inbox = {} /\ doing = NoCommand
    /\ runs = [c \in Commands |-> 0] /\ missed = [c \in Commands |-> 0]
    /\ unloaded = FALSE /\ spoiled = [m \in Modules |-> FALSE] /\ doubled = {}

Chat(a) ==
    \/ \E s \in Sources :
         \/ AskAdd(a, s) \/ AskChange(a, s) \/ AskRemove(a, s)
         \/ ChangeNow(a, s)
         \/ Import(a, s)
    \/ CheckFails(a)
    \/ SaveAdd(a) \/ SaveChange(a) \/ SaveRemove(a)
    \/ \E m \in Modules : ChatModule(a, m)

Runtime(a) ==
    \/ \E raised \in BOOLEAN : StopReturns(a, raised)
    \/ StartReturns(a)
    \/ \E left \in BOOLEAN : StartRaises(a, left)

Remote ==
    \/ \E c \in Commands :
         \/ \E k \in Asked : Enqueue(c, k)
         \/ \E heard \in BOOLEAN : Dispatch(c, heard)
    \/ Poll
    \/ \E heard \in BOOLEAN : Report(heard)

Life ==
    \/ Boot \/ LoadNext \/ LoadReturns \/ Bind \/ Leave
    \/ \E left \in BOOLEAN : LoadRaises(left)

Next ==
    \/ \E a \in Admins : Chat(a)
    \/ \E a \in Actors : Runtime(a)
    \/ Remote
    \/ Life

Spec == Init /\ [][Next]_vars

----------------------------------------------------------------------------
TypeOK ==
    /\ up \in {"down", "loading", "up"}
    /\ conf \in Config /\ overlay \in Config \cup {NoFile}
    /\ loaded \in [Modules -> 0..MaxStarts] /\ got \in [Modules -> 0..MaxStarts]
    /\ \A i \in Instances : /\ inst[i].mod \in Modules /\ inst[i].routes \subseteq Route
                            /\ inst[i].st \in {"none", "starting", "live", "dead"}
    /\ \A a \in Actors : /\ task[a].pc \in Awaiting \cup {"idle", "checking", "report"}
                         /\ task[a].pc \in Awaiting => inst[task[a].i].mod = task[a].mod
    /\ \A c \in Commands :
         bridge[c].st \in {"none", "pending", "acked", "done", "failed"}
    /\ inbox \subseteq Commands

(* Two admins may add the same source at the same time, each after a check  *)
(* that took seconds, import takes no time at all, and a patch may replace  *)
(* the list meanwhile: still no source has two routes, unless a config_patch*)
(* itself had two of it (module.py:325, admin_commands.py:236).             *)
OneRoutePerSource ==
    \A r1, r2 \in conf.routes : r1.src = r2.src => r1 = r2 \/ r1.src \in doubled

(* A command that took its list of routes before an await saves every route *)
(* of another owner as it found it (access.py:34): what it knew of, and     *)
(* still is, it leaves.  What was added meanwhile it may well overwrite.    *)
SparesOthers ==
    [][\A a \in Admins :
         task[a].pc = "checking" /\ task'[a].pc # "checking" /\ up' # "down" =>
           \A r \in task[a].snap \cap conf.routes :
             r.owner \notin {a, NoOne} => r \in conf'.routes]_vars

(* `loaded` never holds an instance that has not finished start() or was    *)
(* stopped: the status sent to the admins shows it as running               *)
(* (runtime.py:41), and stop() is only called on what was started.          *)
LoadedLive ==
    \A m \in Modules : loaded[m] # 0 => loaded[m] \in Live(m)

(* As long as no two starts or stops of a module have overlapped and none   *)
(* has raised with handlers left, the loaded instance is the only one that  *)
(* receives messages: reloads, switches and patches leave no second one.    *)
NoOrphan ==
    up = "up" => \A m \in Modules :
      ~spoiled[m] => Live(m) \subseteq {loaded[m]} \cup {task[a].i : a \in Busy(m)}

(* Under the same condition an enabled module at rest runs the routes that  *)
(* are saved, unless they were patched without a reload (pause_route).      *)
RunsWhatIsSaved ==
    up = "up" /\ ~spoiled[Forward] /\ ~unloaded /\ Busy(Forward) = {}
      /\ conf.on[Forward] /\ loaded[Forward] # 0
      => inst[loaded[Forward]].routes = conf.routes

(* A remote command runs once, and again only if the bridge missed its      *)
(* acknowledgement, whatever restarts come in between                       *)
(* (command_poller.py:118, ack before dispatch).                            *)
AtMostOnce == \A c \in Commands : runs[c] <= 1 + missed[c]
=============================================================================
