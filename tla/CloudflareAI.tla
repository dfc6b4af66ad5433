---------------------------- MODULE CloudflareAI ----------------------------
(***************************************************************************)
(* app/cloudflare_ai: the store of AI accounts in one JSON file, the       *)
(* provider that rotates over them, the agent whose tool loop calls it,    *)
(* and the /cfai commands.                                                 *)
(*                                                                         *)
(* Every run of an agent and every command has a store of its own: it      *)
(* reads the file once, changes its copy and writes the whole copy back.   *)
(* Any other step may come between two steps of a client.  A request is    *)
(* one step: its time-out makes sure that it ends.  Usage counts, prompts  *)
(* and models are data and left out.                                       *)
(***************************************************************************)
EXTENDS Naturals, Sequences, FiniteSets

CONSTANTS
    Accounts,   \* names of accounts: numbers, in the order of the names
    Clients,
    Kind,       \* [Clients -> {"agent", "test", "edit"}]: Agent.run, /cfai test (of one
                \* account or with rotation), /cfai add, remove, enable, disable, priority
    Rounds,     \* max_tool_rounds of the agents that have tools
    Schema,     \* clients whose agent has a response_schema
    Bridge,     \* accounts that the bridge exports, active and of priority 0
    FirstFile,  \* the file at first
    MaxRuns,    \* bound: runs of each client
    MaxPri,     \* bound: priorities
    MaxNights,  \* bound: midnights
    None

ASSUME AIAssumption ==
    /\ Accounts \subseteq Nat /\ IsFiniteSet(Accounts) /\ Bridge \subseteq Accounts
    /\ Kind \in [Clients -> {"agent", "test", "edit"}] /\ Schema \subseteq Clients
    /\ Rounds \in [Clients -> Nat] /\ MaxRuns \in [Clients -> Nat]
    /\ MaxPri \in Nat /\ MaxNights \in Nat
    \* only Agent.run has tools and a schema
    /\ \A c \in Clients : Kind[c] # "agent" => Rounds[c] = 0 /\ c \notin Schema

VARIABLES
    file,       \* data/pool/cloudflare_ai.json
    mem,        \* the copy of each client
    at,         \* where the client is: idle, loaded, ready, asking
    for,        \* what its next chat is for: tools, json, plain
    accs,       \* chat: the usable accounts when it began
    idx, tries, \* chat: position, attempts (from 0)
    quota,      \* chat: quota_hits > 0
    cur,        \* the provider's _current_idx
    rounds,     \* tool rounds of the agent
    said,       \* how the last chat ended
    runs, nights,
    \* history
    asked,      \* accounts that the chat has sent its question to
    refused     \* accounts that have refused the client's process since midnight

chat == <<accs, idx, tries, quota, asked>>
agent == <<at, for, rounds>>
store == <<file, mem>>
bounds == <<runs, nights>>
vars == <<store, agent, chat, cur, said, refused, bounds>>

Row == [on : BOOLEAN, burnt : BOOLEAN, pri : 0..MaxPri]
Table == [Accounts -> Row \cup {None}]
Has(t, a) == t[a] # None

ASSUME FileAssumption == FirstFile \in Table /\ None \notin Row

----------------------------------------------------------------------------
(* The store *)

\* The row of add_account
Added(t, a, p) == [t EXCEPT ![a] = [on |-> TRUE, burnt |-> FALSE, pri |-> p]]

\* account_available; burnt is quota_exhausted_at of today
Available(t, a) == Has(t, a) /\ t[a].on /\ ~t[a].burnt

Able(t) == {a \in Accounts : Available(t, a)}

\* The sort key of list_accounts: priority, then name
Before(t, a, b) == t[a].pri < t[b].pri \/ (t[a].pri = t[b].pri /\ a < b)

\* The accounts of S that come before a
Above(S, t, a) == {b \in S : Before(t, b, a)}

\* usable_accounts: account k has k - 1 before it
Usable(t) ==
    [k \in 1..Cardinality(Able(t)) |->
        CHOOSE a \in Able(t) : Cardinality(Above(Able(t), t, a)) = k - 1]

\* The whole copy is written; a client that is idle next keeps none
Nothing == [a \in Accounts |-> None]
Save(c, t) == file' = t /\ mem' = [mem EXCEPT ![c] = IF at'[c] = "idle" THEN Nothing ELSE t]
Drop(c) == UNCHANGED file /\ mem' = [mem EXCEPT ![c] = IF at'[c] = "idle" THEN Nothing ELSE @]

\* mark_used
Marked(t, a, exhausted) == [t EXCEPT ![a].burnt = @ \/ exhausted]

----------------------------------------------------------------------------
(* A client begins: CloudflareAIStore() reads the file *)

\* The final answer is asked for with the schema first
Final(c) == IF c \in Schema THEN "json" ELSE "plain"

Load(c) ==
    /\ at[c] = "idle" /\ runs[c] < MaxRuns[c] /\ runs' = [runs EXCEPT ![c] = @ + 1]
    /\ mem' = [mem EXCEPT ![c] = file] /\ UNCHANGED file
    /\ at' = [at EXCEPT ![c] = IF Kind[c] = "agent" /\ Able(file) = {} THEN "loaded" ELSE "ready"]
    /\ for' = [for EXCEPT ![c] = IF Rounds[c] > 0 THEN "tools" ELSE Final(c)]
    /\ said' = [said EXCEPT ![c] = "new"]
    /\ UNCHANGED <<rounds, cur, chat, refused, nights>>

\* ensure_store: without a usable account the bridge is asked for its list;
\* names that the copy has are left alone.  The list comes with a default
\* model, which is saved even if no name is new.
Hydrate(c, heard) ==
    LET t == [a \in Accounts |-> IF a \in Bridge /\ ~Has(mem[c], a)
                                 THEN [on |-> TRUE, burnt |-> FALSE, pri |-> 0] ELSE mem[c][a]]
    IN
    /\ at[c] = "loaded" /\ at' = [at EXCEPT ![c] = "ready"]
    /\ IF heard /\ Bridge # {} THEN Save(c, t) ELSE Drop(c)
    /\ UNCHANGED <<for, rounds, chat, cur, said, refused, bounds>>

----------------------------------------------------------------------------
(* chat *)

\* Mutant: the position of the last answer is kept, however short the list is by now
SamePlace(c, U) == cur[c]

\* Where the rotation begins
Place(c, U) == IF cur[c] >= Len(U) THEN 0 ELSE cur[c]

\* The chat is over
Over(c) ==
    /\ accs' = [accs EXCEPT ![c] = <<>>] /\ idx' = [idx EXCEPT ![c] = 0]
    /\ tries' = [tries EXCEPT ![c] = 0] /\ quota' = [quota EXCEPT ![c] = FALSE]
    /\ asked' = [asked EXCEPT ![c] = {}]

\* ... and the next follows, or the run is over: the agent has failed, or is content
Goon(c, what, n) ==
    /\ at' = [at EXCEPT ![c] = "ready"] /\ for' = [for EXCEPT ![c] = what]
    /\ rounds' = [rounds EXCEPT ![c] = n] /\ UNCHANGED refused
Done(c) ==
    /\ at' = [at EXCEPT ![c] = "idle"] /\ for' = [for EXCEPT ![c] = "plain"]
    /\ rounds' = [rounds EXCEPT ![c] = 0] /\ cur' = [cur EXCEPT ![c] = 0]
    /\ refused' = [refused EXCEPT ![c] = {}]

Begin(c) ==
    /\ at[c] = "ready" /\ Kind[c] \in {"agent", "test"}
    /\ IF Able(mem[c]) = {}
       THEN said' = [said EXCEPT ![c] = "no_accounts"] /\ Done(c) /\ UNCHANGED chat
       ELSE LET U == Usable(mem[c]) IN
            /\ said' = [said EXCEPT ![c] = "asking"] /\ at' = [at EXCEPT ![c] = "asking"]
            /\ accs' = [accs EXCEPT ![c] = U] /\ idx' = [idx EXCEPT ![c] = Place(c, U)]
            /\ cur' = [cur EXCEPT ![c] = Place(c, U)]
            /\ UNCHANGED <<tries, quota, asked, for, rounds, refused>>
    /\ Drop(c) /\ UNCHANGED bounds

\* The account that has its turn
Turn(c) == accs[c][idx[c] + 1]

\* Agent.run after an answer: calls, a text that does or does not satisfy the
\* schema, or nothing.  A final answer ends the run, good or not.
Answer(c, content) ==
    LET n == rounds[c] + 1 IN
    /\ at[c] = "asking" /\ (content = "calls" => for[c] = "tools")
    /\ said' = [said EXCEPT ![c] = "answered"] /\ Over(c)
    /\ CASE content = "calls" -> /\ Goon(c, IF n < Rounds[c] THEN "tools" ELSE Final(c), n)
                                 /\ cur' = [cur EXCEPT ![c] = idx[c]]
         [] for[c] # "tools" \/ content = "good" \/ (content = "text" /\ c \notin Schema) -> Done(c)
         [] OTHER -> Goon(c, Final(c), rounds[c]) /\ cur' = [cur EXCEPT ![c] = idx[c]]
    /\ Save(c, Marked(mem[c], Turn(c), FALSE))
    /\ UNCHANGED bounds

\* JsonModeUnsupportedError: the account is not marked, and the agent asks
\* again without the schema
NoJson(c) ==
    /\ at[c] = "asking" /\ for[c] = "json"
    /\ said' = [said EXCEPT ![c] = "aborted"] /\ Over(c) /\ Goon(c, "plain", rounds[c])
    /\ UNCHANGED <<store, cur, bounds>>

\* Any other error ends the chat and the run
Error(c) ==
    /\ at[c] = "asking"
    /\ said' = [said EXCEPT ![c] = "aborted"] /\ Over(c) /\ Done(c)
    /\ Save(c, Marked(mem[c], Turn(c), FALSE))
    /\ UNCHANGED bounds

\* Mutant: an account that does not respond does not count as an attempt
OnlyRefusals(c, reply) == IF reply = "silent" THEN tries[c] ELSE tries[c] + 1

Attempts(c, reply) == tries[c] + 1

\* Mutant: the list is not a ring
NextInLine(c) == IF idx[c] + 1 < Len(accs[c]) THEN idx[c] + 1 ELSE idx[c]

NextIdx(c) == (idx[c] + 1) % Len(accs[c])

\* The next account: after a time-out (silent), a 200 without success
\* (refusal), or an exhausted quota
Rotate(c, reply) ==
    LET burns == reply # "silent"
        hits == quota[c] \/ reply = "quota"
        n == Attempts(c, reply)
    IN
    /\ at[c] = "asking"
    /\ IF n < Len(accs[c])
       THEN /\ idx' = [idx EXCEPT ![c] = NextIdx(c)] /\ tries' = [tries EXCEPT ![c] = n]
            /\ quota' = [quota EXCEPT ![c] = hits]
            /\ asked' = [asked EXCEPT ![c] = @ \cup {Turn(c)}]
            /\ refused' = IF burns THEN [refused EXCEPT ![c] = @ \cup {Turn(c)}] ELSE refused
            /\ UNCHANGED <<accs, said, agent, cur>>
       ELSE /\ said' = [said EXCEPT ![c] = IF hits THEN "exhausted" ELSE "failed"]
            /\ Over(c) /\ Done(c)
    /\ Save(c, Marked(mem[c], Turn(c), burns))
    /\ UNCHANGED bounds

\* The answers of the gateway
Reply(c) ==
    \/ \E content \in {"calls", "good", "text", "nothing"} : Answer(c, content)
    \/ NoJson(c) \/ Error(c)
    \/ \E reply \in {"silent", "refusal", "quota"} : Rotate(c, reply)

----------------------------------------------------------------------------
(* Commands *)

\* test_account: an account of any state is asked once
Test(c, a, refuses) ==
    /\ at[c] = "ready" /\ Kind[c] = "test" /\ Done(c)
    /\ IF Has(mem[c], a) THEN Save(c, Marked(mem[c], a, refuses)) ELSE Drop(c)
    /\ UNCHANGED <<chat, said, bounds>>

\* set_active: an account that is switched on is not exhausted any more
Switched(t, a, on) == [t EXCEPT ![a].on = on, ![a].burnt = @ /\ ~on]

\* add (without a priority: the number of accounts), remove, enable, disable
\* and priority; or the name is refused
Edit(c, a) ==
    LET t == mem[c] IN
    /\ at[c] = "ready" /\ Kind[c] = "edit" /\ Done(c)
    /\ \/ ~Has(t, a) /\ \E p \in {0, Cardinality({b \in Accounts : Has(t, b)})} :
                          p <= MaxPri /\ Save(c, Added(t, a, p))
       \/ Has(t, a) /\ \/ Save(c, [t EXCEPT ![a] = None])
                       \/ \E on \in BOOLEAN : Save(c, Switched(t, a, on))
                       \/ \E p \in 0..MaxPri : Save(c, [t EXCEPT ![a].pri = p])
       \/ Drop(c)
    /\ UNCHANGED <<chat, said, bounds>>

\* Quotas are renewed at midnight UTC: quota_exhausted_at is of yesterday
Renewed(t) == [a \in Accounts |-> IF Has(t, a) THEN [t[a] EXCEPT !.burnt = FALSE] ELSE None]
Midnight ==
    /\ nights < MaxNights /\ nights' = nights + 1
    /\ file' = Renewed(file) /\ mem' = [c \in Clients |-> Renewed(mem[c])]
    /\ refused' = [c \in Clients |-> {}]
    /\ UNCHANGED <<agent, chat, cur, said, runs>>

----------------------------------------------------------------------------
Init ==
    /\ file = FirstFile /\ mem = [c \in Clients |-> Nothing]
    /\ at = [c \in Clients |-> "idle"] /\ for = [c \in Clients |-> "plain"]
    /\ accs = [c \in Clients |-> <<>>] /\ idx = [c \in Clients |-> 0]
    /\ tries = [c \in Clients |-> 0] /\ quota = [c \in Clients |-> FALSE]
    /\ cur = [c \in Clients |-> 0] /\ rounds = [c \in Clients |-> 0]
    /\ said = [c \in Clients |-> "new"]
    /\ runs = [c \in Clients |-> 0] /\ nights = 0
    /\ asked = [c \in Clients |-> {}] /\ refused = [c \in Clients |-> {}]

Goes(c) ==
    \/ \E heard \in BOOLEAN : Hydrate(c, heard)
    \/ Begin(c) \/ Reply(c)
    \/ \E a \in Accounts, refuses \in BOOLEAN : Test(c, a, refuses)
    \/ \E a \in Accounts : Edit(c, a)

Next ==
    \/ \E c \in Clients : Load(c) \/ Goes(c)
    \/ Midnight

\* Some client goes on whenever one can
Spec == Init /\ [][Next]_vars /\ WF_vars(\E c \in Clients : Goes(c))

----------------------------------------------------------------------------
TypeOK ==
    /\ file \in Table /\ mem \in [Clients -> Table]
    /\ at \in [Clients -> {"idle", "loaded", "ready", "asking"}]
    /\ for \in [Clients -> {"tools", "json", "plain"}]
    /\ \A c \in Clients : at[c] = "asking" => idx[c] < Len(accs[c]) /\ rounds[c] <= Rounds[c]
    /\ \A c \in Clients : asked[c] \subseteq Accounts /\ refused[c] \subseteq Accounts

\* The accounts that a chat has still to ask, by what it has done so far
Members(s) == {s[k] : k \in DOMAIN s}

Abstract ==
    INSTANCE Rotation WITH
        left <- [c \in Clients |-> Members(accs[c]) \ asked[c]],
        hit <- quota, spent <- refused

(* The index arithmetic over lists of changing length, with its carried-over *)
(* position, asks every usable account once and no other, and comes to the   *)
(* end the caller is told of (provider.py:178).                              *)
Rotates == Abstract!Spec

(* Agent.run comes to an end, whatever the accounts answer: the tool rounds, *)
(* the attempts of a chat and the retry without a schema are all bounded     *)
(* (agent.py:298).                                                           *)
RunEnds == \A c \in Clients : at[c] # "idle" ~> at[c] = "idle"
=============================================================================
