------------------------------ MODULE SafetyGuard ------------------------------
(***************************************************************************)
(* The pacing and health state of modules/promo_spread/safety.py, kept in  *)
(* promo_safety.json, so it survives a restart.  Timestamps are kept as    *)
(* ages: Tick makes everything one unit older, and an age stops where no   *)
(* test of the code can tell it from a larger one.                         *)
(***************************************************************************)
EXTENDS Naturals, FiniteSets

CONSTANTS Destinations,  \* the groups that can be posted to
          Cooldown,      \* per_group_cooldown_minutes
          HourLen,       \* one hour
          DayLen,        \* 24 hours
          HourlyBudget,  \* hourly_budget
          DailyBudget,   \* daily_budget
          FloodStrikes,  \* flood_strikes_to_pause
          BreakerLen,    \* circuit_breaker_hours
          PeerLen,       \* peer_flood_cooldown_hours
          Windowed       \* active_windows or active_days leave some time out

ASSUME GuardAssumption ==
  /\ Cooldown \in Nat \ {0}
  /\ HourLen \in Nat /\ DayLen \in Nat /\ HourLen <= DayLen
  /\ HourlyBudget \in Nat /\ DailyBudget \in Nat
  /\ FloodStrikes \in Nat \ {0}
  /\ BreakerLen \in Nat \ {0} /\ PeerLen \in Nat \ {0}
  /\ Windowed \in BOOLEAN

VARIABLES since,    \* age of group_last[g], at most Cooldown (also when never set)
          sent,     \* how many entries of "sends" have each age, up to a day
          strikes,  \* flood_strikes
          breaker,  \* paused_until is set (it may lie in the past)
          left,     \* time until paused_until
          quiet     \* the clock is outside active_windows or active_days

guardVars == <<since, sent, strikes, breaker, left, quiet>>

MaxLen == IF BreakerLen > PeerLen THEN BreakerLen ELSE PeerLen

GuardTypeOK ==
  /\ since \in [Destinations -> 0..Cooldown]
  /\ sent \in [0..DayLen -> Nat]
  /\ strikes \in Nat
  /\ breaker \in BOOLEAN
  /\ left \in 0..MaxLen
  /\ quiet \in BOOLEAN

GuardInit ==
  /\ since = [g \in Destinations |-> Cooldown]
  /\ sent = [a \in 0..DayLen |-> 0]
  /\ strikes = 0
  /\ breaker = FALSE
  /\ left = 0
  /\ quiet = FALSE

\* Mutant: the time left is counted below zero.
GuardTickBelow ==
  /\ since' = [g \in Destinations |->
                 IF since[g] < Cooldown THEN since[g] + 1 ELSE since[g]]
  /\ sent' = [a \in 0..DayLen |-> IF a = 0 THEN 0 ELSE sent[a - 1]]
  /\ left' = left - 1
  /\ quiet' \in (IF Windowed THEN BOOLEAN ELSE {FALSE})
  /\ UNCHANGED <<strikes, breaker>>

\* One unit of time passes; the active window may open or close with it.
GuardTick ==
  /\ since' = [g \in Destinations |->
                 IF since[g] < Cooldown THEN since[g] + 1 ELSE since[g]]
  /\ sent' = [a \in 0..DayLen |-> IF a = 0 THEN 0 ELSE sent[a - 1]]
  /\ left' = IF left > 0 THEN left - 1 ELSE 0
  /\ quiet' \in (IF Windowed THEN BOOLEAN ELSE {FALSE})
  /\ UNCHANGED <<strikes, breaker>>

----------------------------------------------------------------------------
\* is_active_now.  circuit_status, which it calls first, forgets a pause that is over,
\* and the strikes with it: Refresh is that part, Active the answer.

\* Mutant: the answer forgets the circuit.
ActiveWindowOnly == ~quiet

Active == ~(breaker /\ left > 0) /\ ~quiet

Refresh ==
  /\ breaker' = (breaker /\ left > 0)
  /\ strikes' = IF breaker /\ left = 0 THEN 0 ELSE strikes
  /\ UNCHANGED <<since, sent, left, quiet>>

----------------------------------------------------------------------------
\* budget_ok counts the sends of the last hour and of the last day.

\* The entries of an age up to len: the first, the second... of each age.
Entries(len) == UNION {{a} \X (1..sent[a]) : a \in 0..len}

SentWithin(len) == Cardinality(Entries(len))

\* Mutant: the budget is passed by one.
BudgetOkLoose ==
  /\ SentWithin(HourLen) <= HourlyBudget
  /\ SentWithin(DayLen) <= DailyBudget

BudgetOk ==
  /\ SentWithin(HourLen) < HourlyBudget
  /\ SentWithin(DayLen) < DailyBudget

CooldownOk(g) == since[g] >= Cooldown

----------------------------------------------------------------------------
\* note_success, note_flood_wait, note_peer_flood

NoteSuccess(g) ==
  /\ since' = [since EXCEPT ![g] = 0]
  /\ sent' = [sent EXCEPT ![0] = @ + 1]
  /\ strikes' = IF strikes > 0 THEN strikes - 1 ELSE 0
  /\ UNCHANGED <<breaker, left, quiet>>

\* open_circuit: the new pause replaces the old one, longer or not.
OpenCircuit(len) == breaker' = TRUE /\ left' = len

NoteFloodWait ==
  /\ strikes' = strikes + 1
  /\ IF strikes + 1 >= FloodStrikes THEN OpenCircuit(BreakerLen)
                                    ELSE UNCHANGED <<breaker, left>>
  /\ UNCHANGED <<since, sent, quiet>>

NotePeerFlood ==
  /\ OpenCircuit(PeerLen)
  /\ UNCHANGED <<since, sent, strikes, quiet>>

=============================================================================
