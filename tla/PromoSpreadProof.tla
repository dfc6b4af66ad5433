--------------------------- MODULE PromoSpreadProof ---------------------------
(***************************************************************************)
(* What PromoSpread guarantees for every set of posts, groups and          *)
(* configurations, every length and every budget: types, cooldown and      *)
(* circuit; that no recorded share is posted again and that an             *)
(* acknowledged post stays settled; the budgets of any hour and day; and   *)
(* that no post is missed; and that all this is what the ledger allows.    *)
(***************************************************************************)
EXTENDS PromoSpread, PromoQueueProof, FiniteSetTheorems

\* What the worker knows when it commits itself to a job, and later.
PaceInv ==
  /\ Committed => CooldownOk(CurGroup)
  /\ wk \in {"lookup", "sending", "posted"} => ~(breaker /\ left > 0)

\* Only a post is taken in.
IntakePost == intake.post = 0 => intake = NoIntake

SafeInv == TypeOK /\ QueueInv /\ IntakePost /\ PaceInv

----------------------------------------------------------------------------
\* The guard alone.

LEMMA GuardStep ==
  ASSUME GuardTypeOK,
         \/ GuardTick \/ Refresh \/ NoteFloodWait \/ NotePeerFlood
         \/ \E g \in Destinations : NoteSuccess(g)
         \/ UNCHANGED guardVars
  PROVE  GuardTypeOK'
<1> USE GuardAssumption DEF GuardTypeOK
<1>1. BreakerLen \in 0..MaxLen /\ PeerLen \in 0..MaxLen /\ MaxLen \in Nat
  BY DEF MaxLen
<1>2. CASE GuardTick
  <2>1. since' \in [Destinations -> 0..Cooldown]
    BY <1>2 DEF GuardTick
  <2>2. sent' \in [0..DayLen -> Nat]
    <3>1. \A a \in 0..DayLen : (IF a = 0 THEN 0 ELSE sent[a - 1]) \in Nat
      BY <1>2
    <3>. QED  BY <1>2, <3>1 DEF GuardTick
  <2>3. left' \in 0..MaxLen
    BY <1>1, <1>2 DEF GuardTick
  <2>. QED  BY <1>2, <2>1, <2>2, <2>3 DEF GuardTick
<1>3. CASE Refresh
  BY <1>3 DEF Refresh
<1>4. CASE NoteFloodWait
  <2>1. strikes' \in Nat
    BY <1>4 DEF NoteFloodWait
  <2>2. breaker' \in BOOLEAN /\ left' \in 0..MaxLen
    BY <1>1, <1>4 DEF NoteFloodWait, OpenCircuit
  <2>. QED  BY <1>4, <2>1, <2>2 DEF NoteFloodWait
<1>5. CASE NotePeerFlood
  BY <1>1, <1>5 DEF NotePeerFlood, OpenCircuit
<1>6. ASSUME NEW g \in Destinations, NoteSuccess(g)
      PROVE  GuardTypeOK'
  BY <1>6 DEF NoteSuccess
<1>7. CASE UNCHANGED guardVars
  BY <1>7 DEF guardVars
<1>. QED  BY <1>2, <1>3, <1>4, <1>5, <1>6, <1>7

\* Time lets a cooldown end and never begin, and only the worker opens the circuit.
LEMMA GuardPace ==
  ASSUME GuardTypeOK, GuardTick \/ Refresh, NEW g \in Destinations
  PROVE  /\ CooldownOk(g) => CooldownOk(g)'
         /\ ~(breaker /\ left > 0) => ~(breaker' /\ left' > 0)
<1> USE GuardAssumption DEF GuardTypeOK
<1>1. CASE GuardTick
  BY <1>1 DEF GuardTick, CooldownOk
<1>2. CASE Refresh
  BY <1>2 DEF Refresh, CooldownOk
<1>. QED  BY <1>1, <1>2

----------------------------------------------------------------------------

LEMMA SomeShare == NoCur \in [share : Shares, id : Nat]
<1>1. PICK p \in Posts, g \in Groups : TRUE
  BY QueueAssumption
<1>2. <<p, g>> \in Shares
  BY DEF Shares
<1>3. (CHOOSE x \in Shares : TRUE) \in Shares
  BY <1>2
<1>. QED  BY <1>3 DEF NoCur

LEMMA SafeInit == Init => SafeInv
<1> SUFFICES ASSUME Init  PROVE SafeInv
  OBVIOUS
<1> USE DEF Init
<1>1. QueueTypeOK /\ QueueInv
  <2>1. QueueTypeOK
    BY DEF QueueInit, QueueTypeOK, NoJobOnFile, Job, JobStatus
  <2>2. \A x \in Shares : ~InLine(<<>>, x)
    BY DEF InLine
  <2>. QED  BY <2>1, <2>2 DEF QueueInit, QueueInv, Orders, NoJobOnFile
<1>2. GuardTypeOK
  <2>1. 0 \in 0..MaxLen /\ Cooldown \in 0..Cooldown
    BY GuardAssumption DEF MaxLen
  <2>. QED  BY <2>1 DEF GuardInit, GuardTypeOK
<1>3. TypeOK
  <2>1. 0 \in 0..MaxAge
    BY SpreadAssumption DEF MaxAge
  <2>2. NoIntake \in [post : Posts \cup {0}, groups : SUBSET Groups, made : BOOLEAN]
    BY DEF NoIntake
  <2>. QED  BY <1>1, <1>2, <2>1, <2>2, SomeShare DEF TypeOK, WorkerStates
<1>. QED  BY <1>1, <1>3 DEF SafeInv, IntakePost, PaceInv, Committed

----------------------------------------------------------------------------
\* The queue file.

LEMMA FileKept ==
  ASSUME FileOK, UNCHANGED <<jobs, line, filed>>, seen' \subseteq Posts, acked' \subseteq Posts
  PROVE  FileOK'
BY DEF FileOK, QueueTypeOK, QueueInv, Orders

\* Giving up or finishing the job at hand, with or without the ack.
LEMMA FileMarked ==
  ASSUME TypeOK, QueueInv, NEW retry \in BOOLEAN, UNCHANGED seen, TryAck \/ UNCHANGED acked,
         MarkDone(cur.share, cur.id) \/ MarkFailed(cur.share, cur.id, retry)
  PROVE  FileOK'
<1>1. FileOK /\ cur.share \in Shares /\ CurPost \in Posts
  BY DEF FileOK, TypeOK, Shares, CurPost
<1>2. MarkFile(cur.share, cur.id)
  BY <1>1, MarkDoneFile, MarkFailedFile
<1>3. acked' \subseteq Posts /\ seen' \subseteq Posts
  BY <1>1 DEF TryAck, FileOK, QueueTypeOK
<1>. QED  BY <1>2, <1>3 DEF MarkFile, FileOK, QueueTypeOK

LEMMA FileStep ==
  ASSUME SafeInv, [Next]_vars
  PROVE  FileOK'
<1> USE DEF queueVars
<1>0. FileOK /\ TypeOK /\ QueueInv /\ IntakePost
  BY DEF SafeInv, FileOK, TypeOK
<1>1. ASSUME UNCHANGED queueVars  PROVE FileOK'
  BY <1>0, <1>1, FileKept DEF FileOK, QueueTypeOK
<1>2. ASSUME NEW p \in Posts, Publish(p) \/ Dispatch(p)  PROVE FileOK'
  BY <1>1, <1>2 DEF Publish, Dispatch
<1>3. CASE Tick \/ Stop \/ Crash \/ CrashInIntake
  BY <1>1, <1>3 DEF Tick, Stop, Crash, CrashInIntake
<1>4. ASSUME NEW c \in Configs, NEW bad \in SUBSET MayFail, Start(c, bad)  PROVE FileOK'
  BY <1>1, <1>4 DEF Start
<1>5. CASE CrashInRecord
  <2>1. CASE UNCHANGED <<jobs, line, filed>>
    BY <1>0, <1>5, <2>1, FileKept DEF CrashInRecord, FileOK, QueueTypeOK
  <2>2. CASE MarkDone(cur.share, cur.id)
    BY <1>0, <1>5, <2>2, FileMarked DEF CrashInRecord
  <2>. QED  BY <1>5, <2>1, <2>2 DEF CrashInRecord
<1>6. ASSUME NEW g \in Groups, IntakeOne(g)  PROVE FileOK'
  <2>1. <<intake.post, g>> \in Shares
    BY <1>0, <1>6 DEF IntakeOne, IntakePost, TypeOK, NoIntake, Shares
  <2>. QED  BY <1>0, <1>6, <2>1, EnqueueFile DEF IntakeOne
<1>7. CASE IntakeEnd
  <2>1. intake.post \in Posts
    BY <1>0, <1>7 DEF IntakeEnd, Settling, IntakePost, TypeOK
  <2>. QED  BY <1>0, <1>7, <2>1, FileKept DEF IntakeEnd, ClaimSeen, FileOK, QueueTypeOK
<1>8. ASSUME NEW s \in Sources, CatchupFetch(s) \/ CatchupFetchFail(s)  PROVE FileOK'
  BY <1>1, <1>8 DEF CatchupFetch, CatchupFetchFail
<1>9. ASSUME NEW p \in Posts, CatchupSkip(p) \/ CatchupTake(p)  PROVE FileOK'
  BY <1>1, <1>9 DEF CatchupSkip, CatchupTake
<1>10. ASSUME NEW p \in Posts, CatchupBaseline(p)  PROVE FileOK'
  BY <1>0, <1>10, FileKept DEF CatchupBaseline, ClaimSeen, FileOK, QueueTypeOK
<1>11. CASE WorkerHold \/ WorkerPick \/ PaceAbort \/ PaceEnd \/ LookupDone \/ BeginSend
            \/ Forward \/ SleepEnd
  BY <1>1, <1>11 DEF WorkerHold, WorkerPick, PaceAbort, PaceEnd, LookupDone, BeginSend,
                     Forward, SleepEnd
<1>12. CASE WorkerDefer
  <2>1. Head(line) \in Shares
    BY <1>0, <1>12, HeadIsPending DEF WorkerDefer, MayPop
  <2>. QED  BY <1>0, <1>12, <2>1, DeferFile DEF WorkerDefer, FileOK, QueueTypeOK
<1>13. CASE FloodWait \/ PeerFlood \/ SlowMode
  <2>1. cur.share \in Shares
    BY <1>0 DEF TypeOK
  <2>2. Defer(cur.share, cur.id) /\ UNCHANGED <<seen, acked>>
    BY <1>13 DEF FloodWait, PeerFlood, SlowMode, DeferCur
  <2>. QED  BY <1>0, <2>1, <2>2, DeferFile DEF FileOK, QueueTypeOK
<1>14. CASE LookupFail \/ SourceGone \/ SourceMissing \/ SendError
  BY <1>0, <1>14, FileMarked DEF LookupFail, SourceGone, SourceMissing, SendError, GiveUp
<1>15. CASE DryRun \/ Delivered
  BY <1>0, <1>15, FileMarked DEF DryRun, Delivered
<1>16. CASE Forbidden
  BY <1>0, <1>16, FileMarked DEF Forbidden
<1>17. CASE AlertDone
  <2>1. CurPost \in Posts
    BY <1>0 DEF TypeOK, CurPost, Shares
  <2>2. seen' \subseteq Posts /\ acked' \subseteq Posts
    BY <1>0, <1>17, <2>1 DEF AlertDone, TryAck, FileOK, QueueTypeOK
  <2>. QED  BY <1>0, <1>17, <2>2, FileKept DEF AlertDone
<1>18. CASE QueueClear
  BY <1>0, <1>18, ClearFile DEF QueueClear, FileOK, QueueTypeOK
<1>19. CASE UNCHANGED vars
  BY <1>1, <1>19 DEF vars
<1>. QED
  BY <1>2, <1>3, <1>4, <1>5, <1>6, <1>7, <1>8, <1>9, <1>10, <1>11, <1>12, <1>13, <1>14,
     <1>15, <1>16, <1>17, <1>18, <1>19
     DEF Next, Intake, Catchup, Worker

----------------------------------------------------------------------------
\* The guard, in every step.

LEMMA GuardInNext ==
  ASSUME SafeInv, [Next]_vars
  PROVE  GuardTypeOK'
<1>1. GuardTypeOK /\ CurGroup \in Destinations
  BY SpreadAssumption DEF SafeInv, TypeOK, CurGroup, Shares
<1>2. ASSUME UNCHANGED guardVars  PROVE GuardTypeOK'
  BY <1>1, <1>2, GuardStep
<1>3. CASE Tick
  BY <1>1, <1>3, GuardStep DEF Tick
<1>4. CASE WorkerHold \/ WorkerDefer \/ WorkerPick \/ PaceAbort \/ PaceEnd
  BY <1>1, <1>4, GuardStep DEF WorkerHold, WorkerDefer, WorkerPick, PaceAbort, PaceEnd
<1>5. CASE DryRun \/ Delivered \/ CrashInRecord
  BY <1>1, <1>5, GuardStep DEF DryRun, Delivered, CrashInRecord
<1>6. CASE FloodWait \/ PeerFlood
  BY <1>1, <1>6, GuardStep DEF FloodWait, PeerFlood
<1>7. ASSUME NEW p \in Posts,
             Publish(p) \/ Dispatch(p) \/ CatchupSkip(p) \/ CatchupBaseline(p) \/ CatchupTake(p)
      PROVE  UNCHANGED guardVars
  BY <1>7 DEF Publish, Dispatch, CatchupSkip, CatchupBaseline, CatchupTake, NextOfBatch
<1>8. ASSUME NEW c \in Configs, NEW bad \in SUBSET MayFail, Start(c, bad)
      PROVE  UNCHANGED guardVars
  BY <1>8 DEF Start
<1>9. CASE Stop \/ Crash \/ CrashInIntake \/ QueueClear \/ UNCHANGED vars
  BY <1>2, <1>9 DEF Stop, Crash, CrashInIntake, QueueClear, vars
<1>10. ASSUME (\E g \in Groups : IntakeOne(g)) \/ IntakeEnd  PROVE UNCHANGED guardVars
  BY <1>10 DEF IntakeOne, IntakeEnd
<1>11. ASSUME NEW s \in Sources, CatchupFetch(s) \/ CatchupFetchFail(s)
       PROVE  UNCHANGED guardVars
  BY <1>11 DEF CatchupFetch, CatchupFetchFail
<1>12. CASE LookupFail \/ LookupDone \/ SourceGone \/ BeginSend \/ SourceMissing \/ Forward
            \/ SendError \/ SlowMode \/ SleepEnd \/ Forbidden \/ AlertDone
  BY <1>2, <1>12 DEF LookupFail, LookupDone, SourceGone, BeginSend, SourceMissing, Forward,
                     SendError, SlowMode, SleepEnd, Forbidden, AlertDone, GiveUp
<1>. QED
  BY <1>2, <1>3, <1>4, <1>5, <1>6, <1>7, <1>8, <1>9, <1>10, <1>11, <1>12
     DEF Next, Intake, Catchup, Worker

----------------------------------------------------------------------------
\* The process: its routes, its catch-up and its worker.

ProcTypeOK ==
  /\ up \in {"down", "idle", "live"}
  /\ conf \in Configs
  /\ routes \in [Sources -> SUBSET Groups]
  /\ ents \subseteq Groups
  /\ todo \subseteq Sources
  /\ batch \subseteq Posts
  /\ priming \in BOOLEAN
  /\ intake \in [post : Posts \cup {0}, groups : SUBSET Groups, made : BOOLEAN]
  /\ wk \in WorkerStates
  /\ cur \in [share : Shares, id : Nat]
  /\ published \subseteq Posts
  /\ age \in [Posts -> 0..MaxAge]
  /\ inbox \subseteq Posts
  /\ recorded \subseteq Shares
  /\ excused \subseteq Posts
  /\ unread \subseteq Sources

LEMMA ProcInNext ==
  ASSUME SafeInv, [Next]_vars
  PROVE  ProcTypeOK' /\ IntakePost'
<1> USE DEF ProcTypeOK, IntakePost
<1>1. ProcTypeOK /\ FileOK /\ IntakePost
  BY DEF SafeInv, TypeOK, FileOK
<1>2. 0 \notin Posts /\ MaxAge \in Nat /\ SourceOf \in [Posts -> Sources]
  BY QueueAssumption, SpreadAssumption DEF MaxAge
<1>3. /\ {"off", "idle", "pacing", "lookup", "sending", "posted", "alert", "sleep"}
           = WorkerStates
      /\ NoIntake = [post |-> 0, groups |-> {}, made |-> FALSE]
      /\ NoCur \in [share : Shares, id : Nat]
  BY SomeShare DEF WorkerStates, NoIntake
<1>4. ASSUME NEW p \in Posts, Publish(p)  PROVE ProcTypeOK' /\ IntakePost'
  BY <1>1, <1>4 DEF Publish, procVars, catchVars, workVars, histVars
<1>5. CASE Tick
  BY <1>1, <1>2, <1>5 DEF Tick, procVars, catchVars, workVars, histVars
<1>6. ASSUME NEW c \in Configs, NEW bad \in SUBSET MayFail, Start(c, bad)
      PROVE  ProcTypeOK' /\ IntakePost'
  <2>1. Resolved(c, bad) \in [Sources -> SUBSET Groups]
    BY SpreadAssumption DEF Resolved
  <2> DEFINE r == Resolved(c, bad)
  <2> HIDE DEF r
  <2>2. /\ routes' = r /\ r \in [Sources -> SUBSET Groups] /\ conf' = c
        /\ ents' = UNION {r[s] : s \in Sources}
        /\ todo' \subseteq Sources
        /\ wk' \in {wk, "idle"} /\ up' \in {"live", "idle"}
    BY <1>1, <1>6, <2>1 DEF Start, r
  <2>3. UNCHANGED <<batch, priming, intake, cur, published, age, inbox, recorded, excused,
                    unread>>
    BY <1>6 DEF Start, envVars
  <2>. QED  BY <1>1, <1>3, <2>2, <2>3
<1>7. CASE Stop \/ Crash \/ CrashInIntake \/ CrashInRecord
  <2>1. /\ up' \in {"down"} /\ routes' \in [Sources -> SUBSET Groups] /\ ents' = {}
        /\ todo' = {} /\ batch' = {} /\ priming' = FALSE /\ wk' = "off" /\ cur' = NoCur
        /\ inbox' = {} /\ unread' = {}
    BY <1>7 DEF Stop, Crash, CrashInIntake, CrashInRecord, Down
  <2>2. UNCHANGED <<conf, published, age>>
    BY <1>7 DEF Stop, Crash, CrashInIntake, CrashInRecord
  <2>3. intake' \in {intake, NoIntake}
    BY <1>7 DEF Stop, Crash, CrashInIntake, CrashInRecord
  <2>4. recorded' \subseteq Shares
    BY <1>1, <1>7 DEF Stop, Crash, CrashInIntake, CrashInRecord
  <2>5. excused' \subseteq Posts
    <3>1. CASE CrashInIntake
      BY <1>1, <3>1 DEF CrashInIntake, Settling
    <3>2. CASE Stop \/ Crash \/ CrashInRecord
      BY <1>1, <3>2 DEF Stop, Crash, CrashInRecord
    <3>. QED  BY <1>7, <3>1, <3>2
  <2>6. /\ intake' \in [post : Posts \cup {0}, groups : SUBSET Groups, made : BOOLEAN]
        /\ wk' \in WorkerStates
    <3>1. NoIntake \in [post : Posts \cup {0}, groups : SUBSET Groups, made : BOOLEAN]
      BY DEF NoIntake
    <3>2. wk' \in WorkerStates
      BY <2>1 DEF WorkerStates
    <3>. QED  BY <1>1, <2>3, <3>1, <3>2
  <2>7. ProcTypeOK'
    BY <1>1, <1>3, <2>1, <2>2, <2>4, <2>5, <2>6
  <2>. QED  BY <1>1, <2>3, <2>7
<1>22. ASSUME NEW p \in Posts, BeginIntake(p)
       PROVE  /\ intake' \in [post : Posts \cup {0}, groups : SUBSET Groups, made : BOOLEAN]
              /\ IntakePost'
  <2>1. routes[SourceOf[p]] \subseteq Groups
    BY <1>1, <1>2
  <2>2. intake'.post # 0
    BY <1>2, <1>22 DEF BeginIntake
  <2>. QED  BY <1>22, <2>1, <2>2 DEF BeginIntake
<1>8. ASSUME NEW p \in Posts, Dispatch(p)  PROVE ProcTypeOK' /\ IntakePost'
  <2>1. /\ intake' \in [post : Posts \cup {0}, groups : SUBSET Groups, made : BOOLEAN]
        /\ IntakePost'
    <3>1. CASE UNCHANGED intake
      BY <1>1, <3>1
    <3>. QED  BY <1>8, <1>22, <3>1 DEF Dispatch
  <2>2. excused' \subseteq Posts /\ inbox' \subseteq Posts
    BY <1>1, <1>8 DEF Dispatch
  <2>3. UNCHANGED <<procVars, catchVars, workVars, published, age, recorded, unread>>
    BY <1>8 DEF Dispatch
  <2>. QED  BY <1>1, <2>1, <2>2, <2>3 DEF procVars, catchVars, workVars
<1>9. ASSUME NEW g \in Groups, IntakeOne(g)  PROVE ProcTypeOK' /\ IntakePost'
  <2>1. intake # NoIntake /\ intake.post # 0
    BY <1>1, <1>9 DEF IntakeOne, NoIntake
  <2>2. /\ intake' \in [post : Posts \cup {0}, groups : SUBSET Groups, made : BOOLEAN]
        /\ intake'.post = intake.post
    <3> DEFINE made == intake.made \/ jobs[<<intake.post, g>>].st # "pending"
    <3>1. made \in BOOLEAN
      BY <1>1
    <3>2. intake' = [intake EXCEPT !.groups = intake.groups \ {g}, !.made = made]
      BY <1>9 DEF IntakeOne
    <3> HIDE DEF made
    <3>. QED  BY <1>1, <3>1, <3>2
  <2>3. UNCHANGED <<procVars, catchVars, workVars, envVars, histVars>>
    BY <1>9 DEF IntakeOne
  <2>. QED  BY <1>1, <2>1, <2>2, <2>3 DEF procVars, catchVars, workVars, envVars, histVars
<1>10. CASE IntakeEnd
  BY <1>1, <1>3, <1>10 DEF IntakeEnd, procVars, catchVars, workVars, envVars, histVars
<1>11. ASSUME NEW s \in Sources, CatchupFetch(s) \/ CatchupFetchFail(s)
       PROVE  ProcTypeOK' /\ IntakePost'
  BY <1>1, <1>11 DEF CatchupFetch, CatchupFetchFail, Selected, Recent, procVars,
                     workVars, envVars
<1>12. ASSUME NEW p \in Posts, CatchupSkip(p) \/ CatchupBaseline(p) \/ CatchupTake(p)
       PROVE  ProcTypeOK' /\ IntakePost'
  <2>1. /\ intake' \in [post : Posts \cup {0}, groups : SUBSET Groups, made : BOOLEAN]
        /\ IntakePost'
    <3>1. CASE UNCHANGED intake
      BY <1>1, <3>1
    <3>. QED  BY <1>12, <1>22, <3>1 DEF CatchupSkip, CatchupBaseline, CatchupTake
  <2>2. NextOfBatch(p)
    BY <1>12 DEF CatchupSkip, CatchupBaseline, CatchupTake
  <2>. QED
    BY <1>1, <2>1, <2>2 DEF NextOfBatch, procVars, workVars, envVars
<1>20. ASSUME UNCHANGED <<up, conf, routes, catchVars, intake, envVars, excused, unread>>,
              ents' \subseteq Groups, recorded' \subseteq Shares, wk' \in WorkerStates,
              cur' \in [share : Shares, id : Nat]
       PROVE  ProcTypeOK' /\ IntakePost'
  BY <1>1, <1>20 DEF catchVars, envVars
<1>13. CASE WorkerPick
  <2>1. Head(line) \in Shares /\ jobs[Head(line)].id \in Nat
    BY <1>1, <1>13, HeadIsPending DEF WorkerPick, MayPop, FileOK, QueueTypeOK, Job
  <2>2. cur' \in [share : Shares, id : Nat] /\ wk' \in WorkerStates
    BY <1>3, <1>13, <2>1 DEF WorkerPick
  <2>. QED  BY <1>1, <1>13, <1>20, <2>2 DEF WorkerPick, procVars, histVars
<1>14. CASE WorkerHold \/ WorkerDefer \/ AlertDone \/ QueueClear
  BY <1>1, <1>3, <1>14, <1>20
     DEF WorkerHold, WorkerDefer, AlertDone, QueueClear, WorkerRests, procVars, workVars,
         histVars
<1>21. CASE PaceAbort \/ PaceEnd \/ BeginSend \/ Forward \/ SleepEnd \/ Forbidden
  BY <1>1, <1>3, <1>21, <1>20
     DEF PaceAbort, PaceEnd, BeginSend, Forward, SleepEnd, Forbidden, WorkerRests, procVars,
         histVars
<1>15. CASE LookupDone
  <2>1. CurGroup \in Groups
    BY <1>1 DEF CurGroup, Shares
  <2>. QED  BY <1>1, <1>15, <1>20, <2>1 DEF LookupDone, workVars, histVars
<1>16. CASE LookupFail \/ SourceGone \/ SourceMissing \/ SendError
  BY <1>1, <1>3, <1>16, <1>20
     DEF LookupFail, SourceGone, SourceMissing, SendError, GiveUp, WorkerRests, procVars,
         histVars
<1>17. CASE DryRun \/ Delivered
  <2>1. recorded' \subseteq Shares
    BY <1>1, <1>17 DEF DryRun, Delivered, histVars
  <2>. QED
    BY <1>1, <1>3, <1>17, <1>20, <2>1 DEF DryRun, Delivered, WorkerRests, procVars, histVars
<1>18. CASE FloodWait \/ PeerFlood \/ SlowMode
  BY <1>1, <1>3, <1>18, <1>20
     DEF FloodWait, PeerFlood, SlowMode, DeferCur, WorkerRests, WorkerSleeps, procVars, histVars
<1>19. CASE UNCHANGED vars
  BY <1>1, <1>19 DEF vars, procVars, catchVars, workVars, envVars, histVars
<1>. QED
  BY <1>4, <1>5, <1>6, <1>7, <1>8, <1>9, <1>10, <1>11, <1>12, <1>13, <1>14, <1>15, <1>16,
     <1>17, <1>18, <1>19, <1>21
     DEF Next, Intake, Catchup, Worker

----------------------------------------------------------------------------
\* The pace of the worker.

LEMMA PaceInNext ==
  ASSUME SafeInv, [Next]_vars
  PROVE  PaceInv'
<1>1. /\ PaceInv /\ GuardTypeOK /\ FileOK
      /\ CurGroup \in Destinations
  BY SpreadAssumption DEF SafeInv, TypeOK, FileOK, CurGroup, Shares
<1>2. ASSUME UNCHANGED <<workVars, since, breaker, left>>  PROVE PaceInv'
  BY <1>1, <1>2 DEF PaceInv, Committed, CurGroup, CooldownOk, workVars
<1>3. ASSUME wk' \notin {"pacing", "lookup", "sending", "posted"}  PROVE PaceInv'
  BY <1>3 DEF PaceInv, Committed
<1>4. CASE Tick
  <2>1. UNCHANGED workVars /\ GuardTick
    BY <1>4 DEF Tick
  <2>2. CooldownOk(CurGroup) => CooldownOk(CurGroup)'
    BY <1>1, <2>1, GuardPace DEF CooldownOk, workVars, CurGroup
  <2>3. ~(breaker /\ left > 0) => ~(breaker' /\ left' > 0)
    BY <1>1, <2>1, GuardPace
  <2>. QED  BY <1>1, <2>1, <2>2, <2>3 DEF PaceInv, Committed, workVars
<1>5. CASE WorkerPick
  <2>1. CooldownOk(Head(line)[2]) /\ cur' = [share |-> Head(line), id |-> jobs[Head(line)].id]
    BY <1>5 DEF WorkerPick
  <2>2. UNCHANGED since
    BY <1>5 DEF WorkerPick, Refresh
  <2>3. wk' = "pacing" /\ CurGroup' = Head(line)[2]
    BY <1>5, <2>1 DEF WorkerPick, CurGroup
  <2>. QED  BY <2>1, <2>2, <2>3 DEF PaceInv, CooldownOk
<1>6. CASE PaceEnd
  <2>1. UNCHANGED <<since, left, cur>> /\ Active /\ wk = "pacing" /\ (breaker' => breaker)
    BY <1>6 DEF PaceEnd, Refresh, WorkerAt
  <2>. QED  BY <1>1, <2>1 DEF PaceInv, Active, CooldownOk, CurGroup, Committed
<1>7. CASE BeginSend \/ Forward \/ LookupDone
  BY <1>1, <1>7
     DEF BeginSend, Forward, LookupDone, WorkerAt, PaceInv, Committed, CurGroup, CooldownOk,
         guardVars, workVars
<1>8. ASSUME NEW p \in Posts,
             Publish(p) \/ Dispatch(p) \/ CatchupSkip(p) \/ CatchupBaseline(p) \/ CatchupTake(p)
      PROVE  PaceInv'
  BY <1>2, <1>8
     DEF Publish, Dispatch, CatchupSkip, CatchupBaseline, CatchupTake, NextOfBatch, guardVars
<1>9. ASSUME NEW c \in Configs, NEW bad \in SUBSET MayFail, Start(c, bad)
      PROVE  PaceInv'
  <2>1. UNCHANGED <<cur, guardVars>> /\ wk' \in {wk, "idle"}
    BY <1>9 DEF Start
  <2>. QED
    BY <1>1, <2>1 DEF PaceInv, Committed, CurGroup, CooldownOk, guardVars
<1>10. CASE Stop \/ Crash \/ CrashInIntake \/ CrashInRecord
  BY <1>3, <1>10 DEF Stop, Crash, CrashInIntake, CrashInRecord, Down
<1>11. CASE (\E g \in Groups : IntakeOne(g)) \/ IntakeEnd
  BY <1>2, <1>11 DEF IntakeOne, IntakeEnd, guardVars
<1>12. ASSUME NEW s \in Sources, CatchupFetch(s) \/ CatchupFetchFail(s)  PROVE PaceInv'
  BY <1>2, <1>12 DEF CatchupFetch, CatchupFetchFail, guardVars
<1>13. CASE QueueClear \/ UNCHANGED vars
  BY <1>2, <1>13 DEF QueueClear, vars, guardVars
<1>14. CASE WorkerHold \/ WorkerDefer
  BY <1>3, <1>14 DEF WorkerHold, WorkerDefer, MayPop, WorkerAt, workVars
<1>15. CASE PaceAbort \/ DryRun \/ Delivered \/ AlertDone \/ SleepEnd
  BY <1>3, <1>15 DEF PaceAbort, DryRun, Delivered, AlertDone, SleepEnd, WorkerRests
<1>16. CASE LookupFail \/ SourceGone \/ SourceMissing \/ SendError
  BY <1>3, <1>16 DEF LookupFail, SourceGone, SourceMissing, SendError, GiveUp, WorkerRests
<1>17. CASE FloodWait \/ PeerFlood \/ SlowMode \/ Forbidden
  BY <1>3, <1>17 DEF FloodWait, PeerFlood, SlowMode, Forbidden, WorkerRests, WorkerSleeps
<1>. QED
  BY <1>4, <1>5, <1>6, <1>7, <1>8, <1>9, <1>10, <1>11, <1>12, <1>13, <1>14, <1>15, <1>16,
     <1>17
     DEF Next, Intake, Catchup, Worker

LEMMA SafeNext == SafeInv /\ [Next]_vars => SafeInv'
<1> SUFFICES ASSUME SafeInv, [Next]_vars  PROVE SafeInv'
  OBVIOUS
<1>1. FileOK'
  BY FileStep
<1>2. GuardTypeOK'
  BY GuardInNext
<1>3. ProcTypeOK' /\ IntakePost'
  BY ProcInNext
<1>4. PaceInv'
  BY PaceInNext
<1>. QED  BY <1>1, <1>2, <1>3, <1>4 DEF SafeInv, TypeOK, FileOK, ProcTypeOK

THEOREM SafeInvariant == Spec => []SafeInv
<1>. QED  BY SafeInit, SafeNext, PTL DEF Spec

\* Every value the module keeps in its two files and in memory has its type, over every stop,
\* crash and restart.
THEOREM TypeCorrect == Spec => []TypeOK
<1>1. SafeInv => TypeOK
  BY DEF SafeInv
<1>. QED  BY <1>1, SafeInvariant, PTL

\* modules/promo_spread/module.py asks for the cooldown of the group before the human delay and
\* not after it: the group is cool all the same when the post is sent.
THEOREM CooldownSafe == Spec => []CooldownHeld
<1>1. SafeInv => CooldownHeld
  BY DEF SafeInv, PaceInv, Committed, CooldownHeld
<1>. QED  BY <1>1, SafeInvariant, PTL

\* Nothing is posted while the circuit breaker of safety.py is open.
THEOREM CircuitSafe == Spec => []CircuitHeld
<1>1. SafeInv => CircuitHeld
  BY DEF SafeInv, PaceInv, CircuitHeld
<1>. QED  BY <1>1, SafeInvariant, PTL

----------------------------------------------------------------------------
(***************************************************************************)
(* No post twice.                                                          *)
(*                                                                         *)
(* The argument: a post that has a job has the seen marker, unless its     *)
(* intake is still going on or was torn; so an undisturbed intake is the   *)
(* first of its post and finds nothing of it on file; so what the worker   *)
(* holds, and what was recorded, is the only job its share ever had.       *)
(***************************************************************************)

\* The seen reaction is never disabled: the seen marker is claimed only to place it.
SeenMarkersOn == \A c \in Configs : c.seen

\* A job has been created for share x.
HasJob(x) == jobs[x].st # "none"

\* The first, undisturbed intake of a post finds nothing of the post on file.
IntakeInv ==
  (intake # NoIntake /\ intake.post \notin excused) =>
    /\ intake.post \notin acked
    /\ \A g \in intake.groups : ~HasJob(<<intake.post, g>>)
    /\ (\E g \in Groups : HasJob(<<intake.post, g>>)) => intake.made

\* Posts with jobs are marked seen, posts that are acknowledged have jobs.
MarkerInv ==
  \A p \in Posts :
    /\ (\E g \in Groups : HasJob(<<p, g>>)) => p \in seen \/ p \in excused \/ p = intake.post
    /\ p \in acked => p \in seen \/ p \in excused
    /\ \A g \in Groups : jobs[<<p, g>>].past => HasJob(<<p, g>>)

\* What the worker holds is a job of its own time: were it replaced, the post is excused.
HeldInv ==
  Committed =>
    /\ HasJob(cur.share)
    /\ \/ CurPost \in excused
       \/ /\ cur.share \notin recorded
          /\ jobs[cur.share].st = "pending" => jobs[cur.share].id = cur.id

RecordInv ==
  \A x \in recorded : HasJob(x) /\ (jobs[x].st = "pending" => x[1] \in excused)

HistInv == IntakeInv /\ MarkerInv /\ HeldInv /\ RecordInv /\ AckIsFinal

RepostInv == SafeInv /\ HistInv

----------------------------------------------------------------------------
\* Steps by what they do to the jobs.

\* Nothing of what the history is about changes, and the worker commits itself to nothing new.
LEMMA HistKept ==
  ASSUME HistInv, UNCHANGED <<jobs, seen, acked, intake, recorded, excused>>,
         Committed' => Committed /\ UNCHANGED cur
  PROVE  HistInv'
<1>1. IntakeInv' /\ MarkerInv' /\ RecordInv' /\ AckIsFinal'
  BY DEF HistInv, IntakeInv, MarkerInv, RecordInv, AckIsFinal, HasJob
<1>2. HeldInv'
  BY DEF HistInv, HeldInv, HasJob, CurPost
<1>. QED  BY <1>1, <1>2 DEF HistInv

\* An instance that ends leaves the history as it is.
LEMMA HistDown ==
  ASSUME HistInv, Down, UNCHANGED <<jobs, seen, acked, intake, recorded, excused>>
  PROVE  HistInv'
BY HistKept DEF Down, Committed

\* No job becomes pending and none appears or disappears: marks and clears.
JobsOnlySettle ==
  \A y \in Shares :
    /\ jobs'[y].st = "pending" => jobs[y].st = "pending" /\ jobs'[y].id = jobs[y].id
    /\ jobs'[y].st = "none" <=> jobs[y].st = "none"
    /\ jobs'[y].past = jobs[y].past

LEMMA MarkSettles ==
  ASSUME TypeOK, NEW x \in Shares, NEW id, MarkFile(x, id)
  PROVE  JobsOnlySettle
BY DEF MarkFile, JobsOnlySettle

LEMMA HistSettled ==
  ASSUME TypeOK, HistInv, JobsOnlySettle, UNCHANGED <<seen, intake, excused>>, Settling,
         TryAck \/ UNCHANGED acked,
         \/ UNCHANGED recorded
         \/ /\ recorded' = recorded \cup {cur.share}
            /\ HasJob(cur.share)
            /\ jobs'[cur.share].st = "pending" => CurPost \in excused,
         Committed' => Committed /\ UNCHANGED <<cur, recorded>>
  PROVE  HistInv'
<1>1. /\ \A y \in Shares : HasJob(y)' <=> HasJob(y)
      /\ recorded \subseteq Shares /\ cur.share \in Shares /\ acked \subseteq Posts
      /\ CurPost \in Posts /\ cur.share[1] = CurPost
      /\ 0 \notin Posts
  BY QueueAssumption DEF JobsOnlySettle, HasJob, TypeOK, QueueTypeOK, CurPost, Shares
<1>2. IntakeInv'
  BY DEF IntakeInv, Settling
<1>3. CurPost \in acked' \ acked =>
        /\ CurPost \in seen \/ CurPost \in excused
        /\ \A g \in Groups : jobs'[<<CurPost, g>>].st # "pending"
  <2>1. SUFFICES ASSUME CurPost \in acked' \ acked
                 PROVE  /\ CurPost \in seen \/ CurPost \in excused
                        /\ \A g \in Groups : jobs'[<<CurPost, g>>].st # "pending"
    OBVIOUS
  <2>2. CanAck(jobs', CurPost)
    BY <2>1 DEF TryAck
  <2>3. PICK g \in Groups : OnFile(jobs', <<CurPost, g>>)
    BY <2>2 DEF CanAck
  <2>4. <<CurPost, g>> \in Shares
    BY <1>1 DEF Shares
  <2>5. HasJob(<<CurPost, g>>)
    BY <1>1, <2>3, <2>4 DEF OnFile, Settled, HasJob, JobsOnlySettle, HistInv, MarkerInv
  <2>6. CurPost # intake.post
    BY <1>1 DEF Settling, NoIntake
  <2>7. CurPost \in seen \/ CurPost \in excused
    BY <1>1, <2>5, <2>6 DEF HistInv, MarkerInv
  <2>. QED  BY <2>2, <2>7 DEF CanAck
<1>4. \A p \in acked' : p \in acked \/ p = CurPost
  BY DEF TryAck
<1>5. MarkerInv'
  <2>1. ASSUME NEW p \in Posts, NEW g \in Groups
        PROVE  /\ <<p, g>> \in Shares
               /\ HasJob(<<p, g>>)' <=> HasJob(<<p, g>>)
               /\ jobs'[<<p, g>>].past = jobs[<<p, g>>].past
    BY <1>1 DEF Shares, JobsOnlySettle
  <2>. QED  BY <2>1, <1>3, <1>4 DEF HistInv, MarkerInv
<1>6. AckIsFinal'
  <2>1. ASSUME NEW p \in acked' \ excused, NEW g \in Groups
        PROVE  jobs'[<<p, g>>].st # "pending"
    <3>1. CASE p \in acked
      <4>1. <<p, g>> \in Shares
        BY <1>1, <3>1 DEF Shares
      <4>. QED  BY <2>1, <3>1, <4>1 DEF HistInv, AckIsFinal, JobsOnlySettle
    <3>2. CASE p \notin acked
      BY <1>3, <1>4, <2>1, <3>2
    <3>. QED  BY <3>1, <3>2
  <2>. QED  BY <2>1 DEF AckIsFinal
<1>7. RecordInv'
  <2>1. ASSUME NEW x \in recorded'
        PROVE  HasJob(x)' /\ (jobs'[x].st = "pending" => x[1] \in excused)
    <3>1. CASE x \in recorded
      BY <1>1, <3>1 DEF HistInv, RecordInv, JobsOnlySettle
    <3>2. CASE x \notin recorded
      BY <1>1, <2>1, <3>2
    <3>. QED  BY <3>1, <3>2
  <2>. QED  BY <2>1 DEF RecordInv
<1>8. HeldInv'
  <2>1. SUFFICES ASSUME Committed'  PROVE HeldInv'
    BY DEF HeldInv
  <2>2. HeldInv /\ Committed /\ UNCHANGED <<cur, recorded, excused>>
    BY <2>1 DEF HistInv
  <2>. QED  BY <1>1, <2>2 DEF HeldInv, JobsOnlySettle, CurPost
<1>. QED  BY <1>2, <1>5, <1>6, <1>7, <1>8 DEF HistInv

\* A post that begins its intake has no job and no ack, or is excused.
LEMMA HistBegins ==
  ASSUME TypeOK, HistInv, NEW p \in Posts, BeginIntake(p), Settling,
         UNCHANGED <<jobs, seen, acked, recorded, wk, cur>>,
         excused \subseteq excused', p \notin seen \/ p \in excused'
  PROVE  HistInv'
<1>1. 0 \notin Posts /\ intake.post = 0 /\ intake'.post = p /\ intake'.groups \subseteq Groups
  <2>1. routes[SourceOf[p]] \subseteq Groups
    BY SpreadAssumption DEF TypeOK
  <2>. QED  BY <2>1, QueueAssumption DEF Settling, NoIntake, BeginIntake
<1>2. IntakeInv'
  <2>1. SUFFICES ASSUME p \notin excused'
                 PROVE  p \notin acked /\ \A g \in Groups : ~HasJob(<<p, g>>)
    BY <1>1 DEF IntakeInv, HasJob
  <2>2. p \notin seen /\ p \notin excused /\ p # intake.post
    BY <1>1, <2>1
  <2>. QED  BY <2>2 DEF HistInv, MarkerInv
<1>3. MarkerInv'
  BY <1>1 DEF HistInv, MarkerInv, HasJob
<1>4. AckIsFinal' /\ RecordInv'
  BY DEF HistInv, AckIsFinal, RecordInv, HasJob
<1>5. HeldInv'
  BY DEF HistInv, HeldInv, HasJob, Committed, CurPost
<1>. QED  BY <1>2, <1>3, <1>4, <1>5 DEF HistInv

----------------------------------------------------------------------------
\* The steps of the history.

LEMMA HistIntakeOne ==
  ASSUME SafeInv, HistInv, NEW g \in Groups, IntakeOne(g)
  PROVE  HistInv'
<1> DEFINE p == intake.post
           x == <<p, g>>
<1>1. /\ p \in Posts /\ x \in Shares /\ intake # NoIntake
      /\ intake.groups \subseteq Groups /\ g \in intake.groups
      /\ recorded \subseteq Shares /\ cur.share \in Shares /\ acked \subseteq Posts
  BY DEF SafeInv, IntakePost, TypeOK, QueueTypeOK, IntakeOne, NoIntake, Shares
<1>2. /\ jobs'[x].st = "pending"
      /\ jobs[x].st = "pending" => jobs'[x] = jobs[x]
      /\ \A y \in Shares \ {x} :
           /\ jobs'[y].st = "pending" => jobs'[y] = jobs[y]
           /\ jobs'[y].st = "none" <=> jobs[y].st = "none"
           /\ jobs'[y].past = jobs[y].past
  BY <1>1, EnqueueFile DEF SafeInv, TypeOK, FileOK, IntakeOne
<1>3. /\ intake'.post = p
      /\ intake'.groups = intake.groups \ {g}
      /\ intake'.made = (intake.made \/ jobs[x].st # "pending")
  BY DEF IntakeOne, SafeInv, TypeOK
<1>4. UNCHANGED <<seen, acked, recorded, excused, wk, cur>>
  BY DEF IntakeOne, workVars, histVars
<1>5. p \notin excused => p \notin acked /\ jobs[x].st = "none"
  BY <1>1 DEF HistInv, IntakeInv, HasJob
<1> HIDE DEF p, x
<1>6. IntakeInv'
  <2>1. SUFFICES ASSUME p \notin excused
                 PROVE  /\ p \notin acked
                        /\ \A h \in intake.groups \ {g} : jobs'[<<p, h>>].st = "none"
                        /\ intake'.made
    BY <1>3, <1>4 DEF IntakeInv, HasJob
  <2>2. intake'.made
    BY <1>3, <1>5, <2>1
  <2>3. ASSUME NEW h \in intake.groups \ {g}
        PROVE  jobs'[<<p, h>>].st = "none"
    <3>1. <<p, h>> \in Shares \ {x}
      BY <1>1 DEF Shares, x
    <3>2. jobs[<<p, h>>].st = "none"
      BY <1>1, <2>1 DEF HistInv, IntakeInv, HasJob, p
    <3>. QED  BY <1>2, <3>1, <3>2
  <2>. QED  BY <1>5, <2>1, <2>2, <2>3
<1>7. MarkerInv'
  <2>1. ASSUME NEW q \in Posts
        PROVE  /\ (\E h \in Groups : HasJob(<<q, h>>)') => q \in seen \/ q \in excused \/ q = p
               /\ \A h \in Groups : jobs'[<<q, h>>].past => HasJob(<<q, h>>)'
    <3>1. ASSUME NEW h \in Groups, <<q, h>> # x
          PROVE  /\ HasJob(<<q, h>>)' <=> HasJob(<<q, h>>)
                 /\ jobs'[<<q, h>>].past = jobs[<<q, h>>].past
      <4>1. <<q, h>> \in Shares \ {x}
        BY <3>1 DEF Shares
      <4>. QED  BY <1>2, <4>1 DEF HasJob
    <3>2. ASSUME NEW h \in Groups, <<q, h>> = x
          PROVE  q = p /\ HasJob(<<q, h>>)'
      BY <1>2, <3>2 DEF HasJob, x
    <3>. QED  BY <3>1, <3>2 DEF HistInv, MarkerInv, p
  <2>. QED  BY <1>3, <1>4, <2>1 DEF HistInv, MarkerInv
<1>8. AckIsFinal'
  <2>1. ASSUME NEW q \in acked \ excused, NEW h \in Groups
        PROVE  jobs'[<<q, h>>].st # "pending"
    <3>1. q # p
      BY <1>5, <2>1
    <3>2. <<q, h>> \in Shares \ {x}
      BY <1>1, <2>1, <3>1 DEF Shares, x
    <3>. QED  BY <1>2, <2>1, <3>2 DEF HistInv, AckIsFinal
  <2>. QED  BY <1>4, <2>1 DEF AckIsFinal
<1>9. RecordInv'
  <2>1. ASSUME NEW y \in recorded
        PROVE  HasJob(y)' /\ (jobs'[y].st = "pending" => y[1] \in excused)
    <3>1. HasJob(y) /\ (jobs[y].st = "pending" => y[1] \in excused) /\ y \in Shares
      BY <1>1, <2>1 DEF HistInv, RecordInv
    <3>2. CASE y # x
      BY <1>2, <3>1, <3>2 DEF HasJob
    <3>3. CASE y = x
      BY <1>2, <1>5, <3>1, <3>3 DEF HasJob, x
    <3>. QED  BY <3>2, <3>3
  <2>. QED  BY <1>4, <2>1 DEF RecordInv
<1>10. HeldInv'
  <2>1. SUFFICES ASSUME Committed  PROVE HeldInv'
    BY <1>4 DEF HeldInv, Committed
  <2>2. HeldInv
    BY DEF HistInv
  <2>3. CASE cur.share # x
    BY <1>1, <1>2, <1>4, <2>1, <2>2, <2>3 DEF HeldInv, HasJob, CurPost
  <2>4. CASE cur.share = x
    <3>1. CurPost = p /\ HasJob(x)
      BY <2>1, <2>2, <2>4 DEF HeldInv, CurPost, x
    <3>2. CurPost \in excused
      BY <1>5, <3>1 DEF HasJob
    <3>. QED  BY <1>2, <1>4, <2>4, <3>2 DEF HeldInv, HasJob, CurPost
  <2>. QED  BY <2>3, <2>4
<1>. QED  BY <1>6, <1>7, <1>8, <1>9, <1>10 DEF HistInv

LEMMA HistIntakeEnd ==
  ASSUME SafeInv, HistInv, SeenMarkersOn, IntakeEnd
  PROVE  HistInv'
<1>1. /\ intake' = NoIntake
      /\ seen' = IF intake.made THEN seen \cup {intake.post} ELSE seen
      /\ UNCHANGED <<jobs, acked, recorded, excused, wk, cur>>
      /\ intake # NoIntake
  <2>1. conf.seen
    BY DEF SafeInv, TypeOK, SeenMarkersOn
  <2>. QED  BY <2>1 DEF IntakeEnd, ClaimSeen, Settling, workVars, histVars
<1>2. IntakeInv'
  BY <1>1 DEF IntakeInv
<1>3. MarkerInv'
  <2>1. ASSUME NEW p \in Posts, \E g \in Groups : HasJob(<<p, g>>)
        PROVE  p \in seen' \/ p \in excused
    <3>1. p \in seen \/ p \in excused \/ p = intake.post
      BY <2>1 DEF HistInv, MarkerInv
    <3>2. CASE p = intake.post /\ p \notin excused
      <4>1. intake.made
        BY <1>1, <2>1, <3>2 DEF HistInv, IntakeInv
      <4>. QED  BY <1>1, <3>2, <4>1
    <3>. QED  BY <1>1, <3>1, <3>2
  <2>. QED  BY <1>1, <2>1 DEF HistInv, MarkerInv, HasJob
<1>4. AckIsFinal' /\ RecordInv'
  BY <1>1 DEF HistInv, AckIsFinal, RecordInv, HasJob
<1>5. HeldInv'
  BY <1>1 DEF HistInv, HeldInv, HasJob, Committed, CurPost
<1>. QED  BY <1>2, <1>3, <1>4, <1>5 DEF HistInv

LEMMA HistTorn ==
  ASSUME SafeInv, HistInv, CrashInIntake
  PROVE  HistInv'
<1>1. /\ intake' = NoIntake
      /\ excused' = excused \cup {intake.post}
      /\ UNCHANGED <<jobs, seen, acked, recorded>>
      /\ ~Committed'
  BY DEF CrashInIntake, Down, queueVars, Committed
<1>2. IntakeInv' /\ HeldInv'
  BY <1>1 DEF IntakeInv, HeldInv
<1>3. MarkerInv'
  BY <1>1 DEF HistInv, MarkerInv, HasJob
<1>4. AckIsFinal' /\ RecordInv'
  BY <1>1 DEF HistInv, AckIsFinal, RecordInv, HasJob
<1>. QED  BY <1>2, <1>3, <1>4 DEF HistInv

LEMMA HistPick ==
  ASSUME SafeInv, HistInv, WorkerPick
  PROVE  HistInv'
<1>1. /\ Head(line) \in Shares /\ jobs[Head(line)].st = "pending"
      /\ cur' = [share |-> Head(line), id |-> jobs[Head(line)].id]
      /\ UNCHANGED <<jobs, seen, acked, intake, recorded, excused>>
  BY HeadIsPending DEF SafeInv, TypeOK, FileOK, WorkerPick, MayPop, queueVars, histVars
<1>2. IntakeInv' /\ MarkerInv' /\ RecordInv' /\ AckIsFinal'
  BY <1>1 DEF HistInv, IntakeInv, MarkerInv, RecordInv, AckIsFinal, HasJob
<1>3. HeldInv'
  BY <1>1 DEF HistInv, RecordInv, HeldInv, HasJob, CurPost
<1>. QED  BY <1>2, <1>3 DEF HistInv

----------------------------------------------------------------------------

LEMMA RepostInit == Init => HistInv
<1> SUFFICES ASSUME Init  PROVE HistInv
  OBVIOUS
<1>1. /\ jobs = [x \in Shares |-> NoJobOnFile]
      /\ acked = {} /\ recorded = {} /\ intake = NoIntake /\ wk = "off"
  BY DEF Init, QueueInit
<1>2. ASSUME NEW p \in Posts, NEW g \in Groups
      PROVE  ~HasJob(<<p, g>>) /\ ~jobs[<<p, g>>].past
  <2>1. <<p, g>> \in Shares
    BY DEF Shares
  <2>2. jobs[<<p, g>>] = NoJobOnFile
    BY <1>1, <2>1
  <2>. QED  BY <2>2 DEF HasJob, NoJobOnFile
<1>3. IntakeInv /\ RecordInv /\ AckIsFinal /\ HeldInv
  BY <1>1 DEF IntakeInv, RecordInv, AckIsFinal, HeldInv, Committed
<1>4. MarkerInv
  BY <1>1, <1>2 DEF MarkerInv
<1>. QED  BY <1>3, <1>4 DEF HistInv

LEMMA RepostNext ==
  ASSUME SafeInv, HistInv, SeenMarkersOn, [Next]_vars
  PROVE  HistInv'
<1>1. TypeOK /\ FileOK /\ cur.share \in Shares
  BY DEF SafeInv, TypeOK, FileOK
<1>2. ASSUME NEW p \in Posts, Publish(p)  PROVE HistInv'
  BY <1>2, HistKept DEF Publish, queueVars, workVars, histVars, Committed
<1>3. ASSUME NEW p \in Posts, Dispatch(p)  PROVE HistInv'
  <2>1. UNCHANGED <<jobs, seen, acked, recorded, wk, cur>> /\ Settling
    BY <1>3 DEF Dispatch, queueVars, workVars
  <2>2. CASE UNCHANGED <<intake, excused>>
    BY <2>1, <2>2, HistKept DEF Committed
  <2>3. CASE /\ BeginIntake(p)
             /\ excused' = IF p \in seen THEN excused \cup {p} ELSE excused
    BY <1>1, <2>1, <2>3, HistBegins
  <2>. QED  BY <1>3, <2>2, <2>3 DEF Dispatch
<1>4. CASE Tick \/ QueueClear \/ UNCHANGED vars
  <2>1. CASE Tick
    BY <2>1, HistKept DEF Tick, queueVars, workVars, histVars, Committed
  <2>2. CASE QueueClear
    <3>1. JobsOnlySettle
      BY <1>1, <2>2, ClearFile DEF QueueClear, JobsOnlySettle
    <3>. QED
      BY <1>1, <2>2, <3>1, HistSettled DEF QueueClear, workVars, histVars, Committed
  <2>3. CASE UNCHANGED vars
    BY <2>3, HistKept DEF vars, queueVars, workVars, histVars, Committed
  <2>. QED  BY <1>4, <2>1, <2>2, <2>3
<1>5. ASSUME NEW c \in Configs, NEW bad \in SUBSET MayFail, Start(c, bad)  PROVE HistInv'
  <2>1. UNCHANGED <<jobs, seen, acked, intake, recorded, excused, cur>> /\ wk' \in {wk, "idle"}
    BY <1>5 DEF Start, queueVars
  <2>. QED  BY <2>1, HistKept DEF Committed
<1>6. CASE Stop \/ Crash
  BY <1>6, HistDown DEF Stop, Crash, queueVars
<1>7. CASE CrashInIntake
  BY <1>7, HistTorn
<1>8. CASE CrashInRecord
  <2>1. /\ UNCHANGED <<seen, acked, intake, excused>> /\ Down /\ Settling
        /\ wk = "posted" /\ ~Committed'
    BY <1>8 DEF CrashInRecord, WorkerAt, Down, Committed
  <2>2. CASE UNCHANGED <<jobs, line, filed, recorded>>
    BY <2>1, <2>2, HistDown
  <2>3. CASE MarkDone(cur.share, cur.id) /\ recorded' = recorded \cup {cur.share}
    <3>1. JobsOnlySettle /\ ~(jobs'[cur.share].st = "pending" /\ jobs'[cur.share].id = cur.id)
      BY <1>1, <2>3, MarkDoneFile, MarkSettles
    <3>2. HasJob(cur.share) /\ (jobs'[cur.share].st = "pending" => CurPost \in excused)
      BY <1>1, <2>1, <3>1 DEF HistInv, HeldInv, Committed, JobsOnlySettle
    <3>. QED  BY <1>1, <2>1, <2>3, <3>1, <3>2, HistSettled
  <2>. QED  BY <1>8, <2>2, <2>3 DEF CrashInRecord
<1>9. ASSUME NEW g \in Groups, IntakeOne(g)  PROVE HistInv'
  BY <1>9, HistIntakeOne
<1>10. CASE IntakeEnd
  BY <1>10, HistIntakeEnd
<1>11. ASSUME NEW s \in Sources, CatchupFetch(s) \/ CatchupFetchFail(s)  PROVE HistInv'
  BY <1>11, HistKept DEF CatchupFetch, CatchupFetchFail, queueVars, workVars, Committed
<1>12. ASSUME NEW p \in Posts, CatchupSkip(p)  PROVE HistInv'
  BY <1>12, HistKept DEF CatchupSkip, NextOfBatch, queueVars, workVars, Committed
<1>13. ASSUME NEW p \in Posts, CatchupBaseline(p)  PROVE HistInv'
  <2>1. UNCHANGED <<jobs, acked, intake, recorded, excused, wk, cur>> /\ seen \subseteq seen'
    BY <1>13 DEF CatchupBaseline, NextOfBatch, ClaimSeen, workVars
  <2>2. IntakeInv' /\ MarkerInv' /\ RecordInv' /\ AckIsFinal'
    BY <2>1 DEF HistInv, IntakeInv, MarkerInv, RecordInv, AckIsFinal, HasJob
  <2>3. HeldInv'
    BY <2>1 DEF HistInv, HeldInv, HasJob, Committed, CurPost
  <2>. QED  BY <2>2, <2>3 DEF HistInv
<1>14. ASSUME NEW p \in Posts, CatchupTake(p)  PROVE HistInv'
  BY <1>1, <1>14, HistBegins DEF CatchupTake, NextOfBatch, queueVars, workVars
<1>15. CASE WorkerPick
  BY <1>15, HistPick
<1>16. CASE WorkerDefer
  <2>1. Head(line) \in Shares
    BY <1>1, <1>16, HeadIsPending DEF WorkerDefer, MayPop
  <2>. QED
    BY <1>16, HistKept DEF WorkerDefer, Defer, workVars, histVars, Committed
<1>17. CASE WorkerHold \/ PaceAbort \/ PaceEnd \/ LookupDone \/ BeginSend \/ Forward \/ SleepEnd
  BY <1>17, HistKept
     DEF WorkerHold, PaceAbort, PaceEnd, LookupDone, BeginSend, Forward, SleepEnd, WorkerAt,
         WorkerRests, queueVars, workVars, histVars, Committed
<1>18. CASE FloodWait \/ PeerFlood \/ SlowMode
  BY <1>18, HistKept
     DEF FloodWait, PeerFlood, SlowMode, DeferCur, Defer, WorkerRests, WorkerSleeps, histVars,
         Committed
<1>19. CASE LookupFail \/ SourceGone \/ SourceMissing \/ SendError
  <2>1. PICK retry \in BOOLEAN : GiveUp(retry)
    BY <1>19 DEF LookupFail, SourceGone, SourceMissing, SendError
  <2>2. JobsOnlySettle
    BY <1>1, <2>1, MarkFailedFile, MarkSettles DEF GiveUp
  <2>3. Settling
    BY <1>19 DEF LookupFail, SourceGone, SourceMissing, SendError, WorkerAt
  <2>. QED
    BY <1>1, <2>1, <2>2, <2>3, HistSettled DEF GiveUp, WorkerRests, histVars, Committed
<1>20. CASE Forbidden
  <2>1. JobsOnlySettle
    BY <1>1, <1>20, MarkFailedFile, MarkSettles DEF Forbidden
  <2>. QED
    BY <1>1, <1>20, <2>1, HistSettled DEF Forbidden, WorkerAt, histVars, Committed
<1>21. CASE DryRun
  <2>1. JobsOnlySettle
    BY <1>1, <1>21, MarkDoneFile, MarkSettles DEF DryRun
  <2>. QED
    BY <1>1, <1>21, <2>1, HistSettled DEF DryRun, WorkerAt, WorkerRests, histVars, Committed
<1>22. CASE Delivered
  <2>1. JobsOnlySettle /\ ~(jobs'[cur.share].st = "pending" /\ jobs'[cur.share].id = cur.id)
    BY <1>1, <1>22, MarkDoneFile, MarkSettles DEF Delivered
  <2>2. HasJob(cur.share) /\ (jobs'[cur.share].st = "pending" => CurPost \in excused)
    BY <1>1, <1>22, <2>1 DEF Delivered, WorkerAt, HistInv, HeldInv, Committed, JobsOnlySettle
  <2>. QED
    BY <1>1, <1>22, <2>1, <2>2, HistSettled DEF Delivered, WorkerAt, WorkerRests, Committed
<1>23. CASE AlertDone
  <2>1. JobsOnlySettle
    BY <1>23 DEF AlertDone, JobsOnlySettle
  <2>. QED
    BY <1>1, <1>23, <2>1, HistSettled DEF AlertDone, WorkerAt, WorkerRests, histVars, Committed
<1>. QED
  BY <1>2, <1>3, <1>4, <1>5, <1>6, <1>7, <1>8, <1>9, <1>10, <1>11, <1>12, <1>13, <1>14,
     <1>15, <1>16, <1>17, <1>18, <1>19, <1>20, <1>21, <1>22, <1>23
     DEF Next, Intake, Catchup, Worker

THEOREM RepostInvariant ==
  ASSUME SeenMarkersOn
  PROVE  Spec => []RepostInv
<1>1. Init => RepostInv
  BY SafeInit, RepostInit DEF RepostInv
<1>2. RepostInv /\ [Next]_vars => RepostInv'
  BY SafeNext, RepostNext DEF RepostInv
<1>. QED  BY <1>1, <1>2, PTL DEF Spec

\* As long as the seen reaction is not disabled, no share whose delivery was recorded is posted
\* again: the seen marker, claimed after the jobs are filed, is enough for catch-up.
THEOREM NoRepostSafe ==
  ASSUME SeenMarkersOn
  PROVE  Spec => []NoRepost
<1>1. RepostInv => NoRepost
  BY DEF RepostInv, HistInv, HeldInv, NoRepost, Committed
<1>. QED  BY <1>1, RepostInvariant, PTL

\* The ack reaction, once given, stays true.
THEOREM AckSafe ==
  ASSUME SeenMarkersOn
  PROVE  Spec => []AckIsFinal
<1>1. RepostInv => AckIsFinal
  BY DEF RepostInv, HistInv
<1>. QED  BY <1>1, RepostInvariant, PTL

----------------------------------------------------------------------------
(***************************************************************************)
(* The budgets.                                                            *)
(*                                                                         *)
(* The argument: both budgets are asked again after the human delay, and   *)
(* from there to the note of the send the worker is the only one to note   *)
(* any, while time only takes sends out of the hour and the day: when the  *)
(* send is noted there is still room for it.                               *)
(***************************************************************************)

\* Past the last check there is room for one more send.
BudgetInv == WithinBudget /\ (wk \in {"lookup", "sending", "posted"} => BudgetOk)

\* The sends of an hour or a day can be counted.
LEMMA EntriesCount ==
  ASSUME GuardTypeOK, NEW len \in 0..DayLen
  PROVE  IsFiniteSet(Entries(len)) /\ SentWithin(len) \in Nat
<1> DEFINE OfAge(a) == {a} \X (1..sent[a])
           ages == {OfAge(a) : a \in 0..len}
           f == [a \in 0..len |-> OfAge(a)]
<1>1. len \in Nat /\ DayLen \in Nat /\ sent \in [0..DayLen -> Nat]
  BY GuardAssumption DEF GuardTypeOK
<1>2. f \in Surjection(0..len, ages)
  BY DEF Surjection
<1>3. IsFiniteSet(0..len)
  BY <1>1, FS_Interval
<1>4. IsFiniteSet(ages)
  BY <1>2, <1>3, FS_Surjection
<1>5. ASSUME NEW a \in 0..len  PROVE IsFiniteSet(OfAge(a))
  <2>1. sent[a] \in Nat
    BY <1>1
  <2>2. IsFiniteSet(1..sent[a])
    BY <2>1, FS_Interval
  <2>3. IsFiniteSet({a})
    BY FS_Singleton
  <2>. QED  BY <2>2, <2>3, FS_Product
<1>6. \A T \in ages : IsFiniteSet(T)
  BY <1>5
<1>7. IsFiniteSet(UNION ages)
  <2> HIDE DEF ages
  <2>. QED  BY <1>4, <1>6, FS_UNION
<1>8. Entries(len) = UNION ages
  BY DEF Entries
<1>. QED  BY <1>7, <1>8, FS_CardinalityType DEF SentWithin

\* An entry of the sends, by its age and its place among those of that age.
LEMMA EntryIs ==
  ASSUME NEW len, NEW a, NEW i
  PROVE  <<a, i>> \in Entries(len) <=> a \in 0..len /\ i \in 1..sent[a]
BY DEF Entries

\* Time takes sends out of the hour and the day.
LEMMA EntriesAge ==
  ASSUME GuardTypeOK, GuardTick, NEW len \in 0..DayLen
  PROVE  SentWithin(len)' \in Nat /\ SentWithin(len)' <= SentWithin(len)
<1> DEFINE g == [e \in Entries(len)' |-> <<e[1] - 1, e[2]>>]
<1>1. len \in Nat /\ DayLen \in Nat /\ sent \in [0..DayLen -> Nat]
  BY GuardAssumption DEF GuardTypeOK
<1>2. sent' = [a \in 0..DayLen |-> IF a = 0 THEN 0 ELSE sent[a - 1]]
  BY DEF GuardTick
<1>3. ASSUME NEW e \in Entries(len)'
      PROVE  /\ e = <<e[1], e[2]>> /\ e[1] \in Nat /\ e[2] \in Nat
             /\ <<e[1] - 1, e[2]>> \in Entries(len)
  <2>1. PICK a \in 0..len : e \in {a} \X (1..sent'[a])
    BY DEF Entries
  <2>2. e = <<a, e[2]>> /\ e[2] \in 1..sent'[a] /\ e[1] = a
    BY <2>1
  <2>3. a \in 0..DayLen /\ sent'[a] = IF a = 0 THEN 0 ELSE sent[a - 1]
    BY <1>1, <1>2
  <2>4. a # 0
    BY <2>2, <2>3
  <2>5. a - 1 \in 0..len /\ e[2] \in 1..sent[a - 1]
    BY <1>1, <2>2, <2>3, <2>4
  <2>6. <<a - 1, e[2]>> \in Entries(len)
    BY <2>5, EntryIs
  <2>. QED  BY <1>1, <2>2, <2>6
<1>4. g \in Injection(Entries(len)', Entries(len))
  <2>1. g \in [Entries(len)' -> Entries(len)]
    BY <1>3
  <2>2. ASSUME NEW x \in Entries(len)', NEW y \in Entries(len)', g[x] = g[y]  PROVE x = y
    <3>1. x[1] - 1 = y[1] - 1 /\ x[2] = y[2]
      BY <2>2
    <3>2. x = <<x[1], x[2]>> /\ y = <<y[1], y[2]>> /\ x[1] \in Nat /\ y[1] \in Nat
      BY <1>3
    <3>3. x[1] = y[1]
      BY <3>1, <3>2
    <3>. QED  BY <3>1, <3>2, <3>3
  <2>. QED  BY <2>1, <2>2 DEF Injection, IsInjective
<1> HIDE DEF g
<1>5. IsFiniteSet(Entries(len)') /\ Cardinality(Entries(len)') <= Cardinality(Entries(len))
  BY <1>4, EntriesCount, FS_Injection
<1>. QED  BY <1>5, FS_CardinalityType DEF SentWithin

\* A send that is noted is one more in the hour and in the day.
LEMMA EntriesGrow ==
  ASSUME GuardTypeOK, NEW d \in Destinations, NoteSuccess(d), NEW len \in 0..DayLen
  PROVE  SentWithin(len)' = SentWithin(len) + 1
<1> DEFINE new == <<0, sent[0] + 1>>
<1>1. /\ len \in Nat /\ DayLen \in Nat /\ sent \in [0..DayLen -> Nat] /\ sent[0] \in Nat
  BY GuardAssumption DEF GuardTypeOK
<1>2. sent' = [sent EXCEPT ![0] = sent[0] + 1]
  BY DEF NoteSuccess
<1>3. \A a \in 0..len : sent'[a] = IF a = 0 THEN sent[0] + 1 ELSE sent[a]
  BY <1>1, <1>2
<1>4. new \notin Entries(len)
  BY <1>1, EntryIs
<1>5. Entries(len)' = Entries(len) \cup {new}
  <2>1. ASSUME NEW e \in Entries(len)'  PROVE e \in Entries(len) \cup {new}
    <3>1. PICK a \in 0..len : e \in {a} \X (1..sent'[a])
      BY DEF Entries
    <3>2. e = <<a, e[2]>> /\ e[2] \in 1..sent'[a]
      BY <3>1
    <3>3. e[2] \in 1..sent[a] \/ (a = 0 /\ e[2] = sent[0] + 1)
      <4>1. CASE a = 0
        <5>1. sent[0] \in Nat /\ e[2] \in 1..(sent[0] + 1)  BY <1>1, <1>3, <3>2, <4>1
        <5>. QED  BY ONLY <4>1, <5>1
      <4>2. CASE a # 0  BY <1>3, <3>2, <4>2
      <4>. QED  BY <4>1, <4>2
    <3>. QED  BY <3>2, <3>3, EntryIs
  <2>2. ASSUME NEW e \in Entries(len)  PROVE e \in Entries(len)'
    <3>1. PICK a \in 0..len : e \in {a} \X (1..sent[a])
      BY DEF Entries
    <3>2. sent[a] \in Nat
      BY <1>1
    <3>3. e \in {a} \X (1..sent'[a])
      <4>1. 1..sent[a] \subseteq 1..sent'[a]
        BY <1>1, <1>3, <3>2
      <4>. QED  BY <3>1, <4>1
    <3>. QED  BY <3>3 DEF Entries
  <2>3. new \in Entries(len)'
    <3>1. 0 \in 0..len /\ new \in {0} \X (1..sent'[0])
      BY <1>1, <1>3
    <3>. QED  BY <3>1 DEF Entries
  <2>. QED  BY <2>1, <2>2, <2>3
<1> HIDE DEF new
<1>. QED  BY <1>4, <1>5, EntriesCount, FS_AddElement DEF SentWithin

LEMMA BudgetInit == Init => BudgetInv
<1> SUFFICES ASSUME Init  PROVE BudgetInv
  OBVIOUS
<1>1. ASSUME NEW len \in {HourLen, DayLen}  PROVE SentWithin(len) = 0
  <2>1. len \in 0..DayLen /\ sent = [a \in 0..DayLen |-> 0] /\ len \in Nat
    BY GuardAssumption DEF Init, GuardInit
  <2>2. \A a \in 0..len : {a} \X (1..sent[a]) = {}
    <3>1. \A a \in 0..len : sent[a] = 0
      BY <2>1, GuardAssumption
    <3>. QED  BY <3>1
  <2>3. Entries(len) = {}
    BY <2>2 DEF Entries
  <2>. QED  BY <2>3, FS_EmptySet DEF SentWithin
<1>2. wk = "off"
  BY DEF Init
<1>. QED  BY <1>1, <1>2, GuardAssumption DEF BudgetInv, WithinBudget

LEMMA BudgetNext ==
  ASSUME SafeInv, BudgetInv, [Next]_vars
  PROVE  BudgetInv'
<1>1. GuardTypeOK /\ CurGroup \in Destinations
  BY SpreadAssumption DEF SafeInv, TypeOK, CurGroup, Shares
<1>2. /\ HourLen \in 0..DayLen /\ DayLen \in 0..DayLen
      /\ HourlyBudget \in Nat /\ DailyBudget \in Nat
      /\ SentWithin(HourLen) \in Nat /\ SentWithin(DayLen) \in Nat
  <2>1. HourLen \in 0..DayLen /\ DayLen \in 0..DayLen
    BY GuardAssumption
  <2>. QED  BY <1>1, <2>1, EntriesCount, GuardAssumption
<1>3. ASSUME UNCHANGED sent,
             wk' \in {"lookup", "sending", "posted"} =>
               BudgetOk \/ wk \in {"lookup", "sending", "posted"}
      PROVE  BudgetInv'
  <2>1. \A len : SentWithin(len)' = SentWithin(len)
    BY <1>3 DEF SentWithin, Entries
  <2>. QED  BY <1>3, <2>1 DEF BudgetInv, WithinBudget, BudgetOk
<1>4. CASE Tick
  <2>1. GuardTick /\ UNCHANGED wk
    BY <1>4 DEF Tick, workVars
  <2>2. /\ SentWithin(HourLen)' \in Nat /\ SentWithin(HourLen)' <= SentWithin(HourLen)
        /\ SentWithin(DayLen)' \in Nat /\ SentWithin(DayLen)' <= SentWithin(DayLen)
    BY <1>1, <1>2, <2>1, EntriesAge
  <2>. QED  BY <1>2, <2>1, <2>2 DEF BudgetInv, WithinBudget, BudgetOk
<1>5. CASE DryRun \/ Delivered \/ CrashInRecord
  <2>1. NoteSuccess(CurGroup) /\ BudgetOk /\ wk' \in {"idle", "off"}
    BY <1>5 DEF DryRun, Delivered, CrashInRecord, WorkerAt, WorkerRests, Down, BudgetInv
  <2>2. /\ SentWithin(HourLen)' = SentWithin(HourLen) + 1
        /\ SentWithin(DayLen)' = SentWithin(DayLen) + 1
    BY <1>1, <1>2, <2>1, EntriesGrow
  <2>. QED  BY <1>2, <2>1, <2>2 DEF BudgetInv, WithinBudget, BudgetOk
<1>6. CASE PaceEnd
  BY <1>3, <1>6 DEF PaceEnd, Refresh
<1>7. CASE BeginSend \/ Forward \/ LookupDone
  BY <1>3, <1>7 DEF BeginSend, Forward, LookupDone, WorkerAt, guardVars, workVars
<1>8. ASSUME NEW p \in Posts,
             Publish(p) \/ Dispatch(p) \/ CatchupSkip(p) \/ CatchupBaseline(p) \/ CatchupTake(p)
      PROVE  BudgetInv'
  BY <1>3, <1>8
     DEF Publish, Dispatch, CatchupSkip, CatchupBaseline, CatchupTake, NextOfBatch, guardVars,
         workVars
<1>9. ASSUME NEW c \in Configs, NEW bad \in SUBSET MayFail, Start(c, bad)
      PROVE  BudgetInv'
  BY <1>3, <1>9 DEF Start, guardVars
<1>10. CASE Stop \/ Crash \/ CrashInIntake
  BY <1>3, <1>10 DEF Stop, Crash, CrashInIntake, Down, guardVars
<1>11. CASE (\E g \in Groups : IntakeOne(g)) \/ IntakeEnd
  BY <1>3, <1>11 DEF IntakeOne, IntakeEnd, guardVars, workVars
<1>12. ASSUME NEW s \in Sources, CatchupFetch(s) \/ CatchupFetchFail(s)  PROVE BudgetInv'
  BY <1>3, <1>12 DEF CatchupFetch, CatchupFetchFail, guardVars, workVars
<1>13. CASE QueueClear \/ UNCHANGED vars
  BY <1>3, <1>13 DEF QueueClear, vars, guardVars, workVars
<1>14. CASE WorkerHold \/ WorkerDefer \/ WorkerPick \/ PaceAbort
  BY <1>3, <1>14
     DEF WorkerHold, WorkerDefer, WorkerPick, PaceAbort, Refresh, WorkerRests, workVars
<1>15. CASE AlertDone \/ SleepEnd \/ LookupFail \/ SourceGone \/ SourceMissing \/ SendError
  BY <1>3, <1>15
     DEF AlertDone, SleepEnd, LookupFail, SourceGone, SourceMissing, SendError, GiveUp,
         WorkerRests, guardVars
<1>16. CASE FloodWait \/ PeerFlood \/ SlowMode \/ Forbidden
  BY <1>3, <1>16
     DEF FloodWait, PeerFlood, SlowMode, Forbidden, NoteFloodWait, NotePeerFlood, WorkerRests,
         WorkerSleeps, guardVars
<1>. QED
  BY <1>4, <1>5, <1>6, <1>7, <1>8, <1>9, <1>10, <1>11, <1>12, <1>13, <1>14, <1>15, <1>16
     DEF Next, Intake, Catchup, Worker

\* modules/promo_spread/safety.py counts the sends of the last hour and day against the budgets
\* before the human delay and after it: no hour and no day ever has more, over restarts too.
THEOREM BudgetSafe == Spec => []WithinBudget
<1>1. SafeInv /\ BudgetInv /\ [Next]_vars => (SafeInv /\ BudgetInv)'
  BY SafeNext, BudgetNext
<1>2. SafeInv /\ BudgetInv => WithinBudget
  BY DEF BudgetInv
<1>. QED  BY <1>1, <1>2, SafeInit, BudgetInit, PTL DEF Spec

----------------------------------------------------------------------------
(***************************************************************************)
(* No post is missed.                                                      *)
(*                                                                         *)
(* The argument: while an instance is live, a post it has to look after is *)
(* on its way: its source has still to be caught up, or it is in the batch *)
(* of its source, or being taken in, or its update is due; and it leaves   *)
(* that way only with its seen marker or with a job for every group.  A    *)
(* start puts every source back at the beginning of the way.               *)
(***************************************************************************)

\* Every group of its route has, or had, a job of the post.
Shared(p) == \A g \in routes[SourceOf[p]] : HasJob(<<p, g>>)

\* What NothingMissed asks for of a post.
Wanted(p) == Followed(SourceOf[p]) /\ Newest(p) /\ age[p] <= Window

Underway(p) == SourceOf[p] \in todo \/ p \in batch \/ p = intake.post

\* The groups an intake is through with.
Handed == \A g \in routes[SourceOf[intake.post]] \ intake.groups : HasJob(<<intake.post, g>>)

MissInv ==
  /\ IsFiniteSet(published)
  /\ ~Settling => up = "live" /\ Handed
  /\ up = "live" =>
       \A p \in published \ inbox : Wanted(p) => Underway(p) \/ p \in seen \/ Shared(p)

\* A share that has had a job never again counts as one without.
JobsStay == \A x \in Shares : HasJob(x) => HasJob(x)'

LEMMA JobsStayNext ==
  ASSUME SafeInv, [Next]_vars
  PROVE  JobsStay
<1>0. FileOK /\ cur.share \in Shares
  BY DEF SafeInv, TypeOK, FileOK
<1>1. ASSUME UNCHANGED jobs  PROVE JobsStay
  BY <1>1 DEF JobsStay, HasJob
<1>2. ASSUME NEW id, NEW retry \in BOOLEAN,
             MarkDone(cur.share, id) \/ MarkFailed(cur.share, id, retry)
      PROVE  JobsStay
  <2>1. MarkFile(cur.share, id)
    BY <1>0, <1>2, MarkDoneFile, MarkFailedFile
  <2>. QED  BY <2>1 DEF MarkFile, JobsStay, HasJob
<1>3. ASSUME NEW p \in Posts,
             Publish(p) \/ Dispatch(p) \/ CatchupSkip(p) \/ CatchupBaseline(p) \/ CatchupTake(p)
      PROVE  JobsStay
  BY <1>1, <1>3
     DEF Publish, Dispatch, CatchupSkip, CatchupBaseline, CatchupTake, queueVars
<1>4. ASSUME NEW c \in Configs, NEW bad \in SUBSET MayFail, Start(c, bad)  PROVE JobsStay
  BY <1>1, <1>4 DEF Start, queueVars
<1>5. CASE Tick \/ Stop \/ Crash \/ CrashInIntake \/ IntakeEnd \/ UNCHANGED vars
  BY <1>1, <1>5 DEF Tick, Stop, Crash, CrashInIntake, IntakeEnd, vars, queueVars
<1>6. CASE CrashInRecord
  <2>1. CASE UNCHANGED jobs
    BY <1>1, <2>1
  <2>. QED  BY <1>2, <1>6, <2>1 DEF CrashInRecord
<1>7. ASSUME NEW g \in Groups, IntakeOne(g)  PROVE JobsStay
  <2>1. <<intake.post, g>> \in Shares
    BY <1>7 DEF SafeInv, IntakeOne, IntakePost, TypeOK, NoIntake, Shares
  <2>2. Enqueue(<<intake.post, g>>) /\ UNCHANGED <<seen, acked>>
    BY <1>7 DEF IntakeOne
  <2>. QED  BY <1>0, <2>1, <2>2, EnqueueFile DEF JobsStay, HasJob
<1>8. ASSUME NEW s \in Sources, CatchupFetch(s) \/ CatchupFetchFail(s)  PROVE JobsStay
  BY <1>1, <1>8 DEF CatchupFetch, CatchupFetchFail, queueVars
<1>9. CASE WorkerHold \/ WorkerPick \/ PaceAbort \/ PaceEnd \/ LookupDone \/ BeginSend
           \/ Forward \/ SleepEnd \/ AlertDone
  BY <1>1, <1>9 DEF WorkerHold, WorkerPick, PaceAbort, PaceEnd, LookupDone, BeginSend,
                    Forward, SleepEnd, AlertDone, queueVars
<1>10. CASE WorkerDefer \/ FloodWait \/ PeerFlood \/ SlowMode
  BY <1>1, <1>10 DEF WorkerDefer, FloodWait, PeerFlood, SlowMode, DeferCur, Defer
<1>11. CASE LookupFail \/ SourceGone \/ SourceMissing \/ SendError
  BY <1>2, <1>11 DEF LookupFail, SourceGone, SourceMissing, SendError, GiveUp
<1>12. CASE DryRun \/ Delivered \/ Forbidden
  BY <1>2, <1>12 DEF DryRun, Delivered, Forbidden
<1>13. CASE QueueClear
  BY <1>0, <1>13, ClearFile DEF QueueClear, JobsStay, HasJob
<1>. QED
  BY <1>3, <1>4, <1>5, <1>6, <1>7, <1>8, <1>9, <1>10, <1>11, <1>12, <1>13
     DEF Next, Intake, Catchup, Worker

\* What is wanted of an instance was wanted before: posts only get older, and their
\* successors only more.
LEMMA WantedBefore ==
  ASSUME TypeOK, TypeOK', IsFiniteSet(published'), published \subseteq published',
         UNCHANGED <<conf, routes>>, unread \subseteq unread',
         \A q \in Posts : age[q] <= age'[q], NEW p \in Posts, Wanted(p)'
  PROVE  Wanted(p)
<1>1. Followed(SourceOf[p])
  BY DEF Wanted, Followed
<1>2. age[p] <= Window
  <2>1. age'[p] <= Window /\ age[p] <= age'[p]
    BY DEF Wanted
  <2>2. age[p] \in Nat /\ age'[p] \in Nat /\ Window \in Nat
    BY SpreadAssumption DEF TypeOK, MaxAge
  <2>. QED  BY <2>1, <2>2
<1>3. Newest(p)
  <2> DEFINE N == {q \in published : SourceOf[q] = SourceOf[p] /\ q > p}
             M == {q \in published' : SourceOf[q] = SourceOf[p] /\ q > p}
  <2>1. Cardinality(M) < CatchupLimit
    BY DEF Wanted, Newest
  <2>2. IsFiniteSet(M) /\ N \subseteq M
    BY FS_Subset
  <2>3. /\ Cardinality(N) <= Cardinality(M)
        /\ Cardinality(N) \in Nat /\ Cardinality(M) \in Nat
    BY <2>2, FS_Subset, FS_CardinalityType
  <2> HIDE DEF N, M
  <2>4. Cardinality(N) < CatchupLimit
    BY <2>1, <2>3, SpreadAssumption
  <2>. QED  BY <2>4 DEF Newest, N
<1>. QED  BY <1>1, <1>2, <1>3 DEF Wanted

\* A step of an instance that goes on.
LEMMA MissStep ==
  ASSUME TypeOK, TypeOK', MissInv, JobsStay, UNCHANGED <<up, conf, routes>>,
         seen \subseteq seen', unread \subseteq unread',
         \A p \in Posts : age[p] <= age'[p],
         IsFiniteSet(published'), published \subseteq published',
         \A p \in Posts : p \in published' \ inbox' /\ Wanted(p)' /\ up = "live" =>
           p \in published \ inbox \/ Underway(p)',
         \A p \in Posts : Underway(p) /\ p \in published' \ inbox' /\ Wanted(p)' =>
           Underway(p)' \/ p \in seen' \/ Shared(p)',
         Settling' \/ (up = "live" /\ Handed')
  PROVE  MissInv'
<1>1. ASSUME up' = "live", NEW p \in published' \ inbox', Wanted(p)'
      PROVE  Underway(p)' \/ p \in seen' \/ Shared(p)'
  <2>1. p \in Posts
    BY <1>1 DEF TypeOK
  <2>2. Wanted(p)
    BY <1>1, <2>1, WantedBefore
  <2>3. CASE Underway(p)
    BY <1>1, <2>1, <2>3
  <2>4. CASE p \in seen
    BY <2>4
  <2>5. CASE Shared(p)
    <3>1. \A g \in routes[SourceOf[p]] : <<p, g>> \in Shares
      BY <2>1, SpreadAssumption DEF TypeOK, Shares
    <3>. QED  BY <2>5, <3>1 DEF Shared, JobsStay
  <2>6. CASE p \notin published \ inbox
    BY <1>1, <2>1, <2>6
  <2>. QED  BY <1>1, <2>2, <2>3, <2>4, <2>5, <2>6 DEF MissInv
<1>. QED  BY <1>1 DEF MissInv

\* A step that leaves the way to the queue alone.
LEMMA MissKept ==
  ASSUME SafeInv, TypeOK', MissInv, JobsStay, seen \subseteq seen',
         \A p \in Posts : age[p] <= age'[p],
         UNCHANGED <<up, conf, routes, published, inbox, intake, unread, todo, batch>>
  PROVE  MissInv'
<1>1. \A p \in Posts : Underway(p) => Underway(p)'
  BY DEF Underway
<1>2. IsFiniteSet(published') /\ published \subseteq published'
  BY DEF MissInv
<1>3. Settling' \/ (up = "live" /\ Handed')
  <2>1. CASE Settling
    BY <2>1 DEF Settling
  <2>2. CASE ~Settling
    <3>1. up = "live" /\ Handed /\ intake.post \in Posts
      BY <2>2 DEF MissInv, SafeInv, IntakePost, TypeOK, Settling
    <3>2. \A g \in routes[SourceOf[intake.post]] : <<intake.post, g>> \in Shares
      BY <3>1, SpreadAssumption DEF SafeInv, TypeOK, Shares
    <3>. QED  BY <3>1, <3>2 DEF Handed, JobsStay
  <2>. QED  BY <2>1, <2>2
<1>. QED  BY <1>1, <1>2, <1>3, MissStep DEF SafeInv

\* The step of a process that starts: it puts every source it follows on the way.
LEMMA MissStart ==
  ASSUME SafeInv, TypeOK', MissInv, NEW c \in Configs, NEW bad \in SUBSET MayFail, Start(c, bad)
  PROVE  MissInv'
<1>1. Settling' /\ IsFiniteSet(published')
  <2>1. Settling
    BY DEF Start, MissInv
  <2>. QED  BY <2>1 DEF Start, envVars, Settling, MissInv
<1>2. ASSUME up' = "live", NEW p \in published' \ inbox', Wanted(p)'
      PROVE  Underway(p)'
  <2>1. SourceOf[p] \in Sources
    BY SpreadAssumption DEF TypeOK
  <2>2. routes' = Resolved(c, bad) /\ conf' = c
    BY DEF Start
  <2>3. /\ Resolved(c, bad)[SourceOf[p]] # {} /\ SourceOf[p] \notin c.rpaused /\ ~c.gpaused
    BY <1>2, <2>2 DEF Wanted, Followed
  <2>4. HasRoute(Resolved(c, bad))
    BY <2>1, <2>3 DEF HasRoute
  <2>5. todo' = {s \in Sources \ c.rpaused : Resolved(c, bad)[s] # {}}
    BY <2>3, <2>4 DEF Start
  <2>. QED  BY <2>1, <2>3, <2>5 DEF Underway
<1>. QED  BY <1>1, <1>2 DEF MissInv

\* A post that is published while its channel is followed comes in as an update.
LEMMA MissPublish ==
  ASSUME SafeInv, TypeOK', MissInv, JobsStay, NEW p \in Posts, Publish(p)
  PROVE  MissInv'
<1>1. /\ published' = published \cup {p} /\ Settling /\ UNCHANGED intake
      /\ inbox' = IF up = "live" /\ routes[SourceOf[p]] # {} THEN inbox \cup {p} ELSE inbox
      /\ UNCHANGED <<up, conf, routes, todo, batch, age, seen, unread>>
  BY DEF Publish, procVars, catchVars, queueVars, histVars
<1>2. IsFiniteSet(published')
  BY <1>1, FS_AddElement DEF MissInv
<1>3. \A q \in Posts : q \in published' \ inbox' /\ Wanted(q)' /\ up = "live" =>
                       q \in published \ inbox
  BY <1>1 DEF Wanted, Followed
<1>4. \A q \in Posts : Underway(q) => Underway(q)'
  BY <1>1 DEF Underway
<1>5. Settling' /\ \A q \in Posts : age[q] <= age'[q]
  <2>1. age \in [Posts -> 0..MaxAge] /\ MaxAge \in Nat
    BY SpreadAssumption DEF SafeInv, TypeOK, MaxAge
  <2>. QED  BY <1>1, <2>1 DEF Settling
<1>. QED  BY <1>1, <1>2, <1>3, <1>4, <1>5, MissStep DEF SafeInv

\* A post that is taken in is on its way, with the groups of its route before it.
LEMMA MissBegins ==
  ASSUME SafeInv, TypeOK', MissInv, JobsStay, up = "live", Settling, NEW p \in Posts,
         BeginIntake(p), UNCHANGED <<up, conf, routes, published, age, seen, unread, todo>>,
         inbox \ {p} \subseteq inbox', batch \ {p} \subseteq batch'
  PROVE  MissInv'
<1>1. intake'.post = p /\ intake'.groups = routes[SourceOf[p]]
  BY DEF BeginIntake
<1>2. Handed'
  BY <1>1 DEF Handed
<1>3. intake.post = 0 /\ 0 \notin Posts
  BY QueueAssumption DEF Settling, NoIntake
<1>4. \A q \in Posts : q \in published' \ inbox' => q \in published \ inbox \/ Underway(q)'
  BY <1>1 DEF Underway
<1>5. \A q \in Posts : Underway(q) => Underway(q)'
  BY <1>1, <1>3 DEF Underway
<1>6. IsFiniteSet(published') /\ \A q \in Posts : age[q] <= age'[q]
  <2>1. age \in [Posts -> 0..MaxAge] /\ MaxAge \in Nat
    BY SpreadAssumption DEF SafeInv, TypeOK, MaxAge
  <2>. QED  BY <2>1 DEF MissInv
<1>. QED  BY <1>2, <1>4, <1>5, <1>6, MissStep DEF SafeInv

\* Each group an intake is through with has a job; at its end the post has them all.
LEMMA MissIntake ==
  ASSUME SafeInv, TypeOK', MissInv, JobsStay, (\E g \in Groups : IntakeOne(g)) \/ IntakeEnd
  PROVE  MissInv'
<1>1. /\ ~Settling /\ up = "live" /\ Handed /\ intake.post \in Posts
      /\ UNCHANGED <<up, conf, routes, published, inbox, age, unread, todo, batch>>
      /\ seen \subseteq seen' /\ IsFiniteSet(published')
  <2>1. ~Settling
    <3>1. ASSUME NEW g \in Groups, IntakeOne(g)  PROVE ~Settling
      <4>1. g \in intake.groups /\ NoIntake.groups = {}
        BY <3>1 DEF IntakeOne, NoIntake
      <4>. QED  BY <4>1 DEF Settling
    <3>. QED  BY <3>1 DEF IntakeEnd
  <2>2. up = "live" /\ Handed /\ intake.post \in Posts /\ IsFiniteSet(published)
    BY <2>1 DEF MissInv, SafeInv, IntakePost, TypeOK, Settling
  <2>. QED
    BY <2>1, <2>2
       DEF IntakeOne, IntakeEnd, ClaimSeen, procVars, envVars, histVars, catchVars
<1>2. \A q \in Posts : age[q] <= age'[q]
  <2>1. age \in [Posts -> 0..MaxAge] /\ MaxAge \in Nat
    BY SpreadAssumption DEF SafeInv, TypeOK, MaxAge
  <2>. QED  BY <1>1, <2>1
<1>3. \A g \in routes[SourceOf[intake.post]] : <<intake.post, g>> \in Shares
  BY <1>1, SpreadAssumption DEF SafeInv, TypeOK, Shares
<1>4. ASSUME NEW g \in Groups, IntakeOne(g)  PROVE MissInv'
  <2>1. /\ intake'.post = intake.post /\ intake'.groups = intake.groups \ {g}
        /\ Enqueue(<<intake.post, g>>) /\ UNCHANGED <<seen, acked>>
    BY <1>4 DEF IntakeOne, SafeInv, TypeOK
  <2>2. HasJob(<<intake.post, g>>)'
    <3>1. <<intake.post, g>> \in Shares /\ FileOK
      BY <1>1 DEF Shares, SafeInv, TypeOK, FileOK
    <3>. QED  BY <2>1, <3>1, EnqueueFile DEF HasJob
  <2>3. Handed'
    BY <1>1, <1>3, <2>1, <2>2 DEF Handed, JobsStay
  <2>4. \A q \in Posts : Underway(q) => Underway(q)'
    BY <1>1, <2>1 DEF Underway
  <2>. QED  BY <1>1, <1>2, <2>3, <2>4, MissStep DEF SafeInv
<1>5. CASE IntakeEnd
  <2>1. intake.groups = {} /\ Settling' /\ intake' = NoIntake
    BY <1>5 DEF IntakeEnd, Settling
  <2>3. ASSUME NEW q \in Posts, Underway(q)  PROVE Underway(q)' \/ Shared(q)'
    <3>1. CASE q = intake.post
      BY <1>1, <1>3, <2>1, <3>1 DEF Handed, Shared, JobsStay
    <3>2. CASE q # intake.post
      BY <1>1, <2>3, <3>2 DEF Underway
    <3>. QED  BY <3>1, <3>2
  <2>. QED  BY <1>1, <1>2, <2>1, <2>3, MissStep DEF SafeInv
<1>. QED  BY <1>4, <1>5

\* The batch of a source holds every post of it that is wanted.
LEMMA MissCatchup ==
  ASSUME SafeInv, TypeOK', MissInv, JobsStay,
         NEW s \in Sources, CatchupFetch(s) \/ CatchupFetchFail(s)
  PROVE  MissInv'
<1>1. /\ up = "live" /\ Settling /\ batch = {} /\ todo' = todo \ {s}
      /\ UNCHANGED <<up, conf, routes, published, inbox, age, seen, intake>>
      /\ unread \subseteq unread' /\ IsFiniteSet(published') /\ Settling'
  BY DEF CatchupFetch, CatchupFetchFail, procVars, envVars, queueVars, Settling, MissInv
<1>2. \A q \in Posts : age[q] <= age'[q]
  <2>1. age \in [Posts -> 0..MaxAge] /\ MaxAge \in Nat
    BY SpreadAssumption DEF SafeInv, TypeOK, MaxAge
  <2>. QED  BY <1>1, <2>1
<1>3. ASSUME NEW p \in Posts, Underway(p), Wanted(p)', p \in published \ inbox
      PROVE  Underway(p)'
  <2>1. CASE SourceOf[p] # s \/ p = intake.post
    BY <1>1, <1>3, <2>1 DEF Underway
  <2>2. CASE SourceOf[p] = s /\ CatchupFetchFail(s)
    BY <1>3, <2>2 DEF CatchupFetchFail, Wanted, Followed
  <2>3. CASE SourceOf[p] = s /\ CatchupFetch(s)
    <3>1. Wanted(p)
      BY <1>1, <1>2, <1>3, WantedBefore DEF SafeInv
    <3>2. p \in Recent(s)
      BY <1>3, <2>3, <3>1 DEF Recent, Wanted
    <3> DEFINE N == {q \in published : SourceOf[q] = SourceOf[p] /\ q > p}
               M == {q \in Recent(s) : q > p}
    <3>3. Cardinality(N) < CatchupLimit
      BY <3>1 DEF Wanted, Newest
    <3>4. IsFiniteSet(N) /\ M \subseteq N
      BY <2>3, FS_Subset DEF MissInv, Recent
    <3>5. /\ Cardinality(M) <= Cardinality(N)
          /\ Cardinality(M) \in Nat /\ Cardinality(N) \in Nat
      BY <3>4, FS_Subset, FS_CardinalityType
    <3> HIDE DEF N, M
    <3>6. Cardinality(M) < CatchupLimit
      BY <3>3, <3>5, SpreadAssumption
    <3>7. p \in Selected(s)
      BY <3>2, <3>6 DEF Selected, M
    <3>. QED  BY <2>3, <3>7 DEF CatchupFetch, Underway
  <2>. QED  BY <2>1, <2>2, <2>3
<1>4. \A p \in Posts : p \in published' \ inbox' => p \in published \ inbox
  BY <1>1
<1>. QED  BY <1>1, <1>2, <1>3, <1>4, MissStep DEF SafeInv

LEMMA MissBatch ==
  ASSUME SafeInv, TypeOK', MissInv, JobsStay, NEW p \in Posts,
         CatchupSkip(p) \/ CatchupBaseline(p) \/ CatchupTake(p)
  PROVE  MissInv'
<1>1. /\ up = "live" /\ Settling /\ batch' = batch \ {p} /\ intake.post = 0 /\ 0 \notin Posts
      /\ UNCHANGED <<up, conf, routes, published, inbox, age, unread, todo>>
      /\ seen \subseteq seen' /\ IsFiniteSet(published')
  <2>1. NextOfBatch(p)
    BY DEF CatchupSkip, CatchupBaseline, CatchupTake
  <2>2. seen \subseteq seen'
    BY DEF CatchupSkip, CatchupBaseline, CatchupTake, ClaimSeen, queueVars
  <2>. QED
    BY <2>1, <2>2, QueueAssumption
       DEF NextOfBatch, procVars, envVars, MissInv, Settling, NoIntake
<1>2. \A q \in Posts : age[q] <= age'[q]
  <2>1. age \in [Posts -> 0..MaxAge] /\ MaxAge \in Nat
    BY SpreadAssumption DEF SafeInv, TypeOK, MaxAge
  <2>. QED  BY <1>1, <2>1
<1>3. CASE CatchupTake(p)
  BY <1>1, <1>3, MissBegins DEF CatchupTake, queueVars
<1>4. CASE CatchupSkip(p) \/ CatchupBaseline(p)
  <2>1. p \in seen' /\ intake' = intake /\ Settling'
    BY <1>1, <1>4 DEF CatchupSkip, CatchupBaseline, ClaimSeen, queueVars, Settling
  <2>2. \A q \in Posts : Underway(q) => Underway(q)' \/ q \in seen'
    BY <1>1, <2>1 DEF Underway
  <2>. QED  BY <1>1, <1>2, <2>1, <2>2, MissStep DEF SafeInv
<1>. QED  BY <1>3, <1>4

LEMMA MissDispatch ==
  ASSUME SafeInv, TypeOK', MissInv, JobsStay, NEW p \in Posts, Dispatch(p)
  PROVE  MissInv'
<1>1. /\ up = "live" /\ Settling /\ inbox' = inbox \ {p}
      /\ UNCHANGED <<up, conf, routes, published, age, seen, unread, todo, batch>>
      /\ IsFiniteSet(published')
  BY DEF Dispatch, procVars, catchVars, queueVars, MissInv
<1>2. \A q \in Posts : age[q] <= age'[q]
  <2>1. age \in [Posts -> 0..MaxAge] /\ MaxAge \in Nat
    BY SpreadAssumption DEF SafeInv, TypeOK, MaxAge
  <2>. QED  BY <1>1, <2>1
<1>3. CASE BeginIntake(p)
  BY <1>1, <1>3, MissBegins
<1>4. CASE ~BeginIntake(p)
  <2>1. /\ UNCHANGED intake
        /\ routes[SourceOf[p]] = {} \/ SourceOf[p] \in conf.rpaused \/ conf.gpaused
    BY <1>4 DEF Dispatch
  <2>2. ~Wanted(p)'
    BY <1>1, <2>1 DEF Wanted, Followed
  <2>3. Settling' /\ \A q \in Posts : Underway(q) => Underway(q)'
    BY <1>1, <2>1 DEF Underway, Settling
  <2>4. \A q \in Posts : q \in published' \ inbox' /\ Wanted(q)' => q \in published \ inbox
    BY <1>1, <2>2
  <2>. QED  BY <1>1, <1>2, <2>3, <2>4, MissStep DEF SafeInv
<1>. QED  BY <1>3, <1>4

LEMMA MissNext ==
  ASSUME SafeInv, MissInv, [Next]_vars
  PROVE  MissInv'
<1>1. TypeOK' /\ JobsStay
  BY SafeNext, JobsStayNext DEF SafeInv
<1>2. age \in [Posts -> 0..MaxAge] /\ MaxAge \in Nat
  BY SpreadAssumption DEF SafeInv, TypeOK, MaxAge
<1>3. \A q \in Posts : age[q] <= age[q]
  BY <1>2
<1>4. ASSUME UNCHANGED <<up, conf, routes, catchVars, intake, envVars, unread>>,
             seen \subseteq seen'
      PROVE  MissInv'
  BY <1>1, <1>3, <1>4, MissKept DEF catchVars, envVars
<1>5. CASE Tick
  <2>1. \A q \in Posts : age[q] <= age'[q]
    BY <1>2, <1>5 DEF Tick
  <2>2. /\ UNCHANGED <<up, conf, routes, published, inbox, intake, unread, todo, batch>>
        /\ seen \subseteq seen'
    BY <1>5 DEF Tick, procVars, catchVars, queueVars, histVars
  <2>. QED  BY <1>1, <2>1, <2>2, MissKept
<1>6. CASE Stop \/ Crash \/ CrashInIntake \/ CrashInRecord
  <2>1. up' = "down" /\ published' = published
    BY <1>6 DEF Stop, Crash, CrashInIntake, CrashInRecord, Down
  <2>2. Settling'
    BY <1>6 DEF Stop, Crash, CrashInIntake, CrashInRecord, WorkerAt, Settling
  <2>. QED  BY <2>1, <2>2 DEF MissInv
<1>7. ASSUME NEW c \in Configs, NEW bad \in SUBSET MayFail, Start(c, bad)  PROVE MissInv'
  BY <1>1, <1>7, MissStart
<1>8. ASSUME NEW p \in Posts, Publish(p) \/ Dispatch(p)  PROVE MissInv'
  BY <1>1, <1>8, MissPublish, MissDispatch
<1>9. CASE Intake
  BY <1>1, <1>9, MissIntake DEF Intake
<1>10. CASE Catchup
  BY <1>1, <1>10, MissCatchup, MissBatch DEF Catchup
<1>11. CASE QueueClear \/ UNCHANGED vars
  BY <1>4, <1>11
     DEF QueueClear, vars, procVars, catchVars, envVars, histVars, queueVars
<1>12. CASE WorkerHold \/ WorkerDefer \/ WorkerPick \/ PaceAbort \/ PaceEnd \/ LookupDone
  BY <1>4, <1>12
     DEF WorkerHold, WorkerDefer, WorkerPick, PaceAbort, PaceEnd, LookupDone, procVars,
         histVars, queueVars
<1>13. CASE BeginSend \/ Forward \/ SleepEnd \/ AlertDone \/ Forbidden
  BY <1>4, <1>13
     DEF BeginSend, Forward, SleepEnd, AlertDone, Forbidden, procVars, histVars, queueVars
<1>14. CASE LookupFail \/ SourceGone \/ SourceMissing \/ SendError
  BY <1>4, <1>14
     DEF LookupFail, SourceGone, SourceMissing, SendError, GiveUp, procVars, histVars
<1>15. CASE FloodWait \/ PeerFlood \/ SlowMode \/ DryRun \/ Delivered
  BY <1>4, <1>15
     DEF FloodWait, PeerFlood, SlowMode, DeferCur, DryRun, Delivered, procVars, histVars
<1>. QED
  BY <1>5, <1>6, <1>7, <1>8, <1>9, <1>10, <1>11, <1>12, <1>13, <1>14, <1>15
     DEF Next, Worker

\* The catch-up of modules/promo_spread/module.py leaves no post behind that is young enough for
\* its window and new enough for its limit, wherever the process was stopped or torn before.
THEOREM MissesNothing == Spec => []NothingMissed
<1>1. Init => SafeInv /\ MissInv
  <2>1. ASSUME Init  PROVE MissInv
    <3>1. published = {} /\ up = "down" /\ Settling
      BY <2>1 DEF Init, Settling
    <3>. QED  BY <3>1, FS_EmptySet DEF MissInv
  <2>. QED  BY <2>1, SafeInit
<1>2. SafeInv /\ MissInv /\ [Next]_vars => (SafeInv /\ MissInv)'
  BY SafeNext, MissNext
<1>3. SafeInv /\ MissInv => NothingMissed
  <2>1. SUFFICES ASSUME SafeInv, MissInv, CaughtUp, NEW p \in published \ inbox, Wanted(p)
                 PROVE  p \in seen \/ Shared(p)
    BY DEF NothingMissed, Wanted, Shared, HasJob
  <2>2. up = "live" /\ todo = {} /\ batch = {} /\ intake.post = 0 /\ p # 0
    BY <2>1, QueueAssumption DEF CaughtUp, Settling, NoIntake, SafeInv, TypeOK
  <2>. QED  BY <2>1, <2>2 DEF MissInv, Underway
<1>. QED  BY <1>1, <1>2, <1>3, PTL DEF Spec

----------------------------------------------------------------------------
(***************************************************************************)
(* The ledger.                                                             *)
(*                                                                         *)
(* The argument: by HistInv the first, undisturbed intake of a post finds  *)
(* its shares new and its ack not given, what the worker holds has a job   *)
(* and was not delivered, and a mark by its id settles it, unless it left  *)
(* the queue or is a newer job of an excused post.                         *)
(***************************************************************************)

Allowed == Delivery!Next \/ UNCHANGED Delivery!ledger

LEMMA StatusIs ==
  /\ \A y \in Shares : Status[y] = jobs[y].st /\ Status'[y] = jobs'[y].st
  /\ \A p \in Posts, g \in Groups : <<p, g>> \in Shares
BY DEF Status, Shares

\* The shares keep their state, and the hand lets go at most.
LEMMA LedgerKept ==
  ASSUME UNCHANGED <<jobs, recorded, acked, excused>>, InHand' \in {InHand, {}}
  PROVE  Allowed
<1>1. UNCHANGED Status
  BY DEF Status
<1>2. CASE InHand' = InHand
  BY <1>1, <1>2 DEF Allowed, Delivery!ledger
<1>3. CASE InHand' = {}
  BY <1>1, <1>3 DEF Allowed, Delivery!Next, Delivery!Release
<1>. QED  BY <1>2, <1>3

\* A post is excused.
LEMMA LedgerLoosened ==
  ASSUME NEW p \in Posts, excused' = excused \cup {p}, UNCHANGED <<jobs, recorded, acked>>,
         InHand' \in {InHand, {}}
  PROVE  Allowed
<1>1. UNCHANGED Status
  BY DEF Status
<1>. QED  BY <1>1 DEF Allowed, Delivery!Next, Delivery!Loosen

LEMMA LedgerIntake ==
  ASSUME SafeInv, HistInv, NEW g \in Groups, IntakeOne(g)
  PROVE  Allowed
<1> DEFINE x == <<intake.post, g>>
<1>1. /\ x \in Shares /\ intake # NoIntake /\ g \in intake.groups
      /\ jobs \in [Shares -> Job] /\ filed \in Seq(Shares)
  BY DEF SafeInv, IntakePost, TypeOK, QueueTypeOK, IntakeOne, NoIntake, Shares
<1>2. UNCHANGED <<acked, recorded, excused, InHand>> /\ Enqueue(x)
  BY DEF IntakeOne, workVars, histVars, InHand
<1>3. intake.post \notin excused => intake.post \notin acked /\ jobs[x].st = "none"
  BY <1>1 DEF HistInv, IntakeInv, HasJob
<1>4. x[1] = intake.post
  OBVIOUS
<1> HIDE DEF x
<1>5. CASE EnqueueDuplicate(x)
  BY <1>2, <1>5, LedgerKept DEF EnqueueDuplicate
<1>6. CASE EnqueueRoom(x)
  <2>1. Status' = [Status EXCEPT ![x] = "gone", ![x] = "pending"] /\ jobs[x].st # "pending"
    BY <1>1, <1>6 DEF EnqueueRoom, NewJob, Status
  <2>2. Status[x] # "pending" /\ (x[1] \notin excused => Status[x] = "none" /\ x[1] \notin acked)
    BY <1>1, <1>3, <1>4, <2>1, StatusIs
  <2>3. \E old \in {x} \cup {y \in Posts \X Groups : Status[y] = "pending"} :
          Status' = [Status EXCEPT ![old] = "gone", ![x] = "pending"]
    BY <2>1
  <2>4. Delivery!TakeIn(x)
    BY <1>2, <2>2, <2>3 DEF Delivery!TakeIn, Delivery!Firm, Delivery!Shares
  <2>. QED  BY <1>1, <2>4 DEF Allowed, Delivery!Next, Delivery!Shares, Shares
<1>7. CASE EnqueueOverCap(x)
  <2>1. Head(filed) \in Shares /\ jobs[Head(filed)].st = "pending" /\ jobs[x].st # "pending"
    <3>1. filed # <<>>
      BY <1>1, <1>7, QueueAssumption DEF EnqueueOverCap
    <3>2. Head(filed) \in Shares /\ InLine(filed, Head(filed))
      BY <1>1, <3>1, TailOrders DEF SafeInv, QueueInv, Orders
    <3>. QED  BY <1>7, <3>2 DEF EnqueueOverCap, SafeInv, QueueInv, Orders
  <2> DEFINE h == Head(filed)
  <2>2. jobs' = [jobs EXCEPT ![h] = Closed(@, "gone"), ![x] = NewJob(x)]
    BY <1>7 DEF EnqueueOverCap
  <2> HIDE DEF h
  <2>3. Status' = [Status EXCEPT ![h] = "gone", ![x] = "pending"]
    BY <1>1, <2>1, <2>2 DEF NewJob, Closed, Status, Job, h
  <2>4. Delivery!TakeIn(x)
    BY <1>1, <1>2, <1>3, <1>4, <2>1, <2>3, StatusIs
       DEF Delivery!TakeIn, Delivery!Firm, Delivery!Shares, Shares, h
  <2>. QED  BY <1>1, <2>4 DEF Allowed, Delivery!Next, Delivery!Shares, Shares
<1>. QED  BY <1>2, <1>5, <1>6, <1>7 DEF Enqueue

\* What a mark by the id in the worker's hands does to the share, when it may mark it.
LEMMA MarkIsSettle ==
  ASSUME SafeInv, HistInv, Committed, NEW st \in {"done", "failed"},
         \/ Live(cur.share, cur.id) /\ Leave(cur.share, st)
         \/ ~Live(cur.share, cur.id) /\ UNCHANGED jobs
  PROVE  Delivery!Settles(cur.share, st)
<1>1. cur.share \in Shares /\ jobs \in [Shares -> Job] /\ CurPost = cur.share[1]
  BY DEF SafeInv, TypeOK, QueueTypeOK, CurPost
<1>2. CASE Live(cur.share, cur.id) /\ Leave(cur.share, st)
  <2>1. jobs' = [jobs EXCEPT ![cur.share] = Closed(jobs[cur.share], st)] /\ jobs[cur.share].st = "pending"
    BY <1>2 DEF Leave, Live
  <2>2. Closed(jobs[cur.share], st).st = st
    BY <1>1 DEF Closed, Job
  <2>3. Status' = [Status EXCEPT ![cur.share] = st]
    BY <1>1, <2>1, <2>2 DEF Status
  <2>. QED  BY <1>1, <2>1, <2>3, StatusIs DEF Delivery!Settles
<1>3. CASE ~Live(cur.share, cur.id) /\ UNCHANGED jobs
  <2>1. UNCHANGED Status
    BY <1>3 DEF Status
  <2>2. jobs[cur.share].st = "pending" => CurPost \in excused
    BY <1>3 DEF HistInv, HeldInv, Live
  <2>. QED  BY <1>1, <2>1, <2>2, StatusIs DEF Delivery!Settles, Delivery!Firm
<1>. QED  BY <1>2, <1>3

\* An ack is given to a post whose shares are all settled.
LEMMA AckIsAllowed ==
  ASSUME SafeInv, HistInv, JobsOnlySettle, TryAck
  PROVE  Delivery!MayAck(CurPost) /\ CurPost \in Posts
<1>1. CurPost \in Posts
  BY DEF SafeInv, TypeOK, CurPost, Shares
<1>2. CASE acked' = acked
  BY <1>1, <1>2 DEF Delivery!MayAck
<1>3. CASE acked' # acked
  <2>1. acked' = acked \cup {CurPost} /\ CanAck(jobs', CurPost)
    BY <1>3 DEF TryAck
  <2>2. PICK g \in Groups : OnFile(jobs', <<CurPost, g>>)
    BY <2>1 DEF CanAck
  <2>3. <<CurPost, g>> \in Shares
    BY <1>1 DEF Shares
  <2>4. jobs'[<<CurPost, g>>].st # "none"
    BY <1>1, <2>2, <2>3 DEF OnFile, Settled, HasJob, JobsOnlySettle, HistInv, MarkerInv
  <2>5. Status'[<<CurPost, g>>] # "none"
    BY <2>3, <2>4, StatusIs
  <2>6. \A h \in Groups : Status'[<<CurPost, h>>] # "pending"
    BY <1>1, <2>1, StatusIs DEF CanAck
  <2>. QED  BY <1>1, <2>1, <2>5, <2>6 DEF Delivery!MayAck
<1>. QED  BY <1>2, <1>3

\* A share is settled without a delivery, and maybe the post acknowledged.
LEMMA LedgerSettled ==
  ASSUME SafeInv, HistInv, Committed, JobsOnlySettle, NEW st \in {"done", "failed"},
         \/ Live(cur.share, cur.id) /\ Leave(cur.share, st)
         \/ ~Live(cur.share, cur.id) /\ UNCHANGED jobs,
         TryAck \/ UNCHANGED acked, InHand' = {}, UNCHANGED <<recorded, excused>>,
         wk \in {"sending", "posted"} => st = "failed"
  PROVE  Allowed
<1> DEFINE x == cur.share
<1>1. x \in Posts \X Groups /\ x[1] = CurPost /\ Status[x] # "none"
  <2>1. HasJob(cur.share) /\ cur.share \in Shares
    BY DEF HistInv, HeldInv, SafeInv, TypeOK
  <2>. QED  BY <2>1, StatusIs DEF HasJob, Shares, CurPost
<1>2. Delivery!Settles(x, st)
  BY MarkIsSettle
<1>3. Delivery!MayAck(CurPost)
  BY AckIsAllowed DEF Delivery!MayAck
<1>4. InHand \subseteq {x} /\ (InHand = {x} => st = "failed")
  BY DEF InHand
<1> HIDE DEF x
<1>5. Delivery!Settle(x, st)
  BY <1>1, <1>2, <1>3, <1>4 DEF Delivery!Settle
<1>. QED  BY <1>1, <1>5 DEF Allowed, Delivery!Next, Delivery!Shares

LEMMA LedgerDelivered ==
  ASSUME SafeInv, HistInv, WorkerAt("posted"), MarkDone(cur.share, cur.id),
         TryAck \/ UNCHANGED acked, InHand' = {}, UNCHANGED excused,
         recorded' = recorded \cup {cur.share}
  PROVE  Allowed
<1> DEFINE x == cur.share
<1>1. x \in Posts \X Groups /\ x[1] = CurPost /\ x \in Shares /\ Committed /\ TypeOK /\ FileOK
  BY DEF SafeInv, TypeOK, FileOK, Shares, CurPost, Committed, WorkerAt
<1>2. Delivery!Settles(x, "done")
  BY <1>1, MarkIsSettle DEF MarkDone
<1>3. JobsOnlySettle
  BY <1>1, MarkDoneFile, MarkSettles
<1>4. Delivery!MayAck(CurPost)
  BY <1>3, AckIsAllowed DEF Delivery!MayAck
<1>5. InHand = {x}
  BY DEF InHand, WorkerAt
<1> HIDE DEF x
<1>6. recorded' = recorded \cup {x}
  BY DEF x
<1>7. Delivery!Deliver(x)
  BY <1>1, <1>2, <1>4, <1>5, <1>6 DEF Delivery!Deliver
<1>. QED  BY <1>1, <1>7 DEF Allowed, Delivery!Next, Delivery!Shares

\* A share is given up, or left for a retry.
LEMMA LedgerGivenUp ==
  ASSUME SafeInv, HistInv, Committed, NEW retry \in BOOLEAN,
         MarkFailed(cur.share, cur.id, retry),
         TryAck \/ UNCHANGED acked, InHand' = {}, UNCHANGED <<recorded, excused>>
  PROVE  Allowed
<1>1. cur.share \in Shares /\ jobs \in [Shares -> Job] /\ TypeOK /\ FileOK
  BY DEF SafeInv, TypeOK, QueueTypeOK, FileOK
<1>2. JobsOnlySettle
  BY <1>1, MarkFailedFile, MarkSettles
<1>3. CASE \/ Live(cur.share, cur.id) /\ Leave(cur.share, "failed")
           \/ ~Live(cur.share, cur.id) /\ UNCHANGED jobs
  BY <1>2, <1>3, LedgerSettled
<1>4. CASE Live(cur.share, cur.id) /\ jobs' = [jobs EXCEPT ![cur.share].att = @ + 1]
  <2>1. jobs'[cur.share].st = "pending" /\ Status' = Status
    BY <1>1, <1>4 DEF Live, Job, Status
  <2>2. PICK p \in Posts, g \in Groups : cur.share = <<p, g>> /\ CurPost = p
    BY <1>1 DEF Shares, CurPost
  <2>3. ~CanAck(jobs', CurPost)
    BY <2>1, <2>2 DEF CanAck
  <2>4. UNCHANGED acked
    BY <2>3 DEF TryAck
  <2>. QED  BY <2>1, <2>4 DEF Allowed, Delivery!Next, Delivery!Release
<1>. QED  BY <1>3, <1>4 DEF MarkFailed

LEMMA LedgerInit == Init => Delivery!Init
<1> SUFFICES ASSUME Init  PROVE Delivery!Init
  OBVIOUS
<1>1. Status = [x \in Posts \X Groups |-> "none"]
  BY DEF Init, QueueInit, NoJobOnFile, Status, Shares
<1>2. InHand = {} /\ recorded = {} /\ acked = {} /\ excused = {}
  BY DEF Init, QueueInit, InHand
<1>. QED  BY <1>1, <1>2 DEF Delivery!Init, Delivery!Shares

LEMMA LedgerBegins ==
  ASSUME SafeInv, HistInv, BeginSend
  PROVE  Allowed
<1>1. PICK x \in Shares : x = cur.share
  BY DEF SafeInv, TypeOK
<1>2. /\ InHand = {} /\ InHand' = {x} /\ UNCHANGED <<jobs, acked, recorded, excused>>
      /\ Committed
  BY <1>1 DEF BeginSend, WorkerAt, InHand, queueVars, histVars, Committed
<1>3. jobs[x].st # "none" /\ (x[1] \notin excused => x \notin recorded)
  BY <1>1, <1>2 DEF HistInv, HeldInv, HasJob, CurPost
<1>4. UNCHANGED Status
  BY <1>2 DEF Status
<1>5. Delivery!Post(x)
  BY <1>2, <1>3, <1>4, StatusIs DEF Delivery!Post, Delivery!Firm
<1>. QED  BY <1>5 DEF Allowed, Delivery!Next, Delivery!Shares, Shares

LEMMA LedgerNext ==
  ASSUME SafeInv, HistInv, [Next]_vars
  PROVE  Allowed
<1>1. TypeOK /\ FileOK
  BY DEF SafeInv, TypeOK, FileOK
<1>2. ASSUME NEW p \in Posts, Publish(p)  PROVE Allowed
  BY <1>2, LedgerKept DEF Publish, queueVars, workVars, histVars, InHand
<1>3. ASSUME NEW p \in Posts, Dispatch(p)  PROVE Allowed
  <2>1. UNCHANGED <<jobs, acked, recorded, InHand>>
    BY <1>3 DEF Dispatch, queueVars, workVars, InHand
  <2>2. excused' = excused \/ excused' = excused \cup {p}
    BY <1>3 DEF Dispatch
  <2>. QED  BY <2>1, <2>2, LedgerKept, LedgerLoosened
<1>4. CASE Tick \/ UNCHANGED vars
  BY <1>4, LedgerKept DEF Tick, vars, queueVars, workVars, histVars, InHand
<1>5. CASE QueueClear
  <2>1. UNCHANGED <<acked, recorded, excused, InHand>>
    BY <1>5 DEF QueueClear, workVars, histVars, InHand
  <2>2. Status' = [x \in Shares |-> IF Status[x] = "pending" THEN "gone" ELSE Status[x]]
    <3>1. \A x \in Shares : jobs[x].st = "pending" => Closed(jobs[x], "gone").st = "gone"
      BY <1>1 DEF TypeOK, QueueTypeOK, Closed, Job
    <3>. QED  BY <1>5, <3>1 DEF QueueClear, ClearPending, Status
  <2>. QED  BY <2>1, <2>2 DEF Allowed, Delivery!Next, Delivery!Clear, Delivery!Shares, Shares
<1>6. ASSUME NEW c \in Configs, NEW bad \in SUBSET MayFail, Start(c, bad)  PROVE Allowed
  <2>1. UNCHANGED <<jobs, acked, recorded, excused, cur>> /\ wk' \in {wk, "idle"}
    BY <1>6 DEF Start, queueVars
  <2>. QED  BY <2>1, LedgerKept DEF InHand
<1>7. CASE Stop \/ Crash
  BY <1>7, LedgerKept DEF Stop, Crash, Down, queueVars, InHand
<1>8. CASE CrashInIntake
  <2>1. intake.post \in Posts
    BY <1>8 DEF CrashInIntake, Settling, SafeInv, IntakePost, TypeOK
  <2>2. InHand' = {} /\ excused' = excused \cup {intake.post} /\ UNCHANGED <<jobs, recorded, acked>>
    BY <1>8 DEF CrashInIntake, Down, queueVars, InHand
  <2>. QED  BY <2>1, <2>2, LedgerLoosened
<1>9. CASE CrashInRecord
  <2>1. InHand' = {} /\ UNCHANGED <<acked, excused>> /\ WorkerAt("posted")
    BY <1>9 DEF CrashInRecord, Down, InHand
  <2>2. CASE UNCHANGED <<jobs, line, filed, recorded>>
    BY <2>1, <2>2, LedgerKept
  <2>3. CASE MarkDone(cur.share, cur.id) /\ recorded' = recorded \cup {cur.share}
    BY <2>1, <2>3, LedgerDelivered
  <2>. QED  BY <1>9, <2>2, <2>3 DEF CrashInRecord
<1>10. ASSUME NEW g \in Groups, IntakeOne(g)  PROVE Allowed
  BY <1>10, LedgerIntake
<1>11. CASE IntakeEnd
  BY <1>11, LedgerKept DEF IntakeEnd, workVars, histVars, InHand
<1>12. ASSUME NEW s \in Sources, CatchupFetch(s) \/ CatchupFetchFail(s)  PROVE Allowed
  BY <1>12, LedgerKept DEF CatchupFetch, CatchupFetchFail, queueVars, workVars, InHand
<1>13. ASSUME NEW p \in Posts, CatchupSkip(p) \/ CatchupBaseline(p) \/ CatchupTake(p)
       PROVE  Allowed
  BY <1>13, LedgerKept
     DEF CatchupSkip, CatchupBaseline, CatchupTake, NextOfBatch, queueVars, workVars, InHand
<1>14. CASE WorkerHold \/ WorkerDefer \/ WorkerPick \/ PaceAbort \/ PaceEnd \/ LookupDone
            \/ Forward \/ SleepEnd
  BY <1>14, LedgerKept
     DEF WorkerHold, WorkerDefer, WorkerPick, PaceAbort, PaceEnd, LookupDone, Forward, SleepEnd,
         MayPop, WorkerAt, WorkerRests, Defer, queueVars, workVars, histVars, InHand
<1>15. CASE BeginSend
  BY <1>15, LedgerBegins
<1>16. CASE FloodWait \/ PeerFlood \/ SlowMode
  BY <1>16, LedgerKept
     DEF FloodWait, PeerFlood, SlowMode, DeferCur, Defer, WorkerRests, WorkerSleeps, histVars,
         InHand
<1>17. CASE LookupFail \/ SourceGone \/ SourceMissing \/ SendError
  <2>1. PICK retry \in BOOLEAN : GiveUp(retry)
    BY <1>17 DEF LookupFail, SourceGone, SourceMissing, SendError
  <2>2. Committed
    BY <1>17 DEF LookupFail, SourceGone, SourceMissing, SendError, WorkerAt, Committed
  <2>3. InHand' = {} /\ UNCHANGED <<recorded, excused>>
    BY <2>1 DEF GiveUp, WorkerRests, histVars, InHand
  <2>. QED  BY <2>1, <2>2, <2>3, LedgerGivenUp DEF GiveUp
<1>18. CASE Forbidden
  <2>1. Committed /\ InHand' = {} /\ UNCHANGED <<acked, recorded, excused>>
    BY <1>18 DEF Forbidden, WorkerAt, Committed, histVars, InHand
  <2>. QED  BY <1>18, <2>1, LedgerGivenUp DEF Forbidden
<1>19. CASE DryRun
  <2>1. JobsOnlySettle
    BY <1>1, <1>19, MarkDoneFile, MarkSettles DEF DryRun, TypeOK
  <2>2. Committed /\ InHand' = {} /\ UNCHANGED <<recorded, excused>> /\ wk = "lookup" /\ TryAck
    BY <1>19 DEF DryRun, WorkerAt, WorkerRests, Committed, histVars, InHand
  <2>. QED  BY <1>19, <2>1, <2>2, LedgerSettled DEF DryRun, MarkDone
<1>20. CASE Delivered
  <2>1. InHand' = {}
    BY <1>20 DEF Delivered, WorkerRests, InHand
  <2>. QED  BY <1>20, <2>1, LedgerDelivered DEF Delivered
<1>21. CASE AlertDone
  <2>1. JobsOnlySettle
    BY <1>21 DEF AlertDone, JobsOnlySettle
  <2>2. Delivery!MayAck(CurPost) /\ CurPost \in Posts
    BY <1>21, <2>1, AckIsAllowed DEF AlertDone
  <2>3. UNCHANGED <<Status, InHand, recorded, excused>>
    BY <1>21 DEF AlertDone, WorkerAt, WorkerRests, histVars, Status, InHand
  <2>. QED  BY <2>2, <2>3 DEF Allowed, Delivery!Next, Delivery!Acknowledge
<1>. QED
  BY <1>2, <1>3, <1>4, <1>5, <1>6, <1>7, <1>8, <1>9, <1>10, <1>11, <1>12, <1>13, <1>14,
     <1>15, <1>16, <1>17, <1>18, <1>19, <1>20, <1>21
     DEF Next, Intake, Catchup, Worker

\* promo_spread implements the ledger: as long as the seen reaction is not disabled, each of its
\* steps is a step of the ledger or leaves it alone.
THEOREM LedgerKeeps ==
  ASSUME SeenMarkersOn
  PROVE  Spec => KeepsLedger
<1>1. RepostInv /\ [Next]_vars => [Delivery!Next]_(Delivery!ledger)
  BY LedgerNext DEF RepostInv, Allowed
<1>. QED  BY <1>1, LedgerInit, RepostInvariant, PTL DEF Spec, KeepsLedger, Delivery!Spec

\* What the ledger says of the hand and of the acknowledged posts, in its own terms.
HandClean == \A x \in InHand : x \in recorded => x[1] \in excused

AcksTrue ==
  /\ acked \subseteq Posts
  /\ \A p \in Posts, g \in Groups :
       p \in acked /\ p \notin excused => Status[<<p, g>>] # "pending"

LEMMA SettleAcks ==
  ASSUME AcksTrue, NEW x \in Shares, NEW st \in {"done", "failed"},
         Delivery!Settles(x, st), Delivery!MayAck(x[1]), UNCHANGED excused
  PROVE  AcksTrue'
<1>1. x[1] \in Posts
  BY DEF Shares
<1>2. ASSUME NEW y \in Shares, Status'[y] = "pending"  PROVE Status[y] = "pending"
  BY <1>2 DEF Delivery!Settles, Status
<1>3. ASSUME NEW p \in Posts, NEW g \in Groups, p \in acked', p \notin excused
      PROVE  Status'[<<p, g>>] # "pending"
  <2>1. CASE p \in acked
    BY <1>2, <1>3, <2>1, StatusIs DEF AcksTrue
  <2>2. CASE p \notin acked
    BY <1>3, <2>2 DEF Delivery!MayAck
  <2>. QED  BY <2>1, <2>2
<1>4. acked' \subseteq Posts
  BY <1>1 DEF AcksTrue, Delivery!MayAck
<1>. QED  BY <1>3, <1>4 DEF AcksTrue

LEMMA LedgerPromises ==
  ASSUME HandClean, AcksTrue, Allowed
  PROVE  HandClean' /\ AcksTrue'
<1> USE DEF HandClean
<1>1. CASE UNCHANGED Delivery!ledger
  BY <1>1 DEF Delivery!ledger, AcksTrue
<1>2. ASSUME NEW x \in Shares, Delivery!TakeIn(x)  PROVE HandClean' /\ AcksTrue'
  <2>1. ASSUME NEW p \in Posts, NEW g \in Groups, p \in acked, p \notin excused
        PROVE  Status'[<<p, g>>] # "pending"
    <3>1. x # <<p, g>>
      BY <1>2, <2>1, StatusIs DEF Delivery!TakeIn, Delivery!Firm, AcksTrue
    <3>2. Status'[<<p, g>>] = "pending" => Status[<<p, g>>] = "pending"
      BY <1>2, <3>1, StatusIs DEF Delivery!TakeIn, Status
    <3>. QED  BY <2>1, <3>2 DEF AcksTrue
  <2>. QED  BY <1>2, <2>1 DEF Delivery!TakeIn, AcksTrue
<1>3. ASSUME NEW x \in Shares, Delivery!Post(x)  PROVE HandClean' /\ AcksTrue'
  BY <1>3 DEF Delivery!Post, Delivery!Firm, AcksTrue
<1>4. ASSUME NEW x \in Shares, Delivery!Deliver(x)  PROVE HandClean' /\ AcksTrue'
  BY <1>4, SettleAcks DEF Delivery!Deliver
<1>5. ASSUME NEW x \in Shares, NEW st \in {"done", "failed"}, Delivery!Settle(x, st)
      PROVE  HandClean' /\ AcksTrue'
  BY <1>5, SettleAcks DEF Delivery!Settle
<1>6. CASE Delivery!Release
  BY <1>6 DEF Delivery!Release, AcksTrue
<1>7. CASE Delivery!Clear
  <2>1. \A y \in Shares : Status'[y] # "pending"
    BY <1>7 DEF Delivery!Clear, Delivery!Shares, Shares
  <2>. QED  BY <1>7, <2>1, StatusIs DEF Delivery!Clear, AcksTrue
<1>8. ASSUME NEW p \in Posts, Delivery!Acknowledge(p)  PROVE HandClean' /\ AcksTrue'
  BY <1>8 DEF Delivery!Acknowledge, Delivery!MayAck, AcksTrue
<1>9. ASSUME NEW p \in Posts, Delivery!Loosen(p)  PROVE HandClean' /\ AcksTrue'
  BY <1>9 DEF Delivery!Loosen, AcksTrue
<1>. QED
  BY <1>1, <1>2, <1>3, <1>4, <1>5, <1>6, <1>7, <1>8, <1>9
     DEF Allowed, Delivery!Next, Delivery!Shares, Shares

\* The ledger is strong enough for its reader: whatever keeps it posts no recorded share again
\* and lets no acknowledged post come back, those that are excused apart.
THEOREM LedgerSuffices == KeepsLedger => [](NoRepost /\ AckIsFinal)
<1>1. Delivery!Init => HandClean /\ AcksTrue
  BY DEF Delivery!Init, HandClean, AcksTrue
<1>2. HandClean /\ AcksTrue /\ [Delivery!Next]_(Delivery!ledger) => (HandClean /\ AcksTrue)'
  BY LedgerPromises DEF Allowed
<1>3. HandClean /\ AcksTrue => NoRepost /\ AckIsFinal
  BY StatusIs DEF HandClean, AcksTrue, InHand, NoRepost, AckIsFinal, CurPost
<1>. QED  BY <1>1, <1>2, <1>3, PTL DEF KeepsLedger, Delivery!Spec

=============================================================================
