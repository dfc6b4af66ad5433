------------------------------ MODULE PromoQueue ------------------------------
(***************************************************************************)
(* The disk-backed delivery queue of modules/promo_spread/queue.py.  One   *)
(* job is one share: one post to one group.  Every operation of the class  *)
(* takes the lock, reloads the file, changes it and saves it, so each is   *)
(* one atomic step; the operators below give the file's next value.        *)
(*                                                                         *)
(* At most one job of a share is pending, so the file is kept per share:   *)
(* `jobs' holds the newest job and whether an earlier one is still on file *)
(* in a settled state.  The pending jobs have two orders: `filed' is the   *)
(* order of the list, which the size cap cuts, and `line' the order of     *)
(* created_at, which defer bumps.  The cap on settled entries (150) is     *)
(* left out: they are read only by try_claim_post_ack, right after the     *)
(* caller's own mark.                                                      *)
(***************************************************************************)
EXTENDS Naturals, Sequences, SequencesExt

CONSTANTS Posts,       \* posts of the source channels, by message id
          Groups,      \* destination groups
          MaxPending,  \* enqueue keeps this many pending jobs (400)
          MaxAttempts  \* mark_failed gives up at this many attempts (3)

ASSUME QueueAssumption ==
  /\ Posts \subseteq Nat \ {0}
  /\ Posts # {}
  /\ Groups # {}
  /\ MaxPending \in Nat \ {0}
  /\ MaxAttempts \in Nat \ {0}

VARIABLES jobs,    \* the newest job of each share
          line,    \* the pending shares by created_at, oldest first
          filed,   \* the pending shares in the order of the list
          seen,    \* bucket "seen_posts": posts with the seen marker
          acked    \* bucket "acked_posts": posts with the ack marker

queueVars == <<jobs, line, filed, seen, acked>>

Shares == Posts \X Groups

\* "gone" is a job that was removed from the file, by clear_pending or the cap.
JobStatus == {"none", "pending", "done", "failed", "gone"}

Job == [st : JobStatus, id : Nat, att : Nat, past : BOOLEAN]

QueueTypeOK ==
  /\ jobs \in [Shares -> Job]
  /\ line \in Seq(Shares)
  /\ filed \in Seq(Shares)
  /\ seen \subseteq Posts
  /\ acked \subseteq Posts

NoJobOnFile == [st |-> "none", id |-> 0, att |-> 0, past |-> FALSE]

QueueInit ==
  /\ jobs = [x \in Shares |-> NoJobOnFile]
  /\ line = <<>>
  /\ filed = <<>>
  /\ seen = {}
  /\ acked = {}

----------------------------------------------------------------------------
\* What a reader of the file sees.

PendingShares == {x \in Shares : jobs[x].st = "pending"}

\* The attempts of a job that is not pending any more are never read again.
Closed(job, st) == [job EXCEPT !.st = st, !.att = 0]

Settled(job) == job.st \in {"done", "failed"}

\* Some job of share x is on file, in file value js.
OnFile(js, x) == js[x].st = "pending" \/ Settled(js[x]) \/ js[x].past

\* The job of share x with this id is still the pending one: a stale id marks nothing.
Live(x, id) == jobs[x].st = "pending" /\ jobs[x].id = id

\* Share x leaves the line.
Without(l, x) == RemoveAt(l, CHOOSE k \in DOMAIN l : l[k] = x)

----------------------------------------------------------------------------
\* enqueue

\* The id is a uuid in the code; here it tells the jobs of one share apart.
NewJob(x) == [st |-> "pending", id |-> jobs[x].id + 1, att |-> 0,
              past |-> jobs[x].past \/ Settled(jobs[x])]

EnqueueDuplicate(x) ==
  /\ jobs[x].st = "pending"
  /\ UNCHANGED <<jobs, line, filed>>

EnqueueRoom(x) ==
  /\ jobs[x].st # "pending"
  /\ Len(filed) < MaxPending
  /\ jobs' = [jobs EXCEPT ![x] = NewJob(x)]
  /\ line' = Append(line, x)
  /\ filed' = Append(filed, x)

\* The job at the front of the list is dropped: the oldest, wherever defer has put it.
EnqueueOverCap(x) ==
  /\ jobs[x].st # "pending"
  /\ Len(filed) >= MaxPending
  /\ jobs' = [jobs EXCEPT ![Head(filed)] = Closed(@, "gone"), ![x] = NewJob(x)]
  /\ line' = Append(Without(line, Head(filed)), x)
  /\ filed' = Append(Tail(filed), x)

Enqueue(x) == EnqueueDuplicate(x) \/ EnqueueRoom(x) \/ EnqueueOverCap(x)

----------------------------------------------------------------------------
\* mark_done, mark_failed, defer: by id, so a job no longer on file is left alone.

Leave(x, st) ==
  /\ jobs' = [jobs EXCEPT ![x] = Closed(jobs[x], st)]
  /\ line' = Without(line, x)
  /\ filed' = Without(filed, x)

MarkDone(x, id) ==
  \/ /\ Live(x, id)
     /\ Leave(x, "done")
  \/ /\ ~Live(x, id)
     /\ UNCHANGED <<jobs, line, filed>>

\* Mutant: the attempts of a job are not counted.
MarkFailedUncounted(x, id, retry) ==
  \/ /\ Live(x, id)
     /\ ~retry
     /\ Leave(x, "failed")
  \/ /\ retry \/ ~Live(x, id)
     /\ UNCHANGED <<jobs, line, filed>>

\* A retried job keeps its created_at, so its place in the line.
MarkFailed(x, id, retry) ==
  \/ /\ Live(x, id)
     /\ retry
     /\ jobs[x].att + 1 < MaxAttempts
     /\ jobs' = [jobs EXCEPT ![x].att = @ + 1]
     /\ UNCHANGED <<line, filed>>
  \/ /\ Live(x, id)
     /\ ~retry \/ jobs[x].att + 1 >= MaxAttempts
     /\ Leave(x, "failed")
  \/ /\ ~Live(x, id)
     /\ UNCHANGED <<jobs, line, filed>>

Defer(x, id) ==
  /\ line' = IF Live(x, id) THEN Append(Without(line, x), x) ELSE line
  /\ UNCHANGED <<jobs, filed>>

ClearPending ==
  /\ jobs' = [x \in Shares |->
                IF jobs[x].st = "pending" THEN Closed(jobs[x], "gone")
                                        ELSE jobs[x]]
  /\ line' = <<>>
  /\ filed' = <<>>

----------------------------------------------------------------------------
\* try_claim_post_seen and try_claim_post_ack.  Claiming twice changes nothing.

ClaimSeen(p) == seen' = seen \cup {p}

\* Mutant: the ack is given although jobs of the post are still pending.
CanAckEarly(js, p) == \E g \in Groups : OnFile(js, <<p, g>>)

CanAck(js, p) ==
  /\ \E g \in Groups : OnFile(js, <<p, g>>)
  /\ \A g \in Groups : js[<<p, g>>].st # "pending"

=============================================================================
