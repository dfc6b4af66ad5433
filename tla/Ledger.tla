-------------------------------- MODULE Ledger --------------------------------
(***************************************************************************)
(* What promo_spread promises about the shares of its posts, however they  *)
(* are queued, paced, retried, deferred or cleared and whenever the process*)
(* ends: a share is taken in once, it is posted only then and by one hand, *)
(* and not again once its delivery is noted; a post is acknowledged when   *)
(* all its shares are settled, and none is taken in later.  Posts whose    *)
(* intake was torn by a crash, or came twice, are `loose': of them only    *)
(* the hand and the way of a share from pending to settled are promised.   *)
(***************************************************************************)
CONSTANTS Posts, Groups

VARIABLES
  share,  \* what has become of each share
  hand,   \* the share that is being posted, or none
  noted,  \* shares whose delivery was noted
  acked,  \* posts with the ack reaction
  loose   \* posts that are promised less

ledger == <<share, hand, noted, acked, loose>>

Shares == Posts \X Groups

Firm(x) == x[1] \notin loose

Init ==
  /\ share = [x \in Shares |-> "none"]
  /\ hand = {} /\ noted = {} /\ acked = {} /\ loose = {}

\* A share becomes due; another one may have to make room.
TakeIn(x) ==
  /\ share[x] # "pending"
  /\ Firm(x) => share[x] = "none" /\ x[1] \notin acked
  /\ \E old \in {x} \cup {y \in Shares : share[y] = "pending"} :
       share' = [share EXCEPT ![old] = "gone", ![x] = "pending"]
  /\ UNCHANGED <<hand, noted, acked, loose>>

\* A share goes to its group, though it may have been cleared since it was picked.
Post(x) ==
  /\ hand = {}
  /\ share[x] # "none"
  /\ Firm(x) => x \notin noted
  /\ hand' = {x}
  /\ UNCHANGED <<share, noted, acked, loose>>

\* A share is settled if it is still due; of a loose post a newer one may stay due.
Settles(x, st) ==
  \/ share[x] = "pending" /\ share' = [share EXCEPT ![x] = st]
  \/ (share[x] = "pending" => ~Firm(x)) /\ UNCHANGED share

MayAck(p) ==
  \/ UNCHANGED acked
  \/ /\ \E g \in Groups : share'[<<p, g>>] # "none"
     /\ \A g \in Groups : share'[<<p, g>>] # "pending"
     /\ acked' = acked \cup {p}

Deliver(x) ==
  /\ hand = {x} /\ hand' = {}
  /\ noted' = noted \cup {x}
  /\ Settles(x, "done")
  /\ MayAck(x[1])
  /\ UNCHANGED loose

\* Settled without a post: it cannot be posted, or this is a dry run.
Settle(x, st) ==
  /\ hand \subseteq {x} /\ hand' = {}
  /\ hand = {x} => st = "failed"
  /\ share[x] # "none"
  /\ Settles(x, st)
  /\ MayAck(x[1])
  /\ UNCHANGED <<noted, loose>>

\* The hand lets go: refused for now, or the process ends.
Release == hand' = {} /\ UNCHANGED <<share, noted, acked, loose>>

Acknowledge(p) == MayAck(p) /\ UNCHANGED <<share, hand, noted, loose>>

Clear ==
  /\ share' = [x \in Shares |-> IF share[x] = "pending" THEN "gone" ELSE share[x]]
  /\ UNCHANGED <<hand, noted, acked, loose>>

Loosen(p) ==
  /\ loose' = loose \cup {p}
  /\ hand' \in {hand, {}}
  /\ UNCHANGED <<share, noted, acked>>

Next ==
  \/ \E x \in Shares :
       TakeIn(x) \/ Post(x) \/ Deliver(x) \/ Settle(x, "done") \/ Settle(x, "failed")
  \/ Release \/ Clear
  \/ \E p \in Posts : Acknowledge(p) \/ Loosen(p)

Spec == Init /\ [][Next]_ledger

===============================================================================
