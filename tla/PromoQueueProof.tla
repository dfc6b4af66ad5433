---------------------------- MODULE PromoQueueProof ----------------------------
(***************************************************************************)
(* The queue file keeps its two orders: whatever is enqueued, marked,      *)
(* deferred, cut or cleared, each of them holds every pending share once   *)
(* and nothing else, and an operation changes no job but its own (or, over *)
(* the cap, the one at the front of the list).                             *)
(***************************************************************************)
EXTENDS PromoQueue, SequenceTheorems, TLAPS

\* An order of the pending shares: each of them once, and nothing else.
InLine(l, x) == \E k \in DOMAIN l : l[k] = x

Orders(l, js) ==
  /\ \A j, k \in DOMAIN l : l[j] = l[k] => j = k
  /\ \A x \in Shares : InLine(l, x) <=> js[x].st = "pending"

QueueInv == Orders(line, jobs) /\ Orders(filed, jobs)

FileOK == QueueTypeOK /\ QueueInv

----------------------------------------------------------------------------
\* The two orders of the queue file.

\* Taking a share out of an order takes out that share alone.
LEMMA WithoutOrders ==
  ASSUME NEW l \in Seq(Shares), NEW x \in Shares, NEW js,
         Orders(l, js), js[x].st = "pending"
  PROVE  /\ Without(l, x) \in Seq(Shares)
         /\ \A j, k \in DOMAIN Without(l, x) :
              Without(l, x)[j] = Without(l, x)[k] => j = k
         /\ \A y \in Shares : InLine(Without(l, x), y) <=> (y # x /\ InLine(l, y))
<1> DEFINE m == CHOOSE k \in DOMAIN l : l[k] = x
           r == Without(l, x)
<1>1. m \in 1..Len(l) /\ l[m] = x
  BY DEF Orders, InLine
<1>2. r = SubSeq(l, 1, m - 1) \o SubSeq(l, m + 1, Len(l))
  BY DEF Without, RemoveAt
<1>3. /\ SubSeq(l, 1, m - 1) \in Seq(Shares)
      /\ Len(SubSeq(l, 1, m - 1)) = m - 1
      /\ \A i \in 1..(m - 1) : SubSeq(l, 1, m - 1)[i] = l[i]
  BY <1>1
<1>4. /\ SubSeq(l, m + 1, Len(l)) \in Seq(Shares)
      /\ Len(SubSeq(l, m + 1, Len(l))) = Len(l) - m
      /\ \A i \in 1..(Len(l) - m) : SubSeq(l, m + 1, Len(l))[i] = l[m + i]
  BY <1>1
<1>5. /\ r \in Seq(Shares)
      /\ Len(r) = Len(l) - 1
      /\ \A i \in 1..(Len(l) - 1) : r[i] = IF i < m THEN l[i] ELSE l[i + 1]
  <2> DEFINE s == SubSeq(l, 1, m - 1)
             t == SubSeq(l, m + 1, Len(l))
  <2> HIDE DEF s, t, m
  <2>1. r = s \o t
    BY <1>2 DEF s, t
  <2>2. /\ s \in Seq(Shares) /\ Len(s) = m - 1
        /\ \A i \in 1..(m - 1) : s[i] = l[i]
    BY <1>3 DEF s
  <2>3. /\ t \in Seq(Shares) /\ Len(t) = Len(l) - m
        /\ \A i \in 1..(Len(l) - m) : t[i] = l[m + i]
    BY <1>4 DEF t
  <2> HIDE DEF r
  <2>4. /\ r \in Seq(Shares)
        /\ Len(r) = Len(s) + Len(t)
        /\ \A i \in 1..(Len(s) + Len(t)) : r[i] = IF i <= Len(s) THEN s[i] ELSE t[i - Len(s)]
    <3>1. s \in Seq(Shares) /\ t \in Seq(Shares)
      BY <2>2, <2>3
    <3>. QED  BY ONLY <3>1, <2>1, ConcatProperties
  <2>5. ASSUME NEW i \in 1..(Len(l) - 1)
        PROVE  r[i] = IF i < m THEN l[i] ELSE l[i + 1]
    <3>1. CASE i < m
      <4>1. i \in 1..(m - 1) /\ i \in 1..(Len(s) + Len(t)) /\ i <= Len(s)
        BY <3>1, <2>2, <2>3, <1>1
      <4>. QED  BY <4>1, <2>2, <2>4, <3>1
    <3>2. CASE ~(i < m)
      <4>1. i - (m - 1) \in 1..Len(t) /\ m + (i - (m - 1)) = i + 1
        BY <3>2, <2>3, <1>1, SMTT(30)
      <4>2. i \in 1..(Len(s) + Len(t)) /\ ~(i <= Len(s)) /\ Len(s) = m - 1
        BY <3>2, <2>2, <2>3, <1>1
      <4>3. r[i] = t[i - (m - 1)]
        BY <4>2, <2>4
      <4>. QED  BY <4>1, <4>3, <2>3, <3>2
    <3>. QED  BY <3>1, <3>2
  <2>. QED  BY <2>2, <2>3, <2>4, <2>5, <1>1
<1>6. DOMAIN r = 1..(Len(l) - 1) /\ DOMAIN l = 1..Len(l)
  BY <1>5
<1> HIDE DEF r, m
<1>7. ASSUME NEW j \in DOMAIN r, NEW k \in DOMAIN r, r[j] = r[k]
      PROVE  j = k
  <2> DEFINE old(i) == IF i < m THEN i ELSE i + 1
  <2>1. old(j) \in DOMAIN l /\ old(k) \in DOMAIN l /\ r[j] = l[old(j)] /\ r[k] = l[old(k)]
    BY <1>1, <1>5, <1>6
  <2>2. old(j) = old(k)
    BY <2>1, <1>7 DEF Orders
  <2>. QED  BY <2>2, <1>1, <1>6
<1>8. ASSUME NEW y \in Shares
      PROVE  InLine(r, y) <=> (y # x /\ InLine(l, y))
  <2>1. ASSUME NEW k \in DOMAIN r, r[k] = y  PROVE y # x /\ InLine(l, y)
    <3> DEFINE o == IF k < m THEN k ELSE k + 1
    <3>1. o \in DOMAIN l /\ o # m /\ l[o] = y
      BY <2>1, <1>1, <1>5, <1>6
    <3>2. y # x
      BY <3>1, <1>1, <1>6 DEF Orders
    <3>. QED  BY <3>1, <3>2 DEF InLine
  <2>2. ASSUME y # x, NEW k \in DOMAIN l, l[k] = y  PROVE InLine(r, y)
    <3>1. CASE k < m
      BY <3>1, <2>2, <1>1, <1>5, <1>6 DEF InLine
    <3>2. CASE k > m
      <4>1. k - 1 \in DOMAIN r /\ r[k - 1] = y
        BY <3>2, <2>2, <1>1, <1>5, <1>6
      <4>. QED  BY <4>1 DEF InLine
    <3>3. k # m
      BY <2>2, <1>1
    <3>. QED  BY <3>1, <3>2, <3>3, <1>1, <1>6
  <2>. QED  BY <2>1, <2>2 DEF InLine
<1>. QED  BY <1>5, <1>7, <1>8 DEF r

\* Appending a share that is not there adds that share alone.
LEMMA AppendOrders ==
  ASSUME NEW l \in Seq(Shares), NEW x \in Shares, ~InLine(l, x),
         \A j, k \in DOMAIN l : l[j] = l[k] => j = k
  PROVE  /\ Append(l, x) \in Seq(Shares)
         /\ \A j, k \in DOMAIN Append(l, x) : Append(l, x)[j] = Append(l, x)[k] => j = k
         /\ \A y \in Shares : InLine(Append(l, x), y) <=> (y = x \/ InLine(l, y))
<1> DEFINE r == Append(l, x)
<1>1. /\ r \in Seq(Shares)
      /\ Len(r) = Len(l) + 1
      /\ \A i \in 1..Len(l) : r[i] = l[i]
      /\ r[Len(l) + 1] = x
  OBVIOUS
<1>2. DOMAIN r = 1..(Len(l) + 1) /\ DOMAIN l = 1..Len(l)
  BY <1>1
<1> HIDE DEF r
<1>3. \A j, k \in DOMAIN r : r[j] = r[k] => j = k
  BY <1>1, <1>2 DEF InLine
<1>4. \A y \in Shares : InLine(r, y) <=> (y = x \/ InLine(l, y))
  <2>1. InLine(r, x)
    <3>1. Len(l) + 1 \in DOMAIN r
      BY <1>2
    <3>. QED  BY <3>1, <1>1 DEF InLine
  <2>. QED  BY <2>1, <1>1, <1>2 DEF InLine
<1>. QED  BY <1>1, <1>3, <1>4 DEF r

\* The same for the front of the list.
LEMMA TailOrders ==
  ASSUME NEW l \in Seq(Shares), l # <<>>,
         \A j, k \in DOMAIN l : l[j] = l[k] => j = k
  PROVE  /\ Tail(l) \in Seq(Shares)
         /\ Head(l) \in Shares
         /\ InLine(l, Head(l))
         /\ \A j, k \in DOMAIN Tail(l) : Tail(l)[j] = Tail(l)[k] => j = k
         /\ \A y \in Shares : InLine(Tail(l), y) <=> (y # Head(l) /\ InLine(l, y))
<1> DEFINE r == Tail(l)
<1>1. /\ r \in Seq(Shares)
      /\ Len(r) = Len(l) - 1
      /\ Len(l) >= 1
      /\ \A i \in 1..(Len(l) - 1) : r[i] = l[i + 1]
      /\ Head(l) = l[1]
  OBVIOUS
<1>2. DOMAIN r = 1..(Len(l) - 1) /\ DOMAIN l = 1..Len(l)
  BY <1>1
<1> HIDE DEF r
<1>3. Head(l) \in Shares /\ InLine(l, Head(l))
  BY <1>1, <1>2 DEF InLine
<1>4. ASSUME NEW j \in DOMAIN r, NEW k \in DOMAIN r, r[j] = r[k]
      PROVE  j = k
  <2>1. j + 1 \in DOMAIN l /\ k + 1 \in DOMAIN l /\ l[j + 1] = l[k + 1]
    BY <1>1, <1>2, <1>4
  <2>2. j + 1 = k + 1
    BY <2>1
  <2>. QED  BY <2>2, <1>2
<1>5. ASSUME NEW y \in Shares
      PROVE  InLine(r, y) <=> (y # Head(l) /\ InLine(l, y))
  <2>1. ASSUME NEW k \in DOMAIN r, r[k] = y  PROVE y # Head(l) /\ InLine(l, y)
    BY <2>1, <1>1, <1>2, SMTT(30) DEF InLine
  <2>2. ASSUME y # Head(l), NEW k \in DOMAIN l, l[k] = y  PROVE InLine(r, y)
    <3>1. k - 1 \in DOMAIN r /\ r[k - 1] = y
      BY <2>2, <1>1, <1>2
    <3>. QED  BY <3>1 DEF InLine
  <2>. QED  BY <2>1, <2>2 DEF InLine
<1>. QED  BY <1>1, <1>3, <1>4, <1>5 DEF r

----------------------------------------------------------------------------
\* What each operation does to the file.

\* A job is new, and pending, or it is as before, but that the cap may have taken it out.
LEMMA EnqueueFile ==
  ASSUME FileOK, NEW x \in Shares, Enqueue(x), UNCHANGED <<seen, acked>>
  PROVE  /\ FileOK'
         /\ jobs'[x].st = "pending"
         /\ jobs[x].st = "pending" => jobs'[x] = jobs[x]
         /\ \A y \in Shares \ {x} :
              /\ jobs'[y].st = "pending" => jobs'[y] = jobs[y]
              /\ jobs'[y].st = "none" <=> jobs[y].st = "none"
              /\ jobs'[y].past = jobs[y].past
<1> USE DEF FileOK, QueueTypeOK
<1>1. CASE EnqueueDuplicate(x)
  BY <1>1 DEF EnqueueDuplicate, QueueInv, Orders
<1>2. CASE EnqueueRoom(x)
  <2>1. /\ jobs' = [jobs EXCEPT ![x] = NewJob(x)]
        /\ NewJob(x) \in Job /\ NewJob(x).st = "pending"
        /\ jobs' \in [Shares -> Job]
    BY <1>2 DEF EnqueueRoom, NewJob, Job, JobStatus, Settled
  <2>2. line' \in Seq(Shares) /\ Orders(line', jobs')
    <3>1. ~InLine(line, x)
      BY <1>2 DEF EnqueueRoom, QueueInv, Orders
    <3>. QED  BY <3>1, <2>1, <1>2, AppendOrders DEF EnqueueRoom, QueueInv, Orders
  <2>3. filed' \in Seq(Shares) /\ Orders(filed', jobs')
    <3>1. ~InLine(filed, x)
      BY <1>2 DEF EnqueueRoom, QueueInv, Orders
    <3>. QED  BY <3>1, <2>1, <1>2, AppendOrders DEF EnqueueRoom, QueueInv, Orders
  <2>. QED  BY <2>1, <2>2, <2>3, <1>2 DEF EnqueueRoom, QueueInv
<1>3. CASE EnqueueOverCap(x)
  <2> DEFINE h == Head(filed)
  <2>1. filed # <<>>
    BY <1>3, QueueAssumption DEF EnqueueOverCap
  <2>2. /\ Tail(filed) \in Seq(Shares)
        /\ h \in Shares
        /\ InLine(filed, h)
        /\ \A j, k \in DOMAIN Tail(filed) : Tail(filed)[j] = Tail(filed)[k] => j = k
        /\ \A y \in Shares : InLine(Tail(filed), y) <=> (y # h /\ InLine(filed, y))
    BY <2>1, TailOrders DEF QueueInv, Orders
  <2> HIDE DEF h
  <2>3. jobs[h].st = "pending" /\ h # x
    BY <2>2, <1>3 DEF QueueInv, Orders, EnqueueOverCap
  <2>4. /\ jobs' = [jobs EXCEPT ![h] = Closed(jobs[h], "gone"), ![x] = NewJob(x)]
        /\ line' = Append(Without(line, h), x)
        /\ filed' = Append(Tail(filed), x)
        /\ jobs[x].st # "pending"
    BY <1>3 DEF EnqueueOverCap, h
  <2>5. /\ jobs' \in [Shares -> Job]
        /\ jobs'[x].st = "pending"
        /\ jobs'[h].st = "gone" /\ jobs'[h].past = jobs[h].past
        /\ \A y \in Shares \ {x, h} : jobs'[y] = jobs[y]
    <3>1. NewJob(x) \in Job /\ NewJob(x).st = "pending"
      BY DEF NewJob, Job, JobStatus, Settled
    <3>2. Closed(jobs[h], "gone") \in Job
      BY <2>2 DEF Closed, Job, JobStatus
    <3>3. Closed(jobs[h], "gone").st = "gone" /\ Closed(jobs[h], "gone").past = jobs[h].past
      BY <2>2 DEF Closed, Job
    <3>. QED  BY <2>2, <2>3, <2>4, <3>1, <3>2, <3>3
  <2>6. /\ Without(line, h) \in Seq(Shares)
        /\ \A j, k \in DOMAIN Without(line, h) :
             Without(line, h)[j] = Without(line, h)[k] => j = k
        /\ \A y \in Shares : InLine(Without(line, h), y) <=> (y # h /\ InLine(line, y))
    BY <2>2, <2>3, WithoutOrders DEF QueueInv
  <2>7. line' \in Seq(Shares) /\ Orders(line', jobs')
    <3>1. ~InLine(Without(line, h), x)
      BY <2>4, <2>6 DEF QueueInv, Orders
    <3>2. /\ line' \in Seq(Shares)
          /\ \A j, k \in DOMAIN line' : line'[j] = line'[k] => j = k
          /\ \A y \in Shares : InLine(line', y) <=> (y = x \/ InLine(Without(line, h), y))
      BY <2>4, <2>6, <3>1, AppendOrders
    <3>. QED  BY <3>2, <2>3, <2>5, <2>6, SMTT(30) DEF QueueInv, Orders
  <2>8. filed' \in Seq(Shares) /\ Orders(filed', jobs')
    <3>1. ~InLine(Tail(filed), x)
      BY <2>2, <2>4 DEF QueueInv, Orders
    <3>2. /\ filed' \in Seq(Shares)
          /\ \A j, k \in DOMAIN filed' : filed'[j] = filed'[k] => j = k
          /\ \A y \in Shares : InLine(filed', y) <=> (y = x \/ InLine(Tail(filed), y))
      BY <2>4, <2>2, <3>1, AppendOrders
    <3>. QED  BY <3>2, <2>2, <2>3, <2>5 DEF QueueInv, Orders
  <2>. QED  BY <2>3, <2>4, <2>5, <2>7, <2>8 DEF QueueInv
<1>. QED  BY <1>1, <1>2, <1>3 DEF Enqueue

\* A share that leaves takes only its own job out.
LEMMA LeaveFile ==
  ASSUME FileOK, NEW x \in Shares, NEW st \in JobStatus \ {"pending", "none"},
         jobs[x].st = "pending", Leave(x, st)
  PROVE  /\ jobs' \in [Shares -> Job] /\ line' \in Seq(Shares) /\ filed' \in Seq(Shares)
         /\ QueueInv'
         /\ jobs'[x].st = st /\ jobs'[x].past = jobs[x].past
         /\ \A y \in Shares \ {x} : jobs'[y] = jobs[y]
<1> USE DEF FileOK, QueueTypeOK
<1>1. /\ jobs' \in [Shares -> Job]
      /\ jobs'[x].st = st /\ jobs'[x].past = jobs[x].past
      /\ \A y \in Shares \ {x} : jobs'[y] = jobs[y]
  <2>1. Closed(jobs[x], st) \in Job
    BY DEF Closed, Job
  <2>2. Closed(jobs[x], st).st = st /\ Closed(jobs[x], st).past = jobs[x].past
    BY DEF Closed, Job
  <2>. QED  BY <2>1, <2>2 DEF Leave
<1>2. line' \in Seq(Shares) /\ Orders(line', jobs')
  <2>1. /\ line' \in Seq(Shares)
        /\ \A j, k \in DOMAIN line' : line'[j] = line'[k] => j = k
        /\ \A y \in Shares : InLine(line', y) <=> (y # x /\ InLine(line, y))
    BY WithoutOrders DEF QueueInv, Leave
  <2>. QED  BY <1>1, <2>1 DEF QueueInv, Orders
<1>3. filed' \in Seq(Shares) /\ Orders(filed', jobs')
  <2>1. /\ filed' \in Seq(Shares)
        /\ \A j, k \in DOMAIN filed' : filed'[j] = filed'[k] => j = k
        /\ \A y \in Shares : InLine(filed', y) <=> (y # x /\ InLine(filed, y))
    BY WithoutOrders DEF QueueInv, Leave
  <2>. QED  BY <1>1, <2>1 DEF QueueInv, Orders
<1>. QED  BY <1>1, <1>2, <1>3 DEF QueueInv

\* A mark leaves every other job alone, and the job of another id too.
MarkFile(x, id) ==
  /\ jobs' \in [Shares -> Job] /\ line' \in Seq(Shares) /\ filed' \in Seq(Shares)
  /\ QueueInv'
  /\ \A y \in Shares : jobs'[y] = jobs[y] \/ (y = x /\ Live(x, id))
  /\ jobs'[x].id = jobs[x].id /\ jobs'[x].past = jobs[x].past
  /\ jobs'[x].st = "pending" => jobs[x].st = "pending"
  /\ jobs'[x].st = "none" <=> jobs[x].st = "none"

LEMMA MarkDoneFile ==
  ASSUME FileOK, NEW x \in Shares, NEW id, MarkDone(x, id)
  PROVE  MarkFile(x, id) /\ ~(jobs'[x].st = "pending" /\ jobs'[x].id = id)
<1> USE DEF FileOK, QueueTypeOK
<1>1. CASE Live(x, id) /\ Leave(x, "done")
  <2>1. "done" \in JobStatus \ {"pending", "none"}
    BY DEF JobStatus
  <2>2. jobs'[x].id = jobs[x].id
    BY <1>1 DEF Leave, Closed, Job
  <2>. QED  BY <1>1, <2>1, <2>2, LeaveFile DEF MarkFile, Live
<1>2. CASE ~Live(x, id) /\ UNCHANGED <<jobs, line, filed>>
  BY <1>2 DEF MarkFile, QueueInv, Orders, Live
<1>. QED  BY <1>1, <1>2 DEF MarkDone

LEMMA MarkFailedFile ==
  ASSUME FileOK, NEW x \in Shares, NEW id, NEW retry \in BOOLEAN, MarkFailed(x, id, retry)
  PROVE  /\ MarkFile(x, id)
         /\ ~retry => ~(jobs'[x].st = "pending" /\ jobs'[x].id = id)
<1> USE DEF FileOK, QueueTypeOK
<1>1. CASE Live(x, id) /\ Leave(x, "failed")
  <2>1. "failed" \in JobStatus \ {"pending", "none"}
    BY DEF JobStatus
  <2>2. jobs'[x].id = jobs[x].id
    BY <1>1 DEF Leave, Closed, Job
  <2>. QED  BY <1>1, <2>1, <2>2, LeaveFile DEF MarkFile, Live
<1>2. CASE /\ Live(x, id) /\ retry
           /\ jobs' = [jobs EXCEPT ![x].att = @ + 1]
           /\ UNCHANGED <<line, filed>>
  <2>1. /\ jobs' \in [Shares -> Job]
        /\ \A y \in Shares : jobs'[y].st = jobs[y].st
        /\ \A y \in Shares \ {x} : jobs'[y] = jobs[y]
        /\ jobs'[x].id = jobs[x].id /\ jobs'[x].past = jobs[x].past
    <3> DEFINE tried == [jobs[x] EXCEPT !.att = jobs[x].att + 1]
    <3>1. /\ tried \in Job
          /\ tried.st = jobs[x].st /\ tried.id = jobs[x].id /\ tried.past = jobs[x].past
      <4>1. jobs[x] \in [st : JobStatus, id : Nat, att : Nat, past : BOOLEAN]
        BY DEF Job
      <4>2. jobs[x].att + 1 \in Nat
        BY <4>1
      <4>. QED  BY <4>1, <4>2 DEF Job
    <3>2. jobs' = [jobs EXCEPT ![x] = tried]
      BY <1>2
    <3> HIDE DEF tried
    <3>. QED  BY <3>1, <3>2
  <2>2. Orders(line', jobs') /\ Orders(filed', jobs')
    BY <1>2, <2>1 DEF QueueInv, Orders
  <2>. QED  BY <1>2, <2>1, <2>2 DEF MarkFile, QueueInv, Live
<1>3. CASE ~Live(x, id) /\ UNCHANGED <<jobs, line, filed>>
  BY <1>3 DEF MarkFile, QueueInv, Orders, Live
<1>. QED  BY <1>1, <1>2, <1>3 DEF MarkFailed

LEMMA DeferFile ==
  ASSUME FileOK, NEW x \in Shares, NEW id, Defer(x, id)
  PROVE  jobs' = jobs /\ filed' = filed /\ line' \in Seq(Shares) /\ QueueInv'
<1> USE DEF FileOK, QueueTypeOK
<1>1. CASE Live(x, id)
  <2> DEFINE w == Without(line, x)
  <2>1. /\ w \in Seq(Shares)
        /\ \A j, k \in DOMAIN w : w[j] = w[k] => j = k
        /\ \A y \in Shares : InLine(w, y) <=> (y # x /\ InLine(line, y))
    BY <1>1, WithoutOrders DEF QueueInv, Live
  <2>2. line' = Append(w, x) /\ jobs' = jobs /\ filed' = filed
    BY <1>1 DEF Defer
  <2> HIDE DEF w
  <2>3. /\ line' \in Seq(Shares)
        /\ \A j, k \in DOMAIN line' : line'[j] = line'[k] => j = k
        /\ \A y \in Shares : InLine(line', y) <=> (y = x \/ InLine(w, y))
    <3>1. ~InLine(w, x)
      BY <2>1
    <3>. QED  BY <3>1, <2>1, <2>2, AppendOrders
  <2>4. Orders(line', jobs')
    BY <1>1, <2>1, <2>2, <2>3 DEF QueueInv, Orders, Live
  <2>. QED  BY <2>2, <2>3, <2>4 DEF QueueInv
<1>2. CASE ~Live(x, id)
  BY <1>2 DEF Defer, QueueInv
<1>. QED  BY <1>1, <1>2

\* Clearing removes the pending jobs and no trace of the others.
LEMMA ClearFile ==
  ASSUME FileOK, ClearPending
  PROVE  /\ jobs' \in [Shares -> Job] /\ line' \in Seq(Shares) /\ filed' \in Seq(Shares)
         /\ QueueInv'
         /\ \A y \in Shares : /\ jobs'[y].st # "pending"
                              /\ jobs'[y].st = "none" <=> jobs[y].st = "none"
                              /\ jobs'[y].past = jobs[y].past
<1> USE DEF FileOK, QueueTypeOK
<1>1. \A y \in Shares : Closed(jobs[y], "gone") \in Job
  BY DEF Closed, Job, JobStatus
<1>2. \A y \in Shares : /\ Closed(jobs[y], "gone").st = "gone"
                        /\ Closed(jobs[y], "gone").past = jobs[y].past
  BY DEF Closed, Job
<1>3. /\ jobs' \in [Shares -> Job]
      /\ \A y \in Shares : /\ jobs'[y].st # "pending"
                           /\ jobs'[y].st = "none" <=> jobs[y].st = "none"
                           /\ jobs'[y].past = jobs[y].past
  BY <1>1, <1>2 DEF ClearPending
<1>4. line' = <<>> /\ filed' = <<>>
  BY DEF ClearPending
<1>5. \A x \in Shares : ~InLine(<<>>, x)
  BY DEF InLine
<1>. QED  BY <1>3, <1>4, <1>5 DEF QueueInv, Orders

\* Jobs that are pending wait in the line, and the line names only such jobs.
LEMMA HeadIsPending ==
  ASSUME FileOK, line # <<>>
  PROVE  Head(line) \in Shares /\ jobs[Head(line)].st = "pending"
<1>1. Head(line) \in Shares /\ InLine(line, Head(line))
  BY TailOrders DEF FileOK, QueueTypeOK, QueueInv, Orders
<1>. QED  BY <1>1 DEF FileOK, QueueInv, Orders

=============================================================================
