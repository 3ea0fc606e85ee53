-------------------------- MODULE OfflineQueueProofs --------------------------
(***************************************************************************)
(* A till never takes a sale for sent that the server does not have, with  *)
(* any number of sales, flush loops, lost replies, late requests and       *)
(* reloads.                                                                *)
(***************************************************************************)
EXTENDS OfflineQueue, SumProofs

(* What the steps leave of the loops and of the requests on their way.     *)
Shapes ==
    /\ saved = [s \in Sales |-> saved[s]]
    /\ flusher = [f \in Flushers |-> flusher[f]]
    /\ \A f \in Flushers :
          flusher[f] = [step |-> flusher[f].step, job |-> flusher[f].job,
                        answer |-> flusher[f].answer, processed |-> flusher[f].processed]
    /\ \A m \in net : m = [job |-> m.job, stage |-> m.stage, to |-> m.to]

(* A request that somebody waits for is the only one of its loop, and the  *)
(* loop waits for the answer to just that job.                             *)
Awaited ==
    \A m \in net : m.to # Nobody =>
        /\ m.to \in Flushers
        /\ flusher[m.to].step = "wait" /\ flusher[m.to].job = m.job
        /\ \A n \in net : n.to = m.to => n = m

(* A loop that was told "ok" for a sale is right to believe it.            *)
ToldRight ==
    \A f \in Flushers :
        flusher[f].step = "settle" /\ flusher[f].answer = "ok" /\ IsSale(flusher[f].job)
            => flusher[f].job.of \in sold

QueueInv == Shapes /\ Awaited /\ ToldRight /\ SyncedMeansSold

LEMMA InitQueueInv == Init => QueueInv
BY DEF Init, Idle, QueueInv, Shapes, Awaited, ToldRight, SyncedMeansSold

(* The checkout touches neither the loops nor the network.                 *)
LEMMA CheckoutKeeps == QueueInv /\ Checkout => QueueInv'
<1> SUFFICES ASSUME QueueInv, Checkout PROVE QueueInv'
  OBVIOUS
<1>1. UNCHANGED <<ledgerVars, flusher, net>>
  BY DEF Checkout, EditCart, BeginCheckout, PutSale, EnqueueSale, RemoveItems
<1>2. /\ saved' = [s \in Sales |-> saved'[s]]
      /\ \A s \in Sales : saved'[s] = "synced" => saved[s] = "synced"
  <2>1. CASE PutSale
    BY <2>1 DEF PutSale, QueueInv, Shapes
  <2>2. CASE UNCHANGED saved
    BY <2>2 DEF QueueInv, Shapes
  <2> QED
    BY <2>1, <2>2 DEF Checkout, EditCart, BeginCheckout, EnqueueSale, RemoveItems
<1> QED
  BY <1>1, <1>2 DEF ledgerVars, QueueInv, Shapes, Awaited, ToldRight, SyncedMeansSold

(* A loop posts, settles what it was told, or puts the job off.            *)
LEMMA FlushKeeps ==
    ASSUME QueueInv, NEW f \in Flushers, Flush(f)
    PROVE  QueueInv'
<1> USE DEF FlusherAt, Advance, QueueInv
<1>1. CASE StartFlush(f)
  <2>1. /\ flusher' = [g \in Flushers |-> flusher'[g]]
        /\ \A g \in Flushers : g # f => flusher'[g] = flusher[g]
        /\ flusher'[f] = [step |-> "pick", job |-> flusher[f].job, answer |-> flusher[f].answer,
                          processed |-> 0]
        /\ flusher[f].step = "idle"
    <3>1. flusher' = [g \in Flushers |-> IF g = f THEN [flusher[f] EXCEPT !.step = "pick", !.processed = 0]
                                          ELSE flusher[g]]
      BY <1>1 DEF StartFlush, Shapes
    <3>2. flusher[f].step = "idle"
      BY <1>1 DEF StartFlush
    <3>3. PICK a, b, c, d : flusher[f] = [step |-> a, job |-> b, answer |-> c, processed |-> d]
      BY DEF Shapes
    <3> QED
      BY <3>1, <3>2, <3>3
  <2>2. UNCHANGED <<ledgerVars, saved, net>>
    BY <1>1 DEF StartFlush, tillVars
  <2> QED
    BY <2>1, <2>2 DEF ledgerVars, Shapes, Awaited, ToldRight, SyncedMeansSold
<1>2. CASE PostFirst(f)
  <2> DEFINE m == [job |-> Head(queue), stage |-> "sent", to |-> f]
  <2>1. /\ flusher' = [g \in Flushers |-> flusher'[g]]
        /\ \A g \in Flushers : g # f => flusher'[g] = flusher[g]
        /\ flusher'[f] = [step |-> "wait", job |-> m.job, answer |-> flusher[f].answer,
                          processed |-> flusher[f].processed + 1]
        /\ flusher[f].step = "pick"
    <3>1. flusher' = [g \in Flushers |-> IF g = f THEN [flusher[f] EXCEPT !.step = "wait", !.job = Head(queue),
                                                                       !.processed = @ + 1]
                                          ELSE flusher[g]]
      BY <1>2 DEF PostFirst, Shapes
    <3>2. flusher[f].step = "pick"
      BY <1>2 DEF PostFirst
    <3>3. PICK a, b, c, d : flusher[f] = [step |-> a, job |-> b, answer |-> c, processed |-> d]
      BY DEF Shapes
    <3> QED
      BY <3>1, <3>2, <3>3
  <2>2. UNCHANGED <<ledgerVars, saved>> /\ net' = net \cup {m}
    BY <1>2 DEF PostFirst, tillVars
  <2>3. m = [job |-> m.job, stage |-> m.stage, to |-> m.to] /\ m.to = f
    OBVIOUS
  <2> HIDE DEF m
  <2>4. \A n \in net : n.to # f
    BY <2>1, QueueAssumption DEF Awaited
  <2>5. Awaited'
    BY <2>1, <2>2, <2>3, <2>4 DEF Awaited
  <2> QED
    BY <2>1, <2>2, <2>3, <2>5 DEF ledgerVars, Shapes, ToldRight, SyncedMeansSold
<1>3. CASE EndFlush(f)
  BY <1>3 DEF EndFlush, Idle, ledgerVars, tillVars, Shapes, Awaited, ToldRight, SyncedMeansSold
<1>4. CASE Settle(f)
  <2>1. Shapes' /\ Awaited' /\ ToldRight'
    BY <1>4 DEF Settle, ledgerVars, Shapes, Awaited, ToldRight
  <2>2. SyncedMeansSold'
    BY <1>4 DEF Settle, Verdict, ledgerVars, Shapes, ToldRight, SyncedMeansSold
  <2> QED
    BY <2>1, <2>2
<1>5. CASE DeleteJob(f)
  BY <1>5 DEF DeleteJob, ledgerVars, Shapes, Awaited, ToldRight, SyncedMeansSold
<1>6. CASE RetryLater(f)
  BY <1>6 DEF RetryLater, Idle, ledgerVars, Shapes, Awaited, ToldRight, SyncedMeansSold
<1> QED
  BY <1>1, <1>2, <1>3, <1>4, <1>5, <1>6 DEF Flush

(* An answer goes to the loop that waits for it, if any.                   *)
LEMMA ReplyKeeps ==
    ASSUME QueueInv, NEW m \in net, NEW answer, Reply(m, answer), UNCHANGED saved,
           sold \subseteq sold', answer = "ok" /\ IsSale(m.job) => m.job.of \in sold'
    PROVE  QueueInv'
<1>1. Shapes'
  BY DEF Reply, QueueInv, Shapes
<1>2. Awaited'
  BY DEF Reply, QueueInv, Shapes, Awaited
<1>3. ToldRight'
  BY DEF Reply, QueueInv, Shapes, Awaited, ToldRight
<1> QED
  BY <1>1, <1>2, <1>3 DEF QueueInv, SyncedMeansSold

LEMMA ServeKeeps ==
    ASSUME QueueInv, NEW m \in net, Serve(m)
    PROVE  QueueInv'
<1>1. CASE LookUpSale(m)
  <2>1. CASE m.job.of \in sold
    BY <1>1, <2>1, ReplyKeeps DEF LookUpSale, ledgerVars, tillVars
  <2>2. CASE m.job.of \notin sold
    BY <1>1, <2>2 DEF LookUpSale, ledgerVars, tillVars, QueueInv, Shapes, Awaited, ToldRight, SyncedMeansSold
  <2> QED
    BY <2>1, <2>2
<1>2. ASSUME NEW answer, IngestSale(m, answer) PROVE QueueInv'
  BY <1>2, ReplyKeeps DEF IngestSale, Accept, Record, tillVars
<1>3. ASSUME NEW answer \in {"conflict", "client_error", "server_error"}, RefuseSale(m, answer)
      PROVE  QueueInv'
  BY <1>3, ReplyKeeps DEF RefuseSale, ledgerVars, tillVars
<1>4. CASE IngestCart(m)
  BY <1>4, ReplyKeeps DEF IngestCart, ledgerVars, tillVars
<1>5. ASSUME NEW answer \in {"client_error", "server_error"}, RefuseCart(m, answer) PROVE QueueInv'
  BY <1>5, ReplyKeeps DEF RefuseCart, ledgerVars, tillVars
<1> QED
  BY <1>1, <1>2, <1>3, <1>4, <1>5 DEF Serve

LEMMA StepQueueInv == QueueInv /\ [Next]_vars => QueueInv'
<1> SUFFICES ASSUME QueueInv, [Next]_vars PROVE QueueInv'
  OBVIOUS
<1>1. CASE UNCHANGED vars
  BY <1>1 DEF vars, ledgerVars, tillVars, QueueInv, Shapes, Awaited, ToldRight, SyncedMeansSold
<1>2. ASSUME NEW f \in Flushers, NetworkError(f) PROVE QueueInv'
  <2>1. /\ flusher' = [g \in Flushers |-> flusher'[g]]
        /\ \A g \in Flushers : g # f => flusher'[g] = flusher[g]
        /\ flusher'[f] = [step |-> "settle", job |-> flusher[f].job, answer |-> "offline",
                          processed |-> flusher[f].processed]
    <3>1. flusher' = [g \in Flushers |-> IF g = f THEN [flusher[f] EXCEPT !.step = "settle", !.answer = "offline"]
                                          ELSE flusher[g]]
      BY <1>2 DEF NetworkError, QueueInv, Shapes
    <3>2. PICK a, b, c, d : flusher[f] = [step |-> a, job |-> b, answer |-> c, processed |-> d]
      BY DEF QueueInv, Shapes
    <3> QED
      BY <3>1, <3>2
  <2>2. UNCHANGED <<ledgerVars, saved>>
    BY <1>2 DEF NetworkError, tillVars
  <2>3. PICK m \in net : m.to = f /\ (net' = net \ {m} \/ net' = (net \ {m}) \cup {[m EXCEPT !.to = Nobody]})
    BY <1>2 DEF NetworkError
  <2>4. \A n \in net' : \/ n \in net /\ n.to # f
                        \/ n.to = Nobody /\ n = [job |-> n.job, stage |-> n.stage, to |-> n.to]
    BY <2>3, QueueAssumption DEF QueueInv, Shapes, Awaited
  <2>5. Awaited'
    BY <2>1, <2>4 DEF QueueInv, Awaited
  <2> QED
    BY <2>1, <2>2, <2>4, <2>5 DEF ledgerVars, QueueInv, Shapes, ToldRight, SyncedMeansSold
<1>3. CASE Network
  BY <1>3 DEF Network, ledgerVars, tillVars, QueueInv, Shapes, Awaited, ToldRight, SyncedMeansSold
<1>4. CASE Reload
  BY <1>4 DEF Reload, Idle, ledgerVars, QueueInv, Shapes, Awaited, ToldRight, SyncedMeansSold
<1> QED
  BY <1>1, <1>2, <1>3, <1>4, CheckoutKeeps, FlushKeeps, ServeKeeps DEF Next

(* The till forgets a sale only when the server has it: however loops race *)
(* over the queue, replies get lost and the page reloads (flushSyncQueue). *)
THEOREM SyncedSalesAreSold == Spec => []SyncedMeansSold
<1>1. QueueInv => SyncedMeansSold
  BY DEF QueueInv
<1> QED
  BY <1>1, InitQueueInv, StepQueueInv, PTL DEF Spec

-------------------------------------------------------------------------------
(* The recursion by which Without goes through the queue.                  *)
Keeps(F, q, jobs, n) ==
    F = [i \in 0 .. n |-> IF i = 0 THEN <<>>
                          ELSE IF q[i] \in jobs THEN F[i - 1] ELSE Append(F[i - 1], q[i])]

LEMMA KeepsExists ==
    ASSUME NEW q, NEW jobs, NEW n \in Nat
    PROVE  \E F : Keeps(F, q, jobs, n)
<1> DEFINE Bad == {m \in Nat : ~ \E F : Keeps(F, q, jobs, m)}
<1>1. SUFFICES ASSUME Bad # {} PROVE FALSE
  OBVIOUS
<1>2. PICK m \in Bad : \A k \in Bad : m <= k
  <2>1. Bad \in SUBSET Nat
    OBVIOUS
  <2> HIDE DEF Bad
  <2> QED  BY <1>1, <2>1, LeastNumber
<1>3. m # 0
  <2> DEFINE F == [i \in 0 .. 0 |-> <<>>]
  <2>1. Keeps(F, q, jobs, 0)
    BY DEF Keeps
  <2> QED  BY <2>1
<1>4. PICK F : Keeps(F, q, jobs, m - 1)
  <2>1. m - 1 \in Nat /\ ~(m <= m - 1)
    BY <1>3
  <2> QED  BY <1>2, <2>1
<1> DEFINE G == [i \in 0 .. m |->
                  IF i = m THEN IF q[m] \in jobs THEN F[m - 1] ELSE Append(F[m - 1], q[m])
                           ELSE F[i]]
<1>5. \A i \in 0 .. m - 1 : G[i] = F[i] /\ i \in 0 .. m
  OBVIOUS
<1>6. \A i \in 0 .. m : G[i] = IF i = 0 THEN <<>>
                              ELSE IF q[i] \in jobs THEN G[i - 1] ELSE Append(G[i - 1], q[i])
  <2> SUFFICES ASSUME NEW i \in 0 .. m
               PROVE  G[i] = IF i = 0 THEN <<>>
                             ELSE IF q[i] \in jobs THEN G[i - 1] ELSE Append(G[i - 1], q[i])
    OBVIOUS
  <2>1. CASE i = m
    <3>1. G[m - 1] = F[m - 1]
      BY <1>3, <1>5
    <3> QED
      BY <1>3, <2>1, <3>1
  <2>2. CASE i # m
    <3>1. i \in 0 .. m - 1 /\ (i # 0 => i - 1 \in 0 .. m - 1)
      BY <2>2
    <3>2. F[i] = IF i = 0 THEN <<>> ELSE IF q[i] \in jobs THEN F[i - 1] ELSE Append(F[i - 1], q[i])
      BY <1>4, <3>1 DEF Keeps
    <3> HIDE DEF G
    <3> QED
      BY <1>5, <3>1, <3>2
  <2> QED
    BY <2>1, <2>2
<1>7. Keeps(G, q, jobs, m)
  <2>1. G = [i \in 0 .. m |-> G[i]]
    OBVIOUS
  <2> HIDE DEF G
  <2> QED
    BY <1>6, <2>1 DEF Keeps
<1> QED
  BY <1>2, <1>7

Distinct(q) == \A i, j \in 1 .. Len(q) : q[i] = q[j] => i = j
Holds(q, job) == \E i \in 1 .. Len(q) : q[i] = job

LEMMA DistinctAppend ==
    ASSUME NEW T, NEW q \in Seq(T), NEW job \in T, Distinct(q), ~Holds(q, job)
    PROVE  Distinct(Append(q, job))
<1>1. Len(q) \in Nat /\ Len(Append(q, job)) = Len(q) + 1 /\ Append(q, job)[Len(q) + 1] = job
      /\ \A i \in 1 .. Len(q) : Append(q, job)[i] = q[i]
  OBVIOUS
<1>2. PICK r : r = Append(q, job)
  OBVIOUS
<1>3. Distinct(r)
  BY ONLY <1>1, <1>2, Distinct(q), ~Holds(q, job) DEF Distinct, Holds
<1> QED
  BY <1>2, <1>3

(* What is kept of the first i jobs.                                       *)
KeptOf(kept, T, q, jobs, i) ==
    /\ kept \in Seq(T)
    /\ \A job : Holds(kept, job) <=> job \notin jobs /\ \E k \in 1 .. i : q[k] = job
    /\ Distinct(q) => Distinct(kept)

(* One more job is looked at.                                              *)
LEMMA OneMoreKept ==
    ASSUME NEW T, NEW q \in Seq(T), NEW jobs, NEW i \in 1 .. Len(q),
           NEW before, KeptOf(before, T, q, jobs, i - 1),
           NEW after, after = IF q[i] \in jobs THEN before ELSE Append(before, q[i])
    PROVE  KeptOf(after, T, q, jobs, i)
<1> USE DEF KeptOf
<1>1. CASE q[i] \in jobs
  BY <1>1
<1>2. CASE q[i] \notin jobs
  <2>1. after = Append(before, q[i]) /\ q[i] \in T
    BY <1>2
  <2>2. /\ after \in Seq(T) /\ Len(after) = Len(before) + 1 /\ Len(before) \in Nat
        /\ after[Len(before) + 1] = q[i]
        /\ \A k \in 1 .. Len(before) : after[k] = before[k]
    BY <2>1
  <2>3. \A job : Holds(after, job) <=> Holds(before, job) \/ job = q[i]
    BY <2>2 DEF Holds
  <2>4. \A job : Holds(after, job) <=> job \notin jobs /\ \E k \in 1 .. i : q[k] = job
    BY <1>2, <2>3
  <2>5. Distinct(q) => Distinct(after)
    <3>1. Distinct(q) => ~Holds(before, q[i])
      BY DEF Distinct
    <3> QED
      BY <2>2, <3>1 DEF Distinct, Holds
  <2> QED
    BY <2>2, <2>4, <2>5
<1> QED
  BY <1>1, <1>2

(* What is left of a queue: the jobs that were not deleted, each as often. *)
LEMMA WithoutFacts ==
    ASSUME NEW T, NEW q \in Seq(T), NEW jobs
    PROVE  /\ Without(q, jobs) \in Seq(T)
           /\ \A job : Holds(Without(q, jobs), job) <=> job \notin jobs /\ Holds(q, job)
           /\ Distinct(q) => Distinct(Without(q, jobs))
<1> DEFINE F == CHOOSE F : Keeps(F, q, jobs, Len(q))
<1>1. Without(q, jobs) = F[Len(q)]
  BY DEF Without, Keeps
<1>2. Len(q) \in Nat
  OBVIOUS
<1>3. Keeps(F, q, jobs, Len(q))
  BY <1>2, KeepsExists
<1> HIDE DEF F
<1> DEFINE Bad == {i \in 0 .. Len(q) : ~KeptOf(F[i], T, q, jobs, i)}
<1>4. Bad = {}
  <2>1. SUFFICES ASSUME Bad # {} PROVE FALSE
    OBVIOUS
  <2>2. PICK i \in Bad : \A k \in Bad : i <= k
    <3>1. Bad \in SUBSET Nat
      BY <1>2
    <3> HIDE DEF Bad
    <3> QED  BY <2>1, <3>1, LeastNumber
  <2>3. i # 0
    <3>1. F[0] = <<>>
      BY <1>2, <1>3 DEF Keeps
    <3>2. KeptOf(F[0], T, q, jobs, 0)
      BY <3>1 DEF KeptOf, Holds, Distinct
    <3> QED
      BY <3>2
  <2>4. i - 1 \in 0 .. Len(q) /\ i \in 1 .. Len(q) /\ i - 1 \notin Bad
    BY <1>2, <2>2, <2>3
  <2>5. KeptOf(F[i - 1], T, q, jobs, i - 1)
    BY <2>4
  <2>6. F[i] = IF q[i] \in jobs THEN F[i - 1] ELSE Append(F[i - 1], q[i])
    <3>1. i \in 0 .. Len(q) /\ i # 0
      BY <1>2, <2>4
    <3>2. F = [k \in 0 .. Len(q) |-> IF k = 0 THEN <<>>
                                     ELSE IF q[k] \in jobs THEN F[k - 1] ELSE Append(F[k - 1], q[k])]
      BY <1>3 DEF Keeps
    <3>3. F[i] = IF i = 0 THEN <<>>
                 ELSE IF q[i] \in jobs THEN F[i - 1] ELSE Append(F[i - 1], q[i])
      BY ONLY <3>1, <3>2, Zenon
    <3> QED
      BY <3>1, <3>3
  <2>7. KeptOf(F[i], T, q, jobs, i)
    BY <2>4, <2>5, <2>6, OneMoreKept
  <2> QED
    BY <2>7
<1>5. KeptOf(F[Len(q)], T, q, jobs, Len(q))
  BY <1>2, <1>4
<1> QED
  BY <1>1, <1>5 DEF KeptOf, Holds

-------------------------------------------------------------------------------
(* What a till still has to send.                                          *)
TillInv ==
    /\ QueueInv /\ JobOnce /\ CheckoutFirst /\ SettledFirst
    /\ PendingIsQueued /\ NewestSnapshotQueued

LEMMA QueueReads ==
    ASSUME JobOnce
    PROVE  /\ \A job : Queued(job) <=> Holds(queue, job)
           /\ NewestSnapshotQueued <=>
                /\ Distinct(queue)
                /\ \A job : Holds(queue, job) /\ ~IsSale(job) => job.rev = rev[job.of]
BY DEF JobOnce, Queued, Holds, Distinct, NewestSnapshotQueued

LEMMA JobFacts ==
    /\ \A job \in Rows : IsSale(job) <=> job \in SaleJobs
    /\ \A s : IsSale(SaleJob(s)) /\ SaleJob(s).of = s
    /\ ~IsSale(NoJob)
    /\ \A c, n : CartJob(c, n).type = "cart.upsert" /\ ~IsSale(CartJob(c, n))
                 /\ CartJob(c, n).of = c /\ CartJob(c, n).rev = n
BY DEF Rows, IsSale, SaleJobs, SaleJob, CartJob, NoJob

(* A snapshot replaces those of its cart, and no other job.                *)
LEMMA SnapshotReplaces ==
    ASSUME JobOnce, NewestSnapshotQueued, NEW c \in Carts, EnqueueCart(c)
    PROVE  /\ JobOnce' /\ NewestSnapshotQueued'
           /\ \A s \in Sales : Queued(SaleJob(s))' <=> Queued(SaleJob(s))
<1> DEFINE rest == Without(queue, SnapshotsOf(c))
           new == CartJob(c, rev[c] + 1)
<1>1. queue \in Seq(Rows) /\ rev \in [Carts -> Nat] /\ queue' = Append(rest, new)
      /\ rev' = [rev EXCEPT ![c] = rev[c] + 1]
  BY DEF JobOnce, EnqueueCart
<1>2. /\ rest \in Seq(Rows)
      /\ \A job : Holds(rest, job) <=> job \notin SnapshotsOf(c) /\ Holds(queue, job)
      /\ Distinct(queue) => Distinct(rest)
  BY <1>1, WithoutFacts
<1>3. new \in Rows /\ ~IsSale(new) /\ new.of = c /\ new.rev = rev[c] + 1
  BY <1>1 DEF Rows, CartJob, IsSale
<1>4. \A job : Holds(rest, job) => job \in Rows /\ ~(job.type = "cart.upsert" /\ job.of = c)
  <2>1. \A job : Holds(queue, job) => job \in Rows /\ job \in {queue[i] : i \in DOMAIN queue}
    <3>1. DOMAIN queue = 1 .. Len(queue) /\ \A i \in 1 .. Len(queue) : queue[i] \in Rows
      BY <1>1
    <3> QED
      BY <3>1 DEF Holds
  <2> QED
    BY <1>2, <2>1 DEF SnapshotsOf
<1>5. new.type = "cart.upsert"
  BY DEF CartJob
<1> HIDE DEF rest, new
<1>6. JobOnce'
  BY <1>1, <1>2, <1>3 DEF JobOnce
<1>7. \A job : Holds(queue', job) <=> Holds(rest, job) \/ job = new
  BY <1>1, <1>2 DEF Holds
<1>8. Distinct(queue')
  <2>1. ~Holds(rest, new) /\ Distinct(rest)
    BY <1>2, <1>3, <1>4, <1>5, QueueReads
  <2> QED
    BY <1>1, <1>2, <2>1 DEF Distinct, Holds
<1>9. ASSUME NEW job, Holds(queue', job), ~IsSale(job) PROVE job.rev = rev'[job.of]
  <2>1. CASE job = new
    BY <1>1, <1>3, <2>1
  <2>2. CASE Holds(rest, job)
    <3>1. job \in Rows /\ job.type = "cart.upsert" /\ job.of # c /\ job.of \in Carts
      BY <1>4, <1>9, <2>2, JobFacts DEF Rows
    <3>2. job.rev = rev[job.of]
      BY <1>2, <1>9, <2>2, QueueReads
    <3> QED
      BY <1>1, <3>1, <3>2
  <2> QED
    BY <1>7, <1>9, <2>1, <2>2
<1>10. ASSUME NEW s \in Sales PROVE Queued(SaleJob(s))' <=> Queued(SaleJob(s))
  <2>1. SaleJob(s) \notin SnapshotsOf(c) /\ SaleJob(s) # new
    BY <1>5 DEF SnapshotsOf, SaleJob
  <2>2. Holds(queue', SaleJob(s)) <=> Holds(queue, SaleJob(s))
    BY <1>2, <1>7, <2>1
  <2>3. Queued(SaleJob(s))' <=> Holds(queue', SaleJob(s))
    BY <1>6 DEF JobOnce, Queued, Holds, SaleJob
  <2> QED
    BY <2>2, <2>3, QueueReads
<1>11. NewestSnapshotQueued'
  BY <1>6, <1>8, <1>9 DEF JobOnce, NewestSnapshotQueued, Distinct, Holds
<1> QED
  BY <1>6, <1>10, <1>11

(* A sale's job is new when it is queued.                                  *)
LEMMA SaleJobAppends ==
    ASSUME JobOnce, NewestSnapshotQueued, NEW s \in Sales, ~Queued(SaleJob(s)),
           queue' = Append(queue, SaleJob(s)), rev' = rev
    PROVE  /\ JobOnce' /\ NewestSnapshotQueued'
           /\ \A job : Queued(job)' <=> Queued(job) \/ job = SaleJob(s)
<1>1. SaleJob(s) \in Rows /\ IsSale(SaleJob(s))
  BY JobFacts DEF Rows, SaleJobs
<1> DEFINE new == SaleJob(s)
<1> HIDE DEF new
<1>2. queue \in Seq(Rows) /\ queue' = Append(queue, new) /\ new \in Rows
  BY <1>1 DEF JobOnce, new
<1>3. JobOnce'
  BY <1>2 DEF JobOnce
<1>4. \A job : Queued(job)' <=> Queued(job) \/ job = new
  BY <1>2 DEF Queued
<1>5. NewestSnapshotQueued'
  BY <1>1, <1>2 DEF NewestSnapshotQueued, Queued, new
<1> QED
  BY <1>3, <1>4, <1>5 DEF new

(* Deleting a row takes that job away and no other.                        *)
LEMMA RowDeleted ==
    ASSUME JobOnce, NewestSnapshotQueued, NEW job
    PROVE  /\ Without(queue, {job}) \in Seq(Rows)
           /\ Distinct(Without(queue, {job}))
           /\ \A other : Holds(Without(queue, {job}), other) <=> other # job /\ Queued(other)
<1>1. queue \in Seq(Rows)
  BY DEF JobOnce
<1>2. Distinct(queue) /\ \A other : Queued(other) <=> Holds(queue, other)
  BY QueueReads
<1> QED
  BY <1>1, <1>2, WithoutFacts

(* A row that goes to the back stays the same row.                         *)
LEMMA RowToTheBack ==
    ASSUME JobOnce, NewestSnapshotQueued, NEW job, Queued(job),
           queue' = Append(Without(queue, {job}), job), rev' = rev
    PROVE  JobOnce' /\ NewestSnapshotQueued' /\ \A other : Queued(other)' <=> Queued(other)
<1>1. PICK rest : rest = Without(queue, {job})
  OBVIOUS
<1>2. /\ rest \in Seq(Rows) /\ Distinct(rest)
      /\ \A other : Holds(rest, other) <=> other # job /\ Queued(other)
      /\ queue' = Append(rest, job)
  BY <1>1, RowDeleted
<1>3. job \in Rows
  BY DEF Queued, JobOnce
<1>4. JobOnce'
  <2>1. JobOnce /\ rev' = rev
    OBVIOUS
  <2> QED
    BY ONLY <1>2, <1>3, <2>1 DEF JobOnce
<1>5. \A other : Queued(other)' <=> Holds(rest, other) \/ other = job
  BY ONLY <1>2, <1>3 DEF Queued, Holds
<1>6. \A other : Queued(other)' <=> Queued(other)
  BY <1>2, <1>5
<1>7. Distinct(queue')
  <2>1. ~Holds(rest, job) /\ rest \in Seq(Rows) /\ Distinct(rest) /\ queue' = Append(rest, job)
    BY <1>2
  <2> QED
    BY ONLY <1>3, <2>1, DistinctAppend
<1>8. \A other : Queued(other) /\ ~IsSale(other) => other.rev = rev[other.of]
  BY QueueReads
<1>9. NewestSnapshotQueued'
  <2>1. rev' = rev
    OBVIOUS
  <2>2. DOMAIN queue' = 1 .. Len(queue')
    BY ONLY <1>4 DEF JobOnce
  <2>3. \A i \in DOMAIN queue' : ~IsSale(queue'[i]) => queue'[i].rev = rev[queue'[i].of]
    BY ONLY <1>6, <1>8 DEF Queued
  <2> QED
    BY ONLY <1>7, <2>1, <2>2, <2>3 DEF NewestSnapshotQueued, Distinct
<1> QED
  BY <1>4, <1>6, <1>9

(* What a step does to the row a loop has in hand.                         *)
HandsMove(f) ==
    /\ \/ flusher'[f].job = flusher[f].job
       \/ flusher'[f].job = NoJob
       \/ Queued(flusher'[f].job)
    /\ flusher'[f].step \in {"settle", "delete"}
         => /\ flusher'[f].job = flusher[f].job
            /\ flusher[f].step \in {"wait", "settle", "delete"}
    /\ flusher'[f].step = "wait" => \/ flusher'[f] = flusher[f]
                                    \/ Queued(flusher'[f].job)
    /\ flusher'[f].step = "delete" => flusher[f].step = "delete" \/ Settle(f)

LEMMA ReplyMoves ==
    ASSUME QueueInv, NEW m \in net, NEW answer, Reply(m, answer), NEW f \in Flushers
    PROVE  HandsMove(f)
<1>1. CASE flusher'[f] = flusher[f]
  BY <1>1 DEF HandsMove
<1>2. CASE m.to = f /\ m.to # Nobody
  <2>1. flusher[f].step = "wait"
    BY <1>2 DEF QueueInv, Awaited
  <2>2. flusher'[f] = [step |-> "settle", job |-> flusher[f].job,
                       answer |-> answer, processed |-> flusher[f].processed]
    <3>1. flusher'[f] = [flusher[f] EXCEPT !.step = "settle", !.answer = answer]
      BY <1>2 DEF Reply, QueueInv, Shapes
    <3>2. PICK a, b, c, d : flusher[f] = [step |-> a, job |-> b, answer |-> c, processed |-> d]
      BY DEF QueueInv, Shapes
    <3> QED
      BY <3>1, <3>2
  <2> QED
    BY <2>1, <2>2 DEF HandsMove
<1> QED
  BY <1>1, <1>2 DEF Reply, QueueInv, Shapes

LEMMA FlushMoves ==
    ASSUME QueueInv, JobOnce, NEW f \in Flushers, Flush(f)
    PROVE  HandsMove(f)
<1>0. PICK a, b, c, d : flusher[f] = [step |-> a, job |-> b, answer |-> c, processed |-> d]
  BY DEF QueueInv, Shapes
<1>1. CASE StartFlush(f)
  <2>1. flusher'[f] = [flusher[f] EXCEPT !.step = "pick", !.processed = 0]
    BY <1>1 DEF StartFlush, QueueInv, Shapes
  <2> QED
    BY <1>0, <2>1 DEF HandsMove
<1>2. CASE PostFirst(f)
  <2>1. flusher'[f] = [flusher[f] EXCEPT !.step = "wait", !.job = Head(queue), !.processed = @ + 1]
    BY <1>2 DEF PostFirst, QueueInv, Shapes
  <2>2. flusher'[f].step = "wait" /\ flusher'[f].job = Head(queue)
    BY <1>0, <2>1
  <2>3. Queued(Head(queue))
    BY <1>2 DEF PostFirst, JobOnce, Queued
  <2> QED
    BY <2>2, <2>3 DEF HandsMove
<1>3. CASE EndFlush(f)
  BY <1>3 DEF EndFlush, Idle, HandsMove, QueueInv, Shapes
<1>4. CASE Settle(f)
  <2>1. flusher'[f] = [flusher[f] EXCEPT !.step = "delete"] /\ flusher[f].step = "settle"
    BY <1>4 DEF Settle, Advance, FlusherAt, QueueInv, Shapes
  <2> QED
    BY <1>0, <1>4, <2>1 DEF HandsMove
<1>5. CASE DeleteJob(f)
  <2>1. flusher'[f] = [flusher[f] EXCEPT !.step = "pick"]
    BY <1>5 DEF DeleteJob, Advance, QueueInv, Shapes
  <2> QED
    BY <1>0, <2>1 DEF HandsMove
<1>6. CASE RetryLater(f)
  <2>1. flusher'[f] = Idle \/ flusher'[f] = [flusher[f] EXCEPT !.step = "pick"]
    BY <1>6 DEF RetryLater, QueueInv, Shapes
  <2> QED
    BY <1>0, <2>1 DEF HandsMove, Idle
<1> QED
  BY <1>1, <1>2, <1>3, <1>4, <1>5, <1>6 DEF Flush

LEMMA LoopSteps ==
    ASSUME QueueInv, JobOnce, [Next]_vars, NEW f \in Flushers
    PROVE  HandsMove(f)
<1>1. CASE flusher'[f] = flusher[f]
  BY <1>1 DEF HandsMove
<1>2. CASE Checkout \/ Network \/ UNCHANGED vars
  BY <1>1, <1>2 DEF Checkout, EditCart, BeginCheckout, PutSale, EnqueueSale, RemoveItems, Network, vars
<1>3. CASE Reload
  BY <1>3 DEF Reload, Idle, HandsMove
<1>4. ASSUME NEW g \in Flushers, Flush(g) PROVE HandsMove(f)
  <2>1. g # f => flusher'[f] = flusher[f]
    BY <1>4 DEF Flush, StartFlush, PostFirst, EndFlush, Settle, DeleteJob, RetryLater, Advance,
                QueueInv, Shapes
  <2> QED
    BY <1>1, <1>4, <2>1, FlushMoves
<1>5. ASSUME NEW g \in Flushers, NetworkError(g) PROVE HandsMove(f)
  <2>1. g # f => flusher'[f] = flusher[f]
    BY <1>5 DEF NetworkError, QueueInv, Shapes
  <2>2. CASE g = f
    <3>1. flusher'[f] = [flusher[f] EXCEPT !.step = "settle", !.answer = "offline"]
          /\ flusher[f].step = "wait"
      BY <1>5, <2>2 DEF NetworkError, FlusherAt, QueueInv, Shapes
    <3>2. PICK a, b, c, d : flusher[f] = [step |-> a, job |-> b, answer |-> c, processed |-> d]
      BY DEF QueueInv, Shapes
    <3>3. flusher'[f].step = "settle" /\ flusher'[f].job = flusher[f].job
      BY <3>1, <3>2
    <3> QED
      BY <3>1, <3>3 DEF HandsMove
  <2> QED
    BY <1>1, <2>1, <2>2
<1>6. ASSUME NEW m \in net, Serve(m) PROVE HandsMove(f)
  <2>1. (\E answer : Reply(m, answer)) \/ UNCHANGED flusher
    BY <1>6 DEF Serve, LookUpSale, IngestSale, RefuseSale, IngestCart, RefuseCart
  <2> QED
    BY <1>1, <2>1, ReplyMoves
<1> QED
  BY <1>2, <1>3, <1>4, <1>5, <1>6 DEF Next

(* The queue changes in four places.                                       *)
QueueMoves ==
    \/ UNCHANGED <<queue, rev>>
    \/ \E c \in Carts : EnqueueCart(c)
    \/ EnqueueSale
    \/ \E f \in Flushers : DeleteJob(f) \/ RetryLater(f)

LEMMA NextMovesQueue ==
    ASSUME CheckoutFirst, [Next]_vars
    PROVE  QueueMoves
<1>1. RemoveItems => CartOf[till.sale] \in Carts
  BY DEF RemoveItems, CheckoutFirst, Carts
<1> QED
  BY <1>1 DEF QueueMoves, Next, vars, tillVars, Checkout, EditCart, BeginCheckout, PutSale, RemoveItems,
      Flush, StartFlush, PostFirst, EndFlush, Settle, NetworkError, Serve, LookUpSale, IngestSale,
      RefuseSale, IngestCart, RefuseCart, Network, Reload

LEMMA StepQueue ==
    ASSUME TillInv, [Next]_vars
    PROVE  JobOnce' /\ NewestSnapshotQueued'
<1> USE DEF TillInv
<1>1. CASE UNCHANGED <<queue, rev>>
  BY <1>1 DEF JobOnce, NewestSnapshotQueued
<1>2. CASE EnqueueSale
  <2>1. till.sale \in Sales /\ ~Queued(SaleJob(till.sale))
    BY <1>2 DEF EnqueueSale, CheckoutFirst, InHand
  <2> QED
    BY <1>2, <2>1, SaleJobAppends DEF EnqueueSale
<1>3. ASSUME NEW f \in Flushers, DeleteJob(f) PROVE JobOnce' /\ NewestSnapshotQueued'
  <2>1. PICK job : job = flusher[f].job
    OBVIOUS
  <2>2. PICK rest : rest = Without(queue, {job})
    OBVIOUS
  <2>3. queue' = rest /\ rev' = rev
    BY <1>3, <2>1, <2>2 DEF DeleteJob
  <2>4. rest \in Seq(Rows) /\ Distinct(rest) /\ \A other : Holds(rest, other) => Queued(other)
    BY <2>2, RowDeleted
  <2>5. JobOnce'
    BY <2>3, <2>4 DEF JobOnce
  <2>6. \A other : Queued(other) /\ ~IsSale(other) => other.rev = rev[other.of]
    BY QueueReads
  <2>7. DOMAIN rest = 1 .. Len(rest)
    BY <2>4
  <2>8. \A i \in DOMAIN rest : ~IsSale(rest[i]) => rest[i].rev = rev[rest[i].of]
    BY <2>4, <2>6, <2>7 DEF Holds
  <2>9. NewestSnapshotQueued'
    BY ONLY <2>3, <2>4, <2>7, <2>8 DEF Distinct, NewestSnapshotQueued
  <2> QED
    BY <2>5, <2>9
<1>4. ASSUME NEW f \in Flushers, RetryLater(f) PROVE JobOnce' /\ NewestSnapshotQueued'
  BY <1>1, <1>4, RowToTheBack DEF RetryLater
<1> QED
  BY <1>1, <1>2, <1>3, <1>4, SnapshotReplaces, NextMovesQueue DEF QueueMoves

(* Only a checkout brings the job of a sale into the queue, and only a     *)
(* loop that has it in hand takes it out.                                  *)
LEMMA SalesQueued ==
    ASSUME TillInv, [Next]_vars, NEW s \in Sales
    PROVE  /\ Queued(SaleJob(s))' /\ ~Queued(SaleJob(s)) => EnqueueSale /\ till.sale = s
           /\ Queued(SaleJob(s)) /\ ~Queued(SaleJob(s))' =>
                \E f \in Flushers : DeleteJob(f) /\ flusher[f].job = SaleJob(s)
           /\ EnqueueSale /\ till.sale = s => Queued(SaleJob(s))'
<1> USE DEF TillInv
<1>1. CASE UNCHANGED <<queue, rev>> /\ ~EnqueueSale
  BY <1>1 DEF Queued
<1>2. CASE EnqueueSale
  <2>1. till.sale \in Sales /\ ~Queued(SaleJob(till.sale))
    BY <1>2 DEF EnqueueSale, CheckoutFirst, InHand
  <2>2. \A job : Queued(job)' <=> Queued(job) \/ job = SaleJob(till.sale)
    BY <1>2, <2>1, SaleJobAppends DEF EnqueueSale
  <2>3. SaleJob(s) = SaleJob(till.sale) <=> s = till.sale
    BY JobFacts
  <2> QED
    BY <1>2, <2>2, <2>3
<1>3. ASSUME NEW f \in Flushers, DeleteJob(f), ~EnqueueSale
      PROVE  /\ Queued(SaleJob(s))' => Queued(SaleJob(s))
             /\ Queued(SaleJob(s)) /\ ~Queued(SaleJob(s))' => flusher[f].job = SaleJob(s)
  <2>1. PICK job : job = flusher[f].job
    OBVIOUS
  <2>2. PICK rest : rest = Without(queue, {job})
    OBVIOUS
  <2>3. queue' = rest
    BY <1>3, <2>1, <2>2 DEF DeleteJob
  <2>4. rest \in Seq(Rows) /\ \A other : Holds(rest, other) <=> other # job /\ Queued(other)
    BY <2>2, RowDeleted
  <2>5. \A other : Queued(other)' <=> Holds(rest, other)
    BY ONLY <2>3, <2>4 DEF Queued, Holds
  <2> QED
    BY <2>1, <2>4, <2>5
<1>4. ASSUME NEW f \in Flushers, RetryLater(f), ~EnqueueSale
      PROVE  Queued(SaleJob(s))' <=> Queued(SaleJob(s))
  <2>1. CASE Queued(flusher[f].job)
    <3>1. \A other : Queued(other)' <=> Queued(other)
      BY <1>4, <2>1, RowToTheBack DEF RetryLater
    <3> QED
      BY <3>1
  <2>2. CASE ~Queued(flusher[f].job)
    BY <1>4, <2>2 DEF RetryLater, Queued
  <2> QED
    BY <2>1, <2>2
<1>5. ASSUME NEW c \in Carts, EnqueueCart(c), ~EnqueueSale
      PROVE  Queued(SaleJob(s))' <=> Queued(SaleJob(s))
  BY <1>5, SnapshotReplaces
<1> QED
  BY <1>1, <1>2, <1>3, <1>4, <1>5, NextMovesQueue DEF QueueMoves

(* A sale becomes pending in its checkout and is settled by a loop.        *)
LEMMA SalesSaved ==
    ASSUME TillInv, [Next]_vars, NEW s \in Sales, saved'[s] # saved[s]
    PROVE  \/ PutSale /\ till.sale = s /\ saved'[s] = "pending" /\ saved[s] = "none"
           \/ /\ saved'[s] \in {"synced", "error"} /\ UNCHANGED till
              /\ \E f \in Flushers : flusher[f].job = SaleJob(s)
<1> USE DEF TillInv
<1>1. CASE PutSale
  BY <1>1 DEF PutSale, CheckoutFirst, QueueInv, Shapes
<1>2. ASSUME NEW f \in Flushers, Settle(f)
      PROVE  /\ saved'[s] \in {"synced", "error"} /\ UNCHANGED till
             /\ flusher[f].job = SaleJob(s)
  <2>1. IsSale(flusher[f].job) /\ saved' = [saved EXCEPT ![flusher[f].job.of] = Verdict(flusher[f].answer)]
    BY <1>2 DEF Settle
  <2>2. flusher[f].job.of = s /\ saved'[s] = Verdict(flusher[f].answer)
    BY <2>1 DEF QueueInv, Shapes
  <2>3. flusher[f].job \in SaleJobs
    BY <1>2, <2>1, JobFacts DEF Settle, FlusherAt, SettledFirst
  <2>4. flusher[f].job = SaleJob(s)
    BY <2>2, <2>3, JobFacts DEF SaleJobs
  <2> QED
    BY <1>2, <2>2, <2>4 DEF Settle, Verdict
<1>3. PutSale \/ \E f \in Flushers : Settle(f)
  BY DEF Next, vars, tillVars, Checkout, EditCart, BeginCheckout, EnqueueSale, RemoveItems,
      Flush, StartFlush, PostFirst, EndFlush, DeleteJob, RetryLater, NetworkError, Serve, LookUpSale,
      IngestSale, RefuseSale, IngestCart, RefuseCart, Network, Reload
<1> QED
  BY <1>1, <1>2, <1>3

(* The steps of the checkout.                                              *)
TillMoves ==
    \/ UNCHANGED <<till, torn>>
    \/ /\ till.step = "idle" /\ UNCHANGED torn
       /\ \E s \in Sales : saved[s] = "none" /\ saved' = saved /\ till' = [step |-> "put", sale |-> s]
    \/ PutSale \/ EnqueueSale
    \/ RemoveItems
    \/ Reload

LEMMA NextMovesTill ==
    ASSUME [Next]_vars
    PROVE  TillMoves
BY DEF TillMoves, Next, vars, tillVars, Checkout, EditCart, BeginCheckout, Flush, StartFlush, PostFirst,
    EndFlush, Settle, DeleteJob, RetryLater, NetworkError, Serve, LookUpSale, IngestSale, RefuseSale,
    IngestCart, RefuseCart, Network

(* A job is in hand only once its checkout has queued it.                  *)
LEMMA NothingInHand ==
    ASSUME TillInv, [Next]_vars, NEW s \in Sales, ~InHand(s), ~(EnqueueSale /\ till.sale = s)
    PROVE  ~InHand(s)'
<1>1. ~Queued(SaleJob(s))'
  BY SalesQueued DEF InHand
<1>2. ASSUME NEW f \in Flushers PROVE flusher'[f].job # SaleJob(s)
  <2>1. HandsMove(f)
    BY LoopSteps DEF TillInv
  <2>2. SaleJob(s) # NoJob
    BY JobFacts
  <2> QED
    BY <2>1, <2>2 DEF HandsMove, InHand
<1>3. SaleJob(s)' = SaleJob(s)
  BY DEF SaleJob
<1> QED
  BY <1>1, <1>2, <1>3 DEF InHand

LEMMA StepCheckoutFirst ==
    ASSUME TillInv, [Next]_vars
    PROVE  CheckoutFirst'
<1> USE DEF TillInv
<1>1. /\ till' = [step |-> till'.step, sale |-> till'.sale]
      /\ till'.step # "idle" => till'.sale \in Sales
      /\ till'.step = "put" => saved'[till'.sale] = "none"
      /\ till'.step = "enqueue" => saved'[till'.sale] = "pending"
      /\ till'.step = "enqueue" => UNCHANGED till \/ PutSale
  <2>1. CASE UNCHANGED till
    <3>1. ASSUME till.step \in {"put", "enqueue"} PROVE saved'[till.sale] = saved[till.sale]
      <4>1. till.sale \in Sales /\ ~InHand(till.sale)
        BY <3>1 DEF CheckoutFirst
      <4>2. ~PutSale
        BY <2>1 DEF PutSale, CheckoutFirst
      <4> QED
        BY <4>1, <4>2, SalesSaved DEF InHand
    <3> QED
      BY <2>1, <3>1 DEF CheckoutFirst
  <2>2. CASE \E s \in Sales : saved[s] = "none" /\ saved' = saved /\ till' = [step |-> "put", sale |-> s]
    BY <2>2
  <2>3. CASE PutSale
    BY <2>3 DEF PutSale, CheckoutFirst, QueueInv, Shapes
  <2>4. CASE EnqueueSale \/ RemoveItems \/ Reload
    BY <2>4 DEF EnqueueSale, RemoveItems, Reload, CheckoutFirst
  <2> QED
    BY <2>1, <2>2, <2>3, <2>4, NextMovesTill DEF TillMoves
<1>2. ASSUME NEW s \in Sales, saved'[s] = "none" \/ (till'.step = "enqueue" /\ till'.sale = s)
      PROVE  ~InHand(s)'
  <2>1. CASE saved'[s] = "none"
    <3>1. saved[s] = "none"
      BY <2>1, SalesSaved
    <3>2. ~InHand(s)
      BY <3>1 DEF CheckoutFirst
    <3>3. ~(EnqueueSale /\ till.sale = s)
      BY <3>1 DEF EnqueueSale, CheckoutFirst
    <3> QED
      BY <3>2, <3>3, NothingInHand
  <2>2. CASE till'.step = "enqueue" /\ till'.sale = s
    <3>1. UNCHANGED till \/ PutSale
      BY <1>1, <2>2
    <3>2. ~InHand(s)
      BY <2>2, <3>1 DEF PutSale, CheckoutFirst
    <3>3. ~EnqueueSale
      BY <2>2, <3>1 DEF EnqueueSale, PutSale, CheckoutFirst
    <3> QED
      BY <3>2, <3>3, NothingInHand
  <2> QED
    BY <1>2, <2>1, <2>2
<1> QED
  BY <1>1, <1>2 DEF CheckoutFirst

LEMMA StepSettledFirst ==
    ASSUME TillInv, [Next]_vars
    PROVE  SettledFirst'
<1> USE DEF TillInv
<1> SUFFICES ASSUME NEW f \in Flushers
             PROVE  /\ flusher'[f].step \in {"wait", "settle", "delete"} => flusher'[f].job \in Rows
                    /\ flusher'[f].step = "delete" /\ IsSale(flusher'[f].job)
                         => saved'[flusher'[f].job.of] \in {"synced", "error"}
  BY DEF SettledFirst, IsSale, Rows
<1>1. HandsMove(f)
  BY LoopSteps
<1>2. \A job : Queued(job) => job \in Rows
  BY DEF Queued, JobOnce
<1>3. flusher'[f].step \in {"wait", "settle", "delete"} => flusher'[f].job \in Rows
  BY <1>1, <1>2 DEF HandsMove, SettledFirst
<1>4. ASSUME flusher'[f].step = "delete", IsSale(flusher'[f].job)
      PROVE  saved'[flusher'[f].job.of] \in {"synced", "error"}
  <2>1. flusher'[f].job = flusher[f].job /\ flusher[f].job \in SaleJobs
    BY <1>1, <1>3, <1>4, JobFacts DEF HandsMove
  <2>2. PICK s \in Sales : flusher[f].job = SaleJob(s) /\ flusher[f].job.of = s
    BY <2>1, JobFacts DEF SaleJobs
  <2>3. CASE Settle(f)
    BY <1>4, <2>1, <2>2, <2>3 DEF Settle, Verdict, QueueInv, Shapes
  <2>4. CASE flusher[f].step = "delete"
    <3>1. saved[s] \in {"synced", "error"}
      BY <1>4, <2>1, <2>2, <2>4 DEF SettledFirst
    <3>2. saved'[s] \in {"synced", "error"}
      BY <3>1, SalesSaved
    <3> QED
      BY <2>1, <2>2, <3>2
  <2> QED
    BY <1>1, <1>4, <2>3, <2>4 DEF HandsMove
<1> QED
  BY <1>3, <1>4

LEMMA StepPending ==
    ASSUME TillInv, [Next]_vars
    PROVE  PendingIsQueued'
<1> USE DEF TillInv
<1> SUFFICES ASSUME NEW s \in Sales, s \notin torn', saved'[s] = "pending",
                    ~(till'.step = "enqueue" /\ till'.sale = s)
             PROVE  Queued(SaleJob(s))'
  BY DEF PendingIsQueued
<1>1. saved[s] = "pending"
  <2>1. ASSUME PutSale PROVE till.sale # s
    BY <2>1 DEF PutSale, CheckoutFirst
  <2> QED
    BY <2>1, SalesSaved
<1>2. s \notin torn
  BY NextMovesTill DEF TillMoves, PutSale, EnqueueSale, RemoveItems, Reload
<1>3. CASE till.step = "enqueue" /\ till.sale = s
  <2>1. EnqueueSale
    BY <1>3, NextMovesTill DEF TillMoves, PutSale, EnqueueSale, RemoveItems, Reload
  <2> QED
    BY <1>3, <2>1, SalesQueued
<1>4. CASE ~(till.step = "enqueue" /\ till.sale = s)
  <2>1. Queued(SaleJob(s))
    BY <1>1, <1>2, <1>4 DEF PendingIsQueued
  <2>2. ASSUME NEW f \in Flushers, DeleteJob(f), flusher[f].job = SaleJob(s) PROVE FALSE
    BY <1>1, <2>2, JobFacts DEF DeleteJob, FlusherAt, SettledFirst
  <2> QED
    BY <2>1, <2>2, SalesQueued
<1> QED
  BY <1>3, <1>4

LEMMA InitTillInv == Init => TillInv
<1> SUFFICES ASSUME Init PROVE TillInv
  OBVIOUS
<1>1. queue = <<>> /\ queue \in Seq(Rows) /\ \A job : ~Queued(job)
  BY DEF Init, Queued
<1>2. JobOnce /\ NewestSnapshotQueued
  BY <1>1 DEF Init, JobOnce, NewestSnapshotQueued
<1>3. CheckoutFirst
  BY <1>1, JobFacts DEF Init, Idle, CheckoutFirst, InHand
<1>4. SettledFirst /\ PendingIsQueued
  BY DEF Init, Idle, SettledFirst, PendingIsQueued
<1> QED
  BY <1>2, <1>3, <1>4, InitQueueInv DEF TillInv

THEOREM TillInvariant == Spec => []TillInv
<1>1. TillInv /\ [Next]_vars => TillInv'
  BY StepQueueInv, StepQueue, StepCheckoutFirst, StepSettledFirst, StepPending DEF TillInv
<1> QED
  BY <1>1, InitTillInv, PTL DEF Spec

(* No sale is forgotten: whatever flush loops race over the queue, and     *)
(* however often requests get lost and the page reloads, a pending sale    *)
(* has its job in the queue until it is settled, unless a reload came      *)
(* between the two writes of its checkout.                                 *)
THEOREM PendingSalesAreQueued == Spec => []PendingIsQueued
<1>1. TillInv => PendingIsQueued
  BY DEF TillInv
<1> QED
  BY <1>1, TillInvariant, PTL

(* No job is queued twice, and a cart snapshot that is queued, or put back *)
(* after a failure, is the newest of its cart (enqueueCartUpsert).         *)
THEOREM SnapshotsAreNewest == Spec => []NewestSnapshotQueued
<1>1. TillInv => NewestSnapshotQueued
  BY DEF TillInv
<1> QED
  BY <1>1, TillInvariant, PTL

(* A loop that fails late does not bring back the job of a sale that       *)
(* another loop has settled.                                               *)
THEOREM SettledSalesStayOut == Spec => SettledStaysOut
<1>1. ASSUME TillInv, [Next]_vars, NEW s \in Sales,
             saved[s] \in {"synced", "error"}, ~Queued(SaleJob(s))
      PROVE  ~Queued(SaleJob(s))'
  <2>1. ~(EnqueueSale /\ till.sale = s)
    BY <1>1 DEF EnqueueSale, TillInv, CheckoutFirst
  <2> QED
    BY <1>1, <2>1, SalesQueued
<1> DEFINE Stays == \A s \in Sales :
                      saved[s] \in {"synced", "error"} /\ ~Queued(SaleJob(s)) => ~Queued(SaleJob(s))'
<1>2. TillInv /\ [Next]_vars => [Stays]_vars
  BY <1>1
<1> QED
  BY <1>2, TillInvariant, PTL DEF Spec, SettledStaysOut
===============================================================================
