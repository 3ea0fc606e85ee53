----------------------------- MODULE OfflineQueue -----------------------------
(***************************************************************************)
(* The till: checkout (frontend/src/stores/sync.store.ts), the persistent  *)
(* sync queue in IndexedDB and the flush loops that drain it               *)
(* (frontend/src/services/pos-sync.service.ts), over a network that loses  *)
(* requests and replies and delays requests, against the sale ledger.      *)
(*                                                                         *)
(* Every `await` is a point where other code runs: each IndexedDB call and *)
(* each POST is a step of its own.  Nothing keeps two flush loops apart    *)
(* (the `online` event, the service worker's message and the end of a      *)
(* checkout each start one, and every tab has its own), so there are       *)
(* several Flushers.  Closing the tab loses what is in memory.             *)
(*                                                                         *)
(* The server is SaleLedger, which SaleSync is proved to implement: a sale *)
(* is looked up first and accepted, in one step, some time later.          *)
(***************************************************************************)
EXTENDS SaleLedger, Sequences

CONSTANTS
    Flushers,     \* flush loops that may run at the same time
    Nobody,       \* a request whose sender gave up or is gone
    Partial,      \* sales of one guest, which leave items on the cart
    BatchSize,    \* jobs one call of flushSyncQueue handles (8)
    MaxEdits,     \* bound: edits of one cart
    MaxLate,      \* bound: requests that outlive their sender
    MaxCrashes    \* bound: reloads of the page

ASSUME QueueAssumption ==
    /\ Nobody \notin Flushers
    /\ Partial \subseteq Sales
    /\ BatchSize \in Nat \ {0}
    /\ MaxEdits \in Nat
    /\ MaxLate \in Nat
    /\ MaxCrashes \in Nat

VARIABLES
    saved,      \* posDb.sales: syncStatus of each sale, "none" before checkout
    localCart,  \* posDb.carts: status of each cart
    rev,        \* how often a cart snapshot was taken
    queue,      \* posDb.syncQueue in the order of createdAt
    till,       \* the checkout in progress
    flusher,    \* the flush loops
    online,     \* navigator.onLine
    net,        \* POSTs on their way or being handled
    serverCart, \* carts.status on the server
    crashes,
    torn        \* history: sales whose checkout a crash cut short

tillVars == <<saved, localCart, rev, queue, till>>
vars == <<ledgerVars, tillVars, flusher, online, net, serverCart, crashes, torn>>

Carts       == {CartOf[s] : s \in Sales}
SaleJob(s)  == [type |-> "sale.sync", of |-> s, rev |-> 0]
CartJob(c, n) == [type |-> "cart.upsert", of |-> c, rev |-> n]
SaleJobs    == {SaleJob(s) : s \in Sales}
CartJobs    == {CartJob(c, n) : c \in Carts, n \in 1 .. MaxEdits + Cardinality(Partial)}
Jobs        == SaleJobs \cup CartJobs
NoJob       == [type |-> "none"]
IsSale(job) == job.type = "sale.sync"

Queued(job)     == \E i \in DOMAIN queue : queue[i] = job

(* The queue when the rows of some jobs are deleted.                       *)
Without(q, jobs) ==
    LET kept[i \in 0 .. Len(q)] ==
          IF i = 0 THEN <<>>
          ELSE IF q[i] \in jobs THEN kept[i - 1] ELSE Append(kept[i - 1], q[i])
    IN  kept[Len(q)]

SnapshotsOf(c) == {job \in {queue[i] : i \in DOMAIN queue} : job.type = "cart.upsert" /\ job.of = c}

-------------------------------------------------------------------------------
(* Mutant: no deduplication.                                               *)
EnqueueCartAgain(c) ==
    /\ rev' = [rev EXCEPT ![c] = @ + 1]
    /\ queue' = Append(queue, CartJob(c, rev[c] + 1))

(* enqueueCartUpsert: the new snapshot replaces a queued one of its cart.  *)
EnqueueCart(c) ==
    /\ rev' = [rev EXCEPT ![c] = @ + 1]
    /\ queue' = Append(Without(queue, SnapshotsOf(c)), CartJob(c, rev[c] + 1))

(* An edit of an open cart: persist and queueCartSnapshot.                 *)
EditCart(c) ==
    /\ till.step = "idle"
    /\ localCart[c] = "OPEN"
    /\ rev[c] < MaxEdits
    /\ EnqueueCart(c)
    /\ UNCHANGED <<ledgerVars, saved, localCart, till, flusher, online, net, serverCart,
                   crashes, torn>>

(* checkout: a full checkout closes the cart and persists that first ...   *)
BeginCheckout(s) ==
    /\ till.step = "idle"
    /\ saved[s] = "none"
    /\ s \notin torn
    /\ localCart[CartOf[s]] = "OPEN"
    /\ localCart' = IF s \in Partial THEN localCart
                    ELSE [localCart EXCEPT ![CartOf[s]] = "CHECKED_OUT"]
    /\ till' = [step |-> "put", sale |-> s]
    /\ UNCHANGED <<ledgerVars, saved, rev, queue, flusher, online, net, serverCart, crashes, torn>>

(* ... then stores the sale ...                                            *)
PutSale ==
    /\ till.step = "put"
    /\ saved' = [saved EXCEPT ![till.sale] = "pending"]
    /\ till' = [till EXCEPT !.step = "enqueue"]
    /\ UNCHANGED <<ledgerVars, localCart, rev, queue, flusher, online, net, serverCart,
                   crashes, torn>>

(* ... then queues it; a guest's items are taken off the cart at the end.  *)
EnqueueSale ==
    /\ till.step = "enqueue"
    /\ queue' = Append(queue, SaleJob(till.sale))
    /\ till' = [till EXCEPT !.step = IF till.sale \in Partial THEN "trim" ELSE "idle"]
    /\ UNCHANGED <<ledgerVars, saved, localCart, rev, flusher, online, net, serverCart,
                   crashes, torn>>

RemoveItems ==
    /\ till.step = "trim"
    /\ EnqueueCart(CartOf[till.sale])
    /\ till' = [till EXCEPT !.step = "idle"]
    /\ UNCHANGED <<ledgerVars, saved, localCart, flusher, online, net, serverCart,
                   crashes, torn>>

-------------------------------------------------------------------------------
(* flushSyncQueue.                                                         *)
FlusherAt(f, step) == flusher[f].step = step

Advance(f, step) == flusher' = [flusher EXCEPT ![f].step = step]

Idle == [step |-> "idle", job |-> NoJob, answer |-> "none", processed |-> 0]

StartFlush(f) ==
    /\ FlusherAt(f, "idle")
    /\ online
    /\ queue # <<>>
    /\ flusher' = [flusher EXCEPT ![f].step = "pick", ![f].processed = 0]
    /\ UNCHANGED <<ledgerVars, tillVars, online, net, serverCart, crashes, torn>>

(* Mutant: a pass has no end.                                              *)
PostForever(f) ==
    /\ FlusherAt(f, "pick")
    /\ online
    /\ queue # <<>>
    /\ flusher' = [flusher EXCEPT ![f].step = "wait", ![f].job = Head(queue),
                                  ![f].processed = @ + 1]
    /\ net' = net \cup {[job |-> Head(queue), stage |-> "sent", to |-> f]}
    /\ UNCHANGED <<ledgerVars, tillVars, online, serverCart, crashes, torn>>

(* The oldest job is posted, and stays in the queue meanwhile.             *)
PostFirst(f) ==
    /\ FlusherAt(f, "pick")
    /\ online
    /\ flusher[f].processed < BatchSize
    /\ queue # <<>>
    /\ flusher' = [flusher EXCEPT ![f].step = "wait", ![f].job = Head(queue),
                                  ![f].processed = @ + 1]
    /\ net' = net \cup {[job |-> Head(queue), stage |-> "sent", to |-> f]}
    /\ UNCHANGED <<ledgerVars, tillVars, online, serverCart, crashes, torn>>

EndFlush(f) ==
    /\ FlusherAt(f, "pick")
    /\ ~online \/ flusher[f].processed >= BatchSize \/ queue = <<>>
    /\ flusher' = [flusher EXCEPT ![f] = Idle]
    /\ UNCHANGED <<ledgerVars, tillVars, online, net, serverCart, crashes, torn>>

(* fetch rejects.  The request may be lost, or still reach the server.     *)
NetworkError(f) ==
    /\ FlusherAt(f, "wait")
    /\ ~online
    /\ \E m \in net :
         /\ m.to = f
         /\ \/ net' = net \ {m}
            \/ /\ Cardinality({l \in net : l.to = Nobody}) < MaxLate
               /\ net' = (net \ {m}) \cup {[m EXCEPT !.to = Nobody]}
    /\ flusher' = [flusher EXCEPT ![f].step = "settle", ![f].answer = "offline"]
    /\ UNCHANGED <<ledgerVars, tillVars, online, serverCart, crashes, torn>>

(* The answer decides what becomes of the sale ...                         *)
AlwaysSynced(answer) == "synced"   \* mutant: a dropped job counts as sent

Verdict(answer) == IF answer = "ok" THEN "synced" ELSE "error"

Settle(f) ==
    /\ FlusherAt(f, "settle")
    /\ flusher[f].answer \in {"ok", "conflict", "client_error"}
    /\ saved' = IF IsSale(flusher[f].job)
                THEN [saved EXCEPT ![flusher[f].job.of] = Verdict(flusher[f].answer)]
                ELSE saved
    /\ Advance(f, "delete")
    /\ UNCHANGED <<ledgerVars, localCart, rev, queue, till, online, net, serverCart,
                   crashes, torn>>

(* ... and the job is deleted, in a second IndexedDB transaction.          *)
DeleteJob(f) ==
    /\ FlusherAt(f, "delete")
    /\ queue' = Without(queue, {flusher[f].job})
    /\ Advance(f, "pick")
    /\ UNCHANGED <<ledgerVars, saved, localCart, rev, till, online, net, serverCart,
                   crashes, torn>>

(* Mutants: the failed job keeps its createdAt; it is dropped; it is put   *)
(* back even if another loop has settled and deleted it (put, not update). *)
RetryAtOnce(f) ==
    /\ FlusherAt(f, "settle")
    /\ flusher[f].answer \in {"server_error", "offline"}
    /\ flusher' = [flusher EXCEPT ![f] =
                      IF @.answer = "offline" THEN Idle ELSE [@ EXCEPT !.step = "pick"]]
    /\ UNCHANGED <<ledgerVars, tillVars, online, net, serverCart, crashes, torn>>

RetryNever(f) ==
    /\ FlusherAt(f, "settle")
    /\ flusher[f].answer \in {"server_error", "offline"}
    /\ queue' = Without(queue, {flusher[f].job})
    /\ flusher' = [flusher EXCEPT ![f] = Idle]
    /\ UNCHANGED <<ledgerVars, saved, localCart, rev, till, online, net, serverCart,
                   crashes, torn>>

(* Any other failure: a later createdAt sends the job to the back, unless  *)
(* it was deleted in the meantime; a network error ends the loop.          *)
RetryLater(f) ==
    /\ FlusherAt(f, "settle")
    /\ flusher[f].answer \in {"server_error", "offline"}
    /\ queue' = IF Queued(flusher[f].job)
                THEN Append(Without(queue, {flusher[f].job}), flusher[f].job) ELSE queue
    /\ flusher' = [flusher EXCEPT ![f] =
                      IF @.answer = "offline" THEN Idle ELSE [@ EXCEPT !.step = "pick"]]
    /\ UNCHANGED <<ledgerVars, saved, localCart, rev, till, online, net, serverCart,
                   crashes, torn>>

-------------------------------------------------------------------------------
(* The server.  A reply reaches the loop that still waits for it.          *)
Reply(m, answer) ==
    /\ net' = net \ {m}
    /\ flusher' = IF m.to = Nobody THEN flusher
                  ELSE [flusher EXCEPT ![m.to].step = "settle", ![m.to].answer = answer]

LookUpSale(m) ==
    /\ IsSale(m.job)
    /\ m.stage = "sent"
    /\ IF m.job.of \in sold
       THEN Reply(m, "ok")
       ELSE /\ net' = (net \ {m}) \cup {[m EXCEPT !.stage = "new"]}
            /\ UNCHANGED flusher
    /\ UNCHANGED <<ledgerVars, tillVars, online, serverCart, crashes, torn>>

IngestSale(m, answer) ==
    /\ IsSale(m.job)
    /\ m.stage = "new"
    /\ Accept(m.job.of)
    /\ serverCart' = [serverCart EXCEPT ![CartOf[m.job.of]] = "CHECKED_OUT"]
    /\ Reply(m, answer)
    /\ UNCHANGED <<tillVars, online, crashes, torn>>

(* 409 from the stock check; 4xx for stale prices and the like; 500 for a  *)
(* unique violation, a time-out or a deadlock; 401 after a long absence.   *)
RefuseSale(m, answer) ==
    /\ IsSale(m.job)
    /\ m.stage = "new"
    /\ answer = "conflict" => ~StockCovers(m.job.of)
    /\ Reply(m, answer)
    /\ UNCHANGED <<ledgerVars, tillVars, online, serverCart, crashes, torn>>

(* upsertCart: an OPEN snapshot reopens a cart that is not OPEN; whether a *)
(* stale one changes an OPEN cart is CartSync's business.                  *)
IngestCart(m) ==
    /\ ~IsSale(m.job)
    /\ serverCart' = [serverCart EXCEPT ![m.job.of] = "OPEN"]
    /\ Reply(m, "ok")
    /\ UNCHANGED <<ledgerVars, tillVars, online, crashes, torn>>

RefuseCart(m, answer) ==
    /\ ~IsSale(m.job)
    /\ Reply(m, answer)
    /\ UNCHANGED <<ledgerVars, tillVars, online, serverCart, crashes, torn>>

-------------------------------------------------------------------------------
(* The network comes and goes; the page is closed and opened again, which  *)
(* leaves IndexedDB and the requests the server already has.               *)
Network ==
    /\ online' = ~online
    /\ UNCHANGED <<ledgerVars, tillVars, flusher, net, serverCart, crashes, torn>>

Reload ==
    /\ crashes < MaxCrashes
    /\ crashes' = crashes + 1
    /\ flusher' = [f \in Flushers |-> Idle]
    /\ \E late \in SUBSET net :
         /\ Cardinality(late) <= MaxLate
         /\ net' = {[m EXCEPT !.to = Nobody] : m \in late}
    /\ till' = [till EXCEPT !.step = "idle"]
    /\ torn' = IF till.step \in {"put", "enqueue"} THEN torn \cup {till.sale} ELSE torn
    /\ UNCHANGED <<ledgerVars, saved, localCart, rev, queue, online, serverCart>>

-------------------------------------------------------------------------------
Init ==
    /\ LedgerInit
    /\ saved = [s \in Sales |-> "none"]
    /\ localCart = [c \in Carts |-> "OPEN"]
    /\ rev = [c \in Carts |-> 0]
    /\ queue = <<>>
    /\ till = [step |-> "idle", sale |-> CHOOSE s \in Sales : TRUE]
    /\ flusher = [f \in Flushers |-> Idle]
    /\ online \in BOOLEAN
    /\ net = {}
    /\ serverCart = [c \in Carts |-> "none"]
    /\ crashes = 0
    /\ torn = {}

Checkout ==
    \/ \E c \in Carts : EditCart(c)
    \/ \E s \in Sales : BeginCheckout(s)
    \/ PutSale \/ EnqueueSale \/ RemoveItems

Flush(f) == StartFlush(f) \/ PostFirst(f) \/ EndFlush(f) \/ Settle(f) \/ DeleteJob(f) \/ RetryLater(f)

Serve(m) ==
    \/ LookUpSale(m)
    \/ \E answer \in {"ok", "server_error"} : IngestSale(m, answer)
    \/ \E answer \in {"conflict", "client_error", "server_error"} : RefuseSale(m, answer)
    \/ IngestCart(m)
    \/ \E answer \in {"client_error", "server_error"} : RefuseCart(m, answer)

Next ==
    \/ Checkout
    \/ \E f \in Flushers : Flush(f) \/ NetworkError(f)
    \/ \E m \in net : Serve(m)
    \/ Network \/ Reload

Spec == Init /\ [][Next]_vars

(* The loops run whenever they can: Background Sync asks for a new flush   *)
(* as long as jobs are left.  The server looks at every request, and does  *)
(* not fail for passing reasons (time-outs, deadlocks) on every attempt.   *)
Decide(s) ==
    \E m \in net :
        /\ m.job = SaleJob(s)
        /\ (s \in sold /\ LookUpSale(m)) \/ IngestSale(m, "ok") \/ RefuseSale(m, "conflict")

Fairness ==
    /\ \A f \in Flushers : WF_vars(Flush(f))
    /\ WF_vars(\E m \in net : Serve(m))
    /\ \A s \in Sales : SF_vars(Decide(s))

FairSpec == Spec /\ Fairness
-------------------------------------------------------------------------------
TypeOK ==
    /\ LedgerTypeOK
    /\ saved \in [Sales -> {"none", "pending", "synced", "error"}]
    /\ localCart \in [Carts -> {"OPEN", "CHECKED_OUT"}]
    /\ rev \in [Carts -> Nat]
    /\ queue \in Seq(Jobs)
    /\ till \in [step : {"idle", "put", "enqueue", "trim"}, sale : Sales]
    /\ flusher \in [Flushers ->
           [step : {"idle", "pick", "wait", "settle", "delete"}, job : Jobs \cup {NoJob},
            answer : {"none", "ok", "conflict", "client_error", "server_error", "offline"},
            processed : 0 .. BatchSize]]
    /\ online \in BOOLEAN
    /\ net \subseteq [job : Jobs, stage : {"sent", "new"}, to : Flushers \cup {Nobody}]
    /\ serverCart \in [Carts -> {"none", "OPEN", "CHECKED_OUT"}]
    /\ crashes \in 0 .. MaxCrashes
    /\ torn \subseteq Sales

(* The till forgets a sale ("synced" rows are pruned after a week, the job *)
(* is deleted at once) only when the server has it.                        *)
SyncedMeansSold == \A s \in Sales : saved[s] = "synced" => s \in sold

(* No sale is forgotten: until it is settled there is a job for it, also   *)
(* while loops race, requests get lost and the page reloads.  Except for a *)
(* reload between sales.put and the enqueue, which leaves the sale pending *)
(* for ever: nothing scans posDb.sales for pending rows.                   *)
PendingIsQueued ==
    \A s \in Sales \ torn :
        saved[s] = "pending" /\ ~(till.step = "enqueue" /\ till.sale = s) => Queued(SaleJob(s))

(* A job is in the queue once, and a queued cart snapshot is the newest of *)
(* its cart: a failed older one that comes back never overtakes it.        *)
NewestSnapshotQueued ==
    \A i, j \in DOMAIN queue :
        /\ queue[i] = queue[j] => i = j
        /\ ~IsSale(queue[i]) => queue[i].rev = rev[queue[i].of]

(* Why these hold.  A sale has no job before its checkout writes one, and   *)
(* a loop deletes the job of a sale only after it has settled the sale.    *)
Rows == SaleJobs \cup [type : {"cart.upsert"}, of : Carts, rev : Nat]

JobOnce ==
    /\ queue \in Seq(Rows)
    /\ rev \in [Carts -> Nat]

InHand(s) == Queued(SaleJob(s)) \/ \E f \in Flushers : flusher[f].job = SaleJob(s)

CheckoutFirst ==
    /\ till = [step |-> till.step, sale |-> till.sale]
    /\ till.step # "idle" => till.sale \in Sales
    /\ till.step = "put" => saved[till.sale] = "none"
    /\ till.step = "enqueue" => saved[till.sale] = "pending"
    /\ \A s \in Sales : saved[s] = "none" \/ (till.step = "enqueue" /\ till.sale = s) => ~InHand(s)

SettledFirst ==
    \A f \in Flushers :
        /\ flusher[f].step \in {"wait", "settle", "delete"} => flusher[f].job \in Rows
        /\ flusher[f].step = "delete" /\ IsSale(flusher[f].job)
              => saved[flusher[f].job.of] \in {"synced", "error"}

(* A job that one loop has settled and deleted is not brought back by      *)
(* another loop whose request for it fails later.                          *)
SettledStaysOut ==
    [][\A s \in Sales :
         saved[s] \in {"synced", "error"} /\ ~Queued(SaleJob(s)) => ~Queued(SaleJob(s))']_vars

(* No head-of-line blocking: once the till stays online, every queued sale *)
(* gets settled, even if another one fails for ever (a second guest's sale *)
(* of the same cart does, see SaleSync!EachGuestCanPay).                   *)
OthersAreSettled ==
    <>[]online => \A s \in Sales :
                     Queued(SaleJob(s)) ~> (~Queued(SaleJob(s)) \/ (CartTaken(s) /\ s \notin sold))

-------------------------------------------------------------------------------
(* What comments say, and the code does not do.                            *)

(* "Checkout writes the sale to IndexedDB first": a cart that is checked   *)
(* out has its sale on disk.                                               *)
SaleWrittenFirst ==
    \A c \in Carts : localCart[c] = "CHECKED_OUT" /\ till.step = "idle"
                        => \E s \in Sales : CartOf[s] = c /\ saved[s] # "none"

(* "CHECKED_OUT from sale sync always wins": no snapshot reopens the cart  *)
(* of a sale.                                                              *)
CheckedOutWins ==
    [][\A c \in Carts : serverCart[c] = "CHECKED_OUT" => serverCart'[c] = "CHECKED_OUT"]_vars

(* "Sale UUID idempotency is enforced server-side": a sale that is sent    *)
(* twice is not reported as failed while it is in the books.               *)
ResendIsHarmless == \A s \in Sales : saved[s] = "error" => s \notin sold
===============================================================================
