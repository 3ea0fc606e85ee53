------------------------------ MODULE EdgeOutbox ------------------------------
(***************************************************************************)
(* The outbox of a tenant: backend/src/edge-sync/edge-sync.service.ts,     *)
(* filled by the transaction of a sale and emptied when somebody presses   *)
(* the button on SystemHub.vue, twice at once at that.  The hub may have   *)
(* taken what the answer never tells of; without EDGE_HUB_URL there is     *)
(* none, and a push is a dry run that marks its rows all the same.         *)
(***************************************************************************)
EXTENDS Integers, FiniteSets, SequencesExt

CONSTANTS
    Events,                            \* sales; numbers in the order of the ids of their rows
    Pushers,                           \* requests that push
    BatchLimit, MaxPushes, MaxToggles  \* bounds

ASSUME OutboxAssumption == Events \subseteq Nat /\ {BatchLimit, MaxPushes, MaxToggles} \subseteq Nat

NoPush == [at |-> "idle"]

VARIABLES
    enabled,         \* tenant_settings.edgeSyncEnabled, with the feature on
    hubUrl,          \* EDGE_HUB_URL is set, in the environment of the server
    outbox,          \* edge_sync_outbox, by createdAt
    delivered,       \* rows with a deliveredAt
    waiting,         \* rows whose availableAt has not come
    cursor,          \* edge_sync_cursor of hub.push
    hub,             \* what the hub has
    push,            \* of a request
    pulled,          \* a tool that pulls: its cursor and what it got
    sold,            \* sales there are
    dry,             \* history: rows that a dry run marked
    pushes, toggles  \* bounded

edgeVars == <<enabled, hubUrl, outbox, delivered, waiting, cursor, hub, push, pulled, sold, dry, pushes, toggles>>

Firsts(rows) == [i \in 1..(IF Len(rows) < BatchLimit THEN Len(rows) ELSE BatchLimit) |-> rows[i]]
-------------------------------------------------------------------------------
(* The end of a sale: enqueue, in its transaction.                         *)
Enqueue(s) == outbox' = IF enabled THEN Append(outbox, s) ELSE outbox
Sell(s) ==
    /\ s \notin sold /\ sold' = sold \cup {s}
    /\ Enqueue(s)
    /\ UNCHANGED <<enabled, hubUrl, delivered, waiting, cursor, hub, push, pulled, dry, pushes, toggles>>

SetEnabled ==
    /\ toggles < MaxToggles /\ toggles' = toggles + 1
    /\ enabled' = ~enabled
    /\ UNCHANGED <<hubUrl, outbox, delivered, waiting, cursor, hub, push, pulled, sold, dry, pushes>>

(* The server is started with another environment: its requests are gone.  *)
Redeploy ==
    /\ toggles < MaxToggles /\ toggles' = toggles + 1
    /\ hubUrl' = ~hubUrl /\ push' = [p \in Pushers |-> NoPush]
    /\ UNCHANGED <<enabled, outbox, delivered, waiting, cursor, hub, pulled, sold, dry, pushes>>

Available == SelectSeq(outbox, LAMBDA s : s \notin delivered \cup waiting)
RunEdgePush(p) ==
    /\ push[p] = NoPush /\ pushes < MaxPushes /\ pushes' = pushes + 1
    /\ enabled /\ Available # << >>
    /\ push' = [push EXCEPT ![p] = [at |-> IF hubUrl THEN "sent" ELSE "dry", rows |-> Firsts(Available)]]
    /\ UNCHANGED <<enabled, hubUrl, outbox, delivered, waiting, cursor, hub, pulled, sold, dry, toggles>>

(* The hub takes the batch or refuses it, or cannot be reached; what it    *)
(* answers may not arrive.                                                 *)
HubTakes(p) ==
    /\ push[p].at = "sent"
    /\ hub' = hub \cup ToSet(push[p].rows)
    /\ \E heard \in {"taken", "failed"} : push' = [push EXCEPT ![p].at = heard]
    /\ UNCHANGED <<enabled, hubUrl, outbox, delivered, waiting, cursor, pulled, sold, dry, pushes, toggles>>
HubFails(p) ==
    /\ push[p].at = "sent" /\ push' = [push EXCEPT ![p].at = "failed"]
    /\ UNCHANGED <<enabled, hubUrl, outbox, delivered, waiting, cursor, hub, pulled, sold, dry, pushes, toggles>>

Ended(p) ==
    /\ push' = [push EXCEPT ![p] = NoPush]
    /\ UNCHANGED <<enabled, hubUrl, outbox, hub, pulled, sold, pushes, toggles>>
MarkDelivered(p) ==
    /\ push[p].at \in {"taken", "dry"} /\ Ended(p)
    /\ delivered' = delivered \cup ToSet(push[p].rows)
    /\ cursor' = Last(push[p].rows)
    /\ dry' = IF push[p].at = "dry" THEN dry \cup ToSet(push[p].rows) ELSE dry
    /\ UNCHANGED waiting
PutOffAsDelivered(p) ==        \* Mutant: a refused batch is marked as well.
    /\ push[p].at = "failed" /\ Ended(p)
    /\ delivered' = delivered \cup ToSet(push[p].rows) /\ UNCHANGED <<cursor, waiting, dry>>
PutOff(p) ==
    /\ push[p].at = "failed" /\ Ended(p)
    /\ waiting' = waiting \cup ToSet(push[p].rows)
    /\ UNCHANGED <<delivered, cursor, dry>>
(* A hub that takes longer than the transaction may: nothing is written.   *)
TransactionGone(p) == push[p] # NoPush /\ Ended(p) /\ UNCHANGED <<delivered, cursor, waiting, dry>>

Backoff(s) ==
    /\ s \in waiting /\ waiting' = waiting \ {s}
    /\ UNCHANGED <<enabled, hubUrl, outbox, delivered, cursor, hub, push, pulled, sold, dry, pushes, toggles>>

(* pull: by createdAt, behind the id of the last row that was returned.    *)
Pull ==
    LET rows == Firsts(SelectSeq(outbox, LAMBDA s : s > pulled.cursor)) IN
    /\ rows # << >>
    /\ pulled' = [cursor |-> Last(rows), got |-> pulled.got \cup ToSet(rows)]
    /\ UNCHANGED <<enabled, hubUrl, outbox, delivered, waiting, cursor, hub, push, sold, dry, pushes, toggles>>
-------------------------------------------------------------------------------
EdgeInit ==
    /\ enabled \in BOOLEAN /\ hubUrl \in BOOLEAN /\ outbox = << >> /\ delivered = {} /\ waiting = {} /\ cursor = 0
    /\ hub = {} /\ push = [p \in Pushers |-> NoPush] /\ pulled = [cursor |-> 0, got |-> {}]
    /\ sold = {} /\ dry = {} /\ pushes = 0 /\ toggles = 0

EdgeNext ==
    \/ SetEnabled \/ Redeploy \/ Pull
    \/ \E s \in Events : Sell(s) \/ Backoff(s)
    \/ \E p \in Pushers :
          RunEdgePush(p) \/ HubTakes(p) \/ HubFails(p) \/ MarkDelivered(p) \/ PutOff(p) \/ TransactionGone(p)

EdgeSpec == EdgeInit /\ [][EdgeNext]_edgeVars
-------------------------------------------------------------------------------
(* No row is taken off the outbox before the hub has it, with pushes at    *)
(* once, lost answers, transactions that end before the hub does and       *)
(* servers that are replaced ("durable outbox"); the rows of a dry run,    *)
(* which nobody has, are all that is missing.                              *)
DeliveredIsHad == delivered \subseteq hub \cup dry

(* Refuted by hand: the hub has what a dry run marked once it is set up,   *)
(* and a tool that pulls until nothing is left has all of it.              *)
HubHasAll == hubUrl => delivered \subseteq hub
PullsAll == SelectSeq(outbox, LAMBDA s : s > pulled.cursor) = << >> => ToSet(outbox) \subseteq pulled.got
=============================================================================
