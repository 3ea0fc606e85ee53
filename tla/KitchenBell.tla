------------------------------ MODULE KitchenBell ------------------------------
(***************************************************************************)
(* The bell of the kitchen (frontend/src/stores/kitchen-notify.store.ts):  *)
(* every few seconds it asks for the tickets of the store the device is    *)
(* in, counts those PENDING and rings for the ones it did not know.        *)
(* Answers may overtake each other, and a device may change its store      *)
(* while one is on its way.  Dishes move as in KitchenOrders.              *)
(***************************************************************************)
EXTENDS Integers, FiniteSets

CONSTANTS Outlets, Dishes, Outlet,   \* the store of each dish
          MaxAsked                   \* bound: answers on their way

ASSUME BellAssumption == Outlet \in [Dishes -> Outlets] /\ MaxAsked \in Nat

SignedOut == "nowhere"

VARIABLES
    dish,               \* "none", "PENDING", "taken" or "gone"
    scope,              \* activeScopeKey
    asked,              \* polls under way, unanswered: the store asked about
    answered,           \* and answered: [from, lines, pending]
    knownLines, primed, \* knownLineIds
    pendingCount,
    unseen, viewing,    \* unseenCount > 0; the page of the kitchen is open
    rung, silent        \* history: dishes that rang; dishes primed with

counters == <<knownLines, primed, pendingCount, unseen>>
bellVars == <<dish, scope, asked, answered, counters, viewing, rung, silent>>
-------------------------------------------------------------------------------
Move(d, from, to) ==
    /\ dish[d] = from /\ dish' = [dish EXCEPT ![d] = to]
    /\ UNCHANGED <<scope, asked, answered, counters, viewing, rung, silent>>

Reset ==
    /\ knownLines' = {} /\ primed' = FALSE /\ pendingCount' = 0 /\ unseen' = FALSE

(* bindAuthWatch: start() begins anew and asks at once, stop() forgets.    *)
(* What is on its way comes all the same.                                  *)
MayAsk == Cardinality(asked) + Cardinality(answered) < MaxAsked
Enter(s) ==
    /\ s # scope /\ scope' = s /\ Reset
    /\ IF s # SignedOut /\ MayAsk THEN asked' = asked \cup {s} ELSE UNCHANGED asked
    /\ UNCHANGED <<dish, answered, viewing, rung, silent>>

PollTickets ==
    /\ scope # SignedOut /\ MayAsk /\ asked' = asked \cup {scope}
    /\ UNCHANGED <<dish, scope, answered, counters, viewing, rung, silent>>

(* listActiveTickets of that store; or the request fails.                  *)
Active(s) == {d \in Dishes : Outlet[d] = s /\ dish[d] \in {"PENDING", "taken"}}
ReplyTickets(s) ==
    /\ s \in asked /\ asked' = asked \ {s}
    /\ answered' \in {answered, answered \cup
           {[from |-> s, lines |-> Active(s), pending |-> {d \in Active(s) : dish[d] = "PENDING"}]}}
    /\ UNCHANGED <<dish, scope, counters, viewing, rung, silent>>

(* Mutant: what has just come is known before it is compared.              *)
HearKnown(a) ==
    /\ answered' = answered \ {a}
    /\ pendingCount' = Cardinality(a.pending)
    /\ knownLines' = a.lines /\ primed' = TRUE
    /\ LET fresh == IF primed THEN a.pending \ knownLines' ELSE {} IN
       /\ rung' = rung \cup fresh
       /\ unseen' = (unseen \/ (fresh # {} /\ ~viewing))
    /\ silent' = IF primed THEN silent ELSE silent \cup a.lines
    /\ UNCHANGED <<dish, scope, asked, viewing>>

(* The store is compared with the one asked about, not with where the      *)
(* device is by now.                                                       *)
Hear(a) ==
    /\ answered' = answered \ {a}
    /\ pendingCount' = Cardinality(a.pending)
    /\ knownLines' = a.lines /\ primed' = TRUE
    /\ LET fresh == IF primed THEN a.pending \ knownLines ELSE {} IN
       /\ rung' = rung \cup fresh
       /\ unseen' = (unseen \/ (fresh # {} /\ ~viewing))
    /\ silent' = IF primed THEN silent ELSE silent \cup a.lines
    /\ UNCHANGED <<dish, scope, asked, viewing>>

MarkViewing ==
    /\ viewing' = ~viewing /\ unseen' = (unseen /\ viewing)
    /\ UNCHANGED <<dish, scope, asked, answered, knownLines, primed, pendingCount, rung, silent>>

BellInit ==
    /\ dish = [d \in Dishes |-> "none"] /\ scope = SignedOut
    /\ asked = {} /\ answered = {} /\ knownLines = {} /\ primed = FALSE
    /\ pendingCount = 0 /\ unseen = FALSE /\ viewing = FALSE
    /\ rung = {} /\ silent = {}

BellNext ==
    \/ \E d \in Dishes : \/ Move(d, "none", "PENDING") \/ Move(d, "PENDING", "taken")
                         \/ Move(d, "taken", "gone")
    \/ \E s \in Outlets \cup {SignedOut} : Enter(s)
    \/ PollTickets \/ \E s \in Outlets : ReplyTickets(s)
    \/ \E a \in answered : Hear(a)
    \/ MarkViewing

(* setInterval goes on asking, and a request is answered or fails; one of  *)
(* many that ask about a store is answered.                                *)
Answers(s) == ReplyTickets(s) /\ answered' # answered
BellFairness ==
    /\ WF_bellVars(PollTickets)
    /\ \A s \in Outlets : WF_bellVars(ReplyTickets(s)) /\ SF_bellVars(Answers(s))
    /\ WF_bellVars(\E a \in answered : Hear(a)) /\ SF_bellVars(\E a \in answered : a.from = scope /\ Hear(a))
BellSpec == BellInit /\ [][BellNext]_bellVars /\ BellFairness
-------------------------------------------------------------------------------
(* A dish fired in a store where the bell is on rings there, unless it was *)
(* there when the bell was switched on, is taken up before, or the device  *)
(* leaves the store; answers that come late or out of order lose none.     *)
BellRings ==
    \A d \in Dishes :
        dish[d] = "PENDING" /\ scope = Outlet[d] ~> d \in rung \cup silent \/ dish[d] # "PENDING" \/ scope # Outlet[d]

(* Refuted: "Scoped strictly to the active tenant + store (never           *)
(* cross-outlet)" (kitchen-notify.store.ts:9).  An answer that was on its  *)
(* way when the store changed is counted in the other store.               *)
NeverCrossOutlet ==
    pendingCount > 0 => \E d \in Dishes : Outlet[d] = scope /\ dish[d] # "none"
===============================================================================
