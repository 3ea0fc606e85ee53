------------------------------- MODULE QrisCharge -------------------------------
(***************************************************************************)
(* A QRIS payment: the charge on the server (backend/src/payments/         *)
(* payments.service.ts), the gateway behind it, and the till that shows    *)
(* the code, polls and unlocks the sale (frontend/src/components/          *)
(* QrisPayPanel.vue, CheckoutPanel.vue).  Requests and replies travel and  *)
(* may overtake each other; a refresh reads the charge, asks the gateway   *)
(* and only then writes; webhooks are sent again until one is answered.    *)
(* The gateway decides each charge once.  Time is the moment a charge's    *)
(* expiresAt passes.                                                       *)
(***************************************************************************)
EXTENDS Integers, FiniteSets

CONSTANTS
    MaxCharges,  \* bound: the charges one checkout may create
    MaxPolls,    \* bound: refreshes at work or answered, not yet seen
    Payables,    \* what there may be to pay, the tip included
    LocalQris    \* no gateway: the cashier confirms by hand

ASSUME QrisAssumption ==
    /\ MaxCharges \in Nat /\ MaxPolls \in Nat /\ Payables \subseteq Nat \ {0} /\ LocalQris \subseteq BOOLEAN

Charges == 1 .. MaxCharges
NoCharge == 0

VARIABLES
    localQris,              \* getProvider() = LOCAL_QRIS
    charge, amount,         \* payment_charges.status and amount_in_cents
    due,                    \* charges whose expiresAt has passed
    refresh,                \* [charge, to]: refreshes about to write
    outcome, hooks,         \* the gateway: its verdicts, webhooks to deliver
    payable, mounted,       \* what is to pay; the panel is on the screen
    creating, replies,      \* createQrisCharge on its way and on its way back
    onPanel, answers,       \* charge.value; replies to polls on their way back
    paidWith,               \* qrisChargeId
    qrisSale,               \* the sale that was confirmed
    raced, stale            \* history, see Raced and Stale

chargeServer == <<charge, amount, due, refresh>>
gateway == <<outcome, hooks>>
panel == <<payable, mounted, creating, onPanel, paidWith, qrisSale>>
qrisVars == <<localQris, chargeServer, gateway, panel, replies, answers, raced, stale>>

Undecided == [charge |-> NoCharge, amount |-> 0]
-------------------------------------------------------------------------------
(* bootstrap: forget the charge shown and ask for a new one.               *)
Asked == Cardinality({c \in Charges : charge[c] # "none"}) + Cardinality(creating)
Bootstrap(n) ==
    /\ Asked < MaxCharges
    /\ onPanel' = NoCharge
    /\ creating' = creating \cup {[charge |-> Asked + 1, amount |-> n]}

(* The panel appears for QRIS, or is told of another sum.                  *)
OpenPanel ==
    /\ ~mounted /\ qrisSale = Undecided
    /\ mounted' = TRUE /\ Bootstrap(payable)
    /\ UNCHANGED <<localQris, chargeServer, gateway, payable, paidWith, qrisSale, replies, answers, raced, stale>>

(* Another method or tender mode: qrisChargeId is forgotten.               *)
SwitchMethod ==
    /\ mounted /\ mounted' = FALSE
    /\ paidWith' = NoCharge /\ onPanel' = NoCharge
    /\ UNCHANGED <<localQris, chargeServer, gateway, payable, creating, qrisSale, replies, answers, raced, stale>>

(* A change of the cart resets qrisChargeId, a change of the tip or of the *)
(* cash part does not (CheckoutPanel.vue:50-74).                           *)
Stale(yes) == stale' = (stale \/ yes)
ChangeTotal(n) ==
    /\ n # payable /\ payable' = n /\ qrisSale = Undecided
    /\ paidWith' = NoCharge
    /\ IF mounted THEN Bootstrap(n) ELSE UNCHANGED <<onPanel, creating>>
    /\ UNCHANGED <<localQris, chargeServer, gateway, mounted, qrisSale, replies, answers, raced, stale>>
ChangeTip(n) ==
    /\ n # payable /\ payable' = n /\ qrisSale = Undecided
    /\ IF mounted THEN Bootstrap(n) ELSE UNCHANGED <<onPanel, creating>>
    /\ Stale(paidWith # NoCharge)
    /\ UNCHANGED <<localQris, chargeServer, gateway, mounted, paidWith, qrisSale, replies, answers, raced>>

CreateQrisCharge(p) ==
    /\ creating' = creating \ {p}
    /\ charge' = [charge EXCEPT ![p.charge] = "PENDING"]
    /\ amount' = [amount EXCEPT ![p.charge] = p.amount]
    /\ replies' = replies \cup {p.charge}
    /\ UNCHANGED <<localQris, due, refresh, gateway, payable, mounted, onPanel, paidWith, qrisSale, answers, raced, stale>>

(* charge.value = created, whatever has been asked for since.              *)
ShowCharge(c) ==
    /\ c \in replies /\ replies' = replies \ {c}
    /\ onPanel' = IF mounted THEN c ELSE onPanel
    /\ Stale(mounted /\ amount[c] # payable)
    /\ UNCHANGED <<localQris, chargeServer, gateway, payable, mounted, creating, paidWith, qrisSale, answers, raced>>

LoseReply(c) ==
    /\ c \in replies /\ replies' = replies \ {c}
    /\ UNCHANGED <<localQris, chargeServer, gateway, panel, answers, raced, stale>>
-------------------------------------------------------------------------------
(* The customer scans what is shown; the gateway decides and tells.        *)
Decide(c, verdict) ==
    /\ outcome[c] = "open" /\ outcome' = [outcome EXCEPT ![c] = verdict]
    /\ hooks' = IF localQris THEN hooks ELSE hooks \cup {c}
Pay == onPanel # NoCharge /\ Decide(onPanel, "settled")
Lapse(c) == charge[c] # "none" /\ ~localQris /\ \E v \in {"expired", "denied"} : Decide(c, v)
Customer ==
    /\ Pay \/ \E c \in Charges : Lapse(c)
    /\ UNCHANGED <<localQris, chargeServer, panel, replies, answers, raced, stale>>

Verdict == [open |-> "PENDING", settled |-> "PAID", expired |-> "EXPIRED", denied |-> "FAILED"]

(* A webhook overwrites whatever the charge says; its answer may be lost.  *)
Raced(c) == raced' = (raced \/ \E w \in refresh : w.charge = c)
(* Mutant: a webhook only moves a charge that is PENDING.                  *)
WebhookOnPending(c) ==
    /\ c \in hooks /\ hooks' = hooks \ {c}
    /\ charge' = [charge EXCEPT ![c] = IF @ = "PENDING" THEN Verdict[outcome[c]] ELSE @]
    /\ Raced(c)
    /\ UNCHANGED <<localQris, amount, due, refresh, outcome, panel, replies, answers, stale>>

Webhook(c) ==
    /\ c \in hooks /\ hooks' \in {hooks, hooks \ {c}}
    /\ charge' = [charge EXCEPT ![c] = Verdict[outcome[c]]]
    /\ Raced(c)
    /\ UNCHANGED <<localQris, amount, due, refresh, outcome, panel, replies, answers, stale>>

PassExpiry(c) ==
    /\ ~localQris /\ charge[c] = "PENDING" /\ c \notin due /\ due' = due \cup {c}
    /\ UNCHANGED <<localQris, charge, amount, refresh, gateway, panel, replies, answers, raced, stale>>

(* refreshCharge: what is to be written is decided on the row just read,   *)
(* the server's clock before the gateway.  Only a gateway is polled.       *)
Decision(c) == IF c \in due THEN "EXPIRED" ELSE Verdict[outcome[c]]

PollCharge ==
    /\ ~localQris /\ mounted /\ onPanel \notin {NoCharge, paidWith} /\ Cardinality(refresh) + Cardinality(answers) < MaxPolls
    /\ IF charge[onPanel] = "PENDING" /\ Decision(onPanel) # "PENDING"
       THEN refresh' = refresh \cup {[charge |-> onPanel, to |-> Decision(onPanel)]} /\ UNCHANGED answers
       ELSE UNCHANGED refresh /\ answers' = answers \cup {[charge |-> onPanel, is |-> charge[onPanel]]}
    /\ UNCHANGED <<localQris, charge, amount, due, gateway, panel, replies, raced, stale>>

(* confirmLocal: the cashier has seen the money arrive.                    *)
ConfirmLocal ==
    /\ localQris /\ mounted /\ onPanel \notin {NoCharge, paidWith} /\ Cardinality(refresh) + Cardinality(answers) < MaxPolls
    /\ outcome[onPanel] = "settled"
    /\ charge[onPanel] = "PENDING"
    /\ refresh' = refresh \cup {[charge |-> onPanel, to |-> "PAID"]}
    /\ UNCHANGED <<localQris, charge, amount, due, gateway, panel, replies, answers, raced, stale>>

FinishRefresh(w) ==
    /\ refresh' = refresh \ {w}
    /\ charge' = [charge EXCEPT ![w.charge] = w.to]
    /\ answers' = answers \cup {[charge |-> w.charge, is |-> w.to]}
    /\ raced' = (raced \/ \E v \in refresh \ {w} : v.charge = w.charge)
    /\ UNCHANGED <<localQris, amount, due, gateway, panel, replies, stale>>

(* Mutant: any answer unlocks the sale.                                    *)
AnswerUnlocks(a) ==
    /\ answers' = answers \ {a}
    /\ onPanel' = IF mounted THEN a.charge ELSE onPanel
    /\ paidWith' = IF mounted THEN a.charge ELSE paidWith
    /\ Stale(mounted /\ amount[a.charge] # payable)
    /\ UNCHANGED <<localQris, chargeServer, gateway, payable, mounted, creating, qrisSale, replies, raced>>

(* charge.value = next, whatever is shown by now; PAID unlocks the sale.   *)
Answer(a) ==
    /\ answers' = answers \ {a}
    /\ onPanel' = IF mounted THEN a.charge ELSE onPanel
    /\ paidWith' = IF mounted /\ a.is = "PAID" THEN a.charge ELSE paidWith
    /\ Stale(mounted /\ amount[a.charge] # payable)
    /\ UNCHANGED <<localQris, chargeServer, gateway, payable, mounted, creating, qrisSale, replies, raced>>

(* The cashier finishes: the sale names the charge and what was to pay.    *)
Confirm ==
    /\ mounted /\ paidWith # NoCharge /\ mounted' = FALSE
    /\ qrisSale' = [charge |-> paidWith, amount |-> payable]
    /\ UNCHANGED <<localQris, chargeServer, gateway, payable, creating, onPanel, paidWith, replies, answers, raced, stale>>

QrisInit ==
    /\ localQris \in LocalQris
    /\ charge = [c \in Charges |-> "none"] /\ amount = [c \in Charges |-> 0]
    /\ due = {} /\ refresh = {} /\ outcome = [c \in Charges |-> "open"] /\ hooks = {}
    /\ payable = CHOOSE n \in Payables : \A m \in Payables : n <= m
    /\ mounted = FALSE /\ creating = {} /\ replies = {} /\ answers = {}
    /\ onPanel = NoCharge /\ paidWith = NoCharge /\ qrisSale = Undecided
    /\ raced = FALSE /\ stale = FALSE

QrisNext ==
    \/ OpenPanel \/ SwitchMethod \/ \E n \in Payables : ChangeTotal(n) \/ ChangeTip(n)
    \/ \E p \in creating : CreateQrisCharge(p)
    \/ \E c \in Charges : ShowCharge(c) \/ LoseReply(c) \/ Webhook(c) \/ PassExpiry(c)
    \/ Customer \/ PollCharge \/ ConfirmLocal \/ Confirm
    \/ \E w \in refresh : FinishRefresh(w)
    \/ \E a \in answers : Answer(a)

(* A gateway repeats a webhook until it is answered.                       *)
QrisFairness == \A c \in Charges : WF_qrisVars(Webhook(c))
                                /\ WF_qrisVars(\E w \in refresh : w.charge = c /\ FinishRefresh(w))
QrisSpec == QrisInit /\ [][QrisNext]_qrisVars /\ QrisFairness
-------------------------------------------------------------------------------
(* Nothing takes a charge back from PAID, local expiry included, as long   *)
(* as no webhook and no second refresh comes between the read and the      *)
(* write of a refresh (payments.service.ts:119-125).                       *)
PaidStays ==
    [][\A c \in Charges : charge[c] = "PAID" /\ charge'[c] # "PAID" => raced']_qrisVars

(* Money the gateway has taken is known to the server in the end, even     *)
(* when nobody polls or the charge has expired by the server's own clock.  *)
SettledBecomesPaid ==
    \A c \in Charges : outcome[c] = "settled" /\ ~localQris ~> charge[c] = "PAID" \/ raced

(* What syncSale will ask of a sale (pos.service.ts:522-538) is true when  *)
(* the cashier may finish it: its charge is PAID, and over the right sum,  *)
(* unless the sum changed under a paid charge or a reply came too late.    *)
ConfirmedIsCovered ==
    qrisSale # Undecided /\ ~raced =>
        /\ charge[qrisSale.charge] = "PAID"
        /\ ~stale => amount[qrisSale.charge] = qrisSale.amount

(* Refuted: "Tombol selesaikan terkunci sampai QRIS lunas", the button is  *)
(* locked until QRIS is paid (docs/MANUAL.md:96).                          *)
UnlockedMeansPaid == mounted /\ paidWith # NoCharge /\ ~raced => amount[paidWith] = payable
===============================================================================
