------------------------------ MODULE TillProofs ------------------------------
(***************************************************************************)
(* What happens at a till, proved for any number of charges, carts,        *)
(* tables, dishes, lines and users: a QRIS sale is covered, no table loses *)
(* its order, fired dishes are listed once, the server accepts every sale  *)
(* the till makes, and a till sells on the shift of its user. One section  *)
(* per module, each with the inductive invariant its theorem needs.        *)
(***************************************************************************)
EXTENDS QrisCharge, DiningFloor, KitchenOrders, TillCart, TillSession, SumProofs
-------------------------------------------------------------------------------
(***************************************************************************)
(* A QRIS sale is confirmed over a charge that is paid and over its sum,   *)
(* and nothing takes a charge back from PAID: for any number of charges,   *)
(* polls and webhooks, as long as nothing writes a charge between the read *)
(* and the write of a refresh.                                             *)
(***************************************************************************)

ChargeStates == {"none", "PENDING", "PAID", "EXPIRED", "FAILED"}

ChargesTyped ==
    /\ charge \in [Charges -> ChargeStates]
    /\ amount = [c \in Charges |-> amount[c]]
    /\ outcome \in [Charges -> {"open", "settled", "expired", "denied"}]
    /\ hooks \subseteq Charges /\ replies \subseteq Charges
    /\ refresh \subseteq [charge : Charges, to : ChargeStates \ {"none"}]
    /\ answers \subseteq [charge : Charges, is : ChargeStates]
    /\ onPanel \in Charges \cup {NoCharge} /\ paidWith \in Charges \cup {NoCharge}
    /\ qrisSale.charge \in Charges \cup {NoCharge}

(* What the gateway, the panel and the refreshes are about is there.       *)
There ==
    /\ \A c \in hooks \cup replies : charge[c] # "none"
    /\ onPanel # NoCharge => charge[onPanel] # "none"
    /\ \A w \in refresh : charge[w.charge] # "none"
    /\ \A a \in answers : charge[a.charge] # "none"

(* Charges are numbered as they are asked for, so a new one is not there.  *)
Numbered ==
    /\ IsFiniteSet(creating) /\ Asked \in Nat
    /\ \A c \in Charges : charge[c] # "none" => c <= Asked
    /\ \A p \in creating : p.charge \in Charges /\ p.charge <= Asked /\ charge[p.charge] = "none"
    /\ \A p, q \in creating : p.charge = q.charge => p = q

(* A refresh about to write still finds PENDING, and PAID is what the      *)
(* gateway says.                                                           *)
Unraced ==
    /\ \A w \in refresh : charge[w.charge] = "PENDING" /\ (w.to = "PAID" => outcome[w.charge] = "settled")
    /\ \A c \in Charges : charge[c] = "PAID" => outcome[c] = "settled"

(* Who was told PAID may rely on it.                                       *)
Reliable ==
    /\ \A a \in answers : a.is = "PAID" => charge[a.charge] = "PAID"
    /\ paidWith # NoCharge => charge[paidWith] = "PAID"
    /\ qrisSale # Undecided => qrisSale.charge \in Charges /\ charge[qrisSale.charge] = "PAID"

Covered ==
    ~stale => /\ paidWith # NoCharge => amount[paidWith] = payable
              /\ qrisSale # Undecided => amount[qrisSale.charge] = qrisSale.amount

QrisInv == ChargesTyped /\ There /\ Numbered /\ (~raced => Unraced /\ Reliable /\ Covered)

LEMMA InitQrisInv == QrisInit => QrisInv
<1> SUFFICES ASSUME QrisInit PROVE QrisInv
  OBVIOUS
<1>1. ChargesTyped
  BY DEF QrisInit, ChargesTyped, ChargeStates, Undecided, Charges, NoCharge
<1>4. There
  BY DEF QrisInit, There, Charges, NoCharge
<1>2. Numbered
  <2>1. creating = {} /\ {c \in Charges : charge[c] # "none"} = {}
    BY DEF QrisInit
  <2>2. Asked = 0
    BY <2>1, FS_EmptySet DEF Asked
  <2> QED
    BY <2>1, <2>2, FS_EmptySet DEF QrisInit, Numbered
<1>3. Unraced /\ Reliable /\ Covered
  BY DEF QrisInit, Unraced, Reliable, Covered
<1> QED
  BY <1>1, <1>2, <1>3, <1>4 DEF QrisInv

-------------------------------------------------------------------------------
LEMMA FiniteCharges == \A S \in SUBSET Charges : IsFiniteSet(S) /\ Cardinality(S) \in Nat
<1>1. MaxCharges \in Nat
  BY QrisAssumption
<1>2. IsFiniteSet(Charges)
  BY <1>1, FS_Interval DEF Charges
<1> QED
  BY <1>2, FS_Subset, FS_CardinalityType

(* Asking for a charge takes the next number.                              *)
LEMMA BootstrapNumbers ==
    ASSUME ChargesTyped, Numbered, NEW n, Bootstrap(n), UNCHANGED charge
    PROVE  Numbered'
<1> DEFINE new == [charge |-> Asked + 1, amount |-> n]
<1>1. Asked \in Nat /\ Asked + 1 \in Charges
  BY QrisAssumption DEF Bootstrap, Numbered, Charges
<1>2. new \notin creating /\ creating' = creating \cup {new} /\ new.charge = Asked + 1
  BY <1>1 DEF Bootstrap, Numbered
<1> HIDE DEF new
<1>3. IsFiniteSet(creating') /\ Cardinality(creating') = Cardinality(creating) + 1 /\ Cardinality(creating) \in Nat
  BY <1>2, FS_AddElement, FS_CardinalityType DEF Numbered
<1>4. Cardinality({c \in Charges : charge[c] # "none"}) \in Nat
  BY FiniteCharges
<1>5. Asked' = Asked + 1
  BY <1>3, <1>4 DEF Asked
<1>6. charge[Asked + 1] = "none"
  BY <1>1 DEF Numbered
<1> QED
  <2>1. \A c \in Charges : charge'[c] # "none" => c <= Asked'
    BY <1>1, <1>5 DEF Numbered, Charges
  <2>2. \A p \in creating' : p.charge \in Charges /\ p.charge <= Asked' /\ charge'[p.charge] = "none"
    BY <1>1, <1>2, <1>5, <1>6 DEF Numbered, Charges
  <2>3. \A p, q \in creating' : p.charge = q.charge => p = q
    BY <1>1, <1>2 DEF Numbered, Charges
  <2> QED
    BY <1>1, <1>3, <1>5, <2>1, <2>2, <2>3 DEF Numbered

(* A created charge is no longer on its way.                               *)
LEMMA CreateNumbers ==
    ASSUME ChargesTyped, Numbered, NEW p \in creating, CreateQrisCharge(p)
    PROVE  Numbered'
<1> DEFINE made == {c \in Charges : charge[c] # "none"}
<1>1. /\ creating' = creating \ {p} /\ p.charge \in Charges /\ charge[p.charge] = "none"
      /\ charge' = [charge EXCEPT ![p.charge] = "PENDING"]
  BY DEF CreateQrisCharge, Numbered
<1>2. {c \in Charges : charge'[c] # "none"} = made \cup {p.charge} /\ p.charge \notin made
  BY <1>1 DEF ChargesTyped
<1>3. IsFiniteSet(made) /\ Cardinality(made) \in Nat
  BY FiniteCharges
<1>4. Cardinality(made \cup {p.charge}) = Cardinality(made) + 1
  BY <1>2, <1>3, FS_AddElement
<1>5. IsFiniteSet(creating') /\ Cardinality(creating') = Cardinality(creating) - 1 /\ Cardinality(creating) \in Nat
  BY <1>1, FS_RemoveElement, FS_CardinalityType DEF Numbered
<1>6. Asked' = Asked
  <2>1. Asked' = Cardinality(made \cup {p.charge}) + Cardinality(creating')
    BY <1>2 DEF Asked
  <2>2. Asked = Cardinality(made) + Cardinality(creating)
    BY DEF Asked
  <2> QED
    BY <2>1, <2>2, <1>3, <1>4, <1>5
<1> QED
  BY <1>1, <1>5, <1>6 DEF Numbered, ChargesTyped

(* Everything else leaves the numbers alone.                               *)
LEMMA OthersNumber ==
    ASSUME Numbered, UNCHANGED creating, \A c \in Charges : charge'[c] = "none" <=> charge[c] = "none"
    PROVE  Numbered'
<1>1. {c \in Charges : charge'[c] # "none"} = {c \in Charges : charge[c] # "none"}
  OBVIOUS
<1>2. Asked' = Asked
  BY <1>1 DEF Asked
<1> QED
  BY <1>2 DEF Numbered

-------------------------------------------------------------------------------
(* A step keeps all of it, and PAID charges paid unless it was raced.      *)
Kept == \A c \in Charges : charge[c] = "PAID" => charge'[c] = "PAID" \/ raced'

(* The panel: what is shown, and what is to pay.                           *)
LEMMA PanelKeeps ==
    ASSUME QrisInv,
           \/ OpenPanel \/ SwitchMethod \/ \E n \in Payables : ChangeTotal(n) \/ ChangeTip(n)
           \/ Confirm \/ \E c \in Charges : ShowCharge(c) \/ LoseReply(c)
    PROVE  QrisInv' /\ Kept
<1> USE DEF QrisInv, chargeServer, gateway, panel, Stale
<1>1. /\ UNCHANGED <<charge, amount, refresh, outcome, hooks, answers, raced>>
      /\ replies' \subseteq replies
      /\ onPanel' # NoCharge => onPanel' = onPanel \/ onPanel' \in replies
      /\ paidWith' # NoCharge => paidWith' = paidWith
  BY DEF OpenPanel, SwitchMethod, ChangeTotal, ChangeTip, Confirm, ShowCharge, LoseReply, Bootstrap, ChargesTyped
<1>11. stale => stale'
  BY DEF OpenPanel, SwitchMethod, ChangeTotal, ChangeTip, Confirm, ShowCharge, LoseReply
<1>2. qrisSale' = qrisSale \/ (qrisSale' = [charge |-> paidWith, amount |-> payable] /\ paidWith # NoCharge)
  BY DEF OpenPanel, SwitchMethod, ChangeTotal, ChangeTip, Confirm, ShowCharge, LoseReply
<1>8. qrisSale'.charge \in Charges \cup {NoCharge}
  <2>1. qrisSale.charge \in Charges \cup {NoCharge} /\ paidWith \in Charges \cup {NoCharge}
    BY DEF ChargesTyped
  <2> QED
    BY <1>2, <2>1
<1>9. ChargesTyped'
  BY <1>1, <1>8 DEF ChargesTyped
<1>3. There'
  BY <1>1 DEF There
<1>4. Numbered'
  <2>1. CASE UNCHANGED creating
    BY <1>1, <2>1, OthersNumber
  <2>2. CASE creating' # creating
    BY <1>1, <2>2, BootstrapNumbers
       DEF OpenPanel, SwitchMethod, ChangeTotal, ChangeTip, Confirm, ShowCharge, LoseReply
  <2> QED
    BY <2>1, <2>2
<1>5. Kept
  BY <1>1 DEF Kept
<1>6. ASSUME ~raced' PROVE Unraced' /\ Reliable'
  BY <1>1, <1>2, <1>6 DEF Unraced, Reliable, Undecided, ChargesTyped
<1>10. ~stale' /\ paidWith' # NoCharge => payable' = payable /\ paidWith' = paidWith
  BY <1>1 DEF OpenPanel, SwitchMethod, ChangeTotal, ChangeTip, Confirm, ShowCharge, LoseReply
<1>7. ASSUME ~raced', ~stale' PROVE Covered'
  <2>1. ~raced /\ ~stale /\ amount' = amount
    BY <1>1, <1>7, <1>11
  <2>2. paidWith' # NoCharge => amount'[paidWith'] = payable'
    BY <2>1, <1>7, <1>10 DEF Covered
  <2>3. CASE qrisSale' = qrisSale
    BY <2>1, <2>2, <2>3 DEF Covered
  <2>4. CASE qrisSale' = [charge |-> paidWith, amount |-> payable] /\ paidWith # NoCharge
    BY <2>1, <2>2, <2>4 DEF Covered
  <2> QED
    BY <1>2, <2>3, <2>4
<1> QED
  BY <1>3, <1>4, <1>5, <1>6, <1>7, <1>9 DEF Covered

(* A new charge takes no number that is in use.                            *)
LEMMA CreateKeeps ==
    ASSUME QrisInv, NEW p \in creating, CreateQrisCharge(p)
    PROVE  QrisInv' /\ Kept
<1> USE DEF QrisInv
<1>1. /\ p.charge \in Charges /\ charge[p.charge] = "none"
      /\ charge' = [charge EXCEPT ![p.charge] = "PENDING"]
      /\ amount' = [amount EXCEPT ![p.charge] = p.amount]
      /\ replies' = replies \cup {p.charge}
      /\ UNCHANGED <<refresh, outcome, hooks, onPanel, paidWith, qrisSale, answers, raced, stale, payable>>
  BY DEF CreateQrisCharge, Numbered, gateway
<1>2. ChargesTyped'
  BY <1>1 DEF ChargesTyped, ChargeStates
<1>3. There'
  BY <1>1 DEF There, ChargesTyped, ChargeStates
<1>4. Kept
  BY <1>1 DEF Kept, ChargesTyped
<1>5. ASSUME ~raced' PROVE Unraced' /\ Reliable' /\ Covered'
  BY <1>1, <1>5 DEF Unraced, Reliable, Covered, There, ChargesTyped
<1> QED
  BY <1>2, <1>3, <1>4, <1>5, CreateNumbers

(* The gateway decides once, and the clock passes.                         *)
LEMMA GatewayKeeps ==
    ASSUME QrisInv, Customer \/ \E c \in Charges : PassExpiry(c)
    PROVE  QrisInv' /\ Kept
<1> USE DEF QrisInv, chargeServer, gateway, panel
<1>1. UNCHANGED <<charge, amount, refresh, creating, replies, onPanel, paidWith, qrisSale, answers,
                  raced, stale, payable>>
  BY DEF Customer, PassExpiry
<1>2. \/ UNCHANGED <<outcome, hooks>>
      \/ \E c \in Charges, v \in {"settled", "expired", "denied"} :
            /\ charge[c] # "none" /\ outcome[c] = "open"
            /\ outcome' = [outcome EXCEPT ![c] = v] /\ hooks' \subseteq hooks \cup {c}
  BY DEF Customer, PassExpiry, Pay, Lapse, Decide, There, ChargesTyped
<1>3. ChargesTyped' /\ There'
  BY <1>1, <1>2 DEF ChargesTyped, There
<1>4. ASSUME ~raced' PROVE Unraced'
  BY <1>1, <1>2, <1>4 DEF Unraced, ChargesTyped
<1>5. ASSUME ~raced' PROVE Reliable' /\ Covered'
  BY <1>1, <1>5 DEF Reliable, Covered
<1> QED
  BY <1>1, <1>3, <1>4, <1>5, OthersNumber DEF Kept

(* A webhook writes what the gateway decided.                              *)
LEMMA WebhookKeeps ==
    ASSUME QrisInv, NEW c \in Charges, Webhook(c)
    PROVE  QrisInv' /\ Kept
<1> USE DEF QrisInv
<1>1. /\ c \in hooks /\ hooks' \subseteq hooks /\ charge[c] # "none"
      /\ charge' = [charge EXCEPT ![c] = Verdict[outcome[c]]]
      /\ Verdict[outcome[c]] \in ChargeStates \ {"none"}
      /\ Verdict[outcome[c]] = "PAID" <=> outcome[c] = "settled"
      /\ raced' = (raced \/ \E w \in refresh : w.charge = c)
      /\ UNCHANGED <<amount, refresh, outcome, creating, replies, onPanel, paidWith, qrisSale, answers,
                     stale, payable>>
  BY DEF Webhook, Raced, Verdict, panel, There, ChargesTyped, ChargeStates
<1>2. ChargesTyped' /\ There'
  BY <1>1 DEF ChargesTyped, There
<1>3. Numbered'
  BY <1>1, OthersNumber DEF ChargesTyped
<1>4. Kept
  BY <1>1 DEF Kept, Unraced, ChargesTyped
<1>5. ASSUME ~raced' PROVE Unraced'
  BY <1>1, <1>5 DEF Unraced, ChargesTyped
<1>6. ASSUME ~raced' PROVE Reliable' /\ Covered'
  BY <1>1, <1>4, <1>6 DEF Kept, Reliable, Covered, ChargesTyped
<1> QED
  BY <1>2, <1>3, <1>4, <1>5, <1>6

(* A refresh reads ...                                                     *)
LEMMA PollKeeps ==
    ASSUME QrisInv, PollCharge \/ ConfirmLocal
    PROVE  QrisInv' /\ Kept
<1> USE DEF QrisInv
<1>1. /\ onPanel \in Charges /\ charge[onPanel] # "none"
      /\ UNCHANGED <<charge, amount, outcome, hooks, creating, replies, onPanel, paidWith, qrisSale, raced,
                     stale, payable>>
  BY DEF PollCharge, ConfirmLocal, gateway, panel, ChargesTyped, There
<1>2. \/ refresh' = refresh /\ answers' = answers \cup {[charge |-> onPanel, is |-> charge[onPanel]]}
      \/ /\ answers' = answers /\ charge[onPanel] = "PENDING"
         /\ \E to \in ChargeStates \ {"none"} :
               /\ refresh' = refresh \cup {[charge |-> onPanel, to |-> to]}
               /\ to = "PAID" => outcome[onPanel] = "settled"
  BY <1>1 DEF PollCharge, ConfirmLocal, Decision, Verdict, ChargeStates, ChargesTyped
<1>3. ChargesTyped' /\ There'
  BY <1>1, <1>2 DEF ChargesTyped, There
<1>4. ASSUME ~raced' PROVE Unraced' /\ Reliable' /\ Covered'
  BY <1>1, <1>2, <1>4 DEF Unraced, Reliable, Covered
<1> QED
  BY <1>1, <1>3, <1>4, OthersNumber DEF Kept

(* ... and writes, and answers.                                            *)
LEMMA FinishKeeps ==
    ASSUME QrisInv, NEW w \in refresh, FinishRefresh(w)
    PROVE  QrisInv' /\ Kept
<1> USE DEF QrisInv
<1>1. /\ w.charge \in Charges /\ w.to \in ChargeStates \ {"none"} /\ charge[w.charge] # "none"
      /\ refresh' = refresh \ {w}
      /\ charge' = [charge EXCEPT ![w.charge] = w.to]
      /\ answers' = answers \cup {[charge |-> w.charge, is |-> w.to]}
      /\ raced' = (raced \/ \E v \in refresh \ {w} : v.charge = w.charge)
      /\ UNCHANGED <<amount, outcome, hooks, creating, replies, onPanel, paidWith, qrisSale, stale, payable>>
  BY DEF FinishRefresh, gateway, panel, There, ChargesTyped
<1>2. ChargesTyped' /\ There'
  BY <1>1 DEF ChargesTyped, There
<1>3. Numbered'
  BY <1>1, OthersNumber DEF ChargesTyped
<1>4. Kept
  BY <1>1 DEF Kept, Unraced, ChargesTyped
<1>5. ASSUME ~raced' PROVE Unraced'
  BY <1>1, <1>5 DEF Unraced, ChargesTyped
<1>6. ASSUME ~raced' PROVE Reliable' /\ Covered'
  <2>1. /\ ~raced /\ charge'[w.charge] = w.to
        /\ \A c \in Charges : charge[c] = "PAID" => charge'[c] = "PAID"
    BY <1>1, <1>4, <1>6 DEF Kept, ChargesTyped
  <2>2. Reliable'
    BY <1>1, <2>1 DEF Reliable, ChargesTyped
  <2>3. Covered'
    BY <1>1, <2>1 DEF Covered
  <2> QED
    BY <2>2, <2>3
<1> QED
  BY <1>2, <1>3, <1>4, <1>5, <1>6

(* The answer unlocks the sale only when it is PAID.                       *)
LEMMA AnswerKeeps ==
    ASSUME QrisInv, NEW a \in answers, Answer(a)
    PROVE  QrisInv' /\ Kept
<1> USE DEF QrisInv
<1>1. /\ a.charge \in Charges /\ charge[a.charge] # "none" /\ answers' = answers \ {a}
      /\ onPanel' = onPanel \/ onPanel' = a.charge
      /\ paidWith' = paidWith \/ (paidWith' = a.charge /\ a.is = "PAID" /\ (~stale' => amount[a.charge] = payable))
      /\ stale => stale'
      /\ UNCHANGED <<charge, amount, outcome, hooks, refresh, creating, replies, qrisSale, raced, payable>>
  BY DEF Answer, Stale, chargeServer, gateway, There, ChargesTyped
<1>2. ChargesTyped'
  BY <1>1 DEF ChargesTyped
<1>4. There'
  BY <1>1 DEF There
<1>3. ASSUME ~raced' PROVE Unraced' /\ Reliable' /\ Covered'
  <2>1. ~raced /\ Unraced'
    BY <1>1, <1>3 DEF Unraced
  <2>2. a.is = "PAID" => charge[a.charge] = "PAID"
    BY <2>1 DEF Reliable
  <2>3. Reliable'
    BY <1>1, <2>1, <2>2 DEF Reliable
  <2>4. Covered'
    BY <1>1, <2>1 DEF Covered, ChargesTyped
  <2> QED
    BY <2>1, <2>3, <2>4
<1> QED
  BY <1>1, <1>2, <1>3, <1>4, OthersNumber DEF Kept

LEMMA StepQrisInv == QrisInv /\ [QrisNext]_qrisVars => QrisInv' /\ Kept
<1> SUFFICES ASSUME QrisInv, [QrisNext]_qrisVars PROVE QrisInv' /\ Kept
  OBVIOUS
<1>1. CASE UNCHANGED qrisVars
  <2>1. UNCHANGED <<charge, amount, outcome, hooks, refresh, creating, replies, onPanel, paidWith, qrisSale,
                    answers, raced, stale, payable>>
    BY <1>1 DEF qrisVars, chargeServer, gateway, panel
  <2>2. Numbered'
    BY <2>1, OthersNumber DEF QrisInv
  <2> QED
    BY <2>1, <2>2 DEF QrisInv, ChargesTyped, There, Unraced, Reliable, Covered, Kept
<1>2. CASE QrisNext
  BY <1>2, PanelKeeps, CreateKeeps, GatewayKeeps, WebhookKeeps, PollKeeps, FinishKeeps, AnswerKeeps DEF QrisNext
<1> QED
  BY <1>1, <1>2

(* The cashier confirms a QRIS sale only over a charge that is PAID, and   *)
(* over the sum of the sale.                                               *)
THEOREM ConfirmedSalesAreCovered == QrisSpec => []ConfirmedIsCovered
<1>1. QrisInv => ConfirmedIsCovered
  BY DEF QrisInv, Reliable, Covered, ConfirmedIsCovered
<1>2. QrisInv /\ [QrisNext]_qrisVars => QrisInv'
  BY StepQrisInv
<1> QED
  BY <1>1, <1>2, InitQrisInv, PTL DEF QrisSpec

(* No expiry, denial or late reply takes a charge back from PAID.          *)
THEOREM PaidChargesStay == QrisSpec => PaidStays
<1>1. QrisInv /\ [QrisNext]_qrisVars =>
         [\A c \in Charges : charge[c] = "PAID" /\ charge'[c] # "PAID" => raced']_qrisVars
  BY StepQrisInv DEF Kept
<1>2. QrisInv /\ [QrisNext]_qrisVars => QrisInv'
  BY StepQrisInv
<1> QED
  BY <1>1, <1>2, InitQrisInv, PTL DEF QrisSpec, PaidStays
-------------------------------------------------------------------------------
(***************************************************************************)
(* DiningFloor: no table loses what is on it.                              *)
(*                                                                         *)
(* A cart claims a table when a queued snapshot of it is for that table,   *)
(* when it is on it at the server with items or with more on the way, and  *)
(* when a till has it stored there without items, which the floor does not *)
(* show.  As long as nothing was contested, one cart at most claims a      *)
(* table, one till at most has snapshots of a cart queued, and these go on *)
(* from what the server has.                                               *)
(***************************************************************************)
OrderRow ==
    [status : {"none", "OPEN", "CHECKED_OUT"}, table : Spots \cup {NoSpot}, parked : BOOLEAN,
     items : SUBSET Nat, at : Nat]
IsOrder(r) == r \in OrderRow /\ r.at <= doings /\ (r.parked => r.items # {})
SentBy(t, c) == c \in DOMAIN sending[t]
Sent(c) == \E t \in Tills : SentBy(t, c)
FloorTyped ==
    /\ doings \in Nat /\ contested \in BOOLEAN
    /\ carts = [c \in CartIds |-> carts[c]] /\ \A c \in CartIds : IsOrder(carts[c])
    /\ local = [t \in Tills |-> local[t]] /\ sending = [t \in Tills |-> sending[t]]
    /\ current = [t \in Tills |-> current[t]]
    /\ \A t \in Tills :
          /\ DOMAIN local[t] \subseteq CartIds /\ DOMAIN sending[t] \subseteq CartIds
          /\ \A c \in DOMAIN local[t] : IsOrder(local[t][c]) /\ local[t][c].status = "OPEN"
          /\ \A c \in DOMAIN sending[t] : IsOrder(sending[t][c]) /\ sending[t][c].status # "none"
          /\ current[t] # 0 => Stored(t, current[t])
    /\ \A t \in Tills, c \in CartIds : Stored(t, c) => carts[c].status # "none" \/ Sent(c)
    /\ \E n \in 0..MaxCarts : Begun = 1..n
    /\ floor = [t \in Tills |-> floor[t]]
    /\ \A t \in Tills : \A s \in DOMAIN floor[t] : floor[t][s] \in CartIds \cup {0}

DiningSpots == Spots \ {NoSpot}
Claims(c, s) ==
    \/ \E t \in Tills : SentBy(t, c) /\ sending[t][c].table = s
    \/ carts[c].status = "OPEN" /\ carts[c].table = s /\ (Sent(c) \/ carts[c].items # {})
    \/ \E t \in Tills : Stored(t, c) /\ local[t][c].table = s /\ local[t][c].items = {}
Orderly ==
    /\ \A t, u \in Tills, c \in CartIds : SentBy(t, c) /\ SentBy(u, c) => t = u
    /\ \A t \in Tills, c \in CartIds : SentBy(t, c) =>
          /\ carts[c].status = "OPEN" => carts[c].items \subseteq sending[t][c].items
          /\ Stored(t, c) => local[t][c].items = sending[t][c].items /\ local[t][c].table = sending[t][c].table
    /\ \A c, d \in CartIds, s \in DiningSpots : Claims(c, s) /\ Claims(d, s) => c = d
FloorInv == FloorTyped /\ (~contested => Orderly)

(* The floor shows a cart on every table that has an open one with items.  *)
LEMMA NewestShown ==
    ASSUME doings \in Nat, \A c \in CartIds : carts[c].at \in Nat /\ carts[c].at <= doings, NEW s
    PROVE  /\ ActiveCart(s) \in CartIds \cup {0}
           /\ ActiveCart(s) # 0 => carts[ActiveCart(s)].table = s /\ Shown(ActiveCart(s))
           /\ ActiveCart(s) = 0 => \A c \in CartIds : ~(carts[c].table = s /\ Shown(c))
<1> DEFINE there == {c \in CartIds : carts[c].table = s /\ Shown(c)}
           ages == {doings - carts[c].at : c \in there}
<1>1. 0 \notin CartIds
  BY FloorAssumption DEF CartIds
<1>2. CASE there = {}
  BY <1>2 DEF ActiveCart
<1>3. CASE there # {}
  <2>1. ages \in SUBSET Nat /\ ages # {}
    BY <1>3
  <2> HIDE DEF ages
  <2>2. PICK a \in ages : \A b \in ages : a <= b
    BY <2>1, LeastNumber
  <2>3. PICK c \in there : a = doings - carts[c].at
    BY <2>2 DEF ages
  <2>4. \A d \in there : doings - carts[d].at \in ages /\ carts[d].at \in Nat
    BY DEF ages
  <2>5. carts[c].at \in Nat
    BY <2>3, <2>4
  <2> HIDE DEF there
  <2>6. \A d \in there : carts[d].at <= carts[c].at
    BY <2>2, <2>3, <2>4, <2>5
  <2>7. ActiveCart(s) = CHOOSE e \in there : \A d \in there : carts[d].at <= carts[e].at
    BY <1>3 DEF ActiveCart, there
  <2>8. ActiveCart(s) \in there
    BY <2>3, <2>6, <2>7
  <2> QED BY <1>1, <2>8 DEF there
<1> QED
  BY <1>2, <1>3

LEMMA FloorKnown ==
    ASSUME doings \in Nat, \A c \in CartIds : carts[c].at \in Nat /\ carts[c].at <= doings
    PROVE  \A s \in DOMAIN Floor : Floor[s] = ActiveCart(s) /\ Floor[s] \in CartIds \cup {0}
  BY NewestShown DEF Floor

LEMMA InitFloorInv == FloorInit => FloorInv
<1> SUFFICES ASSUME FloorInit PROVE FloorInv
  OBVIOUS
<1>1. NoOrder \in OrderRow /\ IsOrder(NoOrder)
  BY DEF FloorInit, NoOrder, IsOrder, OrderRow
<1>2. DOMAIN << >> = {}
  OBVIOUS
<1>3. Begun = {}
  BY <1>2 DEF FloorInit, Begun, NoOrder, Stored
<1>4. \E n \in 0..MaxCarts : Begun = 1..n
  <2>1. 0 \in 0..MaxCarts /\ 1..0 = {}
    BY FloorAssumption
  <2> QED BY <2>1, <1>3
<1>7. floor = [t \in Tills |-> floor[t]] /\ \A t \in Tills : \A s \in DOMAIN floor[t] : floor[t][s] \in CartIds \cup {0}
  <2>1. doings \in Nat /\ \A c \in CartIds : carts[c].at \in Nat /\ carts[c].at <= doings
    BY <1>1 DEF FloorInit, IsOrder, OrderRow
  <2>2. \A s \in DOMAIN Floor : Floor[s] \in CartIds \cup {0}
    BY <2>1, FloorKnown
  <2> QED BY <2>2 DEF FloorInit
<1>5. FloorTyped
  BY <1>1, <1>2, <1>4, <1>7 DEF FloorInit, FloorTyped, IsOrder, Stored, Sent, SentBy
<1>6. Orderly
  <2>1. \A t \in Tills : \A c : ~SentBy(t, c) /\ ~Stored(t, c)
    BY <1>2 DEF FloorInit, SentBy, Stored
  <2>2. \A c \in CartIds : carts[c].status = "none"
    BY DEF FloorInit, NoOrder
  <2> QED
    BY <2>1, <2>2 DEF Orderly, Claims
<1> QED
  BY <1>5, <1>6 DEF FloorInv

(* A changed row, field by field.                                          *)
LEMMA RowEdit ==
    ASSUME NEW r \in OrderRow, NEW st, NEW s, NEW b, NEW i, NEW n
    PROVE  /\ [r EXCEPT !.status = st] = [status |-> st, table |-> r.table, parked |-> r.parked, items |-> r.items, at |-> r.at]
           /\ [r EXCEPT !.table = s] = [status |-> r.status, table |-> s, parked |-> r.parked, items |-> r.items, at |-> r.at]
           /\ [r EXCEPT !.parked = b] = [status |-> r.status, table |-> r.table, parked |-> b, items |-> r.items, at |-> r.at]
           /\ [r EXCEPT !.items = i] = [status |-> r.status, table |-> r.table, parked |-> r.parked, items |-> i, at |-> r.at]
           /\ [r EXCEPT !.at = n] = [status |-> r.status, table |-> r.table, parked |-> r.parked, items |-> r.items, at |-> n]
<1> PICK st0, s0, b0, i0, n0 : st0 = r.status /\ s0 = r.table /\ b0 = r.parked /\ i0 = r.items /\ n0 = r.at
  OBVIOUS
<1>0. r = [status |-> st0, table |-> s0, parked |-> b0, items |-> i0, at |-> n0]
  BY DEF OrderRow
<1>1. [r EXCEPT !.status = st] = [status |-> st, table |-> r.table, parked |-> r.parked, items |-> r.items, at |-> r.at]
  BY <1>0
<1>2. [r EXCEPT !.table = s] = [status |-> r.status, table |-> s, parked |-> r.parked, items |-> r.items, at |-> r.at]
  BY <1>0
<1>3. [r EXCEPT !.parked = b] = [status |-> r.status, table |-> r.table, parked |-> b, items |-> r.items, at |-> r.at]
  BY <1>0
<1>4. [r EXCEPT !.items = i] = [status |-> r.status, table |-> r.table, parked |-> r.parked, items |-> i, at |-> r.at]
  BY <1>0
<1>5. [r EXCEPT !.at = n] = [status |-> r.status, table |-> r.table, parked |-> r.parked, items |-> r.items, at |-> n]
  BY <1>0
<1> QED
  BY <1>1, <1>2, <1>3, <1>4, <1>5

LEMMA ReleaseEdit ==
    ASSUME NEW r \in OrderRow, NEW s \in Spots \cup {NoSpot}, NEW n \in Nat
    PROVE  [r EXCEPT !.table = s, !.at = n] = [status |-> r.status, table |-> s, parked |-> r.parked, items |-> r.items, at |-> n]
<1>1. [r EXCEPT !.table = s, !.at = n] = [[r EXCEPT !.table = s] EXCEPT !.at = n]
  BY DEF OrderRow
<1>2. PICK d : d = [r EXCEPT !.table = s]
  OBVIOUS
<1>3. d = [status |-> r.status, table |-> s, parked |-> r.parked, items |-> r.items, at |-> r.at]
  BY <1>2, RowEdit
<1>4. d \in OrderRow
  BY <1>3 DEF OrderRow
<1>5. [d EXCEPT !.at = n] = [status |-> d.status, table |-> d.table, parked |-> d.parked, items |-> d.items, at |-> n]
  BY <1>4, RowEdit
<1>6. @ = [status |-> r.status, table |-> s, parked |-> r.parked, items |-> r.items, at |-> n]
  BY <1>3
<1> QED BY <1>1, <1>2, <1>5, <1>6

LEMMA SellEdit ==
    ASSUME NEW r \in OrderRow, NEW st \in {"none", "OPEN", "CHECKED_OUT"}, NEW n \in Nat
    PROVE  [r EXCEPT !.status = st, !.at = n] = [status |-> st, table |-> r.table, parked |-> r.parked, items |-> r.items, at |-> n]
<1>1. [r EXCEPT !.status = st, !.at = n] = [[r EXCEPT !.status = st] EXCEPT !.at = n]
  BY DEF OrderRow
<1>2. PICK d : d = [r EXCEPT !.status = st]
  OBVIOUS
<1>3. d = [status |-> st, table |-> r.table, parked |-> r.parked, items |-> r.items, at |-> r.at]
  BY <1>2, RowEdit
<1>4. d \in OrderRow
  BY <1>3 DEF OrderRow
<1>5. [d EXCEPT !.at = n] = [status |-> d.status, table |-> d.table, parked |-> d.parked, items |-> d.items, at |-> n]
  BY <1>4, RowEdit
<1>6. @ = [status |-> st, table |-> r.table, parked |-> r.parked, items |-> r.items, at |-> n]
  BY <1>3
<1> QED BY <1>1, <1>2, <1>5, <1>6

LEMMA StartEdit ==
    ASSUME NEW r \in OrderRow, NEW st \in {"none", "OPEN", "CHECKED_OUT"}, NEW s \in Spots \cup {NoSpot}
    PROVE  [r EXCEPT !.status = st, !.table = s] = [status |-> st, table |-> s, parked |-> r.parked, items |-> r.items, at |-> r.at]
<1>1. [r EXCEPT !.status = st, !.table = s] = [[r EXCEPT !.status = st] EXCEPT !.table = s]
  BY DEF OrderRow
<1>2. PICK d : d = [r EXCEPT !.status = st]
  OBVIOUS
<1>3. d = [status |-> st, table |-> r.table, parked |-> r.parked, items |-> r.items, at |-> r.at]
  BY <1>2, RowEdit
<1>4. d \in OrderRow
  BY <1>3 DEF OrderRow
<1>5. [d EXCEPT !.table = s] = [status |-> d.status, table |-> s, parked |-> d.parked, items |-> d.items, at |-> d.at]
  BY <1>4, RowEdit
<1>6. @ = [status |-> st, table |-> s, parked |-> r.parked, items |-> r.items, at |-> r.at]
  BY <1>3
<1> QED BY <1>1, <1>2, <1>5, <1>6

(* What a till does: it queues the rows, and stores some of them.          *)
Puts(t, rows) ==
    /\ local' = [u \in Tills |-> local'[u]] /\ sending' = [u \in Tills |-> sending'[u]]
    /\ \A u \in Tills \ {t} : local'[u] = local[u] /\ sending'[u] = sending[u]
    /\ DOMAIN sending'[t] = DOMAIN sending[t] \cup DOMAIN rows
    /\ DOMAIN local'[t] \subseteq DOMAIN local[t] \cup DOMAIN rows
    /\ \A c \in DOMAIN rows :
          /\ sending'[t][c].items = rows[c].items /\ sending'[t][c].table = rows[c].table
          /\ c \in DOMAIN local'[t] => local'[t][c].items = rows[c].items /\ local'[t][c].table = rows[c].table
    /\ \A c \in DOMAIN sending[t] \ DOMAIN rows : sending'[t][c] = sending[t][c]
    /\ \A c \in DOMAIN local'[t] \ DOMAIN rows : local'[t][c] = local[t][c]
PutsTyped(t, rows) ==
    \A c \in DOMAIN rows :
        /\ IsOrder(sending[t][c]) /\ sending[t][c].status # "none"
        /\ Stored(t, c) => IsOrder(local[t][c]) /\ local[t][c].status = "OPEN"

LEMMA PutsBegun ==
    ASSUME FloorTyped, NEW t \in Tills, NEW rows, DOMAIN rows \subseteq CartIds, Puts(t, rows), UNCHANGED carts
    PROVE  /\ Begun' = Begun \cup DOMAIN rows
           /\ \A u \in Tills, c \in CartIds : Stored(u, c)' => carts'[c].status # "none" \/ Sent(c)'
<1>1. \A c \in CartIds : Sent(c) => Sent(c)'
  BY DEF Sent, SentBy, Puts
<1>2. \A c \in DOMAIN rows : Sent(c)'
  BY DEF Sent, SentBy, Puts
<1>3. \A u \in Tills, c \in CartIds : Stored(u, c)' => Stored(u, c) \/ c \in DOMAIN rows
  BY DEF Stored, Puts
<1>4. \A c \in CartIds : Sent(c)' => Sent(c) \/ c \in DOMAIN rows
  BY DEF Sent, SentBy, Puts
<1>5. \A u \in Tills, c \in CartIds : Stored(u, c) => carts[c].status # "none" \/ Sent(c)
  BY DEF FloorTyped
<1>6. Begun = {c \in CartIds : carts[c].status # "none" \/ Sent(c)}
  BY <1>5 DEF Begun, Sent, SentBy
<1>7. \A u \in Tills, c \in CartIds : Stored(u, c)' => carts'[c].status # "none" \/ Sent(c)'
  BY <1>1, <1>2, <1>3, <1>5
<1>8. Begun' = {c \in CartIds : carts'[c].status # "none" \/ Sent(c)'}
  <2>1. Begun' = {c \in CartIds : carts'[c].status # "none" \/ \E u \in Tills : Stored(u, c)' \/ SentBy(u, c)'}
    BY DEF Begun, SentBy
  <2> QED BY <2>1, <1>7 DEF Sent
<1> QED
  BY <1>1, <1>2, <1>4, <1>6, <1>7, <1>8

LEMMA PutsType ==
    ASSUME FloorTyped, NEW t \in Tills, NEW rows, DOMAIN rows \subseteq CartIds, Puts(t, rows), PutsTyped(t, rows)',
           UNCHANGED <<carts, floor>>, doings' \in Nat, doings <= doings', contested' \in BOOLEAN,
           NEW n \in 0..MaxCarts, Begun \cup DOMAIN rows = 1..n,
           NEW d, current' = [current EXCEPT ![t] = d], d # 0 => d \in DOMAIN local'[t]
    PROVE  FloorTyped'
<1>1. \A r : IsOrder(r) => IsOrder(r)'
  BY DEF IsOrder, OrderRow, FloorTyped
<1>2. carts' = [c \in CartIds |-> carts'[c]] /\ \A c \in CartIds : IsOrder(carts[c])'
  BY <1>1 DEF FloorTyped, IsOrder
<1>3. local' = [u \in Tills |-> local'[u]] /\ sending' = [u \in Tills |-> sending'[u]]
  BY DEF Puts
<1>4. current' = [u \in Tills |-> current'[u]]
  BY DEF FloorTyped
<1>5. ASSUME NEW u \in Tills
      PROVE  /\ DOMAIN local'[u] \subseteq CartIds /\ DOMAIN sending'[u] \subseteq CartIds
             /\ \A c \in DOMAIN local'[u] : IsOrder(local[u][c])' /\ local'[u][c].status = "OPEN"
             /\ \A c \in DOMAIN sending'[u] : IsOrder(sending[u][c])' /\ sending'[u][c].status # "none"
             /\ current'[u] # 0 => Stored(u, current[u])'
  <2>1. CASE u # t
    <3>1. local'[u] = local[u] /\ sending'[u] = sending[u] /\ current'[u] = current[u]
      BY <2>1 DEF Puts, FloorTyped
    <3>2. \A r : IsOrder(r) => r \in OrderRow /\ r.at <= doings' /\ (r.parked => r.items # {})
      BY <1>1 DEF IsOrder
    <3>3. /\ DOMAIN local[u] \subseteq CartIds /\ DOMAIN sending[u] \subseteq CartIds
          /\ \A c \in DOMAIN local[u] : IsOrder(local[u][c]) /\ local[u][c].status = "OPEN"
          /\ \A c \in DOMAIN sending[u] : IsOrder(sending[u][c]) /\ sending[u][c].status # "none"
          /\ current[u] # 0 => current[u] \in DOMAIN local[u]
      BY DEF FloorTyped, Stored
    <3> QED BY <3>1, <3>2, <3>3 DEF Stored, IsOrder
  <2>2. CASE u = t
    <3>1. \A c \in DOMAIN local'[t] : IsOrder(local[t][c])' /\ local'[t][c].status = "OPEN"
      <4> SUFFICES ASSUME NEW c \in DOMAIN local'[t] PROVE IsOrder(local[t][c])' /\ local'[t][c].status = "OPEN"
        OBVIOUS
      <4>1. CASE c \in DOMAIN rows
        BY <4>1 DEF PutsTyped, Stored
      <4>2. CASE c \notin DOMAIN rows
        <5>1. local'[t][c] = local[t][c] /\ IsOrder(local[t][c]) /\ local[t][c].status = "OPEN"
          BY <4>2 DEF Puts, FloorTyped
        <5> QED BY <5>1 DEF IsOrder, OrderRow, FloorTyped
      <4> QED BY <4>1, <4>2
    <3>2. \A c \in DOMAIN sending'[t] : IsOrder(sending[t][c])' /\ sending'[t][c].status # "none"
      <4> SUFFICES ASSUME NEW c \in DOMAIN sending'[t] PROVE IsOrder(sending[t][c])' /\ sending'[t][c].status # "none"
        OBVIOUS
      <4>1. CASE c \in DOMAIN rows
        BY <4>1 DEF PutsTyped
      <4>2. CASE c \notin DOMAIN rows
        <5>1. sending'[t][c] = sending[t][c] /\ IsOrder(sending[t][c]) /\ sending[t][c].status # "none"
          BY <4>2 DEF Puts, FloorTyped
        <5> QED BY <5>1 DEF IsOrder, OrderRow, FloorTyped
      <4> QED BY <4>1, <4>2
    <3>3. DOMAIN local'[t] \subseteq CartIds /\ DOMAIN sending'[t] \subseteq CartIds
      BY DEF Puts, FloorTyped
    <3>4. current'[t] = d
      BY DEF FloorTyped
    <3> QED BY <2>2, <3>1, <3>2, <3>3, <3>4 DEF Stored
  <2> QED BY <2>1, <2>2
<1>6. Begun' = 1..n /\ \A u \in Tills, c \in CartIds : Stored(u, c)' => carts'[c].status # "none" \/ Sent(c)'
  BY PutsBegun
<1>7. \A c \in CartIds : carts'[c].at <= doings'
  BY <1>2 DEF IsOrder
<1> QED
  BY <1>2, <1>3, <1>4, <1>5, <1>6, <1>7 DEF FloorTyped

(* A row that can be queued: nobody else has the cart queued, what the     *)
(* server has of it is in the row, and its tables are the cart's own.      *)
Fits(t, c, r) ==
    /\ \A u \in Tills \ {t} : ~SentBy(u, c)
    /\ carts[c].status = "OPEN" =>
          /\ carts[c].items \subseteq r.items
          /\ \A s \in DiningSpots : carts[c].table = s => Claims(c, s)
    /\ \A s \in DiningSpots, d \in CartIds : r.table = s /\ Claims(d, s) => c = d

LEMMA PutsOrderly ==
    ASSUME FloorTyped, Orderly, NEW t \in Tills, NEW rows, DOMAIN rows \subseteq CartIds, Puts(t, rows),
           \A c \in DOMAIN rows : Fits(t, c, rows[c]),
           \A c, d \in DOMAIN rows : rows[c].table \in DiningSpots /\ rows[c].table = rows[d].table => c = d,
           UNCHANGED carts
    PROVE  Orderly'
<1>1. \A u \in Tills, c \in CartIds :
        SentBy(u, c)' => \/ SentBy(u, c) /\ sending'[u][c] = sending[u][c] /\ c \notin DOMAIN rows
                         \/ u = t /\ c \in DOMAIN rows
  <2> SUFFICES ASSUME NEW u \in Tills, NEW c \in CartIds, SentBy(u, c)'
               PROVE  \/ SentBy(u, c) /\ sending'[u][c] = sending[u][c] /\ c \notin DOMAIN rows
                      \/ u = t /\ c \in DOMAIN rows
    OBVIOUS
  <2>1. CASE u = t
    BY <2>1 DEF SentBy, Puts
  <2>2. CASE u # t
    <3>1. SentBy(u, c) /\ sending'[u][c] = sending[u][c]
      BY <2>2 DEF SentBy, Puts
    <3>2. c \notin DOMAIN rows
      BY <2>2, <3>1 DEF Fits
    <3> QED BY <3>1, <3>2
  <2> QED BY <2>1, <2>2
<1>2. \A u \in Tills, c \in CartIds :
        Stored(u, c)' => \/ Stored(u, c) /\ local'[u][c] = local[u][c]
                         \/ u = t /\ c \in DOMAIN rows
  BY DEF Stored, Puts
<1>3. \A c \in DOMAIN rows :
         /\ sending'[t][c].items = rows[c].items /\ sending'[t][c].table = rows[c].table
         /\ Stored(t, c)' => local'[t][c].items = rows[c].items /\ local'[t][c].table = rows[c].table
  BY DEF Puts, Stored
<1>4. \A u, v \in Tills, c \in CartIds : SentBy(u, c)' /\ SentBy(v, c)' => u = v
  BY <1>1 DEF Orderly
<1>5. ASSUME NEW u \in Tills, NEW c \in CartIds, SentBy(u, c)'
      PROVE  /\ carts'[c].status = "OPEN" => carts'[c].items \subseteq sending'[u][c].items
             /\ Stored(u, c)' => local'[u][c].items = sending'[u][c].items /\ local'[u][c].table = sending'[u][c].table
  <2>1. CASE u = t /\ c \in DOMAIN rows
    BY <2>1, <1>3 DEF Fits
  <2>2. CASE ~(u = t /\ c \in DOMAIN rows)
    <3>1. SentBy(u, c) /\ sending'[u][c] = sending[u][c]
      BY <1>1, <1>5, <2>2
    <3>2. Stored(u, c)' => Stored(u, c) /\ local'[u][c] = local[u][c]
      BY <1>2, <2>2
    <3> QED BY <3>1, <3>2 DEF Orderly
  <2> QED BY <2>1, <2>2
<1>6. ASSUME NEW c \in CartIds, NEW s \in DiningSpots, Claims(c, s)'
      PROVE  Claims(c, s) \/ (c \in DOMAIN rows /\ rows[c].table = s)
  <2>1. CASE \E u \in Tills : SentBy(u, c)' /\ sending'[u][c].table = s
    BY <2>1, <1>1, <1>3 DEF Claims
  <2>2. CASE \E u \in Tills : Stored(u, c)' /\ local'[u][c].table = s /\ local'[u][c].items = {}
    <3>1. PICK u \in Tills : Stored(u, c)' /\ local'[u][c].table = s /\ local'[u][c].items = {}
      BY <2>2
    <3>2. CASE u = t /\ c \in DOMAIN rows
      BY <3>1, <3>2, <1>3
    <3>3. CASE ~(u = t /\ c \in DOMAIN rows)
      BY <3>1, <3>3, <1>2 DEF Claims
    <3> QED BY <3>2, <3>3
  <2>3. CASE carts'[c].status = "OPEN" /\ carts'[c].table = s /\ (Sent(c)' \/ carts'[c].items # {})
    <3>1. Sent(c)' => Sent(c) \/ c \in DOMAIN rows
      BY <1>1 DEF Sent
    <3>2. CASE c \in DOMAIN rows
      BY <2>3, <3>2 DEF Fits
    <3>3. CASE c \notin DOMAIN rows
      BY <2>3, <3>1, <3>3 DEF Claims
    <3> QED BY <3>2, <3>3
  <2>4. \/ \E u \in Tills : SentBy(u, c)' /\ sending'[u][c].table = s
        \/ carts'[c].status = "OPEN" /\ carts'[c].table = s /\ (Sent(c)' \/ carts'[c].items # {})
        \/ \E u \in Tills : Stored(u, c)' /\ local'[u][c].table = s /\ local'[u][c].items = {}
    BY <1>6 DEF Claims
  <2> QED BY <2>1, <2>2, <2>3, <2>4
<1>7. ASSUME NEW c \in CartIds, NEW d \in CartIds, NEW s \in DiningSpots, Claims(c, s)', Claims(d, s)'
      PROVE  c = d
  <2>1. Claims(c, s) \/ (c \in DOMAIN rows /\ rows[c].table = s)
    BY <1>6, <1>7
  <2>2. Claims(d, s) \/ (d \in DOMAIN rows /\ rows[d].table = s)
    BY <1>6, <1>7
  <2>3. CASE Claims(c, s) /\ Claims(d, s)
    BY <2>3 DEF Orderly
  <2>4. CASE c \in DOMAIN rows /\ rows[c].table = s
    BY <2>2, <2>4 DEF Fits
  <2>5. CASE d \in DOMAIN rows /\ rows[d].table = s
    BY <2>1, <2>5 DEF Fits
  <2> QED BY <2>1, <2>2, <2>3, <2>4, <2>5
<1> QED
  BY <1>4, <1>5, <1>7 DEF Orderly

(* A cart that a till has stored, and that nobody went on with elsewhere.  *)
LEMMA GoesOn ==
    ASSUME FloorTyped, Orderly, NEW t \in Tills, NEW c \in CartIds, Stored(t, c), ~Behind(t, c)
    PROVE  /\ local[t][c] \in OrderRow
           /\ \A s \in DiningSpots : local[t][c].table = s => Claims(c, s)
           /\ \A r : local[t][c].items \subseteq r.items /\ r.table \in {NoSpot, local[t][c].table} => Fits(t, c, r)
<1>1. \A u \in Tills \ {t} : ~SentBy(u, c)
  BY DEF Behind, SentBy
<1>2. carts[c].status # "CHECKED_OUT" /\ carts[c] \in OrderRow /\ local[t][c] \in OrderRow
  BY DEF Behind, FloorTyped, Stored, IsOrder
<1>3. CASE SentBy(t, c)
  <2>1. /\ carts[c].status = "OPEN" => carts[c].items \subseteq sending[t][c].items
        /\ local[t][c].items = sending[t][c].items /\ local[t][c].table = sending[t][c].table
    BY <1>3 DEF Orderly
  <2>2. \A s \in DiningSpots : local[t][c].table = s => Claims(c, s)
    BY <1>3, <2>1 DEF Claims
  <2>3. \A s \in DiningSpots : carts[c].status = "OPEN" /\ carts[c].table = s => Claims(c, s)
    BY <1>3 DEF Claims, Sent
  <2> QED
    BY <1>1, <1>2, <2>1, <2>2, <2>3 DEF Fits, Orderly, DiningSpots
<1>4. CASE ~SentBy(t, c)
  <2>1. carts[c].status = "OPEN"
    <3>1. carts[c].status # "none" \/ Sent(c)
      BY DEF FloorTyped
    <3>2. ~Sent(c)
      BY <1>1, <1>4 DEF Sent
    <3> QED BY <1>2, <3>1, <3>2 DEF OrderRow
  <2>2. carts[c].items = local[t][c].items /\ carts[c].table = local[t][c].table
    <3>1. <<carts[c].items, carts[c].table>> = <<local[t][c].items, local[t][c].table>>
      BY <1>4, <2>1 DEF Behind, SentBy
    <3> QED BY <3>1
  <2>3. \A s \in DiningSpots : local[t][c].table = s => Claims(c, s)
    BY <2>1, <2>2 DEF Claims
  <2> QED
    BY <1>1, <1>2, <2>1, <2>2, <2>3 DEF Fits, Orderly, DiningSpots
<1> QED
  BY <1>3, <1>4

RowsTyped(rows) == DOMAIN rows \subseteq CartIds /\ \A c \in DOMAIN rows : IsOrder(rows[c]) /\ rows[c].status = "OPEN"

LEMMA StorePuts ==
    ASSUME FloorTyped, NEW t \in Tills, NEW rows, RowsTyped(rows), Store(t, rows), doings' = doings + 1
    PROVE  Puts(t, rows) /\ PutsTyped(t, rows)' /\ DOMAIN local'[t] = DOMAIN local[t] \cup DOMAIN rows
<1> PICK new : new = Stamped(rows)
  OBVIOUS
<1>1. /\ local' = [u \in Tills |-> local'[u]] /\ sending' = [u \in Tills |-> sending'[u]]
      /\ \A u \in Tills \ {t} : local'[u] = local[u] /\ sending'[u] = sending[u]
  BY DEF Store, FloorTyped
<1>2. local'[t] = [c \in DOMAIN local[t] \cup DOMAIN rows |-> IF c \in DOMAIN rows THEN new[c] ELSE local[t][c]]
  BY DEF Store, FloorTyped
<1>3. sending'[t] = [c \in DOMAIN sending[t] \cup DOMAIN rows |-> IF c \in DOMAIN rows THEN new[c] ELSE sending[t][c]]
  BY DEF Store, FloorTyped
<1>4. ASSUME NEW c \in DOMAIN rows
      PROVE  /\ new[c].items = rows[c].items /\ new[c].table = rows[c].table
             /\ IsOrder(new[c])' /\ new[c].status = "OPEN"
  <2>1. rows[c] \in OrderRow /\ (rows[c].parked => rows[c].items # {}) /\ rows[c].status = "OPEN" /\ doings + 1 \in Nat
    BY DEF RowsTyped, IsOrder, FloorTyped
  <2>2. PICK r : r = new[c]
    OBVIOUS
  <2>3. r = [rows[c] EXCEPT !.at = doings + 1]
    BY <2>2 DEF Stamped
  <2>4. r = [status |-> rows[c].status, table |-> rows[c].table, parked |-> rows[c].parked,
             items |-> rows[c].items, at |-> doings + 1]
    BY <2>1, <2>3, RowEdit
  <2>5. r \in OrderRow /\ r.at <= doings' /\ (r.parked => r.items # {})
    BY <2>1, <2>4 DEF OrderRow
  <2> QED BY <2>1, <2>2, <2>4, <2>5 DEF IsOrder
<1>5. Puts(t, rows)
  BY <1>1, <1>2, <1>3, <1>4 DEF Puts
<1>6. \A c \in DOMAIN rows : sending'[t][c] = new[c] /\ local'[t][c] = new[c]
  BY <1>2, <1>3
<1>7. PutsTyped(t, rows)'
  <2>1. ASSUME NEW c \in DOMAIN rows
        PROVE  IsOrder(sending[t][c])' /\ sending'[t][c].status # "none" /\ IsOrder(local[t][c])' /\ local'[t][c].status = "OPEN"
    BY <1>4, <1>6 DEF IsOrder
  <2> QED BY <2>1 DEF PutsTyped, Stored
<1> QED
  BY <1>2, <1>5, <1>7

LEMMA StoreKeeps ==
    ASSUME FloorInv, NEW t \in Tills, NEW rows, RowsTyped(rows), Store(t, rows), doings' = doings + 1, TillOnly,
           NEW n \in 0..MaxCarts, Begun \cup DOMAIN rows = 1..n,
           NEW d, current' = [current EXCEPT ![t] = d], d # 0 => d \in DOMAIN local[t] \cup DOMAIN rows,
           contested' \in BOOLEAN,
           ~contested' =>
               /\ ~contested /\ \A c \in DOMAIN rows : Fits(t, c, rows[c])
               /\ \A c, e \in DOMAIN rows : rows[c].table \in DiningSpots /\ rows[c].table = rows[e].table => c = e
    PROVE  FloorInv'
<1>1. FloorTyped /\ DOMAIN rows \subseteq CartIds /\ UNCHANGED <<carts, floor>>
  BY DEF FloorInv, RowsTyped, TillOnly
<1>2. Puts(t, rows) /\ PutsTyped(t, rows)' /\ DOMAIN local'[t] = DOMAIN local[t] \cup DOMAIN rows
  BY <1>1, StorePuts
<1>3. doings' \in Nat /\ doings <= doings'
  BY <1>1 DEF FloorTyped
<1>4. FloorTyped'
  BY <1>1, <1>2, <1>3, PutsType
<1>5. ASSUME ~contested' PROVE Orderly'
  BY <1>1, <1>2, <1>5, PutsOrderly DEF FloorInv
<1> QED
  BY <1>4, <1>5 DEF FloorInv

LEMMA StoredBegun == ASSUME FloorTyped PROVE \A t \in Tills : \A c \in DOMAIN local[t] : c \in CartIds /\ c \in Begun
  BY DEF FloorTyped, Begun, Stored
LEMMA NewOrderIs ==
    ASSUME FloorTyped, Cardinality(Begun) < MaxCarts
    PROVE  NewOrder \in CartIds \ Begun /\ \E n \in 0..MaxCarts : Begun \cup {NewOrder} = 1..n
<1>1. PICK n \in 0..MaxCarts : Begun = 1..n
  BY DEF FloorTyped
<1>2. n \in Nat /\ MaxCarts \in Nat /\ Cardinality(1..n) = n
  BY FS_Interval, FloorAssumption
<1>3. n + 1 \in CartIds /\ n + 1 \in 0..MaxCarts
  BY <1>1, <1>2 DEF CartIds
<1>4. NewOrder = n + 1
  BY <1>1, <1>2, <1>3 DEF NewOrder
<1> QED
  BY <1>1, <1>2, <1>3, <1>4

(* A new cart claims nothing yet.                                          *)
LEMMA NewFits ==
    ASSUME FloorTyped, NEW t \in Tills, NEW c \in CartIds \ Begun, NEW r,
           \A s \in DiningSpots : r.table = s => \A d \in CartIds : ~Claims(d, s)
    PROVE  Fits(t, c, r)
  BY DEF Fits, Begun, SentBy

LEMMA ParkedRows ==
    ASSUME FloorTyped, NEW t \in Tills
    PROVE  /\ RowsTyped(Parked(t)) /\ DOMAIN Parked(t) \subseteq {current[t]} /\ DOMAIN Parked(t) \subseteq DOMAIN local[t]
           /\ \A c \in DOMAIN Parked(t) : Parked(t)[c].items = local[t][c].items /\ Parked(t)[c].table = local[t][c].table
<1> DEFINE c == current[t]
<1>1. CASE c # 0 /\ local[t][c].items # {}
  <2>1. Parked(t) = [d \in {c} |-> [local[t][c] EXCEPT !.parked = TRUE]]
    BY <1>1 DEF Parked
  <2>2. c \in CartIds /\ c \in DOMAIN local[t] /\ IsOrder(local[t][c]) /\ local[t][c].status = "OPEN"
    BY <1>1 DEF FloorTyped, Stored
  <2>3. PICK r : r = [local[t][c] EXCEPT !.parked = TRUE]
    OBVIOUS
  <2>4. r = [status |-> local[t][c].status, table |-> local[t][c].table, parked |-> TRUE, items |-> local[t][c].items, at |-> local[t][c].at]
    BY <2>2, <2>3, RowEdit DEF IsOrder
  <2>5. IsOrder(r) /\ r.status = "OPEN" /\ r.items = local[t][c].items /\ r.table = local[t][c].table
    BY <1>1, <2>2, <2>4 DEF IsOrder, OrderRow
  <2> QED BY <2>1, <2>2, <2>3, <2>5 DEF RowsTyped
<1>2. CASE ~(c # 0 /\ local[t][c].items # {})
  <2>1. Parked(t) = << >>
    BY <1>2 DEF Parked
  <2> QED BY <2>1 DEF RowsTyped
<1> QED
  BY <1>1, <1>2

LEMMA AddItemKeeps == ASSUME FloorInv, NEW t \in Tills, AddItem(t) PROVE FloorInv'
<1>1. FloorTyped /\ Doing /\ doings \in Nat /\ doings' = doings + 1
  BY DEF FloorInv, AddItem, Doing, FloorTyped
<1>2. PICK c : c = IF current[t] = 0 THEN NewOrder ELSE current[t]
  OBVIOUS
<1>3. PICK row : row = IF current[t] = 0 THEN [NoOrder EXCEPT !.status = "OPEN"] ELSE local[t][c]
  OBVIOUS
<1>4. PICK r : r = [row EXCEPT !.items = @ \cup {doings}]
  OBVIOUS
<1>5. PICK rows : rows = [d \in {c} |-> r]
  OBVIOUS
<1>6. Store(t, rows) /\ current' = [current EXCEPT ![t] = c] /\ Contests(current[t] # 0 /\ Behind(t, c)) /\ TillOnly
  BY <1>2, <1>3, <1>4, <1>5 DEF AddItem
<1>7. /\ IsOrder(row) /\ row.status = "OPEN" /\ c \in CartIds
      /\ \E n \in 0..MaxCarts : Begun \cup {c} = 1..n
      /\ contested' \in BOOLEAN /\ (~contested' => ~contested)
      /\ ~contested' => \A e : row.items \subseteq e.items /\ e.table = row.table => Fits(t, c, e)
  <2>1. CASE current[t] = 0
    <3>1. Cardinality(Begun) < MaxCarts /\ c = NewOrder
      BY <2>1, <1>2 DEF AddItem
    <3>2. c \in CartIds \ Begun /\ \E n \in 0..MaxCarts : Begun \cup {c} = 1..n
      BY <1>1, <3>1, NewOrderIs
    <3>3. row = [status |-> "OPEN", table |-> NoSpot, parked |-> FALSE, items |-> {}, at |-> 0]
      BY <2>1, <1>3 DEF NoOrder
    <3>4. IsOrder(row) /\ row.status = "OPEN" /\ row.table = NoSpot
      BY <1>1, <3>3 DEF IsOrder, OrderRow
    <3>5. contested' \in BOOLEAN /\ (~contested' => ~contested)
      BY <1>1, <1>6, <2>1 DEF Contests, FloorTyped
    <3>6. \A e : e.table = row.table => Fits(t, c, e)
      BY <1>1, <3>2, <3>4, NewFits DEF DiningSpots
    <3> QED BY <3>2, <3>4, <3>5, <3>6
  <2>2. CASE current[t] # 0
    <3>1. c = current[t] /\ row = local[t][c]
      BY <2>2, <1>2, <1>3
    <3>2. Stored(t, c) /\ c \in CartIds /\ IsOrder(row) /\ row.status = "OPEN"
      BY <1>1, <2>2, <3>1 DEF FloorTyped, Stored
    <3>3. c \in Begun /\ \E n \in 0..MaxCarts : Begun \cup {c} = 1..n
      BY <1>1, <3>2, StoredBegun DEF FloorTyped, Stored
    <3> DEFINE b == Behind(t, c)
    <3>4. contested' = (contested \/ b)
      BY <1>6, <2>2 DEF Contests
    <3>5. ~contested' => ~contested /\ ~b
      <4> HIDE DEF b
      <4> QED BY <1>1, <3>4 DEF FloorTyped
    <3>6. contested' \in BOOLEAN
      <4> HIDE DEF b
      <4> QED BY <1>1, <3>4 DEF FloorTyped
    <3>7. ~contested' => \A e : row.items \subseteq e.items /\ e.table = row.table => Fits(t, c, e)
      BY <1>1, <3>1, <3>2, <3>5, GoesOn DEF FloorInv
    <3> QED BY <3>2, <3>3, <3>5, <3>6, <3>7
  <2> QED BY <2>1, <2>2
<1>8. r = [status |-> row.status, table |-> row.table, parked |-> row.parked, items |-> row.items \cup {doings}, at |-> row.at]
  BY <1>4, <1>7, RowEdit DEF IsOrder
<1>9. IsOrder(r) /\ r.status = "OPEN" /\ r.table = row.table /\ row.items \subseteq r.items
  BY <1>1, <1>7, <1>8 DEF IsOrder, OrderRow
<1>10. RowsTyped(rows) /\ DOMAIN rows = {c} /\ rows[c] = r
  BY <1>5, <1>7, <1>9 DEF RowsTyped
<1>11. ~contested' => \A d \in DOMAIN rows : Fits(t, d, rows[d])
  BY <1>7, <1>9, <1>10
<1> QED
  BY <1>1, <1>6, <1>7, <1>10, <1>11, StoreKeeps

LEMMA ParkKeeps == ASSUME FloorInv, NEW t \in Tills, ParkCart(t) PROVE FloorInv'
<1>1. FloorTyped /\ doings' = doings + 1
  BY DEF FloorInv, ParkCart, Doing
<1>2. PICK rows : rows = Parked(t)
  OBVIOUS
<1>3. Store(t, rows) /\ TillOnly /\ current' = [current EXCEPT ![t] = 0]
  BY <1>2 DEF ParkCart
<1>4. /\ RowsTyped(rows) /\ DOMAIN rows \subseteq {current[t]} /\ DOMAIN rows \subseteq DOMAIN local[t]
      /\ \A c \in DOMAIN rows : rows[c].items = local[t][c].items /\ rows[c].table = local[t][c].table
  BY <1>1, <1>2, ParkedRows
<1>5. PICK n \in 0..MaxCarts : Begun \cup DOMAIN rows = 1..n
  BY <1>1, <1>4, StoredBegun DEF FloorTyped
<1> DEFINE b == Behind(t, current[t])
<1>6. contested' = (contested \/ b)
  BY DEF ParkCart, Contests
<1>7. contested' \in BOOLEAN /\ (~contested' => ~contested /\ ~b)
  <2> HIDE DEF b
  <2> QED BY <1>1, <1>6 DEF FloorTyped
<1>8. ASSUME ~contested', NEW c \in DOMAIN rows PROVE Fits(t, c, rows[c])
  <2>1. c \in CartIds /\ Stored(t, c) /\ ~Behind(t, c) /\ Orderly
    BY <1>4, <1>7, <1>8 DEF Stored, RowsTyped, FloorInv
  <2> QED BY <1>1, <1>4, <2>1, GoesOn
<1>9. ~contested' =>
         /\ ~contested /\ \A c \in DOMAIN rows : Fits(t, c, rows[c])
         /\ \A c, e \in DOMAIN rows : rows[c].table \in DiningSpots /\ rows[c].table = rows[e].table => c = e
  BY <1>4, <1>7, <1>8
<1> HIDE DEF b
<1> QED
  BY <1>1, <1>3, <1>4, <1>5, <1>7, <1>9, StoreKeeps

LEMMA ClearTableKeeps == ASSUME FloorInv, NEW t \in Tills, ClearTable(t) PROVE FloorInv'
<1>1. FloorTyped /\ doings' = doings + 1 /\ TillOnly /\ UNCHANGED current
  BY DEF FloorInv, ClearTable, Doing
<1>2. PICK c : c = current[t]
  OBVIOUS
<1>3. Stored(t, c) /\ c \in CartIds /\ IsOrder(local[t][c]) /\ local[t][c].status = "OPEN"
  BY <1>1, <1>2 DEF ClearTable, FloorTyped, Stored
<1>4. PICK r : r = [local[t][c] EXCEPT !.table = NoSpot]
  OBVIOUS
<1>5. r = [status |-> local[t][c].status, table |-> NoSpot, parked |-> local[t][c].parked,
           items |-> local[t][c].items, at |-> local[t][c].at]
  BY <1>3, <1>4, RowEdit DEF IsOrder
<1>6. IsOrder(r) /\ r.status = "OPEN" /\ r.table = NoSpot /\ r.items = local[t][c].items
  BY <1>3, <1>5 DEF IsOrder, OrderRow
<1>7. PICK rows : rows = [d \in {c} |-> r]
  OBVIOUS
<1>8. RowsTyped(rows) /\ DOMAIN rows = {c} /\ rows[c] = r
  BY <1>3, <1>6, <1>7 DEF RowsTyped
<1>9. Store(t, rows) /\ current' = [current EXCEPT ![t] = c] /\ c \in DOMAIN local[t]
  BY <1>1, <1>2, <1>3, <1>4, <1>7 DEF ClearTable, FloorTyped, Stored
<1>10. PICK n \in 0..MaxCarts : Begun \cup DOMAIN rows = 1..n
  BY <1>1, <1>8, <1>9, StoredBegun DEF FloorTyped
<1> DEFINE b == Behind(t, c)
<1>11. contested' = (contested \/ b)
  BY <1>2 DEF ClearTable, Contests
<1>12. contested' \in BOOLEAN /\ (~contested' => ~contested /\ ~b)
  <2> HIDE DEF b
  <2> QED BY <1>1, <1>11 DEF FloorTyped
<1>13. ASSUME ~contested' PROVE Fits(t, c, r)
  <2>1. ~Behind(t, c) /\ Orderly
    BY <1>12, <1>13 DEF FloorInv
  <2> QED BY <1>1, <1>3, <1>6, <2>1, GoesOn
<1>14. ~contested' =>
         /\ ~contested /\ \A d \in DOMAIN rows : Fits(t, d, rows[d])
         /\ \A d, e \in DOMAIN rows : rows[d].table \in DiningSpots /\ rows[d].table = rows[e].table => d = e
  BY <1>8, <1>12, <1>13
<1> HIDE DEF b
<1> QED
  BY <1>1, <1>8, <1>9, <1>10, <1>12, <1>14, StoreKeeps

(* The carts a till takes up: the one it shows is parked, another shown.   *)
LEMMA TakeUpKeeps ==
    ASSUME FloorInv, NEW t \in Tills, NEW c \in CartIds, NEW row, IsOrder(row), row.status = "OPEN",
           Store(t, With(Parked(t), c, row)), current' = [current EXCEPT ![t] = c], doings' = doings + 1, TillOnly,
           c \in Begun, contested' \in BOOLEAN,
           ~contested' =>
               /\ ~contested /\ (Stored(t, current[t]) => ~Behind(t, current[t]))
               /\ Fits(t, c, row) /\ (row.table \in DiningSpots => Claims(c, row.table))
    PROVE  FloorInv'
<1>1. FloorTyped
  BY DEF FloorInv
<1>2. /\ RowsTyped(Parked(t)) /\ DOMAIN Parked(t) \subseteq {current[t]} /\ DOMAIN Parked(t) \subseteq DOMAIN local[t]
      /\ \A d \in DOMAIN Parked(t) : Parked(t)[d].items = local[t][d].items /\ Parked(t)[d].table = local[t][d].table
  BY <1>1, ParkedRows
<1>3. PICK parking : parking = Parked(t)
  OBVIOUS
<1>4. PICK rows : rows = With(parking, c, row)
  OBVIOUS
<1>5. /\ DOMAIN rows = DOMAIN parking \cup {c} /\ rows[c] = row
      /\ \A d \in DOMAIN parking \ {c} : rows[d] = parking[d]
  BY <1>4 DEF With
<1>6. RowsTyped(rows)
  BY <1>2, <1>3, <1>5 DEF RowsTyped
<1>7. PICK n \in 0..MaxCarts : Begun \cup DOMAIN rows = 1..n
  BY <1>1, <1>2, <1>3, <1>5, StoredBegun DEF FloorTyped
<1>8. ASSUME ~contested', NEW d \in DOMAIN rows
      PROVE  Fits(t, d, rows[d]) /\ (rows[d].table \in DiningSpots => Claims(d, rows[d].table))
  <2>1. CASE d = c
    BY <1>5, <1>8, <2>1
  <2>2. CASE d # c
    <3>1. d \in DOMAIN parking /\ rows[d] = parking[d] /\ d = current[t] /\ Stored(t, d) /\ d \in CartIds
      BY <1>2, <1>3, <1>5, <2>2 DEF Stored, RowsTyped
    <3>2. ~Behind(t, d) /\ Orderly
      BY <1>8, <3>1 DEF FloorInv
    <3>3. rows[d].items = local[t][d].items /\ rows[d].table = local[t][d].table
      BY <1>2, <1>3, <3>1
    <3> QED BY <1>1, <3>1, <3>2, <3>3, GoesOn
  <2> QED BY <2>1, <2>2
<1>9. ~contested' =>
         /\ ~contested /\ \A d \in DOMAIN rows : Fits(t, d, rows[d])
         /\ \A d, e \in DOMAIN rows : rows[d].table \in DiningSpots /\ rows[d].table = rows[e].table => d = e
  BY <1>6, <1>8 DEF Orderly, FloorInv, RowsTyped
<1>10. Store(t, rows) /\ (c # 0 => c \in DOMAIN local[t] \cup DOMAIN rows)
  BY <1>3, <1>4, <1>5
<1> QED
  BY <1>6, <1>7, <1>9, <1>10, StoreKeeps

LEMMA ResumeKeeps ==
    ASSUME FloorInv, NEW t \in Tills, NEW c, Resume(t, c), doings' = doings + 1, TillOnly, contested' \in BOOLEAN,
           ~contested' =>
               /\ ~contested /\ (Stored(t, current[t]) => ~Behind(t, current[t]))
               /\ ~Behind(t, c)
    PROVE  FloorInv'
<1>1. FloorTyped /\ Stored(t, c)
  BY DEF FloorInv, Resume
<1>2. c \in CartIds /\ c \in Begun /\ IsOrder(local[t][c]) /\ local[t][c].status = "OPEN"
  BY <1>1, StoredBegun DEF FloorTyped, Stored
<1>3. PICK row : row = [local[t][c] EXCEPT !.parked = FALSE]
  OBVIOUS
<1>4. row = [status |-> local[t][c].status, table |-> local[t][c].table, parked |-> FALSE,
             items |-> local[t][c].items, at |-> local[t][c].at]
  BY <1>2, <1>3, RowEdit DEF IsOrder
<1>5. IsOrder(row) /\ row.status = "OPEN" /\ row.table = local[t][c].table /\ row.items = local[t][c].items
  BY <1>2, <1>4 DEF IsOrder, OrderRow
<1>6. ~contested' => Fits(t, c, row) /\ (row.table \in DiningSpots => Claims(c, row.table))
  BY <1>1, <1>2, <1>5, GoesOn DEF FloorInv
<1>7. Store(t, With(Parked(t), c, row)) /\ current' = [current EXCEPT ![t] = c]
  BY <1>3 DEF Resume
<1> QED
  BY <1>2, <1>5, <1>6, <1>7, TakeUpKeeps

LEMMA ImportKeeps ==
    ASSUME FloorInv, NEW t \in Tills, NEW c \in CartIds, ImportFromServer(t, c), doings' = doings + 1, TillOnly,
           contested' \in BOOLEAN,
           ~contested' =>
               /\ ~contested /\ (Stored(t, current[t]) => ~Behind(t, current[t]))
               /\ \A u \in Tills : sending[u] = << >>
               /\ carts[c].items # {}
    PROVE  FloorInv'
<1>1. FloorTyped /\ carts[c].status = "OPEN" /\ IsOrder(carts[c]) /\ c \in Begun
  BY DEF FloorInv, ImportFromServer, FloorTyped, Begun
<1>2. PICK row : row = [carts[c] EXCEPT !.parked = FALSE]
  OBVIOUS
<1>3. row = [status |-> carts[c].status, table |-> carts[c].table, parked |-> FALSE,
             items |-> carts[c].items, at |-> carts[c].at]
  BY <1>1, <1>2, RowEdit DEF IsOrder
<1>4. IsOrder(row) /\ row.status = "OPEN" /\ row.table = carts[c].table /\ row.items = carts[c].items
  BY <1>1, <1>3 DEF IsOrder, OrderRow
<1>5. ASSUME ~contested' PROVE Fits(t, c, row) /\ (row.table \in DiningSpots => Claims(c, row.table))
  <2>1. \A u \in Tills : ~SentBy(u, c)
    BY <1>5 DEF SentBy
  <2>2. \A s \in DiningSpots : carts[c].table = s => Claims(c, s)
    BY <1>1, <1>5 DEF Claims
  <2>3. Orderly
    BY <1>5 DEF FloorInv
  <2> QED BY <1>4, <2>1, <2>2, <2>3 DEF Fits, Orderly
<1>6. Store(t, With(Parked(t), c, row)) /\ current' = [current EXCEPT ![t] = c]
  BY <1>2 DEF ImportFromServer
<1> QED
  BY <1>1, <1>4, <1>5, <1>6, TakeUpKeeps

LEMMA StartKeeps ==
    ASSUME FloorInv, NEW t \in Tills, NEW s \in Spots, StartOnTable(t, s), doings' = doings + 1, TillOnly,
           contested' \in BOOLEAN,
           ~contested' => ~contested /\ \A d \in CartIds : ~Claims(d, s)
    PROVE  FloorInv'
<1>1. FloorTyped /\ doings \in Nat
  BY DEF FloorInv, FloorTyped
<1>2. PICK c : c = NewOrder
  OBVIOUS
<1>3. c \in CartIds \ Begun /\ \E n \in 0..MaxCarts : Begun \cup {c} = 1..n
  BY <1>1, <1>2, NewOrderIs DEF StartOnTable
<1>4. PICK row : row = [NoOrder EXCEPT !.status = "OPEN", !.table = s]
  OBVIOUS
<1>5. NoOrder \in OrderRow
  BY DEF NoOrder, OrderRow
<1>6. row = [status |-> "OPEN", table |-> s, parked |-> NoOrder.parked, items |-> NoOrder.items, at |-> NoOrder.at]
  BY <1>4, <1>5, StartEdit
<1>7. IsOrder(row) /\ row.status = "OPEN" /\ row.table = s
  BY <1>1, <1>6 DEF NoOrder, IsOrder, OrderRow
<1>8. PICK rows : rows = [d \in {c} |-> row]
  OBVIOUS
<1>9. RowsTyped(rows) /\ DOMAIN rows = {c} /\ rows[c] = row
  BY <1>3, <1>7, <1>8 DEF RowsTyped
<1>10. Store(t, rows) /\ current' = [current EXCEPT ![t] = c]
  BY <1>2, <1>4, <1>8 DEF StartOnTable
<1>11. ~contested' => ~contested /\ Fits(t, c, row)
  BY <1>1, <1>3, <1>7, NewFits
<1>12. ~contested' =>
         /\ ~contested /\ \A d \in DOMAIN rows : Fits(t, d, rows[d])
         /\ \A d, e \in DOMAIN rows : rows[d].table \in DiningSpots /\ rows[d].table = rows[e].table => d = e
  BY <1>9, <1>11
<1> QED
  BY <1>3, <1>9, <1>10, <1>12, StoreKeeps

LEMMA ResumeHeldKeeps == ASSUME FloorInv, NEW t \in Tills, NEW c \in CartIds, ResumeHeld(t, c) PROVE FloorInv'
<1>1. FloorTyped /\ Resume(t, c) /\ doings' = doings + 1 /\ TillOnly
  BY DEF FloorInv, ResumeHeld, Doing
<1> DEFINE b == Behind(t, c) \/ (current[t] # 0 /\ Behind(t, current[t]))
<1>2. contested' = (contested \/ b)
  BY DEF ResumeHeld, Contests
<1>3. contested' \in BOOLEAN /\ (~contested' => ~contested /\ ~b)
  <2> HIDE DEF b
  <2> QED BY <1>1, <1>2 DEF FloorTyped
<1>4. Stored(t, current[t]) => current[t] # 0
  BY <1>1, FloorAssumption DEF FloorTyped, Stored, CartIds
<1> QED
  BY <1>1, <1>3, <1>4, ResumeKeeps

LEMMA SelectKeeps == ASSUME FloorInv, NEW t \in Tills, NEW s \in Spots, SelectTable(t, s) PROVE FloorInv'
<1>1. FloorTyped /\ doings' = doings + 1 /\ TillOnly /\ s \in DOMAIN floor[t] /\ OpenTable(t, s)
  BY DEF FloorInv, SelectTable, Doing
<1>2. PICK c : c = floor[t][s]
  OBVIOUS
<1>3. c \in CartIds \cup {0} /\ 0 \notin CartIds
  BY <1>1, <1>2, FloorAssumption DEF FloorTyped, CartIds
<1> DEFINE b == \/ InTheWay(t, s)
                \/ \E d \in {current[t], floor[t][s]} \ {0} : Stored(t, d) /\ Behind(t, d)
<1>4. contested' = (contested \/ b)
  BY DEF SelectTable, Contests
<1>5. contested' \in BOOLEAN /\ (~contested' => ~contested /\ ~b)
  <2> HIDE DEF b
  <2> QED BY <1>1, <1>4 DEF FloorTyped
<1>6. ASSUME ~contested'
      PROVE  /\ Stored(t, current[t]) => ~Behind(t, current[t])
             /\ Stored(t, c) => ~Behind(t, c)
             /\ floor[t] = Floor /\ \A u \in Tills : sending[u] = << >>
             /\ \A u \in Tills : \A d \in DOMAIN local[u] :
                   ~(local[u][d].table = s /\ local[u][d].items = {} /\ ~local[u][d].parked)
  <2>1. Stored(t, current[t]) => current[t] # 0
    BY <1>1, <1>3 DEF FloorTyped, Stored
  <2>2. Stored(t, c) => c # 0
    BY <1>1, <1>3 DEF FloorTyped, Stored
  <2>3. ~InTheWay(t, s)
    BY <1>5, <1>6
  <2> QED
    BY <1>2, <1>5, <1>6, <2>1, <2>2, <2>3 DEF InTheWay
<1>7. doings \in Nat /\ \A d \in CartIds : carts[d].at \in Nat /\ carts[d].at <= doings /\ IsOrder(carts[d])
  BY <1>1 DEF FloorTyped, IsOrder, OrderRow
<1>8. ASSUME ~contested'
      PROVE  /\ c # 0 => carts[c].items # {}
             /\ c = 0 => \A d \in CartIds : ~(carts[d].table = s /\ Shown(d))
  <2>1. c = ActiveCart(s)
    BY <1>1, <1>2, <1>6, <1>7, <1>8, FloorKnown
  <2>2. /\ ActiveCart(s) # 0 => carts[ActiveCart(s)].table = s /\ Shown(ActiveCart(s))
        /\ ActiveCart(s) = 0 => \A d \in CartIds : ~(carts[d].table = s /\ Shown(d))
    BY <1>7, NewestShown
  <2>3. c # 0 => carts[c].items # {}
    BY <1>3, <1>7, <2>1, <2>2 DEF Shown, IsOrder
  <2> QED BY <2>1, <2>2, <2>3
<1>9. CASE c = 0
  <2>1. StartOnTable(t, s)
    BY <1>1, <1>2, <1>9 DEF OpenTable
  <2>2. ASSUME ~contested', NEW d \in CartIds PROVE ~Claims(d, s)
    <3>1. \A u \in Tills : ~SentBy(u, d)
      BY <1>6, <2>2 DEF SentBy
    <3>2. ~(carts[d].status = "OPEN" /\ carts[d].table = s /\ (Sent(d) \/ carts[d].items # {}))
      BY <1>8, <1>9, <2>2, <3>1 DEF Shown, Sent
    <3>3. \A u \in Tills : ~(Stored(u, d) /\ local[u][d].table = s /\ local[u][d].items = {})
      BY <1>1, <1>6, <2>2 DEF Stored, FloorTyped, IsOrder
    <3> QED BY <3>1, <3>2, <3>3 DEF Claims
  <2> HIDE DEF b
  <2> QED BY <1>1, <1>5, <2>1, <2>2, StartKeeps
<1>10. CASE c # 0
  <2>1. CASE Resume(t, c)
    <3>1. Stored(t, c)
      BY <2>1 DEF Resume
    <3>2. ~contested' => ~contested /\ (Stored(t, current[t]) => ~Behind(t, current[t])) /\ ~Behind(t, c)
      BY <1>5, <1>6, <3>1
    <3> HIDE DEF b
    <3> QED BY <1>1, <1>5, <2>1, <3>2, ResumeKeeps
  <2>2. CASE ImportFromServer(t, c)
    <3>1. ~contested' => /\ ~contested /\ (Stored(t, current[t]) => ~Behind(t, current[t]))
                         /\ \A u \in Tills : sending[u] = << >>
                         /\ carts[c].items # {}
      BY <1>5, <1>6, <1>8, <1>10
    <3> HIDE DEF b
    <3> QED BY <1>1, <1>3, <1>5, <1>10, <2>2, <3>1, ImportKeeps
  <2> QED BY <1>1, <1>2, <1>10, <2>1, <2>2 DEF OpenTable
<1> QED
  BY <1>9, <1>10

LEMMA ClearKeeps == ASSUME FloorInv, NEW t \in Tills, ClearCart(t) PROVE FloorInv'
<1>1. /\ FloorTyped /\ UNCHANGED <<carts, floor, sending, contested>> /\ doings' = doings + 1
      /\ local' = [local EXCEPT ![t] = Less(@, current[t])] /\ current' = [current EXCEPT ![t] = 0]
  BY DEF FloorInv, ClearCart, Doing, TillOnly
<1>2. PICK rows : rows = << >>
  OBVIOUS
<1>3. DOMAIN rows = {} /\ rows = << >>
  BY <1>2
<1>4. /\ DOMAIN local'[t] = DOMAIN local[t] \ {current[t]} /\ \A c \in DOMAIN local'[t] : local'[t][c] = local[t][c]
      /\ \A u \in Tills \ {t} : local'[u] = local[u]
      /\ local' = [u \in Tills |-> local'[u]] /\ sending' = [u \in Tills |-> sending'[u]]
  BY <1>1 DEF FloorTyped, Less
<1>5. Puts(t, rows) /\ PutsTyped(t, rows)'
  BY <1>1, <1>3, <1>4 DEF Puts, PutsTyped
<1>6. PICK n \in 0..MaxCarts : Begun \cup DOMAIN rows = 1..n
  BY <1>1, <1>3 DEF FloorTyped
<1>7. doings' \in Nat /\ doings <= doings' /\ contested' \in BOOLEAN
  BY <1>1 DEF FloorTyped
<1>8. FloorTyped'
  BY <1>1, <1>3, <1>5, <1>6, <1>7, PutsType
<1>9. ASSUME ~contested' PROVE Orderly'
  <2>1. Orderly
    BY <1>1, <1>9 DEF FloorInv
  <2> QED BY <1>1, <1>3, <1>5, <2>1, PutsOrderly
<1> QED
  BY <1>8, <1>9 DEF FloorInv

LEMMA SellKeeps == ASSUME FloorInv, NEW t \in Tills, Sell(t) PROVE FloorInv'
<1>1. PICK c : c = current[t]
  OBVIOUS
<1>2. /\ FloorTyped /\ UNCHANGED <<carts, floor>> /\ doings' = doings + 1 /\ c # 0
      /\ local' = [local EXCEPT ![t] = Less(@, c)] /\ current' = [current EXCEPT ![t] = 0]
  BY <1>1 DEF FloorInv, Sell, Doing, TillOnly
<1>3. Stored(t, c) /\ c \in CartIds /\ IsOrder(local[t][c]) /\ c \in Begun
  BY <1>1, <1>2, StoredBegun DEF FloorTyped, Stored
<1>4. PICK r : r = [local[t][c] EXCEPT !.status = "CHECKED_OUT", !.at = doings + 1]
  OBVIOUS
<1>5. doings + 1 \in Nat /\ doings' \in Nat /\ doings <= doings'
  BY <1>2 DEF FloorTyped
<1>6. r = [status |-> "CHECKED_OUT", table |-> local[t][c].table, parked |-> local[t][c].parked,
           items |-> local[t][c].items, at |-> doings + 1]
  BY <1>3, <1>4, <1>5, SellEdit DEF IsOrder
<1>7. /\ r \in OrderRow /\ r.at <= doings' /\ (r.parked => r.items # {}) /\ r.status # "none"
      /\ r.items = local[t][c].items /\ r.table = local[t][c].table
  BY <1>2, <1>3, <1>5, <1>6 DEF IsOrder, OrderRow
<1>8. sending' = [sending EXCEPT ![t] = With(@, c, r)]
  BY <1>1, <1>4 DEF Sell
<1>9. PICK rows : rows = [d \in {c} |-> r]
  OBVIOUS
<1>10. /\ DOMAIN local'[t] = DOMAIN local[t] \ {c} /\ \A d \in DOMAIN local'[t] : local'[t][d] = local[t][d]
       /\ DOMAIN sending'[t] = DOMAIN sending[t] \cup {c} /\ sending'[t][c] = r
       /\ \A d \in DOMAIN sending[t] \ {c} : sending'[t][d] = sending[t][d]
       /\ \A u \in Tills \ {t} : local'[u] = local[u] /\ sending'[u] = sending[u]
       /\ local' = [u \in Tills |-> local'[u]] /\ sending' = [u \in Tills |-> sending'[u]]
  BY <1>2, <1>8 DEF FloorTyped, Less, With
<1>11. Puts(t, rows)
  BY <1>9, <1>10 DEF Puts
<1>12. PutsTyped(t, rows)'
  BY <1>7, <1>9, <1>10 DEF PutsTyped, IsOrder, Stored
<1>13. PICK n \in 0..MaxCarts : Begun \cup DOMAIN rows = 1..n
  BY <1>2, <1>3, <1>9 DEF FloorTyped
<1> DEFINE b == Behind(t, c)
<1>14. contested' = (contested \/ b)
  BY <1>1 DEF Sell, Contests
<1>15. contested' \in BOOLEAN /\ (~contested' => ~contested /\ ~b)
  <2> HIDE DEF b
  <2> QED BY <1>2, <1>14 DEF FloorTyped
<1>16. FloorTyped'
  <2> HIDE DEF b
  <2> QED BY <1>2, <1>3, <1>5, <1>9, <1>11, <1>12, <1>13, <1>15, PutsType
<1>17. ASSUME ~contested' PROVE Orderly'
  <2>1. ~Behind(t, c) /\ Orderly
    BY <1>15, <1>17 DEF FloorInv
  <2>2. Fits(t, c, r)
    BY <1>2, <1>3, <1>7, <2>1, GoesOn
  <2> QED BY <1>2, <1>3, <1>9, <1>11, <2>1, <2>2, PutsOrderly
<1> QED
  BY <1>16, <1>17 DEF FloorInv

(* What leaves carts, stores and queues alone.                             *)
LEMMA IdleFloorKeeps ==
    ASSUME FloorInv, UNCHANGED <<carts, local, sending, contested>>, doings' \in Nat, doings <= doings',
           current' = [t \in Tills |-> current'[t]],
           \A t \in Tills : current'[t] # 0 => current'[t] \in DOMAIN local[t],
           floor' = [t \in Tills |-> floor'[t]],
           \A t \in Tills : \A s \in DOMAIN floor'[t] : floor'[t][s] \in CartIds \cup {0}
    PROVE  FloorInv'
<1>1. FloorTyped
  BY DEF FloorInv
<1>2. \A r : IsOrder(r) => r \in OrderRow /\ r.at <= doings' /\ (r.parked => r.items # {})
  BY <1>1 DEF IsOrder, OrderRow, FloorTyped
<1>3. /\ carts' = [c \in CartIds |-> carts'[c]] /\ \A c \in CartIds : IsOrder(carts[c])'
      /\ local' = [t \in Tills |-> local'[t]] /\ sending' = [t \in Tills |-> sending'[t]]
  BY <1>1, <1>2 DEF FloorTyped, IsOrder
<1>4. \A t \in Tills :
          /\ DOMAIN local'[t] \subseteq CartIds /\ DOMAIN sending'[t] \subseteq CartIds
          /\ \A c \in DOMAIN local'[t] : IsOrder(local[t][c])' /\ local'[t][c].status = "OPEN"
          /\ \A c \in DOMAIN sending'[t] : IsOrder(sending[t][c])' /\ sending'[t][c].status # "none"
  BY <1>1, <1>2 DEF FloorTyped, IsOrder
<1>5. /\ \A t \in Tills, c \in CartIds : Stored(t, c)' => carts'[c].status # "none" \/ Sent(c)'
      /\ \E n \in 0..MaxCarts : Begun' = 1..n
      /\ contested' \in BOOLEAN
  BY <1>1 DEF FloorTyped, Stored, Sent, SentBy, Begun
<1>6. FloorTyped'
  BY <1>3, <1>4, <1>5 DEF FloorTyped, Stored
<1>7. ~contested' => Orderly'
  BY DEF FloorInv, Orderly, Claims, Stored, Sent, SentBy
<1> QED
  BY <1>6, <1>7 DEF FloorInv

LEMMA UpsertSteps ==
    ASSUME FloorTyped, NEW t \in Tills, NEW c \in CartIds, UpsertCart(t, c)
    PROVE  \E row \in OrderRow :
              /\ SentBy(t, c) /\ row = sending[t][c] /\ row.status # "none"
              /\ sending' = [u \in Tills |-> sending'[u]]
              /\ \A u \in Tills, d \in CartIds :
                    /\ SentBy(u, d)' <=> SentBy(u, d) /\ ~(u = t /\ d = c)
                    /\ SentBy(u, d)' => sending'[u][d] = sending[u][d]
              /\ \A u \in Tills : DOMAIN sending'[u] \subseteq DOMAIN sending[u]
              /\ \/ carts' = carts /\ carts[c].status = "OPEN"
                 \/ /\ carts' = [d \in CartIds |-> carts'[d]]
                    /\ carts'[c].status = row.status /\ carts'[c].table = row.table /\ carts'[c].items = row.items
                    /\ \A d \in CartIds \ {c} :
                          /\ carts'[d].status = carts[d].status /\ carts'[d].items = carts[d].items
                          /\ \/ carts'[d].table = carts[d].table
                             \/ /\ carts'[d].table = NoSpot /\ row.table # NoSpot
                                /\ carts[d].status = "OPEN" /\ carts[d].table = row.table
                    /\ \A d \in CartIds : IsOrder(carts'[d])
<1>1. PICK row : row = sending[t][c]
  OBVIOUS
<1>2. /\ SentBy(t, c) /\ row \in OrderRow /\ row.status # "none" /\ (row.parked => row.items # {}) /\ doings \in Nat
  BY <1>1 DEF UpsertCart, SentBy, FloorTyped, IsOrder
<1>3. sending' = [sending EXCEPT ![t] = Less(@, c)]
  BY DEF UpsertCart
<1>4. /\ sending' = [u \in Tills |-> sending'[u]]
      /\ DOMAIN sending'[t] = DOMAIN sending[t] \ {c} /\ \A d \in DOMAIN sending[t] \ {c} : sending'[t][d] = sending[t][d]
      /\ \A u \in Tills \ {t} : sending'[u] = sending[u]
  BY <1>3 DEF FloorTyped, Less
<1>5. /\ \A u \in Tills, d \in CartIds :
            /\ SentBy(u, d)' <=> SentBy(u, d) /\ ~(u = t /\ d = c)
            /\ SentBy(u, d)' => sending'[u][d] = sending[u][d]
      /\ \A u \in Tills : DOMAIN sending'[u] \subseteq DOMAIN sending[u]
  BY <1>4 DEF SentBy
<1>6. CASE ~Applies(c, row)
  <2>1. carts' = carts /\ carts[c].status = "OPEN"
    BY <1>1, <1>6 DEF UpsertCart, Applies
  <2> QED BY <1>1, <1>2, <1>4, <1>5, <2>1
<1>7. CASE Applies(c, row)
  <2>1. carts' = [d \in CartIds |->
                     IF d = c THEN [row EXCEPT !.at = doings]
                     ELSE IF row.table # NoSpot /\ carts[d].status = "OPEN" /\ carts[d].table = row.table
                     THEN [carts[d] EXCEPT !.table = NoSpot, !.at = doings] ELSE carts[d]]
    BY <1>1, <1>7 DEF UpsertCart
  <2>2. /\ carts'[c].status = row.status /\ carts'[c].table = row.table /\ carts'[c].items = row.items /\ IsOrder(carts'[c])
    <3>1. PICK r : r = [row EXCEPT !.at = doings]
      OBVIOUS
    <3>2. r = [status |-> row.status, table |-> row.table, parked |-> row.parked, items |-> row.items, at |-> doings]
      BY <1>2, <3>1, RowEdit
    <3>3. IsOrder(r)
      BY <1>2, <3>2 DEF IsOrder, OrderRow
    <3> QED BY <2>1, <3>1, <3>2, <3>3
  <2>3. ASSUME NEW d \in CartIds \ {c}
        PROVE  /\ carts'[d].status = carts[d].status /\ carts'[d].items = carts[d].items /\ IsOrder(carts'[d])
               /\ \/ carts'[d].table = carts[d].table
                  \/ /\ carts'[d].table = NoSpot /\ row.table # NoSpot
                     /\ carts[d].status = "OPEN" /\ carts[d].table = row.table
    <3>1. IsOrder(carts[d]) /\ carts[d] \in OrderRow
      BY DEF FloorTyped, IsOrder
    <3>2. CASE row.table # NoSpot /\ carts[d].status = "OPEN" /\ carts[d].table = row.table
      <4>1. PICK r : r = [carts[d] EXCEPT !.table = NoSpot, !.at = doings]
        OBVIOUS
      <4>2. r = [status |-> carts[d].status, table |-> NoSpot, parked |-> carts[d].parked,
                 items |-> carts[d].items, at |-> doings]
        <5>1. carts[d] \in OrderRow /\ NoSpot \in Spots \cup {NoSpot} /\ doings \in Nat
          BY <1>2, <3>1
        <5> QED BY <4>1, <5>1, ReleaseEdit
      <4>3. IsOrder(r)
        BY <1>2, <3>1, <4>2 DEF IsOrder, OrderRow
      <4>4. carts'[d] = r
        BY <2>1, <3>2, <4>1
      <4> QED BY <3>2, <4>2, <4>3, <4>4
    <3>3. CASE ~(row.table # NoSpot /\ carts[d].status = "OPEN" /\ carts[d].table = row.table)
      <4>1. carts'[d] = carts[d]
        BY <2>1, <3>3
      <4> QED BY <3>1, <4>1
    <3> QED BY <3>2, <3>3
  <2>4. carts' = [d \in CartIds |-> carts'[d]]
    BY <2>1
  <2> QED BY <1>1, <1>2, <1>4, <1>5, <2>2, <2>3, <2>4
<1> QED
  BY <1>6, <1>7

LEMMA UpsertKeepsFloor ==
    ASSUME FloorInv, NEW t \in Tills, NEW c \in CartIds, UpsertCart(t, c)
    PROVE  /\ FloorInv'
           /\ ~contested' =>
                 \A d \in CartIds : carts[d].status = "OPEN" /\ carts[d].items # {} =>
                    /\ carts[d].items \subseteq carts'[d].items
                    /\ carts'[d].table = carts[d].table \/ d = c
<1>1. FloorTyped /\ UNCHANGED <<local, current, floor, doings, contested>>
  BY DEF FloorInv, UpsertCart
<1>2. PICK row \in OrderRow :
              /\ SentBy(t, c) /\ row = sending[t][c] /\ row.status # "none"
              /\ sending' = [u \in Tills |-> sending'[u]]
              /\ \A u \in Tills, d \in CartIds :
                    /\ SentBy(u, d)' <=> SentBy(u, d) /\ ~(u = t /\ d = c)
                    /\ SentBy(u, d)' => sending'[u][d] = sending[u][d]
              /\ \A u \in Tills : DOMAIN sending'[u] \subseteq DOMAIN sending[u]
              /\ \/ carts' = carts /\ carts[c].status = "OPEN"
                 \/ /\ carts' = [d \in CartIds |-> carts'[d]]
                    /\ carts'[c].status = row.status /\ carts'[c].table = row.table /\ carts'[c].items = row.items
                    /\ \A d \in CartIds \ {c} :
                          /\ carts'[d].status = carts[d].status /\ carts'[d].items = carts[d].items
                          /\ \/ carts'[d].table = carts[d].table
                             \/ /\ carts'[d].table = NoSpot /\ row.table # NoSpot
                                /\ carts[d].status = "OPEN" /\ carts[d].table = row.table
                    /\ \A d \in CartIds : IsOrder(carts'[d])
  BY <1>1, UpsertSteps
<1>3. FloorTyped'
  <2>1. carts' = [d \in CartIds |-> carts'[d]] /\ \A d \in CartIds : IsOrder(carts[d])'
    BY <1>1, <1>2 DEF FloorTyped, IsOrder
  <2>2. \A u \in Tills :
          /\ DOMAIN local'[u] \subseteq CartIds
          /\ \A d \in DOMAIN local'[u] : IsOrder(local[u][d])' /\ local'[u][d].status = "OPEN"
          /\ current'[u] # 0 => Stored(u, current[u])'
    BY <1>1 DEF FloorTyped, IsOrder, Stored
  <2>3. \A u \in Tills :
          /\ DOMAIN sending'[u] \subseteq CartIds
          /\ \A d \in DOMAIN sending'[u] : IsOrder(sending[u][d])' /\ sending'[u][d].status # "none"
    <3> SUFFICES ASSUME NEW u \in Tills
                 PROVE  /\ DOMAIN sending'[u] \subseteq CartIds
                        /\ \A d \in DOMAIN sending'[u] : IsOrder(sending[u][d])' /\ sending'[u][d].status # "none"
      OBVIOUS
    <3>1. /\ DOMAIN sending[u] \subseteq CartIds
          /\ \A d \in DOMAIN sending[u] : IsOrder(sending[u][d]) /\ sending[u][d].status # "none"
      BY <1>1 DEF FloorTyped
    <3>2. \A d \in DOMAIN sending'[u] : sending'[u][d] = sending[u][d]
      BY <1>2, <3>1 DEF SentBy
    <3> QED BY <1>1, <1>2, <3>1, <3>2 DEF IsOrder
  <2>4. \A d \in CartIds : Sent(d)' \/ carts'[d].status # "none" <=> Sent(d) \/ carts[d].status # "none"
    <3> SUFFICES ASSUME NEW d \in CartIds
                 PROVE  (Sent(d)' \/ carts'[d].status # "none") <=> (Sent(d) \/ carts[d].status # "none")
      OBVIOUS
    <3>1. CASE d = c
      BY <1>2, <3>1 DEF Sent
    <3>2. CASE d # c
      BY <1>2, <3>2 DEF Sent
    <3> QED BY <3>1, <3>2
  <2>5. \A u \in Tills, d \in CartIds : Stored(u, d)' => carts'[d].status # "none" \/ Sent(d)'
    BY <1>1, <2>4 DEF FloorTyped, Stored
  <2>6. Begun' = Begun
    <3>1. Begun = {d \in CartIds : (Sent(d) \/ carts[d].status # "none") \/ \E u \in Tills : Stored(u, d)}
      BY DEF Begun, Sent, SentBy
    <3>2. Begun' = {d \in CartIds : (Sent(d)' \/ carts'[d].status # "none") \/ \E u \in Tills : Stored(u, d)'}
      BY DEF Begun, Sent, SentBy
    <3>3. \A u, d : Stored(u, d)' <=> Stored(u, d)
      BY <1>1 DEF Stored
    <3> QED BY <2>4, <3>1, <3>2, <3>3
  <2>7. \E n \in 0..MaxCarts : Begun' = 1..n
    BY <1>1, <2>6 DEF FloorTyped
  <2> QED BY <1>1, <1>2, <2>1, <2>2, <2>3, <2>5, <2>7 DEF FloorTyped
<1>4. ASSUME ~contested', NEW d \in CartIds, d # c, carts[d].status = "OPEN", carts[d].items # {}
      PROVE  carts'[d].table = carts[d].table
  <2>1. Orderly
    BY <1>1, <1>4 DEF FloorInv
  <2>2. ASSUME row.table # NoSpot, carts[d].table = row.table PROVE FALSE
    <3>1. row.table \in DiningSpots
      BY <2>2 DEF DiningSpots, OrderRow
    <3>2. Claims(c, row.table) /\ Claims(d, row.table)
      BY <1>2, <1>4, <2>2 DEF Claims
    <3> QED BY <1>4, <2>1, <3>1, <3>2 DEF Orderly
  <2> QED BY <1>2, <1>4, <2>2
<1>5. ASSUME ~contested', carts[c].status = "OPEN"
      PROVE  carts[c].items \subseteq carts'[c].items
  <2>1. carts[c].items \subseteq row.items
    BY <1>1, <1>2, <1>5 DEF FloorInv, Orderly
  <2> QED BY <1>2, <2>1
<1>6. ASSUME ~contested' PROVE Orderly'
  <2>1. Orderly
    BY <1>1, <1>6 DEF FloorInv
  <2>2. \A u, v \in Tills, d \in CartIds : SentBy(u, d)' /\ SentBy(v, d)' => u = v
    BY <1>2, <2>1 DEF Orderly
  <2>3. ASSUME NEW u \in Tills, NEW d \in CartIds, SentBy(u, d)'
        PROVE  /\ carts'[d].status = "OPEN" => carts'[d].items \subseteq sending'[u][d].items
               /\ Stored(u, d)' => local'[u][d].items = sending'[u][d].items /\ local'[u][d].table = sending'[u][d].table
    <3>1. SentBy(u, d) /\ sending'[u][d] = sending[u][d] /\ d # c
      BY <1>2, <2>1, <2>3 DEF Orderly
    <3>2. carts'[d].status = carts[d].status /\ carts'[d].items = carts[d].items
      BY <1>2, <3>1
    <3> QED BY <1>1, <2>1, <3>1, <3>2 DEF Orderly, Stored
  <2>4. ASSUME NEW d \in CartIds, NEW s \in DiningSpots, Claims(d, s)'
        PROVE  Claims(d, s)
    <3>1. CASE \E u \in Tills : SentBy(u, d)' /\ sending'[u][d].table = s
      BY <1>2, <3>1 DEF Claims
    <3>2. CASE \E u \in Tills : Stored(u, d)' /\ local'[u][d].table = s /\ local'[u][d].items = {}
      BY <1>1, <3>2 DEF Claims, Stored
    <3>3. CASE carts'[d].status = "OPEN" /\ carts'[d].table = s /\ (Sent(d)' \/ carts'[d].items # {})
      <4>1. Sent(d)' => Sent(d)
        BY <1>2 DEF Sent
      <4>2. CASE d # c
        BY <1>2, <3>3, <4>1, <4>2 DEF Claims, DiningSpots
      <4>3. CASE d = c
        BY <1>2, <3>3, <4>1, <4>3 DEF Claims
      <4> QED BY <4>2, <4>3
    <3>4. \/ \E u \in Tills : SentBy(u, d)' /\ sending'[u][d].table = s
          \/ carts'[d].status = "OPEN" /\ carts'[d].table = s /\ (Sent(d)' \/ carts'[d].items # {})
          \/ \E u \in Tills : Stored(u, d)' /\ local'[u][d].table = s /\ local'[u][d].items = {}
      BY <2>4 DEF Claims
    <3> QED BY <3>1, <3>2, <3>3, <3>4
  <2>5. \A d, e \in CartIds, s \in DiningSpots : Claims(d, s)' /\ Claims(e, s)' => d = e
    BY <2>1, <2>4 DEF Orderly
  <2> QED BY <2>2, <2>3, <2>5 DEF Orderly
<1>7. ASSUME ~contested', NEW d \in CartIds, carts[d].status = "OPEN", carts[d].items # {}
      PROVE  carts[d].items \subseteq carts'[d].items /\ (carts'[d].table = carts[d].table \/ d = c)
  <2>1. CASE d = c
    BY <1>5, <1>7, <2>1
  <2>2. CASE d # c
    BY <1>2, <1>4, <1>7, <2>2
  <2> QED BY <2>1, <2>2
<1> QED
  BY <1>3, <1>6, <1>7 DEF FloorInv

KeptOnTable ==
    ~contested' =>
        \A c \in CartIds : carts[c].status = "OPEN" /\ carts[c].items # {} =>
            /\ carts[c].items \subseteq carts'[c].items
            /\ carts'[c].table = carts[c].table \/ \E t \in Tills : sending[t] # sending'[t] /\ c \in DOMAIN sending[t]

LEMMA StepFloorInv == FloorInv /\ [FloorNext]_floorVars => FloorInv' /\ KeptOnTable
<1> SUFFICES ASSUME FloorInv, [FloorNext]_floorVars PROVE FloorInv' /\ KeptOnTable
  OBVIOUS
<1>1. FloorTyped /\ doings \in Nat
  BY DEF FloorInv, FloorTyped
<1>2. UNCHANGED carts => KeptOnTable
  BY DEF KeptOnTable
<1>3. ASSUME NEW t \in Tills, LoadFloor(t) PROVE FloorInv' /\ KeptOnTable
  <2>1. \A s \in DOMAIN Floor : Floor[s] \in CartIds \cup {0}
    BY <1>1, FloorKnown DEF FloorTyped, IsOrder, OrderRow
  <2>2. UNCHANGED <<carts, local, sending, current, contested, doings>> /\ floor' = [floor EXCEPT ![t] = Floor]
    BY <1>3 DEF LoadFloor, cartVars
  <2>3. floor' = [u \in Tills |-> floor'[u]] /\ \A u \in Tills : \A s \in DOMAIN floor'[u] : floor'[u][s] \in CartIds \cup {0}
    BY <1>1, <2>1, <2>2 DEF FloorTyped
  <2>4. current' = [u \in Tills |-> current'[u]] /\ \A u \in Tills : current'[u] # 0 => current'[u] \in DOMAIN local[u]
    BY <1>1, <2>2 DEF FloorTyped, Stored
  <2> QED BY <1>1, <1>2, <2>2, <2>3, <2>4, IdleFloorKeeps
<1>4. ASSUME NEW t \in Tills, LoadOpenCart(t) PROVE FloorInv' /\ KeptOnTable
  <2>1. UNCHANGED <<carts, local, sending, contested, floor>> /\ doings' = doings + 1
    BY <1>4 DEF LoadOpenCart, TillOnly, Doing
  <2>2. PICK c \in {0} \cup DOMAIN local[t] : current' = [current EXCEPT ![t] = c]
    BY <1>4 DEF LoadOpenCart
  <2>3. current' = [u \in Tills |-> current'[u]] /\ \A u \in Tills : current'[u] # 0 => current'[u] \in DOMAIN local[u]
    BY <1>1, <2>2 DEF FloorTyped, Stored
  <2>4. floor' = [u \in Tills |-> floor'[u]] /\ \A u \in Tills : \A s \in DOMAIN floor'[u] : floor'[u][s] \in CartIds \cup {0}
    BY <1>1, <2>1 DEF FloorTyped
  <2> QED BY <1>1, <1>2, <2>1, <2>3, <2>4, IdleFloorKeeps
<1>5. ASSUME UNCHANGED <<carts, cartVars, floor, contested>>, doings' \in {doings, doings + 1} PROVE FloorInv' /\ KeptOnTable
  <2>1. current' = [u \in Tills |-> current'[u]] /\ \A u \in Tills : current'[u] # 0 => current'[u] \in DOMAIN local[u]
    BY <1>1, <1>5 DEF FloorTyped, Stored, cartVars
  <2>2. floor' = [u \in Tills |-> floor'[u]] /\ \A u \in Tills : \A s \in DOMAIN floor'[u] : floor'[u][s] \in CartIds \cup {0}
    BY <1>1, <1>5 DEF FloorTyped
  <2>3. UNCHANGED <<carts, local, sending, contested>> /\ doings' \in Nat /\ doings <= doings'
    BY <1>1, <1>5 DEF cartVars
  <2> QED BY <1>2, <2>1, <2>2, <2>3, IdleFloorKeeps
<1>6. ASSUME NEW t \in Tills, AddItem(t) \/ ParkCart(t) \/ ClearTable(t) \/ ClearCart(t) \/ Sell(t)
      PROVE  FloorInv' /\ KeptOnTable
  <2>1. UNCHANGED carts
    BY <1>6 DEF AddItem, ParkCart, ClearTable, ClearCart, Sell, TillOnly
  <2> QED BY <1>2, <1>6, <2>1, AddItemKeeps, ParkKeeps, ClearTableKeeps, ClearKeeps, SellKeeps
<1>7. ASSUME NEW t \in Tills, NEW c \in CartIds, ResumeHeld(t, c) PROVE FloorInv' /\ KeptOnTable
  BY <1>2, <1>7, ResumeHeldKeeps DEF ResumeHeld, TillOnly
<1>8. ASSUME NEW t \in Tills, NEW s \in Spots, SelectTable(t, s) PROVE FloorInv' /\ KeptOnTable
  BY <1>2, <1>8, SelectKeeps DEF SelectTable, TillOnly
<1>9. ASSUME NEW t \in Tills, NEW c \in CartIds, UpsertCart(t, c) PROVE FloorInv' /\ KeptOnTable
  <2>1. c \in DOMAIN sending[t] /\ sending'[t] = Less(sending[t], c)
    BY <1>1, <1>9 DEF UpsertCart, FloorTyped
  <2>2. DOMAIN sending'[t] = DOMAIN sending[t] \ {c}
    BY <2>1 DEF Less
  <2>3. sending[t] # sending'[t] /\ c \in DOMAIN sending[t]
    BY <2>1, <2>2
  <2> QED BY <1>9, <2>3, UpsertKeepsFloor DEF KeptOnTable
<1>10. ASSUME NEW s \in Spots, AddDiningTable(s) \/ ToggleDiningTable(s) PROVE FloorInv' /\ KeptOnTable
  BY <1>5, <1>10 DEF AddDiningTable, ToggleDiningTable, Doing
<1>11. CASE ToggleTableArea
  BY <1>5, <1>11 DEF ToggleTableArea, Doing
<1>12. CASE UNCHANGED floorVars
  BY <1>5, <1>12 DEF floorVars, cartVars
<1> QED
  BY <1>3, <1>4, <1>6, <1>7, <1>8, <1>9, <1>10, <1>11, <1>12 DEF FloorNext

(* Tills that tap tables with their floor loaded and everything sent, and  *)
(* that go on with carts where the last one left them, keep what is on     *)
(* every table, for any number of tills, tables, carts and doings: no open *)
(* cart loses an item, nor its table to another cart (tables.service.ts    *)
(* getFloor, pos.service.ts upsertCart, cart.store.ts).                    *)
THEOREM TablesKeepTheirItems == FloorSpec => TablesKeepItems
<1>1. FloorInv /\ [FloorNext]_floorVars => [KeptOnTable]_floorVars
  BY StepFloorInv
<1> QED
  BY InitFloorInv, StepFloorInv, <1>1, PTL DEF FloorSpec, TablesKeepItems, KeptOnTable
-------------------------------------------------------------------------------
(***************************************************************************)
(* KitchenOrders: a dish that was fired is on one open order of its cart.  *)
(***************************************************************************)

LineStates == {"none", "PENDING", "PREPARING", "READY", "DONE", "CANCELLED"}

(* What the requests under way carry: a fire the order of its cart, a bump *)
(* a dish that was open, and it closes an order only with the last dish.   *)
RequestsTyped ==
    /\ \A p \in posts : p.item \in Items
    /\ \A f \in fires : /\ f.item \in Items /\ f.order \in Orders \cup {NoTicket}
                        /\ f.order # NoTicket => order[f.order] # "none" /\ owner[f.order] = Cart[f.item]
    /\ \A b \in bumps : /\ b.line \in Lines /\ b.from \in Open /\ b.to \in LineStates \ {"none"}
                        /\ lineIs[b.line] # "none" /\ (b.close => b.to \notin Open)
    /\ \A s \in sales : s.orders \subseteq Orders /\ s.found \subseteq Lines /\ \A o \in s.orders : order[o] # "none"

KitchenTyped ==
    /\ DOMAIN owner = Orders /\ order \in [Orders -> {"none", "OPEN", "DONE"}]
    /\ lineIs \in [Lines -> LineStates]
    /\ overtaken \in BOOLEAN
    /\ RequestsTyped

(* A dish is on an order of its own cart; while no two transactions have   *)
(* met on a cart, it has one open order, and an open dish is on that.      *)
OnOwnOrder == \A o \in Orders, i \in Items : lineIs[<<o, i>>] # "none" => order[o] # "none" /\ owner[o] = Cart[i]
OneOrder == \A o, p \in Orders : order[o] = "OPEN" /\ order[p] = "OPEN" /\ owner[o] = owner[p] => o = p
OnOpenOrder == \A o \in Orders, i \in Items : lineIs[<<o, i>>] \in Open => order[o] = "OPEN"

KitchenInv == KitchenTyped /\ OnOwnOrder /\ (~overtaken => OneOrder /\ OnOpenOrder)

LEMMA OrdersAreNumbers == NoTicket \notin Orders /\ Orders \subseteq Nat
BY KitchenAssumption DEF NoTicket, Orders

LEMMA InitKitchenInv == KitchenInit => KitchenInv
<1> SUFFICES ASSUME KitchenInit PROVE KitchenInv
  OBVIOUS
<1>1. KitchenTyped
  BY DEF KitchenInit, KitchenTyped, RequestsTyped, LineStates
<1>2. OnOwnOrder /\ OneOrder /\ OnOpenOrder
  BY DEF KitchenInit, OnOwnOrder, OneOrder, OnOpenOrder, Open, Lines
<1> QED
  BY <1>1, <1>2 DEF KitchenInv

(* Steps that touch no order.                                              *)
LEMMA TicketsSame ==
    ASSUME KitchenInv, UNCHANGED <<owner, order, lineIs, overtaken>>, RequestsTyped'
    PROVE  KitchenInv'
BY DEF KitchenInv, KitchenTyped, OnOwnOrder, OneOrder, OnOpenOrder

LEMMA TillKeeps ==
    ASSUME KitchenInv,
           \/ \E i \in Items : AddDish(i) \/ \E n \in 0 .. MaxQuantity : SetDishQuantity(i, n)
           \/ \E p \in posts : LosePost(p) \/ BeginFire(p)
           \/ \E c \in {Cart[i] : i \in Items} : BeginSale(c) \/ \E g \in SUBSET Seated(c) : CheckoutDishes(c, g)
           \/ \E s \in Switched : SwitchStation(s)
           \/ UNCHANGED kitchenVars
    PROVE  KitchenInv'
<1>1. UNCHANGED <<owner, order, lineIs, overtaken>>
  BY DEF AddDish, SetDishQuantity, LosePost, BeginFire, BeginSale, CheckoutDishes, SwitchStation, tickets, kitchenVars
<1>2. \A p \in posts' : p.item \in Items
  BY DEF AddDish, SetDishQuantity, LosePost, BeginFire, BeginSale, CheckoutDishes, SwitchStation, till, tickets, work,
         kitchenVars, KitchenInv, KitchenTyped, RequestsTyped
<1>3. \A b \in bumps' : b \in bumps
  BY DEF AddDish, SetDishQuantity, LosePost, BeginFire, BeginSale, CheckoutDishes, SwitchStation, work, kitchenVars
<1>4. ASSUME NEW f \in fires'
      PROVE  /\ f.item \in Items /\ f.order \in Orders \cup {NoTicket}
             /\ f.order # NoTicket => order[f.order] # "none" /\ owner[f.order] = Cart[f.item]
  <2>1. CASE f \in fires
    BY <2>1 DEF KitchenInv, KitchenTyped, RequestsTyped
  <2>2. CASE f \notin fires
    <3>1. PICK p \in posts : BeginFire(p)
      BY <2>2 DEF AddDish, SetDishQuantity, LosePost, BeginSale, CheckoutDishes, SwitchStation, work, kitchenVars
    <3>2. PICK o \in Orders \cup {NoTicket} :
            /\ f = [item |-> p.item, quantity |-> p.quantity, order |-> o]
            /\ o # NoTicket => o \in OrdersOf(Cart[p.item])
      BY <2>2, <3>1 DEF BeginFire, OrdersOf
    <3> QED
      BY <3>2 DEF OrdersOf, KitchenInv, KitchenTyped, RequestsTyped
  <2> QED
    BY <2>1, <2>2
<1>5. ASSUME NEW s \in sales'
      PROVE s.orders \subseteq Orders /\ s.found \subseteq Lines /\ \A o \in s.orders : order[o] # "none"
  <2>1. s \in sales \/ \E c : s = [cart |-> c, orders |-> OrdersOf(c), cleared |-> {}, found |-> {}]
    BY DEF AddDish, SetDishQuantity, LosePost, BeginFire, BeginSale, CheckoutDishes, SwitchStation, work, kitchenVars
  <2> QED
    BY <2>1 DEF OrdersOf, KitchenInv, KitchenTyped, RequestsTyped
<1>6. RequestsTyped'
  BY <1>1, <1>2, <1>3, <1>4, <1>5 DEF RequestsTyped, KitchenInv, KitchenTyped
<1> QED
  BY <1>1, <1>6, TicketsSame

(* A fire puts its dish on the order it read, or on a new one.             *)
LEMMA FireKeeps == ASSUME KitchenInv, NEW f \in fires, CommitFire(f) PROVE KitchenInv'
<1>1. /\ f.item \in Items /\ f.order \in Orders \cup {NoTicket} /\ fires' = fires \ {f}
      /\ UNCHANGED <<posts, bumps, sales>>
  BY DEF CommitFire, till, KitchenInv, KitchenTyped, RequestsTyped
<1>2. PICK o \in Orders :
        /\ lineIs' \in {lineIs, [lineIs EXCEPT ![<<o, f.item>>] = "PENDING"]}
        /\ IF f.order # NoTicket
           THEN o = f.order /\ UNCHANGED <<owner, order>> /\ (~overtaken' => ~overtaken /\ order[o] = "OPEN")
           ELSE /\ order[o] = "none" /\ owner' = [owner EXCEPT ![o] = Cart[f.item]]
                /\ order' = [order EXCEPT ![o] = "OPEN"] /\ (~overtaken' => ~overtaken /\ OrdersOf(Cart[f.item]) = {})
  BY <1>1 DEF CommitFire, Fired, Unused, Overtaken, KitchenInv, KitchenTyped
<1>3. /\ \A p \in Orders : p # o => order'[p] = order[p] /\ owner'[p] = owner[p]
      /\ order'[o] # "none" /\ owner'[o] = Cart[f.item]
      /\ \A p \in Orders : order[p] # "none" => order'[p] = order[p] /\ owner'[p] = owner[p]
  BY <1>1, <1>2, OrdersAreNumbers DEF KitchenInv, KitchenTyped, RequestsTyped
<1>4. /\ lineIs' \in [Lines -> LineStates]
      /\ \A p \in Orders, i \in Items : <<p, i>> # <<o, f.item>> => lineIs'[<<p, i>>] = lineIs[<<p, i>>]
  BY <1>1, <1>2 DEF KitchenInv, KitchenTyped, LineStates, Lines
<1>5. KitchenTyped'
  <2>1. DOMAIN owner' = Orders /\ order' \in [Orders -> {"none", "OPEN", "DONE"}]
    BY <1>2 DEF KitchenInv, KitchenTyped
  <2>2. overtaken' \in BOOLEAN
    BY DEF CommitFire, Overtaken, KitchenInv, KitchenTyped
  <2>3. RequestsTyped'
    <3>1. \A l \in Lines : lineIs[l] # "none" => lineIs'[l] # "none"
      BY <1>2 DEF KitchenInv, KitchenTyped
    <3> QED
      BY <1>1, <1>3, <3>1 DEF KitchenInv, KitchenTyped, RequestsTyped
  <2> QED
    BY <1>4, <2>1, <2>2, <2>3 DEF KitchenTyped
<1>6. OnOwnOrder'
  BY <1>1, <1>3, <1>4 DEF KitchenInv, OnOwnOrder
<1>7. ASSUME ~overtaken' PROVE OneOrder'
  <2>1. CASE f.order # NoTicket
    BY <1>2, <1>7, <2>1 DEF KitchenInv, OneOrder
  <2>2. CASE f.order = NoTicket
    <3>1. \A p \in Orders : p # o /\ order[p] = "OPEN" => owner[p] # Cart[f.item]
      BY <1>2, <1>7, <2>2 DEF OrdersOf
    <3> QED
      BY <1>2, <1>3, <1>7, <2>2, <3>1 DEF KitchenInv, OneOrder
  <2> QED
    BY <2>1, <2>2
<1>8. ASSUME ~overtaken' PROVE OnOpenOrder'
  <2>1. order'[o] = "OPEN"
    BY <1>2, <1>8 DEF KitchenInv, KitchenTyped
  <2>2. \A p \in Orders : p # o => order'[p] = order[p]
    BY <1>3
  <2> QED
    BY <1>2, <1>4, <1>8, <2>1, <2>2 DEF KitchenInv, OnOpenOrder
<1> QED
  BY <1>5, <1>6, <1>7, <1>8 DEF KitchenInv

LEMMA BumpStepKeeps ==
    ASSUME KitchenInv,
           \/ \E l \in Lines, to \in {"PREPARING", "READY", "DONE", "CANCELLED"} : BeginBump(l, to)
           \/ \E b \in bumps : WriteBump(b)
    PROVE  KitchenInv'
<1>1. UNCHANGED <<owner, order, lineIs, overtaken, posts, fires, sales>>
  BY DEF BeginBump, WriteBump, tickets, till
<1>2. ASSUME NEW b \in bumps' PROVE /\ b.line \in Lines /\ b.from \in Open /\ b.to \in LineStates \ {"none"}
                                    /\ lineIs[b.line] # "none" /\ (b.close => b.to \notin Open)
  <2>1. CASE b \in bumps
    BY <2>1 DEF KitchenInv, KitchenTyped, RequestsTyped
  <2>2. ASSUME NEW l \in Lines, NEW to \in {"PREPARING", "READY", "DONE", "CANCELLED"}, BeginBump(l, to), b \notin bumps
        PROVE  /\ b.line \in Lines /\ b.from \in Open /\ b.to \in LineStates \ {"none"}
               /\ lineIs[b.line] # "none" /\ (b.close => b.to \notin Open)
    <3>1. /\ b = [line |-> l, to |-> to, from |-> lineIs[l], counted |-> FALSE, close |-> FALSE]
          /\ lineIs[l] \in Open
      BY <2>2 DEF BeginBump, OpenLines
    <3> QED
      BY <3>1 DEF LineStates, Open
  <2>3. ASSUME NEW a \in bumps, WriteBump(a), b \notin bumps
        PROVE  /\ b.line \in Lines /\ b.from \in Open /\ b.to \in LineStates \ {"none"}
               /\ lineIs[b.line] # "none" /\ (b.close => b.to \notin Open)
    <3> DEFINE last == LeftOpen(a.line[1]) \ {a.line[2]} = {} /\ a.to \notin Open
    <3>1. b = [a EXCEPT !.counted = TRUE, !.close = last]
      BY <2>3 DEF WriteBump
    <3>2. last => a.to \notin Open
      OBVIOUS
    <3> HIDE DEF last
    <3>3. b.line = a.line /\ b.from = a.from /\ b.to = a.to /\ b.close = last
      BY <3>1
    <3> QED
      BY <3>2, <3>3 DEF KitchenInv, KitchenTyped, RequestsTyped
  <2> QED
    BY <2>1, <2>2, <2>3
<1>3. RequestsTyped'
  BY <1>1, <1>2 DEF RequestsTyped, KitchenInv, KitchenTyped
<1> QED
  BY <1>1, <1>3, TicketsSame

(* A bump closes its order with its last dish, or finds the order open.    *)
LEMMA CommitBumpKeeps == ASSUME KitchenInv, NEW b \in bumps, CommitBump(b) PROVE KitchenInv'
<1>1. PICK o \in Orders, i \in Items : b.line = <<o, i>>
  BY DEF KitchenInv, KitchenTyped, RequestsTyped, Lines
<1>2. /\ b.from \in Open /\ lineIs[<<o, i>>] # "none" /\ b.to \in LineStates \ {"none"} /\ (b.close => b.to \notin Open)
      /\ bumps' = bumps \ {b} /\ UNCHANGED <<posts, fires, sales, owner>>
      /\ lineIs' = [lineIs EXCEPT ![<<o, i>>] = b.to]
      /\ order' = IF b.close THEN [order EXCEPT ![o] = "DONE"] ELSE order
  BY <1>1 DEF CommitBump, till, KitchenInv, KitchenTyped, RequestsTyped
<1>3. overtaken' \in BOOLEAN /\ (~overtaken' => ~overtaken /\ lineIs[<<o, i>>] \in Open
                                           /\ (b.close => LeftOpen(o) \ {i} = {}) /\ (~b.close => order[o] = "OPEN"))
  <2> DEFINE met == \/ lineIs[b.line] # b.from
                    \/ IF b.close THEN LeftOpen(b.line[1]) \ {b.line[2]} # {} ELSE order[b.line[1]] # "OPEN"
  <2>1. overtaken' = (overtaken \/ met) /\ overtaken \in BOOLEAN
    BY DEF CommitBump, Overtaken, KitchenInv, KitchenTyped
  <2>2. ~met => lineIs[<<o, i>>] \in Open /\ (b.close => LeftOpen(o) \ {i} = {}) /\ (~b.close => order[o] = "OPEN")
    BY <1>1, <1>2
  <2>3. met \in BOOLEAN
    OBVIOUS
  <2> HIDE DEF met
  <2> QED
    BY <2>1, <2>2, <2>3
<1>4. /\ \A p \in Orders, j \in Items : lineIs'[<<p, j>>] = IF p = o /\ j = i THEN b.to ELSE lineIs[<<p, j>>]
      /\ \A p \in Orders : order'[p] = IF b.close /\ p = o THEN "DONE" ELSE order[p]
      /\ lineIs' \in [Lines -> LineStates] /\ order' \in [Orders -> {"none", "OPEN", "DONE"}]
  BY <1>1, <1>2 DEF KitchenInv, KitchenTyped, Lines
<1>5. KitchenTyped'
  <2>1. RequestsTyped'
    BY <1>2, <1>4 DEF KitchenInv, KitchenTyped, RequestsTyped
  <2> QED
    BY <1>2, <1>3, <1>4, <2>1 DEF KitchenInv, KitchenTyped
<1>6. OnOwnOrder'
  BY <1>2, <1>4 DEF KitchenInv, OnOwnOrder
<1>7. ASSUME ~overtaken' PROVE OneOrder'
  BY <1>2, <1>3, <1>4, <1>7 DEF KitchenInv, OneOrder
<1>8. ASSUME ~overtaken' PROVE OnOpenOrder'
  <2>1. ASSUME b.close PROVE \A j \in Items : lineIs'[<<o, j>>] \notin Open
    <3>1. LeftOpen(o) \ {i} = {}
      BY <1>3, <1>8, <2>1
    <3> QED
      BY <1>2, <1>4, <2>1, <3>1 DEF LeftOpen
  <2> QED
    BY <1>3, <1>4, <1>8, <2>1 DEF KitchenInv, OnOpenOrder
<1> QED
  BY <1>5, <1>6, <1>7, <1>8 DEF KitchenInv

(* A sale's statement takes the open dishes of an order it has read.       *)
LEMMA ClearDishesKeeps ==
    ASSUME KitchenInv, NEW s \in sales, NEW o \in Orders, ClearDishes(s, o) PROVE KitchenInv'
<1>1. UNCHANGED <<owner, order, lineIs, overtaken, posts, fires, bumps>>
  BY DEF ClearDishes, tickets, till
<1>2. ASSUME NEW t \in sales'
      PROVE t.orders \subseteq Orders /\ t.found \subseteq Lines /\ \A x \in t.orders : order[x] # "none"
  <2>1. CASE t \in sales
    BY <2>1 DEF KitchenInv, KitchenTyped, RequestsTyped
  <2>2. CASE t \notin sales
    <3> DEFINE more == s.found \cup ({o} \X LeftOpen(o))
    <3>1. t = [s EXCEPT !.cleared = @ \cup {o}, !.found = more]
      BY <2>2 DEF ClearDishes
    <3>2. more \subseteq Lines
      BY DEF KitchenInv, KitchenTyped, RequestsTyped, LeftOpen, Lines
    <3> HIDE DEF more
    <3>3. t.orders = s.orders /\ (t.found = s.found \/ t.found = more)
      BY <3>1
    <3> QED
      BY <3>2, <3>3 DEF KitchenInv, KitchenTyped, RequestsTyped
  <2> QED
    BY <2>1, <2>2
<1>3. RequestsTyped'
  BY <1>1, <1>2 DEF RequestsTyped, KitchenInv, KitchenTyped
<1> QED
  BY <1>1, <1>3, TicketsSame

(* A sale closes the orders it read, and serves the dishes its statement   *)
(* found; no fire of those orders is committed in between.                 *)
LEMMA SaleKeeps == ASSUME KitchenInv, NEW s \in sales, CommitSale(s) PROVE KitchenInv'
<1>1. /\ sales' = sales \ {s} /\ UNCHANGED <<posts, fires, bumps, owner>>
      /\ \A p \in Orders, j \in Items : lineIs'[<<p, j>>] = IF <<p, j>> \in s.found /\ lineIs[<<p, j>>] \in Open THEN "DONE" ELSE lineIs[<<p, j>>]
      /\ \A p \in Orders : order'[p] = IF p \in s.orders THEN "DONE" ELSE order[p]
  BY DEF CommitSale, till, Lines
<1>2. \A p \in s.orders : order[p] # "none"
  BY DEF KitchenInv, KitchenTyped, RequestsTyped
<1>3. lineIs' \in [Lines -> LineStates] /\ order' \in [Orders -> {"none", "OPEN", "DONE"}]
  BY DEF CommitSale, KitchenInv, KitchenTyped, LineStates
<1>7. overtaken' \in BOOLEAN /\ (~overtaken' => ~overtaken /\ \A p \in s.orders : ({p} \X LeftOpen(p)) \subseteq s.found)
  <2> DEFINE met == \E o \in s.orders : ~(({o} \X LeftOpen(o)) \subseteq s.found)
  <2>1. overtaken' = (overtaken \/ met) /\ overtaken \in BOOLEAN
    BY DEF CommitSale, Overtaken, KitchenInv, KitchenTyped
  <2>2. ~met => \A p \in s.orders : ({p} \X LeftOpen(p)) \subseteq s.found
    OBVIOUS
  <2>3. met \in BOOLEAN
    OBVIOUS
  <2> HIDE DEF met
  <2> QED
    BY <2>1, <2>2, <2>3
<1>4. KitchenTyped'
  <2>1. RequestsTyped'
    <3>1. \A l \in Lines : lineIs[l] # "none" => lineIs'[l] # "none"
      BY DEF CommitSale
    <3> QED
      BY <1>1, <1>2, <3>1 DEF KitchenInv, KitchenTyped, RequestsTyped
  <2> QED
    BY <1>1, <1>3, <1>7, <2>1 DEF KitchenInv, KitchenTyped
<1>5. OnOwnOrder'
  BY <1>1, <1>2 DEF KitchenInv, OnOwnOrder, Open
<1>6. ASSUME ~overtaken' PROVE OneOrder' /\ OnOpenOrder'
  <2>1. OneOrder'
    BY <1>1, <1>6, <1>7 DEF KitchenInv, OneOrder
  <2>2. OnOpenOrder'
    <3> SUFFICES ASSUME NEW p \in Orders, NEW j \in Items, lineIs'[<<p, j>>] \in Open
                 PROVE  order'[p] = "OPEN"
      BY DEF OnOpenOrder
    <3>1. lineIs[<<p, j>>] \in Open /\ <<p, j>> \notin s.found
      BY <1>1 DEF Open
    <3>2. order[p] = "OPEN"
      BY <1>6, <1>7, <3>1 DEF KitchenInv, OnOpenOrder
    <3>3. <<p, j>> \in {p} \X LeftOpen(p)
      BY <3>1 DEF LeftOpen
    <3>4. p \notin s.orders
      BY <1>6, <1>7, <3>1, <3>3
    <3> QED
      BY <1>1, <3>2, <3>4
  <2> QED
    BY <2>1, <2>2
<1> QED
  BY <1>4, <1>5, <1>6 DEF KitchenInv

LEMMA StepKitchenInv == KitchenInv /\ [KitchenNext]_kitchenVars => KitchenInv'
BY TillKeeps, FireKeeps, BumpStepKeeps, CommitBumpKeeps, ClearDishesKeeps, SaleKeeps DEF KitchenNext

LEMMA ListedOnce == KitchenInv => DishesListed
<1> SUFFICES ASSUME KitchenInv, ~overtaken, NEW i \in Items
             PROVE  LET dishes == {l \in Lines : l[2] = i /\ lineIs[l] \in Open} IN
                    /\ Cardinality(dishes) <= 1
                    /\ \A l \in dishes, c \in Cooks : Station[i] \in Assigned[c] \cap active => l \in Listed(c)
  BY DEF DishesListed
<1> DEFINE dishes == {l \in Lines : l[2] = i /\ lineIs[l] \in Open}
<1>1. \A l \in dishes : l = <<l[1], i>> /\ l[1] \in Orders /\ order[l[1]] = "OPEN" /\ owner[l[1]] = Cart[i]
  BY DEF KitchenInv, OnOpenOrder, OnOwnOrder, Lines, Open
<1>2. \A l, m \in dishes : l = m
  BY <1>1 DEF KitchenInv, OneOrder
<1>3. Cardinality(dishes) <= 1
  <2> HIDE DEF dishes
  <2>1. CASE dishes = {}
    BY <2>1, FS_EmptySet
  <2>2. CASE dishes # {}
    <3>1. PICK l : dishes = {l}
      BY <1>2, <2>2
    <3> QED
      BY <3>1, FS_Singleton
  <2> QED
    BY <2>1, <2>2
<1>4. \A l \in dishes, c \in Cooks : Station[i] \in Assigned[c] \cap active => l \in Listed(c)
  BY <1>1 DEF Listed, OpenLines, Allowed
<1> QED
  BY <1>3, <1>4

(* As long as no two transactions meet on a cart, a dish that is fired and *)
(* not yet served is on the boards of its cooks, once, whatever carts,     *)
(* stations, cooks and requests there are (fireToKitchen, bumpLine,        *)
(* maybeCloseOrder, completeForSale).                                      *)
THEOREM FiredDishesAreListed == KitchenSpec => []DishesListed
BY InitKitchenInv, StepKitchenInv, ListedOnce, PTL DEF KitchenSpec
-------------------------------------------------------------------------------
(***************************************************************************)
(* TillCart: what the till charges is what the server computes.            *)
(***************************************************************************)

(* Lines of a cart: what is on them, and that there is something of it.    *)
IsLine(r) ==
    /\ r = [sku |-> r.sku, qty |-> r.qty, guest |-> r.guest, unit |-> r.unit]
    /\ r.sku # "none" => r.sku \in Skus /\ r.qty \in Nat \ {0} /\ r.guest \in 1 .. 8 /\ r.unit \in Nat
LinesOK(l) == l = [s \in Slots |-> l[s]] /\ \A s \in Slots : IsLine(l[s])

(* A discount that applies to lines: a promo that gives something for      *)
(* them, and points that go with it.                                       *)
OffOf(d, l) == IF d.promo = NoPromo THEN 0 ELSE Discount(d.promo, l)
GoesWith(d, l) ==
    /\ d.promo # NoPromo => Discount(d.promo, l) >= 1 /\ (d.points > 0 => Promo[d.promo].stacks)
    /\ d.amount = OffOf(d, l) + d.points * PointValue
DiscountOK(d) ==
    /\ d = [amount |-> d.amount, promo |-> d.promo, points |-> d.points]
    /\ d.amount \in Int /\ d.promo \in Promos \cup {NoPromo} /\ d.points \in Nat

SaleOK(x) ==
    /\ LinesOK(x.lines) /\ DiscountOK(x.off) /\ x.tip \in Nat
    /\ x.sub = SubOf(x.lines) /\ x.tax = TaxOf(x.lines) /\ x.total = Bill(x.lines, x.off, x.tip)
    /\ x.kept => GoesWith(x.off, x.lines)
    /\ \E cash \in Splits : (cash = 0 \/ cash < x.total) /\ x.tenders = Tenders(x.total, cash)

(* A preview that is awaited: as long as it is fresh, what it takes off is *)
(* what its promo gives for the lines of the cart.                         *)
IsPreview(r) ==
    /\ r = [kind |-> r.kind, promo |-> r.promo, points |-> r.points, off |-> r.off, fresh |-> r.fresh]
    /\ r.promo \in Promos /\ r.points \in Nat /\ r.off \in Int /\ r.fresh \in BOOLEAN
    /\ r.kind = "promo" => r.off >= 1
Holds(r, l) ==
    r.fresh /\ r.off >= 1 =>
        r.off = Discount(r.promo, l) /\ (r.kind = "points" /\ r.points > 0 => Promo[r.promo].stacks)
PreviewsOK ==
    /\ preview = [v \in Previews |-> preview[v]]
    /\ \A v \in Previews : preview[v] = NoPreview \/ (IsPreview(preview[v]) /\ Holds(preview[v], line))

CartInv ==
    /\ price \in [Skus -> Nat] /\ seen \in [Skus -> Nat]
    /\ LinesOK(line) /\ DiscountOK(discount) /\ touched \in BOOLEAN
    /\ ~touched => GoesWith(discount, line)
    /\ sale # None => SaleOK(sale)
    /\ PreviewsOK

-------------------------------------------------------------------------------
LEMMA LineMoney ==
    ASSUME NEW r, IsLine(r), r.sku # "none"
    PROVE  Sub(r.unit, r.qty) \in Nat /\ Tax(r.sku, Sub(r.unit, r.qty)) \in Nat
<1>1. r.unit \in Nat /\ r.qty \in Nat /\ TaxBps[r.sku] \in Nat
  BY TillCartAssumption DEF IsLine
<1>2. Sub(r.unit, r.qty) \in Nat
  BY <1>1 DEF Sub
<1> DEFINE n == Sub(r.unit, r.qty) * TaxBps[r.sku]
<1>3. n \in Nat
  BY <1>1, <1>2
<1>4. Tax(r.sku, Sub(r.unit, r.qty)) = (n + 5000) \div 10000
  BY DEF Tax
<1> HIDE DEF n
<1>5. (n + 5000) \div 10000 \in Nat
  BY <1>3
<1> QED
  BY <1>2, <1>4, <1>5

LEMMA MoneyIsWhole == ASSUME NEW l, LinesOK(l) PROVE SubOf(l) \in Nat /\ TaxOf(l) \in Nat
<1> DEFINE subs == [s \in Used(l) |-> Sub(l[s].unit, l[s].qty)]
           taxes == [s \in Used(l) |-> Tax(l[s].sku, Sub(l[s].unit, l[s].qty))]
<1>1. IsFiniteSet(Used(l))
  <2>1. Used(l) \subseteq Slots /\ IsFiniteSet(Slots)
    BY TillCartAssumption DEF Used
  <2> QED
    BY <2>1, FS_Subset
<1>2. \A s \in Used(l) : subs[s] \in Nat /\ taxes[s] \in Nat
  BY LineMoney DEF Used, LinesOK
<1>3. SubOf(l) = SumFunctionOnSet(subs, Used(l)) /\ TaxOf(l) = SumFunctionOnSet(taxes, Used(l))
  BY DEF SubOf, TaxOf
<1> HIDE DEF subs, taxes
<1> QED
  BY <1>1, <1>2, <1>3, SumType

LEMMA PromoKnown ==
    ASSUME NEW p \in Promos
    PROVE  /\ Promo[p].value \in Nat /\ Promo[p].cap \in Int /\ Promo[p].min \in Nat /\ p # NoPromo
           /\ Promo[p].scope \subseteq Skus
BY TillCartAssumption DEF NoPromo

LEMMA DiscountIsWhole == ASSUME NEW l, LinesOK(l), NEW p \in Promos PROVE Discount(p, l) \in Int /\ Preview(p, l) \in Int
<1> DEFINE base == Gross(l, Promo[p].scope)
<1>1. base \in Nat
  <2> DEFINE g == [s \in Slots |-> IF l[s].sku \in Promo[p].scope THEN l[s] ELSE Free]
  <2>1. \A s \in Slots : IsLine(g[s])
    BY DEF LinesOK, IsLine, Free
  <2>2. LinesOK(g)
    BY <2>1 DEF LinesOK
  <2> HIDE DEF g
  <2>3. SubOf(g) + TaxOf(g) \in Nat
    BY <2>2, MoneyIsWhole
  <2> QED
    BY <2>3 DEF g, Gross
<1>2. Discount(p, l) = IF base < Promo[p].min THEN 0
                       ELSE IF Promo[p].percent
                            THEN Least(Least((base * Promo[p].value) \div 10000, Promo[p].cap), base)
                            ELSE Least(Promo[p].value, base)
  BY DEF Discount
<1> DEFINE n == base * Promo[p].value
<1> HIDE DEF base
<1>3. n \in Nat
  BY <1>1, PromoKnown
<1> HIDE DEF n
<1>4. n \div 10000 \in Int
  BY <1>3
<1>5. Discount(p, l) \in Int
  BY <1>1, <1>2, <1>4, PromoKnown DEF Least, n
<1> QED
  BY <1>5 DEF Preview

LEMMA NothingOff == ASSUME NEW l PROVE GoesWith(NoDiscount, l) /\ DiscountOK(NoDiscount)
<1>1. 0 * PointValue = 0
  BY TillCartAssumption
<1> QED
  BY <1>1 DEF GoesWith, OffOf, NoDiscount, DiscountOK, NoPromo

LEMMA EmptyLines == LinesOK([s \in Slots |-> Free])
BY DEF LinesOK, IsLine, Free

LEMMA NoneIsNotASale == ASSUME NEW x, x.total \in Nat PROVE x # None
BY DEF None

LEMMA InitCartInv == TillInit => CartInv
<1> SUFFICES ASSUME TillInit PROVE CartInv
  OBVIOUS
<1>1. price \in [Skus -> Nat]
  BY TillCartAssumption DEF TillInit
<1> QED
  BY <1>1, EmptyLines, NothingOff DEF TillInit, CartInv, PreviewsOK

(* A change of the lines: a discount that is not cut off, and that stands  *)
(* for points alone, goes on applying.                                     *)
LEMMA CutKeeps ==
    ASSUME CartInv, NEW l, LinesOK(l), line' = l, Retotal(l), Touch(l)
    PROVE  LinesOK(line') /\ DiscountOK(discount') /\ touched' \in BOOLEAN /\ (~touched' => GoesWith(discount', line'))
<1> DEFINE whole == SubOf(l) + TaxOf(l)
<1>1. whole \in Nat /\ discount.amount \in Int
  BY MoneyIsWhole DEF CartInv, DiscountOK
<1>2. discount' = [amount |-> Least(discount.amount, whole), promo |-> discount.promo, points |-> discount.points]
  BY DEF Retotal, Clamped, CartInv, DiscountOK
<1>3. touched' \in BOOLEAN /\ (~touched' => ~touched /\ discount.promo = NoPromo /\ ~(discount.amount > whole))
  BY DEF Touch, Cut, CartInv
<1> HIDE DEF whole
<1>4. DiscountOK(discount')
  BY <1>1, <1>2 DEF DiscountOK, Least, CartInv
<1>5. ASSUME ~touched' PROVE GoesWith(discount', line')
  <2>1. /\ discount'.amount = discount.amount /\ discount'.promo = NoPromo /\ discount'.points = discount.points
    BY <1>1, <1>2, <1>3, <1>5 DEF Least
  <2>2. discount.amount = 0 + discount.points * PointValue
    BY <1>3, <1>5 DEF CartInv, GoesWith, OffOf
  <2> QED
    BY <2>1, <2>2 DEF GoesWith, OffOf
<1> QED
  BY <1>3, <1>4, <1>5

(* What is outdated is not fresh, whatever the lines are now.              *)
LEMMA OutdateKeeps == ASSUME CartInv, Outdate PROVE PreviewsOK'
<1>1. \A v \in Previews : preview[v] = NoPreview \/ IsPreview(preview[v])
  BY DEF CartInv, PreviewsOK
<1>2. preview' = [v \in Previews |-> IF preview[v] = NoPreview THEN NoPreview ELSE [preview[v] EXCEPT !.fresh = FALSE]]
  BY DEF Outdate
<1>3. ASSUME NEW v \in Previews, preview[v] # NoPreview PROVE (IsPreview(preview[v]) /\ Holds(preview[v], line))'
  <2> DEFINE r == preview[v]
             old == [kind |-> r.kind, promo |-> r.promo, points |-> r.points, off |-> r.off, fresh |-> FALSE]
  <2>1. IsPreview(r) /\ preview'[v] = [r EXCEPT !.fresh = FALSE]
    BY <1>1, <1>2, <1>3
  <2> HIDE DEF r
  <2>2. preview'[v] = old
    BY <2>1 DEF IsPreview
  <2>3. IsPreview(old) /\ ~old.fresh
    BY <2>1 DEF IsPreview
  <2> QED
    BY <2>2, <2>3 DEF Holds
<1> QED
  BY <1>2, <1>3 DEF PreviewsOK

LEMMA ChangeKeeps == ASSUME CartInv, NEW l, LinesOK(l), Change(l) PROVE CartInv'
<1>1. /\ line' = l /\ Retotal(l) /\ Touch(l) /\ Outdate /\ UNCHANGED <<price, seen, sale>>
  BY DEF Change, server, copy
<1> QED
  BY <1>1, CutKeeps, OutdateKeeps DEF CartInv

LEMMA LinesKeep ==
    ASSUME CartInv,
           \/ \E k \in Skus : AddProduct(k)
           \/ \E s \in Slots : (\E n \in 0 .. MaxPieces : SetQuantity(s, n)) \/ \E g \in Guests : SetGuest(s, g)
    PROVE  CartInv'
<1>0. \A s \in Slots : IsLine(line[s])
  BY DEF CartInv, LinesOK
<1>1. ASSUME NEW s \in Slots, NEW r, IsLine(r), Change([line EXCEPT ![s] = r]) PROVE CartInv'
  <2> DEFINE l == [line EXCEPT ![s] = r]
  <2>1. LinesOK(l)
    BY <1>1 DEF CartInv, LinesOK
  <2> HIDE DEF l
  <2> QED
    BY <1>1, <2>1, ChangeKeeps DEF l
<1>2. ASSUME NEW k \in Skus, AddProduct(k) PROVE CartInv'
  <2>1. ASSUME NEW s \in Used(line), Change([line EXCEPT ![s].qty = @ + 1]) PROVE CartInv'
    <3> DEFINE r == [line[s] EXCEPT !.qty = @ + 1]
    <3>1. s \in Slots /\ IsLine(line[s]) /\ line[s].sku # "none"
      BY <1>0, <2>1 DEF Used
    <3>2. r = [sku |-> line[s].sku, qty |-> line[s].qty + 1, guest |-> line[s].guest, unit |-> line[s].unit]
      BY <3>1 DEF IsLine
    <3>3. [line EXCEPT ![s].qty = @ + 1] = [line EXCEPT ![s] = r]
      OBVIOUS
    <3> HIDE DEF r
    <3>4. IsLine(r)
      BY <3>1, <3>2 DEF IsLine
    <3> QED
      BY <1>1, <2>1, <3>1, <3>3, <3>4
  <2>2. ASSUME NEW s \in Slots, Change([line EXCEPT ![s] = [sku |-> k, qty |-> 1, guest |-> 1, unit |-> seen[k]]])
        PROVE  CartInv'
    <3>1. IsLine([sku |-> k, qty |-> 1, guest |-> 1, unit |-> seen[k]])
      BY DEF IsLine, CartInv
    <3> QED
      BY <1>1, <2>2, <3>1
  <2> QED
    BY <1>2, <2>1, <2>2 DEF AddProduct
<1>3. ASSUME NEW s \in Slots, NEW n \in 0 .. MaxPieces, SetQuantity(s, n) PROVE CartInv'
  <2> DEFINE r == IF n = 0 THEN Free ELSE [line[s] EXCEPT !.qty = n]
  <2>1. IsLine(line[s]) /\ line[s].sku # "none" /\ n \in Nat
    BY <1>0, <1>3, TillCartAssumption DEF SetQuantity, Used
  <2>2. r = IF n = 0 THEN Free ELSE [sku |-> line[s].sku, qty |-> n, guest |-> line[s].guest, unit |-> line[s].unit]
    BY <2>1 DEF IsLine
  <2>3. Change([line EXCEPT ![s] = r])
    BY <1>3 DEF SetQuantity
  <2> HIDE DEF r
  <2>4. IsLine(r)
    BY <2>1, <2>2 DEF IsLine, Free
  <2> QED
    BY <1>1, <2>3, <2>4
<1>4. ASSUME NEW s \in Slots, NEW g \in Guests, SetGuest(s, g) PROVE CartInv'
  <2> DEFINE r == [line[s] EXCEPT !.guest = g]
  <2>1. IsLine(line[s]) /\ line[s].sku # "none" /\ g \in 1 .. 8
    BY <1>0, <1>4, TillCartAssumption DEF SetGuest, Used
  <2>2. r = [sku |-> line[s].sku, qty |-> line[s].qty, guest |-> g, unit |-> line[s].unit]
    BY <2>1 DEF IsLine
  <2>3. Change([line EXCEPT ![s] = r])
    BY <1>4 DEF SetGuest
  <2> HIDE DEF r
  <2>4. IsLine(r)
    BY <2>1, <2>2 DEF IsLine
  <2> QED
    BY <1>1, <2>3, <2>4
<1> QED
  BY <1>2, <1>3, <1>4

(* Promo and points as the till applies them.                              *)
LEMMA SetKeeps ==
    ASSUME CartInv, NEW p \in Promos \cup {NoPromo}, NEW points \in Nat, NEW off \in Int,
           SetDiscount(off + points * PointValue, p, points),
           touched' \in BOOLEAN,
           ~touched' => /\ ~Cut(off + points * PointValue, line)
                        /\ p = NoPromo => off = 0
                        /\ p # NoPromo => off >= 1 /\ off = Discount(p, line) /\ (points > 0 => Promo[p].stacks)
    PROVE  DiscountOK(discount') /\ (~touched' => GoesWith(discount', line))
<1> DEFINE whole == SubOf(line) + TaxOf(line)
           n == off + points * PointValue
<1>1. whole \in Nat
  BY MoneyIsWhole DEF CartInv
<1>2. n \in Int
  BY TillCartAssumption
<1>3. ~touched' => ~(n > whole)
  BY DEF Cut
<1>4. discount' = [amount |-> Least(n, whole), promo |-> p, points |-> points]
  BY DEF SetDiscount, Clamped
<1> HIDE DEF n, whole
<1>5. DiscountOK(discount')
  BY <1>1, <1>2, <1>4 DEF DiscountOK, Least
<1>6. ASSUME ~touched' PROVE GoesWith(discount', line)
  <2>1. discount'.amount = n /\ discount'.promo = p /\ discount'.points = points
    BY <1>1, <1>2, <1>3, <1>4, <1>6 DEF Least
  <2> QED
    BY <1>6, <2>1 DEF n, GoesWith, OffOf
<1> QED
  BY <1>5, <1>6

LEMMA PreviewGone ==
    ASSUME CartInv, NEW v \in Previews, preview' = [preview EXCEPT ![v] = NoPreview], line' = line
    PROVE  PreviewsOK'
BY DEF CartInv, PreviewsOK

LEMMA AppliedKeeps ==
    ASSUME CartInv, NEW v \in Previews, ApplyPromo(v) \/ RedeemWith(v) PROVE CartInv'
<1> DEFINE r == preview[v]
<1>1. /\ preview' = [preview EXCEPT ![v] = NoPreview] /\ UNCHANGED <<price, seen, line, sale>>
      /\ r.kind \in {"promo", "points"}
  BY DEF ApplyPromo, RedeemWith, Awaited, server, copy
<1>2. IsPreview(r) /\ Holds(r, line)
  BY <1>1 DEF CartInv, PreviewsOK, NoPreview
<1>3. PreviewsOK'
  BY <1>1, PreviewGone
<1>4. /\ discount.points \in Nat /\ discount.promo \in Promos \cup {NoPromo}
      /\ r.promo \in Promos /\ r.promo # NoPromo /\ r.points \in Nat /\ r.off \in Int /\ r.fresh \in BOOLEAN
  BY <1>2, PromoKnown DEF CartInv, DiscountOK, IsPreview
<1> HIDE DEF r
<1>5. ASSUME DiscountOK(discount'), touched' \in BOOLEAN, ~touched' => GoesWith(discount', line) PROVE CartInv'
  BY <1>1, <1>3, <1>5 DEF CartInv
<1>6. CASE ApplyPromo(v)
  <2>1. /\ SetDiscount(r.off + discount.points * PointValue, r.promo, discount.points)
        /\ discount.points > 0 => Promo[r.promo].stacks
        /\ touched' = (Cut(r.off + discount.points * PointValue, line) \/ ~r.fresh)
        /\ r.kind = "promo"
    BY <1>6 DEF ApplyPromo, Awaited, r
  <2>2. touched' \in BOOLEAN /\ (~touched' => ~Cut(r.off + discount.points * PointValue, line) /\ r.fresh)
    BY <2>1, Zenon DEF Cut
  <2>3. r.off >= 1
    BY <1>2, <2>1 DEF IsPreview
  <2>4. r.fresh => r.off = Discount(r.promo, line)
    BY <1>2, <2>3, Zenon DEF Holds
  <2> QED
    BY <1>4, <1>5, <2>1, <2>2, <2>3, <2>4, SetKeeps
<1>7. CASE RedeemWith(v)
  <2>1. /\ SetDiscount(r.off + r.points * PointValue, discount.promo, r.points)
        /\ touched' = (Cut(r.off + r.points * PointValue, line) \/ r.off < 1 \/ ~r.fresh \/ discount.promo # r.promo)
        /\ r.kind = "points"
    BY <1>7 DEF RedeemWith, Awaited, r
  <2>2. touched' \in BOOLEAN
    BY <2>1, Zenon DEF Cut
  <2>3. ~touched' => ~Cut(r.off + r.points * PointValue, line) /\ ~(r.off < 1) /\ r.fresh /\ discount.promo = r.promo
    BY <2>1, Zenon
  <2>4. ~(r.off < 1) => r.off >= 1
    BY <1>4
  <2>5. ~touched' => r.off = Discount(r.promo, line) /\ (r.points > 0 => Promo[r.promo].stacks)
    BY <1>2, <2>1, <2>3, <2>4, Zenon DEF Holds
  <2> QED
    BY <1>4, <1>5, <2>1, <2>2, <2>3, <2>4, <2>5, SetKeeps
<1> QED
  BY <1>6, <1>7

LEMMA AskKeeps ==
    ASSUME CartInv, NEW v \in Previews,
           (\E p \in Promos : AskPromo(v, p)) \/ (\E n \in Points : AskPoints(v, n)) \/ PreviewFails(v)
    PROVE  CartInv'
<1>1. UNCHANGED <<price, seen, line, discount, sale, touched>>
  BY DEF AskPromo, AskPoints, Ask, PreviewFails, server, copy
<1>2. ASSUME NEW kind, NEW p \in Promos, NEW n \in Nat, Ask(v, kind, p, n),
             kind = "promo" => Preview(p, line) >= 1,
             p \in usable /\ n > 0 => Promo[p].stacks
      PROVE  PreviewsOK'
  <2> DEFINE r == [kind |-> kind, promo |-> p, points |-> n, off |-> Preview(p, line), fresh |-> TRUE]
  <2>1. Preview(p, line) \in Int /\ (Preview(p, line) >= 1 => p \in usable /\ Preview(p, line) = Discount(p, line))
    BY DiscountIsWhole DEF CartInv, Preview
  <2>2. IsPreview(r) /\ Holds(r, line)
    BY <1>2, <2>1 DEF IsPreview, Holds
  <2>3. preview' = [preview EXCEPT ![v] = r]
    BY <1>2 DEF Ask
  <2> HIDE DEF r
  <2> QED
    BY <1>1, <2>2, <2>3 DEF CartInv, PreviewsOK
<1>3. PreviewsOK'
  <2>1. ASSUME NEW p \in Promos, AskPromo(v, p) PROVE PreviewsOK'
    BY <1>2, <2>1 DEF AskPromo
  <2>2. ASSUME NEW n \in Points, AskPoints(v, n) PROVE PreviewsOK'
    <3>1. discount.promo \in Promos /\ n \in Nat
      BY <2>2, TillCartAssumption DEF AskPoints, CartInv, DiscountOK
    <3> QED
      BY <1>2, <2>2, <3>1 DEF AskPoints
  <2>3. CASE PreviewFails(v)
    BY <1>1, <2>3, PreviewGone DEF PreviewFails
  <2> QED
    BY <2>1, <2>2, <2>3
<1> QED
  BY <1>1, <1>3 DEF CartInv

LEMMA DiscountKeeps ==
    ASSUME CartInv, ClearPromo \/ \E n \in Points : Redeem(n) PROVE CartInv'
<1>1. UNCHANGED <<price, seen, line, preview, sale>>
  BY DEF ClearPromo, Redeem, server, copy
<1>2. PreviewsOK'
  BY <1>1 DEF CartInv, PreviewsOK
<1>3. CASE ClearPromo
  BY <1>1, <1>2, <1>3, NothingOff DEF ClearPromo, CartInv
<1>4. ASSUME NEW n \in Points, Redeem(n) PROVE CartInv'
  <2>1. n \in Nat /\ 0 + n * PointValue = n * PointValue
    BY TillCartAssumption
  <2>2. SetDiscount(0 + n * PointValue, NoPromo, n) /\ touched' = Cut(0 + n * PointValue, line)
    BY <1>4, <2>1 DEF Redeem
  <2>3. touched' \in BOOLEAN /\ (~touched' => ~Cut(0 + n * PointValue, line))
    <3> DEFINE cut == Cut(0 + n * PointValue, line)
    <3>1. touched' = cut /\ cut \in BOOLEAN
      BY <2>2 DEF Cut
    <3> HIDE DEF cut
    <3>2. touched' \in BOOLEAN /\ (~touched' => ~cut)
      BY <3>1, Zenon
    <3> QED
      BY <3>2 DEF cut
  <2>4. DiscountOK(discount') /\ (~touched' => GoesWith(discount', line))
    BY <2>1, <2>2, <2>3, SetKeeps
  <2> QED
    BY <1>1, <1>2, <2>3, <2>4 DEF CartInv
<1> QED
  BY <1>3, <1>4

(* What is queued is what the cart came to.                                *)
LEMMA QueuedIsOK ==
    ASSUME CartInv, NEW l, LinesOK(l), NEW off, DiscountOK(off), NEW tip \in Tips, NEW cash \in Splits,
           Queue(l, off, tip, cash), ~touched \/ off = NoDiscount => GoesWith(off, l)
    PROVE  SaleOK(sale')
<1> DEFINE kept == ~touched \/ off = NoDiscount
           bill == Bill(l, off, tip)
<1>1. sale' = [lines |-> l, sub |-> SubOf(l), tax |-> TaxOf(l), off |-> off, tip |-> tip,
               total |-> bill, tenders |-> Tenders(bill, cash), customer |-> customer, kept |-> kept]
  BY DEF Queue
<1>2. (cash = 0 \/ cash < bill) /\ tip \in Nat /\ (kept => GoesWith(off, l))
  BY TillCartAssumption DEF Queue
<1> HIDE DEF kept, bill
<1>3. /\ sale'.lines = l /\ sale'.off = off /\ sale'.tip = tip /\ sale'.sub = SubOf(l) /\ sale'.tax = TaxOf(l)
      /\ sale'.total = bill /\ sale'.tenders = Tenders(bill, cash) /\ sale'.kept = kept
  BY <1>1
<1> QED
  BY <1>2, <1>3 DEF SaleOK, bill

LEMMA CheckoutKeeps ==
    ASSUME CartInv, NEW tip \in Tips, NEW cash \in Splits,
           Checkout(tip, cash) \/ \E g \in Guests : CheckoutGuest(g, tip, cash)
    PROVE  CartInv'
<1>1. UNCHANGED <<price, seen>> /\ LinesOK(line) /\ Outdate
  BY DEF Checkout, CheckoutGuest, Queue, server, copy, CartInv
<1>5. PreviewsOK'
  BY <1>1, OutdateKeeps
<1>2. ASSUME NEW l, l = [s \in Slots |-> l[s]], \A s \in Slots : l[s] \in {line[s], Free} PROVE LinesOK(l)
  <2>1. IsLine(Free) /\ \A s \in Slots : IsLine(line[s])
    BY <1>1 DEF LinesOK, IsLine, Free
  <2> QED
    BY <1>2, <2>1 DEF LinesOK
<1>3. CASE Checkout(tip, cash)
  <2>1. SaleOK(sale')
    BY <1>1, <1>3, QueuedIsOK, NothingOff DEF Checkout, CartInv
  <2> QED
    BY <1>1, <1>3, <1>5, <2>1, EmptyLines, NothingOff DEF Checkout, CartInv
<1>4. ASSUME NEW g \in Guests, CheckoutGuest(g, tip, cash) PROVE CartInv'
  <2> DEFINE mine == [s \in Slots |-> IF line[s].guest = g THEN line[s] ELSE Free]
             rest == [s \in Slots |-> IF line[s].guest = g THEN Free ELSE line[s]]
  <2>1. LinesOK(mine) /\ LinesOK(rest)
    BY <1>2
  <2>2. /\ Queue(mine, NoDiscount, tip, cash) /\ line' = rest
        /\ \/ discount' = NoDiscount /\ touched' = FALSE
           \/ Retotal(rest) /\ Touch(rest)
    BY <1>4 DEF CheckoutGuest
  <2> HIDE DEF mine, rest
  <2>3. SaleOK(sale')
    BY <2>1, <2>2, QueuedIsOK, NothingOff
  <2>4. LinesOK(line') /\ DiscountOK(discount') /\ touched' \in BOOLEAN /\ (~touched' => GoesWith(discount', line'))
    <3>1. CASE discount' = NoDiscount /\ touched' = FALSE
      BY <2>1, <2>2, <3>1, NothingOff
    <3>2. CASE Retotal(rest) /\ Touch(rest)
      BY <2>1, <2>2, <3>2, CutKeeps
    <3> QED
      BY <2>2, <3>1, <3>2
  <2> QED
    BY <1>1, <1>5, <2>3, <2>4 DEF CartInv
<1> QED
  BY <1>3, <1>4

LEMMA ElsewhereKeeps ==
    ASSUME CartInv,
           \/ UNCHANGED tillVars \/ RefreshCatalog \/ SyncSale
           \/ \E yes \in BOOLEAN : SetCustomer(yes)
           \/ \E k \in Skus, n \in Nat : n \in Prices[k] /\ ChangePrice(k, n)
           \/ \E p \in Promos : SwitchPromo(p)
           \/ \E n \in Points : ChangeBalance(n)
    PROVE  CartInv'
<1>1. price' \in [Skus -> Nat] /\ seen' \in [Skus -> Nat]
  BY DEF CartInv, tillVars, server, copy, RefreshCatalog, SyncSale, SetCustomer, ChangePrice, SwitchPromo, ChangeBalance
<1>2. UNCHANGED <<line, discount, preview, touched>> /\ (sale' = sale \/ sale' = None)
  BY DEF tillVars, cart, RefreshCatalog, SyncSale, SetCustomer, ChangePrice, SwitchPromo, ChangeBalance
<1> QED
  BY <1>1, <1>2 DEF CartInv, PreviewsOK

LEMMA StepCartInv == CartInv /\ [TillNext]_tillVars => CartInv'
<1>1. \A k \in Skus : Prices[k] \subseteq Nat
  BY TillCartAssumption
<1> QED
  BY <1>1, LinesKeep, AskKeeps, AppliedKeeps, DiscountKeeps, CheckoutKeeps, ElsewhereKeeps DEF TillNext

-------------------------------------------------------------------------------
(* One tender, or cash and another, come to the total.                     *)
LEMMA TendersAddUp ==
    ASSUME NEW total \in Nat \ {0}, NEW cash \in Nat, cash = 0 \/ cash < total
    PROVE  LET t == Tenders(total, cash) IN (\A i \in DOMAIN t : t[i] >= 1) /\ total = SumFunction(t)
<1>1. CASE cash = 0
  <2> DEFINE t == <<total>>
  <2>1. DOMAIN t = {} \cup {1} /\ t[1] = total /\ IsFiniteSet({}) /\ 1 \notin {}
    BY FS_EmptySet
  <2> HIDE DEF t
  <2>2. SumFunctionOnSet(t, {} \cup {1}) = SumFunctionOnSet(t, {}) + t[1]
    BY <2>1, SumOfOneMore
  <2>3. SumFunctionOnSet(t, DOMAIN t) = total
    BY <2>1, <2>2, SumOfNone
  <2> QED
    BY <1>1, <2>1, <2>3 DEF Tenders, SumFunction, t
<1>2. CASE cash # 0
  <2> DEFINE t == <<cash, total - cash>>
  <2>1. DOMAIN t = {1} \cup {2} /\ t[1] = cash /\ t[2] = total - cash /\ t[2] \in Nat /\ {1} = {} \cup {1}
    BY <1>2
  <2>2. IsFiniteSet({}) /\ IsFiniteSet({1})
    BY FS_EmptySet, FS_Singleton
  <2>6. t[1] \in Nat /\ (\A x \in {1} : t[x] \in Nat) /\ 1 \notin {} /\ 2 \notin {1}
    BY <2>1
  <2> HIDE DEF t
  <2>3. SumFunctionOnSet(t, {} \cup {1}) = SumFunctionOnSet(t, {}) + t[1]
    BY <2>2, <2>6, SumOfOneMore
  <2>4. SumFunctionOnSet(t, {1} \cup {2}) = SumFunctionOnSet(t, {1}) + t[2]
    BY <2>1, <2>2, <2>6, SumOfOneMore
  <2>5. SumFunctionOnSet(t, DOMAIN t) = total
    BY <2>1, <2>3, <2>4, SumOfNone
  <2> QED
    BY <1>2, <2>1, <2>5 DEF Tenders, SumFunction, t
<1> QED
  BY <1>1, <1>2

LEMMA PricesHold ==
    ASSUME NEW l, LinesOK(l), \A s \in Used(l) : l[s].unit = price[l[s].sku]
    PROVE  Repriced(l) = l
<1>1. ASSUME NEW s \in Slots PROVE Repriced(l)[s] = l[s]
  <2>1. CASE s \notin Used(l)
    BY <2>1 DEF Repriced
  <2>2. CASE s \in Used(l)
    <3> DEFINE r == l[s]
    <3>1. Repriced(l)[s] = [r EXCEPT !.unit = r.unit] /\ r = [sku |-> r.sku, qty |-> r.qty, guest |-> r.guest, unit |-> r.unit]
      BY <2>2 DEF Repriced, LinesOK, IsLine
    <3> HIDE DEF r
    <3>2. [r EXCEPT !.unit = r.unit] = r
      BY <3>1
    <3> QED
      BY <3>1, <3>2 DEF r
  <2> QED
    BY <2>1, <2>2
<1> QED
  BY <1>1 DEF Repriced, LinesOK

LEMMA WhatHoldsIsAccepted == CartInv => SaleAccepted
<1> SUFFICES ASSUME CartInv, sale # None, StillHolds(sale) PROVE Accepts(sale)
  BY DEF SaleAccepted
<1> DEFINE x == sale
<1>1. SaleOK(x) /\ StillHolds(x)
  BY DEF CartInv
<1> HIDE DEF x
<1>2. LinesOK(x.lines) /\ Repriced(x.lines) = x.lines
  BY <1>1, PricesHold DEF SaleOK, StillHolds
<1>3. PricesAgree(x)
  <2>1. \A s \in Used(x.lines) : x.lines[s].qty >= 1 /\ x.lines[s].guest \in 1 .. 20
    <3> SUFFICES ASSUME NEW s \in Used(x.lines) PROVE x.lines[s].qty >= 1 /\ x.lines[s].guest \in 1 .. 20
      OBVIOUS
    <3>1. IsLine(x.lines[s]) /\ x.lines[s].sku # "none"
      BY <1>2 DEF Used, LinesOK
    <3>2. x.lines[s].qty \in Nat \ {0} /\ x.lines[s].guest \in 1 .. 8
      BY <3>1 DEF IsLine
    <3> QED
      BY <3>2
  <2> QED
    BY <1>1, <1>2, <2>1 DEF PricesAgree, SaleOK, Bill
<1>4. DiscountAgrees(x)
  <2>1. GoesWith(x.off, x.lines) /\ (x.off.promo # NoPromo => x.off.promo \in usable)
    BY <1>1 DEF StillHolds, SaleOK
  <2>2. Off(x) = OffOf(x.off, x.lines)
    BY <1>2, <2>1 DEF Off, OffOf, Preview
  <2> QED
    BY <1>1, <2>1, <2>2 DEF DiscountAgrees, GoesWith, OffOf, StillHolds
<1>5. TendersAgree(x)
  <2>1. PICK cash \in Splits : (cash = 0 \/ cash < x.total) /\ x.tenders = Tenders(x.total, cash)
    BY <1>1 DEF SaleOK
  <2>2. x.total \in Nat \ {0} /\ cash \in Nat
    <3>1. SubOf(x.lines) \in Nat /\ TaxOf(x.lines) \in Nat /\ x.off.amount \in Int /\ x.tip \in Nat
      BY <1>1, <1>2, MoneyIsWhole DEF SaleOK, DiscountOK
    <3> QED
      BY <1>1, <3>1, TillCartAssumption DEF SaleOK, Bill, StillHolds
  <2> QED
    BY <2>1, <2>2, TendersAddUp DEF TendersAgree
<1> QED
  BY <1>1, <1>3, <1>4, <1>5 DEF Accepts, CartPriced, StillHolds, x

(* The server accepts every sale the till makes as long as what it was     *)
(* made of still holds, whatever the catalog, the promos and the amounts   *)
(* (lineMoney, computeDiscount, syncSale).                                 *)
THEOREM SalesAreAccepted == TillSpec => []SaleAccepted
BY InitCartInv, StepCartInv, WhatHoldsIsAccepted, PTL DEF TillSpec
-------------------------------------------------------------------------------
(***************************************************************************)
(* TillSession: a till sells on a shift of its user, in the store of the   *)
(* page.                                                                   *)
(***************************************************************************)

IsShift(s) == s = [cashier |-> s.cashier, store |-> s.store, open |-> s.open]
IsCall(c) ==
    /\ c = [kind |-> c.kind, as |-> c.as, store |-> c.store, shift |-> c.shift, prices |-> c.prices,
            back |-> c.back, login |-> c.login, alone |-> c.alone]
    /\ c.alone \in BOOLEAN

(* Shifts are numbered, and keep their cashier and their store.            *)
ShiftsTyped ==
    \E n \in Nat : DOMAIN shifts = 1..n /\ shifts = [i \in 1..n |-> shifts[i]] /\ \A i \in 1..n : IsShift(shifts[i])
Belongs(i, u, s) == i \in DOMAIN shifts /\ shifts[i].cashier = u /\ shifts[i].store = s

(* An answer brings a shift of the user it was asked for, in the store it  *)
(* brings.                                                                 *)
Brings(c) ==
    c.back = "done" /\ c.shift # 0 =>
        /\ c.kind \in {"bootstrap", "clockIn"} => Belongs(c.shift, c.as, c.store)
        /\ c.kind = "active" => c.shift \in DOMAIN shifts /\ shifts[c.shift].cashier = c.as

(* A request that is alone is of the user who is signed in and, when it is *)
(* about the shift, of the store that is shown, which has no shift yet.    *)
Lonely(c) ==
    /\ calls = {c} /\ c.as = token
    /\ c.kind \in {"clockIn", "active"} => activeShift = 0 /\ c.store = session.store

CallsKnown == \A c \in calls : IsCall(c) /\ Brings(c) /\ (c.alone => Lonely(c))
OnOwnShift ==
    /\ staff = token /\ session.cashier = token /\ session.shift = activeShift
    /\ activeShift # 0 => Belongs(activeShift, token, session.store)

SessionInv ==
    /\ ShiftsTyped /\ mixed \in BOOLEAN
    /\ session = [store |-> session.store, cashier |-> session.cashier, shift |-> session.shift]
    /\ CallsKnown
    /\ page = "pos" /\ ~mixed => OnOwnShift

LEMMA InitSessionInv == SessionInit => SessionInv
<1> SUFFICES ASSUME SessionInit PROVE SessionInv
  OBVIOUS
<1>1. ShiftsTyped
  <2>1. shifts = << >> /\ DOMAIN shifts = 1..0
    BY DEF SessionInit
  <2>2. shifts = [i \in 1..0 |-> shifts[i]] /\ 0 \in Nat
    BY <2>1
  <2> QED
    BY <2>1, <2>2 DEF ShiftsTyped
<1>2. PICK u \in Users, s \in Shops :
        /\ token = u /\ staff = u /\ session = [store |-> s, cashier |-> u, shift |-> 0]
        /\ activeShift = 0 /\ calls = {} /\ mixed = FALSE
  BY DEF SessionInit
<1>3. OnOwnShift
  BY <1>2 DEF OnOwnShift
<1>4. session = [store |-> session.store, cashier |-> session.cashier, shift |-> session.shift]
  BY <1>2
<1> QED
  BY <1>1, <1>2, <1>3, <1>4 DEF SessionInv, CallsKnown

(* What becomes of the shifts leaves those there are where they were.      *)
ShiftsGrow ==
    /\ DOMAIN shifts \subseteq DOMAIN shifts'
    /\ \A i \in DOMAIN shifts : shifts'[i].cashier = shifts[i].cashier /\ shifts'[i].store = shifts[i].store

LEMMA NextShift == ASSUME ShiftsTyped PROVE \E n \in Nat : DOMAIN shifts = 1..n /\ Cardinality(DOMAIN shifts) = n
<1>1. PICK n \in Nat : DOMAIN shifts = 1..n
  BY DEF ShiftsTyped
<1>2. Cardinality(1..n) = n
  BY FS_Interval
<1> QED
  BY <1>1, <1>2

LEMMA OpensShift ==
    ASSUME ShiftsTyped, NEW u, NEW s, NEW i, i = Cardinality(DOMAIN shifts) + 1,
           shifts' = [j \in 1..i |-> IF j = i THEN [cashier |-> u, store |-> s, open |-> TRUE] ELSE shifts[j]]
    PROVE  ShiftsTyped' /\ ShiftsGrow /\ Belongs(i, u, s)' /\ i # 0
<1>1. PICK n \in Nat : DOMAIN shifts = 1..n /\ shifts = [j \in 1..n |-> shifts[j]] /\ \A j \in 1..n : IsShift(shifts[j])
  BY DEF ShiftsTyped
<1>2. i = n + 1
  BY <1>1, NextShift
<1>3. DOMAIN shifts' = 1..(n + 1) /\ n + 1 \in Nat /\ shifts' = [j \in 1..(n + 1) |-> shifts'[j]]
  BY <1>1, <1>2
<1>4. ASSUME NEW j \in 1..(n + 1) PROVE IsShift(shifts'[j])
  <2>1. CASE j = i
    <3>1. shifts'[j] = [cashier |-> u, store |-> s, open |-> TRUE]
      BY <1>2, <2>1
    <3> QED
      BY <3>1 DEF IsShift
  <2>2. CASE j # i
    BY <1>1, <1>2, <2>2
  <2> QED
    BY <2>1, <2>2
<1>5. ShiftsTyped'
  BY <1>3, <1>4 DEF ShiftsTyped
<1> QED
  BY <1>1, <1>2, <1>5 DEF ShiftsGrow, Belongs

LEMMA ClosesShift ==
    ASSUME ShiftsTyped, NEW i, shifts' = [shifts EXCEPT ![i].open = FALSE]
    PROVE  ShiftsTyped' /\ ShiftsGrow
<1>1. PICK n \in Nat : DOMAIN shifts = 1..n /\ shifts = [j \in 1..n |-> shifts[j]] /\ \A j \in 1..n : IsShift(shifts[j])
  BY DEF ShiftsTyped
<1>2. /\ DOMAIN shifts' = 1..n /\ shifts' = [j \in 1..n |-> shifts'[j]]
      /\ \A j \in 1..n : shifts'[j] = IF j = i THEN [shifts[j] EXCEPT !.open = FALSE] ELSE shifts[j]
  BY <1>1
<1>3. ASSUME NEW j \in 1..n
      PROVE  IsShift(shifts'[j]) /\ shifts'[j].cashier = shifts[j].cashier /\ shifts'[j].store = shifts[j].store
  <2>1. CASE j # i
    BY <1>1, <1>2, <2>1
  <2>2. CASE j = i
    <3> DEFINE s == shifts[j]
               t == shifts'[j]
    <3>1. s = [cashier |-> s.cashier, store |-> s.store, open |-> s.open] /\ t = [s EXCEPT !.open = FALSE]
      BY <1>1, <1>2, <2>2 DEF IsShift
    <3> HIDE DEF s, t
    <3>2. t = [cashier |-> s.cashier, store |-> s.store, open |-> FALSE]
      BY <3>1
    <3>3. IsShift(t) /\ t.cashier = s.cashier /\ t.store = s.store
      BY <3>2 DEF IsShift
    <3> QED
      BY <3>3 DEF s, t
  <2> QED
    BY <2>1, <2>2
<1> QED
  BY <1>1, <1>2, <1>3 DEF ShiftsTyped, ShiftsGrow

LEMMA ShiftOfUser ==
    ASSUME ShiftsTyped, NEW u, ShiftOf(u) # 0
    PROVE  ShiftOf(u) \in DOMAIN shifts /\ Belongs(ShiftOf(u), u, shifts[ShiftOf(u)].store)
BY DEF ShiftOf, Belongs

(* Requests under way, and the shifts, as they grow.                       *)
LEMMA GrowKeeps == ASSUME ShiftsGrow PROVE \A i, u, s : Belongs(i, u, s) => Belongs(i, u, s)'
BY DEF ShiftsGrow, Belongs

LEMMA GrowBrings == ASSUME ShiftsGrow PROVE \A c : Brings(c) => Brings(c)'
BY GrowKeeps DEF ShiftsGrow, Brings

LEMMA ApartKnown == ASSUME CallsKnown PROVE \A c \in Apart : IsCall(c) /\ Brings(c) /\ ~c.alone
<1> SUFFICES ASSUME NEW b \in calls PROVE LET c == [b EXCEPT !.alone = FALSE] IN IsCall(c) /\ Brings(c) /\ ~c.alone
  BY DEF Apart
<1> DEFINE c == [b EXCEPT !.alone = FALSE]
<1>1. c = [kind |-> b.kind, as |-> b.as, store |-> b.store, shift |-> b.shift, prices |-> b.prices,
           back |-> b.back, login |-> b.login, alone |-> FALSE]
  <2>1. b = [kind |-> b.kind, as |-> b.as, store |-> b.store, shift |-> b.shift, prices |-> b.prices,
             back |-> b.back, login |-> b.login, alone |-> b.alone]
    BY DEF CallsKnown, IsCall
  <2>2. c = [b EXCEPT !.alone = FALSE]
    OBVIOUS
  <2> HIDE DEF c
  <2> QED
    BY <2>1, <2>2
<1> HIDE DEF c
<1>2. c.kind = b.kind /\ c.as = b.as /\ c.store = b.store /\ c.shift = b.shift /\ c.back = b.back /\ c.alone = FALSE
  BY <1>1
<1>3. IsCall(c)
  BY <1>1 DEF IsCall
<1> QED
  BY <1>2, <1>3 DEF CallsKnown, Brings, c

(* A new request is the only one, or none is alone any more.               *)
LEMMA SentKnown ==
    ASSUME CallsKnown, UNCHANGED <<shifts, activeShift, session>>,
           NEW new, IsCall(new), new.back = "sent", new.as = token', new.alone => calls = {},
           new.kind \in {"clockIn", "active"} => activeShift = 0 /\ new.store = session.store,
           calls' = Apart \cup {new}
    PROVE  CallsKnown'
<1>1. Brings(new)
  BY DEF Brings
<1>2. \A c \in calls' : IsCall(c) /\ Brings(c)'
  BY <1>1, ApartKnown DEF Brings, Belongs
<1>3. ASSUME NEW c \in calls', c.alone PROVE Lonely(c)'
  <2>1. c = new
    BY <1>3, ApartKnown
  <2>2. Apart = {}
    BY <1>3, <2>1 DEF Apart
  <2> QED
    BY <2>1, <2>2 DEF Lonely
<1> QED
  BY <1>2, <1>3 DEF CallsKnown

LEMMA NewCall ==
    ASSUME NEW kind, NEW as, NEW store, NEW shift
    PROVE  LET new == Call(kind, as, store, shift) IN
           /\ IsCall(new) /\ new.kind = kind /\ new.as = as /\ new.store = store /\ new.back = "sent"
           /\ new.alone => calls = {}
<1> DEFINE alone == calls = {}
           new == Call(kind, as, store, shift)
<1>1. alone \in BOOLEAN /\ (alone => calls = {})
  OBVIOUS
<1>2. new = [kind |-> kind, as |-> as, store |-> store, shift |-> shift, prices |-> 0, back |-> "sent",
             login |-> FALSE, alone |-> alone]
  BY DEF Call
<1> HIDE DEF alone, new
<1>3. /\ IsCall(new) /\ new.kind = kind /\ new.as = as /\ new.store = store /\ new.back = "sent"
      /\ new.alone = alone
  BY <1>1, <1>2 DEF IsCall
<1> QED
  BY <1>1, <1>3 DEF new

-------------------------------------------------------------------------------
OnScreen == <<token, staff, page, session, activeShift, mixed>>

LEMMA SameScreenKeeps ==
    ASSUME SessionInv, UNCHANGED OnScreen, ShiftsTyped', ShiftsGrow, CallsKnown'
    PROVE  SessionInv'
<1>1. OnOwnShift => OnOwnShift'
  BY GrowKeeps DEF OnScreen, OnOwnShift
<1> QED
  BY <1>1 DEF SessionInv, OnScreen

LEMMA SameShifts == UNCHANGED shifts => ShiftsGrow /\ (ShiftsTyped => ShiftsTyped')
BY DEF ShiftsGrow, ShiftsTyped, IsShift

LEMMA FewerKnown ==
    ASSUME CallsKnown, calls' \subseteq calls, UNCHANGED <<token, session, activeShift>>, ShiftsGrow
    PROVE  CallsKnown'
BY GrowBrings DEF CallsKnown, Lonely

LEMMA QuietKeeps ==
    ASSUME SessionInv,
           \/ UNCHANGED sessionVars \/ Tick \/ GoOffline \/ Reprice
           \/ \E c \in calls : Lose(c) \/ (GiveUp(c) /\ UNCHANGED backend)
    PROVE  SessionInv'
<1>1. UNCHANGED OnScreen /\ UNCHANGED shifts /\ calls' \subseteq calls
  BY DEF sessionVars, Tick, GoOffline, Reprice, Lose, GiveUp, OnScreen, device, backend
<1> QED
  BY <1>1, SameShifts, FewerKnown, SameScreenKeeps DEF SessionInv, OnScreen

LEMMA OtherTillKeeps == ASSUME SessionInv, NEW u \in Users, NEW s \in Shops, OnAnotherTill(u, s) PROVE SessionInv'
<1>1. ShiftsTyped' /\ ShiftsGrow
  <2>1. CASE ShiftOf(u) # 0
    BY <2>1, ClosesShift DEF OnAnotherTill, SessionInv
  <2>2. CASE ShiftOf(u) = 0
    <3> DEFINE i == Cardinality(DOMAIN shifts) + 1
    <3>1. shifts' = [j \in 1..i |-> IF j = i THEN [cashier |-> u, store |-> s, open |-> TRUE] ELSE shifts[j]]
      BY <2>2 DEF OnAnotherTill
    <3> HIDE DEF i
    <3> QED
      BY <3>1, OpensShift DEF SessionInv, i
  <2> QED
    BY <2>1, <2>2
<1>2. UNCHANGED OnScreen /\ UNCHANGED calls
  BY DEF OnAnotherTill, OnScreen, device
<1> QED
  BY <1>1, <1>2, FewerKnown, SameScreenKeeps DEF SessionInv, OnScreen

(* A request of the user who is signed in goes out.                        *)
LEMMA RequestKeeps ==
    ASSUME SessionInv,
           \/ \E s \in Shops : SwitchStore(s)
           \/ PollPrices \/ Invalidated \/ ClockIn \/ ClockOut \/ GoOnline
    PROVE  SessionInv'
<1>1. UNCHANGED OnScreen /\ UNCHANGED shifts
  BY DEF SwitchStore, PollPrices, Invalidated, ClockIn, ClockOut, GoOnline, OnScreen, device, backend
<1>2. CASE calls' = calls
  BY <1>1, <1>2, SameShifts, FewerKnown, SameScreenKeeps DEF SessionInv, OnScreen
<1>3. ASSUME NEW kind, NEW store, NEW shift, calls' = Apart \cup {Call(kind, token, store, shift)},
             kind \in {"clockIn", "active"} => activeShift = 0 /\ store = session.store
      PROVE  SessionInv'
  <2> DEFINE new == Call(kind, token, store, shift)
  <2>1. /\ IsCall(new) /\ new.kind = kind /\ new.as = token' /\ new.store = store /\ new.back = "sent"
        /\ new.alone => calls = {}
    BY <1>1, NewCall DEF OnScreen
  <2> HIDE DEF new
  <2>2. CallsKnown'
    BY <1>1, <1>3, <2>1, SentKnown DEF SessionInv, OnScreen, new
  <2> QED
    BY <1>1, <2>2, SameShifts, SameScreenKeeps DEF SessionInv
<1>4. CASE PollPrices \/ Invalidated
  BY <1>3, <1>4 DEF PollPrices, Invalidated, SoftRefresh, Send
<1>5. ASSUME NEW s \in Shops, SwitchStore(s) PROVE SessionInv'
  BY <1>3, <1>5 DEF SwitchStore, Send
<1>6. CASE ClockIn
  BY <1>3, <1>6 DEF ClockIn, Send
<1>7. CASE ClockOut
  BY <1>3, <1>7 DEF ClockOut, Send
<1>8. CASE GoOnline
  BY <1>2, <1>3, <1>8 DEF GoOnline
<1> QED
  BY <1>4, <1>5, <1>6, <1>7, <1>8

(* The user signs in or out, or the page is loaded again.                  *)
LEMMA SignKeeps == ASSUME SessionInv, (\E u \in Users : Login(u)) \/ Logout \/ Reload PROVE SessionInv'
<1>1. UNCHANGED <<shifts, session>>
  BY DEF Login, Logout, Reload, backend
<1>2. mixed' \in BOOLEAN /\ (page' = "pos" => mixed')
  BY DEF Login, Logout, Reload, SessionInv
<1>3. CallsKnown'
  <2>1. ASSUME NEW u \in Users, Login(u) PROVE CallsKnown'
    <3> DEFINE new == Call("bootstrap", u, session.store, 0)
               sent == [new EXCEPT !.login = TRUE]
    <3>1. calls' = Apart \cup {sent} /\ token' = u /\ UNCHANGED activeShift
      BY <2>1 DEF Login, Send
    <3>2. /\ IsCall(new) /\ new.kind = "bootstrap" /\ new.as = u /\ new.back = "sent"
          /\ new.alone => calls = {}
      BY NewCall
    <3>3. sent = [new EXCEPT !.login = TRUE]
      OBVIOUS
    <3> HIDE DEF new, sent
    <3>4. sent = [kind |-> new.kind, as |-> new.as, store |-> new.store, shift |-> new.shift, prices |-> new.prices,
                  back |-> new.back, login |-> TRUE, alone |-> new.alone]
      <4>1. new = [kind |-> new.kind, as |-> new.as, store |-> new.store, shift |-> new.shift, prices |-> new.prices,
                   back |-> new.back, login |-> new.login, alone |-> new.alone]
        BY <3>2 DEF IsCall
      <4> QED
        BY <3>3, <4>1
    <3>5. IsCall(sent) /\ sent.kind = "bootstrap" /\ sent.as = u /\ sent.back = "sent" /\ (sent.alone => calls = {})
      BY <3>2, <3>4 DEF IsCall
    <3> QED
      BY <1>1, <3>1, <3>5, SentKnown DEF SessionInv
  <2>2. CASE Logout
    BY <1>1, <2>2, ApartKnown DEF Logout, CallsKnown, SessionInv, Brings, Belongs
  <2>3. CASE Reload
    <3> DEFINE new == Call("bootstrap", token, session.store, 0)
               sent == [new EXCEPT !.alone = TRUE]
    <3>1. calls' \subseteq {sent} /\ (token' = token \/ calls' = {})
      BY <2>3 DEF Reload
    <3>2. IsCall(new) /\ new.kind = "bootstrap" /\ new.as = token /\ new.back = "sent"
      BY NewCall
    <3>3. sent = [new EXCEPT !.alone = TRUE]
      OBVIOUS
    <3> HIDE DEF new, sent
    <3>4. sent = [kind |-> new.kind, as |-> new.as, store |-> new.store, shift |-> new.shift, prices |-> new.prices,
                  back |-> new.back, login |-> new.login, alone |-> TRUE]
      <4>1. new = [kind |-> new.kind, as |-> new.as, store |-> new.store, shift |-> new.shift, prices |-> new.prices,
                   back |-> new.back, login |-> new.login, alone |-> new.alone]
        BY <3>2 DEF IsCall
      <4> QED
        BY <3>3, <4>1
    <3>5. IsCall(sent) /\ sent.kind = "bootstrap" /\ sent.as = token /\ sent.back = "sent"
      BY <3>2, <3>4 DEF IsCall
    <3> QED
      BY <3>1, <3>5 DEF CallsKnown, Brings, Lonely
  <2> QED
    BY <2>1, <2>2, <2>3
<1> QED
  BY <1>1, <1>2, <1>3, SameShifts DEF SessionInv

-------------------------------------------------------------------------------
(* An answer is on its way instead of the request.                         *)
LEMMA AnsweredKnown ==
    ASSUME CallsKnown, NEW c \in calls, NEW r, calls' = (calls \ {c}) \cup {r}, ShiftsGrow,
           UNCHANGED <<token, session, activeShift>>,
           IsCall(r), r.kind = c.kind, r.as = c.as, r.alone = c.alone,
           r.kind \in {"clockIn", "active"} => r.store = c.store, Brings(r)'
    PROVE  CallsKnown'
<1>1. \A b \in calls' : IsCall(b) /\ Brings(b)'
  BY GrowBrings DEF CallsKnown
<1>2. ASSUME NEW b \in calls', b.alone PROVE Lonely(b)'
  <2>1. CASE b = r
    BY <1>2, <2>1 DEF CallsKnown, Lonely
  <2>2. CASE b # r
    BY <1>2, <2>2 DEF CallsKnown, Lonely
  <2> QED
    BY <2>1, <2>2
<1> QED
  BY <1>1, <1>2 DEF CallsKnown

LEMMA Answers ==
    ASSUME NEW c, IsCall(c), NEW store, NEW shift, NEW n
    PROVE  /\ LET r == Reply(c, store, shift, n) IN
              IsCall(r) /\ r.kind = c.kind /\ r.as = c.as /\ r.alone = c.alone /\ r.store = store /\ r.shift = shift
           /\ LET r == Refusal(c) IN
              IsCall(r) /\ r.kind = c.kind /\ r.as = c.as /\ r.alone = c.alone /\ r.store = c.store /\ r.back = "refused"
<1> DEFINE r == Reply(c, store, shift, n)
           q == Refusal(c)
<1>1. c = [kind |-> c.kind, as |-> c.as, store |-> c.store, shift |-> c.shift, prices |-> c.prices,
           back |-> c.back, login |-> c.login, alone |-> c.alone]
  BY DEF IsCall
<1>2. r = [c EXCEPT !.store = store, !.shift = shift, !.prices = n, !.back = "done"] /\ q = [c EXCEPT !.back = "refused"]
  BY DEF Reply, Refusal
<1> HIDE DEF r, q
<1>3. r = [kind |-> c.kind, as |-> c.as, store |-> store, shift |-> shift, prices |-> n,
           back |-> "done", login |-> c.login, alone |-> c.alone]
  BY <1>1, <1>2
<1>4. q = [kind |-> c.kind, as |-> c.as, store |-> c.store, shift |-> c.shift, prices |-> c.prices,
           back |-> "refused", login |-> c.login, alone |-> c.alone]
  BY <1>1, <1>2
<1>5. IsCall(r) /\ r.kind = c.kind /\ r.as = c.as /\ r.alone = c.alone /\ r.store = store /\ r.shift = shift
  BY <1>3 DEF IsCall
<1>6. IsCall(q) /\ q.kind = c.kind /\ q.as = c.as /\ q.alone = c.alone /\ q.store = c.store /\ q.back = "refused"
  BY <1>4 DEF IsCall
<1> QED
  BY <1>5, <1>6 DEF r, q

(* The server answers with the open shift of the user who asked.           *)
LEMMA ServeKeeps == ASSUME SessionInv, NEW c \in calls, Serve(c) PROVE SessionInv'
<1>0. PICK mine, i : mine = ShiftOf(c.as) /\ i = Cardinality(DOMAIN shifts) + 1
  OBVIOUS
<1>1. UNCHANGED OnScreen /\ IsCall(c)
  BY DEF Serve, OnScreen, device, SessionInv, CallsKnown
<1>2. ASSUME NEW r, calls' = (calls \ {c}) \cup {r}, IsCall(r), r.kind = c.kind, r.as = c.as, r.alone = c.alone,
             r.kind \in {"clockIn", "active"} => r.store = c.store, Brings(r)', ShiftsTyped', ShiftsGrow
      PROVE  SessionInv'
  BY <1>1, <1>2, AnsweredKnown, SameScreenKeeps DEF SessionInv, OnScreen
<1>3. mine # 0 => mine \in DOMAIN shifts /\ shifts[mine].cashier = c.as
  BY <1>0, ShiftOfUser DEF SessionInv, Belongs
<1>4. ASSUME calls' = (calls \ {c}) \cup {Refusal(c)}, UNCHANGED shifts PROVE SessionInv'
  <2>0. PICK r : r = Refusal(c)
    OBVIOUS
  <2>1. IsCall(r) /\ r.kind = c.kind /\ r.as = c.as /\ r.alone = c.alone /\ r.store = c.store /\ r.back = "refused"
    BY <1>1, <2>0, Answers
  <2>2. Brings(r)'
    BY <2>1 DEF Brings
  <2> QED
    BY <2>0, <1>2, <1>4, <2>1, <2>2, SameShifts DEF SessionInv
<1>5. CASE c.kind = "bootstrap" /\ calls' = (calls \ {c}) \cup {Reply(c, StoreFor(c), mine, prices)} /\ UNCHANGED shifts
  <2>0. PICK r : r = Reply(c, StoreFor(c), mine, prices)
    OBVIOUS
  <2>1. IsCall(r) /\ r.kind = c.kind /\ r.as = c.as /\ r.alone = c.alone /\ r.store = StoreFor(c) /\ r.shift = mine
    BY <1>1, <2>0, Answers
  <2>2. mine # 0 => StoreFor(c) = shifts[mine].store
    BY <1>0 DEF StoreFor
  <2>3. Brings(r)'
    BY <1>3, <1>5, <2>1, <2>2 DEF Brings, Belongs
  <2> QED
    BY <2>0, <1>2, <1>5, <2>1, <2>3, SameShifts DEF SessionInv
<1>6. CASE c.kind = "active" /\ calls' = (calls \ {c}) \cup {Reply(c, c.store, mine, 0)} /\ UNCHANGED shifts
  <2>0. PICK r : r = Reply(c, c.store, mine, 0)
    OBVIOUS
  <2>1. IsCall(r) /\ r.kind = c.kind /\ r.as = c.as /\ r.alone = c.alone /\ r.store = c.store /\ r.shift = mine
    BY <1>1, <2>0, Answers
  <2>2. Brings(r)'
    BY <1>3, <1>6, <2>1 DEF Brings
  <2> QED
    BY <2>0, <1>2, <1>6, <2>1, <2>2, SameShifts DEF SessionInv
<1>7. CASE /\ c.kind = "clockIn" /\ calls' = (calls \ {c}) \cup {Reply(c, c.store, i, 0)}
           /\ shifts' = [j \in 1..i |-> IF j = i THEN [cashier |-> c.as, store |-> c.store, open |-> TRUE] ELSE shifts[j]]
  <2>0. PICK r : r = Reply(c, c.store, i, 0)
    OBVIOUS
  <2>1. IsCall(r) /\ r.kind = c.kind /\ r.as = c.as /\ r.alone = c.alone /\ r.store = c.store /\ r.shift = i
    BY <1>1, <2>0, Answers
  <2>2. ShiftsTyped' /\ ShiftsGrow /\ Belongs(i, c.as, c.store)'
    <3> SUFFICES ASSUME NEW u, NEW s, u = c.as, s = c.store PROVE ShiftsTyped' /\ ShiftsGrow /\ Belongs(i, u, s)'
      OBVIOUS
    <3>1. ShiftsTyped
      BY DEF SessionInv
    <3>2. shifts' = [j \in 1..i |-> IF j = i THEN [cashier |-> u, store |-> s, open |-> TRUE] ELSE shifts[j]]
      BY <1>7
    <3> QED
      BY <1>0, <3>1, <3>2, OpensShift
  <2>3. Brings(r)'
    BY <1>7, <2>1, <2>2 DEF Brings
  <2> QED
    BY <2>0, <1>2, <1>7, <2>1, <2>2, <2>3
<1>8. CASE /\ c.kind = "clockOut" /\ calls' = (calls \ {c}) \cup {Reply(c, c.store, 0, 0)}
           /\ shifts' = [shifts EXCEPT ![c.shift].open = FALSE]
  <2>0. PICK r : r = Reply(c, c.store, 0, 0)
    OBVIOUS
  <2>1. IsCall(r) /\ r.kind = c.kind /\ r.as = c.as /\ r.alone = c.alone /\ r.store = c.store /\ r.shift = 0
    BY <1>1, <2>0, Answers
  <2>2. ShiftsTyped' /\ ShiftsGrow
    BY <1>8, ClosesShift DEF SessionInv
  <2>3. Brings(r)'
    BY <2>1 DEF Brings
  <2> QED
    BY <2>0, <1>2, <1>8, <2>1, <2>2, <2>3
<1> QED
  BY <1>0, <1>4, <1>5, <1>6, <1>7, <1>8 DEF Serve

-------------------------------------------------------------------------------
(* What an answer changes; a request that follows it takes its place.      *)
LEMMA TakenKnown ==
    ASSUME CallsKnown, NEW c \in calls, UNCHANGED <<shifts, token>>,
           \/ calls' = calls \ {c}
           \/ \E store : /\ calls' = (calls \ {c}) \cup {[Call("active", token, store, 0) EXCEPT !.alone = c.alone]}
                         /\ c.alone => activeShift' = 0 /\ store = session'.store
           \/ \E store : calls' = (calls \ {c}) \cup {[Call("bootstrap", token, store, 0) EXCEPT !.alone = c.alone]}
    PROVE  CallsKnown'
<1>1. \A b \in calls : b # c => ~b.alone
  BY DEF CallsKnown, Lonely
<1>2. \A b \in calls \ {c} : IsCall(b) /\ Brings(b)' /\ ~b.alone
  BY <1>1 DEF CallsKnown, Brings, Belongs
<1>3. ASSUME NEW kind, NEW store, calls' = (calls \ {c}) \cup {[Call(kind, token, store, 0) EXCEPT !.alone = c.alone]},
             kind \in {"active", "bootstrap"}, kind = "active" /\ c.alone => activeShift' = 0 /\ store = session'.store
      PROVE  CallsKnown'
  <2>0. PICK new, next : new = Call(kind, token, store, 0) /\ next = [new EXCEPT !.alone = c.alone]
    OBVIOUS
  <2>1. IsCall(new) /\ new.kind = kind /\ new.as = token /\ new.store = store /\ new.back = "sent"
    BY <2>0, NewCall
  <2>2. next = [new EXCEPT !.alone = c.alone] /\ calls' = (calls \ {c}) \cup {next}
    BY <1>3, <2>0
  <2>3. new = [kind |-> new.kind, as |-> new.as, store |-> new.store, shift |-> new.shift, prices |-> new.prices,
               back |-> new.back, login |-> new.login, alone |-> new.alone]
    BY <2>1 DEF IsCall
  <2>4. next = [kind |-> new.kind, as |-> new.as, store |-> new.store, shift |-> new.shift, prices |-> new.prices,
                back |-> new.back, login |-> new.login, alone |-> c.alone]
    BY <2>2, <2>3
  <2>5. /\ IsCall(next) /\ next.kind = kind /\ next.as = token /\ next.store = store /\ next.back = "sent"
        /\ next.alone = c.alone
    BY <2>1, <2>4 DEF IsCall, CallsKnown
  <2>6. Brings(next)'
    BY <2>5 DEF Brings
  <2>7. ASSUME next.alone PROVE Lonely(next)'
    <3>1. c.alone /\ calls = {c}
      BY <2>5, <2>7 DEF CallsKnown, Lonely
    <3> QED
      BY <1>3, <2>2, <2>5, <3>1 DEF Lonely
  <2>8. ASSUME NEW b \in calls' PROVE IsCall(b) /\ Brings(b)' /\ (b.alone => Lonely(b)')
    <3>1. CASE b = next
      BY <2>5, <2>6, <2>7, <3>1
    <3>2. CASE b # next
      BY <1>2, <2>2, <3>2
    <3> QED
      BY <3>1, <3>2
  <2> QED
    BY <2>8 DEF CallsKnown
<1>4. CASE calls' = calls \ {c}
  BY <1>2, <1>4 DEF CallsKnown
<1> QED
  BY <1>3, <1>4

LEMMA ReceiveKeeps == ASSUME SessionInv, NEW c \in calls, Receive(c), ~(GiveUp(c)) PROVE SessionInv'
<1>1. IsCall(c) /\ Brings(c) /\ (c.alone => Lonely(c)) /\ UNCHANGED <<shifts, token>>
  BY DEF Receive, backend, ApplyBootstrap, ApplyClockIn, ApplyActive, ApplyClockOut, GiveUp, SessionInv, CallsKnown
<1>2. ShiftsTyped' /\ session = [store |-> session.store, cashier |-> session.cashier, shift |-> session.shift]
  BY <1>1, SameShifts DEF SessionInv
<1>3. ASSUME mixed' \in BOOLEAN, CallsKnown',
             session' = [store |-> session'.store, cashier |-> session'.cashier, shift |-> session'.shift],
             page' = "pos" /\ ~mixed' => OnOwnShift'
      PROVE  SessionInv'
  BY <1>2, <1>3 DEF SessionInv
<1>4. CASE ApplyBootstrap(c)
  <2>1. /\ c.kind = "bootstrap" /\ c.back = "done" /\ calls' = calls \ {c} /\ staff' = c.as /\ activeShift' = c.shift
        /\ session' = [store |-> c.store, cashier |-> c.as, shift |-> c.shift] /\ mixed' = ~c.alone
    BY <1>4 DEF ApplyBootstrap
  <2>2. CallsKnown'
    BY <1>1, <2>1, TakenKnown DEF SessionInv
  <2>3. mixed' \in BOOLEAN /\ (~mixed' => c.alone)
    BY <1>1, <2>1 DEF IsCall
  <2>4. ~mixed' => OnOwnShift'
    BY <1>1, <2>1, <2>3 DEF Lonely, OnOwnShift, Brings, Belongs
  <2>5. session' = [store |-> session'.store, cashier |-> session'.cashier, shift |-> session'.shift]
    BY <2>1
  <2> QED
    BY <1>3, <2>2, <2>3, <2>4, <2>5
<1>5. ASSUME NEW shift, session' = [session EXCEPT !.shift = shift], activeShift' = shift, UNCHANGED <<staff, page>>,
             Since(c), CallsKnown', c.alone /\ shift # 0 => Belongs(shift, c.as, session.store)
      PROVE  SessionInv'
  <2>1. mixed' \in BOOLEAN /\ (~mixed' => ~mixed /\ c.alone)
    BY <1>1, <1>5 DEF Since, SessionInv, IsCall
  <2>2. session' = [store |-> session.store, cashier |-> session.cashier, shift |-> shift]
    BY <1>2, <1>5
  <2>3. page' = "pos" /\ ~mixed' => OnOwnShift'
    <3> SUFFICES ASSUME page' = "pos", ~mixed' PROVE OnOwnShift'
      OBVIOUS
    <3>1. staff = token /\ session.cashier = token /\ c.as = token
      BY <1>1, <1>5, <2>1 DEF SessionInv, OnOwnShift, Lonely
    <3> QED
      BY <1>1, <1>5, <2>1, <2>2, <3>1 DEF OnOwnShift, Belongs
  <2>4. session' = [store |-> session'.store, cashier |-> session'.cashier, shift |-> session'.shift]
    BY <2>2
  <2> QED
    BY <1>3, <1>5, <2>1, <2>3, <2>4
<1>6. CASE ApplyClockIn(c)
  <2>1. c.kind = "clockIn" /\ Since(c) /\ UNCHANGED <<staff, page>>
    BY <1>6 DEF ApplyClockIn
  <2>2. CASE c.back = "done" /\ activeShift' = c.shift /\ Bind(c.shift) /\ calls' = calls \ {c}
    <3>1. CallsKnown'
      BY <1>1, <2>2, TakenKnown DEF SessionInv
    <3>2. c.alone /\ c.shift # 0 => Belongs(c.shift, c.as, session.store)
      BY <1>1, <2>1, <2>2 DEF Brings, Lonely
    <3> QED
      BY <1>5, <2>1, <2>2, <3>1, <3>2 DEF Bind
  <2>3. CASE /\ c.back = "refused" /\ UNCHANGED <<activeShift, session>>
             /\ calls' = (calls \ {c}) \cup
                  (IF token # "none" THEN {[Call("active", token, session.store, 0) EXCEPT !.alone = c.alone]} ELSE {})
    <3>1. c.alone => activeShift' = 0
      BY <1>1, <2>1, <2>3 DEF Lonely
    <3>2. CallsKnown'
      <4>1. CASE token = "none"
        <5>1. calls' = calls \ {c}
          BY <2>3, <4>1
        <5> QED
          BY <1>1, <5>1, TakenKnown DEF SessionInv
      <4>2. CASE token # "none"
        <5>1. calls' = (calls \ {c}) \cup {[Call("active", token, session.store, 0) EXCEPT !.alone = c.alone]}
          BY <2>3, <4>2
        <5>2. session'.store = session.store
          BY <2>3
        <5> QED
          BY <1>1, <3>1, <5>1, <5>2, TakenKnown DEF SessionInv
      <4> QED
        BY <4>1, <4>2
    <3>3. mixed' \in BOOLEAN /\ (~mixed' => ~mixed)
      BY <1>1, <2>1 DEF Since, SessionInv, IsCall
    <3>4. page' = "pos" /\ ~mixed' => OnOwnShift'
      BY <1>1, <2>1, <2>3, <3>3 DEF SessionInv, OnOwnShift, Belongs
    <3>5. session' = [store |-> session'.store, cashier |-> session'.cashier, shift |-> session'.shift]
      BY <1>2, <2>3
    <3> QED
      BY <1>3, <3>2, <3>3, <3>4, <3>5
  <2> QED
    BY <1>6, <2>2, <2>3 DEF ApplyClockIn
<1>7. CASE ApplyActive(c)
  <2>1. c.kind = "active" /\ c.back = "done" /\ activeShift' = c.shift /\ UNCHANGED <<staff, page>>
    BY <1>7 DEF ApplyActive
  <2>2. CASE c.shift # 0 /\ shifts[c.shift].store # c.store
    <3>1. /\ calls' = (calls \ {c}) \cup {[Call("bootstrap", token, shifts[c.shift].store, 0) EXCEPT !.alone = c.alone]}
          /\ mixed' = TRUE /\ UNCHANGED session
      BY <1>7, <2>2 DEF ApplyActive
    <3>2. CallsKnown'
      BY <1>1, <3>1, TakenKnown DEF SessionInv
    <3> QED
      BY <1>2, <1>3, <3>1, <3>2
  <2>3. CASE ~(c.shift # 0 /\ shifts[c.shift].store # c.store)
    <3>1. /\ calls' = calls \ {c} /\ Since(c)
          /\ IF c.shift # 0 THEN Bind(c.shift) ELSE UNCHANGED session
      BY <1>7, <2>3 DEF ApplyActive
    <3>2. CallsKnown'
      BY <1>1, <3>1, TakenKnown DEF SessionInv
    <3>3. CASE c.shift # 0
      <4>1. c.alone => Belongs(c.shift, c.as, session.store)
        BY <1>1, <2>1, <2>3, <3>3 DEF Brings, Lonely, Belongs
      <4> QED
        BY <1>5, <2>1, <3>1, <3>2, <3>3, <4>1 DEF Bind
    <3>4. CASE c.shift = 0
      <4>1. mixed' \in BOOLEAN /\ (~mixed' => ~mixed /\ c.alone)
        BY <1>1, <3>1 DEF Since, SessionInv, IsCall
      <4>2. page' = "pos" /\ ~mixed' => OnOwnShift'
        BY <1>1, <2>1, <3>1, <3>4, <4>1 DEF SessionInv, OnOwnShift, Lonely
      <4>3. session' = [store |-> session'.store, cashier |-> session'.cashier, shift |-> session'.shift]
        BY <1>2, <3>1, <3>4
      <4> QED
        BY <1>3, <3>2, <4>1, <4>2, <4>3
    <3> QED
      BY <3>3, <3>4
  <2> QED
    BY <2>2, <2>3
<1>8. CASE ApplyClockOut(c)
  <2>1. calls' = calls \ {c} /\ activeShift' = 0 /\ Bind(0) /\ Since(c) /\ UNCHANGED <<staff, page>>
    BY <1>8 DEF ApplyClockOut
  <2>2. CallsKnown'
    BY <1>1, <2>1, TakenKnown DEF SessionInv
  <2> QED
    BY <1>5, <2>1, <2>2 DEF Bind
<1> QED
  BY <1>4, <1>6, <1>7, <1>8 DEF Receive

LEMMA StepSessionInv == SessionInv /\ [SessionNext]_sessionVars => SessionInv'
<1>1. ASSUME SessionInv, NEW c \in calls, Receive(c) PROVE SessionInv'
  BY <1>1, ReceiveKeeps, QuietKeeps DEF Receive
<1> QED
  BY <1>1, QuietKeeps, OtherTillKeeps, RequestKeeps, SignKeeps, ServeKeeps DEF SessionNext

(* A till whose requests came back one at a time sells for its own user,   *)
(* on a shift of that user, in the store of that shift, whatever users,    *)
(* stores and tills there are (bootstrap, clockIn, getActive).             *)
THEOREM TillsSellForTheirUser == SessionSpec => []OwnShift
<1>1. SessionInv => OwnShift
  BY DEF SessionInv, OnOwnShift, OwnShift, Belongs
<1> QED
  BY <1>1, InitSessionInv, StepSessionInv, PTL DEF SessionSpec
===============================================================================
