------------------------------- MODULE TillCart -------------------------------
(***************************************************************************)
(* Money at the till and at the server.  The till prices a cart from its   *)
(* copy of the catalog, applies a promo and points, and splits what is to  *)
(* pay (frontend/src/stores/cart.store.ts, stores/sync.store.ts, pages/    *)
(* PosPage.vue, components/CheckoutPanel.vue); the server prices the sale  *)
(* again and refuses one it does not agree with for good (backend/src/pos/ *)
(* pos.service.ts, promotions/promo.service.ts).  In between prices,       *)
(* promos and balances change.  A sku stands for a product, or one of its  *)
(* variants, with its modifiers; amounts are whole rupiah.                 *)
(***************************************************************************)
EXTENDS Integers, FiniteSets, Functions

CONSTANTS
    Skus, TaxBps, Prices,    \* prices a sku may take
    Variants,                \* the skus that are variants of a product
    Promos, Promo,           \* Promo[p]: percent, bps or amount, cap, min, scope, stacks
    PointValue, Points,      \* a point is so much; the balances there may be
    Previews,                \* previews that may be under way at once
    Slots, Guests, MaxPieces, Tips, Splits,  \* bounds: lines, guests, pieces,
    MaxChanges               \* tips, cash parts of a split, changes at the office

ASSUME TillCartAssumption ==
    /\ TaxBps \in [Skus -> Nat] /\ Prices \in [Skus -> SUBSET Nat]
    /\ Promo \in [Promos -> [percent : BOOLEAN, value : Nat \ {0}, cap : Int, min : Nat,
                             scope : SUBSET Skus, stacks : BOOLEAN]]
    /\ "none" \notin Skus \cup Promos /\ IsFiniteSet(Slots)
    /\ Variants \subseteq Skus /\ Points \subseteq Nat /\ PointValue \in Nat \ {0}
    /\ Guests \subseteq 1 .. 8 /\ MaxPieces \in Nat /\ Tips \subseteq Nat /\ Splits \subseteq Nat
    /\ MaxChanges \in Nat

NoPromo == "none"
Free == [sku |-> "none", qty |-> 0, guest |-> 0, unit |-> 0]
NoDiscount == [amount |-> 0, promo |-> NoPromo, points |-> 0]
NoPreview == [kind |-> "none"]

VARIABLES
    price, usable, balance,   \* the server: prices, valid promos, loyalty_points
    seen, shown,              \* the till: prices of its catalog, customerPoints
    line,                     \* cart.items
    discount,                 \* discountInCents, promoCode, loyaltyPointsRedeemed
    customer,                 \* cart.customerId is set
    preview,                  \* calls of previewPromo that are awaited
    changes,                  \* at the office so far
    sale,                     \* the sale in the offline queue, or None
    touched                   \* history: the cart changed under its discount

server == <<price, usable, balance, changes>>
copy == <<seen, shown>>
cart == <<line, discount, customer, preview>>
tillVars == <<server, copy, cart, sale, touched>>
None == [total |-> -1]
-------------------------------------------------------------------------------
(* lineMoney: the tax of a line is rounded half up.                        *)
Sub(unit, qty) == unit * qty
Tax(sku, sub) == (sub * TaxBps[sku] + 5000) \div 10000

(* What lines at a price come to: lines are [sku, qty, guest, unit].       *)
Used(l) == {s \in Slots : l[s].sku # "none"}
SubOf(l) == SumFunctionOnSet([s \in Used(l) |-> Sub(l[s].unit, l[s].qty)], Used(l))
TaxOf(l) == SumFunctionOnSet([s \in Used(l) |-> Tax(l[s].sku, Sub(l[s].unit, l[s].qty))], Used(l))
Gross(l, skus) ==
    LET g == [s \in Slots |-> IF l[s].sku \in skus THEN l[s] ELSE Free] IN SubOf(g) + TaxOf(g)

(* computeDiscount: 0 below the minimum, else capped and at most the base. *)
Least(m, n) == IF m <= n THEN m ELSE n
Discount(p, l) ==
    LET base == Gross(l, Promo[p].scope) IN
    IF base < Promo[p].min THEN 0
    ELSE IF Promo[p].percent
         THEN Least(Least((base * Promo[p].value) \div 10000, Promo[p].cap), base)
         ELSE Least(Promo[p].value, base)

(* preview: a promo that is not valid now gives nothing.                   *)
Preview(p, l) == IF p \in usable THEN Discount(p, l) ELSE 0

(* retotal keeps a discount between nothing and the whole.                 *)
Clamped(n, l) == Least(n, SubOf(l) + TaxOf(l))
Retotal(l) == discount' = [discount EXCEPT !.amount = Clamped(@, l)]

(* A change of the cart leaves promo and points as they are, and what is   *)
(* cut off the discount stays off; previews that are awaited are of the    *)
(* cart as it was.  Bounds: the pieces in the cart; while a sale waits in  *)
(* the queue nothing new is rung up.                                       *)
Pieces(l) == SumFunctionOnSet([s \in Used(l) |-> l[s].qty], Used(l))
Cut(n, l) == n > SubOf(l) + TaxOf(l)
Touch(l) == touched' = (touched \/ discount.promo # NoPromo \/ Cut(discount.amount, l))
Outdate ==
    preview' = [v \in Previews |-> IF preview[v] = NoPreview THEN NoPreview ELSE [preview[v] EXCEPT !.fresh = FALSE]]
Change(l) ==
    /\ sale = None /\ Pieces(l) <= MaxPieces
    /\ line' = l /\ Retotal(l) /\ Touch(l) /\ Outdate
    /\ UNCHANGED <<server, copy, customer, sale>>
-------------------------------------------------------------------------------
(* A tap adds one to the line of guest 1, at the price that line has.      *)
AddProduct(sku) ==
    LET same == {s \in Used(line) : line[s].sku = sku /\ line[s].guest = 1} IN
    IF same # {}
    THEN \E s \in same : Change([line EXCEPT ![s].qty = @ + 1])
    ELSE \E s \in Slots \ Used(line) :
            Change([line EXCEPT ![s] = [sku |-> sku, qty |-> 1, guest |-> 1, unit |-> seen[sku]]])
SetQuantity(s, n) ==
    /\ s \in Used(line) /\ n # line[s].qty
    /\ Change([line EXCEPT ![s] = IF n = 0 THEN Free ELSE [@ EXCEPT !.qty = n]])
SetGuest(s, g) ==
    /\ s \in Used(line) /\ g # line[s].guest
    /\ Change([line EXCEPT ![s].guest = g])

SetCustomer(yes) ==
    /\ sale = None /\ yes # customer /\ customer' = yes
    /\ shown' = IF yes THEN balance ELSE shown
    /\ UNCHANGED <<server, seen, line, discount, preview, sale, touched>>

(* applyDiscount: such a promo stays, too.                                 *)
SetDiscount(n, p, points) == discount' = [amount |-> Clamped(n, line), promo |-> p, points |-> points]

(* applyPromoCode and applyLoyaltyRedeem (PosPage.vue) send the lines as   *)
(* they are, await what the server makes of them, and apply the answer to  *)
(* the cart as it then is.  Bound: the server answers at once, the answer  *)
(* is what is late, and one that is not applied (an error is shown) is as  *)
(* good as none.                                                           *)
Ask(v, kind, p, n) ==
    /\ sale = None /\ preview[v] = NoPreview
    /\ preview' = [preview EXCEPT ![v] = [kind |-> kind, promo |-> p, points |-> n, off |-> Preview(p, line), fresh |-> TRUE]]
    /\ UNCHANGED <<server, copy, line, discount, customer, sale, touched>>
AskPromo(v, p) == Used(line) # {} /\ Preview(p, line) >= 1 /\ Ask(v, "promo", p, 0)
AskPoints(v, n) ==
    LET p == discount.promo IN
    /\ customer /\ n <= shown /\ p # NoPromo
    /\ p \in usable /\ n > 0 => Promo[p].stacks
    /\ Ask(v, "points", p, n)
PreviewFails(v) ==
    /\ preview[v] # NoPreview /\ preview' = [preview EXCEPT ![v] = NoPreview]
    /\ UNCHANGED <<server, copy, line, discount, customer, sale, touched>>

Awaited(v, kind) == preview[v].kind = kind /\ preview' = [preview EXCEPT ![v] = NoPreview]
ApplyPromoAnyway(v) ==          \* Mutant: with points that it does not go with.
    LET r == preview[v]
        n == r.off + discount.points * PointValue IN
    /\ Awaited(v, "promo")
    /\ SetDiscount(n, r.promo, discount.points)
    /\ touched' = (Cut(n, line) \/ ~r.fresh)
    /\ UNCHANGED <<server, copy, line, customer, sale>>
ApplyPromo(v) ==
    LET r == preview[v]
        n == r.off + discount.points * PointValue IN
    /\ Awaited(v, "promo")
    /\ discount.points > 0 => Promo[r.promo].stacks
    /\ SetDiscount(n, r.promo, discount.points)
    /\ touched' = (Cut(n, line) \/ ~r.fresh)
    /\ UNCHANGED <<server, copy, line, customer, sale>>

(* The points that were typed, with the promo that the cart has by now.    *)
RedeemWith(v) ==
    LET r == preview[v]
        n == r.off + r.points * PointValue IN
    /\ Awaited(v, "points")
    /\ SetDiscount(n, discount.promo, r.points)
    /\ touched' = (Cut(n, line) \/ r.off < 1 \/ ~r.fresh \/ discount.promo # r.promo)
    /\ UNCHANGED <<server, copy, line, customer, sale>>
Redeem(n) ==
    /\ sale = None /\ customer /\ n <= shown /\ discount.promo = NoPromo
    /\ SetDiscount(n * PointValue, NoPromo, n)
    /\ touched' = Cut(n * PointValue, line)
    /\ UNCHANGED <<server, copy, line, customer, preview, sale>>
ClearPromo ==
    /\ sale = None /\ Used(line) # {} /\ discount' = NoDiscount /\ touched' = FALSE
    /\ UNCHANGED <<server, copy, line, customer, preview, sale>>
-------------------------------------------------------------------------------
(* checkout: the sale as it is queued; a guest pays without the discount,  *)
(* and the cart of the other guests, which is held, is resumed.            *)
(* CheckoutPanel offers one tender, of nothing even, or cash and another.  *)
Tenders(total, cash) == IF cash = 0 THEN <<total>> ELSE <<cash, total - cash>>
Bill(l, off, tip) == SubOf(l) + TaxOf(l) - off.amount + tip
Queue(l, off, tip, cash) ==
    /\ sale = None /\ Used(l) # {} /\ (cash = 0 \/ cash < Bill(l, off, tip))
    /\ sale' = [lines |-> l, sub |-> SubOf(l), tax |-> TaxOf(l), off |-> off, tip |-> tip,
                total |-> Bill(l, off, tip), tenders |-> Tenders(Bill(l, off, tip), cash),
                customer |-> customer, kept |-> ~touched \/ off = NoDiscount]
    /\ Outdate

Checkout(tip, cash) ==
    /\ Queue(line, discount, tip, cash)
    /\ line' = [s \in Slots |-> Free] /\ discount' = NoDiscount /\ customer' = FALSE /\ touched' = FALSE
    /\ UNCHANGED <<server, copy>>
CheckoutGuest(g, tip, cash) ==
    LET mine == [s \in Slots |-> IF line[s].guest = g THEN line[s] ELSE Free]
        rest == [s \in Slots |-> IF line[s].guest = g THEN Free ELSE line[s]] IN
    /\ Queue(mine, NoDiscount, tip, cash)
    /\ line' = rest
    /\ IF Used(rest) = {}
       THEN discount' = NoDiscount /\ customer' = FALSE /\ touched' = FALSE
       ELSE Retotal(rest) /\ Touch(rest) /\ UNCHANGED customer
    /\ UNCHANGED <<server, copy>>

(* refreshFromApi                                                          *)
RefreshCatalog ==
    /\ seen' = price
    /\ UNCHANGED <<server, shown, cart, sale, touched>>
-------------------------------------------------------------------------------
(* The office and other tills.                                             *)
Elsewhere == changes < MaxChanges /\ changes' = changes + 1
ChangePrice(sku, n) ==
    /\ Elsewhere /\ n # price[sku]
    /\ price' = [price EXCEPT ![sku] = n]
    /\ UNCHANGED <<usable, balance, copy, cart, sale, touched>>
SwitchPromo(p) ==
    /\ Elsewhere
    /\ usable' = IF p \in usable THEN usable \ {p} ELSE usable \cup {p}
    /\ UNCHANGED <<price, balance, copy, cart, sale, touched>>
ChangeBalance(n) ==
    /\ Elsewhere
    /\ balance' = n
    /\ UNCHANGED <<price, usable, copy, cart, sale, touched>>

(* syncSale: priced, discounted and added up anew.  The cart that it saves *)
(* with the sale is priced once more, of lines without their variant.      *)
Repriced(l) == [s \in Slots |-> IF s \in Used(l) THEN [l[s] EXCEPT !.unit = price[l[s].sku]] ELSE l[s]]
Off(x) == IF x.off.promo = NoPromo THEN 0 ELSE Preview(x.off.promo, Repriced(x.lines))
PricesAgree(x) ==
    LET l == Repriced(x.lines) IN
    /\ \A s \in Used(l) : l[s].qty >= 1 /\ l[s].guest \in 1 .. 20
    /\ x.sub = SubOf(l) /\ x.tax = TaxOf(l) /\ x.total = SubOf(l) + TaxOf(l) - x.off.amount + x.tip
DiscountAgrees(x) ==
    /\ x.off.promo # NoPromo => Off(x) >= 1
    /\ x.off.points > 0 => x.customer /\ balance >= x.off.points
    /\ x.off.points > 0 /\ x.off.promo # NoPromo => Promo[x.off.promo].stacks
    /\ x.off.amount = Off(x) + x.off.points * PointValue
TendersAgree(x) ==
    /\ \A i \in DOMAIN x.tenders : x.tenders[i] >= 1
    /\ x.total = SumFunction(x.tenders)
CartPriced(x) == \A s \in Used(x.lines) : x.lines[s].sku \notin Variants
Accepts(x) == PricesAgree(x) /\ DiscountAgrees(x) /\ TendersAgree(x) /\ CartPriced(x)
SyncSale ==
    /\ sale # None /\ sale' = None
    /\ balance' = IF Accepts(sale) THEN balance - sale.off.points ELSE balance
    /\ UNCHANGED <<price, usable, changes, copy, cart, touched>>

TillInit ==
    /\ price \in [Skus -> UNION {Prices[k] : k \in Skus}] /\ \A k \in Skus : price[k] \in Prices[k]
    /\ usable = Promos /\ balance \in Points /\ seen = price /\ shown = 0
    /\ line = [s \in Slots |-> Free] /\ discount = NoDiscount /\ customer = FALSE
    /\ preview = [v \in Previews |-> NoPreview] /\ sale = None /\ touched = FALSE /\ changes = 0

TillNext ==
    \/ \E k \in Skus : AddProduct(k) \/ \E n \in Prices[k] : ChangePrice(k, n)
    \/ \E s \in Slots : (\E n \in 0 .. MaxPieces : SetQuantity(s, n)) \/ \E g \in Guests : SetGuest(s, g)
    \/ \E yes \in BOOLEAN : SetCustomer(yes)
    \/ \E v \in Previews :
          \/ (\E p \in Promos : AskPromo(v, p)) \/ (\E n \in Points : AskPoints(v, n))
          \/ PreviewFails(v) \/ ApplyPromo(v) \/ RedeemWith(v)
    \/ \E p \in Promos : SwitchPromo(p)
    \/ ClearPromo \/ \E n \in Points : Redeem(n) \/ ChangeBalance(n)
    \/ \E tip \in Tips, cash \in Splits : Checkout(tip, cash) \/ \E g \in Guests : CheckoutGuest(g, tip, cash)
    \/ RefreshCatalog \/ SyncSale
TillSpec == TillInit /\ [][TillNext]_tillVars
-------------------------------------------------------------------------------
(* What a sale was made of still holds: prices, promo and points are as    *)
(* they were, the cart did not change under its promo or the preview of    *)
(* it, nor below its discount, something is to pay, and no line has a      *)
(* variant.                                                                *)
StillHolds(x) ==
    /\ \A s \in Used(x.lines) : x.lines[s].unit = price[x.lines[s].sku] /\ x.lines[s].sku \notin Variants
    /\ x.kept /\ (x.off.promo # NoPromo => x.off.promo \in usable)
    /\ x.off.points > 0 => x.customer /\ balance >= x.off.points
    /\ x.total > 0

(* The server accepts every sale the till makes as long as what it was     *)
(* made of still holds: whatever was tapped, split between guests and      *)
(* tenders, redeemed and applied, and whenever the answers to its previews *)
(* came, both come to the same rupiah.                                     *)
SaleAccepted == sale # None /\ StillHolds(sale) => Accepts(sale)

(* Refuted: "error `Variant required for ...` berarti baris tanpa varian", *)
(* means a line without a variant (docs/MANUAL.md:282).  The cart saved    *)
(* with a sale drops the variants, so a line that has one is refused too.  *)
VariantsSold ==
    sale # None /\ PricesAgree(sale) /\ DiscountAgrees(sale) /\ TendersAgree(sale) => Accepts(sale)

(* Refuted by hand: a sale paid for by points or a promo altogether has a  *)
(* tender of 0, and one that redeems more than its total another discount  *)
(* than the server's; both are refused for good (pos.service.ts:853, 418). *)
DiscountsSold ==
    sale # None /\ PricesAgree(sale) /\ CartPriced(sale) /\ sale.off.promo = NoPromo /\ sale.customer /\ balance >= sale.off.points
        => Accepts(sale)

(* Refuted by hand: a promo goes with the lines of its sale.  An answer    *)
(* that comes after a tap is applied to a cart it is not of.               *)
PromoOfItsLines ==
    sale # None /\ sale.off.promo # NoPromo /\ sale.off.promo \in usable /\ sale.off.points = 0 /\ PricesAgree(sale)
        => sale.off.amount = Off(sale)
===============================================================================
