----------------------------- MODULE TillSession -----------------------------
(***************************************************************************)
(* Who a till sells for: the signed in user, the store it shows, the shift *)
(* it books on and the prices it has loaded.                               *)
(* frontend/src/stores/auth.store.ts, catalog.store.ts, shift.store.ts,    *)
(* App.vue, LoginPage.vue, PosPage.vue; backend/src/pos/pos.service.ts     *)
(* (bootstrap), shifts/shift.service.ts, auth/.  Replies are applied as    *)
(* they come, whoever is signed in by then and whatever was sent since.    *)
(***************************************************************************)
EXTENDS Integers, FiniteSets

CONSTANTS
    Users, Shops,         \* shops are stores
    MaxShifts, MaxPrices, MaxActs, MaxCalls    \* bounds

ASSUME SessionAssumption ==
    /\ "none" \notin Users \cup Shops
    /\ {MaxShifts, MaxPrices, MaxActs, MaxCalls} \subseteq Nat

VARIABLES
    token, staff,     \* auth.store: accessToken (localStorage) and staff
    page,             \* "login" or "pos"
    session,          \* catalog.session: store, cashier, shift (IndexedDB)
    activeShift,      \* shift.active, or 0
    loaded,           \* the store and the version that are loaded
    recent,           \* lastRefreshAt is within the least interval
    online,           \* navigator.onLine
    shifts,           \* cashier_shifts: [cashier, store, open] by id
    prices,           \* a version of the prices
    calls,            \* requests under way, and replies
    mixed,            \* history: what is shown is not of one request, see Apart
    acts              \* what the user does and the network fails; bounded

device == <<token, staff, page, session, activeShift, loaded, recent, online>>
backend == <<shifts, prices>>
sessionVars == <<device, backend, calls, mixed, acts>>

SignedIn == token # "none" /\ staff # "none"          \* isAuthenticated
ShiftOf(u) == IF \E i \in DOMAIN shifts : shifts[i].cashier = u /\ shifts[i].open
              THEN CHOOSE i \in DOMAIN shifts : shifts[i].cashier = u /\ shifts[i].open ELSE 0
Room == Cardinality(DOMAIN shifts) + Cardinality({c \in calls : c.kind = "clockIn" /\ c.back = "sent"}) < MaxShifts
Clocking == \E c \in calls : c.kind \in {"clockIn", "clockOut", "active"}     \* busy

(* A request goes out as the bearer of the token.  History: it is alone    *)
(* when no other one was under way, nor the user acted, until its answer.  *)
Call(kind, as, store, shift) ==
    [kind |-> kind, as |-> as, store |-> store, shift |-> shift, prices |-> 0, back |-> "sent",
     login |-> FALSE, alone |-> calls = {}]
Apart == {[c EXCEPT !.alone = FALSE] : c \in calls}
Send(c) == Cardinality(calls) < MaxCalls /\ calls' = Apart \cup {c}
Reply(c, store, shift, n) == [c EXCEPT !.store = store, !.shift = shift, !.prices = n, !.back = "done"]
Refusal(c) == [c EXCEPT !.back = "refused"]
Act == acts < MaxActs /\ acts' = acts + 1
-------------------------------------------------------------------------------
(* LoginPage submit: the token first, then a bootstrap; then the POS page. *)
Login(u) ==
    /\ page = "login" /\ online /\ Act
    /\ \A c \in calls : ~c.login
    /\ token' = u /\ staff' = u
    /\ Send([Call("bootstrap", u, session.store, 0) EXCEPT !.login = TRUE])
    /\ mixed' = TRUE
    /\ UNCHANGED <<page, session, activeShift, loaded, recent, online, backend>>

(* App onLogout: what was loaded stays, and so do requests under way.      *)
Logout ==
    /\ page = "pos" /\ Act
    /\ token' = "none" /\ staff' = "none" /\ page' = "login"
    /\ calls' = Apart
    /\ UNCHANGED <<session, activeShift, loaded, recent, online, backend, mixed>>

(* A reload: restoreSession signs in with the token it kept, or out when   *)
(* /auth/me does not answer; then boot loads what was stored, and asks.    *)
Restores == token # "none" /\ online
Reload ==
    /\ Act
    /\ activeShift' = 0 /\ recent' = FALSE /\ mixed' = TRUE
    /\ token' = IF Restores THEN token ELSE "none"
    /\ staff' = token' /\ page' = IF Restores THEN "pos" ELSE "login"
    /\ calls' = IF Restores THEN {[Call("bootstrap", token, session.store, 0) EXCEPT !.alone = TRUE]} ELSE {}
    /\ UNCHANGED <<session, loaded, online, backend>>

SwitchStore(s) ==
    /\ page = "pos" /\ s # session.store /\ Act
    /\ Send(Call("bootstrap", token, s, 0))
    /\ UNCHANGED <<device, backend, mixed>>

(* softRefreshFromApi, and who calls it: the poll every 60 s, a focused or *)
(* visible tab, coming online, and what other tabs broadcast.              *)
SoftRefreshOnce(late) ==          \* Mutant: what has been loaded is not asked for again.
    /\ online /\ SignedIn /\ (late => ~recent) /\ loaded[1] # session.store
    /\ Send(Call("bootstrap", token, session.store, 0))
SoftRefresh(late) ==
    /\ online /\ SignedIn /\ (late => ~recent)
    /\ Send(Call("bootstrap", token, session.store, 0))
PollPrices == SoftRefresh(TRUE) /\ UNCHANGED <<device, backend, mixed, acts>>
Invalidated == SoftRefresh(FALSE) /\ UNCHANGED <<device, backend, mixed, acts>>
GoOffline ==
    /\ online /\ online' = FALSE
    /\ UNCHANGED <<token, staff, page, session, activeShift, loaded, recent, backend, calls, mixed, acts>>
GoOnline ==
    /\ ~online /\ online' = TRUE
    /\ calls' = IF SignedIn /\ Cardinality(calls) < MaxCalls
                THEN Apart \cup {Call("bootstrap", token, session.store, 0)} ELSE calls
    /\ UNCHANGED <<token, staff, page, session, activeShift, loaded, recent, backend, mixed, acts>>
Tick ==
    /\ recent /\ recent' = FALSE
    /\ UNCHANGED <<token, staff, page, session, activeShift, loaded, online, backend, calls, mixed, acts>>

(* doClockIn on the store that is shown; doClockOut of the shift it has.   *)
ClockIn ==
    /\ page = "pos" /\ activeShift = 0 /\ session.store # "none" /\ ~Clocking /\ Room
    /\ Send(Call("clockIn", token, session.store, 0))
    /\ UNCHANGED <<device, backend, mixed, acts>>
ClockOut ==
    /\ page = "pos" /\ activeShift # 0 /\ ~Clocking
    /\ Send(Call("clockOut", token, "none", activeShift))
    /\ UNCHANGED <<device, backend, mixed, acts>>
-------------------------------------------------------------------------------
(* The store of an open shift goes before the one that is asked for.       *)
StoreAsked(c) ==            \* Mutant: the store asked for goes first.
    IF c.store # "none" THEN c.store ELSE IF ShiftOf(c.as) # 0 THEN shifts[ShiftOf(c.as)].store ELSE CHOOSE s \in Shops : TRUE
StoreFor(c) ==
    IF ShiftOf(c.as) # 0 THEN shifts[ShiftOf(c.as)].store
    ELSE IF c.store # "none" THEN c.store ELSE CHOOSE s \in Shops : TRUE

Serve(c) ==
    /\ c \in calls /\ c.back = "sent" /\ online
    /\ LET Back(r) == calls' = (calls \ {c}) \cup {r}
           mine == ShiftOf(c.as) IN
       \/ /\ c.kind = "bootstrap"
          /\ Back(Reply(c, StoreFor(c), mine, prices)) /\ UNCHANGED shifts
       \/ /\ c.kind = "active"
          /\ Back(Reply(c, c.store, mine, 0)) /\ UNCHANGED shifts
       \/ /\ c.kind = "clockIn"
          /\ IF mine # 0
             THEN Back(Refusal(c)) /\ UNCHANGED shifts
             ELSE LET i == Cardinality(DOMAIN shifts) + 1 IN
                  /\ shifts' = [j \in 1..i |-> IF j = i THEN [cashier |-> c.as, store |-> c.store, open |-> TRUE] ELSE shifts[j]]
                  /\ Back(Reply(c, c.store, i, 0))
       \/ /\ c.kind = "clockOut"
          /\ IF shifts[c.shift].open /\ shifts[c.shift].cashier = c.as
             THEN shifts' = [shifts EXCEPT ![c.shift].open = FALSE] /\ Back(Reply(c, c.store, 0, 0))
             ELSE Back(Refusal(c)) /\ UNCHANGED shifts
    /\ UNCHANGED <<device, prices, mixed, acts>>

(* The network fails a request, or its answer.                             *)
Lose(c) ==
    /\ c \in calls /\ Act
    /\ calls' = calls \ {c}
    /\ UNCHANGED <<device, backend, mixed>>

(* The same user on another till.                                          *)
OnAnotherTill(u, s) ==
    /\ IF ShiftOf(u) # 0
       THEN shifts' = [shifts EXCEPT ![ShiftOf(u)].open = FALSE]
       ELSE LET i == Cardinality(DOMAIN shifts) + 1 IN
            /\ Room
            /\ shifts' = [j \in 1..i |-> IF j = i THEN [cashier |-> u, store |-> s, open |-> TRUE] ELSE shifts[j]]
    /\ UNCHANGED <<device, prices, calls, mixed, acts>>
Reprice ==
    /\ prices < MaxPrices /\ prices' = prices + 1
    /\ UNCHANGED <<device, shifts, calls, mixed, acts>>
-------------------------------------------------------------------------------
(* refreshFromApi: everything it brings is taken over.                     *)
ApplyBootstrap(c) ==
    /\ c.kind = "bootstrap" /\ c.back = "done" /\ calls' = calls \ {c}
    /\ staff' = c.as /\ activeShift' = c.shift
    /\ session' = [store |-> c.store, cashier |-> c.as, shift |-> c.shift]
    /\ loaded' = <<c.store, c.prices>> /\ recent' = TRUE /\ mixed' = ~c.alone
    /\ page' = IF c.login /\ token # "none" THEN "pos" ELSE page
    /\ UNCHANGED <<token, online, acts>>

Bind(shift) == session' = [session EXCEPT !.shift = shift]            \* bindShiftId
Since(c) == mixed' = (mixed \/ ~c.alone)

(* clockIn: the shift that was opened; a 409 asks for the one there is.    *)
ApplyClockIn(c) ==
    /\ c.kind = "clockIn"
    /\ \/ /\ c.back = "done" /\ activeShift' = c.shift /\ Bind(c.shift)
          /\ calls' = calls \ {c}
       \/ /\ c.back = "refused" /\ UNCHANGED <<activeShift, session>>
          /\ calls' = (calls \ {c}) \cup
                (IF token # "none" THEN {[Call("active", token, session.store, 0) EXCEPT !.alone = c.alone]} ELSE {})
    /\ Since(c) /\ UNCHANGED <<token, staff, page, loaded, recent, online, acts>>

(* The shift of another store: its store is switched to.                   *)
ApplyActive(c) ==
    /\ c.kind = "active" /\ c.back = "done"
    /\ activeShift' = c.shift
    /\ IF c.shift # 0 /\ shifts[c.shift].store # c.store
       THEN /\ calls' = (calls \ {c}) \cup
                  {[Call("bootstrap", token, shifts[c.shift].store, 0) EXCEPT !.alone = c.alone]}
            /\ mixed' = TRUE /\ UNCHANGED session
       ELSE /\ calls' = calls \ {c} /\ Since(c)
            /\ IF c.shift # 0 THEN Bind(c.shift) ELSE UNCHANGED session
    /\ UNCHANGED <<token, staff, page, loaded, recent, online, acts>>

ApplyClockOut(c) ==
    /\ c.kind = "clockOut" /\ c.back = "done" /\ calls' = calls \ {c}
    /\ activeShift' = 0 /\ Bind(0) /\ Since(c)
    /\ UNCHANGED <<token, staff, page, loaded, recent, online, acts>>

GiveUp(c) ==
    /\ c.back = "refused" /\ c.kind # "clockIn" /\ calls' = calls \ {c}
    /\ UNCHANGED <<device, mixed, acts>>

Receive(c) ==
    /\ c \in calls
    /\ ApplyBootstrap(c) \/ ApplyClockIn(c) \/ ApplyActive(c) \/ ApplyClockOut(c) \/ GiveUp(c)
    /\ UNCHANGED backend
-------------------------------------------------------------------------------
(* A till that somebody has signed in to.                                  *)
SessionInit ==
    \E u \in Users, s \in Shops :
        /\ token = u /\ staff = u /\ page = "pos"
        /\ session = [store |-> s, cashier |-> u, shift |-> 0] /\ loaded = <<s, 0>>
        /\ activeShift = 0 /\ recent = TRUE /\ online = TRUE
        /\ shifts = << >> /\ prices = 0
        /\ calls = {} /\ mixed = FALSE /\ acts = 0

SessionNext ==
    \/ \E u \in Users : Login(u) \/ \E s \in Shops : OnAnotherTill(u, s)
    \/ \E s \in Shops : SwitchStore(s)
    \/ Reprice \/ Logout \/ Reload \/ PollPrices \/ Invalidated \/ Tick \/ ClockIn \/ ClockOut
    \/ GoOffline \/ GoOnline
    \/ \E c \in calls : Serve(c) \/ Lose(c) \/ Receive(c)

(* The timers run, the server answers and replies of each kind arrive, but *)
(* for those that get lost.                                                *)
Answering(kind) == \E c \in calls : c.kind = kind /\ Serve(c)
Arriving(kind) == \E c \in calls : c.kind = kind /\ Receive(c)
SessionFairness ==
    /\ WF_sessionVars(Tick) /\ WF_sessionVars(PollPrices)
    /\ \A kind \in {"bootstrap", "clockIn", "clockOut", "active"} :
          WF_sessionVars(Answering(kind)) /\ WF_sessionVars(Arriving(kind))
SessionSpec == SessionInit /\ [][SessionNext]_sessionVars /\ SessionFairness
-------------------------------------------------------------------------------
(* A till whose requests came back one at a time sells for the user who is *)
(* signed in, on a shift of that user and in the store of that shift,      *)
(* whatever users, stores and shifts were changed, here and elsewhere, or  *)
(* answers got lost (bootstrap: "Active shift is per cashier (any store)", *)
(* "Prefer the store that owns the open shift").                           *)
OwnShift ==
    page = "pos" /\ ~mixed =>
        /\ staff = token /\ session.cashier = token /\ session.shift = activeShift
        /\ activeShift # 0 => shifts[activeShift].cashier = token /\ shifts[activeShift].store = session.store

(* While a cashier looks at the page and the network works, the till comes *)
(* to the prices of its store (bindLiveRefresh, "Keep POS prices fresh").   *)
TillLearns ==
    <>[](page = "pos" /\ online) => <>[](loaded = <<session.store, prices>>)

(* Late replies make the till sell for someone else: refuted by hand.      *)
OwnShiftAnyway == page = "pos" => staff = token /\ session.cashier = token

(* "Saat offline, kasir tetap bisa jualan": a reload offline signs out.    *)
StaysIn == [][Reload /\ page = "pos" => page' = "pos"]_sessionVars
=============================================================================
