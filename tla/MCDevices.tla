------------------------------ MODULE MCDevices ------------------------------
(***************************************************************************)
(* Scenes of one device and the server.  Paying: the QRIS charges of one   *)
(* checkout.  Ringing: the bell of a device that changes its store.        *)
(* Selling: a till, its users, stores, shifts and prices.                  *)
(***************************************************************************)
EXTENDS QrisCharge, KitchenBell, TillSession

VARIABLE stage      \* "paying", "ringing" or "selling"
deviceVars == <<stage, qrisVars, bellVars, sessionVars>>

FirstUser == CHOOSE u \in Users : TRUE      \* users differ by name only
MCOutlet == [d \in Dishes |-> IF d = "soup" THEN "main" ELSE "branch"]
-------------------------------------------------------------------------------
(* What waits for its scene is in a state no fair action is enabled in: no *)
(* charge, a bell that is off, a till nobody has signed in to.             *)
NobodySignedIn ==
    /\ token = "none" /\ staff = "none" /\ page = "login"
    /\ session = [store |-> "none", cashier |-> "none", shift |-> 0] /\ loaded = <<"none", 0>>
    /\ activeShift = 0 /\ recent = FALSE /\ online = TRUE
    /\ shifts = << >> /\ prices = 0
    /\ calls = {} /\ mixed = FALSE /\ acts = 0

DeviceInit ==
    /\ QrisInit /\ BellInit
    /\ \/ stage = "selling" /\ SessionInit /\ token = FirstUser /\ localQris
       \/ stage = "ringing" /\ NobodySignedIn /\ localQris
       \/ stage = "paying" /\ NobodySignedIn

DeviceNext ==
    \/ stage = "paying" /\ QrisNext /\ UNCHANGED <<stage, bellVars, sessionVars>>
    \/ stage = "ringing" /\ BellNext /\ UNCHANGED <<stage, qrisVars, sessionVars>>
    \/ stage = "selling" /\ SessionNext /\ UNCHANGED <<stage, qrisVars, bellVars>>

DeviceSpec ==
    /\ DeviceInit /\ [][DeviceNext]_deviceVars
    /\ QrisFairness /\ BellFairness /\ SessionFairness
===============================================================================
