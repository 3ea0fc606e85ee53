------------------------------ MODULE StaffAdmin ------------------------------
(***************************************************************************)
(* Accounts of the staff: the team page (frontend/src/pages/admin/         *)
(* TeamHub.vue), which loads every account into a row of inputs and sends  *)
(* whole rows back, and the requests behind it (backend/src/admin/         *)
(* admin.service.ts).  A request looks, then writes; writes of one account *)
(* follow one another, what was looked at may have changed by then.        *)
(***************************************************************************)
EXTENDS Integers, FiniteSets

CONSTANTS
    People, Stations,   \* accounts; kitchen stations
    MaxRequests         \* bound

ASSUME StaffAssumption == MaxRequests \in Nat

Roles == {"CASHIER", "KITCHEN", "MANAGER", "TENANT_ADMIN"}
ROLE_RANK == [r \in Roles |-> CASE r = "MANAGER" -> 3 [] r = "TENANT_ADMIN" -> 4 [] OTHER -> 1]
Nobody == [role |-> "none", active |-> FALSE]
NoRequest == [do |-> "nothing"]

VARIABLES
    account,    \* of a person: role and isActive, or Nobody
    stationed,  \* user_kitchen_stations
    row,        \* what the team page of a person has loaded of the others
    request,    \* of a person, under way
    requests,   \* so far, bounded
    overlapped  \* history: two updates were under way at once

staffVars == <<account, stationed, row, request, requests, overlapped>>

Known(p) == account[p] # Nobody
Admins(S) == {p \in S : account[p].active /\ account[p].role = "TENANT_ADMIN"}
Above(role, p) == ROLE_RANK[role] > ROLE_RANK[account[p].role]
Updating == {p \in People : request[p].do = "update"}

(* Who writes staff: managers and up, signed in while active.              *)
CanWrite(p) == account[p].active /\ account[p].role \in {"MANAGER", "TENANT_ADMIN"}
-------------------------------------------------------------------------------
Rows == [p \in People |-> [role |-> account[p].role, active |-> account[p].active, stations |-> stationed[p]]]

RefreshTeam(p) ==
    /\ CanWrite(p) /\ request[p] = NoRequest /\ row[p] # Rows
    /\ row' = [row EXCEPT ![p] = Rows]
    /\ UNCHANGED <<account, stationed, request, requests, overlapped>>

Ask(p, r) ==
    /\ request[p] = NoRequest /\ requests < MaxRequests /\ requests' = requests + 1
    /\ request' = [request EXCEPT ![p] = r]
    /\ UNCHANGED <<account, stationed, row>>

(* addStaff: stations are sent for the kitchen only; the email is free.    *)
AddStaff(p, new, role, stations) ==
    /\ CanWrite(p) /\ ~Known(new) /\ ~Above(role, p)
    /\ role # "KITCHEN" => stations = {}
    /\ Ask(p, [do |-> "create", who |-> new, role |-> role, stations |-> stations])
    /\ UNCHANGED overlapped

(* saveStaff: the row as it was loaded, with what has been typed into it.  *)
TypedRows(p, who) ==
    LET loaded == row[p][who] IN
    {[loaded EXCEPT !.role = r] : r \in Roles} \cup {[loaded EXCEPT !.active = ~@]}
        \cup {[loaded EXCEPT !.stations = S] : S \in SUBSET Stations}
SentRow(typed) == [typed EXCEPT !.stations = IF typed.role = "KITCHEN" THEN @ ELSE {}]

(* updateStaff: nobody above, not oneself, and one active admin is left.   *)
KeepsAnAdmin(who, sent) ==
    who \in Admins(People) /\ (sent.role # "TENANT_ADMIN" \/ ~sent.active)
        => Admins(People \ {who}) # {}
InRangeOfRow(p, who, role) == ~Above(row[p][who].role, p) /\ ~Above(role, p)   \* Mutant: only the page looks.
InRange(p, who, role) == ~Above(row[p][who].role, p) /\ ~Above(account[who].role, p) /\ ~Above(role, p)

Passes(p, who, sent) ==
    /\ InRange(p, who, sent.role)
    /\ p = who => sent.role = account[p].role /\ sent.active
    /\ KeepsAnAdmin(who, sent)

SaveStaff(p, who, typed) ==
    LET sent == SentRow(typed) IN
    /\ CanWrite(p) /\ Known(who) /\ row[p][who].role # "none" /\ typed \in TypedRows(p, who)
    /\ Passes(p, who, sent)
    /\ Ask(p, [do |-> "update", who |-> who, sent |-> sent])
    /\ overlapped' = (overlapped \/ Updating # {})
-------------------------------------------------------------------------------
Answered(p) ==
    /\ request' = [request EXCEPT ![p] = NoRequest]
    /\ UNCHANGED <<row, requests, overlapped>>

(* The email of an account is unique: the second of two is refused.        *)
CreateStaff(p) ==
    LET r == request[p] IN
    /\ r.do = "create" /\ Answered(p)
    /\ IF Known(r.who)
       THEN UNCHANGED <<account, stationed>>
       ELSE /\ account' = [account EXCEPT ![r.who] = [role |-> r.role, active |-> TRUE]]
            /\ stationed' = [stationed EXCEPT ![r.who] = r.stations]

(* The stations are replaced: deleteMany, then createMany of what is sent. *)
ReplacedIfAny(old, sent) == IF sent.stations = {} THEN old ELSE sent.stations   \* Mutant: only when some are sent.
Replaced(old, sent) == sent.stations
UpdateStaff(p) ==
    LET r == request[p] IN
    /\ r.do = "update" /\ Answered(p)
    /\ account' = [account EXCEPT ![r.who] = [role |-> r.sent.role, active |-> r.sent.active]]
    /\ stationed' = [stationed EXCEPT ![r.who] = Replaced(@, r.sent)]
-------------------------------------------------------------------------------
(* prisma/seed.ts: the tenant has one admin and one manager.               *)
StaffInit ==
    /\ \E a, m \in People :
          /\ a # m
          /\ account = [p \in People |-> IF p = a THEN [role |-> "TENANT_ADMIN", active |-> TRUE]
                                         ELSE IF p = m THEN [role |-> "MANAGER", active |-> TRUE] ELSE Nobody]
    /\ stationed = [p \in People |-> {}]
    /\ row = [p \in People |-> Rows]
    /\ request = [p \in People |-> NoRequest]
    /\ requests = 0 /\ overlapped = FALSE

StaffNext ==
    \E p \in People :
        \/ RefreshTeam(p) \/ CreateStaff(p) \/ UpdateStaff(p)
        \/ \E new \in People, role \in Roles, S \in SUBSET Stations : AddStaff(p, new, role, S)
        \/ \E who \in People : \E typed \in TypedRows(p, who) : SaveStaff(p, who, typed)

StaffSpec == StaffInit /\ [][StaffNext]_staffVars
-------------------------------------------------------------------------------
(* Whatever overlaps, only kitchen accounts have stations: one that left   *)
(* the kitchen keeps none, so the stations of a cashier never narrow what  *)
(* the kitchen board shows (normalizeKitchenStationIds).                   *)
StationsAreKitchens == \A p \in People : stationed[p] # {} => account[p].role = "KITCHEN"

(* As long as updates do not overlap, nobody writes the account of someone *)
(* who is by then above them, from however old a row (updateStaff, "Cannot *)
(* edit a peer/superior beyond own rank").                                 *)
RanksRespected ==
    [][\A p \in People :
          request[p].do = "update" /\ request'[p] = NoRequest /\ ~overlapped
              => ~Above(account[request[p].who].role, p)]_staffVars

(* An active tenant admin is left at any time: not so when two overlapping *)
(* updates deactivate two admins, each counting the other.                 *)
AdminRemains == Admins(People) # {}
=============================================================================
