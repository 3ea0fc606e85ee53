---------------------------- MODULE GeneralLedger ----------------------------
(***************************************************************************)
(* The chart of accounts and the journal: backend/src/gl/gl.service.ts     *)
(* with the hooks and mappings of gl/integration.service.ts, edited on     *)
(* frontend/src/pages/admin/SystemHub.vue.  A posting runs inside the      *)
(* transaction of the sale or request it is of; its first statements write *)
(* every default account, so postings of a tenant follow one another.      *)
(***************************************************************************)
EXTENDS Integers, FiniteSets, SequencesExt

CONSTANTS
    Defaults, Codes,     \* codes of DEFAULT_GL_ACCOUNTS, and all codes
    Sales, Manuals,      \* what is posted: numbers, in the order of the ids of their entries
    ManualCodes,         \* the codes that a manual journal names
    Editors,             \* people on the page of the accounts
    PageSize, MaxAccounts, MaxPosts, MaxEdits, MaxTime     \* bounds

ASSUME LedgerAssumption ==
    /\ Defaults \subseteq Codes /\ IsFiniteSet(Defaults) /\ ManualCodes \in [Manuals -> SUBSET Codes]
    /\ Sales \cap Manuals = {} /\ Sales \cup Manuals \subseteq Nat
    /\ {PageSize, MaxAccounts, MaxPosts, MaxEdits, MaxTime} \subseteq Nat

Nothing == [at |-> "idle"]

VARIABLES
    accounts,      \* gl_accounts by id: code and isActive
    journal,      \* journal_entries: source, postedAt, code by account id
    posting,      \* the posting under way, or Nothing
    edit,         \* of an editor, the request under way, or Nothing
    mapping,      \* gl_account_mappings: copied code by account id
    telling, told, logged,   \* the hook: fetches under way, done, and delivery rows
    paging,       \* a partner that pages through the journal
    glTime, posts, edits,    \* bounded
    denied,       \* history: sources that were refused an account
    crossed       \* history: an account was edited while a posting ran

glVars == <<accounts, journal, posting, edit, mapping, telling, told, logged, paging,
            glTime, posts, edits, denied, crossed>>
adminVars == <<edit, mapping, edits>>
hookVars == <<telling, told, logged>>

Coded(chart, c) == {id \in DOMAIN chart : chart[id].code = c}
PostedCodes(s) == IF s \in Sales THEN Defaults ELSE ManualCodes[s]
LinesOf(id) == {e \in journal : id \in DOMAIN e.lines}
Laid(rows) == [id \in DOMAIN accounts \cup DOMAIN rows |-> IF id \in DOMAIN rows THEN rows[id] ELSE accounts[id]]
NextAccount == 1 + Max({0} \cup DOMAIN accounts \cup (IF posting = Nothing THEN {} ELSE DOMAIN posting.rows))

(* A posting holds the rows it wrote, and those its lines refer to.        *)
Held(id) == posting # Nothing /\ id \in DOMAIN posting.rows
HeldCode(c) == posting # Nothing /\ \E id \in DOMAIN posting.rows : posting.rows[id].code = c
Referred(id) == posting # Nothing /\ id \in DOMAIN posting.lines
-------------------------------------------------------------------------------
(* ensureDefaultAccounts: upserts each of them, named and active again.    *)
EnsuredIfNone ==         \* Mutant: seeds a tenant that has no accounts yet.
    IF DOMAIN accounts # {} THEN << >>
    ELSE [id \in 1..Cardinality(Defaults) |-> [code |-> SetToSeq(Defaults)[id], active |-> TRUE]]
Ensured ==
    LET there == {id \in DOMAIN accounts : accounts[id].code \in Defaults}
        gone == SetToSeq({c \in Defaults : Coded(accounts, c) = {}})
        new == NextAccount..(NextAccount + Len(gone) - 1) IN
    [id \in there \cup new |->
        [code |-> IF id \in there THEN accounts[id].code ELSE gone[id + 1 - NextAccount], active |-> TRUE]]

Post(s) ==
    /\ posting = Nothing /\ posts < MaxPosts /\ posts' = posts + 1
    /\ DOMAIN Ensured \subseteq 1..MaxAccounts
    /\ posting' = [at |-> "ensured", source |-> s, rows |-> Ensured, lines |-> << >>, time |-> 0, logged |-> FALSE]
    /\ crossed' = (crossed \/ \E e \in Editors : edit[e] # Nothing)
    /\ UNCHANGED <<accounts, journal, adminVars, hookVars, paging, glTime, denied>>

(* postEntry: the entry there is, an account that is missing, or the lines *)
(* and the hooks that will hear of them.                                   *)
Entered(s) == \E e \in journal : e.source = s
Missing(s) == {c \in PostedCodes(s) : Coded(Laid(posting.rows), c) = {}}

EntryThere ==
    /\ posting.at = "ensured" /\ Entered(posting.source)
    /\ accounts' = Laid(posting.rows) /\ posting' = Nothing
    /\ UNCHANGED <<journal, adminVars, hookVars, paging, glTime, posts, denied, crossed>>

AccountNotFound ==
    /\ posting.at = "ensured" /\ ~Entered(posting.source) /\ Missing(posting.source) # {}
    /\ denied' = denied \cup {posting.source} /\ posting' = Nothing
    /\ UNCHANGED <<accounts, journal, adminVars, hookVars, paging, glTime, posts, crossed>>

CreateLines ==
    LET s == posting.source
        rows == Laid(posting.rows)
        found == {id \in DOMAIN rows : rows[id].code \in PostedCodes(s)} IN
    /\ posting.at = "ensured" /\ ~Entered(s) /\ Missing(s) = {}
    /\ posting' = [posting EXCEPT !.at = "posted", !.time = glTime, !.lines = [id \in found |-> rows[id].code]]
    /\ telling' = telling \cup {s}
    /\ UNCHANGED <<accounts, journal, adminVars, told, logged, paging, glTime, posts, denied, crossed>>

(* The request ends well, or what comes after the posting fails.           *)
CommitPosting ==
    /\ posting.at = "posted" /\ posting' = Nothing
    /\ accounts' = Laid(posting.rows)
    /\ journal' = journal \cup {[source |-> posting.source, at |-> posting.time, lines |-> posting.lines]}
    /\ logged' = IF posting.logged THEN logged \cup {posting.source} ELSE logged
    /\ UNCHANGED <<adminVars, telling, told, paging, glTime, posts, denied, crossed>>
RollBack ==
    /\ posting # Nothing /\ posting' = Nothing
    /\ UNCHANGED <<accounts, journal, adminVars, hookVars, paging, glTime, posts, denied, crossed>>

(* dispatchEvent: the fetch takes its time; the delivery is written with   *)
(* the transaction if that is still open, and not at all otherwise.        *)
Dispatch(s) ==
    /\ s \in telling /\ telling' = telling \ {s} /\ told' = told \cup {s}
    /\ posting' = IF posting # Nothing /\ posting.source = s /\ posting.at = "posted"
                  THEN [posting EXCEPT !.logged = TRUE] ELSE posting
    /\ UNCHANGED <<accounts, journal, adminVars, logged, paging, glTime, posts, denied, crossed>>
-------------------------------------------------------------------------------
Free(e) == edit[e] = Nothing /\ edits < MaxEdits /\ edits' = edits + 1
AskedOf(e, request) ==
    /\ edit' = [edit EXCEPT ![e] = request]
    /\ crossed' = (crossed \/ posting # Nothing)
    /\ UNCHANGED <<accounts, journal, posting, mapping, hookVars, paging, glTime, posts, denied>>
EditDone(e) ==
    /\ edit' = [edit EXCEPT ![e] = Nothing]
    /\ UNCHANGED <<journal, posting, mapping, hookVars, paging, glTime, posts, edits, denied, crossed>>

(* saveAccount of an account: a code changes before it is posted to only.  *)
RecodableAlways(id, code) == accounts[id].code # code /\ Coded(accounts, code) = {}     \* Mutant: lines are not counted.
Recodable(id, code) == accounts[id].code # code /\ Coded(accounts, code) = {} /\ LinesOf(id) = {}
SaveAccount(e, id, code) ==
    /\ Free(e) /\ id \in DOMAIN accounts /\ Recodable(id, code)
    /\ AskedOf(e, [at |-> "update", id |-> id, code |-> code])
UpdateAccount(e) ==
    LET r == edit[e] IN
    /\ r.at = "update" /\ EditDone(e)
    /\ ~Held(r.id) /\ ~Referred(r.id) /\ ~HeldCode(r.code)
    /\ accounts' = IF Coded(accounts, r.code) # {} THEN accounts ELSE [accounts EXCEPT ![r.id].code = r.code]

(* saveAccount of a new one: an inactive one of that code comes back.      *)
AddAccount(e, code) ==
    /\ Free(e) /\ \A id \in Coded(accounts, code) : ~accounts[id].active
    /\ NextAccount <= MaxAccounts
    /\ AskedOf(e, [at |-> "create", id |-> Coded(accounts, code), code |-> code])
CreateAccount(e) ==
    LET r == edit[e] IN
    /\ r.at = "create" /\ EditDone(e)
    /\ ~HeldCode(r.code) /\ \A id \in r.id : ~Held(id)
    /\ accounts' = IF r.id # {} THEN [id \in DOMAIN accounts |-> IF id \in r.id THEN [accounts[id] EXCEPT !.active = TRUE] ELSE accounts[id]]
                  ELSE IF Coded(accounts, r.code) # {} \/ NextAccount > MaxAccounts THEN accounts
                  ELSE [id \in DOMAIN accounts \cup {NextAccount} |->
                           IF id = NextAccount THEN [code |-> r.code, active |-> TRUE] ELSE accounts[id]]

ToggleActive(id) ==
    /\ id \in DOMAIN accounts /\ ~Held(id) /\ edits < MaxEdits /\ edits' = edits + 1
    /\ accounts' = [accounts EXCEPT ![id].active = ~@]
    /\ UNCHANGED <<journal, posting, edit, mapping, hookVars, paging, glTime, posts, denied, crossed>>

UpsertMapping(id) ==
    /\ id \in DOMAIN accounts /\ edits < MaxEdits /\ edits' = edits + 1
    /\ mapping' = [k \in DOMAIN mapping \cup {id} |-> IF k = id THEN accounts[id].code ELSE mapping[k]]
    /\ UNCHANGED <<accounts, journal, posting, edit, hookVars, paging, glTime, posts, denied, crossed>>
DeleteMapping(id) ==
    /\ id \in DOMAIN mapping
    /\ mapping' = [k \in DOMAIN mapping \ {id} |-> mapping[k]]
    /\ UNCHANGED <<accounts, journal, posting, edit, edits, hookVars, paging, glTime, posts, denied, crossed>>
-------------------------------------------------------------------------------
(* queryEntries: the newest first, behind the last one of the page before. *)
BeforeByTime(e, f) == e.at < f.at                     \* Mutant: the cursor is the time only.
Before(e, f) == e.at < f.at \/ (e.at = f.at /\ e.source < f.source)
Behind == IF paging.last = {} THEN journal ELSE {e \in journal : \A f \in paging.last : Before(e, f)}

StartPaging ==
    /\ paging = Nothing
    /\ paging' = [at |-> "paging", there |-> journal, got |-> {}, last |-> {}]
    /\ UNCHANGED <<accounts, journal, posting, adminVars, hookVars, glTime, posts, denied, crossed>>
QueryEntries ==
    LET newest == {e \in Behind : Cardinality({f \in Behind : e.at < f.at \/ (e.at = f.at /\ e.source < f.source)}) < PageSize}
        oldest == {e \in newest : \A f \in newest : e.at < f.at \/ (e.at = f.at /\ e.source <= f.source)} IN
    /\ paging.at = "paging"
    /\ paging' = IF Cardinality(Behind) <= PageSize THEN [paging EXCEPT !.at = "done", !.got = @ \cup newest]
                 ELSE [paging EXCEPT !.got = @ \cup newest, !.last = oldest]
    /\ UNCHANGED <<accounts, journal, posting, adminVars, hookVars, glTime, posts, denied, crossed>>

TimePasses ==
    /\ glTime < MaxTime /\ glTime' = glTime + 1
    /\ UNCHANGED <<accounts, journal, posting, adminVars, hookVars, paging, posts, denied, crossed>>
-------------------------------------------------------------------------------
GlInit ==
    /\ accounts = << >> /\ journal = {} /\ posting = Nothing /\ edit = [e \in Editors |-> Nothing]
    /\ mapping = << >> /\ telling = {} /\ told = {} /\ logged = {} /\ paging = Nothing
    /\ glTime = 0 /\ posts = 0 /\ edits = 0 /\ denied = {} /\ crossed = FALSE

GlNext ==
    \/ \E s \in Sales \cup Manuals : Post(s) \/ Dispatch(s)
    \/ EntryThere \/ AccountNotFound \/ CreateLines \/ CommitPosting \/ RollBack
    \/ \E e \in Editors :
          \/ UpdateAccount(e) \/ CreateAccount(e)
          \/ \E c \in Codes : AddAccount(e, c) \/ \E id \in 1..MaxAccounts : SaveAccount(e, id, c)
    \/ \E id \in 1..MaxAccounts : ToggleActive(id) \/ UpsertMapping(id) \/ DeleteMapping(id)
    \/ StartPaging \/ QueryEntries \/ TimePasses

GlSpec == GlInit /\ [][GlNext]_glVars
-------------------------------------------------------------------------------
(* As long as accounts are not edited while a posting runs, every line has *)
(* the code of its account, whatever is renamed, reopened and posted in    *)
(* turn (updateAccount: "Cannot change account code after journal lines    *)
(* exist").                                                                *)
CodesHold == ~crossed => \A e \in journal : \A id \in DOMAIN e.lines : accounts[id].code = e.lines[id]

(* No sale is refused for its account, whatever was renamed, deactivated   *)
(* or recoded before or while it is posted (ensureDefaultAccounts).        *)
SalesPost == denied \cap Sales = {}

(* A partner that pages through the journal to its end has every entry     *)
(* that was there when it started, with others posted meanwhile            *)
(* (queryEntries: "Cursor = previous page's last postedAt|id").            *)
PagesWhole == paging.at = "done" => paging.there \subseteq paging.got

(* Refuted by hand: a hook is told of what is rolled back, no delivery row *)
(* tells of a slow one ("errors logged as deliveries"), a default account  *)
(* that was deactivated comes back, and a mapping keeps the old code.      *)
ToldIsPosted == \A s \in told : Entered(s) \/ (posting # Nothing /\ posting.source = s)
ToldIsLogged == \A s \in told : Entered(s) => s \in logged
DefaultsStayOff ==
    [][\A id \in DOMAIN accounts : ~accounts[id].active /\ accounts'[id].active => posting = Nothing]_glVars
MappingsFollow == \A id \in DOMAIN mapping : mapping[id] = accounts[id].code
=============================================================================
