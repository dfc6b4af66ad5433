--------------------------- MODULE AdminAccounts ---------------------------
(***************************************************************************)
(* The accounts panel of the admin bot: the conversation of each admin     *)
(* (user_states), the accounts and login sessions in D1, the registry and  *)
(* the session secrets on GitHub, and the login runs that ask the bridge   *)
(* for the credentials of a session.                                       *)
(*                                                                         *)
(* A message whose handler asks D1 alone is one step, a confirmation       *)
(* excepted: its handler reads the conversation twice, and a save finds    *)
(* the row before it writes it.  A handler that asks GitHub keeps the row  *)
(* it has read and waits: other messages, of the same admin too, are       *)
(* handled meanwhile.  A request to GitHub may take effect or not, and be  *)
(* heard of as done, as an error, or by nobody (the worker is cut off).    *)
(* GitHub is configured; labels, roles and phone numbers are data, hence   *)
(* their validation is left out.                                           *)
(***************************************************************************)
EXTENDS Naturals, FiniteSets

CONSTANTS
    Users,      \* admins
    Accounts,   \* account ids
    Sessions,   \* login sessions that may be created
    Slots,      \* handlers that may be under way at a time
    FirstOwner, \* whom each account belongs to at first: an admin, Nobody, or None (no row)
    FirstSession, \* a login that is under way at first, or none
    Uses,       \* what each admin does with which account
    SessionLimit, \* sessions that a deletion reads at most (20)
    MaxOps,     \* bound: messages whose handler asks GitHub
    Nobody,     \* owner of a row with user_id 0
    None

VARIABLES
    wiz,        \* user_states: where each conversation is
    said,       \* the question that a confirmation under way was sent to
    acct,       \* the accounts table
    sess,       \* login_sessions
    older,      \* sessions by updated_at: <<s, t>> if s was touched before t
    reg,        \* enabled in config/accounts.json on GitHub
    secret,     \* whether the account's session secret is set
    busy,       \* handlers that wait for GitHub or for the tables
    watch,      \* tasks that wait for the login of a session
    runs,       \* dispatched login runs
    \* history
    ops,
    asked,      \* the question each admin has been asked and has not left
    unasked,    \* an action was taken that no such question was about
    gone,       \* accounts reported logged out, or deleted with their secret
    apart,      \* accounts whose registry and row may differ
    turned,     \* saves under way whose row was deleted, made or claimed since they found it
    crossed,    \* accounts of such saves, and those that a deletion may have left sessions of
    strange     \* a run was given the session of somebody who does not own the account

bot == <<wiz, said, asked, unasked>>
d1 == <<acct, sess, older>>
github == <<reg, secret>>
tasks == <<watch, runs>>
hist == <<gone, apart, turned, crossed, strange>>
vars == <<bot, d1, github, tasks, busy, ops, hist>>

Idle == [st |-> "idle"]
Menu == [st |-> "menu"]
Pick == [st |-> "pick"]
Action(a) == [st |-> "action", acc |-> a]
Sure(kind, a) == [st |-> "sure", kind |-> kind, acc |-> a]
Edit(kind, a) == [st |-> "edit", kind |-> kind, acc |-> a]
AwaitOtp(s, a) == [st |-> "otp", sess |-> s, acc |-> a]
Await2fa(s, a) == [st |-> "2fa", sess |-> s, acc |-> a]

Kinds == {"enable", "disable", "logout", "delete"}
Starts == {"add", "login"}
Texts == {"rename", "role", "auto"}
Ops == Kinds \cup Starts \cup Texts \cup {"code", "done"}
Waiting == [st : {"otp", "2fa"}, sess : Sessions, acc : Accounts]
States ==
    {Idle, Menu, Pick} \cup {Action(a) : a \in Accounts} \cup Waiting
    \cup [st : {"sure"}, kind : Kinds \cup Starts, acc : Accounts]
    \cup [st : {"edit"}, kind : {"rename", "role"}, acc : Accounts]
    \cup [st : {"id"}, kind : Starts]
    \cup [st : {"phone"}, kind : Starts, acc : Accounts]

Row == [owner : Users \cup {Nobody}, on : BOOLEAN, logged : BOOLEAN,
        st : {"scaffolded", "logging_in", "ready", "disabled"}]
Session == [acc : Accounts, by : Users, phone : BOOLEAN, otp : BOOLEAN, old : BOOLEAN,
            st : {"sending", "awaiting_otp", "awaiting_2fa", "completing", "done", "failed",
                  "cancelled"},
            res : {"none", "done", "failed"}]
\* A handler: by whom, for what, the row it has read or is about to write, and
\* what it waits for
Early == {"first", "second"}
Saving == {"update", "insert"}
Asker == [by : Users, op : Ops, acc : Accounts, sess : Sessions \cup {None},
          row : Row \cup {None}, at : Early \cup Saving \cup {"fetch", "cancel"},
          met : BOOLEAN, again : BOOLEAN, todo : SUBSET Sessions]

ASSUME AdminAssumption ==
    /\ Uses \in [Users -> SUBSET ((Kinds \cup Starts \cup {"rename", "role"}) \X Accounts)]
    /\ FirstOwner \in [Accounts -> Users \cup {Nobody, None}]
    /\ MaxOps \in Nat /\ SessionLimit \in Nat /\ {Nobody, None} \cap Users = {} /\ Nobody # None
    /\ None \notin Row \cup Session \cup States \cup Accounts \cup Asker

\* One login at most is under way at first, begun by the owner of its account
ASSUME LoginAssumption ==
    /\ FirstSession \in [Sessions -> Session \cup {None}]
    /\ \A s, t \in Sessions : FirstSession[s] # None /\ FirstSession[t] # None => s = t
    /\ \A s \in Sessions : FirstSession[s] # None
         => FirstSession[s].by = FirstOwner[FirstSession[s].acc]

----------------------------------------------------------------------------
(* The tables *)

Owned(u, a) == acct[a] # None /\ acct[a].owner = u
Mine(u) == {a \in Accounts : Owned(u, a)}
Manages(u, a) == \E kind \in Kinds \cup {"rename", "role"} : <<kind, a>> \in Uses[u]

\* Mutant: whoever saves a row owns it
MayPutAny(u, a) == TRUE

\* upsert_owned, first: a row of somebody else is refused (PermissionError),
\* one of nobody will be claimed
MayPut(u, a) == acct[a] # None => acct[a].owner \in {u, Nobody}

Made == {s \in Sessions : sess[s] # None}
SessionsOf(a) == {s \in Made : sess[s].acc = a}

\* LoginSession.touch makes the sessions the newest
Touch(now) ==
    older' = {p \in older : p[1] \in now => p[2] \in now} \cup ((Made \ now) \X now)
Cleared(x, st) == [x EXCEPT !.phone = FALSE, !.otp = FALSE, !.st = st]

\* for_bridge: the newest live session of the account with the status or the
\* field that the action wants
Fits(x, action) ==
    \/ x.st \in (IF action = "send" THEN {"sending", "awaiting_otp"}
                 ELSE {"awaiting_otp", "awaiting_2fa", "completing"})
    \/ action = "send" /\ x.phone
    \/ action = "complete" /\ x.otp
ForBridge(a, action) ==
    LET found == {s \in Made : sess[s].acc = a /\ ~sess[s].old /\ Fits(sess[s], action)}
        newest == {s \in found : \A t \in found : <<s, t>> \notin older}
    IN IF newest = {} THEN None ELSE CHOOSE s \in newest : TRUE

----------------------------------------------------------------------------
(* Messages that are answered at once *)

Say(u, w) == wiz' = [wiz EXCEPT ![u] = w]
Ask(u, w) == Say(u, w) /\ asked' = [asked EXCEPT ![u] = <<w.kind, w.acc>>]
Answered == UNCHANGED <<said, d1, github, tasks, busy, ops, hist, unasked>>
Closed(u) == asked' = [asked EXCEPT ![u] = None]
Quick(u) == Answered /\ Closed(u)

\* Bound: no conversation is led on once such messages are used up
More == ops < MaxOps

\* _send_manage_detail
Detail(u, a) == IF Owned(u, a) THEN Action(a) ELSE Menu

\* The accounts button, from anywhere; a session is not cancelled by it
OpenMenu(u) == Say(u, Menu) /\ Quick(u)

\* Back, or a button of the main menu
Depart(u) == wiz[u] # Idle /\ Say(u, Idle) /\ Quick(u)

\* cancel, with orchestrator.cancel for a login under way
Cancel(u) ==
    /\ wiz[u] # Idle /\ Say(u, Idle)
    /\ IF wiz[u].st \in {"otp", "2fa"}
       THEN /\ sess' = [sess EXCEPT ![wiz[u].sess] = Cleared(@, "cancelled")]
            /\ Touch({wiz[u].sess})
       ELSE UNCHANGED <<sess, older>>
    /\ Closed(u) /\ UNCHANGED <<said, acct, github, tasks, busy, ops, hist, unasked>>

MenuChoice(u, kind) ==
    /\ More /\ wiz[u] = Menu /\ \E a \in Accounts : <<kind, a>> \in Uses[u]
    /\ Say(u, [st |-> "id", kind |-> kind]) /\ Quick(u)

\* _add_id and _add_role, or _login_id
GiveId(u, a) ==
    /\ More /\ wiz[u].st = "id" /\ <<wiz[u].kind, a>> \in Uses[u]
    /\ Say(u, [st |-> "phone", kind |-> wiz[u].kind, acc |-> a]) /\ Quick(u)

\* _add_phone, _login_phone: a number that is taken is asked for again
GivePhone(u) ==
    /\ More /\ wiz[u].st = "phone"
    /\ Ask(u, Sure(wiz[u].kind, wiz[u].acc)) /\ Answered

\* _start_manage; from an account by the back button
StartManage(u) ==
    /\ More /\ wiz[u].st \in {"menu", "action"} /\ Mine(u) # {}
    /\ \E a \in Accounts : Manages(u, a)
    /\ Say(u, Pick) /\ Quick(u)

\* _manage_pick: any id may be typed
ManagePick(u, a) ==
    More /\ wiz[u] = Pick /\ Manages(u, a) /\ Say(u, Detail(u, a)) /\ Quick(u)

\* _manage_action: a question, or a text to give.  A role is asked for of an
\* account of one's own only.
ManageAction(u, kind) ==
    /\ More /\ wiz[u].st = "action" /\ <<kind, wiz[u].acc>> \in Uses[u]
    /\ \/ kind \in Kinds /\ Ask(u, Sure(kind, wiz[u].acc)) /\ Answered
       \/ /\ kind = "rename" \/ (kind = "role" /\ Owned(u, wiz[u].acc))
          /\ Say(u, Edit(kind, wiz[u].acc)) /\ Quick(u)

\* Any other text than the confirmation, or the back button
Decline(u) ==
    /\ wiz[u].st \in {"sure", "edit"}
    /\ Say(u, IF wiz[u].st = "sure" /\ wiz[u].kind \in Starts THEN Menu
              ELSE Detail(u, wiz[u].acc))
    /\ Quick(u)

NeedTwofa(u) == wiz[u].st = "otp" /\ Say(u, Await2fa(wiz[u].sess, wiz[u].acc)) /\ Quick(u)

----------------------------------------------------------------------------
(* Messages whose handler asks GitHub *)

BusyWith(k, a) == busy[k] # None /\ busy[k].acc = a

\* met: another handler was busy with the account in the meantime
Request(u, op, a, s) ==
    [by |-> u, op |-> op, acc |-> a, sess |-> s, row |-> acct[a], at |-> "first",
     met |-> \E k \in Slots : BusyWith(k, a), again |-> FALSE, todo |-> {}]

Joins(r) ==
    \E k \in Slots :
      /\ busy[k] = None
      /\ busy' = [j \in Slots |-> CASE j = k -> r
                                    [] BusyWith(j, r.acc) -> [busy[j] EXCEPT !.met = TRUE]
                                    [] OTHER -> busy[j]]
Submit(u, op, a, s) == More /\ ops' = ops + 1 /\ Joins(Request(u, op, a, s))

\* The confirmation of a question: handle reads the conversation ...
Press(u) ==
    /\ More /\ wiz[u].st = "sure" /\ said[u] = None
    /\ said' = [said EXCEPT ![u] = wiz[u]] /\ ops' = ops + 1
    /\ UNCHANGED <<wiz, asked, unasked, d1, github, tasks, busy, hist>>

\* The account in the context of a conversation
About(w) == IF w.st \in {"idle", "menu", "pick", "id"} THEN None ELSE w.acc
Confirms(w, kinds) == w.st = "sure" /\ w.kind \in kinds

\* The account that the handler of a confirmation makes out in the conversation:
\* the text of enable and disable has to fit `enabled`, a login needs a phone
\* number and a new account also its role
Takes(kind, w) ==
    CASE kind \in {"logout", "delete"} -> About(w)
      [] kind = "enable" -> IF Confirms(w, {"enable"}) THEN w.acc ELSE None
      [] kind = "disable" -> IF Confirms(w, {"enable"}) THEN None ELSE About(w)
      [] kind = "add" -> IF Confirms(w, {"add"}) THEN w.acc ELSE None
      [] OTHER -> IF Confirms(w, Starts) THEN w.acc ELSE None

\* Where the conversation goes if there is nothing to act on
Away(u, kind, w) ==
    CASE kind = "add" -> Idle
      [] kind \in {"enable", "disable"} /\ About(w) # None -> Detail(u, About(w))
      [] OTHER -> Menu

\* ... and _manage_confirm_*, _add_confirm, _login_confirm read it again.
\* require_owned comes first.
Confirm(u) ==
    LET w == wiz[u]
        kind == said[u].kind
        a == Takes(kind, w)
    IN
    /\ said[u] # None /\ said' = [said EXCEPT ![u] = None]
    /\ IF a # None /\ (kind \in Kinds => Owned(u, a))
       THEN /\ Joins(Request(u, kind, a, None)) /\ UNCHANGED wiz
            /\ unasked' = (unasked \/ (w = said[u] /\ asked[u] # <<kind, a>>))
       ELSE Say(u, Away(u, kind, w)) /\ UNCHANGED <<busy, unasked>>
    /\ UNCHANGED <<d1, github, tasks, ops, hist, asked>>

\* A new label or role, or the automatic label: only of one's own account
GiveText(u, op) ==
    /\ \/ wiz[u].st = "edit" /\ op \in {wiz[u].kind, "auto"}
          /\ (op = "auto" => wiz[u].kind = "rename")
       \/ wiz[u].st = "action" /\ op = "auto" /\ <<"rename", wiz[u].acc>> \in Uses[u]
    /\ Owned(u, wiz[u].acc)
    /\ Submit(u, op, wiz[u].acc, None)
    /\ UNCHANGED <<bot, d1, github, tasks, hist>>

\* submit_otp, submit_2fa; the dispatch of the run follows
GiveCode(u) ==
    LET s == wiz[u].sess IN
    /\ wiz[u].st \in {"otp", "2fa"}
    /\ sess' = [sess EXCEPT ![s].otp = @ \/ wiz[u].st = "otp"] /\ Touch({s})
    /\ Submit(u, "code", wiz[u].acc, s)
    /\ UNCHANGED <<bot, acct, github, tasks, hist>>

----------------------------------------------------------------------------
(* GitHub's answers *)

Heard == {"ok", "error", "cut"}
Over(k) == busy' = [busy EXCEPT ![k] = None]
Goes(k) == busy' = [busy EXCEPT ![k].at = "second"]

\* A handler that is cut off, or refused by the table, says nothing
Ends(k, u, w) == Over(k) /\ Say(u, w)
Dies(k) == Over(k) /\ UNCHANGED wiz

Registry(a, v) == reg' = [reg EXCEPT ![a] = IF @ = "none" THEN @ ELSE v]

Owner(row) == IF row = None THEN None ELSE row.owner

\* The saves under way that the account changes hands behind the back of
Overtakes(k, a, owner) ==
    IF owner = Owner(acct[a]) THEN {}
    ELSE {j \in Slots \ {k} : BusyWith(j, a) /\ busy[j].at \in Saving}

\* upsert_owned, once it has found the row or none
At(a) == IF acct[a] = None THEN "insert" ELSE "update"
Finds(k, row) ==
    /\ busy' = [busy EXCEPT ![k] = [@ EXCEPT !.at = At(busy[k].acc), !.row = [row EXCEPT !.owner = busy[k].by]]]
    /\ UNCHANGED wiz

\* status of set_enabled
Switched(row, on) ==
    [row EXCEPT !.on = on,
        !.st = CASE on /\ row.st \in {"scaffolded", "disabled"} /\ row.logged -> "ready"
                 [] on /\ row.st \in {"scaffolded", "disabled"} -> "scaffolded"
                 [] ~on /\ row.st = "ready" -> "disabled"
                 [] OTHER -> row.st]

\* Mutant: the row is switched even if GitHub reports an error
SwitchAlways(k, done, heard) ==
    LET r == busy[k] on == r.op = "enable" IN
    /\ r # None /\ r.op \in {"enable", "disable"} /\ r.at = "first"
    /\ IF done THEN Registry(r.acc, IF on THEN "on" ELSE "off") ELSE UNCHANGED reg
    /\ IF heard # "cut" /\ MayPut(r.by, r.acc) THEN Finds(k, Switched(r.row, on)) ELSE Dies(k)
    /\ apart' = IF r.met \/ (done /\ heard # "ok") THEN apart \cup {r.acc} ELSE apart
    /\ UNCHANGED <<said, d1, secret, tasks, ops, gone, turned, crossed, strange, asked, unasked>>

\* set_enabled: the registry first, then the row as it was read
SetEnabled(k, done, heard) ==
    LET r == busy[k] on == r.op = "enable" IN
    /\ r # None /\ r.op \in {"enable", "disable"} /\ r.at = "first"
    /\ IF done THEN Registry(r.acc, IF on THEN "on" ELSE "off") ELSE UNCHANGED reg
    /\ CASE heard = "ok" /\ MayPut(r.by, r.acc) -> Finds(k, Switched(r.row, on))
         [] heard = "error" -> Ends(k, r.by, Detail(r.by, r.acc))
         [] OTHER -> Dies(k)
    /\ apart' = IF r.met \/ (done /\ heard # "ok") THEN apart \cup {r.acc} ELSE apart
    /\ UNCHANGED <<said, d1, secret, tasks, ops, gone, turned, crossed, strange, asked, unasked>>

\* set_label, auto_label, set_role: the row as it was read is written back
SetText(k, heard) ==
    LET r == busy[k] IN
    /\ r # None /\ r.op \in Texts /\ r.at = "first"
    /\ CASE heard = "ok" /\ MayPut(r.by, r.acc) -> Finds(k, r.row)
         [] heard = "error" /\ r.op = "rename" -> Ends(k, r.by, Edit("rename", r.acc))
         [] heard = "error" /\ r.op = "role" /\ Owned(r.by, r.acc) ->
              Ends(k, r.by, Edit("role", r.acc))
         [] heard = "error" /\ r.op = "auto" -> Ends(k, r.by, Detail(r.by, r.acc))
         [] OTHER -> Dies(k)
    /\ UNCHANGED <<said, d1, github, tasks, ops, hist, asked, unasked>>

\* Mutant: an error of the secret is left for the report, as in delete
HeardLogout(heard) == IF heard = "error" THEN "ok" ELSE heard

\* logout goes on only if the secret was deleted
HeardSecret(heard) == heard

\* Mutant: after an error the confirmation is awaited again
BackToSure(u, a) == Sure("logout", a)

\* logout, after an error: the account's screen
AfterLogoutError(u, a) == Detail(u, a)

\* logout: the secret first
LogoutSecret(k, done, heard) ==
    LET r == busy[k] h == HeardSecret(heard) IN
    /\ r # None /\ r.op = "logout" /\ r.at = "first"
    /\ secret' = IF done THEN [secret EXCEPT ![r.acc] = FALSE] ELSE secret
    /\ CASE h = "ok" -> Goes(k) /\ UNCHANGED wiz
         [] h = "error" -> Ends(k, r.by, AfterLogoutError(r.by, r.acc))
         [] OTHER -> Dies(k)
    /\ UNCHANGED <<said, d1, reg, tasks, ops, hist, asked, unasked>>

\* ... then the registry, whose error is swallowed, and the row
LogoutRow(k, done, heard) ==
    LET r == busy[k] IN
    /\ r # None /\ r.op = "logout" /\ r.at = "second"
    /\ IF done THEN Registry(r.acc, "off") ELSE UNCHANGED reg
    /\ IF heard # "cut" /\ MayPut(r.by, r.acc)
       THEN Finds(k, [r.row EXCEPT !.on = FALSE, !.logged = FALSE, !.st = "scaffolded"])
       ELSE Dies(k)
    /\ apart' = IF r.met \/ heard # "ok" THEN apart \cup {r.acc} ELSE apart
    /\ UNCHANGED <<said, d1, secret, tasks, ops, gone, turned, crossed, strange, asked, unasked>>

----------------------------------------------------------------------------
(* The row is written *)

\* upsert_owned, at last: a row that was found is written by its id, whoever has
\* it by now, and not if it is gone; one that was not found is inserted, which
\* fails if there is one by now
Lands(k) == busy[k].at = "update" <=> acct[busy[k].acc] # None
Fails(k) == busy[k].at = "insert" /\ acct[busy[k].acc] # None
Written(k) ==
    LET r == busy[k] a == r.acc
        over == Overtakes(k, a, IF Lands(k) THEN r.by ELSE Owner(acct[a]))
    IN
    /\ r # None /\ r.at \in Saving
    /\ acct' = IF Lands(k) THEN [acct EXCEPT ![a] = r.row] ELSE acct
    /\ turned' = (turned \ {k}) \cup over
    /\ crossed' = IF over = {} THEN crossed ELSE crossed \cup {a}
    /\ UNCHANGED <<said, secret, watch, ops, strange, unasked>>

\* The end of set_enabled, set_label, auto_label, set_role and logout
Saved(k) ==
    LET r == busy[k] IN
    /\ Written(k) /\ r.op \in {"enable", "disable", "rename", "role", "auto", "logout"}
    /\ CASE Fails(k) -> Dies(k)
         [] ~Fails(k) /\ r.op \in Texts /\ Lands(k) -> Ends(k, r.by, Action(r.acc))
         [] OTHER -> Ends(k, r.by, Menu)
    /\ gone' = IF r.op = "logout" /\ ~Fails(k) /\ ~r.again THEN gone \cup {r.acc} ELSE gone
    /\ apart' = CASE r.met -> apart \cup {r.acc}
                  [] ~r.met /\ r.op \in {"enable", "disable"} -> apart \ {r.acc}
                  [] OTHER -> apart
    /\ UNCHANGED <<sess, older, reg, runs, asked>>

----------------------------------------------------------------------------
(* Deletion *)

\* delete: the registry, the secret; errors are kept for the report
DeleteRegistry(k, done, heard) ==
    LET r == busy[k] IN
    /\ r # None /\ r.op = "delete" /\ r.at = "first"
    /\ reg' = IF done THEN [reg EXCEPT ![r.acc] = "none"] ELSE reg
    /\ IF heard = "cut" THEN Over(k) ELSE Goes(k)
    /\ apart' = IF r.met THEN apart \cup {r.acc} ELSE apart
    /\ UNCHANGED <<wiz, said, d1, secret, tasks, ops, gone, turned, crossed, strange, asked, unasked>>

\* ... then the row, whoever has it by now
DeleteRow(k, done, heard) ==
    LET r == busy[k] over == Overtakes(k, r.acc, None) IN
    /\ r # None /\ r.op = "delete" /\ r.at = "second"
    /\ secret' = IF done THEN [secret EXCEPT ![r.acc] = FALSE] ELSE secret
    /\ IF heard = "cut" THEN Over(k) /\ UNCHANGED <<acct, turned, crossed>>
       ELSE /\ acct' = [acct EXCEPT ![r.acc] = None]
            /\ busy' = [busy EXCEPT ![k] = [@ EXCEPT !.at = "fetch", !.again = r.again \/ heard = "error"]]
            /\ turned' = turned \cup over
            /\ crossed' = IF over = {} THEN crossed ELSE crossed \cup {r.acc}
    /\ UNCHANGED <<wiz, said, sess, older, reg, tasks, ops, gone, apart, strange, asked, unasked>>

\* ... then its sessions are read, as many as the limit, in no order; those that
\* this admin made are to be cancelled
Fetch(k, some) ==
    LET r == busy[k] all == SessionsOf(r.acc) IN
    /\ r # None /\ r.at = "fetch"
    /\ some \subseteq all /\ Cardinality(some) <= SessionLimit
    /\ some = all \/ Cardinality(some) = SessionLimit
    /\ busy' = [busy EXCEPT ![k] = [@ EXCEPT !.at = "cancel", !.todo = {s \in some : sess[s].by = r.by}]]
    /\ crossed' = IF some = all THEN crossed ELSE crossed \cup {r.acc}
    /\ UNCHANGED <<bot, d1, github, tasks, ops, gone, apart, turned, strange>>

\* Mutant: the sessions of the account are left alone
SessionKept(s) == sess

\* Mutant: the sessions go with the account
SessionDropped(s) == [sess EXCEPT ![s] = None]

\* A session is cancelled, without its secrets
SessionLeft(s) == [sess EXCEPT ![s] = Cleared(@, "cancelled")]

\* ... one by one
CancelSession(k, s) ==
    /\ busy[k] # None /\ s \in busy[k].todo
    /\ sess' = SessionLeft(s) /\ Touch({s})
    /\ busy' = [busy EXCEPT ![k].todo = @ \ {s}]
    /\ UNCHANGED <<bot, acct, github, tasks, ops, hist>>

\* A handler may be cut off between these steps
DeleteEnds(k, cut) ==
    LET r == busy[k] IN
    /\ r # None /\ r.at \in {"fetch", "cancel"}
    /\ cut \/ (r.at = "cancel" /\ r.todo = {})
    /\ IF cut THEN Dies(k) ELSE Ends(k, r.by, Menu)
    /\ gone' = IF cut \/ r.again THEN gone ELSE gone \cup {r.acc}
    /\ crossed' = IF cut \/ r.met THEN crossed \cup {r.acc} ELSE crossed
    /\ UNCHANGED <<said, d1, github, tasks, ops, apart, turned, strange, asked, unasked>>

----------------------------------------------------------------------------
(* Logins *)

\* start_add, start_login_existing (external): a row of somebody else is a
\* conflict, and one that is logged into must be there; an error of GitHub asks
\* again
Start(k, out) ==
    LET r == busy[k]
        a == r.acc
        had == acct[a] # None
    IN
    /\ r # None /\ r.op \in Starts /\ r.at = "first"
    /\ CASE out = "ok" ->
              /\ MayPut(r.by, a) /\ (r.op = "login" => had) /\ UNCHANGED asked
              /\ Finds(k, [owner |-> r.by, on |-> had /\ acct[a].on, logged |-> had /\ acct[a].logged,
                           st |-> "logging_in"])
         [] out = "conflict" -> Ends(k, r.by, Menu) /\ UNCHANGED asked
         [] out = "error" -> Over(k) /\ Ask(r.by, Sure(r.op, a))
         [] OTHER -> Dies(k) /\ UNCHANGED asked
    /\ UNCHANGED <<said, d1, github, tasks, ops, hist, unasked>>

\* ... then the row is written by sync_from_login, the session made and the run
\* dispatched, and an error may still be heard of that
Started(k, s, out) ==
    LET r == busy[k] a == r.acc IN
    /\ Written(k) /\ r.op \in Starts /\ sess[s] = None
    /\ IF Fails(k) THEN UNCHANGED <<sess, older, reg, runs>>
       ELSE /\ sess' = [sess EXCEPT ![s] = [acc |-> a, by |-> r.by, phone |-> TRUE, otp |-> FALSE,
                                            old |-> FALSE, st |-> "sending", res |-> "none"]]
            /\ Touch({s})
            /\ reg' = IF r.op = "add" /\ reg[a] = "none" THEN [reg EXCEPT ![a] = "off"] ELSE reg
            /\ runs' = runs \cup {[acc |-> a, action |-> "send", sess |-> s]}
    /\ CASE ~Fails(k) /\ out = "ok" -> Ends(k, r.by, AwaitOtp(s, a)) /\ UNCHANGED asked
         [] ~Fails(k) /\ out = "error" -> Over(k) /\ Ask(r.by, Sure(r.op, a))
         [] OTHER -> Dies(k) /\ UNCHANGED asked
    /\ apart' = apart \cup {a} /\ UNCHANGED gone

\* dispatch_complete; then the conversation waits again, and a task watches
Dispatch(k, done, heard) ==
    LET r == busy[k] IN
    /\ r # None /\ r.op = "code" /\ r.at = "first"
    /\ IF done
       THEN /\ runs' = runs \cup {[acc |-> r.acc, action |-> "complete", sess |-> r.sess]}
            /\ sess' = [sess EXCEPT ![r.sess].st = "completing", ![r.sess].res = "none"]
            /\ Touch({r.sess})
       ELSE UNCHANGED <<runs, sess, older>>
    /\ IF heard = "ok"
       THEN Ends(k, r.by, AwaitOtp(r.sess, r.acc)) /\ watch' = watch \cup {[by |-> r.by, sess |-> r.sess]}
       ELSE Dies(k) /\ UNCHANGED watch
    /\ UNCHANGED <<said, acct, github, ops, hist, asked, unasked>>

----------------------------------------------------------------------------
(* Login runs on GitHub, one at a time per account *)

\* The sessions of an account are being cancelled
Deleting(a) == \E k \in Slots : BusyWith(k, a) /\ busy[k].at \in {"fetch", "cancel"}

\* What the bridge hands out, and whether its owner owns the account
Served(a, s) ==
    strange' = (strange \/ (/\ s # None /\ acct[a] # None /\ a \notin crossed /\ ~Deleting(a)
                            /\ sess[s].by # acct[a].owner))

\* cmd_send
RunSend(r) ==
    LET s == ForBridge(r.acc, "send") IN
    /\ r \in runs /\ r.action = "send" /\ runs' = runs \ {r}
    /\ Served(r.acc, s)
    /\ IF s # None /\ sess[s].phone /\ sess[s].st = "sending"
       THEN sess' = [sess EXCEPT ![s].st = "awaiting_otp"] /\ Touch({s})
       ELSE UNCHANGED <<sess, older>>
    /\ UNCHANGED <<bot, acct, github, watch, busy, ops, gone, apart, turned, crossed>>

\* cmd_complete and cmd_export_secret
RunComplete(r, ok) ==
    LET s == ForBridge(r.acc, "complete") IN
    /\ r \in runs /\ r.action = "complete" /\ runs' = runs \ {r}
    /\ ok => s # None /\ sess[s].otp /\ reg[r.acc] # "none"
    /\ Served(r.acc, s)
    /\ sess' = [sess EXCEPT ![r.sess].res = IF ok THEN "done" ELSE "failed"]
    /\ IF ok
       THEN /\ secret' = [secret EXCEPT ![r.acc] = TRUE]
            /\ gone' = gone \ {r.acc}
            /\ busy' = [k \in Slots |-> IF BusyWith(k, r.acc)
                                        THEN [busy[k] EXCEPT !.again = TRUE] ELSE busy[k]]
       ELSE UNCHANGED <<secret, gone, busy>>
    /\ UNCHANGED <<bot, acct, older, reg, watch, ops, apart, turned, crossed>>

\* sync_from_login(mark_login), up to where the row is found: it is to be ready
Readies(u, s) ==
    LET a == sess[s].acc IN
    /\ MayPut(u, a)
    /\ Joins([Request(u, "done", a, s) EXCEPT
                !.at = At(a),
                !.row = [owner |-> u, on |-> acct[a] # None /\ acct[a].on, logged |-> TRUE, st |-> "ready"]])

\* _watch_complete_and_notify: a failed login, or a timeout, changes nothing
WatchEnds(w) ==
    /\ w \in watch /\ watch' = watch \ {w}
    /\ IF sess[w.sess].res = "done" /\ MayPut(w.by, sess[w.sess].acc)
       THEN Readies(w.by, w.sess) ELSE UNCHANGED busy
    /\ UNCHANGED <<bot, d1, github, runs, ops, hist>>

\* The button that asks for the state of the run
CheckRun(u) ==
    /\ wiz[u].st = "otp" /\ sess[wiz[u].sess].res = "done"
    /\ Readies(u, wiz[u].sess)
    /\ UNCHANGED <<bot, d1, github, tasks, ops, hist>>

\* A finished login: the row is ready, the session has done its work, and the
\* conversation is closed, whatever it is about by now
LoginDone(k) ==
    LET r == busy[k] IN
    /\ Written(k) /\ r.op = "done"
    /\ IF Fails(k) THEN Dies(k) /\ UNCHANGED <<sess, older>>
       ELSE /\ Ends(k, r.by, Idle)
            /\ sess' = [sess EXCEPT ![r.sess] = Cleared(@, "done")] /\ Touch({r.sess})
    /\ apart' = apart \cup {r.acc}
    /\ UNCHANGED <<reg, runs, gone, asked>>

\* expires_at has passed
Expire(s) ==
    /\ sess[s] # None /\ ~sess[s].old
    /\ sess' = [sess EXCEPT ![s].old = TRUE]
    /\ UNCHANGED <<bot, acct, older, github, tasks, busy, ops, hist>>

----------------------------------------------------------------------------
Init ==
    /\ wiz = [u \in Users |-> Idle] /\ said = [u \in Users |-> None]
    /\ acct = [a \in Accounts |->
                 IF FirstOwner[a] = None THEN None
                 ELSE [owner |-> FirstOwner[a], on |-> TRUE, logged |-> TRUE, st |-> "ready"]]
    /\ reg = [a \in Accounts |-> IF FirstOwner[a] = None THEN "none" ELSE "on"]
    /\ secret = [a \in Accounts |-> FirstOwner[a] # None]
    /\ sess = FirstSession /\ older = {}
    /\ busy = [k \in Slots |-> None] /\ watch = {} /\ runs = {} /\ ops = 0
    /\ asked = [u \in Users |-> None] /\ unasked = FALSE
    /\ gone = {} /\ apart = {} /\ turned = {} /\ crossed = {} /\ strange = FALSE

Talk(u) ==
    \/ OpenMenu(u) \/ Depart(u) \/ Cancel(u)
    \/ \E kind \in Starts : MenuChoice(u, kind)
    \/ \E a \in Accounts : GiveId(u, a) \/ ManagePick(u, a)
    \/ GivePhone(u) \/ StartManage(u) \/ Decline(u) \/ NeedTwofa(u) \/ CheckRun(u)
    \/ \E kind \in Kinds \cup {"rename", "role"} : ManageAction(u, kind)
    \/ Press(u) \/ Confirm(u) \/ GiveCode(u)
    \/ \E op \in Texts : GiveText(u, op)

Answer(k) ==
    \/ \E done \in BOOLEAN, heard \in Heard :
         /\ heard = "ok" => done
         /\ \/ SetEnabled(k, done, heard) \/ LogoutSecret(k, done, heard)
            \/ LogoutRow(k, done, heard) \/ DeleteRegistry(k, done, heard)
            \/ DeleteRow(k, done, heard) \/ Dispatch(k, done, heard)
    \/ \E heard \in Heard : SetText(k, heard)
    \/ \E some \in SUBSET Sessions : Fetch(k, some)
    \/ \E s \in Sessions : CancelSession(k, s)
    \/ \E cut \in BOOLEAN : DeleteEnds(k, cut)
    \/ \E out \in {"ok", "conflict", "error", "cut"} : Start(k, out)
    \/ \E s \in Sessions, out \in {"ok", "error", "cut"} : Started(k, s, out)
    \/ Saved(k) \/ LoginDone(k)

Next ==
    \/ \E u \in Users : Talk(u)
    \/ \E k \in Slots : Answer(k)
    \/ \E r \in runs : RunSend(r) \/ \E ok \in BOOLEAN : RunComplete(r, ok)
    \/ \E w \in watch : WatchEnds(w)
    \/ \E s \in Sessions : Expire(s)

Spec == Init /\ [][Next]_vars

----------------------------------------------------------------------------
TypeOK ==
    /\ wiz \in [Users -> States]
    /\ acct \in [Accounts -> Row \cup {None}]
    /\ sess \in [Sessions -> Session \cup {None}]
    /\ reg \in [Accounts -> {"none", "on", "off"}] /\ secret \in [Accounts -> BOOLEAN]
    /\ older \subseteq Made \X Made
    /\ \A s, t \in Made : <<s, t>> \in older <=> s # t /\ <<t, s>> \notin older
    /\ \A u \in Users : wiz[u] \in Waiting => wiz[u].sess \in Made
    /\ \A r \in runs \cup watch : r.sess \in Made
    /\ busy \in [Slots -> Asker \cup {None}]
    /\ \A k \in Slots : busy[k] # None =>
         /\ busy[k].op \in {"code", "done"} => busy[k].sess \in Made
         /\ busy[k].at \in Saving => busy[k].row \in Row /\ busy[k].row.owner = busy[k].by

(* An account is switched, logged out or deleted, and a login begun, only    *)
(* when the admin was asked about just that and has not turned to something  *)
(* else, whatever slow handlers wrote to his conversation in the meantime.   *)
(* Excepted is a conversation that is written between the two reads of the   *)
(* confirmation (AccountsController.py:297, 836, 882, 922).                  *)
Confirmed == ~unasked

(* The account of one admin becomes another's only by a save that had found  *)
(* it free, or his own, before it was deleted, made or claimed meanwhile     *)
(* (Account.py:100-108): no handler that reads it afresh takes it over.      *)
OwnerKept ==
    [][\A a \in Accounts :
         acct[a] # None /\ acct'[a] # None /\ Owner(acct[a]) \notin {Nobody, Owner(acct'[a])}
           => \E k \in turned : BusyWith(k, a) /\ Over(k)]_vars

(* An account that the bot reported logged out, or deleted without an error, *)
(* has no session secret until a later login sets it (AccountService.py:317).*)
LogoutForgets == \A a \in gone : ~secret[a]

(* The registry and the table agree on which accounts run, unless handlers   *)
(* overlapped, one was cut off or heard an error of what was done, or a      *)
(* login wrote the row (AccountService.py:163).                              *)
RegistryAgrees ==
    \A a \in Accounts \ apart :
      acct[a] # None /\ reg[a] # "none" /\ (\A k \in Slots : ~BusyWith(k, a))
        => acct[a].on = (reg[a] = "on")

(* A login run gets credentials that the account's owner has given: those of *)
(* an earlier owner go with the account.  Excepted are accounts whose rows   *)
(* or sessions were written by others during the deletion or a save, whose   *)
(* deletion was cut off or is not over, or that had more sessions than a     *)
(* deletion reads (AccountService.py:413-430, LoginSession.py:147).          *)
ServedByOwner == ~strange

(* "Each admin only lists/manages their own rows": a deletion removes no row *)
(* of another admin (cf-admin-bot/README.md).                                *)
DeletesOwn ==
    [][\A k \in Slots, a \in Accounts :
         busy[k] # None /\ busy[k].op = "delete" /\ busy'[k] # busy[k] /\ busy[k].acc = a
           /\ acct[a] # None /\ acct'[a] = None => acct[a].owner = busy[k].by]_vars
=============================================================================
