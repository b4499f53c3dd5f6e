----------------------------- MODULE ListPages -----------------------------
(***************************************************************************)
(* The pages of the web client that show a list of the workspace (rules,   *)
(* contacts, members, tokens, hooks) with a form that adds to it and       *)
(* buttons on its rows: page.tsx under src/web/app.                        *)
(*                                                                         *)
(* A page loads its list when it mounts; every operation is a request and, *)
(* when it succeeds, a second load. What keeps a click from being sent     *)
(* twice is a hook: a boolean for the form, and for the rows one slot that *)
(* holds the id of the row last clicked. The slot is shared: the answer of *)
(* one row clears it for another. Some operations answer with a secret     *)
(* that the server never tells again.                                      *)
(*                                                                         *)
(* As in PolicyPages each page is two definitions, XHandlers and           *)
(* XControls, and the actions are written once.                            *)
(***************************************************************************)
EXTENDS Naturals, Sequences

CONSTANTS
    Pages,     \* the pages that are opened
    Rows,      \* bound: what a list can hold
    MaxVer,    \* bound: writes that take effect on the list
    MaxFlight  \* bound: requests in flight at once

NoRow == "none"

ASSUME ListAssumption ==
    /\ NoRow \notin Rows
    /\ MaxVer \in Nat \ {0} /\ MaxFlight \in Nat \ {0}

Lists == [ver : 1 .. MaxVer, rows : SUBSET Rows]
NoList == [ver |-> 0, rows |-> {}]          \* also the page before it loads
Failed == [ver |-> 0, rows |-> {NoRow}]     \* an error, or no answer at all

\* An operation, on a row or on the page, and the hooks that hold one.
On(op, r) == [op |-> op, row |-> r]
Of(op) == On(op, NoRow)
Free == Of("none")
Flags == {"form", "slot", "turn", "bulk"}

VARIABLES
    page,     \* the page this tab shows
    ui,       \* its hooks
    doc,      \* the list on the server
    net,      \* the requests in flight, in the order they were sent
    seen,     \* history: the newest version an answer told the page of
    told,     \* history: ... the answer to a write of its own, where the
              \* list is one token
    wrote,    \* history: the newest version a write of its own has made there
    overtook, \* history: an answer overtook an earlier one
    crossed   \* history: operations on their way that shared a hook

vars == <<page, ui, doc, net, seen, told, wrote, overtook, crossed>>

(***************************************************************************)
(* What the handlers of the pages have in common.                          *)
(***************************************************************************)
Ops == {"create", "remove", "act", "renew", "purge", "reveal", "test", "replay"}
All(x) == [op \in Ops |-> x]

ListForm ==
    [ blank  |-> TRUE,    \* a load drops the list it replaces
      quiet  |-> FALSE,   \* ... except the one after an operation
      rekeys |-> TRUE,    \* a change of the stored key loads again
      single |-> FALSE,   \* the list is one token, and "create" replaces it
      mints  |-> FALSE,   \* ... or makes the first one, and "renew" replaces it
      flag   |-> [All("slot") EXCEPT !["create"] = "form"],
                          \* the hook that holds an operation, or "none"
      after  |-> All("reload"),
               \* what success does: "reload", and clear the flag when that
               \* ends; "resync", the same without waiting; "adopt" the list
               \* in the answer; "cut" the row and resync; "patch" the row;
               \* "aside": it is not about this list; "elsewhere": nor is the
               \* load that it waits for
      closes |-> {},      \* success closes the row that is open
      own    |-> {},      \* clears its flag only if it still holds it
      cancels |-> FALSE,  \* closing a row clears the flag too
      shows  |-> {},      \* the answer is a secret to show
      hides  |-> {},      \* takes the secret off the page when it starts
      drops  |-> {} ]     \* ... when it succeeds

When(c, ops) == IF c THEN ops ELSE {}
Ready(u) == u.view = "ready"
Idle(u, f) == u.busy[f] = Free
Listed(u) == u.data.rows
Each(u, RowControls(_, _)) == UNION {RowControls(u, r) : r \in Listed(u)}

\* A form that is filled in.
Form_TwoClicks(u) == {Of("create")}
Form(u) == When(Idle(u, "form"), {Of("create")})

\* A row that asks before it is removed.
Ask(u, r) ==
    IF u.open = r
    THEN {On("cancel", r)} \union When(u.busy["slot"].row # r, {On("remove", r)})
    ELSE {On("ask", r)}

(***************************************************************************)
(* Rules and contacts of the workspace.                                    *)
(***************************************************************************)
IpAllowlistHandlers == [ListForm EXCEPT !.closes = {"remove"}]
IpAllowlistControls(u) == Form(u) \union Each(u, Ask)

EmbedOriginsHandlers == IpAllowlistHandlers
EmbedOriginsControls(u) == IpAllowlistControls(u)

InviteDomainsHandlers == IpAllowlistHandlers
InviteDomainsControls(u) == IpAllowlistControls(u)

TrustedProxiesHandlers == IpAllowlistHandlers
TrustedProxiesControls(u) == IpAllowlistControls(u)

\* "act" makes a contact the primary one.
SecurityContactsHandlers == [ListForm EXCEPT !.closes = {"remove"}]
SecurityContactsRow(u, r) ==
    Ask(u, r) \union When(u.busy["slot"].row # r, {On("act", r)})
SecurityContactsControls(u) == Form(u) \union Each(u, SecurityContactsRow)

SupportAccessHandlers == IpAllowlistHandlers
SupportAccessControls(u) == IpAllowlistControls(u)

\* "create" subscribes an address, "act" acknowledges the register.
SubprocessorsHandlers ==
    [ListForm EXCEPT !.quiet = TRUE, !.flag["act"] = "turn"]
SubprocessorsRow(u, r) == When(u.busy["slot"].row # r, {On("remove", r)})
SubprocessorsControls(u) ==
    When(Ready(u), Form(u) \union When(Idle(u, "turn"), {Of("act")}))
    \union Each(u, SubprocessorsRow)

(***************************************************************************)
(* Members, sessions, holds and requests of data subjects.                 *)
(***************************************************************************)
\* "act" changes a role, "renew" sends an invitation again. Both an
\* invitation and its renewal answer with a token.
MembersHandlers ==
    [ListForm EXCEPT !.rekeys = FALSE, !.shows = {"create", "renew"},
                     !.hides = {"create", "renew"}]
MembersRow_TwoClicks(u, r) == {On(op, r) : op \in {"remove", "act", "renew"}}
MembersRow(u, r) ==
    When(u.busy["slot"].row # r, {On(op, r) : op \in {"remove", "act", "renew"}})
MembersControls(u) == Form(u) \union Each(u, MembersRow)

\* "act" is the preview, "purge" removes every row.
ExpiredInvitesHandlers ==
    [ListForm EXCEPT !.flag = All("form"), !.after["act"] = "aside"]
ExpiredInvitesControls(u) ==
    When(Listed(u) # {} /\ Idle(u, "form"), {Of("act"), Of("purge")})

LegalHoldsHandlers == [ListForm EXCEPT !.flag = All("form")]
LegalHoldsRow(u, r) == When(Idle(u, "form"), {On("remove", r)})
LegalHoldsControls(u) ==
    When(Ready(u), Form(u)) \union When(u.view = "error", {Of("reload")})
    \union Each(u, LegalHoldsRow)

\* Nothing marks a request of a data subject as being sent. A row that is
\* open offers its next steps; choosing another filter loads again.
DsarHandlers ==
    [ListForm EXCEPT !.rekeys = FALSE, !.flag = All("none")]
DsarRow(u, r) ==
    IF u.open = r THEN {On("cancel", r), On("act", r)} ELSE {On("ask", r)}
DsarControls(u) ==
    {Of("reload"), Of("create")} \union Each(u, DsarRow)

\* "create" saves the session policy and loads that, "act" revokes all of an
\* actor: three kinds of id in one slot.
SessionsHandlers ==
    [ListForm EXCEPT !.rekeys = FALSE, !.flag = All("slot"),
                     !.after["create"] = "elsewhere"]
SessionsRow(u, r) ==
    {o \in {On("remove", r), On("act", r)} : u.busy["slot"] # o}
SessionsControls(u) ==
    {Of("reload")} \union When(u.busy["slot"] # Of("create"), {Of("create")})
    \union Each(u, SessionsRow)

MfaLockoutsHandlers == [ListForm EXCEPT !.rekeys = FALSE]
MfaLockoutsRow(u, r) == When(u.busy["slot"].row # r, {On("remove", r)})
MfaLockoutsControls(u) == {Of("reload")} \union Each(u, MfaLockoutsRow)

PatAuthLockoutHandlers ==
    [ListForm EXCEPT !.rekeys = FALSE, !.after["remove"] = "adopt"]
PatAuthLockoutRow(u, r) == When(u.busy["slot"].row # r, {On("remove", r)})
PatAuthLockoutControls(u) == {Of("reload")} \union Each(u, PatAuthLockoutRow)

(***************************************************************************)
(* Hooks, shares and collections: the list stays while it loads again.     *)
(***************************************************************************)
\* "act" pauses or resumes, "test" and "replay" deliver and load the panel of
\* the deliveries (QueryPages), "renew" rotates the secret, whose panel is left
\* out. These four put four kinds of id into one slot.
WebhooksHandlers ==
    [ListForm EXCEPT !.blank = FALSE, !.rekeys = FALSE,
                     !.flag["remove"] = "form", !.own = {"act"},
                     !.after["test"] = "elsewhere", !.after["replay"] = "elsewhere",
                     !.shows = {"create"}]
WebhooksRow(u, r) ==
    When(Idle(u, "form"), {On("remove", r)})
    \union {o \in {On(op, r) : op \in {"act", "renew", "test", "replay"}} :
               u.busy["slot"] # o}
WebhooksControls(u) ==
    {Of("reload")} \union Form(u) \union When(u.secret # 0, {Of("dismiss")})
    \union Each(u, WebhooksRow)

\* "act" saves the note of the share that is open.
SharesHandlers ==
    [ListForm EXCEPT !.blank = FALSE, !.flag["act"] = "turn",
                     !.after["remove"] = "cut", !.after["act"] = "patch",
                     !.closes = {"act"}]
SharesRow(u, r) ==
    When(u.busy["slot"].row # r, {On("remove", r)})
    \union IF u.open = r
           THEN {On("cancel", r)} \union
                When(u.busy["turn"].row # r, {On("act", r)})
           ELSE {On("ask", r)}
SharesControls(u) ==
    When(u.view # "loading", {Of("reload")}) \union Each(u, SharesRow)

\* One editor: "create" saves a new collection, "act" one it was loaded with.
CollectionsHandlers ==
    [ListForm EXCEPT !.blank = FALSE, !.flag["act"] = "form"]
CollectionsRow(u, r) ==
    When(Idle(u, "form"), {On("act", r)})
    \union When(u.busy["slot"].row # r, {On("remove", r)})
CollectionsControls(u) ==
    {Of("reload")} \union Form(u) \union Each(u, CollectionsRow)

(***************************************************************************)
(* Keys and tokens.                                                        *)
(***************************************************************************)
\* "renew" rotates a key, "purge" revokes all of them, from a dialog that is
\* opened on a list with rows and stays while that loads again.
KeysHandlers ==
    [ListForm EXCEPT !.flag["renew"] = "turn", !.flag["purge"] = "bulk",
                     !.closes = {"remove"}, !.shows = {"create", "renew"}]
KeysRow(u, r) ==
    Ask(u, r) \union When(u.open # r /\ Idle(u, "turn"), {On("renew", r)})
KeysControls(u) ==
    Form(u) \union When(u.secret # 0, {Of("dismiss")})
    \union When(Listed(u) # {} /\ ~u.dialog, {Of("ask")})
    \union When(u.dialog /\ Idle(u, "bulk"), {Of("purge"), Of("cancel")})
    \union Each(u, KeysRow)

\* "act" saves in a dialog that covers the page and that a click beside it
\* closes, whatever it is doing.
InventoryHandlers ==
    [ListForm EXCEPT !.rekeys = FALSE, !.flag["act"] = "form",
                     !.after["act"] = "resync", !.closes = {"act"},
                     !.cancels = TRUE]
InventoryControls(u) ==
    IF u.open = NoRow
    THEN {On("ask", r) : r \in Listed(u)}
    ELSE {On("cancel", u.open)} \union When(Idle(u, "form"), {On("act", u.open)})

\* "create" mints or rotates the token, "purge" revokes it.
ScimHandlers_KeepsToken ==
    [ListForm EXCEPT !.rekeys = FALSE, !.single = TRUE, !.flag = All("form"),
                     !.shows = {"create"}]
ScimHandlers ==
    [ListForm EXCEPT !.rekeys = FALSE, !.single = TRUE, !.flag = All("form"),
                     !.shows = {"create"}, !.drops = {"purge"}]
ScimControls(u) ==
    When(Idle(u, "form"), {Of("create")} \union When(Listed(u) # {}, {Of("purge")}))

\* "create" mints the first key, "renew" rotates it, "reveal" shows it; the
\* API does nothing where there is a key already, or none.
ExportSigningHandlers ==
    [ListForm EXCEPT !.single = TRUE, !.mints = TRUE, !.flag = All("form"),
                     !.shows = {"create", "renew", "reveal"},
                     !.hides = {"create", "renew", "reveal"}]
ExportSigningControls(u) ==
    When(Ready(u) /\ Idle(u, "form"),
         IF Listed(u) = {} THEN {Of("create")} ELSE {Of("renew"), Of("reveal")})

HandlersOf ==
  [ p \in Pages |->
    CASE p = "ip-allowlist" -> IpAllowlistHandlers
      [] p = "embed-origins" -> EmbedOriginsHandlers
      [] p = "invite-domains" -> InviteDomainsHandlers
      [] p = "trusted-proxies" -> TrustedProxiesHandlers
      [] p = "security-contacts" -> SecurityContactsHandlers
      [] p = "support-access" -> SupportAccessHandlers
      [] p = "subprocessors" -> SubprocessorsHandlers
      [] p = "members" -> MembersHandlers
      [] p = "expired-invites" -> ExpiredInvitesHandlers
      [] p = "legal-holds" -> LegalHoldsHandlers
      [] p = "dsar" -> DsarHandlers
      [] p = "sessions" -> SessionsHandlers
      [] p = "mfa-lockouts" -> MfaLockoutsHandlers
      [] p = "pat-auth-lockout" -> PatAuthLockoutHandlers
      [] p = "webhooks" -> WebhooksHandlers
      [] p = "shares" -> SharesHandlers
      [] p = "collections" -> CollectionsHandlers
      [] p = "keys" -> KeysHandlers
      [] p = "inventory" -> InventoryHandlers
      [] p = "scim" -> ScimHandlers
      [] OTHER -> ExportSigningHandlers ]
Handlers == HandlersOf[page]

Controls ==
    CASE page = "ip-allowlist" -> IpAllowlistControls(ui)
      [] page = "embed-origins" -> EmbedOriginsControls(ui)
      [] page = "invite-domains" -> InviteDomainsControls(ui)
      [] page = "trusted-proxies" -> TrustedProxiesControls(ui)
      [] page = "security-contacts" -> SecurityContactsControls(ui)
      [] page = "support-access" -> SupportAccessControls(ui)
      [] page = "subprocessors" -> SubprocessorsControls(ui)
      [] page = "members" -> MembersControls(ui)
      [] page = "expired-invites" -> ExpiredInvitesControls(ui)
      [] page = "legal-holds" -> LegalHoldsControls(ui)
      [] page = "dsar" -> DsarControls(ui)
      [] page = "sessions" -> SessionsControls(ui)
      [] page = "mfa-lockouts" -> MfaLockoutsControls(ui)
      [] page = "pat-auth-lockout" -> PatAuthLockoutControls(ui)
      [] page = "webhooks" -> WebhooksControls(ui)
      [] page = "shares" -> SharesControls(ui)
      [] page = "collections" -> CollectionsControls(ui)
      [] page = "keys" -> KeysControls(ui)
      [] page = "inventory" -> InventoryControls(ui)
      [] page = "scim" -> ScimControls(ui)
      [] OTHER -> ExportSigningControls(ui)

(***************************************************************************)
(* Requests: of the list ("get"), of an operation ("write"), or of what is *)
(* loaded "elsewhere". "op" and "row" are the operation a request carries  *)
(* out, also of the load that follows it: both hold its flag.              *)
(***************************************************************************)
Request(kind, o) ==
    [kind |-> kind, op |-> o.op, row |-> o.row, answered |-> FALSE,
     answer |-> NoList]
Load(o) == Request("get", o)
Doing(m) == On(m.op, m.row)
Then(o) == IF o.op \in Ops THEN Handlers.after[o.op] ELSE "end"
FlagOf(o) == IF o.op \in Ops THEN Handlers.flag[o.op] ELSE "none"

HasRoom == Len(net) < MaxFlight
Without(i) == [k \in 1 .. Len(net) - 1 |-> IF k < i THEN net[k] ELSE net[k + 1]]
Newest(a, b) == IF a > b THEN a ELSE b

\* The load function of the page, up to its fetch and after it.
Loading(u) ==
    [u EXCEPT !.view = "loading", !.data = IF Handlers.blank THEN NoList ELSE @]
LoadingAfter(u) == IF Handlers.quiet THEN u ELSE Loading(u)
Shown_Unchecked(u, d) == [u EXCEPT !.view = "ready", !.data = d]
Shown(u, d) ==
    IF d = Failed THEN [u EXCEPT !.view = "error", !.data = NoList]
                  ELSE [u EXCEPT !.view = "ready", !.data = d]

\* The finally of the operation o.
Finished_NotRemove(u, o) ==
    IF o.op \in Ops \ {"remove"} THEN [u EXCEPT !.busy[FlagOf(o)] = Free] ELSE u
Finished(u, o) ==
    LET f == FlagOf(o)
        kept == o.op \in Handlers.own /\ u.busy[f] # o
    IN  IF f = "none" \/ kept
        THEN u
        ELSE [u EXCEPT !.busy[f] = Free]

\* What the handler of o does with a success, before it loads again.
Succeeded_NotAdopted(u, o, d) ==
    [u EXCEPT !.open = IF o.op \in Handlers.closes THEN NoRow ELSE @]
Succeeded(u, o, d) ==
    [u EXCEPT
        !.open = IF o.op \in Handlers.closes THEN NoRow ELSE @,
        !.dialog = @ /\ o.op # "purge",
        !.secret = CASE o.op \in Handlers.shows /\ d.rows # {} -> d.ver
                     [] o.op \in Handlers.drops -> 0
                     [] OTHER -> @,
        !.view = IF Then(o) = "adopt" THEN "ready" ELSE @,
        !.data = CASE Then(o) = "adopt" -> d
                   [] Then(o) = "cut" ->
                        [@ EXCEPT !.rows = @ \ {o.row}]
                   [] OTHER -> @]

Init ==
    /\ page \in Pages
    /\ ui = [ view |-> "loading", data |-> NoList, busy |-> [f \in Flags |-> Free],
              open |-> NoRow, dialog |-> FALSE, secret |-> 0 ]
    /\ doc \in {[ver |-> 1, rows |-> rs] : rs \in SUBSET Rows}
    /\ net = <<Load(Free)>>
    /\ seen = 0 /\ told = 0 /\ wrote = 0
    /\ overtook = FALSE /\ crossed = {}

(***************************************************************************)
(* The administrator.                                                      *)
(***************************************************************************)
Local == UNCHANGED <<page, doc, net, seen, told, wrote, overtook, crossed>>

Open(r) ==
    /\ On("ask", r) \in Controls
    /\ ui' = [ui EXCEPT !.open = r]
    /\ Local

AskAll ==
    /\ Of("ask") \in Controls
    /\ ui' = [ui EXCEPT !.dialog = TRUE]
    /\ Local

CancelAll ==
    /\ Of("cancel") \in Controls
    /\ ui' = [ui EXCEPT !.dialog = FALSE]
    /\ Local

Close(r) ==
    /\ On("cancel", r) \in Controls
    /\ ui' = [ui EXCEPT !.open = NoRow,
                        !.busy["form"] = IF Handlers.cancels THEN Free ELSE @]
    /\ Local

Dismiss ==
    /\ Of("dismiss") \in Controls
    /\ ui' = [ui EXCEPT !.secret = 0]
    /\ Local

\* The other operations on their way that use the hook f.
Rivals(o, f) ==
    {x \in {Doing(net[i]) : i \in DOMAIN net} : x # o /\ FlagOf(x) = f}

Send(o) ==
    /\ o \in Controls /\ o.op \in Ops /\ HasRoom
    /\ LET f == FlagOf(o)
       IN  /\ ui' = [ui EXCEPT
                        !.busy = IF f = "none" THEN @ ELSE [@ EXCEPT ![f] = o],
                        !.secret = IF o.op \in Handlers.hides THEN 0 ELSE @]
           /\ crossed' = crossed \union
                            IF Rivals(o, f) = {} THEN {} ELSE Rivals(o, f) \union {o}
    /\ net' = Append(net, Request("write", o))
    /\ UNCHANGED <<page, doc, seen, told, wrote, overtook>>

Reload ==
    /\ HasRoom
    /\ ui' = Loading(ui)
    /\ net' = Append(net, Load(Free))
    /\ UNCHANGED <<page, doc, seen, told, wrote, overtook, crossed>>

Refresh == Of("reload") \in Controls /\ Reload

\* The stored API key changes; a page that starts with a key loads twice.
Rekey == Handlers.rekeys /\ Reload

(***************************************************************************)
(* The server, another administrator, and the network.                     *)
(***************************************************************************)
\* The rows after an operation. Renewing, changing or pausing a row keeps it;
\* revoking all keeps the key it is asked with.
After(o, rows) ==
    CASE o.op \in {"create", "renew"} /\ Handlers.single -> {{r} : r \in Rows}
      [] o.op = "create" /\ ~Handlers.single -> {rows \union {r} : r \in Rows \ rows}
      [] o.op = "remove" -> {rows \ {o.row}}
      [] o.op = "purge" -> IF Handlers.single THEN {{}} ELSE SUBSET rows
      [] OTHER -> {rows}

OtherAdmin ==
    /\ doc.ver < MaxVer
    /\ \E rs \in SUBSET Rows : doc' = [ver |-> doc.ver + 1, rows |-> rs]
    /\ UNCHANGED <<page, ui, net, seen, told, wrote, overtook, crossed>>

Reads(m) ==
    \/ m.kind = "get" \/ m.op = "reveal"
    \/ Then(Doing(m)) \in {"aside", "elsewhere"}

\* The first key is there already, or there is none to replace.
Moot(m) ==
    /\ Handlers.mints
    /\ m.op = (IF doc.rows = {} THEN "renew" ELSE "create")

\* The pages of one token, whose own writes are told apart from others.
OneToken == Handlers.single \/ Handlers.mints

\* The server answers request i, or refuses it, or the network loses the
\* request or the answer: a write whose answer is lost may have taken effect.
Answer(i) ==
    /\ i \in DOMAIN net /\ ~net[i].answered
    /\ LET m == net[i]
           answers(d) == {[m EXCEPT !.answered = TRUE, !.answer = a] : a \in {d, Failed}}
       IN  \/ /\ ~Reads(m) /\ ~Moot(m) /\ doc.ver < MaxVer
              /\ m.row = NoRow \/ m.row \in doc.rows
              /\ \E rs \in After(Doing(m), doc.rows) :
                    doc' = [ver |-> doc.ver + 1, rows |-> rs]
              /\ wrote' = IF OneToken THEN doc'.ver ELSE wrote
              /\ \E a \in answers(doc') : net' = [net EXCEPT ![i] = a]
           \/ /\ Reads(m)
              /\ \E a \in answers(doc) : net' = [net EXCEPT ![i] = a]
              /\ UNCHANGED <<doc, wrote>>
           \/ /\ ~Reads(m)
              /\ \E a \in answers(IF Moot(m) THEN NoList ELSE Failed) :
                    net' = [net EXCEPT ![i] = a]
              /\ UNCHANGED <<doc, wrote>>
    /\ overtook' = (overtook \/ \E j \in 1 .. i - 1 : ~net[j].answered)
    /\ UNCHANGED <<page, ui, seen, told, crossed>>

Told(m) == m.kind = "get" \/ Then(Doing(m)) \in {"reload", "resync", "adopt", "cut"}

Deliver(i) ==
    /\ i \in DOMAIN net /\ net[i].answered
    /\ LET m == net[i]
           o == Doing(m)
           ok == m.answer # Failed
           u == Succeeded(ui, o, m.answer)
           then == IF m.kind = "write" /\ ok THEN Then(o) ELSE "end"
       IN  /\ overtook' = (overtook \/ i > 1)
           /\ seen' = IF ok /\ Told(m) THEN Newest(seen, m.answer.ver) ELSE seen
           /\ told' = IF OneToken /\ ok /\ m.kind = "write" /\ ~Reads(m)
                      THEN Newest(told, m.answer.ver) ELSE told
           /\ CASE then = "reload" ->
                     /\ ui' = LoadingAfter(u)
                     /\ net' = Append(Without(i), Load(o))
                [] then \in {"resync", "cut"} ->
                     /\ ui' = LoadingAfter(Finished(u, o))
                     /\ net' = Append(Without(i), Load(Free))
                [] then = "elsewhere" ->
                     /\ ui' = u
                     /\ net' = Append(Without(i), Request("elsewhere", o))
                [] then \in {"adopt", "patch", "aside"} ->
                     /\ ui' = Finished(u, o)
                     /\ net' = Without(i)
                [] OTHER ->
                     /\ ui' = Finished(IF m.kind = "get" THEN Shown(ui, m.answer)
                                                         ELSE ui, o)
                     /\ net' = Without(i)
           /\ crossed' = crossed \intersect {Doing(net'[k]) : k \in DOMAIN net'}
    /\ UNCHANGED <<page, doc, wrote>>

Sends == \E op \in Ops, r \in Rows \union {NoRow} : Send(On(op, r))

Next ==
    \/ AskAll \/ CancelAll \/ Dismiss \/ Sends
    \/ \E r \in Rows : Open(r) \/ Close(r)
    \/ Refresh \/ Rekey \/ OtherAdmin
    \/ \E i \in 1 .. MaxFlight : Answer(i) \/ Deliver(i)

Spec == Init /\ [][Next]_vars

-----------------------------------------------------------------------------
Operations == [op : Ops \union {"none"}, row : Rows \union {NoRow}]
Hooks ==
    [ view : {"loading", "error", "ready"}, data : Lists \union {NoList},
      busy : [Flags -> Operations],
      open : Rows \union {NoRow}, dialog : BOOLEAN, secret : 0 .. MaxVer ]
Requests ==
    [ kind : {"get", "write", "elsewhere"}, op : Ops \union {"none"}, row : Rows \union {NoRow},
      answered : BOOLEAN, answer : Lists \union {NoList, Failed} ]

\* Types: the hooks, the list and the requests have the shapes above, and a
\* page shows a list that the server once had.
ListTypeOK ==
    /\ page \in Pages /\ ui \in Hooks /\ doc \in Lists
    /\ net \in Seq(Requests) /\ Len(net) <= MaxFlight
    /\ seen \in 0 .. MaxVer /\ told \in 0 .. MaxVer /\ wrote \in 0 .. MaxVer
    /\ overtook \in BOOLEAN /\ crossed \subseteq Operations

\* A hook that disables a control holds an operation that is still on its
\* way, whatever other rows did with the hook in the meantime: no control
\* stays disabled for an operation that has ended.
FlagsTruthful ==
    \A f \in Flags :
        Idle(ui, f) \/ \E i \in DOMAIN net : Doing(net[i]) = ui.busy[f]

\* What one boolean guards is on its way once, until the list has been loaded
\* again, whatever reloads and answers fall in between. The dialog of the
\* inventory is the exception: closing it while it saves clears the boolean.
OneSubmitAtATime ==
    page # "inventory" =>
        \A i, j \in DOMAIN net :
            /\ FlagOf(Doing(net[i])) = "form"
            /\ FlagOf(Doing(net[j])) = "form"
            => i = j

\* The operation of a row is not on its way twice, through answers, reloads
\* and clicks in any order, except for one that has shared its slot, while it
\* was on its way, with another operation: of another row, or of its own row
\* where each kind of operation has an id of its own (webhooks and sessions),
\* or where another row has cleared the slot. The end of either enables the
\* other again, and the code does send it again then. The requests of data
\* subjects have no guard at all, and the inventory clears its own.
RowSentOnce ==
    page \notin {"dsar", "inventory"} =>
        \A i, j \in DOMAIN net :
            /\ i # j /\ Doing(net[i]) = Doing(net[j]) /\ net[i].op # "none"
            => Doing(net[i]) \in crossed

\* Once nothing is on its way, the list on the page is no older than what an
\* answer told the page of: every way out of every handler that succeeded
\* loads again or adopts the answer. It needs the answers to arrive in order.
SettledFresh ==
    net = <<>> /\ ~overtook /\ Ready(ui) => ui.data.ver >= seen

\* The token or the key that these two pages show is not one that the page
\* itself has replaced or revoked since. The signing key is taken off the page
\* before the request, so that this holds whatever becomes of the answer. The
\* SCIM token stays until an answer tells that it is gone: if that is lost, or
\* still on its way, the page shows a token that is dead.
SecretCurrent ==
    page \in {"scim", "export-signing"} /\ ui.secret # 0 =>
        ui.secret >= IF page = "scim" THEN told ELSE wrote

=============================================================================
