---------------------------- MODULE PolicyPages ----------------------------
(***************************************************************************)
(* The settings and admin pages of the web client that show one document   *)
(* of the workspace (a policy: a number, a set, a toggle) and let an       *)
(* administrator change it: page.tsx under src/web/app/settings and        *)
(* src/web/app/admin.                                                      *)
(*                                                                         *)
(* A page loads its document when it mounts, seeds its input fields from   *)
(* it, and writes with a PUT; the answers arrive later, out of order or    *)
(* never, and another administrator may write in between. The pages differ *)
(* in which controls are enabled when, in whether a save ends in a reload  *)
(* or adopts the answer, and in what they do with a failure; they share    *)
(* everything else. So each page is two definitions, XHandlers (the facts  *)
(* about its event handlers) and XControls (the operations its JSX leaves  *)
(* enabled in a state of its hooks), and the actions are written once.     *)
(***************************************************************************)
EXTENDS Naturals, Sequences

CONSTANTS
    Pages,     \* the pages that are opened
    MaxVer,    \* bound: writes that take effect on the document
    MaxMount,  \* bound: times the page is mounted
    MaxFlight  \* bound: requests in flight at once

PageNames ==
    {"match-topk", "match-duration", "pat-concurrency",
     "webhook-delivery-rate", "webhook-destination-cap",
     "pat-secret-prefix", "scope-policy", "auth-methods",
     "pat-expiry-warning", "scim-token-rotation",
     "webhook-secret-rotation", "seat-limit", "quotas", "residency",
     "classification", "webhook-policy", "webhook-destinations",
     "retention", "workspace-closure", "webhook-egress", "body-size",
     "retention-floor", "webhook-max-attempts",
     "webhook-auto-disable", "budget", "pat-min-requirements",
     "system-use-notification", "delivery-rate-card", "dpa"}

ASSUME PolicyAssumption ==
    /\ Pages \subseteq PageNames
    /\ MaxVer \in Nat /\ MaxMount \in Nat \ {0} /\ MaxFlight \in Nat \ {0}

\* The values of a document and of its field: nothing set, Default is what a
\* reset or an unset policy falls back to; and Bad, a text the field can hold
\* but the server never accepts.
Off == "off"
Default == "default"
Vals == {Off, Default}
Bad == "bad"

Docs == [ver : 0 .. MaxVer, val : Vals]
NoDoc == [ver |-> 0, val |-> Bad]          \* the page holds no document
Failed == [ver |-> 0, val |-> "failed"]    \* an HTTP error answers
Lost == [ver |-> 0, val |-> "lost"]        \* fetch rejects: no answer
Pending == [ver |-> 0, val |-> "pending"]  \* not answered yet
Errors == {Failed, Lost}

\* A handler throws unless r.ok.
Ok_Unchecked(answer) == answer # Lost
Ok(answer) == answer \notin Errors

VARIABLES
    page,     \* the page this tab shows
    mount,    \* how often it was mounted
    ui,       \* the hooks of the mounted page
    doc,      \* the document on the server
    net,      \* the requests in flight, in the order they were sent
    seen,     \* history: the newest version an answer told this mount of
    overtook  \* history: an answer of this mount overtook an earlier one

vars == <<page, mount, ui, doc, net, seen, overtook>>

(***************************************************************************)
(* What the handlers of the two templates have in common. A settings page  *)
(* keeps {kind: loading | error | ready} in one hook, so a reload drops    *)
(* the document it showed; it ends a save with a reload, and it loads      *)
(* again when the stored API key changes. That hook starts as "", so a     *)
(* browser with a key loads every such page twice. An admin page keeps the *)
(* document beside its loading and error hooks, adopts the answer of the   *)
(* PUT, and loads once.                                                    *)
(***************************************************************************)
SettingsForm ==
    [ blank    |-> TRUE,      \* a reload drops the document
      rekeys   |-> TRUE,      \* a change of the stored key loads again
      then     |-> "reload",  \* a save ends in a reload, or "adopt"s
      reseeds  |-> TRUE,      \* adopting also writes the input fields
      catches  |-> FALSE,     \* a rejected fetch is caught and shown
      checks   |-> FALSE,     \* the input is validated before the request
      clamps   |-> FALSE,     \* the input cannot hold an invalid value
      resets   |-> FALSE,     \* "clear" empties the field before it sends
      empties  |-> FALSE,     \* "save" empties the field before it sends
      clearTo  |-> Off,       \* what "clear" writes
      falls    |-> {},        \* versions at which an unset policy fills the
                              \* field with Default
      rereads  |-> FALSE ]    \* the extra POST of the page ends in a reload

AdminForm ==
    [SettingsForm EXCEPT !.blank = FALSE, !.rekeys = FALSE,
                         !.then = "adopt", !.catches = TRUE, !.checks = TRUE]

(***************************************************************************)
(* What a page offers: "edit" the field, "save" it, "clear" the policy,    *)
(* "preset": write another value at once, "again": the same one, "run" a   *)
(* POST that leaves the document alone, "discard" the edits, "reload".     *)
(***************************************************************************)
When(c, ops) == IF c THEN ops ELSE {}
Ready(u) == u.view = "ready"
Idle(u) == u.busy = "idle"
Differs(u) == u.draft # u.data.val
IsSet(u) == u.data.val # Off
Retry(u) == When(u.view = "error", {"reload"})

(***************************************************************************)
(* The settings pages.                                                     *)
(***************************************************************************)
MatchTopKHandlers == [SettingsForm EXCEPT !.checks = TRUE, !.resets = TRUE]
MatchTopKControls(u) ==
    When(Ready(u), {"edit"} \union When(Idle(u), {"save"})
                            \union When(Idle(u) /\ IsSet(u), {"clear"}))

MatchDurationHandlers == MatchTopKHandlers
MatchDurationControls(u) == MatchTopKControls(u)

PatConcurrencyHandlers == MatchTopKHandlers
PatConcurrencyControls(u) == MatchTopKControls(u)

WebhookDeliveryRateHandlers == [SettingsForm EXCEPT !.checks = TRUE]
WebhookDeliveryRateControls(u) ==
    When(Ready(u), {"edit"} \union When(Idle(u) /\ Differs(u), {"save"}))

WebhookDestinationCapHandlers ==
    [SettingsForm EXCEPT !.checks = TRUE, !.resets = TRUE, !.clearTo = Default]
WebhookDestinationCapControls(u) ==
    When(Ready(u), {"edit"} \union When(Idle(u), {"save", "clear"}))

PatSecretPrefixHandlers == SettingsForm
PatSecretPrefixControls(u) ==
    When(Ready(u), {"edit"} \union When(Idle(u) /\ Differs(u), {"save"})
                            \union When(Idle(u) /\ IsSet(u), {"clear"}))

ScopePolicyHandlers == [SettingsForm EXCEPT !.clamps = TRUE]
ScopePolicyControls(u) ==
    When(Ready(u), {"edit"} \union When(Idle(u), {"save"})
                            \union When(Idle(u) /\ IsSet(u), {"clear"}))

\* The methods of an unset policy show as all selected; none selected
\* cannot be saved.
AuthMethodsHandlers == [SettingsForm EXCEPT !.clamps = TRUE, !.falls = 0 .. MaxVer]
AuthMethodsControls(u) ==
    When(Ready(u), {"edit"} \union When(Idle(u) /\ u.draft # Off, {"save"}))

PatExpiryWarningHandlers == [SettingsForm EXCEPT !.catches = TRUE]
PatExpiryWarningControls(u) ==
    When(Ready(u), {"edit"} \union When(Idle(u), {"save"}))

ScimTokenRotationHandlers == PatExpiryWarningHandlers
ScimTokenRotationControls(u) == PatExpiryWarningControls(u)

WebhookSecretRotationHandlers == PatExpiryWarningHandlers
WebhookSecretRotationControls(u) == PatExpiryWarningControls(u)

SeatLimitHandlers == [SettingsForm EXCEPT !.clamps = TRUE, !.catches = TRUE]
SeatLimitControls(u) ==
    When(Ready(u), {"edit"} \union When(Idle(u) /\ Differs(u), {"save"}))

QuotasHandlers == [SettingsForm EXCEPT !.clamps = TRUE, !.catches = TRUE]
QuotasControls(u) == When(Ready(u), {"edit"} \union When(Idle(u), {"save"}))

ResidencyHandlers == QuotasHandlers
ResidencyControls(u) == QuotasControls(u)

ClassificationHandlers == PatExpiryWarningHandlers
ClassificationControls(u) == PatExpiryWarningControls(u)

\* Two toggles that write at once: no field.
WebhookPolicyHandlers == [SettingsForm EXCEPT !.clamps = TRUE]
WebhookPolicyControls(u) == When(Ready(u) /\ Idle(u), {"preset", "again"})

\* The allow-list: the field is a host to add, "clear" removes one. Its
\* effect depends on the array that useApiKey returns, a new one per render,
\* so that Rekey happens after each render.
WebhookDestinationsHandlers ==
    [SettingsForm EXCEPT !.then = "adopt", !.reseeds = FALSE, !.catches = TRUE,
                         !.checks = TRUE, !.empties = TRUE]
WebhookDestinationsControls(u) ==
    When(Ready(u) /\ Idle(u),
         {"edit"} \union When(u.draft # Off, {"save"})
                  \union When(IsSet(u), {"clear"}))

\* "run" enforces the policy, or previews that.
RetentionHandlers == [SettingsForm EXCEPT !.checks = TRUE]
RetentionControls(u) ==
    Retry(u) \union
    When(Ready(u), {"edit"} \union When(Idle(u), {"save", "run"}))

\* The wind-down: "preset" schedules it, with the form filled in, "clear"
\* cancels it.
WorkspaceClosureHandlers ==
    [SettingsForm EXCEPT !.catches = TRUE, !.clamps = TRUE]
WorkspaceClosureControls(u) ==
    When(Ready(u) /\ Idle(u),
         When(~IsSet(u), {"preset"}) \union When(IsSet(u), {"clear"}))

\* The egress addresses are only shown; the page loads after each render, as
\* that of the destinations does.
WebhookEgressHandlers == [SettingsForm EXCEPT !.catches = TRUE]
WebhookEgressControls(u) == Retry(u)

(***************************************************************************)
(* The admin pages.                                                        *)
(***************************************************************************)
BodySizeHandlers == AdminForm
BodySizeControls_BlindSave(u) ==
    When(Idle(u), {"edit", "preset"} \union When(Differs(u), {"save"}))
BodySizeControls_TwoClicks(u) ==
    When(Ready(u), When(Idle(u), {"edit", "preset"})
                   \union When(Differs(u), {"save"}))
BodySizeControls_EditWhileSaving(u) ==
    When(Ready(u), {"edit"} \union When(Idle(u) /\ Differs(u), {"save"}))
BodySizeControls(u) ==
    Retry(u) \union
    When(Ready(u) /\ Idle(u),
         {"edit", "preset"} \union When(Differs(u), {"save"}))

RetentionFloorHandlers == [AdminForm EXCEPT !.reseeds = FALSE]
RetentionFloorControls(u) ==
    Retry(u) \union When(Ready(u) /\ Idle(u), {"edit", "save"})

WebhookMaxAttemptsHandlers == [AdminForm EXCEPT !.falls = 0 .. MaxVer]
WebhookMaxAttemptsControls(u) ==
    Retry(u) \union When(Ready(u) /\ Idle(u), {"edit", "save", "preset"})

WebhookAutoDisableHandlers == WebhookMaxAttemptsHandlers
WebhookAutoDisableControls(u) == WebhookMaxAttemptsControls(u)

\* The only admin form whose fields stay enabled while it saves; it adopts
\* the answer without writing them.
BudgetHandlers ==
    [AdminForm EXCEPT !.reseeds = FALSE, !.checks = FALSE, !.clamps = TRUE]
BudgetControls(u) == When(Ready(u), {"edit"} \union When(Idle(u), {"save"}))

PatMinRequirementsHandlers == [AdminForm EXCEPT !.resets = TRUE]
PatMinRequirementsControls(u) ==
    Retry(u) \union When(Ready(u) /\ Idle(u), {"edit", "save", "clear"})

\* "run" acknowledges the banner and loads again. A banner that was never
\* saved fills its toggle as one that is enforced.
SystemUseNotificationHandlers ==
    [AdminForm EXCEPT !.checks = FALSE, !.rereads = TRUE, !.falls = {0}]
SystemUseNotificationControls(u) ==
    Retry(u) \union
    When(Ready(u) /\ Idle(u),
         {"edit"} \union When(Differs(u), {"save", "discard"})
                  \union When(IsSet(u), {"run"}))

\* The agreement: "preset" accepts, "clear" withdraws. Each button is
\* disabled by its own action only. The API answers that an older version
\* was not accepted (routes/dpa.py), so that it counts as none.
DpaHandlers == [AdminForm EXCEPT !.then = "reload", !.clamps = TRUE]
DpaControls(u) ==
    When(Ready(u),
         When(u.busy # "preset" /\ ~IsSet(u), {"preset"}) \union
         When(u.busy # "clear" /\ IsSet(u), {"clear"}))

\* The card on the page of the hooks: it loads once, and adopts its answer.
DeliveryRateCardHandlers == AdminForm
DeliveryRateCardControls(u) ==
    When(u.view # "loading", {"edit"}) \union
    When(Ready(u) /\ Idle(u) /\ Differs(u), {"save"})

HandlersOf ==
  [ p \in Pages |->
    CASE p = "match-topk" -> MatchTopKHandlers
      [] p = "match-duration" -> MatchDurationHandlers
      [] p = "pat-concurrency" -> PatConcurrencyHandlers
      [] p = "webhook-delivery-rate" -> WebhookDeliveryRateHandlers
      [] p = "webhook-destination-cap" -> WebhookDestinationCapHandlers
      [] p = "pat-secret-prefix" -> PatSecretPrefixHandlers
      [] p = "scope-policy" -> ScopePolicyHandlers
      [] p = "auth-methods" -> AuthMethodsHandlers
      [] p = "pat-expiry-warning" -> PatExpiryWarningHandlers
      [] p = "scim-token-rotation" -> ScimTokenRotationHandlers
      [] p = "webhook-secret-rotation" -> WebhookSecretRotationHandlers
      [] p = "seat-limit" -> SeatLimitHandlers
      [] p = "quotas" -> QuotasHandlers
      [] p = "residency" -> ResidencyHandlers
      [] p = "classification" -> ClassificationHandlers
      [] p = "webhook-policy" -> WebhookPolicyHandlers
      [] p = "webhook-destinations" -> WebhookDestinationsHandlers
      [] p = "retention" -> RetentionHandlers
      [] p = "workspace-closure" -> WorkspaceClosureHandlers
      [] p = "webhook-egress" -> WebhookEgressHandlers
      [] p = "body-size" -> BodySizeHandlers
      [] p = "retention-floor" -> RetentionFloorHandlers
      [] p = "webhook-max-attempts" -> WebhookMaxAttemptsHandlers
      [] p = "webhook-auto-disable" -> WebhookAutoDisableHandlers
      [] p = "budget" -> BudgetHandlers
      [] p = "pat-min-requirements" -> PatMinRequirementsHandlers
      [] p = "system-use-notification" -> SystemUseNotificationHandlers
      [] p = "delivery-rate-card" -> DeliveryRateCardHandlers
      [] OTHER -> DpaHandlers ]
Handlers == HandlersOf[page]

Controls ==
    CASE page = "match-topk" -> MatchTopKControls(ui)
      [] page = "match-duration" -> MatchDurationControls(ui)
      [] page = "pat-concurrency" -> PatConcurrencyControls(ui)
      [] page = "webhook-delivery-rate" -> WebhookDeliveryRateControls(ui)
      [] page = "webhook-destination-cap" -> WebhookDestinationCapControls(ui)
      [] page = "pat-secret-prefix" -> PatSecretPrefixControls(ui)
      [] page = "scope-policy" -> ScopePolicyControls(ui)
      [] page = "auth-methods" -> AuthMethodsControls(ui)
      [] page = "pat-expiry-warning" -> PatExpiryWarningControls(ui)
      [] page = "scim-token-rotation" -> ScimTokenRotationControls(ui)
      [] page = "webhook-secret-rotation" -> WebhookSecretRotationControls(ui)
      [] page = "seat-limit" -> SeatLimitControls(ui)
      [] page = "quotas" -> QuotasControls(ui)
      [] page = "residency" -> ResidencyControls(ui)
      [] page = "classification" -> ClassificationControls(ui)
      [] page = "webhook-policy" -> WebhookPolicyControls(ui)
      [] page = "webhook-destinations" -> WebhookDestinationsControls(ui)
      [] page = "retention" -> RetentionControls(ui)
      [] page = "workspace-closure" -> WorkspaceClosureControls(ui)
      [] page = "webhook-egress" -> WebhookEgressControls(ui)
      [] page = "body-size" -> BodySizeControls(ui)
      [] page = "retention-floor" -> RetentionFloorControls(ui)
      [] page = "webhook-max-attempts" -> WebhookMaxAttemptsControls(ui)
      [] page = "webhook-auto-disable" -> WebhookAutoDisableControls(ui)
      [] page = "budget" -> BudgetControls(ui)
      [] page = "pat-min-requirements" -> PatMinRequirementsControls(ui)
      [] page = "system-use-notification" -> SystemUseNotificationControls(ui)
      [] page = "delivery-rate-card" -> DeliveryRateCardControls(ui)
      [] OTHER -> DpaControls(ui)

(***************************************************************************)
(* Requests. A handler that awaits its answer is marked by "awaited": it   *)
(* clears the busy flag when it ends. An answer to an earlier mount finds  *)
(* no component and changes nothing.                                       *)
(***************************************************************************)
Request(op, val, informed, m, awaited) ==
    [op |-> op, val |-> val, informed |-> informed, mount |-> m, awaited |-> awaited,
     answer |-> Pending]
Get(m, awaited) == Request("get", Off, FALSE, m, awaited)

HasRoom == Len(net) < MaxFlight
Mine(m) == m.mount = mount
Without(i) == [k \in 1 .. Len(net) - 1 |-> IF k < i THEN net[k] ELSE net[k + 1]]
Newest(a, b) == IF a > b THEN a ELSE b

\* The load function of the page, up to its fetch.
Loading(u) ==
    IF Handlers.blank THEN [u EXCEPT !.view = "loading", !.data = NoDoc]
                      ELSE [u EXCEPT !.view = "loading"]

\* ... and after it: the document is shown and the fields are seeded.
Seed(d) == IF d.val = Off /\ d.ver \in Handlers.falls THEN Default ELSE d.val
Shown(u, d) ==
    [u EXCEPT !.view = "ready", !.data = d, !.draft = Seed(d),
              !.edited = FALSE]

\* A save that adopts its answer.
Adopted_NotShown(u, d) == [u EXCEPT !.draft = d.val, !.edited = FALSE]
Adopted(u, d) ==
    LET v == [u EXCEPT !.data = d,
                       !.view = IF Handlers.blank THEN "ready" ELSE @]
    IN  IF Handlers.reseeds THEN [v EXCEPT !.draft = d.val, !.edited = FALSE]
                            ELSE v

\* How a write ended, and what the page tells of it.
Ended_Silently(u, answer) ==
    [u EXCEPT !.wrote = IF Ok(answer) THEN "ok" ELSE answer.val]
Ended(u, answer) ==
    CASE Ok(answer) -> [u EXCEPT !.note = "ok", !.wrote = "ok"]
      [] answer = Lost /\ ~Handlers.catches -> [u EXCEPT !.wrote = "lost"]
      [] OTHER -> [u EXCEPT !.note = "error", !.wrote = answer.val]

Done_NoFinally(u) == IF u.note = "error" THEN u ELSE [u EXCEPT !.busy = "idle"]
Done(u) == [u EXCEPT !.busy = "idle"]

Fresh ==
    [ view |-> "loading", data |-> NoDoc, draft |-> Off, busy |-> "idle",
      note |-> "none",
      edited |-> FALSE,      \* history: typed in, and neither sent nor given
                             \* up for a value sent in its place
      wrote |-> "none" ]     \* history: how the last write of this mount ended

Init ==
    /\ page \in Pages
    /\ mount = 1
    /\ ui = Fresh
    /\ doc \in {[ver |-> 0, val |-> v] : v \in Vals}
    /\ net = <<Get(1, FALSE)>>
    /\ seen = 0
    /\ overtook = FALSE

(***************************************************************************)
(* The administrator.                                                      *)
(***************************************************************************)
Edit ==
    /\ "edit" \in Controls
    /\ \E v \in (Vals \union {Bad}) \ {ui.draft} :
          /\ Handlers.clamps => v # Bad
          /\ ui' = [ui EXCEPT !.draft = v, !.edited = TRUE]
    /\ UNCHANGED <<page, mount, doc, net, seen, overtook>>

Submit(op, kind, v, u) ==
    /\ HasRoom
    /\ ui' = [u EXCEPT !.busy = op, !.note = "none", !.wrote = "none",
                       !.edited = @ /\ kind = "run"]
    /\ net' = Append(net, Request(kind, v, ui.data # NoDoc, mount, TRUE))
    /\ UNCHANGED <<page, mount, doc, seen, overtook>>

Refused ==
    \/ Handlers.checks /\ ui.draft = Bad
    \/ Handlers.empties /\ ~Differs(ui)

Save ==
    /\ "save" \in Controls
    /\ \/ /\ Refused
          /\ ui' = [ui EXCEPT !.note = "error"]
          /\ UNCHANGED <<page, mount, doc, net, seen, overtook>>
       \/ /\ ~Refused
          /\ Submit("save", "put", ui.draft,
                    IF Handlers.empties THEN [ui EXCEPT !.draft = Off] ELSE ui)

Clear ==
    /\ "clear" \in Controls
    /\ Submit("clear", "put", Handlers.clearTo,
              IF Handlers.resets
              THEN [ui EXCEPT !.draft = Handlers.clearTo] ELSE ui)

Preset ==
    \E v \in Vals :
        /\ (IF v = ui.data.val THEN "again" ELSE "preset") \in Controls
        /\ Submit("preset", "put", v, ui)

Run == "run" \in Controls /\ Submit("run", "run", Off, ui)

Discard ==
    /\ "discard" \in Controls
    /\ ui' = [ui EXCEPT !.draft = ui.data.val, !.edited = FALSE,
                        !.note = IF @ = "error" THEN "none" ELSE @,
                        !.wrote = "none"]
    /\ UNCHANGED <<page, mount, doc, net, seen, overtook>>

Reload ==
    /\ HasRoom
    /\ ui' = Loading(ui)
    /\ net' = Append(net, Get(mount, FALSE))
    /\ UNCHANGED <<page, mount, doc, seen, overtook>>

Refresh == "reload" \in Controls /\ Reload

\* The effect that loads the page runs again.
Rekey == Handlers.rekeys /\ Reload

\* The administrator leaves the page and comes back.
Remount ==
    /\ mount < MaxMount /\ HasRoom
    /\ mount' = mount + 1
    /\ ui' = Fresh
    /\ net' = Append(net, Get(mount + 1, FALSE))
    /\ seen' = 0
    /\ overtook' = FALSE
    /\ UNCHANGED <<page, doc>>

(***************************************************************************)
(* The server, another administrator, and the network.                     *)
(***************************************************************************)
Wrote(v) == [ver |-> doc.ver + 1, val |-> v]

OtherAdmin ==
    /\ doc.ver < MaxVer
    /\ \E v \in Vals : doc' = Wrote(v)
    /\ UNCHANGED <<page, mount, ui, net, seen, overtook>>

\* The server answers request i, or the network loses the request or the
\* answer. A write that is lost may have taken effect.
Answer(i) ==
    /\ i \in DOMAIN net /\ net[i].answer = Pending
    /\ \/ /\ net[i].op = "put" /\ net[i].val \in Vals /\ doc.ver < MaxVer
          /\ doc' = Wrote(net[i].val)
          /\ \E a \in {doc', Lost} : net' = [net EXCEPT ![i].answer = a]
       \/ /\ net[i].op # "put"
          /\ net' = [net EXCEPT ![i].answer = doc]
          /\ UNCHANGED doc
       \/ /\ \E a \in Errors : net' = [net EXCEPT ![i].answer = a]
          /\ UNCHANGED doc
    /\ overtook' =
          \/ overtook
          \/ Mine(net[i]) /\ \E j \in 1 .. i - 1 :
                Mine(net[j]) /\ net[j].answer = Pending
    /\ UNCHANGED <<page, mount, ui, seen>>

Deliver(i) ==
    /\ i \in DOMAIN net /\ net[i].answer # Pending
    /\ LET m == net[i]
           ok == Ok(m.answer)
           again == /\ ok
                    /\ \/ m.op = "put" /\ Handlers.then = "reload"
                       \/ m.op = "run" /\ Handlers.rereads
       IN  IF Mine(m)
           THEN /\ overtook' = (overtook \/ \E j \in 1 .. i - 1 : Mine(net[j]))
                /\ seen' = IF ok /\ m.op # "run"
                           THEN Newest(seen, m.answer.ver) ELSE seen
                /\ net' = IF again THEN Append(Without(i), Get(mount, TRUE))
                                   ELSE Without(i)
                /\ ui' = CASE again -> Loading(Ended(ui, m.answer))
                           [] m.op = "get" ->
                                LET u == IF m.awaited THEN Done(ui) ELSE ui
                                IN  IF ok THEN Shown(u, m.answer)
                                          ELSE [u EXCEPT !.view = "error"]
                           [] m.op = "put" /\ ok /\ ~again ->
                                Done(Ended(Adopted(ui, m.answer), m.answer))
                           [] OTHER -> Done(Ended(ui, m.answer))
           ELSE net' = Without(i) /\ UNCHANGED <<ui, seen, overtook>>
    /\ UNCHANGED <<page, mount, doc>>

Next ==
    \/ Edit \/ Save \/ Clear \/ Preset \/ Run \/ Discard
    \/ Refresh \/ Rekey \/ Remount \/ OtherAdmin
    \/ \E i \in 1 .. MaxFlight : Answer(i) \/ Deliver(i)

Fairness ==
    \A i \in 1 .. MaxFlight : WF_vars(Answer(i)) /\ WF_vars(Deliver(i))

Spec == Init /\ [][Next]_vars /\ Fairness

-----------------------------------------------------------------------------
Requests ==
    [ op : {"get", "put", "run"}, val : Vals \union {Bad},
      informed : BOOLEAN, mount : 1 .. MaxMount, awaited : BOOLEAN,
      answer : Docs \union Errors \union {Pending} ]

Hooks ==
    [ view : {"loading", "error", "ready"}, data : Docs \union {NoDoc},
      draft : Vals \union {Bad},
      busy : {"idle", "save", "clear", "preset", "run"},
      note : {"none", "ok", "error"},
      edited : BOOLEAN, wrote : {"none", "ok", "failed", "lost"} ]

\* Types: the hooks, the document and the requests have the shapes above, and
\* no more than MaxFlight requests are in flight.
PolicyTypeOK ==
    /\ page \in Pages /\ mount \in 1 .. MaxMount
    /\ ui \in Hooks /\ doc \in Docs
    /\ net \in Seq(Requests) /\ Len(net) <= MaxFlight
    /\ seen \in 0 .. MaxVer /\ overtook \in BOOLEAN

\* No write is sent from a form that holds no document: after a failed load,
\* or while a reload is under way, the defaults the fields start with never
\* reach the server as if an administrator had chosen them. It takes the JSX,
\* the load function and the handlers together.
NoBlindSave ==
    \A i \in DOMAIN net : net[i].op # "get" => net[i].informed

\* A page has one write in flight, however its reloads, a change of the API
\* key and the answers fall: the busy flag is cleared by the handler that set
\* it and by no other. The page of the agreement disables each button by its
\* own action only and is the exception.
OneWriteAtATime ==
    page # "dpa" =>
        \A i, j \in DOMAIN net :
            /\ i # j
            /\ Mine(net[i]) /\ Mine(net[j])
            => net[i].op = "get" \/ net[j].op = "get"

\* As long as answers arrive in the order the requests were sent, a page does
\* not show an older document than one an answer told it of: not after its
\* own save, nor after the second load of a mount.
InOrderNeverOlder ==
    ~overtook /\ ui.view = "ready" => ui.data.ver >= seen

\* A write that failed is not silent, except that these pages have no catch
\* for a request that got no answer at all.
Silent ==
    {"match-topk", "match-duration", "pat-concurrency",
     "webhook-delivery-rate", "webhook-destination-cap", "pat-secret-prefix",
     "scope-policy", "auth-methods", "webhook-policy", "retention"}
FailedWriteShown ==
    ui.wrote \in {"failed", "lost"} /\ Idle(ui) =>
        \/ ui.note = "error"
        \/ ui.wrote = "lost" /\ page \in Silent

\* What an administrator has typed since the last write is not replaced by
\* an answer on the forms below, which disable their fields or leave them
\* alone. It is on the settings pages, whose fields stay enabled while a save
\* or a second load is under way, and on system-use-notification, where
\* acknowledging the banner sends nothing of the draft and then loads the
\* document over it.
Guarded ==
    {"body-size", "retention-floor", "webhook-max-attempts",
     "webhook-auto-disable", "budget", "pat-min-requirements"}
EditsSurvive ==
    [][ \A i \in 1 .. MaxFlight :
          page \in Guarded /\ Deliver(i) /\ ui.edited => ui'.draft = ui.draft
      ]_vars

\* A page does not stay busy: whatever becomes of the request, the controls
\* come back.
BusyEnds == ui.busy # "idle" ~> ui.busy = "idle"
=============================================================================
