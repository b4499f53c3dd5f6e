------------------------- MODULE PolicyPagesProofs -------------------------
(***************************************************************************)
(* The safety properties of PolicyPages, for every set of pages and every  *)
(* number of writes, mounts and requests in flight.                        *)
(***************************************************************************)
EXTENDS PolicyPages, TLAPS

\* Controls that send a write, or a POST.
WriteOps == {"save", "clear", "preset", "run"}
WriteControls == WriteOps \union {"again"}

HandlerRecords ==
    [ blank : BOOLEAN, rekeys : BOOLEAN, then : {"reload", "adopt"},
      reseeds : BOOLEAN, catches : BOOLEAN, checks : BOOLEAN,
      clamps : BOOLEAN, resets : BOOLEAN, empties : BOOLEAN,
      clearTo : Vals, falls : SUBSET (0 .. MaxVer), rereads : BOOLEAN ]

(***************************************************************************)
(* Facts about the pages, one case per page.                               *)
(***************************************************************************)
\* The handlers of every page are described by a record of this shape, and
\* those without a catch are the silent pages.
LEMMA HandlersTyped ==
  \A p \in Pages : /\ HandlersOf[p] \in HandlerRecords
                   /\ ~HandlersOf[p].catches => p \in Silent
<1>1. SettingsForm \in HandlerRecords /\ ~SettingsForm.catches
  BY DEF SettingsForm, HandlerRecords, Vals
<1>v. 0 \in 0 .. MaxVer /\ {0} \in SUBSET (0 .. MaxVer)
  BY PolicyAssumption
<1>2. AdminForm \in HandlerRecords /\ AdminForm.catches
  BY <1>1 DEF AdminForm, HandlerRecords
<1>3. /\ MatchTopKHandlers \in HandlerRecords
      /\ WebhookDeliveryRateHandlers \in HandlerRecords
      /\ WebhookDestinationCapHandlers \in HandlerRecords
      /\ PatSecretPrefixHandlers \in HandlerRecords
      /\ ScopePolicyHandlers \in HandlerRecords
      /\ AuthMethodsHandlers \in HandlerRecords
      /\ WebhookPolicyHandlers \in HandlerRecords
      /\ RetentionHandlers \in HandlerRecords
  BY <1>1 DEF HandlerRecords, Vals, Default, MatchTopKHandlers,
     WebhookDeliveryRateHandlers, WebhookDestinationCapHandlers,
     PatSecretPrefixHandlers, ScopePolicyHandlers, AuthMethodsHandlers,
     WebhookPolicyHandlers, RetentionHandlers
<1>4. /\ PatExpiryWarningHandlers \in HandlerRecords /\ PatExpiryWarningHandlers.catches
      /\ SeatLimitHandlers \in HandlerRecords /\ SeatLimitHandlers.catches
      /\ QuotasHandlers \in HandlerRecords /\ QuotasHandlers.catches
      /\ WebhookDestinationsHandlers \in HandlerRecords /\ WebhookDestinationsHandlers.catches
      /\ WorkspaceClosureHandlers \in HandlerRecords /\ WorkspaceClosureHandlers.catches
      /\ WebhookEgressHandlers \in HandlerRecords /\ WebhookEgressHandlers.catches
  BY <1>1 DEF HandlerRecords, PatExpiryWarningHandlers, SeatLimitHandlers,
     QuotasHandlers, WebhookDestinationsHandlers, WorkspaceClosureHandlers,
     WebhookEgressHandlers
<1>5. /\ BodySizeHandlers \in HandlerRecords /\ BodySizeHandlers.catches
      /\ RetentionFloorHandlers \in HandlerRecords /\ RetentionFloorHandlers.catches
      /\ WebhookMaxAttemptsHandlers \in HandlerRecords /\ WebhookMaxAttemptsHandlers.catches
      /\ BudgetHandlers \in HandlerRecords /\ BudgetHandlers.catches
      /\ PatMinRequirementsHandlers \in HandlerRecords /\ PatMinRequirementsHandlers.catches
      /\ SystemUseNotificationHandlers \in HandlerRecords
      /\ SystemUseNotificationHandlers.catches
      /\ DpaHandlers \in HandlerRecords /\ DpaHandlers.catches
      /\ DeliveryRateCardHandlers \in HandlerRecords /\ DeliveryRateCardHandlers.catches
  BY <1>2, <1>v DEF HandlerRecords, BodySizeHandlers, RetentionFloorHandlers,
     WebhookMaxAttemptsHandlers, BudgetHandlers, PatMinRequirementsHandlers,
     SystemUseNotificationHandlers, DpaHandlers, DeliveryRateCardHandlers
<1> QED
  BY <1>3, <1>4, <1>5 DEF HandlersOf, Silent, MatchDurationHandlers,
     PatConcurrencyHandlers, ScimTokenRotationHandlers,
     WebhookSecretRotationHandlers, ResidencyHandlers, ClassificationHandlers,
     WebhookAutoDisableHandlers

\* A set of controls that offers a write only if the form is ready and, or
\* does not ask whether, nothing is under way.
WhenReady(S) == \A op \in S \intersect WriteControls : Ready(ui)
WhenIdle(S) == \A op \in S \intersect WriteControls : Ready(ui) /\ Idle(ui)

\* A write is offered only by a form that is ready, and, but for the
\* agreement, only while none is under way.
LEMMA WriteControlled ==
  ASSUME page \in Pages
  PROVE  WhenReady(Controls) /\ (page # "dpa" => WhenIdle(Controls))
<1>1. /\ WhenIdle(MatchTopKControls(ui)) /\ WhenIdle(WebhookDeliveryRateControls(ui))
      /\ WhenIdle(WebhookDestinationCapControls(ui))
      /\ WhenIdle(PatSecretPrefixControls(ui))
      /\ WhenIdle(ScopePolicyControls(ui)) /\ WhenIdle(AuthMethodsControls(ui))
  BY DEF WhenIdle, WriteControls, WriteOps, When, MatchTopKControls,
     WebhookDeliveryRateControls, WebhookDestinationCapControls,
     PatSecretPrefixControls, ScopePolicyControls, AuthMethodsControls
<1>2. /\ WhenIdle(PatExpiryWarningControls(ui)) /\ WhenIdle(SeatLimitControls(ui))
      /\ WhenIdle(QuotasControls(ui)) /\ WhenIdle(WebhookPolicyControls(ui))
      /\ WhenIdle(WebhookDestinationsControls(ui)) /\ WhenIdle(RetentionControls(ui))
      /\ WhenIdle(WorkspaceClosureControls(ui)) /\ WhenIdle(WebhookEgressControls(ui))
  BY DEF WhenIdle, WriteControls, WriteOps, When, Retry, PatExpiryWarningControls,
     SeatLimitControls, QuotasControls, WebhookPolicyControls,
     WebhookDestinationsControls, RetentionControls, WorkspaceClosureControls,
     WebhookEgressControls
<1>3. /\ WhenIdle(BodySizeControls(ui)) /\ WhenIdle(RetentionFloorControls(ui))
      /\ WhenIdle(WebhookMaxAttemptsControls(ui)) /\ WhenIdle(BudgetControls(ui))
      /\ WhenIdle(PatMinRequirementsControls(ui))
      /\ WhenIdle(SystemUseNotificationControls(ui))
      /\ WhenIdle(DeliveryRateCardControls(ui)) /\ WhenReady(DpaControls(ui))
  BY DEF WhenIdle, WhenReady, WriteControls, WriteOps, When, Retry,
     BodySizeControls, RetentionFloorControls, WebhookMaxAttemptsControls,
     BudgetControls, PatMinRequirementsControls, SystemUseNotificationControls,
     DeliveryRateCardControls, DpaControls
<1>4. page # "dpa" => WhenIdle(Controls)
  BY <1>1, <1>2, <1>3, PolicyAssumption DEF PageNames, Controls, MatchDurationControls,
     PatConcurrencyControls, ScimTokenRotationControls,
     WebhookSecretRotationControls, ResidencyControls, ClassificationControls,
     WebhookAutoDisableControls
<1>5. page = "dpa" => WhenReady(Controls)
  BY <1>3 DEF Controls
<1> QED
  BY <1>4, <1>5 DEF WhenReady, WhenIdle

(***************************************************************************)
(* The requests in flight.                                                 *)
(***************************************************************************)
\* Where the request at place k was before request i was taken out.
Place(k, i) == IF k < i THEN k ELSE k + 1

\* Taking a request out keeps the others, in their order.
LEMMA WithoutOne ==
  ASSUME NEW S, net \in Seq(S), NEW i \in DOMAIN net
  PROVE  /\ Without(i) \in Seq(S)
         /\ Len(Without(i)) = Len(net) - 1
         /\ DOMAIN Without(i) = 1 .. Len(net) - 1
         /\ \A k \in DOMAIN Without(i) :
               /\ Place(k, i) \in DOMAIN net \ {i}
               /\ Without(i)[k] = net[Place(k, i)]
               /\ \A j \in DOMAIN Without(i) : j < k => Place(j, i) < Place(k, i)
<1>1. DOMAIN net = 1 .. Len(net) /\ Len(net) \in Nat /\ Len(net) > 0
  OBVIOUS
<1>2. \A k \in 1 .. Len(net) - 1 :
         /\ Place(k, i) \in DOMAIN net \ {i}
         /\ \A j \in 1 .. Len(net) - 1 : j < k => Place(j, i) < Place(k, i)
  BY <1>1 DEF Place
<1>3. Without(i) = [k \in 1 .. Len(net) - 1 |-> net[Place(k, i)]]
  BY DEF Without, Place
<1>4. \A k \in 1 .. Len(net) - 1 : net[Place(k, i)] \in S
  BY <1>1, <1>2
<1>5. Len(net) - 1 \in Nat
  BY <1>1
<1>6. Without(i) \in [1 .. Len(net) - 1 -> S]
  BY <1>3, <1>4
<1>7. Without(i) \in Seq(S) /\ Len(Without(i)) = Len(net) - 1
  BY <1>5, <1>6
<1> QED
  BY <1>2, <1>3, <1>7

(***************************************************************************)
(* Types.                                                                  *)
(***************************************************************************)
\* What the handlers write into the hooks has the right shape.
LEMMA HooksTyped ==
  ASSUME page \in Pages, NEW u \in Hooks
  PROVE  /\ Loading(u) \in Hooks /\ Done(u) \in Hooks
         /\ \A d \in Docs : Shown(u, d) \in Hooks /\ Adopted(u, d) \in Hooks
         /\ \A a \in Docs \union Errors : Ended(u, a) \in Hooks
<1>1. Handlers \in HandlerRecords
  BY HandlersTyped DEF Handlers
<1>2. NoDoc \in Docs \union {NoDoc}
  OBVIOUS
<1>3. Loading(u) \in Hooks /\ Done(u) \in Hooks
  BY <1>1, <1>2 DEF Loading, Done, Hooks, HandlerRecords
<1>4. ASSUME NEW d \in Docs
      PROVE  Shown(u, d) \in Hooks /\ Adopted(u, d) \in Hooks
  <2>1. d.val \in Vals /\ Seed(d) \in Vals
    BY DEF Docs, Seed, Vals
  <2>2. Shown(u, d) \in Hooks
    BY <2>1 DEF Shown, Hooks
  <2>3. Adopted(u, d) \in Hooks
    BY <1>1, <2>1 DEF Adopted, Hooks, HandlerRecords
  <2> QED
    BY <2>2, <2>3
<1>5. ASSUME NEW a \in Docs \union Errors
      PROVE  Ended(u, a) \in Hooks
  <2>1. Ok(a) \/ a.val \in {"failed", "lost"}
    BY DEF Ok, Errors, Failed, Lost
  <2> QED
    BY <2>1 DEF Ended, Hooks
<1> QED
  BY <1>3, <1>4, <1>5

\* A new request has the right shape.
LEMMA RequestTyped ==
  ASSUME NEW op \in {"get", "put", "run"}, NEW v \in Vals \union {Bad},
         NEW k \in BOOLEAN, NEW m \in 1 .. MaxMount, NEW w \in BOOLEAN
  PROVE  Request(op, v, k, m, w) \in Requests
  BY DEF Request, Requests

\* There is room for one more request.
LEMMA AppendTyped ==
  ASSUME NEW s \in Seq(Requests), NEW r \in Requests
  PROVE  /\ Append(s, r) \in Seq(Requests)
         /\ Len(Append(s, r)) = Len(s) + 1
         /\ Len(s) < MaxFlight => Len(Append(s, r)) <= MaxFlight
  BY PolicyAssumption

\* A single request is a sequence of requests.
LEMMA FirstTyped ==
  ASSUME NEW r \in Requests
  PROVE  <<r>> \in Seq(Requests) /\ Len(<<r>>) = 1
  OBVIOUS

\* The initial state has the types.
LEMMA TypeInit == Init => PolicyTypeOK
<1> SUFFICES ASSUME Init PROVE PolicyTypeOK
  OBVIOUS
<1>1. 1 \in 1 .. MaxMount /\ 1 <= MaxFlight /\ 0 \in 0 .. MaxVer
  BY PolicyAssumption
<1>2. Get(1, FALSE) \in Requests
  BY <1>1 DEF Get, Request, Requests, Vals
<1>3. net \in Seq(Requests) /\ Len(net) = 1
  BY <1>2, FirstTyped DEF Init
<1>4. ui \in Hooks
  BY DEF Init, Fresh, Hooks, Vals
<1>5. doc \in Docs
  BY <1>1 DEF Init, Docs
<1> QED
  BY <1>1, <1>3, <1>4, <1>5 DEF Init, PolicyTypeOK

\* A click that sends a request.
LEMMA TypeSubmit ==
  ASSUME PolicyTypeOK,
         NEW op \in WriteOps, NEW kind \in {"put", "run"},
         NEW v \in Vals \union {Bad}, NEW u \in Hooks, Submit(op, kind, v, u)
  PROVE  PolicyTypeOK'
<1>1. ui' \in Hooks
  BY DEF Submit, Hooks, WriteOps
<1>2. Request(kind, v, ui.data # NoDoc, mount, TRUE) \in Requests
  BY RequestTyped DEF PolicyTypeOK
<1>3. net' \in Seq(Requests) /\ Len(net') <= MaxFlight
  BY <1>2, AppendTyped DEF Submit, PolicyTypeOK, HasRoom
<1> QED
  BY <1>1, <1>3 DEF Submit, PolicyTypeOK

\* A load that nothing awaits.
LEMMA TypeReload ==
  ASSUME PolicyTypeOK, Reload
  PROVE  PolicyTypeOK'
<1>1. ui' \in Hooks
  BY HooksTyped DEF Reload, PolicyTypeOK
<1>2. Get(mount, FALSE) \in Requests
  BY DEF PolicyTypeOK, Get, Request, Requests, Vals
<1>3. net' \in Seq(Requests) /\ Len(net') <= MaxFlight
  BY <1>2, AppendTyped DEF Reload, PolicyTypeOK, HasRoom
<1> QED
  BY <1>1, <1>3 DEF Reload, PolicyTypeOK

\* What is answered is a document or an error.
LEMMA AnsweredTyped ==
  ASSUME PolicyTypeOK, NEW i \in DOMAIN net, net[i].answer # Pending
  PROVE  /\ net[i] \in Requests
         /\ net[i].answer \in Docs \union Errors
         /\ Ok(net[i].answer) => net[i].answer \in Docs
<1>1. net[i] \in Requests
  BY DEF PolicyTypeOK
<1> QED
  BY <1>1 DEF Requests, Ok

\* The delivery of an answer.
LEMMA TypeDeliver ==
  ASSUME PolicyTypeOK, NEW i \in 1 .. MaxFlight, Deliver(i)
  PROVE  PolicyTypeOK'
<1> DEFINE m == net[i]
<1>1. i \in DOMAIN net /\ m \in Requests /\ m.answer \in Docs \union Errors
      /\ (Ok(m.answer) => m.answer \in Docs)
  BY AnsweredTyped DEF Deliver
<1>2. Without(i) \in Seq(Requests) /\ Len(Without(i)) = Len(net) - 1
  BY <1>1, WithoutOne DEF PolicyTypeOK
<1>3. Get(mount, TRUE) \in Requests
  BY DEF PolicyTypeOK, Get, Request, Requests, Vals
<1>4. net' \in Seq(Requests) /\ Len(net') <= MaxFlight
  <2>1. net' = Without(i) \/ net' = Append(Without(i), Get(mount, TRUE))
    BY DEF Deliver
  <2>2. Len(net) \in Nat /\ Len(net) <= MaxFlight /\ MaxFlight \in Nat
    BY PolicyAssumption DEF PolicyTypeOK
  <2>3. Len(Without(i)) < MaxFlight
    BY <1>2, <2>2
  <2> QED
    <3>1. Without(i) \in Seq(Requests) /\ Len(Without(i)) <= MaxFlight
      BY <1>2, <2>2
    <3>2. LET s == Append(Without(i), Get(mount, TRUE))
          IN  s \in Seq(Requests) /\ Len(s) <= MaxFlight
      BY <1>2, <1>3, <2>3, AppendTyped
    <3> QED
      BY <2>1, <3>1, <3>2
<1>5. ui' \in Hooks
  <2>1. /\ Ended(ui, m.answer) \in Hooks
        /\ Loading(Ended(ui, m.answer)) \in Hooks
        /\ Done(Ended(ui, m.answer)) \in Hooks
        /\ Done(ui) \in Hooks /\ ui \in Hooks
    BY <1>1, HooksTyped DEF PolicyTypeOK
  <2>2. Ok(m.answer) => /\ Shown(ui, m.answer) \in Hooks
                        /\ Shown(Done(ui), m.answer) \in Hooks
                        /\ Done(Ended(Adopted(ui, m.answer), m.answer)) \in Hooks
    BY <1>1, <2>1, HooksTyped DEF PolicyTypeOK
  <2>3. \A u \in Hooks : [u EXCEPT !.view = "error"] \in Hooks
    BY DEF Hooks
  <2> QED
    BY <2>1, <2>2, <2>3 DEF Deliver
<1>6. seen' \in 0 .. MaxVer
  <2>1. Ok(m.answer) => m.answer.ver \in 0 .. MaxVer
    BY <1>1 DEF Docs
  <2> QED
    BY <2>1 DEF Deliver, Newest, PolicyTypeOK
<1>7. overtook' \in BOOLEAN
  BY DEF Deliver, PolicyTypeOK
<1> QED
  BY <1>4, <1>5, <1>6, <1>7 DEF Deliver, PolicyTypeOK

\* The server answers.
LEMMA TypeAnswer ==
  ASSUME PolicyTypeOK, NEW i \in 1 .. MaxFlight, Answer(i)
  PROVE  PolicyTypeOK'
<1>1. i \in DOMAIN net /\ net[i] \in Requests
  BY DEF Answer, PolicyTypeOK
<1>2. doc' \in Docs
  <2>1. ASSUME doc.ver < MaxVer, NEW v \in Vals PROVE Wrote(v) \in Docs
    <3>1. doc.ver \in 0 .. MaxVer /\ MaxVer \in Nat
      BY PolicyAssumption DEF PolicyTypeOK, Docs
    <3>2. doc.ver + 1 \in 0 .. MaxVer
      BY <2>1, <3>1
    <3> QED
      BY <3>2 DEF Wrote, Docs
  <2> QED
    BY <2>1 DEF Answer, PolicyTypeOK
<1>3. \E a \in Docs \union Errors : net' = [net EXCEPT ![i].answer = a]
  BY <1>2 DEF Answer, Errors, PolicyTypeOK
<1>4. \A a \in Docs \union Errors : [net[i] EXCEPT !.answer = a] \in Requests
  BY <1>1 DEF Requests
<1>5. net' \in Seq(Requests) /\ Len(net') <= MaxFlight
  <2>1. PICK a \in Docs \union Errors : net' = [net EXCEPT ![i].answer = a]
    BY <1>3
  <2>2. net' = [net EXCEPT ![i] = [net[i] EXCEPT !.answer = a]]
    BY <2>1
  <2> DEFINE r == [net[i] EXCEPT !.answer = a]
  <2>3. r \in Requests
    BY <1>4
  <2> HIDE DEF r
  <2>4. [net EXCEPT ![i] = r] \in Seq(Requests) /\ Len([net EXCEPT ![i] = r]) = Len(net)
    BY <1>1, <2>3 DEF PolicyTypeOK
  <2> QED
    BY <2>2, <2>4 DEF PolicyTypeOK, r
<1>6. overtook' \in BOOLEAN
  BY DEF Answer, PolicyTypeOK
<1> QED
  BY <1>2, <1>5, <1>6 DEF Answer, PolicyTypeOK

\* Every step preserves the types.
LEMMA TypeStep == PolicyTypeOK /\ [Next]_vars => PolicyTypeOK'
<1> SUFFICES ASSUME PolicyTypeOK, [Next]_vars
             PROVE  PolicyTypeOK'
  OBVIOUS
<1>0. Handlers \in HandlerRecords
  BY HandlersTyped DEF Handlers, PolicyTypeOK
<1>1. CASE Edit
  BY <1>1 DEF Edit, PolicyTypeOK, Hooks
<1>2. CASE Save
  <2>1. CASE Refused /\ ui' = [ui EXCEPT !.note = "error"]
             /\ UNCHANGED <<page, mount, doc, net, seen, overtook>>
    BY <2>1 DEF PolicyTypeOK, Hooks
  <2>2. CASE Submit("save", "put", ui.draft,
                    IF Handlers.empties THEN [ui EXCEPT !.draft = Off] ELSE ui)
    <3>1. (IF Handlers.empties THEN [ui EXCEPT !.draft = Off] ELSE ui) \in Hooks
      BY DEF PolicyTypeOK, Hooks, Vals
    <3>2. ui.draft \in Vals \union {Bad}
      BY DEF PolicyTypeOK, Hooks
    <3> QED
      BY <2>2, <3>1, <3>2, TypeSubmit DEF WriteOps
  <2> QED
    BY <1>2, <2>1, <2>2 DEF Save
<1>3. CASE Clear
  <2>1. Handlers.clearTo \in Vals
    BY <1>0 DEF HandlerRecords
  <2>2. (IF Handlers.resets THEN [ui EXCEPT !.draft = Handlers.clearTo] ELSE ui) \in Hooks
    BY <2>1 DEF PolicyTypeOK, Hooks
  <2> QED
    BY <1>3, <2>1, <2>2, TypeSubmit DEF Clear, WriteOps
<1>4. CASE Preset
  BY <1>4, TypeSubmit DEF Preset, WriteOps, PolicyTypeOK
<1>5. CASE Run
  BY <1>5, TypeSubmit DEF Run, WriteOps, PolicyTypeOK, Vals
<1>6. CASE Discard
  <2>1. ui.data.val \in Vals \union {Bad}
    BY DEF PolicyTypeOK, Hooks, Docs, NoDoc
  <2>2. ui' \in Hooks
    BY <1>6, <2>1 DEF Discard, PolicyTypeOK, Hooks
  <2> QED
    BY <1>6, <2>2 DEF Discard, PolicyTypeOK
<1>7. CASE Refresh \/ Rekey
  BY <1>7, TypeReload DEF Refresh, Rekey
<1>8. CASE Remount
  <2>1. mount' \in 1 .. MaxMount /\ 0 \in 0 .. MaxVer
    BY <1>8, PolicyAssumption DEF Remount, PolicyTypeOK
  <2>2. ui' \in Hooks
    BY <1>8 DEF Remount, Fresh, Hooks, Vals
  <2>3. Get(mount', FALSE) \in Requests
    BY <2>1 DEF Get, Request, Requests, Vals
  <2>4. net' \in Seq(Requests) /\ Len(net') <= MaxFlight
    BY <1>8, <2>3, AppendTyped DEF Remount, HasRoom, PolicyTypeOK
  <2> QED
    BY <1>8, <2>1, <2>2, <2>4 DEF Remount, PolicyTypeOK
<1>9. CASE OtherAdmin
  <2>1. doc.ver + 1 \in 0 .. MaxVer
    BY <1>9, PolicyAssumption DEF OtherAdmin, PolicyTypeOK, Docs
  <2>2. doc' \in Docs
    BY <1>9, <2>1 DEF OtherAdmin, Wrote, Docs
  <2> QED
    BY <1>9, <2>2 DEF OtherAdmin, PolicyTypeOK
<1>10. CASE \E i \in 1 .. MaxFlight : Answer(i) \/ Deliver(i)
  BY <1>10, TypeAnswer, TypeDeliver
<1>11. CASE UNCHANGED vars
  BY <1>11 DEF vars, PolicyTypeOK
<1> QED
  BY <1>1, <1>2, <1>3, <1>4, <1>5, <1>6, <1>7, <1>8, <1>9, <1>10, <1>11 DEF Next

\* Hooks, documents and requests keep their shape, and no more than
\* MaxFlight requests are in flight, on every page.
THEOREM TypeCorrect == Spec => []PolicyTypeOK
  BY TypeInit, TypeStep, PTL DEF Spec

(***************************************************************************)
(* The kinds of step, as the proofs below tell them apart.                 *)
(***************************************************************************)
\* Typing, or a click that sends nothing.
Locally ==
  /\ UNCHANGED <<page, mount, doc, net, seen, overtook>>
  /\ ui'.view = ui.view /\ ui'.data = ui.data /\ ui'.busy = ui.busy
  /\ ui'.wrote = "none" \/ (ui'.wrote = ui.wrote /\ ui'.note \in {ui.note, "error"})
  /\ ui'.edited => ui.edited \/ "edit" \in Controls

\* A click that sends a request.
Sent ==
  \E op \in WriteOps, kind \in {"put", "run"}, v \in Vals \union {Bad}, u \in Hooks :
     /\ Submit(op, kind, v, u)
     /\ op \in Controls \/ op = "preset"
     /\ op = "run" <=> kind = "run"
     /\ Ready(ui) /\ (page # "dpa" => Idle(ui))
     /\ u.view = ui.view /\ u.data = ui.data

\* Every step is one of these.
LEMMA StepKinds ==
  ASSUME PolicyTypeOK, [Next]_vars
  PROVE  \/ Locally \/ Sent \/ Remount \/ OtherAdmin
         \/ Reload /\ (Handlers.rekeys \/ "reload" \in Controls)
         \/ \E i \in 1 .. MaxFlight : Answer(i)
         \/ \E i \in 1 .. MaxFlight : Deliver(i)
<1>0. Handlers \in HandlerRecords /\ page \in Pages /\ ui \in Hooks
  BY HandlersTyped DEF Handlers, PolicyTypeOK
<1>a. \A op \in WriteControls : op \in Controls => Ready(ui) /\ (page # "dpa" => Idle(ui))
  BY <1>0, WriteControlled DEF WhenReady, WhenIdle
<1>1. CASE Edit
  BY <1>0, <1>1 DEF Edit, Locally, Hooks
<1>2. CASE Save
  <2>1. CASE Refused /\ ui' = [ui EXCEPT !.note = "error"]
             /\ UNCHANGED <<page, mount, doc, net, seen, overtook>>
    BY <1>0, <2>1 DEF Locally, Hooks
  <2>2. CASE Submit("save", "put", ui.draft,
                    IF Handlers.empties THEN [ui EXCEPT !.draft = Off] ELSE ui)
    <3> DEFINE u == IF Handlers.empties THEN [ui EXCEPT !.draft = Off] ELSE ui
    <3>1. u \in Hooks /\ u.view = ui.view /\ u.data = ui.data
      BY <1>0 DEF Hooks, Vals
    <3>2. ui.draft \in Vals \union {Bad}
      BY <1>0 DEF Hooks
    <3>3. "save" \in Controls /\ "save" \in WriteOps /\ "save" \in WriteControls
      BY <1>2 DEF Save, WriteOps, WriteControls
    <3> HIDE DEF u
    <3>4. Submit("save", "put", ui.draft, u)
      BY <2>2 DEF u
    <3> QED
      BY <1>a, <3>1, <3>2, <3>3, <3>4 DEF Sent
  <2> QED
    BY <1>2, <2>1, <2>2 DEF Save
<1>3. CASE Clear
  <2> DEFINE u == IF Handlers.resets THEN [ui EXCEPT !.draft = Handlers.clearTo] ELSE ui
  <2>1. Handlers.clearTo \in Vals
    BY <1>0 DEF HandlerRecords
  <2>2. u \in Hooks /\ u.view = ui.view /\ u.data = ui.data
    BY <1>0, <2>1 DEF Hooks
  <2>3. "clear" \in Controls /\ "clear" \in WriteOps /\ "clear" \in WriteControls
    BY <1>3 DEF Clear, WriteOps, WriteControls
  <2> HIDE DEF u
  <2>4. Submit("clear", "put", Handlers.clearTo, u)
    BY <1>3 DEF Clear, u
  <2> QED
    BY <1>a, <2>1, <2>2, <2>3, <2>4 DEF Sent
<1>4. CASE Preset
  <2>1. PICK v \in Vals : /\ (IF v = ui.data.val THEN "again" ELSE "preset") \in Controls
                          /\ Submit("preset", "put", v, ui)
    BY <1>4 DEF Preset
  <2>2. "preset" \in WriteOps /\ {"again", "preset"} \subseteq WriteControls
    BY DEF WriteOps, WriteControls
  <2> QED
    BY <1>0, <1>a, <2>1, <2>2 DEF Sent
<1>5. CASE Run
  <2>1. "run" \in Controls /\ "run" \in WriteOps /\ "run" \in WriteControls /\ Off \in Vals
    BY <1>5 DEF Run, WriteOps, WriteControls, Vals
  <2> QED
    BY <1>0, <1>5, <1>a, <2>1 DEF Run, Sent
<1>6. CASE Discard
  BY <1>0, <1>6 DEF Discard, Locally, Hooks
<1>7. CASE UNCHANGED vars
  BY <1>7 DEF vars, Locally
<1> QED
  BY <1>1, <1>2, <1>3, <1>4, <1>5, <1>6, <1>7 DEF Next, Refresh, Rekey

\* A delivery that ends in a load by the same handler.
Again(i) ==
  /\ Ok(net[i].answer)
  /\ \/ net[i].op = "put" /\ Handlers.then = "reload"
     \/ net[i].op = "run" /\ Handlers.rereads

\* The requests after an append.
LEMMA AfterAppend ==
  ASSUME NEW s \in Seq(Requests), NEW r \in Requests, NEW t, t = Append(s, r)
  PROVE  /\ DOMAIN t = DOMAIN s \union {Len(s) + 1}
         /\ Len(s) + 1 \notin DOMAIN s
         /\ \A k \in DOMAIN s : t[k] = s[k] /\ k < Len(s) + 1
         /\ t[Len(s) + 1] = r
  OBVIOUS

\* A load of this mount is a request.
LEMMA GetTyped ==
  ASSUME NEW m \in 1 .. MaxMount, NEW w \in BOOLEAN
  PROVE  /\ Get(m, w) \in Requests
         /\ Get(m, w).op = "get" /\ Get(m, w).mount = m /\ Get(m, w).awaited = w
         /\ Get(m, w).answer = Pending
  BY DEF Get, Request, Requests, Vals

\* What is left of the steps that add a request.
LEMMA AfterSend ==
  ASSUME PolicyTypeOK, Sent \/ Reload \/ Remount
  PROVE  \E r \in Requests :
            /\ r.answer = Pending
            /\ DOMAIN net' = DOMAIN net \union {Len(net) + 1}
            /\ Len(net) + 1 \notin DOMAIN net
            /\ \A k \in DOMAIN net : net'[k] = net[k] /\ k < Len(net) + 1
            /\ net'[Len(net) + 1] = r
            /\ Sent => /\ r.op # "get" /\ r.mount = mount /\ r.awaited
                       /\ r.informed = (ui.data # NoDoc)
            /\ Reload => r.op = "get" /\ r.mount = mount /\ ~r.awaited
            /\ Remount => r.op = "get" /\ r.mount = mount + 1 /\ ~r.awaited
<1> DEFINE r == net'[Len(net) + 1]
<1> DEFINE Added(x) == /\ DOMAIN net' = DOMAIN net \union {Len(net) + 1}
                       /\ Len(net) + 1 \notin DOMAIN net
                       /\ \A k \in DOMAIN net : net'[k] = net[k] /\ k < Len(net) + 1
                       /\ r = x /\ x \in Requests /\ x.answer = Pending
<1>0. net \in Seq(Requests) /\ mount \in 1 .. MaxMount
  BY DEF PolicyTypeOK
<1>1. \A x \in Requests : net' = Append(net, x) /\ x.answer = Pending => Added(x)
  BY <1>0, AfterAppend
<1> HIDE DEF r, Added
<1>2. ASSUME Sent
      PROVE  /\ r.op # "get" /\ r.mount = mount /\ r.awaited
             /\ r.informed = (ui.data # NoDoc) /\ Added(r)
  <2>1. PICK kind \in {"put", "run"}, v \in Vals \union {Bad} :
           net' = Append(net, Request(kind, v, ui.data # NoDoc, mount, TRUE))
    BY <1>2 DEF Sent, Submit
  <2> DEFINE x == Request(kind, v, ui.data # NoDoc, mount, TRUE)
  <2>2. /\ x \in Requests /\ x.op # "get" /\ x.mount = mount /\ x.awaited
        /\ x.informed = (ui.data # NoDoc) /\ x.answer = Pending
    BY <1>0 DEF Request, Requests
  <2> HIDE DEF x
  <2>3. Added(x)
    BY <1>1, <2>1, <2>2 DEF x
  <2> QED
    BY <2>2, <2>3 DEF Added
<1>3. ASSUME Reload
      PROVE  r.op = "get" /\ r.mount = mount /\ ~r.awaited /\ Added(r)
  <2>1. net' = Append(net, Get(mount, FALSE))
    BY <1>3 DEF Reload
  <2>2. Added(Get(mount, FALSE))
    BY <1>0, <1>1, <2>1, GetTyped
  <2> QED
    BY <1>0, <2>2, GetTyped DEF Added
<1>4. ASSUME Remount
      PROVE  r.op = "get" /\ r.mount = mount + 1 /\ ~r.awaited /\ Added(r)
  <2>1. net' = Append(net, Get(mount + 1, FALSE)) /\ mount + 1 \in 1 .. MaxMount
    BY <1>0, <1>4, PolicyAssumption DEF Remount
  <2>2. Added(Get(mount + 1, FALSE))
    BY <1>1, <2>1, GetTyped
  <2> QED
    BY <2>1, <2>2, GetTyped DEF Added
<1> QED
  BY <1>2, <1>3, <1>4 DEF Added, r

\* The requests after an answer: only the answer of one is new.
LEMMA AfterAnswer ==
  ASSUME PolicyTypeOK, NEW i, Answer(i)
  PROVE  /\ i \in DOMAIN net /\ DOMAIN net' = DOMAIN net
         /\ net'[i].answer \in {doc'} \union Errors
         /\ \A k \in DOMAIN net :
               /\ net'[k].op = net[k].op /\ net'[k].mount = net[k].mount
               /\ net'[k].informed = net[k].informed /\ net'[k].awaited = net[k].awaited
               /\ k # i => net'[k].answer = net[k].answer
<1>1. i \in DOMAIN net /\ net \in Seq(Requests)
  BY DEF Answer, PolicyTypeOK
<1>2. PICK a \in {doc'} \union Errors : net' = [net EXCEPT ![i].answer = a]
  BY DEF Answer, Errors
<1>3. \A k \in DOMAIN net : net[k] \in Requests
  BY <1>1
<1> QED
  BY <1>1, <1>2, <1>3 DEF Requests

\* The requests after a delivery: those that were there, and perhaps a load.
LEMMA AfterDeliver ==
  ASSUME PolicyTypeOK, NEW i, Deliver(i)
  PROVE  /\ i \in DOMAIN net
         /\ \A k \in DOMAIN net' :
               \/ /\ k \in 1 .. Len(net) - 1 /\ Place(k, i) \in DOMAIN net \ {i}
                  /\ net'[k] = net[Place(k, i)]
               \/ /\ Mine(net[i]) /\ Again(i)
                  /\ k = Len(net) /\ net'[k] = Get(mount, TRUE)
         /\ \A j, k \in 1 .. Len(net) - 1 : j < k => Place(j, i) < Place(k, i)
<1>1. i \in DOMAIN net /\ net \in Seq(Requests)
  BY DEF Deliver, PolicyTypeOK
<1>2. Without(i) \in Seq(Requests) /\ Len(Without(i)) = Len(net) - 1
      /\ DOMAIN Without(i) = 1 .. Len(net) - 1
      /\ \A k \in DOMAIN Without(i) :
            /\ Place(k, i) \in DOMAIN net \ {i}
            /\ Without(i)[k] = net[Place(k, i)]
            /\ \A j \in DOMAIN Without(i) : j < k => Place(j, i) < Place(k, i)
  BY <1>1, WithoutOne
<1>3. Len(Without(i)) + 1 = Len(net)
  BY <1>1, <1>2
<1>4. CASE net' = Without(i)
  BY <1>1, <1>2, <1>4
<1>5. CASE Mine(net[i]) /\ Again(i) /\ net' = Append(Without(i), Get(mount, TRUE))
  <2> DEFINE s == Without(i)
  <2>1. /\ DOMAIN net' = DOMAIN s \union {Len(net)}
        /\ \A k \in DOMAIN s : net'[k] = s[k]
        /\ net'[Len(net)] = Get(mount, TRUE)
    <3>1. s \in Seq(Requests) /\ Len(s) + 1 = Len(net)
      BY <1>2, <1>3
    <3>2. Get(mount, TRUE) \in Requests
      BY GetTyped DEF PolicyTypeOK
    <3> HIDE DEF s
    <3>3. net' = Append(s, Get(mount, TRUE))
      BY <1>5 DEF s
    <3>4. \A x \in Requests : net' = Append(s, x) =>
             /\ DOMAIN net' = DOMAIN s \union {Len(s) + 1}
             /\ \A k \in DOMAIN s : net'[k] = s[k]
             /\ net'[Len(s) + 1] = x
      BY <3>1, AfterAppend
    <3> QED
      BY <3>1, <3>2, <3>3, <3>4
  <2>2. DOMAIN s = 1 .. Len(net) - 1
    BY <1>2
  <2> HIDE DEF s
  <2>3. \A k \in DOMAIN s : Place(k, i) \in DOMAIN net \ {i} /\ s[k] = net[Place(k, i)]
    BY <1>2 DEF s
  <2>4. \A j, k \in 1 .. Len(net) - 1 : j < k => Place(j, i) < Place(k, i)
    BY <1>2
  <2> QED
    BY <1>1, <1>5, <2>1, <2>2, <2>3, <2>4
<1> QED
  BY <1>4, <1>5 DEF Deliver, Again

(***************************************************************************)
(* No write from a form that holds no document.                            *)
(***************************************************************************)
\* A form that is ready holds a document.
BlindInv == NoBlindSave /\ (Ready(ui) => ui.data # NoDoc)

\* The invariant is preserved.
LEMMA BlindStep == PolicyTypeOK /\ BlindInv /\ [Next]_vars => BlindInv'
<1> SUFFICES ASSUME PolicyTypeOK, BlindInv, [Next]_vars
             PROVE  BlindInv'
  OBVIOUS
<1>0. net \in Seq(Requests) /\ ui \in Hooks
  BY DEF PolicyTypeOK
<1>a. NoDoc \notin Docs
  BY DEF NoDoc, Docs, Vals, Bad, Off, Default
<1>1. CASE Locally \/ OtherAdmin
  BY <1>1 DEF Locally, OtherAdmin, BlindInv, NoBlindSave, Ready
<1>2. CASE Sent
  <2>1. Ready(ui) /\ ui'.data = ui.data
    BY <1>2 DEF Sent, Submit, Hooks
  <2>2. NoBlindSave'
    BY <1>2, <2>1, AfterSend DEF BlindInv, NoBlindSave
  <2> QED
    BY <2>1, <2>2 DEF BlindInv
<1>3. CASE Reload \/ Remount
  <2>1. ui'.view = "loading"
    <3>1. CASE Reload
      BY <1>0, <3>1 DEF Reload, Loading, Hooks
    <3>2. CASE Remount
      BY <3>2 DEF Remount, Fresh
    <3> QED
      BY <1>3, <3>1, <3>2
  <2>2. NoBlindSave'
    BY <1>3, AfterSend DEF BlindInv, NoBlindSave
  <2> QED
    BY <2>1, <2>2 DEF BlindInv, Ready
<1>4. CASE \E i \in 1 .. MaxFlight : Answer(i)
  <2>1. PICK i \in 1 .. MaxFlight : Answer(i)
    BY <1>4
  <2> QED
    BY <2>1, AfterAnswer DEF Answer, BlindInv, NoBlindSave, Ready
<1>5. CASE \E i \in 1 .. MaxFlight : Deliver(i)
  <2>1. PICK i \in 1 .. MaxFlight : Deliver(i)
    BY <1>5
  <2>2. Get(mount, TRUE).op = "get"
    BY DEF Get, Request
  <2>3. NoBlindSave'
    BY <2>1, <2>2, AfterDeliver DEF BlindInv, NoBlindSave
  <2>4. Ok(net[i].answer) => net[i].answer # NoDoc
    BY <2>1, <1>a, AnsweredTyped DEF Deliver
  <2>5. Ready(ui') => ui'.data # NoDoc
    BY <1>0, <2>1, <2>4 DEF Deliver, BlindInv, Ready, Shown, Adopted, Ended, Done, Loading, Hooks
  <2> QED
    BY <2>3, <2>5 DEF BlindInv, Ready
<1> QED
  BY <1>1, <1>2, <1>3, <1>4, <1>5, StepKinds

\* On no page does a write leave a form that holds no document: not after a
\* failed load, not during a reload.
THEOREM BlindCorrect == Spec => []NoBlindSave
<1>1. Init => BlindInv
  BY DEF Init, BlindInv, NoBlindSave, Get, Request, Fresh, Ready
<1>2. BlindInv => NoBlindSave
  BY DEF BlindInv
<1> QED
  BY <1>1, <1>2, BlindStep, TypeCorrect, PTL DEF Spec

(***************************************************************************)
(* One write at a time.                                                    *)
(***************************************************************************)
\* What the parts of the handlers leave alone.
LEMMA HooksKept ==
  ASSUME NEW u \in Hooks
  PROVE  /\ /\ Loading(u).busy = u.busy /\ Loading(u).draft = u.draft
            /\ Loading(u).edited = u.edited /\ Loading(u).note = u.note
            /\ Loading(u).wrote = u.wrote /\ Loading(u).view = "loading"
         /\ /\ Done(u).busy = "idle" /\ Done(u).draft = u.draft
            /\ Done(u).edited = u.edited /\ Done(u).note = u.note
            /\ Done(u).wrote = u.wrote /\ Done(u).view = u.view
            /\ Done(u).data = u.data
         /\ \A d : /\ Shown(u, d).busy = u.busy /\ ~Shown(u, d).edited
                   /\ Shown(u, d).note = u.note /\ Shown(u, d).wrote = u.wrote
                   /\ Shown(u, d).data = d /\ Shown(u, d).view = "ready"
         /\ \A d : /\ Adopted(u, d).busy = u.busy /\ Adopted(u, d).note = u.note
                   /\ Adopted(u, d).wrote = u.wrote /\ Adopted(u, d).data = d
                   /\ Adopted(u, d).view \in {u.view, "ready"}
                   /\ ~Handlers.reseeds => /\ Adopted(u, d).draft = u.draft
                                           /\ Adopted(u, d).edited = u.edited
                   /\ Adopted(u, d).edited => u.edited
         /\ \A a : /\ Ended(u, a).busy = u.busy /\ Ended(u, a).draft = u.draft
                   /\ Ended(u, a).edited = u.edited /\ Ended(u, a).view = u.view
                   /\ Ended(u, a).data = u.data
<1>1. /\ Loading(u).busy = u.busy /\ Loading(u).draft = u.draft
      /\ Loading(u).edited = u.edited /\ Loading(u).note = u.note
      /\ Loading(u).wrote = u.wrote /\ Loading(u).view = "loading"
  BY DEF Loading, Hooks
<1>2. /\ Done(u).busy = "idle" /\ Done(u).draft = u.draft
      /\ Done(u).edited = u.edited /\ Done(u).note = u.note
      /\ Done(u).wrote = u.wrote /\ Done(u).view = u.view /\ Done(u).data = u.data
  BY DEF Done, Hooks
<1>3. \A d : /\ Shown(u, d).busy = u.busy /\ ~Shown(u, d).edited
             /\ Shown(u, d).note = u.note /\ Shown(u, d).wrote = u.wrote
             /\ Shown(u, d).data = d /\ Shown(u, d).view = "ready"
  BY DEF Shown, Hooks
<1>4. \A d : /\ Adopted(u, d).busy = u.busy /\ Adopted(u, d).note = u.note
             /\ Adopted(u, d).wrote = u.wrote /\ Adopted(u, d).data = d
             /\ Adopted(u, d).view \in {u.view, "ready"}
             /\ ~Handlers.reseeds => /\ Adopted(u, d).draft = u.draft
                                     /\ Adopted(u, d).edited = u.edited
             /\ Adopted(u, d).edited => u.edited
  BY DEF Adopted, Hooks
<1>5. \A a : /\ Ended(u, a).busy = u.busy /\ Ended(u, a).draft = u.draft
             /\ Ended(u, a).edited = u.edited /\ Ended(u, a).view = u.view
             /\ Ended(u, a).data = u.data
  BY DEF Ended, Hooks
<1> QED
  BY <1>1, <1>2, <1>3, <1>4, <1>5

\* The hooks after a delivery, part by part.
LEMMA HooksDelivered ==
  ASSUME PolicyTypeOK, NEW i, Deliver(i), Mine(net[i])
  PROVE  LET m == net[i] IN
         /\ Again(i) => ui' = Loading(Ended(ui, m.answer))
         /\ ~Again(i) /\ m.op = "get" =>
              LET u == IF m.awaited THEN Done(ui) ELSE ui
              IN  ui' = IF Ok(m.answer) THEN Shown(u, m.answer)
                                        ELSE [u EXCEPT !.view = "error"]
         /\ ~Again(i) /\ m.op = "put" /\ Ok(m.answer) =>
              ui' = Done(Ended(Adopted(ui, m.answer), m.answer))
         /\ ~Again(i) /\ m.op # "get" /\ ~(m.op = "put" /\ Ok(m.answer)) =>
              ui' = Done(Ended(ui, m.answer))
         /\ Again(i) => m.op # "get"
  BY DEF Deliver, Again

\* Every request that is not a load is awaited by its handler, a mounted page
\* awaits one request at most, and it is busy while it does.
OneWriteInv ==
  /\ \A i \in DOMAIN net : net[i].mount <= mount /\ (net[i].op # "get" => net[i].awaited)
  /\ page # "dpa" =>
       /\ \A i \in DOMAIN net : Mine(net[i]) /\ net[i].awaited => ~Idle(ui)
       /\ \A i, j \in DOMAIN net :
             Mine(net[i]) /\ net[i].awaited /\ Mine(net[j]) /\ net[j].awaited => i = j

\* The invariant is preserved by a delivery.
LEMMA OneWriteDeliver ==
  ASSUME PolicyTypeOK, OneWriteInv, NEW i \in 1 .. MaxFlight, Deliver(i)
  PROVE  OneWriteInv'
<1>0. page' = page /\ mount' = mount /\ i \in DOMAIN net /\ ui \in Hooks
      /\ mount \in 1 .. MaxMount
  BY DEF Deliver, PolicyTypeOK
<1>1. \A m : Mine(m)' = Mine(m)
  BY <1>0 DEF Mine
<1>2. /\ Get(mount, TRUE).op = "get" /\ Get(mount, TRUE).mount = mount
      /\ Get(mount, TRUE).awaited
  BY <1>0, GetTyped
<1>a. mount <= mount
  BY <1>0
<1>3. \A k \in DOMAIN net' : net'[k].mount <= mount /\ (net'[k].op # "get" => net'[k].awaited)
  BY <1>2, <1>a, AfterDeliver DEF OneWriteInv
<1>4. ASSUME page # "dpa"
      PROVE  /\ \A k \in DOMAIN net' : Mine(net'[k]) /\ net'[k].awaited => ~Idle(ui')
             /\ \A j, k \in DOMAIN net' :
                   Mine(net'[j]) /\ net'[j].awaited /\ Mine(net'[k]) /\ net'[k].awaited => j = k
  <2>1. CASE ~Mine(net[i])
    <3>1. ui' = ui
      BY <2>1 DEF Deliver
    <3>2. \A k \in DOMAIN net' :
             /\ k \in 1 .. Len(net) - 1 /\ Place(k, i) \in DOMAIN net
             /\ net'[k] = net[Place(k, i)]
      BY <2>1, AfterDeliver
    <3>3. \A j, k \in DOMAIN net' : Place(j, i) = Place(k, i) => j = k
      BY <3>2 DEF Place
    <3> QED
      BY <1>4, <3>1, <3>2, <3>3 DEF OneWriteInv
  <2>2. CASE Mine(net[i]) /\ net[i].awaited
    <3>1. \A k \in DOMAIN net \ {i} : ~(Mine(net[k]) /\ net[k].awaited)
      BY <1>0, <1>4, <2>2 DEF OneWriteInv
    <3>2. \A k \in DOMAIN net' : Mine(net'[k]) /\ net'[k].awaited => k = Len(net) /\ Again(i)
      BY <3>1, AfterDeliver
    <3>3. Again(i) => ~Idle(ui')
      <4>1. Again(i) => ui' = Loading(Ended(ui, net[i].answer))
        BY <2>2, HooksDelivered
      <4>2. Ended(ui, net[i].answer) \in Hooks
        BY AnsweredTyped, HooksTyped, <1>0 DEF Deliver, PolicyTypeOK
      <4>3. ~Idle(ui)
        BY <1>0, <1>4, <2>2 DEF OneWriteInv
      <4> QED
        BY <1>0, <4>1, <4>2, <4>3, HooksKept DEF Idle
    <3> QED
      BY <3>2, <3>3
  <2>3. CASE Mine(net[i]) /\ ~net[i].awaited
    <3>1. net[i].op = "get"
      BY <1>0, <2>3 DEF OneWriteInv
    <3>2. ~Again(i)
      BY <3>1 DEF Again
    <3>3. ui'.busy = ui.busy
      BY <1>0, <2>3, <3>1, <3>2, HooksDelivered, HooksKept DEF Hooks
    <3>4. \A k \in DOMAIN net' :
             /\ k \in 1 .. Len(net) - 1 /\ Place(k, i) \in DOMAIN net
             /\ net'[k] = net[Place(k, i)]
      BY <3>2, AfterDeliver
    <3>5. \A j, k \in DOMAIN net' : Place(j, i) = Place(k, i) => j = k
      BY <3>4 DEF Place
    <3> QED
      BY <1>4, <3>3, <3>4, <3>5 DEF OneWriteInv, Idle
  <2> QED
    BY <2>1, <2>2, <2>3
<1> QED
  BY <1>0, <1>1, <1>3, <1>4 DEF OneWriteInv, Idle, Mine

\* The invariant is preserved.
LEMMA OneWriteStep == PolicyTypeOK /\ OneWriteInv /\ [Next]_vars => OneWriteInv'
<1> SUFFICES ASSUME PolicyTypeOK, OneWriteInv, [Next]_vars
             PROVE  OneWriteInv'
  OBVIOUS
<1>0. mount \in 1 .. MaxMount /\ \A k \in DOMAIN net : net[k].mount \in 1 .. MaxMount
  <2>1. mount \in 1 .. MaxMount /\ \A k \in DOMAIN net : net[k] \in Requests
    BY DEF PolicyTypeOK
  <2> QED
    BY <2>1 DEF Requests
<1>1. CASE Locally \/ OtherAdmin
  BY <1>1 DEF Locally, OtherAdmin, OneWriteInv, Idle, Mine
<1>2. CASE Sent
  <2>1. mount' = mount /\ page' = page /\ ui'.busy # "idle"
        /\ (page # "dpa" => Idle(ui))
    BY <1>2 DEF Sent, Submit, Hooks, WriteOps
  <2>2. page # "dpa" => \A k \in DOMAIN net : ~(Mine(net[k]) /\ net[k].awaited)
    BY <2>1 DEF OneWriteInv
  <2> QED
    BY <1>0, <1>2, <2>1, <2>2, AfterSend DEF OneWriteInv, Idle, Mine
<1>3. CASE Reload
  <2>1. mount' = mount /\ page' = page /\ ui'.busy = ui.busy
    BY <1>3, HooksKept DEF Reload, PolicyTypeOK
  <2> QED
    BY <1>0, <1>3, <2>1, AfterSend DEF OneWriteInv, Idle, Mine
<1>4. CASE Remount
  <2>1. mount' = mount + 1 /\ page' = page
    BY <1>4 DEF Remount
  <2> QED
    BY <1>0, <1>4, <2>1, AfterSend DEF OneWriteInv, Idle, Mine
<1>5. CASE \E i \in 1 .. MaxFlight : Answer(i)
  <2>1. PICK i \in 1 .. MaxFlight : Answer(i)
    BY <1>5
  <2>2. mount' = mount /\ page' = page /\ ui' = ui
    BY <2>1 DEF Answer
  <2> QED
    BY <2>1, <2>2, AfterAnswer DEF OneWriteInv, Idle, Mine
<1>6. CASE \E i \in 1 .. MaxFlight : Deliver(i)
  BY <1>6, OneWriteDeliver
<1> QED
  BY <1>1, <1>2, <1>3, <1>4, <1>5, <1>6, StepKinds

\* The initial state satisfies it.
LEMMA OneWriteInit == Init => OneWriteInv
<1> SUFFICES ASSUME Init PROVE OneWriteInv
  OBVIOUS
<1>1. DOMAIN net = {1} /\ net[1] = Get(1, FALSE)
  BY DEF Init
<1>2. Get(1, FALSE).mount = 1 /\ Get(1, FALSE).op = "get" /\ ~Get(1, FALSE).awaited
  BY DEF Get, Request
<1>3. \A k \in DOMAIN net : k = 1 /\ net[k].mount = mount
                              /\ net[k].op = "get" /\ ~net[k].awaited
  BY <1>1, <1>2 DEF Init
<1>4. mount <= mount
  BY DEF Init
<1> QED
  BY <1>3, <1>4 DEF OneWriteInv

\* Every page but that of the agreement has one write on its way at most,
\* however its reloads, a change of the API key and the answers fall.
THEOREM OneWriteCorrect == Spec => []OneWriteAtATime
<1>1. PolicyTypeOK /\ OneWriteInv => OneWriteAtATime
  BY DEF OneWriteInv, OneWriteAtATime
<1> QED
  BY <1>1, OneWriteInit, OneWriteStep, TypeCorrect, PTL DEF Spec

(***************************************************************************)
(* Failures are told.                                                      *)
(***************************************************************************)
\* What a failure that is not on the page can be.
ToldInv ==
  ui.wrote \in {"failed", "lost"} =>
     ui.note = "error" \/ (ui.wrote = "lost" /\ ~Handlers.catches)

\* The invariant is preserved.
LEMMA ToldStep == PolicyTypeOK /\ ToldInv /\ [Next]_vars => ToldInv'
<1> SUFFICES ASSUME PolicyTypeOK, ToldInv, [Next]_vars
             PROVE  ToldInv'
  OBVIOUS
<1>0. ui \in Hooks /\ page' = page
  BY StepKinds DEF PolicyTypeOK, Locally, Sent, Submit, Reload, Remount, OtherAdmin, Answer, Deliver
<1>a. Handlers' = Handlers
  BY <1>0 DEF Handlers, HandlersOf
<1>1. CASE Locally \/ OtherAdmin
  BY <1>0, <1>1, <1>a DEF Locally, OtherAdmin, ToldInv
<1>2. CASE Sent
  <2>1. ui'.wrote = "none"
    BY <1>2 DEF Sent, Submit, Hooks
  <2> QED
    BY <2>1 DEF ToldInv
<1>3. CASE Reload
  BY <1>0, <1>3, <1>a, HooksKept DEF Reload, ToldInv
<1>4. CASE Remount
  BY <1>4 DEF Remount, Fresh, ToldInv
<1>5. CASE \E i \in 1 .. MaxFlight : Answer(i)
  BY <1>5, <1>a DEF Answer, ToldInv
<1>6. CASE \E i \in 1 .. MaxFlight : Deliver(i)
  <2>1. PICK i \in 1 .. MaxFlight : Deliver(i)
    BY <1>6
  <2> DEFINE a == net[i].answer
  <2>2. CASE ~Mine(net[i])
    BY <1>a, <2>1, <2>2 DEF Deliver, ToldInv
  <2>3. CASE Mine(net[i]) /\ net[i].op = "get"
    <3>1. ~Again(i)
      BY <2>3 DEF Again
    <3> DEFINE u == IF net[i].awaited THEN Done(ui) ELSE ui
    <3>2. u \in Hooks /\ u.note = ui.note /\ u.wrote = ui.wrote
      BY <1>0, HooksKept, HooksTyped DEF PolicyTypeOK
    <3>3. ui' = IF Ok(a) THEN Shown(u, a) ELSE [u EXCEPT !.view = "error"]
      BY <2>1, <2>3, <3>1, HooksDelivered
    <3> HIDE DEF u
    <3>4. ui'.note = u.note /\ ui'.wrote = u.wrote
      BY <3>2, <3>3, HooksKept DEF Hooks
    <3> QED
      BY <1>a, <3>2, <3>4 DEF ToldInv
  <2>4. CASE Mine(net[i]) /\ net[i].op # "get"
    <3>1. a \in Docs \union Errors /\ (Ok(a) => a \in Docs)
      BY <2>1, AnsweredTyped DEF Deliver
    <3>2. PICK u \in Hooks : ui' \in {Loading(Ended(u, a)), Done(Ended(u, a))}
      <4>1. CASE Again(i)
        BY <1>0, <2>1, <2>4, <4>1, HooksDelivered
      <4>2. CASE ~Again(i) /\ net[i].op = "put" /\ Ok(a)
        <5>1. Adopted(ui, a) \in Hooks
          BY <1>0, <3>1, <4>2, HooksTyped DEF PolicyTypeOK
        <5> QED
          BY <2>1, <2>4, <4>2, <5>1, HooksDelivered
      <4>3. CASE ~Again(i) /\ ~(net[i].op = "put" /\ Ok(a))
        BY <1>0, <2>1, <2>4, <4>3, HooksDelivered
      <4> QED
        BY <4>1, <4>2, <4>3
    <3>3. Ended(u, a) \in Hooks
      BY <3>1, HooksTyped DEF PolicyTypeOK
    <3>4. ui'.wrote = Ended(u, a).wrote /\ ui'.note = Ended(u, a).note
      BY <3>2, <3>3, HooksKept
    <3>5. \/ Ended(u, a).wrote = "ok"
          \/ Ended(u, a).note = "error"
          \/ Ended(u, a).wrote = "lost" /\ ~Handlers.catches
      BY DEF Ended, Hooks
    <3> QED
      BY <1>a, <3>4, <3>5 DEF ToldInv
  <2> QED
    BY <2>2, <2>3, <2>4
<1> QED
  BY <1>1, <1>2, <1>3, <1>4, <1>5, <1>6, StepKinds

\* A write that failed is on the page, unless its request was never answered
\* and the page is one of those that do not catch that.
THEOREM FailureCorrect == Spec => []FailedWriteShown
<1>1. Init => ToldInv
  BY DEF Init, Fresh, ToldInv
<1>2. PolicyTypeOK /\ ToldInv => FailedWriteShown
  BY HandlersTyped DEF PolicyTypeOK, ToldInv, FailedWriteShown, Handlers
<1> QED
  BY <1>1, <1>2, ToldStep, TypeCorrect, PTL DEF Spec

(***************************************************************************)
(* Never older than what the page was told.                                *)
(***************************************************************************)
\* No answer tells of a document that is yet to be written.
KnownInv ==
  /\ seen <= doc.ver
  /\ \A k \in DOMAIN net : net[k].answer \in Docs => net[k].answer.ver <= doc.ver

\* While no answer has overtaken another, the answers to this mount that are
\* under way were given in the order of their requests, and tell of no older
\* document than those that came before.
InOrder ==
  /\ \A j, k \in DOMAIN net :
        Mine(net[j]) /\ Mine(net[k]) /\ j < k /\ net[k].answer # Pending
        => /\ net[j].answer # Pending
           /\ net[j].answer \in Docs /\ net[k].answer \in Docs
              => net[j].answer.ver <= net[k].answer.ver
  /\ \A k \in DOMAIN net :
        Mine(net[k]) /\ net[k].answer \in Docs => net[k].answer.ver >= seen
  /\ Ready(ui) => ui.data.ver >= seen
OrderInv == KnownInv /\ (~overtook => InOrder)

\* Versions are numbers, and no document is an error.
LEMMA DocFacts ==
  /\ \A d \in Docs \union {NoDoc} : d.ver \in Nat
  /\ Pending \notin Docs /\ Pending \notin Errors /\ Docs \intersect Errors = {}
<1>1. \A d \in Docs \union {NoDoc} : d.ver \in Nat
  BY PolicyAssumption DEF Docs, NoDoc
<1>2. Pending \notin Docs /\ Docs \intersect Errors = {}
  BY DEF Docs, Vals, Off, Default, Pending, Errors, Failed, Lost
<1>3. Pending \notin Errors
  BY DEF Pending, Errors, Failed, Lost
<1> QED
  BY <1>1, <1>2, <1>3

\* ... in a state of the system.
LEMMA VersionsTyped ==
  ASSUME PolicyTypeOK
  PROVE  doc \in Docs /\ seen \in Nat /\ ui.data \in Docs \union {NoDoc}
  BY PolicyAssumption DEF PolicyTypeOK, Hooks

\* The invariant is preserved by an answer.
LEMMA OrderAnswer ==
  ASSUME PolicyTypeOK, PolicyTypeOK', OrderInv, NEW i \in 1 .. MaxFlight, Answer(i)
  PROVE  OrderInv'
<1>1. /\ i \in DOMAIN net /\ DOMAIN net' = DOMAIN net
      /\ net'[i].answer \in {doc'} \union Errors
      /\ \A k \in DOMAIN net :
            /\ net'[k].mount = net[k].mount
            /\ k # i => net'[k].answer = net[k].answer
      /\ net[i].answer = Pending
      /\ ui' = ui /\ seen' = seen /\ mount' = mount
  BY AfterAnswer DEF Answer
<1>2. doc.ver <= doc'.ver
  BY DocFacts, VersionsTyped DEF Answer, Wrote
<1>a. doc \in Docs /\ doc' \in Docs
  BY DEF PolicyTypeOK
<1>3. KnownInv'
  BY <1>1, <1>2, <1>a, DocFacts, VersionsTyped DEF OrderInv, KnownInv
<1>4. ASSUME ~overtook' PROVE InOrder'
  <2>1. /\ InOrder
        /\ Mine(net[i]) => \A j \in 1 .. i - 1 : ~(Mine(net[j]) /\ net[j].answer = Pending)
    BY <1>4 DEF Answer, OrderInv
  <2>2. DOMAIN net = 1 .. Len(net) /\ Len(net) \in Nat
    BY DEF PolicyTypeOK
  <2>3. Mine(net[i]) => \A j \in DOMAIN net : Mine(net[j]) /\ j < i => net[j].answer # Pending
    BY <2>1, <2>2
  <2>4. net'[i].answer # Pending
    BY <1>1, <1>a, DocFacts
  <2>5. ASSUME NEW j \in DOMAIN net, NEW k \in DOMAIN net,
               Mine(net[j]), Mine(net[k]), j < k, net'[k].answer # Pending
        PROVE  /\ net'[j].answer # Pending
               /\ net'[j].answer \in Docs /\ net'[k].answer \in Docs
                  => net'[j].answer.ver <= net'[k].answer.ver
    <3>1. CASE k = i
      <4>1. j # i /\ net[j].answer # Pending /\ net'[j].answer = net[j].answer
        BY <1>1, <2>2, <2>3, <2>5, <3>1
      <4>2. net[j].answer \in Docs => net[j].answer.ver <= doc.ver
        BY DEF OrderInv, KnownInv
      <4>3. net'[i].answer \in Docs => net'[i].answer = doc'
        BY <1>1, DocFacts
      <4> QED
        BY <1>2, <3>1, <4>1, <4>2, <4>3, <1>a, DocFacts, VersionsTyped
    <3>2. CASE k # i
      <4>1. net[k].answer # Pending /\ net'[k].answer = net[k].answer
        BY <1>1, <2>5, <3>2
      <4>2. j # i
        BY <1>1, <2>1, <2>5, <4>1 DEF InOrder
      <4> QED
        BY <1>1, <2>1, <2>5, <4>1, <4>2 DEF InOrder
    <3> QED
      BY <3>1, <3>2
  <2>6. ASSUME NEW k \in DOMAIN net, Mine(net[k]), net'[k].answer \in Docs
        PROVE  net'[k].answer.ver >= seen
    <3>1. CASE k = i
      <4>1. net'[i].answer = doc'
        BY <1>1, <2>6, <3>1, DocFacts
      <4> QED
        BY <1>2, <3>1, <4>1, <1>a, DocFacts, VersionsTyped DEF OrderInv, KnownInv
    <3>2. CASE k # i
      BY <1>1, <2>1, <2>6, <3>2 DEF InOrder
    <3> QED
      BY <3>1, <3>2
  <2> QED
    BY <1>1, <2>1, <2>5, <2>6 DEF InOrder, Mine, Ready
<1> QED
  BY <1>3, <1>4 DEF OrderInv

\* The invariant is preserved by a delivery.
LEMMA OrderDeliver ==
  ASSUME PolicyTypeOK, OrderInv, NEW i \in 1 .. MaxFlight, Deliver(i)
  PROVE  OrderInv'
<1> DEFINE m == net[i]
<1>1. /\ page' = page /\ mount' = mount /\ doc' = doc /\ i \in DOMAIN net
      /\ ui \in Hooks /\ mount \in 1 .. MaxMount
  BY DEF Deliver, PolicyTypeOK
<1>2. m.answer \in Docs \union Errors /\ m.answer # Pending
      /\ (Ok(m.answer) <=> m.answer \in Docs)
  BY AnsweredTyped, DocFacts DEF Deliver, Ok
<1>b. m \in Requests
  BY AnsweredTyped DEF Deliver
<1>3. /\ Get(mount, TRUE).answer = Pending
      /\ Pending \notin Docs
  BY <1>1, GetTyped, DocFacts
<1>4. \A k \in DOMAIN net' :
         \/ /\ k \in 1 .. Len(net) - 1 /\ Place(k, i) \in DOMAIN net \ {i}
            /\ net'[k] = net[Place(k, i)]
         \/ k = Len(net) /\ net'[k].answer = Pending
  BY <1>3, AfterDeliver
<1>5. \A j, k \in 1 .. Len(net) - 1 : j < k => Place(j, i) < Place(k, i)
  BY AfterDeliver
<1>a. Len(net) \in Nat /\ DOMAIN net = 1 .. Len(net)
  BY DEF PolicyTypeOK
<1>6. /\ seen' \in Nat
      /\ seen' = seen \/ (m.answer \in Docs /\ Mine(m) /\ seen' = m.answer.ver)
      /\ seen' >= seen
      /\ Mine(m) /\ m.answer \in Docs /\ m.op # "run" => seen' = Newest(seen, m.answer.ver)
  <2>1. m.answer \in Docs => m.answer.ver \in Nat
    BY DocFacts
  <2>2. seen \in Nat
    BY VersionsTyped
  <2>3. seen' = IF Mine(m) /\ m.answer \in Docs /\ m.op # "run"
                THEN Newest(seen, m.answer.ver) ELSE seen
    BY <1>2 DEF Deliver
  <2> QED
    BY <2>1, <2>2, <2>3 DEF Newest
<1>7. KnownInv'
  <2>1. seen' <= doc.ver
    BY <1>1, <1>6, DocFacts, VersionsTyped DEF OrderInv, KnownInv
  <2>2. \A k \in DOMAIN net' : net'[k].answer \in Docs => net'[k].answer.ver <= doc.ver
    BY <1>3, <1>4 DEF OrderInv, KnownInv
  <2> QED
    BY <1>1, <2>1, <2>2 DEF KnownInv
<1>8. ASSUME ~overtook' PROVE InOrder'
  <2>1. InOrder /\ (Mine(m) => \A j \in 1 .. i - 1 : ~Mine(net[j]))
    BY <1>8 DEF Deliver, OrderInv
  <2>2. ASSUME NEW j \in DOMAIN net', NEW k \in DOMAIN net',
               Mine(net'[j]), Mine(net'[k]), j < k, net'[k].answer # Pending
        PROVE  /\ net'[j].answer # Pending
               /\ net'[j].answer \in Docs /\ net'[k].answer \in Docs
                  => net'[j].answer.ver <= net'[k].answer.ver
    <3>1. k \in 1 .. Len(net) - 1 /\ j \in 1 .. Len(net) - 1
      BY <1>4, <1>a, <2>2
    <3>2. /\ Place(k, i) \in DOMAIN net /\ net'[k] = net[Place(k, i)]
          /\ Place(j, i) \in DOMAIN net /\ net'[j] = net[Place(j, i)]
      BY <1>4, <1>a, <3>1
    <3>3. Place(j, i) < Place(k, i)
      BY <1>5, <2>2, <3>1
    <3> QED
      BY <2>1, <2>2, <3>2, <3>3 DEF InOrder
  <2>3. ASSUME NEW k \in DOMAIN net', Mine(net'[k]), net'[k].answer \in Docs
        PROVE  net'[k].answer.ver >= seen'
    <3> DEFINE p == Place(k, i)
    <3>1. p \in DOMAIN net \ {i} /\ net'[k] = net[p]
      BY <1>3, <1>4, <2>3
    <3> HIDE DEF p
    <3>2. Mine(net[p]) /\ net[p].answer \in Docs /\ net[p].answer # Pending
      BY <1>3, <2>3, <3>1
    <3>3. net[p].answer.ver >= seen
      BY <2>1, <3>1, <3>2 DEF InOrder
    <3>4. CASE seen' = seen
      BY <3>1, <3>3, <3>4
    <3>5. CASE m.answer \in Docs /\ Mine(m) /\ seen' = m.answer.ver
      <4>1. ~(p < i)
        BY <1>a, <2>1, <3>1, <3>2, <3>5
      <4>2. i < p
        BY <1>1, <1>a, <3>1, <4>1
      <4> QED
        BY <1>1, <2>1, <3>1, <3>2, <3>5, <4>2 DEF InOrder
    <3> QED
      BY <1>6, <3>4, <3>5
  <2>4. Ready(ui') => ui'.data.ver >= seen'
    <3>1. CASE ~Mine(m)
      BY <2>1, <3>1 DEF Deliver, InOrder
    <3>2. CASE Mine(m) /\ Again(i)
      <4>1. Ended(ui, m.answer) \in Hooks
        BY <1>1, <1>2, HooksTyped DEF PolicyTypeOK
      <4>2. ui'.view = "loading"
        BY <3>2, <4>1, HooksDelivered, HooksKept
      <4> QED
        BY <4>2 DEF Ready
    <3>3. CASE Mine(m) /\ ~Again(i) /\ m.op = "get"
      <4> DEFINE u == IF m.awaited THEN Done(ui) ELSE ui
      <4>1. u \in Hooks
        BY <1>1, HooksTyped DEF PolicyTypeOK
      <4>2. ui' = IF Ok(m.answer) THEN Shown(u, m.answer) ELSE [u EXCEPT !.view = "error"]
        BY <3>3, HooksDelivered
      <4> HIDE DEF u
      <4>3. CASE Ok(m.answer)
        <5>1. ui'.data = m.answer /\ seen' = Newest(seen, m.answer.ver)
          BY <1>2, <1>6, <3>3, <4>1, <4>2, <4>3, HooksKept
        <5>2. m.answer.ver >= seen
          BY <1>1, <1>2, <2>1, <3>3, <4>3 DEF InOrder
        <5> QED
          BY <1>2, <4>3, <5>1, <5>2, DocFacts, VersionsTyped DEF Newest
      <4>4. CASE ~Ok(m.answer)
        BY <4>1, <4>2, <4>4 DEF Ready, Hooks
      <4> QED
        BY <4>3, <4>4
    <3>4. CASE Mine(m) /\ ~Again(i) /\ m.op = "put" /\ Ok(m.answer)
      <4>1. Adopted(ui, m.answer) \in Hooks
        BY <1>1, <1>2, <3>4, HooksTyped DEF PolicyTypeOK
      <4>2. Ended(Adopted(ui, m.answer), m.answer) \in Hooks
        BY <1>1, <1>2, <4>1, HooksTyped DEF PolicyTypeOK
      <4>3. ui' = Done(Ended(Adopted(ui, m.answer), m.answer))
        BY <3>4, HooksDelivered
      <4>4. ui'.data = m.answer
        BY <1>1, <4>1, <4>2, <4>3, HooksKept
      <4>5. m.answer.ver >= seen
        BY <1>1, <1>2, <2>1, <3>4 DEF InOrder
      <4> QED
        BY <1>2, <1>6, <3>4, <4>4, <4>5, DocFacts, VersionsTyped DEF Newest
    <3>5. CASE Mine(m) /\ ~Again(i) /\ m.op # "get" /\ ~(m.op = "put" /\ Ok(m.answer))
      <4>1. ui' = Done(Ended(ui, m.answer))
        BY <3>5, HooksDelivered
      <4>2. Ended(ui, m.answer) \in Hooks
        BY <1>1, <1>2, HooksTyped DEF PolicyTypeOK
      <4>3. ui'.data = ui.data /\ ui'.view = ui.view
        BY <1>1, <4>1, <4>2, HooksKept
      <4>4. m.op \in {"put", "run"}
        BY <1>b, <3>5 DEF Requests
      <4>5. seen' = seen
        BY <3>5, <4>4 DEF Deliver
      <4> QED
        BY <2>1, <4>3, <4>5 DEF Ready, InOrder
    <3> QED
      BY <3>1, <3>2, <3>3, <3>4, <3>5
  <2> QED
    BY <1>1, <2>2, <2>3, <2>4 DEF InOrder, Mine, Ready
<1> QED
  BY <1>7, <1>8 DEF OrderInv

\* The invariant is preserved.
LEMMA OrderStep ==
  PolicyTypeOK /\ PolicyTypeOK' /\ OneWriteInv /\ OrderInv /\ [Next]_vars => OrderInv'
<1> SUFFICES ASSUME PolicyTypeOK, PolicyTypeOK', OneWriteInv, OrderInv, [Next]_vars
             PROVE  OrderInv'
  OBVIOUS
<1>0. /\ ui \in Hooks /\ mount \in 1 .. MaxMount /\ Pending \notin Docs
      /\ \A k \in DOMAIN net : net[k].mount \in Nat /\ net[k].mount <= mount
  <2>1. \A k \in DOMAIN net : net[k] \in Requests
    BY DEF PolicyTypeOK
  <2> QED
    BY <2>1, DocFacts DEF PolicyTypeOK, OneWriteInv, Requests
<1>1. CASE Locally
  BY <1>1 DEF Locally, OrderInv, KnownInv, InOrder, Ready, Mine
<1>2. CASE OtherAdmin
  <2>1. doc \in Docs /\ doc' \in Docs /\ doc.ver < doc'.ver
        /\ UNCHANGED <<mount, ui, net, seen, overtook>>
    <3>1. doc \in Docs /\ doc.ver \in Nat /\ doc' \in Docs
      BY DocFacts DEF PolicyTypeOK
    <3>2. doc'.ver = doc.ver + 1
      BY <1>2 DEF OtherAdmin, Wrote
    <3> QED
      BY <1>2, <3>1, <3>2 DEF OtherAdmin
  <2>2. KnownInv'
    BY <2>1, DocFacts, VersionsTyped DEF OrderInv, KnownInv
  <2> QED
    BY <2>1, <2>2 DEF OrderInv, InOrder, Ready, Mine
<1>3. CASE Sent \/ Reload
  <2>1. UNCHANGED <<mount, doc, seen, overtook>>
    BY <1>3 DEF Sent, Submit, Reload
  <2>2. Ready(ui') => ui'.view = ui.view /\ ui'.data = ui.data
    <3>1. CASE Sent
      BY <3>1 DEF Sent, Submit, Hooks
    <3>2. CASE Reload
      BY <1>0, <3>2, HooksKept DEF Reload, Ready
    <3> QED
      BY <1>3, <3>1, <3>2
  <2>3. PICK r \in Requests :
           /\ r.answer = Pending
           /\ DOMAIN net' = DOMAIN net \union {Len(net) + 1}
           /\ \A k \in DOMAIN net : net'[k] = net[k] /\ k < Len(net) + 1
           /\ net'[Len(net) + 1] = r
    BY <1>3, AfterSend
  <2>4. KnownInv'
    BY <1>0, <2>1, <2>3 DEF OrderInv, KnownInv
  <2>5. Len(net) \in Nat
    BY DEF PolicyTypeOK
  <2>6. InOrder => InOrder'
    <3> SUFFICES ASSUME InOrder PROVE InOrder'
      OBVIOUS
    <3>1. \A k \in DOMAIN net' : net'[k].answer # Pending => k \in DOMAIN net
      BY <2>3
    <3>2. \A k \in DOMAIN net, j \in DOMAIN net' : j < k => j \in DOMAIN net
      BY <2>3, <2>5 DEF PolicyTypeOK
    <3> QED
      BY <1>0, <2>1, <2>2, <2>3, <3>1, <3>2 DEF InOrder, Mine, Ready
  <2> QED
    BY <2>1, <2>4, <2>6 DEF OrderInv
<1>4. CASE Remount
  <2>1. mount' = mount + 1 /\ doc' = doc /\ seen' = 0 /\ ui'.view = "loading"
    BY <1>4 DEF Remount, Fresh
  <2>2. PICK r \in Requests :
           /\ r.answer = Pending
           /\ DOMAIN net' = DOMAIN net \union {Len(net) + 1}
           /\ \A k \in DOMAIN net : net'[k] = net[k] /\ k < Len(net) + 1
           /\ net'[Len(net) + 1] = r
    BY <1>4, AfterSend
  <2>3. KnownInv'
    BY <1>0, <2>1, <2>2, DocFacts, VersionsTyped DEF OrderInv, KnownInv
  <2>4. \A k \in DOMAIN net' : net'[k].mount = mount + 1 => net'[k].answer = Pending
    BY <1>0, <2>2
  <2>5. InOrder'
    BY <1>0, <2>1, <2>4 DEF InOrder, Mine, Ready
  <2> QED
    BY <2>3, <2>5 DEF OrderInv
<1>5. CASE \E i \in 1 .. MaxFlight : Answer(i)
  BY <1>5, OrderAnswer
<1>6. CASE \E i \in 1 .. MaxFlight : Deliver(i)
  BY <1>6, OrderDeliver
<1> QED
  BY <1>1, <1>2, <1>3, <1>4, <1>5, <1>6, StepKinds

\* The initial state satisfies it.
LEMMA OrderInit == Init => OrderInv
<1> SUFFICES ASSUME Init PROVE OrderInv
  OBVIOUS
<1>1. \A k \in DOMAIN net : k = 1 /\ net[k].answer = Pending
  BY DEF Init, Get, Request
<1>2. doc.ver = 0 /\ seen = 0 /\ ~Ready(ui)
  BY DEF Init, Fresh, Ready
<1> QED
  BY <1>1, <1>2, DocFacts DEF OrderInv, KnownInv, InOrder

\* As long as the answers to a mount are given and come in the order of its
\* requests, no page shows an older document than one it was told of.
THEOREM InOrderCorrect == Spec => []InOrderNeverOlder
<1>1. OrderInv => InOrderNeverOlder
  BY DEF OrderInv, InOrder, InOrderNeverOlder, Ready
<1> QED
  BY <1>1, OrderInit, OrderStep, OneWriteInit, OneWriteStep, TypeCorrect, PTL DEF Spec

(***************************************************************************)
(* What is typed stays.                                                    *)
(***************************************************************************)
\* The forms of the guarded pages load once, write their fields only when
\* they load or save, and can be edited only while they do neither; that of
\* the budgets stays enabled, and leaves its fields alone.
LEMMA GuardedForms ==
  ASSUME page \in Pages, page \in Guarded
  PROVE  /\ "edit" \in Controls => Ready(ui) /\ (page # "budget" => Idle(ui))
         /\ "reload" \in Controls => ui.view = "error"
         /\ page # "dpa" /\ ~Handlers.rekeys /\ Handlers.then = "adopt"
         /\ ~Handlers.rereads /\ "run" \notin Controls
         /\ page = "budget" => ~Handlers.reseeds
<1>1. /\ ~AdminForm.rekeys /\ AdminForm.then = "adopt" /\ ~AdminForm.rereads
      /\ AdminForm \in HandlerRecords
  BY DEF AdminForm, SettingsForm, HandlerRecords, Vals
<1>2. ~Handlers.rekeys /\ Handlers.then = "adopt" /\ ~Handlers.rereads
      /\ (page = "budget" => ~Handlers.reseeds)
  BY <1>1 DEF Handlers, HandlersOf, Guarded, HandlerRecords, BodySizeHandlers,
     RetentionFloorHandlers, WebhookMaxAttemptsHandlers,
     WebhookAutoDisableHandlers, BudgetHandlers, PatMinRequirementsHandlers
<1>3. /\ "edit" \in Controls => Ready(ui) /\ (page # "budget" => Idle(ui))
      /\ "reload" \in Controls => ui.view = "error"
      /\ "run" \notin Controls
  BY DEF Controls, Guarded, When, Retry, BodySizeControls, RetentionFloorControls,
     WebhookMaxAttemptsControls, WebhookAutoDisableControls, BudgetControls,
     PatMinRequirementsControls
<1>4. page # "dpa"
  BY DEF Guarded
<1> QED
  BY <1>2, <1>3, <1>4

\* A guarded page has one load on its way at most, shows that it loads, and
\* holds no edits meanwhile; nor while it saves, but for the budgets.
EditsInv ==
  page \in Guarded =>
    /\ ui.edited => Ready(ui) /\ (page # "budget" => Idle(ui))
    /\ \A k \in DOMAIN net : Mine(net[k]) =>
          IF net[k].op = "get" THEN ui.view = "loading" ELSE Ready(ui)
    /\ \A j, k \in DOMAIN net :
          Mine(net[j]) /\ net[j].op = "get" /\ Mine(net[k]) /\ net[k].op = "get" => j = k

\* The hooks of a guarded page after a delivery.
LEMMA EditsHooks ==
  ASSUME PolicyTypeOK, OneWriteInv, EditsInv, page \in Guarded,
         NEW i \in 1 .. MaxFlight, Deliver(i), Mine(net[i])
  PROVE  /\ ~Again(i)
         /\ net[i].op = "get" => ~ui'.edited /\ ~ui.edited
         /\ net[i].op # "get" =>
              ui'.view = ui.view /\ (ui'.edited => ui.edited) /\ Idle(ui')
         /\ ui.edited => ui'.draft = ui.draft
<1> DEFINE m == net[i]
<1>0. /\ ui \in Hooks /\ page \in Pages /\ i \in DOMAIN net
      /\ m.answer \in Docs \union Errors /\ (Ok(m.answer) => m.answer \in Docs)
  BY AnsweredTyped DEF Deliver, PolicyTypeOK
<1>1. m.op # "get" => ~Idle(ui) /\ Ready(ui)
  BY <1>0, GuardedForms DEF OneWriteInv, EditsInv
<1>2. Ended(ui, m.answer) \in Hooks
  BY <1>0, HooksTyped
<1>3. ~Again(i)
  BY <1>0, GuardedForms DEF Again
<1>4. ASSUME m.op = "get"
      PROVE  ~ui'.edited /\ ~ui.edited
  <2>2. ~ui.edited
    BY <1>0, <1>4 DEF EditsInv, Ready
  <2> DEFINE u == IF m.awaited THEN Done(ui) ELSE ui
  <2>3. u \in Hooks /\ ~u.edited
    BY <1>0, <2>2, HooksTyped, HooksKept
  <2>4. ui' = IF Ok(m.answer) THEN Shown(u, m.answer) ELSE [u EXCEPT !.view = "error"]
    BY <1>3, <1>4, HooksDelivered
  <2> HIDE DEF u
  <2>5. ~ui'.edited
    BY <2>3, <2>4, HooksKept DEF Hooks
  <2> QED
    BY <2>2, <2>5
<1>5. ASSUME m.op # "get"
      PROVE  /\ ui'.view = ui.view /\ (ui'.edited => ui.edited) /\ Idle(ui')
             /\ ui.edited => ui'.draft = ui.draft
  <2>1. CASE m.op = "put" /\ Ok(m.answer)
    <3> DEFINE u == Adopted(ui, m.answer)
    <3>1. u \in Hooks
      BY <1>0, <2>1, HooksTyped
    <3>2. /\ u.view = ui.view /\ (u.edited => ui.edited)
          /\ ~Handlers.reseeds => u.draft = ui.draft
      BY <1>0, <1>1, <1>5, HooksKept DEF Ready
    <3>3. ui' = Done(Ended(u, m.answer))
      BY <1>3, <1>5, <2>1, HooksDelivered
    <3> HIDE DEF u
    <3>4. Ended(u, m.answer) \in Hooks
      BY <1>0, <3>1, HooksTyped
    <3>5. ui'.view = u.view /\ ui'.edited = u.edited /\ ui'.draft = u.draft /\ Idle(ui')
      BY <3>1, <3>3, <3>4, HooksKept DEF Idle
    <3>6. ui.edited => ~Handlers.reseeds
      BY <1>0, <1>1, <1>5, GuardedForms DEF EditsInv
    <3> QED
      BY <3>2, <3>5, <3>6
  <2>2. CASE ~(m.op = "put" /\ Ok(m.answer))
    BY <1>0, <1>2, <1>3, <1>5, <2>2, HooksDelivered, HooksKept DEF Idle
  <2> QED
    BY <2>1, <2>2
<1> QED
  BY <1>3, <1>4, <1>5

\* The invariant is preserved.
LEMMA EditsStep == PolicyTypeOK /\ OneWriteInv /\ EditsInv /\ [Next]_vars => EditsInv'
<1> SUFFICES ASSUME PolicyTypeOK, OneWriteInv, EditsInv, [Next]_vars, page' \in Guarded
             PROVE  EditsInv'
  BY DEF EditsInv
<1>0. ui \in Hooks /\ mount \in 1 .. MaxMount /\ page' = page /\ page \in Pages
      /\ \A k \in DOMAIN net : net[k].mount <= mount /\ net[k].mount \in Nat
  <2>1. page' = page
    BY StepKinds DEF Locally, Sent, Submit, Reload, Remount, OtherAdmin, Answer, Deliver
  <2>2. \A k \in DOMAIN net : net[k] \in Requests
    BY DEF PolicyTypeOK
  <2> QED
    BY <2>1, <2>2 DEF PolicyTypeOK, OneWriteInv, Requests
<1>1. CASE Locally
  BY <1>0, <1>1, GuardedForms DEF Locally, EditsInv, Ready, Idle, Mine
<1>2. CASE OtherAdmin
  BY <1>2 DEF OtherAdmin, EditsInv, Ready, Idle, Mine
<1>3. CASE Sent
  <2>0. PICK op \in WriteOps, kind \in {"put", "run"}, v \in Vals \union {Bad}, u \in Hooks :
           /\ Submit(op, kind, v, u)
           /\ op \in Controls \/ op = "preset"
           /\ op = "run" <=> kind = "run"
           /\ Ready(ui) /\ u.view = ui.view
    BY <1>3 DEF Sent
  <2>k. kind # "run"
    BY <1>0, <2>0, GuardedForms
  <2>1. ~ui'.edited /\ ui'.view = ui.view /\ mount' = mount /\ Ready(ui)
    BY <2>0, <2>k DEF Submit, Hooks
  <2> QED
    BY <1>0, <1>3, <2>1, AfterSend DEF EditsInv, Ready, Mine
<1>4. CASE Reload /\ (Handlers.rekeys \/ "reload" \in Controls)
  <2>1. ui.view = "error"
    BY <1>0, <1>4, GuardedForms
  <2>2. ui'.view = "loading" /\ ui'.edited = ui.edited /\ mount' = mount
    BY <1>0, <1>4, HooksKept DEF Reload
  <2>3. ~ui.edited /\ \A k \in DOMAIN net : ~Mine(net[k])
    BY <1>0, <2>1 DEF EditsInv, Ready
  <2> QED
    BY <1>0, <1>4, <2>2, <2>3, AfterSend DEF EditsInv, Mine
<1>5. CASE Remount
  <2>1. ~ui'.edited /\ ui'.view = "loading" /\ mount' = mount + 1
    BY <1>5 DEF Remount, Fresh
  <2>2. \A k \in DOMAIN net : net[k].mount # mount + 1
    BY <1>0
  <2> QED
    BY <1>5, <2>1, <2>2, AfterSend DEF EditsInv, Mine
<1>6. CASE \E i \in 1 .. MaxFlight : Answer(i)
  <2>1. PICK i \in 1 .. MaxFlight : Answer(i)
    BY <1>6
  <2>2. ui' = ui /\ mount' = mount
    BY <2>1 DEF Answer
  <2> QED
    BY <1>0, <2>1, <2>2, AfterAnswer DEF EditsInv, Ready, Idle, Mine
<1>7. CASE \E i \in 1 .. MaxFlight : Deliver(i)
  <2>1. PICK i \in 1 .. MaxFlight : Deliver(i)
    BY <1>7
  <2>2. mount' = mount /\ i \in DOMAIN net
    BY <2>1 DEF Deliver
  <2>4. CASE ~Mine(net[i])
    <3>1. ui' = ui
      BY <2>1, <2>4 DEF Deliver
    <3>2. \A k \in DOMAIN net' :
             /\ k \in 1 .. Len(net) - 1 /\ Place(k, i) \in DOMAIN net
             /\ net'[k] = net[Place(k, i)]
      BY <2>1, <2>4, AfterDeliver
    <3>3. \A j, k \in DOMAIN net' : Place(j, i) = Place(k, i) => j = k
      BY <3>2 DEF Place
    <3> QED
      BY <1>0, <2>2, <3>1, <3>2, <3>3 DEF EditsInv, Ready, Idle, Mine
  <2>5. ~Again(i)
    BY <1>0, GuardedForms DEF Again
  <2>6. CASE Mine(net[i])
    <3>1. \A k \in DOMAIN net' :
             /\ k \in 1 .. Len(net) - 1 /\ Place(k, i) \in DOMAIN net \ {i}
             /\ net'[k] = net[Place(k, i)]
      BY <2>1, <2>5, <2>6, AfterDeliver
    <3>2. \A j, k \in DOMAIN net' : Place(j, i) = Place(k, i) => j = k
      BY <3>1 DEF Place
    <3>3. CASE net[i].op = "get"
      <4>1. ~ui'.edited
        BY <1>0, <2>1, <2>6, <3>3, EditsHooks
      <4>2. \A k \in DOMAIN net \ {i} : ~Mine(net[k])
        BY <1>0, <2>2, <2>6, <3>3 DEF EditsInv, Ready
      <4> QED
        BY <2>2, <3>1, <4>1, <4>2 DEF EditsInv, Mine
    <3>4. CASE net[i].op # "get"
      <4>1. ui'.view = ui.view /\ (ui'.edited => ui.edited) /\ Idle(ui')
        BY <1>0, <2>1, <2>6, <3>4, EditsHooks
      <4> QED
        BY <1>0, <2>2, <3>1, <3>2, <4>1 DEF EditsInv, Mine, Ready
    <3> QED
      BY <3>3, <3>4
  <2> QED
    BY <2>4, <2>6
<1> QED
  BY <1>1, <1>2, <1>3, <1>4, <1>5, <1>6, <1>7, StepKinds

\* The initial state satisfies it.
LEMMA EditsInit == Init => EditsInv
<1> SUFFICES ASSUME Init PROVE EditsInv
  OBVIOUS
<1>1. \A k \in DOMAIN net : k = 1 /\ net[k].op = "get"
  BY DEF Init, Get, Request
<1>2. ui.view = "loading" /\ ~ui.edited
  BY DEF Init, Fresh
<1> QED
  BY <1>1, <1>2 DEF EditsInv

\* On the pages that disable their fields while they load or save, and on
\* that of the budgets, no answer replaces what was typed since.
THEOREM EditsCorrect == Spec => EditsSurvive
<1>1. PolicyTypeOK /\ OneWriteInv /\ EditsInv /\ [Next]_vars =>
        [\A i \in 1 .. MaxFlight :
            page \in Guarded /\ Deliver(i) /\ ui.edited => ui'.draft = ui.draft]_vars
  <2> SUFFICES ASSUME PolicyTypeOK, OneWriteInv, EditsInv,
                      NEW i \in 1 .. MaxFlight, page \in Guarded, Deliver(i), ui.edited
               PROVE  ui'.draft = ui.draft
    OBVIOUS
  <2>1. CASE Mine(net[i])
    BY <2>1, EditsHooks
  <2>2. CASE ~Mine(net[i])
    BY <2>2 DEF Deliver
  <2> QED
    BY <2>1, <2>2
<1> QED
  BY <1>1, EditsInit, EditsStep, OneWriteInit, OneWriteStep, TypeCorrect, PTL
     DEF Spec, EditsSurvive
============================================================================
