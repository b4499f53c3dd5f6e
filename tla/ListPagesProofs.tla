-------------------------- MODULE ListPagesProofs --------------------------
(***************************************************************************)
(* The safety properties of ListPages, for every set of pages and of rows, *)
(* and every number of writes and of requests in flight.                   *)
(***************************************************************************)
EXTENDS ListPages, TLAPS

(***************************************************************************)
(* Facts about the pages, one case per page.                               *)
(***************************************************************************)
\* What success does.
Afters == {"reload", "resync", "adopt", "cut", "patch", "aside", "elsewhere"}

\* The flags and the ends of the operations of a page.
Typed(h) == h.flag \in [Ops -> Flags \union {"none"}] /\ h.after \in [Ops -> Afters]

\* On which pages an operation has no flag, and closing a row clears one; and
\* where a request can find that there is nothing to do, the list is reloaded.
Usual(h) ==
    /\ Typed(h) /\ ~h.cancels
    /\ h.mints => \A op \in Ops : h.after[op] = "reload"
    /\ \A op \in Ops : h.flag[op] # "none"

\* The names of an operation and its row identify it.
LEMMA OnIs ==
  \A op, r : On(op, r).op = op /\ On(op, r).row = r
  BY DEF On

\* The pages of rules and contacts, and those that are like them.
LEMMA ListFormUsual ==
  /\ Usual(ListForm)
  /\ \A op \in Ops : ListForm.flag[op] = IF op = "create" THEN "form" ELSE "slot"
  /\ \A op \in Ops : ListForm.after[op] = "reload"
  BY DEF ListForm, Usual, Typed, All, Ops, Flags, Afters

LEMMA HandlersUsual ==
  \A p \in Pages : /\ Typed(HandlersOf[p])
                   /\ HandlersOf[p].cancels => p = "inventory"
                   /\ HandlersOf[p].mints =>
                         \A op \in Ops : HandlersOf[p].after[op] = "reload"
                   /\ p # "dsar" => \A op \in Ops : HandlersOf[p].flag[op] # "none"
<1>1. /\ Usual(IpAllowlistHandlers) /\ Usual(SecurityContactsHandlers)
      /\ Usual(MembersHandlers) /\ Usual(MfaLockoutsHandlers)
  BY ListFormUsual DEF Usual, Typed, ListForm, IpAllowlistHandlers, SecurityContactsHandlers,
     MembersHandlers, MfaLockoutsHandlers
<1>2. /\ Usual(LegalHoldsHandlers) /\ Usual(ScimHandlers) /\ Usual(ExportSigningHandlers)
      /\ Typed(DsarHandlers) /\ ~DsarHandlers.cancels /\ ~DsarHandlers.mints
  BY DEF Usual, Typed, ListForm, All, Flags, Ops, Afters, LegalHoldsHandlers, ScimHandlers,
     ExportSigningHandlers, DsarHandlers
<1>3. /\ Usual(ExpiredInvitesHandlers) /\ Usual(SessionsHandlers)
      /\ Usual(PatAuthLockoutHandlers) /\ Usual(SubprocessorsHandlers)
  BY DEF Usual, Typed, ListForm, All, Flags, Ops, Afters, ExpiredInvitesHandlers,
     SessionsHandlers, PatAuthLockoutHandlers, SubprocessorsHandlers
<1>4. /\ Usual(WebhooksHandlers) /\ Usual(CollectionsHandlers)
  BY DEF Usual, Typed, ListForm, All, Flags, Ops, Afters, WebhooksHandlers, CollectionsHandlers
<1>5. Usual(SharesHandlers) /\ Usual(KeysHandlers)
  BY DEF Usual, Typed, ListForm, All, Flags, Ops, Afters, SharesHandlers, KeysHandlers
<1>6. /\ Typed(InventoryHandlers) /\ ~InventoryHandlers.mints
      /\ \A op \in Ops : InventoryHandlers.flag[op] # "none"
  BY DEF Usual, Typed, ListForm, All, Flags, Ops, Afters, InventoryHandlers
<1>7. \A p \in Pages :
         \/ Usual(HandlersOf[p])
         \/ p = "dsar" /\ HandlersOf[p] = DsarHandlers
         \/ p = "inventory" /\ HandlersOf[p] = InventoryHandlers
  BY <1>1, <1>2, <1>3, <1>4, <1>5 DEF HandlersOf, EmbedOriginsHandlers,
     InviteDomainsHandlers, TrustedProxiesHandlers, SupportAccessHandlers
<1> QED
  BY <1>2, <1>6, <1>7 DEF Usual

\* Controls that offer an operation only while the flag of it is not held by
\* that operation, and by no operation at all if the flag is the form's.
Offers(h, S) ==
    \A o \in S : o.op \in Ops =>
        /\ h.flag[o.op] = "form" => Idle(ui, "form")
        /\ h.flag[o.op] # "none" => ui.busy[h.flag[o.op]] # o

\* ... which is what every page does.
LEMMA PagesOffer ==
  ASSUME page \in Pages
  PROVE  Offers(Handlers, Controls)
<1>1. Offers(IpAllowlistHandlers, IpAllowlistControls(ui))
  BY DEF Offers, ListForm, All, Ops, Flags, Form, Each, Ask, When, On, Of, Idle, Free,
     Listed, Ready, IpAllowlistHandlers, IpAllowlistControls
<1>2. Offers(SecurityContactsHandlers, SecurityContactsControls(ui))
  BY DEF Offers, ListForm, All, Ops, Flags, Form, Each, Ask, When, On, Of, Idle, Free,
     Listed, Ready, SecurityContactsHandlers, SecurityContactsControls, SecurityContactsRow
<1>3. Offers(SubprocessorsHandlers, SubprocessorsControls(ui))
  BY DEF Offers, ListForm, All, Ops, Flags, Form, Each, Ask, When, On, Of, Idle, Free,
     Listed, Ready, SubprocessorsHandlers, SubprocessorsControls, SubprocessorsRow
<1>4. Offers(MembersHandlers, MembersControls(ui))
  BY DEF Offers, ListForm, All, Ops, Flags, Form, Each, Ask, When, On, Of, Idle, Free,
     Listed, Ready, MembersHandlers, MembersControls, MembersRow
<1>5. Offers(ExpiredInvitesHandlers, ExpiredInvitesControls(ui))
  BY DEF Offers, ListForm, All, Ops, Flags, Form, Each, Ask, When, On, Of, Idle, Free,
     Listed, Ready, ExpiredInvitesHandlers, ExpiredInvitesControls
<1>6. Offers(LegalHoldsHandlers, LegalHoldsControls(ui))
  BY DEF Offers, ListForm, All, Ops, Flags, Form, Each, Ask, When, On, Of, Idle, Free,
     Listed, Ready, LegalHoldsHandlers, LegalHoldsControls, LegalHoldsRow
<1>7. Offers(DsarHandlers, DsarControls(ui))
  BY DEF Offers, ListForm, All, Ops, Flags, Form, Each, Ask, When, On, Of, Idle, Free,
     Listed, Ready, DsarHandlers, DsarControls, DsarRow
<1>8. Offers(SessionsHandlers, SessionsControls(ui))
  BY DEF Offers, ListForm, All, Ops, Flags, Form, Each, Ask, When, On, Of, Idle, Free,
     Listed, Ready, SessionsHandlers, SessionsControls, SessionsRow
<1>9. Offers(MfaLockoutsHandlers, MfaLockoutsControls(ui))
  BY DEF Offers, ListForm, All, Ops, Flags, Form, Each, Ask, When, On, Of, Idle, Free,
     Listed, Ready, MfaLockoutsHandlers, MfaLockoutsControls, MfaLockoutsRow
<1>10. Offers(PatAuthLockoutHandlers, PatAuthLockoutControls(ui))
  BY DEF Offers, ListForm, All, Ops, Flags, Form, Each, Ask, When, On, Of, Idle, Free,
     Listed, Ready, PatAuthLockoutHandlers, PatAuthLockoutControls, PatAuthLockoutRow
<1>11. Offers(WebhooksHandlers, WebhooksControls(ui))
  BY DEF Offers, ListForm, All, Ops, Flags, Form, Each, Ask, When, On, Of, Idle, Free,
     Listed, Ready, WebhooksHandlers, WebhooksControls, WebhooksRow
<1>12. Offers(SharesHandlers, SharesControls(ui))
  BY DEF Offers, ListForm, All, Ops, Flags, Form, Each, Ask, When, On, Of, Idle, Free,
     Listed, Ready, SharesHandlers, SharesControls, SharesRow
<1>13. Offers(CollectionsHandlers, CollectionsControls(ui))
  BY DEF Offers, ListForm, All, Ops, Flags, Form, Each, Ask, When, On, Of, Idle, Free,
     Listed, Ready, CollectionsHandlers, CollectionsControls, CollectionsRow
<1>14. Offers(KeysHandlers, KeysControls(ui))
  BY DEF Offers, ListForm, All, Ops, Flags, Form, Each, Ask, When, On, Of, Idle, Free,
     Listed, Ready, KeysHandlers, KeysControls, KeysRow
<1>15. Offers(InventoryHandlers, InventoryControls(ui))
  BY DEF Offers, ListForm, All, Ops, Flags, Form, Each, Ask, When, On, Of, Idle, Free,
     Listed, Ready, InventoryHandlers, InventoryControls
<1>16. Offers(ScimHandlers, ScimControls(ui))
  BY DEF Offers, ListForm, All, Ops, Flags, Form, Each, Ask, When, On, Of, Idle, Free,
     Listed, Ready, ScimHandlers, ScimControls
<1>17. Offers(ExportSigningHandlers, ExportSigningControls(ui))
  BY DEF Offers, ListForm, All, Ops, Flags, Form, Each, Ask, When, On, Of, Idle, Free,
     Listed, Ready, ExportSigningHandlers, ExportSigningControls
<1>18. /\ Offers(EmbedOriginsHandlers, EmbedOriginsControls(ui))
       /\ Offers(InviteDomainsHandlers, InviteDomainsControls(ui))
       /\ Offers(TrustedProxiesHandlers, TrustedProxiesControls(ui))
       /\ Offers(SupportAccessHandlers, SupportAccessControls(ui))
  BY <1>1 DEF EmbedOriginsHandlers, EmbedOriginsControls,
     InviteDomainsHandlers, InviteDomainsControls,
     TrustedProxiesHandlers, TrustedProxiesControls,
     SupportAccessHandlers, SupportAccessControls
<1> QED
  BY <1>1, <1>2, <1>3, <1>4, <1>5, <1>6, <1>7, <1>8, <1>9, <1>10, <1>11, <1>12, <1>13, <1>14, <1>15, <1>16, <1>17, <1>18
     DEF Handlers, HandlersOf, Controls

(***************************************************************************)
(* What the handlers write into the hooks.                                 *)
(***************************************************************************)
\* Versions are numbers, and an error is no list.
LEMMA ListFacts ==
  /\ \A d \in Lists : /\ d.ver \in 1 .. MaxVer /\ d.ver \in Nat /\ d.ver > 0
                      /\ d.rows \in SUBSET Rows
                      /\ d # Failed /\ d # NoList
  /\ NoList.ver = 0 /\ NoList.rows = {}
  /\ Failed # NoList /\ NoList \notin Lists /\ Failed \notin Lists
  /\ MaxVer \in Nat /\ MaxFlight \in Nat /\ 0 \in 0 .. MaxVer /\ 1 \in 1 .. MaxVer
  /\ 1 .. MaxVer \subseteq 0 .. MaxVer
  /\ MaxFlight > 0
  BY ListAssumption DEF Lists, Failed, NoList

\* The flag of an operation is a hook, or none.
LEMMA FlagTyped ==
  ASSUME page \in Pages
  PROVE  /\ \A o : FlagOf(o) \in Flags \union {"none"}
         /\ \A o : o.op \notin Ops => FlagOf(o) = "none"
         /\ \A o : o.op \in Ops => /\ FlagOf(o) = Handlers.flag[o.op]
                                   /\ Then(o) = Handlers.after[o.op]
                                   /\ Then(o) \in Afters
         /\ Handlers.cancels => page = "inventory"
         /\ Handlers.mints => \A o : o.op \in Ops => Then(o) = "reload"
         /\ page # "dsar" => \A o : o.op \in Ops => FlagOf(o) \in Flags
         /\ "none" \notin Flags
<1>1. /\ Typed(Handlers) /\ (Handlers.cancels => page = "inventory")
      /\ Handlers.mints => \A op \in Ops : Handlers.after[op] = "reload"
      /\ page # "dsar" => \A op \in Ops : Handlers.flag[op] # "none"
  BY HandlersUsual DEF Handlers
<1>2. "none" \notin Flags
  BY DEF Flags
<1> QED
  BY <1>1, <1>2 DEF FlagOf, Then, Typed

LEMMA LoadingHooks ==
  ASSUME NEW u \in Hooks
  PROVE  LET v == Loading(u)
         IN  /\ v \in Hooks /\ v.view = "loading"
             /\ v.busy = u.busy /\ v.secret = u.secret
  BY DEF Loading, Hooks

LEMMA LoadingAfterHooks ==
  ASSUME NEW u \in Hooks
  PROVE  LET v == LoadingAfter(u)
         IN  v \in Hooks /\ v.busy = u.busy /\ v.secret = u.secret
<1>1. LoadingAfter(u) = u \/ LoadingAfter(u) = Loading(u)
  BY DEF LoadingAfter
<1> QED
  BY <1>1, LoadingHooks

LEMMA ShownHooks ==
  ASSUME NEW u \in Hooks, NEW d \in Lists \union {Failed}
  PROVE  LET v == Shown(u, d)
         IN  /\ v \in Hooks /\ v.busy = u.busy /\ v.secret = u.secret
             /\ d = Failed => v.view = "error"
             /\ d # Failed => v.view = "ready" /\ v.data = d
<1>1. CASE d = Failed
  BY <1>1 DEF Shown, Hooks
<1>2. CASE d # Failed
  BY <1>2 DEF Shown, Hooks
<1> QED
  BY <1>1, <1>2

\* The flags after the operation o has ended: its own is free if it held it.
Released(b, c, o) ==
    \A f \in Flags : IF f = FlagOf(o)
                     THEN c[f] \in {Free, b[f]} /\ (b[f] = o => c[f] = Free)
                     ELSE c[f] = b[f]

LEMMA FinishedHooks ==
  ASSUME page \in Pages, NEW u \in Hooks, NEW o \in Operations
  PROVE  LET v == Finished(u, o)
         IN  /\ v \in Hooks /\ v.view = u.view /\ v.data = u.data /\ v.secret = u.secret
             /\ Released(u.busy, v.busy, o)
<1>1. Free \in Operations
  BY DEF Free, Of, On, Operations
<1>2. FlagOf(o) \in Flags \union {"none"} /\ "none" \notin Flags
  BY FlagTyped
<1>3. CASE FlagOf(o) = "none" \/ (o.op \in Handlers.own /\ u.busy[FlagOf(o)] # o)
  <2>1. Finished(u, o) = u
    BY <1>3 DEF Finished
  <2> QED
    BY <1>2, <1>3, <2>1 DEF Released
<1>4. CASE ~(FlagOf(o) = "none" \/ (o.op \in Handlers.own /\ u.busy[FlagOf(o)] # o))
  <2> DEFINE f == FlagOf(o)
  <2>1. Finished(u, o) = [u EXCEPT !.busy[f] = Free] /\ f \in Flags
    BY <1>2, <1>4 DEF Finished
  <2> HIDE DEF f
  <2> DEFINE v == Finished(u, o)
  <2>2. v \in Hooks /\ v.view = u.view /\ v.data = u.data /\ v.secret = u.secret
    BY <1>1, <2>1 DEF Hooks
  <2>3. \A g \in Flags : v.busy[g] = IF g = f THEN Free ELSE u.busy[g]
    BY <2>1 DEF Hooks
  <2>4. Released(u.busy, v.busy, o)
    BY <2>1, <2>3 DEF Released, f
  <2> QED
    BY <2>2, <2>4
<1> QED
  BY <1>3, <1>4

\* The secret after a success.
SecretAfter(u, o, d) ==
    CASE o.op \in Handlers.shows /\ d.rows # {} -> d.ver
      [] o.op \in Handlers.drops -> 0
      [] OTHER -> u.secret

LEMMA SucceededHooks ==
  ASSUME NEW u \in Hooks, NEW o \in Operations, NEW d \in Lists \union {NoList}
  PROVE  LET v == Succeeded(u, o, d)
         IN  /\ v \in Hooks /\ v.busy = u.busy
             /\ v.secret = SecretAfter(u, o, d)
             /\ Then(o) = "adopt" => v.data = d
             /\ Then(o) \notin {"adopt", "cut"} => v.view = u.view /\ v.data = u.data
<1> DEFINE s == CASE o.op \in Handlers.shows /\ d.rows # {} -> d.ver
                  [] o.op \in Handlers.drops -> 0
                  [] OTHER -> u.secret
           x == CASE Then(o) = "adopt" -> d
                  [] Then(o) = "cut" -> [u.data EXCEPT !.rows = @ \ {o.row}]
                  [] OTHER -> u.data
           w == IF Then(o) = "adopt" THEN "ready" ELSE u.view
           p == IF o.op \in Handlers.closes THEN NoRow ELSE u.open
           g == u.dialog /\ o.op # "purge"
<1>1. s = SecretAfter(u, o, d) /\ s \in 0 .. MaxVer
  <2>1. d.ver \in 0 .. MaxVer /\ 0 \in 0 .. MaxVer /\ u.secret \in 0 .. MaxVer
    BY ListFacts DEF Hooks
  <2> QED
    BY <2>1 DEF SecretAfter
<1>2. /\ x \in Lists \union {NoList} /\ (Then(o) = "adopt" => x = d)
      /\ Then(o) \notin {"adopt", "cut"} => x = u.data
  <2>1. u.data \in Lists \union {NoList}
    BY DEF Hooks
  <2>2. [u.data EXCEPT !.rows = @ \ {o.row}] \in Lists \union {NoList}
    BY <2>1 DEF Lists, NoList
  <2> QED
    BY <2>1, <2>2
<1>3. /\ w \in {"loading", "error", "ready"} /\ (Then(o) # "adopt" => w = u.view)
      /\ p \in Rows \union {NoRow}
  BY DEF Hooks
<1>4. Succeeded(u, o, d) =
         [u EXCEPT !.open = p, !.dialog = g, !.secret = s, !.view = w, !.data = x]
  BY DEF Succeeded
<1>6. g \in BOOLEAN
  OBVIOUS
<1> HIDE DEF s, x, w, p, g
<1>5. LET v == [u EXCEPT !.open = p, !.dialog = g, !.secret = s, !.view = w, !.data = x]
      IN  /\ v \in Hooks /\ v.busy = u.busy /\ v.secret = s /\ v.data = x /\ v.view = w
  BY <1>1, <1>2, <1>3, <1>6 DEF Hooks
<1> QED
  BY <1>1, <1>2, <1>3, <1>4, <1>5

(***************************************************************************)
(* The requests in flight.                                                 *)
(***************************************************************************)
\* Where the request at place k was before request i was taken out.
Place(k, i) == IF k < i THEN k ELSE k + 1

\* Taking a request out keeps the others, in their order.
LEMMA WithoutOne ==
  ASSUME net \in Seq(Requests), NEW i \in DOMAIN net
  PROVE  /\ Without(i) \in Seq(Requests)
         /\ Len(Without(i)) = Len(net) - 1
         /\ DOMAIN Without(i) = 1 .. Len(net) - 1
         /\ \A k \in DOMAIN Without(i) :
               /\ Place(k, i) \in DOMAIN net \ {i}
               /\ Without(i)[k] = net[Place(k, i)]
               /\ \A j \in DOMAIN Without(i) : j < k => Place(j, i) < Place(k, i)
         /\ \A k \in DOMAIN net \ {i} :
               \E j \in DOMAIN Without(i) : k = Place(j, i) /\ Without(i)[j] = net[k]
<1>1. DOMAIN net = 1 .. Len(net) /\ Len(net) \in Nat /\ Len(net) > 0
  OBVIOUS
<1>2. \A k \in 1 .. Len(net) - 1 :
         /\ Place(k, i) \in DOMAIN net \ {i}
         /\ \A j \in 1 .. Len(net) - 1 : j < k => Place(j, i) < Place(k, i)
  BY <1>1 DEF Place
<1>3. Without(i) = [k \in 1 .. Len(net) - 1 |-> net[Place(k, i)]]
  BY DEF Without, Place
<1>4. \A k \in 1 .. Len(net) - 1 : net[Place(k, i)] \in Requests
  BY <1>1, <1>2
<1>5. Len(net) - 1 \in Nat
  BY <1>1
<1>6. Without(i) \in [1 .. Len(net) - 1 -> Requests]
  BY <1>3, <1>4
<1>7. Without(i) \in Seq(Requests) /\ Len(Without(i)) = Len(net) - 1
  BY <1>5, <1>6
<1>8. ASSUME NEW k \in DOMAIN net \ {i}
      PROVE  \E j \in 1 .. Len(net) - 1 : k = Place(j, i)
  <2>1. CASE k < i
    BY <1>1, <2>1 DEF Place
  <2>2. CASE k > i
    <3>1. k - 1 \in 1 .. Len(net) - 1 /\ ~(k - 1 < i) /\ (k - 1) + 1 = k
      BY <1>1, <2>2
    <3> QED
      BY <3>1 DEF Place
  <2> QED
    BY <1>1, <2>1, <2>2
<1> QED
  BY <1>2, <1>3, <1>7, <1>8

\* A new request has the right shape.
LEMMA RequestTyped ==
  ASSUME NEW kind \in {"get", "write", "elsewhere"}, NEW o \in Operations
  PROVE  LET r == Request(kind, o)
         IN  /\ r \in Requests /\ r.kind = kind /\ r.op = o.op /\ Doing(r) = o
             /\ r.answered = FALSE
  BY DEF Request, Requests, Operations, Doing, On

\* ... and is the last one.
LEMMA AppendTyped ==
  ASSUME NEW s \in Seq(Requests), NEW r \in Requests
  PROVE  LET t == Append(s, r)
         IN  /\ t \in Seq(Requests) /\ Len(t) = Len(s) + 1
             /\ DOMAIN s = 1 .. Len(s) /\ DOMAIN t = 1 .. Len(s) + 1
             /\ \A k \in DOMAIN s : k \in DOMAIN t /\ t[k] = s[k]
             /\ t[Len(s) + 1] = r
             /\ \A k \in DOMAIN t : k \in DOMAIN s \/ k = Len(s) + 1
  OBVIOUS

\* What a request does is an operation, named by the request.
LEMMA DoingTyped ==
  ASSUME NEW m \in Requests
  PROVE  Doing(m) \in Operations /\ Doing(m).op = m.op /\ Doing(m).row = m.row
  BY DEF Doing, On, Operations, Requests

\* Nothing is done by holding no operation.
LEMMA FreeTyped ==
  /\ Free \in Operations /\ Free.op = "none" /\ "none" \notin Ops
  /\ page \in Pages => FlagOf(Free) = "none"
  BY FlagTyped DEF Free, Of, On, Operations, Ops

(***************************************************************************)
(* Types.                                                                  *)
(***************************************************************************)
\* The answer of a request is a list or an error, or, to a write that found
\* nothing to do, no list.
AnswerOK(m) ==
    \/ m.answer \in Lists \union {Failed}
    \/ m.answer = NoList /\ m.kind = "write" /\ Handlers.mints

\* A write has an operation, and what is loaded elsewhere follows one.
Shaped(m) ==
    /\ m.answered => AnswerOK(m)
    /\ m.kind # "get" => m.op \in Ops
    /\ m.kind = "elsewhere" => Then(Doing(m)) = "elsewhere"

TypeInv == ListTypeOK /\ \A i \in DOMAIN net : Shaped(net[i])

\* A request of the page is a request, and its answer a list or an error.
LEMMA Requested ==
  ASSUME TypeInv
  PROVE  /\ page \in Pages /\ ui \in Hooks /\ doc \in Lists
         /\ net \in Seq(Requests) /\ Len(net) \in Nat /\ Len(net) <= MaxFlight
         /\ DOMAIN net = 1 .. Len(net)
         /\ seen \in 0 .. MaxVer /\ told \in 0 .. MaxVer /\ wrote \in 0 .. MaxVer
         /\ overtook \in BOOLEAN /\ crossed \subseteq Operations
         /\ \A i \in DOMAIN net :
               /\ net[i] \in Requests /\ Shaped(net[i])
               /\ Doing(net[i]) \in Operations
               /\ net[i].kind = "write" => net[i].op \in Ops
<1>1. \A i \in DOMAIN net : net[i] \in Requests
  BY DEF TypeInv, ListTypeOK
<1> QED
  BY <1>1, DoingTyped DEF TypeInv, ListTypeOK, Shaped

(***************************************************************************)
(* What the steps do.                                                      *)
(***************************************************************************)
\* An operation starts.
LEMMA Sent ==
  ASSUME TypeInv, NEW op \in Ops, NEW r \in Rows \union {NoRow}, Send(On(op, r))
  PROVE  LET o == On(op, r)
             f == FlagOf(o)
         IN  /\ o \in Operations /\ o.op \in Ops /\ o \in Controls
             /\ Len(net) < MaxFlight
             /\ net' = Append(net, Request("write", o))
             /\ UNCHANGED <<page, doc, seen, told, wrote, overtook>>
             /\ crossed' = crossed \union
                              IF Rivals(o, f) = {} THEN {} ELSE Rivals(o, f) \union {o}
             /\ ui' \in Hooks /\ ui'.view = ui.view /\ ui'.data = ui.data
             /\ f \notin Flags => ui'.busy = ui.busy
             /\ f \in Flags => /\ ui'.busy[f] = o
                               /\ \A g \in Flags : g # f => ui'.busy[g] = ui.busy[g]
             /\ ui'.secret = IF op \in Handlers.hides THEN 0 ELSE ui.secret
<1> DEFINE o == On(op, r)
           f == FlagOf(o)
<1>1. o \in Operations /\ o.op = op
  BY DEF On, Operations
<1>2. f \in Flags \union {"none"} /\ "none" \notin Flags /\ ui \in Hooks /\ 0 \in 0 .. MaxVer
  BY FlagTyped, Requested, ListFacts
<1>3. /\ o \in Controls /\ HasRoom
      /\ ui' = [ui EXCEPT !.busy = IF f = "none" THEN @ ELSE [@ EXCEPT ![f] = o],
                          !.secret = IF o.op \in Handlers.hides THEN 0 ELSE @]
      /\ crossed' = crossed \union
                       IF Rivals(o, f) = {} THEN {} ELSE Rivals(o, f) \union {o}
      /\ net' = Append(net, Request("write", o))
      /\ UNCHANGED <<page, doc, seen, told, wrote, overtook>>
  BY DEF Send
<1> HIDE DEF o, f
<1> DEFINE b == IF f = "none" THEN ui.busy ELSE [ui.busy EXCEPT ![f] = o]
           s == IF o.op \in Handlers.hides THEN 0 ELSE ui.secret
<1>4. /\ b \in [Flags -> Operations]
      /\ f \notin Flags => b = ui.busy
      /\ f \in Flags => /\ b[f] = o
                        /\ \A g \in Flags : g # f => b[g] = ui.busy[g]
  BY <1>1, <1>2 DEF Hooks
<1>5. s \in 0 .. MaxVer
  BY <1>2 DEF Hooks
<1>6. ui' = [ui EXCEPT !.busy = b, !.secret = s]
  BY <1>3
<1> HIDE DEF b
<1>7. /\ ui' \in Hooks /\ ui'.view = ui.view /\ ui'.data = ui.data
      /\ ui'.busy = b /\ ui'.secret = s
  BY <1>2, <1>4, <1>5, <1>6 DEF Hooks
<1> QED
  BY <1>1, <1>3, <1>4, <1>7 DEF HasRoom, o, f

\* A load starts, of the page's own accord.
LEMMA Reloaded ==
  ASSUME TypeInv, Reload
  PROVE  /\ Len(net) < MaxFlight
         /\ net' = Append(net, Load(Free))
         /\ UNCHANGED <<page, doc, seen, told, wrote, overtook, crossed>>
         /\ ui' \in Hooks /\ ui'.view = "loading"
         /\ ui'.busy = ui.busy /\ ui'.secret = ui.secret
<1>1. ui \in Hooks
  BY Requested
<1> QED
  BY <1>1, LoadingHooks DEF Reload, HasRoom

\* Something only this tab sees: a row or a dialog opens or closes, a secret is
\* dismissed.
Locally ==
    /\ UNCHANGED <<page, doc, net, seen, told, wrote, overtook, crossed>>
    /\ ui' \in Hooks /\ ui'.view = ui.view /\ ui'.data = ui.data
    /\ ui'.secret \in {0, ui.secret}
    /\ \A f \in Flags : ui'.busy[f] = ui.busy[f] \/ (ui'.busy[f] = Free /\ page = "inventory")

LEMMA Here ==
  ASSUME TypeInv, NEW r \in Rows, Open(r) \/ Close(r)
  PROVE  Locally
<1>1. ui \in Hooks /\ page \in Pages /\ 0 \in 0 .. MaxVer
  BY Requested, ListFacts
<1>2. CASE Open(r)
  BY <1>1, <1>2 DEF Open, Local, Locally, Hooks
<1>4. CASE Close(r)
  <2> DEFINE b == [ui.busy EXCEPT !["form"] = IF Handlers.cancels THEN Free ELSE @]
  <2>1. ui' = [ui EXCEPT !.open = NoRow, !.busy = b]
    BY <1>4 DEF Close
  <2>2. /\ b \in [Flags -> Operations]
        /\ \A f \in Flags : b[f] = ui.busy[f] \/ (b[f] = Free /\ Handlers.cancels)
    BY <1>1, FreeTyped DEF Hooks
  <2> HIDE DEF b
  <2>3. /\ ui' \in Hooks /\ ui'.view = ui.view /\ ui'.data = ui.data
        /\ ui'.secret = ui.secret /\ ui'.busy = b
    BY <1>1, <2>1, <2>2 DEF Hooks
  <2> QED
    BY <1>1, <1>4, <2>2, <2>3, FlagTyped DEF Close, Local, Locally
<1> QED
  BY <1>2, <1>4

\* The server answers request i: a read with the list, a write with the list
\* after it, or that there was nothing to do, or with an error, whether the
\* write took effect or not.
Answered(i) ==
    /\ i \in DOMAIN net /\ ~net[i].answered
    /\ doc' \in Lists /\ doc'.ver >= doc.ver
    /\ net' \in Seq(Requests) /\ Len(net') = Len(net)
    /\ \A j \in DOMAIN net : j # i => net'[j] = net[j]
    /\ net'[i].kind = net[i].kind /\ net'[i].op = net[i].op
    /\ Doing(net'[i]) = Doing(net[i])
    /\ net'[i].answered
    /\ \/ net'[i].answer \in {doc', Failed}
       \/ net'[i].answer = NoList /\ Handlers.mints /\ ~Reads(net[i])
    /\ ~Reads(net[i]) /\ net'[i].answer \notin {Failed, NoList} =>
          doc'.rows \in After(Doing(net[i]), doc.rows)
    /\ wrote' = wrote \/ (wrote' = doc'.ver /\ ~Reads(net[i]))
    /\ overtook' = (overtook \/ \E j \in 1 .. i - 1 : ~net[j].answered)
    /\ UNCHANGED <<page, ui, seen, told, crossed>>

LEMMA AnswerDoes ==
  ASSUME TypeInv, NEW i, Answer(i)
  PROVE  Answered(i)
<1> DEFINE m == net[i]
           ans(a) == [m EXCEPT !.answered = TRUE, !.answer = a]
<1>1. i \in DOMAIN net /\ ~m.answered /\ m \in Requests
  BY Requested DEF Answer
<1>2. doc \in Lists /\ doc.rows \in SUBSET Rows /\ doc.ver \in Nat /\ net \in Seq(Requests)
  BY Requested, ListFacts
<1>3. \A o \in Operations, rs \in SUBSET Rows : After(o, rs) \subseteq SUBSET Rows
  BY DEF After
<1> DEFINE Says(a) == net' = [net EXCEPT ![i] = ans(a)]
           Good(a) ==
               /\ doc' \in Lists /\ doc'.ver >= doc.ver
               /\ a \in {doc', Failed} \/ (a = NoList /\ Handlers.mints /\ ~Reads(m))
               /\ ~Reads(m) /\ a \notin {Failed, NoList} =>
                     doc'.rows \in After(Doing(m), doc.rows)
               /\ wrote' = wrote \/ (wrote' = doc'.ver /\ ~Reads(m))
<1>4. \/ /\ ~Reads(m) /\ doc.ver < MaxVer /\ wrote' \in {wrote, doc'.ver}
         /\ \E rs \in After(Doing(m), doc.rows) : doc' = [ver |-> doc.ver + 1, rows |-> rs]
         /\ \E a \in {doc', Failed} : Says(a)
      \/ Reads(m) /\ UNCHANGED <<doc, wrote>> /\ \E a \in {doc, Failed} : Says(a)
      \/ /\ ~Reads(m) /\ UNCHANGED <<doc, wrote>>
         /\ Says(Failed) \/ (Handlers.mints /\ Says(NoList))
  <2> DEFINE answers(d) == {ans(a) : a \in {d, Failed}}
  <2>1. \A d : (\E a \in answers(d) : net' = [net EXCEPT ![i] = a]) =>
              \E a \in {d, Failed} : Says(a)
    OBVIOUS
  <2>2. \/ /\ ~Reads(m) /\ doc.ver < MaxVer /\ wrote' \in {wrote, doc'.ver}
           /\ \E rs \in After(Doing(m), doc.rows) : doc' = [ver |-> doc.ver + 1, rows |-> rs]
           /\ \E a \in answers(doc') : net' = [net EXCEPT ![i] = a]
        \/ /\ Reads(m) /\ UNCHANGED <<doc, wrote>>
           /\ \E a \in answers(doc) : net' = [net EXCEPT ![i] = a]
        \/ /\ ~Reads(m) /\ UNCHANGED <<doc, wrote>>
           /\ \E a \in answers(IF Moot(m) THEN NoList ELSE Failed) : net' = [net EXCEPT ![i] = a]
    BY DEF Answer
  <2> HIDE DEF answers, ans, Says
  <2>3. Moot(m) => Handlers.mints
    BY DEF Moot
  <2>4. (\E a \in answers(IF Moot(m) THEN NoList ELSE Failed) : net' = [net EXCEPT ![i] = a])
           => Says(Failed) \/ (Handlers.mints /\ Says(NoList))
    BY <2>1, <2>3
  <2> QED
    BY <2>1, <2>2, <2>4
<1> HIDE DEF Says
<1>5. \E a : Says(a) /\ Good(a)
  <2>1. CASE /\ ~Reads(m) /\ doc.ver < MaxVer /\ wrote' \in {wrote, doc'.ver}
             /\ \E rs \in After(Doing(m), doc.rows) : doc' = [ver |-> doc.ver + 1, rows |-> rs]
             /\ \E a \in {doc', Failed} : Says(a)
    <3>1. PICK rs \in After(Doing(m), doc.rows) : doc' = [ver |-> doc.ver + 1, rows |-> rs]
      BY <2>1
    <3>2. rs \in SUBSET Rows
      BY <1>1, <1>2, <1>3, <3>1, DoingTyped
    <3>3. doc.ver + 1 \in 1 .. MaxVer
      BY <1>2, <2>1, ListFacts
    <3>4. doc' \in Lists /\ doc'.ver = doc.ver + 1 /\ doc'.rows = rs
      BY <3>1, <3>2, <3>3 DEF Lists
    <3>5. \A a \in {doc', Failed} : Good(a)
      BY <1>2, <2>1, <3>1, <3>4
    <3> QED
      BY <2>1, <3>5
  <2>2. CASE Reads(m) /\ UNCHANGED <<doc, wrote>> /\ \E a \in {doc, Failed} : Says(a)
    BY <1>2, <2>2
  <2>3. CASE /\ ~Reads(m) /\ UNCHANGED <<doc, wrote>>
             /\ Says(Failed) \/ (Handlers.mints /\ Says(NoList))
    BY <1>2, <2>3
  <2> QED
    BY <1>4, <2>1, <2>2, <2>3
<1>6. PICK a : Says(a) /\ Good(a)
  BY <1>5
<1> DEFINE r == ans(a)
<1>7. a \in Lists \union {NoList, Failed}
  BY <1>6
<1>8. /\ r \in Requests /\ r.kind = m.kind /\ r.op = m.op /\ r.row = m.row
      /\ r.answered /\ r.answer = a
  BY <1>1, <1>7 DEF Requests
<1>9. net' = [net EXCEPT ![i] = r]
  BY <1>6 DEF Says
<1> HIDE DEF r
<1>10. /\ net' \in Seq(Requests) /\ Len(net') = Len(net)
       /\ \A j \in DOMAIN net : j # i => net'[j] = net[j]
       /\ net'[i] = r
  BY <1>1, <1>2, <1>8, <1>9
<1>11. Doing(r) = Doing(m)
  BY <1>8 DEF Doing
<1>12. /\ overtook' = (overtook \/ \E j \in 1 .. i - 1 : ~net[j].answered)
       /\ UNCHANGED <<page, ui, seen, told, crossed>>
  BY DEF Answer
<1> HIDE DEF m, ans, Good
<1>13. /\ net'[i].kind = m.kind /\ net'[i].op = m.op
       /\ net'[i].answered /\ net'[i].answer = a
  BY <1>8, <1>10
<1>14. Doing(net'[i]) = Doing(m)
  BY <1>10, <1>11
<1>15. Good(net'[i].answer)
  BY <1>6, <1>13
<1> QED
  BY <1>1, <1>10, <1>12, <1>13, <1>15, <1>14 DEF Answered, Good, m

\* An answer that tells of a list.
Bears(m) == m.answer \notin {Failed, NoList}

\* The handler of request i takes its answer.
Arrived(i) ==
    LET m == net[i]
        ok == m.answer # Failed
    IN  /\ i \in DOMAIN net /\ m.answered
        /\ UNCHANGED <<page, doc, wrote>>
        /\ crossed' = crossed \intersect {Doing(net'[k]) : k \in DOMAIN net'}
        /\ overtook' = (overtook \/ i > 1)
        /\ seen' = IF Bears(m) /\ Told(m) THEN Newest(seen, m.answer.ver) ELSE seen
        /\ told' = IF OneToken /\ Bears(m) /\ m.kind = "write" /\ ~Reads(m)
                   THEN Newest(told, m.answer.ver) ELSE told
        /\ ui' \in Hooks
        /\ ui'.secret = IF m.kind = "write" /\ ok
                        THEN SecretAfter(ui, Doing(m), m.answer) ELSE ui.secret

\* It loads again, the list or something else, and holds its flag until that
\* ends, or it does not;
LoadsHolding(i) ==
    /\ net[i].kind = "write"
    /\ net' = Append(Without(i), Load(Doing(net[i])))
    /\ ui'.busy = ui.busy
LoadsElsewhere(i) ==
    /\ net[i].kind = "write" /\ ~Told(net[i])
    /\ Then(Doing(net[i])) = "elsewhere"
    /\ net' = Append(Without(i), Request("elsewhere", Doing(net[i])))
    /\ ui'.busy = ui.busy /\ ui'.view = ui.view /\ ui'.data = ui.data
LoadsFree(i) ==
    /\ net[i].kind = "write"
    /\ net' = Append(Without(i), Load(Free))
    /\ Released(ui.busy, ui'.busy, Doing(net[i]))

\* or it is done: the list is shown, or taken from the answer, or left alone.
Ends(i) ==
    LET m == net[i]
    IN  /\ net' = Without(i)
        /\ Released(ui.busy, ui'.busy, Doing(m))
        /\ \/ /\ m.kind = "get"
              /\ Bears(m) => ui'.view = "ready" /\ ui'.data = m.answer
              /\ ~Bears(m) => ui'.view = "error"
           \/ m.kind = "write" /\ Bears(m) /\ Told(m) /\ ui'.data = m.answer
           \/ /\ m.kind # "get" /\ ~(Bears(m) /\ Told(m))
              /\ ui'.view = ui.view /\ ui'.data = ui.data

Handled(i) == LoadsHolding(i) \/ LoadsElsewhere(i) \/ LoadsFree(i) \/ Ends(i)

LEMMA DeliverDoes ==
  ASSUME TypeInv, NEW i, Deliver(i)
  PROVE  Arrived(i) /\ Handled(i)
<1> DEFINE m == net[i]
           o == Doing(m)
           ok == m.answer # Failed
           u == Succeeded(ui, o, m.answer)
           then == IF m.kind = "write" /\ ok THEN Then(o) ELSE "end"
<1>1. /\ i \in DOMAIN net /\ m.answered
      /\ overtook' = (overtook \/ i > 1)
      /\ seen' = IF ok /\ Told(m) THEN Newest(seen, m.answer.ver) ELSE seen
      /\ told' = IF OneToken /\ ok /\ m.kind = "write" /\ ~Reads(m)
                 THEN Newest(told, m.answer.ver) ELSE told
      /\ crossed' = crossed \intersect {Doing(net'[k]) : k \in DOMAIN net'}
      /\ UNCHANGED <<page, doc, wrote>>
  BY DEF Deliver
<1>2. ( CASE then = "reload" ->
             ui' = LoadingAfter(u) /\ net' = Append(Without(i), Load(o))
        [] then \in {"resync", "cut"} ->
             ui' = LoadingAfter(Finished(u, o)) /\ net' = Append(Without(i), Load(Free))
        [] then = "elsewhere" ->
             ui' = u /\ net' = Append(Without(i), Request("elsewhere", o))
        [] then \in {"adopt", "patch", "aside"} ->
             ui' = Finished(u, o) /\ net' = Without(i)
        [] OTHER ->
             /\ ui' = Finished(IF m.kind = "get" THEN Shown(ui, m.answer) ELSE ui, o)
             /\ net' = Without(i) )
  BY DEF Deliver
<1>3. /\ ui \in Hooks /\ page \in Pages /\ m \in Requests /\ o \in Operations
      /\ m.answered /\ Shaped(m) /\ m.kind \in {"get", "write", "elsewhere"}
      /\ m.kind = "write" => m.op \in Ops
  BY <1>1, Requested DEF Requests
<1>7. m.answer \in Lists \union {NoList, Failed} /\ seen \in Nat /\ told \in Nat
  BY <1>3, Requested, ListFacts DEF Shaped, AnswerOK
<1>8. m.answer = NoList => m.kind = "write" /\ Handlers.mints
  BY <1>3, ListFacts DEF Shaped, AnswerOK
<1>9. /\ seen' = IF Bears(m) /\ Told(m) THEN Newest(seen, m.answer.ver) ELSE seen
      /\ told' = IF OneToken /\ Bears(m) /\ m.kind = "write" /\ ~Reads(m)
                 THEN Newest(told, m.answer.ver) ELSE told
  <2>1. Newest(seen, NoList.ver) = seen /\ Newest(told, NoList.ver) = told
    BY <1>7, ListFacts DEF Newest
  <2> QED
    BY <1>1, <2>1 DEF Bears
<1>4. o.op = m.op
  BY <1>3, DoingTyped
<1> HIDE DEF u, o, m, then
<1> SUFFICES /\ ui' \in Hooks
             /\ ui'.secret = IF m.kind = "write" /\ ok
                             THEN SecretAfter(ui, o, m.answer) ELSE ui.secret
             /\ Handled(i)
  BY <1>1, <1>9 DEF Arrived, m, o
<1> USE <1>3 DEF Handled
<1>5. CASE m.kind = "write" /\ ok
  <2>1. /\ then = Then(o) /\ Then(o) \in Afters /\ m.answer \in Lists \union {NoList}
        /\ Then(o) # "reload" => Bears(m)
    <3>1. then = Then(o) /\ Then(o) \in Afters /\ (Handlers.mints => Then(o) = "reload")
      BY <1>4, <1>5, FlagTyped DEF then
    <3> QED
      BY <1>5, <1>7, <1>8, <3>1 DEF Bears
  <2>2. /\ u \in Hooks /\ u.busy = ui.busy
        /\ u.secret = SecretAfter(ui, o, m.answer)
        /\ Then(o) = "adopt" => u.data = m.answer
        /\ Then(o) \notin {"adopt", "cut"} => u.view = ui.view /\ u.data = ui.data
    BY <2>1, SucceededHooks DEF u
  <2>3. CASE then = "reload"
    <3>1. ui' = LoadingAfter(u) /\ net' = Append(Without(i), Load(o))
      BY <1>2, <2>3
    <3>2. ui' \in Hooks /\ ui'.busy = ui.busy /\ ui'.secret = u.secret
      BY <2>2, <3>1, LoadingAfterHooks
    <3> QED
      BY <1>5, <2>2, <3>1, <3>2 DEF LoadsHolding, m, o
  <2>4. CASE then \in {"resync", "cut"}
    <3> DEFINE v == Finished(u, o)
    <3>1. ui' = LoadingAfter(v) /\ net' = Append(Without(i), Load(Free))
      BY <1>2, <2>4
    <3>2. v \in Hooks /\ v.secret = u.secret /\ Released(u.busy, v.busy, o)
      BY <2>2, FinishedHooks
    <3> HIDE DEF v
    <3>3. ui' \in Hooks /\ ui'.busy = v.busy /\ ui'.secret = v.secret
      BY <3>1, <3>2, LoadingAfterHooks
    <3>4. Released(ui.busy, ui'.busy, o)
      BY <2>2, <3>2, <3>3
    <3> QED
      BY <1>5, <2>2, <3>1, <3>2, <3>3, <3>4 DEF LoadsFree, m, o
  <2>6. CASE then = "elsewhere"
    <3>1. ui' = u /\ net' = Append(Without(i), Request("elsewhere", o))
      BY <1>2, <2>6
    <3>2. ~Told(m) /\ Then(o) = "elsewhere"
      BY <1>5, <2>1, <2>6 DEF Told, o
    <3> QED
      BY <1>5, <2>1, <2>2, <2>6, <3>1, <3>2 DEF LoadsElsewhere, m, o
  <2>5. CASE then \in {"adopt", "patch", "aside"}
    <3>1. ui' = Finished(u, o) /\ net' = Without(i)
      BY <1>2, <2>5
    <3>2. /\ ui' \in Hooks /\ ui'.view = u.view /\ ui'.data = u.data
          /\ ui'.secret = u.secret /\ Released(ui.busy, ui'.busy, o)
      BY <2>2, <3>1, FinishedHooks
    <3>3. Told(m) <=> Then(o) = "adopt"
      BY <1>5, <2>1, <2>5 DEF Told, o
    <3>4. \/ Told(m) /\ ui'.data = m.answer
          \/ ~Told(m) /\ ui'.view = ui.view /\ ui'.data = ui.data
      BY <2>1, <2>2, <2>5, <3>2, <3>3
    <3> QED
      BY <1>5, <2>1, <2>2, <2>5, <3>1, <3>2, <3>4 DEF Ends, m, o
  <2> QED
    BY <2>1, <2>3, <2>4, <2>5, <2>6 DEF Afters
<1>6. CASE ~(m.kind = "write" /\ ok)
  <2> DEFINE w == IF m.kind = "get" THEN Shown(ui, m.answer) ELSE ui
  <2>1. ui' = Finished(w, o) /\ net' = Without(i)
    BY <1>2, <1>6 DEF then
  <2>2. /\ w \in Hooks /\ w.busy = ui.busy /\ w.secret = ui.secret
        /\ m.kind = "get" => /\ m.answer = Failed => w.view = "error"
                             /\ m.answer # Failed => w.view = "ready" /\ w.data = m.answer
        /\ m.kind # "get" => w.view = ui.view /\ w.data = ui.data
    <3>1. m.kind = "get" => m.answer \in Lists \union {Failed}
      BY <1>7, <1>8
    <3> QED
      BY <3>1, ShownHooks
  <2> HIDE DEF w
  <2>3. /\ ui' \in Hooks /\ ui'.view = w.view /\ ui'.data = w.data
        /\ ui'.secret = ui.secret /\ Released(ui.busy, ui'.busy, o)
    BY <2>1, <2>2, FinishedHooks
  <2>5. ~(Bears(m) /\ Told(m)) \/ m.kind = "get"
    <3>1. m.kind = "elsewhere" => ~Told(m)
      BY DEF Shaped, Told, o
    <3>2. m.kind = "write" => ~Bears(m)
      BY <1>6 DEF Bears
    <3> QED
      BY <3>1, <3>2
  <2>6. m.kind = "get" => (Bears(m) <=> m.answer # Failed)
    BY <1>8 DEF Bears
  <2>4. Ends(i)
    BY <2>1, <2>2, <2>3, <2>5, <2>6 DEF Ends, m, o
  <2> QED
    BY <1>6, <2>3, <2>4
<1> QED
  BY <1>5, <1>6

\* What a step can be.
LEMMA StepKinds ==
  ASSUME TypeInv, [Next]_vars
  PROVE  \/ Locally
         \/ \E op \in Ops, r \in Rows \union {NoRow} : Send(On(op, r))
         \/ Reload
         \/ OtherAdmin
         \/ \E i : Answered(i)
         \/ \E i : Arrived(i) /\ Handled(i)
<1>1. CASE UNCHANGED vars
  BY <1>1, Requested DEF vars, Locally
<1>2. CASE Dismiss \/ AskAll \/ CancelAll
  <2>1. ui \in Hooks /\ 0 \in 0 .. MaxVer
    BY Requested, ListFacts
  <2> QED
    BY <1>2, <2>1 DEF Dismiss, AskAll, CancelAll, Local, Locally, Hooks
<1>3. CASE Sends
  BY <1>3 DEF Sends
<1>4. CASE \E r \in Rows : Open(r) \/ Close(r)
  BY <1>4, Here
<1>5. CASE Refresh \/ Rekey
  BY <1>5 DEF Refresh, Rekey
<1>6. CASE \E i \in 1 .. MaxFlight : Answer(i) \/ Deliver(i)
  BY <1>6, AnswerDoes, DeliverDoes
<1> QED
  BY <1>1, <1>2, <1>3, <1>4, <1>5, <1>6 DEF Next

\* The request of a load.
LEMMA LoadTyped ==
  ASSUME NEW o \in Operations
  PROVE  /\ Load(o) \in Requests /\ Load(o).kind = "get" /\ Doing(Load(o)) = o
         /\ Load(o).answered = FALSE
  BY RequestTyped DEF Load

\* The last request is a load, of the list or of something else, for the
\* operation o.
Last(kind, o) ==
    /\ Len(net) \in DOMAIN net' /\ net'[Len(net)] \in Requests
    /\ net'[Len(net)].kind = kind /\ ~net'[Len(net)].answered
    /\ Doing(net'[Len(net)]) = o
LastLoad(o) == Last("get", o)
LastElse(o) == Last("elsewhere", o) /\ Then(o) = "elsewhere" /\ o.op \in Ops

\* An answer leaves what it does not take out.
LEMMA ArrivedNet ==
  ASSUME TypeInv, NEW i, Arrived(i), Handled(i)
  PROVE  /\ i \in DOMAIN net /\ Doing(net[i]) \in Operations
         /\ DOMAIN Without(i) = 1 .. Len(net) - 1
         /\ net' \in Seq(Requests) /\ Len(net') <= MaxFlight
         /\ \A k \in DOMAIN Without(i) :
               k \in DOMAIN net' /\ net'[k] = net[Place(k, i)]
         /\ \A k \in DOMAIN net' : k \in DOMAIN Without(i) \/ k = Len(net)
         /\ \/ LoadsHolding(i) /\ LastLoad(Doing(net[i]))
            \/ LoadsElsewhere(i) /\ LastElse(Doing(net[i]))
            \/ LoadsFree(i) /\ LastLoad(Free)
            \/ Ends(i) /\ DOMAIN net' = DOMAIN Without(i)
<1>1. /\ i \in DOMAIN net /\ net \in Seq(Requests) /\ Len(net) \in Nat
      /\ Len(net) <= MaxFlight /\ DOMAIN net = 1 .. Len(net)
      /\ Doing(net[i]) \in Operations /\ MaxFlight \in Nat
  BY Requested, ListFacts DEF Arrived
<1>2. /\ Without(i) \in Seq(Requests)
      /\ Len(Without(i)) = Len(net) - 1
      /\ DOMAIN Without(i) = 1 .. Len(net) - 1
      /\ \A k \in DOMAIN Without(i) : Without(i)[k] = net[Place(k, i)]
  BY <1>1, WithoutOne
<1>3. Len(Without(i)) + 1 = Len(net) /\ Len(Without(i)) <= MaxFlight
  BY <1>1, <1>2
<1>4. CASE Ends(i)
  <2>1. net' = Without(i)
    BY <1>4 DEF Ends
  <2> QED
    BY <1>1, <1>2, <1>3, <1>4, <2>1
<1>5. ASSUME NEW kind \in {"get", "elsewhere"}, NEW o \in Operations,
             net' = Append(Without(i), Request(kind, o))
      PROVE  /\ net' \in Seq(Requests) /\ Len(net') <= MaxFlight
             /\ \A k \in DOMAIN Without(i) :
                   k \in DOMAIN net' /\ net'[k] = net[Place(k, i)]
             /\ \A k \in DOMAIN net' : k \in DOMAIN Without(i) \/ k = Len(net)
             /\ Last(kind, o)
  <2> DEFINE r == Request(kind, o)
             s == Without(i)
  <2>1. r \in Requests /\ r.kind = kind /\ Doing(r) = o /\ r.answered = FALSE
    BY RequestTyped
  <2>2. /\ s \in Seq(Requests) /\ net' = Append(s, r) /\ Len(s) + 1 = Len(net)
        /\ \A k \in DOMAIN s : s[k] = net[Place(k, i)]
    BY <1>2, <1>3, <1>5
  <2> HIDE DEF r, s
  <2>3. /\ net' \in Seq(Requests) /\ Len(net') = Len(s) + 1
        /\ DOMAIN net' = 1 .. Len(s) + 1
        /\ \A k \in DOMAIN s : k \in DOMAIN net' /\ net'[k] = s[k]
        /\ net'[Len(s) + 1] = r
        /\ \A k \in DOMAIN net' : k \in DOMAIN s \/ k = Len(s) + 1
    BY <2>1, <2>2, AppendTyped
  <2>4. /\ Len(net') = Len(net) /\ net'[Len(net)] = r
        /\ DOMAIN net' = 1 .. Len(net)
        /\ \A k \in DOMAIN net' : k \in DOMAIN s \/ k = Len(net)
    BY <2>2, <2>3
  <2>5. Len(net) \in DOMAIN net'
    BY <1>1, <2>4
  <2>6. Last(kind, o)
    BY <2>1, <2>4, <2>5 DEF Last
  <2> QED
    BY <1>1, <2>2, <2>3, <2>4, <2>6 DEF s
<1>6. CASE LoadsFree(i)
  <2>1. net' = Append(Without(i), Request("get", Free)) /\ Free \in Operations
    BY <1>6, FreeTyped DEF LoadsFree, Load
  <2> QED
    BY <1>1, <1>2, <1>5, <1>6, <2>1 DEF LastLoad
<1>7. CASE LoadsHolding(i)
  <2>1. net' = Append(Without(i), Request("get", Doing(net[i])))
    BY <1>7 DEF LoadsHolding, Load
  <2> QED
    BY <1>1, <1>2, <1>5, <1>7, <2>1 DEF LastLoad
<1>8. CASE LoadsElsewhere(i)
  <2>1. /\ net' = Append(Without(i), Request("elsewhere", Doing(net[i])))
        /\ Then(Doing(net[i])) = "elsewhere" /\ net[i].kind = "write"
    BY <1>8 DEF LoadsElsewhere
  <2>2. Doing(net[i]).op \in Ops
    BY <1>1, <2>1, Requested, DoingTyped
  <2> QED
    BY <1>1, <1>2, <1>5, <1>8, <2>1, <2>2 DEF LastElse
<1> QED
  BY <1>4, <1>6, <1>7, <1>8 DEF Handled

\* The page stays, and with it its handlers and what holds a flag.
LEMMA PageStays ==
  ASSUME TypeInv, [Next]_vars
  PROVE  /\ page' = page /\ Handlers' = Handlers
         /\ \A o : FlagOf(o)' = FlagOf(o)
<1>1. page' = page
  BY StepKinds, Sent, Reloaded DEF Locally, OtherAdmin, Answered, Arrived
<1> QED
  BY <1>1 DEF FlagOf, Handlers

LEMMA TypeInit == Init => TypeInv
<1> SUFFICES ASSUME Init PROVE TypeInv
  OBVIOUS
<1>1. Free \in Operations /\ Load(Free) \in Requests /\ Load(Free).kind = "get"
      /\ Load(Free).answered = FALSE
  BY FreeTyped, LoadTyped
<1>2. net = <<Load(Free)>> /\ page \in Pages
  BY DEF Init
<1>3. /\ net \in Seq(Requests) /\ Len(net) = 1
      /\ \A i \in DOMAIN net : net[i].kind = "get" /\ ~net[i].answered
  <2> DEFINE r == Load(Free)
  <2> HIDE DEF r
  <2>1. net = <<r>> /\ r \in Requests /\ r.kind = "get" /\ ~r.answered
    BY <1>1, <1>2 DEF r
  <2> QED
    BY <2>1
<1>4. [f \in Flags |-> Free] \in [Flags -> Operations]
  BY <1>1
<1>5. ui \in Hooks
  BY <1>4, ListFacts DEF Init, Hooks
<1>6. doc \in Lists
  BY ListFacts DEF Init, Lists
<1>7. seen = 0 /\ told = 0 /\ wrote = 0 /\ overtook \in BOOLEAN /\ crossed \subseteq Operations
  BY DEF Init
<1>8. 1 <= MaxFlight
  BY ListFacts
<1> QED
  BY <1>2, <1>3, <1>5, <1>6, <1>7, <1>8, ListFacts DEF TypeInv, ListTypeOK, Shaped

LEMMA TypeStep == TypeInv /\ [Next]_vars => TypeInv'
<1> SUFFICES ASSUME TypeInv, [Next]_vars PROVE TypeInv'
  OBVIOUS
<1>1. /\ page \in Pages /\ ui \in Hooks /\ doc \in Lists
      /\ net \in Seq(Requests) /\ Len(net) \in Nat /\ Len(net) <= MaxFlight
      /\ DOMAIN net = 1 .. Len(net) /\ MaxFlight \in Nat /\ MaxVer \in Nat
      /\ seen \in 0 .. MaxVer /\ told \in 0 .. MaxVer /\ wrote \in 0 .. MaxVer
      /\ overtook \in BOOLEAN /\ crossed \subseteq Operations
      /\ \A i \in DOMAIN net : net[i] \in Requests /\ Shaped(net[i])
  BY Requested, ListFacts
<1>9. \A m : Shaped(m)' <=> Shaped(m)
  BY PageStays DEF Shaped, AnswerOK, Then
<1>2. CASE Locally
  BY <1>1, <1>2, <1>9 DEF Locally, TypeInv, ListTypeOK
<1>3. ASSUME NEW r \in Requests, net' = Append(net, r), Len(net) < MaxFlight,
             Shaped(r),
             ui' \in Hooks, UNCHANGED <<page, doc, seen, told, wrote, overtook>>,
             crossed' \subseteq Operations
      PROVE  TypeInv'
  <2>1. /\ net' \in Seq(Requests) /\ Len(net') <= MaxFlight
        /\ \A k \in DOMAIN net' : (k \in DOMAIN net /\ net'[k] = net[k]) \/ net'[k] = r
    BY <1>1, <1>3, AppendTyped
  <2> QED
    BY <1>1, <1>3, <1>9, <2>1 DEF TypeInv, ListTypeOK
<1>4. ASSUME NEW op \in Ops, NEW x \in Rows \union {NoRow}, Send(On(op, x))
      PROVE  TypeInv'
  <2> DEFINE o == On(op, x)
             r == Request("write", o)
  <2>1. /\ o \in Operations /\ o.op \in Ops /\ Len(net) < MaxFlight
        /\ net' = Append(net, r) /\ ui' \in Hooks
        /\ UNCHANGED <<page, doc, seen, told, wrote, overtook>>
        /\ crossed' \subseteq crossed \union Rivals(o, FlagOf(o)) \union {o}
    BY <1>1, <1>4, Sent
  <2>2. r \in Requests /\ r.kind = "write" /\ r.op = o.op /\ r.answered = FALSE
    BY <2>1, RequestTyped
  <2> HIDE DEF r, o
  <2>3. Rivals(o, FlagOf(o)) \subseteq Operations
    BY Requested DEF Rivals
  <2> QED
    BY <1>1, <1>3, <2>1, <2>2, <2>3 DEF Shaped
<1>5. CASE Reload
  <2> DEFINE r == Load(Free)
  <2>1. r \in Requests /\ r.kind = "get" /\ r.answered = FALSE
    BY FreeTyped, LoadTyped
  <2>2. /\ net' = Append(net, r) /\ Len(net) < MaxFlight /\ ui' \in Hooks
        /\ UNCHANGED <<page, doc, seen, told, wrote, overtook, crossed>>
    BY <1>5, Reloaded
  <2> HIDE DEF r
  <2> QED
    BY <1>1, <1>3, <2>1, <2>2 DEF Shaped
<1>6. CASE OtherAdmin
  <2>1. doc.ver + 1 \in 1 .. MaxVer
    BY <1>1, <1>6, ListFacts DEF OtherAdmin
  <2>2. doc' \in Lists /\ UNCHANGED <<page, ui, net, seen, told, wrote, overtook, crossed>>
    BY <1>6, <2>1 DEF OtherAdmin, Lists
  <2> QED
    BY <1>1, <1>9, <2>2 DEF TypeInv, ListTypeOK
<1>7. ASSUME NEW i, Answered(i)
      PROVE  TypeInv'
  <2>1. /\ doc' \in Lists /\ net' \in Seq(Requests) /\ Len(net') = Len(net)
        /\ UNCHANGED <<page, ui, seen, told, crossed>> /\ overtook' \in BOOLEAN
        /\ i \in DOMAIN net /\ (wrote' = wrote \/ wrote' = doc'.ver)
    BY <1>1, <1>7 DEF Answered
  <2>2. \A k \in DOMAIN net' : Shaped(net'[k])
    <3>1. ASSUME NEW k \in DOMAIN net', k # i PROVE Shaped(net'[k])
      BY <1>1, <1>7, <2>1, <3>1 DEF Answered
    <3>2. Shaped(net'[i])
      <4>1. /\ net'[i].kind = net[i].kind /\ net'[i].op = net[i].op
            /\ Doing(net'[i]) = Doing(net[i])
            /\ \/ net'[i].answer \in {doc', Failed}
               \/ net'[i].answer = NoList /\ Handlers.mints /\ ~Reads(net[i])
        BY <1>7 DEF Answered
      <4>2. net[i].kind \in {"get", "write", "elsewhere"} /\ Shaped(net[i])
        BY <1>1, <2>1 DEF Requests
      <4>3. ~Reads(net[i]) => net[i].kind = "write"
        BY <4>2 DEF Reads, Shaped
      <4> QED
        BY <2>1, <4>1, <4>2, <4>3 DEF Shaped, AnswerOK
    <3> QED
      BY <3>1, <3>2
  <2>3. wrote' \in 0 .. MaxVer
    BY <1>1, <2>1, ListFacts
  <2> QED
    BY <1>1, <1>9, <2>1, <2>2, <2>3 DEF TypeInv, ListTypeOK
<1>8. ASSUME NEW i, Arrived(i), Handled(i)
      PROVE  TypeInv'
  <2>1. /\ net' \in Seq(Requests) /\ Len(net') <= MaxFlight
        /\ DOMAIN Without(i) = 1 .. Len(net) - 1
        /\ \A k \in DOMAIN Without(i) : net'[k] = net[Place(k, i)]
        /\ \A k \in DOMAIN net' : k \in DOMAIN Without(i) \/ k = Len(net)
        /\ \/ LastLoad(Doing(net[i])) \/ LastLoad(Free) \/ LastElse(Doing(net[i]))
           \/ DOMAIN net' = DOMAIN Without(i)
    BY <1>8, ArrivedNet
  <2>2. \A k \in DOMAIN Without(i) : Place(k, i) \in DOMAIN net
    BY <1>1, <1>8, WithoutOne DEF Arrived
  <2>3. \A k \in DOMAIN net' : Shaped(net'[k])
    <3> TAKE k \in DOMAIN net'
    <3>1. CASE k \in DOMAIN Without(i)
      BY <1>1, <2>1, <2>2, <3>1
    <3>2. CASE k \notin DOMAIN Without(i)
      <4>1. \/ LastLoad(Doing(net[i])) \/ LastLoad(Free)
            \/ LastElse(Doing(net[i]))
        BY <2>1, <3>2
      <4>2. k = Len(net)
        BY <2>1, <3>2
      <4>3. /\ net'[k] \in Requests /\ ~net'[k].answered
            /\ \/ net'[k].kind = "get"
               \/ /\ Doing(net'[k]).op \in Ops
                  /\ Then(Doing(net'[k])) = "elsewhere" /\ net'[k].kind = "elsewhere"
        BY <4>1, <4>2 DEF LastLoad, LastElse, Last
      <4>4. Doing(net'[k]).op = net'[k].op
        BY <4>3, DoingTyped
      <4> QED
        BY <4>3, <4>4 DEF Shaped
    <3> QED
      BY <3>1, <3>2
  <2>4. Bears(net[i]) => net[i].answer.ver \in 0 .. MaxVer
    BY <1>1, <1>8, ListFacts DEF Arrived, Bears, Shaped, AnswerOK
  <2>5. \A a, b \in 0 .. MaxVer : Newest(a, b) \in 0 .. MaxVer
    BY DEF Newest
  <2>6. seen' \in 0 .. MaxVer /\ told' \in 0 .. MaxVer
    BY <1>1, <1>8, <2>4, <2>5 DEF Arrived
  <2>7. /\ ui' \in Hooks /\ UNCHANGED <<page, doc, wrote>> /\ overtook' \in BOOLEAN
        /\ crossed' \subseteq Operations
    BY <1>1, <1>8 DEF Arrived
  <2> QED
    BY <1>1, <1>9, <2>1, <2>3, <2>6, <2>7 DEF TypeInv, ListTypeOK
<1> QED
  BY <1>2, <1>4, <1>5, <1>6, <1>7, <1>8, StepKinds

LEMMA TypeAlways == Spec => []TypeInv
<1> QED
  BY TypeInit, TypeStep, PTL DEF Spec

\* The hooks, the list and the requests have their types on every page.
THEOREM TypeCorrect == Spec => []ListTypeOK
<1>1. TypeInv => ListTypeOK
  BY DEF TypeInv
<1> QED
  BY <1>1, TypeAlways, PTL

(***************************************************************************)
(* A flag is held by an operation of its own, which is on its way.         *)
(***************************************************************************)
FlagInv ==
    /\ FlagsTruthful
    /\ \A f \in Flags : ~Idle(ui, f) => FlagOf(ui.busy[f]) = f

\* The hooks and the requests that matter stay.
LEMMA FlagKept ==
  ASSUME FlagInv, UNCHANGED page,
         \A f \in Flags : ui'.busy[f] \in {Free, ui.busy[f]},
         \A f \in Flags, i \in DOMAIN net :
            ui'.busy[f] # Free /\ Doing(net[i]) = ui.busy[f] =>
                \E k \in DOMAIN net' : Doing(net'[k]) = Doing(net[i])
  PROVE  FlagInv'
<1>1. \A x : FlagOf(x)' = FlagOf(x)
  BY DEF FlagOf, Handlers
<1>2. \A f \in Flags : ui'.busy[f] # Free =>
         /\ FlagOf(ui'.busy[f]) = f
         /\ \E k \in DOMAIN net' : Doing(net'[k]) = ui'.busy[f]
  <2> SUFFICES ASSUME NEW f \in Flags, ui'.busy[f] # Free
               PROVE  /\ FlagOf(ui'.busy[f]) = f
                      /\ \E k \in DOMAIN net' : Doing(net'[k]) = ui'.busy[f]
    OBVIOUS
  <2>1. ui'.busy[f] = ui.busy[f]
    OBVIOUS
  <2>2. /\ FlagOf(ui.busy[f]) = f
        /\ \E i \in DOMAIN net : Doing(net[i]) = ui.busy[f]
    BY <2>1 DEF FlagInv, FlagsTruthful, Idle
  <2> QED
    BY <2>1, <2>2
<1> QED
  BY <1>1, <1>2 DEF FlagInv, FlagsTruthful, Idle

LEMMA FlagInit == Init => FlagInv
  BY DEF Init, FlagInv, FlagsTruthful, Idle

LEMMA FlagStep == TypeInv /\ FlagInv /\ [Next]_vars => FlagInv'
<1> SUFFICES ASSUME TypeInv, FlagInv, [Next]_vars PROVE FlagInv'
  OBVIOUS
<1>1. /\ page \in Pages /\ net \in Seq(Requests) /\ DOMAIN net = 1 .. Len(net)
      /\ Len(net) \in Nat /\ ui \in Hooks
  BY Requested
<1>2. CASE Locally
  BY <1>2, FlagKept DEF Locally
<1>3. ASSUME NEW op \in Ops, NEW x \in Rows \union {NoRow}, Send(On(op, x))
      PROVE  FlagInv'
  <2> DEFINE o == On(op, x)
             r == Request("write", o)
             f == FlagOf(o)
  <2>1. /\ o \in Operations /\ net' = Append(net, r) /\ UNCHANGED page
        /\ f \notin Flags => ui'.busy = ui.busy
        /\ f \in Flags => /\ ui'.busy[f] = o
                          /\ \A g \in Flags : g # f => ui'.busy[g] = ui.busy[g]
    BY <1>3, Sent
  <2>2. r \in Requests /\ Doing(r) = o
    BY <2>1, RequestTyped
  <2> HIDE DEF r
  <2>3. /\ \A k \in DOMAIN net : k \in DOMAIN net' /\ net'[k] = net[k]
        /\ Len(net) + 1 \in DOMAIN net' /\ net'[Len(net) + 1] = r
    BY <1>1, <2>1, <2>2, AppendTyped
  <2>4. \A y : FlagOf(y)' = FlagOf(y)
    BY <2>1 DEF FlagOf, Handlers
  <2>5. \A g \in Flags : ui'.busy[g] = ui.busy[g] \/ (g = f /\ ui'.busy[g] = o)
    BY <2>1
  <2>6. \A g \in Flags : ui'.busy[g] # Free =>
           /\ FlagOf(ui'.busy[g]) = g
           /\ \E k \in DOMAIN net' : Doing(net'[k]) = ui'.busy[g]
    <3> SUFFICES ASSUME NEW g \in Flags, ui'.busy[g] # Free
                 PROVE  /\ FlagOf(ui'.busy[g]) = g
                        /\ \E k \in DOMAIN net' : Doing(net'[k]) = ui'.busy[g]
      OBVIOUS
    <3>1. CASE ui'.busy[g] = ui.busy[g]
      BY <2>3, <3>1 DEF FlagInv, FlagsTruthful, Idle
    <3>2. CASE g = f /\ ui'.busy[g] = o
      BY <2>2, <2>3, <3>2
    <3> QED
      BY <2>5, <3>1, <3>2
  <2> QED
    BY <2>4, <2>6 DEF FlagInv, FlagsTruthful, Idle
<1>4. CASE Reload
  <2>1. net' = Append(net, Load(Free)) /\ UNCHANGED page /\ ui'.busy = ui.busy
    BY <1>4, Reloaded
  <2>2. \A k \in DOMAIN net : k \in DOMAIN net' /\ net'[k] = net[k]
    BY <1>1, <2>1, AppendTyped, LoadTyped, FreeTyped
  <2> QED
    BY <2>1, <2>2, FlagKept
<1>5. CASE OtherAdmin
  BY <1>5, FlagKept DEF OtherAdmin
<1>6. ASSUME NEW i, Answered(i)
      PROVE  FlagInv'
  <2>1. /\ UNCHANGED <<page, ui>> /\ net' \in Seq(Requests) /\ Len(net') = Len(net)
        /\ \A k \in DOMAIN net : Doing(net'[k]) = Doing(net[k])
    BY <1>6 DEF Answered
  <2>2. DOMAIN net' = DOMAIN net
    BY <1>1, <2>1
  <2> QED
    BY <2>1, <2>2, FlagKept
<1>7. ASSUME NEW i, Arrived(i), Handled(i)
      PROVE  FlagInv'
  <2>1. /\ i \in DOMAIN net /\ UNCHANGED page
        /\ \A k \in DOMAIN Without(i) :
              k \in DOMAIN net' /\ net'[k] = net[Place(k, i)]
        /\ \/ LoadsHolding(i) /\ LastLoad(Doing(net[i]))
           \/ LoadsElsewhere(i) /\ LastElse(Doing(net[i]))
           \/ LoadsFree(i) /\ LastLoad(Free)
           \/ Ends(i)
    BY <1>7, ArrivedNet DEF Arrived
  <2>2. \A k \in DOMAIN net \ {i} : \E j \in DOMAIN net' : net'[j] = net[k]
    <3>1. \A k \in DOMAIN net \ {i} : \E j \in DOMAIN Without(i) : k = Place(j, i)
      BY <1>1, <2>1, WithoutOne
    <3> QED
      BY <2>1, <3>1
  <2> DEFINE o == Doing(net[i])
  <2>3. CASE (LoadsHolding(i) /\ LastLoad(o)) \/ (LoadsElsewhere(i) /\ LastElse(o))
    <3>1. ui'.busy = ui.busy
      BY <2>3 DEF LoadsHolding, LoadsElsewhere
    <3>2. \A k \in DOMAIN net : \E j \in DOMAIN net' : Doing(net'[j]) = Doing(net[k])
      BY <2>2, <2>3 DEF LastLoad, LastElse, Last
    <3> QED
      BY <2>1, <3>1, <3>2, FlagKept
  <2>4. CASE LoadsFree(i) \/ Ends(i)
    <3>1. Released(ui.busy, ui'.busy, o)
      BY <2>4 DEF LoadsFree, Ends
    <3>2. \A f \in Flags : ui'.busy[f] \in {Free, ui.busy[f]}
      BY <3>1 DEF Released
    <3>3. ASSUME NEW f \in Flags, NEW k \in DOMAIN net, ui'.busy[f] # Free,
                 Doing(net[k]) = ui.busy[f]
          PROVE  \E j \in DOMAIN net' : Doing(net'[j]) = Doing(net[k])
      <4>1. FlagOf(ui.busy[f]) = f
        BY <3>2, <3>3 DEF FlagInv, Idle
      <4>2. ui.busy[f] # o
        BY <3>1, <3>3, <4>1 DEF Released
      <4> QED
        BY <2>2, <3>3, <4>2
    <3> QED
      BY <2>1, <3>2, <3>3, FlagKept
  <2> QED
    BY <2>1, <2>3, <2>4
<1> QED
  BY <1>2, <1>3, <1>4, <1>5, <1>6, <1>7, StepKinds

\* No control stays disabled for an operation that has ended: every handler that
\* sets busy clears it on each way out (finally, or both branches of its try).
THEOREM FlagsCorrect == Spec => []FlagsTruthful
<1>1. FlagInv => FlagsTruthful
  BY DEF FlagInv
<1> QED
  BY <1>1, TypeAlways, FlagInit, FlagStep, PTL DEF Spec

(***************************************************************************)
(* What a flag guards is on its way once.                                  *)
(***************************************************************************)
\* The request of the operation x is alone with its flag, which names it.
Alone(x) ==
    \A i \in DOMAIN net : Doing(net[i]) = x =>
        /\ ui.busy[FlagOf(x)] = x
        /\ \A j \in DOMAIN net : FlagOf(Doing(net[j])) = FlagOf(x) => i = j

\* So is what holds the boolean of the form, and what holds a slot of the rows
\* and has not shared it. Only the dialog of the inventory gives its boolean
\* back while it is held.
Guarded(x) == FlagOf(x) \in Flags /\ (FlagOf(x) = "form" \/ x \notin crossed)
AloneInv == page # "inventory" => \A x \in Operations : Guarded(x) => Alone(x)

LEMMA AloneInit == Init => AloneInv
<1> SUFFICES ASSUME Init PROVE AloneInv
  OBVIOUS
<1>1. page \in Pages /\ net = <<Load(Free)>>
  BY DEF Init
<1>2. FlagOf(Doing(Load(Free))) = "none" /\ "none" \notin Flags
  BY <1>1, FreeTyped, LoadTyped, FlagTyped
<1>3. \A i \in DOMAIN net : FlagOf(Doing(net[i])) = "none"
  BY <1>1, <1>2
<1> QED
  BY <1>2, <1>3 DEF AloneInv, Alone, Guarded

LEMMA AloneStep == TypeInv /\ AloneInv /\ [Next]_vars => AloneInv'
<1> SUFFICES ASSUME TypeInv, AloneInv, [Next]_vars, page # "inventory",
                    NEW x \in Operations, FlagOf(x) \in Flags,
                    FlagOf(x) = "form" \/ x \notin crossed',
                    NEW n \in DOMAIN net', Doing(net'[n]) = x
             PROVE  Alone(x)'
  BY PageStays DEF AloneInv, Guarded, Alone
<1> DEFINE f == FlagOf(x)
<1>1. /\ page \in Pages /\ net \in Seq(Requests) /\ DOMAIN net = 1 .. Len(net)
      /\ Len(net) \in Nat /\ ui \in Hooks
      /\ \A o : FlagOf(o)' = FlagOf(o)
      /\ "none" \notin Flags /\ FlagOf(Free) = "none"
      /\ \A i \in DOMAIN net : Doing(net[i]) \in Operations
  BY Requested, PageStays, FlagTyped, FreeTyped
<1>2. f # "form" => x \notin crossed
  BY StepKinds, Sent, Reloaded DEF Locally, OtherAdmin, Answered, Arrived
<1>3. Alone(x)
  BY <1>2 DEF AloneInv, Guarded
<1>4. ASSUME ui'.busy[f] = ui.busy[f], DOMAIN net' = DOMAIN net,
             \A k \in DOMAIN net : Doing(net'[k]) = Doing(net[k])
      PROVE  Alone(x)'
  BY <1>1, <1>3, <1>4 DEF Alone
<1>5. CASE Locally
  BY <1>4, <1>5 DEF Locally
<1>6. CASE OtherAdmin
  BY <1>4, <1>6 DEF OtherAdmin
<1>7. ASSUME NEW i, Answered(i)
      PROVE  Alone(x)'
  <2>1. /\ UNCHANGED ui /\ net' \in Seq(Requests) /\ Len(net') = Len(net)
        /\ \A k \in DOMAIN net : Doing(net'[k]) = Doing(net[k])
    BY <1>7 DEF Answered
  <2>2. DOMAIN net' = DOMAIN net
    BY <1>1, <2>1
  <2> QED
    BY <1>4, <2>1, <2>2
<1>8. CASE Reload
  <2> DEFINE r == Load(Free)
  <2>1. r \in Requests /\ Doing(r) = Free
    BY LoadTyped, FreeTyped
  <2>2. net' = Append(net, r) /\ ui'.busy = ui.busy
    BY <1>8, Reloaded
  <2> HIDE DEF r
  <2>3. \A k \in DOMAIN net' : FlagOf(Doing(net'[k])) = f =>
           k \in DOMAIN net /\ net'[k] = net[k]
    BY <1>1, <2>1, <2>2, AppendTyped
  <2> QED
    BY <1>1, <1>3, <2>2, <2>3 DEF Alone
<1>9. ASSUME NEW op \in Ops, NEW row \in Rows \union {NoRow}, Send(On(op, row))
      PROVE  Alone(x)'
  <2> DEFINE o == On(op, row)
             r == Request("write", o)
             g == FlagOf(o)
  <2>1. /\ o \in Operations /\ o.op \in Ops /\ o \in Controls /\ net' = Append(net, r)
        /\ crossed' = crossed \union
                         IF Rivals(o, g) = {} THEN {} ELSE Rivals(o, g) \union {o}
        /\ g \notin Flags => ui'.busy = ui.busy
        /\ g \in Flags => /\ ui'.busy[g] = o
                          /\ \A h \in Flags : h # g => ui'.busy[h] = ui.busy[h]
    BY <1>9, Sent
  <2>2. r \in Requests /\ Doing(r) = o
    BY <2>1, RequestTyped
  <2> HIDE DEF r
  <2>3. /\ \A k \in DOMAIN net : k \in DOMAIN net' /\ net'[k] = net[k]
        /\ Len(net) + 1 \in DOMAIN net' /\ net'[Len(net) + 1] = r
        /\ \A k \in DOMAIN net' : k \in DOMAIN net \/ k = Len(net) + 1
    BY <1>1, <2>1, <2>2, AppendTyped
  <2>4. CASE g # f
    <3>1. ui'.busy[f] = ui.busy[f]
      BY <2>1, <2>4
    <3>2. \A k \in DOMAIN net' : FlagOf(Doing(net'[k])) = f =>
             k \in DOMAIN net /\ net'[k] = net[k]
      BY <2>2, <2>3, <2>4
    <3> QED
      BY <1>1, <1>3, <3>1, <3>2 DEF Alone
  <2>5. CASE g = f
    <3>1. /\ f = "form" => ui.busy[f] = Free
          /\ ui.busy[f] # o
      BY <1>1, <2>1, <2>5, PagesOffer, FlagTyped DEF Offers, Idle
    <3>2. ASSUME NEW i \in DOMAIN net, FlagOf(Doing(net[i])) = f
          PROVE  FALSE
      <4> DEFINE y == Doing(net[i])
      <4>1. y \in Operations /\ y # Free
        BY <1>1, <3>2
      <4>2. f # "form"
        <5>1. f = "form" => ui.busy[f] = y
          BY <3>2, <4>1 DEF AloneInv, Guarded, Alone
        <5> QED
          BY <3>1, <4>1, <5>1
      <4>3. Rivals(o, g) = {}
        <5>1. CASE x = o
          BY <2>1, <4>2, <5>1
        <5>2. CASE x # o
          <6>1. n \in DOMAIN net /\ Doing(net[n]) = x
            BY <2>2, <2>3, <5>2
          <6>2. x \in Rivals(o, g)
            BY <2>5, <5>2, <6>1 DEF Rivals
          <6> QED
            BY <2>1, <4>2, <6>2
        <5> QED
          BY <5>1, <5>2
      <4>4. y = o
        BY <2>5, <3>2, <4>3 DEF Rivals
      <4>5. x = o
        <5>1. CASE n \in DOMAIN net
          BY <2>3, <2>5, <4>3, <5>1 DEF Rivals
        <5> QED
          BY <2>2, <2>3, <5>1
      <4>6. ui.busy[f] = o
        BY <1>3, <4>4, <4>5 DEF Alone
      <4> QED
        BY <3>1, <4>6
    <3>3. \A k \in DOMAIN net' : FlagOf(Doing(net'[k])) = f => k = Len(net) + 1
      BY <2>3, <3>2
    <3>5. n = Len(net) + 1 /\ x = o
      BY <2>2, <2>3, <3>3
    <3>4. ui'.busy[f] = x
      BY <2>1, <2>5, <3>5
    <3> QED
      BY <1>1, <3>3, <3>4 DEF Alone
  <2> QED
    BY <2>4, <2>5
<1>10. ASSUME NEW i, Arrived(i), Handled(i)
       PROVE  Alone(x)'
  <2> DEFINE o == Doing(net[i])
             S == DOMAIN Without(i)
  <2>1. /\ i \in DOMAIN net
        /\ \A k \in S : k \in DOMAIN net' /\ net'[k] = net[Place(k, i)]
        /\ \A k \in DOMAIN net' : k \in S \/ k = Len(net)
        /\ \/ LoadsHolding(i) /\ LastLoad(o)
           \/ LoadsElsewhere(i) /\ LastElse(o)
           \/ LoadsFree(i) /\ LastLoad(Free)
           \/ Ends(i) /\ DOMAIN net' = S
        /\ S = 1 .. Len(net) - 1
    BY <1>10, ArrivedNet
  <2>2. \A k \in S : Place(k, i) \in DOMAIN net \ {i}
    BY <1>1, <2>1, WithoutOne
  <2>3. \A k, l \in S : Place(k, i) = Place(l, i) => k = l
    BY <1>1, <2>1 DEF Place
  <2> HIDE DEF S
  <2>4. \A k, l \in S : Doing(net'[k]) = x /\ FlagOf(Doing(net'[l])) = f =>
           /\ k = l /\ ui.busy[f] = x /\ FlagOf(o) # f
    BY <1>3, <2>1, <2>2, <2>3 DEF Alone
  <2>5. CASE \/ LoadsHolding(i) /\ LastLoad(o)
             \/ LoadsElsewhere(i) /\ LastElse(o)
    <3>1. ui'.busy = ui.busy /\ Doing(net'[Len(net)]) = o /\ Len(net) \in DOMAIN net'
      BY <2>5 DEF LoadsHolding, LoadsElsewhere, LastLoad, LastElse, Last
    <3>2. CASE o = x
      <4>1. ui.busy[f] = x /\ \A j \in DOMAIN net : FlagOf(Doing(net[j])) = f => j = i
        BY <1>3, <2>1, <3>2 DEF Alone
      <4>2. \A k \in S : FlagOf(Doing(net'[k])) # f
        BY <2>1, <2>2, <4>1
      <4> QED
        BY <1>1, <2>1, <3>1, <4>1, <4>2 DEF Alone
    <3>3. CASE o # x
      <4>1. n \in S
        BY <2>1, <3>1, <3>3
      <4>2. FlagOf(o) # f /\ ui.busy[f] = x
        BY <2>4, <4>1
      <4>3. \A k \in DOMAIN net' : FlagOf(Doing(net'[k])) = f => k = n
        BY <2>1, <2>4, <3>1, <4>1, <4>2
      <4> QED
        BY <1>1, <3>1, <4>2, <4>3 DEF Alone
    <3> QED
      BY <3>2, <3>3
  <2>6. CASE (LoadsFree(i) /\ LastLoad(Free)) \/ (Ends(i) /\ DOMAIN net' = S)
    <3>1. Released(ui.busy, ui'.busy, o)
      BY <2>6 DEF LoadsFree, Ends
    <3>2. \A k \in DOMAIN net' : FlagOf(Doing(net'[k])) = f => k \in S
      BY <1>1, <2>1, <2>6 DEF LastLoad, Last
    <3>3. n \in S
      BY <3>2
    <3>4. FlagOf(o) # f /\ ui.busy[f] = x
      BY <2>4, <3>3
    <3>5. ui'.busy[f] = x
      BY <3>1, <3>4 DEF Released
    <3>6. \A k \in DOMAIN net' : FlagOf(Doing(net'[k])) = f => k = n
      BY <2>4, <3>2, <3>3
    <3> QED
      BY <1>1, <3>5, <3>6 DEF Alone
  <2> QED
    BY <2>1, <2>5, <2>6
<1> QED
  BY <1>5, <1>6, <1>7, <1>8, <1>9, <1>10, StepKinds

LEMMA AloneAlways == Spec => []AloneInv
<1> QED
  BY TypeAlways, AloneInit, AloneStep, PTL DEF Spec

\* What the boolean of a form guards (disabled={busy}) is on its way once,
\* except in the dialog of the inventory, which can be closed while it saves.
THEOREM OneSubmitCorrect == Spec => []OneSubmitAtATime
<1>1. TypeInv /\ AloneInv => OneSubmitAtATime
  <2> SUFFICES ASSUME TypeInv, AloneInv, page # "inventory",
                      NEW i \in DOMAIN net, NEW j \in DOMAIN net,
                      FlagOf(Doing(net[i])) = "form", FlagOf(Doing(net[j])) = "form"
               PROVE  i = j
    BY DEF OneSubmitAtATime
  <2>1. "form" \in Flags /\ Doing(net[i]) \in Operations
    BY Requested DEF Flags
  <2> QED
    BY <2>1 DEF AloneInv, Guarded, Alone
<1> QED
  BY <1>1, TypeAlways, AloneAlways, PTL

\* The operation of a row is on its way once on the pages that guard it
\* (busy === row.id), unless it shared its slot while it was on its way: with
\* an operation of another row or, on the pages of webhooks and sessions or
\* once another row has cleared the slot, with another of its own row.
THEOREM RowSentCorrect == Spec => []RowSentOnce
<1>1. TypeInv /\ AloneInv => RowSentOnce
  <2> SUFFICES ASSUME TypeInv, AloneInv, page \notin {"dsar", "inventory"},
                      NEW i \in DOMAIN net, NEW j \in DOMAIN net,
                      Doing(net[i]) = Doing(net[j]), net[i].op # "none",
                      Doing(net[i]) \notin crossed
               PROVE  i = j
    BY DEF RowSentOnce
  <2>1. net[i] \in Requests /\ page \in Pages /\ Doing(net[i]) \in Operations
    BY Requested
  <2>2. Doing(net[i]).op \in Ops
    BY <2>1, DoingTyped DEF Requests
  <2>3. FlagOf(Doing(net[i])) \in Flags
    BY <2>1, <2>2, FlagTyped
  <2> QED
    BY <2>1, <2>3 DEF AloneInv, Guarded, Alone
<1> QED
  BY <1>1, TypeAlways, AloneAlways, PTL

(***************************************************************************)
(* What the page knows of the list.                                        *)
(***************************************************************************)
\* An answer that brought a list.
Brought(i) == net[i].answered /\ Bears(net[i])

\* The page has been told of nothing newer than the list.
KnownInv ==
    /\ seen <= doc.ver /\ told <= doc.ver /\ wrote <= doc.ver
    /\ \A i \in DOMAIN net : Brought(i) => net[i].answer.ver <= doc.ver

\* A list that an answer brought has a version, and a higher one is newer.
LEMMA BroughtTyped ==
  ASSUME TypeInv, NEW i \in DOMAIN net, Brought(i)
  PROVE  net[i].answer \in Lists /\ net[i].answer.ver \in Nat
  BY Requested, ListFacts DEF Brought, Bears, Shaped, AnswerOK

LEMMA Numbers ==
  ASSUME TypeInv
  PROVE  seen \in Nat /\ told \in Nat /\ wrote \in Nat /\ doc.ver \in Nat
  BY Requested, ListFacts

LEMMA NewestIs ==
  \A a, b \in Nat : /\ Newest(a, b) \in Nat /\ Newest(a, b) >= a /\ Newest(a, b) >= b
                    /\ Newest(a, b) \in {a, b}
  BY DEF Newest

LEMMA KnownInit == Init => KnownInv
<1> SUFFICES ASSUME Init PROVE KnownInv
  OBVIOUS
<1>1. Load(Free).answered = FALSE
  BY FreeTyped, LoadTyped
<1>2. \A i \in DOMAIN net : ~net[i].answered
  <2> DEFINE r == Load(Free)
  <2>1. net = <<r>> /\ ~r.answered
    BY <1>1 DEF Init
  <2> HIDE DEF r
  <2> QED
    BY <2>1
<1>3. seen <= doc.ver /\ told <= doc.ver /\ wrote <= doc.ver
  BY DEF Init
<1> QED
  BY <1>2, <1>3 DEF KnownInv, Brought

\* Where the requests after a step were before it; the others are new, and
\* have no answer. Only the answered one has an answer it did not have.
LEMMA Moved ==
  ASSUME TypeInv, [Next]_vars, NEW k \in DOMAIN net', net'[k].answered
  PROVE  \/ k \in DOMAIN net /\ net'[k] = net[k]
         \/ Answered(k)
         \/ \E i : /\ Arrived(i) /\ Place(k, i) \in DOMAIN net \ {i}
                   /\ net'[k] = net[Place(k, i)]
<1>1. /\ net \in Seq(Requests) /\ DOMAIN net = 1 .. Len(net) /\ Len(net) \in Nat
      /\ page \in Pages
  BY Requested
<1>2. CASE Locally \/ OtherAdmin
  BY <1>2 DEF Locally, OtherAdmin
<1>3. ASSUME NEW r \in Requests, net' = Append(net, r), ~r.answered
      PROVE  k \in DOMAIN net /\ net'[k] = net[k]
  BY <1>1, <1>3, AppendTyped
<1>4. ASSUME NEW op \in Ops, NEW x \in Rows \union {NoRow}, Send(On(op, x))
      PROVE  k \in DOMAIN net /\ net'[k] = net[k]
  <2> DEFINE r == Request("write", On(op, x))
  <2>1. On(op, x) \in Operations /\ net' = Append(net, r)
    BY <1>4, Sent
  <2>2. r \in Requests /\ ~r.answered
    BY <2>1, RequestTyped
  <2> QED
    BY <1>3, <2>1, <2>2
<1>5. CASE Reload
  BY <1>3, <1>5, Reloaded, LoadTyped, FreeTyped
<1>6. ASSUME NEW i, Answered(i)
      PROVE  Answered(k) \/ (k \in DOMAIN net /\ net'[k] = net[k])
  <2>1. DOMAIN net' = DOMAIN net /\ \A j \in DOMAIN net : j # i => net'[j] = net[j]
    BY <1>1, <1>6 DEF Answered
  <2> QED
    BY <1>6, <2>1
<1>7. ASSUME NEW i, Arrived(i), Handled(i)
      PROVE  Place(k, i) \in DOMAIN net \ {i} /\ net'[k] = net[Place(k, i)]
  <2>1. /\ i \in DOMAIN net
        /\ \A l \in DOMAIN Without(i) : net'[l] = net[Place(l, i)]
        /\ \A l \in DOMAIN net' : l \in DOMAIN Without(i) \/ l = Len(net)
        /\ \/ LastLoad(Doing(net[i])) \/ LastLoad(Free) \/ LastElse(Doing(net[i]))
           \/ DOMAIN net' = DOMAIN Without(i)
    BY <1>7, ArrivedNet
  <2>2. k \in DOMAIN Without(i)
    BY <2>1 DEF LastLoad, LastElse, Last
  <2> QED
    BY <1>1, <2>1, <2>2, WithoutOne
<1> QED
  BY <1>2, <1>4, <1>5, <1>6, <1>7, StepKinds

LEMMA KnownStep == TypeInv /\ KnownInv /\ [Next]_vars => KnownInv'
<1> SUFFICES ASSUME TypeInv, KnownInv, [Next]_vars PROVE KnownInv'
  OBVIOUS
<1>1. /\ seen \in Nat /\ told \in Nat /\ wrote \in Nat /\ doc.ver \in Nat
      /\ seen <= doc.ver /\ told <= doc.ver /\ wrote <= doc.ver
      /\ \A i \in DOMAIN net : Brought(i) =>
            net[i].answer.ver \in Nat /\ net[i].answer.ver <= doc.ver
  BY Numbers, BroughtTyped DEF KnownInv
<1>2. doc'.ver \in Nat /\ doc'.ver >= doc.ver
  <2>1. doc' = doc \/ (doc' \in Lists /\ doc'.ver >= doc.ver) \/ OtherAdmin
    BY StepKinds, Sent, Reloaded DEF Locally, Answered, Arrived
  <2>2. CASE OtherAdmin
    BY <1>1, <2>2 DEF OtherAdmin
  <2> QED
    BY <1>1, <2>1, <2>2, ListFacts
<1>3. wrote' <= doc'.ver
  <2>1. wrote' \in {wrote, doc'.ver}
    BY StepKinds, Sent, Reloaded DEF Locally, OtherAdmin, Answered, Arrived
  <2> QED
    BY <1>1, <1>2, <2>1
<1>5. seen' <= doc'.ver /\ told' <= doc'.ver
  <2>1. CASE UNCHANGED <<seen, told>>
    BY <1>1, <1>2, <2>1
  <2>2. ASSUME NEW i, Arrived(i)
        PROVE  seen' <= doc'.ver /\ told' <= doc'.ver
    <3>1. /\ seen' = seen \/ (Brought(i) /\ seen' = Newest(seen, net[i].answer.ver))
          /\ told' = told \/ (Brought(i) /\ told' = Newest(told, net[i].answer.ver))
          /\ i \in DOMAIN net
      BY <2>2 DEF Arrived, Brought
    <3>2. seen' = seen \/ (Brought(i) /\ seen' = net[i].answer.ver)
      BY <1>1, <3>1, NewestIs
    <3>3. told' = told \/ (Brought(i) /\ told' = net[i].answer.ver)
      BY <1>1, <3>1, NewestIs
    <3> QED
      BY <1>1, <1>2, <3>1, <3>2, <3>3
  <2> QED
    BY <2>1, <2>2, StepKinds, Sent, Reloaded DEF Locally, OtherAdmin, Answered
<1>4. ASSUME NEW k \in DOMAIN net', net'[k].answered, Bears(net'[k])
      PROVE  net'[k].answer.ver <= doc'.ver
  <2>1. CASE Answered(k)
    BY <1>2, <1>4, <2>1 DEF Answered, Bears
  <2>2. ASSUME NEW j \in DOMAIN net, net'[k] = net[j]
        PROVE  net'[k].answer.ver <= doc'.ver
    BY <1>1, <1>2, <1>4, <2>2 DEF Brought
  <2> QED
    BY <1>4, <2>1, <2>2, Moved
<1> QED
  BY <1>3, <1>4, <1>5 DEF KnownInv, Brought, Bears

(***************************************************************************)
(* Once nothing is on its way, the list on the page is as new as what the  *)
(* page was told of.                                                       *)
(***************************************************************************)
\* While no answer overtook another: the answers are those of the first
\* requests, and each is as new as what was told before it.
Ordered ==
    \A i \in DOMAIN net :
        /\ net[i].answered => \A j \in 1 .. i - 1 : net[j].answered
        /\ Brought(i) => /\ net[i].answer.ver >= seen
                         /\ \A j \in 1 .. i - 1 :
                               Brought(j) => net[i].answer.ver >= net[j].answer.ver

\* A list that is shown though an answer told of a newer one is being loaded.
Fresh ==
    Ready(ui) => \/ ui.data.ver >= seen
                 \/ \E i \in DOMAIN net : net[i].kind = "get"

FreshInv == ~overtook => Ordered /\ Fresh

LEMMA FreshInit == Init => FreshInv
<1> SUFFICES ASSUME Init PROVE FreshInv
  OBVIOUS
<1>1. Load(Free).answered = FALSE
  BY FreeTyped, LoadTyped
<1>2. \A i \in DOMAIN net : ~net[i].answered
  <2> DEFINE r == Load(Free)
  <2>1. net = <<r>> /\ ~r.answered
    BY <1>1 DEF Init
  <2> HIDE DEF r
  <2> QED
    BY <2>1
<1>3. ~Ready(ui)
  BY DEF Init, Ready
<1> QED
  BY <1>2, <1>3 DEF FreshInv, Ordered, Fresh, Brought

\* Requests that a step adds or leaves alone.
LEMMA OrderedKept ==
  ASSUME TypeInv, Ordered, UNCHANGED seen,
         \A k \in DOMAIN net : k \in DOMAIN net' /\ net'[k] = net[k],
         \A k \in DOMAIN net' : net'[k].answered => k \in DOMAIN net
  PROVE  Ordered'
<1>1. DOMAIN net = 1 .. Len(net) /\ Len(net) \in Nat
  BY Requested
<1>2. ASSUME NEW i \in DOMAIN net', net'[i].answered
      PROVE  /\ i \in DOMAIN net /\ net'[i] = net[i]
             /\ \A j \in 1 .. i - 1 : j \in DOMAIN net /\ net'[j] = net[j]
  <2>1. i \in DOMAIN net
    BY <1>2
  <2>2. \A j \in 1 .. i - 1 : j \in DOMAIN net
    BY <1>1, <2>1
  <2> QED
    BY <2>1, <2>2
<1> QED
  BY <1>2 DEF Ordered, Brought, Bears

LEMMA OrderedStep == TypeInv /\ KnownInv /\ FreshInv /\ ~overtook' /\ [Next]_vars => Ordered'
<1> SUFFICES ASSUME TypeInv, KnownInv, FreshInv, ~overtook', [Next]_vars PROVE Ordered'
  OBVIOUS
<1>1. /\ net \in Seq(Requests) /\ DOMAIN net = 1 .. Len(net) /\ Len(net) \in Nat
      /\ page \in Pages /\ seen \in Nat /\ doc.ver \in Nat
      /\ \A i \in DOMAIN net : Brought(i) => net[i].answer.ver \in Nat
  BY Requested, Numbers, BroughtTyped
<1>2. ~overtook
  BY StepKinds, Sent, Reloaded DEF Locally, OtherAdmin, Answered, Arrived
<1>3. Ordered
  BY <1>2 DEF FreshInv
<1>4. CASE Locally \/ OtherAdmin
  BY <1>3, <1>4, OrderedKept DEF Locally, OtherAdmin
<1>5. ASSUME NEW r \in Requests, net' = Append(net, r), ~r.answered, UNCHANGED seen
      PROVE  Ordered'
  <2>1. /\ \A k \in DOMAIN net : k \in DOMAIN net' /\ net'[k] = net[k]
        /\ \A k \in DOMAIN net' : net'[k].answered => k \in DOMAIN net
    BY <1>1, <1>5, AppendTyped
  <2> QED
    BY <1>3, <1>5, <2>1, OrderedKept
<1>6. ASSUME NEW op \in Ops, NEW x \in Rows \union {NoRow}, Send(On(op, x))
      PROVE  Ordered'
  <2> DEFINE r == Request("write", On(op, x))
  <2>1. On(op, x) \in Operations /\ net' = Append(net, r) /\ UNCHANGED seen
    BY <1>6, Sent
  <2>2. r \in Requests /\ ~r.answered
    BY <2>1, RequestTyped
  <2> QED
    BY <1>5, <2>1, <2>2
<1>7. CASE Reload
  BY <1>5, <1>7, Reloaded, LoadTyped, FreeTyped
<1>8. ASSUME NEW i, Answered(i)
      PROVE  Ordered'
  <2>1. /\ i \in DOMAIN net /\ ~net[i].answered /\ UNCHANGED seen
        /\ doc' \in Lists /\ doc'.ver \in Nat /\ doc'.ver >= doc.ver
        /\ DOMAIN net' = DOMAIN net
        /\ \A k \in DOMAIN net : k # i => net'[k] = net[k]
        /\ net'[i].answered /\ (Bears(net'[i]) => net'[i].answer = doc')
    BY <1>1, <1>8, ListFacts DEF Answered, Bears
  <2>6. \A j \in 1 .. i - 1 : net[j].answered
    <3>1. overtook' = (overtook \/ \E j \in 1 .. i - 1 : ~net[j].answered)
      BY <1>8 DEF Answered
    <3> QED
      BY <3>1
  <2>2. \A k \in DOMAIN net : k > i => ~net[k].answered
    <3> SUFFICES ASSUME NEW k \in DOMAIN net, k > i, net[k].answered PROVE FALSE
      OBVIOUS
    <3>1. i \in 1 .. k - 1
      BY <1>1, <2>1
    <3> QED
      BY <1>3, <2>1, <3>1 DEF Ordered
  <2>3. ASSUME NEW k \in DOMAIN net', net'[k].answered, k # i
        PROVE  /\ k < i /\ net'[k] = net[k]
               /\ \A j \in 1 .. k - 1 : j \in DOMAIN net /\ net'[j] = net[j]
    <3>1. k < i /\ net'[k] = net[k]
      BY <1>1, <2>1, <2>2, <2>3
    <3>2. \A j \in 1 .. k - 1 : j \in DOMAIN net /\ j # i
      BY <1>1, <2>1, <3>1
    <3> QED
      BY <2>1, <3>1, <3>2
  <2>4. \A j \in 1 .. i - 1 : j \in DOMAIN net /\ net'[j] = net[j]
    BY <1>1, <2>1
  <2>5. Brought(i)' => /\ net'[i].answer.ver >= seen
                       /\ \A j \in 1 .. i - 1 :
                             Brought(j) => net'[i].answer.ver >= net[j].answer.ver
    <3> SUFFICES ASSUME Brought(i)'
                 PROVE  /\ net'[i].answer.ver >= seen
                        /\ \A j \in 1 .. i - 1 :
                              Brought(j) => net'[i].answer.ver >= net[j].answer.ver
      OBVIOUS
    <3>1. net'[i].answer = doc'
      BY <2>1 DEF Brought
    <3>2. seen <= doc.ver /\ \A j \in 1 .. i - 1 : Brought(j) => net[j].answer.ver <= doc.ver
      BY <2>4 DEF KnownInv
    <3> QED
      BY <1>1, <2>1, <2>4, <3>1, <3>2
  <2> QED
    BY <1>3, <2>1, <2>3, <2>4, <2>5, <2>6 DEF Ordered, Brought, Bears
<1>9. ASSUME NEW i, Arrived(i), Handled(i)
      PROVE  Ordered'
  <2>1. i = 1 /\ i \in DOMAIN net
    <3>1. i \in DOMAIN net /\ overtook' = (overtook \/ i > 1)
      BY <1>9 DEF Arrived
    <3>2. ~(i > 1)
      BY <3>1
    <3>3. i \in 1 .. Len(net) /\ Len(net) \in Nat
      BY <1>1, <3>1
    <3> QED
      BY <3>1, <3>2, <3>3
  <2>2. /\ DOMAIN Without(1) = 1 .. Len(net) - 1
        /\ \A k \in DOMAIN Without(1) : k \in DOMAIN net' /\ net'[k] = net[Place(k, 1)]
        /\ \A k \in DOMAIN net' : k \in DOMAIN Without(1) \/ k = Len(net)
        /\ \/ LastLoad(Doing(net[1])) \/ LastLoad(Free) \/ LastElse(Doing(net[1]))
           \/ DOMAIN net' = DOMAIN Without(1)
    BY <1>9, <2>1, ArrivedNet
  <2>3. \A k \in 1 .. Len(net) - 1 :
           k \in DOMAIN net' /\ k + 1 \in DOMAIN net /\ net'[k] = net[k + 1]
    BY <1>1, <2>1, <2>2 DEF Place
  <2>4. \A k \in DOMAIN net' : net'[k].answered => k \in 1 .. Len(net) - 1
    BY <2>2 DEF LastLoad, LastElse, Last
  <2>5. seen' = seen \/ (Brought(1) /\ seen' = Newest(seen, net[1].answer.ver))
    BY <1>9, <2>1 DEF Arrived, Brought
  <2>6. \A k \in 1 .. Len(net) - 1 : Brought(k + 1) => net[k + 1].answer.ver >= seen'
    <3> SUFFICES ASSUME NEW k \in 1 .. Len(net) - 1, Brought(k + 1)
                 PROVE  net[k + 1].answer.ver >= seen'
      OBVIOUS
    <3>1. k + 1 \in DOMAIN net /\ 1 \in 1 .. (k + 1) - 1
      BY <2>3
    <3>2. net[k + 1].answer.ver >= seen
      BY <1>3, <3>1 DEF Ordered
    <3>3. Brought(1) => net[k + 1].answer.ver >= net[1].answer.ver
      BY <1>3, <3>1 DEF Ordered
    <3> QED
      BY <1>1, <2>1, <2>5, <3>1, <3>2, <3>3, NewestIs
  <2>7. ASSUME NEW k \in DOMAIN net', net'[k].answered
        PROVE  /\ \A j \in 1 .. k - 1 : net'[j].answered
               /\ Bears(net'[k]) =>
                     /\ net'[k].answer.ver >= seen'
                     /\ \A j \in 1 .. k - 1 :
                           net'[j].answered /\ Bears(net'[j]) =>
                               net'[k].answer.ver >= net'[j].answer.ver
    <3>1. k \in 1 .. Len(net) - 1 /\ k + 1 \in DOMAIN net /\ net'[k] = net[k + 1]
      BY <2>3, <2>4, <2>7
    <3>2. \A j \in 1 .. k - 1 :
             j \in 1 .. Len(net) - 1 /\ net'[j] = net[j + 1] /\ j + 1 \in 1 .. (k + 1) - 1
      BY <1>1, <2>3, <3>1
    <3>3. \A j \in 1 .. k - 1 : net'[j].answered
      BY <1>3, <2>7, <3>1, <3>2 DEF Ordered
    <3>4. ASSUME Bears(net'[k])
          PROVE  /\ net'[k].answer.ver >= seen'
                 /\ \A j \in 1 .. k - 1 :
                       net'[j].answered /\ Bears(net'[j]) =>
                           net'[k].answer.ver >= net'[j].answer.ver
      <4>1. Brought(k + 1)
        BY <2>7, <3>1, <3>4 DEF Brought
      <4>2. \A j \in 1 .. (k + 1) - 1 : Brought(j) => net[k + 1].answer.ver >= net[j].answer.ver
        BY <1>3, <3>1, <4>1 DEF Ordered
      <4> QED
        BY <2>6, <3>1, <3>2, <4>1, <4>2 DEF Brought
    <3> QED
      BY <3>3, <3>4
  <2> QED
    BY <2>7 DEF Ordered, Brought, Bears
<1> QED
  BY <1>4, <1>6, <1>7, <1>8, <1>9, StepKinds

LEMMA FreshStep == TypeInv /\ KnownInv /\ FreshInv /\ [Next]_vars => FreshInv'
<1> SUFFICES ASSUME TypeInv, KnownInv, FreshInv, [Next]_vars, ~overtook'
             PROVE  Fresh'
  BY OrderedStep DEF FreshInv
<1>1. /\ net \in Seq(Requests) /\ DOMAIN net = 1 .. Len(net) /\ Len(net) \in Nat
      /\ page \in Pages /\ seen \in Nat
      /\ \A i \in DOMAIN net : Brought(i) => net[i].answer.ver \in Nat
  BY Requested, Numbers, BroughtTyped
<1>2. ~overtook
  BY StepKinds, Sent, Reloaded DEF Locally, OtherAdmin, Answered, Arrived
<1>3. Ordered /\ Fresh
  BY <1>2 DEF FreshInv
<1>4. ASSUME UNCHANGED seen, ui'.view = ui.view, ui'.data = ui.data,
             \A k \in DOMAIN net : net[k].kind = "get" =>
                 \E j \in DOMAIN net' : net'[j].kind = "get"
      PROVE  Fresh'
  BY <1>3, <1>4 DEF Fresh, Ready
<1>5. CASE Locally \/ OtherAdmin
  BY <1>4, <1>5 DEF Locally, OtherAdmin
<1>6. ASSUME NEW op \in Ops, NEW x \in Rows \union {NoRow}, Send(On(op, x))
      PROVE  Fresh'
  <2> DEFINE r == Request("write", On(op, x))
  <2>1. /\ On(op, x) \in Operations /\ net' = Append(net, r) /\ UNCHANGED seen
        /\ ui'.view = ui.view /\ ui'.data = ui.data
    BY <1>6, Sent
  <2>2. r \in Requests
    BY <2>1, RequestTyped
  <2> HIDE DEF r
  <2>3. \A k \in DOMAIN net : k \in DOMAIN net' /\ net'[k] = net[k]
    BY <1>1, <2>1, <2>2, AppendTyped
  <2> QED
    BY <1>4, <2>1, <2>3
<1>7. CASE Reload
  BY <1>7, Reloaded DEF Fresh, Ready
<1>8. ASSUME NEW i, Answered(i)
      PROVE  Fresh'
  <2>1. /\ UNCHANGED <<seen, ui>> /\ DOMAIN net' = DOMAIN net
        /\ \A k \in DOMAIN net : net'[k].kind = net[k].kind
    BY <1>1, <1>8 DEF Answered
  <2> QED
    BY <1>4, <2>1
<1>9. ASSUME NEW i, Arrived(i), Handled(i)
      PROVE  Fresh'
  <2>1. /\ i = 1 /\ i \in DOMAIN net /\ net[i].answered
        /\ seen' = IF Bears(net[i]) /\ Told(net[i])
                   THEN Newest(seen, net[i].answer.ver) ELSE seen
    <3>1. /\ i \in DOMAIN net /\ net[i].answered /\ overtook' = (overtook \/ i > 1)
          /\ seen' = IF Bears(net[i]) /\ Told(net[i])
                     THEN Newest(seen, net[i].answer.ver) ELSE seen
      BY <1>9 DEF Arrived
    <3>2. ~(i > 1)
      BY <3>1
    <3>3. i \in 1 .. Len(net) /\ Len(net) \in Nat
      BY <1>1, <3>1
    <3> QED
      BY <3>1, <3>2, <3>3
  <2>2. CASE LastLoad(Doing(net[i])) \/ LastLoad(Free)
    <3>1. \E k \in DOMAIN net' : net'[k].kind = "get"
      BY <2>2 DEF LastLoad, Last
    <3> QED
      BY <3>1 DEF Fresh
  <2>4. \A k \in DOMAIN Without(i) : k \in DOMAIN net' /\ net'[k] = net[Place(k, i)]
    BY <1>9, ArrivedNet
  <2>5. ASSUME NEW k \in DOMAIN net, net[k].kind = "get", net[i].kind # "get"
        PROVE  \E j \in DOMAIN net' : net'[j].kind = "get"
    <3>1. k \in DOMAIN net \ {i}
      BY <2>5
    <3>2. \E j \in DOMAIN Without(i) : k = Place(j, i) /\ Without(i)[j] = net[k]
      BY <1>1, <2>1, <3>1, WithoutOne
    <3> QED
      BY <2>4, <2>5, <3>2
  <2>6. CASE LoadsElsewhere(i)
    <3>1. /\ ui'.view = ui.view /\ ui'.data = ui.data /\ net[i].kind = "write"
          /\ UNCHANGED seen
      BY <2>1, <2>6 DEF LoadsElsewhere
    <3> QED
      BY <1>4, <2>5, <3>1
  <2>3. CASE Ends(i)
    <3>1. CASE Bears(net[i]) /\ Told(net[i])
      <4>1. ui'.data = net[i].answer
        BY <2>3, <3>1 DEF Ends
      <4>2. Brought(i) /\ net[i].answer.ver >= seen /\ net[i].answer.ver \in Nat
        BY <1>1, <1>3, <2>1, <3>1 DEF Brought, Ordered
      <4>3. net[i].answer.ver >= seen'
        BY <1>1, <2>1, <3>1, <4>2, NewestIs
      <4> QED
        BY <4>1, <4>3 DEF Fresh
    <3>2. CASE net[i].kind = "get" /\ ~Bears(net[i])
      BY <2>3, <3>2 DEF Ends, Fresh, Ready
    <3>3. CASE net[i].kind # "get" /\ ~(Bears(net[i]) /\ Told(net[i]))
      <4>1. ui'.view = ui.view /\ ui'.data = ui.data /\ UNCHANGED seen
        BY <2>1, <2>3, <3>3 DEF Ends
      <4> QED
        BY <1>4, <2>5, <3>3, <4>1
    <3>4. net[i].kind = "get" => Told(net[i])
      BY DEF Told
    <3> QED
      BY <3>1, <3>2, <3>3, <3>4
  <2> QED
    BY <1>9, <2>2, <2>3, <2>6, ArrivedNet
<1> QED
  BY <1>5, <1>6, <1>7, <1>8, <1>9, StepKinds

LEMMA KnownAlways == Spec => []KnownInv
<1> QED
  BY TypeAlways, KnownInit, KnownStep, PTL DEF Spec

\* With nothing on its way, the list on the page is no older than what an
\* answer told the page of, if the answers came in order: a handler that
\* succeeded adopts its answer or calls the loader again.
THEOREM SettledCorrect == Spec => []SettledFresh
<1>1. FreshInv => SettledFresh
  BY DEF FreshInv, Fresh, SettledFresh
<1> QED
  BY <1>1, TypeAlways, KnownAlways, FreshInit, FreshStep, PTL DEF Spec

(***************************************************************************)
(* The secret on a page is not one that the page replaced or revoked.      *)
(***************************************************************************)
Tokens == {"scim", "export-signing"}

\* On the pages of a token every operation holds the form, and all that is
\* offered shows the secret or takes it off.
LEMMA TokenPages ==
  ASSUME page \in Pages, page \in Tokens
  PROVE  /\ \A op \in Ops : Handlers.flag[op] = "form" /\ Handlers.after[op] = "reload"
         /\ Handlers.single
         /\ page = "scim" =>
               /\ Handlers.shows = {"create"} /\ Handlers.drops = {"purge"}
               /\ ~Handlers.mints
               /\ \A o \in Controls : o.op \in Ops => o.op \in {"create", "purge"}
         /\ page = "export-signing" =>
               /\ Handlers.shows = Handlers.hides /\ Handlers.drops = {}
               /\ \A o \in Controls : o.op \in Ops => o.op \in Handlers.hides
<1>1. CASE page = "scim"
  <2>1. Handlers = ScimHandlers /\ Controls = ScimControls(ui)
    BY <1>1 DEF Handlers, HandlersOf, Controls
  <2>2. \A o \in ScimControls(ui) : o.op \in {"create", "purge"}
    BY DEF ScimControls, When, Of, On
  <2>3. LET h == ScimHandlers
        IN  /\ \A op \in Ops : h.flag[op] = "form" /\ h.after[op] = "reload"
            /\ h.single
            /\ h.shows = {"create"} /\ h.drops = {"purge"} /\ ~h.mints
    BY DEF ScimHandlers, ListForm, All, Ops
  <2> QED
    BY <2>1, <2>2, <2>3, <1>1
<1>2. CASE page = "export-signing"
  <2>1. Handlers = ExportSigningHandlers /\ Controls = ExportSigningControls(ui)
    BY <1>2 DEF Handlers, HandlersOf, Controls
  <2>2. \A o \in ExportSigningControls(ui) : o.op \in {"create", "renew", "reveal"}
    BY DEF ExportSigningControls, When, Of, On
  <2>3. LET h == ExportSigningHandlers
        IN  /\ \A op \in Ops : h.flag[op] = "form" /\ h.after[op] = "reload"
            /\ h.single
            /\ h.hides = {"create", "renew", "reveal"}
            /\ h.shows = h.hides /\ h.drops = {}
    BY DEF ExportSigningHandlers, ListForm, All, Ops
  <2> QED
    BY <2>1, <2>2, <2>3, <1>2
<1> QED
  BY <1>1, <1>2 DEF Tokens

\* The newest token that the page knows it has made, or has made. A write of
\* the SCIM token shows a token or drops it, and its answer, once it has one,
\* is newer than any the page was told of; the signing key is off the page
\* while a write is on its way.
Dated == IF page = "scim" THEN told ELSE wrote
TokenWrite(i) ==
    /\ page = "scim" =>
          /\ net[i].op \in {"create", "purge"}
          /\ Brought(i) /\ net[i].op = "create" => net[i].answer.rows # {}
    /\ page = "export-signing" => ui.secret = 0
    /\ Brought(i) => net[i].answer.ver >= Dated

SecretInv ==
    page \in Tokens =>
        /\ ui.secret # 0 => ui.secret >= Dated
        /\ \A i \in DOMAIN net : net[i].kind = "write" => TokenWrite(i)

LEMMA SecretInit == Init => SecretInv
<1> SUFFICES ASSUME Init PROVE SecretInv
  OBVIOUS
<1>1. \A i \in DOMAIN net : net[i].kind = "get"
  <2> DEFINE r == Load(Free)
  <2>1. net = <<r>> /\ r.kind = "get"
    BY LoadTyped, FreeTyped DEF Init
  <2> HIDE DEF r
  <2> QED
    BY <2>1
<1>2. ui.secret = 0
  BY DEF Init
<1> QED
  BY <1>1, <1>2 DEF SecretInv

\* Only one write is on its way.
LEMMA OneWrite ==
  ASSUME TypeInv, AloneInv, page \in Tokens,
         NEW i \in DOMAIN net, net[i].kind = "write"
  PROVE  /\ net[i].op \in Ops /\ Doing(net[i]).op = net[i].op
         /\ \A j \in DOMAIN net : net[j].kind = "write" => i = j
<1>1. \A j \in DOMAIN net : net[j].kind = "write" =>
         /\ net[j].op \in Ops /\ Doing(net[j]).op = net[j].op
         /\ FlagOf(Doing(net[j])) = "form"
  <2> TAKE j \in DOMAIN net
  <2> HAVE net[j].kind = "write"
  <2>1. page \in Pages /\ net[j] \in Requests /\ net[j].op \in Ops
    BY Requested
  <2>2. Doing(net[j]).op = net[j].op
    BY <2>1, DoingTyped
  <2> QED
    BY <2>1, <2>2, TokenPages, FlagTyped
<1>2. Alone(Doing(net[i]))
  BY <1>1, Requested DEF AloneInv, Guarded, Tokens, Flags
<1> QED
  BY <1>1, <1>2 DEF Alone

LEMMA SecretStep ==
  TypeInv /\ AloneInv /\ KnownInv /\ SecretInv /\ [Next]_vars => SecretInv'
<1> DEFINE Goal == /\ ui'.secret # 0 => ui'.secret >= Dated'
                   /\ \A k \in DOMAIN net' : net'[k].kind = "write" => TokenWrite(k)'
<1> SUFFICES ASSUME TypeInv, AloneInv, KnownInv, SecretInv, [Next]_vars, page \in Tokens
             PROVE  Goal
  BY PageStays DEF SecretInv
<1>1. /\ net \in Seq(Requests) /\ DOMAIN net = 1 .. Len(net) /\ Len(net) \in Nat
      /\ page \in Pages /\ told \in Nat /\ wrote \in Nat /\ doc.ver \in Nat
      /\ page' = page /\ Handlers' = Handlers
      /\ page = "scim" \/ page = "export-signing"
      /\ \A i \in DOMAIN net : Brought(i) => net[i].answer.ver \in Nat
  BY Requested, Numbers, BroughtTyped, PageStays DEF Tokens
<1>2. /\ ui.secret # 0 => ui.secret >= Dated
      /\ \A i \in DOMAIN net : net[i].kind = "write" => TokenWrite(i)
  BY DEF SecretInv
<1>3. ASSUME ui'.secret \in {0, ui.secret}, Dated' = Dated,
             \A k \in DOMAIN net' : net'[k].kind = "write" =>
                 (k \in DOMAIN net /\ net'[k] = net[k]) \/ TokenWrite(k)'
      PROVE  Goal
  <2>1. ui'.secret # 0 => ui'.secret >= Dated'
    BY <1>2, <1>3
  <2>2. ASSUME NEW k \in DOMAIN net', net'[k].kind = "write",
               k \in DOMAIN net, net'[k] = net[k]
        PROVE  TokenWrite(k)'
    BY <1>1, <1>2, <1>3, <2>2 DEF TokenWrite, Brought, Bears
  <2> QED
    BY <1>3, <2>1, <2>2
<1>4. CASE Locally \/ OtherAdmin
  BY <1>3, <1>4 DEF Locally, OtherAdmin, Dated
<1>5. CASE Reload
  <2> DEFINE r == Load(Free)
  <2>1. r \in Requests /\ r.kind = "get"
    BY LoadTyped, FreeTyped
  <2>2. net' = Append(net, r) /\ ui'.secret = ui.secret /\ Dated' = Dated
    BY <1>5, Reloaded DEF Dated
  <2> HIDE DEF r
  <2>3. \A k \in DOMAIN net' : net'[k].kind = "write" => k \in DOMAIN net /\ net'[k] = net[k]
    BY <1>1, <2>1, <2>2, AppendTyped
  <2> QED
    BY <1>3, <2>2, <2>3
<1>6. ASSUME NEW op \in Ops, NEW x \in Rows \union {NoRow}, Send(On(op, x))
      PROVE  Goal
  <2> DEFINE o == On(op, x)
             r == Request("write", o)
  <2>1. /\ o \in Operations /\ o.op = op /\ o \in Controls /\ net' = Append(net, r)
        /\ ui'.secret = (IF op \in Handlers.hides THEN 0 ELSE ui.secret)
        /\ Dated' = Dated
    BY <1>6, Sent, OnIs DEF Dated
  <2>2. r \in Requests /\ r.op = o.op /\ r.answered = FALSE
    BY <2>1, RequestTyped
  <2>3. /\ page = "scim" => o.op \in {"create", "purge"}
        /\ page = "export-signing" => ui'.secret = 0
    BY <1>1, <2>1, TokenPages DEF Tokens
  <2> HIDE DEF r, o
  <2>4. /\ \A k \in DOMAIN net' : (k \in DOMAIN net /\ net'[k] = net[k]) \/ net'[k] = r
    BY <1>1, <2>1, <2>2, AppendTyped
  <2>5. \A k \in DOMAIN net' : net'[k] = r => TokenWrite(k)'
    BY <1>1, <2>2, <2>3 DEF TokenWrite, Brought
  <2> QED
    BY <1>3, <2>1, <2>4, <2>5
<1>7. ASSUME NEW i, Answered(i)
      PROVE  Goal
  <2>1. /\ i \in DOMAIN net /\ UNCHANGED <<ui, told>> /\ DOMAIN net' = DOMAIN net
        /\ \A k \in DOMAIN net : k # i => net'[k] = net[k]
        /\ net'[i].kind = net[i].kind /\ net'[i].op = net[i].op
        /\ Bears(net'[i]) => net'[i].answer = doc'
        /\ doc' \in Lists /\ doc'.ver >= doc.ver
        /\ wrote' = wrote \/ (wrote' = doc'.ver /\ ~Reads(net[i]))
        /\ ~Reads(net[i]) /\ Bears(net'[i]) =>
              doc'.rows \in After(Doing(net[i]), doc.rows)
    BY <1>1, <1>7 DEF Answered, Bears
  <2>2. doc'.ver \in Nat /\ doc'.ver >= told /\ doc'.ver >= wrote
    <3>1. doc'.ver \in Nat /\ told <= doc.ver /\ wrote <= doc.ver
      BY <2>1, ListFacts DEF KnownInv
    <3> QED
      BY <1>1, <2>1, <3>1
  <2>3. CASE net[i].kind = "write"
    <3>1. net[i].op \in Ops /\ Doing(net[i]).op = net[i].op
      BY <2>1, <2>3, OneWrite
    <3>2. \A k \in DOMAIN net' : net'[k].kind = "write" => k = i
      BY <2>1, <2>3, OneWrite
    <3>3. Dated' <= doc'.ver
      BY <1>1, <2>1, <2>2 DEF Dated
    <3>4. TokenWrite(i)
      BY <1>2, <2>1, <2>3
    <3>5. ASSUME page = "scim", net[i].op = "create", Bears(net'[i])
          PROVE  net'[i].answer.rows # {}
      <4>1. Then(Doing(net[i])) = "reload" /\ Handlers.single
        BY <1>1, <3>1, TokenPages, FlagTyped
      <4>2. ~Reads(net[i])
        BY <2>3, <3>5, <4>1 DEF Reads
      <4>3. doc'.rows \in {{r} : r \in Rows}
        BY <2>1, <3>1, <3>5, <4>1, <4>2 DEF After
      <4> QED
        BY <2>1, <3>5, <4>3
    <3>6. TokenWrite(i)'
      BY <1>1, <2>1, <2>2, <3>3, <3>4, <3>5 DEF TokenWrite, Brought, Bears
    <3>7. ui'.secret # 0 => ui'.secret >= Dated'
      BY <1>1, <1>2, <2>1, <3>4 DEF TokenWrite, Dated
    <3> QED
      BY <3>2, <3>6, <3>7
  <2>4. CASE net[i].kind # "write"
    <3>1. Reads(net[i])
      BY <2>1, <2>4, Requested DEF Reads, Shaped, Requests
    <3>2. Dated' = Dated
      BY <1>1, <2>1, <3>1 DEF Dated
    <3> QED
      BY <1>3, <2>1, <2>4, <3>2
  <2> QED
    BY <2>3, <2>4
<1>8. ASSUME NEW i, Arrived(i), Handled(i)
      PROVE  Goal
  <2> DEFINE m == net[i]
  <2>1. /\ i \in DOMAIN net /\ m.answered /\ UNCHANGED wrote
        /\ told' = IF OneToken /\ Bears(m) /\ m.kind = "write" /\ ~Reads(m)
                   THEN Newest(told, m.answer.ver) ELSE told
        /\ ui'.secret = IF m.kind = "write" /\ m.answer # Failed
                        THEN SecretAfter(ui, Doing(m), m.answer) ELSE ui.secret
    BY <1>8 DEF Arrived
  <2>2. ASSUME NEW k \in DOMAIN net', net'[k].kind = "write"
        PROVE  \E j \in DOMAIN net \ {i} : net'[k] = net[j]
    <3>1. /\ \A l \in DOMAIN Without(i) : net'[l] = net[Place(l, i)]
          /\ \A l \in DOMAIN net' : l \in DOMAIN Without(i) \/ l = Len(net)
          /\ \/ LastLoad(Doing(net[i])) \/ LastLoad(Free) \/ LastElse(Doing(net[i]))
             \/ DOMAIN net' = DOMAIN Without(i)
      BY <1>8, ArrivedNet
    <3>2. k \in DOMAIN Without(i)
      BY <2>2, <3>1 DEF LastLoad, LastElse, Last
    <3> QED
      BY <1>1, <2>1, <3>1, <3>2, WithoutOne
  <2>3. CASE m.kind = "write"
    <3>1. m.op \in Ops /\ Doing(m).op = m.op /\ TokenWrite(i)
      BY <1>2, <2>1, <2>3, OneWrite
    <3>2. \A k \in DOMAIN net' : net'[k].kind # "write"
      BY <2>1, <2>2, <2>3, OneWrite
    <3>3. CASE page = "export-signing"
      <4>1. ui.secret = 0 /\ Dated = wrote /\ Dated' = wrote /\ Handlers.drops = {}
        BY <1>1, <2>1, <3>1, <3>3, TokenPages DEF TokenWrite, Dated, Tokens
      <4>2. ui'.secret = 0 \/ (ui'.secret = m.answer.ver /\ m.answer.rows # {} /\ m.answer # Failed)
        BY <2>1, <4>1 DEF SecretAfter
      <4>3. m.answer # Failed /\ m.answer.rows # {} => Brought(i)
        BY <2>1, ListFacts DEF Brought, Bears
      <4> QED
        BY <3>1, <3>2, <4>1, <4>2, <4>3 DEF TokenWrite
    <3>4. CASE page = "scim"
      <4>1. /\ Dated = told /\ Dated' = told' /\ m.op \in {"create", "purge"}
            /\ Handlers.shows = {"create"} /\ Handlers.drops = {"purge"}
            /\ Bears(m) <=> m.answer # Failed
        <5>1. ~Handlers.mints
          BY <1>1, <3>4, TokenPages DEF Tokens
        <5>2. m.answer # NoList
          BY <2>1, <5>1, Requested, ListFacts DEF Shaped, AnswerOK
        <5> QED
          BY <1>1, <3>1, <3>4, <5>2, TokenPages DEF TokenWrite, Dated, Tokens, Bears
      <4>2. CASE ~Bears(m)
        <5>1. ui'.secret = ui.secret /\ Dated' = Dated
          BY <2>1, <4>1, <4>2
        <5> QED
          BY <1>2, <3>2, <5>1
      <4>3. CASE Bears(m)
        <5>1. /\ m.answer.ver \in Nat /\ m.answer.ver >= told
              /\ m.op = "create" => m.answer.rows # {}
          BY <1>1, <2>1, <3>1, <3>4, <4>1, <4>3 DEF TokenWrite, Brought
        <5>2. told' <= m.answer.ver
          BY <1>1, <2>1, <5>1, NewestIs
        <5>3. ui'.secret = IF m.op = "create" THEN m.answer.ver ELSE 0
          BY <2>1, <2>3, <3>1, <4>1, <4>3, <5>1 DEF SecretAfter
        <5> QED
          BY <3>2, <4>1, <5>2, <5>3
      <4> QED
        BY <4>2, <4>3
    <3> QED
      BY <1>1, <3>3, <3>4
  <2>4. CASE m.kind # "write"
    <3>1. Dated' = Dated /\ ui'.secret = ui.secret
      BY <1>1, <2>1, <2>4 DEF Dated
    <3> QED
      BY <1>1, <1>2, <2>2, <3>1 DEF TokenWrite, Brought, Bears
  <2> QED
    BY <2>3, <2>4
<1> QED
  BY <1>4, <1>5, <1>6, <1>7, <1>8, StepKinds

\* The secret on the page is not one that the page has itself replaced or
\* revoked since: the signing key never, whatever becomes of the answer; the
\* SCIM token once an answer has told the page so.
THEOREM SecretCorrect == Spec => []SecretCurrent
<1>1. SecretInv => SecretCurrent
  BY DEF SecretInv, SecretCurrent, Tokens, Dated
<1> QED
  BY <1>1, TypeAlways, AloneAlways, KnownAlways, SecretInit, SecretStep, PTL DEF Spec

=============================================================================
