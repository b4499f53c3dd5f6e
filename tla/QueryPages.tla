----------------------------- MODULE QueryPages -----------------------------
(***************************************************************************)
(* The pages and panels of the web client that show the answer to a        *)
(* question the user keeps changing: a filter, a page number, the row whose *)
(* panel is open, the track of a route. Each question is a request of its   *)
(* own, and most pages show whatever answer comes last.                    *)
(*                                                                         *)
(* Two things keep question and answer together, and each page has one of  *)
(* them: a cache keyed by the URL (SWR), and loading again whenever the    *)
(* question changes. An operation on the answer (rename, advance, approve) *)
(* loads again with the question its handler was rendered with.            *)
(***************************************************************************)
EXTENDS Naturals, Sequences

CONSTANTS
    Pages,     \* the pages that are opened
    Items,     \* what can be asked for
    Rows,      \* bound: rows of an answer of the history page
    MaxFlight  \* bound: requests in flight at once

NoItem == "none"

ASSUME QueryAssumption == NoItem \notin Items /\ MaxFlight \in Nat \ {0}

VARIABLES
    page,     \* the page this tab shows
    ui,       \* its hooks
    net,      \* the requests in flight, in the order they were sent
    overtook, \* history: an answer overtook an earlier one
    crossed,  \* history: the question changed under an operation, or an
              \* operation's load was refused without a word
    doubled   \* history: two bulk operations were under way at once

vars == <<page, ui, net, overtook, crossed, doubled>>

(***************************************************************************)
(* The pages. An answer to an earlier question is shown all the same, or   *)
(* it is "keyed" and kept for when that question comes back.               *)
(***************************************************************************)
QueryForm ==
    [ keyed  |-> FALSE,
      typed  |-> FALSE,  \* a change that is sent when 200 ms have passed
      chosen |-> TRUE,   \* a change that is sent at once
      gated  |-> FALSE,  \* nothing is sent without a stored key
      blank  |-> TRUE,   \* a load drops the answer it replaces
      one    |-> TRUE,   \* answer, error and loading are one hook
      fails  |-> TRUE,   \* a failure drops the answer too
      closes |-> FALSE,  \* a panel of a row, which starts closed
      acts   |-> "never", \* operations, each followed by a load: on the
                          \* "rows" of the answer, or "always" there
      jumps  |-> FALSE,  \* ... that opens the panel of its row again
      quiet  |-> FALSE,  \* ... that leaves the answer on the page meanwhile
      bulk   |-> FALSE ] \* rows can be selected for an operation

AuditHandlers == [QueryForm EXCEPT !.gated = TRUE]
AuditChainHandlers == QueryForm
HistoryHandlers ==
    [QueryForm EXCEPT !.typed = TRUE, !.chosen = FALSE, !.blank = FALSE,
                      !.one = FALSE, !.acts = "rows", !.bulk = TRUE]
IncidentsHandlers ==
    [QueryForm EXCEPT !.blank = FALSE, !.one = FALSE, !.fails = FALSE,
                      !.acts = "always"]
KeyHistoryHandlers ==
    [QueryForm EXCEPT !.one = FALSE, !.fails = FALSE, !.closes = TRUE]
KeyDevicesHandlers ==
    [QueryForm EXCEPT !.one = FALSE, !.fails = FALSE, !.closes = TRUE,
                      !.acts = "rows", !.quiet = TRUE]
DeliveriesHandlers ==
    [QueryForm EXCEPT !.one = FALSE, !.closes = TRUE, !.acts = "always",
                      !.jumps = TRUE]
KeyedForm == [QueryForm EXCEPT !.keyed = TRUE, !.fails = FALSE]
ActivityHandlers == KeyedForm
FeedbackHandlers == KeyedForm
TrackHandlers == KeyedForm
CatalogHandlers == [KeyedForm EXCEPT !.typed = TRUE, !.blank = FALSE]

HandlersOf ==
  [ p \in Pages |->
    CASE p = "audit" -> AuditHandlers
      [] p = "audit-chain" -> AuditChainHandlers
      [] p = "history" -> HistoryHandlers
      [] p = "incidents" -> IncidentsHandlers
      [] p = "key-history" -> KeyHistoryHandlers
      [] p = "key-devices" -> KeyDevicesHandlers
      [] p = "deliveries" -> DeliveriesHandlers
      [] p = "activity" -> ActivityHandlers
      [] p = "feedback" -> FeedbackHandlers
      [] p = "track" -> TrackHandlers
      [] OTHER -> CatalogHandlers ]
Handlers == HandlersOf[page]

(***************************************************************************)
(* Requests: a "load", an "act" on the answer, a "delete" or a "tag" of    *)
(* the selected rows, the load "after" one of these two, or the load        *)
(* "again" of an operation that leaves the answer on the page meanwhile.    *)
(***************************************************************************)
Bulks == {"delete", "tag"}
Request(op, x) == [op |-> op, for |-> x]
Load(x) == Request("load", x)

Room(n) == Len(net) + n <= MaxFlight
Without(i) == [k \in 1 .. Len(net) - 1 |-> IF k < i THEN net[k] ELSE net[k + 1]]
Answered(u) == u.data # NoItem

\* The load function of the page, up to its fetch.
Loading(u) ==
    [u EXCEPT !.data = IF Handlers.blank THEN NoItem ELSE @, !.failed = FALSE]

\* The rows that are selected are dropped with the answer that showed them.
Pruned_Kept(u) == u
Pruned(u) ==
    IF Answered(u) THEN [u EXCEPT !.picked = @ \intersect u.rows] ELSE u

\* ... and after it.
Shown(u, x, answer) ==
    IF answer.ok
    THEN Pruned([u EXCEPT !.data = x, !.rows = answer.rows,
                          !.failed = IF Handlers.one THEN FALSE ELSE @])
    ELSE [u EXCEPT !.data = IF Handlers.fails THEN NoItem ELSE @,
                   !.rows = IF Handlers.fails THEN {} ELSE @, !.failed = TRUE]

\* An answer arrives, perhaps to an earlier question.
Loaded(u, m, answer) ==
    IF ~Handlers.keyed THEN Shown(u, m.for, answer)
    ELSE LET v == [u EXCEPT !.kept = IF answer.ok THEN @ \union {m.for} ELSE @]
         IN  IF m.for = u.asked THEN Shown(v, m.for, answer) ELSE v

Init ==
    /\ page \in Pages
    /\ \E x \in Items :
        LET first == IF Handlers.closes THEN NoItem ELSE x
            blank == [ want |-> first,
                       asked |-> IF Handlers.keyed THEN first ELSE NoItem,
                       data |-> NoItem, rows |-> {}, failed |-> FALSE, kept |-> {},
                       timer |-> Handlers.typed, picked |-> {}, bulk |-> "none" ]
        IN  \/ /\ ui = blank
               /\ net = IF Handlers.closes \/ ~Handlers.chosen
                        THEN << >> ELSE <<Load(x)>>
            \/ /\ Handlers.gated
               /\ ui = [blank EXCEPT !.failed = TRUE] /\ net = << >>
    /\ overtook = FALSE /\ crossed = FALSE /\ doubled = FALSE

(***************************************************************************)
(* The user.                                                               *)
(***************************************************************************)
Pending == {i \in DOMAIN net : net[i].op # "load"}
Crossing == crossed \/ Pending # {}

\* A bulk operation is under way until the load after it is answered.
Bulky(m) == m.op \in Bulks \union {"after"}
Bulking == {i \in DOMAIN net : Bulky(net[i])}

\* What the page holds of the question x when it is asked. "asked" is the URL
\* of a keyed page, which lags behind what is typed.
Asked(u, x) ==
    IF ~Handlers.keyed THEN Loading(u)
    ELSE IF x \in u.kept
         THEN [u EXCEPT !.asked = x, !.data = x, !.failed = FALSE]
         ELSE Loading([u EXCEPT !.asked = x])

Ask_NotSent(u, x) ==
    /\ ui' = Asked(u, x)
    /\ UNCHANGED <<net, overtook>>

\* The question x is asked, or the page says that there is no key: at once, so
\* before the answers that are under way.
Ask(u, x) ==
    \/ /\ Room(1)
       /\ ui' = Asked(u, x) /\ net' = Append(net, Load(x))
       /\ UNCHANGED overtook
    \/ /\ Handlers.gated
       /\ ui' = [u EXCEPT !.data = NoItem, !.failed = TRUE]
       /\ overtook' = (overtook \/ net # << >>)
       /\ UNCHANGED net

\* A choice. What is asked then is y: that choice, with what the fields held
\* before if something typed into them still waits.
Choose(x, y) ==
    /\ Handlers.chosen /\ x # ui.want /\ (~ui.timer => y = x)
    /\ Ask([ui EXCEPT !.want = x], y)
    /\ crossed' = Crossing
    /\ UNCHANGED <<page, doubled>>

\* A field is typed into: the timer starts anew.
Type(x) ==
    /\ Handlers.typed /\ x # ui.want
    /\ ui' = [ui EXCEPT !.want = x, !.timer = TRUE]
    /\ crossed' = Crossing
    /\ UNCHANGED <<page, net, overtook, doubled>>

\* The timer. A URL that is what it was is not asked for.
Elapse ==
    /\ ui.timer
    /\ LET u == [ui EXCEPT !.timer = FALSE] IN
       IF Handlers.keyed /\ ui.asked = ui.want
       THEN ui' = u /\ UNCHANGED <<net, overtook>>
       ELSE Ask(u, ui.want)
    /\ UNCHANGED <<page, crossed, doubled>>

\* The same question again: a button, a poll, a focus. The keyed pages show
\* what they have meanwhile; of the panels only one can be opened twice.
Refresh_Closed ==
    /\ Handlers.closes => Handlers.jumps
    /\ Ask(ui, ui.want)
    /\ UNCHANGED <<page, crossed, doubled>>
Refresh ==
    /\ ui.want # NoItem /\ (Handlers.closes => Handlers.jumps)
    /\ IF Handlers.keyed
       THEN Room(1) /\ net' = Append(net, Load(ui.asked)) /\ UNCHANGED <<ui, overtook>>
       ELSE Ask(ui, ui.want)
    /\ UNCHANGED <<page, crossed, doubled>>

\* The panel is closed, or the hook whose deliveries it lists is deleted.
Close ==
    /\ Handlers.closes /\ ui.want # NoItem
    /\ ui' = [ui EXCEPT !.want = NoItem, !.data = NoItem, !.failed = FALSE]
    /\ crossed' = Crossing
    /\ UNCHANGED <<page, net, overtook, doubled>>

\* An operation on the answer: patch and remove, post, approveDevice, sendTest.
\* A quiet one drops the error that is shown.
Act(x) ==
    /\ \/ Handlers.acts = "rows" /\ x = ui.want /\ Answered(ui)
       \/ Handlers.acts = "always" /\ (x = ui.want \/ Handlers.jumps)
    /\ Room(1)
    /\ ui' = [ui EXCEPT !.failed = @ /\ ~Handlers.quiet]
    /\ net' = Append(net, Request("act", x))
    /\ UNCHANGED <<page, overtook, crossed, doubled>>

Toggle(r) ==
    /\ Handlers.bulk /\ Answered(ui) /\ r \in ui.rows
    /\ ui' = [ui EXCEPT !.picked =
                 IF r \in @ THEN @ \ {r} ELSE @ \union {r}]
    /\ UNCHANGED <<page, net, overtook, crossed, doubled>>

\* bulkDelete and bulkAddTags. Their buttons are disabled while one of them is
\* under way; Enter in the field of the tags is not.
Bulk(op) ==
    /\ Handlers.bulk /\ Answered(ui) /\ ui.rows # {} /\ ui.picked # {}
    /\ op = "delete" => ui.bulk = "none"
    /\ Room(1)
    /\ ui' = [ui EXCEPT !.bulk = op]
    /\ net' = Append(net, Request(op, ui.want))
    /\ doubled' = (doubled \/ Bulking # {})
    /\ UNCHANGED <<page, overtook, crossed>>

(***************************************************************************)
(* The server and the network: an answer comes, in whatever order, or a    *)
(* failure. A row can be gone, or be new, whenever the history is asked for. *)
(***************************************************************************)
Failure == [ok |-> FALSE, rows |-> {}]
Answers ==
    {Failure} \union
    [ok : {TRUE}, rows : IF Handlers.bulk THEN SUBSET Rows ELSE {{}}]

LoadAnswered(i) ==
    /\ net[i].op = "load"
    /\ \E answer \in Answers : ui' = Loaded(ui, net[i], answer)
    /\ net' = Without(i)
    /\ UNCHANGED crossed

\* A bulk operation loads with the question of its handler, whatever failed in
\* it, and says afterwards if something did.
BulkAnswered(i) ==
    /\ net[i].op \in Bulks
    /\ ui' = Loading([ui EXCEPT !.picked = IF net[i].op = "delete" THEN {} ELSE @])
    /\ net' = Append(Without(i), Request("after", net[i].for))
    /\ UNCHANGED crossed

BulkEnded_Kept(u, some) == [u EXCEPT !.failed = @ \/ some]
BulkEnded(u, some) == [u EXCEPT !.bulk = "none", !.failed = @ \/ some]

AfterAnswered(i) ==
    /\ net[i].op = "after"
    /\ \E answer \in Answers, some \in BOOLEAN :
          ui' = BulkEnded(Loaded(ui, net[i], answer), some)
    /\ net' = Without(i)
    /\ UNCHANGED crossed

\* The other operations load if they succeed. The load of a quiet one shows
\* what it brings, and says nothing when it is refused.
ActAnswered(i) ==
    /\ net[i].op = "act"
    /\ \/ Handlers.quiet /\ UNCHANGED ui
          /\ net' = Append(Without(i), Request("again", net[i].for))
       \/ /\ ~Handlers.quiet
          /\ ui' = Loading(IF Handlers.jumps THEN [ui EXCEPT !.want = net[i].for] ELSE ui)
          /\ net' = Append(Without(i), Load(net[i].for))
       \/ ui' = [ui EXCEPT !.failed = @ \/ Handlers.quiet] /\ net' = Without(i)
    /\ UNCHANGED crossed

AgainAnswered(i) ==
    /\ net[i].op = "again"
    /\ \/ /\ \E answer \in Answers : ui' = Loaded(ui, net[i], answer)
          /\ UNCHANGED crossed
       \/ UNCHANGED ui /\ crossed' = TRUE
    /\ net' = Without(i)

Deliver(i) ==
    /\ i \in DOMAIN net
    /\ \/ LoadAnswered(i) \/ BulkAnswered(i) \/ AfterAnswered(i)
       \/ ActAnswered(i) \/ AgainAnswered(i)
    /\ overtook' = (overtook \/ i > 1)
    /\ UNCHANGED <<page, doubled>>

Next ==
    \/ \E x, y \in Items : Choose(x, y)
    \/ \E x \in Items : Type(x) \/ Act(x)
    \/ Elapse \/ Refresh \/ Close
    \/ \E r \in Rows : Toggle(r)
    \/ \E op \in Bulks : Bulk(op)
    \/ \E i \in 1 .. MaxFlight : Deliver(i)

Spec == Init /\ [][Next]_vars

-----------------------------------------------------------------------------
Hooks ==
    [ want : Items \union {NoItem}, asked : Items \union {NoItem},
      data : Items \union {NoItem}, rows : SUBSET Rows, failed : BOOLEAN,
      kept : SUBSET Items, timer : BOOLEAN, picked : SUBSET Rows,
      bulk : Bulks \union {"none"} ]
Requests ==
    [ op : Bulks \union {"load", "act", "after", "again"}, for : Items ]

\* Types: hooks and requests have the shapes above, and a request asks for
\* something.
QueryTypeOK ==
    /\ page \in Pages /\ ui \in Hooks
    /\ net \in Seq(Requests) /\ Len(net) <= MaxFlight
    /\ overtook \in BOOLEAN /\ crossed \in BOOLEAN /\ doubled \in BOOLEAN

\* Once nothing is under way, every page and every open panel shows the answer
\* to its question, or that it failed: no change is left unasked. It needs that
\* no answer overtook another, that no question was changed under an operation,
\* which ends in a load of the question before, and that no such load was
\* refused in silence.
SettledShowsAsked ==
    net = << >> /\ ~ui.timer /\ ~overtook /\ ~crossed =>
        ui.want = NoItem \/ ui.data = ui.want \/ ui.failed

\* The rows a bulk operation takes are rows that the user sees: a selection
\* never outlives the answer it was made in, whatever answers come late.
BulkTakesShown ==
    Answered(ui) => ui.picked \subseteq ui.rows

\* The mark of a bulk operation (bulkBusy) lasts from its first request to the
\* answer of the load after it, whatever fails, loads and changes meanwhile; it
\* is never left set. Of two operations at once the first to end takes the mark
\* of both.
BulkMarked ==
    /\ ui.bulk # "none" => Bulking # {}
    /\ Bulking # {} /\ ~doubled => ui.bulk # "none"
=============================================================================
