-------------------------- MODULE QueryPagesProofs --------------------------
(***************************************************************************)
(* The safety properties of QueryPages, for every set of pages, of things  *)
(* to ask for, of rows, and every number of requests in flight.            *)
(***************************************************************************)
EXTENDS QueryPages, TLAPS

HandlerRecords ==
    [ keyed : BOOLEAN, typed : BOOLEAN, chosen : BOOLEAN, gated : BOOLEAN,
      blank : BOOLEAN, one : BOOLEAN, fails : BOOLEAN, closes : BOOLEAN,
      acts : {"never", "rows", "always"}, jumps : BOOLEAN, quiet : BOOLEAN,
      bulk : BOOLEAN ]

(***************************************************************************)
(* Facts about the pages, one case per page.                               *)
(***************************************************************************)
\* What the descriptions of the pages have in common, whichever page it is: only
\* a panel that closes is without a question; a page with a timer has rows to
\* select or keys its requests; a page that keys its requests only loads.
Sound(h) ==
    /\ h \in HandlerRecords
    /\ h.bulk => /\ ~h.keyed /\ ~h.closes /\ ~h.blank /\ h.fails
                 /\ ~h.jumps /\ ~h.quiet
    /\ h.keyed => ~h.closes /\ h.acts = "never" /\ ~h.gated /\ h.chosen
    /\ h.typed => h.keyed \/ (h.bulk /\ ~h.chosen)
    /\ ~h.chosen => h.typed /\ ~h.keyed
    /\ h.jumps => h.closes /\ ~h.quiet

\* Every page is described by such a record.
LEMMA HandlersSound == \A p \in Pages : Sound(HandlersOf[p])
<1>1. QueryForm \in HandlerRecords /\ Sound(QueryForm)
  BY DEF QueryForm, HandlerRecords, Sound
<1>2. /\ Sound(AuditHandlers) /\ Sound(AuditChainHandlers) /\ Sound(HistoryHandlers)
      /\ Sound(IncidentsHandlers) /\ Sound(KeyHistoryHandlers)
      /\ Sound(KeyDevicesHandlers) /\ Sound(DeliveriesHandlers)
  BY DEF QueryForm, HandlerRecords, Sound, AuditHandlers, AuditChainHandlers,
     HistoryHandlers, IncidentsHandlers, KeyHistoryHandlers, KeyDevicesHandlers,
     DeliveriesHandlers
<1>3. /\ Sound(ActivityHandlers) /\ Sound(FeedbackHandlers)
      /\ Sound(TrackHandlers) /\ Sound(CatalogHandlers)
  BY DEF QueryForm, HandlerRecords, Sound, KeyedForm,
     ActivityHandlers, FeedbackHandlers, TrackHandlers, CatalogHandlers
<1> QED
  BY <1>2, <1>3 DEF HandlersOf

(***************************************************************************)
(* What the handlers write into the hooks.                                 *)
(***************************************************************************)
AnswerRecords == [ok : BOOLEAN, rows : SUBSET Rows]

\* Every answer is a list of rows, or a failure.
LEMMA AnswersTyped == Answers \subseteq AnswerRecords
<1>1. {{}} \subseteq SUBSET Rows /\ Failure \in AnswerRecords
  BY DEF Failure, AnswerRecords
<1>2. [ok : {TRUE}, rows : {{}}] \subseteq AnswerRecords
  BY <1>1 DEF AnswerRecords
<1>3. [ok : {TRUE}, rows : SUBSET Rows] \subseteq AnswerRecords
  BY DEF AnswerRecords
<1>4. CASE Handlers.bulk
  BY <1>1, <1>3, <1>4 DEF Answers
<1>5. CASE ~Handlers.bulk
  BY <1>1, <1>2, <1>5 DEF Answers
<1> QED
  BY <1>4, <1>5

\* The start of a load.
LEMMA LoadingHooks ==
  ASSUME page \in Pages, NEW u \in Hooks
  PROVE  LET v == Loading(u)
         IN  /\ v \in Hooks
             /\ v.want = u.want /\ v.timer = u.timer /\ v.kept = u.kept
             /\ v.asked = u.asked
             /\ v.picked = u.picked /\ v.rows = u.rows /\ v.bulk = u.bulk
             /\ v.failed = FALSE
             /\ v.data = IF Handlers.blank THEN NoItem ELSE u.data
  BY DEF Loading, Hooks

\* The selection after an answer.
LEMMA PrunedHooks ==
  ASSUME NEW u \in Hooks
  PROVE  LET v == Pruned(u)
         IN  /\ v \in Hooks
             /\ v.want = u.want /\ v.timer = u.timer /\ v.kept = u.kept
             /\ v.asked = u.asked
             /\ v.data = u.data /\ v.rows = u.rows /\ v.bulk = u.bulk
             /\ v.failed = u.failed
             /\ v.picked = IF Answered(u) THEN u.picked \intersect u.rows ELSE u.picked
  BY DEF Pruned, Hooks

\* The end of a load that is shown.
LEMMA ShownHooks ==
  ASSUME page \in Pages, NEW u \in Hooks, NEW x \in Items, NEW answer \in AnswerRecords
  PROVE  LET v == Shown(u, x, answer)
         IN  /\ v \in Hooks
             /\ v.want = u.want /\ v.timer = u.timer /\ v.bulk = u.bulk
             /\ v.asked = u.asked
             /\ answer.ok => /\ v.data = x /\ v.rows = answer.rows
                             /\ v.picked = u.picked \intersect answer.rows
             /\ ~answer.ok => /\ v.failed /\ v.picked = u.picked
                              /\ \/ v.data = NoItem
                                 \/ v.data = u.data /\ v.rows = u.rows
<1>1. Handlers \in HandlerRecords
  BY HandlersSound DEF Handlers, Sound
<1>2. CASE answer.ok
  <2> DEFINE w == [u EXCEPT !.data = x, !.rows = answer.rows,
                            !.failed = IF Handlers.one THEN FALSE ELSE @]
  <2>1. /\ w \in Hooks /\ w.want = u.want /\ w.timer = u.timer /\ w.asked = u.asked
        /\ w.bulk = u.bulk /\ w.data = x /\ w.rows = answer.rows /\ w.picked = u.picked
    BY DEF Hooks, AnswerRecords
  <2>2. Shown(u, x, answer) = Pruned(w)
    BY <1>2 DEF Shown
  <2> HIDE DEF w
  <2>3. Answered(w)
    BY <2>1, QueryAssumption DEF Answered
  <2> QED
    BY <1>2, <2>1, <2>2, <2>3, PrunedHooks
<1>3. CASE ~answer.ok
  <2>1. CASE Handlers.fails
    BY <1>3, <2>1 DEF Shown, Hooks
  <2>2. CASE ~Handlers.fails
    BY <1>3, <2>2 DEF Shown, Hooks
  <2> QED
    BY <2>1, <2>2
<1> QED
  BY <1>2, <1>3

\* What becomes of the answer to a load. It is shown, unless it was looked up by
\* its URL and the URL is another by now.
LEMMA LoadedHooks ==
  ASSUME page \in Pages, NEW u \in Hooks, NEW m \in Requests, NEW answer \in AnswerRecords
  PROVE  LET v == Loaded(u, m, answer)
         IN  /\ v \in Hooks
             /\ v.want = u.want /\ v.timer = u.timer /\ v.bulk = u.bulk
             /\ v.asked = u.asked
             /\ \/ /\ v.data = u.data /\ v.rows = u.rows /\ v.picked = u.picked
                   /\ v.failed = u.failed
                   /\ Handlers.keyed /\ m.for # u.asked
                \/ /\ v.data = m.for
                   /\ v.picked = u.picked \intersect v.rows
                   /\ Handlers.keyed => m.for = u.asked
                \/ /\ v.failed /\ v.picked = u.picked
                   /\ \/ v.data = NoItem
                      \/ v.data = u.data /\ v.rows = u.rows
<1>1. m.for \in Items
  BY DEF Requests
<1>2. CASE Handlers.keyed
  <2> DEFINE w == [u EXCEPT !.kept = IF answer.ok THEN @ \union {m.for} ELSE @]
  <2>1. /\ w \in Hooks /\ w.want = u.want /\ w.timer = u.timer /\ w.bulk = u.bulk
        /\ w.asked = u.asked
        /\ w.data = u.data /\ w.rows = u.rows /\ w.picked = u.picked /\ w.failed = u.failed
    BY <1>1 DEF Hooks
  <2>2. Loaded(u, m, answer) = IF m.for = u.asked THEN Shown(w, m.for, answer) ELSE w
    BY <1>2 DEF Loaded
  <2> HIDE DEF w
  <2>3. CASE m.for = u.asked
    <3> DEFINE v == Shown(w, m.for, answer)
    <3>1. /\ v \in Hooks
          /\ v.want = w.want /\ v.timer = w.timer /\ v.bulk = w.bulk /\ v.asked = w.asked
          /\ answer.ok => /\ v.data = m.for /\ v.rows = answer.rows
                          /\ v.picked = w.picked \intersect answer.rows
          /\ ~answer.ok => /\ v.failed /\ v.picked = w.picked
                           /\ \/ v.data = NoItem
                              \/ v.data = w.data /\ v.rows = w.rows
      BY <1>1, <2>1, ShownHooks
    <3> HIDE DEF v
    <3>2. Loaded(u, m, answer) = v
      BY <2>2, <2>3 DEF v
    <3> QED
      BY <1>2, <2>1, <2>3, <3>1, <3>2
  <2>4. CASE m.for # u.asked
    BY <1>2, <2>1, <2>2, <2>4
  <2> QED
    BY <2>3, <2>4
<1>3. CASE ~Handlers.keyed
  <2> DEFINE v == Shown(u, m.for, answer)
  <2>1. /\ v \in Hooks
        /\ v.want = u.want /\ v.timer = u.timer /\ v.bulk = u.bulk /\ v.asked = u.asked
        /\ answer.ok => /\ v.data = m.for /\ v.rows = answer.rows
                        /\ v.picked = u.picked \intersect answer.rows
        /\ ~answer.ok => /\ v.failed /\ v.picked = u.picked
                         /\ \/ v.data = NoItem
                            \/ v.data = u.data /\ v.rows = u.rows
    BY <1>1, ShownHooks
  <2>2. Loaded(u, m, answer) = v
    BY <1>3 DEF Loaded
  <2> HIDE DEF v
  <2> QED
    BY <1>3, <2>1, <2>2
<1> QED
  BY <1>2, <1>3

(***************************************************************************)
(* The requests in flight.                                                 *)
(***************************************************************************)
\* Where the request at place k was before request i was taken out.
Place(k, i) == IF k < i THEN k ELSE k + 1

\* Taking a request out keeps the others, in their order.
LEMMA WithoutOne ==
  ASSUME net \in Seq(Requests), NEW i \in DOMAIN net
  PROVE  /\ Without(i) \in Seq(Requests)
         /\ Len(Without(i)) = Len(net) - 1
         /\ \A k \in DOMAIN Without(i) : /\ Place(k, i) \in DOMAIN net \ {i}
                                         /\ Without(i)[k] = net[Place(k, i)]
         /\ \A j \in DOMAIN net \ {i} : \E k \in DOMAIN Without(i) : Place(k, i) = j
         /\ \A j, k \in DOMAIN Without(i) : Place(j, i) = Place(k, i) => j = k
<1>1. DOMAIN net = 1 .. Len(net) /\ Len(net) \in Nat /\ Len(net) > 0
  OBVIOUS
<1>2. \A k \in 1 .. Len(net) - 1 : Place(k, i) \in DOMAIN net \ {i}
  BY <1>1 DEF Place
<1>3. Without(i) = [k \in 1 .. Len(net) - 1 |-> net[Place(k, i)]]
  BY DEF Without, Place
<1>4. \A k \in 1 .. Len(net) - 1 : net[Place(k, i)] \in Requests
  BY <1>1, <1>2
<1>5. Len(net) - 1 \in Nat
  BY <1>1
<1>6. Without(i) \in [1 .. Len(net) - 1 -> Requests]
  BY <1>3, <1>4
<1>7. Without(i) \in Seq(Requests) /\ Len(Without(i)) = Len(net) - 1
  BY <1>5, <1>6
<1>8. DOMAIN Without(i) = 1 .. Len(net) - 1
  BY <1>3
<1>9. ASSUME NEW j \in DOMAIN net \ {i}
      PROVE  \E k \in DOMAIN Without(i) : Place(k, i) = j
  <2>1. CASE j < i
    <3>1. j \in 1 .. Len(net) - 1 /\ Place(j, i) = j
      BY <1>1, <2>1 DEF Place
    <3> QED
      BY <1>8, <3>1
  <2>2. CASE j > i
    <3>1. j - 1 \in 1 .. Len(net) - 1 /\ Place(j - 1, i) = j
      BY <1>1, <2>2 DEF Place
    <3> QED
      BY <1>8, <3>1
  <2> QED
    BY <1>1, <2>1, <2>2
<1>10. \A j, k \in 1 .. Len(net) - 1 : Place(j, i) = Place(k, i) => j = k
  BY <1>1 DEF Place
<1> QED
  BY <1>2, <1>3, <1>7, <1>8, <1>9, <1>10

\* A new request has the right shape.
LEMMA RequestTyped ==
  \A op \in Bulks \union {"load", "act", "after", "again"}, x \in Items :
     /\ Request(op, x) \in Requests
     /\ Request(op, x).op = op /\ Request(op, x).for = x
  BY DEF Request, Requests

LEMMA LoadTyped ==
  \A x \in Items : Load(x) \in Requests /\ Load(x).op = "load" /\ Load(x).for = x
  BY RequestTyped DEF Load

\* ... and is the last one.
LEMMA AppendTyped ==
  ASSUME NEW s \in Seq(Requests), NEW r \in Requests
  PROVE  LET t == Append(s, r)
         IN  /\ t \in Seq(Requests) /\ Len(t) = Len(s) + 1
             /\ DOMAIN s = 1 .. Len(s) /\ DOMAIN t = 1 .. Len(s) + 1
             /\ \A k \in DOMAIN s : k \in DOMAIN t /\ t[k] = s[k]
             /\ t[Len(s) + 1] = r
             /\ \A k \in DOMAIN t : k \in DOMAIN s \/ k = Len(s) + 1
  OBVIOUS

(***************************************************************************)
(* The steps, by what they leave behind.                                   *)
(***************************************************************************)
\* A read was sent for the question x by hooks u, or refused for want of a key.
Sent(u, x) ==
    /\ net' = Append(net, Load(x)) /\ Len(net) < MaxFlight /\ overtook' = overtook
    /\ ui'.asked = IF Handlers.keyed THEN x ELSE u.asked
    /\ ui'.rows = u.rows
    /\ Handlers.keyed \/ ui'.data \in {NoItem, u.data}
Refused(u) ==
    /\ net' = net /\ overtook' = (overtook \/ net # << >>)
    /\ Handlers.gated /\ ui'.failed /\ ui'.data = NoItem /\ ui'.asked = u.asked

LEMMA AskDone ==
  ASSUME page \in Pages, net \in Seq(Requests), NEW u \in Hooks, NEW x \in Items,
         Ask(u, x)
  PROVE  /\ ui' \in Hooks /\ ui'.want = u.want /\ ui'.timer = u.timer
         /\ ui'.picked = u.picked /\ ui'.bulk = u.bulk
         /\ Sent(u, x) \/ Refused(u)
<1>1. Len(net) \in Nat /\ MaxFlight \in Nat
  BY QueryAssumption
<1>2. CASE Room(1) /\ ui' = Asked(u, x) /\ net' = Append(net, Load(x)) /\ UNCHANGED overtook
  <2>1. Len(net) < MaxFlight
    BY <1>1, <1>2 DEF Room
  <2>2. CASE ~Handlers.keyed
    <3>1. ui' = Loading(u)
      BY <1>2, <2>2 DEF Asked
    <3> QED
      BY <1>2, <2>1, <2>2, <3>1, LoadingHooks DEF Sent
  <2>3. CASE Handlers.keyed /\ x \in u.kept
    <3>1. ui' = [u EXCEPT !.asked = x, !.data = x, !.failed = FALSE]
      BY <1>2, <2>3 DEF Asked
    <3> QED
      BY <1>2, <2>1, <2>3, <3>1 DEF Sent, Hooks
  <2>4. CASE Handlers.keyed /\ x \notin u.kept
    <3> DEFINE w == [u EXCEPT !.asked = x]
    <3>1. /\ w \in Hooks /\ w.want = u.want /\ w.timer = u.timer /\ w.rows = u.rows
          /\ w.picked = u.picked /\ w.bulk = u.bulk /\ w.asked = x
      BY DEF Hooks
    <3>2. ui' = Loading(w)
      BY <1>2, <2>4 DEF Asked
    <3> HIDE DEF w
    <3> QED
      BY <1>2, <2>1, <2>4, <3>1, <3>2, LoadingHooks DEF Sent
  <2> QED
    BY <2>2, <2>3, <2>4
<1>3. CASE /\ Handlers.gated
           /\ ui' = [u EXCEPT !.data = NoItem, !.failed = TRUE]
           /\ overtook' = (overtook \/ net # << >>)
           /\ UNCHANGED net
  BY <1>3 DEF Refused, Hooks
<1> QED
  BY <1>2, <1>3 DEF Ask

\* What is sent only to read.
Reads == {"load", "after", "again"}

\* The ways in which an answer can arrive. A load, of an operation or not:
ReadDone(i) ==
    /\ net[i].op \in Reads
    /\ net' = Without(i) /\ crossed' = crossed
    /\ ui'.want = ui.want
    /\ ui'.bulk = IF net[i].op = "after" THEN "none" ELSE ui.bulk
    /\ \/ /\ ui'.data = ui.data /\ ui'.rows = ui.rows /\ ui'.picked = ui.picked
          /\ ui.failed => ui'.failed
          /\ Handlers.keyed /\ net[i].for # ui.asked
       \/ /\ ui'.data = net[i].for
          /\ ui'.picked = ui.picked \intersect ui'.rows
          /\ Handlers.keyed => net[i].for = ui.asked
       \/ /\ ui'.failed /\ ui'.picked = ui.picked
          /\ \/ ui'.data = NoItem
             \/ ui'.data = ui.data /\ ui'.rows = ui.rows

\* one that is refused in silence,
Unsaid(i) ==
    /\ net[i].op = "again" /\ net' = Without(i) /\ UNCHANGED ui /\ crossed'

\* an operation on the selected rows, which loads again,
BulkDone(i) ==
    /\ net[i].op \in Bulks /\ crossed' = crossed
    /\ net' = Append(Without(i), Request("after", net[i].for))
    /\ ui'.want = ui.want /\ ui'.data = ui.data /\ ui'.rows = ui.rows
    /\ ui'.bulk = ui.bulk /\ ui'.picked \subseteq ui.picked

\* an operation, which loads again too,
ActDone(i) ==
    /\ net[i].op = "act" /\ crossed' = crossed
    /\ \/ net' = Append(Without(i), Load(net[i].for))
       \/ Handlers.quiet /\ net' = Append(Without(i), Request("again", net[i].for))
    /\ ui'.want = IF Handlers.jumps THEN net[i].for ELSE ui.want
    /\ ui'.data \in {NoItem, ui.data} /\ ui'.rows = ui.rows
    /\ ui'.picked = ui.picked /\ ui'.bulk = ui.bulk

\* and one that failed.
ActFailed(i) ==
    /\ net[i].op = "act" /\ net' = Without(i) /\ crossed' = crossed
    /\ ui'.want = ui.want /\ ui'.data = ui.data /\ ui'.rows = ui.rows
    /\ ui'.picked = ui.picked /\ ui'.bulk = ui.bulk
    /\ ui.failed \/ Handlers.quiet => ui'.failed

Done(i) ==
    ReadDone(i) \/ Unsaid(i) \/ BulkDone(i) \/ ActDone(i) \/ ActFailed(i)

(***************************************************************************)
(* Types.                                                                  *)
(***************************************************************************)
\* The requests that the page can make.
Fits(m) ==
    /\ m.op = "act" => Handlers.acts # "never"
    /\ Bulky(m) => Handlers.bulk
    /\ m.op = "again" => Handlers.quiet

\* The question and the timer that it can have.
Sane(u) ==
    /\ u.want = NoItem => Handlers.closes
    /\ u.timer => Handlers.typed
    /\ Handlers.keyed => u.asked \in Items

\* Types, and which page the hooks and the requests can belong to.
TypeInv ==
    /\ QueryTypeOK
    /\ Sane(ui)
    /\ \A i \in DOMAIN net : Fits(net[i])

\* A page without a panel always has a question.
LEMMA Asking ==
  ASSUME TypeInv
  PROVE  /\ page \in Pages /\ ui \in Hooks /\ net \in Seq(Requests)
         /\ Len(net) \in Nat /\ MaxFlight \in Nat /\ Sound(Handlers)
         /\ DOMAIN net = 1 .. Len(net) /\ Len(net) <= MaxFlight
         /\ overtook \in BOOLEAN /\ crossed \in BOOLEAN /\ doubled \in BOOLEAN
         /\ Handlers.bulk \/ Handlers.keyed => ui.want \in Items
         /\ Handlers.keyed => ui.asked \in Items
         /\ ui.want # NoItem => ui.want \in Items
         /\ ui.timer => ui.want \in Items /\ Handlers.typed
<1>1. /\ page \in Pages /\ ui \in Hooks /\ net \in Seq(Requests) /\ Sane(ui)
      /\ Len(net) <= MaxFlight
      /\ overtook \in BOOLEAN /\ crossed \in BOOLEAN /\ doubled \in BOOLEAN
  BY DEF TypeInv, QueryTypeOK
<1>2. Sound(Handlers)
  BY <1>1, HandlersSound DEF Handlers
<1>3. ui.want \in Items \union {NoItem}
  BY <1>1 DEF Hooks
<1> QED
  BY <1>1, <1>2, <1>3, QueryAssumption DEF Sane, Sound

LEMMA Delivered ==
  ASSUME TypeInv, NEW i, Deliver(i)
  PROVE  /\ i \in DOMAIN net /\ net[i] \in Requests /\ Fits(net[i])
         /\ UNCHANGED <<page, doubled>> /\ overtook' = (overtook \/ i > 1)
         /\ crossed' \in BOOLEAN
         /\ ui' \in Hooks /\ ui'.timer = ui.timer /\ ui'.asked = ui.asked
         /\ Done(i)
<1> DEFINE m == net[i]
<1>1. /\ page \in Pages /\ ui \in Hooks /\ i \in DOMAIN net /\ m \in Requests /\ Fits(m)
      /\ UNCHANGED <<page, doubled>> /\ overtook' = (overtook \/ i > 1)
      /\ crossed \in BOOLEAN
  BY DEF Deliver, TypeInv, QueryTypeOK
<1>2. Sound(Handlers) /\ m.for \in Items
  BY <1>1, HandlersSound DEF Handlers, Requests
<1> SUFFICES /\ ui' \in Hooks /\ ui'.timer = ui.timer /\ ui'.asked = ui.asked
             /\ crossed' \in BOOLEAN /\ Done(i)
  BY <1>1
<1>3. ASSUME NEW answer \in Answers
      PROVE  LET v == Loaded(ui, m, answer)
             IN  /\ v \in Hooks
                 /\ v.want = ui.want /\ v.timer = ui.timer /\ v.bulk = ui.bulk
                 /\ v.asked = ui.asked
                 /\ \/ /\ v.data = ui.data /\ v.rows = ui.rows /\ v.picked = ui.picked
                       /\ v.failed = ui.failed
                       /\ Handlers.keyed /\ m.for # ui.asked
                    \/ /\ v.data = m.for
                       /\ v.picked = ui.picked \intersect v.rows
                       /\ Handlers.keyed => m.for = ui.asked
                    \/ /\ v.failed /\ v.picked = ui.picked
                       /\ \/ v.data = NoItem
                          \/ v.data = ui.data /\ v.rows = ui.rows
  BY <1>1, AnswersTyped, LoadedHooks
<1>4. ASSUME LoadAnswered(i) \/ AgainAnswered(i), ~(UNCHANGED ui /\ crossed')
      PROVE  /\ ui' \in Hooks /\ ui'.timer = ui.timer /\ ui'.asked = ui.asked
             /\ crossed' \in BOOLEAN /\ ReadDone(i)
  <2>1. PICK answer \in Answers : ui' = Loaded(ui, m, answer)
    BY <1>4 DEF LoadAnswered, AgainAnswered
  <2>2. /\ m.op \in Reads \ {"after"} /\ net' = Without(i) /\ crossed' = crossed
    BY <1>4 DEF LoadAnswered, AgainAnswered, Reads
  <2> QED
    BY <1>1, <1>3, <2>1, <2>2 DEF ReadDone
<1>5. ASSUME AgainAnswered(i), UNCHANGED ui, crossed'
      PROVE  Done(i) /\ crossed' \in BOOLEAN
  <2>1. m.op = "again" /\ net' = Without(i)
    BY <1>5 DEF AgainAnswered
  <2>2. crossed' \in BOOLEAN
    BY <1>1, <1>5 DEF AgainAnswered
  <2> QED
    BY <1>5, <2>1, <2>2 DEF Done, Unsaid
<1>6. ASSUME LoadAnswered(i), UNCHANGED ui, crossed'
      PROVE  ReadDone(i) /\ crossed' \in BOOLEAN
  <2>1. PICK answer \in Answers : ui' = Loaded(ui, m, answer)
    BY <1>6 DEF LoadAnswered
  <2>2. m.op = "load" /\ net' = Without(i) /\ crossed' = crossed
    BY <1>6 DEF LoadAnswered
  <2> QED
    BY <1>1, <1>3, <2>1, <2>2 DEF ReadDone, Reads
<1>7. ASSUME AfterAnswered(i)
      PROVE  /\ ui' \in Hooks /\ ui'.timer = ui.timer /\ ui'.asked = ui.asked
             /\ crossed' \in BOOLEAN /\ ReadDone(i)
  <2>1. PICK answer \in Answers, some \in BOOLEAN :
           ui' = BulkEnded(Loaded(ui, m, answer), some)
    BY <1>7 DEF AfterAnswered
  <2>2. m.op = "after" /\ net' = Without(i) /\ crossed' = crossed
    BY <1>7 DEF AfterAnswered
  <2> DEFINE v == Loaded(ui, m, answer)
  <2>3. /\ v \in Hooks
        /\ v.want = ui.want /\ v.timer = ui.timer /\ v.asked = ui.asked
        /\ \/ /\ v.data = ui.data /\ v.rows = ui.rows /\ v.picked = ui.picked
              /\ v.failed = ui.failed
              /\ Handlers.keyed /\ m.for # ui.asked
           \/ /\ v.data = m.for
              /\ v.picked = ui.picked \intersect v.rows
              /\ Handlers.keyed => m.for = ui.asked
           \/ /\ v.failed /\ v.picked = ui.picked
              /\ \/ v.data = NoItem
                 \/ v.data = ui.data /\ v.rows = ui.rows
    BY <1>3
  <2>4. ui' = BulkEnded(v, some)
    BY <2>1
  <2> HIDE DEF v
  <2>5. /\ ui' \in Hooks /\ ui'.want = v.want /\ ui'.timer = v.timer
        /\ ui'.asked = v.asked /\ ui'.data = v.data /\ ui'.rows = v.rows
        /\ ui'.picked = v.picked /\ ui'.bulk = "none" /\ (v.failed => ui'.failed)
    BY <2>3, <2>4 DEF BulkEnded, Hooks
  <2> QED
    BY <1>1, <2>2, <2>3, <2>5 DEF ReadDone, Reads
<1>8. ASSUME BulkAnswered(i)
      PROVE  /\ ui' \in Hooks /\ ui'.timer = ui.timer /\ ui'.asked = ui.asked
             /\ crossed' \in BOOLEAN /\ BulkDone(i)
  <2> DEFINE w == [ui EXCEPT !.picked = IF m.op = "delete" THEN {} ELSE @]
  <2>1. /\ w \in Hooks /\ w.want = ui.want /\ w.timer = ui.timer /\ w.data = ui.data
        /\ w.asked = ui.asked /\ w.bulk = ui.bulk
        /\ w.rows = ui.rows /\ w.picked \subseteq ui.picked
    BY <1>1 DEF Hooks
  <2>2. /\ ui' = Loading(w) /\ net' = Append(Without(i), Request("after", m.for))
        /\ m.op \in Bulks /\ crossed' = crossed
    BY <1>8 DEF BulkAnswered
  <2> HIDE DEF w
  <2>3. Handlers.bulk
    BY <1>1, <2>2 DEF Fits, Bulky
  <2>4. ~Handlers.blank
    BY <1>2, <2>3 DEF Sound
  <2>5. /\ ui' \in Hooks /\ ui'.want = w.want /\ ui'.timer = w.timer
        /\ ui'.asked = w.asked /\ ui'.bulk = w.bulk
        /\ ui'.picked = w.picked /\ ui'.rows = w.rows /\ ui'.data = w.data
    BY <1>1, <2>1, <2>2, <2>4, LoadingHooks
  <2> QED
    BY <1>1, <2>1, <2>2, <2>5 DEF BulkDone
<1>9. ASSUME ActAnswered(i)
      PROVE  /\ ui' \in Hooks /\ ui'.timer = ui.timer /\ ui'.asked = ui.asked
             /\ crossed' \in BOOLEAN /\ Done(i)
  <2>1. m.op = "act" /\ crossed' = crossed
    BY <1>9 DEF ActAnswered
  <2>2. CASE Handlers.quiet /\ UNCHANGED ui
             /\ net' = Append(Without(i), Request("again", m.for))
    BY <1>1, <1>2, <2>1, <2>2 DEF Done, ActDone, Sound
  <2>3. CASE /\ ~Handlers.quiet
             /\ ui' = Loading(IF Handlers.jumps THEN [ui EXCEPT !.want = m.for] ELSE ui)
             /\ net' = Append(Without(i), Load(m.for))
    <3> DEFINE w == IF Handlers.jumps THEN [ui EXCEPT !.want = m.for] ELSE ui
    <3>1. /\ w \in Hooks /\ w.timer = ui.timer /\ w.data = ui.data
          /\ w.want = IF Handlers.jumps THEN m.for ELSE ui.want
          /\ w.asked = ui.asked /\ w.bulk = ui.bulk
          /\ w.rows = ui.rows /\ w.picked = ui.picked
      BY <1>1, <1>2 DEF Hooks
    <3>2. ui' = Loading(w)
      BY <2>3
    <3> HIDE DEF w
    <3>3. /\ ui' \in Hooks /\ ui'.want = w.want /\ ui'.timer = w.timer
          /\ ui'.asked = w.asked /\ ui'.bulk = w.bulk
          /\ ui'.picked = w.picked /\ ui'.rows = w.rows /\ ui'.data \in {NoItem, w.data}
      BY <1>1, <3>1, <3>2, LoadingHooks
    <3>4. ActDone(i)
      BY <2>1, <2>3, <3>1, <3>3 DEF ActDone
    <3> QED
      BY <1>1, <2>1, <3>1, <3>3, <3>4 DEF Done
  <2>4. CASE ui' = [ui EXCEPT !.failed = @ \/ Handlers.quiet] /\ net' = Without(i)
    <3>1. Handlers.quiet \in BOOLEAN
      BY <1>2 DEF Sound, HandlerRecords
    <3>2. /\ ui' \in Hooks /\ ui'.want = ui.want /\ ui'.timer = ui.timer
          /\ ui'.asked = ui.asked /\ ui'.bulk = ui.bulk /\ ui'.data = ui.data
          /\ ui'.picked = ui.picked /\ ui'.rows = ui.rows
          /\ (ui.failed \/ Handlers.quiet => ui'.failed)
      BY <1>1, <2>4, <3>1 DEF Hooks
    <3> QED
      BY <1>1, <2>1, <2>4, <3>2 DEF Done, ActFailed
  <2> QED
    BY <1>9, <2>2, <2>3, <2>4 DEF ActAnswered
<1> QED
  BY <1>1, <1>4, <1>5, <1>6, <1>7, <1>8, <1>9 DEF Deliver, Done

LEMMA TypeInit == Init => TypeInv
<1> SUFFICES ASSUME Init PROVE TypeInv
  OBVIOUS
<1> DEFINE first(x) == IF Handlers.closes THEN NoItem ELSE x
           blank(x) == [ want |-> first(x),
                         asked |-> IF Handlers.keyed THEN first(x) ELSE NoItem,
                         data |-> NoItem, rows |-> {}, failed |-> FALSE, kept |-> {},
                         timer |-> Handlers.typed, picked |-> {}, bulk |-> "none" ]
<1>1. PICK x \in Items :
        \/ /\ ui = blank(x)
           /\ net = IF Handlers.closes \/ ~Handlers.chosen THEN << >> ELSE <<Load(x)>>
        \/ /\ Handlers.gated
           /\ ui = [blank(x) EXCEPT !.failed = TRUE] /\ net = << >>
  BY DEF Init
<1>2. /\ page \in Pages /\ Sound(Handlers)
      /\ overtook \in BOOLEAN /\ crossed \in BOOLEAN /\ doubled \in BOOLEAN
  BY HandlersSound DEF Init, Handlers
<1>3. /\ Handlers.closes \in BOOLEAN /\ Handlers.keyed \in BOOLEAN
      /\ Handlers.typed \in BOOLEAN /\ (Handlers.keyed => ~Handlers.closes)
  BY <1>2 DEF Sound, HandlerRecords
<1>4. /\ blank(x) \in Hooks /\ [blank(x) EXCEPT !.failed = TRUE] \in Hooks
      /\ Sane(blank(x)) /\ Sane([blank(x) EXCEPT !.failed = TRUE])
  BY <1>3, QueryAssumption DEF Hooks, Sane
<1>5. ui \in Hooks /\ Sane(ui)
  BY <1>1, <1>4
<1>6. Load(x) \in Requests /\ Load(x).op = "load"
  BY LoadTyped
<1>7. CASE net = << >>
  <2>1. net \in Seq(Requests) /\ Len(net) = 0 /\ DOMAIN net = {}
    BY <1>7
  <2> QED
    BY <1>2, <1>5, <2>1, QueryAssumption DEF TypeInv, QueryTypeOK
<1>8. CASE net = <<Load(x)>>
  <2>1. net \in Seq(Requests) /\ Len(net) = 1 /\ \A i \in DOMAIN net : net[i].op = "load"
    BY <1>6, <1>8
  <2> QED
    BY <1>2, <1>5, <2>1, QueryAssumption DEF TypeInv, QueryTypeOK, Fits, Bulky, Bulks
<1> QED
  BY <1>1, <1>7, <1>8

\* A request more that fits the page.
LEMMA TypeAppend ==
  ASSUME TypeInv, UNCHANGED page, ui' \in Hooks, Sane(ui'),
         overtook' \in BOOLEAN, crossed' \in BOOLEAN, doubled' \in BOOLEAN,
         NEW s \in Seq(Requests), Len(s) < MaxFlight,
         \A i \in DOMAIN s : Fits(s[i]),
         NEW r \in Requests, net' = Append(s, r), Fits(r)
  PROVE  TypeInv'
<1>1. Handlers' = Handlers /\ page' \in Pages
  BY DEF Handlers, TypeInv, QueryTypeOK
<1>2. net' \in Seq(Requests) /\ Len(net') <= MaxFlight
  BY AppendTyped, QueryAssumption
<1>3. \A i \in DOMAIN net' : Fits(net'[i])
  BY AppendTyped
<1>4. Sane(ui)' /\ \A i \in DOMAIN net' : Fits(net[i])'
  BY <1>1, <1>3 DEF Sane, Fits, Bulky
<1> QED
  BY <1>1, <1>2, <1>4 DEF TypeInv, QueryTypeOK

\* The same requests.
LEMMA TypeSame ==
  ASSUME TypeInv, UNCHANGED <<page, net>>, ui' \in Hooks, Sane(ui'),
         overtook' \in BOOLEAN, crossed' \in BOOLEAN, doubled' \in BOOLEAN
  PROVE  TypeInv'
<1>1. Handlers' = Handlers
  BY DEF Handlers
<1>2. Sane(ui)' /\ \A i \in DOMAIN net' : Fits(net[i])'
  BY <1>1 DEF TypeInv, Sane, Fits, Bulky
<1> QED
  BY <1>2 DEF TypeInv, QueryTypeOK

\* A question that is asked, or refused.
LEMMA TypeAsk ==
  ASSUME TypeInv, UNCHANGED page, NEW u \in Hooks, NEW x \in Items, Ask(u, x),
         u.want = NoItem => Handlers.closes, u.timer => Handlers.typed,
         Handlers.keyed => u.asked \in Items,
         crossed' \in BOOLEAN, doubled' \in BOOLEAN
  PROVE  TypeInv'
<1>1. /\ page \in Pages /\ net \in Seq(Requests) /\ overtook \in BOOLEAN
      /\ \A i \in DOMAIN net : Fits(net[i])
  BY Asking DEF TypeInv
<1>2. /\ ui' \in Hooks /\ ui'.want = u.want /\ ui'.timer = u.timer
      /\ Sent(u, x) \/ Refused(u)
  BY <1>1, AskDone
<1>3. Sane(ui') /\ overtook' \in BOOLEAN
  BY <1>1, <1>2 DEF Sane, Sent, Refused
<1>4. CASE Sent(u, x)
  <2> DEFINE r == Load(x)
  <2>1. r \in Requests /\ r.op = "load" /\ net' = Append(net, r) /\ Len(net) < MaxFlight
    BY <1>4, LoadTyped DEF Sent
  <2> HIDE DEF r
  <2>2. Fits(r)
    BY <2>1 DEF Fits, Bulky, Bulks
  <2> QED
    BY <1>1, <1>2, <1>3, <2>1, <2>2, TypeAppend
<1>5. CASE Refused(u)
  BY <1>2, <1>3, <1>5, TypeSame DEF Refused
<1> QED
  BY <1>2, <1>4, <1>5

\* The step of an answer keeps the types.
LEMMA TypeDeliver ==
  ASSUME TypeInv, NEW i, Deliver(i)
  PROVE  TypeInv'
<1>1. /\ i \in DOMAIN net /\ net[i] \in Requests /\ Fits(net[i])
      /\ UNCHANGED <<page, doubled>> /\ overtook' = (overtook \/ i > 1)
      /\ crossed' \in BOOLEAN
      /\ ui' \in Hooks /\ ui'.timer = ui.timer /\ ui'.asked = ui.asked
      /\ Done(i)
  BY Delivered
<1>2. /\ page \in Pages /\ ui \in Hooks /\ net \in Seq(Requests) /\ Len(net) <= MaxFlight
      /\ Len(net) \in Nat /\ MaxFlight \in Nat /\ DOMAIN net = 1 .. Len(net)
      /\ overtook \in BOOLEAN /\ doubled \in BOOLEAN /\ Sound(Handlers)
  BY Asking
<1>3. /\ Without(i) \in Seq(Requests)
      /\ Len(Without(i)) = Len(net) - 1
      /\ \A k \in DOMAIN Without(i) : /\ Place(k, i) \in DOMAIN net \ {i}
                                      /\ Without(i)[k] = net[Place(k, i)]
  BY <1>1, <1>2, WithoutOne
<1>4. \A k \in DOMAIN Without(i) : Fits(Without(i)[k])
  BY <1>3 DEF TypeInv
<1>5. net[i].for \in Items /\ NoItem \notin Items
  BY <1>1, QueryAssumption DEF Requests
<1>6. ui'.want = ui.want \/ ui'.want = net[i].for
  BY <1>1 DEF Done, ReadDone, Unsaid, BulkDone, ActDone, ActFailed
<1>7. /\ Sane(ui')
      /\ overtook' \in BOOLEAN /\ doubled' \in BOOLEAN
  BY <1>1, <1>2, <1>5, <1>6 DEF TypeInv, Sane
<1>8. CASE net' = Without(i)
  <2>1. Len(net') <= MaxFlight /\ net' \in Seq(Requests)
    BY <1>2, <1>3, <1>8
  <2>2. Handlers' = Handlers
    BY <1>1 DEF Handlers
  <2>3. Sane(ui)' /\ \A k \in DOMAIN net' : Fits(net[k])'
    BY <1>4, <1>7, <1>8, <2>2 DEF Sane, Fits, Bulky
  <2> QED
    BY <1>1, <1>2, <1>7, <2>1, <2>3 DEF TypeInv, QueryTypeOK
<1>9. ASSUME NEW r \in Requests, net' = Append(Without(i), r), Fits(r)
      PROVE  TypeInv'
  <2>1. Len(Without(i)) < MaxFlight
    BY <1>2, <1>3
  <2> QED
    BY <1>1, <1>3, <1>4, <1>7, <1>9, <2>1, TypeAppend
<1>10. ASSUME NEW op \in Bulks \union {"load", "act", "after", "again"},
              net' = Append(Without(i), Request(op, net[i].for)),
              op # "act", op \in Bulks \union {"after"} => Handlers.bulk,
              op = "again" => Handlers.quiet
       PROVE  TypeInv'
  <2> DEFINE r == Request(op, net[i].for)
  <2>1. r \in Requests /\ r.op = op
    BY <1>5, RequestTyped
  <2>2. net' = Append(Without(i), r)
    BY <1>10
  <2> HIDE DEF r
  <2> QED
    BY <1>9, <1>10, <2>1, <2>2 DEF Fits, Bulky
<1>11. CASE BulkDone(i)
  <2>1. Handlers.bulk /\ net' = Append(Without(i), Request("after", net[i].for))
    BY <1>1, <1>11 DEF Fits, Bulky, BulkDone
  <2> QED
    BY <1>10, <2>1
<1>12. CASE ActDone(i)
  <2>1. \/ net' = Append(Without(i), Request("load", net[i].for))
        \/ Handlers.quiet /\ net' = Append(Without(i), Request("again", net[i].for))
    BY <1>12 DEF ActDone, Load
  <2> QED
    BY <1>10, <2>1 DEF Bulks
<1> QED
  BY <1>1, <1>8, <1>11, <1>12 DEF Done, ReadDone, Unsaid, ActFailed

LEMMA TypeStep == TypeInv /\ [Next]_vars => TypeInv'
<1> SUFFICES ASSUME TypeInv, [Next]_vars PROVE TypeInv'
  OBVIOUS
<1>1. /\ page \in Pages /\ ui \in Hooks /\ net \in Seq(Requests) /\ Len(net) <= MaxFlight
      /\ Len(net) \in Nat /\ MaxFlight \in Nat
      /\ overtook \in BOOLEAN /\ crossed \in BOOLEAN /\ doubled \in BOOLEAN
      /\ Sound(Handlers) /\ Sane(ui)
      /\ Handlers.bulk \/ Handlers.keyed => ui.want \in Items
      /\ Handlers.keyed => ui.asked \in Items
      /\ ui.want # NoItem => ui.want \in Items
      /\ ui.timer => ui.want \in Items /\ Handlers.typed
  BY Asking DEF TypeInv
<1>2. Crossing \in BOOLEAN /\ NoItem \notin Items
  BY <1>1, QueryAssumption DEF Crossing
<1>3. Room(1) => Len(net) < MaxFlight
  BY <1>1 DEF Room
<1>4. ASSUME NEW x \in Items, NEW y \in Items, Choose(x, y)
      PROVE  TypeInv'
  <2> DEFINE u == [ui EXCEPT !.want = x]
  <2>1. u \in Hooks /\ u.want = x /\ u.timer = ui.timer /\ u.asked = ui.asked
    BY <1>1 DEF Hooks
  <2>2. Ask(u, y) /\ crossed' = Crossing /\ UNCHANGED <<page, doubled>>
    BY <1>4 DEF Choose
  <2> HIDE DEF u
  <2> QED
    BY <1>1, <1>2, <2>1, <2>2, TypeAsk
<1>5. ASSUME NEW x \in Items, Type(x)
      PROVE  TypeInv'
  <2>1. /\ ui' = [ui EXCEPT !.want = x, !.timer = TRUE] /\ Handlers.typed
        /\ UNCHANGED <<page, net, overtook, doubled>> /\ crossed' = Crossing
    BY <1>5 DEF Type
  <2>2. ui' \in Hooks /\ ui'.want = x /\ ui'.timer /\ ui'.asked = ui.asked
    BY <1>1, <2>1 DEF Hooks
  <2>3. Sane(ui')
    BY <1>1, <1>2, <2>1, <2>2 DEF Sane
  <2> QED
    BY <1>1, <1>2, <2>1, <2>2, <2>3, TypeSame
<1>6. ASSUME NEW r \in Requests, net' = Append(net, r), Room(1), Fits(r),
             UNCHANGED <<page, overtook, crossed>>, doubled' \in BOOLEAN,
             ui' \in Hooks, ui'.want = ui.want, ui'.timer = ui.timer,
             ui'.asked = ui.asked
      PROVE  TypeInv'
  <2>1. Sane(ui') /\ \A i \in DOMAIN net : Fits(net[i])
    BY <1>1, <1>6 DEF Sane, TypeInv
  <2> QED
    BY <1>1, <1>3, <1>6, <2>1, TypeAppend
<1>7. ASSUME NEW x \in Items, Act(x)
      PROVE  TypeInv'
  <2> DEFINE r == Request("act", x)
  <2>1. r \in Requests /\ r.op = "act" /\ net' = Append(net, r)
    BY <1>7, RequestTyped DEF Act
  <2> HIDE DEF r
  <2>2. Fits(r)
    BY <1>7, <2>1 DEF Act, Fits, Bulky, Bulks
  <2>3. ui' = [ui EXCEPT !.failed = @ /\ ~Handlers.quiet]
        /\ UNCHANGED <<page, overtook, crossed, doubled>> /\ Room(1)
    BY <1>7 DEF Act
  <2>4. /\ ui' \in Hooks /\ ui'.want = ui.want /\ ui'.timer = ui.timer
        /\ ui'.asked = ui.asked
    BY <1>1, <2>3 DEF Hooks
  <2> QED
    BY <1>1, <1>6, <2>1, <2>2, <2>3, <2>4
<1>8. ASSUME Elapse
      PROVE  TypeInv'
  <2> DEFINE u == [ui EXCEPT !.timer = FALSE]
  <2>1. u \in Hooks /\ u.want = ui.want /\ u.timer = FALSE /\ u.asked = ui.asked
    BY <1>1 DEF Hooks
  <2>2. /\ UNCHANGED <<page, crossed, doubled>> /\ ui.want \in Items
        /\ (ui' = u /\ UNCHANGED <<net, overtook>>) \/ Ask(u, ui.want)
    BY <1>1, <1>8 DEF Elapse
  <2> HIDE DEF u
  <2>3. Sane(u)
    BY <1>1, <2>1 DEF Sane
  <2>4. CASE ui' = u /\ UNCHANGED <<net, overtook>>
    BY <1>1, <2>1, <2>2, <2>3, <2>4, TypeSame
  <2>5. CASE Ask(u, ui.want)
    BY <1>1, <2>1, <2>2, <2>3, <2>5, TypeAsk DEF Sane
  <2> QED
    BY <2>2, <2>4, <2>5
<1>9. ASSUME Refresh
      PROVE  TypeInv'
  <2>1. UNCHANGED <<page, crossed, doubled>> /\ ui.want \in Items
    BY <1>1, <1>9 DEF Refresh
  <2>2. CASE Handlers.keyed
    <3> DEFINE r == Load(ui.asked)
    <3>1. r \in Requests /\ r.op = "load" /\ net' = Append(net, r)
          /\ UNCHANGED <<ui, overtook>> /\ Room(1)
      BY <1>1, <1>9, <2>2, LoadTyped DEF Refresh
    <3> HIDE DEF r
    <3>2. Fits(r)
      BY <3>1 DEF Fits, Bulky, Bulks
    <3> QED
      BY <1>1, <1>6, <2>1, <3>1, <3>2
  <2>3. CASE ~Handlers.keyed
    <3>1. Ask(ui, ui.want)
      BY <1>9, <2>3 DEF Refresh
    <3> QED
      BY <1>1, <2>1, <3>1, TypeAsk DEF Sane
  <2> QED
    BY <2>2, <2>3
<1>10. ASSUME Close
       PROVE  TypeInv'
  <2>1. /\ ui' = [ui EXCEPT !.want = NoItem, !.data = NoItem, !.failed = FALSE]
        /\ crossed' = Crossing /\ UNCHANGED <<page, net, overtook, doubled>>
        /\ Handlers.closes
    BY <1>10 DEF Close
  <2>2. ui' \in Hooks /\ ui'.timer = ui.timer /\ ui'.asked = ui.asked
    BY <1>1, <2>1 DEF Hooks
  <2>3. Sane(ui')
    BY <1>1, <2>1, <2>2 DEF Sane
  <2> QED
    BY <1>1, <1>2, <2>1, <2>2, <2>3, TypeSame
<1>11. ASSUME NEW r \in Rows, Toggle(r)
       PROVE  TypeInv'
  <2>1. /\ ui' = [ui EXCEPT !.picked = IF r \in @ THEN @ \ {r} ELSE @ \union {r}]
        /\ UNCHANGED <<page, net, overtook, crossed, doubled>>
    BY <1>11 DEF Toggle
  <2>2. /\ ui' \in Hooks /\ ui'.timer = ui.timer /\ ui'.want = ui.want
        /\ ui'.asked = ui.asked
    BY <1>1, <2>1 DEF Hooks
  <2>3. Sane(ui')
    BY <1>1, <2>2 DEF Sane
  <2> QED
    BY <1>1, <2>1, <2>2, <2>3, TypeSame
<1>12. ASSUME NEW op \in Bulks, Bulk(op)
       PROVE  TypeInv'
  <2>1. /\ ui' = [ui EXCEPT !.bulk = op] /\ Room(1) /\ Handlers.bulk
        /\ doubled' = (doubled \/ Bulking # {})
        /\ UNCHANGED <<page, overtook, crossed>>
    BY <1>12 DEF Bulk
  <2>2. /\ ui' \in Hooks /\ ui'.timer = ui.timer /\ ui'.want = ui.want
        /\ ui'.asked = ui.asked
    BY <1>1, <2>1 DEF Hooks
  <2> DEFINE r == Request(op, ui.want)
  <2>3. ui.want \in Items /\ doubled' \in BOOLEAN
    BY <1>1, <2>1
  <2>4. r \in Requests /\ net' = Append(net, r) /\ r.op = op
    BY <1>12, <2>3, RequestTyped DEF Bulk
  <2> HIDE DEF r
  <2>5. Fits(r)
    BY <2>1, <2>4 DEF Fits, Bulks
  <2> QED
    BY <1>6, <2>1, <2>2, <2>3, <2>4, <2>5
<1>13. CASE UNCHANGED vars
  BY <1>1, <1>13, TypeSame DEF vars
<1> QED
  BY <1>4, <1>5, <1>7, <1>8, <1>9, <1>10, <1>11, <1>12, <1>13, TypeDeliver DEF Next

LEMMA TypeAlways == Spec => []TypeInv
<1> QED
  BY TypeInit, TypeStep, PTL DEF Spec

\* The hooks and the requests have their types on every page.
THEOREM TypeCorrect == Spec => []QueryTypeOK
<1>1. TypeInv => QueryTypeOK
  BY DEF TypeInv
<1> QED
  BY <1>1, TypeAlways, PTL

(***************************************************************************)
(* The selection of the history page.                                      *)
(***************************************************************************)
PickInv ==
    /\ ~Handlers.bulk => ui.picked = {}
    /\ Answered(ui) => ui.picked \subseteq ui.rows

\* What is selected only shrinks when the answer changes.
LEMMA PickKept ==
  ASSUME PickInv, UNCHANGED page, ui'.picked \subseteq ui.picked,
         \/ ui'.data \in {NoItem, ui.data} /\ ui'.rows = ui.rows
         \/ ui'.data = NoItem
         \/ ui'.picked \subseteq ui'.rows
  PROVE  PickInv'
  BY DEF PickInv, Handlers, Answered

LEMMA PickInit == Init => PickInv
  BY DEF Init, PickInv, Answered

LEMMA PickStep == TypeInv /\ PickInv /\ [Next]_vars => PickInv'
<1> SUFFICES ASSUME TypeInv, PickInv, [Next]_vars PROVE PickInv'
  OBVIOUS
<1>1. /\ page \in Pages /\ ui \in Hooks /\ net \in Seq(Requests) /\ Sound(Handlers)
      /\ Handlers.keyed => ui.asked \in Items
      /\ ui.want # NoItem => ui.want \in Items
      /\ ui.timer => ui.want \in Items
  BY Asking
<1>2. ASSUME NEW u \in Hooks, NEW x \in Items, Ask(u, x), UNCHANGED page,
             u.picked = ui.picked, u.rows = ui.rows, u.data = ui.data
      PROVE  PickInv'
  <2>1. ui'.picked = ui.picked /\ (Sent(u, x) \/ Refused(u))
    BY <1>1, <1>2, AskDone
  <2>2. CASE Handlers.keyed
    <3>1. ui.picked = {}
      BY <1>1, <2>2 DEF Sound, PickInv
    <3> QED
      BY <1>2, <2>1, <3>1, PickKept
  <2>3. CASE ~Handlers.keyed
    BY <1>2, <2>1, <2>3, PickKept DEF Sent, Refused
  <2> QED
    BY <2>2, <2>3
<1>3. ASSUME NEW x \in Items, NEW y \in Items, Choose(x, y)
      PROVE  PickInv'
  <2> DEFINE u == [ui EXCEPT !.want = x]
  <2>1. u \in Hooks /\ u.picked = ui.picked /\ u.rows = ui.rows /\ u.data = ui.data
    BY <1>1 DEF Hooks
  <2>2. Ask(u, y) /\ UNCHANGED page
    BY <1>3 DEF Choose
  <2> HIDE DEF u
  <2> QED
    BY <1>2, <2>1, <2>2
<1>4. ASSUME NEW x \in Items, Type(x)
      PROVE  PickInv'
  <2>1. ui' = [ui EXCEPT !.want = x, !.timer = TRUE] /\ UNCHANGED page
    BY <1>4 DEF Type
  <2>2. ui'.data = ui.data /\ ui'.rows = ui.rows /\ ui'.picked = ui.picked
    BY <1>1, <2>1 DEF Hooks
  <2> QED
    BY <2>1, <2>2, PickKept
<1>5. ASSUME Elapse
      PROVE  PickInv'
  <2> DEFINE u == [ui EXCEPT !.timer = FALSE]
  <2>1. u \in Hooks /\ u.picked = ui.picked /\ u.rows = ui.rows /\ u.data = ui.data
    BY <1>1 DEF Hooks
  <2>2. (ui' = u \/ Ask(u, ui.want)) /\ UNCHANGED page /\ ui.want \in Items
    BY <1>1, <1>5 DEF Elapse
  <2> HIDE DEF u
  <2>3. CASE ui' = u
    BY <2>1, <2>2, <2>3, PickKept
  <2> QED
    BY <1>2, <2>1, <2>2, <2>3
<1>6. ASSUME Refresh
      PROVE  PickInv'
  <2>1. UNCHANGED page /\ ui.want \in Items /\ (UNCHANGED ui \/ Ask(ui, ui.want))
    BY <1>1, <1>6 DEF Refresh
  <2>2. CASE UNCHANGED ui
    BY <2>1, <2>2, PickKept
  <2> QED
    BY <1>1, <1>2, <2>1, <2>2
<1>7. ASSUME Close
      PROVE  PickInv'
  <2>1. /\ ui' = [ui EXCEPT !.want = NoItem, !.data = NoItem, !.failed = FALSE]
        /\ UNCHANGED page
    BY <1>7 DEF Close
  <2>2. ui'.rows = ui.rows /\ ui'.picked = ui.picked /\ ui'.data = NoItem
    BY <1>1, <2>1 DEF Hooks
  <2> QED
    BY <2>1, <2>2, PickKept
<1>8. ASSUME NEW x \in Items, Act(x)
      PROVE  PickInv'
  <2>1. ui' = [ui EXCEPT !.failed = @ /\ ~Handlers.quiet] /\ UNCHANGED page
    BY <1>8 DEF Act
  <2>2. ui'.rows = ui.rows /\ ui'.picked = ui.picked /\ ui'.data = ui.data
    BY <1>1, <2>1 DEF Hooks
  <2> QED
    BY <2>1, <2>2, PickKept
<1>9. ASSUME NEW r \in Rows, Toggle(r)
      PROVE  PickInv'
  <2>1. /\ ui' = [ui EXCEPT !.picked = IF r \in @ THEN @ \ {r} ELSE @ \union {r}]
        /\ UNCHANGED page /\ Handlers.bulk /\ Answered(ui) /\ r \in ui.rows
    BY <1>9 DEF Toggle
  <2>2. ui'.rows = ui.rows /\ ui'.picked \subseteq ui.picked \union {r}
    BY <1>1, <2>1 DEF Hooks
  <2> QED
    BY <2>1, <2>2 DEF PickInv, Handlers
<1>10. ASSUME NEW op, Bulk(op)
       PROVE  PickInv'
  <2>1. ui' = [ui EXCEPT !.bulk = op] /\ UNCHANGED page
    BY <1>10 DEF Bulk
  <2>2. ui'.rows = ui.rows /\ ui'.picked = ui.picked /\ ui'.data = ui.data
    BY <1>1, <2>1 DEF Hooks
  <2> QED
    BY <2>1, <2>2, PickKept
<1>11. ASSUME NEW i, Deliver(i)
       PROVE  PickInv'
  <2>1. UNCHANGED page /\ Done(i)
    BY <1>11, Delivered
  <2>2. CASE ReadDone(i)
    <3>1. /\ ui'.picked \subseteq ui.picked
          /\ \/ ui'.data \in {NoItem, ui.data} /\ ui'.rows = ui.rows
             \/ ui'.data = NoItem
             \/ ui'.picked \subseteq ui'.rows
      BY <2>2 DEF ReadDone
    <3> QED
      BY <2>1, <3>1, PickKept
  <2> QED
    BY <2>1, <2>2, PickKept DEF Done, Unsaid, BulkDone, ActDone, ActFailed
<1>12. CASE UNCHANGED vars
  BY <1>12, PickKept DEF vars
<1> QED
  BY <1>3, <1>4, <1>5, <1>6, <1>7, <1>8, <1>9, <1>10, <1>11, <1>12 DEF Next

\* A bulk operation takes no row that the user does not see: the selection loses
\* what is not among the rows (history/page.tsx), however late they arrive.
THEOREM BulkCorrect == Spec => []BulkTakesShown
<1>1. PickInv => BulkTakesShown
  BY DEF PickInv, BulkTakesShown
<1> QED
  BY <1>1, TypeAlways, PickInit, PickStep, PTL DEF Spec

(***************************************************************************)
(* The mark of the bulk operations: with one of them at a time, it is the  *)
(* one that is under way.                                                  *)
(***************************************************************************)
MarkInv ==
    /\ BulkMarked
    /\ ~doubled => \A j, k \in Bulking : j = k

LEMMA MarkInit == Init => MarkInv
<1> SUFFICES ASSUME Init PROVE MarkInv
  OBVIOUS
<1>1. PICK x \in Items : net = << >> \/ net = <<Load(x)>>
  BY DEF Init
<1>2. ui.bulk = "none"
  BY DEF Init
<1>3. Load(x).op = "load"
  BY LoadTyped
<1>4. CASE net = << >>
  BY <1>2, <1>4 DEF MarkInv, BulkMarked, Bulking
<1>5. CASE net = <<Load(x)>>
  <2>1. \A i \in DOMAIN net : net[i].op = "load"
    BY <1>3, <1>5
  <2>2. Bulking = {}
    BY <2>1 DEF Bulking, Bulky, Bulks
  <2> QED
    BY <1>2, <2>2 DEF MarkInv, BulkMarked
<1> QED
  BY <1>1, <1>4, <1>5

\* The requests and the mark stay, or a request is added that is no bulk
\* operation.
LEMMA MarkSame ==
  ASSUME MarkInv, net \in Seq(Requests), ui'.bulk = ui.bulk, doubled' = doubled,
         \/ net' = net
         \/ \E r \in Requests : ~Bulky(r) /\ net' = Append(net, r)
  PROVE  MarkInv'
<1>1. CASE net' = net
  <2>1. Bulking' = Bulking
    BY <1>1 DEF Bulking, Bulky
  <2> QED
    BY <2>1 DEF MarkInv, BulkMarked
<1>2. ASSUME NEW r \in Requests, ~Bulky(r), net' = Append(net, r)
      PROVE  MarkInv'
  <2>1. /\ \A k \in DOMAIN net : k \in DOMAIN net' /\ net'[k] = net[k]
        /\ \A k \in DOMAIN net' : k \in DOMAIN net \/ net'[k] = r
    BY <1>2, AppendTyped
  <2>2. Bulking' = Bulking
    BY <1>2, <2>1 DEF Bulking, Bulky
  <2> QED
    BY <2>2 DEF MarkInv, BulkMarked
<1> QED
  BY <1>1, <1>2

LEMMA MarkDeliver ==
  ASSUME TypeInv, MarkInv, NEW i, Deliver(i)
  PROVE  MarkInv'
<1> DEFINE s == Without(i)
           left == {k \in DOMAIN s : Bulky(s[k])}
<1>1. i \in DOMAIN net /\ net[i] \in Requests /\ doubled' = doubled /\ Done(i)
  BY Delivered
<1>2. net \in Seq(Requests) /\ net[i].for \in Items
  BY <1>1, Asking DEF Requests
<1>3. /\ s \in Seq(Requests)
      /\ \A k \in DOMAIN s : Place(k, i) \in DOMAIN net \ {i} /\ s[k] = net[Place(k, i)]
      /\ \A j \in DOMAIN net \ {i} : \E k \in DOMAIN s : Place(k, i) = j
      /\ \A j, k \in DOMAIN s : Place(j, i) = Place(k, i) => j = k
  BY <1>1, <1>2, WithoutOne
<1> HIDE DEF s
<1>4. /\ \A k \in left : Place(k, i) \in Bulking \ {i}
      /\ \A j \in Bulking \ {i} : \E k \in left : Place(k, i) = j
  BY <1>3 DEF Bulking
<1>5. ~doubled => \A j, k \in left : j = k
  BY <1>3, <1>4 DEF MarkInv
<1>6. ASSUME NEW r \in Requests, net' = Append(s, r), ~Bulky(r), ~Bulky(net[i]),
             ui'.bulk = ui.bulk
      PROVE  MarkInv'
  <2>1. /\ \A k \in DOMAIN s : k \in DOMAIN net' /\ net'[k] = s[k]
        /\ \A k \in DOMAIN net' : k \in DOMAIN s \/ net'[k] = r
    BY <1>3, <1>6, AppendTyped
  <2>2. Bulking' = left
    BY <1>6, <2>1 DEF Bulking, Bulky
  <2>3. i \notin Bulking
    BY <1>6 DEF Bulking
  <2>4. left = {} <=> Bulking = {}
    BY <1>4, <2>3
  <2> QED
    BY <1>1, <1>5, <1>6, <2>2, <2>4 DEF MarkInv, BulkMarked
<1>7. ASSUME net' = s
      PROVE  Bulking' = left
  BY <1>7 DEF Bulking, Bulky
<1>8. ASSUME net' = s, ~Bulky(net[i]), ui'.bulk = ui.bulk
      PROVE  MarkInv'
  <2>1. i \notin Bulking
    BY <1>8 DEF Bulking
  <2>2. left = {} <=> Bulking = {}
    BY <1>4, <2>1
  <2> QED
    BY <1>1, <1>5, <1>7, <1>8, <2>2 DEF MarkInv, BulkMarked
<1>9. ASSUME net' = s, Bulky(net[i]), ui'.bulk = "none"
      PROVE  MarkInv'
  <2>1. i \in Bulking
    BY <1>1, <1>9 DEF Bulking
  <2>2. ~doubled => left = {}
    BY <1>4, <2>1 DEF MarkInv
  <2> QED
    BY <1>1, <1>5, <1>7, <1>9, <2>2 DEF MarkInv, BulkMarked
<1>10. CASE BulkDone(i)
  <2> DEFINE r == Request("after", net[i].for)
  <2>1. r \in Requests /\ Bulky(r)
    BY <1>2, RequestTyped DEF Bulky
  <2>2. net' = Append(s, r) /\ ui'.bulk = ui.bulk /\ Bulky(net[i])
    BY <1>10 DEF BulkDone, Bulky, s
  <2> HIDE DEF r
  <2>3. /\ Len(s) + 1 \in DOMAIN net' /\ net'[Len(s) + 1] = r
        /\ \A k \in DOMAIN s : k \in DOMAIN net' /\ net'[k] = s[k]
        /\ \A k \in DOMAIN net' : k \in DOMAIN s \/ k = Len(s) + 1
    <3>1. Len(s) \in Nat
      BY <1>3
    <3> QED
      BY <1>3, <2>1, <2>2, <3>1, AppendTyped
  <2>4. Bulking' = left \union {Len(s) + 1}
    BY <2>1, <2>3 DEF Bulking, Bulky
  <2>5. i \in Bulking
    BY <1>1, <2>2 DEF Bulking
  <2>6. ~doubled => left = {}
    BY <1>4, <2>5 DEF MarkInv
  <2>7. /\ Bulking' # {}
        /\ ~doubled => \A j, k \in Bulking' : j = k
        /\ ~doubled => ui'.bulk # "none"
    BY <2>2, <2>4, <2>5, <2>6 DEF MarkInv, BulkMarked
  <2> QED
    BY <1>1, <2>7 DEF MarkInv, BulkMarked
<1>11. CASE ActDone(i)
  <2>1. net[i].op = "act" /\ ui'.bulk = ui.bulk
    BY <1>11 DEF ActDone
  <2>2. ~Bulky(net[i])
    BY <2>1 DEF Bulky, Bulks
  <2>3. PICK op \in {"load", "again"} : net' = Append(s, Request(op, net[i].for))
    BY <1>11 DEF ActDone, Load, s
  <2> DEFINE r == Request(op, net[i].for)
  <2>4. r \in Requests /\ ~Bulky(r) /\ net' = Append(s, r)
    BY <1>2, <2>3, RequestTyped DEF Bulky, Bulks
  <2> HIDE DEF r
  <2> QED
    BY <1>6, <2>1, <2>2, <2>4
<1>12. CASE ActFailed(i) \/ Unsaid(i)
  <2>1. net' = s /\ ~Bulky(net[i]) /\ ui'.bulk = ui.bulk
    BY <1>12 DEF ActFailed, Unsaid, Bulky, Bulks, s
  <2> QED
    BY <1>8, <2>1
<1>13. CASE ReadDone(i)
  <2>1. /\ net' = s /\ net[i].op \in Reads
        /\ ui'.bulk = IF net[i].op = "after" THEN "none" ELSE ui.bulk
    BY <1>13 DEF ReadDone, s
  <2>2. Bulky(net[i]) <=> net[i].op = "after"
    BY <2>1 DEF Reads, Bulky, Bulks
  <2> QED
    BY <1>8, <1>9, <2>1, <2>2
<1> QED
  BY <1>1, <1>10, <1>11, <1>12, <1>13 DEF Done

LEMMA MarkStep == TypeInv /\ MarkInv /\ [Next]_vars => MarkInv'
<1> SUFFICES ASSUME TypeInv, MarkInv, [Next]_vars PROVE MarkInv'
  OBVIOUS
<1>1. /\ page \in Pages /\ ui \in Hooks /\ net \in Seq(Requests) /\ Len(net) \in Nat
      /\ Handlers.keyed => ui.asked \in Items
      /\ Handlers.bulk => ui.want \in Items
      /\ ui.want # NoItem => ui.want \in Items
      /\ ui.timer => ui.want \in Items
  BY Asking
<1>2. \A x \in Items, op \in {"load", "act"} :
         Request(op, x) \in Requests /\ ~Bulky(Request(op, x))
  BY RequestTyped DEF Bulky, Bulks
<1>3. ASSUME NEW u \in Hooks, NEW x \in Items, Ask(u, x), u.bulk = ui.bulk,
             doubled' = doubled
      PROVE  MarkInv'
  <2>1. ui'.bulk = ui.bulk /\ (Sent(u, x) \/ Refused(u))
    BY <1>1, <1>3, AskDone
  <2>2. net' = net \/ net' = Append(net, Request("load", x))
    BY <2>1 DEF Sent, Refused, Load
  <2> QED
    BY <1>1, <1>2, <1>3, <2>1, <2>2, MarkSame
<1>4. ASSUME NEW x \in Items, NEW y \in Items, Choose(x, y)
      PROVE  MarkInv'
  <2> DEFINE u == [ui EXCEPT !.want = x]
  <2>1. u \in Hooks /\ u.bulk = ui.bulk
    BY <1>1 DEF Hooks
  <2>2. Ask(u, y) /\ doubled' = doubled
    BY <1>4 DEF Choose
  <2> HIDE DEF u
  <2> QED
    BY <1>3, <2>1, <2>2
<1>5. ASSUME Elapse
      PROVE  MarkInv'
  <2> DEFINE u == [ui EXCEPT !.timer = FALSE]
  <2>1. u \in Hooks /\ u.bulk = ui.bulk
    BY <1>1 DEF Hooks
  <2>2. /\ (ui' = u /\ UNCHANGED net) \/ Ask(u, ui.want)
        /\ doubled' = doubled /\ ui.want \in Items
    BY <1>1, <1>5 DEF Elapse
  <2> HIDE DEF u
  <2>3. CASE ui' = u /\ UNCHANGED net
    BY <1>1, <2>1, <2>2, <2>3, MarkSame
  <2> QED
    BY <1>3, <2>1, <2>2, <2>3
<1>6. ASSUME Refresh
      PROVE  MarkInv'
  <2>1. /\ doubled' = doubled /\ ui.want \in Items
        /\ \/ /\ Handlers.keyed /\ UNCHANGED ui
              /\ net' = Append(net, Request("load", ui.asked))
           \/ Ask(ui, ui.want)
    BY <1>1, <1>6 DEF Refresh, Load
  <2>2. CASE /\ Handlers.keyed /\ UNCHANGED ui
             /\ net' = Append(net, Request("load", ui.asked))
    BY <1>1, <1>2, <2>1, <2>2, MarkSame
  <2> QED
    BY <1>1, <1>3, <2>1, <2>2
<1>7. ASSUME NEW x \in Items, Act(x)
      PROVE  MarkInv'
  <2>1. /\ ui' = [ui EXCEPT !.failed = @ /\ ~Handlers.quiet] /\ doubled' = doubled
        /\ net' = Append(net, Request("act", x))
    BY <1>7 DEF Act
  <2>2. ui'.bulk = ui.bulk
    BY <1>1, <2>1 DEF Hooks
  <2> QED
    BY <1>1, <1>2, <2>1, <2>2, MarkSame
<1>8. ASSUME \/ \E x \in Items : Type(x)
             \/ \E r \in Rows : Toggle(r)
             \/ Close
      PROVE  MarkInv'
  <2>1. ui'.bulk = ui.bulk /\ UNCHANGED <<net, doubled>>
    BY <1>1, <1>8 DEF Type, Toggle, Close, Hooks
  <2> QED
    BY <1>1, <2>1, MarkSame
<1>9. ASSUME NEW op \in Bulks, Bulk(op)
      PROVE  MarkInv'
  <2> DEFINE r == Request(op, ui.want)
  <2>1. /\ ui' = [ui EXCEPT !.bulk = op] /\ net' = Append(net, r)
        /\ doubled' = (doubled \/ Bulking # {}) /\ ui.want \in Items
    BY <1>1, <1>9 DEF Bulk
  <2>2. r \in Requests /\ Bulky(r)
    BY <2>1, RequestTyped DEF Bulky
  <2> HIDE DEF r
  <2>3. ui'.bulk = op /\ op # "none"
    BY <1>1, <2>1 DEF Hooks, Bulks
  <2>4. /\ Len(net) + 1 \in DOMAIN net' /\ net'[Len(net) + 1] = r
        /\ \A k \in DOMAIN net : k \in DOMAIN net' /\ net'[k] = net[k]
        /\ \A k \in DOMAIN net' : k \in DOMAIN net \/ k = Len(net) + 1
    BY <1>1, <2>1, <2>2, AppendTyped
  <2>5. Bulking' = Bulking \union {Len(net) + 1}
    BY <2>2, <2>4 DEF Bulking, Bulky
  <2> QED
    BY <2>1, <2>3, <2>5 DEF MarkInv, BulkMarked
<1>10. CASE UNCHANGED vars
  BY <1>1, <1>10, MarkSame DEF vars
<1> QED
  BY <1>4, <1>5, <1>6, <1>7, <1>8, <1>9, <1>10, MarkDeliver DEF Next

\* The mark of a bulk operation (bulkBusy of history/page.tsx) is there from its
\* first request to the answer of its load, and never afterwards.
THEOREM MarkCorrect == Spec => []BulkMarked
<1>1. MarkInv => BulkMarked
  BY DEF MarkInv
<1> QED
  BY <1>1, TypeAlways, MarkInit, MarkStep, PTL DEF Spec

(***************************************************************************)
(* The last read in flight asks for what the page asks for.                *)
(***************************************************************************)
\* Request k of s reads, and no later one does.
LastRead(s, k) ==
    /\ k \in DOMAIN s /\ s[k].op \in Reads
    /\ \A j \in DOMAIN s : s[j].op \in Reads => j <= k

\* ... for the question x.
LastAsks(s, x) == \A k \in DOMAIN s : LastRead(s, k) => s[k].for = x

Reading(s) == \E k \in DOMAIN s : s[k].op \in Reads

\* An operation will read in silence, or say that it failed.
Acting(s) == Handlers.quiet /\ \E k \in DOMAIN s : s[k].op = "act"

\* What the answers are matched with: what is typed waits to be it.
Question(u) == IF Handlers.keyed THEN u.asked ELSE u.want

\* Operations are made with the question of the page, and end in a read of it.
ActsAsk ==
    ~crossed /\ ~Handlers.jumps =>
        \A i \in DOMAIN net : net[i].op # "load" => net[i].for = ui.want

\* While nothing is being read the page shows what it asks for, and else the
\* last read will make it so.
ReadsAsk ==
    ~overtook /\ ~crossed /\ (ui.timer => Handlers.keyed) /\ ui.want # NoItem =>
        /\ LastAsks(net, Question(ui))
        /\ Reading(net) \/ Acting(net) \/ ui.data = Question(ui) \/ ui.failed

\* The URL says what the fields say, unless they wait.
UrlAsks == Handlers.keyed /\ ~ui.timer => ui.asked = ui.want

AskInv == ActsAsk /\ ReadsAsk /\ UrlAsks

\* A read that is appended is the last one.
LEMMA LastAppended ==
  ASSUME NEW s \in Seq(Requests), NEW r \in Requests, r.op \in Reads
  PROVE  LastAsks(Append(s, r), r.for) /\ Reading(Append(s, r))
<1> DEFINE t == Append(s, r)
<1>1. /\ DOMAIN s = 1 .. Len(s) /\ DOMAIN t = 1 .. Len(s) + 1 /\ Len(s) \in Nat
      /\ t[Len(s) + 1] = r
  BY AppendTyped
<1> HIDE DEF t
<1>2. ASSUME NEW k \in DOMAIN t, LastRead(t, k)
      PROVE  k = Len(s) + 1
  BY <1>1, <1>2 DEF LastRead
<1>3. LastAsks(t, r.for) /\ Reading(t)
  BY <1>1, <1>2 DEF LastAsks, Reading
<1> QED
  BY <1>3 DEF t

\* Any other request that is appended leaves the last read what it is.
LEMMA OtherAppended ==
  ASSUME NEW s \in Seq(Requests), NEW r \in Requests, r.op \notin Reads, NEW x
  PROVE  /\ LastAsks(s, x) => LastAsks(Append(s, r), x)
         /\ Reading(s) => Reading(Append(s, r))
         /\ Acting(s) => Acting(Append(s, r))
<1> DEFINE t == Append(s, r)
<1>1. /\ DOMAIN s = 1 .. Len(s) /\ DOMAIN t = 1 .. Len(s) + 1 /\ Len(s) \in Nat
      /\ t[Len(s) + 1] = r
      /\ \A k \in DOMAIN s : k \in DOMAIN t /\ t[k] = s[k]
      /\ \A k \in DOMAIN t : k \in DOMAIN s \/ k = Len(s) + 1
  BY AppendTyped
<1> HIDE DEF t
<1>2. (Reading(s) => Reading(t)) /\ (Acting(s) => Acting(t))
  BY <1>1 DEF Reading, Acting
<1>3. ASSUME LastAsks(s, x), NEW k \in DOMAIN t, LastRead(t, k)
      PROVE  t[k].for = x
  <2>1. k \in DOMAIN s /\ t[k] = s[k]
    BY <1>1, <1>3 DEF LastRead
  <2>2. LastRead(s, k)
    BY <1>1, <1>3, <2>1 DEF LastRead
  <2> QED
    BY <1>3, <2>1, <2>2 DEF LastAsks
<1>4. LastAsks(s, x) => LastAsks(t, x)
  BY <1>3 DEF LastAsks
<1> QED
  BY <1>2, <1>4 DEF t

\* The first request is answered. The last read stays the last one, unless it
\* was the only one.
LEMMA FirstDone ==
  ASSUME net \in Seq(Requests), 1 \in DOMAIN net, NEW x, LastAsks(net, x)
  PROVE  /\ LastAsks(Without(1), x)
         /\ net[1].op \notin Reads => (Reading(net) => Reading(Without(1)))
         /\ net[1].op \in Reads =>
               /\ Reading(Without(1)) \/ net[1].for = x
               /\ Acting(net) => Acting(Without(1))
<1> DEFINE t == Without(1)
<1>1. DOMAIN net = 1 .. Len(net) /\ Len(net) \in Nat
  OBVIOUS
<1>2. DOMAIN t = 1 .. Len(net) - 1 /\ \A k \in DOMAIN t : t[k] = net[k + 1]
  BY <1>1 DEF Without
<1> HIDE DEF t
<1>3. \A j \in DOMAIN net : j # 1 => j - 1 \in DOMAIN t /\ t[j - 1] = net[j]
  <2> TAKE j \in DOMAIN net
  <2> HAVE j # 1
  <2>1. j - 1 \in DOMAIN t /\ (j - 1) + 1 = j
    BY <1>1, <1>2
  <2> QED
    BY <1>2, <2>1
<1>4. ASSUME NEW k \in DOMAIN t, LastRead(t, k)
      PROVE  t[k].for = x
  <2>1. k + 1 \in DOMAIN net /\ t[k] = net[k + 1] /\ k \in Nat /\ k >= 1
    BY <1>1, <1>2
  <2>2. ASSUME NEW j \in DOMAIN net, net[j].op \in Reads
        PROVE  j <= k + 1
    <3>1. CASE j = 1
      BY <2>1, <3>1
    <3>2. CASE j # 1
      <4>1. j - 1 <= k
        BY <1>3, <1>4, <2>2, <3>2 DEF LastRead
      <4> QED
        BY <1>1, <2>1, <4>1
    <3> QED
      BY <3>1, <3>2
  <2>3. LastRead(net, k + 1)
    BY <1>4, <2>1, <2>2 DEF LastRead
  <2> QED
    BY <2>1, <2>3 DEF LastAsks
<1>5. LastAsks(t, x)
  BY <1>4 DEF LastAsks
<1>6. ASSUME net[1].op \notin Reads, Reading(net)
      PROVE  Reading(t)
  <2>1. PICK j \in DOMAIN net : net[j].op \in Reads
    BY <1>6 DEF Reading
  <2> QED
    BY <1>3, <1>6, <2>1 DEF Reading
<1>7. ASSUME net[1].op \in Reads, ~Reading(t)
      PROVE  net[1].for = x
  <2>1. \A j \in DOMAIN net : net[j].op \in Reads => j = 1
    BY <1>3, <1>7 DEF Reading
  <2>2. LastRead(net, 1)
    BY <1>7, <2>1 DEF LastRead
  <2> QED
    BY <2>2 DEF LastAsks
<1>8. ASSUME net[1].op \in Reads, Acting(net)
      PROVE  Acting(t)
  <2>1. PICK j \in DOMAIN net : net[j].op = "act"
    BY <1>8 DEF Acting
  <2>2. j # 1
    BY <1>8, <2>1 DEF Reads
  <2> QED
    BY <1>3, <1>8, <2>1, <2>2 DEF Acting
<1> QED
  BY <1>5, <1>6, <1>7, <1>8 DEF t

\* A read of the page's own question is sent: whatever was asked before, the
\* page will show the answer to this one.
LEMMA AskAgain ==
  ASSUME UNCHANGED page,
         NEW s \in Seq(Requests), NEW r \in Requests, r.op \in Reads,
         net' = Append(s, r),
         ~crossed' /\ ui'.want # NoItem => r.for = Question(ui'),
         ~crossed' /\ ~Handlers.jumps =>
             \A k \in DOMAIN s : s[k].op # "load" => s[k].for = ui'.want,
         ~crossed' /\ ~Handlers.jumps /\ r.op # "load" => r.for = ui'.want,
         Handlers.keyed /\ ~ui'.timer => ui'.asked = ui'.want
  PROVE  AskInv'
<1>1. Handlers' = Handlers
  BY DEF Handlers
<1>2. LastAsks(net', r.for) /\ Reading(net')
  BY LastAppended
<1>3. ReadsAsk'
  <2> SUFFICES ASSUME ~crossed', ui'.want # NoItem
               PROVE  LastAsks(net, Question(ui))' /\ Reading(net')
    BY DEF ReadsAsk
  <2>1. r.for = Question(ui)'
    BY <1>1 DEF Question
  <2> QED
    BY <1>2, <2>1 DEF LastAsks
<1>4. ActsAsk'
  <2> SUFFICES ASSUME ~crossed', ~Handlers.jumps, NEW k \in DOMAIN net', net'[k].op # "load"
               PROVE  net'[k].for = ui'.want
    BY <1>1 DEF ActsAsk
  <2>1. (k \in DOMAIN s /\ net'[k] = s[k]) \/ net'[k] = r
    BY AppendTyped
  <2> QED
    BY <2>1
<1>5. UrlAsks'
  BY <1>1 DEF UrlAsks
<1> QED
  BY <1>3, <1>4, <1>5 DEF AskInv

\* A question is asked, or refused: at once, if nothing else is in flight.
LEMMA AskSent ==
  ASSUME TypeInv, UNCHANGED page, NEW u \in Hooks, NEW x \in Items, Ask(u, x),
         ~crossed' /\ u.want # NoItem /\ ~Handlers.keyed => x = u.want,
         ~crossed' /\ ~Handlers.jumps =>
             \A k \in DOMAIN net : net[k].op # "load" => net[k].for = u.want,
         Handlers.keyed /\ ~u.timer => x = u.want
  PROVE  AskInv'
<1>1. page \in Pages /\ net \in Seq(Requests) /\ Sound(Handlers)
  BY Asking
<1>2. ui'.want = u.want /\ ui'.timer = u.timer /\ (Sent(u, x) \/ Refused(u))
  BY <1>1, AskDone
<1>3. CASE Sent(u, x)
  <2> DEFINE r == Load(x)
  <2>1. /\ r \in Requests /\ r.op = "load" /\ r.for = x /\ net' = Append(net, r)
        /\ ui'.asked = IF Handlers.keyed THEN x ELSE u.asked
    BY <1>3, LoadTyped DEF Sent
  <2> HIDE DEF r
  <2>2. ~crossed' /\ ui'.want # NoItem => r.for = Question(ui')
    BY <1>2, <2>1 DEF Question
  <2> QED
    BY <1>1, <1>2, <2>1, <2>2, AskAgain DEF Reads
<1>4. CASE Refused(u)
  <2>1. /\ net' = net /\ overtook' = (overtook \/ net # << >>) /\ ui'.failed
        /\ ~Handlers.keyed
    BY <1>1, <1>4 DEF Refused, Sound
  <2>2. Handlers' = Handlers
    BY DEF Handlers
  <2>3. ReadsAsk'
    <3>1. ~overtook' => DOMAIN net' = {}
      <4>1. ~overtook' => net' = << >>
        BY ONLY <2>1, Zenon
      <4> QED
        BY <4>1
    <3>2. ~overtook' => LastAsks(net, Question(ui))'
      BY <3>1 DEF LastAsks
    <3> QED
      BY <2>1, <3>2 DEF ReadsAsk
  <2>4. ActsAsk' /\ UrlAsks'
    BY <1>2, <2>1, <2>2 DEF ActsAsk, UrlAsks
  <2> QED
    BY <2>3, <2>4 DEF AskInv
<1> QED
  BY <1>2, <1>3, <1>4

LEMMA AskInit == Init => AskInv
<1> SUFFICES ASSUME Init PROVE AskInv
  OBVIOUS
<1>1. page \in Pages /\ Sound(Handlers)
  BY HandlersSound DEF Init, Handlers
<1>2. PICK x \in Items :
        /\ ui.want = IF Handlers.closes THEN NoItem ELSE x
        /\ ui.asked = IF Handlers.keyed THEN ui.want ELSE NoItem
        /\ ui.timer = Handlers.typed
        /\ \/ net = IF Handlers.closes \/ ~Handlers.chosen THEN << >> ELSE <<Load(x)>>
           \/ net = << >> /\ ui.failed
  BY DEF Init
<1>3. UrlAsks
  BY <1>2 DEF UrlAsks
<1>4. CASE net = << >>
  <2>1. DOMAIN net = {}
    BY <1>4
  <2>2. ActsAsk /\ LastAsks(net, Question(ui))
    BY <2>1 DEF ActsAsk, LastAsks
  <2>3. ui.want = NoItem \/ (ui.timer /\ ~Handlers.keyed) \/ ui.failed
    <3>1. CASE ui.failed
      BY <3>1
    <3>2. CASE ~ui.failed
      <4>1. Handlers.closes \/ ~Handlers.chosen
        <5>1. CASE ~(Handlers.closes \/ ~Handlers.chosen)
          <6>1. << >> = <<Load(x)>>
            BY <1>2, <1>4, <3>2, <5>1
          <6> QED
            BY <6>1
        <5> QED
          BY <5>1
      <4> QED
        BY <1>1, <1>2, <4>1 DEF Sound
    <3> QED
      BY <3>1, <3>2
  <2> QED
    BY <1>3, <2>2, <2>3 DEF AskInv, ReadsAsk
<1>5. CASE net # << >>
  <2> DEFINE r == Load(x)
  <2>1. net = <<r>> /\ r \in Requests /\ r.op = "load" /\ r.for = x
    BY <1>2, <1>5, LoadTyped
  <2>2. ui.want = x
    BY <1>2, <1>5
  <2> HIDE DEF r
  <2>3. << >> \in Seq(Requests) /\ Append(<< >>, r) = <<r>> /\ \A i \in DOMAIN <<r>> : <<r>>[i] = r
    BY <2>1
  <2>4. LastAsks(net, x) /\ Reading(net)
    BY <2>1, <2>3, LastAppended DEF Reads
  <2>5. ActsAsk
    BY <2>1, <2>3 DEF ActsAsk
  <2>6. Question(ui) = x
    BY <1>2, <2>2 DEF Question
  <2> QED
    BY <1>3, <2>4, <2>5, <2>6 DEF AskInv, ReadsAsk
<1> QED
  BY <1>4, <1>5

\* What the page asks for, what it shows and what is in flight stay.
LEMMA AskSame ==
  ASSUME AskInv, UNCHANGED <<page, net>>, overtook => overtook', crossed => crossed',
         ui'.want = ui.want, ui'.asked = ui.asked, ui'.timer = ui.timer,
         ui'.data = ui.data, ui'.failed = ui.failed
  PROVE  AskInv'
<1>1. Handlers' = Handlers
  BY DEF Handlers
<1> QED
  BY <1>1 DEF AskInv, ActsAsk, ReadsAsk, UrlAsks, LastAsks, Question, Reading, Acting

\* A read is done: the first in flight, or an answer has overtaken another.
LEMMA AskRead ==
  ASSUME TypeInv, AskInv, NEW i, Deliver(i), ReadDone(i) \/ ActFailed(i)
  PROVE  ReadsAsk'
<1>1. /\ i \in DOMAIN net /\ page' = page /\ overtook' = (overtook \/ i > 1)
      /\ ui'.timer = ui.timer /\ ui'.asked = ui.asked
  BY Delivered
<1>2. /\ page \in Pages /\ net \in Seq(Requests) /\ DOMAIN net = 1 .. Len(net)
      /\ Len(net) \in Nat
  BY Asking
<1>3. net' = Without(i) /\ ui'.want = ui.want /\ crossed' = crossed
  BY DEF ReadDone, ActFailed
<1>4. Handlers' = Handlers
  BY <1>1 DEF Handlers
<1> DEFINE x == Question(ui)
<1>5. Question(ui)' = x
  BY <1>1, <1>3, <1>4 DEF Question
<1> SUFFICES ASSUME ~overtook', ~crossed, ui.timer => Handlers.keyed, ui.want # NoItem
             PROVE  /\ LastAsks(net', x)
                    /\ Reading(net') \/ Acting(net') \/ ui'.data = x \/ ui'.failed
  BY <1>1, <1>3, <1>4, <1>5 DEF ReadsAsk, LastAsks, Acting
<1>6. i = 1 /\ ~overtook
  <2>1. ~(i > 1) /\ ~overtook /\ i \in 1 .. Len(net)
    BY <1>1, <1>2
  <2> QED
    BY <1>2, <2>1
<1>7. /\ LastAsks(net, x)
      /\ Reading(net) \/ Acting(net) \/ ui.data = x \/ ui.failed
  BY <1>6 DEF AskInv, ReadsAsk
<1> HIDE DEF x
<1>8. /\ LastAsks(Without(1), x)
      /\ net[1].op \notin Reads => (Reading(net) => Reading(Without(1)))
      /\ net[1].op \in Reads => /\ Reading(Without(1)) \/ net[1].for = x
                                /\ Acting(net) => Acting(Without(1))
  BY <1>1, <1>2, <1>6, <1>7, FirstDone
<1>9. CASE ActFailed(i)
  <2>1. /\ net[1].op \notin Reads /\ ui'.data = ui.data
        /\ ui.failed \/ Handlers.quiet => ui'.failed
    BY <1>6, <1>9 DEF ActFailed, Reads
  <2> QED
    BY <1>3, <1>6, <1>7, <1>8, <2>1 DEF Acting
<1>10. CASE ReadDone(i) /\ ~Reading(Without(1))
  <2>1. net[1].op \in Reads /\ net[1].for = x
    BY <1>6, <1>8, <1>10 DEF ReadDone
  <2>2. ui'.data = x \/ ui'.failed
    BY <1>6, <1>10, <2>1 DEF ReadDone, Question, x
  <2> QED
    BY <1>3, <1>6, <1>8, <2>2
<1> QED
  BY <1>3, <1>6, <1>8, <1>9, <1>10

\* The step of an answer.
LEMMA AskDeliver ==
  ASSUME TypeInv, AskInv, NEW i, Deliver(i)
  PROVE  AskInv'
<1>1. /\ i \in DOMAIN net /\ net[i] \in Requests /\ Fits(net[i])
      /\ page' = page /\ ui'.timer = ui.timer /\ ui'.asked = ui.asked
      /\ Done(i)
  BY Delivered
<1>2. /\ page \in Pages /\ ui \in Hooks /\ net \in Seq(Requests) /\ Sound(Handlers)
      /\ Handlers.bulk => ui.want \in Items
  BY Asking
<1>3. /\ Without(i) \in Seq(Requests)
      /\ \A k \in DOMAIN Without(i) : /\ Place(k, i) \in DOMAIN net \ {i}
                                      /\ Without(i)[k] = net[Place(k, i)]
  BY <1>1, <1>2, WithoutOne
<1>4. net[i].for \in Items /\ Handlers' = Handlers
  BY <1>1 DEF Requests, Handlers
<1>5. ASSUME ~crossed, ~Handlers.jumps
      PROVE  /\ net[i].op # "load" => net[i].for = ui.want
             /\ \A k \in DOMAIN Without(i) :
                   Without(i)[k].op # "load" => Without(i)[k].for = ui.want
  BY <1>1, <1>3, <1>5 DEF AskInv, ActsAsk
<1>6. ASSUME NEW op \in {"load", "after", "again"}, crossed' = crossed,
             net' = Append(Without(i), Request(op, net[i].for)),
             net[i].op # "load", ~Handlers.keyed,
             ui'.want = IF Handlers.jumps THEN net[i].for ELSE ui.want
      PROVE  AskInv'
  <2> DEFINE r == Request(op, net[i].for)
  <2>1. r \in Requests /\ r.op = op /\ r.for = net[i].for
    BY <1>4, RequestTyped DEF Bulks
  <2>2. net' = Append(Without(i), r)
    BY <1>6
  <2> HIDE DEF r
  <2>3. ~crossed' => r.for = ui'.want
    BY <1>5, <1>6, <2>1
  <2>4. ~crossed' /\ ~Handlers.jumps =>
           \A k \in DOMAIN Without(i) :
              Without(i)[k].op # "load" => Without(i)[k].for = ui'.want
    BY <1>5, <1>6
  <2> QED
    BY <1>1, <1>3, <1>6, <2>1, <2>2, <2>3, <2>4, AskAgain DEF Reads, Question
<1>7. CASE BulkDone(i)
  <2>1. /\ net[i].op \in Bulks /\ ui'.want = ui.want /\ crossed' = crossed
        /\ net' = Append(Without(i), Request("after", net[i].for))
    BY <1>7 DEF BulkDone
  <2>2. Handlers.bulk
    BY <1>1, <2>1 DEF Fits, Bulky
  <2>3. ~Handlers.jumps /\ ~Handlers.keyed /\ net[i].op # "load"
    BY <1>2, <2>1, <2>2 DEF Sound, Bulks
  <2> QED
    BY <1>6, <2>1, <2>3
<1>8. CASE ActDone(i)
  <2>1. /\ net[i].op = "act" /\ crossed' = crossed
        /\ ui'.want = IF Handlers.jumps THEN net[i].for ELSE ui.want
        /\ \E op \in {"load", "again"} : net' = Append(Without(i), Request(op, net[i].for))
    BY <1>8 DEF ActDone, Load
  <2>2. ~Handlers.keyed
    BY <1>1, <1>2, <2>1 DEF Fits, Sound
  <2> QED
    BY <1>6, <2>1, <2>2
<1>9. CASE Unsaid(i)
  <2>1. crossed' /\ UNCHANGED ui
    BY <1>9 DEF Unsaid
  <2> QED
    BY <1>4, <2>1 DEF AskInv, ActsAsk, ReadsAsk, UrlAsks
<1>10. CASE ReadDone(i) \/ ActFailed(i)
  <2>1. net' = Without(i) /\ ui'.want = ui.want /\ crossed' = crossed
    BY <1>10 DEF ReadDone, ActFailed
  <2>2. ActsAsk' /\ UrlAsks'
    BY <1>1, <1>4, <1>5, <2>1 DEF AskInv, ActsAsk, UrlAsks
  <2> QED
    BY <1>10, <2>2, AskRead DEF AskInv
<1> QED
  BY <1>1, <1>7, <1>8, <1>9, <1>10 DEF Done

LEMMA AskStep == TypeInv /\ AskInv /\ [Next]_vars => AskInv'
<1> SUFFICES ASSUME TypeInv, AskInv, [Next]_vars PROVE AskInv'
  OBVIOUS
<1>1. /\ page \in Pages /\ ui \in Hooks /\ net \in Seq(Requests) /\ Sound(Handlers)
      /\ Handlers.bulk => ui.want \in Items
      /\ Handlers.keyed => ui.asked \in Items
      /\ ui.timer => ui.want \in Items /\ Handlers.typed
      /\ ui.want # NoItem => ui.want \in Items
  BY Asking
<1>2. ~Crossing => ~crossed /\ \A k \in DOMAIN net : net[k].op = "load"
  BY DEF Crossing, Pending
<1>3. ASSUME NEW x \in Items, NEW y \in Items, Choose(x, y)
      PROVE  AskInv'
  <2> DEFINE u == [ui EXCEPT !.want = x]
  <2>1. u \in Hooks /\ u.want = x /\ u.timer = ui.timer
    BY <1>1 DEF Hooks
  <2>2. Ask(u, y) /\ crossed' = Crossing /\ page' = page /\ (~ui.timer => y = x)
        /\ Handlers.chosen
    BY <1>3 DEF Choose
  <2> HIDE DEF u
  <2>3. ~Handlers.keyed /\ ~crossed' => y = x
    BY <1>1, <1>3, <2>2 DEF Sound, Crossing
  <2> QED
    BY <1>2, <2>1, <2>2, <2>3, AskSent
<1>4. ASSUME NEW x \in Items, Type(x)
      PROVE  AskInv'
  <2>1. /\ ui' = [ui EXCEPT !.want = x, !.timer = TRUE] /\ x # ui.want
        /\ UNCHANGED <<page, net, overtook>> /\ crossed' = Crossing /\ Handlers.typed
    BY <1>4 DEF Type
  <2>2. /\ ui'.timer /\ ui'.want = x /\ ui'.asked = ui.asked
        /\ ui'.data = ui.data /\ ui'.failed = ui.failed
    BY <1>1, <2>1 DEF Hooks
  <2>3. Handlers' = Handlers
    BY <2>1 DEF Handlers
  <2>4. ActsAsk' /\ UrlAsks'
    BY <1>2, <2>1, <2>2 DEF ActsAsk, UrlAsks
  <2>5. CASE Handlers.keyed
    <3>1. ui.want # NoItem /\ Question(ui)' = Question(ui)
      BY <1>1, <2>2, <2>3, <2>5, QueryAssumption DEF Question, TypeInv, Sane, Sound
    <3>2. ReadsAsk'
      <4> SUFFICES ASSUME ~overtook', ~crossed'
                   PROVE  /\ LastAsks(net, Question(ui))'
                          /\ Reading(net') \/ ui'.data = Question(ui)' \/ ui'.failed \/ Acting(net)'
        BY DEF ReadsAsk
      <4>1. /\ LastAsks(net, Question(ui))
            /\ Reading(net) \/ Acting(net) \/ ui.data = Question(ui) \/ ui.failed
        BY <1>2, <2>1, <2>5, <3>1 DEF AskInv, ReadsAsk
      <4> QED
        BY <2>1, <2>2, <2>3, <3>1, <4>1 DEF LastAsks, Reading, Acting
    <3> QED
      BY <2>4, <3>2 DEF AskInv
  <2>6. CASE ~Handlers.keyed
    BY <2>2, <2>3, <2>4, <2>6 DEF AskInv, ReadsAsk
  <2> QED
    BY <2>5, <2>6
<1>5. ASSUME Elapse
      PROVE  AskInv'
  <2> DEFINE u == [ui EXCEPT !.timer = FALSE]
  <2>1. /\ u \in Hooks /\ u.want = ui.want /\ u.timer = FALSE /\ u.asked = ui.asked
        /\ u.data = ui.data /\ u.failed = ui.failed
    BY <1>1 DEF Hooks
  <2>2. /\ page' = page /\ crossed' = crossed /\ ui.want \in Items
        /\ \/ /\ Handlers.keyed /\ ui.asked = ui.want
              /\ ui' = u /\ UNCHANGED <<net, overtook>>
           \/ Ask(u, ui.want)
    BY <1>1, <1>5 DEF Elapse
  <2> HIDE DEF u
  <2>3. CASE /\ Handlers.keyed /\ ui.asked = ui.want
             /\ ui' = u /\ UNCHANGED <<net, overtook>>
    <3>1. Handlers' = Handlers
      BY <2>2 DEF Handlers
    <3> QED
      BY <2>1, <2>2, <2>3, <3>1
      DEF AskInv, ActsAsk, ReadsAsk, UrlAsks, LastAsks, Question, Reading, Acting
  <2>4. CASE Ask(u, ui.want)
    BY <1>1, <2>1, <2>2, <2>4, AskSent DEF AskInv, ActsAsk
  <2> QED
    BY <2>2, <2>3, <2>4
<1>6. ASSUME Refresh
      PROVE  AskInv'
  <2>1. page' = page /\ crossed' = crossed /\ ui.want \in Items
    BY <1>1, <1>6 DEF Refresh
  <2>2. CASE Handlers.keyed
    <3> DEFINE r == Load(ui.asked)
    <3>1. /\ r \in Requests /\ r.op = "load" /\ r.for = ui.asked
          /\ net' = Append(net, r) /\ UNCHANGED ui
      BY <1>1, <1>6, <2>2, LoadTyped DEF Refresh
    <3> HIDE DEF r
    <3> QED
      BY <1>1, <2>1, <2>2, <3>1, AskAgain DEF Reads, Question, AskInv, ActsAsk, UrlAsks
  <2>3. CASE ~Handlers.keyed
    <3>1. Ask(ui, ui.want)
      BY <1>6, <2>3 DEF Refresh
    <3> QED
      BY <1>1, <2>1, <2>3, <3>1, AskSent DEF AskInv, ActsAsk
  <2> QED
    BY <2>2, <2>3
<1>7. ASSUME Close
      PROVE  AskInv'
  <2>1. /\ ui' = [ui EXCEPT !.want = NoItem, !.data = NoItem, !.failed = FALSE]
        /\ crossed' = Crossing /\ UNCHANGED <<page, net>> /\ Handlers.closes
    BY <1>7 DEF Close
  <2>2. ui'.want = NoItem
    BY <1>1, <2>1 DEF Hooks
  <2>3. Handlers' = Handlers /\ ~Handlers.keyed
    BY <1>1, <2>1 DEF Handlers, Sound
  <2> QED
    BY <1>2, <2>1, <2>2, <2>3 DEF AskInv, ActsAsk, ReadsAsk, UrlAsks
<1>8. ASSUME NEW r \in Requests, r.op \notin Reads, ~Handlers.jumps => r.for = ui.want,
             net' = Append(net, r), UNCHANGED <<page, overtook, crossed>>,
             ui'.want = ui.want, ui'.asked = ui.asked, ui'.timer = ui.timer,
             ui'.data = ui.data,
             ui'.failed = ui.failed \/ (Handlers.quiet /\ r.op = "act")
      PROVE  AskInv'
  <2>1. Handlers' = Handlers
    BY <1>8 DEF Handlers
  <2> DEFINE x == Question(ui)
  <2>2. /\ LastAsks(net, x) => LastAsks(net', x)
        /\ Reading(net) => Reading(net')
        /\ Acting(net) => Acting(net')
    BY <1>1, <1>8, OtherAppended
  <2>3. Handlers.quiet /\ r.op = "act" => Acting(net')
    <3>1. Len(net) + 1 \in DOMAIN net' /\ net'[Len(net) + 1] = r
      <4>1. Len(net) \in Nat
        BY <1>1
      <4> QED
        BY <1>1, <1>8, <4>1, AppendTyped
    <3> QED
      BY <3>1 DEF Acting
  <2>4. Question(ui)' = x
    BY <1>8, <2>1 DEF Question
  <2> HIDE DEF x
  <2>5. ReadsAsk'
    <3> SUFFICES ASSUME ~overtook, ~crossed, ui.timer => Handlers.keyed, ui.want # NoItem
                 PROVE  /\ LastAsks(net', x)
                        /\ Reading(net') \/ Acting(net') \/ ui'.data = x \/ ui'.failed
      BY <1>8, <2>1, <2>4 DEF ReadsAsk, LastAsks, Acting
    <3>1. LastAsks(net, x) /\ (Reading(net) \/ Acting(net) \/ ui.data = x \/ ui.failed)
      BY DEF AskInv, ReadsAsk, x
    <3> QED
      BY <1>8, <2>2, <2>3, <3>1
  <2>6. ActsAsk'
    <3> SUFFICES ASSUME ~crossed, ~Handlers.jumps, NEW k \in DOMAIN net', net'[k].op # "load"
                 PROVE  net'[k].for = ui.want
      BY <1>8, <2>1 DEF ActsAsk
    <3>1. (k \in DOMAIN net /\ net'[k] = net[k]) \/ net'[k] = r
      BY <1>1, <1>8, AppendTyped
    <3> QED
      BY <1>8, <3>1 DEF AskInv, ActsAsk
  <2>7. UrlAsks'
    BY <1>8, <2>1 DEF AskInv, UrlAsks
  <2> QED
    BY <2>5, <2>6, <2>7 DEF AskInv
<1>9. ASSUME NEW x \in Items, Act(x)
      PROVE  AskInv'
  <2> DEFINE r == Request("act", x)
  <2>1. r \in Requests /\ r.op = "act" /\ r.for = x
    BY RequestTyped
  <2>2. /\ net' = Append(net, r) /\ UNCHANGED <<page, overtook, crossed>>
        /\ ui' = [ui EXCEPT !.failed = @ /\ ~Handlers.quiet]
        /\ (Handlers.jumps \/ x = ui.want)
    BY <1>9 DEF Act
  <2> HIDE DEF r
  <2>3. ui.failed \in BOOLEAN /\ Handlers.quiet \in BOOLEAN
    BY <1>1 DEF Hooks, Sound, HandlerRecords
  <2>4. /\ ui'.want = ui.want /\ ui'.asked = ui.asked /\ ui'.timer = ui.timer
        /\ ui'.data = ui.data
        /\ ui'.failed = ui.failed \/ (Handlers.quiet /\ r.op = "act")
    BY <1>1, <2>1, <2>2, <2>3 DEF Hooks
  <2> QED
    BY <1>8, <2>1, <2>2, <2>4 DEF Reads
<1>10. ASSUME NEW op \in Bulks, Bulk(op)
       PROVE  AskInv'
  <2>1. /\ ui' = [ui EXCEPT !.bulk = op] /\ Handlers.bulk
        /\ UNCHANGED <<page, overtook, crossed>>
    BY <1>10 DEF Bulk
  <2>2. /\ ui'.want = ui.want /\ ui'.timer = ui.timer /\ ui'.data = ui.data
        /\ ui'.asked = ui.asked /\ ui'.failed = ui.failed /\ ui.want \in Items
    BY <1>1, <2>1 DEF Hooks
  <2> DEFINE r == Request(op, ui.want)
  <2>3. r \in Requests /\ r.op = op /\ r.for = ui.want
    BY <2>2, RequestTyped
  <2>4. net' = Append(net, r)
    BY <1>10 DEF Bulk
  <2> HIDE DEF r
  <2> QED
    BY <1>8, <2>1, <2>2, <2>3, <2>4 DEF Bulks, Reads
<1>11. ASSUME NEW r \in Rows, Toggle(r)
       PROVE  AskInv'
  <2>1. /\ ui' = [ui EXCEPT !.picked = IF r \in @ THEN @ \ {r} ELSE @ \union {r}]
        /\ UNCHANGED <<page, net, overtook, crossed>>
    BY <1>11 DEF Toggle
  <2>2. ui'.want = ui.want /\ ui'.timer = ui.timer /\ ui'.data = ui.data
        /\ ui'.asked = ui.asked /\ ui'.failed = ui.failed
    BY <1>1, <2>1 DEF Hooks
  <2> QED
    BY <2>1, <2>2, AskSame
<1>12. CASE UNCHANGED vars
  BY <1>12, AskSame DEF vars
<1> QED
  BY <1>3, <1>4, <1>5, <1>6, <1>7, <1>9, <1>10, <1>11, <1>12, AskDeliver DEF Next

\* Once nothing is under way, a page shows the answer to its question or says
\* that it failed, as long as answers came in order, no question was changed
\* under an operation, and no operation's load was refused in silence.
THEOREM SettledCorrect == Spec => []SettledShowsAsked
<1>1. TypeInv /\ AskInv => SettledShowsAsked
  <2> SUFFICES ASSUME AskInv, net = << >>, ~ui.timer, ~overtook, ~crossed,
                      ui.want # NoItem
               PROVE  ui.data = ui.want \/ ui.failed
    BY DEF SettledShowsAsked
  <2>1. ~Reading(net) /\ ~Acting(net)
    BY DEF Reading, Acting
  <2>2. Question(ui) = ui.want
    BY DEF AskInv, UrlAsks, Question
  <2> QED
    BY <2>1, <2>2 DEF AskInv, ReadsAsk
<1> QED
  BY <1>1, TypeAlways, AskInit, AskStep, PTL DEF Spec

=============================================================================
