--------------------------- MODULE ConsoleProofs ----------------------------
(***************************************************************************)
(* The console keeps the worker informed and opens what it shows, for any  *)
(* calls, queries, filters and any interleaving of keys and snapshots.     *)
(*                                                                         *)
(* ConsoleInv: what the hints say, the form of the snapshot, and what the  *)
(* highlight stands for between a draw and the next key.                   *)
(***************************************************************************)
EXTENDS Console, SumProofs

-----------------------------------------------------------------------------
(* The interface's record, and what its hints must say *)
Fields == {"page", "filter", "query", "editing", "backup", "row", "selected", "pending",
           "linked", "picker", "bquery", "brow", "order", "iprow", "drill", "drillrow",
           "focus", "pin", "clear"}
Form(a) == DOMAIN a = Fields
Linked(a) ==
  /\ Form(a) /\ a.brow \in Int
  /\ a.linked # None => a.focus.linked = a.linked /\ a.focus.primary # a.linked
Good(a) == Linked(a) /\ a.pin = Trim(a.query)

(* Between a draw and the next key the highlight is on the call of its row *)
Lit ==
  (phase = "poll" /\ fresh = TRUE /\ app.page = "Overview") => lit = Get(Filtered(app, snap), app.row)

ConsoleInv ==
  /\ Good(app) /\ snap.calls \in Seq(Calls) /\ fresh \in {TRUE, FALSE}
  /\ Lit

LEMMA ConsoleMeans == ConsoleInv => HintsFollowUi
BY DEF ConsoleInv, Good, Linked, HintsFollowUi, PinFollowsQuery, LinkIsPublished

(* b differs from a in nothing the hints are about *)
Alike(a, b) ==
  /\ DOMAIN b = DOMAIN a
  /\ b.linked = a.linked /\ b.focus = a.focus /\ b.pin = a.pin /\ b.query = a.query
  /\ b.brow = a.brow

LEMMA AlikeLinked == ASSUME NEW a, NEW b, Linked(a), Alike(a, b) PROVE Linked(b)
BY DEF Linked, Form, Alike

LEMMA AlikeGood == ASSUME NEW a, NEW b, Good(a), Alike(a, b) PROVE Good(b)
BY AlikeLinked DEF Good, Alike

LEMMA SyncAlike == ASSUME NEW a, Form(a) PROVE Alike(a, SyncSelection(a))
BY DEF SyncSelection, Form, Fields, Alike

LEMMA ClampAlike == ASSUME NEW a, Form(a) PROVE Alike(a, Clamp(a))
<1> DEFINE n == Len(Filtered(a, snap))
           r == IF a.row # NoRow /\ a.row < n THEN a.row ELSE IF n > 0 THEN 0 ELSE NoRow
           b == [a EXCEPT !.row = r]
<1>1. Clamp(a) = SyncSelection(b)
  BY DEF Clamp
<1> HIDE DEF r
<1>2. Form(b) /\ Alike(a, b)
  BY DEF Form, Fields, Alike
<1>3. Alike(b, SyncSelection(b))
  BY <1>2, SyncAlike
<1> QED
  BY <1>1, <1>2, <1>3 DEF Alike

LEMMA PinGood == ASSUME NEW a, Linked(a) PROVE Good(SyncPin(a))
BY DEF Good, Linked, Form, Fields, SyncPin

LEMMA OpenGood == ASSUME NEW a, Good(a), NEW c PROVE Good(OpenDetail(a, c)) /\ OpenDetail(a, c).selected = c
<1> DEFINE b == [a EXCEPT !.selected = c, !.linked = None, !.picker = FALSE,
                         !.bquery = <<>>, !.page = "CallDetail"]
           d == [b EXCEPT !.focus = [primary |-> c, linked |-> b.linked], !.pending = c]
<1>1. OpenDetail(a, c) = d
  BY DEF OpenDetail, PublishFocus
<1>2. /\ DOMAIN b = Fields /\ b.linked = None /\ b.selected = c
      /\ b.pin = a.pin /\ b.query = a.query /\ b.brow = a.brow
  BY DEF Good, Linked, Form, Fields
<1> HIDE DEF b
<1>3. /\ DOMAIN d = Fields /\ d.linked = None /\ d.selected = c
      /\ d.pin = b.pin /\ d.query = b.query /\ d.brow = b.brow
  BY <1>2 DEF Fields
<1> HIDE DEF d
<1> QED
  BY <1>1, <1>2, <1>3 DEF Good, Linked, Form

LEMMA CloseGood == ASSUME NEW a, Good(a) PROVE Good(CloseDetail(a))
<1> DEFINE b == CloseDetail(a)
<1>1. /\ DOMAIN b = Fields /\ b.linked = None /\ b.pin = a.pin /\ b.query = a.query
      /\ b.brow = a.brow
  BY DEF CloseDetail, Good, Linked, Form, Fields
<1> QED
  BY <1>1 DEF Good, Linked, Form

(* Handling a key leaves the snapshot and what was drawn alone. *)
LEMMA KeyStep == ASSUME ConsoleInv, NEW a, Good(a), Key(a) PROVE ConsoleInv'
<1>1. app' = a /\ phase' = "draw" /\ snap' = snap /\ fresh' = fresh
  BY DEF Key
<1>2. Lit'
  BY <1>1 DEF Lit
<1>3. Good(app') /\ snap'.calls \in Seq(Calls) /\ fresh' \in {TRUE, FALSE}
  BY <1>1 DEF ConsoleInv
<1>4. Good(app)'
  BY <1>3 DEF Good, Linked, Form, Fields, Trim
<1> QED
  BY <1>2, <1>3, <1>4 DEF ConsoleInv

LEMMA QuitStep == ASSUME ConsoleInv, QuitKey PROVE ConsoleInv'
<1>1. app' = app /\ phase' = "left" /\ snap' = snap /\ fresh' = fresh
  BY DEF QuitKey
<1>2. Lit'
  BY <1>1 DEF Lit
<1>3. Good(app)' /\ snap'.calls \in Seq(Calls) /\ fresh' \in {TRUE, FALSE}
  BY <1>1 DEF ConsoleInv, Good, Linked, Form, Fields, Trim
<1> QED
  BY <1>2, <1>3 DEF ConsoleInv

LEMMA SameStep == ASSUME ConsoleInv, NEW a, Alike(app, a), Key(a) PROVE ConsoleInv'
BY AlikeGood, KeyStep DEF ConsoleInv

LEMMA MovedAlike == ASSUME ConsoleInv, NEW d PROVE Alike(app, Moved(d))
<1>1. Form(app)
  BY DEF ConsoleInv, Good, Linked
<1> DEFINE v == Nudge(app.row, d, Len(Filtered(app, snap)))
           b == [app EXCEPT !.row = v]
<1>2. Moved(d) = SyncSelection(b)
  BY DEF Moved
<1> HIDE DEF v
<1>3. Form(b) /\ Alike(app, b)
  BY <1>1 DEF Form, Fields, Alike
<1>4. Alike(b, SyncSelection(b))
  BY <1>3, SyncAlike
<1> QED
  BY <1>2, <1>3, <1>4 DEF Alike

(* The filter bar *)
LEMMA EditStep == ASSUME ConsoleInv, Edit PROVE ConsoleInv'
<1>1. Linked(app) /\ Form(app)
  BY DEF ConsoleInv, Good, Linked
<1>2. ASSUME NEW a, Linked(a), EditKey(a) PROVE ConsoleInv'
  BY <1>2, PinGood, KeyStep DEF EditKey
<1>3. ASSUME NEW q PROVE LET b == [app EXCEPT !.query = q] IN Linked(b) /\ Linked(Clamp(b))
  <2> DEFINE b == [app EXCEPT !.query = q]
  <2>1. Linked(b) /\ Form(b)
    BY <1>1 DEF Linked, Form, Fields
  <2> HIDE DEF b
  <2>2. Linked(Clamp(b))
    BY <2>1, ClampAlike, AlikeLinked
  <2> QED
    BY <2>1, <2>2 DEF b
<1>4. CASE EditEsc
  <2> DEFINE a == [app EXCEPT !.query = app.backup, !.editing = FALSE]
  <2>1. Linked(a)
    BY <1>1 DEF Linked, Form, Fields
  <2>2. EditKey(a)
    BY <1>4 DEF EditEsc
  <2> HIDE DEF a
  <2> QED
    BY <1>2, <2>1, <2>2
<1>5. CASE EditEnter
  <2> DEFINE a == [app EXCEPT !.editing = FALSE]
  <2>1. Linked(a)
    BY <1>1 DEF Linked, Form, Fields
  <2>2. EditKey(a)
    BY <1>5 DEF EditEnter
  <2> HIDE DEF a
  <2> QED
    BY <1>2, <2>1, <2>2
<1>6. CASE EditWipe
  BY <1>2, <1>3, <1>6 DEF EditWipe
<1>7. CASE EditBackspace
  <2>1. PICK q : EditKey(Clamp([app EXCEPT !.query = q]))
    BY <1>7 DEF EditBackspace
  <2> QED
    BY <1>2, <1>3, <2>1
<1>8. ASSUME NEW c \in Chars, EditType(c) PROVE ConsoleInv'
  <2>1. PICK q : EditKey(Clamp([app EXCEPT !.query = q]))
    BY <1>8 DEF EditType
  <2> QED
    BY <1>2, <1>3, <2>1
<1>9. ASSUME NEW d \in Deltas, EditMove(d) PROVE ConsoleInv'
  <2>1. EditKey(Moved(d))
    BY <1>9 DEF EditMove
  <2>2. Alike(app, Moved(d))
    BY MovedAlike
  <2> QED
    BY <1>1, <1>2, <2>1, <2>2, AlikeLinked
<1>10. CASE EditQuit
  BY <1>10, QuitStep DEF EditQuit
<1> QED
  BY <1>4, <1>5, <1>6, <1>7, <1>8, <1>9, <1>10 DEF Edit

(* The picker of the b-leg: it never offers the call itself. *)
LEMMA GetOf ==
  ASSUME NEW S, NEW s \in Seq(S), NEW i \in Int, Get(s, i) # None
  PROVE  Get(s, i) \in S /\ i # NoRow
<1>1. i >= 0 /\ i < Len(s) /\ Get(s, i) = s[i + 1]
  BY DEF Get
<1>2. i # NoRow
  BY <1>1 DEF NoRow
<1> QED
  BY <1>1, <1>2

LEMMA CandidatesLen ==
  ASSUME ConsoleInv, NEW primary, NEW q
  PROVE  Len(BLegCandidates(primary, q)) \in Nat
<1> DEFINE S == {c \in Calls : c # primary /\ RuleMatches(q, c)}
<1>1. BLegCandidates(primary, q) = Only(snap.calls, S) /\ Len(snap.calls) \in Nat
  BY DEF BLegCandidates, ConsoleInv
<1> HIDE DEF S
<1>2. Only(snap.calls, S) \in Seq(S)
  BY <1>1, OnlyIn
<1> QED
  BY <1>1, <1>2

LEMMA PickStep == ASSUME ConsoleInv, Pick PROVE ConsoleInv'
<1>1. Good(app) /\ Linked(app) /\ Form(app)
  BY DEF ConsoleInv, Good, Linked
<1>2. CASE PickEsc
  <2> DEFINE a == [app EXCEPT !.picker = FALSE, !.bquery = <<>>]
  <2>1. Alike(app, a) /\ Key(a)
    BY <1>1, <1>2 DEF PickEsc, Alike, Form, Fields
  <2> QED
    BY <2>1, SameStep
<1>3. ASSUME NEW d \in Deltas, PickMove(d) PROVE ConsoleInv'
  <2> DEFINE n == Len(BLegCandidates(Primary, app.bquery))
             v == Nudge(app.brow, d, n)
  <2>1. Key([app EXCEPT !.brow = v])
    BY <1>3 DEF PickMove
  <2>2. n \in Nat /\ d \in Int /\ app.brow \in Int
    BY <1>1, CandidatesLen, ConsoleAssumption DEF Deltas, Linked
  <2> HIDE DEF n
  <2>3. v \in Int
    BY <2>2 DEF Nudge, NoRow
  <2> HIDE DEF v
  <2>4. Good([app EXCEPT !.brow = v])
    BY <1>1, <2>3 DEF Good, Linked, Form, Fields
  <2> QED
    BY <2>1, <2>4, KeyStep
<1>4. ASSUME NEW c \in Chars, PickType(c) PROVE ConsoleInv'
  <2>1. PICK v : Key([app EXCEPT !.bquery = v])
    BY <1>4 DEF PickType
  <2>2. Alike(app, [app EXCEPT !.bquery = v])
    BY <1>1 DEF Alike, Form, Fields
  <2> QED
    BY <2>1, <2>2, SameStep
<1>5. CASE PickBackspace
  <2>1. PICK v : Key([app EXCEPT !.bquery = v])
    BY <1>5 DEF PickBackspace
  <2>2. Alike(app, [app EXCEPT !.bquery = v])
    BY <1>1 DEF Alike, Form, Fields
  <2> QED
    BY <2>1, <2>2, SameStep
<1>6. CASE PickEnter
  <2> DEFINE S == {c \in Calls : c # Primary /\ RuleMatches(app.bquery, c)}
             cands == BLegCandidates(Primary, app.bquery)
             l == Get(cands, OrFirst(app.brow, cands))
             b == [app EXCEPT !.linked = l, !.picker = FALSE, !.bquery = <<>>]
             a == PublishFocus(b, Primary)
  <2>1. Key(IF l = None THEN app ELSE a)
    BY <1>6 DEF PickEnter
  <2>2. cands = Only(snap.calls, S)
    BY DEF BLegCandidates
  <2>3. cands \in Seq(S)
    <3>1. Len(snap.calls) \in Nat
      BY DEF ConsoleInv
    <3> HIDE DEF S, cands
    <3> QED
      BY <2>2, <3>1, OnlyIn
  <2>4. \A c \in S : c # Primary
    OBVIOUS
  <2> HIDE DEF S, cands
  <2>5. l # None => l # Primary
    <3>1. OrFirst(app.brow, cands) \in Int
      BY <1>1 DEF OrFirst, Linked
    <3> QED
      BY <2>3, <2>4, <3>1, GetOf
  <2> HIDE DEF l
  <2>6. CASE l = None
    BY <1>1, <2>1, <2>6, KeyStep
  <2>7. CASE l # None
    <3>1. /\ DOMAIN b = Fields /\ b.linked = l /\ b.pin = app.pin /\ b.query = app.query
          /\ b.brow = app.brow
      BY <1>1 DEF Form, Fields
    <3>2. a = [b EXCEPT !.focus = [primary |-> Primary, linked |-> b.linked], !.pending = Primary]
      BY DEF PublishFocus
    <3> HIDE DEF b, a
    <3>3. /\ DOMAIN a = Fields /\ a.linked = l /\ a.pin = b.pin /\ a.query = b.query
          /\ a.focus = [primary |-> Primary, linked |-> l] /\ a.brow = b.brow
      BY <3>1, <3>2 DEF Fields
    <3>4. a.focus.primary = Primary /\ a.focus.linked = l
      BY <3>3
    <3>5. Good(a)
      BY <1>1, <2>5, <2>7, <3>1, <3>3, <3>4 DEF Good, Linked, Form
    <3>6. Key(a)
      BY <2>1, <2>7
    <3> QED
      BY <3>5, <3>6, KeyStep
  <2> QED
    BY <2>6, <2>7
<1> QED
  BY <1>2, <1>3, <1>4, <1>5, <1>6 DEF Pick

(* Keys of every page *)
LEMMA GlobalStep == ASSUME ConsoleInv, Global PROVE ConsoleInv'
<1>1. Good(app) /\ Linked(app) /\ Form(app)
  BY DEF ConsoleInv, Good, Linked
<1>2. ASSUME Key(CloseDetail(app)) PROVE ConsoleInv'
  BY <1>1, <1>2, CloseGood, KeyStep
<1>3. ASSUME Key([app EXCEPT !.drill = None]) PROVE ConsoleInv'
  <2>1. Alike(app, [app EXCEPT !.drill = None])
    BY <1>1 DEF Alike, Form, Fields
  <2> QED
    BY <1>3, <2>1, SameStep
<1>4. ASSUME NEW p, Key([app EXCEPT !.page = p]) PROVE ConsoleInv'
  <2>1. Alike(app, [app EXCEPT !.page = p])
    BY <1>1 DEF Alike, Form, Fields
  <2> QED
    BY <1>4, <2>1, SameStep
<1>5. CASE Back
  BY <1>2, <1>3, <1>5, QuitStep DEF Back
<1>6. CASE Left
  BY <1>2, <1>3, <1>6 DEF Left
<1>7. CASE Slash
  <2> DEFINE a == [app EXCEPT !.page = "Overview", !.editing = TRUE, !.backup = app.query]
  <2>1. Alike(app, a)
    BY <1>1 DEF Alike, Form, Fields
  <2>2. Key(Clamp(a))
    BY <1>7 DEF Slash
  <2> HIDE DEF a
  <2>3. Alike(a, Clamp(a))
    BY <1>1, <2>1, ClampAlike DEF Alike, Form
  <2>4. Alike(app, Clamp(a))
    BY <2>1, <2>3 DEF Alike
  <2> QED
    BY <2>2, <2>4, SameStep
<1>8. CASE NextFilter
  <2>1. PICK v : Key([app EXCEPT !.filter = v])
    BY <1>8 DEF NextFilter
  <2>2. Alike(app, [app EXCEPT !.filter = v])
    BY <1>1 DEF Alike, Form, Fields
  <2> QED
    BY <2>1, <2>2, SameStep
<1>9. CASE ClearAll
  <2> DEFINE a == [app EXCEPT !.clear = TRUE, !.selected = None, !.pending = None,
                              !.linked = None, !.picker = FALSE, !.drill = None]
  <2>1. /\ DOMAIN a = Fields /\ a.linked = None /\ a.pin = app.pin /\ a.query = app.query
        /\ a.brow = app.brow
    BY <1>1 DEF Form, Fields
  <2>2. Key(a)
    BY <1>9 DEF ClearAll
  <2> HIDE DEF a
  <2>3. Good(a)
    BY <1>1, <2>1 DEF Good, Linked, Form
  <2> QED
    BY <2>2, <2>3, KeyStep
<1>10. ASSUME NEW d, CyclePage(d) PROVE ConsoleInv'
  <2>1. PICK p : Key([app EXCEPT !.page = p])
    BY <1>10 DEF CyclePage
  <2> QED
    BY <1>4, <2>1
<1>11. ASSUME NEW p, GoToPage(p) PROVE ConsoleInv'
  BY <1>4, <1>11 DEF GoToPage
<1> QED
  BY <1>5, <1>6, <1>7, <1>8, <1>9, <1>10, <1>11 DEF Global

(* Keys of one page *)
LEMMA LinkDropped ==
  ASSUME ConsoleInv, NEW c
  PROVE  LET a == [app EXCEPT !.linked = None, !.picker = FALSE]
         IN Good(a) /\ Good(PublishFocus(a, c))
<1> DEFINE a == [app EXCEPT !.linked = None, !.picker = FALSE]
           d == [a EXCEPT !.focus = [primary |-> c, linked |-> a.linked], !.pending = c]
<1>1. Good(app)
  BY DEF ConsoleInv
<1>2. /\ DOMAIN a = Fields /\ a.linked = None /\ a.pin = app.pin /\ a.query = app.query
      /\ a.brow = app.brow
  BY <1>1 DEF Good, Linked, Form, Fields
<1>3. PublishFocus(a, c) = d
  BY DEF PublishFocus
<1> HIDE DEF a
<1>4. /\ DOMAIN d = Fields /\ d.linked = None /\ d.pin = a.pin /\ d.query = a.query
      /\ d.brow = a.brow
  BY <1>2 DEF Fields
<1> HIDE DEF d
<1>5. Good(a) /\ Good(d)
  BY <1>1, <1>2, <1>4 DEF Good, Linked, Form
<1> QED
  BY <1>3, <1>5 DEF a

LEMMA PageStep == ASSUME ConsoleInv, PageKey PROVE ConsoleInv'
<1>1. Good(app) /\ Linked(app) /\ Form(app)
  BY DEF ConsoleInv, Good, Linked
<1>2. ASSUME NEW c, Key(IF c = None THEN app ELSE OpenDetail(app, c)) PROVE ConsoleInv'
  <2>1. Good(IF c = None THEN app ELSE OpenDetail(app, c))
    BY <1>1, OpenGood
  <2> QED
    BY <1>2, <2>1, KeyStep
<1>3. CASE OverviewWipe
  <2> DEFINE b == [app EXCEPT !.query = <<>>]
  <2>1. Linked(b)
    BY <1>1 DEF Linked, Form, Fields
  <2>2. Key(Clamp(SyncPin(b)))
    BY <1>3 DEF OverviewWipe
  <2> HIDE DEF b
  <2>3. Good(SyncPin(b))
    BY <2>1, PinGood
  <2>4. Good(Clamp(SyncPin(b)))
    BY <2>3, ClampAlike, AlikeGood DEF Good, Linked
  <2> QED
    BY <2>2, <2>4, KeyStep
<1>4. CASE OverviewEnter
  <2>1. PICK c : Key(IF c = None THEN app ELSE OpenDetail(app, c))
    BY <1>4 DEF OverviewEnter
  <2> QED
    BY <1>2, <2>1
<1>5. CASE OpenPicker
  <2> DEFINE a == [app EXCEPT !.picker = TRUE, !.bquery = <<>>, !.brow = 0]
  <2>1. /\ DOMAIN a = Fields /\ a.linked = app.linked /\ a.pin = app.pin
        /\ a.query = app.query /\ a.focus = app.focus /\ a.brow = 0
    BY <1>1 DEF Form, Fields
  <2>2. Key(a)
    BY <1>5 DEF OpenPicker
  <2> HIDE DEF a
  <2>3. Good(a)
    BY <1>1, <2>1 DEF Good, Linked, Form
  <2> QED
    BY <2>2, <2>3, KeyStep
<1>6. CASE ClearLink
  <2> DEFINE a == [app EXCEPT !.linked = None, !.picker = FALSE]
  <2>1. PICK c : Key(IF c = None THEN a ELSE PublishFocus(a, c))
    BY <1>6 DEF ClearLink
  <2>2. Good(a) /\ Good(PublishFocus(a, c))
    BY LinkDropped
  <2> HIDE DEF a
  <2>3. Good(IF c = None THEN a ELSE PublishFocus(a, c))
    BY <2>2
  <2> QED
    BY <2>1, <2>3, KeyStep
<1>7. CASE IpEnter
  <2>1. PICK o, ip :
          LET a == [app EXCEPT !.order = WithNew(o)]
          IN Key(IF ip = None THEN a ELSE [a EXCEPT !.drill = ip, !.drillrow = NoRow])
    BY <1>7 DEF IpEnter
  <2> DEFINE a == [app EXCEPT !.order = WithNew(o)]
             d == [a EXCEPT !.drill = ip, !.drillrow = NoRow]
  <2>2. Alike(app, a)
    BY <1>1 DEF Alike, Form, Fields
  <2>3. Alike(app, d)
    BY <1>1 DEF Alike, Form, Fields
  <2>4. Key(IF ip = None THEN a ELSE d)
    BY <2>1
  <2> HIDE DEF a, d
  <2>5. Alike(app, IF ip = None THEN a ELSE d)
    BY <2>2, <2>3
  <2> QED
    BY <2>4, <2>5, SameStep
<1>8. CASE IpSort
  <2>1. Alike(app, [app EXCEPT !.order = <<>>]) /\ Key([app EXCEPT !.order = <<>>])
    BY <1>1, <1>8 DEF IpSort, Alike, Form, Fields
  <2> QED
    BY <2>1, SameStep
<1>9. CASE DrillEnter
  <2>1. PICK c : Key(IF c = None THEN app ELSE OpenDetail(app, c))
    BY <1>9 DEF DrillEnter
  <2> QED
    BY <1>2, <2>1
<1>10. ASSUME NEW d, OverviewMove(d) PROVE ConsoleInv'
  BY <1>10, MovedAlike, SameStep DEF OverviewMove
<1>11. ASSUME NEW d, IpMove(d) PROVE ConsoleInv'
  <2>1. PICK v : Key([app EXCEPT !.iprow = v])
    BY <1>11 DEF IpMove
  <2>2. Alike(app, [app EXCEPT !.iprow = v])
    BY <1>1 DEF Alike, Form, Fields
  <2> QED
    BY <2>1, <2>2, SameStep
<1>12. ASSUME NEW d, DrillMove(d) PROVE ConsoleInv'
  <2>1. PICK v : Key([app EXCEPT !.drillrow = v])
    BY <1>12 DEF DrillMove
  <2>2. Alike(app, [app EXCEPT !.drillrow = v])
    BY <1>1 DEF Alike, Form, Fields
  <2> QED
    BY <2>1, <2>2, SameStep
<1> QED
  BY <1>3, <1>4, <1>5, <1>6, <1>7, <1>8, <1>9, <1>10, <1>11, <1>12 DEF PageKey

(* Drawing puts the highlight on the call of the row. *)
LEMMA GoodPrime == ASSUME Good(app') PROVE Good(app)'
BY DEF Good, Linked, Form, Fields, Trim

LEMMA DrawStep == ASSUME ConsoleInv, Draw PROVE ConsoleInv'
<1>1. Good(app) /\ Linked(app) /\ Form(app)
  BY DEF ConsoleInv, Good, Linked
<1>2. /\ snap' = snap /\ fresh' = TRUE /\ snap'.calls \in Seq(Calls)
  BY DEF Draw, ConsoleInv
<1>3. ASSUME Good(app'), Lit' PROVE ConsoleInv'
  BY <1>2, <1>3, GoodPrime DEF ConsoleInv
<1>4. CASE app.page = "Overview" /\ DrawOverview
  <2> DEFINE a == Anchored(app)
             v == Inside(a.row, Len(Filtered(a, snap)))
             b == [a EXCEPT !.row = v]
  <2>1. app' = b /\ lit' = Get(Filtered(b, snap), b.row)
    BY <1>4 DEF DrawOverview
  <2>2. Alike(app, a)
    <3> DEFINE r == Position(Filtered(app, snap), app.selected)
               s == Get(Filtered(app, snap), app.row)
    <3>1. a = IF app.selected # None THEN [app EXCEPT !.row = r]
              ELSE IF app.row # NoRow THEN [app EXCEPT !.selected = s] ELSE app
      BY DEF Anchored
    <3> HIDE DEF r, s
    <3>2. Alike(app, [app EXCEPT !.row = r])
      BY <1>1 DEF Alike, Form, Fields
    <3>3. Alike(app, [app EXCEPT !.selected = s])
      BY <1>1 DEF Alike, Form, Fields
    <3>4. Alike(app, app)
      BY DEF Alike
    <3> HIDE DEF a
    <3> QED
      BY <3>1, <3>2, <3>3, <3>4
  <2> HIDE DEF a, v
  <2>3. Alike(a, b)
    BY <1>1, <2>2 DEF Alike, Form, Fields
  <2>4. Good(app')
    BY <1>1, <2>1, <2>2, <2>3, AlikeGood
  <2>5. lit' = Get(Filtered(app', snap'), app'.row)
    BY <1>2, <2>1, Zenon
  <2>6. Lit'
    BY <2>5, Zenon DEF Lit, Get, Filtered, StateMatches, RuleMatches, Trim, Only
  <2> QED
    BY <1>3, <2>4, <2>6
<1>5. ASSUME Good(app'), app'.page # "Overview" PROVE ConsoleInv'
  BY <1>3, <1>5 DEF Lit
<1>6. CASE app.page = "CallDetail" /\ DrawDetail
  <2> DEFINE n == Len(BLegCandidates(snap.focus, app.bquery))
             v == IF app.picker THEN Inside(app.brow, n) ELSE app.brow
             a == [app EXCEPT !.pending = None, !.brow = v]
  <2>1. app' = IF snap.focus = None THEN app ELSE a
    BY <1>6 DEF DrawDetail
  <2>2. n \in Nat /\ app.brow \in Int
    BY <1>1, CandidatesLen DEF Linked
  <2> HIDE DEF n
  <2>3. v \in Int
    <3>1. Inside(app.brow, n) \in Int
      BY <2>2 DEF Inside, NoRow
    <3> HIDE DEF Inside
    <3> QED
      BY <2>2, <3>1, Zenon
  <2> HIDE DEF v
  <2>4. /\ DOMAIN a = Fields /\ a.linked = app.linked /\ a.pin = app.pin
        /\ a.query = app.query /\ a.focus = app.focus /\ a.brow = v /\ a.page = app.page
    BY <1>1 DEF Form, Fields
  <2> HIDE DEF a
  <2>5. Good(a) /\ a.page # "Overview"
    BY <1>1, <1>6, <2>3, <2>4 DEF Good, Linked, Form
  <2>6. Good(app') /\ app'.page # "Overview"
    BY <1>1, <1>6, <2>1, <2>5
  <2> QED
    BY <1>5, <2>6
<1>7. CASE app.page = "IpStats" /\ DrawIps
  <2>1. PICK o, u, w :
          app' = IF app.drill # None THEN [app EXCEPT !.drillrow = u]
                 ELSE [app EXCEPT !.order = o, !.iprow = w]
    BY <1>7 DEF DrawIps
  <2>2. Alike(app, [app EXCEPT !.drillrow = u]) /\ [app EXCEPT !.drillrow = u].page = app.page
    BY <1>1 DEF Alike, Form, Fields
  <2>3. /\ Alike(app, [app EXCEPT !.order = o, !.iprow = w])
        /\ [app EXCEPT !.order = o, !.iprow = w].page = app.page
    BY <1>1 DEF Alike, Form, Fields
  <2>4. Alike(app, app') /\ app'.page = app.page
    BY <2>1, <2>2, <2>3
  <2> QED
    BY <1>1, <1>5, <1>7, <2>4, AlikeGood
<1>8. CASE app.page \notin {"Overview", "CallDetail", "IpStats"} /\ UNCHANGED <<app, lit>>
  BY <1>1, <1>5, <1>8
<1> QED
  BY <1>4, <1>6, <1>7, <1>8 DEF Draw

LEMMA IdleStep == ASSUME ConsoleInv, Idle PROVE ConsoleInv'
<1>1. app' = app /\ phase' = "draw" /\ snap' = snap /\ fresh' = fresh
  BY DEF Idle
<1>2. Lit'
  BY <1>1 DEF Lit
<1>3. Good(app') /\ snap'.calls \in Seq(Calls) /\ fresh' \in {TRUE, FALSE}
  BY <1>1 DEF ConsoleInv
<1> QED
  BY <1>2, <1>3, GoodPrime DEF ConsoleInv

(* A snapshot is a sequence of calls; publishing it hides what was drawn. *)
LEMMA PublishStep == ASSUME ConsoleInv, Publish PROVE ConsoleInv'
<1>1. Good(app) /\ Form(app)
  BY DEF ConsoleInv, Good, Linked
<1>2. app' = [app EXCEPT !.clear = FALSE] /\ fresh' = FALSE
  BY DEF Publish
<1>3. Alike(app, [app EXCEPT !.clear = FALSE])
  BY <1>1 DEF Alike, Form, Fields
<1>4. Good(app')
  BY <1>1, <1>2, <1>3, AlikeGood
<1>5. Lit'
  BY <1>2 DEF Lit
<1>6. PICK C, order : C \in SUBSET Calls /\ order \in SetToSeqs(C) /\ snap'.calls = order
  <2>1. PICK C \in (IF app.clear THEN {{}} ELSE SUBSET Calls) :
          \E order \in SetToSeqs(C) : snap'.calls = order
    BY DEF Publish
  <2>2. C \in SUBSET Calls
    BY <2>1, Zenon
  <2> QED
    BY <2>1, <2>2
<1>7. order \in Seq(Calls)
  <2>1. Cardinality(C) \in Nat
    BY <1>6, FS_Subset, FS_CardinalityType, ConsoleAssumption
  <2>2. order \in [1 .. Cardinality(C) -> C]
    BY <1>6 DEF SetToSeqs
  <2>3. order \in [1 .. Cardinality(C) -> Calls]
    BY <1>6, <2>2
  <2> QED
    BY <2>1, <2>3
<1> QED
  BY <1>2, <1>4, <1>5, <1>6, <1>7, GoodPrime DEF ConsoleInv

LEMMA ConsoleInit == ASSUME Init PROVE ConsoleInv
<1>1. /\ DOMAIN app = Fields /\ app.linked = None /\ app.pin = <<>> /\ app.query = <<>>
      /\ app.brow = NoRow /\ phase = "draw" /\ fresh = TRUE /\ snap.calls = <<>>
  BY DEF Init, Fields, Empty
<1>2. Trim(<<>>) = <<>>
  BY DEF Trim
<1>3. Good(app)
  BY <1>1, <1>2 DEF Good, Linked, Form, NoRow
<1>4. Lit
  BY <1>1 DEF Lit
<1> QED
  BY <1>1, <1>3, <1>4 DEF ConsoleInv

LEMMA ConsoleStep == ConsoleInv /\ [Next]_vars => ConsoleInv'
<1> SUFFICES ASSUME ConsoleInv, [Next]_vars PROVE ConsoleInv'
  OBVIOUS
<1>1. CASE UNCHANGED vars
  <2>1. app' = app /\ phase' = phase /\ snap' = snap /\ fresh' = fresh /\ lit' = lit
    BY <1>1 DEF vars
  <2>2. Lit'
    <3>1. Lit
      BY DEF ConsoleInv
    <3>2. (phase' = "poll" /\ fresh' = TRUE /\ app'.page = "Overview")
            => lit' = Get(Filtered(app', snap'), app'.row)
      BY <2>1, <3>1, Zenon DEF Lit
    <3> QED
      BY <3>2, Zenon DEF Lit, Get, Filtered, StateMatches, RuleMatches, Trim, Only
  <2>3. Good(app') /\ snap'.calls \in Seq(Calls) /\ fresh' \in {TRUE, FALSE}
    BY <2>1 DEF ConsoleInv
  <2> QED
    BY <2>2, <2>3, GoodPrime DEF ConsoleInv
<1> QED
  BY <1>1, DrawStep, IdleStep, EditStep, PickStep, GlobalStep, PageStep, PublishStep DEF Next

(* What the worker was told is what the operator sees: every way an edit   *)
(* begins, goes and ends leaves the pinned query equal to the query of the *)
(* list, and a linked b-leg is always in the published hint, beside        *)
(* another call (sync_search_pin, publish_focus).                          *)
THEOREM HintsAlwaysFollow == Spec => []HintsFollowUi
<1>1. Init => ConsoleInv
  BY ConsoleInit
<1>2. ConsoleInv /\ [Next]_vars => ConsoleInv'
  BY ConsoleStep
<1>3. ConsoleInv => HintsFollowUi
  BY ConsoleMeans
<1> QED
  BY <1>1, <1>2, <1>3, PTL DEF Spec

LEMMA EnterOpens ==
  ASSUME ConsoleInv, Opens, fresh, lit # None PROVE app'.selected = lit
<1> DEFINE visible == Filtered(app, snap)
           c == Get(visible, OrFirst(app.row, visible))
<1>1. /\ Key(IF c = None THEN app ELSE OpenDetail(app, c)) /\ app.page = "Overview"
      /\ app'.page = "CallDetail"
  BY DEF Opens, OverviewEnter, On
<1>2. fresh = TRUE
  BY Zenon DEF ConsoleInv
<1>3. app' = (IF c = None THEN app ELSE OpenDetail(app, c)) /\ phase = "poll"
  BY <1>1 DEF Key
<1>4. lit = Get(visible, app.row)
  BY <1>1, <1>2, <1>3 DEF ConsoleInv, Lit
<1> HIDE DEF visible
<1>5. app.row # NoRow
  BY <1>4 DEF Get, NoRow
<1>6. c = lit
  BY <1>4, <1>5 DEF OrFirst
<1>7. app' = OpenDetail(app, c)
  BY <1>3, <1>6
<1> QED
  BY <1>6, <1>7, OpenGood DEF ConsoleInv

(* Enter opens the call under the highlight as long as no snapshot was     *)
(* published since the screen was drawn, whatever was filtered, moved and  *)
(* cleared before (ui/overview.rs render, page_key).                       *)
THEOREM EnterOpensHighlighted == Spec => OpensHighlighted
<1>1. Init => ConsoleInv
  BY ConsoleInit
<1>2. ConsoleInv /\ [Next]_vars => ConsoleInv'
  BY ConsoleStep
<1>3. ConsoleInv => [Opens /\ fresh /\ lit # None => app'.selected = lit]_vars
  BY EnterOpens
<1> QED
  BY <1>1, <1>2, <1>3, PTL DEF Spec, OpensHighlighted
=============================================================================
