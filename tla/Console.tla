------------------------------ MODULE Console -------------------------------
(***************************************************************************)
(* The terminal interface as a process (src/src/ui/app.rs): run_tui draws, *)
(* waits for a key, handles it and draws again, while the worker replaces  *)
(* the published snapshot at any moment.  The model follows what a key     *)
(* does to the focus, the filter, the selections and the b-leg link;       *)
(* cursors and toggles that no other operation reads (streams, event log,  *)
(* raw text, flow, labels, privacy, export) are left out, pause is in      *)
(* Pipeline.                                                               *)
(*                                                                         *)
(* A query is the sequence of its characters; Blank is white space.  A row *)
(* is an index from 0, NoRow the absent selection.                         *)
(***************************************************************************)
EXTENDS Integers, Sequences, FiniteSets, SequencesExt, Sums

CONSTANTS Calls, States, Ips,
          None,
          Chars, Blank,      \* characters of a query
          Named,             \* calls a query that is not blank matches
          IpsOf,             \* addresses of a call
          CallFilters,       \* CallFilter::ALL, "All" first
          PageRows,
          MaxQuery, MaxKeys, MaxPublished   \* bounds

ASSUME ConsoleAssumption ==
  /\ None \notin Calls \cup Ips /\ IsFiniteSet(Calls)
  /\ Named \subseteq Calls /\ Blank \in Chars
  /\ IpsOf \in [Calls -> SUBSET Ips]
  /\ CallFilters[1] = "All"
  /\ PageRows \in Nat /\ MaxQuery \in Nat /\ MaxKeys \in Nat /\ MaxPublished \in Nat

VARIABLES
  app,        \* App
  snap,       \* the published snapshot: calls, their states, focus, addresses
  phase,      \* "draw", "poll" or "left"
  lit,        \* the call under the highlight when the screen was drawn
  fresh,      \* nothing was published since
  keys, published

vars == <<app, snap, phase, lit, fresh, keys, published>>

NoRow == -1
NoHint == [primary |-> None, linked |-> None]
Empty == [calls |-> <<>>, state |-> <<>>, focus |-> None, ips |-> <<>>]
Pages == <<"Overview", "CallDetail", "Heatmap", "Streams", "EventLog", "IpStats">>

Init ==
  /\ app = [page |-> "Overview",
            filter |-> 1, query |-> <<>>, editing |-> FALSE, backup |-> <<>>,
            row |-> NoRow, selected |-> None,
            pending |-> None, linked |-> None, picker |-> FALSE,
            bquery |-> <<>>, brow |-> NoRow,
            order |-> <<>>, iprow |-> NoRow, drill |-> None, drillrow |-> NoRow,
            focus |-> NoHint, pin |-> <<>>, clear |-> FALSE]
  /\ snap = Empty /\ phase = "draw" /\ lit = None /\ fresh = TRUE
  /\ keys = 0 /\ published = 0

-----------------------------------------------------------------------------
(* Rows and queries *)
Get(s, i) == IF i >= 0 /\ i < Len(s) THEN s[i + 1] ELSE None
Position(s, x) == IF \E i \in DOMAIN s : s[i] = x
                    THEN (CHOOSE i \in DOMAIN s : s[i] = x) - 1 ELSE NoRow
OrFirst(row, s) == IF row = NoRow /\ s # <<>> THEN 0 ELSE row

(* str::trim *)
Trim(q) ==
  LET shown == {i \in DOMAIN q : q[i] # Blank}
  IN IF shown = {} THEN <<>> ELSE SubSeq(q, Min(shown), Max(shown))
RuleMatches(q, c) == Trim(q) = <<>> \/ c \in Named
StateMatches(f, s) == CallFilters[f] = "All" \/ CallFilters[f] = s

(* table_nudge: move by delta, inside the list *)
Nudge(row, delta, n) ==
  LET cur == IF row # NoRow THEN row ELSE IF delta > 0 THEN -1 ELSE 0
      next == cur + delta
  IN IF n = 0 THEN row ELSE IF next < 0 THEN 0 ELSE IF next > n - 1 THEN n - 1 ELSE next

Deltas == {1, -1, PageRows, -PageRows}

(* filtered_calls: the calls that pass the state filter and the query *)
Filtered(a, s) ==
  Only(s.calls, {c \in ToSet(s.calls) : StateMatches(a.filter, s.state[c]) /\ RuleMatches(a.query, c)})

(* b_leg_candidates: every call but the primary *)
BLegCandidates(primary, q) ==
  Only(snap.calls, {c \in Calls : c # primary /\ RuleMatches(q, c)})

CallsForIp(ip) == Only(snap.calls, {c \in Calls : ip \in IpsOf[c]})

(* sync_overview_selection: the call at the row is the anchor *)
SyncSelection(a) == [a EXCEPT !.selected = Get(Filtered(a, snap), a.row)]

(* clamp_overview_selection: a row inside the list, else the first *)
Clamp(a) ==
  LET n == Len(Filtered(a, snap))
  IN SyncSelection([a EXCEPT !.row = IF a.row # NoRow /\ a.row < n THEN a.row
                                     ELSE IF n > 0 THEN 0 ELSE NoRow])

(* sync_search_pin *)
SyncPin(a) == [a EXCEPT !.pin = Trim(a.query)]

(* publish_focus *)
PublishFocus(a, primary) ==
  [a EXCEPT !.focus = [primary |-> primary, linked |-> a.linked], !.pending = primary]

OpenDetail(a, c) ==
  PublishFocus([a EXCEPT !.selected = c, !.linked = None, !.picker = FALSE,
                         !.bquery = <<>>, !.page = "CallDetail"], c)

CloseDetail(a) ==
  [a EXCEPT !.page = "Overview", !.pending = None, !.linked = None, !.picker = FALSE,
            !.bquery = <<>>, !.focus = NoHint]

-----------------------------------------------------------------------------
(* A key is handled between two draws *)
Key(a) ==
  /\ phase = "poll" /\ keys < MaxKeys
  /\ app' = a /\ phase' = "draw" /\ keys' = keys + 1
  /\ UNCHANGED <<snap, lit, fresh, published>>

QuitKey ==
  /\ phase = "poll" /\ keys < MaxKeys
  /\ phase' = "left" /\ keys' = keys + 1
  /\ UNCHANGED <<app, snap, lit, fresh, published>>

(* poll's timeout, or a key that nothing handles *)
Idle == phase = "poll" /\ phase' = "draw" /\ UNCHANGED <<app, snap, lit, fresh, keys, published>>

Picking == app.picker
Editing == ~app.picker /\ app.editing
Browsing == ~app.picker /\ ~app.editing

(* The picker: the call a b-leg is linked to is the one the snapshot shows,*)
(* else the one asked for, else the selected one.                          *)
Primary ==
  IF snap.focus # None THEN snap.focus
  ELSE IF app.pending # None THEN app.pending ELSE app.selected

PickEsc == Picking /\ Key([app EXCEPT !.picker = FALSE, !.bquery = <<>>])
PickMove(d) ==
  Picking /\ Key([app EXCEPT !.brow = Nudge(@, d, Len(BLegCandidates(Primary, app.bquery)))])
PickType(c) == /\ Picking /\ Len(app.bquery) < MaxQuery
               /\ Key([app EXCEPT !.bquery = Append(@, c)])
PickBackspace == Picking /\ app.bquery # <<>> /\ Key([app EXCEPT !.bquery = Front(@)])
PickEnter ==
  /\ Picking
  /\ LET cands == BLegCandidates(Primary, app.bquery)
         linked == Get(cands, OrFirst(app.brow, cands))
     IN Key(IF linked = None THEN app
            ELSE PublishFocus([app EXCEPT !.linked = linked, !.picker = FALSE,
                                          !.bquery = <<>>], Primary))

(* The filter bar: every key ends by telling the worker the query *)
EditKey(a) == Editing /\ Key(SyncPin(a))

(* Mutant: giving up an edit does not tell the worker *)
EditEscSilent == Editing /\ Key([app EXCEPT !.query = app.backup, !.editing = FALSE])

EditEsc == EditKey([app EXCEPT !.query = app.backup, !.editing = FALSE])
EditEnter == EditKey([app EXCEPT !.editing = FALSE])
EditWipe == EditKey(Clamp([app EXCEPT !.query = <<>>]))
EditType(c) == Len(app.query) < MaxQuery /\ EditKey(Clamp([app EXCEPT !.query = Append(@, c)]))
EditBackspace == EditKey(Clamp([app EXCEPT !.query = IF @ = <<>> THEN @ ELSE Front(@)]))
Moved(d) == SyncSelection([app EXCEPT !.row = Nudge(@, d, Len(Filtered(app, snap)))])
EditMove(d) == EditKey(Moved(d))
EditQuit == Editing /\ QuitKey

(* Keys of every page *)
Drilled == app.page = "IpStats" /\ app.drill # None

Back ==
  /\ Browsing
  /\ \/ app.page = "CallDetail" /\ Key(CloseDetail(app))
     \/ Drilled /\ Key([app EXCEPT !.drill = None])
     \/ app.page # "CallDetail" /\ ~Drilled /\ QuitKey

Left == \/ Browsing /\ app.page = "CallDetail" /\ Key(CloseDetail(app))
        \/ Browsing /\ Drilled /\ Key([app EXCEPT !.drill = None])

CyclePage(d) ==
  Browsing /\ Key([app EXCEPT !.page = Pages[((Position(Pages, @) + Len(Pages) + d) % Len(Pages)) + 1]])
GoToPage(p) == Browsing /\ Key([app EXCEPT !.page = p])
Slash ==
  Browsing /\ Key(Clamp([app EXCEPT !.page = "Overview", !.editing = TRUE, !.backup = app.query]))
NextFilter == Browsing /\ Key([app EXCEPT !.filter = (@ % Len(CallFilters)) + 1])
ClearAll ==
  Browsing /\ Key([app EXCEPT !.clear = TRUE, !.selected = None, !.pending = None,
                              !.linked = None, !.picker = FALSE, !.drill = None])

(* Keys of the Overview *)
On(p) == Browsing /\ app.page = p
OverviewMove(d) == On("Overview") /\ Key(Moved(d))
OverviewWipe ==
  On("Overview") /\ app.query # <<>> /\ Key(Clamp(SyncPin([app EXCEPT !.query = <<>>])))

(* Mutant: Enter opens the first row *)
OverviewEnterFirst ==
  /\ On("Overview")
  /\ LET c == Get(Filtered(app, snap), 0)
     IN Key(IF c = None THEN app ELSE OpenDetail(app, c))

OverviewEnter ==
  /\ On("Overview")
  /\ LET visible == Filtered(app, snap)
         c == Get(visible, OrFirst(app.row, visible))
     IN Key(IF c = None THEN app ELSE OpenDetail(app, c))

(* Keys of the call's page: pick a b-leg, drop it *)
OpenPicker == On("CallDetail") /\ Key([app EXCEPT !.picker = TRUE, !.bquery = <<>>, !.brow = 0])
ClearLink ==
  /\ On("CallDetail")
  /\ LET a == [app EXCEPT !.linked = None, !.picker = FALSE]
         c == IF app.pending # None THEN app.pending ELSE app.selected
     IN Key(IF c = None THEN a ELSE PublishFocus(a, c))

(* The address page.  ordered_rows keeps the cached order, or derives it   *)
(* anew: the cache is empty or older than five seconds.                    *)
Orders == SetToSeqs(ToSet(snap.ips)) \cup ({app.order} \ {<<>>})
WithNew(o) == o \o Only(snap.ips, Ips \ ToSet(o))
Rows(o) == Only(WithNew(o), ToSet(snap.ips))

IpMove(d) ==
  On("IpStats") /\ app.drill = None /\ Key([app EXCEPT !.iprow = Nudge(@, d, Len(snap.ips))])
IpEnter ==
  /\ On("IpStats") /\ app.drill = None
  /\ \E o \in Orders :
       LET ip == Get(Rows(o), OrFirst(app.iprow, Rows(o)))
           a == [app EXCEPT !.order = WithNew(o)]
       IN Key(IF ip = None THEN a ELSE [a EXCEPT !.drill = ip, !.drillrow = NoRow])
IpSort == On("IpStats") /\ app.drill = None /\ Key([app EXCEPT !.order = <<>>])
DrillMove(d) ==
  On("IpStats") /\ Drilled
    /\ Key([app EXCEPT !.drillrow = Nudge(@, d, Len(CallsForIp(app.drill)))])
DrillEnter ==
  /\ On("IpStats") /\ Drilled
  /\ LET calls == CallsForIp(app.drill)
         c == Get(calls, OrFirst(app.drillrow, calls))
     IN Key(IF c = None THEN app ELSE OpenDetail(app, c))

-----------------------------------------------------------------------------
(* Drawing.  The Overview first puts the row back on the selected call; a  *)
(* table widget keeps its selection inside the rows it is given.           *)
Anchored(a) ==
  LET visible == Filtered(a, snap)
  IN IF a.selected # None THEN [a EXCEPT !.row = Position(visible, a.selected)]
     ELSE IF a.row # NoRow THEN [a EXCEPT !.selected = Get(visible, a.row)]
     ELSE a

Inside(row, n) == IF n = 0 THEN NoRow ELSE IF row > n - 1 THEN n - 1 ELSE row

DrawOverview ==
  LET a == Anchored(app)
      b == [a EXCEPT !.row = Inside(@, Len(Filtered(a, snap)))]
  IN app' = b /\ lit' = Get(Filtered(b, snap), b.row)

DrawDetail ==
  /\ app' = IF snap.focus = None THEN app
            ELSE [app EXCEPT !.pending = None,
                             !.brow = IF app.picker
                               THEN Inside(@, Len(BLegCandidates(snap.focus, app.bquery))) ELSE @]
  /\ UNCHANGED lit

DrawIps ==
  /\ \E o \in Orders :
       app' = IF app.drill # None
                THEN [app EXCEPT !.drillrow = Inside(@, Len(CallsForIp(app.drill)))]
                ELSE [app EXCEPT !.order = WithNew(o), !.iprow = Inside(@, Len(Rows(o)))]
  /\ UNCHANGED lit

Draw ==
  /\ phase = "draw" /\ phase' = "poll" /\ fresh' = TRUE
  /\ \/ app.page = "Overview" /\ DrawOverview
     \/ app.page = "CallDetail" /\ DrawDetail
     \/ app.page = "IpStats" /\ DrawIps
     \/ app.page \notin {"Overview", "CallDetail", "IpStats"} /\ UNCHANGED <<app, lit>>
  /\ UNCHANGED <<snap, keys, published>>

(* The worker publishes: the calls in display order with their states, the *)
(* addresses, and the detail of the focused call if it is still known; a   *)
(* request to clear was honoured before.                                   *)
Publish ==
  /\ phase # "left" /\ published < MaxPublished
  /\ \E C \in (IF app.clear THEN {{}} ELSE SUBSET Calls) :
     \E order \in SetToSeqs(C), st \in [C -> States] :
       snap' = [calls |-> order, state |-> st,
                focus |-> IF app.focus.primary \in C THEN app.focus.primary ELSE None,
                ips |-> SetToSeq(UNION {IpsOf[c] : c \in C})]
  /\ app' = [app EXCEPT !.clear = FALSE]
  /\ fresh' = FALSE /\ published' = published + 1
  /\ UNCHANGED <<phase, lit, keys>>

Edit ==
  \/ EditEsc \/ EditEnter \/ EditWipe \/ EditBackspace \/ EditQuit
  \/ \E c \in Chars : EditType(c)
  \/ \E d \in Deltas : EditMove(d)
Pick ==
  \/ PickEsc \/ PickBackspace \/ PickEnter
  \/ \E c \in Chars : PickType(c)
  \/ \E d \in Deltas : PickMove(d)
Global ==
  \/ Back \/ Left \/ Slash \/ NextFilter \/ ClearAll
  \/ \E d \in {1, -1} : CyclePage(d)
  \/ \E p \in ToSet(Pages) : GoToPage(p)
PageKey ==
  \/ OverviewWipe \/ OverviewEnter \/ OpenPicker \/ ClearLink
  \/ IpEnter \/ IpSort \/ DrillEnter
  \/ \E d \in Deltas : OverviewMove(d) \/ IpMove(d) \/ DrillMove(d)

Next == Draw \/ Idle \/ Edit \/ Pick \/ Global \/ PageKey \/ Publish

Spec == Init /\ [][Next]_vars

-----------------------------------------------------------------------------

(* The worker is always told the query the list is filtered by, however an *)
(* edit began, went and ended ("published to the pipeline so matching      *)
(* calls are pinned").                                                     *)
PinFollowsQuery == app.pin = Trim(app.query)

(* A linked b-leg is in the hint the worker gets, with another call as the *)
(* primary.                                                                *)
LinkIsPublished ==
  app.linked # None => app.focus.linked = app.linked /\ app.focus.primary # app.linked

(* What the worker was told is what the operator sees: the query of the    *)
(* list and the linked b-leg of the detail page (sync_search_pin,          *)
(* publish_focus).                                                         *)
HintsFollowUi == PinFollowsQuery /\ LinkIsPublished

Opens == OverviewEnter /\ app'.page = "CallDetail"

(* Enter opens the call under the highlight ("the selected call"), as long *)
(* as no snapshot was published since the screen was drawn.                *)
OpensHighlighted == [][Opens /\ fresh /\ lit # None => app'.selected = lit]_vars
=============================================================================
