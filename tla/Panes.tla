--------------------------------- MODULE Panes ---------------------------------
(***************************************************************************)
(* The panes of one project and how they are arranged                      *)
(* (crates/notmux-workspace/src/actions: layout.rs, pin.rs, project.rs,    *)
(* terminal.rs; state.rs; src/workspace/actions/execute.rs).               *)
(*                                                                         *)
(* A project has two trees: its layout, and, while some of its panes are   *)
(* pinned, the arrangement those have in the pinned view.  A request names *)
(* a pane or a path; a path is read in the tree the current view shows.    *)
(* Everything runs on the UI thread, so a request is one step.  Requests   *)
(* come from clients too, whose paths, indexes and panes may be out of     *)
(* date: no action asks for more than the code looks at.                   *)
(*                                                                         *)
(* A pane is bare until it has a terminal: a request of a client creates   *)
(* the missing ones, one of the UI leaves them to the next frame, and      *)
(* loading without a session backend takes them all away.                  *)
(*                                                                         *)
(* Abstracted: one project; which terminal a pane has; focus, which        *)
(* chooses no step here but the pane an entry of the pinned view shows;    *)
(* minimised and detached panes; fullscreen; names.  A pane whose agent    *)
(* was interrupted never gets a terminal again: it is a pane that stays    *)
(* bare for good.  Editors and browsers, placed by their own rules, are    *)
(* left out.                                                               *)
(*                                                                         *)
(* A definition commented "Faulty" is a plausible wrong version of the one *)
(* after it; nothing uses it but the runs that show which property it      *)
(* breaks.                                                                 *)
(***************************************************************************)
EXTENDS Layout

CONSTANTS
  Ids,        \* slot ids; bound: as many panes at a time
  DropZones,  \* the zones a pane may be dropped on
  Columns     \* GRID_MAX_COLS

ASSUME PanesAssumption ==
  Ids # {} /\ DropZones \subseteq Zones /\ Columns \in Nat \ {0}

VARIABLES
  layout,     \* the layout of the project
  pins,       \* pinned_slots
  pinned,     \* pinned_layout
  pinnedView, \* pinned_view_active
  bare        \* the panes of the layout whose terminal_id is None

vars == <<layout, pins, pinned, pinnedView, bare>>

Init ==
  /\ \E p \in Ids : layout = Pane(p) /\ bare = {p}
  /\ pins = {} /\ pinned = Nothing /\ pinnedView = FALSE

-----------------------------------------------------------------------------
(* The two trees.                                                          *)

UsesPinned == pinnedView /\ pinned # Nothing
View       == IF UsesPinned THEN pinned ELSE layout

\* The path, in the layout, of the pane at a path of the view; none when the
\* view has no pane there.
MainPaths(path) ==
  IF ~UsesPinned THEN {path}
  ELSE {PathOf(layout, p) : p \in {q \in PaneSet(layout) : At(pinned, path) = Pane(q)}}

\* Stale panes leave the arrangement one by one; Nothing when it held no other.
RECURSIVE Pruned(_, _)
Pruned(t, keep) ==
  LET stale == SelectSeq(PanesOf(t), LAMBDA p : p \notin keep)
  IN  IF stale = <<>> THEN t
      ELSE IF PathOf(t, Head(stale)) = <<>> THEN Nothing
      ELSE Pruned(TakenOut(t, PathOf(t, Head(stale))), keep)

\* The panes of S at the end of the tree, in any order: that of the pins, which
\* the model does not keep.
WithAppended(t, S) ==
  {Normal(FoldLeft(LAMBDA u, p : Appended(u, Pane(p)), t, new)) : new \in SetToSeqs(S)}

\* Faulty: the arrangement is made anew from the layout each time.
SyncedAnew(main, marked, tree) == {Filtered(main, marked \cap PaneSet(main))}

\* Faulty: panes that lost their pin are kept.
SyncedUnpruned(main, marked, tree) ==
  LET live == marked \cap PaneSet(main)
  IN  IF live = {} THEN {Nothing}
      ELSE IF tree = Nothing THEN {Filtered(main, live)}
      ELSE WithAppended(tree, live \ PaneSet(tree))

\* Faulty: a pin is appended without a look at the arrangement, which an
\* action may have given its place already.
SyncedTwice(main, marked, tree) ==
  LET live == marked \cap PaneSet(main)
      left == Pruned(tree, live)
  IN  IF live = {} THEN {Nothing}
      ELSE IF left = Nothing THEN {Filtered(main, live)}
      ELSE WithAppended(left, live \ pins)

\* sync_pinned_layout: the arrangement follows the pins that are in the layout.
Synced(main, marked, tree) ==
  LET live == marked \cap PaneSet(main)
      left == Pruned(tree, live)
  IN  IF live = {} THEN {Nothing}
      ELSE IF left = Nothing THEN {Filtered(main, live)}
      ELSE WithAppended(left, live \ PaneSet(left))

\* notify_data, after a request left these trees and pins.
Commit(main, marked, tree) ==
  /\ layout' = main
  /\ pins'   = marked
  /\ pinned' \in Synced(main, marked, tree)

\* A change of the tree the view shows.
CommitView(t) ==
  IF UsesPinned THEN Commit(layout, pins, t) ELSE Commit(t, pins, pinned)

Same == UNCHANGED <<pinnedView, bare>>

\* A request that ends early leaves the tree as it is by then, and no update.
LeaveView(t) ==
  /\ IF UsesPinned THEN pinned' = t /\ UNCHANGED layout
                   ELSE layout' = t /\ UNCHANGED pinned
  /\ pins' = pins
  /\ bare' = bare \cap PaneSet(layout')

\* Panes a request may add: one that nothing refers to.
Fresh == Ids \ (PaneSet(layout) \cup PaneSet(pinned) \cup pins)

-----------------------------------------------------------------------------
(* New panes.  In the pinned view a new pane is pinned too.                *)

\* The panes that a terminal for each pane of S reaches: the path is one of the
\* layout and is read as one of the view.
Supplied(S) ==
  IF pinned' # Nothing /\ pinnedView
  THEN {q \in Ids : \E p \in S : At(pinned', PathOf(layout', p)) = Pane(q)}
  ELSE S

\* A client's request then creates the missing terminals, unless that fails.
TerminalsFor(p) ==
  /\ pinnedView' = pinnedView
  /\ bare' \in {bare \cup {p}, (bare \cup {p}) \ Supplied(bare \cup {p})}

AddTerminal ==
  \E p \in Fresh :
    /\ Commit(GridAppended(layout, Pane(p), Columns), pins, pinned)
    /\ TerminalsFor(p)

\* A pane is split with what shares its tab group.
SplitTarget(path) ==
  IF path # <<>> /\ At(layout, Front(path)).kind = "tabs" THEN Front(path) ELSE path

WithSplit(path, dir, p) ==
  LET at == SplitTarget(path)
  IN  Normal(Put(layout, at, Split(dir, <<At(layout, at), Pane(p)>>)))

\* What is taken for the new pane: the first one without a terminal.
TakenForNew(t, p) == Head(SelectSeq(PanesOf(t), LAMBDA q : q \in bare \cup {p}))

SplitTerminal(path, dir) ==
  \E main \in MainPaths(path), p \in Fresh :
    LET t   == WithSplit(main, dir, p)
        new == TakenForNew(t, p)
    IN  /\ At(layout, SplitTarget(main)) # Nothing
        /\ IF UsesPinned
           THEN Commit(t, pins \cup {new},
                       Normal(BesidePane(pinned, At(layout, main).id, Pane(new), dir)))
           ELSE Commit(t, IF pinnedView THEN pins \cup {new} ELSE pins, pinned)
        /\ TerminalsFor(p)

\* The new tab joins the group of the node at path, or makes one with it; in
\* the pinned arrangement there has to be a pane at path.
AddTab(path) ==
  LET anchor == At(View, path) IN
  /\ anchor # Nothing
  /\ UsesPinned => anchor.kind = "pane"
  /\ \E p \in Fresh :
       /\ IF UsesPinned
          THEN Commit(Normal(TabOfPane(layout, anchor.id, Pane(p))), pins \cup {p},
                      Normal(TabOfPane(pinned, anchor.id, Pane(p))))
          ELSE Commit(TabOfNode(layout, path, Pane(p)),
                      IF pinnedView THEN pins \cup {p} ELSE pins, pinned)
       /\ TerminalsFor(p)

AddTabToGroup(path) ==
  LET group    == At(View, path)
      anchor   == Head(PanesOf(group.kids[group.shown]))
      added(p) == Tabs(Append(group.kids, Pane(p)), Len(group.kids) + 1)
  IN
  /\ UsesPinned => group.shown \in DOMAIN group.kids
  /\ \E p \in Fresh :
       /\ IF UsesPinned
          THEN Commit(Normal(TabOfPane(layout, anchor, Pane(p))), pins \cup {p},
                      Normal(TabOfPane(pinned, anchor, Pane(p))))
          ELSE Commit(Put(layout, path, added(p)),
                      IF pinnedView THEN pins \cup {p} ELSE pins, pinned)
       /\ TerminalsFor(p)

-----------------------------------------------------------------------------
(* A pane is closed.                                                       *)

\* Faulty: a container left with one child stays.
WithoutChildUncollapsed(t, path) ==
  LET parent == At(t, Front(path))
      kids   == RemoveAt(parent.kids, Last(path))
  IN  IF path = <<>> THEN Nothing
      ELSE Put(t, Front(path),
               IF parent.kind = "tabs" THEN Tabs(kids, Smaller(parent.shown, Len(kids)))
               ELSE Split(parent.kind, kids))

\* The layout without the child at path: its own removal, which keeps the
\* shown tab, and no normalisation.
WithoutChild(t, path) ==
  LET parent == At(t, Front(path))
      kids   == RemoveAt(parent.kids, Last(path))
      shown  == IF parent.shown > Len(kids) THEN Len(kids)
                ELSE IF parent.shown > Last(path) THEN parent.shown - 1 ELSE parent.shown
  IN  IF path = <<>> THEN Nothing
      ELSE Put(t, Front(path),
               IF Len(kids) = 1 THEN kids[1]
               ELSE IF parent.kind = "tabs" THEN Tabs(kids, shown)
               ELSE Split(parent.kind, kids))

\* The request names the pane, but its path in the layout is then taken for a
\* path of the view.  (The terminal of pane p is killed in every case.)
CloseTerminal(p) ==
  /\ p \in PaneSet(layout)
  /\ \E main \in MainPaths(PathOf(layout, p)) :
       LET t == WithoutChild(layout, main) IN /\ Commit(t, pins \cap PaneSet(t), pinned)
                                              /\ bare' = bare \cap PaneSet(t)
  /\ UNCHANGED pinnedView

-----------------------------------------------------------------------------
(* Panes and tabs are moved, in the tree the view shows.                   *)

\* The index is stored as it is.
SetActiveTab(path, i) ==
  LET group == At(View, path) IN
  /\ CommitView(Put(View, path, Tabs(group.kids, i)))
  /\ Same

\* Faulty: only the moved tab is followed.
ReorderedFollowingMoved(group, from, to) ==
  Tabs(InsertAt(RemoveAt(group.kids, from), to, group.kids[from]),
       IF group.shown = from THEN to ELSE group.shown)

Reordered(group, from, to) ==
  LET kids == InsertAt(RemoveAt(group.kids, from), to, group.kids[from])
  IN  Tabs(kids, CASE group.shown = from                       -> to
                   [] from < group.shown /\ to >= group.shown  -> group.shown - 1
                   [] from > group.shown /\ to <= group.shown  -> group.shown + 1
                   [] OTHER                                    -> group.shown)

MoveTab(path, from, to) ==
  LET group == At(View, path) IN
  /\ from # to
  /\ CommitView(Put(View, path, Reordered(group, from, to)))
  /\ Same

\* A pane that is moved is taken out of a tree of several; panes without a
\* terminal are not counted.
PaneIds(t) == SelectSeq(PanesOf(t), LAMBDA q : q \notin bare)

Movable(p) == p \in PaneSet(View) /\ PathOf(View, p) # <<>>
Without(p) == TakenOut(View, PathOf(View, p))

\* Faulty: the place to drop is looked up before the pane is taken out.
MovePaneToOldPath(p, target, zone) ==
  /\ Movable(p) /\ p # target /\ Len(PaneIds(View)) > 1
  /\ IF target \notin PaneSet(View) \/ At(Without(p), PathOf(View, target)) = Nothing
     THEN LeaveView(Without(p))
     ELSE CommitView(Normal(DroppedOn(Without(p), PathOf(View, target), Pane(p), zone)))
          /\ UNCHANGED bare
  /\ UNCHANGED pinnedView

\* The pane is out before the one it is dropped on is looked up.
MovePane(p, target, zone) ==
  LET rest == Without(p) IN
  /\ Movable(p) /\ p # target /\ Len(PaneIds(View)) > 1
  /\ UNCHANGED pinnedView
  /\ IF target \in PaneSet(rest)
     THEN CommitView(Normal(DroppedOn(rest, PathOf(rest, target), Pane(p), zone)))
          /\ UNCHANGED bare
     ELSE LeaveView(rest)

\* The node at the path is found again, once p is out, by a pane of it: its
\* group is the one that pane is in then, if it is in one.
References(path, p) ==
  LET left == SelectSeq(PaneIds(At(View, path)), LAMBDA q : q # p)
  IN  IF left = <<>> THEN {} ELSE {Head(left)}

InGroup(t, q) == PathOf(t, q) # <<>> /\ At(t, Front(PathOf(t, q))).kind = "tabs"

\* The place among the tabs is any; one past the end is the end.
MoveToGroup(p, path) ==
  /\ Movable(p) /\ Front(PathOf(View, p)) # path
  /\ UNCHANGED pinnedView
  /\ \E q \in References(path, p) :
       LET rest  == Without(p)
           at    == Front(PathOf(rest, q))
           group == At(rest, at)
       IN  IF InGroup(rest, q)
           THEN /\ \E i \in 1..(Len(group.kids) + 1) :
                     CommitView(Normal(Put(rest, at, Tabs(InsertAt(group.kids, i, Pane(p)), i))))
                /\ UNCHANGED bare
           ELSE LeaveView(rest)

-----------------------------------------------------------------------------
(* Pins, views and a restart.                                              *)

\* Unpinning the last pane leaves the pinned view.
SetPins(marked) ==
  /\ Commit(layout, marked, pinned)
  /\ pinnedView' = (pinnedView /\ (marked \cap PaneSet(layout) # {} \/ marked \ pins # {}))
  /\ UNCHANGED bare

TogglePin(p) ==
  /\ p \in PaneSet(layout)
  /\ SetPins(IF p \in pins THEN pins \ {p} ELSE pins \cup {p})

UnpinAll == pins # {} /\ SetPins({})

\* A pane is shown: the one focused before if it is pinned, or the first.
EnterPinnedView ==
  /\ pins \cap PaneSet(layout) # {}
  /\ pinnedView' = TRUE
  /\ \E p \in PaneSet(pinned) : Commit(layout, pins, Activated(pinned, PathOf(pinned, p)))
  /\ UNCHANGED bare

LeavePinnedView ==
  /\ pinnedView /\ pinnedView' = FALSE
  /\ Commit(layout, pins, pinned)
  /\ UNCHANGED bare

ShowPane(p) ==
  /\ p \in PaneSet(View)
  /\ CommitView(Activated(View, PathOf(View, p)))
  /\ Same

\* A frame gives the panes in sight their terminals.  The pinned view falls back
\* to the first tab, and shows nothing of a project without pinned panes.
Render ==
  LET seen == IF pinnedView THEN ShownPanes(pinned, {1}) ELSE ShownPanes(layout, {})
  IN  /\ seen \cap bare # {}
      /\ bare' = bare \ seen
      /\ Commit(layout, pins, pinned)
      /\ UNCHANGED pinnedView

\* Loading a saved workspace normalises both trees and, where no session
\* backend kept the terminals, forgets them.
Reopen ==
  /\ Commit(Normal(layout), pins, Normal(pinned))
  /\ bare' \in {bare, PaneSet(layout)}
  /\ UNCHANGED pinnedView

-----------------------------------------------------------------------------
\* A path comes from the view, or from a client that knows the layout only.
\* Bound: a pane is split, or a tab added to it, at the path of a pane, which is
\* where the views do so; a move takes any node of the view for its group.
Paths == {PathOf(t, p) : <<t, p>> \in {View} \X PaneSet(View) \cup {layout} \X PaneSet(layout)}

\* The indexes of the tabs of a group, and one that is not there any more.
TabIndexes(group) == 1..(Len(group.kids) + 1)

Request ==
  \/ AddTerminal
  \/ \E path \in Paths : AddTab(path) \/ \E dir \in Directions : SplitTerminal(path, dir)
  \/ \E p \in Ids, path \in NodePaths(View) : MoveToGroup(p, path)
  \/ \E path \in GroupPaths(View) :
       \/ AddTabToGroup(path)
       \/ \E i \in TabIndexes(At(View, path)) : SetActiveTab(path, i)
       \/ \E i, j \in DOMAIN At(View, path).kids : MoveTab(path, i, j)
  \/ \E p \in Ids : CloseTerminal(p) \/ ShowPane(p)
  \/ \E p, q \in Ids, zone \in DropZones : MovePane(p, q, zone)

ChangeOfView ==
  \/ \E p \in Ids : TogglePin(p)
  \/ UnpinAll \/ EnterPinnedView \/ LeavePinnedView

Next == Request \/ ChangeOfView \/ Render \/ Reopen

Spec == Init /\ [][Next]_vars

-----------------------------------------------------------------------------
\* A tree has no container that should have collapsed, and only panes of the
\* layout lack a terminal.
TypeOK ==
  /\ PaneSet(layout) \subseteq Ids /\ PaneSet(pinned) \subseteq Ids
  /\ Wellformed(layout) /\ Wellformed(pinned)
  /\ pins \subseteq Ids
  /\ pinnedView \in BOOLEAN
  /\ bare \subseteq PaneSet(layout)

\* A split in the pinned view that takes a pane for the new one which the
\* arrangement has already: it places that pane a second time.
PlacesAgain ==
  /\ UsesPinned
  /\ \E path \in Paths, dir \in Directions, p \in PaneSet(layout') \ PaneSet(layout) :
       \E main \in MainPaths(path) :
         /\ layout' = WithSplit(main, dir, p)
         /\ TakenForNew(layout', p) \in PaneSet(pinned)

\* Whatever is split, moved, pinned, closed and reloaded, the layout holds no
\* pane twice; the arrangement comes to do so by such a split only.
NoPaneTwice ==
  [][HoldsOnce(layout') /\ (HoldsOnce(pinned) /\ ~HoldsOnce(pinned') => PlacesAgain)]_vars

\* A move whose pane is out when its target turns out to be none: a pane that is
\* not in the view, a node that is no tab group, or no more once the pane is out.
LostMove(p) ==
  \/ \E q \in Ids \ PaneSet(View), zone \in DropZones : MovePane(p, q, zone)
  \/ \E path \in NodePaths(View) :
       /\ MoveToGroup(p, path)
       /\ \A q \in References(path, p) : ~InGroup(Without(p), q)

\* After every request (but such a move, which ends before the update) the
\* pinned view shows the pinned panes, all of them and nothing else.
PinnedPanesArranged ==
  [][PaneSet(pinned') # pins' \cap PaneSet(layout') => \E p \in Ids : LostMove(p)]_vars

\* Closing a pane, splitting one, reordering tabs or reloading hides no pane
\* that was in sight, and no request but one for a tab that is not there leaves
\* a group without a tab to show.
InSightStays ==
  [][/\ (ShownPanes(layout, {}) \cap PaneSet(layout')) \ ShownPanes(layout', {}) # {}
        => ~ (\/ \E p \in Ids : CloseTerminal(p)
              \/ \E path \in Paths, dir \in Directions : SplitTerminal(path, dir)
              \/ \E path \in GroupPaths(View) :
                   \E i, j \in DOMAIN At(View, path).kids : MoveTab(path, i, j)
              \/ Reopen)
     /\ ShowsTabs(layout) /\ ShowsTabs(pinned) /\ ~(ShowsTabs(layout') /\ ShowsTabs(pinned'))
        => \E path \in GroupPaths(View) :
             SetActiveTab(path, Len(At(View, path).kids) + 1)]_vars

\* A request to close a pane takes no other one out of the layout.
CloseTakesItsPane ==
  [][\A p \in Ids : CloseTerminal(p) => PaneSet(layout) \ PaneSet(layout') \subseteq {p}]_vars

\* A pane leaves the layout by being closed, and in two more ways: a close in the
\* pinned view may take another pane with it, and a move that is lost loses the
\* pane it moves.
PaneLeavesKnowingly ==
  [][\A p \in PaneSet(layout) \ PaneSet(layout') :
       \/ \E q \in Ids : CloseTerminal(q) /\ (p = q \/ UsesPinned)
       \/ LostMove(p)]_vars

\* The arrangement is the pinned view's own: what happens to the layout while
\* the project is shown normally does not reorder it.
ArrangementKept ==
  [][~pinnedView =>
       LET both == PaneSet(pinned) \cap PaneSet(pinned')
           kept(t) == SelectSeq(PanesOf(t), LAMBDA p : p \in both)
       IN  kept(pinned) = kept(pinned')]_vars

=============================================================================
