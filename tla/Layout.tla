-------------------------------- MODULE Layout --------------------------------
(***************************************************************************)
(* The tree of panes of a project (crates/notmux-layout/src/lib.rs): splits *)
(* side by side ("vertical") and one above the other ("horizontal"), groups *)
(* of tabs of which one is shown, and panes at the leaves.  A path is the  *)
(* sequence of child indexes (here from 1) from the root to a node.        *)
(*                                                                         *)
(* Abstracted: a pane is its slot id, whatever it shows; the sizes of the  *)
(* children of a split, which the code keeps beside them.                  *)
(***************************************************************************)
EXTENDS Naturals, FiniteSets, Sequences, SequencesExt

Pane(p)         == [kind |-> "pane", id |-> p]
Split(dir, ts)  == [kind |-> dir, kids |-> ts]
Tabs(ts, i)     == [kind |-> "tabs", kids |-> ts, shown |-> i]

Nothing    == [kind |-> "nothing"]  \* no layout; the node at a path that leads nowhere
Directions == {"vertical", "horizontal"}

Smaller(a, b) == IF a < b THEN a ELSE b

-----------------------------------------------------------------------------
(* Looking up.                                                             *)

RECURSIVE At(_, _)
At(t, path) ==
  IF path = <<>> THEN t
  ELSE IF t.kind \in {"pane", "nothing"} \/ Head(path) \notin DOMAIN t.kids THEN Nothing
  ELSE At(t.kids[Head(path)], Tail(path))

\* The panes of a tree, in tree order.
RECURSIVE PanesOf(_)
PanesOf(t) ==
  CASE t.kind = "nothing" -> <<>>
    [] t.kind = "pane"    -> <<t.id>>
    [] OTHER              -> FlattenSeq([i \in DOMAIN t.kids |-> PanesOf(t.kids[i])])

RECURSIVE PaneSet(_)
PaneSet(t) ==
  CASE t.kind = "nothing" -> {}
    [] t.kind = "pane"    -> {t.id}
    [] OTHER              -> UNION {PaneSet(t.kids[i]) : i \in DOMAIN t.kids}

\* The path of pane p, which is in t.
RECURSIVE PathOf(_, _)
PathOf(t, p) ==
  IF t.kind = "pane" THEN <<>>
  ELSE LET i == SelectInSeq(t.kids, LAMBDA k : p \in PaneSet(k))
       IN  <<i>> \o PathOf(t.kids[i], p)

RECURSIVE GroupPaths(_)
GroupPaths(t) ==
  IF t.kind \in {"pane", "nothing"} THEN {}
  ELSE {<<i>> \o q : <<i, q>> \in UNION {{i} \X GroupPaths(t.kids[i]) : i \in DOMAIN t.kids}}
       \cup (IF t.kind = "tabs" THEN {<<>>} ELSE {})

\* The paths of all nodes.
RECURSIVE NodePaths(_)
NodePaths(t) ==
  {<<>>} \cup IF t.kind \in {"pane", "nothing"} THEN {}
             ELSE {<<i>> \o q : <<i, q>> \in UNION {{i} \X NodePaths(t.kids[i]) : i \in DOMAIN t.kids}}

\* The panes behind no inactive tab.  Nothing keeps the tab to show inside its
\* group; one that is not there shows nothing, or the tab the view falls back to.
RECURSIVE ShownPanes(_, _)
ShownPanes(t, fallback) ==
  CASE t.kind = "nothing" -> {}
    [] t.kind = "pane"    -> {t.id}
    [] t.kind = "tabs"    -> UNION {ShownPanes(t.kids[i], fallback) :
                                      i \in DOMAIN t.kids \cap
                                            (IF t.shown \in DOMAIN t.kids THEN {t.shown} ELSE fallback)}
    [] OTHER              -> UNION {ShownPanes(t.kids[i], fallback) : i \in DOMAIN t.kids}

-----------------------------------------------------------------------------
(* Changing a tree.                                                        *)

\* t with n for the node at path.
RECURSIVE Put(_, _, _)
Put(t, path, n) ==
  IF path = <<>> THEN n
  ELSE [t EXCEPT !.kids = [@ EXCEPT ![Head(path)] = Put(@, Tail(path), n)]]

\* remove_at_path.  A container left with one child becomes that child.
TakenOut(t, path) ==
  LET parent == At(t, Front(path))
      kids   == RemoveAt(parent.kids, Last(path))
  IN  Put(t, Front(path),
          IF Len(kids) = 1 THEN kids[1]
          ELSE IF parent.kind = "tabs" THEN Tabs(kids, Smaller(parent.shown, Len(kids)))
          ELSE Split(parent.kind, kids))

\* The children of a child of the same kind take its place.  A tab to show that
\* is not there stays so, but becomes the first where a child is a group too.
Inlined(kind, kids, shown) ==
  LET in(k)  == IF k.kind = kind THEN k.kids ELSE <<k>>
      before == FlattenSeq([i \in 1..(shown - 1) |-> in(kids[i])])
      all    == FlattenSeq([i \in DOMAIN kids |-> in(kids[i])])
      inner  == IF kids[shown].kind = "tabs"
                THEN Smaller(kids[shown].shown, Len(kids[shown].kids)) ELSE 1
  IN  CASE kind # "tabs"            -> Split(kind, all)
        [] shown \in DOMAIN kids    -> Tabs(all, Len(before) + inner)
        [] Len(all) = Len(kids)     -> Tabs(kids, shown)
        [] OTHER                    -> Tabs(all, 1)

RECURSIVE Normal(_)
Normal(t) ==
  IF t.kind \in {"pane", "nothing"} THEN t
  ELSE LET kids == [i \in DOMAIN t.kids |-> Normal(t.kids[i])]
       IN  IF Len(kids) = 1 THEN kids[1]
           ELSE Inlined(t.kind, kids, IF t.kind = "tabs" THEN t.shown ELSE 1)

\* Only the panes of keep; Nothing when none is left.
RECURSIVE Filtered(_, _)
Filtered(t, keep) ==
  IF t.kind \in {"pane", "nothing"} THEN (IF PaneSet(t) \subseteq keep THEN t ELSE Nothing)
  ELSE LET left(n) == SelectSeq([i \in 1..n |-> Filtered(t.kids[i], keep)],
                                LAMBDA k : k # Nothing)
           kids    == left(Len(t.kids))
       IN  CASE Len(kids) = 0    -> Nothing
             [] Len(kids) = 1    -> kids[1]
             [] t.kind = "tabs"  -> LET last == left(Smaller(t.shown, Len(t.kids)))
                                    IN  Tabs(kids, IF last = <<>> THEN 1 ELSE Len(last))
             [] OTHER            -> Split(t.kind, kids)

\* The groups on the path show what leads to its end.
RECURSIVE Activated(_, _)
Activated(t, path) ==
  IF path = <<>> \/ t.kind \in {"pane", "nothing"} THEN t
  ELSE LET kids == [t.kids EXCEPT ![Head(path)] = Activated(@, Tail(path))]
       IN  IF t.kind = "tabs" THEN Tabs(kids, Head(path)) ELSE Split(t.kind, kids)

-----------------------------------------------------------------------------
(* Adding a pane: at the right of everything, as the next cell of the grid, *)
(* beside a pane, as a tab of a pane, dropped on a pane.                   *)

Appended(t, n) ==
  IF t.kind = "vertical" THEN Split("vertical", Append(t.kids, n))
  ELSE Split("vertical", <<t, n>>)

GridAppended(t, n, columns) ==
  CASE t.kind = "nothing"  -> n
    [] t.kind = "vertical" -> IF Len(t.kids) < columns THEN Split("vertical", Append(t.kids, n))
                              ELSE Split("horizontal", <<t, n>>)
    [] t.kind = "horizontal" ->
         LET row == Last(t.kids) IN
         IF row.kind = "vertical" /\ Len(row.kids) < columns
         THEN Split("horizontal", Front(t.kids) \o <<Split("vertical", Append(row.kids, n))>>)
         ELSE IF row.kind \in Directions THEN Split("horizontal", Append(t.kids, n))
         ELSE Split("horizontal", Front(t.kids) \o <<Split("vertical", <<row, n>>)>>)
    [] OTHER -> Split("vertical", <<t, n>>)

BesidePane(t, anchor, n, dir) ==
  LET path == PathOf(t, anchor) IN Put(t, path, Split(dir, <<At(t, path), n>>))

TabOfNode(t, path, n) ==
  LET group == At(t, Front(path))
  IN  IF path # <<>> /\ group.kind = "tabs"
      THEN Put(t, Front(path), Tabs(Append(group.kids, n), Len(group.kids) + 1))
      ELSE Put(t, path, Tabs(<<At(t, path), n>>, 2))

TabOfPane(t, anchor, n) == TabOfNode(t, PathOf(t, anchor), n)

Zones == {"top", "bottom", "left", "right", "center"}

DroppedOn(t, path, n, zone) ==
  LET group  == At(t, Front(path))
      target == At(t, path)
  IN  IF zone = "center" /\ path # <<>> /\ group.kind = "tabs"
      THEN Put(t, Front(path), Tabs(InsertAt(group.kids, Last(path) + 1, n), Last(path) + 1))
      ELSE Put(t, path, CASE zone = "top"    -> Split("horizontal", <<n, target>>)
                          [] zone = "bottom" -> Split("horizontal", <<target, n>>)
                          [] zone = "left"   -> Split("vertical", <<n, target>>)
                          [] zone = "right"  -> Split("vertical", <<target, n>>)
                          [] zone = "center" -> Tabs(<<target, n>>, 2))

-----------------------------------------------------------------------------
\* No container of fewer than two children.
RECURSIVE Wellformed(_)
Wellformed(t) ==
  t.kind \in {"pane", "nothing"} \/
    /\ Len(t.kids) > 1
    /\ \A i \in DOMAIN t.kids : t.kids[i].kind # "nothing" /\ Wellformed(t.kids[i])

\* No pane is at two places.
HoldsOnce(t) == Len(PanesOf(t)) = Cardinality(PaneSet(t))

\* Every group has the tab it is to show.
RECURSIVE ShowsTabs(_)
ShowsTabs(t) ==
  t.kind \in {"pane", "nothing"} \/
    /\ t.kind = "tabs" => t.shown \in DOMAIN t.kids
    /\ \A i \in DOMAIN t.kids : ShowsTabs(t.kids[i])

=============================================================================
