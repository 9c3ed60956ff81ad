-------------------------------- MODULE MCPanes --------------------------------
(***************************************************************************)
(* Panes with a few interchangeable panes, in a grid of two columns.  The  *)
(* zones left out differ from those kept by the side of a split only.      *)
(***************************************************************************)
EXTENDS Panes, TLC

Symmetry == Permutations(Ids)

\* A step to the edge is checked, none goes on from there.  Bounds: a pane that
\* is in the arrangement twice (each sync of it may grow); a pane without a
\* terminal while the layout is full or some group has no tab to show.
WithinEdge ==
  /\ HoldsOnce(pinned)
  /\ bare # {} => Len(PanesOf(layout)) < Cardinality(Ids) /\ ShowsTabs(layout) /\ ShowsTabs(pinned)

=============================================================================
