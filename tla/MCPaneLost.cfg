SPECIFICATION Spec
CONSTANTS
  Ids = {p1, p2, p3}
  DropZones = {"left", "bottom", "center"}
  Columns = 2
CONSTRAINT WithinEdge
SYMMETRY Symmetry
PROPERTY CloseTakesItsPane
