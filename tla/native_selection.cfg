SPECIFICATION Spec
CONSTANTS
    None = None
    Axes = {x}
    Extent <- Extents
    MinSize = 2
    MinShape = 1
    Reach = 1
    Scale <- TwoForThree
    PageRects <- Rects
    PageShapes <- Shapes
    MaxRevision = 4
INVARIANTS
    DragFollowsPointer
    SelectionOnDisplay
    DraftInSelection
    PageHasTheSelection
PROPERTIES
    ReleaseTakesLastPoint
CHECK_DEADLOCK FALSE
