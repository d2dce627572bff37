SPECIFICATION Spec
CONSTANTS
    Cols = 4
    Kinds = {"empty", "tail", "ascii", "bold", "red", "wide"}
INVARIANTS
    CellsLookLikeThemselves
    TextInPlace
PROPERTIES
    RowIsPainted
CHECK_DEADLOCK FALSE
