----------------------- MODULE MCViewportsLayoutModel -----------------------
(***************************************************************************)
(* ViewportsLayoutModel for TLC: a row, a tall grid, a wide one and a      *)
(* square one that holds four viewports of four cells, or one of nine.     *)
(***************************************************************************)
EXTENDS ViewportsLayoutModel

GridSizes ==
    {[columns |-> 2, rows |-> 1], [columns |-> 2, rows |-> 3], [columns |-> 3, rows |-> 2],
     [columns |-> 4, rows |-> 4]}
=============================================================================
