------------------------------ MODULE MCFrames ------------------------------
(***************************************************************************)
(* Frames on a window of two rows, with a line of history, an atlas of two *)
(* glyphs beside the blank and budgets of one.                             *)
(***************************************************************************)
EXTENDS Frames

(* Wrong rows do not stay: once the changes and the failures end, the blink *)
(* of the cursor, which marks all rows, brings the picture of the terminal  *)
(* into the window for good, whoever draws (the search bar excepted).       *)
PictureSettles == <>[](view.search \/ (window.rows = Display))
=============================================================================
