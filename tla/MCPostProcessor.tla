--------------------------- MODULE MCPostProcessor ---------------------------
(* Values of the constants of PostProcessor for model checking. *)
EXTENDS PostProcessor

TwoFrames == 1..2
OneSession == 1..1

AllPictures == [capture : BOOLEAN, reproc : BOOLEAN]
=============================================================================
