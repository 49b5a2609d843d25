------------------------------- MODULE MCScreen -------------------------------
(***************************************************************************)
(* The character screen on a grid of three columns and two rows, wider     *)
(* than high as the 40 x 30 screen of the code is, with one printable      *)
(* character and, in memory that nothing has cleared, only empty cells.    *)
(***************************************************************************)
EXTENDS Screen

CONSTANT a

MCPrintable == {a}
MCRamCells  == {Blank}

===============================================================================
