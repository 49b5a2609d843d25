-------------------------------- MODULE MCSnake --------------------------------
(***************************************************************************)
(* The game on a field of 3 x 3 cells.                                     *)
(***************************************************************************)
EXTENDS Snake

MCPrintable == {HeadGlyph, BodyGlyph, FoodGlyph, WallGlyph, ScoreGlyph}
MCFirstFood == <<4, 4>>

\* The closed form of DrawAll is the loop of draw_snake and draw_food: one
\* DrawAt after the other, also with a position twice.
ASSUME DrawsOneByOne ==
  LET places == {<<x, y>> : x \in {0, 2, 6}, y \in {0, 3, 6}}
  IN  \A positions \in UNION {[1 .. n -> places] : n \in 0 .. 3} :
        DrawAll(Map, positions, BodyGlyph)
          = FoldLeft(LAMBDA t, p : DrawAt(t, p, BodyGlyph), Map, positions)

===============================================================================
