------------------------------ MODULE MCTerminal ------------------------------
(***************************************************************************)
(* A small terminal, with a prompt, a line feed and text up to the end of  *)
(* the screen, and the image program with orderly and disorderly vectors, *)
(* and memory behind them that is drawn on the screen, below it and left   *)
(* of it.                                                                  *)
(***************************************************************************)
EXTENDS Terminal

CONSTANTS a, silent, shade

MCPrintable == {a, silent, shade}
MCSilent    == {silent}
MCOutputs   == {<<>>, <<a>>, <<a, Newline>>, <<Newline, a, a>>}

Last == Width * Height - 1
MCVectors ==
  { [k \in 1 .. Last + 1 |-> Last + 1 - k],
    [k \in 1 .. Last + 1 |-> (5 * k) % (Last + 1)],
    [k \in 1 .. Last + 1 |-> (k * k) % (Last + 1)] }
MCRests == {<<2, -1>>, <<2 * Last, 1, -Width>>}

===============================================================================
