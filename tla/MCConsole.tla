------------------------------ MODULE MCConsole ------------------------------
(***************************************************************************)
(* A screen of three columns and two rows and two printable characters.    *)
(***************************************************************************)
EXTENDS Console

CONSTANTS a, b

MCPrintable == {a, b}
MCPrinted   == {a, Newline}
MCTyped     == {b, Backspace}

===============================================================================
