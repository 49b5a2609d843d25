----------------------------- MODULE MCLineInput -----------------------------
(***************************************************************************)
(* Lines of up to two characters out of two, and one key that add ignores. *)
(***************************************************************************)
EXTENDS LineInput

CONSTANTS a, b, tab

MCPrintable == {a, b}
MCIgnored   == {tab}

===============================================================================
