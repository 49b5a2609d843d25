------------------------------- MODULE Tokenizer -------------------------------
(***************************************************************************)
(* The tokenizer of the BASIC interpreter (lib/basic/ubasic/tokenizer.c).  *)
(* A program text is the sequence of its tokens, each a record of its kind *)
(* (the enumeration of tokenizer.h) and of the number or variable it       *)
(* stands for; ptr is the number of the current one.  What the scanner     *)
(* does to characters inside of a token is not represented, but for two    *)
(* things: a number that is too long for the scanner is an ERROR with the  *)
(* value atoi gives it (a character it does not know is one with value 0), *)
(* and a string may be without its closing quote.                          *)
(*                                                                         *)
(* Every number leaves the tokenizer through a VARIABLE_TYPE, which is     *)
(* char: on this machine eight bits without a sign.                        *)
(***************************************************************************)
EXTENDS Integers, Sequences

CONSTANT Byte      \* the number of values of a VARIABLE_TYPE, 256

ASSUME ByteAssumption == Byte \in Nat \ {0}

VARIABLES text, ptr

Bytes == 0 .. (Byte - 1)
End   == Len(text) + 1

\* The places of tokens, those behind the end of the text included.
Places == Nat \ {0}

(***************************************************************************)
(* A string whose quote is not closed; there is nothing behind it.  For    *)
(* its end get_next_token runs past the end of the text, to a quote that   *)
(* is somewhere in memory, and whoever passes the token is Outside.  What  *)
(* is to be found there is not known: the end that Token gives for those   *)
(* places stands for it, and Ubasic follows nobody who comes to them.      *)
(***************************************************************************)
UnclosedString == [kind |-> "STRING", value |-> 1]
Unclosed       == text # <<>> /\ text[Len(text)] = UnclosedString
Outside(p)     == Unclosed /\ p > Len(text)

\* tokenizer_token, with the token taken to be at p.
Token(p) == IF p > Len(text) THEN "ENDOFINPUT" ELSE text[p].kind

(***************************************************************************)
(* tokenizer_next, from p.  At the end of the text it stays where it is,   *)
(* and so it does at an error, where the scanner has not advanced.  A      *)
(* remark is skipped together with the end of its line.  (It has one: the  *)
(* terminal ends every line.)                                              *)
(***************************************************************************)
After[p \in Places] ==
  IF Token(p) \in {"ENDOFINPUT", "ERROR"} THEN p
  ELSE IF Token(p + 1) = "REM" THEN After[p + 2]
  ELSE p + 1

(***************************************************************************)
(* tokenizer_num: atoi, which is called at whatever token is the current   *)
(* one, a number that is too long included, skips ends of lines and takes  *)
(* a sign (which is taken to be next to its number).                       *)
(***************************************************************************)
Numbers == {"NUMBER", "ERROR"}

Atoi[p \in Places] ==
  CASE Token(p) \in Numbers -> text[p].value
    [] Token(p) = "CR"     -> Atoi[p + 1]
    [] Token(p) = "PLUS"  /\ Token(p + 1) \in Numbers -> text[p + 1].value
    [] Token(p) = "MINUS" /\ Token(p + 1) \in Numbers -> -text[p + 1].value
    [] OTHER -> 0

Num(p) == Atoi[p] % Byte

\* tokenizer_variable_num, where the token is a variable.
VariableNum(p) == text[p].value

Finished == Token(ptr) = "ENDOFINPUT"

===============================================================================
