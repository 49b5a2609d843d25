-------------------------------- MODULE MCUart --------------------------------
(***************************************************************************)
(* Programs of up to two calls of up to three characters, in both styles,  *)
(* as test_program prints a prompt, echoes the answer and clears.          *)
(***************************************************************************)
EXTENDS Uart

MCTexts == {<<>>, <<"a">>, <<"a", "b">>, <<"a", "b", "c">>, <<"b", "b", "a">>}
MCCalls == [text : MCTexts, style : Styles]

MCPrograms == {<<c>> : c \in MCCalls} \cup {<<c, d>> : c \in MCCalls, d \in MCCalls}

===============================================================================
