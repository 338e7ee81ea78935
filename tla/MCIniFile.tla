------------------------------ MODULE MCIniFile ------------------------------
(* Names and values for TLC: blanks, quotes, comment signs, "=" and bytes   *)
(* from 0x80 on in the places where they matter.                            *)
EXTENDS IniFile

SmallNames == {<<>>, <<"k">>, <<"k", " ", "l">>}
SmallValues ==
    {<<>>, <<"v">>, <<"v", " ", "w">>, <<"v", "=", "]">>, <<" ", "v">>, <<"#">>, <<"v", "é", "w">>,
     <<"é">>, <<"'">>, <<"\"">>, <<"w", "'">>}
=============================================================================
