--------------------------- MODULE MCCitedContext ---------------------------
(***************************************************************************)
(* CitedContext on two files of the same name in different directories,    *)
(* with empty lines in the middle and at the end.                          *)
(***************************************************************************)
EXTENDS CitedContext, TLC

SourceDef == (<<"m">> :> <<2, 0, 1, 0, 3>>) @@ (<<"d", "m">> :> <<1, 1, 0>>)
CitedDef == [path : {<<"m">>, <<"d", "m">>}, start : {1, 2, 3}, end : {1, 2, 3, 5}]
=============================================================================
