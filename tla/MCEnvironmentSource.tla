------------------------ MODULE MCEnvironmentSource ------------------------
(* Names over the alphabet R, A, a, _ with the prefix R_: a variable equal *)
(* to the prefix, two that differ only in case, one with two components   *)
(* and one without the prefix.                                             *)
EXTENDS EnvironmentSource

MCPrefix == <<"R", "_">>

MCNames == {<<"R", "_">>, <<"R", "_", "A">>, <<"R", "_", "a">>,
            <<"R", "_", "A", "_", "a">>, <<"A", "_">>}

MCToLower == [c \in {"R", "A", "a", "_"} |->
                 IF c = "R" THEN "r" ELSE IF c = "A" THEN "a" ELSE c]
=============================================================================
