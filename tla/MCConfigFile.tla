---------------------------- MODULE MCConfigFile ----------------------------
(* Model-checking instance of ConfigFile: section headers [a] and [a.],    *)
(* the keys x and a.x (so a top-level a.x and x under [a] name the same    *)
(* option), two values, files of up to three lines.                        *)
EXTENDS ConfigFile

MCSectionTexts == {<<"a">>, <<"a", ".">>}
MCKeyTexts == {<<"x">>, <<"a", ".", "x">>}
=============================================================================
