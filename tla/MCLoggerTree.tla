---------------------------- MODULE MCLoggerTree ----------------------------
(* Model-checking instance of LoggerTree.  The logger names are "", "a",   *)
(* "a.b", "a." and ".": the root, two children of the root ("a" and the   *)
(* empty component ""), a grandchild, and names with empty components     *)
(* ("a." gives the path <<"a", "">>, "." the path <<"", "">> through the  *)
(* child "" of the root); six nodes in all.  Two levels, two logging      *)
(* systems, and one client                                                 *)
(* thread logging while the factory operations run.  Logger::isEnabledFor *)
(* is declared in Logger.h, which is not among the sources; it is taken   *)
(* as the usual threshold, TRACE < WARN: a message is enabled when its    *)
(* level is at least the logger's.                                         *)
EXTENDS LoggerTree

MCLoggerNames == {<<>>, <<"a">>, <<"a", ".", "b">>, <<"a", ".">>,
                  <<".">>}
MCLevels == {"WARN", "TRACE"}
MCSystems == {"console", "other"}
MCIsEnabledFor(m, l) == m = "WARN" \/ l = "TRACE"
=============================================================================
