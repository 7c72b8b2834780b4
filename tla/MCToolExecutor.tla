--------------------------- MODULE MCToolExecutor ---------------------------
\* Two generated files that share a tool, one of them shadowing a built-in one.
EXTENDS ToolExecutor

CONSTANTS f1, f2, a, b

MCFiles == {f1, f2}
MCTools == {a, b}
MCBuiltIn == {a}
MCProvides == [f \in MCFiles |-> IF f = f1 THEN {a, b} ELSE {b}]
=============================================================================
