----------------------------- MODULE MCToolGate -----------------------------
(* A small instance of ToolGate for TLC. *)
EXTENDS ToolGate, TLC

CONSTANTS sql, npx, pdf, view

\* A consequential statement on the project database, a build command of the
\* shell, a manus-* tool whose arguments do not fit its schema, and a view of
\* the browser.
Families == [c \in Calls |-> IF c = npx THEN npx ELSE NoFamily]
=============================================================================
