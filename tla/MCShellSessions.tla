--------------------------- MODULE MCShellSessions ---------------------------
(* Small instances of ShellSessions for TLC.                                *)
EXTENDS ShellSessions
=============================================================================
