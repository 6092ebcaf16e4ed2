------------------------- MODULE MCSandboxLifecycle -------------------------
(* Small instances of SandboxLifecycle for TLC. *)
EXTENDS SandboxLifecycle

CONSTANTS warm, t1, x1, nobody
=============================================================================
