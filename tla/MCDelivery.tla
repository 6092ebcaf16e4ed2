----------------------------- MODULE MCDelivery -----------------------------
(* Small instances of Delivery for TLC: a file the tools write, a document  *)
(* only the shell writes, an archive, the bundle, and a file of another     *)
(* session.                                                                 *)
EXTENDS Delivery
CONSTANTS c, d, z, b, x
=============================================================================
