----------------------------- MODULE MCChatFeed -----------------------------
(* One tab on a session that other tabs write to as well.                   *)
EXTENDS ChatFeed

CONSTANT tab

MCPages == {tab}
=============================================================================
