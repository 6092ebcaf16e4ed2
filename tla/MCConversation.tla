--------------------------- MODULE MCConversation ---------------------------
(* A small instance of Conversation for TLC. *)
EXTENDS Conversation

\* No call, one call, a question, a question behind another call
PlainReplies == {<<>>, <<"tool">>, <<"ask">>, <<"tool", "ask">>}

\* The model may put a question first and go on.
MixedReplies == PlainReplies \cup {<<"ask", "tool">>}
=============================================================================
