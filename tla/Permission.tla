----------------------------- MODULE Permission -----------------------------
(***************************************************************************)
(* What the confirmation manager promises, whatever tokens, histories and   *)
(* retries it is made of: a consequential action of a task is under way     *)
(* only after the user granted that very action to that very task.          *)
(***************************************************************************)
CONSTANTS
  Actions,  \* consequential actions, each of one task
  Nothing   \* not an action: no consequential action is under way

VARIABLES
  granted,  \* the actions the user has approved
  doing     \* the action under way, or Nothing

Init == granted = {} /\ doing = Nothing

Grant(a) == granted' = granted \cup {a} /\ UNCHANGED doing

Begin(a) ==
  /\ doing = Nothing /\ a \in granted
  /\ doing' = a
  /\ UNCHANGED granted

End == doing # Nothing /\ doing' = Nothing /\ UNCHANGED granted

Next == End \/ \E a \in Actions : Grant(a) \/ Begin(a)

Spec == Init /\ [][Next]_<<granted, doing>>
=============================================================================
