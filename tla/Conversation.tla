---------------------------- MODULE Conversation ----------------------------
(***************************************************************************)
(* The conversation of one agent of a session with its language model: the  *)
(* memory BaseAgent keeps, saves and rolls back, its tool loop, and what    *)
(* trimming to the context window leaves of it.  Requests to the model go   *)
(* through the ladder of ModelCalls.                                        *)
(*                                                                          *)
(* A message is its kind and, for one of the model, the tool calls it       *)
(* makes; the user's first request is `goal`, also when only its stub is    *)
(* left.  Compaction shortens contents only and is not seen here.           *)
(*                                                                          *)
(* An operator named ...Bug is the next definition with a plausible mistake *)
(* put into it; no specification uses it.                                   *)
(***************************************************************************)
EXTENDS ModelCalls, FiniteSetsExt, SequencesExt

CONSTANTS
  Replies,    \* the tool calls a reply can make: sequences of "tool" and "ask"
  MayLeak,    \* calls may come as raw text, for _salvage_function_calls
  KeepLast,   \* messages drop_older_rounds keeps, 10
  KeepFewer,  \* and the emergency's second cut, 4
  MaxMessages,\* bound: the length at which nothing more is added
  MaxUnsaved  \* bound: saves that fail

ASSUME ConversationConstants ==
  /\ Replies \subseteq Seq({"tool", "ask"}) /\ <<>> \in Replies
  /\ MayLeak \in BOOLEAN
  /\ {KeepLast, KeepFewer, MaxMessages} \subseteq Nat \ {0} /\ MaxUnsaved \in Nat

VARIABLES
  at,      \* idle, ready, trimming, sending, acting or streaming
  mem,     \* the agent's memory, once loaded
  loaded,  \* whether an agent of this process has it
  saved,   \* the memory in the agent's document
  todo,    \* calls of the last reply still to execute
  results, \* how many results the tool loop has collected
  unsaved  \* saves that failed so far

conversation == <<at, mem, loaded, saved, todo, results, unsaved>>
vars == <<conversation, callVars>>

Message(kind, calls) == [kind |-> kind, calls |-> calls]
Kinds == {"system", "summary", "goal", "human", "note", "ai", "tool"}
IsHuman(m) == m.kind \in {"goal", "human", "note"}
Tool == Message("tool", <<>>)
Tools(n) == [i \in 1 .. n |-> Tool]
IndicesOf(s, Test(_)) == {i \in DOMAIN s : Test(s[i])}

-----------------------------------------------------------------------------
(* The memory *)

(* _add_to_memory of a request, an advisory: the first one is the goal. *)
Human(s) == Message(IF IndicesOf(s, IsHuman) = {} THEN "goal" ELSE "human", <<>>)

Opened(s) == IF s = <<>> THEN <<Message("system", <<>>)>> ELSE s

\* A question keeps its call without an answer.
RolledBackBug(s) ==
  IF s = <<>> \/ Last(s).calls = <<>> \/ Head(Last(s).calls) = "ask" THEN s ELSE Front(s)

(* roll_back: a question gets the user's message as its answer, other calls *)
(* are forgotten with their message.                                        *)
RolledBack(s) ==
  IF s = <<>> \/ Last(s).calls = <<>> THEN s
  ELSE IF Head(Last(s).calls) = "ask" THEN Append(s, Tool)
  ELSE Front(s)

(* set_context_summary *)
Summarised(s) ==
  IF Message("summary", <<>>) \in Range(SubSeq(s, 1, Min({4, Len(s)}))) THEN s
  ELSE InsertAt(s, 2, Message("summary", <<>>))

\* Everything before the cut goes.
DroppedBug(s, keep) ==
  LET cuts == {i \in IndicesOf(s, IsHuman) : i > Len(s) - keep}
  IN IF Len(s) <= keep + 2 \/ cuts = {} THEN s
     ELSE <<Head(s), Message("note", <<>>)>> \o SubSeq(s, Min(cuts), Len(s))

(* drop_older_rounds: cut before a request, keep the goal's stub. *)
Dropped(s, keep) ==
  LET humans == IndicesOf(s, IsHuman)
      cuts == {i \in humans : i > Len(s) - keep}
      first == Message(s[Min(humans)].kind, <<>>)
  IN IF Len(s) <= keep + 2 \/ cuts = {} THEN s
     ELSE <<Head(s)>>
          \o (IF Min(humans) < Min(cuts) THEN <<first>> ELSE <<>>)
          \o <<Message("note", <<>>)>>
          \o SubSeq(s, Min(cuts), Len(s))

(* save_memory of s, going on to `next`: saved; too large even when         *)
(* compacted, so kept in the process only; or failed.                       *)
Store(s, next) ==
  /\ mem' = s
  /\ \/ saved' = s /\ at' = next /\ UNCHANGED unsaved
     \/ /\ unsaved < MaxUnsaved /\ unsaved' = unsaved + 1
        /\ at' \in {next, "idle"} /\ UNCHANGED saved

(* After a reduction a failed save is only logged. *)
KeptOrSaved ==
  \/ saved' = mem' /\ UNCHANGED unsaved
  \/ unsaved < MaxUnsaved /\ unsaved' = unsaved + 1 /\ UNCHANGED saved

-----------------------------------------------------------------------------
Init ==
  /\ at = "idle" /\ mem = <<>> /\ loaded = FALSE /\ saved = <<>>
  /\ todo = <<>> /\ results = 0 /\ unsaved = 0
  /\ CallInit

(* The flow starts a run: _ensure_memory, then roll_back. *)
BeginTurn ==
  /\ at = "idle"
  /\ loaded' = TRUE
  /\ LET s == IF loaded THEN mem ELSE saved
     IN IF RolledBack(s) = s THEN mem' = s /\ at' = "ready" /\ UNCHANGED <<saved, unsaved>>
        ELSE Store(RolledBack(s), "ready")
  /\ UNCHANGED <<todo, results, callVars>>

(* execute: a request joins the memory. *)
Request ==
  /\ at = "ready" /\ Len(mem) < MaxMessages
  /\ Store(Append(Opened(mem), Human(mem)), "trimming")
  /\ UNCHANGED <<loaded, todo, results, callVars>>

(* _enforce_context_budget, with or without the model's summary, and the *)
(* first call of ask_with_messages                                       *)
Trim ==
  /\ at = "trimming"
  /\ at' = "sending" /\ Ask("tools")
  /\ \E s \in {mem, Summarised(mem)} : mem' \in {s, Dropped(s, KeepLast)}
  /\ KeptOrSaved
  /\ UNCHANGED <<loaded, todo, results>>

(* The reply joins the memory as it came; leaked calls are salvaged from a *)
(* copy of it.                                                             *)
Reply ==
  /\ at = "sending" /\ Answers
  /\ \E calls \in Replies, leaks \in {MayLeak, FALSE} :
       /\ Store(Append(mem, Message("ai", IF leaks THEN <<>> ELSE calls)),
                IF calls = <<>> THEN "ready" ELSE "acting")
       /\ todo' = IF at' = "acting" THEN calls ELSE <<>>
  /\ UNCHANGED <<loaded, results>>

\* The calls behind a question stay to be executed.
CallEndsBug ==
  /\ at = "acting" /\ todo # <<>>
  /\ at' = (IF Head(todo) = "ask" THEN "idle" ELSE at)
  /\ results' = (IF Head(todo) = "ask" THEN 0 ELSE results + 1)
  /\ UNCHANGED <<mem, loaded, saved, todo, unsaved, callVars>>

(* A call ends; one that asks the user ends the run with a WaitEvent. *)
CallEnds ==
  /\ at = "acting" /\ todo # <<>>
  /\ IF Head(todo) = "ask"
     THEN at' = "idle" /\ todo' = <<>> /\ results' = 0
     ELSE todo' = Tail(todo) /\ results' = results + 1 /\ UNCHANGED at
  /\ UNCHANGED <<mem, loaded, saved, unsaved, callVars>>

(* The results join the memory together, an advisory may follow them. *)
SendResults ==
  /\ at = "acting" /\ todo = <<>> /\ Len(mem) < MaxMessages
  /\ \E advice \in {<<>>, <<Message("human", <<>>)>>} :
       Store(mem \o Tools(results) \o advice, "trimming")
  /\ results' = 0
  /\ UNCHANGED <<loaded, todo, callVars>>

(* compact_memory, between rounds and after a step *)
Compact ==
  /\ at \in {"ready", "acting"} /\ saved # mem
  /\ saved' = mem
  /\ UNCHANGED <<at, mem, loaded, todo, results, unsaved, callVars>>

(* _emergency_context_reduction, or the ladder has had enough *)
TooLong ==
  /\ at = "sending" /\ Overflow
  /\ IF ~CanReduce THEN at' = "idle" /\ UNCHANGED <<mem, saved, unsaved>>
     ELSE /\ mem' \in IF recoveries = 0 THEN {mem}
                      ELSE LET s == Dropped(mem, KeepLast) IN {s, Dropped(s, KeepFewer)}
          /\ KeptOrSaved
          /\ UNCHANGED at
  /\ UNCHANGED <<loaded, todo, results>>

(* Other steps of the ladder; when it raises, the run fails. *)
Retry ==
  /\ at = "sending" /\ (Fails \/ Wakes)
  /\ at' = IF call' = "raised" THEN "idle" ELSE at
  /\ UNCHANGED <<mem, loaded, saved, todo, results, unsaved>>

(* The summary of a run is streamed from a copy of the memory; if that      *)
(* fails, a request for it follows.                                         *)
Summarise ==
  /\ at = "ready" /\ mem # <<>> /\ Ask("stream")
  /\ at' = "streaming"
  /\ UNCHANGED <<mem, loaded, saved, todo, results, unsaved>>
Stream ==
  /\ at = "streaming"
  /\ Answers \/ Streams \/ Breaks \/ Fails \/ Overflow \/ Wakes
  /\ at' = IF call' \in {"answered", "raised"} THEN "ready" ELSE at
  /\ UNCHANGED <<mem, loaded, saved, todo, results, unsaved>>

-----------------------------------------------------------------------------
(* How a run ends *)

(* It is done, or an interjection closes the flow where it yields an event: *)
(* the agent and its memory stay.                                           *)
Leave ==
  /\ at \in {"ready", "acting"}
  /\ at' = "idle" /\ todo' = <<>> /\ results' = 0
  /\ UNCHANGED <<mem, loaded, saved, unsaved, callVars>>

(* STOP, a timeout, a crash, or the end of the task: the agent is gone. *)
Lose ==
  /\ loaded
  /\ at' = "idle" /\ loaded' = FALSE /\ mem' = <<>>
  /\ todo' = <<>> /\ results' = 0
  /\ IF call \in {"asking", "waiting"} THEN Cancelled ELSE UNCHANGED callVars
  /\ UNCHANGED <<saved, unsaved>>

Next ==
  \/ BeginTurn \/ Request \/ Trim \/ Reply \/ CallEnds \/ SendResults
  \/ Compact \/ TooLong \/ Retry \/ Summarise \/ Stream \/ Leave \/ Lose

\* A provider answers or fails (the SDK has a timeout), and sleeps end.
Fairness == WF_vars(Reply \/ TooLong \/ Retry \/ Stream)

Spec == Init /\ [][Next]_vars /\ Fairness

-----------------------------------------------------------------------------
(* Correctness *)

TypeOK ==
  /\ CallTypeOK
  /\ at \in {"idle", "ready", "trimming", "sending", "acting", "streaming"}
  /\ \A s \in {mem, saved} :
       \A i \in DOMAIN s : /\ s[i].kind \in Kinds /\ s[i].calls \in Replies
                           /\ (i = 1) = (s[i].kind = "system")
                           /\ s[i].calls # <<>> => s[i].kind = "ai"
  /\ loaded \in BOOLEAN /\ at # "idle" => loaded
  /\ (at \in {"sending", "streaming"}) = (call \in {"asking", "waiting"})
  /\ results \in Nat /\ unsaved \in 0 .. MaxUnsaved /\ todo # <<>> => at = "acting"

(* Every message is followed by exactly as many results as it has calls. *)
Complete(s, i) ==
  LET next == i + Len(s[i].calls) + 1
  IN /\ \A k \in i + 1 .. next - 1 : k \in DOMAIN s /\ s[k].kind = "tool"
     /\ next \in DOMAIN s => s[next].kind # "tool"
Paired(s) ==
  /\ s # <<>> => s[1].kind # "tool"
  /\ \A i \in DOMAIN s : s[i].kind # "tool" => Complete(s, i)

(* Whatever is sent to the model, every message with tool calls is followed *)
(* by exactly their results, and no result stands elsewhere: providers      *)
(* refuse any other conversation, for good.  Through interruptions, saves   *)
(* that fail, roll backs and trimming.                                      *)
(* memory.py drop_older_rounds: "OpenAI-compatible providers reject a       *)
(* conversation whose AIMessage.tool_calls are not followed by their        *)
(* matching ToolMessages".                                                  *)
WellPaired == at = "sending" => Paired(mem)

(* The first request of the conversation is never trimmed away: what the    *)
(* model is sent begins with the goal, or its stub.                         *)
GoalIsKept ==
  at = "sending" => mem[Min(IndicesOf(mem, IsHuman))].kind = "goal"
=============================================================================
