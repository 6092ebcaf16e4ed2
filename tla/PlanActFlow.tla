---------------------------- MODULE PlanActFlow ----------------------------
(***************************************************************************)
(* The plan-act flow of one session: what a run does with the messages it  *)
(* is fed, from the preamble of PlanActGraphFlow.run through PLANNING,      *)
(* EXECUTING, UPDATING, SUMMARIZING and COMPLETED, together with the parts  *)
(* of the task runner that decide when a flow is entered and abandoned.     *)
(*                                                                          *)
(* The live plan (plan) and the plan of the last persisted PlanEvent        *)
(* (recPlan) are two objects: a new run only ever sees the second.  Steps   *)
(* are anonymous: a plan is a sequence of step statuses; whether a step was   *)
(* successful is only counted.                                             *)
(*                                                                          *)
(* The model's answers (how many steps, which succeed, which are judged     *)
(* done) are nondeterministic choices.                                      *)
(***************************************************************************)
EXTENDS Integers, Sequences, FiniteSetsExt

CONSTANTS
  MaxSteps,        \* settings.max_steps, 0 is unlimited
  MaxFailures,     \* settings.max_consecutive_failures
  MaxCorrections,  \* ExecutionAgent._GHOST_MAX_CORRECTIONS
  MaxPlan,         \* bound: steps of a plan
  MaxMsgs,         \* bound: user messages
  MaxCrashes       \* bound: server crashes

ASSUME FlowConstants ==
  /\ MaxSteps \in Nat /\ MaxFailures \in Nat \ {0} /\ MaxCorrections \in Nat
  /\ MaxPlan \in Nat \ {0} /\ MaxMsgs \in Nat /\ MaxCrashes \in Nat

VARIABLES
  status,    \* session.status
  recPlan,   \* the plan of the session's last persisted PlanEvent
  inbox,     \* task.input_stream
  msg,       \* the message the flow is processing
  second,    \* _intercept_stop_requests: a message was already taken
  pc,        \* where the run is
  fstatus,   \* flow.status
  entry,     \* entry_status
  plan,      \* flow.plan
  prev,      \* previous_plan
  cur,       \* index of the step being executed, 0 for none
  round,     \* correction rounds of that step
  count,     \* steps executed and consecutive failures of this run
  first,     \* progress of the two producers of PLANNING
  gate,      \* overall result of the validation gate
  msgs,      \* messages sent so far
  crashes,   \* crashes so far
  spoke,     \* history: an assistant message was shown in this turn
  owed       \* history: the run started on stopped or waiting work

session == <<status, recPlan>>
turn == <<inbox, msg, second, entry>>
planning == <<first, spoke>>
executing == <<cur, round, count>>
env == <<msgs, crashes>>
vars == <<session, turn, pc, fstatus, plan, prev, executing, planning, gate,
          env, owed>>

-----------------------------------------------------------------------------
(* Plans *)

Statuses == {"PENDING", "IN_QUEUE", "RUNNING", "WAITING", "CANCELLED",
             "COMPLETED", "FAILED"}
Kinds == {"plain", "files", "stop"}
Producers == [plan : BOOLEAN, reply : BOOLEAN, said : BOOLEAN]
ExecutionStatus == {"pending", "running", "completed",
                    "completed_with_warnings", "failed"}

\* st is "none" where the code has None instead of a plan.
Plan == [steps : Seq(ExecutionStatus), high : BOOLEAN, st : ExecutionStatus \cup {"none"}]
NoPlan == [steps |-> <<>>, high |-> FALSE, st |-> "none"]
Fresh(n) == [i \in 1..n |-> "pending"]
NewPlan(n, high) == [steps |-> Fresh(n), high |-> high, st |-> "pending"]

IsDone(s) == s \in {"completed", "completed_with_warnings", "failed"}
Open(p) == {i \in DOMAIN p.steps : ~IsDone(p.steps[i])}
DoneIn(p) == DOMAIN p.steps \ Open(p)

CompleteSteps(p, S) ==
  [p EXCEPT !.steps = [i \in DOMAIN @ |-> IF i \in S THEN "completed" ELSE @[i]]]

NextStep(p) == IF Open(p) = {} THEN 0 ELSE Min(Open(p))

\* High-effort plans get twice the steps and twice the failures.
StepBudget(p) == IF p.high THEN 2 * MaxSteps ELSE MaxSteps
FailureBudget(p) == IF p.high THEN 2 * MaxFailures ELSE MaxFailures

-----------------------------------------------------------------------------
(* Runner *)

Busy == pc # "off"

\* After every event it persists the runner leaves the flow when a message is
\* queued.
Emit(next) == pc' = IF inbox = <<>> THEN next ELSE "between"

KeepsStatusBug(s) == s \in {"RUNNING", "WAITING"}
KeepsStatus(s) == s \in {"RUNNING", "WAITING", "CANCELLED"}

\* The run is gone and with it the flow object and the queue it was fed from.
EndRun ==
  /\ pc' = "off" /\ inbox' = <<>> /\ second' = FALSE /\ msg' = "plain"
  /\ fstatus' = "IDLE" /\ entry' = "PENDING" /\ plan' = NoPlan /\ prev' = NoPlan
  /\ cur' = 0 /\ round' = 0 /\ count' = [steps |-> 0, failures |-> 0]
  /\ first' = [plan |-> FALSE, reply |-> FALSE, said |-> FALSE]
  /\ spoke' = FALSE /\ gate' = "none" /\ owed' = FALSE

\* A message for a session without a run starts one, with a fresh flow.
StartRun(kind) ==
  /\ ~Busy /\ msgs < MaxMsgs
  /\ msgs' = msgs + 1
  /\ inbox' = <<kind>>
  /\ status' = IF KeepsStatus(status) THEN status ELSE "IN_QUEUE"
  /\ owed' = (status \in {"WAITING", "CANCELLED"} /\ Open(recPlan) # {})
  /\ pc' = "between"
  /\ UNCHANGED <<recPlan, msg, second, entry, fstatus, plan, prev, executing,
                 planning, gate, crashes>>

Interject(kind) ==
  /\ Busy /\ msgs < MaxMsgs
  /\ msgs' = msgs + 1
  /\ inbox' = Append(inbox, kind)
  /\ UNCHANGED <<session, msg, second, entry, pc, fstatus, plan, prev, executing,
                 planning, gate, crashes, owed>>

StopByText == second /\ Head(inbox) = "stop"

\* A stop command of the second or a later message closes the plan.
CloseOnStop ==
  /\ pc = "between" /\ inbox # <<>> /\ StopByText
  /\ recPlan' =
       IF recPlan.steps = <<>> THEN recPlan
       ELSE [CompleteSteps(recPlan, Open(recPlan)) EXCEPT !.st = "completed"]
  /\ status' = "COMPLETED"
  /\ EndRun
  /\ UNCHANGED env

TakeMessage ==
  /\ pc = "between" /\ inbox # <<>> /\ ~StopByText
  /\ msg' = Head(inbox) /\ inbox' = Tail(inbox)
  /\ second' = TRUE
  /\ owed' = (owed /\ ~second)
  /\ pc' = "entry"
  /\ UNCHANGED <<session, entry, fstatus, plan, prev, executing, planning, gate, env>>

Drained ==
  /\ pc = "between" /\ inbox = <<>>
  /\ status' = "COMPLETED"
  /\ EndRun
  /\ UNCHANGED <<recPlan, env>>

\* STOP or the watchdog: the task is cancelled at whatever await it is in.
Cancel ==
  /\ Busy
  /\ status' = "CANCELLED"
  /\ EndRun
  /\ UNCHANGED <<recPlan, env>>

\* STOP with no task: only the status is resolved.
StopIdle ==
  /\ ~Busy
  /\ status \in {"PENDING", "IN_QUEUE", "RUNNING", "WAITING"}
  /\ status' = "CANCELLED"
  /\ UNCHANGED <<recPlan, turn, pc, fstatus, plan, prev, executing, planning,
                 gate, env, owed>>

Crash ==
  /\ Busy /\ crashes < MaxCrashes
  /\ crashes' = crashes + 1
  /\ EndRun
  /\ UNCHANGED <<session, msgs>>

\* An exception of an LLM call ends the run.
Fails ==
  /\ status' = "FAILED"
  /\ EndRun
  /\ UNCHANGED <<recPlan, env>>

-----------------------------------------------------------------------------
(* Flow: preamble, discuss mode and the resume path *)

At(node) == pc = "flow" /\ fstatus = node

\* A RUNNING session re-plans, a WAITING one continues executing; the plan is
\* read back from the record.
Preamble ==
  /\ pc = "entry"
  /\ entry' = status /\ status' = "RUNNING"
  /\ fstatus' = CASE status = "RUNNING" -> "PLANNING"
                  [] status = "WAITING" -> "EXECUTING"
                  [] OTHER -> fstatus
  /\ plan' = recPlan /\ prev' = recPlan
  /\ cur' = 0 /\ round' = 0 /\ count' = [steps |-> 0, failures |-> 0]
  /\ gate' = "none"
  /\ first' = [plan |-> FALSE, reply |-> FALSE, said |-> FALSE] /\ spoke' = FALSE
  /\ pc' = "route"
  /\ UNCHANGED <<recPlan, inbox, msg, second, env, owed>>

\* Only fresh and finished sessions may be answered without a plan.
MayDiscuss == entry \in {"PENDING", "IN_QUEUE", "COMPLETED"} /\ msg # "files"

\* The streamed reply is the final answer, unless it is only a promise of work.
Discuss(promise) ==
  /\ pc = "route" /\ MayDiscuss
  /\ spoke' = TRUE
  /\ Emit(IF promise THEN "flow" ELSE "between")
  /\ UNCHANGED <<session, turn, fstatus, plan, prev, executing, first, gate, env, owed>>

Resumes == entry = "CANCELLED" /\ Open(plan) # {}

\* The stopped plan is shown again and continues where the record left it.
Resume ==
  /\ pc = "route" /\ Resumes
  /\ recPlan' = plan
  /\ spoke' = TRUE
  /\ fstatus' = "EXECUTING"
  /\ Emit("flow")
  /\ UNCHANGED <<status, turn, plan, prev, executing, first, gate, env, owed>>

AgentMode ==
  /\ pc = "route" /\ ~Resumes
  /\ pc' = "flow"
  /\ UNCHANGED <<session, turn, fstatus, plan, prev, executing, planning, gate, env, owed>>

-----------------------------------------------------------------------------
(* PLANNING: the planner and the first reply run concurrently *)

BeginPlanning ==
  /\ At("IDLE") \/ At("PLANNING")
  /\ fstatus' = "PLANNING"
  /\ pc' = "planning"
  /\ UNCHANGED <<session, turn, plan, prev, executing, planning, gate, env, owed>>

\* A file is never answered without a step.
PlannerPlans(n, high) ==
  /\ pc = "planning" /\ ~first.plan
  /\ plan' = NewPlan(IF n = 0 /\ msg = "files" THEN 1 ELSE n, high)
  /\ first' = [first EXCEPT !.plan = TRUE]
  /\ UNCHANGED <<session, turn, pc, fstatus, prev, executing, spoke, gate, env, owed>>

PlannerFails ==
  /\ pc = "planning" /\ ~first.plan
  /\ Fails

\* A message with text; what is said before it is not persisted.
ReplyArrives ==
  /\ pc = "planning" /\ ~first.reply /\ ~first.said
  /\ first' = [first EXCEPT !.said = TRUE]
  /\ spoke' = TRUE
  /\ Emit("planning")
  /\ UNCHANGED <<session, turn, fstatus, plan, prev, executing, gate, env, owed>>

\* The reply stream ends, whether it said something or failed.
ReplyEndsBug ==
  /\ pc = "planning" /\ ~first.reply /\ first.said
  /\ first' = [first EXCEPT !.reply = TRUE]
  /\ UNCHANGED <<session, turn, pc, fstatus, plan, prev, executing, spoke, gate, env, owed>>

ReplyEnds ==
  /\ pc = "planning" /\ ~first.reply
  /\ first' = [first EXCEPT !.reply = TRUE]
  /\ UNCHANGED <<session, turn, pc, fstatus, plan, prev, executing, spoke, gate, env, owed>>

Produced == pc = "planning" /\ first.plan /\ first.reply

\* An empty plan: the reply, or else the planner's own message, is the answer.
\* A reply that promises work gets a step after all.
Answer ==
  /\ Produced /\ plan.steps = <<>>
  /\ spoke' = TRUE
  /\ fstatus' = "COMPLETED"
  /\ Emit("flow")
  /\ UNCHANGED <<session, turn, plan, prev, executing, first, gate, env, owed>>

InjectStep ==
  /\ Produced /\ plan.steps = <<>>
  /\ plan' = [plan EXCEPT !.steps = Fresh(1)]
  /\ UNCHANGED <<session, turn, pc, fstatus, prev, executing, planning, gate, env, owed>>

\* The user sees an assistant message before the list of steps.
AnnounceBug ==
  /\ Produced /\ plan.steps # <<>>
  /\ spoke' = spoke
  /\ Emit("present")
  /\ UNCHANGED <<session, turn, fstatus, plan, prev, executing, first, gate, env, owed>>

Announce ==
  /\ Produced /\ plan.steps # <<>>
  /\ spoke' = TRUE
  /\ Emit("present")
  /\ UNCHANGED <<session, turn, fstatus, plan, prev, executing, first, gate, env, owed>>

PresentPlan ==
  /\ pc = "present"
  /\ recPlan' = plan
  /\ fstatus' = "EXECUTING"
  /\ Emit("flow")
  /\ UNCHANGED <<status, turn, plan, prev, executing, planning, gate, env, owed>>

-----------------------------------------------------------------------------
(* EXECUTING: one step of the plan *)

Running(p) == [p EXCEPT !.st = "running"]
SetStep(p, i, s) == [p EXCEPT !.steps[i] = s]

Spent == count.steps >= StepBudget(plan) /\ MaxSteps > 0
Failing == count.failures >= FailureBudget(plan)

NoStepLeft ==
  /\ At("EXECUTING") /\ NextStep(plan) = 0
  /\ plan' = Running(plan)
  /\ fstatus' = "SUMMARIZING"
  /\ UNCHANGED <<session, turn, pc, prev, executing, planning, gate, env, owed>>

\* A limit is told to the user and cuts the plan short.
LimitReached ==
  /\ At("EXECUTING") /\ NextStep(plan) # 0 /\ (Spent \/ Failing)
  /\ plan' = Running(plan)
  /\ fstatus' = "SUMMARIZING"
  /\ Emit("flow")
  /\ UNCHANGED <<session, turn, prev, executing, planning, gate, env, owed>>

StartStep ==
  /\ At("EXECUTING") /\ NextStep(plan) # 0 /\ ~Spent /\ ~Failing
  /\ cur' = NextStep(plan) /\ round' = 0
  /\ plan' = SetStep(Running(plan), cur', "running")
  /\ owed' = FALSE
  /\ Emit("step")
  /\ UNCHANGED <<session, turn, fstatus, prev, count, planning, gate, env>>

\* The progress judge only looks at the other unfinished steps.
JudgedBug == Open(plan)
Judged == Open(plan) \ {cur}

\* While a step runs, steps it has already achieved are completed and the plan
\* is shown again.
ProgressCheck(S) ==
  /\ pc = "step" /\ S # {} /\ S \subseteq Judged
  /\ plan' = CompleteSteps(plan, S)
  /\ recPlan' = plan'
  /\ Emit("step")
  /\ UNCHANGED <<status, turn, fstatus, prev, executing, planning, gate, env, owed>>

\* message_ask_user: the run ends and waits for the answer.
AskUser ==
  /\ pc = "step"
  /\ status' = "WAITING"
  /\ EndRun
  /\ UNCHANGED <<recPlan, env>>

\* The step is closed, counted and handed to UPDATING.
CloseStep(ok) ==
  /\ plan' = SetStep(plan, cur, "completed")
  /\ count' = [steps |-> count.steps + 1,
               failures |-> IF ok THEN 0 ELSE count.failures + 1]
  /\ fstatus' = "UPDATING"
  /\ Emit("flow")
  /\ UNCHANGED <<session, turn, prev, cur, round, planning, gate, env, owed>>

StepDone(ok) == pc = "step" /\ CloseStep(ok)

\* A success claimed without a tool, or plain text, is not reported: the step
\* is run again with a correction.
Withhold ==
  /\ pc = "step" /\ round < MaxCorrections
  /\ round' = round + 1
  /\ plan' = SetStep(plan, cur, "running")
  /\ UNCHANGED <<session, turn, pc, fstatus, prev, cur, count, planning, gate, env, owed>>

\* The last correction was no better, or a correction raised.
GiveUp ==
  /\ pc = "step"
  /\ round = MaxCorrections \/ round > 0
  /\ CloseStep(FALSE)

StepRaises ==
  /\ pc = "step" /\ round = 0
  /\ Fails

-----------------------------------------------------------------------------
(* UPDATING *)

\* The steps before the first unfinished one are kept, all others replaced.
\* Without an unfinished step the planner's answer is not used.
Kept(p) == IF NextStep(p) = 0 THEN p.steps ELSE SubSeq(p.steps, 1, NextStep(p) - 1)
Replanned(p, n) ==
  [p EXCEPT !.steps = IF NextStep(p) = 0 THEN @ ELSE Kept(p) \o Fresh(n)]

Replan(n) ==
  /\ At("UPDATING")
  /\ Len(Kept(plan)) + n <= MaxPlan
  /\ plan' = Replanned(plan, n)
  /\ recPlan' = plan'
  /\ fstatus' = "EXECUTING"
  /\ Emit("flow")
  /\ UNCHANGED <<status, turn, prev, executing, planning, gate, env, owed>>

\* An answer that cannot be parsed keeps the plan, which is shown all the same.
KeepPlanBug ==
  /\ At("UPDATING")
  /\ fstatus' = "EXECUTING"
  /\ Emit("flow")
  /\ UNCHANGED <<session, turn, plan, prev, executing, planning, gate, env, owed>>

KeepPlan ==
  /\ At("UPDATING")
  /\ recPlan' = plan
  /\ fstatus' = "EXECUTING"
  /\ Emit("flow")
  /\ UNCHANGED <<status, turn, plan, prev, executing, planning, gate, env, owed>>

UpdateFails == At("UPDATING") /\ Fails

-----------------------------------------------------------------------------
(* SUMMARIZING and COMPLETED *)

\* Unfinished steps fail the gate and steps with the status failed warn; what
\* it finds in files and tool calls is left open.
NeedsReview(p, other) ==
  other \/ Open(p) # {} \/ \E i \in DOMAIN p.steps : p.steps[i] = "failed"

Validate(other) ==
  /\ At("SUMMARIZING")
  /\ gate' = IF NeedsReview(plan, other) THEN "needs_review" ELSE "pass"
  /\ Emit("summary")
  /\ UNCHANGED <<session, turn, fstatus, plan, prev, executing, planning, env, owed>>

Summarize ==
  /\ pc = "summary"
  /\ fstatus' = "COMPLETED"
  /\ Emit("flow")
  /\ UNCHANGED <<session, turn, plan, prev, executing, planning, gate, env, owed>>

SummaryFails == pc = "summary" /\ Fails

\* A turn without steps of its own completes the plan of an earlier turn.
CompletionPlan == IF plan.steps = <<>> /\ prev.steps # <<>> THEN prev ELSE plan

Complete ==
  /\ At("COMPLETED")
  /\ recPlan' = [CompletionPlan EXCEPT !.st =
       IF gate = "needs_review" THEN "completed_with_warnings" ELSE "completed"]
  /\ fstatus' = "IDLE"
  /\ pc' = "between"
  /\ UNCHANGED <<status, turn, plan, prev, executing, planning, gate, env, owed>>

\* Events that change nothing here still let the runner leave the flow: reply
\* chunks, tool calls, narration.
Interrupted ==
  /\ inbox # <<>>
  /\ \/ pc = "planning" /\ ~first.reply
     \/ pc \in {"step", "summary"}
     \/ At("UPDATING")
  /\ pc' = "between"
  /\ UNCHANGED <<session, turn, fstatus, plan, prev, executing, planning, gate, env, owed>>

-----------------------------------------------------------------------------
Init ==
  /\ status = "PENDING" /\ recPlan = NoPlan
  /\ inbox = <<>> /\ msg = "plain" /\ second = FALSE
  /\ pc = "off" /\ fstatus = "IDLE" /\ entry = "PENDING"
  /\ plan = NoPlan /\ prev = NoPlan
  /\ cur = 0 /\ round = 0 /\ count = [steps |-> 0, failures |-> 0]
  /\ first = [plan |-> FALSE, reply |-> FALSE, said |-> FALSE]
  /\ gate = "none"
  /\ msgs = 0 /\ crashes = 0
  /\ spoke = FALSE /\ owed = FALSE

\* What the run does by itself; every call of a model returns or raises.
Advance ==
  \/ CloseOnStop \/ TakeMessage \/ Drained \/ Preamble
  \/ \E promise \in BOOLEAN : Discuss(promise)
  \/ Resume \/ AgentMode \/ BeginPlanning
  \/ \E n \in 0..MaxPlan, high \in BOOLEAN : PlannerPlans(n, high)
  \/ PlannerFails \/ ReplyEnds \/ Answer \/ InjectStep \/ Announce \/ PresentPlan
  \/ NoStepLeft \/ LimitReached \/ StartStep \/ AskUser
  \/ \E ok \in BOOLEAN : StepDone(ok)
  \/ Withhold \/ GiveUp \/ StepRaises
  \/ \E n \in 0..MaxPlan : Replan(n)
  \/ KeepPlan \/ UpdateFails
  \/ \E other \in BOOLEAN : Validate(other)
  \/ Summarize \/ SummaryFails \/ Complete

Next ==
  \/ Advance
  \/ ReplyArrives
  \/ \E S \in SUBSET (1..MaxPlan) : ProgressCheck(S)
  \/ Interrupted
  \/ \E kind \in Kinds : StartRun(kind) \/ Interject(kind)
  \/ Cancel \/ StopIdle \/ Crash

Spec == Init /\ [][Next]_vars
FairSpec == Spec /\ WF_vars(Advance)

-----------------------------------------------------------------------------
(* Properties *)

TypeOK ==
  /\ status \in Statuses /\ recPlan \in Plan
  /\ inbox \in Seq(Kinds) /\ msg \in Kinds /\ second \in BOOLEAN
  /\ pc \in {"off", "between", "entry", "route", "flow", "planning", "present",
             "step", "summary"}
  /\ fstatus \in {"IDLE", "PLANNING", "EXECUTING", "UPDATING", "SUMMARIZING", "COMPLETED"}
  /\ entry \in Statuses
  /\ plan \in Plan /\ prev \in Plan
  /\ cur \in Nat
  /\ round \in 0..MaxCorrections
  /\ count \in [steps : Nat, failures : Nat]
  /\ first \in Producers
  /\ gate \in {"none", "pass", "needs_review"}
  /\ msgs \in Nat /\ crashes \in Nat
  /\ spoke \in BOOLEAN /\ owed \in BOOLEAN

\* The answer to a question is fed to the step that asked: a waiting session
\* has an unfinished step in its record, although the record was written
\* before the step asked and the judge may have completed steps meanwhile.
WaitingHasItsStep == status = "WAITING" => Open(recPlan) # {}

\* Whatever ends a run, the record is at most one finished step behind the
\* plan: a resumed run repeats no more than that.
Behind == DoneIn(plan) \ DoneIn(recPlan)
AtMostOneStepIsRedone == \A i, j \in Behind : i = j

\* The list of steps never appears before an assistant message, whichever of
\* the planner and the reply is faster and whichever of them fails.
ReplyPrecedesPlan == pc = "present" => spoke

\* A message sent to stopped or waiting work continues its plan: nothing is
\* planned before the owed step has started.
StoppedWorkContinues == owed => pc # "planning"

\* A run that was started ends, by itself or by its limits.
EveryRunEnds == Busy ~> ~Busy

\* Claimed by test_parity_failed_step_yields_completed_with_warnings: a failed
\* step makes the gate say needs_review.  Violated: a failing step is recorded
\* as completed, and the gate looks for the status failed.
FailedStepsNeedReview ==
  At("COMPLETED") /\ plan.steps # <<>> /\ count.failures > 0 => gate = "needs_review"

\* Claimed by _check_plan_progress: update_plan preserves the steps it has
\* completed.  Violated: only the steps before the first unfinished one are kept.
JudgedStepsAreKept ==
  [][At("UPDATING") /\ fstatus' = "EXECUTING" =>
       Cardinality(DoneIn(plan')) >= Cardinality(DoneIn(plan))]_vars

=============================================================================
