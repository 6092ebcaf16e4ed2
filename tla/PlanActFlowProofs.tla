------------------------- MODULE PlanActFlowProofs -------------------------
(* Theorems about PlanActFlow, for every value of its constants. *)
EXTENDS PlanActFlow, SequenceTheorems, WellFoundedInduction, TLAPS

-----------------------------------------------------------------------------
(* What the operators on plans return *)

LEMMA NoPlanIsAPlan == NoPlan \in Plan /\ NoPlan.steps = <<>>
BY DEF NoPlan, Plan, ExecutionStatus

LEMMA PlanShape ==
  ASSUME NEW p \in Plan
  PROVE  /\ p.steps \in Seq(ExecutionStatus)
         /\ DOMAIN p.steps = 1..Len(p.steps)
         /\ Open(p) \subseteq 1..Len(p.steps)
BY DEF Plan, Open

LEMMA NothingDone ==
  ASSUME NEW p, p.steps = <<>>
  PROVE  DoneIn(p) = {} /\ Open(p) = {}
BY DEF DoneIn, Open

LEMMA SameSteps ==
  ASSUME NEW p, NEW q, p.steps = q.steps
  PROVE  Open(p) = Open(q) /\ DoneIn(p) = DoneIn(q) /\ NextStep(p) = NextStep(q)
BY DEF DoneIn, Open, NextStep

LEMMA FreshSteps ==
  ASSUME NEW n \in Nat
  PROVE  Fresh(n) \in Seq(ExecutionStatus) /\ DOMAIN Fresh(n) = 1..n
BY DEF Fresh, ExecutionStatus

LEMMA FreshIsOpen ==
  ASSUME NEW p \in Plan, NEW n \in Nat
  PROVE  /\ [p EXCEPT !.steps = Fresh(n)] \in Plan
         /\ DoneIn([p EXCEPT !.steps = Fresh(n)]) = {}
<1>1. [p EXCEPT !.steps = Fresh(n)] \in Plan
  BY FreshSteps DEF Plan
<1>2. [p EXCEPT !.steps = Fresh(n)].steps = Fresh(n)
  BY DEF Plan
<1>3. \A i \in 1..n : ~IsDone(Fresh(n)[i])
  BY DEF Fresh, IsDone
<1> QED BY <1>1, <1>2, <1>3, FreshSteps DEF DoneIn, Open

LEMMA NewPlanIsOpen ==
  ASSUME NEW n \in Nat, NEW high \in BOOLEAN
  PROVE  NewPlan(n, high) \in Plan /\ DoneIn(NewPlan(n, high)) = {}
<1>1. NewPlan(n, high) \in Plan
  BY FreshSteps DEF NewPlan, Plan, ExecutionStatus
<1>2. NewPlan(n, high).steps = Fresh(n)
  BY DEF NewPlan
<1>3. \A i \in 1..n : ~IsDone(Fresh(n)[i])
  BY DEF Fresh, IsDone
<1> QED BY <1>1, <1>2, <1>3, FreshSteps DEF DoneIn, Open

LEMMA LeastMember ==
  ASSUME NEW T, T \subseteq Nat, T # {}
  PROVE  Min(T) \in T
<1>1. PICK x \in T : \A y \in T : ~(<<y, x>> \in OpToRel(<, Nat))
  BY NatLessThanWellFounded, WFMin, Zenon
<1>2. \A y \in T : ~(y < x)
  BY <1>1, Zenon DEF OpToRel
<1>3. \A y \in T : x =< y
  BY <1>2
<1> QED BY <1>3 DEF Min

\* get_next_step returns an unfinished step of the plan, or none is left.
LEMMA NextStepIsOpen ==
  ASSUME NEW p \in Plan
  PROVE  /\ NextStep(p) # 0 => NextStep(p) \in Open(p)
         /\ NextStep(p) = 0 <=> Open(p) = {}
<1>1. Open(p) \subseteq 1..Len(p.steps) /\ Open(p) \subseteq Nat \ {0}
  BY PlanShape DEF Plan
<1>2. CASE Open(p) = {}
  BY <1>2 DEF NextStep
<1>3. CASE Open(p) # {}
  <2>1. NextStep(p) = Min(Open(p)) /\ Min(Open(p)) \in Open(p)
    BY <1>1, <1>3, LeastMember DEF NextStep
  <2> QED BY <1>1, <1>3, <2>1
<1> QED BY <1>2, <1>3

LEMMA SettingAStep ==
  ASSUME NEW p \in Plan, NEW i \in Open(p), NEW s \in ExecutionStatus
  PROVE  /\ SetStep(p, i, s) \in Plan
         /\ ~IsDone(s) => /\ Open(SetStep(p, i, s)) = Open(p)
                          /\ DoneIn(SetStep(p, i, s)) = DoneIn(p)
         /\ IsDone(s) => /\ Open(SetStep(p, i, s)) = Open(p) \ {i}
                         /\ DoneIn(SetStep(p, i, s)) = DoneIn(p) \cup {i}
<1>1. /\ SetStep(p, i, s) \in Plan
      /\ SetStep(p, i, s).steps = [p.steps EXCEPT ![i] = s]
  BY PlanShape DEF SetStep, Plan
<1>2. i \in DOMAIN p.steps
  BY DEF Open
<1> QED BY <1>1, <1>2 DEF Open, DoneIn

LEMMA CompletingSteps ==
  ASSUME NEW p \in Plan, NEW S
  PROVE  /\ CompleteSteps(p, S) \in Plan
         /\ Open(CompleteSteps(p, S)) = Open(p) \ S
<1>1. /\ CompleteSteps(p, S) \in Plan
      /\ CompleteSteps(p, S).steps = [i \in DOMAIN p.steps |->
           IF i \in S THEN "completed" ELSE p.steps[i]]
  BY PlanShape DEF CompleteSteps, Plan, ExecutionStatus
<1> QED BY <1>1 DEF Open, IsDone

LEMMA StatusOfAPlan ==
  ASSUME NEW p \in Plan, NEW s \in ExecutionStatus
  PROVE  [p EXCEPT !.st = s] \in Plan /\ [p EXCEPT !.st = s].steps = p.steps
BY DEF Plan

LEMMA RunningIsAPlan ==
  ASSUME NEW p \in Plan
  PROVE  Running(p) \in Plan /\ Running(p).steps = p.steps
BY StatusOfAPlan DEF Running, ExecutionStatus

LEMMA ReplannedIsAPlan ==
  ASSUME NEW p \in Plan, NEW n \in Nat
  PROVE  Replanned(p, n) \in Plan
<1>1. CASE NextStep(p) = 0
  BY <1>1 DEF Replanned, Plan
<1>2. CASE NextStep(p) # 0
  <2>1. Kept(p) = SubSeq(p.steps, 1, NextStep(p) - 1)
    BY <1>2 DEF Kept
  <2>2. NextStep(p) \in 1..Len(p.steps)
    BY <1>2, NextStepIsOpen, PlanShape
  <2>3. Kept(p) \in Seq(ExecutionStatus)
    BY <2>1, <2>2, PlanShape, SubSeqProperties
  <2>4. Kept(p) \o Fresh(n) \in Seq(ExecutionStatus)
    BY <2>3, FreshSteps, ConcatProperties
  <2> QED BY <1>2, <2>4 DEF Replanned, Plan
<1> QED BY <1>1, <1>2

-----------------------------------------------------------------------------
(* The actions by the part of the code they belong to *)

RunnerStep ==
  \/ \E kind \in Kinds : StartRun(kind)
  \/ \E kind \in Kinds : Interject(kind)
  \/ CloseOnStop
  \/ TakeMessage
  \/ Drained
  \/ Cancel
  \/ StopIdle
  \/ Crash

PlanningStep ==
  \/ Preamble
  \/ \E promise \in BOOLEAN : Discuss(promise)
  \/ Resume
  \/ AgentMode
  \/ BeginPlanning
  \/ \E n \in 0..MaxPlan, high \in BOOLEAN : PlannerPlans(n, high)
  \/ PlannerFails
  \/ ReplyArrives
  \/ ReplyEnds
  \/ Answer
  \/ InjectStep
  \/ Announce
  \/ PresentPlan

ExecutingStep ==
  \/ NoStepLeft
  \/ LimitReached
  \/ StartStep
  \/ \E S \in SUBSET (1..MaxPlan) : ProgressCheck(S)
  \/ AskUser
  \/ \E ok \in BOOLEAN : StepDone(ok)
  \/ Withhold
  \/ GiveUp
  \/ StepRaises
  \/ \E n \in 0..MaxPlan : Replan(n)
  \/ KeepPlan
  \/ UpdateFails
  \/ \E other \in BOOLEAN : Validate(other)
  \/ Summarize
  \/ SummaryFails
  \/ Complete
  \/ Interrupted

LEMMA NextSplits == Next => RunnerStep \/ PlanningStep \/ ExecutingStep
BY DEF Next, Advance, RunnerStep, PlanningStep, ExecutingStep

-----------------------------------------------------------------------------
(* Type correctness *)

\* The step being executed is an unfinished step of the live plan.
StepIsOpen == pc = "step" => cur \in Open(plan) /\ fstatus = "EXECUTING"

TypeInv == TypeOK /\ StepIsOpen

LEMMA Blank ==
  /\ [plan |-> FALSE, reply |-> FALSE, said |-> FALSE] \in Producers
  /\ [steps |-> 0, failures |-> 0] \in [steps : Nat, failures : Nat]
  /\ <<>> \in Seq(Kinds)
  /\ 0 \in 0..MaxCorrections
<1>1. 0 \in 0..MaxCorrections
  BY FlowConstants
<1>2. [plan |-> FALSE, reply |-> FALSE, said |-> FALSE] \in Producers
  BY Zenon DEF Producers
<1> QED BY <1>1, <1>2

LEMMA ProducersMove ==
  ASSUME first \in Producers
  PROVE  /\ [first EXCEPT !.plan = TRUE] \in Producers
         /\ [first EXCEPT !.reply = TRUE] \in Producers
         /\ [first EXCEPT !.said = TRUE] \in Producers
BY DEF Producers

LEMMA EndRunType ==
  ASSUME EndRun
  PROVE  /\ pc' = "off" /\ inbox' \in Seq(Kinds) /\ second' \in BOOLEAN
         /\ msg' \in Kinds /\ fstatus' = "IDLE" /\ entry' \in Statuses
         /\ plan' \in Plan /\ prev' \in Plan /\ cur' \in Nat
         /\ round' \in 0..MaxCorrections
         /\ count' \in [steps : Nat, failures : Nat] /\ first' \in Producers
         /\ gate' = "none" /\ spoke' \in BOOLEAN /\ owed' \in BOOLEAN
BY Blank, NoPlanIsAPlan, Zenon DEF EndRun, Kinds, Statuses

LEMMA TypeInit == Init => TypeInv
BY NoPlanIsAPlan, Blank DEF Init, TypeInv, TypeOK, StepIsOpen,
  Statuses, Kinds

LEMMA TypeRunner ==
  ASSUME TypeInv, RunnerStep
  PROVE  TypeInv'
<1> USE DEF TypeInv, TypeOK, StepIsOpen, session, turn, planning,
  executing, env, Statuses, Kinds
<1>StartRun. CASE \E kind \in Kinds : StartRun(kind)
  <2>1. \A kind \in Kinds : <<kind>> \in Seq(Kinds)
    OBVIOUS
  <2> QED BY <1>StartRun, <2>1 DEF StartRun, Busy
<1>Interject. CASE \E kind \in Kinds : Interject(kind)
  <2>1. \A kind \in Kinds : Append(inbox, kind) \in Seq(Kinds)
    BY AppendProperties
  <2> QED BY <1>Interject, <2>1 DEF Interject, Busy
<1>CloseOnStop. CASE CloseOnStop
  <2>1. recPlan' \in Plan
    BY <1>CloseOnStop, CompletingSteps, StatusOfAPlan
    DEF CloseOnStop, ExecutionStatus
  <2> QED BY <1>CloseOnStop, <2>1, EndRunType DEF CloseOnStop
<1>TakeMessage. CASE TakeMessage
  <2>1. Head(inbox) \in Kinds /\ Tail(inbox) \in Seq(Kinds)
    BY <1>TakeMessage, HeadTailProperties DEF TakeMessage
  <2> QED BY <1>TakeMessage, <2>1 DEF TakeMessage
<1>Drained. CASE Drained
  BY <1>Drained, EndRunType DEF Drained
<1>Cancel. CASE Cancel
  BY <1>Cancel, EndRunType DEF Cancel, Busy
<1>StopIdle. CASE StopIdle
  BY <1>StopIdle DEF StopIdle, Busy
<1>Crash. CASE Crash
  BY <1>Crash, EndRunType DEF Crash, Busy
<1> QED BY <1>StartRun, <1>Interject, <1>CloseOnStop, <1>TakeMessage,
    <1>Drained, <1>Cancel, <1>StopIdle, <1>Crash DEF RunnerStep

LEMMA TypePlanning ==
  ASSUME TypeInv, PlanningStep
  PROVE  TypeInv'
<1> USE DEF TypeInv, TypeOK, StepIsOpen, session, turn, planning,
  executing, env, Statuses, Kinds
<1>Preamble. CASE Preamble
  BY <1>Preamble, Blank DEF Preamble
<1>Discuss. CASE \E promise \in BOOLEAN : Discuss(promise)
  BY <1>Discuss DEF Discuss, MayDiscuss, Emit
<1>Resume. CASE Resume
  BY <1>Resume DEF Resume, Resumes, Emit
<1>AgentMode. CASE AgentMode
  BY <1>AgentMode DEF AgentMode, Resumes
<1>BeginPlanning. CASE BeginPlanning
  BY <1>BeginPlanning DEF BeginPlanning, At
<1>PlannerPlans. CASE \E n \in 0..MaxPlan, high \in BOOLEAN : PlannerPlans(n, high)
  <2>1. PICK n \in 0..MaxPlan, high \in BOOLEAN : PlannerPlans(n, high)
    BY <1>PlannerPlans
  <2>2. 0..MaxPlan \subseteq Nat
    BY FlowConstants
  <2>3. plan' \in Plan
    BY <2>1, <2>2, NewPlanIsOpen DEF PlannerPlans
  <2> QED BY <2>1, <2>3, ProducersMove DEF PlannerPlans
<1>PlannerFails. CASE PlannerFails
  BY <1>PlannerFails, EndRunType DEF PlannerFails, Fails
<1>ReplyArrives. CASE ReplyArrives
  BY <1>ReplyArrives, ProducersMove DEF ReplyArrives, Emit
<1>ReplyEnds. CASE ReplyEnds
  BY <1>ReplyEnds, ProducersMove DEF ReplyEnds
<1>Answer. CASE Answer
  BY <1>Answer DEF Answer, Produced, Emit
<1>InjectStep. CASE InjectStep
  <2>1. plan' \in Plan
    BY <1>InjectStep, FreshIsOpen DEF InjectStep
  <2> QED BY <1>InjectStep, <2>1 DEF InjectStep, Produced
<1>Announce. CASE Announce
  BY <1>Announce DEF Announce, Produced, Emit
<1>PresentPlan. CASE PresentPlan
  BY <1>PresentPlan DEF PresentPlan, Emit
<1> QED BY <1>Preamble, <1>Discuss, <1>Resume, <1>AgentMode, <1>BeginPlanning,
    <1>PlannerPlans, <1>PlannerFails, <1>ReplyArrives, <1>ReplyEnds,
    <1>Answer, <1>InjectStep, <1>Announce, <1>PresentPlan DEF PlanningStep

LEMMA TypeExecuting ==
  ASSUME TypeInv, ExecutingStep
  PROVE  TypeInv'
<1> USE DEF TypeInv, TypeOK, StepIsOpen, session, turn, planning,
  executing, env, Statuses, Kinds
<1>NoStepLeft. CASE NoStepLeft
  BY <1>NoStepLeft, RunningIsAPlan DEF NoStepLeft, At
<1>LimitReached. CASE LimitReached
  BY <1>LimitReached, RunningIsAPlan DEF LimitReached, At, Emit
<1>StartStep. CASE StartStep
  <2>1. /\ cur' \in Open(Running(plan)) /\ cur' \in Nat
        /\ Running(plan) \in Plan
    BY <1>StartStep, RunningIsAPlan, SameSteps, NextStepIsOpen, PlanShape
    DEF StartStep, At
  <2>2. plan' \in Plan /\ Open(plan') = Open(Running(plan))
    BY <1>StartStep, <2>1, SettingAStep DEF StartStep, ExecutionStatus, IsDone
  <2> QED BY <1>StartStep, <2>1, <2>2, Blank DEF StartStep, At, Emit
<1>ProgressCheck. CASE \E S \in SUBSET (1..MaxPlan) : ProgressCheck(S)
  <2>1. PICK S : ProgressCheck(S)
    BY <1>ProgressCheck
  <2>2. plan' \in Plan /\ Open(plan') = Open(plan) \ S
    BY <2>1, CompletingSteps DEF ProgressCheck
  <2> QED BY <2>1, <2>2 DEF ProgressCheck, Judged, Emit
<1>AskUser. CASE AskUser
  BY <1>AskUser, EndRunType DEF AskUser
<1>StepDone. CASE \E ok \in BOOLEAN : StepDone(ok)
  <2>1. plan' \in Plan
    BY <1>StepDone, SettingAStep DEF StepDone, CloseStep, ExecutionStatus
  <2> QED BY <1>StepDone, <2>1 DEF StepDone, CloseStep, Emit
<1>Withhold. CASE Withhold
  <2>1. plan' \in Plan /\ Open(plan') = Open(plan)
    BY <1>Withhold, SettingAStep DEF Withhold, ExecutionStatus, IsDone
  <2> QED BY <1>Withhold, <2>1, FlowConstants DEF Withhold
<1>GiveUp. CASE GiveUp
  <2>1. plan' \in Plan
    BY <1>GiveUp, SettingAStep DEF GiveUp, CloseStep, ExecutionStatus
  <2> QED BY <1>GiveUp, <2>1 DEF GiveUp, CloseStep, Emit
<1>StepRaises. CASE StepRaises
  BY <1>StepRaises, EndRunType DEF StepRaises, Fails
<1>Replan. CASE \E n \in 0..MaxPlan : Replan(n)
  <2>1. PICK n \in 0..MaxPlan : Replan(n)
    BY <1>Replan
  <2>2. n \in Nat
    BY FlowConstants
  <2>3. plan' \in Plan
    BY <2>1, <2>2, ReplannedIsAPlan DEF Replan
  <2> QED BY <2>1, <2>3 DEF Replan, At, Emit
<1>KeepPlan. CASE KeepPlan
  BY <1>KeepPlan DEF KeepPlan, At, Emit
<1>UpdateFails. CASE UpdateFails
  BY <1>UpdateFails, EndRunType DEF UpdateFails, At, Fails
<1>Validate. CASE \E other \in BOOLEAN : Validate(other)
  BY <1>Validate DEF Validate, At, Emit
<1>Summarize. CASE Summarize
  BY <1>Summarize DEF Summarize, Emit
<1>SummaryFails. CASE SummaryFails
  BY <1>SummaryFails, EndRunType DEF SummaryFails, Fails
<1>Complete. CASE Complete
  <2>1. CompletionPlan \in Plan
    BY DEF CompletionPlan
  <2>2. recPlan' \in Plan
    BY <1>Complete, <2>1, StatusOfAPlan DEF Complete, ExecutionStatus
  <2> QED BY <1>Complete, <2>2 DEF Complete, At
<1>Interrupted. CASE Interrupted
  BY <1>Interrupted DEF Interrupted, At
<1> QED BY <1>NoStepLeft, <1>LimitReached, <1>StartStep, <1>ProgressCheck,
    <1>AskUser, <1>StepDone, <1>Withhold, <1>GiveUp, <1>StepRaises, <1>Replan,
    <1>KeepPlan, <1>UpdateFails, <1>Validate, <1>Summarize, <1>SummaryFails,
    <1>Complete, <1>Interrupted DEF ExecutingStep

LEMMA TypeStep == TypeInv /\ [Next]_vars => TypeInv'
<1>1. ASSUME TypeInv, Next PROVE TypeInv'
  BY <1>1, NextSplits, TypeRunner, TypePlanning, TypeExecuting
<1>2. ASSUME TypeInv, UNCHANGED vars PROVE TypeInv'
  BY <1>2 DEF vars, session, turn, planning, executing, env, TypeInv, TypeOK,
    StepIsOpen
<1> QED BY <1>1, <1>2

\* Every variable keeps to its type; in particular no step is run again more
\* often than the correction limit allows (round).
THEOREM TypeCorrect == Spec => []TypeOK
<1>1. TypeInv => TypeOK
  BY DEF TypeInv
<1> QED BY <1>1, TypeInit, TypeStep, PTL DEF Spec

-----------------------------------------------------------------------------
(* The record and the plan *)

RunIsRunning == pc \notin {"off", "between", "entry"} => status = "RUNNING"

\* While the plan is executed, what it has left to do the record has left to do.
Shown ==
  pc \in {"route", "step"} \/ At("EXECUTING") \/ At("UPDATING")
    => Open(plan) \subseteq Open(recPlan)

\* Only a step that was just closed is ahead of the record, until UPDATING
\* shows the plan or the run ends.
BehindByOne ==
  Behind \subseteq IF pc \in {"between", "entry"} \/ At("UPDATING") THEN {cur} ELSE {}

RecordInv ==
  RunIsRunning /\ Shown /\ BehindByOne /\ WaitingHasItsStep /\ ReplyPrecedesPlan

LEMMA EndRunIsClean ==
  ASSUME EndRun
  PROVE  pc' = "off" /\ Behind' = {}
BY NoPlanIsAPlan, NothingDone DEF EndRun, Behind

LEMMA ClosingAStep ==
  ASSUME TypeInv, RecordInv, pc = "step", NEW ok, CloseStep(ok)
  PROVE  RecordInv'
<1>1. cur \in Open(plan) /\ plan \in Plan
  BY DEF TypeInv, TypeOK, StepIsOpen
<1>2. Open(plan') = Open(plan) \ {cur} /\ DoneIn(plan') = DoneIn(plan) \cup {cur}
  BY <1>1, SettingAStep DEF CloseStep, ExecutionStatus, IsDone
<1> QED BY <1>2 DEF CloseStep, Emit, At, Behind, RecordInv, RunIsRunning, Shown,
  BehindByOne, WaitingHasItsStep, ReplyPrecedesPlan, session, turn, planning

LEMMA RecordInit == Init => RecordInv
BY NoPlanIsAPlan, NothingDone DEF Init, RecordInv, RunIsRunning, Shown,
  BehindByOne, Behind, At, WaitingHasItsStep, ReplyPrecedesPlan

LEMMA RecordRunner ==
  ASSUME TypeInv, RecordInv, RunnerStep
  PROVE  RecordInv'
<1> USE DEF RecordInv, RunIsRunning, Shown, BehindByOne,
  WaitingHasItsStep, ReplyPrecedesPlan, session, turn, planning, executing, env, At
<1>0. plan \in Plan /\ recPlan \in Plan /\ prev \in Plan /\ StepIsOpen
  BY DEF TypeInv, TypeOK
<1>StartRun. CASE \E kind \in Kinds : StartRun(kind)
  BY <1>0, <1>StartRun DEF StartRun, Busy, KeepsStatus, Behind
<1>Interject. CASE \E kind \in Kinds : Interject(kind)
  BY <1>0, <1>Interject DEF Interject, Busy, Behind
<1>CloseOnStop. CASE CloseOnStop
  <2>1. Behind' = {}
    BY <1>0, <1>CloseOnStop, NoPlanIsAPlan, NothingDone DEF CloseOnStop, EndRun, Behind
  <2> QED BY <1>CloseOnStop, <2>1 DEF CloseOnStop, EndRun
<1>TakeMessage. CASE TakeMessage
  BY <1>0, <1>TakeMessage DEF TakeMessage, Behind
<1>Drained. CASE Drained
  BY <1>0, <1>Drained, EndRunIsClean DEF Drained
<1>Cancel. CASE Cancel
  BY <1>0, <1>Cancel, EndRunIsClean DEF Cancel, Busy
<1>StopIdle. CASE StopIdle
  BY <1>0, <1>StopIdle DEF StopIdle, Busy, Behind
<1>Crash. CASE Crash
  BY <1>0, <1>Crash, EndRunIsClean DEF Crash, Busy
<1> QED BY <1>StartRun, <1>Interject, <1>CloseOnStop, <1>TakeMessage,
    <1>Drained, <1>Cancel, <1>StopIdle, <1>Crash DEF RunnerStep

LEMMA RecordPlanning ==
  ASSUME TypeInv, RecordInv, PlanningStep
  PROVE  RecordInv'
<1> USE DEF RecordInv, RunIsRunning, Shown, BehindByOne,
  WaitingHasItsStep, ReplyPrecedesPlan, session, turn, planning, executing, env, At
<1>0. plan \in Plan /\ recPlan \in Plan /\ prev \in Plan /\ StepIsOpen
  BY DEF TypeInv, TypeOK
<1>Preamble. CASE Preamble
  <2>1. Behind' = {} /\ Open(plan') = Open(recPlan')
    BY <1>0, <1>Preamble DEF Preamble, Behind
  <2> QED BY <1>Preamble, <2>1 DEF Preamble
<1>Discuss. CASE \E promise \in BOOLEAN : Discuss(promise)
  BY <1>0, <1>Discuss DEF Discuss, Emit, Behind
<1>Resume. CASE Resume
  BY <1>0, <1>Resume DEF Resume, Emit, Behind
<1>AgentMode. CASE AgentMode
  BY <1>0, <1>AgentMode DEF AgentMode, Behind
<1>BeginPlanning. CASE BeginPlanning
  BY <1>0, <1>BeginPlanning DEF BeginPlanning, At, Behind
<1>PlannerPlans. CASE \E n \in 0..MaxPlan, high \in BOOLEAN : PlannerPlans(n, high)
  <2>1. PICK n \in 0..MaxPlan, high \in BOOLEAN : PlannerPlans(n, high)
    BY <1>0, <1>PlannerPlans
  <2>2. DoneIn(plan') = {}
    BY <2>1, FlowConstants, NewPlanIsOpen DEF PlannerPlans
  <2> QED BY <2>1, <2>2 DEF PlannerPlans, Behind
<1>PlannerFails. CASE PlannerFails
  BY <1>0, <1>PlannerFails, EndRunIsClean DEF PlannerFails, Fails
<1>ReplyArrives. CASE ReplyArrives
  BY <1>0, <1>ReplyArrives DEF ReplyArrives, Emit, Behind
<1>ReplyEnds. CASE ReplyEnds
  BY <1>0, <1>ReplyEnds DEF ReplyEnds, Behind
<1>Answer. CASE Answer
  BY <1>0, <1>Answer DEF Answer, Produced, Emit, Behind
<1>InjectStep. CASE InjectStep
  <2>1. DoneIn(plan') = {}
    BY <1>0, <1>InjectStep, FreshIsOpen DEF InjectStep
  <2> QED BY <1>InjectStep, <2>1 DEF InjectStep, Produced, Behind
<1>Announce. CASE Announce
  BY <1>0, <1>Announce DEF Announce, Produced, Emit, Behind
<1>PresentPlan. CASE PresentPlan
  BY <1>0, <1>PresentPlan DEF PresentPlan, Emit, Behind
<1> QED BY <1>Preamble, <1>Discuss, <1>Resume, <1>AgentMode, <1>BeginPlanning,
    <1>PlannerPlans, <1>PlannerFails, <1>ReplyArrives, <1>ReplyEnds,
    <1>Answer, <1>InjectStep, <1>Announce, <1>PresentPlan DEF PlanningStep

LEMMA RecordExecuting ==
  ASSUME TypeInv, RecordInv, ExecutingStep
  PROVE  RecordInv'
<1> USE DEF RecordInv, RunIsRunning, Shown, BehindByOne,
  WaitingHasItsStep, ReplyPrecedesPlan, session, turn, planning, executing, env, At
<1>0. plan \in Plan /\ recPlan \in Plan /\ prev \in Plan /\ StepIsOpen
  BY DEF TypeInv, TypeOK
<1>NoStepLeft. CASE NoStepLeft
  BY <1>0, <1>NoStepLeft, RunningIsAPlan, SameSteps DEF NoStepLeft, At, Behind
<1>LimitReached. CASE LimitReached
  BY <1>0, <1>LimitReached, RunningIsAPlan, SameSteps DEF LimitReached, At, Emit,
    Behind
<1>StartStep. CASE StartStep
  <2>1. /\ Running(plan) \in Plan
        /\ Open(Running(plan)) = Open(plan) /\ DoneIn(Running(plan)) = DoneIn(plan)
        /\ cur' \in Open(plan)
    BY <1>0, <1>StartStep, RunningIsAPlan, SameSteps, NextStepIsOpen DEF StartStep
  <2>2. Open(plan') = Open(plan) /\ DoneIn(plan') = DoneIn(plan)
    BY <1>0, <1>StartStep, <2>1, SettingAStep DEF StartStep, ExecutionStatus, IsDone
  <2> QED BY <1>StartStep, <2>1, <2>2 DEF StartStep, At, Emit, Behind
<1>ProgressCheck. CASE \E S \in SUBSET (1..MaxPlan) : ProgressCheck(S)
  BY <1>0, <1>ProgressCheck DEF ProgressCheck, CompleteSteps, Emit, Behind
<1>AskUser. CASE AskUser
  BY <1>0, <1>AskUser, EndRunIsClean DEF AskUser, StepIsOpen
<1>StepDone. CASE \E ok \in BOOLEAN : StepDone(ok)
  <2>1. PICK ok \in BOOLEAN : StepDone(ok)
    BY <1>0, <1>StepDone
  <2> QED BY <2>1, ClosingAStep DEF StepDone
<1>Withhold. CASE Withhold
  <2>1. Open(plan') = Open(plan) /\ DoneIn(plan') = DoneIn(plan)
    BY <1>0, <1>Withhold, SettingAStep
    DEF Withhold, ExecutionStatus, IsDone, StepIsOpen
  <2> QED BY <1>Withhold, <2>1 DEF Withhold, Behind
<1>GiveUp. CASE GiveUp
  <2> QED BY <1>GiveUp, ClosingAStep DEF GiveUp
<1>StepRaises. CASE StepRaises
  BY <1>0, <1>StepRaises, EndRunIsClean DEF StepRaises, Fails
<1>Replan. CASE \E n \in 0..MaxPlan : Replan(n)
  BY <1>0, <1>Replan DEF Replan, At, Emit, Behind
<1>KeepPlan. CASE KeepPlan
  BY <1>0, <1>KeepPlan DEF KeepPlan, At, Emit, Behind
<1>UpdateFails. CASE UpdateFails
  BY <1>0, <1>UpdateFails, EndRunIsClean DEF UpdateFails, At, Fails
<1>Validate. CASE \E other \in BOOLEAN : Validate(other)
  BY <1>0, <1>Validate DEF Validate, At, Emit, Behind
<1>Summarize. CASE Summarize
  BY <1>0, <1>Summarize DEF Summarize, Emit, Behind
<1>SummaryFails. CASE SummaryFails
  BY <1>0, <1>SummaryFails, EndRunIsClean DEF SummaryFails, Fails
<1>Complete. CASE Complete
  <2>1. Behind' = {}
    <3>1. CASE CompletionPlan = plan
      <4>1. recPlan'.steps = plan.steps /\ plan' = plan
        BY <1>0, <1>Complete, <3>1, StatusOfAPlan DEF Complete, ExecutionStatus
      <4> QED BY <4>1, SameSteps DEF Behind
    <3>2. CASE CompletionPlan # plan
      BY <1>0, <1>Complete, <3>2, NothingDone DEF Complete, CompletionPlan, Behind
    <3> QED BY <3>1, <3>2
  <2> QED BY <1>Complete, <2>1 DEF Complete, At
<1>Interrupted. CASE Interrupted
  BY <1>0, <1>Interrupted DEF Interrupted, At, Behind
<1> QED BY <1>NoStepLeft, <1>LimitReached, <1>StartStep, <1>ProgressCheck,
    <1>AskUser, <1>StepDone, <1>Withhold, <1>GiveUp, <1>StepRaises, <1>Replan,
    <1>KeepPlan, <1>UpdateFails, <1>Validate, <1>Summarize, <1>SummaryFails,
    <1>Complete, <1>Interrupted DEF ExecutingStep

LEMMA RecordStep == TypeInv /\ RecordInv /\ [Next]_vars => RecordInv'
<1>1. ASSUME TypeInv, RecordInv, Next PROVE RecordInv'
  BY <1>1, NextSplits, RecordRunner, RecordPlanning, RecordExecuting
<1>2. ASSUME RecordInv, UNCHANGED vars PROVE RecordInv'
  BY <1>2 DEF vars, session, turn, planning, executing, env, RecordInv,
    RunIsRunning, Shown, BehindByOne, Behind, At, WaitingHasItsStep,
    ReplyPrecedesPlan
<1> QED BY <1>1, <1>2

LEMMA RecordKept == Spec => []RecordInv
<1> QED BY TypeInit, TypeStep, RecordInit, RecordStep, PTL DEF Spec

\* Whatever ends a run (a question, STOP, an error, a crash, a message that
\* interrupts it), a resumed run repeats at most the one step that was closed
\* last.
THEOREM OneStepIsRedone == Spec => []AtMostOneStepIsRedone
<1>1. RecordInv => AtMostOneStepIsRedone
  BY DEF RecordInv, BehindByOne, AtMostOneStepIsRedone
<1> QED BY <1>1, RecordKept, PTL

\* A session that waits for an answer has in its record an unfinished step for
\* that answer to continue.
THEOREM WaitingSessionsHaveTheirStep == Spec => []WaitingHasItsStep
<1>1. RecordInv => WaitingHasItsStep
  BY DEF RecordInv
<1> QED BY <1>1, RecordKept, PTL

\* The user reads an assistant message before the list of steps, in whichever
\* order the planner and the first reply arrive or fail.
THEOREM RepliesPrecedePlans == Spec => []ReplyPrecedesPlan
<1>1. RecordInv => ReplyPrecedesPlan
  BY DEF RecordInv
<1> QED BY <1>1, RecordKept, PTL

-----------------------------------------------------------------------------
(* Stopped and waiting work *)

Unspent == count = [steps |-> 0, failures |-> 0]

\* The only way from a message for stopped or waiting work to its first step.
OwedPath ==
  owed => \/ pc = "between" /\ second
          \/ /\ pc \in {"between", "entry"}
             /\ status \in {"WAITING", "CANCELLED"} /\ Open(recPlan) # {}
          \/ /\ pc = "route" /\ entry \in {"WAITING", "CANCELLED"}
             /\ entry = "WAITING" => fstatus = "EXECUTING"
             /\ Open(plan) # {} /\ Unspent
          \/ At("EXECUTING") /\ Open(plan) # {} /\ Unspent

ResumeInv == OwedPath /\ (pc \notin {"off", "between"} => second)

\* No limit stops a run before its first step.
LimitsNotReached == Unspent => ~Spent /\ ~Failing

LEMMA FirstStepIsWithinLimits == ASSUME plan \in Plan PROVE LimitsNotReached
<1>1. plan.high \in BOOLEAN
  BY DEF Plan
<1>2. MaxSteps > 0 => StepBudget(plan) > 0
  BY FlowConstants DEF StepBudget
<1>3. FailureBudget(plan) > 0
  BY FlowConstants DEF FailureBudget
<1>4. StepBudget(plan) \in Nat /\ FailureBudget(plan) \in Nat
  BY FlowConstants DEF StepBudget, FailureBudget
<1> QED BY <1>2, <1>3, <1>4 DEF LimitsNotReached, Unspent, Spent, Failing

LEMMA ResumeRunner ==
  ASSUME TypeInv, ResumeInv, RunnerStep
  PROVE  ResumeInv'
<1> USE DEF ResumeInv, OwedPath, Unspent, At, session, turn, planning, executing, env
<1>0. plan \in Plan /\ recPlan \in Plan /\ LimitsNotReached
  BY FirstStepIsWithinLimits DEF TypeInv, TypeOK
<1>StartRun. CASE \E kind \in Kinds : StartRun(kind)
  BY <1>StartRun DEF StartRun, Busy, KeepsStatus
<1>Interject. CASE \E kind \in Kinds : Interject(kind)
  BY <1>Interject DEF Interject, Busy
<1>CloseOnStop. CASE CloseOnStop
  BY <1>CloseOnStop DEF CloseOnStop, CompleteSteps, EndRun
<1>TakeMessage. CASE TakeMessage
  BY <1>TakeMessage DEF TakeMessage
<1>Drained. CASE Drained
  BY <1>Drained DEF Drained, EndRun
<1>Cancel. CASE Cancel
  BY <1>Cancel DEF Cancel, EndRun
<1>StopIdle. CASE StopIdle
  BY <1>StopIdle DEF StopIdle, Busy
<1>Crash. CASE Crash
  BY <1>Crash DEF Crash, EndRun
<1> QED BY <1>StartRun, <1>Interject, <1>CloseOnStop, <1>TakeMessage,
    <1>Drained, <1>Cancel, <1>StopIdle, <1>Crash DEF RunnerStep

LEMMA ResumePlanning ==
  ASSUME TypeInv, ResumeInv, PlanningStep
  PROVE  ResumeInv'
<1> USE DEF ResumeInv, OwedPath, Unspent, At, session, turn, planning, executing, env
<1>0. plan \in Plan /\ recPlan \in Plan /\ LimitsNotReached
  BY FirstStepIsWithinLimits DEF TypeInv, TypeOK
<1>Preamble. CASE Preamble
  BY <1>Preamble, <1>0 DEF Preamble
<1>Discuss. CASE \E promise \in BOOLEAN : Discuss(promise)
  BY <1>Discuss DEF Discuss, MayDiscuss, Emit
<1>Resume. CASE Resume
  BY <1>Resume DEF Resume, Resumes, Emit
<1>AgentMode. CASE AgentMode
  BY <1>AgentMode DEF AgentMode, Resumes
<1>BeginPlanning. CASE BeginPlanning
  BY <1>BeginPlanning DEF BeginPlanning, At
<1>PlannerPlans. CASE \E n \in 0..MaxPlan, high \in BOOLEAN : PlannerPlans(n, high)
  BY <1>PlannerPlans DEF PlannerPlans
<1>PlannerFails. CASE PlannerFails
  BY <1>PlannerFails DEF PlannerFails, Fails, EndRun
<1>ReplyArrives. CASE ReplyArrives
  BY <1>ReplyArrives DEF ReplyArrives, Emit
<1>ReplyEnds. CASE ReplyEnds
  BY <1>ReplyEnds DEF ReplyEnds
<1>Answer. CASE Answer
  BY <1>Answer DEF Answer, Produced, Emit
<1>InjectStep. CASE InjectStep
  BY <1>InjectStep, <1>0 DEF InjectStep, Produced
<1>Announce. CASE Announce
  BY <1>Announce DEF Announce, Produced, Emit
<1>PresentPlan. CASE PresentPlan
  BY <1>PresentPlan DEF PresentPlan, Emit
<1> QED BY <1>Preamble, <1>Discuss, <1>Resume, <1>AgentMode, <1>BeginPlanning,
    <1>PlannerPlans, <1>PlannerFails, <1>ReplyArrives, <1>ReplyEnds,
    <1>Answer, <1>InjectStep, <1>Announce, <1>PresentPlan DEF PlanningStep

LEMMA ResumeExecuting ==
  ASSUME TypeInv, ResumeInv, ExecutingStep
  PROVE  ResumeInv'
<1> USE DEF ResumeInv, OwedPath, Unspent, At, session, turn, planning, executing, env
<1>0. plan \in Plan /\ recPlan \in Plan /\ LimitsNotReached
  BY FirstStepIsWithinLimits DEF TypeInv, TypeOK
<1>NoStepLeft. CASE NoStepLeft
  BY <1>NoStepLeft, <1>0, NextStepIsOpen DEF NoStepLeft, At
<1>LimitReached. CASE LimitReached
  BY <1>LimitReached, <1>0 DEF LimitsNotReached, LimitReached, At, Emit
<1>StartStep. CASE StartStep
  BY <1>StartStep DEF StartStep, At, Emit
<1>ProgressCheck. CASE \E S \in SUBSET (1..MaxPlan) : ProgressCheck(S)
  BY <1>ProgressCheck, <1>0 DEF ProgressCheck, CompleteSteps, Emit
<1>AskUser. CASE AskUser
  BY <1>AskUser DEF AskUser, EndRun
<1>StepDone. CASE \E ok \in BOOLEAN : StepDone(ok)
  BY <1>StepDone DEF StepDone, CloseStep, Emit
<1>Withhold. CASE Withhold
  BY <1>Withhold DEF Withhold
<1>GiveUp. CASE GiveUp
  BY <1>GiveUp DEF GiveUp, CloseStep, Emit
<1>StepRaises. CASE StepRaises
  BY <1>StepRaises DEF StepRaises, Fails, EndRun
<1>Replan. CASE \E n \in 0..MaxPlan : Replan(n)
  BY <1>Replan DEF Replan, At, Emit
<1>KeepPlan. CASE KeepPlan
  BY <1>KeepPlan DEF KeepPlan, At, Emit
<1>UpdateFails. CASE UpdateFails
  BY <1>UpdateFails DEF UpdateFails, At, Fails, EndRun
<1>Validate. CASE \E other \in BOOLEAN : Validate(other)
  BY <1>Validate DEF Validate, At, Emit
<1>Summarize. CASE Summarize
  BY <1>Summarize DEF Summarize, Emit
<1>SummaryFails. CASE SummaryFails
  BY <1>SummaryFails DEF SummaryFails, Fails, EndRun
<1>Complete. CASE Complete
  BY <1>Complete DEF Complete, At
<1>Interrupted. CASE Interrupted
  BY <1>Interrupted DEF Interrupted, At
<1> QED BY <1>NoStepLeft, <1>LimitReached, <1>StartStep, <1>ProgressCheck,
    <1>AskUser, <1>StepDone, <1>Withhold, <1>GiveUp, <1>StepRaises, <1>Replan,
    <1>KeepPlan, <1>UpdateFails, <1>Validate, <1>Summarize, <1>SummaryFails,
    <1>Complete, <1>Interrupted DEF ExecutingStep

LEMMA ResumeStep == TypeInv /\ ResumeInv /\ [Next]_vars => ResumeInv'
<1>1. ASSUME TypeInv, ResumeInv, Next PROVE ResumeInv'
  BY <1>1, NextSplits, ResumeRunner, ResumePlanning, ResumeExecuting
<1>2. ASSUME ResumeInv, UNCHANGED vars PROVE ResumeInv'
  BY <1>2 DEF vars, session, turn, planning, executing, env, ResumeInv, OwedPath,
    Unspent, At
<1> QED BY <1>1, <1>2

\* A message sent to stopped or waiting work reaches the next unfinished step
\* of its plan without a new plan being made on the way.
THEOREM StoppedWorkIsContinued == Spec => []StoppedWorkContinues
<1>1. Init => ResumeInv
  BY DEF Init, ResumeInv, OwedPath
<1>2. ResumeInv => StoppedWorkContinues
  BY DEF ResumeInv, OwedPath, At, StoppedWorkContinues
<1> QED BY <1>1, <1>2, TypeInit, TypeStep, ResumeStep, PTL DEF Spec
=============================================================================
