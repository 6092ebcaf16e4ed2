------------------------- MODULE SessionTurnsProofs -------------------------
(* Theorems about SessionTurns, for every value of its constants. *)
EXTENDS SessionTurns, SequenceTheorems, TLAPS

\* A run that is about to pop has something to pop.
PopReady == \A t \in Tasks : rpc[t] = "pop" => input[t] # <<>>

\* Only a request with a message walks the path that persists one.
PostPath == \A r \in Reqs : pc[r] \in {"persist", "queue", "join"} => r \in Posts

TypeInv == TypeOK /\ PopReady /\ PostPath

LEMMA DocumentType == ASSUME DbType PROVE Document \in Documents
BY DEF DbType, Document, Documents

LEMMA Bounds == MaxCrashes \in Nat /\ MaxStops \in Nat /\ MaxDrops \in Nat
BY BoundAssumption

LEMMA EnqueueAppends ==
  ASSUME ReqType, RunType, NEW r \in Reqs, Enqueue(r)
  PROVE  /\ input' \in [Tasks -> Seq(Msgs \cup {Nothing})]
         /\ \A t \in Tasks : input[t] # <<>> => input'[t] # <<>>
         /\ tk[r] \in Tasks => input'[tk[r]] # <<>>
         /\ \A t \in Tasks : input'[t] = IF t = tk[r] THEN Append(input[t], msg[r])
                                         ELSE input[t]
<1>0. msg[r] \in Msgs \cup {Nothing} /\ \A t \in Tasks : input[t] \in Seq(Msgs \cup {Nothing})
  BY DEF ReqType, RunType
<1>1. \A t \in Tasks : /\ Append(input[t], msg[r]) \in Seq(Msgs \cup {Nothing})
                       /\ Append(input[t], msg[r]) # <<>>
  BY <1>0, AppendProperties
<1> QED BY <1>1 DEF RunType, Enqueue

LEMMA TypeStutter == ASSUME TypeInv, UNCHANGED vars PROVE TypeInv'
BY DEF TypeInv, TypeOK, DbType, MemType, ReqType, RunType, EnvType, HistType,
  PopReady, PostPath, vars, db, log, setups, reqs, local, runs, env, hist, tasks, mem

LEMMA TypeInvRequest ==
  ASSUME TypeInv, NEW r \in Reqs, ReqStep(r) \/ Load(r) \/ Drop(r)
  PROVE  TypeInv'
<1> USE DEF Statuses, Documents, InTry, InHandler, TypeInv, TypeOK, DbType,
  MemType, ReqType, RunType, EnvType, HistType, PopReady, PostPath, db, log,
  setups, reqs, local, runs, env, hist, tasks, mem
<1>Load. CASE Load(r)
  BY <1>Load, DocumentType DEF Load, Holds, Goto
<1>Reconnect. CASE Reconnect(r)
  BY <1>Reconnect DEF Reconnect, Lookup, Holds, Goto, Forget, Blank
<1>Accept. CASE Accept(r)
  BY <1>Accept, SetAssumption DEF Accept, Lookup, Holds, Goto
<1>Persist. CASE Persist(r)
  <2> USE <1>Persist, SetAssumption DEF Persist, Goto, Forget, Blank
  <2>d. DbType'
    OBVIOUS
  <2>m. MemType' /\ HistType'
    OBVIOUS
  <2>e. EnvType'
    OBVIOUS
  <2>r. ReqType'
    OBVIOUS
  <2>t. RunType'
    OBVIOUS
  <2>p. PopReady' /\ PostPath'
    OBVIOUS
  <2> QED BY <2>d, <2>m, <2>e, <2>r, <2>t, <2>p DEF TypeInv, TypeOK
<1>MarkQueued. CASE MarkQueued(r)
  BY <1>MarkQueued DEF MarkQueued, Goto
<1>StartSetup. CASE StartSetup(r)
  BY <1>StartSetup, SetAssumption DEF StartSetup, Register, Goto
<1>AwaitInflight. CASE AwaitInflight(r)
  BY <1>AwaitInflight DEF AwaitInflight, Stranded, Lookup, Goto, Forget, Blank
<1>Refetch. CASE Refetch(r)
  BY <1>Refetch, DocumentType DEF Refetch, Goto
<1>JoinPost. CASE JoinPost(r)
  BY <1>JoinPost, SetAssumption DEF JoinPost, Holds, Lookup, Register, Goto, Forget, Blank
<1>JoinView. CASE JoinView(r)
  BY <1>JoinView DEF JoinView, Holds, Lookup, Goto, Forget, Blank
<1>Subscribe. CASE Subscribe(r)
  BY <1>Subscribe DEF Subscribe, Stranded, Lookup, Unprocessed, Holds, Goto,
  Forget, Blank
<1>Recover. CASE Recover(r)
  BY <1>Recover DEF Recover, Stranded, Lookup, Unprocessed, Register, Goto,
  Forget, Blank
<1>ResolveStale. CASE ResolveStale(r)
  BY <1>ResolveStale DEF ResolveStale, Stranded, Lookup, Unprocessed, Goto,
  Forget, Blank
<1>RecoverReturns. CASE RecoverReturns(r)
  BY <1>RecoverReturns DEF RecoverReturns, Unregister, Goto
<1>FailRequest. CASE FailRequest(r)
  BY <1>FailRequest DEF FailRequest, Goto, Gone
<1>Drained. CASE Drained(r)
  BY <1>Drained DEF Drained, Done, Goto, Gone
<1>Drop. CASE Drop(r)
  BY <1>Drop, Bounds DEF Drop, Attached, Unregister, Goto, Gone, Forget, Blank
<1> QED BY <1>Load, <1>Reconnect, <1>Accept, <1>Persist, <1>MarkQueued,
  <1>StartSetup, <1>AwaitInflight, <1>Refetch, <1>JoinPost, <1>JoinView,
  <1>Subscribe, <1>Recover, <1>ResolveStale, <1>RecoverReturns,
  <1>FailRequest, <1>Drained, <1>Drop DEF ReqStep

LEMMA TypeInvSetup ==
  ASSUME TypeInv, NEW r \in Reqs, SetupStep(r)
  PROVE  TypeInv'
<1> USE DEF Statuses, Documents, InTry, InHandler, TypeInv, TypeOK, DbType,
  MemType, ReqType, RunType, EnvType, HistType, PopReady, PostPath, db, log,
  setups, reqs, local, runs, env, hist, tasks, mem
<1>ReadFresh. CASE ReadFresh(r)
  BY <1>ReadFresh DEF ReadFresh, At
<1>Interject. CASE Interject(r)
  <2> USE <1>Interject DEF Interject, At
  <2>0. Enqueue(r)
    BY DEF Interject
  <2>d. DbType'
    OBVIOUS
  <2>m. MemType'
    OBVIOUS
  <2>e. EnvType'
    OBVIOUS
  <2>h. HistType'
    OBVIOUS
  <2>r. ReqType'
    OBVIOUS
  <2>t. RunType'
    BY <2>0, EnqueueAppends
  <2>p. PopReady' /\ PostPath'
    BY <2>0, EnqueueAppends
  <2> QED BY <2>d, <2>m, <2>e, <2>h, <2>r, <2>t, <2>p DEF TypeInv, TypeOK
<1>Lock. CASE Lock(r)
  BY <1>Lock DEF Lock, At
<1>CreateTask. CASE CreateTask(r)
  BY <1>CreateTask DEF CreateTask, At, Holds
<1>BootFails. CASE BootFails(r)
  BY <1>BootFails DEF BootFails, EndSetup, At, Unregister, Wake
<1>PutFirst. CASE PutFirst(r)
  <2> USE <1>PutFirst DEF PutFirst, At
  <2>0. Enqueue(r)
    BY DEF PutFirst
  <2>d. DbType'
    OBVIOUS
  <2>m. MemType'
    OBVIOUS
  <2>e. EnvType'
    OBVIOUS
  <2>h. HistType'
    OBVIOUS
  <2>r. ReqType'
    OBVIOUS
  <2>t. RunType'
    BY <2>0, EnqueueAppends
  <2>p. PopReady' /\ PostPath'
    BY <2>0, EnqueueAppends
  <2> QED BY <2>d, <2>m, <2>e, <2>h, <2>r, <2>t, <2>p DEF TypeInv, TypeOK
<1>RunTask. CASE RunTask(r)
  <2> USE <1>RunTask DEF RunTask, EndSetup, At, Unregister, Wake, Done
  <2>d. DbType'
    OBVIOUS
  <2>m. MemType' /\ HistType'
    OBVIOUS
  <2>e. EnvType'
    OBVIOUS
  <2>r. ReqType'
    OBVIOUS
  <2>t. RunType'
    OBVIOUS
  <2>p. PopReady' /\ PostPath'
    OBVIOUS
  <2> QED BY <2>d, <2>m, <2>e, <2>r, <2>t, <2>p DEF TypeInv, TypeOK
<1> QED BY <1>ReadFresh, <1>Interject, <1>Lock, <1>CreateTask, <1>BootFails,
  <1>PutFirst, <1>RunTask DEF SetupStep

LEMMA TypeInvRun ==
  ASSUME TypeInv, NEW t \in Tasks, RunStep(t) \/ TimeOut(t)
  PROVE  TypeInv'
<1> USE DEF Statuses, Documents, InTry, InHandler, TypeInv, TypeOK, DbType,
  MemType, ReqType, RunType, EnvType, HistType, PopReady, PostPath, db, log,
  setups, reqs, local, runs, env, hist, tasks, mem
<1>Begin. CASE Begin(t)
  BY <1>Begin DEF Begin, RunAt
<1>Look. CASE Look(t)
  <2> USE <1>Look DEF Look, RunAt
  <2>d. DbType'
    OBVIOUS
  <2>m. MemType' /\ HistType'
    OBVIOUS
  <2>e. EnvType'
    OBVIOUS
  <2>r. ReqType'
    OBVIOUS
  <2>t. RunType'
    OBVIOUS
  <2>p. PopReady' /\ PostPath'
    OBVIOUS
  <2> QED BY <2>d, <2>m, <2>e, <2>r, <2>t, <2>p DEF TypeInv, TypeOK
<1>Pop. CASE Pop(t)
  <2> USE <1>Pop DEF Pop, RunAt
  <2>0. \A s \in Tasks : input[s] # <<>> =>
          Head(input[s]) \in Msgs \cup {Nothing} /\ Tail(input[s]) \in Seq(Msgs \cup {Nothing})
    BY HeadTailProperties
  <2>d. DbType'
    OBVIOUS
  <2>m. MemType'
    OBVIOUS
  <2>e. EnvType'
    OBVIOUS
  <2>h. HistType'
    OBVIOUS
  <2>r. ReqType'
    OBVIOUS
  <2>t. RunType'
    BY <2>0
  <2>p. PopReady' /\ PostPath'
    OBVIOUS
  <2> QED BY <2>d, <2>m, <2>e, <2>h, <2>r, <2>t, <2>p DEF TypeInv, TypeOK
<1>StopByText. CASE StopByText(t)
  BY <1>StopByText DEF StopByText, RunAt, Shows
<1>StopByTextStatus. CASE StopByTextStatus(t)
  BY <1>StopByTextStatus DEF StopByTextStatus, RunAt
<1>EnterFlow. CASE EnterFlow(t)
  <2> USE <1>EnterFlow DEF EnterFlow, RunAt
  <2>d. DbType'
    OBVIOUS
  <2>m. MemType'
    OBVIOUS
  <2>e. EnvType'
    OBVIOUS
  <2>0. \A m \in Msgs : fed[m] + 1 \in Nat
    BY SMT
  <2>h. HistType'
    BY <2>0
  <2>r. ReqType'
    OBVIOUS
  <2>t. RunType'
    OBVIOUS
  <2>p. PopReady' /\ PostPath'
    OBVIOUS
  <2> QED BY <2>d, <2>m, <2>e, <2>h, <2>r, <2>t, <2>p DEF TypeInv, TypeOK
<1>StartFlow. CASE StartFlow(t)
  BY <1>StartFlow DEF StartFlow, RunAt
<1>Work. CASE Work(t)
  <2> USE <1>Work DEF Work, RunAt, OrInterjected
  <2>d. DbType'
    OBVIOUS
  <2>m. MemType' /\ HistType'
    OBVIOUS
  <2>e. EnvType'
    OBVIOUS
  <2>r. ReqType'
    OBVIOUS
  <2>t. RunType'
    OBVIOUS
  <2>p. PopReady' /\ PostPath'
    OBVIOUS
  <2> QED BY <2>d, <2>m, <2>e, <2>r, <2>t, <2>p DEF TypeInv, TypeOK
<1>Summary. CASE Summary(t)
  BY <1>Summary DEF Summary, RunAt, OrInterjected, Shows
<1>FlowDone. CASE FlowDone(t)
  BY <1>FlowDone DEF FlowDone, RunAt
<1>AskUser. CASE AskUser(t)
  BY <1>AskUser DEF AskUser, RunAt
<1>WaitStatus. CASE WaitStatus(t)
  BY <1>WaitStatus DEF WaitStatus, RunAt
<1>Raise. CASE Raise(t)
  BY <1>Raise DEF Raise, RunAt
<1>FailStatus. CASE FailStatus(t)
  BY <1>FailStatus DEF FailStatus, RunAt
<1>Complete. CASE Complete(t)
  BY <1>Complete DEF Complete, RunAt
<1>Notice. CASE Notice(t)
  BY <1>Notice DEF Notice, RunAt, Shows
<1>NoticeDone. CASE NoticeDone(t)
  BY <1>NoticeDone DEF NoticeDone, RunAt
<1>CancelStatus. CASE CancelStatus(t)
  BY <1>CancelStatus DEF CancelStatus, RunAt
<1>Pause. CASE Pause(t)
  <2> USE <1>Pause DEF Pause, RunAt
  <2>d. DbType'
    OBVIOUS
  <2>m. MemType' /\ HistType'
    OBVIOUS
  <2>e. EnvType'
    OBVIOUS
  <2>r. ReqType'
    OBVIOUS
  <2>t. RunType'
    OBVIOUS
  <2>p. PopReady' /\ PostPath'
    OBVIOUS
  <2> QED BY <2>d, <2>m, <2>e, <2>r, <2>t, <2>p DEF TypeInv, TypeOK
<1>TaskDone. CASE TaskDone(t)
  BY <1>TaskDone DEF TaskDone, RunAt
<1>TimeOut. CASE TimeOut(t)
  BY <1>TimeOut DEF TimeOut
<1> QED BY <1>Begin, <1>Look, <1>Pop, <1>StopByText, <1>StopByTextStatus,
  <1>EnterFlow, <1>StartFlow, <1>Work, <1>Summary, <1>FlowDone, <1>AskUser,
  <1>WaitStatus, <1>Raise, <1>FailStatus, <1>Complete, <1>Notice,
  <1>NoticeDone, <1>CancelStatus, <1>Pause, <1>TaskDone, <1>TimeOut DEF RunStep

LEMMA TypeInvStop ==
  ASSUME TypeInv, StopLoad \/ StopTask \/ StopStatus \/ Crash
  PROVE  TypeInv'
<1> USE DEF Statuses, Documents, InTry, InHandler, TypeInv, TypeOK, DbType,
  MemType, ReqType, RunType, EnvType, HistType, PopReady, PostPath, db, log,
  setups, reqs, local, runs, env, hist, tasks, mem
<1>StopLoad. CASE StopLoad
  BY <1>StopLoad, Bounds DEF StopLoad
<1>StopTask. CASE StopTask
  BY <1>StopTask DEF StopTask, Lookup, Done, Interrupted
<1>StopStatus. CASE StopStatus
  BY <1>StopStatus DEF StopStatus, Lookup
<1>Crash. CASE Crash
  BY <1>Crash, Bounds DEF Crash, Attached, Gone, Blank, Reqs
<1> QED BY <1>StopLoad, <1>StopTask, <1>StopStatus, <1>Crash

LEMMA TypeStep == TypeInv /\ [Next]_vars => TypeInv'
<1> SUFFICES ASSUME TypeInv, [Next]_vars PROVE TypeInv'
  OBVIOUS
<1>1. CASE Next
  BY <1>1, TypeInvRequest, TypeInvSetup, TypeInvRun, TypeInvStop DEF Next
<1>2. CASE UNCHANGED vars
  BY <1>2, TypeStutter
<1> QED BY <1>1, <1>2

LEMMA TypeInit == Init => TypeInv
<1> SUFFICES ASSUME Init PROVE TypeInv
  OBVIOUS
<1> USE DEF Init
<1>0. DbType
  BY DEF DbType, Statuses
<1>1. MemType /\ HistType
  BY DEF MemType, HistType
<1>e. EnvType
  BY Bounds DEF EnvType, Statuses
<1>2. ReqType
  BY DEF ReqType, Reqs, Statuses, Blank, Documents
<1>3. RunType /\ PopReady /\ PostPath
  BY DEF RunType, PopReady, PostPath
<1> QED BY <1>0, <1>1, <1>e, <1>2, <1>3 DEF TypeInv, TypeOK

\* Every variable has its type in every reachable state, and a run never pops
\* from an empty input stream.
THEOREM TypeCorrect == Spec => [](TypeOK /\ PopReady)
<1>1. TypeInv => TypeOK /\ PopReady
  BY DEF TypeInv
<1> QED BY <1>1, TypeInit, TypeStep, PTL DEF Spec

-----------------------------------------------------------------------------
(* Every text on its way into a run was sent by the user.                  *)

UserInput ==
  /\ lastEvt \in accepted \cup {Nothing, Evidence}
  /\ latestUser \in accepted \cup {Nothing}
  /\ \A r \in Reqs :
       /\ snap[r].evt \in accepted \cup {Nothing, Evidence}
       /\ snap[r].user \in accepted \cup {Nothing}
       /\ r \in Posts /\ pc[r] \in {"persist", "queue", "join", "wait", "woken", "joined"}
            => Text[r] \in accepted
       /\ Setting(r) => msg[r] \in accepted
  /\ OnlyUserInputIsFed

LEMMA UserInputRequest ==
  ASSUME TypeInv, UserInput, NEW r \in Reqs, ReqStep(r) \/ Load(r) \/ Drop(r)
  PROVE  UserInput'
<1> ReqType /\ RunType /\ PostPath
  BY DEF TypeInv, TypeOK
<1> USE DEF UserInput, OnlyUserInputIsFed, Setting, ReqType, RunType, PostPath, db, log,
  setups, reqs, local, runs, env, hist, tasks, mem
<1>Load. CASE Load(r)
  BY <1>Load DEF Load, Document, Holds, Goto
<1>Reconnect. CASE Reconnect(r)
  BY <1>Reconnect DEF Reconnect, Holds, Goto, Forget, Blank
<1>Accept. CASE Accept(r)
  BY <1>Accept DEF Accept, Holds, Goto
<1>Persist. CASE Persist(r)
  BY <1>Persist DEF Persist, Goto, Forget, Blank
<1>MarkQueued. CASE MarkQueued(r)
  BY <1>MarkQueued DEF MarkQueued, Goto
<1>StartSetup. CASE StartSetup(r)
  BY <1>StartSetup DEF StartSetup, Register, Goto
<1>AwaitInflight. CASE AwaitInflight(r)
  BY <1>AwaitInflight, SetAssumption DEF AwaitInflight, Stranded, Goto, Forget, Blank
<1>Refetch. CASE Refetch(r)
  BY <1>Refetch DEF Refetch, Document, Goto
<1>JoinPost. CASE JoinPost(r)
  BY <1>JoinPost DEF JoinPost, Holds, Register, Goto, Forget, Blank
<1>JoinView. CASE JoinView(r)
  BY <1>JoinView DEF JoinView, Holds, Goto, Forget, Blank
<1>Subscribe. CASE Subscribe(r)
  BY <1>Subscribe DEF Subscribe, Stranded, Unprocessed, Holds, Goto, Forget,
  Blank
<1>Recover. CASE Recover(r)
  BY <1>Recover DEF Recover, Stranded, Unprocessed, Register, Goto, Forget,
  Blank
<1>ResolveStale. CASE ResolveStale(r)
  BY <1>ResolveStale DEF ResolveStale, Stranded, Unprocessed, Goto, Forget,
  Blank
<1>RecoverReturns. CASE RecoverReturns(r)
  BY <1>RecoverReturns DEF RecoverReturns, Unregister, Goto
<1>FailRequest. CASE FailRequest(r)
  BY <1>FailRequest DEF FailRequest, Goto, Gone
<1>Drained. CASE Drained(r)
  BY <1>Drained DEF Drained, Goto, Gone
<1>Drop. CASE Drop(r)
  BY <1>Drop DEF Drop, Attached, Unregister, Goto, Gone, Forget, Blank
<1> QED BY <1>Load, <1>Reconnect, <1>Accept, <1>Persist, <1>MarkQueued,
  <1>StartSetup, <1>AwaitInflight, <1>Refetch, <1>JoinPost, <1>JoinView,
  <1>Subscribe, <1>Recover, <1>ResolveStale, <1>RecoverReturns,
  <1>FailRequest, <1>Drained, <1>Drop DEF ReqStep

LEMMA UserInputSetup ==
  ASSUME TypeInv, UserInput, NEW r \in Reqs, SetupStep(r)
  PROVE  UserInput'
<1> ReqType /\ RunType /\ PostPath
  BY DEF TypeInv, TypeOK
<1> USE DEF UserInput, OnlyUserInputIsFed, Setting, ReqType, RunType, PostPath, db, log,
  setups, reqs, local, runs, env, hist, tasks, mem
<1>ReadFresh. CASE ReadFresh(r)
  BY <1>ReadFresh DEF ReadFresh, At
<1>Interject. CASE Interject(r)
  BY <1>Interject DEF Interject, At, Enqueue
<1>Lock. CASE Lock(r)
  BY <1>Lock DEF Lock, At
<1>CreateTask. CASE CreateTask(r)
  BY <1>CreateTask DEF CreateTask, At, Holds
<1>BootFails. CASE BootFails(r)
  BY <1>BootFails DEF BootFails, EndSetup, At, Unregister, Wake
<1>PutFirst. CASE PutFirst(r)
  BY <1>PutFirst DEF PutFirst, At, Enqueue
<1>RunTask. CASE RunTask(r)
  BY <1>RunTask DEF RunTask, EndSetup, At, Unregister, Wake
<1> QED BY <1>ReadFresh, <1>Interject, <1>Lock, <1>CreateTask, <1>BootFails,
  <1>PutFirst, <1>RunTask DEF SetupStep

LEMMA UserInputRun ==
  ASSUME TypeInv, UserInput, NEW t \in Tasks, RunStep(t) \/ TimeOut(t)
  PROVE  UserInput'
<1> ReqType /\ RunType /\ PostPath
  BY DEF TypeInv, TypeOK
<1> USE DEF UserInput, OnlyUserInputIsFed, Setting, ReqType, RunType, PostPath, db, log,
  setups, reqs, local, runs, env, hist, tasks, mem
<1>Begin. CASE Begin(t)
  BY <1>Begin DEF Begin, RunAt
<1>Look. CASE Look(t)
  BY <1>Look DEF Look, RunAt
<1>Pop. CASE Pop(t)
  <2>1. input[t] \in Seq(accepted) /\ input[t] # <<>>
    BY <1>Pop DEF TypeInv, PopReady, Pop, RunAt
  <2>2. Head(input[t]) \in accepted /\ Tail(input[t]) \in Seq(accepted)
    BY <2>1, HeadTailProperties
  <2> QED BY <1>Pop, <2>2 DEF Pop, RunAt
<1>StopByText. CASE StopByText(t)
  BY <1>StopByText DEF StopByText, RunAt, Shows
<1>StopByTextStatus. CASE StopByTextStatus(t)
  BY <1>StopByTextStatus DEF StopByTextStatus, RunAt
<1>EnterFlow. CASE EnterFlow(t)
  BY <1>EnterFlow DEF EnterFlow, RunAt
<1>StartFlow. CASE StartFlow(t)
  BY <1>StartFlow DEF StartFlow, RunAt
<1>Work. CASE Work(t)
  BY <1>Work DEF Work, RunAt, OrInterjected
<1>Summary. CASE Summary(t)
  BY <1>Summary DEF Summary, RunAt, OrInterjected, Shows
<1>FlowDone. CASE FlowDone(t)
  BY <1>FlowDone DEF FlowDone, RunAt
<1>AskUser. CASE AskUser(t)
  BY <1>AskUser DEF AskUser, RunAt
<1>WaitStatus. CASE WaitStatus(t)
  BY <1>WaitStatus DEF WaitStatus, RunAt
<1>Raise. CASE Raise(t)
  BY <1>Raise DEF Raise, RunAt
<1>FailStatus. CASE FailStatus(t)
  BY <1>FailStatus DEF FailStatus, RunAt
<1>Complete. CASE Complete(t)
  BY <1>Complete DEF Complete, RunAt
<1>Notice. CASE Notice(t)
  BY <1>Notice DEF Notice, RunAt, Shows
<1>NoticeDone. CASE NoticeDone(t)
  BY <1>NoticeDone DEF NoticeDone, RunAt
<1>CancelStatus. CASE CancelStatus(t)
  BY <1>CancelStatus DEF CancelStatus, RunAt
<1>Pause. CASE Pause(t)
  BY <1>Pause DEF Pause, RunAt
<1>TaskDone. CASE TaskDone(t)
  BY <1>TaskDone DEF TaskDone, RunAt
<1>TimeOut. CASE TimeOut(t)
  BY <1>TimeOut DEF TimeOut, InTry, InHandler
<1> QED BY <1>Begin, <1>Look, <1>Pop, <1>StopByText, <1>StopByTextStatus,
  <1>EnterFlow, <1>StartFlow, <1>Work, <1>Summary, <1>FlowDone, <1>AskUser,
  <1>WaitStatus, <1>Raise, <1>FailStatus, <1>Complete, <1>Notice,
  <1>NoticeDone, <1>CancelStatus, <1>Pause, <1>TaskDone, <1>TimeOut DEF RunStep

LEMMA UserInputStop ==
  ASSUME TypeInv, UserInput, StopLoad \/ StopTask \/ StopStatus \/ Crash
  PROVE  UserInput'
<1> ReqType /\ RunType /\ PostPath
  BY DEF TypeInv, TypeOK
<1> USE DEF UserInput, OnlyUserInputIsFed, Setting, ReqType, RunType, PostPath, db, log,
  setups, reqs, local, runs, env, hist, tasks, mem
<1>StopLoad. CASE StopLoad
  BY <1>StopLoad DEF StopLoad
<1>StopTask. CASE StopTask
  BY <1>StopTask DEF StopTask, Interrupted, InTry, Lookup
<1>StopStatus. CASE StopStatus
  BY <1>StopStatus DEF StopStatus
<1>Crash. CASE Crash
  BY <1>Crash DEF Crash, Attached, Gone, Blank
<1> QED BY <1>StopLoad, <1>StopTask, <1>StopStatus, <1>Crash
LEMMA UserInputStep == TypeInv /\ UserInput /\ [Next]_vars => UserInput'
<1> SUFFICES ASSUME TypeInv, UserInput, [Next]_vars PROVE UserInput'
  OBVIOUS
<1>1. CASE Next
  BY <1>1, UserInputRequest, UserInputSetup, UserInputRun, UserInputStop DEF Next
<1>2. CASE UNCHANGED vars
  BY <1>2 DEF UserInput, OnlyUserInputIsFed, Setting,
    vars, db, log, setups, reqs, local, runs, env, hist, tasks, mem
<1> QED BY <1>1, <1>2

\* No run is ever handed a text that the user did not send, however often the
\* process restarts and a page is reloaded: chat() re-feeds from the event log,
\* never from what the agent wrote.
THEOREM UserInputOnly == Spec => []OnlyUserInputIsFed
<1>1. Init => UserInput
  BY DEF Init, UserInput, OnlyUserInputIsFed, Setting, Blank
<1>2. UserInput => OnlyUserInputIsFed
  BY DEF UserInput
<1> QED BY <1>1, <1>2, TypeInit, TypeStep, UserInputStep, PTL DEF Spec
-----------------------------------------------------------------------------
(* The registry of in-flight setups.                                        *)

\* A request whose setup is under way awaits it, or is gone.
SetupPath == \A r \in Reqs : Setting(r) => pc[r] \in {"setup", "idle", "end"}

LEMMA SetupPathRequest ==
  ASSUME TypeInv, SetupPath, NEW r \in Reqs, ReqStep(r) \/ Load(r) \/ Drop(r)
  PROVE  SetupPath'
<1> ReqType
  BY DEF TypeInv, TypeOK
<1> USE DEF SetupPath, Setting, ReqType, db, log, setups, reqs, local, runs, env, hist,
  tasks, mem
<1>Load. CASE Load(r)
  BY <1>Load DEF Load, Document, Holds, Goto
<1>Reconnect. CASE Reconnect(r)
  BY <1>Reconnect DEF Reconnect, Holds, Goto, Forget
<1>Accept. CASE Accept(r)
  BY <1>Accept DEF Accept, Holds, Goto
<1>Persist. CASE Persist(r)
  BY <1>Persist DEF Persist, Goto, Forget
<1>MarkQueued. CASE MarkQueued(r)
  BY <1>MarkQueued DEF MarkQueued, Goto
<1>StartSetup. CASE StartSetup(r)
  BY <1>StartSetup DEF StartSetup, Register, Goto
<1>AwaitInflight. CASE AwaitInflight(r)
  BY <1>AwaitInflight DEF AwaitInflight, Stranded, Goto, Forget
<1>Refetch. CASE Refetch(r)
  BY <1>Refetch DEF Refetch, Document, Goto
<1>JoinPost. CASE JoinPost(r)
  BY <1>JoinPost DEF JoinPost, Holds, Register, Goto, Forget
<1>JoinView. CASE JoinView(r)
  BY <1>JoinView DEF JoinView, Holds, Goto, Forget
<1>Subscribe. CASE Subscribe(r)
  BY <1>Subscribe DEF Subscribe, Stranded, Holds, Goto, Forget
<1>Recover. CASE Recover(r)
  BY <1>Recover DEF Recover, Stranded, Register, Goto, Forget
<1>ResolveStale. CASE ResolveStale(r)
  BY <1>ResolveStale DEF ResolveStale, Stranded, Goto, Forget
<1>RecoverReturns. CASE RecoverReturns(r)
  BY <1>RecoverReturns DEF RecoverReturns, Unregister, Goto
<1>FailRequest. CASE FailRequest(r)
  BY <1>FailRequest DEF FailRequest, Goto, Gone
<1>Drained. CASE Drained(r)
  BY <1>Drained DEF Drained, Goto, Gone
<1>Drop. CASE Drop(r)
  BY <1>Drop DEF Drop, Attached, Recovering, Unregister, Goto, Gone, Forget
<1> QED BY <1>Load, <1>Reconnect, <1>Accept, <1>Persist, <1>MarkQueued,
  <1>StartSetup, <1>AwaitInflight, <1>Refetch, <1>JoinPost, <1>JoinView,
  <1>Subscribe, <1>Recover, <1>ResolveStale, <1>RecoverReturns,
  <1>FailRequest, <1>Drained, <1>Drop DEF ReqStep

LEMMA SetupPathSetup ==
  ASSUME TypeInv, SetupPath, NEW r \in Reqs, SetupStep(r)
  PROVE  SetupPath'
<1> ReqType
  BY DEF TypeInv, TypeOK
<1> USE DEF SetupPath, Setting, ReqType, db, log, setups, reqs, local, runs, env, hist,
  tasks, mem
<1>ReadFresh. CASE ReadFresh(r)
  BY <1>ReadFresh DEF ReadFresh, At
<1>Interject. CASE Interject(r)
  BY <1>Interject DEF Interject, At, Enqueue
<1>Lock. CASE Lock(r)
  BY <1>Lock DEF Lock, At
<1>CreateTask. CASE CreateTask(r)
  BY <1>CreateTask DEF CreateTask, At, Holds
<1>BootFails. CASE BootFails(r)
  BY <1>BootFails DEF BootFails, EndSetup, At, Unregister, Wake
<1>PutFirst. CASE PutFirst(r)
  BY <1>PutFirst DEF PutFirst, At, Enqueue
<1>RunTask. CASE RunTask(r)
  BY <1>RunTask DEF RunTask, EndSetup, At, Unregister, Wake
<1> QED BY <1>ReadFresh, <1>Interject, <1>Lock, <1>CreateTask, <1>BootFails,
  <1>PutFirst, <1>RunTask DEF SetupStep

LEMMA SetupPathRun ==
  ASSUME TypeInv, SetupPath, NEW t \in Tasks, RunStep(t) \/ TimeOut(t)
  PROVE  SetupPath'
<1> ReqType
  BY DEF TypeInv, TypeOK
<1> USE DEF SetupPath, Setting, ReqType, db, log, setups, reqs, local, runs, env, hist,
  tasks, mem
<1>Begin. CASE Begin(t)
  BY <1>Begin DEF Begin, RunAt
<1>Look. CASE Look(t)
  BY <1>Look DEF Look, RunAt
<1>Pop. CASE Pop(t)
  BY <1>Pop DEF Pop, RunAt
<1>StopByText. CASE StopByText(t)
  BY <1>StopByText DEF StopByText, RunAt, Shows
<1>StopByTextStatus. CASE StopByTextStatus(t)
  BY <1>StopByTextStatus DEF StopByTextStatus, RunAt
<1>EnterFlow. CASE EnterFlow(t)
  BY <1>EnterFlow DEF EnterFlow, RunAt
<1>StartFlow. CASE StartFlow(t)
  BY <1>StartFlow DEF StartFlow, RunAt
<1>Work. CASE Work(t)
  BY <1>Work DEF Work, RunAt
<1>Summary. CASE Summary(t)
  BY <1>Summary DEF Summary, RunAt, Shows
<1>FlowDone. CASE FlowDone(t)
  BY <1>FlowDone DEF FlowDone, RunAt
<1>AskUser. CASE AskUser(t)
  BY <1>AskUser DEF AskUser, RunAt
<1>WaitStatus. CASE WaitStatus(t)
  BY <1>WaitStatus DEF WaitStatus, RunAt
<1>Raise. CASE Raise(t)
  BY <1>Raise DEF Raise, RunAt
<1>FailStatus. CASE FailStatus(t)
  BY <1>FailStatus DEF FailStatus, RunAt
<1>Complete. CASE Complete(t)
  BY <1>Complete DEF Complete, RunAt
<1>Notice. CASE Notice(t)
  BY <1>Notice DEF Notice, RunAt, Shows
<1>NoticeDone. CASE NoticeDone(t)
  BY <1>NoticeDone DEF NoticeDone, RunAt
<1>CancelStatus. CASE CancelStatus(t)
  BY <1>CancelStatus DEF CancelStatus, RunAt
<1>Pause. CASE Pause(t)
  BY <1>Pause DEF Pause, RunAt
<1>TaskDone. CASE TaskDone(t)
  BY <1>TaskDone DEF TaskDone, RunAt
<1>TimeOut. CASE TimeOut(t)
  BY <1>TimeOut DEF TimeOut, InTry, InHandler
<1> QED BY <1>Begin, <1>Look, <1>Pop, <1>StopByText, <1>StopByTextStatus,
  <1>EnterFlow, <1>StartFlow, <1>Work, <1>Summary, <1>FlowDone, <1>AskUser,
  <1>WaitStatus, <1>Raise, <1>FailStatus, <1>Complete, <1>Notice,
  <1>NoticeDone, <1>CancelStatus, <1>Pause, <1>TaskDone, <1>TimeOut DEF RunStep

LEMMA SetupPathStop ==
  ASSUME TypeInv, SetupPath, StopLoad \/ StopTask \/ StopStatus \/ Crash
  PROVE  SetupPath'
<1> ReqType
  BY DEF TypeInv, TypeOK
<1> USE DEF SetupPath, Setting, ReqType, db, log, setups, reqs, local, runs, env, hist,
  tasks, mem
<1>StopLoad. CASE StopLoad
  BY <1>StopLoad DEF StopLoad
<1>StopTask. CASE StopTask
  BY <1>StopTask DEF StopTask
<1>StopStatus. CASE StopStatus
  BY <1>StopStatus DEF StopStatus
<1>Crash. CASE Crash
  BY <1>Crash DEF Crash, Attached, Gone
<1> QED BY <1>StopLoad, <1>StopTask, <1>StopStatus, <1>Crash
LEMMA SetupPathStep ==
  ASSUME TypeInv, SetupPath, [Next]_vars
  PROVE  SetupPath'
<1>1. CASE Next
  BY <1>1, SetupPathRequest, SetupPathSetup, SetupPathRun, SetupPathStop DEF Next
<1>2. CASE UNCHANGED vars
  BY <1>2 DEF SetupPath, Setting,
    vars, db, log, setups, reqs, local, runs, env, hist, tasks, mem
<1> QED BY <1>1, <1>2

LEMMA NewestSetupIsRegisteredRequest ==
  ASSUME TypeInv, SetupPath, NewestSetupIsRegistered, ~DropsRecovery, NEW r \in Reqs, ReqStep(r) \/ Load(r) \/ Drop(r)
  PROVE  NewestSetupIsRegistered'
<1> ReqType /\ MemType /\ HistType
  BY DEF TypeInv, TypeOK
<1> USE DEF NewestSetupIsRegistered, Setting, ReqType, MemType, HistType, db, log, setups, reqs, local,
  runs, env, hist, tasks, mem
<1>Load. CASE Load(r)
  BY <1>Load DEF Load, Document, Holds, Goto
<1>Reconnect. CASE Reconnect(r)
  BY <1>Reconnect DEF Reconnect, Holds, Goto, Forget
<1>Accept. CASE Accept(r)
  BY <1>Accept DEF Accept, Holds, Goto
<1>Persist. CASE Persist(r)
  BY <1>Persist DEF Persist, Goto, Forget
<1>MarkQueued. CASE MarkQueued(r)
  BY <1>MarkQueued DEF MarkQueued, Goto
<1>StartSetup. CASE StartSetup(r)
  BY <1>StartSetup DEF StartSetup, Register, Goto
<1>AwaitInflight. CASE AwaitInflight(r)
  BY <1>AwaitInflight DEF AwaitInflight, Stranded, Goto, Forget
<1>Refetch. CASE Refetch(r)
  BY <1>Refetch DEF Refetch, Document, Goto
<1>JoinPost. CASE JoinPost(r)
  BY <1>JoinPost DEF JoinPost, Holds, Register, Goto, Forget
<1>JoinView. CASE JoinView(r)
  BY <1>JoinView DEF JoinView, Holds, Goto, Forget
<1>Subscribe. CASE Subscribe(r)
  BY <1>Subscribe DEF Subscribe, Stranded, Holds, Goto, Forget
<1>Recover. CASE Recover(r)
  BY <1>Recover DEF Recover, Stranded, Register, Goto, Forget
<1>ResolveStale. CASE ResolveStale(r)
  BY <1>ResolveStale DEF ResolveStale, Stranded, Goto, Forget
<1>RecoverReturns. CASE RecoverReturns(r)
  BY <1>RecoverReturns DEF RecoverReturns, Unregister, Goto, SetupPath
<1>FailRequest. CASE FailRequest(r)
  BY <1>FailRequest DEF FailRequest, Goto, Gone
<1>Drained. CASE Drained(r)
  BY <1>Drained DEF Drained, Goto, Gone
<1>Drop. CASE Drop(r)
  BY <1>Drop DEF Drop, Attached, Recovering, Unregister, Goto, Gone, Forget
<1> QED BY <1>Load, <1>Reconnect, <1>Accept, <1>Persist, <1>MarkQueued,
  <1>StartSetup, <1>AwaitInflight, <1>Refetch, <1>JoinPost, <1>JoinView,
  <1>Subscribe, <1>Recover, <1>ResolveStale, <1>RecoverReturns,
  <1>FailRequest, <1>Drained, <1>Drop DEF ReqStep

LEMMA NewestSetupIsRegisteredSetup ==
  ASSUME TypeInv, SetupPath, NewestSetupIsRegistered, ~DropsRecovery, NEW r \in Reqs, SetupStep(r)
  PROVE  NewestSetupIsRegistered'
<1> ReqType /\ MemType /\ HistType
  BY DEF TypeInv, TypeOK
<1> USE DEF NewestSetupIsRegistered, Setting, ReqType, MemType, HistType, db, log, setups, reqs, local,
  runs, env, hist, tasks, mem
<1>ReadFresh. CASE ReadFresh(r)
  BY <1>ReadFresh DEF ReadFresh, At
<1>Interject. CASE Interject(r)
  BY <1>Interject DEF Interject, At, Enqueue
<1>Lock. CASE Lock(r)
  BY <1>Lock DEF Lock, At
<1>CreateTask. CASE CreateTask(r)
  BY <1>CreateTask DEF CreateTask, At, Holds
<1>BootFails. CASE BootFails(r)
  BY <1>BootFails DEF BootFails, EndSetup, At, Unregister, Wake
<1>PutFirst. CASE PutFirst(r)
  BY <1>PutFirst DEF PutFirst, At, Enqueue
<1>RunTask. CASE RunTask(r)
  BY <1>RunTask DEF RunTask, EndSetup, At, Unregister, Wake
<1> QED BY <1>ReadFresh, <1>Interject, <1>Lock, <1>CreateTask, <1>BootFails,
  <1>PutFirst, <1>RunTask DEF SetupStep

LEMMA NewestSetupIsRegisteredRun ==
  ASSUME TypeInv, SetupPath, NewestSetupIsRegistered, ~DropsRecovery, NEW t \in Tasks, RunStep(t) \/ TimeOut(t)
  PROVE  NewestSetupIsRegistered'
<1> ReqType /\ MemType /\ HistType
  BY DEF TypeInv, TypeOK
<1> USE DEF NewestSetupIsRegistered, Setting, ReqType, MemType, HistType, db, log, setups, reqs, local,
  runs, env, hist, tasks, mem
<1>Begin. CASE Begin(t)
  BY <1>Begin DEF Begin, RunAt
<1>Look. CASE Look(t)
  BY <1>Look DEF Look, RunAt
<1>Pop. CASE Pop(t)
  BY <1>Pop DEF Pop, RunAt
<1>StopByText. CASE StopByText(t)
  BY <1>StopByText DEF StopByText, RunAt, Shows
<1>StopByTextStatus. CASE StopByTextStatus(t)
  BY <1>StopByTextStatus DEF StopByTextStatus, RunAt
<1>EnterFlow. CASE EnterFlow(t)
  BY <1>EnterFlow DEF EnterFlow, RunAt
<1>StartFlow. CASE StartFlow(t)
  BY <1>StartFlow DEF StartFlow, RunAt
<1>Work. CASE Work(t)
  BY <1>Work DEF Work, RunAt
<1>Summary. CASE Summary(t)
  BY <1>Summary DEF Summary, RunAt, Shows
<1>FlowDone. CASE FlowDone(t)
  BY <1>FlowDone DEF FlowDone, RunAt
<1>AskUser. CASE AskUser(t)
  BY <1>AskUser DEF AskUser, RunAt
<1>WaitStatus. CASE WaitStatus(t)
  BY <1>WaitStatus DEF WaitStatus, RunAt
<1>Raise. CASE Raise(t)
  BY <1>Raise DEF Raise, RunAt
<1>FailStatus. CASE FailStatus(t)
  BY <1>FailStatus DEF FailStatus, RunAt
<1>Complete. CASE Complete(t)
  BY <1>Complete DEF Complete, RunAt
<1>Notice. CASE Notice(t)
  BY <1>Notice DEF Notice, RunAt, Shows
<1>NoticeDone. CASE NoticeDone(t)
  BY <1>NoticeDone DEF NoticeDone, RunAt
<1>CancelStatus. CASE CancelStatus(t)
  BY <1>CancelStatus DEF CancelStatus, RunAt
<1>Pause. CASE Pause(t)
  BY <1>Pause DEF Pause, RunAt
<1>TaskDone. CASE TaskDone(t)
  BY <1>TaskDone DEF TaskDone, RunAt
<1>TimeOut. CASE TimeOut(t)
  BY <1>TimeOut DEF TimeOut, InTry, InHandler
<1> QED BY <1>Begin, <1>Look, <1>Pop, <1>StopByText, <1>StopByTextStatus,
  <1>EnterFlow, <1>StartFlow, <1>Work, <1>Summary, <1>FlowDone, <1>AskUser,
  <1>WaitStatus, <1>Raise, <1>FailStatus, <1>Complete, <1>Notice,
  <1>NoticeDone, <1>CancelStatus, <1>Pause, <1>TaskDone, <1>TimeOut DEF RunStep

LEMMA NewestSetupIsRegisteredStop ==
  ASSUME TypeInv, SetupPath, NewestSetupIsRegistered, ~DropsRecovery, StopLoad \/ StopTask \/ StopStatus \/ Crash
  PROVE  NewestSetupIsRegistered'
<1> ReqType /\ MemType /\ HistType
  BY DEF TypeInv, TypeOK
<1> USE DEF NewestSetupIsRegistered, Setting, ReqType, MemType, HistType, db, log, setups, reqs, local,
  runs, env, hist, tasks, mem
<1>StopLoad. CASE StopLoad
  BY <1>StopLoad DEF StopLoad
<1>StopTask. CASE StopTask
  BY <1>StopTask DEF StopTask
<1>StopStatus. CASE StopStatus
  BY <1>StopStatus DEF StopStatus
<1>Crash. CASE Crash
  BY <1>Crash DEF Crash, Attached, Gone
<1> QED BY <1>StopLoad, <1>StopTask, <1>StopStatus, <1>Crash
LEMMA NewestSetupIsRegisteredStep ==
  ASSUME TypeInv, SetupPath, NewestSetupIsRegistered, ~DropsRecovery, [Next]_vars
  PROVE  NewestSetupIsRegistered'
<1>1. CASE Next
  BY <1>1, NewestSetupIsRegisteredRequest, NewestSetupIsRegisteredSetup, NewestSetupIsRegisteredRun, NewestSetupIsRegisteredStop DEF Next
<1>2. CASE UNCHANGED vars
  BY <1>2 DEF NewestSetupIsRegistered, Setting,
    vars, db, log, setups, reqs, local, runs, env, hist, tasks, mem
<1> QED BY <1>1, <1>2

\* Unless a view can drop in the middle of its own recovery, a setup that is
\* under way and was not replaced stays registered until it ends: the entry is
\* taken away only by the setup it stands for (the `is setup_task` test).
THEOREM NewestSetupStaysRegistered ==
  ASSUME ~DropsRecovery PROVE Spec => []NewestSetupIsRegistered
<1>1. Init => SetupPath /\ NewestSetupIsRegistered
  BY DEF Init, SetupPath, NewestSetupIsRegistered, Setting
<1>2. TypeInv /\ SetupPath /\ [Next]_vars => SetupPath'
  BY SetupPathStep
<1>3. TypeInv /\ SetupPath /\ NewestSetupIsRegistered /\ [Next]_vars
        => NewestSetupIsRegistered'
  BY NewestSetupIsRegisteredStep
<1> QED BY <1>1, <1>2, <1>3, TypeInit, TypeStep, PTL DEF Spec
-----------------------------------------------------------------------------
(* The output stream of a run that ends has been closed.                    *)

\* A run begins with something to do or on a stream that is closed already,
\* leaves its loop only after a terminal event, and is cancelled without a
\* time-out only by the STOP that takes it out of the registry.
ClosedOnTime ==
  \A t \in Tasks :
    /\ rpc[t] \in {"ready", "poll", "aborted"} => input[t] # <<>> \/ term[t]
    /\ rpc[t] \in {"grace", "complete", "stopdone", "wait", "fail", "closing",
                   "cancelled", "handled", "pausing", "finished"} => term[t]
    /\ rpc[t] \in {"notice", "noticedone"} /\ ~timed[t] => t \notin registry

\* Tasks that requests know have been created in this life of the process, and
\* the one a setup is about to start has its message.
TasksKnown ==
  /\ \A t \in Tasks : /\ t \notin created => rpc[t] = "none"
                      /\ t \in registry => rpc[t] # "dead"
  /\ \A r \in Reqs :
       /\ tk[r] # NoTask => tk[r] \in created /\ rpc[tk[r]] # "dead"
       /\ spc[r] \in {"created", "run"} => tk[r] \in Tasks
       /\ spc[r] = "run" /\ rpc[tk[r]] = "none" => input[tk[r]] # <<>>

Closing == ClosedOnTime /\ TasksKnown

LEMMA ClosingRequest ==
  ASSUME TypeInv, SetupPath, Closing, NEW r \in Reqs, ReqStep(r) \/ Load(r) \/ Drop(r)
  PROVE  Closing'
<1> ReqType /\ RunType /\ MemType
  BY DEF TypeInv, TypeOK
<1> USE DEF Closing, ClosedOnTime, TasksKnown, ReqType, RunType, MemType, db, log, setups, reqs, local,
  runs, env, hist, tasks, mem
<1>Load. CASE Load(r)
  BY <1>Load DEF Load, Setting, Holds, Goto
<1>Reconnect. CASE Reconnect(r)
  <2>1. spc[r] \notin {"created", "run"}
    BY <1>Reconnect DEF Reconnect, SetupPath, Setting
  <2> QED BY <1>Reconnect, <2>1 DEF Reconnect, Lookup, Holds, Goto, Forget
<1>Accept. CASE Accept(r)
  <2>1. spc[r] \notin {"created", "run"}
    BY <1>Accept DEF Accept, SetupPath, Setting
  <2> QED BY <1>Accept, <2>1 DEF Accept, Lookup, Holds, Goto
<1>Persist. CASE Persist(r)
  BY <1>Persist DEF Persist, Goto, Forget
<1>MarkQueued. CASE MarkQueued(r)
  BY <1>MarkQueued DEF MarkQueued, Goto
<1>StartSetup. CASE StartSetup(r)
  BY <1>StartSetup DEF StartSetup, Register, Goto
<1>AwaitInflight. CASE AwaitInflight(r)
  BY <1>AwaitInflight DEF AwaitInflight, Stranded, Lookup, Goto, Forget
<1>Refetch. CASE Refetch(r)
  BY <1>Refetch DEF Refetch, Goto
<1>JoinPost. CASE JoinPost(r)
  BY <1>JoinPost DEF JoinPost, Holds, Lookup, Register, Goto, Forget
<1>JoinView. CASE JoinView(r)
  <2>1. spc[r] \notin {"created", "run"}
    BY <1>JoinView DEF JoinView, SetupPath, Setting
  <2> QED BY <1>JoinView, <2>1 DEF JoinView, Holds, Lookup, Goto, Forget
<1>Subscribe. CASE Subscribe(r)
  <2>1. spc[r] \notin {"created", "run"}
    BY <1>Subscribe DEF Subscribe, SetupPath, Setting, Stranded
  <2> QED BY <1>Subscribe, <2>1 DEF Subscribe, Stranded, Lookup, Holds, Goto, Forget
<1>Recover. CASE Recover(r)
  BY <1>Recover DEF Recover, Stranded, Lookup, Register, Goto, Forget
<1>ResolveStale. CASE ResolveStale(r)
  BY <1>ResolveStale DEF ResolveStale, Stranded, Lookup, Goto, Forget
<1>RecoverReturns. CASE RecoverReturns(r)
  BY <1>RecoverReturns DEF RecoverReturns, Unregister, Goto
<1>FailRequest. CASE FailRequest(r)
  BY <1>FailRequest DEF FailRequest, Goto, Gone
<1>Drained. CASE Drained(r)
  BY <1>Drained DEF Drained, Done, Goto, Gone
<1>Drop. CASE Drop(r)
  BY <1>Drop DEF Drop, Attached, Unregister, Goto, Gone, Forget
<1> QED BY <1>Load, <1>Reconnect, <1>Accept, <1>Persist, <1>MarkQueued,
  <1>StartSetup, <1>AwaitInflight, <1>Refetch, <1>JoinPost, <1>JoinView,
  <1>Subscribe, <1>Recover, <1>ResolveStale, <1>RecoverReturns,
  <1>FailRequest, <1>Drained, <1>Drop DEF ReqStep

LEMMA ClosingSetup ==
  ASSUME TypeInv, SetupPath, Closing, NEW r \in Reqs, SetupStep(r)
  PROVE  Closing'
<1> ReqType /\ RunType /\ MemType
  BY DEF TypeInv, TypeOK
<1> USE DEF Closing, ClosedOnTime, TasksKnown, ReqType, RunType, MemType, db, log, setups, reqs, local,
  runs, env, hist, tasks, mem
<1>ReadFresh. CASE ReadFresh(r)
  BY <1>ReadFresh DEF ReadFresh, At
<1>Interject. CASE Interject(r)
  <2>1. ClosedOnTime'
    BY <1>Interject, EnqueueAppends DEF Interject, TaskLive, Done, At, Enqueue
  <2>2. \A t \in Tasks : /\ t \notin created' => rpc'[t] = "none"
                        /\ t \in registry' => rpc'[t] # "dead"
    BY <1>Interject, EnqueueAppends DEF Interject, TaskLive, Done, At, Enqueue
  <2>3. \A q \in Reqs : tk[q] # NoTask => tk[q] \in created /\ rpc'[tk[q]] # "dead"
    BY <1>Interject, EnqueueAppends DEF Interject, TaskLive, Done, At, Enqueue
  <2>4. \A q \in Reqs : spc'[q] \in {"created", "run"} => tk[q] \in Tasks
    BY <1>Interject, EnqueueAppends DEF Interject, TaskLive, Done, At, Enqueue
  <2>5. \A q \in Reqs : spc'[q] = "run" /\ rpc'[tk[q]] = "none" => input'[tk[q]] # <<>>
    BY <1>Interject, EnqueueAppends DEF Interject, TaskLive, Done, At, Enqueue
  <2> QED BY <1>Interject, <2>1, <2>2, <2>3, <2>4, <2>5 DEF Interject
<1>Lock. CASE Lock(r)
  BY <1>Lock DEF Lock, TaskLive, Done, At
<1>CreateTask. CASE CreateTask(r)
  BY <1>CreateTask DEF CreateTask, At, Holds
<1>BootFails. CASE BootFails(r)
  BY <1>BootFails DEF BootFails, EndSetup, At, Unregister, Wake
<1>PutFirst. CASE PutFirst(r)
  <2>0. /\ spc[r] = "created" /\ spc' = [spc EXCEPT ![r] = "run"] /\ tk[r] \in Tasks
        /\ UNCHANGED <<rpc, term, registry, created, tk, timed>>
    BY <1>PutFirst DEF PutFirst, At
  <2>i. /\ \A t \in Tasks : input[t] # <<>> => input'[t] # <<>>
        /\ input'[tk[r]] # <<>>
    BY <1>PutFirst, <2>0, EnqueueAppends DEF PutFirst
  <2>1. ClosedOnTime'
    BY <2>0, <2>i
  <2>2. \A t \in Tasks : /\ t \notin created' => rpc'[t] = "none"
                         /\ t \in registry' => rpc'[t] # "dead"
    BY <2>0
  <2>3. \A q \in Reqs : tk'[q] # NoTask => tk'[q] \in created' /\ rpc'[tk'[q]] # "dead"
    BY <2>0
  <2>4. \A q \in Reqs : spc'[q] \in {"created", "run"} => tk'[q] \in Tasks
    BY <2>0
  <2>5. \A q \in Reqs : spc'[q] = "run" /\ rpc'[tk'[q]] = "none" => input'[tk'[q]] # <<>>
    BY <2>0, <2>i, <2>4
  <2> QED BY <2>1, <2>2, <2>3, <2>4, <2>5
<1>RunTask. CASE RunTask(r)
  <2> USE <1>RunTask DEF RunTask
  <2>1. tk[r] \in Tasks /\ tk[r] \in created /\ rpc[tk[r]] # "dead"
    BY SetAssumption DEF EndSetup, At
  <2>2. Done(tk[r]) => input[tk[r]] # <<>> \/ term[tk[r]]
    BY <2>1 DEF EndSetup, At, Done
  <2>3. /\ \A t \in Tasks : rpc'[t] = IF t = tk[r] /\ Done(t) THEN "ready" ELSE rpc[t]
        /\ UNCHANGED <<tk, created, registry, input, term, timed>>
    OBVIOUS
  <2>4. ClosedOnTime'
    BY <2>2, <2>3
  <2>5. \A q \in Reqs : spc'[q] \in {"created", "run"} => spc'[q] = spc[q]
    BY DEF EndSetup, At
  <2>6. TasksKnown'
    BY <2>1, <2>3, <2>5
  <2> QED BY <2>4, <2>6
<1> QED BY <1>ReadFresh, <1>Interject, <1>Lock, <1>CreateTask, <1>BootFails,
  <1>PutFirst, <1>RunTask DEF SetupStep

LEMMA ClosingRun ==
  ASSUME TypeInv, SetupPath, Closing, NEW t \in Tasks, RunStep(t) \/ TimeOut(t)
  PROVE  Closing'
<1> ReqType /\ RunType /\ MemType
  BY DEF TypeInv, TypeOK
<1> USE DEF Closing, ClosedOnTime, TasksKnown, ReqType, RunType, MemType, db, log, setups, reqs, local,
  runs, env, hist, tasks, mem
<1>Begin. CASE Begin(t)
  BY <1>Begin DEF Begin, RunAt
<1>Look. CASE Look(t)
  BY <1>Look DEF Look, RunAt
<1>Pop. CASE Pop(t)
  BY <1>Pop DEF Pop, RunAt
<1>StopByText. CASE StopByText(t)
  BY <1>StopByText DEF StopByText, RunAt, Shows
<1>StopByTextStatus. CASE StopByTextStatus(t)
  BY <1>StopByTextStatus DEF StopByTextStatus, RunAt
<1>EnterFlow. CASE EnterFlow(t)
  BY <1>EnterFlow DEF EnterFlow, RunAt
<1>StartFlow. CASE StartFlow(t)
  BY <1>StartFlow DEF StartFlow, RunAt
<1>Work. CASE Work(t)
  BY <1>Work DEF Work, RunAt, OrInterjected
<1>Summary. CASE Summary(t)
  BY <1>Summary DEF Summary, RunAt, OrInterjected, Shows
<1>FlowDone. CASE FlowDone(t)
  BY <1>FlowDone DEF FlowDone, RunAt
<1>AskUser. CASE AskUser(t)
  BY <1>AskUser DEF AskUser, RunAt
<1>WaitStatus. CASE WaitStatus(t)
  BY <1>WaitStatus DEF WaitStatus, RunAt
<1>Raise. CASE Raise(t)
  BY <1>Raise DEF Raise, RunAt
<1>FailStatus. CASE FailStatus(t)
  BY <1>FailStatus DEF FailStatus, RunAt
<1>Complete. CASE Complete(t)
  BY <1>Complete DEF Complete, RunAt
<1>Notice. CASE Notice(t)
  BY <1>Notice DEF Notice, RunAt, Shows
<1>NoticeDone. CASE NoticeDone(t)
  BY <1>NoticeDone DEF NoticeDone, RunAt
<1>CancelStatus. CASE CancelStatus(t)
  BY <1>CancelStatus DEF CancelStatus, RunAt
<1>Pause. CASE Pause(t)
  BY <1>Pause DEF Pause, RunAt
<1>TaskDone. CASE TaskDone(t)
  BY <1>TaskDone DEF TaskDone, RunAt
<1>TimeOut. CASE TimeOut(t)
  BY <1>TimeOut DEF TimeOut, InTry, InHandler
<1> QED BY <1>Begin, <1>Look, <1>Pop, <1>StopByText, <1>StopByTextStatus,
  <1>EnterFlow, <1>StartFlow, <1>Work, <1>Summary, <1>FlowDone, <1>AskUser,
  <1>WaitStatus, <1>Raise, <1>FailStatus, <1>Complete, <1>Notice,
  <1>NoticeDone, <1>CancelStatus, <1>Pause, <1>TaskDone, <1>TimeOut DEF RunStep

LEMMA ClosingStop ==
  ASSUME TypeInv, SetupPath, Closing, StopLoad \/ StopTask \/ StopStatus \/ Crash
  PROVE  Closing'
<1> ReqType /\ RunType /\ MemType
  BY DEF TypeInv, TypeOK
<1> USE DEF Closing, ClosedOnTime, TasksKnown, ReqType, RunType, MemType, db, log, setups, reqs, local,
  runs, env, hist, tasks, mem
<1>StopLoad. CASE StopLoad
  BY <1>StopLoad DEF StopLoad
<1>StopTask. CASE StopTask
  <2> DEFINE t == Lookup(stopSnap)
  <2> USE <1>StopTask DEF StopTask
  <2>1. t \in registry /\ t \in created /\ t \in Tasks
    BY DEF Lookup
  <2>2. /\ rpc' = [rpc EXCEPT ![t] = IF Done(t) THEN @ ELSE Interrupted(t)]
        /\ registry' = registry \ {t}
        /\ UNCHANGED <<tk, spc, created, input, term, timed>>
    OBVIOUS
  <2> HIDE <1>StopTask DEF t, StopTask
  <2>3. CASE Done(t)
    <3>1. rpc' = rpc
      BY <2>2, <2>3
    <3> QED BY <2>2, <3>1
  <2>4. CASE ~Done(t)
    <3>1. rpc' = [rpc EXCEPT ![t] = Interrupted(t)]
      BY <2>2, <2>4
    <3>2. /\ Interrupted(t) \in {"aborted", "notice", "finished", "pausing"}
          /\ Interrupted(t) = "aborted" => input[t] # <<>> \/ term[t]
          /\ Interrupted(t) \in {"finished", "pausing"} => term[t]
      BY <2>1, <2>4 DEF Interrupted, InTry, InHandler, Done
    <3>3. ClosedOnTime'
      BY <2>1, <2>2, <3>1, <3>2
    <3>4. /\ \A u \in Tasks : u # t => rpc'[u] = rpc[u]
          /\ rpc'[t] \notin {"none", "dead"}
      BY <2>1, <3>1, <3>2
    <3>5. TasksKnown'
      BY <2>1, <2>2, <3>4
    <3> QED BY <3>3, <3>5
  <2> QED BY <2>3, <2>4
<1>StopStatus. CASE StopStatus
  BY <1>StopStatus DEF StopStatus, Lookup
<1>Crash. CASE Crash
  BY <1>Crash DEF Crash, Attached, Gone, Reqs
<1> QED BY <1>StopLoad, <1>StopTask, <1>StopStatus, <1>Crash
LEMMA ClosingStep ==
  ASSUME TypeInv, SetupPath, Closing, [Next]_vars
  PROVE  Closing'
<1>1. CASE Next
  BY <1>1, ClosingRequest, ClosingSetup, ClosingRun, ClosingStop DEF Next
<1>2. CASE UNCHANGED vars
  BY <1>2 DEF Closing, ClosedOnTime, TasksKnown,
    vars, db, log, setups, reqs, local, runs, env, hist, tasks, mem
<1> QED BY <1>1, <1>2

\* Whatever ends a run (its last message, a question, an error, a stop word, STOP
\* or the time limit, and STOP on top of the time limit), its output stream has
\* been closed with a terminal event: no client drains it in vain.
THEOREM FinishedRunsAreClosed == Spec => []FinishedRunIsClosed
<1>1. Init => SetupPath /\ Closing
  BY DEF Init, SetupPath, Setting, Closing, ClosedOnTime, TasksKnown
<1>2. TypeInv /\ SetupPath /\ [Next]_vars => SetupPath'
  BY SetupPathStep
<1>3. TypeInv /\ SetupPath /\ Closing /\ [Next]_vars => Closing'
  BY ClosingStep
<1>4. Closing => FinishedRunIsClosed
  BY DEF Closing, ClosedOnTime, FinishedRunIsClosed
<1> QED BY <1>1, <1>2, <1>3, <1>4, TypeInit, TypeStep, PTL DEF Spec

-----------------------------------------------------------------------------
(* One tab, STOP never pressed, the reads of the session as fast as the      *)
(* decisions on them, and posts that meet an idle session: the user sends    *)
(* only when nothing runs, or once.                                          *)
OneAtATime ==
  /\ SingleTab /\ ~SlowReads /\ ~DropsRecovery /\ MaxStops = 0
  /\ Patient \/ \A p, q \in Posts : p = q

OneTab == \A q, r \in Reqs : Attached(q) /\ Attached(r) => q = r
NoStop == stopPc = "idle" /\ stops = 0

(* What works on the session can be found: a setup in _inflight_setups, an   *)
(* execution through task_id and the registry.                               *)
SetupIsRegistered == \A r \in Reqs : Setting(r) => inflight = r
LiveIsPublished == \A t \in Tasks : ~Done(t) => t \in registry /\ dbTask = t
Published ==
  \A r \in Reqs : spc[r] \in {"created", "run"} => tk[r] \in registry /\ dbTask = tk[r]

(* A setup, and a post on its way to one, have the session to themselves.    *)
Coming(r) == r \in Posts /\ pc[r] \in {"decide", "persist", "queue", "join"}
SetupIsAlone == (\E r \in Reqs : Setting(r)) => \A t \in Tasks : Done(t)
PostIsAlone == (\E r \in Reqs : Coming(r)) => Quiet
PostsNeverWait == \A r \in Posts : pc[r] \notin {"wait", "woken", "joined"}

(* What a request decides on is what the session is.                         *)
ReadIsExact == \A r \in Reqs : pc[r] = "decide" => snap[r] = Document

(* Before the first post nothing has happened.                               *)
Untouched ==
  /\ created = {} /\ dbTask = NoTask /\ lastEvt = Nothing /\ latestUser = Nothing
  /\ status = "PENDING"
  /\ \A t \in Tasks : rpc[t] = "none"
  /\ \A r \in Reqs : spc[r] = "none" /\ pc[r] \in {"idle", "decide"}
StartsUntouched == (\A p \in Posts : pc[p] = "idle") => Untouched

AloneInv ==
  /\ OneTab /\ NoStop /\ SetupIsRegistered /\ LiveIsPublished /\ Published
  /\ SetupIsAlone /\ PostIsAlone /\ PostsNeverWait /\ ReadIsExact /\ StartsUntouched

-----------------------------------------------------------------------------
(* Who can take a step, and what it touches *)

LEMMA RequestIsAttached ==
  ASSUME NEW r \in Reqs, ReqStep(r) \/ Drop(r)
  PROVE  Attached(r)
BY DEF ReqStep, Attached, Reconnect, Accept, Persist, MarkQueued, StartSetup, AwaitInflight,
  Stranded, Refetch, JoinPost, JoinView, Subscribe, Recover, ResolveStale, RecoverReturns,
  FailRequest, Drained, Drop

LEMMA SetupIsSetting ==
  ASSUME NEW r \in Reqs, SetupStep(r)
  PROVE  Setting(r)
BY DEF SetupStep, Setting, ReadFresh, Interject, Lock, CreateTask, BootFails, PutFirst, RunTask,
  EndSetup, At

LEMMA RunIsLive ==
  ASSUME NEW t \in Tasks, RunStep(t) \/ TimeOut(t)
  PROVE  ~Done(t)
BY DEF RunStep, TimeOut, Done, InTry, InHandler, RunAt, Begin, Look, Pop, StopByText,
  StopByTextStatus, EnterFlow, StartFlow, Work, Summary, FlowDone, AskUser, WaitStatus, Raise,
  FailStatus, Complete, Notice, NoticeDone, CancelStatus, Pause, TaskDone

\* A request starts a setup of its own.
Begins(r) ==
  /\ spc'[r] \in {"fresh", "choose"} /\ inflight' = r /\ pc'[r] = "setup"
  /\ \/ r \in Posts /\ pc[r] = "join" /\ ~InflightAlive
     \/ r \in Posts /\ pc[r] = "joined"
     \/ Stranded(r) /\ ~InflightAlive

\* A request goes on: where it may wait, and which path a post is on.
GoesOn(r) ==
  /\ pc'[r] = "wait" => InflightAlive /\ (pc[r] = "join" \/ r \in Views)
  /\ pc'[r] # "woken"
  /\ r \in Posts => pc'[r] # "idle"
  /\ pc'[r] = "joined" => pc[r] = "woken"
  /\ pc'[r] \in {"persist", "queue", "join"} => pc[r] \in {"decide", "persist", "queue"}
  /\ pc'[r] = "decide" => pc[r] = "idle" /\ MayStart(r) /\ UNCHANGED db /\ snap'[r] = Document

LEMMA RequestMoves ==
  ASSUME TypeInv, SetupPath, ~DropsRecovery, NEW r \in Reqs,
         ReqStep(r) \/ Load(r) \/ Drop(r)
  PROVE  /\ UNCHANGED <<dbTask, registry, created, rpc, input, cur, stopPc, stops, crashes, fed>>
         /\ \A q \in Reqs : q # r =>
              /\ pc'[q] = pc[q] /\ snap'[q] = snap[q] /\ spc'[q] = spc[q]
              /\ tk'[q] = tk[q] /\ msg'[q] = msg[q]
         /\ \/ Begins(r)
            \/ /\ spc'[r] = spc[r] /\ msg'[r] = msg[r]
               /\ inflight' = inflight \/ (pc[r] = "recovered" /\ inflight = r)
         /\ GoesOn(r)
         /\ Setting(r) => tk'[r] = tk[r]
<1> ReqType
  BY DEF TypeInv, TypeOK
<1> Posts \cap Views = {}
  BY SetAssumption
<1> USE DEF Begins, GoesOn, SetupPath, Setting, ReqType, db, log, setups, reqs, local, runs, env,
  hist, tasks, mem
<1>Load. CASE Load(r)
  BY <1>Load DEF Load, Holds, Goto
<1>Reconnect. CASE Reconnect(r)
  BY <1>Reconnect DEF Reconnect, Holds, Goto, Forget
<1>Accept. CASE Accept(r)
  BY <1>Accept DEF Accept, Holds, Goto
<1>Persist. CASE Persist(r)
  BY <1>Persist DEF Persist, Goto, Forget
<1>MarkQueued. CASE MarkQueued(r)
  BY <1>MarkQueued DEF MarkQueued, Goto
<1>StartSetup. CASE StartSetup(r)
  BY <1>StartSetup DEF StartSetup, Register, Goto, TypeInv, PostPath
<1>AwaitInflight. CASE AwaitInflight(r)
  BY <1>AwaitInflight DEF AwaitInflight, Stranded, Goto, Forget
<1>Refetch. CASE Refetch(r)
  BY <1>Refetch DEF Refetch, Document, Goto
<1>JoinPost. CASE JoinPost(r)
  BY <1>JoinPost DEF JoinPost, Holds, Register, Goto, Forget
<1>JoinView. CASE JoinView(r)
  BY <1>JoinView DEF JoinView, Holds, Goto, Forget
<1>Subscribe. CASE Subscribe(r)
  BY <1>Subscribe DEF Subscribe, Holds, Goto, Forget
<1>Recover. CASE Recover(r)
  <2>1. Stranded(r)
    BY <1>Recover DEF Recover
  <2>2. pc[r] = "decide"
    BY <2>1 DEF Stranded
  <2> QED BY <1>Recover, <2>1, <2>2 DEF Recover, Register, Goto, Forget
<1>ResolveStale. CASE ResolveStale(r)
  BY <1>ResolveStale DEF ResolveStale, Stranded, Goto, Forget
<1>RecoverReturns. CASE RecoverReturns(r)
  BY <1>RecoverReturns DEF RecoverReturns, Unregister, Goto
<1>FailRequest. CASE FailRequest(r)
  BY <1>FailRequest DEF FailRequest, Goto, Gone
<1>Drained. CASE Drained(r)
  BY <1>Drained DEF Drained, Goto, Gone
<1>Drop. CASE Drop(r)
  BY <1>Drop DEF Drop, Attached, Recovering, Unregister, Goto, Gone, Forget
<1> QED BY <1>Load, <1>Reconnect, <1>Accept, <1>Persist, <1>MarkQueued,
  <1>StartSetup, <1>AwaitInflight, <1>Refetch, <1>JoinPost, <1>JoinView,
  <1>Subscribe, <1>Recover, <1>ResolveStale, <1>RecoverReturns,
  <1>FailRequest, <1>Drained, <1>Drop DEF ReqStep

\* A setup that takes a step, and whom it wakes at its end.
LEMMA SetupMoves ==
  ASSUME TypeInv, NEW r \in Reqs, SetupStep(r)
  PROVE  /\ UNCHANGED <<status, latestUser, log, snap, stopPc, stops, crashes, accepted, fed, cur>>
         /\ inflight' = inflight \/ (inflight = r /\ ~Setting(r)')
         /\ \A q \in Reqs : q # r => spc'[q] = spc[q] /\ tk'[q] = tk[q]
         /\ msg' = msg
         /\ \A q \in Reqs : pc'[q] = pc[q]
              \/ /\ pc[q] \in {"setup", "wait"}
                 /\ pc'[q] \in {"drain", "error", "recovered", "woken"}
                 /\ pc'[q] = "woken" => pc[q] = "wait"
         /\ \/ RunTask(r) /\ spc[r] = "run" /\ ~Setting(r)'
            \/ Interject(r)
            \/ /\ rpc' = rpc
               /\ \/ spc'[r] \notin {"created", "run"} /\ UNCHANGED <<dbTask, registry, tk, input>>
                  \/ CreateTask(r) /\ spc'[r] = "created"
                  \/ PutFirst(r) /\ spc[r] = "created" /\ UNCHANGED <<dbTask, registry, tk>>
<1> ReqType
  BY DEF TypeInv, TypeOK
<1> USE DEF Setting, ReqType, At, db, log, setups, reqs, local, runs, env, hist, tasks, mem
<1>ReadFresh. CASE ReadFresh(r)
  BY <1>ReadFresh DEF ReadFresh
<1>Interject. CASE Interject(r)
  BY <1>Interject DEF Interject
<1>Lock. CASE Lock(r)
  BY <1>Lock DEF Lock
<1>CreateTask. CASE CreateTask(r)
  BY <1>CreateTask DEF CreateTask, Holds
<1>BootFails. CASE BootFails(r)
  BY <1>BootFails DEF BootFails, EndSetup, Unregister, Wake
<1>PutFirst. CASE PutFirst(r)
  BY <1>PutFirst DEF PutFirst
<1>RunTask. CASE RunTask(r)
  BY <1>RunTask DEF RunTask, EndSetup, Unregister, Wake
<1> QED BY <1>ReadFresh, <1>Interject, <1>Lock, <1>CreateTask, <1>BootFails,
  <1>PutFirst, <1>RunTask DEF SetupStep

\* A run that takes a step works on its own task, on the log and the status.
LEMMA RunMoves ==
  ASSUME TypeInv, NEW t \in Tasks, RunStep(t) \/ TimeOut(t)
  PROVE  /\ UNCHANGED <<reqs, inflight, dbTask, latestUser, created, stopPc, stops, crashes,
                       accepted>>
         /\ \A u \in Tasks : u # t => rpc'[u] = rpc[u] /\ input'[u] = input[u] /\ cur'[u] = cur[u]
         /\ rpc'[t] \notin {"none", "dead", "ready"}
         /\ registry' = registry \/ (registry' = registry \ {t} /\ rpc'[t] = "finished")
<1> RunType
  BY DEF TypeInv, TypeOK
<1> USE DEF RunType, RunAt, db, log, setups, reqs, local, runs, env, hist, tasks, mem
<1>Begin. CASE Begin(t)
  BY <1>Begin DEF Begin
<1>Look. CASE Look(t)
  BY <1>Look DEF Look
<1>Pop. CASE Pop(t)
  BY <1>Pop DEF Pop
<1>StopByText. CASE StopByText(t)
  BY <1>StopByText DEF StopByText
<1>StopByTextStatus. CASE StopByTextStatus(t)
  BY <1>StopByTextStatus DEF StopByTextStatus
<1>EnterFlow. CASE EnterFlow(t)
  BY <1>EnterFlow DEF EnterFlow
<1>StartFlow. CASE StartFlow(t)
  BY <1>StartFlow DEF StartFlow
<1>Work. CASE Work(t)
  BY <1>Work DEF Work, OrInterjected
<1>Summary. CASE Summary(t)
  BY <1>Summary DEF Summary, OrInterjected
<1>FlowDone. CASE FlowDone(t)
  BY <1>FlowDone DEF FlowDone
<1>AskUser. CASE AskUser(t)
  BY <1>AskUser DEF AskUser
<1>WaitStatus. CASE WaitStatus(t)
  BY <1>WaitStatus DEF WaitStatus
<1>Raise. CASE Raise(t)
  BY <1>Raise DEF Raise
<1>FailStatus. CASE FailStatus(t)
  BY <1>FailStatus DEF FailStatus
<1>Complete. CASE Complete(t)
  BY <1>Complete DEF Complete
<1>Notice. CASE Notice(t)
  BY <1>Notice DEF Notice
<1>NoticeDone. CASE NoticeDone(t)
  BY <1>NoticeDone DEF NoticeDone
<1>CancelStatus. CASE CancelStatus(t)
  BY <1>CancelStatus DEF CancelStatus
<1>Pause. CASE Pause(t)
  BY <1>Pause DEF Pause
<1>TaskDone. CASE TaskDone(t)
  BY <1>TaskDone DEF TaskDone
<1>TimeOut. CASE TimeOut(t)
  BY <1>TimeOut DEF TimeOut
<1> QED BY <1>Begin, <1>Look, <1>Pop, <1>StopByText, <1>StopByTextStatus,
  <1>EnterFlow, <1>StartFlow, <1>Work, <1>Summary, <1>FlowDone, <1>AskUser,
  <1>WaitStatus, <1>Raise, <1>FailStatus, <1>Complete, <1>Notice,
  <1>NoticeDone, <1>CancelStatus, <1>Pause, <1>TaskDone, <1>TimeOut DEF RunStep

\* Before the first post a view finds nothing to do.
LEMMA UntouchedStays ==
  ASSUME TypeInv, Untouched, ReadIsExact, NEW r \in Views, ReqStep(r) \/ Load(r) \/ Drop(r)
  PROVE  /\ UNCHANGED <<created, dbTask, lastEvt, latestUser, status, rpc, spc>>
         /\ pc'[r] \in {"idle", "decide"}
         /\ \A q \in Reqs : q # r => pc'[q] = pc[q]
<1> ReqType /\ MemType /\ r \in Reqs /\ Posts \cap Views = {}
  BY SetAssumption DEF TypeInv, TypeOK, Reqs
<1>0. pc[r] \in {"idle", "decide"} /\ ~InflightAlive
  <2>1. \A q \in Reqs : ~Setting(q)
    BY DEF Untouched, Setting
  <2> QED BY <2>1 DEF Untouched, InflightAlive, MemType
<1>1. pc[r] = "decide" => Unprocessed(snap[r]) = Nothing /\ snap[r].status = "PENDING"
  BY DEF ReadIsExact, Document, Unprocessed, Untouched
<1>2. Load(r) \/ Subscribe(r) \/ Drop(r)
  BY <1>0, <1>1 DEF ReqStep, Reconnect, Accept, Persist, MarkQueued, StartSetup, AwaitInflight,
    Stranded, Refetch, JoinPost, JoinView, Recover, ResolveStale, StaleStatuses, RecoverReturns,
    FailRequest, Drained
<1>3. Lookup(snap[r]) = NoTask \/ pc[r] = "idle"
  <2>1. pc[r] = "decide" => snap[r].task = NoTask
    BY DEF ReadIsExact, Document, Untouched
  <2> QED BY <1>0, <2>1 DEF Lookup
<1> USE DEF ReqType, Goto, Holds, Forget, db, log, setups, reqs, local, runs, env, hist, tasks, mem
<1>4. CASE Load(r)
  BY <1>4 DEF Load
<1>5. CASE Subscribe(r)
  BY <1>3, <1>5 DEF Subscribe
<1>6. CASE Drop(r)
  BY <1>6 DEF Drop, Gone
<1> QED BY <1>2, <1>4, <1>5, <1>6

\* With one tab only one request moves.
LEMMA OneMoves ==
  ASSUME OneAtATime, OneTab, NEW r \in Reqs, ReqStep(r) \/ Load(r) \/ Drop(r)
  PROVE  \A q \in Reqs : q # r => ~Attached(q)
<1>1. CASE Load(r)
  BY <1>1 DEF OneAtATime, Load, MayStart
<1>2. CASE ReqStep(r) \/ Drop(r)
  BY <1>2, RequestIsAttached DEF OneTab
<1> QED BY <1>1, <1>2

LEMMA NoInflight ==
  ASSUME MemType, SetupIsRegistered, ~InflightAlive
  PROVE  \A r \in Reqs : ~Setting(r)
BY SetAssumption DEF SetupIsRegistered, InflightAlive, MemType

LEMMA QuietIsFree == ASSUME MemType, Quiet PROVE ~InflightAlive
BY DEF Quiet, InflightAlive, MemType

LEMMA FoundIfLive ==
  ASSUME MemType, LiveIsPublished, NEW doc, doc = Document, Lookup(doc) = NoTask
  PROVE  \A t \in Tasks : Done(t)
BY SetAssumption DEF MemType, LiveIsPublished, Document, Lookup

\* A request that starts a setup finds the session idle.
LEMMA BeginsAlone ==
  ASSUME TypeInv, AloneInv, NEW r \in Reqs, Begins(r)
  PROVE  /\ \A q \in Reqs : ~Setting(q)
         /\ \A t \in Tasks : Done(t)
<1> USE DEF AloneInv
<1> MemType
  BY DEF TypeInv, TypeOK
<1>1. CASE r \in Posts /\ pc[r] = "join"
  BY <1>1 DEF PostIsAlone, Coming, Quiet
<1>2. CASE Stranded(r) /\ ~InflightAlive
  <2>1. \A q \in Reqs : ~Setting(q)
    BY <1>2, NoInflight
  <2>2. snap[r] = Document /\ Lookup(snap[r]) = NoTask
    BY <1>2 DEF Stranded, ReadIsExact
  <2> QED BY <2>1, <2>2, FoundIfLive
<1> QED BY <1>1, <1>2 DEF Begins, PostsNeverWait

LEMMA AloneRequest ==
  ASSUME OneAtATime, TypeInv, SetupPath, AloneInv, NEW r \in Reqs, Undisturbed(r),
         ReqStep(r) \/ Load(r) \/ Drop(r)
  PROVE  AloneInv'
<1> ReqType /\ MemType /\ Posts \cap Views = {}
  BY SetAssumption DEF TypeInv, TypeOK
<1>m. /\ UNCHANGED <<dbTask, registry, created, rpc, input, cur, stopPc, stops, crashes, fed>>
      /\ \A q \in Reqs : q # r =>
           /\ pc'[q] = pc[q] /\ snap'[q] = snap[q] /\ spc'[q] = spc[q]
           /\ tk'[q] = tk[q] /\ msg'[q] = msg[q]
      /\ \/ Begins(r)
         \/ /\ spc'[r] = spc[r] /\ msg'[r] = msg[r]
            /\ inflight' = inflight \/ (pc[r] = "recovered" /\ inflight = r)
      /\ GoesOn(r)
      /\ Setting(r) => tk'[r] = tk[r]
  BY RequestMoves DEF OneAtATime
<1>o. \A q \in Reqs : q # r => ~Attached(q) /\ ~Attached(q)'
  BY <1>m, OneMoves DEF AloneInv, Attached
<1>d. \A t \in Tasks : Done(t)' <=> Done(t)
  BY <1>m DEF Done
<1>s. \A q \in Reqs : q # r => (Setting(q)' <=> Setting(q))
  BY <1>m DEF Setting
<1>b. ~Begins(r) => (Setting(r)' <=> Setting(r))
  BY <1>m DEF Setting
<1>1. OneTab' /\ NoStop'
  BY <1>m, <1>o DEF OneTab, AloneInv, NoStop
<1>2. SetupIsRegistered'
  <2>1. CASE Begins(r)
    BY <2>1, <1>s, BeginsAlone DEF SetupIsRegistered, Begins
  <2>2. CASE ~Begins(r)
    BY <2>2, <1>m, <1>s, <1>b DEF SetupIsRegistered, AloneInv, SetupPath
  <2> QED BY <2>1, <2>2
<1>3. LiveIsPublished'
  BY <1>m, <1>d DEF LiveIsPublished, AloneInv
<1>4. Published'
  BY <1>m DEF Published, AloneInv, Begins, Setting
<1>5. SetupIsAlone'
  BY <1>m, <1>s, <1>b, <1>d, BeginsAlone DEF SetupIsAlone, AloneInv
<1>6. PostIsAlone'
  <2> SUFFICES ASSUME NEW q \in Reqs, Coming(q)' PROVE Quiet'
    BY DEF PostIsAlone
  <2>1. q = r /\ r \in Posts
    BY <1>o DEF Coming, Attached
  <2>2. Quiet
    <3>1. CASE pc'[r] = "decide"
      <4>1. MayStart(r) /\ pc[r] = "idle"
        BY <1>m, <3>1 DEF GoesOn
      <4>2. Patient \/ Untouched
        <5>1. \A p, s \in Posts : p = s => \A u \in Posts : u = r => pc[u] = "idle"
          BY <4>1
        <5>2. ASSUME \A p, s \in Posts : p = s PROVE Untouched
          BY <2>1, <4>1, <5>2 DEF StartsUntouched, AloneInv
        <5> QED BY <5>2 DEF OneAtATime
      <4> QED BY <2>1, <4>1, <4>2 DEF MayStart, Untouched, Quiet, Done, Setting
    <3>2. CASE pc'[r] # "decide"
      BY <1>m, <2>1, <3>2 DEF GoesOn, Coming, PostIsAlone, AloneInv
    <3> QED BY <3>1, <3>2
  <2>3. ~Begins(r)
    BY <2>1 DEF Coming, Begins
  <2> QED BY <1>d, <1>s, <1>b, <2>2, <2>3 DEF Quiet
<1>7. PostsNeverWait'
  <2>1. r \in Posts /\ pc[r] = "join" => ~InflightAlive
    BY QuietIsFree DEF PostIsAlone, Coming, AloneInv
  <2> QED BY <1>m, <2>1 DEF PostsNeverWait, AloneInv, GoesOn, Reqs
<1>8. ReadIsExact'
  <2>1. \A q \in Reqs : q # r => pc[q] # "decide"
    BY DEF Undisturbed, OneAtATime
  <2>2. UNCHANGED db => Document' = Document
    BY DEF db, log, Document
  <2> QED BY <1>m, <2>1, <2>2 DEF ReadIsExact, GoesOn
<1>9. StartsUntouched'
  <2> SUFFICES ASSUME \A p \in Posts : pc'[p] = "idle" PROVE Untouched'
    BY DEF StartsUntouched
  <2>1. r \in Views /\ Untouched
    BY <1>m DEF GoesOn, StartsUntouched, AloneInv, Reqs
  <2>2. /\ UNCHANGED <<created, dbTask, lastEvt, latestUser, status, rpc, spc>>
        /\ pc'[r] \in {"idle", "decide"}
        /\ \A q \in Reqs : q # r => pc'[q] = pc[q]
    BY <2>1, UntouchedStays DEF AloneInv
  <2> QED BY <2>1, <2>2 DEF Untouched
<1> QED BY <1>1, <1>2, <1>3, <1>4, <1>5, <1>6, <1>7, <1>8, <1>9 DEF AloneInv

LEMMA AloneSetup ==
  ASSUME OneAtATime, TypeInv, SetupPath, TasksKnown, AloneInv, NEW r \in Reqs, Undisturbed(Free),
         SetupStep(r)
  PROVE  AloneInv'
<1> ReqType /\ MemType /\ Posts \cap Views = {}
  BY SetAssumption DEF TypeInv, TypeOK
<1>r. Setting(r) /\ \A q \in Reqs : q # r => ~Setting(q)
  BY SetupIsSetting DEF AloneInv, SetupIsRegistered
<1>a. \A t \in Tasks : Done(t)
  BY <1>r DEF AloneInv, SetupIsAlone
<1>i. ~Interject(r)
  BY <1>a DEF Interject, TaskLive, ReqType
<1>m. /\ UNCHANGED <<status, latestUser, log, snap, stopPc, stops>>
      /\ inflight' = inflight \/ (inflight = r /\ ~Setting(r)')
      /\ \A q \in Reqs : q # r => spc'[q] = spc[q] /\ tk'[q] = tk[q]
      /\ \A q \in Reqs : pc'[q] = pc[q]
           \/ /\ pc[q] \in {"setup", "wait"}
              /\ pc'[q] \in {"drain", "error", "recovered", "woken"}
              /\ pc'[q] = "woken" => pc[q] = "wait"
      /\ \/ RunTask(r) /\ spc[r] = "run" /\ ~Setting(r)'
         \/ /\ rpc' = rpc
            /\ \/ spc'[r] \notin {"created", "run"} /\ UNCHANGED <<dbTask, registry, tk, input>>
               \/ CreateTask(r) /\ spc'[r] = "created"
               \/ PutFirst(r) /\ spc[r] = "created" /\ UNCHANGED <<dbTask, registry, tk>>
  BY <1>i, SetupMoves
<1>s. \A q \in Reqs : q # r => ~Setting(q)'
  BY <1>r, <1>m DEF Setting
<1>p. RunTask(r) => /\ tk[r] \in registry /\ dbTask = tk[r] /\ UNCHANGED <<dbTask, registry>>
                    /\ \A t \in Tasks : t # tk[r] => rpc'[t] = rpc[t]
  BY <1>r DEF AloneInv, Published, RunTask, EndSetup, At, db, mem, tasks
<1>1. OneTab' /\ NoStop'
  BY <1>m DEF OneTab, Attached, AloneInv, NoStop
<1>2. SetupIsRegistered'
  BY <1>r, <1>m, <1>s DEF SetupIsRegistered, AloneInv
<1>3. LiveIsPublished'
  <2>1. CASE rpc' = rpc
    BY <2>1, <1>a DEF LiveIsPublished, Done
  <2>2. CASE RunTask(r)
    BY <2>2, <1>a, <1>p DEF LiveIsPublished, Done
  <2> QED BY <2>1, <2>2, <1>m
<1>4. Published'
  <2> SUFFICES ASSUME spc'[r] \in {"created", "run"} PROVE tk'[r] \in registry' /\ dbTask' = tk'[r]
    BY <1>s DEF Published, Setting
  <2>1. CASE CreateTask(r)
    BY <2>1 DEF CreateTask, Holds, ReqType
  <2>2. CASE PutFirst(r) /\ spc[r] = "created" /\ UNCHANGED <<dbTask, registry, tk>>
    BY <2>2 DEF AloneInv, Published
  <2> QED BY <2>1, <2>2, <1>m DEF Setting
<1>5. SetupIsAlone'
  <2>1. CASE rpc' = rpc
    BY <2>1, <1>a DEF SetupIsAlone, Done
  <2>2. CASE ~Setting(r)'
    BY <2>2, <1>s DEF SetupIsAlone
  <2> QED BY <2>1, <2>2, <1>m
<1>6. PostIsAlone'
  <2>1. \A q \in Reqs : ~Coming(q)
    BY <1>r DEF PostIsAlone, AloneInv, Quiet
  <2> QED BY <1>m, <2>1 DEF PostIsAlone, Coming
<1>7. PostsNeverWait'
  BY <1>m DEF PostsNeverWait, AloneInv, Reqs
<1>8. ReadIsExact'
  <2>1. Free \notin Reqs
    BY SetAssumption
  <2>2. \A q \in Reqs : pc[q] # "decide"
    BY <2>1 DEF Undisturbed, OneAtATime
  <2> QED BY <1>m, <2>2 DEF ReadIsExact
<1>9. StartsUntouched'
  <2> SUFFICES ASSUME \A p \in Posts : pc'[p] = "idle" PROVE Untouched'
    BY DEF StartsUntouched
  <2>1. Untouched
    BY <1>m DEF StartsUntouched, AloneInv, Reqs
  <2> QED BY <2>1, <1>r DEF Untouched, Setting
<1> QED BY <1>1, <1>2, <1>3, <1>4, <1>5, <1>6, <1>7, <1>8, <1>9 DEF AloneInv

LEMMA AloneRun ==
  ASSUME OneAtATime, TypeInv, AloneInv, NEW t \in Tasks, Undisturbed(Free),
         RunStep(t) \/ TimeOut(t)
  PROVE  AloneInv'
<1> MemType
  BY DEF TypeInv, TypeOK
<1>t. ~Done(t) /\ \A u \in Tasks : u # t => Done(u)
  BY RunIsLive DEF AloneInv, LiveIsPublished
<1>m. /\ UNCHANGED <<reqs, inflight, dbTask, stopPc, stops>>
      /\ \A u \in Tasks : u # t => rpc'[u] = rpc[u]
      /\ registry' = registry \/ (registry' = registry \ {t} /\ rpc'[t] = "finished")
  BY RunMoves
<1>u. UNCHANGED <<pc, snap, spc, tk>>
  BY <1>m DEF reqs, setups
<1>s. \A q \in Reqs : ~Setting(q) /\ ~Setting(q)'
  BY <1>t, <1>u DEF AloneInv, SetupIsAlone, Setting
<1>c. \A q \in Reqs : ~Coming(q) /\ ~Coming(q)'
  BY <1>t, <1>u DEF AloneInv, PostIsAlone, Quiet, Coming
<1>1. OneTab' /\ NoStop'
  BY <1>m, <1>u DEF OneTab, Attached, AloneInv, NoStop
<1>2. SetupIsRegistered' /\ Published' /\ SetupIsAlone' /\ PostIsAlone'
  BY <1>s, <1>c DEF SetupIsRegistered, Published, SetupIsAlone, PostIsAlone, Setting
<1>3. LiveIsPublished'
  <2>1. \A u \in Tasks : u # t => Done(u)'
    BY <1>t, <1>m DEF Done
  <2>2. t \in registry /\ dbTask = t
    BY <1>t DEF AloneInv, LiveIsPublished
  <2> QED BY <2>1, <2>2, <1>m DEF LiveIsPublished, Done
<1>4. PostsNeverWait'
  BY <1>u DEF PostsNeverWait, AloneInv
<1>5. ReadIsExact'
  <2>1. \A q \in Reqs : pc[q] # "decide"
    BY SetAssumption DEF Undisturbed, OneAtATime
  <2> QED BY <1>u, <2>1 DEF ReadIsExact
<1>6. StartsUntouched'
  BY <1>u, <1>t DEF StartsUntouched, AloneInv, Untouched, Done
<1> QED BY <1>1, <1>2, <1>3, <1>4, <1>5, <1>6 DEF AloneInv

LEMMA AloneStop ==
  ASSUME OneAtATime, TypeInv, AloneInv, StopLoad \/ StopTask \/ StopStatus \/ Crash
  PROVE  AloneInv' /\ Crash
<1> ReqType /\ MemType /\ RunType /\ Posts \cap Views = {}
  BY SetAssumption DEF TypeInv, TypeOK
<1>1. Crash
  BY DEF OneAtATime, AloneInv, NoStop, StopLoad, StopTask, StopStatus
<1>2. /\ stopPc' = "idle" /\ UNCHANGED <<db, created, stops>>
      /\ pc' = [r \in Reqs |-> IF Attached(r) THEN Gone(r) ELSE pc[r]]
      /\ spc' = [r \in Reqs |-> "none"]
      /\ rpc' = [t \in Tasks |-> IF t \in created THEN "dead" ELSE "none"]
  BY <1>1 DEF Crash
<1>3. \A r \in Reqs : /\ pc'[r] \in {"idle", "end"} /\ spc'[r] = "none"
                      /\ r \in Posts /\ pc'[r] = "idle" => pc[r] = "idle"
                      /\ r \notin Posts /\ pc[r] # "end" => pc'[r] = "idle"
  BY <1>2 DEF Attached, Gone
<1>4. \A t \in Tasks : Done(t)'
  BY <1>2 DEF Done
<1>5. OneTab' /\ NoStop' /\ PostsNeverWait' /\ ReadIsExact' /\ PostIsAlone'
  BY <1>2, <1>3 DEF OneTab, Attached, NoStop, AloneInv, PostsNeverWait, ReadIsExact, PostIsAlone,
    Coming, Reqs
<1>6. SetupIsRegistered' /\ Published' /\ SetupIsAlone' /\ LiveIsPublished'
  BY <1>3, <1>4 DEF SetupIsRegistered, Setting, Published, SetupIsAlone, LiveIsPublished
<1>7. StartsUntouched'
  <2> SUFFICES ASSUME \A p \in Posts : pc'[p] = "idle" PROVE Untouched'
    BY DEF StartsUntouched
  <2>1. Untouched
    BY <1>3 DEF StartsUntouched, AloneInv, Reqs
  <2>2. \A r \in Reqs : spc'[r] = "none" /\ pc'[r] \in {"idle", "decide"}
    BY <2>1, <1>3 DEF Untouched
  <2>3. \A t \in Tasks : rpc'[t] = "none"
    BY <2>1, <1>2 DEF Untouched
  <2> QED BY <2>1, <2>2, <2>3, <1>2 DEF Untouched, db, log
<1> QED BY <1>1, <1>5, <1>6, <1>7 DEF AloneInv

LEMMA AloneStep ==
  ASSUME OneAtATime, TypeInv, SetupPath, TasksKnown, AloneInv, [Next]_vars
  PROVE  AloneInv'
<1>1. CASE Next
  BY <1>1, AloneRequest, AloneSetup, AloneRun, AloneStop DEF Next
<1>2. CASE UNCHANGED vars
  <2> USE <1>2 DEF vars, db, log, setups, reqs, local, runs, env, hist, tasks, mem
  <2>1. OneTab' /\ NoStop' /\ PostsNeverWait'
    BY DEF OneTab, Attached, NoStop, PostsNeverWait, AloneInv
  <2>2. SetupIsRegistered' /\ LiveIsPublished' /\ Published' /\ SetupIsAlone'
    BY DEF SetupIsRegistered, LiveIsPublished, Published, SetupIsAlone, Setting, Done, AloneInv
  <2>3. PostIsAlone' /\ ReadIsExact' /\ StartsUntouched'
    BY DEF PostIsAlone, Coming, Quiet, Setting, Done, ReadIsExact, Document, StartsUntouched,
      Untouched, AloneInv
  <2> QED BY <2>1, <2>2, <2>3 DEF AloneInv
<1> QED BY <1>1, <1>2

LEMMA AloneInit == Init => AloneInv
<1> SUFFICES ASSUME Init PROVE AloneInv
  OBVIOUS
<1>1. \A r \in Reqs : pc[r] = "idle" /\ spc[r] = "none"
  BY DEF Init
<1>2. \A t \in Tasks : rpc[t] = "none"
  BY DEF Init
<1>3. OneTab /\ NoStop /\ SetupIsRegistered /\ LiveIsPublished /\ Published /\ SetupIsAlone
  BY <1>1, <1>2 DEF OneTab, Attached, NoStop, Init, SetupIsRegistered, LiveIsPublished, Published,
    SetupIsAlone, Setting, Done
<1>4. PostIsAlone /\ PostsNeverWait /\ ReadIsExact /\ StartsUntouched
  BY <1>1, <1>2 DEF PostIsAlone, Coming, PostsNeverWait, ReadIsExact, StartsUntouched, Untouched,
    Init, Reqs
<1> QED BY <1>3, <1>4 DEF AloneInv

-----------------------------------------------------------------------------
(* The status.                                                              *)

\* A run works under RUNNING, and what chat() read is still the status when
\* the message is persisted and marked.
StatusInv ==
  /\ StatusTellsTheTruth
  /\ \A r \in Reqs : /\ pc[r] = "persist" => snap[r].status = status
                     /\ pc[r] = "queue" => ~KeepsStatus(status)

LEMMA RequestStatus ==
  ASSUME TypeInv, NEW r \in Reqs, ReqStep(r) \/ Load(r) \/ Drop(r)
  PROVE  /\ \/ status' = status
            \/ pc[r] = "queue" /\ status' = "IN_QUEUE"
            \/ Stranded(r) /\ status' \in {"COMPLETED", "FAILED"}
         /\ pc'[r] = "persist" => pc[r] = "decide" /\ snap'[r] = snap[r] /\ status' = status
         /\ pc'[r] = "queue" => /\ pc[r] = "persist" /\ status' = status
                                /\ ~KeepsStatus(snap[r].status)
<1> ReqType
  BY DEF TypeInv, TypeOK
<1> USE DEF ReqType, Goto, db, log
<1>Load. CASE Load(r)
  BY <1>Load DEF Load
<1>Reconnect. CASE Reconnect(r)
  BY <1>Reconnect DEF Reconnect
<1>Accept. CASE Accept(r)
  BY <1>Accept DEF Accept
<1>Persist. CASE Persist(r)
  BY <1>Persist DEF Persist
<1>MarkQueued. CASE MarkQueued(r)
  BY <1>MarkQueued DEF MarkQueued
<1>StartSetup. CASE StartSetup(r)
  BY <1>StartSetup DEF StartSetup
<1>AwaitInflight. CASE AwaitInflight(r)
  BY <1>AwaitInflight DEF AwaitInflight
<1>Refetch. CASE Refetch(r)
  BY <1>Refetch DEF Refetch
<1>JoinPost. CASE JoinPost(r)
  BY <1>JoinPost DEF JoinPost
<1>JoinView. CASE JoinView(r)
  BY <1>JoinView DEF JoinView
<1>Subscribe. CASE Subscribe(r)
  BY <1>Subscribe DEF Subscribe
<1>Recover. CASE Recover(r)
  BY <1>Recover DEF Recover
<1>ResolveStale. CASE ResolveStale(r)
  BY <1>ResolveStale DEF ResolveStale
<1>RecoverReturns. CASE RecoverReturns(r)
  BY <1>RecoverReturns DEF RecoverReturns
<1>FailRequest. CASE FailRequest(r)
  BY <1>FailRequest DEF FailRequest, Gone
<1>Drained. CASE Drained(r)
  BY <1>Drained DEF Drained, Gone
<1>Drop. CASE Drop(r)
  BY <1>Drop DEF Drop, Gone
<1> QED BY <1>Load, <1>Reconnect, <1>Accept, <1>Persist, <1>MarkQueued,
  <1>StartSetup, <1>AwaitInflight, <1>Refetch, <1>JoinPost, <1>JoinView,
  <1>Subscribe, <1>Recover, <1>ResolveStale, <1>RecoverReturns,
  <1>FailRequest, <1>Drained, <1>Drop DEF ReqStep

LEMMA RunStatus ==
  ASSUME TypeInv, NEW t \in Tasks, RunStep(t) \/ TimeOut(t)
  PROVE  /\ status' # "IN_QUEUE" \/ status' = status
         /\ rpc'[t] \in {"work", "done"} =>
              status' = "RUNNING" \/ (status' = status /\ rpc[t] = "work")
<1> RunType
  BY DEF TypeInv, TypeOK
<1> USE DEF RunType, RunAt, db, log
<1>Begin. CASE Begin(t)
  BY <1>Begin DEF Begin
<1>Look. CASE Look(t)
  BY <1>Look DEF Look
<1>Pop. CASE Pop(t)
  BY <1>Pop DEF Pop
<1>StopByText. CASE StopByText(t)
  BY <1>StopByText DEF StopByText
<1>StopByTextStatus. CASE StopByTextStatus(t)
  BY <1>StopByTextStatus DEF StopByTextStatus
<1>EnterFlow. CASE EnterFlow(t)
  BY <1>EnterFlow DEF EnterFlow
<1>StartFlow. CASE StartFlow(t)
  BY <1>StartFlow DEF StartFlow
<1>Work. CASE Work(t)
  BY <1>Work DEF Work, OrInterjected
<1>Summary. CASE Summary(t)
  BY <1>Summary DEF Summary, OrInterjected
<1>FlowDone. CASE FlowDone(t)
  BY <1>FlowDone DEF FlowDone
<1>AskUser. CASE AskUser(t)
  BY <1>AskUser DEF AskUser
<1>WaitStatus. CASE WaitStatus(t)
  BY <1>WaitStatus DEF WaitStatus
<1>Raise. CASE Raise(t)
  BY <1>Raise DEF Raise
<1>FailStatus. CASE FailStatus(t)
  BY <1>FailStatus DEF FailStatus
<1>Complete. CASE Complete(t)
  BY <1>Complete DEF Complete
<1>Notice. CASE Notice(t)
  BY <1>Notice DEF Notice
<1>NoticeDone. CASE NoticeDone(t)
  BY <1>NoticeDone DEF NoticeDone
<1>CancelStatus. CASE CancelStatus(t)
  BY <1>CancelStatus DEF CancelStatus
<1>Pause. CASE Pause(t)
  BY <1>Pause DEF Pause
<1>TaskDone. CASE TaskDone(t)
  BY <1>TaskDone DEF TaskDone
<1>TimeOut. CASE TimeOut(t)
  BY <1>TimeOut DEF TimeOut
<1> QED BY <1>Begin, <1>Look, <1>Pop, <1>StopByText, <1>StopByTextStatus,
  <1>EnterFlow, <1>StartFlow, <1>Work, <1>Summary, <1>FlowDone, <1>AskUser,
  <1>WaitStatus, <1>Raise, <1>FailStatus, <1>Complete, <1>Notice,
  <1>NoticeDone, <1>CancelStatus, <1>Pause, <1>TaskDone, <1>TimeOut DEF RunStep

\* A status to resume from is not overwritten by IN_QUEUE.
KeptStep == status \in {"WAITING", "CANCELLED"} => status' # "IN_QUEUE"

LEMMA StatusRequest ==
  ASSUME OneAtATime, TypeInv, SetupPath, TasksKnown, AloneInv, StatusInv, NEW r \in Reqs,
         Undisturbed(r), ReqStep(r) \/ Load(r) \/ Drop(r)
  PROVE  StatusInv' /\ KeptStep
<1> USE DEF TypeInv, TypeOK, ReqType, MemType, RunType, PostPath
<1> Posts \cap Views = {}
  BY SetAssumption
<1>m. rpc' = rpc /\ \A q \in Reqs : q # r => pc'[q] = pc[q] /\ snap'[q] = snap[q]
  BY RequestMoves DEF OneAtATime
<1>o. \A q \in Reqs : q # r => ~Attached(q)
  BY OneMoves DEF AloneInv
<1>s. /\ \/ status' = status
         \/ pc[r] = "queue" /\ status' = "IN_QUEUE"
         \/ Stranded(r) /\ status' \in {"COMPLETED", "FAILED"}
      /\ pc'[r] = "persist" => pc[r] = "decide" /\ snap'[r] = snap[r] /\ status' = status
      /\ pc'[r] = "queue" => /\ pc[r] = "persist" /\ status' = status
                             /\ ~KeepsStatus(snap[r].status)
  BY RequestStatus
<1>d. pc[r] = "decide" => snap[r].status = status
  BY DEF AloneInv, ReadIsExact, Document
<1>1. status' # status => \A t \in Tasks : Done(t)
  <2>1. CASE pc[r] = "queue"
    BY <2>1 DEF PostPath, AloneInv, PostIsAlone, Coming, Quiet
  <2>2. CASE Stranded(r)
    BY <2>2, FoundIfLive DEF Stranded, AloneInv, ReadIsExact
  <2> QED BY <1>s, <2>1, <2>2
<1>2. StatusTellsTheTruth'
  BY <1>m, <1>1 DEF StatusTellsTheTruth, StatusInv, Done
<1>3. \A q \in Reqs : q # r => pc'[q] \notin {"persist", "queue"}
  BY <1>m, <1>o DEF Attached
<1>4. /\ pc'[r] = "persist" => snap'[r].status = status'
      /\ pc'[r] = "queue" => ~KeepsStatus(status')
  BY <1>s, <1>d DEF StatusInv
<1>5. KeptStep
  BY <1>s DEF StatusInv, KeepsStatus, KeptStep
<1>6. KeepsStatus(status)' = KeepsStatus(status')
  BY DEF KeepsStatus
<1> QED BY <1>2, <1>3, <1>4, <1>5, <1>6 DEF StatusInv

LEMMA StatusSetup ==
  ASSUME OneAtATime, TypeInv, SetupPath, TasksKnown, AloneInv, StatusInv, NEW r \in Reqs,
         SetupStep(r)
  PROVE  StatusInv' /\ KeptStep
<1> USE DEF TypeInv, TypeOK, ReqType, MemType, RunType, PostPath
<1> Posts \cap Views = {}
  BY SetAssumption
<1>a. \A t \in Tasks : Done(t)
  BY SetupIsSetting DEF AloneInv, SetupIsAlone
<1>m. /\ UNCHANGED <<status, snap>>
      /\ \A q \in Reqs : pc'[q] = pc[q] \/ pc'[q] \in {"drain", "error", "recovered", "woken"}
      /\ RunTask(r) \/ rpc' = rpc
  BY SetupMoves DEF Interject
<1>1. \A t \in Tasks : rpc'[t] = rpc[t] \/ rpc'[t] = "ready"
  BY <1>m DEF RunTask
<1> QED BY <1>a, <1>m, <1>1 DEF StatusInv, StatusTellsTheTruth, KeepsStatus, KeptStep, Done

LEMMA StatusRun ==
  ASSUME OneAtATime, TypeInv, SetupPath, TasksKnown, AloneInv, StatusInv, NEW t \in Tasks,
         RunStep(t) \/ TimeOut(t)
  PROVE  StatusInv' /\ KeptStep
<1> USE DEF TypeInv, TypeOK, ReqType, MemType, RunType, PostPath
<1> Posts \cap Views = {}
  BY SetAssumption
<1>t. ~Done(t) /\ \A u \in Tasks : u # t => Done(u)
  BY RunIsLive DEF AloneInv, LiveIsPublished
<1>m. UNCHANGED <<pc, snap>> /\ \A u \in Tasks : u # t => rpc'[u] = rpc[u]
  BY RunMoves DEF reqs
<1>c. \A q \in Reqs : pc[q] \notin {"persist", "queue"}
  BY <1>t DEF AloneInv, PostIsAlone, Quiet, Coming, PostPath
<1>s. /\ status' # "IN_QUEUE" \/ status' = status
      /\ rpc'[t] \in {"work", "done"} =>
           status' = "RUNNING" \/ (status' = status /\ rpc[t] = "work")
  BY RunStatus
<1> QED BY <1>t, <1>m, <1>c, <1>s DEF StatusInv, StatusTellsTheTruth, KeptStep, Done

LEMMA StatusStop ==
  ASSUME OneAtATime, TypeInv, SetupPath, TasksKnown, AloneInv, StatusInv,
         StopLoad \/ StopTask \/ StopStatus \/ Crash
  PROVE  StatusInv' /\ KeptStep
<1> USE DEF TypeInv, TypeOK, ReqType, MemType, RunType, PostPath
<1> Posts \cap Views = {}
  BY SetAssumption
<1>1. Crash
  BY AloneStop
<1>2. \A r \in Reqs : pc'[r] \in {"idle", "end"}
  BY <1>1 DEF Crash, Attached, Gone
<1>3. \A t \in Tasks : rpc'[t] \in {"dead", "none"}
  BY <1>1 DEF Crash
<1>4. status' = status
  BY <1>1 DEF Crash, db
<1> QED BY <1>2, <1>3, <1>4 DEF StatusInv, StatusTellsTheTruth, KeptStep

LEMMA StatusStep ==
  ASSUME OneAtATime, TypeInv, SetupPath, TasksKnown, AloneInv, StatusInv, [Next]_vars
  PROVE  StatusInv' /\ KeptStep
<1>1. CASE Next
  BY <1>1, StatusRequest, StatusSetup, StatusRun, StatusStop DEF Next
<1>2. CASE UNCHANGED vars
  BY <1>2 DEF vars, db, reqs, runs, StatusInv, StatusTellsTheTruth, KeepsStatus, KeptStep
<1> QED BY <1>1, <1>2

LEMMA StatusInit == Init => StatusInv
BY DEF Init, StatusInv, StatusTellsTheTruth

-----------------------------------------------------------------------------
(* How often a text reaches the flow.                                       *)

\* Each text is sent once.
DistinctTexts == \A p, q \in Posts : Text[p] = Text[q] => p = q

\* A text that may be fed once more in this life of the process.
Own(m) == fed[m] <= crashes

\* A post that has not become a setup has been fed by nobody.
PostIsNew ==
  \A r \in Posts :
    /\ pc[r] \in {"idle", "decide", "persist", "queue", "join"} => fed[Text[r]] = 0
    /\ pc[r] \in {"idle", "decide"} => Text[r] \notin accepted

\* There is one copy of a text on its way: in a setup, then in the input of the
\* task it starts, then in the run's hands.
SetupHasOwn == \A r \in Reqs : Setting(r) => msg[r] \in Msgs /\ Own(msg[r])
InputOfSetup ==
  /\ \A r \in Reqs : /\ spc[r] = "created" => rpc[tk[r]] = "none" /\ input[tk[r]] = <<>>
                     /\ spc[r] = "run" => rpc[tk[r]] = "none" /\ input[tk[r]] = <<msg[r]>>
  /\ \A t \in Tasks : rpc[t] = "none" /\ input[t] # <<>> =>
       \E r \in Reqs : spc[r] = "run" /\ tk[r] = t
InputOfRun ==
  \A t \in Tasks :
    /\ ~Done(t) => input[t] = <<>> \/ \E m \in Msgs : Own(m) /\ input[t] = <<m>>
    /\ rpc[t] \in {"grace", "entry", "start", "work", "done", "wait", "fail",
                   "stopdone", "complete", "closing"} => input[t] = <<>>
    /\ rpc[t] = "entry" => cur[t] \in Msgs /\ Own(cur[t])

\* A text fed in this life is found unprocessed only while its run is at it.
Pending == Unprocessed(Document)
PendingIsWorkedOn ==
  Pending \in Msgs /\ ~Own(Pending) => \E t \in Tasks : rpc[t] \in {"start", "work", "notice"}

FeedInv ==
  /\ FedOncePerLife /\ PostIsNew /\ SetupHasOwn /\ InputOfSetup /\ InputOfRun
  /\ PendingIsWorkedOn

LEMMA PendingIs ==
  Pending = IF lastEvt = Nothing THEN latestUser
            ELSE IF lastEvt = Evidence THEN Nothing ELSE lastEvt
BY DEF Pending, Unprocessed, Document

\* What a request does to the log, and the text of a setup it starts.
LEMMA RequestFeeds ==
  ASSUME TypeInv, NEW r \in Reqs, ReqStep(r) \/ Load(r) \/ Drop(r)
  PROVE  /\ \/ accepted' = accepted
            \/ /\ r \in Posts /\ pc[r] = "decide" /\ pc'[r] = "persist"
               /\ accepted' = accepted \cup {Text[r]}
         /\ \/ UNCHANGED <<lastEvt, latestUser>>
            \/ lastEvt' = Evidence
            \/ r \in Posts /\ pc[r] = "decide" /\ lastEvt' = lastEvt /\ latestUser' = Text[r]
            \/ r \in Posts /\ pc[r] = "persist" /\ lastEvt' = Text[r]
         /\ Begins(r) =>
            \/ pc[r] = "joined"
            \/ r \in Posts /\ pc[r] = "join" /\ msg'[r] = Text[r]
            \/ pc[r] = "decide" /\ Unprocessed(snap[r]) # Nothing /\ msg'[r] = Unprocessed(snap[r])
<1> ReqType /\ PostPath
  BY DEF TypeInv, TypeOK
<1> USE DEF ReqType, PostPath, Begins, Goto, db, log, reqs, setups, hist
<1>Load. CASE Load(r)
  BY <1>Load DEF Load
<1>Reconnect. CASE Reconnect(r)
  BY <1>Reconnect DEF Reconnect
<1>Accept. CASE Accept(r)
  BY <1>Accept DEF Accept
<1>Persist. CASE Persist(r)
  BY <1>Persist DEF Persist
<1>MarkQueued. CASE MarkQueued(r)
  BY <1>MarkQueued DEF MarkQueued
<1>StartSetup. CASE StartSetup(r)
  BY <1>StartSetup DEF StartSetup, Register
<1>AwaitInflight. CASE AwaitInflight(r)
  BY <1>AwaitInflight DEF AwaitInflight
<1>Refetch. CASE Refetch(r)
  BY <1>Refetch DEF Refetch
<1>JoinPost. CASE JoinPost(r)
  BY <1>JoinPost DEF JoinPost, Register
<1>JoinView. CASE JoinView(r)
  BY <1>JoinView DEF JoinView
<1>Subscribe. CASE Subscribe(r)
  BY <1>Subscribe DEF Subscribe
<1>Recover. CASE Recover(r)
  BY <1>Recover DEF Recover, Register, Stranded
<1>ResolveStale. CASE ResolveStale(r)
  BY <1>ResolveStale DEF ResolveStale, Stranded
<1>RecoverReturns. CASE RecoverReturns(r)
  BY <1>RecoverReturns DEF RecoverReturns
<1>FailRequest. CASE FailRequest(r)
  BY <1>FailRequest DEF FailRequest, Gone
<1>Drained. CASE Drained(r)
  BY <1>Drained DEF Drained, Gone
<1>Drop. CASE Drop(r)
  BY <1>Drop DEF Drop, Gone
<1> QED BY <1>Load, <1>Reconnect, <1>Accept, <1>Persist, <1>MarkQueued,
  <1>StartSetup, <1>AwaitInflight, <1>Refetch, <1>JoinPost, <1>JoinView,
  <1>Subscribe, <1>Recover, <1>ResolveStale, <1>RecoverReturns,
  <1>FailRequest, <1>Drained, <1>Drop DEF ReqStep

LEMMA FeedRequest ==
  ASSUME OneAtATime, DistinctTexts, TypeInv, SetupPath, TasksKnown, AloneInv, FeedInv,
         NEW r \in Reqs, Undisturbed(r), ReqStep(r) \/ Load(r) \/ Drop(r)
  PROVE  FeedInv'
<1> ReqType /\ MemType /\ RunType /\ DbType /\ HistType /\ EnvType /\ PostPath
  BY DEF TypeInv, TypeOK
<1> Posts \cap Views = {} /\ Posts \subseteq Reqs
  BY SetAssumption DEF Reqs
<1>m. /\ UNCHANGED <<dbTask, registry, created, rpc, input, cur, crashes, fed>>
      /\ \A q \in Reqs : q # r =>
           /\ pc'[q] = pc[q] /\ spc'[q] = spc[q] /\ tk'[q] = tk[q] /\ msg'[q] = msg[q]
      /\ Begins(r) \/ (spc'[r] = spc[r] /\ msg'[r] = msg[r])
      /\ GoesOn(r)
      /\ Setting(r) => tk'[r] = tk[r]
  BY RequestMoves DEF OneAtATime
<1>f. /\ \/ accepted' = accepted
         \/ /\ r \in Posts /\ pc[r] = "decide" /\ pc'[r] = "persist"
            /\ accepted' = accepted \cup {Text[r]}
      /\ \/ UNCHANGED <<lastEvt, latestUser>>
         \/ lastEvt' = Evidence
         \/ r \in Posts /\ pc[r] = "decide" /\ lastEvt' = lastEvt /\ latestUser' = Text[r]
         \/ r \in Posts /\ pc[r] = "persist" /\ lastEvt' = Text[r]
      /\ Begins(r) =>
         \/ pc[r] = "joined"
         \/ r \in Posts /\ pc[r] = "join" /\ msg'[r] = Text[r]
         \/ pc[r] = "decide" /\ Unprocessed(snap[r]) # Nothing /\ msg'[r] = Unprocessed(snap[r])
  BY RequestFeeds
<1>o. \A m : Own(m)' <=> Own(m)
  BY <1>m DEF Own
<1>d. \A t \in Tasks : Done(t)' <=> Done(t)
  BY <1>m DEF Done
<1>z. \A m \in Msgs : fed[m] = 0 => Own(m)
  BY Bounds DEF Own, EnvType
<1>t. \A p \in Posts : Text[p] \in Msgs
  BY SetAssumption
<1>1. FedOncePerLife'
  BY <1>m DEF FedOncePerLife, FeedInv
<1>2. PostIsNew'
  <2> SUFFICES ASSUME NEW p \in Posts
               PROVE  /\ pc'[p] \in {"idle", "decide", "persist", "queue", "join"} =>
                           fed[Text[p]] = 0
                      /\ pc'[p] \in {"idle", "decide"} => Text[p] \notin accepted'
    BY <1>m DEF PostIsNew
  <2>1. /\ pc'[p] \in {"idle", "decide"} => pc[p] \in {"idle", "decide"}
        /\ pc'[p] \in {"idle", "decide", "persist", "queue", "join"} =>
             pc[p] \in {"idle", "decide", "persist", "queue", "join"}
    BY <1>m DEF GoesOn
  <2>2. pc'[p] \in {"idle", "decide"} =>
          \/ accepted' = accepted
          \/ p # r /\ r \in Posts /\ accepted' = accepted \cup {Text[r]}
    BY <1>f
  <2> QED BY <2>1, <2>2 DEF PostIsNew, FeedInv, DistinctTexts
<1>3. SetupHasOwn'
  <2>1. \A q \in Reqs : q # r \/ ~Begins(r) => (Setting(q)' => Setting(q) /\ msg'[q] = msg[q])
    BY <1>m DEF Setting
  <2>2. ASSUME Begins(r) PROVE msg'[r] \in Msgs /\ Own(msg'[r])
    <3>1. CASE r \in Posts /\ pc[r] = "join" /\ msg'[r] = Text[r]
      BY <3>1, <1>z, <1>t DEF FeedInv, PostIsNew
    <3>2. CASE pc[r] = "decide" /\ Unprocessed(snap[r]) # Nothing /\ msg'[r] = Unprocessed(snap[r])
      <4>1. msg'[r] = Pending /\ Pending # Nothing
        BY <3>2 DEF Pending, AloneInv, ReadIsExact
      <4>2. Pending \in Msgs
        BY <4>1, PendingIs DEF DbType
      <4>3. \A t \in Tasks : Done(t)
        BY <2>2, BeginsAlone
      <4> QED BY <4>1, <4>2, <4>3 DEF FeedInv, PendingIsWorkedOn, Done
    <3>3. pc[r] # "joined"
      BY <2>2 DEF Begins, AloneInv, PostsNeverWait, Stranded
    <3> QED BY <1>f, <2>2, <3>1, <3>2, <3>3
  <2>3. \A q \in Reqs : Setting(q)' => msg'[q] \in Msgs /\ Own(msg'[q])
    BY <2>1, <2>2 DEF FeedInv, SetupHasOwn
  <2> QED BY <2>3, <1>o DEF SetupHasOwn, Own
<1>4. InputOfSetup'
  <2>1. \A q \in Reqs : spc'[q] \in {"created", "run"} =>
          spc'[q] = spc[q] /\ tk'[q] = tk[q] /\ msg'[q] = msg[q]
    BY <1>m DEF Begins, Setting
  <2>2. \A q \in Reqs : spc[q] = "run" => spc'[q] = "run" /\ tk'[q] = tk[q]
    <3>1. Begins(r) => \A q \in Reqs : spc[q] # "run"
      BY BeginsAlone DEF Setting
    <3> QED BY <1>m, <3>1 DEF Setting
  <2> QED BY <2>1, <2>2, <1>m DEF InputOfSetup, FeedInv
<1>5. InputOfRun'
  BY <1>m DEF FeedInv, InputOfRun, Done, Own
<1>6. PendingIsWorkedOn'
  <2>1. Pending' = Pending \/ Pending' \notin Msgs \/ (Pending' \in Msgs /\ fed[Pending'] = 0)
    <3>0. Pending' = IF lastEvt' = Nothing THEN latestUser'
                     ELSE IF lastEvt' = Evidence THEN Nothing ELSE lastEvt'
      BY DEF Pending, Unprocessed, Document
    <3>1. r \in Posts /\ pc[r] \in {"decide", "persist"} => Text[r] \in Msgs /\ fed[Text[r]] = 0
      BY <1>t DEF FeedInv, PostIsNew
    <3>2. Nothing \notin Msgs /\ Evidence \notin Msgs /\ Nothing # Evidence
      BY SetAssumption DEF Nothing, Evidence
    <3>3. CASE UNCHANGED <<lastEvt, latestUser>>
      BY <3>0, <3>3, PendingIs
    <3>4. CASE lastEvt' = Evidence
      BY <3>0, <3>2, <3>4
    <3>5. CASE r \in Posts /\ pc[r] = "decide" /\ lastEvt' = lastEvt /\ latestUser' = Text[r]
      BY <3>0, <3>1, <3>5, PendingIs
    <3>6. CASE r \in Posts /\ pc[r] = "persist" /\ lastEvt' = Text[r]
      BY <3>0, <3>1, <3>2, <3>6
    <3> QED BY <1>f, <3>3, <3>4, <3>5, <3>6
  <2>2. Pending' \in Msgs /\ ~Own(Pending') => Pending' = Pending
    BY <2>1, <1>z
  <2> QED BY <2>2, <1>m, <1>o DEF FeedInv, PendingIsWorkedOn, Own
<1> QED BY <1>1, <1>2, <1>3, <1>4, <1>5, <1>6 DEF FeedInv

LEMMA FeedSetup ==
  ASSUME OneAtATime, DistinctTexts, TypeInv, SetupPath, TasksKnown, AloneInv, FeedInv,
         NEW r \in Reqs, SetupStep(r)
  PROVE  FeedInv'
<1> ReqType /\ MemType /\ RunType /\ HistType /\ EnvType
  BY DEF TypeInv, TypeOK
<1>r. Setting(r) /\ \A q \in Reqs : q # r => ~Setting(q)
  BY SetupIsSetting DEF AloneInv, SetupIsRegistered
<1>a. \A t \in Tasks : Done(t)
  BY <1>r DEF AloneInv, SetupIsAlone
<1>i. ~Interject(r)
  BY <1>a DEF Interject, TaskLive, ReqType
<1>m. /\ UNCHANGED <<status, latestUser, log, crashes, accepted, fed, cur>>
      /\ \A q \in Reqs : q # r => spc'[q] = spc[q] /\ tk'[q] = tk[q]
      /\ msg' = msg
      /\ \A q \in Reqs : pc'[q] = pc[q]
           \/ /\ pc[q] \in {"setup", "wait"}
              /\ pc'[q] \in {"drain", "error", "recovered", "woken"}
      /\ \/ RunTask(r) /\ spc[r] = "run" /\ ~Setting(r)'
         \/ /\ rpc' = rpc
            /\ \/ spc'[r] \notin {"created", "run"} /\ UNCHANGED <<tk, input>>
               \/ CreateTask(r) /\ spc'[r] = "created"
               \/ PutFirst(r) /\ spc[r] = "created" /\ UNCHANGED tk
  BY <1>i, SetupMoves
<1>o. \A m : Own(m)' <=> Own(m)
  BY <1>m DEF Own
<1>s. \A q \in Reqs : q # r => ~Setting(q) /\ ~Setting(q)'
  BY <1>r, <1>m DEF Setting
<1>g. msg[r] \in Msgs /\ Own(msg[r])
  BY <1>r DEF FeedInv, SetupHasOwn
<1>k. Pending' = Pending
  BY <1>m DEF Pending, Unprocessed, Document, log
<1>1. FedOncePerLife' /\ PostIsNew'
  <2>1. FedOncePerLife'
    BY <1>m DEF FedOncePerLife, FeedInv
  <2>2. PostIsNew'
    BY <1>m DEF PostIsNew, FeedInv, Reqs
  <2> QED BY <2>1, <2>2
<1>2. SetupHasOwn'
  BY <1>m, <1>s, <1>g, <1>o DEF SetupHasOwn, Own
<1>3. PendingIsWorkedOn'
  BY <1>m, <1>k, <1>o, <1>a DEF PendingIsWorkedOn, FeedInv, Done
<1>A. CASE RunTask(r) /\ spc[r] = "run" /\ ~Setting(r)'
  <2>1. /\ rpc[tk[r]] = "none" /\ input[tk[r]] = <<msg[r]>>
        /\ \A t \in Tasks : rpc[t] = "none" /\ input[t] # <<>> => tk[r] = t
    BY <1>A, <1>s DEF FeedInv, InputOfSetup, Setting
  <2>2. tk[r] \in Tasks /\ input' = input
    BY <1>A DEF TasksKnown, RunTask
  <2>3. rpc' = [rpc EXCEPT ![tk[r]] = "ready"]
    BY <1>A, <2>1 DEF RunTask, Done
  <2>4. InputOfSetup'
    <3>1. \A q \in Reqs : spc'[q] \notin {"created", "run"}
      BY <1>A, <1>s DEF Setting
    <3>2. \A t \in Tasks : rpc'[t] = "none" => input'[t] = <<>>
      BY <2>1, <2>2, <2>3 DEF RunType
    <3> QED BY <3>1, <3>2 DEF InputOfSetup
  <2>5. InputOfRun'
    <3>1. \A t \in Tasks : t # tk[r] => rpc'[t] = rpc[t] /\ Done(t)'
      BY <2>3, <1>a DEF RunType, Done
    <3>2. \A t \in Tasks : t # tk[r] =>
            rpc'[t] \notin {"grace", "entry", "start", "work", "done", "wait", "fail",
                            "stopdone", "complete", "closing"}
      BY <3>1, <1>a DEF Done
    <3>3. rpc'[tk[r]] = "ready" /\ fed'[msg[r]] <= crashes' /\ input'[tk[r]] = <<msg[r]>>
      BY <2>1, <2>2, <2>3, <1>g, <1>m DEF RunType, Own
    <3> QED BY <3>1, <3>2, <3>3, <1>g DEF InputOfRun, Own
  <2> QED BY <1>1, <1>2, <1>3, <2>4, <2>5 DEF FeedInv
<1>B. CASE rpc' = rpc
  <2>1. InputOfRun'
    BY <1>a, <1>B DEF InputOfRun, Done
  <2>2. InputOfSetup'
    <3>1. CASE spc'[r] \notin {"created", "run"} /\ UNCHANGED <<tk, input>>
      <4>1. \A q \in Reqs : spc'[q] \notin {"created", "run"}
        BY <3>1, <1>s DEF Setting
      <4>2. spc[r] # "run"
        BY <3>1, <1>B, <1>i, <1>r DEF SetupStep, ReadFresh, Lock, CreateTask, BootFails, EndSetup,
          PutFirst, RunTask, At, Done, FeedInv, InputOfSetup, TasksKnown, RunType
      <4>3. \A t \in Tasks : rpc[t] = "none" => input[t] = <<>>
        BY <4>2, <1>s DEF FeedInv, InputOfSetup, Setting
      <4> QED BY <4>1, <4>3, <3>1, <1>B DEF InputOfSetup
    <3>2. CASE CreateTask(r) /\ spc'[r] = "created"
      <4>1. PICK t \in Tasks : t \notin created /\ tk' = [tk EXCEPT ![r] = t]
        BY <3>2 DEF CreateTask, Holds
      <4>2. spc[r] = "boot" /\ input' = input
        BY <3>2 DEF CreateTask, At, runs
      <4>3. \A u \in Tasks : rpc[u] = "none" => input[u] = <<>>
        BY <4>2, <1>s DEF FeedInv, InputOfSetup, Setting
      <4>4. rpc[t] = "none" /\ tk'[r] = t
        BY <4>1 DEF TasksKnown, ReqType
      <4>5. \A q \in Reqs : q # r => spc'[q] \notin {"created", "run"}
        BY <1>s DEF Setting
      <4> QED BY <4>2, <4>3, <4>4, <4>5, <3>2, <1>B DEF InputOfSetup
    <3>3. CASE PutFirst(r) /\ spc[r] = "created" /\ UNCHANGED tk
      <4>1. Enqueue(r) /\ spc' = [spc EXCEPT ![r] = "run"]
        BY <3>3 DEF PutFirst, At
      <4>2. rpc[tk[r]] = "none" /\ input[tk[r]] = <<>> /\ tk[r] \in Tasks
        BY <3>3 DEF FeedInv, InputOfSetup, TasksKnown
      <4>3. \A u \in Tasks : rpc[u] = "none" => input[u] = <<>>
        BY <3>3, <1>s DEF FeedInv, InputOfSetup, Setting
      <4>4. Append(<<>>, msg[r]) = <<msg[r]>>
        OBVIOUS
      <4>5. \A u \in Tasks : input'[u] = IF u = tk[r] THEN <<msg[r]>> ELSE input[u]
        BY <4>1, <4>2, <4>4 DEF Enqueue, RunType
      <4>6. \A q \in Reqs : q # r => spc'[q] \notin {"created", "run"}
        BY <1>s DEF Setting
      <4>7. spc'[r] = "run"
        BY <4>1 DEF ReqType
      <4> QED BY <4>2, <4>3, <4>5, <4>6, <4>7, <3>3, <1>B, <1>m DEF InputOfSetup
    <3>4. ~(RunTask(r) /\ spc[r] = "run")
      <4> SUFFICES ASSUME RunTask(r), spc[r] = "run" PROVE FALSE
        OBVIOUS
      <4>1. rpc[tk[r]] = "none" /\ tk[r] \in Tasks
        BY DEF FeedInv, InputOfSetup, TasksKnown
      <4>2. rpc'[tk[r]] = "ready"
        BY <4>1 DEF RunTask, Done, RunType
      <4> QED BY <4>1, <4>2, <1>B
    <3> QED BY <3>1, <3>2, <3>3, <3>4, <1>m
  <2> QED BY <1>1, <1>2, <1>3, <2>1, <2>2 DEF FeedInv
<1> QED BY <1>A, <1>B, <1>m

\* What a run does to the log and to the texts it has.
LEMMA RunFeeds ==
  ASSUME TypeInv, NEW t \in Tasks, RunStep(t) \/ TimeOut(t)
  PROVE  /\ \/ fed' = fed
            \/ rpc[t] = "entry" /\ rpc'[t] = "start" /\ fed' = [fed EXCEPT ![cur[t]] = @ + 1]
         /\ UNCHANGED <<lastEvt, latestUser>> \/ lastEvt' = Evidence
         /\ rpc[t] \in {"start", "work", "notice"} =>
              rpc'[t] \in {"start", "work", "notice"} \/ lastEvt' = Evidence
         /\ \/ rpc[t] = "pop" /\ cur'[t] = Head(input[t]) /\ input'[t] = Tail(input[t])
            \/ /\ input' = input /\ rpc'[t] # "entry"
               /\ rpc'[t] \in {"grace", "start", "work", "done", "wait", "fail", "stopdone",
                               "complete", "closing"} =>
                    \/ input[t] = <<>>
                    \/ rpc[t] \in {"grace", "entry", "start", "work", "done", "wait", "fail",
                                   "stopdone", "complete", "closing"}
<1> RunType
  BY DEF TypeInv, TypeOK
<1> USE DEF RunType, RunAt, db, log, runs, local, hist
<1>Begin. CASE Begin(t)
  BY <1>Begin DEF Begin
<1>Look. CASE Look(t)
  BY <1>Look DEF Look
<1>Pop. CASE Pop(t)
  BY <1>Pop DEF Pop
<1>StopByText. CASE StopByText(t)
  BY <1>StopByText DEF StopByText, Shows
<1>StopByTextStatus. CASE StopByTextStatus(t)
  BY <1>StopByTextStatus DEF StopByTextStatus
<1>EnterFlow. CASE EnterFlow(t)
  BY <1>EnterFlow DEF EnterFlow
<1>StartFlow. CASE StartFlow(t)
  BY <1>StartFlow DEF StartFlow
<1>Work. CASE Work(t)
  BY <1>Work DEF Work, OrInterjected
<1>Summary. CASE Summary(t)
  BY <1>Summary DEF Summary, OrInterjected, Shows
<1>FlowDone. CASE FlowDone(t)
  BY <1>FlowDone DEF FlowDone
<1>AskUser. CASE AskUser(t)
  BY <1>AskUser DEF AskUser
<1>WaitStatus. CASE WaitStatus(t)
  BY <1>WaitStatus DEF WaitStatus
<1>Raise. CASE Raise(t)
  BY <1>Raise DEF Raise
<1>FailStatus. CASE FailStatus(t)
  BY <1>FailStatus DEF FailStatus
<1>Complete. CASE Complete(t)
  BY <1>Complete DEF Complete
<1>Notice. CASE Notice(t)
  BY <1>Notice DEF Notice, Shows
<1>NoticeDone. CASE NoticeDone(t)
  BY <1>NoticeDone DEF NoticeDone
<1>CancelStatus. CASE CancelStatus(t)
  BY <1>CancelStatus DEF CancelStatus
<1>Pause. CASE Pause(t)
  BY <1>Pause DEF Pause
<1>TaskDone. CASE TaskDone(t)
  BY <1>TaskDone DEF TaskDone
<1>TimeOut. CASE TimeOut(t)
  BY <1>TimeOut DEF TimeOut, InTry, InHandler
<1> QED BY <1>Begin, <1>Look, <1>Pop, <1>StopByText, <1>StopByTextStatus,
  <1>EnterFlow, <1>StartFlow, <1>Work, <1>Summary, <1>FlowDone, <1>AskUser,
  <1>WaitStatus, <1>Raise, <1>FailStatus, <1>Complete, <1>Notice,
  <1>NoticeDone, <1>CancelStatus, <1>Pause, <1>TaskDone, <1>TimeOut DEF RunStep

LEMMA FeedRun ==
  ASSUME OneAtATime, DistinctTexts, TypeInv, UserInput, AloneInv, FeedInv,
         NEW t \in Tasks, RunStep(t) \/ TimeOut(t)
  PROVE  FeedInv'
<1> ReqType /\ MemType /\ RunType /\ HistType /\ EnvType /\ PopReady
  BY DEF TypeInv, TypeOK
<1>t. ~Done(t) /\ \A u \in Tasks : u # t => Done(u)
  BY RunIsLive DEF AloneInv, LiveIsPublished
<1>m. /\ UNCHANGED <<pc, spc, tk, msg, crashes, accepted>>
      /\ \A u \in Tasks : u # t => rpc'[u] = rpc[u] /\ input'[u] = input[u] /\ cur'[u] = cur[u]
      /\ rpc'[t] \notin {"none", "dead", "ready"}
  BY RunMoves DEF reqs, setups
<1>f. /\ \/ fed' = fed
         \/ rpc[t] = "entry" /\ rpc'[t] = "start" /\ fed' = [fed EXCEPT ![cur[t]] = @ + 1]
      /\ UNCHANGED <<lastEvt, latestUser>> \/ lastEvt' = Evidence
      /\ rpc[t] \in {"start", "work", "notice"} =>
           rpc'[t] \in {"start", "work", "notice"} \/ lastEvt' = Evidence
      /\ \/ rpc[t] = "pop" /\ cur'[t] = Head(input[t]) /\ input'[t] = Tail(input[t])
         \/ /\ input' = input /\ rpc'[t] # "entry"
            /\ rpc'[t] \in {"grace", "start", "work", "done", "wait", "fail", "stopdone",
                            "complete", "closing"} =>
                 \/ input[t] = <<>>
                 \/ rpc[t] \in {"grace", "entry", "start", "work", "done", "wait", "fail",
                                "stopdone", "complete", "closing"}
  BY RunFeeds
<1>s. \A q \in Reqs : ~Setting(q) /\ ~Setting(q)'
  BY <1>t, <1>m DEF AloneInv, SetupIsAlone, Setting
<1>e. rpc[t] = "entry" => cur[t] \in Msgs /\ fed[cur[t]] <= crashes
  BY DEF FeedInv, InputOfRun, Own
<1>n. \A q \in Posts : pc[q] \notin {"decide", "persist", "queue", "join"}
  BY <1>t DEF AloneInv, PostIsAlone, Quiet, Coming, Reqs
<1>k. Pending' = Pending \/ Pending' = Nothing
  <2>1. Pending' = IF lastEvt' = Nothing THEN latestUser'
                   ELSE IF lastEvt' = Evidence THEN Nothing ELSE lastEvt'
    BY DEF Pending, Unprocessed, Document
  <2>2. Nothing # Evidence
    BY DEF Nothing, Evidence
  <2>3. CASE UNCHANGED <<lastEvt, latestUser>>
    BY <2>1, <2>3, PendingIs
  <2>4. CASE lastEvt' = Evidence
    BY <2>1, <2>2, <2>4
  <2> QED BY <1>f, <2>3, <2>4
<1>l. lastEvt' = Evidence => Pending' = Nothing
  BY DEF Pending, Unprocessed, Document, Nothing, Evidence
<1>1. FedOncePerLife'
  <2>1. CASE fed' = fed
    BY <2>1, <1>m DEF FedOncePerLife, FeedInv
  <2>2. CASE rpc[t] = "entry" /\ fed' = [fed EXCEPT ![cur[t]] = @ + 1]
    <3>1. \A m \in Msgs : m # cur[t] => fed'[m] = fed[m]
      BY <2>2 DEF HistType
    <3>2. fed'[cur[t]] = fed[cur[t]] + 1 /\ fed[cur[t]] \in Nat /\ crashes \in Nat
      BY <2>2, <1>e, Bounds DEF HistType, EnvType
    <3>3. fed'[cur[t]] <= 1 + crashes
      BY <3>2, <2>2, <1>e
    <3> QED BY <3>1, <3>3, <1>m DEF FedOncePerLife, FeedInv
  <2> QED BY <1>f, <2>1, <2>2
<1>2. PostIsNew'
  <2> SUFFICES ASSUME NEW p \in Posts, pc[p] = "idle"
               PROVE  fed'[Text[p]] = 0 /\ Text[p] \notin accepted
    BY <1>m, <1>n DEF PostIsNew
  <2>1. fed[Text[p]] = 0 /\ Text[p] \notin accepted /\ Text[p] \in Msgs
    BY SetAssumption DEF FeedInv, PostIsNew
  <2>2. rpc[t] = "entry" => cur[t] \in accepted
    <3>1. cur[t] \in accepted \cup {Nothing}
      BY DEF UserInput, OnlyUserInputIsFed
    <3>2. Nothing \notin Msgs
      BY SetAssumption
    <3> QED BY <3>1, <3>2, <1>e
  <2>3. fed'[Text[p]] = fed[Text[p]]
    BY <1>f, <2>1, <2>2 DEF HistType
  <2> QED BY <2>1, <2>3
<1>3. SetupHasOwn'
  BY <1>s DEF SetupHasOwn
<1>4. InputOfSetup'
  <2>1. \A u \in Tasks : rpc[u] = "none" => input[u] = <<>>
    BY <1>s DEF FeedInv, InputOfSetup, Setting
  <2>2. \A u \in Tasks : rpc'[u] = "none" => input'[u] = <<>>
    BY <1>m, <2>1
  <2>3. \A q \in Reqs : spc'[q] \notin {"created", "run"}
    BY <1>s DEF Setting
  <2> QED BY <2>2, <2>3 DEF InputOfSetup
<1>5. InputOfRun'
  <2>1. \A u \in Tasks : u # t => /\ Done(u)'
                                  /\ rpc'[u] \in {"none", "finished", "aborted", "dead"}
    BY <1>t, <1>m DEF Done
  <2>2. /\ input'[t] = <<>> \/ \E m \in Msgs : fed'[m] <= crashes' /\ input'[t] = <<m>>
        /\ rpc'[t] \in {"grace", "entry", "start", "work", "done", "wait", "fail",
                        "stopdone", "complete", "closing"} => input'[t] = <<>>
        /\ rpc'[t] = "entry" => cur'[t] \in Msgs /\ fed'[cur'[t]] <= crashes'
    <3>1. CASE rpc[t] = "pop" /\ cur'[t] = Head(input[t]) /\ input'[t] = Tail(input[t])
      <4>1. PICK m \in Msgs : Own(m) /\ input[t] = <<m>>
        BY <3>1, <1>t DEF FeedInv, InputOfRun, PopReady
      <4>2. Head(<<m>>) = m /\ Tail(<<m>>) = <<>>
        OBVIOUS
      <4>3. cur'[t] = m /\ input'[t] = <<>>
        BY <3>1, <4>1, <4>2
      <4>4. fed'[m] <= crashes'
        BY <3>1, <1>f, <1>m, <4>1 DEF Own
      <4> QED BY <4>3, <4>4
    <3>2. CASE /\ input' = input /\ rpc'[t] # "entry"
               /\ rpc'[t] \in {"grace", "start", "work", "done", "wait", "fail", "stopdone",
                               "complete", "closing"} =>
                    \/ input[t] = <<>>
                    \/ rpc[t] \in {"grace", "entry", "start", "work", "done", "wait", "fail",
                                   "stopdone", "complete", "closing"}
      <4>1. rpc'[t] \in {"grace", "entry", "start", "work", "done", "wait", "fail",
                         "stopdone", "complete", "closing"} => input'[t] = <<>>
        BY <3>2 DEF FeedInv, InputOfRun
      <4>2. input'[t] = <<>> \/ \E m \in Msgs : fed'[m] <= crashes' /\ input'[t] = <<m>>
        <5>1. CASE input[t] = <<>>
          BY <5>1, <3>2
        <5>2. CASE input[t] # <<>>
          <6>1. PICK m \in Msgs : Own(m) /\ input[t] = <<m>>
            BY <5>2, <1>t DEF FeedInv, InputOfRun
          <6>2. rpc[t] # "entry"
            BY <5>2 DEF FeedInv, InputOfRun
          <6>3. fed'[m] <= crashes'
            BY <6>1, <6>2, <1>f, <1>m DEF Own
          <6> QED BY <6>1, <6>3, <3>2
        <5> QED BY <5>1, <5>2
      <4> QED BY <4>1, <4>2, <3>2
    <3> QED BY <1>f, <3>1, <3>2
  <2>3. \A u \in Tasks : u # t => rpc'[u] \notin {"grace", "entry", "start", "work", "done",
                                   "wait", "fail", "stopdone", "complete", "closing"}
    BY <2>1
  <2> SUFFICES ASSUME NEW u \in Tasks
               PROVE  /\ ~Done(u)' => \/ input'[u] = <<>>
                                      \/ \E m \in Msgs : fed'[m] <= crashes' /\ input'[u] = <<m>>
                      /\ rpc'[u] \in {"grace", "entry", "start", "work", "done", "wait", "fail",
                                      "stopdone", "complete", "closing"} => input'[u] = <<>>
                      /\ rpc'[u] = "entry" => cur'[u] \in Msgs /\ fed'[cur'[u]] <= crashes'
    BY DEF InputOfRun, Own
  <2>4. CASE u = t
    BY <2>2, <2>4
  <2>5. CASE u # t
    BY <2>1, <2>3, <2>5
  <2> QED BY <2>4, <2>5
<1>6. PendingIsWorkedOn'
  <2> SUFFICES ASSUME Pending' \in Msgs, ~Own(Pending)'
               PROVE  rpc'[t] \in {"start", "work", "notice"}
    BY DEF PendingIsWorkedOn
  <2>1. Nothing \notin Msgs
    BY SetAssumption
  <2>2. Pending' = Pending /\ lastEvt' # Evidence
    BY <2>1, <1>k, <1>l
  <2>3. CASE fed' = fed
    <3>1. ~Own(Pending)
      BY <2>2, <2>3, <1>m DEF Own
    <3>2. PICK u \in Tasks : rpc[u] \in {"start", "work", "notice"}
      BY <3>1, <2>2 DEF FeedInv, PendingIsWorkedOn
    <3>3. u = t
      BY <3>2, <1>t DEF Done
    <3> QED BY <3>2, <3>3, <2>2, <1>f
  <2> QED BY <2>3, <1>f
<1> QED BY <1>1, <1>2, <1>3, <1>4, <1>5, <1>6 DEF FeedInv

LEMMA FeedCrash ==
  ASSUME TypeInv, TasksKnown, FeedInv, Crash
  PROVE  FeedInv'
<1> ReqType /\ MemType /\ RunType /\ HistType /\ EnvType /\ DbType
  BY DEF TypeInv, TypeOK
<1> Posts \cap Views = {} /\ Posts \subseteq Reqs
  BY SetAssumption DEF Reqs
<1>m. /\ crashes' = crashes + 1 /\ UNCHANGED <<fed, accepted, lastEvt, latestUser, input>>
      /\ spc' = [r \in Reqs |-> "none"]
      /\ rpc' = [t \in Tasks |-> IF t \in created THEN "dead" ELSE "none"]
      /\ pc' = [r \in Reqs |-> IF Attached(r) THEN Gone(r) ELSE pc[r]]
  BY DEF Crash, db, log
<1>c. crashes \in Nat /\ \A m \in Msgs : fed[m] \in Nat
  BY Bounds DEF EnvType, HistType
<1>o. \A m \in Msgs : fed'[m] <= crashes'
  BY <1>m, <1>c DEF FeedInv, FedOncePerLife
<1>s. \A r \in Reqs : ~Setting(r)'
  BY <1>m DEF Setting
<1>1. FedOncePerLife'
  BY <1>m, <1>c, <1>o DEF FedOncePerLife
<1>2. PostIsNew'
  <2>1. \A p \in Posts : pc'[p] \in {"idle", "end"} /\ (pc'[p] = "idle" => pc[p] = "idle")
    BY <1>m DEF Attached, Gone
  <2> QED BY <2>1, <1>m DEF PostIsNew, FeedInv
<1>3. SetupHasOwn'
  BY <1>s DEF SetupHasOwn
<1>4. InputOfSetup'
  <2>1. \A t \in Tasks : rpc'[t] = "none" => input'[t] = <<>>
    <3> SUFFICES ASSUME NEW t \in Tasks, t \notin created PROVE input[t] = <<>>
      BY <1>m
    <3>1. rpc[t] = "none" /\ \A r \in Reqs : spc[r] = "run" => tk[r] # t
      BY SetAssumption DEF TasksKnown
    <3> QED BY <3>1 DEF FeedInv, InputOfSetup
  <2>2. \A r \in Reqs : spc'[r] \notin {"created", "run"}
    BY <1>m
  <2> QED BY <2>1, <2>2 DEF InputOfSetup
<1>5. InputOfRun'
  BY <1>m DEF InputOfRun, Done
<1>6. PendingIsWorkedOn'
  BY <1>o DEF PendingIsWorkedOn, Own
<1> QED BY <1>1, <1>2, <1>3, <1>4, <1>5, <1>6 DEF FeedInv

LEMMA FeedStep ==
  ASSUME OneAtATime, DistinctTexts, TypeInv, UserInput, SetupPath, TasksKnown, AloneInv, FeedInv,
         [Next]_vars
  PROVE  FeedInv'
<1>1. CASE Next
  BY <1>1, FeedRequest, FeedSetup, FeedRun, FeedCrash, AloneStop DEF Next
<1>2. CASE UNCHANGED vars
  <2> USE <1>2 DEF vars, db, log, setups, reqs, local, runs, env, hist, FeedInv
  <2>1. FedOncePerLife' /\ PostIsNew'
    BY DEF FedOncePerLife, PostIsNew
  <2>2. SetupHasOwn' /\ InputOfSetup'
    BY DEF SetupHasOwn, InputOfSetup, Setting, Own
  <2>3. InputOfRun'
    BY DEF InputOfRun, Done, Own
  <2>4. PendingIsWorkedOn'
    BY DEF PendingIsWorkedOn, Pending, Unprocessed, Document, Own
  <2> QED BY <2>1, <2>2, <2>3, <2>4
<1> QED BY <1>1, <1>2

LEMMA FeedInit == Init => FeedInv
<1> SUFFICES ASSUME Init PROVE FeedInv
  OBVIOUS
<1>1. /\ \A r \in Reqs : pc[r] = "idle" /\ spc[r] = "none"
      /\ \A t \in Tasks : rpc[t] = "none" /\ input[t] = <<>>
      /\ \A m \in Msgs : fed[m] = 0
      /\ accepted = {} /\ crashes = 0
  BY DEF Init
<1>2. FedOncePerLife /\ PostIsNew
  BY <1>1, SetAssumption DEF FedOncePerLife, PostIsNew
<1>3. SetupHasOwn /\ InputOfSetup /\ InputOfRun
  BY <1>1 DEF SetupHasOwn, InputOfSetup, InputOfRun, Setting, Done
<1>4. PendingIsWorkedOn
  BY <1>1 DEF PendingIsWorkedOn, Own
<1> QED BY <1>2, <1>3, <1>4 DEF FeedInv

-----------------------------------------------------------------------------
(* Theorems *)

LEMMA OneTabInit == Init => TypeInv /\ UserInput /\ SetupPath /\ Closing /\ AloneInv
<1>1. Init => SetupPath /\ Closing
  BY DEF Init, SetupPath, Setting, Closing, ClosedOnTime, TasksKnown
<1>2. Init => UserInput
  BY DEF Init, UserInput, Blank, OnlyUserInputIsFed, Setting
<1> QED BY <1>1, <1>2, TypeInit, AloneInit

\* With one tab, one execution at a time works on the session, whatever drops,
\* fails, times out or crashes: the in-memory registry and _inflight_setups are
\* enough to keep a recovery or a follow-up from starting a second one.
THEOREM OneLiveTaskHolds == ASSUME OneAtATime PROVE Spec => []OneLiveTask
<1>1. TypeInv /\ SetupPath /\ Closing /\ AloneInv /\ [Next]_vars
        => TypeInv' /\ SetupPath' /\ Closing' /\ AloneInv'
  BY TypeStep, SetupPathStep, ClosingStep, AloneStep DEF Closing
<1>2. AloneInv => OneLiveTask
  BY DEF AloneInv, LiveIsPublished, OneLiveTask
<1> QED BY <1>1, <1>2, OneTabInit, PTL DEF Spec

\* While a flow works on a turn of the only tab, the session says RUNNING: no
\* request of that tab writes another status over it.
THEOREM StatusTellsTheTruthHolds == ASSUME OneAtATime PROVE Spec => []StatusTellsTheTruth
<1>1. TypeInv /\ SetupPath /\ Closing /\ AloneInv /\ StatusInv /\ [Next]_vars
        => TypeInv' /\ SetupPath' /\ Closing' /\ AloneInv' /\ StatusInv'
  BY TypeStep, SetupPathStep, ClosingStep, AloneStep, StatusStep DEF Closing
<1>2. StatusInv => StatusTellsTheTruth
  BY DEF StatusInv
<1> QED BY <1>1, <1>2, OneTabInit, StatusInit, PTL DEF Spec

\* A follow-up never overwrites WAITING or CANCELLED by IN_QUEUE: what chat()
\* read of the session is still its status when it writes.
THEOREM ResumeStatusIsKeptHolds == ASSUME OneAtATime PROVE Spec => ResumeStatusIsKept
<1>1. TypeInv /\ SetupPath /\ Closing /\ AloneInv /\ StatusInv /\ [Next]_vars
        => TypeInv' /\ SetupPath' /\ Closing' /\ AloneInv' /\ StatusInv'
  BY TypeStep, SetupPathStep, ClosingStep, AloneStep, StatusStep DEF Closing
<1>2. TypeInv /\ SetupPath /\ Closing /\ AloneInv /\ StatusInv /\ [Next]_vars
        => [(status \in {"WAITING", "CANCELLED"}) => (status' # "IN_QUEUE")]_vars
  BY StatusStep DEF KeptStep, Closing
<1> QED BY <1>1, <1>2, OneTabInit, StatusInit, PTL DEF Spec, ResumeStatusIsKept

\* With one tab and texts that differ, a text is handed to the flow at most once
\* by each life of the process: while its setup or its run has it no recovery
\* finds it unprocessed, and once a run has acted on it the log shows so.
THEOREM FedOncePerLifeHolds ==
  ASSUME OneAtATime, DistinctTexts PROVE Spec => []FedOncePerLife
<1>1. TypeInv /\ UserInput /\ SetupPath /\ Closing /\ AloneInv /\ FeedInv /\ [Next]_vars
        => TypeInv' /\ UserInput' /\ SetupPath' /\ Closing' /\ AloneInv' /\ FeedInv'
  BY TypeStep, UserInputStep, SetupPathStep, ClosingStep, AloneStep, FeedStep DEF Closing
<1>2. FeedInv => FedOncePerLife
  BY DEF FeedInv
<1> QED BY <1>1, <1>2, OneTabInit, FeedInit, PTL DEF Spec
=============================================================================
