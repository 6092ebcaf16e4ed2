---------------------------- MODULE SessionTurns ----------------------------
(***************************************************************************)
(* One chat session of the backend: the HTTP requests that enter           *)
(* AgentDomainService.chat (POSTs carry a message, VIEWS only re-subscribe),*)
(* the shielded setup coroutine each of them may start, the in-memory task  *)
(* registry, the runner of each task, STOP, and a restart of the process.   *)
(*                                                                          *)
(* Granularity: the backend is one asyncio loop, so an action is the code   *)
(* between two awaits together with the storage operation it issues; a      *)
(* program counter names the await a coroutine is suspended on.             *)
(*                                                                          *)
(* An operator named ...Bug is the next definition with a plausible mistake *)
(* put into it. No specification uses it: it is what the properties are     *)
(* tried against.                                                           *)
(***************************************************************************)
EXTENDS Naturals, Sequences, FiniteSets

CONSTANTS
  Posts,          \* chat requests that carry a message; each is sent once
  Views,          \* re-subscriptions without a message; a view may come back
  Tasks,          \* the task ids a run of the model may use (a bound)
  Msgs,           \* message texts
  Text,           \* the text of each post
  StopTexts,      \* the texts looks_like_stop_request accepts
  MaxCrashes, MaxStops, MaxDrops,    \* bounds on the environment
  SingleTab,      \* a request starts only when no other one is attached
  Patient,        \* a post is sent only when nothing of the session runs
  DropsRecovery,  \* a connection may drop while it awaits its own recovery
  BootMayFail,    \* the sandbox or its browser may raise during a setup
  MayTimeOut,     \* the wall-clock limit may be hit
  SlowReads       \* others may act between chat()'s read of the session and
                  \* the decision it takes on what it read

Reqs == Posts \cup Views

Statuses == {"PENDING", "IN_QUEUE", "RUNNING", "WAITING",
             "COMPLETED", "FAILED", "CANCELLED"}

Nothing == "nothing"      \* an empty event log, a null pointer
Evidence == "evidence"    \* an event that shows a run acted on the input
NoTask == "no-task"
Free == "free"

ASSUME SetAssumption ==
  /\ Text \in [Posts -> Msgs]
  /\ StopTexts \subseteq Msgs
  /\ Posts \cap Views = {}
  /\ {Nothing, Evidence} \cap Msgs = {}
  /\ NoTask \notin Tasks
  /\ Free \notin Reqs

ASSUME BoundAssumption ==
  /\ {MaxCrashes, MaxStops, MaxDrops} \subseteq Nat
  /\ {SingleTab, Patient, DropsRecovery, BootMayFail, MayTimeOut,
      SlowReads} \subseteq BOOLEAN

VARIABLES
  \* the session document in MongoDB
  status, latestUser, dbTask,
  lastEvt,    \* the newest event that _last_unprocessed_user_message stops at
  lastFinal,  \* the newest message event is a final assistant message
  \* the process
  registry,   \* RedisStreamTask._task_registry
  created,    \* the task ids used so far
  inflight,   \* _inflight_setups[session]
  lock,       \* _session_locks[session]
  \* requests and their setup coroutines
  pc, snap, waitFor, spc, fresh,
  msg,        \* the message a setup feeds
  tk,         \* the variable `task`, shared by a request and its setup
  \* tasks: execution coroutine, input stream, terminal event in the output
  rpc, input, cur, many, timed, term,
  \* STOP, and the environment's budgets
  stopPc, stopSnap, crashes, stops, drops,
  \* history: persisted user messages, times each was handed to the flow,
  \* the newest setup
  accepted, fed, newest

log == <<lastEvt, lastFinal>>
db == <<status, latestUser, dbTask, log>>
setups == <<spc, fresh, msg>>
reqs == <<pc, snap, waitFor, setups, tk>>
local == <<cur, many, timed>>
runs == <<rpc, input, local, term>>
env == <<stopPc, stopSnap, crashes, stops, drops>>
hist == <<accepted, fed, newest>>
tasks == <<registry, created>>
mem == <<tasks, inflight, lock>>
vars == <<db, mem, reqs, runs, env, hist>>

-----------------------------------------------------------------------------
(* What the code computes from the session document.                       *)

Document == [status |-> status, evt |-> lastEvt, user |-> latestUser,
             final |-> lastFinal, task |-> dbTask]

Blank == [status |-> "PENDING", evt |-> Nothing, user |-> Nothing,
          final |-> FALSE, task |-> NoTask]

Documents == [status : Statuses, evt : Msgs \cup {Nothing, Evidence},
              user : Msgs \cup {Nothing}, final : BOOLEAN,
              task : Tasks \cup {NoTask}]

\* The bug of 2026-09-05: the preview pointer, which the agent writes too.
UnprocessedRefeedsAgentBug(doc) ==
  IF doc.evt = Nothing THEN doc.user
  ELSE IF doc.evt = Evidence THEN "agent-text" ELSE doc.evt
UnprocessedIgnoresEvidenceBug(doc) ==
  IF doc.evt \in {Nothing, Evidence} THEN doc.user ELSE doc.evt
UnprocessedPointerOnlyBug(doc) == IF doc.evt = Nothing THEN doc.user ELSE Nothing

\* _last_unprocessed_user_message: the newest relevant event is a user
\* message, or the log is empty and the provenance-safe pointer is used.
Unprocessed(doc) == IF doc.evt = Nothing THEN doc.user
                    ELSE IF doc.evt = Evidence THEN Nothing ELSE doc.evt

\* RedisStreamTask.get on session.task_id.
Lookup(doc) == IF doc.task \in registry THEN doc.task ELSE NoTask

\* RedisStreamTask.done: never started, or its execution has ended.
Done(t) == rpc[t] \in {"none", "finished", "aborted", "dead"}

\* chat(): a POST with the text of the last user message is a reconnect.
IsReconnect(doc, task, m, recent) ==
  /\ doc.user = m
  /\ doc.status \notin {"FAILED", "CANCELLED", "WAITING"}
  /\ IF task # NoTask
     THEN doc.status \in {"PENDING", "IN_QUEUE", "RUNNING"} \/ Done(task)
     ELSE /\ Unprocessed(doc) = Nothing
          /\ recent
          /\ doc.status \in {"PENDING", "IN_QUEUE", "RUNNING", "COMPLETED"}

KeepsStatusBug(s) == s \in {"RUNNING", "CANCELLED"}

\* A turn keeps the statuses from which the flow resumes, or is running in.
KeepsStatus(s) == s \in {"RUNNING", "WAITING", "CANCELLED"}

Setting(r) == spc[r] \notin {"none", "ok", "failed"}
InflightAliveBug == FALSE
InflightAlive == inflight # Free /\ Setting(inflight)
Attached(r) == pc[r] \notin {"idle", "end"}
Gone(r) == IF r \in Posts THEN "end" ELSE "idle"
Quiet == (\A t \in Tasks : Done(t)) /\ (\A r \in Reqs : ~Setting(r))
MayStart(r) ==
  /\ SingleTab => \A q \in Reqs : ~Attached(q)
  /\ (Patient /\ r \in Posts) => Quiet

Init ==
  /\ status = "PENDING" /\ latestUser = Nothing
  /\ dbTask = NoTask /\ lastEvt = Nothing /\ lastFinal = FALSE
  /\ registry = {} /\ created = {} /\ inflight = Free /\ lock = Free
  /\ pc = [r \in Reqs |-> "idle"]
  /\ snap = [r \in Reqs |-> Blank]
  /\ msg = [r \in Reqs |-> Nothing]
  /\ waitFor = [r \in Reqs |-> Free]
  /\ spc = [r \in Reqs |-> "none"]
  /\ fresh = [r \in Reqs |-> "PENDING"]
  /\ tk = [r \in Reqs |-> NoTask]
  /\ rpc = [t \in Tasks |-> "none"]
  /\ input = [t \in Tasks |-> <<>>]
  /\ cur = [t \in Tasks |-> Nothing]
  /\ many = [t \in Tasks |-> FALSE]
  /\ timed = [t \in Tasks |-> FALSE]
  /\ term = [t \in Tasks |-> FALSE]
  /\ stopPc = "idle" /\ stopSnap = [status |-> "PENDING", task |-> NoTask]
  /\ crashes = 0 /\ stops = 0 /\ drops = 0
  /\ accepted = {} /\ fed = [m \in Msgs |-> 0] /\ newest = Free

-----------------------------------------------------------------------------
(* chat(): the request coroutine.                                           *)

Goto(r, label) == pc' = [pc EXCEPT ![r] = label]
Forget(r) == snap' = [snap EXCEPT ![r] = Blank]
Holds(r, t) == tk' = [tk EXCEPT ![r] = t]

\* find_by_id_and_user_id at the top of chat().
Load(r) ==
  /\ pc[r] = "idle" /\ ~Setting(r) /\ MayStart(r)
  /\ snap' = [snap EXCEPT ![r] = Document]
  /\ Holds(r, NoTask)
  /\ Goto(r, "decide")
  /\ UNCHANGED <<db, mem, waitFor, setups, runs, env, hist>>

\* A duplicate submission: no task left closes the stream with a DoneEvent,
\* a task in the registry is drained again.
Reconnect(r) ==
  /\ pc[r] = "decide" /\ r \in Posts
  /\ \E recent \in BOOLEAN : IsReconnect(snap[r], Lookup(snap[r]), Text[r], recent)
  /\ Holds(r, Lookup(snap[r]))
  /\ Goto(r, IF Lookup(snap[r]) = NoTask THEN "end" ELSE "drain")
  /\ Forget(r)
  /\ UNCHANGED <<db, mem, waitFor, setups, runs, env, hist>>

\* Otherwise the message is persisted: the pointers ...
Accept(r) ==
  /\ pc[r] = "decide" /\ r \in Posts
  /\ \E recent \in BOOLEAN : ~IsReconnect(snap[r], Lookup(snap[r]), Text[r], recent)
  /\ Holds(r, Lookup(snap[r]))
  /\ latestUser' = Text[r]
  /\ accepted' = accepted \cup {Text[r]}
  /\ Goto(r, "persist")
  /\ UNCHANGED <<status, dbTask, log, mem, snap, waitFor, setups, runs, env, fed, newest>>

\* ... then the event ...
Persist(r) ==
  /\ pc[r] = "persist"
  /\ lastEvt' = Text[r]
  /\ lastFinal' = FALSE
  /\ Goto(r, IF KeepsStatus(snap[r].status) THEN "join" ELSE "queue")
  /\ Forget(r)
  /\ UNCHANGED <<status, latestUser, dbTask, mem, waitFor, setups, tk, runs, env, hist>>

\* ... then the status, decided on the snapshot chat() loaded.
MarkQueued(r) ==
  /\ pc[r] = "queue"
  /\ status' = "IN_QUEUE"
  /\ Goto(r, "join")
  /\ UNCHANGED <<latestUser, dbTask, log, mem, snap, waitFor, setups, tk, runs, env, hist>>

\* A view whose session has no task although its turn is not over.
Stranded(r) ==
  /\ pc[r] = "decide" /\ r \in Views
  /\ Lookup(snap[r]) = NoTask
  /\ snap[r].status \notin {"COMPLETED", "WAITING"}

\* ensure_future(setup) and its entry in _inflight_setups.
Register(r, first, m) ==
  /\ inflight' = r
  /\ newest' = r
  /\ spc' = [spc EXCEPT ![r] = first]
  /\ msg' = [msg EXCEPT ![r] = m]

StartSetup(r) ==
  /\ pc[r] = "join" /\ ~InflightAlive
  /\ Register(r, "fresh", Text[r])
  /\ Goto(r, "setup")
  /\ UNCHANGED <<db, tasks, lock, snap, waitFor, fresh, tk, runs, env, accepted, fed>>

\* A setup that is still in flight is awaited first, ...
AwaitInflight(r) ==
  /\ pc[r] = "join" \/ Stranded(r)
  /\ InflightAlive
  /\ waitFor' = [waitFor EXCEPT ![r] = inflight]
  /\ Goto(r, "wait")
  /\ Forget(r)
  /\ UNCHANGED <<db, mem, setups, tk, runs, env, hist>>

\* ... then the session is fetched again ...
Refetch(r) ==
  /\ pc[r] = "woken"
  /\ snap' = [snap EXCEPT ![r] = Document]
  /\ Goto(r, "joined")
  /\ UNCHANGED <<db, mem, waitFor, setups, tk, runs, env, hist>>

\* ... and a post starts its own setup with the task found, ...
JoinPost(r) ==
  /\ pc[r] = "joined" /\ r \in Posts
  /\ Holds(r, Lookup(snap[r]))
  /\ Register(r, "fresh", Text[r])
  /\ Goto(r, "setup")
  /\ Forget(r)
  /\ UNCHANGED <<db, tasks, lock, waitFor, fresh, runs, env, accepted, fed>>

\* ... while a view drains that task, or fails when there is none.
JoinView(r) ==
  /\ pc[r] = "joined" /\ r \in Views
  /\ Holds(r, Lookup(snap[r]))
  /\ Goto(r, IF Lookup(snap[r]) = NoTask THEN "error" ELSE "drain")
  /\ Forget(r)
  /\ UNCHANGED <<db, mem, waitFor, setups, runs, env, hist>>

StaleStatusesBug == {"RUNNING"}
StaleStatuses == {"RUNNING", "IN_QUEUE"}

\* A view with a task to drain, or of a session that needs nothing.
Subscribe(r) ==
  /\ pc[r] = "decide" /\ r \in Views
  /\ \/ ~Stranded(r)
     \/ /\ ~InflightAlive
        /\ Unprocessed(snap[r]) = Nothing
        /\ snap[r].status \notin StaleStatuses
  /\ Holds(r, Lookup(snap[r]))
  /\ Goto(r, IF Lookup(snap[r]) = NoTask THEN "idle" ELSE "drain")
  /\ Forget(r)
  /\ UNCHANGED <<db, mem, waitFor, setups, runs, env, hist>>

\* The persisted user message nothing has acted on is fed again.
Recover(r) ==
  /\ Stranded(r) /\ ~InflightAlive
  /\ Unprocessed(snap[r]) # Nothing
  /\ Register(r, "choose", Unprocessed(snap[r]))
  /\ Goto(r, "setup")
  /\ Forget(r)
  /\ UNCHANGED <<db, tasks, lock, waitFor, fresh, tk, runs, env, accepted, fed>>

\* A status left RUNNING or IN_QUEUE by a dead run is resolved; FAILED comes
\* with a persisted ErrorEvent.
ResolveStale(r) ==
  /\ Stranded(r) /\ ~InflightAlive
  /\ Unprocessed(snap[r]) = Nothing
  /\ snap[r].status \in StaleStatuses
  /\ status' = IF snap[r].final THEN "COMPLETED" ELSE "FAILED"
  /\ Goto(r, IF snap[r].final THEN "idle" ELSE "error")
  /\ Forget(r)
  /\ UNCHANGED <<latestUser, dbTask, log, mem, waitFor, setups, tk, runs, env, hist>>

\* The recovering view takes its own entry out of _inflight_setups.
UnregisterBug(r) == inflight' = Free
Unregister(r) == inflight' = IF inflight = r THEN Free ELSE inflight

RecoverReturns(r) ==
  /\ pc[r] = "recovered"
  /\ Unregister(r)
  /\ Goto(r, IF spc[r] = "ok" THEN "drain" ELSE "error")
  /\ UNCHANGED <<db, tasks, lock, snap, waitFor, setups, tk, runs, env, hist>>

\* The except branch persists an ErrorEvent; the status is left as it is.
FailRequest(r) ==
  /\ pc[r] = "error"
  /\ lastEvt' = Evidence
  /\ Goto(r, Gone(r))
  /\ UNCHANGED <<status, latestUser, dbTask, lastFinal, mem, snap, waitFor, setups,
                 tk, runs, env, hist>>

\* The drain loop ends on a terminal event, or on a done task's silence.
Drained(r) ==
  /\ pc[r] = "drain"
  /\ term[tk[r]] \/ Done(tk[r])
  /\ Goto(r, Gone(r))
  /\ UNCHANGED <<db, mem, snap, waitFor, setups, tk, runs, env, hist>>

\* A setup that is awaited without asyncio.shield.
DropBug(r) ==
  /\ Attached(r) /\ drops < MaxDrops
  /\ drops' = drops + 1
  /\ spc' = [spc EXCEPT ![r] = IF Setting(r) THEN "none" ELSE @]
  /\ inflight' = IF inflight = r THEN Free ELSE inflight
  /\ lock' = IF lock = r THEN Free ELSE lock
  /\ Goto(r, Gone(r))
  /\ UNCHANGED <<db, tasks, snap, waitFor, fresh, msg, tk, runs, stopPc, stopSnap,
                 crashes, stops, hist>>

\* The SSE connection drops: the generator is cancelled at its await. The
\* shielded setup lives on; a recovering view's finally clause still runs.
Recovering(r) == r \in Views /\ pc[r] \in {"setup", "recovered"}
Drop(r) ==
  /\ Attached(r) /\ drops < MaxDrops
  /\ drops' = drops + 1
  /\ Recovering(r) => DropsRecovery
  /\ IF Recovering(r) THEN Unregister(r) ELSE UNCHANGED inflight
  /\ Goto(r, Gone(r))
  /\ Forget(r)
  /\ UNCHANGED <<db, tasks, lock, waitFor, setups, tk, runs, stopPc, stopSnap,
                 crashes, stops, hist>>

-----------------------------------------------------------------------------
(* _setup_and_start (posts) and _recover (views).                           *)

At(r, from, to) == spc[r] = from /\ spc' = [spc EXCEPT ![r] = to]

\* The end of a setup's coroutine resumes everyone who awaits it.
Wake(r, outcome) ==
  pc' = [q \in Reqs |->
    CASE q = r /\ pc[q] = "setup" /\ q \in Posts ->
           IF outcome = "ok" THEN "drain" ELSE "error"
      [] q = r /\ pc[q] = "setup" /\ q \notin Posts -> "recovered"
      [] pc[q] = "wait" /\ waitFor[q] = r ->
           IF outcome = "failed" /\ q \in Views THEN "error" ELSE "woken"
      [] OTHER -> pc[q]]

EndSetup(r, from, outcome) ==
  /\ At(r, from, outcome)
  /\ IF r \in Posts THEN Unregister(r) ELSE UNCHANGED inflight
  /\ Wake(r, outcome)

\* The setup reads the status again, ...
ReadFresh(r) ==
  /\ At(r, "fresh", "choose")
  /\ fresh' = [fresh EXCEPT ![r] = status]
  /\ UNCHANGED <<db, mem, pc, snap, waitFor, msg, tk, runs, env, hist>>

\* ... to tell a running task from one that is over or was never published.
TaskLive(r) == /\ r \in Posts /\ tk[r] # NoTask /\ ~Done(tk[r])
               /\ fresh[r] = "RUNNING"

Enqueue(r) == input' = [input EXCEPT ![tk[r]] = Append(@, msg[r])]

\* An interjection: the message goes into the running task's input stream.
Interject(r) ==
  /\ TaskLive(r)
  /\ At(r, "choose", "run")
  /\ Enqueue(r)
  /\ UNCHANGED <<db, mem, pc, snap, waitFor, fresh, msg, tk, rpc, local, term, env, hist>>

\* _create_task: the per-session lock, then the sandbox boots, ...
Lock(r) ==
  /\ ~TaskLive(r)
  /\ At(r, "choose", "boot")
  /\ lock = Free
  /\ lock' = r
  /\ UNCHANGED <<db, tasks, inflight, pc, snap, waitFor, fresh, msg, tk, runs, env, hist>>

\* ... then the task enters the registry and task_id is published; ...
CreateTask(r) ==
  /\ At(r, "boot", "created")
  /\ \E t \in Tasks \ created :
       /\ created' = created \cup {t}
       /\ registry' = registry \cup {t}
       /\ dbTask' = t
       /\ Holds(r, t)
  /\ UNCHANGED <<status, latestUser, log, inflight, lock, pc, snap, waitFor, fresh,
                 msg, runs, env, hist>>

\* ... or the sandbox or its browser raises.
BootFails(r) ==
  /\ BootMayFail
  /\ EndSetup(r, "boot", "failed")
  /\ lock' = Free
  /\ UNCHANGED <<db, tasks, snap, waitFor, fresh, msg, tk, runs, env, hist>>

\* The lock is released and the message put into the new task's stream.
PutFirst(r) ==
  /\ At(r, "created", "run")
  /\ lock' = Free
  /\ Enqueue(r)
  /\ UNCHANGED <<db, tasks, inflight, pc, snap, waitFor, fresh, msg, tk, rpc, local,
                 term, env, hist>>

\* task.run() starts an execution unless one is under way; the setup ends.
RunTask(r) ==
  /\ EndSetup(r, "run", "ok")
  /\ rpc' = [rpc EXCEPT ![tk[r]] = IF Done(tk[r]) THEN "ready" ELSE @]
  /\ UNCHANGED <<db, tasks, lock, snap, waitFor, fresh, msg, tk, input, local, term,
                 env, hist>>

-----------------------------------------------------------------------------
(* The execution of a task: RedisStreamTask._execute_task, the watchdog     *)
(* wrapper AgentTaskRunner.run, and _run_impl.                              *)

InTry == {"poll", "grace", "pop", "entry", "start", "work", "done", "wait",
          "stopdone", "complete", "closing"}
InHandler == {"notice", "noticedone", "cancelled", "fail", "handled"}

RunAt(t, from, to) == rpc[t] = from /\ rpc' = [rpc EXCEPT ![t] = to]

\* An event the run persists: it shows work, and a message may be final.
Shows(final) == lastEvt' = Evidence /\ lastFinal' = final

Begin(t) ==
  /\ RunAt(t, "ready", "poll")
  /\ many' = [many EXCEPT ![t] = FALSE]
  /\ timed' = [timed EXCEPT ![t] = FALSE]
  /\ UNCHANGED <<db, mem, reqs, input, cur, term, env, hist>>

\* The grace drain: two looks at the input stream, one second apart.
Look(t) ==
  /\ \/ RunAt(t, "poll", IF input[t] = <<>> THEN "grace" ELSE "pop")
     \/ RunAt(t, "grace", IF input[t] = <<>> THEN "complete" ELSE "pop")
  /\ UNCHANGED <<db, mem, reqs, input, local, term, env, hist>>

\* _pop_event.
Pop(t) ==
  /\ RunAt(t, "pop", "entry")
  /\ cur' = [cur EXCEPT ![t] = Head(input[t])]
  /\ input' = [input EXCEPT ![t] = Tail(@)]
  /\ UNCHANGED <<db, mem, reqs, many, timed, term, env, hist>>

\* Stop-by-text, from the second message on: final answer, plan closed, Done.
StopByText(t) ==
  /\ many[t] /\ cur[t] \in StopTexts
  /\ RunAt(t, "entry", "stopdone")
  /\ Shows(TRUE)
  /\ term' = [term EXCEPT ![t] = TRUE]
  /\ UNCHANGED <<status, latestUser, dbTask, mem, reqs, input, local, env, hist>>

\* The break leaves the loop, past whatever is still queued.
StopByTextStatus(t) ==
  /\ RunAt(t, "stopdone", "complete")
  /\ status' = "COMPLETED"
  /\ UNCHANGED <<latestUser, dbTask, log, mem, reqs, input, local, term, env, hist>>

\* The flow takes the message, reads the session, ...
EnterFlow(t) ==
  /\ ~(many[t] /\ cur[t] \in StopTexts)
  /\ RunAt(t, "entry", "start")
  /\ many' = [many EXCEPT ![t] = TRUE]
  /\ fed' = [fed EXCEPT ![cur[t]] = @ + 1]
  /\ cur' = [cur EXCEPT ![t] = Nothing]
  /\ UNCHANGED <<db, mem, reqs, input, timed, term, env, accepted, newest>>

StartFlowBug(t) ==
  /\ RunAt(t, "start", "work")
  /\ UNCHANGED <<db, mem, reqs, input, local, term, env, hist>>

\* ... and marks the turn as running.
StartFlow(t) ==
  /\ RunAt(t, "start", "work")
  /\ status' = "RUNNING"
  /\ UNCHANGED <<latestUser, dbTask, log, mem, reqs, input, local, term, env, hist>>

\* After each event the flow is abandoned when the input stream holds more.
OrInterjected(t, next) == IF input[t] = <<>> THEN next ELSE "poll"

\* A title, plan, step, tool or non-final message event.
Work(t) ==
  /\ RunAt(t, "work", OrInterjected(t, "work"))
  /\ lastFinal' \in {lastFinal, FALSE}
  /\ lastEvt' = Evidence
  /\ UNCHANGED <<status, latestUser, dbTask, mem, reqs, input, local,
                 term, env, hist>>

\* The final summary, ...
Summary(t) ==
  /\ RunAt(t, "work", OrInterjected(t, "done"))
  /\ Shows(TRUE)
  /\ UNCHANGED <<status, latestUser, dbTask, mem, reqs, input, local,
                 term, env, hist>>

\* ... and the flow's DoneEvent.
FlowDone(t) ==
  /\ RunAt(t, "done", "poll")
  /\ lastEvt' = Evidence
  /\ term' = [term EXCEPT ![t] = TRUE]
  /\ UNCHANGED <<status, latestUser, dbTask, lastFinal, mem, reqs,
                 input, local, env, hist>>

\* ask_user: the WaitEvent, then the status; the run returns.
AskUser(t) ==
  /\ RunAt(t, "work", "wait")
  /\ lastEvt' = Evidence
  /\ term' = [term EXCEPT ![t] = TRUE]
  /\ UNCHANGED <<status, latestUser, dbTask, lastFinal, mem, reqs,
                 input, local, env, hist>>

WaitStatus(t) ==
  /\ RunAt(t, "wait", "closing")
  /\ status' = "WAITING"
  /\ UNCHANGED <<latestUser, dbTask, log, mem, reqs, input, local, term, env, hist>>

\* An exception out of the flow: the ErrorEvent, then the status.
Raise(t) ==
  /\ RunAt(t, "work", "fail")
  /\ lastEvt' = Evidence
  /\ term' = [term EXCEPT ![t] = TRUE]
  /\ UNCHANGED <<status, latestUser, dbTask, lastFinal, mem, reqs,
                 input, local, env, hist>>

FailStatus(t) ==
  /\ RunAt(t, "fail", "handled")
  /\ status' = "FAILED"
  /\ UNCHANGED <<latestUser, dbTask, log, mem, reqs, input, local, term, env, hist>>

Complete(t) ==
  /\ RunAt(t, "complete", "closing")
  /\ status' = "COMPLETED"
  /\ UNCHANGED <<latestUser, dbTask, log, mem, reqs, input, local, term, env, hist>>

\* The CancelledError handler and _finalize_timed_out: notice, Done, status.
Notice(t) ==
  /\ RunAt(t, "notice", "noticedone")
  /\ Shows(TRUE)
  /\ UNCHANGED <<status, latestUser, dbTask, mem, reqs, input, local,
                 term, env, hist>>

NoticeDoneBug(t) ==
  /\ RunAt(t, "noticedone", "cancelled")
  /\ UNCHANGED <<db, mem, reqs, input, local, term, env, hist>>

NoticeDone(t) ==
  /\ RunAt(t, "noticedone", "cancelled")
  /\ lastEvt' = Evidence
  /\ term' = [term EXCEPT ![t] = TRUE]
  /\ UNCHANGED <<status, latestUser, dbTask, lastFinal, mem, reqs,
                 input, local, env, hist>>

CancelStatusBug(t) ==
  /\ RunAt(t, "cancelled", "handled")
  /\ status' = "COMPLETED"
  /\ UNCHANGED <<latestUser, dbTask, log, mem, reqs, input, local, term, env, hist>>

CancelStatus(t) ==
  /\ RunAt(t, "cancelled", "handled")
  /\ status' = "CANCELLED"
  /\ UNCHANGED <<latestUser, dbTask, log, mem, reqs, input, local, term, env, hist>>

\* The finally clause pauses the sandbox; then _on_task_done.
Pause(t) ==
  /\ RunAt(t, "closing", "pausing") \/ RunAt(t, "handled", "pausing")
  /\ UNCHANGED <<db, mem, reqs, input, local, term, env, hist>>

TaskDone(t) ==
  /\ RunAt(t, "pausing", "finished")
  /\ registry' = registry \ {t}
  /\ UNCHANGED <<db, created, inflight, lock, reqs, input, local, term, env, hist>>

\* The watchdog or the in-band checkpoint: both end in _finalize_timed_out.
TimeOut(t) ==
  /\ MayTimeOut /\ ~timed[t]
  /\ rpc[t] \in InTry \cup InHandler \cup {"pausing"}
  /\ timed' = [timed EXCEPT ![t] = TRUE]
  /\ rpc' = [rpc EXCEPT ![t] = "notice"]
  /\ UNCHANGED <<db, mem, reqs, input, cur, many, term, env, hist>>

\* Where execution_task.cancel() sends a run: an execution that has not begun
\* never does; inside the try block the handler runs; in a handler or in the
\* finally clause the CancelledError escapes (a timed-out run is finalized).
Interrupted(t) ==
  CASE rpc[t] = "ready" -> "aborted"
    [] rpc[t] \in InTry -> "notice"
    [] timed[t] -> "notice"
    [] rpc[t] = "pausing" -> "finished"
    [] OTHER -> "pausing"

-----------------------------------------------------------------------------
(* STOP (stop_session), and the end of the process.                         *)

StopLoad ==
  /\ stopPc = "idle" /\ stops < MaxStops
  /\ stops' = stops + 1
  /\ stopSnap' = [status |-> status, task |-> dbTask]
  /\ stopPc' = "act"
  /\ UNCHANGED <<db, mem, reqs, runs, crashes, drops, hist>>

\* A registered task is cancelled and leaves the registry.
StopTask ==
  /\ stopPc = "act" /\ Lookup(stopSnap) # NoTask
  /\ LET t == Lookup(stopSnap) IN
       /\ registry' = registry \ {t}
       /\ rpc' = [rpc EXCEPT ![t] = IF Done(t) THEN @ ELSE Interrupted(t)]
  /\ stopPc' = "idle"
  /\ UNCHANGED <<db, created, inflight, lock, reqs, input, cur, many, timed,
                 term, stopSnap, crashes, stops, drops, hist>>

\* Without one, only a status that is not terminal is overwritten.
StopStatus ==
  /\ stopPc = "act" /\ Lookup(stopSnap) = NoTask
  /\ status' = IF stopSnap.status \in {"PENDING", "IN_QUEUE", "RUNNING", "WAITING"}
               THEN "CANCELLED" ELSE status
  /\ stopPc' = "idle"
  /\ UNCHANGED <<latestUser, dbTask, log, mem, reqs,
                 runs, stopSnap, crashes, stops, drops, hist>>

\* A restart loses the registry, the setups, the lock and every coroutine.
Crash ==
  /\ crashes < MaxCrashes
  /\ crashes' = crashes + 1
  /\ registry' = {} /\ inflight' = Free /\ lock' = Free /\ newest' = Free
  /\ pc' = [r \in Reqs |-> IF Attached(r) THEN Gone(r) ELSE pc[r]]
  /\ snap' = [r \in Reqs |-> Blank]
  /\ spc' = [r \in Reqs |-> "none"]
  /\ tk' = [r \in Reqs |-> NoTask]
  /\ rpc' = [t \in Tasks |-> IF t \in created THEN "dead" ELSE "none"]
  /\ cur' = [t \in Tasks |-> Nothing]
  /\ stopPc' = "idle"
  /\ UNCHANGED <<db, created, waitFor, fresh, msg, input, many, timed, term, stopSnap,
                 stops, drops, accepted, fed>>

-----------------------------------------------------------------------------
ReqStep(r) ==
  \/ Reconnect(r) \/ Accept(r) \/ Persist(r) \/ MarkQueued(r) \/ StartSetup(r)
  \/ AwaitInflight(r) \/ Refetch(r) \/ JoinPost(r) \/ JoinView(r) \/ Subscribe(r) \/ Recover(r)
  \/ ResolveStale(r) \/ RecoverReturns(r) \/ FailRequest(r) \/ Drained(r)

SetupStep(r) ==
  \/ ReadFresh(r) \/ Interject(r) \/ Lock(r) \/ CreateTask(r) \/ BootFails(r)
  \/ PutFirst(r) \/ RunTask(r)

RunStep(t) ==
  \/ Begin(t) \/ Look(t) \/ Pop(t) \/ StopByText(t) \/ StopByTextStatus(t)
  \/ EnterFlow(t) \/ StartFlow(t) \/ Work(t) \/ Summary(t) \/ FlowDone(t)
  \/ AskUser(t) \/ WaitStatus(t) \/ Raise(t) \/ FailStatus(t) \/ Complete(t)
  \/ Notice(t) \/ NoticeDone(t) \/ CancelStatus(t) \/ Pause(t) \/ TaskDone(t)

\* No request but r is between its read of the session and its decision.
Undisturbed(r) == SlowReads \/ \A q \in Reqs \ {r} : pc[q] # "decide"

Next ==
  \/ \E r \in Reqs : Undisturbed(r) /\ (Load(r) \/ ReqStep(r) \/ Drop(r))
  \/ /\ Undisturbed(Free)
     /\ \/ \E r \in Reqs : SetupStep(r)
        \/ \E t \in Tasks : RunStep(t) \/ TimeOut(t)
        \/ StopLoad \/ StopTask \/ StopStatus \/ Crash

Spec == Init /\ [][Next]_vars

\* The event loop schedules every coroutine that can go on, a flow is finite
\* (Summary, AskUser or Raise happens), and the page is opened again and
\* again; posts, drops, stops, timeouts and crashes are never forced.
Fairness ==
  /\ \A r \in Reqs : WF_vars(ReqStep(r)) /\ WF_vars(SetupStep(r))
  /\ \A t \in Tasks : WF_vars(RunStep(t)) /\ WF_vars(Summary(t) \/ AskUser(t) \/ Raise(t))
  /\ \A r \in Views : WF_vars(Load(r))
  /\ WF_vars(StopTask \/ StopStatus)

FairSpec == Spec /\ Fairness

-----------------------------------------------------------------------------
(* Properties.                                                              *)

DbType ==
  /\ status \in Statuses
  /\ latestUser \in Msgs \cup {Nothing}
  /\ dbTask \in Tasks \cup {NoTask}
  /\ lastEvt \in Msgs \cup {Nothing, Evidence}
  /\ lastFinal \in BOOLEAN

MemType ==
  /\ registry \subseteq created /\ created \subseteq Tasks
  /\ inflight \in Reqs \cup {Free}
  /\ lock \in Reqs \cup {Free}

ReqType ==
  /\ pc \in [Reqs -> {"idle", "decide", "persist", "queue", "join", "wait",
                      "woken", "joined", "setup", "recovered", "drain",
                      "error", "end"}]
  /\ snap \in [Reqs -> Documents]
  /\ waitFor \in [Reqs -> Reqs \cup {Free}]
  /\ spc \in [Reqs -> {"none", "fresh", "choose", "boot", "created", "run",
                       "ok", "failed"}]
  /\ fresh \in [Reqs -> Statuses]
  /\ msg \in [Reqs -> Msgs \cup {Nothing}]
  /\ tk \in [Reqs -> Tasks \cup {NoTask}]

RunType ==
  /\ rpc \in [Tasks -> InTry \cup InHandler \cup
                {"none", "ready", "pausing", "finished", "aborted", "dead"}]
  /\ input \in [Tasks -> Seq(Msgs \cup {Nothing})]
  /\ cur \in [Tasks -> Msgs \cup {Nothing}]
  /\ many \in [Tasks -> BOOLEAN]
  /\ timed \in [Tasks -> BOOLEAN]
  /\ term \in [Tasks -> BOOLEAN]

EnvType ==
  /\ stopPc \in {"idle", "act"}
  /\ stopSnap \in [status : Statuses, task : Tasks \cup {NoTask}]
  /\ crashes \in 0 .. MaxCrashes /\ stops \in 0 .. MaxStops /\ drops \in 0 .. MaxDrops

HistType ==
  /\ accepted \subseteq Msgs
  /\ fed \in [Msgs -> Nat]
  /\ newest \in Reqs \cup {Free}

\* Every variable has its type; among others, a task in the registry has been
\* created, so no id is ever handed out twice.
TypeOK == DbType /\ MemType /\ ReqType /\ RunType /\ EnvType /\ HistType

\* Only what a user sent, and what is in the event log for it, is ever handed
\* to a task: a recovery after a restart never feeds the agent its own text
\* (the feedback loop described above _last_unprocessed_user_message).
OnlyUserInputIsFed ==
  \A t \in Tasks : /\ input[t] \in Seq(accepted)
                  /\ cur[t] \in accepted \cup {Nothing}

\* A run that ends has put a terminal event into its output stream, on every
\* path: the drain loop of chat() never ends on silence after such a run.
FinishedRunIsClosed == \A t \in Tasks : rpc[t] = "finished" => term[t]

\* While the newest setup is in flight, _inflight_setups names it: the end of
\* an older, replaced setup does not take the newer one's entry away.
NewestSetupIsRegistered ==
  newest # Free /\ Setting(newest) => inflight = newest

\* One execution at a time works on the session.
OneLiveTask == \A t, u \in Tasks : ~Done(t) /\ ~Done(u) => t = u

\* Concurrent reconnects share one recovery.
OneRecoveryAtATime == \A v, w \in Views : Setting(v) /\ Setting(w) => v = w

\* A message sent once is handed to the flow at most once by each life of the
\* process, whatever reconnects, drops and failures come in between.
FedOncePerLife == \A m \in Msgs : fed[m] <= 1 + crashes

\* While a flow works on a turn, the session says RUNNING.
StatusTellsTheTruth == \A t \in Tasks : rpc[t] \in {"work", "done"} => status = "RUNNING"

\* WAITING and CANCELLED, from which the flow resumes a plan, are never
\* overwritten by IN_QUEUE.
ResumeStatusIsKept ==
  [][(status \in {"WAITING", "CANCELLED"}) => (status' # "IN_QUEUE")]_vars

\* A connection that drops never takes its registered setup with it.
SetupOutlivesItsClient == \A r \in Posts : Setting(r) ~> spc[r] \in {"ok", "failed"}

\* A run that STOP or the time limit has cancelled ends as CANCELLED.
StoppedRunIsCancelled ==
  \A t \in Tasks : rpc[t] = "notice" ~> (rpc[t] = "handled" /\ status = "CANCELLED")

\* With a page that is opened again and again, the session does not stay in
\* RUNNING or IN_QUEUE for ever.
NeverStuck == <>[](status \notin {"RUNNING", "IN_QUEUE"})

\* ... and the newest user message does not stay unanswered for ever.
Answered == <>[](lastEvt \notin Msgs)

-----------------------------------------------------------------------------
(* What comments of the code say, and the code does not do.                 *)

\* chat(): a resubmission is a reconnect, never a new turn, while in flight.
ResubmissionIsReconnect ==
  [][\A r \in Posts : pc[r] = "decide" /\ pc'[r] = "persist" /\ InflightAlive
       => snap[r].user # Text[r]]_vars

\* chat(): a message that never ran is not suppressed as a duplicate.
SuppressedMessageRan ==
  [][\A r \in Posts : pc[r] = "decide" /\ pc'[r] = "end" /\ drops' = drops
       => fed[Text[r]] > 0]_vars

\* chat(): a message sent during a setup joins the task of that setup.
JoinsTheSameTask ==
  \A r \in Posts : spc[r] = "boot" /\ waitFor[r] # Free /\ tk[r] # NoTask => Done(tk[r])
=============================================================================
