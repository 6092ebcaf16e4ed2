------------------------------ MODULE ToolGate ------------------------------
(***************************************************************************)
(* The way of one tool call of the agent: the loop guard of BaseAgent's     *)
(* tool loop, the registry gate (loop safety, validation, confirmation      *)
(* policy, bounded execution with retries), the confirmation store the user *)
(* decides in, and the run registry that reports the state of each run.     *)
(*                                                                          *)
(* A session has one run after another; each run has a task id of its own   *)
(* (AgentTaskRunner draws it), here its number.  What the model calls, what *)
(* a tool answers and what the user decides are nondeterministic.           *)
(*                                                                          *)
(* Every request BaseAgent.execute is given is a prompt of more than forty  *)
(* characters, so register_user_reply approves nothing, approve_hash is     *)
(* never called and the ledger's own sets stay empty: the store alone       *)
(* decides.  A run lasts at most manus_task_timeout_ms (15 minutes), so the *)
(* purge of records older than an hour never touches those of its own run.  *)
(*                                                                          *)
(* An operator named ...Bug is the next definition with a plausible mistake *)
(* put into it; no specification uses it.                                   *)
(***************************************************************************)
EXTENDS Integers, FiniteSetsExt, Sequences

CONSTANTS
  Calls,           \* tool calls: a tool with its arguments
  Consequential,   \* those with policy.requires_confirmation
  Native,          \* those the registry does not govern
  ReadOnly,        \* those that change nothing (not _is_mutating)
  Exempt,          \* those the guards never block (_HARD_EXEMPT_TOOLS)
  Broken,          \* those whose arguments fail the schema
  Family,          \* the command family of a shell call
  NoFamily, NoCall,
  IdenticalCalls,  \* settings.manus_max_identical_calls
  IdenticalErrors, \* settings.manus_max_identical_errors
  FamilyFailures,  \* settings.manus_family_failure_limit
  History,         \* _HISTORY_SIZE
  MaxAttempts,     \* settings.manus_max_retries_per_call
  NativeAttempts,  \* BaseAgent.max_retries + 1
  MaxStore,        \* MAX_STORE
  MaxRuns,         \* bound: runs of the session
  MaxCalls         \* bound: tool calls of a run

ASSUME GateConstants ==
  /\ Consequential \cup Native \cup ReadOnly \cup Exempt \cup Broken \subseteq Calls
  /\ Consequential \cap Native = {} /\ Consequential \cap Broken = {}
  /\ NoCall \notin Calls
  /\ {IdenticalCalls, IdenticalErrors, FamilyFailures} \subseteq Nat \ {0, 1}
  /\ {History, MaxAttempts, NativeAttempts, MaxStore} \subseteq Nat \ {0}
  /\ {MaxRuns, MaxCalls} \subseteq Nat

VARIABLES
  run,       \* the current run and its task id; 0 before the first
  at,        \* none, model (the model decides) or tool (a call executes)
  flight,    \* the call being executed, and the attempt it is in
  guard,     \* hard_guard of the current execute(): its window
  safety,    \* the gate's LoopSafety: its window
  records,   \* the confirmation store
  issued,    \* tokens issued so far
  registry,  \* status of a run in the run registry
  answered,  \* tool calls of the run the model got an answer to
  ended,     \* history: how a run ended
  granted,   \* history: <<run, call>> the user approved
  refused    \* history: <<run, call>> the user rejected

windows == <<guard, safety>>
store == <<records, issued>>
verdicts == <<granted, refused>>
vars == <<run, at, flight, windows, store, registry, answered, ended, verdicts>>

Runs == 1 .. MaxRuns
Results == {"ok", "fail", "timeout"}
Codes == Results \cup {"loop", "invalid", "denied", "ask"}
Good(r) == r = "ok"
Idle == [call |-> NoCall, tries |-> 0]

-----------------------------------------------------------------------------
(* LoopSafety: a window of answered calls, walked backward. *)

Entries == [call : Calls, result : Codes]
Entry(c, r) == [call |-> c, result |-> r]

(* The last other call of window w that may have changed the world *)
Changed(w, c) ==
  Max({0} \cup {i \in DOMAIN w : w[i].call # c /\ w[i].call \notin ReadOnly})

(* _blind_repeat_count *)
BlindRepeats(w, c) ==
  LET tries == {i \in Changed(w, c) + 1 .. Len(w) : w[i].call = c}
  IN Cardinality({i \in tries :
       \A j \in tries : j >= i => w[j].result = w[Max(tries)].result})

(* _family_failures_since_progress *)
FamilyFails(w, c) ==
  LET kin(i) == Family[w[i].call] = Family[c]
      last == Max({0} \cup {i \in DOMAIN w :
                IF kin(i) THEN Good(w[i].result) ELSE w[i].call \notin ReadOnly})
  IN Cardinality({i \in last + 1 .. Len(w) : kin(i)})

\* One call too many.
StuckBug(w, c) ==
  /\ c \notin Exempt
  /\ \/ BlindRepeats(w, c) > IdenticalCalls
     \/ Family[c] # NoFamily /\ FamilyFails(w, c) > FamilyFailures

(* check_before_execute *)
Stuck(w, c) ==
  /\ c \notin Exempt
  /\ \/ BlindRepeats(w, c) >= IdenticalCalls
     \/ Family[c] # NoFamily /\ FamilyFails(w, c) >= FamilyFailures

(* record_result: the new window, and whether it answers with a stop *)
Remember(w, c, r) ==
  LET all == Append(w, Entry(c, r))
  IN IF Len(all) > History THEN Tail(all) ELSE all
StopsOn(w, c, r) ==
  ~Good(r) /\ BlindRepeats(Remember(w, c, r), c) >= IdenticalErrors

-----------------------------------------------------------------------------
(* The confirmation store: the oldest record of a task's call counts. *)

Records == [no : Nat, task : Runs, call : Consequential,
            status : {"pending", "approved", "rejected", "expired"}]

Asked(t, c) == {r \in records : r.task = t /\ r.call = c}
Oldest(R) == CHOOSE r \in R : \A q \in R : r.no <= q.no
\* An approval of any task counts.
StatusForBug(t, c) ==
  LET asked == {r \in records : r.call = c}
  IN IF asked = {} THEN "pending" ELSE Oldest(asked).status
StatusFor(t, c) ==
  IF Asked(t, c) = {} THEN "pending" ELSE Oldest(Asked(t, c)).status

(* What _purge leaves of R: rejected and expired records of earlier runs may *)
(* be older than an hour, and the store is capped.                           *)
Purged(R, old) ==
  LET kept == IF old THEN {r \in R : r.task = run \/ r.status \notin {"rejected", "expired"}}
              ELSE R
  IN IF Cardinality(kept) > MaxStore THEN kept \ {Oldest(kept)} ELSE kept

(* issue: a pending question is asked again with the same token. *)
Issue(c) ==
  IF Asked(run, c) # {} /\ StatusFor(run, c) = "pending"
  THEN UNCHANGED store
  ELSE /\ issued' = issued + 1
       /\ \E old \in BOOLEAN :
            records' = Purged(records \cup {[no |-> issued', task |-> run, call |-> c,
                                             status |-> "pending"]}, old)

-----------------------------------------------------------------------------
(* The run registry: task.state-machine.json *)

\* No cancellation of a run.
LegalBug(s, t) ==
  \/ s = t
  \/ <<s, t>> \in {<<"pending", "running">>, <<"pending", "cancelled">>,
                   <<"running", "waiting">>, <<"waiting", "running">>,
                   <<"running", "completed">>, <<"running", "failed">>}
Legal(s, t) ==
  \/ s = t
  \/ <<s, t>> \in {<<"pending", "running">>, <<"pending", "cancelled">>,
                   <<"running", "waiting">>, <<"waiting", "running">>,
                   <<"running", "completed">>, <<"running", "failed">>,
                   <<"running", "cancelled">>}

(* pause_run, resume_run and finish_run: an illegal change is only logged. *)
Report(s) ==
  registry' = [registry EXCEPT ![run] = IF Legal(@, s) THEN s ELSE @]

-----------------------------------------------------------------------------
(* Runs *)

Init ==
  /\ run = 0 /\ at = "none" /\ flight = Idle
  /\ guard = <<>> /\ safety = <<>>
  /\ records = {} /\ issued = 0
  /\ registry = [r \in Runs |-> "pending"]
  /\ answered = 0
  /\ ended = [r \in Runs |-> "open"]
  /\ granted = {} /\ refused = {}

(* A new runner with a new gate; its first execute() begins the run. *)
StartRun ==
  /\ at = "none" /\ run < MaxRuns
  /\ run' = run + 1
  /\ at' = "model"
  /\ registry' = [registry EXCEPT ![run'] = "running"]
  /\ UNCHANGED <<flight, windows, store, answered, ended, verdicts>>

(* The next execute() of the run: a new guard, the same gate. *)
NextExecute ==
  /\ at = "model" /\ guard # <<>>
  /\ guard' = <<>>
  /\ UNCHANGED <<run, at, flight, safety, store, registry, answered, ended, verdicts>>

(* The run is over: how, and what finish_run is told.  Its runner, agents *)
(* and gate are gone with it.                                              *)
EndRun(how) ==
  /\ at' = "none" /\ flight' = Idle
  /\ guard' = <<>> /\ safety' = <<>> /\ answered' = 0
  /\ ended' = [ended EXCEPT ![run] = how]
  /\ Report(how)
  /\ UNCHANGED <<run, store, verdicts>>

(* message_ask_user ends the run with a WaitEvent. *)
AskUser == at = "model" /\ EndRun("waiting")
Completes == at = "model" /\ EndRun("completed")
Fails == at = "model" /\ EndRun("failed")
(* STOP or the run watchdog: the task is cancelled, in mid-call or not. *)
Stops == at # "none" /\ EndRun("cancelled")

-----------------------------------------------------------------------------
(* One tool call *)

MayCall(c) == at = "model" /\ answered < MaxCalls

Answer == answered' = answered + 1

(* The gate answers without executing: the tool loop's guard records it. *)
Refuse(c, code) ==
  /\ Answer
  /\ guard' = Remember(guard, c, code)
  /\ UNCHANGED <<run, at, flight, ended, verdicts>>

(* The guard of the tool loop blocks the call, on both paths. *)
GuardBlocks(c) ==
  /\ MayCall(c) /\ Stuck(guard, c)
  /\ Answer
  /\ UNCHANGED <<run, at, flight, windows, store, registry, ended, verdicts>>

GateBlocks(c) ==
  /\ MayCall(c) /\ ~Stuck(guard, c) /\ c \notin Native
  /\ Stuck(safety, c)
  /\ Refuse(c, "loop")
  /\ UNCHANGED <<safety, store, registry>>

Passes(c) == MayCall(c) /\ ~Stuck(guard, c) /\ c \notin Native /\ ~Stuck(safety, c)

Invalid(c) ==
  /\ Passes(c) /\ c \in Broken
  /\ safety' = Remember(safety, c, "invalid")
  /\ Refuse(c, IF StopsOn(safety, c, "invalid") THEN "loop" ELSE "invalid")
  /\ UNCHANGED <<store, registry>>

Denied(c) ==
  /\ Passes(c) /\ c \in Consequential
  /\ StatusFor(run, c) = "rejected"
  /\ Refuse(c, "denied")
  /\ UNCHANGED <<safety, store, registry>>

(* The call waits for the user: a token, and the run is paused. *)
Asks(c) ==
  /\ Passes(c) /\ c \in Consequential
  /\ StatusFor(run, c) \notin {"rejected", "approved"}
  /\ Issue(c)
  /\ Report("waiting")
  /\ Refuse(c, "ask")
  /\ UNCHANGED safety

(* The call goes to its transport: a run that was paused runs again. *)
Starts(c) ==
  /\ Passes(c) /\ c \notin Broken
  /\ c \in Consequential => StatusFor(run, c) = "approved"
  /\ at' = "tool" /\ flight' = [call |-> c, tries |-> 1]
  /\ Report("running")
  /\ UNCHANGED <<run, windows, store, answered, ended, verdicts>>

(* A native tool goes to its toolkit. *)
StartsNative(c) ==
  /\ MayCall(c) /\ ~Stuck(guard, c) /\ c \in Native
  /\ at' = "tool" /\ flight' = [call |-> c, tries |-> 1]
  /\ UNCHANGED <<run, windows, store, registry, answered, ended, verdicts>>

(* run_with_retry after a transient failure; invoke_tool after an exception *)
Retries ==
  /\ at = "tool"
  /\ flight.tries < (IF flight.call \in Native THEN NativeAttempts ELSE MaxAttempts)
  /\ flight' = [flight EXCEPT !.tries = @ + 1]
  /\ UNCHANGED <<run, at, windows, store, registry, answered, ended, verdicts>>

(* The result r of the call in flight is recorded and reaches the model. *)
Result(r) ==
  LET c == flight.call
      native == c \in Native
      stop == IF native THEN StopsOn(guard, c, r) ELSE StopsOn(safety, c, r)
      code == IF stop THEN "loop" ELSE r
  IN /\ safety' = IF native THEN safety ELSE Remember(safety, c, r)
     /\ guard' = Remember(guard, c, IF native THEN r ELSE code)
     /\ Answer
     /\ at' = "model" /\ flight' = Idle
     /\ UNCHANGED <<run, store, registry, ended, verdicts>>

Ends(r) == at = "tool" /\ Result(r)

\* No ceiling for what the user approved.
TimesOutBug ==
  at = "tool" /\ flight.call \notin Native \cup Consequential /\ Result("timeout")

(* The ceiling of _bounded_tool_exec; native tools have none. *)
TimesOut == at = "tool" /\ flight.call \notin Native /\ Result("timeout")

-----------------------------------------------------------------------------
(* The user and the clock *)

Becomes(r, s) == records' = (records \ {r}) \cup {[r EXCEPT !.status = s]}

\* A question that was answered can be answered again.
DecideBug(r, d) ==
  /\ Becomes(r, d)
  /\ IF d = "approved"
     THEN granted' = granted \cup {<<r.task, r.call>>} /\ UNCHANGED refused
     ELSE refused' = refused \cup {<<r.task, r.call>>} /\ UNCHANGED granted
  /\ UNCHANGED <<run, at, flight, windows, issued, registry, answered, ended>>

(* decide: POST /sessions/{id}/confirmations/{token}, at any time *)
Decide(r, d) ==
  /\ r.status = "pending"
  /\ Becomes(r, d)
  /\ IF d = "approved"
     THEN granted' = granted \cup {<<r.task, r.call>>} /\ UNCHANGED refused
     ELSE refused' = refused \cup {<<r.task, r.call>>} /\ UNCHANGED granted
  /\ UNCHANGED <<run, at, flight, windows, issued, registry, answered, ended>>

(* The TTL passes: whoever reads the record next finds it expired. *)
Expires(r) ==
  /\ r.status = "pending"
  /\ Becomes(r, "expired")
  /\ UNCHANGED <<run, at, flight, windows, issued, registry, answered, ended, verdicts>>

-----------------------------------------------------------------------------
Next ==
  \/ StartRun \/ NextExecute \/ AskUser \/ Completes \/ Fails \/ Stops
  \/ \E c \in Calls : \/ GuardBlocks(c) \/ GateBlocks(c) \/ Invalid(c) \/ Denied(c)
                      \/ Asks(c) \/ Starts(c) \/ StartsNative(c)
  \/ Retries \/ TimesOut
  \/ \E r \in {"ok", "fail"} : Ends(r)
  \/ \E r \in records : Expires(r) \/ \E d \in {"approved", "rejected"} : Decide(r, d)

Spec == Init /\ [][Next]_vars

(* The only fairness: the ceiling on a registry tool does strike. *)
FairSpec == Spec /\ WF_vars(TimesOut)

-----------------------------------------------------------------------------
(* Correctness *)

TypeOK ==
  /\ run \in 0 .. MaxRuns /\ at \in {"none", "model", "tool"}
  /\ flight \in [call : Calls \cup {NoCall}, tries : Nat]
  /\ (at = "tool") = (flight.call # NoCall)
  /\ at # "none" => run \in Runs
  /\ guard \in Seq(Entries) /\ safety \in Seq(Entries)
  /\ records \subseteq Records /\ issued \in Nat
  /\ registry \in [Runs -> {"pending", "running", "waiting", "completed", "failed", "cancelled"}]
  /\ answered \in Nat
  /\ ended \in [Runs -> {"open", "waiting", "completed", "failed", "cancelled"}]
  /\ granted \cup refused \subseteq Runs \X Consequential

(* No consequential call executes unless the user approved that call for    *)
(* the task it runs in: the gate, its store and its tokens implement the    *)
(* abstract Permission.                                                     *)
NoAction == <<0, NoCall>>
UnderWay ==
  IF at = "tool" /\ flight.call \in Consequential THEN <<run, flight.call>> ELSE NoAction
Consent == INSTANCE Permission WITH
  Actions <- Runs \X Consequential, Nothing <- NoAction, doing <- UnderWay
Permitted == Consent!Spec

(* A call the user has refused in a run is never executed in that run,      *)
(* whatever further tokens were issued for it (rejected_payload: terminal). *)
RefusedStaysRefused ==
  [][at' = "tool" /\ at # "tool" => <<run, flight'.call>> \notin refused]_vars

(* No call that is not exempt is answered the same way more often than the  *)
(* limit with nothing changed in between, neither within one execute() nor  *)
(* by the gate of the run.                                                  *)
NoBlindSpinning ==
  \A c \in Calls \ Exempt : /\ BlindRepeats(guard, c) <= IdenticalCalls
                            /\ BlindRepeats(safety, c) <= IdenticalCalls

(* The registry reports a run that is over the way it ended, or as waiting  *)
(* when a confirmation was pending; never as running.                       *)
RegistryKnowsTheEnd ==
  \A r \in Runs : ended[r] # "open" => registry[r] \in {ended[r], "waiting"}

(* A registry tool that hangs is answered all the same (the ceiling), so    *)
(* the model always gets its turn back unless the run is over.              *)
ToolsReturn == (at = "tool" /\ flight.call \notin Native) ~> at # "tool"

(* confirmations.py:11-13: the store is global and session-scoped, so an    *)
(* approval survives the ask_user pause: the user is not asked again for    *)
(* what they approved in the session.                                       *)
ApprovalIsHeard ==
  [][\A c \in Calls : Asks(c) => \A r \in 1 .. run : <<r, c>> \notin granted]_vars
=============================================================================
