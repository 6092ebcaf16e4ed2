---------------------------- MODULE ShellSessions ----------------------------
(***************************************************************************)
(* One shell session of a cloud VM (E2BSandbox.exec_command, view_shell,   *)
(* wait_for_process, kill_process): the process it holds, the console with *)
(* one record per command, and the transcript all outputs are added to.    *)
(*                                                                         *)
(* The agent calls one operation at a time, and the tool gate or STOP may  *)
(* cancel it at any await.  The task runner and the page look at the       *)
(* session at any moment.  Processes run, print and end by themselves;     *)
(* calls to the VM fail, and the stream a process is followed by breaks.   *)
(* Sessions share nothing, so one is enough.                               *)
(*                                                                         *)
(* An operator named ...Bug is the next definition with a plausible        *)
(* mistake put into it; no specification uses it.                          *)
(***************************************************************************)
EXTENDS Naturals, FiniteSets, Sequences

CONSTANTS
    MaxExecs,    \* bound on the commands
    MaxPrints,   \* bound on what one command prints
    MaxFaults    \* bound on cancelled and failing calls and broken streams

ASSUME BoundsAreNaturals == {MaxExecs, MaxPrints, MaxFaults} \subseteq Nat

Commands == 1..MaxExecs
None == 0

VARIABLES
    alive,       \* the commands whose process runs in the VM
    out,         \* how much of its output the handle of each has received
    waiter,      \* the task that waits for it: none, pending, ended or broken
    session,     \* the command the session holds, or None
    consumed,    \* whether that command's end has been put into the transcript
    console,     \* the records: a command and how much of whose output
    transcript,  \* the pieces added to the transcript
    agent,       \* the call that is going on
    faults       \* what is left of MaxFaults

vars == <<alive, out, waiter, session, consumed, console, transcript, agent, faults>>
procs == <<alive, out, waiter>>
shown == <<console, transcript>>

(* The agent's call and, in exec_command, the session's old and new command.*)
Idle == [at |-> "idle", old |-> None, new |-> None]
Calls == {"idle", "replacing", "starting", "window", "waiting", "killing"}

Piece(c, n, whole) == [of |-> c, upto |-> n, whole |-> whole]
Record(c) == [cmd |-> c, of |-> None, upto |-> 0]
Executed == Len(console)

Init ==
    /\ alive = {}
    /\ out = [c \in Commands |-> 0]
    /\ waiter = [c \in Commands |-> "none"]
    /\ session = None
    /\ consumed = FALSE
    /\ console = <<>>
    /\ transcript = <<>>
    /\ agent = Idle
    /\ faults = MaxFaults

Fault == faults > 0 /\ faults' = faults - 1

-----------------------------------------------------------------------------
(* The VM.                                                                  *)

Prints(c) ==
    /\ c \in alive /\ waiter[c] = "pending" /\ out[c] < MaxPrints
    /\ out' = [out EXCEPT ![c] = @ + 1]
    /\ UNCHANGED <<alive, waiter, session, consumed, shown, agent, faults>>

Exit(c) ==
    /\ c \in alive
    /\ alive' = alive \ {c}
    /\ waiter' = [waiter EXCEPT ![c] = IF @ = "pending" THEN "ended" ELSE @]
    /\ UNCHANGED <<out, session, consumed, shown, agent, faults>>

(* The stream of a process breaks: its waiter ends with an error that       *)
(* carries no output, and the process goes on.                              *)
Break(c) ==
    /\ waiter[c] = "pending"
    /\ Fault
    /\ waiter' = [waiter EXCEPT ![c] = "broken"]
    /\ UNCHANGED <<alive, out, session, consumed, shown, agent>>

(* A kill; one that fails is ignored by all callers.                        *)
Killed(c) ==
    \/ /\ alive' = alive \ {c}
       /\ waiter' = [waiter EXCEPT ![c] = IF @ = "pending" THEN "ended" ELSE @]
       /\ UNCHANGED <<out, faults>>
    \/ Fault /\ UNCHANGED procs

-----------------------------------------------------------------------------
(* What is written down of a command.                                       *)

Done(c) == waiter[c] \in {"ended", "broken"}

(* _completed_result: the record, and the transcript unless told otherwise. *)
Full(c) == IF waiter[c] = "broken" THEN 0 ELSE out[c]
Complete(c, i, accumulate) ==
    /\ console' = [console EXCEPT ![i].of = c, ![i].upto = Full(c)]
    /\ transcript' = IF accumulate THEN Append(transcript, Piece(c, Full(c), TRUE))
                                   ELSE transcript

AccumulatesBug(held) == TRUE
Accumulates(held) == ~held

-----------------------------------------------------------------------------
(* exec_command.                                                            *)

(* The record is written and the old process taken out of the session; then *)
(* comes the first await.                                                   *)
HeldMeanwhileBug == session
HeldMeanwhile == None
Exec ==
    /\ agent.at = "idle"
    /\ Executed < MaxExecs
    /\ console' = Append(console, Record(Executed + 1))
    /\ session' = HeldMeanwhile
    /\ agent' = [at |-> "replacing", old |-> session, new |-> Executed + 1]
    /\ UNCHANGED <<procs, consumed, transcript, faults>>

ReplacedBug == UNCHANGED <<procs, faults>>
Replaced == IF agent.old = None THEN UNCHANGED <<procs, faults>> ELSE Killed(agent.old)
KillOld ==
    /\ agent.at = "replacing"
    /\ Replaced
    /\ agent' = [agent EXCEPT !.at = "starting", !.old = None]
    /\ UNCHANGED <<session, consumed, shown>>

(* run() answers, at once or when it is repeated in the home directory, and *)
(* the session holds the new process before the next await.                 *)
Start ==
    /\ agent.at = "starting"
    /\ alive' = alive \cup {agent.new}
    /\ waiter' = [waiter EXCEPT ![agent.new] = "pending"]
    /\ session' = agent.new
    /\ consumed' = FALSE
    /\ agent' = [agent EXCEPT !.at = "window"]
    /\ UNCHANGED <<out, shown, faults>>

(* Both attempts fail; an answer that got lost leaves a process behind.     *)
StartFails ==
    /\ agent.at = "starting"
    /\ Fault
    /\ alive' \in {alive, alive \cup {agent.new}}
    /\ agent' = Idle
    /\ UNCHANGED <<out, waiter, session, consumed, shown>>

(* The command ends within 5 s ...                                          *)
EndsInWindow ==
    /\ agent.at = "window"
    /\ Done(agent.new)
    /\ consumed' = TRUE
    /\ Complete(agent.new, agent.new, TRUE)
    /\ agent' = Idle
    /\ UNCHANGED <<procs, session, faults>>

(* ... or what it has printed by then is written down.                      *)
WindowCloses ==
    /\ agent.at = "window"
    /\ console' = [console EXCEPT ![agent.new].of = agent.new,
                                  ![agent.new].upto = out[agent.new]]
    /\ transcript' = Append(transcript, Piece(agent.new, out[agent.new], FALSE))
    /\ agent' = Idle
    /\ UNCHANGED <<procs, session, consumed, faults>>

-----------------------------------------------------------------------------
(* wait_for_process: a command that has ended is consumed at once, another  *)
(* one is waited for.                                                       *)
Wait ==
    /\ agent.at = "idle" /\ session # None
    /\ IF Done(session)
       THEN /\ Complete(session, Executed, Accumulates(consumed))
            /\ consumed' = TRUE
            /\ UNCHANGED agent
       ELSE agent' = [Idle EXCEPT !.at = "waiting"] /\ UNCHANGED <<consumed, shown>>
    /\ UNCHANGED <<procs, session, faults>>

EndsInWait ==
    /\ agent.at = "waiting"
    /\ Done(session)
    /\ consumed' = TRUE
    /\ Complete(session, Executed, TRUE)
    /\ agent' = Idle
    /\ UNCHANGED <<procs, session, faults>>

WaitTimesOut ==
    /\ agent.at = "waiting"
    /\ console' = IF out[session] = 0 THEN console
                  ELSE [console EXCEPT ![Executed].of = session,
                                       ![Executed].upto = out[session]]
    /\ agent' = Idle
    /\ UNCHANGED <<procs, session, consumed, transcript, faults>>

-----------------------------------------------------------------------------
(* kill_process forgets the session when the kill has returned.             *)
Kill ==
    /\ agent.at = "idle" /\ session # None
    /\ agent' = [Idle EXCEPT !.at = "killing"]
    /\ UNCHANGED <<procs, session, consumed, shown, faults>>

KillReturns ==
    /\ agent.at = "killing"
    /\ Killed(session)
    /\ session' = None
    /\ agent' = Idle
    /\ UNCHANGED <<consumed, shown>>

(* A call is cancelled at its await; what it asked of the VM may have been  *)
(* done all the same.                                                       *)
Cancel ==
    /\ agent.at # "idle"
    /\ Fault
    /\ alive' \in CASE agent.at = "replacing" -> {alive, alive \ {agent.old}}
                    [] agent.at = "starting"  -> {alive, alive \cup {agent.new}}
                    [] agent.at = "killing"   -> {alive, alive \ {session}}
                    [] OTHER -> {alive}
    /\ waiter' = [c \in Commands |-> IF waiter[c] = "pending" /\ c \notin alive'
                                     THEN "ended" ELSE waiter[c]]
    /\ agent' = Idle
    /\ UNCHANGED <<out, session, consumed, shown>>

(* view_shell, for the agent, the task runner or the page: the newest       *)
(* record is brought up to date from the handle of the session, which has no   *)
(* exit code while the command runs and after its stream broke.             *)
View ==
    /\ session # None /\ out[session] > 0
    /\ waiter[session] # "ended" \/ console[Executed].upto = 0
    /\ console' = [console EXCEPT ![Executed].of = session,
                                  ![Executed].upto = out[session]]
    /\ UNCHANGED <<procs, session, consumed, transcript, agent, faults>>

-----------------------------------------------------------------------------
Next ==
    \/ \E c \in Commands : Prints(c) \/ Exit(c) \/ Break(c)
    \/ Exec \/ KillOld \/ Start \/ StartFails \/ EndsInWindow \/ WindowCloses
    \/ Wait \/ EndsInWait \/ WaitTimesOut
    \/ Kill \/ KillReturns \/ Cancel \/ View

Spec == Init /\ [][Next]_vars

-----------------------------------------------------------------------------
(* Properties.                                                              *)

(* Every variable stays within its type.                                    *)
TypeOK ==
    /\ alive \subseteq Commands
    /\ out \in [Commands -> 0..MaxPrints]
    /\ waiter \in [Commands -> {"none", "pending", "ended", "broken"}]
    /\ session \in Commands \cup {None}
    /\ consumed \in BOOLEAN
    /\ console \in Seq([cmd : Commands, of : Commands \cup {None}, upto : 0..MaxPrints])
    /\ transcript \in Seq([of : Commands, upto : 0..MaxPrints, whole : BOOLEAN])
    /\ agent \in [at : Calls, old : Commands \cup {None}, new : Commands \cup {None}]
    /\ faults \in 0..MaxFaults

(* A record of the console shows the output of its own command, whoever     *)
(* looks while one command takes the place of another.                      *)
RecordsAreTheirOwn ==
    \A i \in DOMAIN console : console[i].of \in {None, console[i].cmd}

(* The end of a command goes into the transcript once, by whichever of the  *)
(* three paths is first.                                                    *)
CompletedOnce ==
    \A i, j \in DOMAIN transcript :
        transcript[i].whole /\ transcript[j].whole /\ transcript[i].of = transcript[j].of
        => i = j

(* No process runs that nobody can stop: the session holds it, or the call  *)
(* that is about to kill it does.  Each fault leaves at most one behind.    *)
Strays == alive \ {session, agent.old}
NoStrays == Cardinality(Strays) <= MaxFaults - faults

(* The output of one command stands in the transcript once: what the        *)
(* comments of exec_command and wait_for_process say of it.                 *)
OutputOnce ==
    \A i, j \in DOMAIN transcript :
        transcript[i].of = transcript[j].of /\ transcript[i].upto > 0 /\ transcript[j].upto > 0
        => i = j
=============================================================================
