--------------------------- MODULE ToolGateProofs ---------------------------
(* Theorems about ToolGate, for every value of its constants. *)
EXTENDS ToolGate, SequenceTheorems, FiniteSetTheorems, FunctionTheorems,
        WellFoundedInduction, TLAPS

-----------------------------------------------------------------------------
(* The operators the gate is built from *)

(* The oldest of some records is one of them, and none is older. *)
LEMMA OldestIsOne ==
  ASSUME NEW R, R \subseteq Records, R # {}
  PROVE  Oldest(R) \in R /\ \A q \in R : Oldest(R).no <= q.no
<1> DEFINE T == {r.no : r \in R}
<1>1. T \subseteq Nat /\ T # {}
  BY DEF Records
<1>2. PICK x \in T : \A y \in T : ~(<<y, x>> \in OpToRel(<, Nat))
  BY <1>1, NatLessThanWellFounded, WFMin, Zenon
<1>3. \A y \in T : x <= y
  <2> TAKE y \in T
  <2>1. x \in Nat /\ y \in Nat
    BY <1>1
  <2>2. ~(y < x)
    BY <1>2, <2>1 DEF OpToRel
  <2> QED BY <2>1, <2>2
<1>4. PICK r \in R : r.no = x
  BY <1>2
<1>5. \A q \in R : r.no <= q.no
  BY <1>3, <1>4
<1> QED BY <1>4, <1>5 DEF Oldest

(* An approval the gate finds is that of a record of the very call and task. *)
LEMMA ApprovedHasRecord ==
  ASSUME records \subseteq Records, NEW t, NEW c, StatusFor(t, c) = "approved"
  PROVE  \E r \in records : r.task = t /\ r.call = c /\ r.status = "approved"
<1>1. Asked(t, c) # {} /\ Oldest(Asked(t, c)).status = "approved"
  BY DEF StatusFor
<1>2. Asked(t, c) \subseteq Records
  BY DEF Asked
<1>3. Oldest(Asked(t, c)) \in Asked(t, c)
  BY <1>1, <1>2, OldestIsOne
<1> QED BY <1>1, <1>3 DEF Asked

LEMMA PurgeOnlyRemoves ==
  ASSUME NEW R, NEW old
  PROVE  Purged(R, old) \subseteq R
BY DEF Purged

(* A window stays a window. *)
LEMMA RememberType ==
  ASSUME NEW w \in Seq(Entries), NEW c \in Calls, NEW r \in Codes
  PROVE  Remember(w, c, r) \in Seq(Entries)
<1>1. Entry(c, r) \in Entries
  BY DEF Entry, Entries
<1>2. /\ Append(w, Entry(c, r)) \in Seq(Entries)
      /\ Append(w, Entry(c, r)) # <<>>
  BY <1>1, AppendProperties
<1>3. Tail(Append(w, Entry(c, r))) \in Seq(Entries)
  BY <1>2, HeadTailProperties
<1> QED BY <1>2, <1>3 DEF Remember

(* A question leaves the store well formed and approves nothing. *)
LEMMA IssueKeeps ==
  ASSUME records \subseteq Records, issued \in Nat, run \in Runs,
         NEW c \in Consequential, Issue(c)
  PROVE  /\ records' \subseteq Records /\ issued' \in Nat
         /\ \A r \in records' : r.status = "approved" => r \in records
<1> DEFINE new == [no |-> issued', task |-> run, call |-> c, status |-> "pending"]
<1>1. CASE UNCHANGED store
  BY <1>1 DEF store
<1>2. CASE /\ issued' = issued + 1
           /\ \E old \in BOOLEAN : records' = Purged(records \cup {new}, old)
  <2>1. records' \subseteq records \cup {new}
    BY <1>2, PurgeOnlyRemoves
  <2>2. new \in Records /\ new.status # "approved"
    BY <1>2 DEF Records
  <2> QED BY <1>2, <2>1, <2>2
<1> QED BY <1>1, <1>2 DEF Issue

LEMMA ReportType ==
  ASSUME NEW s \in {"running", "waiting", "completed", "failed", "cancelled"},
         registry \in [Runs -> {"pending", "running", "waiting", "completed", "failed", "cancelled"}],
         Report(s)
  PROVE  registry' \in [Runs -> {"pending", "running", "waiting", "completed", "failed", "cancelled"}]
BY DEF Report

-----------------------------------------------------------------------------
(* Type correctness *)

(* What a refused call changes is well formed. *)
LEMMA RefuseType ==
  ASSUME TypeOK, NEW c \in Calls, NEW code \in Codes, Refuse(c, code),
         run \in Runs
  PROVE  guard' \in Seq(Entries) /\ answered' \in Nat
<1>1. guard' = Remember(guard, c, code) /\ answered' = answered + 1
  BY DEF Refuse, Answer
<1> QED BY <1>1, RememberType DEF TypeOK

(* The end of a run leaves every variable well formed. *)
LEMMA EndRunType ==
  ASSUME TypeOK, NEW how \in {"waiting", "completed", "failed", "cancelled"},
         at # "none", EndRun(how)
  PROVE  TypeOK'
<1>1. registry' \in [Runs -> {"pending", "running", "waiting", "completed", "failed", "cancelled"}]
  BY ReportType DEF EndRun, TypeOK
<1>2. ended' \in [Runs -> {"open", "waiting", "completed", "failed", "cancelled"}]
  BY DEF EndRun, TypeOK
<1>3. guard' \in Seq(Entries) /\ safety' \in Seq(Entries)
  BY DEF EndRun
<1> QED BY <1>1, <1>2, <1>3 DEF EndRun, TypeOK, Idle, store, verdicts

(* The answer to a call in flight leaves every variable well formed. *)
LEMMA ResultType ==
  ASSUME TypeOK, NEW r \in Results, at = "tool", Result(r)
  PROVE  TypeOK'
<1> DEFINE c == flight.call
           stop == IF c \in Native THEN StopsOn(guard, c, r) ELSE StopsOn(safety, c, r)
           code == IF stop THEN "loop" ELSE r
<1>1. c \in Calls /\ r \in Codes /\ code \in Codes
  BY DEF TypeOK, Codes, Results
<1>2. /\ safety' = IF c \in Native THEN safety ELSE Remember(safety, c, r)
      /\ guard' = Remember(guard, c, IF c \in Native THEN r ELSE code)
      /\ answered' = answered + 1 /\ at' = "model" /\ flight' = Idle
      /\ UNCHANGED <<run, store, registry, ended, verdicts>>
  BY DEF Result, Answer
<1> HIDE DEF c, code
<1>3. Remember(safety, c, r) \in Seq(Entries)
  BY <1>1, RememberType DEF TypeOK
<1>4. Remember(guard, c, r) \in Seq(Entries) /\ Remember(guard, c, code) \in Seq(Entries)
  BY <1>1, RememberType DEF TypeOK
<1>5. safety' \in Seq(Entries) /\ guard' \in Seq(Entries)
  BY <1>2, <1>3, <1>4 DEF TypeOK
<1> QED BY <1>2, <1>5 DEF TypeOK, Idle, store, verdicts

LEMMA TypeInit == Init => TypeOK
BY GateConstants DEF Init, TypeOK, Idle

LEMMA TypeStep == TypeOK /\ [Next]_vars => TypeOK'
<1> SUFFICES ASSUME TypeOK, [Next]_vars PROVE TypeOK'
  OBVIOUS
<1> USE DEF store, verdicts, windows
<1>1. CASE StartRun
  <2>1. run' \in Runs
    BY <1>1, GateConstants DEF StartRun, TypeOK, Runs
  <2> QED BY <1>1, <2>1 DEF StartRun, TypeOK, Runs
<1>2. CASE NextExecute
  BY <1>2 DEF NextExecute, TypeOK
<1>3. CASE AskUser
  BY <1>3, EndRunType DEF AskUser
<1>4. CASE Completes
  BY <1>4, EndRunType DEF Completes
<1>5. CASE Fails
  BY <1>5, EndRunType DEF Fails
<1>6. CASE Stops
  BY <1>6, EndRunType DEF Stops
<1>7. ASSUME NEW c \in Calls, GuardBlocks(c) PROVE TypeOK'
  BY <1>7 DEF GuardBlocks, Answer, TypeOK
<1>8. ASSUME NEW c \in Calls, GateBlocks(c) PROVE TypeOK'
  <2>1. guard' \in Seq(Entries) /\ answered' \in Nat
    BY <1>8, RefuseType DEF GateBlocks, MayCall, TypeOK, Codes
  <2> QED BY <1>8, <2>1 DEF GateBlocks, Refuse, TypeOK
<1>9. ASSUME NEW c \in Calls, Invalid(c) PROVE TypeOK'
  <2>1. at = "model" /\ run \in Runs
    BY <1>9 DEF Invalid, Passes, MayCall, TypeOK
  <2>2. (IF StopsOn(safety, c, "invalid") THEN "loop" ELSE "invalid") \in Codes
    BY DEF Codes
  <2>3. guard' \in Seq(Entries) /\ answered' \in Nat
    BY <1>9, <2>1, <2>2, RefuseType DEF Invalid
  <2>4. safety' \in Seq(Entries)
    BY <1>9, RememberType DEF Invalid, TypeOK, Codes
  <2> QED BY <1>9, <2>1, <2>3, <2>4 DEF Invalid, Refuse, TypeOK
<1>10. ASSUME NEW c \in Calls, Denied(c) PROVE TypeOK'
  <2>1. guard' \in Seq(Entries) /\ answered' \in Nat
    BY <1>10, RefuseType DEF Denied, Passes, MayCall, TypeOK, Codes
  <2> QED BY <1>10, <2>1 DEF Denied, Refuse, TypeOK
<1>11. ASSUME NEW c \in Calls, Asks(c) PROVE TypeOK'
  <2>1. at = "model" /\ run \in Runs
    BY <1>11 DEF Asks, Passes, MayCall, TypeOK
  <2>2. guard' \in Seq(Entries) /\ answered' \in Nat
    BY <1>11, <2>1, RefuseType DEF Asks, Codes
  <2>3. records' \subseteq Records /\ issued' \in Nat
    BY <1>11, <2>1, IssueKeeps DEF Asks, TypeOK
  <2>4. registry' \in [Runs -> {"pending", "running", "waiting", "completed", "failed", "cancelled"}]
    BY <1>11, ReportType DEF Asks, TypeOK
  <2> QED BY <1>11, <2>1, <2>2, <2>3, <2>4 DEF Asks, Refuse, TypeOK
<1>12. ASSUME NEW c \in Calls, Starts(c) PROVE TypeOK'
  <2>1. run \in Runs
    BY <1>12 DEF Starts, Passes, MayCall, TypeOK
  <2>2. registry' \in [Runs -> {"pending", "running", "waiting", "completed", "failed", "cancelled"}]
    BY <1>12, ReportType DEF Starts, TypeOK
  <2> QED BY <1>12, <2>1, <2>2, GateConstants DEF Starts, TypeOK
<1>13. ASSUME NEW c \in Calls, StartsNative(c) PROVE TypeOK'
  BY <1>13, GateConstants DEF StartsNative, MayCall, TypeOK
<1>14. CASE Retries
  <2>1. /\ flight' \in [call : Calls \cup {NoCall}, tries : Nat]
        /\ flight'.call = flight.call
    BY <1>14 DEF Retries, TypeOK
  <2> QED BY <1>14, <2>1 DEF Retries, TypeOK
<1>15. CASE TimesOut
  BY <1>15, ResultType DEF TimesOut, Results
<1>16. ASSUME NEW r \in {"ok", "fail"}, Ends(r) PROVE TypeOK'
  BY <1>16, ResultType DEF Ends, Results
<1>17. ASSUME NEW r \in records, Expires(r) PROVE TypeOK'
  <2>1. r \in Records
    BY DEF TypeOK
  <2>2. [r EXCEPT !.status = "expired"] \in Records
    BY <2>1 DEF Records
  <2> QED BY <1>17, <2>2 DEF Expires, Becomes, TypeOK
<1>18. ASSUME NEW r \in records, NEW d \in {"approved", "rejected"}, Decide(r, d)
       PROVE  TypeOK'
  <2>1. r \in Records
    BY DEF TypeOK
  <2>2. [r EXCEPT !.status = d] \in Records /\ <<r.task, r.call>> \in Runs \X Consequential
    BY <2>1 DEF Records
  <2> QED BY <1>18, <2>2 DEF Decide, Becomes, TypeOK
<1>19. CASE UNCHANGED vars
  BY <1>19 DEF vars, TypeOK
<1> QED
  BY <1>1, <1>2, <1>3, <1>4, <1>5, <1>6, <1>7, <1>8, <1>9, <1>10, <1>11, <1>12,
     <1>13, <1>14, <1>15, <1>16, <1>17, <1>18, <1>19 DEF Next

(* Every variable keeps its type, for any calls, limits and number of runs. *)
THEOREM TypeCorrect == Spec => []TypeOK
BY TypeInit, TypeStep, PTL DEF Spec

-----------------------------------------------------------------------------
(* The gate implements Permission *)

(* An approved record is one the user granted, and what is under way was    *)
(* granted: the approval is looked up in the store, the user speaks to the  *)
(* store only, and a run keeps its task while a call executes.              *)
Approved == \A r \in records : r.status = "approved" => <<r.task, r.call>> \in granted
InForce == UnderWay # NoAction => UnderWay \in granted
ConsentInv == TypeOK /\ Approved /\ InForce

LEMMA UnderWayIsAnAction ==
  ASSUME TypeOK
  PROVE  /\ NoAction \notin Runs \X Consequential
         /\ UnderWay # NoAction <=> at = "tool" /\ flight.call \in Consequential
         /\ UnderWay # NoAction => UnderWay \in Runs \X Consequential
<1>1. 0 \notin Runs
  BY DEF Runs
<1>2. at = "tool" => run \in Runs
  BY DEF TypeOK
<1> QED BY <1>1, <1>2 DEF UnderWay, NoAction

LEMMA ConsentInit == Init => ConsentInv /\ Consent!Init
<1> SUFFICES ASSUME Init PROVE ConsentInv /\ Consent!Init
  OBVIOUS
<1>1. UnderWay = NoAction /\ records = {} /\ granted = {}
  BY DEF Init, UnderWay
<1> QED BY <1>1, TypeInit DEF ConsentInv, Approved, InForce, Consent!Init

(* A step that leaves the store, the grants and the call in flight alone *)
LEMMA QuietStep ==
  ASSUME ConsentInv, TypeOK', UNCHANGED <<granted, UnderWay>>,
         \A r \in records' : r.status = "approved" => r \in records
  PROVE  ConsentInv' /\ (Consent!Next \/ UNCHANGED <<granted, UnderWay>>)
BY DEF ConsentInv, Approved, InForce, NoAction

(* A step after which nothing consequential is under way *)
LEMMA EndingStep ==
  ASSUME ConsentInv, TypeOK', UNCHANGED <<granted, records>>, UnderWay' = NoAction
  PROVE  ConsentInv' /\ (Consent!Next \/ UNCHANGED <<granted, UnderWay>>)
<1>1. ConsentInv'
  BY DEF ConsentInv, Approved, InForce, NoAction
<1>2. CASE UnderWay = NoAction
  BY <1>1, <1>2
<1>3. CASE UnderWay # NoAction
  BY <1>1, <1>3 DEF Consent!Next, Consent!End
<1> QED BY <1>2, <1>3

LEMMA ConsentStep ==
  ConsentInv /\ [Next]_vars => ConsentInv' /\ [Consent!Next]_<<granted, UnderWay>>
<1> SUFFICES ASSUME ConsentInv, [Next]_vars
             PROVE  ConsentInv' /\ (Consent!Next \/ UNCHANGED <<granted, UnderWay>>)
  OBVIOUS
<1> USE DEF store, verdicts, windows
<1>0. TypeOK /\ TypeOK'
  BY TypeStep DEF ConsentInv
<1>1. CASE StartRun
  <2>1. UnderWay = NoAction /\ UnderWay' = NoAction
    BY <1>1 DEF StartRun, UnderWay, NoAction
  <2> QED BY <1>0, <1>1, <2>1, QuietStep DEF StartRun
<1>2. CASE NextExecute
  BY <1>0, <1>2, QuietStep DEF NextExecute, UnderWay
<1>3. ASSUME NEW how, EndRun(how)
      PROVE  ConsentInv' /\ (Consent!Next \/ UNCHANGED <<granted, UnderWay>>)
  <2>1. UnderWay' = NoAction
    BY <1>3 DEF EndRun, UnderWay, NoAction
  <2> QED BY <1>0, <1>3, <2>1, EndingStep DEF EndRun
<1>4. CASE AskUser \/ Completes \/ Fails \/ Stops
  BY <1>3, <1>4 DEF AskUser, Completes, Fails, Stops
<1>5. ASSUME NEW c \in Calls,
             GuardBlocks(c) \/ GateBlocks(c) \/ Invalid(c) \/ Denied(c)
      PROVE  ConsentInv' /\ (Consent!Next \/ UNCHANGED <<granted, UnderWay>>)
  <2>1. UNCHANGED <<at, flight, run, records, granted>>
    BY <1>5 DEF GuardBlocks, GateBlocks, Invalid, Denied, Refuse
  <2> QED BY <1>0, <2>1, QuietStep DEF UnderWay
<1>6. ASSUME NEW c \in Calls, Asks(c)
      PROVE  ConsentInv' /\ (Consent!Next \/ UNCHANGED <<granted, UnderWay>>)
  <2>1. UNCHANGED <<at, flight, run, granted>>
    BY <1>6 DEF Asks, Refuse
  <2>2. run \in Runs
    BY <1>0, <1>6 DEF Asks, Passes, MayCall, TypeOK
  <2>3. \A r \in records' : r.status = "approved" => r \in records
    BY <1>0, <1>6, <2>2, IssueKeeps DEF Asks, TypeOK
  <2> QED BY <1>0, <2>1, <2>3, QuietStep DEF UnderWay
<1>7. ASSUME NEW c \in Calls, Starts(c)
      PROVE  ConsentInv' /\ (Consent!Next \/ UNCHANGED <<granted, UnderWay>>)
  <2>1. /\ at = "model" /\ at' = "tool" /\ flight'.call = c /\ run' = run
        /\ UNCHANGED <<granted, records>>
    BY <1>7 DEF Starts, Passes, MayCall
  <2>2. UnderWay = NoAction
    BY <2>1 DEF UnderWay
  <2>3. CASE c \in Consequential
    <3>1. UnderWay' = <<run, c>>
      BY <2>1, <2>3 DEF UnderWay
    <3>2. StatusFor(run, c) = "approved"
      BY <1>7, <2>3 DEF Starts
    <3>3. PICK r \in records : r.task = run /\ r.call = c /\ r.status = "approved"
      BY <1>0, <3>2, ApprovedHasRecord DEF TypeOK
    <3>4. <<run, c>> \in granted
      BY <3>3 DEF ConsentInv, Approved
    <3>5. <<run, c>> \in Runs \X Consequential
      BY <1>0, <2>1, <2>3 DEF TypeOK
    <3>6. Consent!Begin(<<run, c>>)
      BY <2>1, <2>2, <3>1, <3>4 DEF Consent!Begin
    <3>7. ConsentInv'
      BY <1>0, <2>1, <3>1, <3>4 DEF ConsentInv, Approved, InForce
    <3> QED BY <3>5, <3>6, <3>7 DEF Consent!Next
  <2>4. CASE c \notin Consequential
    <3>1. UnderWay' = NoAction
      BY <2>1, <2>4 DEF UnderWay, NoAction
    <3> QED BY <1>0, <2>1, <2>2, <3>1, QuietStep
  <2> QED BY <2>3, <2>4
<1>8. ASSUME NEW c \in Calls, StartsNative(c)
      PROVE  ConsentInv' /\ (Consent!Next \/ UNCHANGED <<granted, UnderWay>>)
  <2>1. /\ at = "model" /\ flight'.call = c /\ c \notin Consequential
        /\ UNCHANGED <<granted, records>>
    BY <1>8, GateConstants DEF StartsNative, MayCall
  <2>2. UnderWay = NoAction /\ UnderWay' = NoAction
    BY <2>1 DEF UnderWay, NoAction
  <2> QED BY <1>0, <2>1, <2>2, QuietStep
<1>9. CASE Retries
  <2>1. flight'.call = flight.call
    BY <1>0, <1>9 DEF Retries, TypeOK
  <2> QED BY <1>0, <1>9, <2>1, QuietStep DEF Retries, UnderWay
<1>10. ASSUME NEW r, Result(r)
       PROVE  ConsentInv' /\ (Consent!Next \/ UNCHANGED <<granted, UnderWay>>)
  <2>1. at' = "model" /\ UNCHANGED <<granted, records>>
    BY <1>10 DEF Result
  <2>2. UnderWay' = NoAction
    BY <2>1 DEF UnderWay, NoAction
  <2> QED BY <1>0, <2>1, <2>2, EndingStep
<1>11. ASSUME NEW r \in records, Expires(r)
       PROVE  ConsentInv' /\ (Consent!Next \/ UNCHANGED <<granted, UnderWay>>)
  <2>1. r \in Records
    BY <1>0 DEF TypeOK
  <2>2. [r EXCEPT !.status = "expired"].status = "expired"
    BY <2>1 DEF Records
  <2>3. \A q \in records' : q.status = "approved" => q \in records
    BY <1>11, <2>2 DEF Expires, Becomes
  <2> QED BY <1>0, <1>11, <2>3, QuietStep DEF Expires, UnderWay
<1>12. ASSUME NEW r \in records, NEW d \in {"approved", "rejected"}, Decide(r, d)
       PROVE  ConsentInv' /\ (Consent!Next \/ UNCHANGED <<granted, UnderWay>>)
  <2> DEFINE q == [r EXCEPT !.status = d]
  <2>1. r \in Records
    BY <1>0 DEF TypeOK
  <2>2. q.status = d /\ q.task = r.task /\ q.call = r.call
    BY <2>1 DEF Records
  <2>3. records' = (records \ {r}) \cup {q} /\ UnderWay' = UnderWay
    BY <1>12 DEF Decide, Becomes, UnderWay
  <2>4. CASE d = "rejected"
    BY <1>0, <1>12, <2>2, <2>3, <2>4, QuietStep DEF Decide
  <2>5. CASE d = "approved"
    <3>1. granted' = granted \cup {<<r.task, r.call>>}
      BY <1>12, <2>5 DEF Decide
    <3>2. ConsentInv'
      BY <1>0, <2>2, <2>3, <3>1 DEF ConsentInv, Approved, InForce, NoAction
    <3>3. /\ Consent!Grant(<<r.task, r.call>>)
          /\ <<r.task, r.call>> \in Runs \X Consequential
      BY <2>1, <2>3, <3>1 DEF Consent!Grant, Records
    <3> QED BY <3>2, <3>3 DEF Consent!Next
  <2> QED BY <2>4, <2>5
<1>13. CASE UNCHANGED vars
  BY <1>0, <1>13, QuietStep DEF vars, UnderWay
<1> QED
  BY <1>1, <1>2, <1>4, <1>5, <1>6, <1>7, <1>8, <1>9, <1>10, <1>11, <1>12, <1>13
  DEF Next, Ends, TimesOut

(* No consequential call executes unless the user approved that call for    *)
(* the task it runs in: whatever the model calls, however often it is asked *)
(* and whatever expires, the gate implements Permission.                    *)
THEOREM GateImplementsPermission == Spec => Permitted
<1>1. Init => ConsentInv /\ Consent!Init
  BY ConsentInit
<1>2. ConsentInv /\ [Next]_vars => ConsentInv' /\ [Consent!Next]_<<granted, UnderWay>>
  BY ConsentStep
<1> QED BY <1>1, <1>2, PTL DEF Spec, Permitted, Consent!Spec

-----------------------------------------------------------------------------
(* The run registry *)

(* Only the current run is open to reports, and until it ends the registry  *)
(* has it running or waiting: from either it can learn the end, or stays    *)
(* waiting.                                                                 *)
RegistryInv ==
  /\ TypeOK
  /\ at # "none" => registry[run] \in {"running", "waiting"} /\ ended[run] = "open"
  /\ \A r \in Runs : r > run => registry[r] = "pending" /\ ended[r] = "open"
  /\ RegistryKnowsTheEnd

LEMMA RegistryInit == Init => RegistryInv
<1> SUFFICES ASSUME Init PROVE RegistryInv
  OBVIOUS
<1>1. \A r \in Runs : registry[r] = "pending" /\ ended[r] = "open"
  BY DEF Init
<1> QED BY <1>1, TypeInit DEF RegistryInv, RegistryKnowsTheEnd, Init

(* Reports about the current run, which stays open *)
LEMMA OpenRunStep ==
  ASSUME RegistryInv, TypeOK', at # "none", UNCHANGED <<run, ended>>,
         NEW s \in {"running", "waiting"}, UNCHANGED registry \/ Report(s)
  PROVE  RegistryInv'
<1>1. run \in Runs
  BY DEF RegistryInv, TypeOK
<1>2. registry'[run] \in {"running", "waiting"}
  BY <1>1 DEF RegistryInv, Report, TypeOK
<1>3. \A r \in Runs : r # run => registry'[r] = registry[r]
  BY DEF RegistryInv, Report, TypeOK
<1>4. \A r \in Runs : r > run => r # run
  BY <1>1 DEF Runs
<1> QED BY <1>1, <1>2, <1>3, <1>4 DEF RegistryInv, RegistryKnowsTheEnd

LEMMA RegistryStep == RegistryInv /\ [Next]_vars => RegistryInv'
<1> SUFFICES ASSUME RegistryInv, [Next]_vars PROVE RegistryInv'
  OBVIOUS
<1> USE DEF store, verdicts, windows
<1>0. TypeOK /\ TypeOK'
  BY TypeStep DEF RegistryInv
<1>1. CASE StartRun
  <2>1. /\ run' = run + 1 /\ run \in 0 .. MaxRuns /\ run' \in Runs
        /\ registry' = [registry EXCEPT ![run + 1] = "running"] /\ ended' = ended
    BY <1>0, <1>1, GateConstants DEF StartRun, TypeOK, Runs
  <2>2. registry'[run'] = "running" /\ ended'[run'] = "open"
    BY <1>0, <2>1 DEF RegistryInv, TypeOK
  <2>3. \A r \in Runs : r # run' => registry'[r] = registry[r]
    BY <1>0, <2>1 DEF TypeOK
  <2>4. \A r \in Runs : r > run' => r # run' /\ r > run
    BY <2>1 DEF Runs
  <2> QED BY <1>0, <2>1, <2>2, <2>3, <2>4 DEF RegistryInv, RegistryKnowsTheEnd
<1>2. ASSUME NEW how \in {"waiting", "completed", "failed", "cancelled"},
             at # "none", EndRun(how)
      PROVE  RegistryInv'
  <2>1. /\ run \in Runs /\ run' = run /\ at' = "none" /\ Report(how)
        /\ ended' = [ended EXCEPT ![run] = how]
    BY <1>0, <1>2 DEF EndRun, TypeOK
  <2>2. registry'[run] \in {how, "waiting"}
    BY <1>0, <1>2, <2>1 DEF RegistryInv, Report, Legal, TypeOK
  <2>3. ended'[run] = how
    BY <1>0, <2>1 DEF TypeOK
  <2>4. \A r \in Runs : r # run => registry'[r] = registry[r] /\ ended'[r] = ended[r]
    BY <1>0, <2>1 DEF Report, TypeOK
  <2>5. \A r \in Runs : r > run => r # run
    BY <2>1 DEF Runs
  <2> QED BY <1>0, <2>1, <2>2, <2>3, <2>4, <2>5 DEF RegistryInv, RegistryKnowsTheEnd
<1>3. CASE AskUser \/ Completes \/ Fails \/ Stops
  BY <1>2, <1>3 DEF AskUser, Completes, Fails, Stops
<1>4. CASE NextExecute \/ Retries \/ TimesOut \/ \E r \in {"ok", "fail"} : Ends(r)
  <2>1. at # "none" /\ UNCHANGED <<run, ended, registry>>
    BY <1>4 DEF NextExecute, Retries, TimesOut, Ends, Result
  <2> QED BY <1>0, <2>1, OpenRunStep
<1>5. ASSUME NEW c \in Calls,
             \/ GuardBlocks(c) \/ GateBlocks(c) \/ Invalid(c) \/ Denied(c)
             \/ StartsNative(c)
      PROVE  RegistryInv'
  <2>1. at # "none" /\ UNCHANGED <<run, ended, registry>>
    BY <1>5 DEF GuardBlocks, GateBlocks, Invalid, Denied, StartsNative, Refuse, Passes, MayCall
  <2> QED BY <1>0, <2>1, OpenRunStep
<1>6. ASSUME NEW c \in Calls, Asks(c) \/ Starts(c) PROVE RegistryInv'
  <2>1. /\ at # "none" /\ UNCHANGED <<run, ended>>
        /\ Report("waiting") \/ Report("running")
    BY <1>6 DEF Asks, Starts, Refuse, Passes, MayCall
  <2> QED BY <1>0, <2>1, OpenRunStep
<1>7. CASE \E r \in records : Expires(r) \/ \E d \in {"approved", "rejected"} : Decide(r, d)
  <2>1. UNCHANGED <<run, at, ended, registry>>
    BY <1>7 DEF Expires, Decide
  <2> QED BY <1>0, <2>1 DEF RegistryInv, RegistryKnowsTheEnd
<1>8. CASE UNCHANGED vars
  BY <1>0, <1>8 DEF vars, RegistryInv, RegistryKnowsTheEnd
<1> QED BY <1>1, <1>3, <1>4, <1>5, <1>6, <1>7, <1>8 DEF Next

(* The registry reports a run that is over the way it ended, or as waiting  *)
(* when a confirmation was pending.                                         *)
THEOREM RegistryKnows == Spec => []RegistryKnowsTheEnd
<1>1. RegistryInv => RegistryKnowsTheEnd
  BY DEF RegistryInv
<1> QED BY <1>1, RegistryInit, RegistryStep, PTL DEF Spec

-----------------------------------------------------------------------------
(* Blind repeats.  The guards count backward through a window; what they     *)
(* count are the entries from which on the call was answered the same way    *)
(* and only looked-at calls stand between.                                   *)

Streak(w, c) ==
  {i \in 1 .. Len(w) :
     /\ w[i].call = c
     /\ \A k \in 1 .. Len(w) : k >= i =>
          /\ w[k].call = c \/ w[k].call \in ReadOnly
          /\ w[k].call = c => w[k].result = w[i].result}

LEMMA GreatestIn ==
  ASSUME NEW n \in Nat, NEW T, T \subseteq 0 .. n, T # {}
  PROVE  Max(T) \in T /\ \A y \in T : y <= Max(T)
<1> DEFINE D == {n - x : x \in T}
<1>1. D \subseteq Nat /\ D # {}
  <2>1. \A x \in T : x \in Nat /\ n - x \in Nat
    OBVIOUS
  <2> QED BY <2>1, Zenon
<1>2. PICK d \in D : \A y \in D : <<y, d>> \notin OpToRel(<, Nat)
  BY <1>1, NatLessThanWellFounded, WFMin, Zenon
<1>3. PICK x \in T : d = n - x
  OBVIOUS
<1>4. ASSUME NEW y \in T PROVE y <= x
  <2>1. n - y \in D /\ n - y \in Nat /\ d \in Nat
    BY <1>1
  <2>2. ~(n - y < d)
    BY <1>2, <2>1, Zenon DEF OpToRel
  <2> QED BY <1>3, <2>1, <2>2
<1>5. x \in T /\ \A y \in T : x >= y
  BY <1>4
<1>6. /\ Max(T) \in T /\ \A y \in T : Max(T) >= y
  BY <1>5, Zenon DEF Max
<1> QED BY <1>6

LEMMA RepeatsAreStreak ==
  ASSUME NEW w \in Seq(Entries), NEW c
  PROVE  BlindRepeats(w, c) = Cardinality(Streak(w, c))
<1> DEFINE n == Len(w)
           C == {0} \cup {i \in DOMAIN w : w[i].call # c /\ w[i].call \notin ReadOnly}
           last == Changed(w, c)
           tries == {i \in last + 1 .. n : w[i].call = c}
           counted == {i \in tries :
                         \A j \in tries : j >= i => w[j].result = w[Max(tries)].result}
<1>1. n \in Nat /\ DOMAIN w = 1 .. n
  OBVIOUS
<1>2. last = Max(C)
  BY DEF Changed
<1>3. last \in C /\ \A y \in C : y <= last
  <2>1. C \subseteq 0 .. n /\ C # {}
    BY <1>1
  <2> HIDE DEF C, n, last
  <2> QED BY <1>1, <1>2, <2>1, GreatestIn
<1>4. /\ last \in 0 .. n
      /\ \A k \in 1 .. n : k > last => w[k].call = c \/ w[k].call \in ReadOnly
      /\ last # 0 => w[last].call # c /\ w[last].call \notin ReadOnly
  BY <1>1, <1>3
<1>5. BlindRepeats(w, c) = Cardinality(counted)
  BY DEF BlindRepeats
<1> HIDE DEF n, C, last, tries
<1>6. /\ \A i \in tries : i \in 1 .. n /\ i > last /\ w[i].call = c
      /\ \A i \in 1 .. n : i > last /\ w[i].call = c => i \in tries
  BY <1>4 DEF tries
<1>7. tries # {} => Max(tries) \in tries /\ \A y \in tries : y <= Max(tries)
  <2>1. tries \subseteq 0 .. n
    BY <1>6
  <2> QED BY <1>1, <2>1, GreatestIn
<1>8. ASSUME NEW i \in counted PROVE i \in Streak(w, c)
  <2>1. i \in tries /\ i \in 1 .. n /\ w[i].call = c /\ i > last
    BY <1>6, <1>8
  <2>2. \A j \in tries : j >= i => w[j].result = w[Max(tries)].result
    BY <1>8
  <2>3. w[i].result = w[Max(tries)].result
    BY <2>1, <2>2
  <2>4. ASSUME NEW k \in 1 .. n, k >= i
        PROVE  /\ w[k].call = c \/ w[k].call \in ReadOnly
               /\ w[k].call = c => w[k].result = w[i].result
    <3>1. k > last
      BY <1>4, <2>1, <2>4
    <3>2. w[k].call = c => k \in tries
      BY <1>6, <3>1
    <3> QED BY <1>4, <2>2, <2>3, <2>4, <3>1, <3>2
  <2> QED BY <2>1, <2>4 DEF Streak, n
<1>9. ASSUME NEW i \in Streak(w, c) PROVE i \in counted
  <2>1. /\ i \in 1 .. n /\ w[i].call = c
        /\ \A k \in 1 .. n : k >= i =>
             /\ w[k].call = c \/ w[k].call \in ReadOnly
             /\ w[k].call = c => w[k].result = w[i].result
    BY DEF Streak, n
  <2>2. i > last
    <3> SUFFICES ASSUME last >= i PROVE FALSE
      BY <1>4, <2>1
    <3>1. last \in 1 .. n /\ last # 0
      BY <1>4, <2>1
    <3> QED BY <1>4, <2>1, <3>1
  <2>3. i \in tries
    BY <1>6, <2>1, <2>2
  <2>4. \A j \in tries : j >= i => w[j].result = w[i].result
    BY <1>6, <2>1
  <2>5. w[Max(tries)].result = w[i].result
    BY <1>7, <2>3, <2>4
  <2> QED BY <2>3, <2>4, <2>5
<1>10. counted = Streak(w, c)
  BY <1>8, <1>9
<1> QED BY <1>5, <1>10

LEMMA StreakIsFinite ==
  ASSUME NEW w \in Seq(Entries), NEW c
  PROVE  IsFiniteSet(Streak(w, c)) /\ BlindRepeats(w, c) \in Nat
<1>1. Streak(w, c) \subseteq 1 .. Len(w) /\ IsFiniteSet(1 .. Len(w))
  BY FS_Interval DEF Streak
<1>2. IsFiniteSet(Streak(w, c))
  BY <1>1, FS_Subset
<1> QED BY <1>2, FS_CardinalityType, RepeatsAreStreak

LEMMA NothingYet ==
  ASSUME NEW c
  PROVE  BlindRepeats(<<>>, c) = 0
<1>1. <<>> \in Seq(Entries) /\ Streak(<<>>, c) = {}
  BY DEF Streak
<1> QED BY <1>1, RepeatsAreStreak, FS_EmptySet

(* An answer lengthens the streak of its own call only, and by one. *)
LEMMA AnswerLengthens ==
  ASSUME NEW w \in Seq(Entries), NEW e \in Entries, NEW d
  PROVE  /\ Append(w, e) \in Seq(Entries)
         /\ BlindRepeats(Append(w, e), d)
              <= BlindRepeats(w, d) + (IF d = e.call THEN 1 ELSE 0)
<1> DEFINE v == Append(w, e)
           n == Len(w)
<1>1. /\ v \in Seq(Entries) /\ n \in Nat /\ Len(v) = n + 1
      /\ \A i \in 1 .. n : v[i] = w[i]
      /\ v[n + 1] = e
  BY AppendProperties
<1> HIDE DEF v
<1>2. ASSUME NEW i \in Streak(v, d), i # n + 1 PROVE i \in Streak(w, d)
  <2>1. i \in 1 .. n + 1 /\ i \in 1 .. n
    BY <1>1, <1>2 DEF Streak
  <2>2. /\ v[i].call = d
        /\ \A k \in 1 .. n + 1 : k >= i =>
             /\ v[k].call = d \/ v[k].call \in ReadOnly
             /\ v[k].call = d => v[k].result = v[i].result
    BY <1>1, <1>2 DEF Streak
  <2>3. \A k \in 1 .. n : k \in 1 .. n + 1
    BY <1>1
  <2> QED BY <1>1, <2>1, <2>2, <2>3 DEF Streak
<1>3. n + 1 \in Streak(v, d) => d = e.call
  BY <1>1 DEF Streak
<1>4. /\ IsFiniteSet(Streak(w, d)) /\ BlindRepeats(w, d) \in Nat
      /\ BlindRepeats(w, d) = Cardinality(Streak(w, d))
      /\ BlindRepeats(v, d) \in Nat
      /\ BlindRepeats(v, d) = Cardinality(Streak(v, d))
  BY <1>1, StreakIsFinite, RepeatsAreStreak
<1>5. CASE d = e.call
  <2>1. Streak(v, d) \subseteq Streak(w, d) \cup {n + 1}
    BY <1>2
  <2>2. /\ IsFiniteSet(Streak(w, d) \cup {n + 1})
        /\ Cardinality(Streak(w, d) \cup {n + 1}) <= Cardinality(Streak(w, d)) + 1
    <3>1. Cardinality(Streak(w, d)) \in Nat
      BY <1>4
    <3>2. /\ IsFiniteSet(Streak(w, d) \cup {n + 1})
          /\ Cardinality(Streak(w, d) \cup {n + 1})
               = IF n + 1 \in Streak(w, d) THEN Cardinality(Streak(w, d))
                 ELSE Cardinality(Streak(w, d)) + 1
      BY <1>4, FS_AddElement, Zenon
    <3> QED BY <3>1, <3>2
  <2>3. Cardinality(Streak(v, d)) <= Cardinality(Streak(w, d) \cup {n + 1})
    BY <2>1, <2>2, FS_Subset
  <2>4. Cardinality(Streak(w, d) \cup {n + 1}) \in Nat
    BY <2>2, FS_CardinalityType
  <2> QED BY <1>1, <1>4, <1>5, <2>2, <2>3, <2>4 DEF v
<1>6. CASE d # e.call
  <2>1. Streak(v, d) \subseteq Streak(w, d)
    BY <1>2, <1>3, <1>6
  <2>2. Cardinality(Streak(v, d)) <= Cardinality(Streak(w, d))
    BY <1>4, <2>1, FS_Subset
  <2> QED BY <1>1, <1>4, <1>6, <2>2 DEF v
<1> QED BY <1>5, <1>6

(* An entry that falls out of the window lengthens none. *)
LEMMA ForgettingShortens ==
  ASSUME NEW v \in Seq(Entries), v # <<>>, NEW d
  PROVE  /\ Tail(v) \in Seq(Entries)
         /\ BlindRepeats(Tail(v), d) <= BlindRepeats(v, d)
<1> DEFINE u == Tail(v)
           n == Len(u)
           S == Streak(u, d)
           T == Streak(v, d)
           f == [i \in S |-> i + 1]
<1>1. /\ u \in Seq(Entries) /\ n \in Nat /\ Len(v) = n + 1
      /\ \A i \in 1 .. n : u[i] = v[i + 1]
  BY HeadTailProperties
<1> HIDE DEF u
<1>2. ASSUME NEW i \in S PROVE i \in 1 .. n /\ i + 1 \in T
  <2>1. /\ i \in 1 .. n /\ u[i].call = d
        /\ \A k \in 1 .. n : k >= i =>
             /\ u[k].call = d \/ u[k].call \in ReadOnly
             /\ u[k].call = d => u[k].result = u[i].result
    BY DEF Streak
  <2>2. i + 1 \in 1 .. Len(v) /\ v[i + 1] = u[i]
    BY <1>1, <2>1
  <2>3. ASSUME NEW k \in 1 .. Len(v), k >= i + 1
        PROVE  /\ v[k].call = d \/ v[k].call \in ReadOnly
               /\ v[k].call = d => v[k].result = v[i + 1].result
    <3>1. PICK j \in 1 .. n : k = j + 1 /\ j >= i
      <4>1. k - 1 \in 1 .. n /\ k = (k - 1) + 1 /\ k - 1 >= i
        BY <1>1, <2>1, <2>3
      <4> QED BY <4>1
    <3>2. v[k] = u[j]
      BY <1>1, <3>1
    <3> QED BY <2>1, <2>2, <3>1, <3>2
  <2> QED BY <2>1, <2>2, <2>3 DEF Streak
<1>3. f \in Injection(S, T)
  <2>1. f \in [S -> T]
    BY <1>2
  <2>2. ASSUME NEW i \in S, NEW j \in S, f[i] = f[j] PROVE i = j
    <3>1. i \in 1 .. n /\ j \in 1 .. n /\ i + 1 = j + 1
      BY <1>2, <2>2
    <3> QED BY <1>1, <3>1
  <2> QED BY <2>1, <2>2, Fun_IsInj
<1>4. IsFiniteSet(T)
  BY StreakIsFinite
<1>5. Cardinality(S) <= Cardinality(T)
  BY <1>3, <1>4, FS_Injection
<1> QED BY <1>1, <1>5, RepeatsAreStreak DEF u

LEMMA RememberedRepeats ==
  ASSUME NEW w \in Seq(Entries), NEW c \in Calls, NEW r \in Codes, NEW d
  PROVE  BlindRepeats(Remember(w, c, r), d)
           <= BlindRepeats(w, d) + (IF d = c THEN 1 ELSE 0)
<1> DEFINE e == Entry(c, r)
           v == Append(w, e)
<1>1. e \in Entries /\ e.call = c
  BY DEF Entry, Entries
<1>2. /\ v \in Seq(Entries)
      /\ BlindRepeats(v, d) <= BlindRepeats(w, d) + (IF d = c THEN 1 ELSE 0)
  BY <1>1, AnswerLengthens
<1>3. v # <<>>
  BY <1>1, AppendProperties
<1>4. /\ Tail(v) \in Seq(Entries)
      /\ BlindRepeats(Tail(v), d) <= BlindRepeats(v, d)
  BY <1>2, <1>3, ForgettingShortens
<1>5. Remember(w, c, r) = v \/ Remember(w, c, r) = Tail(v)
  BY Zenon DEF Remember
<1>6. /\ BlindRepeats(w, d) \in Nat /\ BlindRepeats(v, d) \in Nat
      /\ BlindRepeats(Tail(v), d) \in Nat
  BY <1>2, <1>4, StreakIsFinite
<1> HIDE DEF e, v
<1>7. CASE Remember(w, c, r) = v
  BY <1>2, <1>7
<1>8. CASE Remember(w, c, r) = Tail(v)
  BY <1>2, <1>4, <1>6, <1>8
<1> QED BY <1>5, <1>7, <1>8

Bounded(w) == \A d \in Calls \ Exempt : BlindRepeats(w, d) <= IdenticalCalls
Free(w, c) == c \in Exempt \/ BlindRepeats(w, c) < IdenticalCalls

(* The guards look before they let a call go, and what they saw is true     *)
(* until its result is recorded: only one call is in flight.                *)
SpinInv ==
  /\ NoBlindSpinning
  /\ at = "tool" =>
       /\ Free(guard, flight.call)
       /\ flight.call \notin Native => Free(safety, flight.call)

LEMMA FreeWindowIsBounded ==
  ASSUME NEW w \in Seq(Entries), NEW c \in Calls, NEW r \in Codes,
         Bounded(w), Free(w, c)
  PROVE  Bounded(Remember(w, c, r))
<1> SUFFICES ASSUME NEW d \in Calls \ Exempt
             PROVE  BlindRepeats(Remember(w, c, r), d) <= IdenticalCalls
  BY DEF Bounded
<1>1. /\ BlindRepeats(w, d) \in Nat /\ BlindRepeats(w, d) <= IdenticalCalls
      /\ Remember(w, c, r) \in Seq(Entries)
  BY StreakIsFinite, RememberType DEF Bounded
<1>2. BlindRepeats(Remember(w, c, r), d) \in Nat
  BY <1>1, StreakIsFinite
<1>3. BlindRepeats(Remember(w, c, r), d)
        <= BlindRepeats(w, d) + (IF d = c THEN 1 ELSE 0)
  BY RememberedRepeats
<1>4. IdenticalCalls \in Nat
  BY GateConstants
<1>5. CASE d = c
  <2>1. BlindRepeats(w, d) < IdenticalCalls
    BY <1>5 DEF Free
  <2>2. BlindRepeats(Remember(w, c, r), d) <= BlindRepeats(w, d) + 1
    BY <1>3, <1>5
  <2> QED BY <1>1, <1>2, <1>4, <2>1, <2>2
<1>6. CASE d # c
  <2>1. BlindRepeats(Remember(w, c, r), d) <= BlindRepeats(w, d) + 0
    BY <1>3, <1>6
  <2> QED BY <1>1, <1>2, <1>4, <2>1
<1> QED BY <1>5, <1>6

LEMMA PassedIsFree ==
  ASSUME NEW w \in Seq(Entries), NEW c \in Calls, ~Stuck(w, c)
  PROVE  Free(w, c)
<1>1. c \in Exempt \/ ~(BlindRepeats(w, c) >= IdenticalCalls)
  BY DEF Stuck
<1>2. BlindRepeats(w, c) \in Nat /\ IdenticalCalls \in Nat
  BY StreakIsFinite, GateConstants
<1> QED BY <1>1, <1>2 DEF Free

LEMMA EmptyIsBounded == Bounded(<<>>)
<1>1. IdenticalCalls \in Nat
  BY GateConstants
<1> QED BY <1>1, NothingYet DEF Bounded

LEMMA SpinningInBounds == NoBlindSpinning <=> Bounded(guard) /\ Bounded(safety)
BY DEF NoBlindSpinning, Bounded

LEMMA SpinInit == Init => SpinInv
BY EmptyIsBounded, SpinningInBounds DEF Init, SpinInv

(* A call that is answered without executing. *)
LEMMA RefusedSpins ==
  ASSUME TypeOK, SpinInv, NEW c \in Calls, NEW code \in Codes,
         MayCall(c), ~Stuck(guard, c), Refuse(c, code),
         \/ UNCHANGED safety
         \/ /\ ~Stuck(safety, c)
            /\ \E r \in Codes : safety' = Remember(safety, c, r)
  PROVE  SpinInv'
<1>1. /\ guard \in Seq(Entries) /\ safety \in Seq(Entries)
      /\ Bounded(guard) /\ Bounded(safety) /\ at' # "tool"
      /\ guard' = Remember(guard, c, code)
  BY SpinningInBounds DEF TypeOK, SpinInv, Refuse, MayCall
<1>2. Bounded(guard')
  BY <1>1, PassedIsFree, FreeWindowIsBounded
<1>3. Bounded(safety')
  BY <1>1, PassedIsFree, FreeWindowIsBounded
<1>4. NoBlindSpinning'
  BY <1>2, <1>3 DEF NoBlindSpinning, Bounded
<1> QED BY <1>1, <1>4 DEF SpinInv

(* A call that was executed is answered. *)
LEMMA ResultSpins ==
  ASSUME TypeOK, SpinInv, at = "tool", NEW r \in Results, Result(r)
  PROVE  SpinInv'
<1> DEFINE c == flight.call
<1>1. /\ guard \in Seq(Entries) /\ safety \in Seq(Entries)
      /\ Bounded(guard) /\ Bounded(safety) /\ at' # "tool"
      /\ c \in Calls /\ r \in Codes
  BY SpinningInBounds DEF TypeOK, SpinInv, Result, Results, Codes
<1>2. PICK code \in Codes : guard' = Remember(guard, c, code)
  BY Zenon, <1>1 DEF Result, Codes
<1>3. Free(guard, c) /\ (c \notin Native => Free(safety, c))
  BY DEF SpinInv
<1>4. \/ UNCHANGED safety
      \/ c \notin Native /\ safety' = Remember(safety, c, r)
  BY DEF Result
<1> HIDE DEF c
<1>5. Bounded(guard')
  BY <1>1, <1>2, <1>3, FreeWindowIsBounded
<1>6. Bounded(safety')
  BY <1>1, <1>3, <1>4, FreeWindowIsBounded
<1>7. NoBlindSpinning'
  BY <1>5, <1>6 DEF NoBlindSpinning, Bounded
<1> QED BY <1>1, <1>7 DEF SpinInv

LEMMA SpinStep == TypeOK /\ SpinInv /\ [Next]_vars => SpinInv'
<1> SUFFICES ASSUME TypeOK, SpinInv, [Next]_vars PROVE SpinInv'
  OBVIOUS
<1>0. /\ guard \in Seq(Entries) /\ safety \in Seq(Entries)
      /\ Bounded(guard) /\ Bounded(safety)
  BY SpinningInBounds DEF TypeOK, SpinInv
<1>1. CASE StartRun
  BY <1>1 DEF StartRun, windows, SpinInv, NoBlindSpinning
<1>2. CASE NextExecute
  <2>1. guard' = <<>> /\ UNCHANGED safety /\ at' # "tool"
    BY <1>2 DEF NextExecute
  <2>2. Bounded(guard') /\ Bounded(safety')
    BY <1>0, <2>1, EmptyIsBounded
  <2> QED BY <2>1, <2>2 DEF SpinInv, NoBlindSpinning, Bounded
<1>3. CASE AskUser \/ Completes \/ Fails \/ Stops
  <2>1. guard' = <<>> /\ safety' = <<>> /\ at' # "tool"
    BY <1>3 DEF AskUser, Completes, Fails, Stops, EndRun
  <2>2. Bounded(guard') /\ Bounded(safety')
    BY <2>1, EmptyIsBounded
  <2> QED BY <2>1, <2>2 DEF SpinInv, NoBlindSpinning, Bounded
<1>4. ASSUME NEW c \in Calls, GuardBlocks(c) PROVE SpinInv'
  BY <1>4 DEF GuardBlocks, MayCall, windows, SpinInv, NoBlindSpinning
<1>5. ASSUME NEW c \in Calls, GateBlocks(c) \/ Denied(c) \/ Asks(c) PROVE SpinInv'
  <2>1. /\ MayCall(c) /\ ~Stuck(guard, c) /\ UNCHANGED safety
        /\ \E code \in Codes : Refuse(c, code)
    BY <1>5 DEF GateBlocks, Denied, Asks, Passes, Codes
  <2> QED BY <2>1, RefusedSpins
<1>6. ASSUME NEW c \in Calls, Invalid(c) PROVE SpinInv'
  <2>1. /\ MayCall(c) /\ ~Stuck(guard, c) /\ ~Stuck(safety, c)
        /\ \E code \in Codes : Refuse(c, code)
        /\ \E r \in Codes : safety' = Remember(safety, c, r)
    BY <1>6, Zenon DEF Invalid, Passes, Codes
  <2> QED BY <2>1, RefusedSpins
<1>7. ASSUME NEW c \in Calls, Starts(c) \/ StartsNative(c) PROVE SpinInv'
  <2>1. /\ ~Stuck(guard, c) /\ (c \notin Native => ~Stuck(safety, c))
        /\ flight'.call = c /\ UNCHANGED <<guard, safety>>
    BY <1>7 DEF Starts, StartsNative, Passes, windows
  <2>2. Free(guard, c) /\ (c \notin Native => Free(safety, c))
    BY <1>0, <2>1, PassedIsFree
  <2>3. Free(guard', flight'.call) /\ (flight'.call \notin Native => Free(safety', flight'.call))
    BY <2>1, <2>2
  <2> QED BY <1>0, <2>1, <2>3 DEF SpinInv, NoBlindSpinning, Bounded, Free
<1>8. CASE Retries
  <2>1. at' = at /\ flight'.call = flight.call /\ UNCHANGED <<guard, safety>>
    BY <1>8 DEF Retries, windows, TypeOK
  <2> QED BY <2>1 DEF SpinInv, NoBlindSpinning, Free
<1>9. CASE TimesOut \/ \E r \in {"ok", "fail"} : Ends(r)
  <2>1. at = "tool" /\ \E r \in Results : Result(r)
    BY <1>9 DEF TimesOut, Ends, Results
  <2> QED BY <2>1, ResultSpins
<1>10. CASE \E r \in records : Expires(r) \/ \E d \in {"approved", "rejected"} : Decide(r, d)
  BY <1>10 DEF Expires, Decide, windows, SpinInv, NoBlindSpinning, Free
<1>11. CASE UNCHANGED vars
  BY <1>11 DEF vars, windows, SpinInv, NoBlindSpinning, Free
<1> QED BY <1>1, <1>2, <1>3, <1>4, <1>5, <1>6, <1>7, <1>8, <1>9, <1>10, <1>11 DEF Next

(* No call that is not exempt is answered the same way more often than the  *)
(* limit with nothing changed in between: not by the guard of the tool      *)
(* loop, and not by the gate's own.                                         *)
THEOREM NoBlindSpinningHolds == Spec => []NoBlindSpinning
<1>1. SpinInv => NoBlindSpinning
  BY DEF SpinInv
<1> QED BY <1>1, TypeInit, TypeStep, SpinInit, SpinStep, PTL DEF Spec

-----------------------------------------------------------------------------
(* Refusals.  A record that is not the only one of its task and call in the *)
(* current run is there because the oldest one expired; and that one        *)
(* answers for the call ever after.                                         *)

Numbered ==
  /\ \A r \in records : r.no <= issued /\ r.task <= run
  /\ \A r, q \in records : r.no = q.no => r = q
  /\ \A r, q \in records : r.task < q.task => r.no < q.no

(* The records of the current run are its latest, one for each answer at most. *)
InRun ==
  /\ at = "none" => answered = 0
  /\ at # "none" => \A r \in records : r.task = run => r.no + answered > issued

AskedAgain ==
  \A r, q \in records :
    /\ r.task = run /\ q.task = run /\ r.call = q.call /\ r.no < q.no
    /\ \A p \in records : p.task = run /\ p.call = r.call => r.no <= p.no
    => r.status = "expired"

RefusalsOnRecord ==
  \A x \in refused :
    /\ x[1] <= run
    /\ x[1] = run =>
         \E r \in records : r.task = run /\ r.call = x[2] /\ r.status = "rejected"

RefusalInv == Numbered /\ InRun /\ AskedAgain /\ RefusalsOnRecord

LEMMA RefusalInit == Init => RefusalInv
BY DEF Init, RefusalInv, Numbered, InRun, AskedAgain, RefusalsOnRecord

(* The cap of the store does not reach the records of the current run while  *)
(* they alone would fit: an older run's record goes first.                   *)
LEMMA PurgeSparesTheRun ==
  ASSUME NEW R \in SUBSET Records, NEW old, NEW lo \in Int, NEW n \in Nat,
         n <= MaxStore, run \in Nat,
         \A r \in R : r.task <= run,
         \A r \in R : r.task = run => lo < r.no /\ r.no <= lo + n,
         \A r, q \in R : r.no = q.no => r = q,
         \A r, q \in R : r.task < q.task => r.no < q.no
  PROVE  \A r \in R : r.task = run => r \in Purged(R, old)
<1> DEFINE own == {r \in R : r.task = run}
           kept == IF old
                   THEN {r \in R : r.task = run \/ r.status \notin {"rejected", "expired"}}
                   ELSE R
           f == [r \in own |-> r.no - lo]
<1>1. own \subseteq kept /\ kept \subseteq R
  OBVIOUS
<1>2. f \in Injection(own, 1 .. n)
  <2>1. \A r \in own : r.no \in Int /\ r.no - lo \in 1 .. n
    BY DEF Records
  <2>2. f \in [own -> 1 .. n]
    BY <2>1
  <2>3. ASSUME NEW r \in own, NEW q \in own, f[r] = f[q] PROVE r = q
    <3>1. r.no = q.no
      BY <2>1, <2>3
    <3> QED BY <3>1
  <2> QED BY <2>2, <2>3, Fun_IsInj
<1>3. Cardinality(own) <= n
  <2>1. IsFiniteSet(1 .. n) /\ Cardinality(1 .. n) = n
    BY FS_Interval
  <2>2. Cardinality(own) <= Cardinality(1 .. n)
    BY <1>2, <2>1, FS_Injection
  <2> QED BY <2>1, <2>2
<1>4. Purged(R, old) = IF Cardinality(kept) > MaxStore THEN kept \ {Oldest(kept)} ELSE kept
  BY DEF Purged
<1>5. IsFiniteSet(own)
  <2>1. IsFiniteSet(1 .. n)
    BY FS_Interval
  <2> QED BY <1>2, <2>1, FS_Injection
<1>6. Cardinality(own) \in Nat
  BY <1>5, FS_CardinalityType
<1> SUFFICES ASSUME NEW r \in own PROVE r \in Purged(R, old)
  OBVIOUS
<1> HIDE DEF own, kept, f
<1>7. CASE Cardinality(kept) > MaxStore
  <2>1. kept # own
    BY <1>3, <1>6, <1>7, GateConstants
  <2>2. PICK q \in kept : q \notin own
    BY <1>1, <2>1
  <2>3. q \in R /\ r \in R /\ q.no < r.no /\ q.no \in Nat /\ r.no \in Nat
    <3>1. q \in R /\ r \in R /\ r.task = run /\ q.task # run
      BY <1>1, <2>2 DEF own
    <3>2. q.task \in Nat /\ q.task <= run /\ q.no \in Nat /\ r.no \in Nat
      BY <3>1, GateConstants DEF Records, Runs
    <3>3. q.task < r.task
      BY <3>1, <3>2
    <3> QED BY <3>1, <3>2, <3>3
  <2>4. Oldest(kept) \in kept /\ Oldest(kept).no <= q.no
    BY <1>1, <2>2, OldestIsOne
  <2>5. Oldest(kept).no \in Nat
    BY <1>1, <2>4 DEF Records
  <2>6. r # Oldest(kept)
    BY <2>3, <2>4, <2>5
  <2> QED BY <1>1, <1>4, <1>7, <2>6
<1>8. CASE ~(Cardinality(kept) > MaxStore)
  BY <1>1, <1>4, <1>8
<1> QED BY <1>7, <1>8

(* Steps that leave the store alone. *)
LEMMA SameStoreStep ==
  ASSUME TypeOK, RefusalInv, UNCHANGED <<run, records, issued, refused>>,
         \/ at' = "none" /\ answered' = 0
         \/ at # "none" /\ at' # "none" /\ answered' \in {answered, answered + 1}
  PROVE  RefusalInv'
<1>1. Numbered' /\ AskedAgain' /\ RefusalsOnRecord'
  BY DEF RefusalInv, Numbered, AskedAgain, RefusalsOnRecord
<1>2. answered \in Nat /\ issued \in Nat /\ \A r \in records : r.no \in Nat
  BY DEF TypeOK, Records
<1>3. InRun'
  BY <1>2 DEF RefusalInv, InRun
<1> QED BY <1>1, <1>3 DEF RefusalInv

(* A question is answered or expires. *)
LEMMA BecomesStep ==
  ASSUME TypeOK, RefusalInv, NEW r \in records, r.status = "pending",
         NEW s \in {"approved", "rejected", "expired"},
         Becomes(r, s), UNCHANGED <<run, at, issued, answered>>,
         refused' \subseteq refused \cup
           (IF s = "rejected" THEN {<<r.task, r.call>>} ELSE {})
  PROVE  RefusalInv'
<1> DEFINE n == [r EXCEPT !.status = s]
<1>1. /\ records' = (records \ {r}) \cup {n}
      /\ n.no = r.no /\ n.task = r.task /\ n.call = r.call /\ n.status = s
  BY DEF Becomes, TypeOK, Records
<1> HIDE DEF n
<1>2. \A p \in records' : \E q \in records :
         /\ p.no = q.no /\ p.task = q.task /\ p.call = q.call
         /\ p = q \/ (q = r /\ p = n)
  BY <1>1
<1>3. \A q \in records : \E p \in records' :
         p.no = q.no /\ p.task = q.task /\ p.call = q.call
  BY <1>1
<1>4. Numbered
  BY DEF RefusalInv
<1>5. Numbered'
  <2>1. \A p \in records' : p.no <= issued' /\ p.task <= run'
    BY <1>2, <1>4 DEF Numbered
  <2>2. ASSUME NEW p \in records', NEW q \in records', p.no = q.no PROVE p = q
    BY <1>1, <1>4, <2>2 DEF Numbered
  <2>3. \A p, q \in records' : p.task < q.task => p.no < q.no
    BY <1>2, <1>4 DEF Numbered
  <2> QED BY <2>1, <2>2, <2>3 DEF Numbered
<1>6. InRun'
  BY <1>2 DEF RefusalInv, InRun
<1>7. AskedAgain'
  <2> SUFFICES ASSUME NEW p \in records', NEW q \in records',
                      p.task = run, q.task = run, p.call = q.call, p.no < q.no,
                      \A o \in records' : o.task = run /\ o.call = p.call => p.no <= o.no
               PROVE  p.status = "expired"
    BY Zenon DEF AskedAgain
  <2>1. PICK a \in records : /\ p.no = a.no /\ p.task = a.task /\ p.call = a.call
                             /\ p = a \/ (a = r /\ p = n)
    BY <1>2
  <2>2. PICK b \in records : q.no = b.no /\ q.task = b.task /\ q.call = b.call
    BY <1>2
  <2>3. \A o \in records : o.task = run /\ o.call = a.call => a.no <= o.no
    BY <1>3, <2>1
  <2>4. a.status = "expired"
    BY <2>1, <2>2, <2>3 DEF RefusalInv, AskedAgain
  <2> QED BY <2>1, <2>4
<1>8. RefusalsOnRecord'
  <2> SUFFICES ASSUME NEW x \in refused'
               PROVE  /\ x[1] <= run
                      /\ x[1] = run => \E q \in records' :
                           q.task = run /\ q.call = x[2] /\ q.status = "rejected"
    BY DEF RefusalsOnRecord
  <2>1. CASE x \in refused
    <3>1. /\ x[1] <= run
          /\ x[1] = run => \E q \in records :
               q.task = run /\ q.call = x[2] /\ q.status = "rejected"
      BY <2>1 DEF RefusalInv, RefusalsOnRecord
    <3>2. \A q \in records : q.status = "rejected" => q \in records'
      BY <1>1
    <3> QED BY <3>1, <3>2
  <2>2. CASE x = <<r.task, r.call>> /\ s = "rejected"
    <3>1. n \in records' /\ r.task <= run
      BY <1>1, <1>4 DEF Numbered
    <3> QED BY <1>1, <2>2, <3>1
  <2> QED BY <2>1, <2>2
<1> QED BY <1>5, <1>6, <1>7, <1>8 DEF RefusalInv

(* A new question is put on record. *)
LEMMA NewQuestionStep ==
  ASSUME TypeOK, RefusalInv, at # "none", at' # "none", run \in Runs,
         NEW c \in Calls, StatusFor(run, c) \notin {"rejected", "approved"},
         ~(Asked(run, c) # {} /\ StatusFor(run, c) = "pending"),
         issued' = issued + 1, answered' = answered + 1, UNCHANGED <<run, refused>>,
         NEW n \in Records, n.no = issued + 1, n.task = run, n.call = c,
         records' \subseteq records \cup {n},
         \A r \in records \cup {n} : r.task = run => r \in records'
  PROVE  RefusalInv'
<1>1. /\ issued \in Nat /\ answered \in Nat /\ run \in Nat
      /\ \A r \in records \cup {n} : r \in Records /\ r.no \in Nat /\ r.task \in Nat
  BY GateConstants DEF TypeOK, Records, Runs
<1>2. Numbered /\ InRun
  BY DEF RefusalInv
<1>3. \A r \in records : r.no < n.no
  BY <1>1, <1>2 DEF Numbered
<1>4. Numbered'
  <2>1. \A r \in records' : r.no <= issued' /\ r.task <= run'
    BY <1>1, <1>2 DEF Numbered
  <2>2. ASSUME NEW r \in records', NEW q \in records', r.no = q.no PROVE r = q
    <3>1. CASE r \in records /\ q \in records
      BY <1>2, <2>2, <3>1 DEF Numbered
    <3>2. CASE r = n \/ q = n
      <4>1. r \in records \cup {n} /\ q \in records \cup {n} /\ n.no \in Nat
        BY <1>1
      <4> QED BY <1>1, <1>3, <2>2, <3>2, <4>1
    <3> QED BY <3>1, <3>2
  <2>3. ASSUME NEW r \in records', NEW q \in records', r.task < q.task PROVE r.no < q.no
    <3>1. CASE q \in records /\ r \in records
      BY <1>2, <2>3, <3>1 DEF Numbered
    <3>2. CASE q = n /\ r \in records
      BY <1>3, <3>2
    <3>3. CASE r = n
      <4>1. q \in records \cup {n}
        OBVIOUS
      <4>2. q.task <= run /\ q.task \in Nat
        BY <1>1, <1>2, <4>1 DEF Numbered
      <4> QED BY <1>1, <2>3, <3>3, <4>2
    <3> QED BY <3>1, <3>2, <3>3
  <2> QED BY <2>1, <2>2, <2>3 DEF Numbered
<1>5. InRun'
  <2>1. ASSUME NEW r \in records', r.task = run PROVE r.no + (answered + 1) > issued + 1
    <3>1. CASE r = n
      BY <1>1, <3>1
    <3>2. CASE r \in records
      <4>1. r.no + answered > issued /\ r.no \in Nat
        BY <1>1, <1>2, <2>1, <3>2 DEF InRun
      <4> QED BY <1>1, <4>1
    <3> QED BY <3>1, <3>2
  <2> QED BY <2>1 DEF InRun
<1>6. AskedAgain'
  <2> SUFFICES ASSUME NEW r \in records', NEW q \in records',
                      r.task = run, q.task = run, r.call = q.call, r.no < q.no,
                      \A p \in records' : p.task = run /\ p.call = r.call => r.no <= p.no
               PROVE  r.status = "expired"
    BY Zenon DEF AskedAgain
  <2>1. \A p \in records : p.task = run /\ p.call = r.call => r.no <= p.no
    OBVIOUS
  <2>2. r \in records
    <3>1. q \in records \cup {n} /\ r \in records \cup {n}
      OBVIOUS
    <3>2. q.no <= n.no /\ q.no \in Nat /\ n.no \in Nat
      BY <1>1, <1>3, <3>1
    <3> QED BY <3>1, <3>2
  <2>3. CASE q \in records
    BY <2>1, <2>2, <2>3 DEF RefusalInv, AskedAgain
  <2>4. CASE q = n
    <3>1. r \in Asked(run, c)
      BY <2>2, <2>4 DEF Asked
    <3> DEFINE o == Oldest(Asked(run, c))
    <3>2. Asked(run, c) \subseteq Records /\ Asked(run, c) # {}
      BY <3>1, <1>1 DEF Asked
    <3>3. o \in Asked(run, c) /\ o.no <= r.no
      BY <3>1, <3>2, OldestIsOne
    <3>4. StatusFor(run, c) = o.status
      BY <3>1 DEF StatusFor
    <3> HIDE DEF o
    <3>5. o \in records /\ o.task = run /\ o.call = c
      BY <3>3 DEF Asked
    <3>6. o.status = "expired"
      BY <3>2, <3>4, <3>5, <1>1 DEF Records
    <3>7. r.no <= o.no
      BY <2>1, <2>4, <3>5
    <3>8. r.no = o.no
      BY <1>1, <2>2, <3>3, <3>5, <3>7
    <3> QED BY <1>2, <2>2, <3>5, <3>6, <3>8 DEF Numbered
  <2> QED BY <2>3, <2>4
<1>7. RefusalsOnRecord'
  BY DEF RefusalInv, RefusalsOnRecord
<1> QED BY <1>4, <1>5, <1>6, <1>7 DEF RefusalInv

LEMMA AsksStep ==
  ASSUME MaxCalls <= MaxStore, TypeOK, RefusalInv, NEW c \in Calls, Asks(c)
  PROVE  RefusalInv'
<1>1. /\ at = "model" /\ at' = at /\ answered < MaxCalls /\ answered' = answered + 1
      /\ c \in Consequential /\ StatusFor(run, c) \notin {"rejected", "approved"}
      /\ Issue(c) /\ UNCHANGED <<run, refused>>
  BY DEF Asks, Passes, MayCall, Refuse, Answer, verdicts
<1>2. /\ run \in Runs /\ run \in Nat /\ issued \in Nat /\ answered \in Nat
      /\ records \subseteq Records
  BY <1>1, GateConstants DEF TypeOK, Runs
<1>3. CASE Asked(run, c) # {} /\ StatusFor(run, c) = "pending"
  <2>1. UNCHANGED <<records, issued>>
    BY <1>1, <1>3 DEF Issue, store
  <2> QED BY <1>1, <2>1, SameStoreStep
<1>4. CASE ~(Asked(run, c) # {} /\ StatusFor(run, c) = "pending")
  <2> DEFINE n == [no |-> issued + 1, task |-> run, call |-> c, status |-> "pending"]
             R == records \cup {n}
  <2>1. /\ issued' = issued + 1
        /\ \E old \in BOOLEAN : records' = Purged(R, old)
    BY <1>1, <1>4 DEF Issue
  <2>2. n \in Records /\ n.no = issued + 1 /\ n.task = run /\ n.call = c
    BY <1>1, <1>2 DEF Records
  <2> HIDE DEF n
  <2>3. PICK old \in BOOLEAN : records' = Purged(R, old)
    BY <2>1
  <2>4. /\ \A r \in records : r.no <= issued /\ r.task <= run /\ r.no \in Nat
                              /\ (r.task = run => r.no + answered > issued)
        /\ \A r, q \in records : r.no = q.no => r = q
        /\ \A r, q \in records : r.task < q.task => r.no < q.no
    BY <1>1, <1>2 DEF RefusalInv, Numbered, InRun, Records
  <2>5. \A r \in R : r.task = run => r \in Purged(R, old)
    <3> DEFINE lo == issued - answered
               m == answered + 1
    <3>1. lo \in Int /\ m \in Nat /\ lo + m = issued + 1
      BY <1>2
    <3>2. m <= MaxStore
      BY <1>1, <1>2, GateConstants
    <3>3. R \in SUBSET Records
      BY <1>2, <2>2
    <3>4. \A r \in R : r.task <= run
      BY <1>2, <2>2, <2>4
    <3>5. \A r \in R : r.task = run => lo < r.no /\ r.no <= lo + m
      <4>1. ASSUME NEW r \in records, r.task = run PROVE lo < r.no /\ r.no <= lo + m
        <5>1. r.no \in Nat /\ r.no + answered > issued /\ r.no <= issued
          BY <2>4, <4>1
        <5> QED BY <1>2, <5>1
      <4>2. lo < n.no /\ n.no <= lo + m
        BY <1>2, <2>2
      <4> QED BY <4>1, <4>2
    <3> HIDE DEF lo, m
    <3>6. \A r, q \in R : r.no = q.no => r = q
      <4>1. \A r \in records : r.no # n.no
        BY <1>2, <2>2, <2>4
      <4> QED BY <2>4, <4>1
    <3>7. \A r, q \in R : r.task < q.task => r.no < q.no
      <4>1. \A r \in records : r.no < n.no
        BY <1>2, <2>2, <2>4
      <4>2. \A q \in records : ~(n.task < q.task)
        <5> TAKE q \in records
        <5>1. q.task <= run /\ q.task \in Nat
          BY <1>2, <2>4, GateConstants DEF Records, Runs
        <5> QED BY <1>2, <2>2, <5>1
      <4>3. ~(n.task < n.task)
        BY <1>2, <2>2
      <4> QED BY <2>4, <4>1, <4>2, <4>3
    <3> QED BY <1>2, <3>1, <3>2, <3>3, <3>4, <3>5, <3>6, <3>7, PurgeSparesTheRun
  <2>6. records' \subseteq R
    BY <2>3, PurgeOnlyRemoves
  <2>7. \A r \in R : r.task = run => r \in records'
    BY <2>3, <2>5
  <2> QED BY <1>1, <1>2, <1>4, <2>1, <2>2, <2>6, <2>7, NewQuestionStep
<1> QED BY <1>3, <1>4

LEMMA RefusalStep ==
  ASSUME MaxCalls <= MaxStore
  PROVE  TypeOK /\ RefusalInv /\ [Next]_vars => RefusalInv'
<1> SUFFICES ASSUME TypeOK, RefusalInv, [Next]_vars PROVE RefusalInv'
  OBVIOUS
<1>1. CASE StartRun
  <2>1. /\ at = "none" /\ at' = "model" /\ run' = run + 1 /\ run \in Nat
        /\ UNCHANGED <<records, issued, answered, refused>>
    BY <1>1, GateConstants DEF StartRun, store, verdicts, TypeOK
  <2>2. /\ \A r \in records : r.task <= run /\ r.task \in Nat
        /\ \A x \in refused : x[1] <= run /\ x[1] \in Nat
    BY GateConstants DEF RefusalInv, Numbered, RefusalsOnRecord, TypeOK, Records, Runs
  <2>3. /\ \A r \in records : r.task <= run' /\ r.task # run'
        /\ \A x \in refused : x[1] <= run' /\ x[1] # run'
    BY <2>1, <2>2
  <2> QED BY <2>1, <2>3 DEF RefusalInv, Numbered, InRun, AskedAgain, RefusalsOnRecord
<1>2. CASE NextExecute \/ Retries
  <2>1. at # "none" /\ at' # "none" /\ UNCHANGED <<run, records, issued, refused, answered>>
    BY <1>2 DEF NextExecute, Retries, store, verdicts
  <2> QED BY <2>1, SameStoreStep
<1>3. CASE AskUser \/ Completes \/ Fails \/ Stops
  <2>1. at' = "none" /\ answered' = 0 /\ UNCHANGED <<run, records, issued, refused>>
    BY <1>3 DEF AskUser, Completes, Fails, Stops, EndRun, store, verdicts
  <2> QED BY <2>1, SameStoreStep
<1>4. ASSUME NEW c \in Calls,
             \/ GuardBlocks(c) \/ GateBlocks(c) \/ Invalid(c) \/ Denied(c)
             \/ Starts(c) \/ StartsNative(c)
      PROVE  RefusalInv'
  <2>1. /\ at # "none" /\ at' # "none" /\ UNCHANGED <<run, records, issued, refused>>
        /\ answered' \in {answered, answered + 1}
    BY <1>4 DEF GuardBlocks, GateBlocks, Invalid, Denied, Starts, StartsNative,
                Passes, MayCall, Refuse, Answer, store, verdicts
  <2> QED BY <2>1, SameStoreStep
<1>5. CASE TimesOut \/ \E r \in {"ok", "fail"} : Ends(r)
  <2>1. /\ at # "none" /\ at' # "none" /\ UNCHANGED <<run, records, issued, refused>>
        /\ answered' \in {answered, answered + 1}
    BY <1>5 DEF TimesOut, Ends, Result, Answer, store, verdicts
  <2> QED BY <2>1, SameStoreStep
<1>6. ASSUME NEW c \in Calls, Asks(c) PROVE RefusalInv'
  BY <1>6, AsksStep
<1>7. ASSUME NEW r \in records, NEW d \in {"approved", "rejected"}, Decide(r, d)
      PROVE  RefusalInv'
  <2>1. /\ r.status = "pending" /\ Becomes(r, d)
        /\ UNCHANGED <<run, at, issued, answered>>
        /\ refused' \subseteq refused \cup
             (IF d = "rejected" THEN {<<r.task, r.call>>} ELSE {})
    BY <1>7 DEF Decide
  <2> QED BY <2>1, BecomesStep
<1>8. ASSUME NEW r \in records, Expires(r) PROVE RefusalInv'
  <2>1. /\ r.status = "pending" /\ Becomes(r, "expired")
        /\ UNCHANGED <<run, at, issued, answered, refused>>
    BY <1>8 DEF Expires, verdicts
  <2> QED BY <2>1, BecomesStep
<1>9. CASE UNCHANGED vars
  <2>1. UNCHANGED <<run, at, records, issued, answered, refused>>
    BY <1>9 DEF vars, store, verdicts
  <2> QED BY <2>1 DEF RefusalInv, Numbered, InRun, AskedAgain, RefusalsOnRecord
<1> QED BY <1>1, <1>2, <1>3, <1>4, <1>5, <1>6, <1>7, <1>8, <1>9 DEF Next

(* What starts to execute was not refused in its run: the record the gate   *)
(* goes by is the oldest, and were another one rejected it would be expired. *)
LEMMA StartIsNotRefused ==
  ASSUME TypeOK, RefusalInv, [Next]_vars, at' = "tool", at # "tool"
  PROVE  <<run, flight'.call>> \notin refused
<1>1. PICK c \in Calls : Starts(c) \/ StartsNative(c)
  BY DEF Next, vars, StartRun, NextExecute, AskUser, Completes, Fails, Stops, EndRun,
         GuardBlocks, GateBlocks, Invalid, Denied, Asks, Passes, MayCall, Refuse,
         Retries, TimesOut, Ends, Result, Expires, Decide
<1>2. flight'.call = c
  BY <1>1 DEF Starts, StartsNative
<1>3. CASE c \notin Consequential
  BY <1>2, <1>3 DEF TypeOK
<1>4. CASE c \in Consequential
  <2>1. StatusFor(run, c) = "approved"
    BY <1>1, <1>4, GateConstants DEF Starts, StartsNative
  <2> DEFINE o == Oldest(Asked(run, c))
  <2>2. Asked(run, c) # {} /\ o.status = "approved"
    BY <2>1 DEF StatusFor
  <2>3. Asked(run, c) \subseteq Records
    BY DEF Asked, TypeOK
  <2>4. o \in Asked(run, c) /\ \A q \in Asked(run, c) : o.no <= q.no
    BY <2>2, <2>3, OldestIsOne
  <2> HIDE DEF o
  <2> SUFFICES ASSUME <<run, c>> \in refused PROVE FALSE
    BY <1>2
  <2>5. PICK q \in records : q.task = run /\ q.call = c /\ q.status = "rejected"
    BY DEF RefusalInv, RefusalsOnRecord
  <2>6. q \in Asked(run, c) /\ o \in records /\ o.task = run /\ o.call = c
    BY <2>4, <2>5 DEF Asked
  <2>7. o.no # q.no
    BY <2>2, <2>5, <2>6 DEF RefusalInv, Numbered
  <2>8. o.no < q.no
    BY <2>3, <2>4, <2>6, <2>7 DEF Records
  <2>9. \A p \in records : p.task = run /\ p.call = o.call => o.no <= p.no
    BY <2>4, <2>6 DEF Asked
  <2>10. o.status = "expired"
    BY <2>5, <2>6, <2>8, <2>9 DEF RefusalInv, AskedAgain
  <2> QED BY <2>2, <2>10
<1> QED BY <1>3, <1>4

(* A call the user has refused in a run is never executed in that run,      *)
(* whatever further tokens were issued for it, as long as the questions of  *)
(* one run fit into the store.                                              *)
THEOREM RefusedStaysRefusedHolds ==
  ASSUME MaxCalls <= MaxStore
  PROVE  Spec => RefusedStaysRefused
<1>1. TypeOK /\ RefusalInv /\ [Next]_vars => RefusalInv'
  BY RefusalStep
<1>2. TypeOK /\ RefusalInv /\ [Next]_vars
        => [at' = "tool" /\ at # "tool" => <<run, flight'.call>> \notin refused]_vars
  BY StartIsNotRefused
<1> QED BY <1>1, <1>2, TypeInit, TypeStep, RefusalInit, PTL DEF Spec, RefusedStaysRefused

=============================================================================
