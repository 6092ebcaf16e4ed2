------------------------- MODULE ConversationProofs -------------------------
(***************************************************************************)
(* Theorems about Conversation and the ladder of ModelCalls, for every     *)
(* value of their constants.                                               *)
(***************************************************************************)
EXTENDS Conversation, SequenceTheorems, WellFoundedInduction, TLAPS

-----------------------------------------------------------------------------
(* The ladder.  Every call but the first is paid for: by a counted error, a *)
(* recovery, or the one swap that ends with authFailed; a request that      *)
(* waits has paid for the call to come, one that is over owes nothing.      *)

Typed ==
  /\ call \in {"none", "asking", "waiting", "answered", "raised"}
  /\ mode \in Modes /\ provider \in Providers
  /\ emitted \in BOOLEAN /\ authFailed \in BOOLEAN
Counts ==
  /\ attempt \in Nat /\ recoveries \in Nat /\ made \in Nat
  /\ attempt < LimitBudget /\ recoveries <= MaxRecoveries
Idle == call \in {"none", "answered", "raised"} => attempt = 0 /\ recoveries = 0 /\ made = 0
Asked == call = "asking" => made <= attempt + recoveries + 2
AskedUnswapped == call = "asking" /\ authFailed = FALSE => made <= attempt + recoveries + 1
Due == call = "waiting" => made <= attempt + recoveries + 1
DueUnswapped == call = "waiting" /\ authFailed = FALSE => made <= attempt + recoveries
Paid == Counts /\ Idle /\ Asked /\ AskedUnswapped /\ Due /\ DueUnswapped

Said ==
  /\ texts \in Nat /\ texts <= 1 /\ (emitted = FALSE => texts = 0)
  /\ call = "waiting" => emitted = FALSE

LadderInv == Typed /\ Paid /\ Said /\ DeadKeyStaysDead

LEMMA Budgets ==
  /\ MaxRetries \in Nat /\ MaxRecoveries \in Nat /\ HasFallback \in BOOLEAN
  /\ LimitBudget \in Nat /\ MaxRetries <= LimitBudget /\ 0 < LimitBudget
<1>1. MaxRetries \in Nat /\ ExtraAttempts \in Nat /\ MaxRecoveries \in Nat /\ MaxRetries > 0
  BY CallConstants
<1> QED BY <1>1, CallConstants DEF LimitBudget

LEMMA LadderInit == CallInit => LadderInv
<1> SUFFICES ASSUME CallInit PROVE LadderInv
  OBVIOUS
<1>1. Typed
  BY DEF CallInit, Typed, Modes, Providers
<1>2. Paid
  BY Budgets DEF CallInit, Paid, Counts, Idle, Asked, AskedUnswapped, Due, DueUnswapped
<1>3. Said /\ DeadKeyStaysDead
  BY DEF CallInit, Said, DeadKeyStaysDead
<1> QED BY <1>1, <1>2, <1>3 DEF LadderInv

(* A request that is over leaves nothing behind but its keys. *)
LEMMA OverHolds ==
  ASSUME LadderInv, NEW how \in {"answered", "raised"}, Over(how), provider' = provider,
         \/ authFailed' = authFailed
         \/ authFailed' = TRUE /\ (HasFallback => provider = "fallback")
  PROVE  LadderInv'
<1>1. Typed'
  BY DEF LadderInv, Typed, Over, Modes
<1>2. Paid'
  BY Budgets DEF Over, Paid, Counts, Idle, Asked, AskedUnswapped, Due, DueUnswapped
<1>3. Said'
  BY DEF Over, Said
<1>4. DeadKeyStaysDead'
  BY DEF LadderInv, DeadKeyStaysDead
<1> QED BY <1>1, <1>2, <1>3, <1>4 DEF LadderInv

LEMMA RaiseHolds == ASSUME LadderInv, Raise PROVE LadderInv'
BY OverHolds DEF Raise, keys

(* A back-off pays for the call that follows it. *)
LEMMA BackOffHolds ==
  ASSUME LadderInv, Failing, BackOff, attempt < LimitBudget - 1,
         provider' \in Providers, DeadKeyStaysDead'
  PROVE  LadderInv'
<1>1. /\ call = "asking" /\ call' = "waiting" /\ attempt' = attempt + 1
      /\ recoveries' = recoveries /\ made' = made
      /\ authFailed' = authFailed /\ emitted' = emitted /\ texts' = texts /\ mode' = mode
      /\ emitted = FALSE
  BY DEF Failing, BackOff, LadderInv, Typed
<1>2. Typed'
  BY <1>1 DEF LadderInv, Typed
<1>3. Counts'
  BY <1>1, Budgets DEF LadderInv, Paid, Counts
<1>4. Idle' /\ Asked' /\ AskedUnswapped'
  BY <1>1 DEF Idle, Asked, AskedUnswapped
<1>5. Due' /\ DueUnswapped'
  BY <1>1 DEF LadderInv, Paid, Counts, Asked, AskedUnswapped, Due, DueUnswapped
<1>6. Said'
  BY <1>1 DEF LadderInv, Said
<1> QED BY <1>2, <1>3, <1>4, <1>5, <1>6 DEF LadderInv, Paid

(* Asking again at once is paid for by an error, a recovery or the swap. *)
LEMMA AgainHolds ==
  ASSUME LadderInv, Failing, Again, mode' = mode, texts' = texts,
         provider' \in Providers, DeadKeyStaysDead', Counts',
         \/ attempt' = attempt + 1 /\ recoveries' = recoveries /\ authFailed' = authFailed
         \/ attempt' = attempt /\ recoveries' = recoveries + 1 /\ authFailed' = authFailed
         \/ /\ attempt' = attempt /\ recoveries' = recoveries
            /\ authFailed = FALSE /\ authFailed' = TRUE
  PROVE  LadderInv'
<1>1. /\ call = "asking" /\ call' = "asking" /\ made' = made + 1
      /\ emitted = FALSE /\ emitted' = FALSE
  BY DEF Failing, Again, LadderInv, Typed
<1>2. Typed'
  BY <1>1 DEF LadderInv, Typed
<1>3. Asked' /\ AskedUnswapped'
  <2>1. /\ attempt \in Nat /\ recoveries \in Nat /\ made \in Nat
        /\ attempt' \in Nat /\ recoveries' \in Nat /\ made' \in Nat
    BY DEF LadderInv, Paid, Counts
  <2>2. /\ made <= attempt + recoveries + 2
        /\ authFailed = FALSE => made <= attempt + recoveries + 1
    BY <1>1 DEF LadderInv, Paid, Asked, AskedUnswapped
  <2>3. CASE attempt' = attempt + 1 /\ recoveries' = recoveries /\ authFailed' = authFailed
    BY <1>1, <2>1, <2>2, <2>3 DEF Asked, AskedUnswapped
  <2>4. CASE attempt' = attempt /\ recoveries' = recoveries + 1 /\ authFailed' = authFailed
    BY <1>1, <2>1, <2>2, <2>4 DEF Asked, AskedUnswapped
  <2>5. CASE /\ attempt' = attempt /\ recoveries' = recoveries
             /\ authFailed = FALSE /\ authFailed' = TRUE
    BY <1>1, <2>1, <2>2, <2>5 DEF Asked, AskedUnswapped
  <2> QED BY <2>3, <2>4, <2>5
<1>4. Idle' /\ Due' /\ DueUnswapped'
  BY <1>1 DEF Idle, Due, DueUnswapped
<1>5. Said'
  BY <1>1 DEF LadderInv, Said
<1> QED BY <1>2, <1>3, <1>4, <1>5 DEF LadderInv, Paid

LEMMA PatientHolds ==
  ASSUME LadderInv, Failing, NEW e \in BOOLEAN, Patient(e) PROVE LadderInv'
<1>1. CASE attempt >= LimitBudget - 1
  BY <1>1, RaiseHolds DEF Patient
<1>2. CASE ~(attempt >= LimitBudget - 1)
  <2>1. BackOff /\ Rotate(e) /\ attempt < LimitBudget - 1
    BY <1>2, Budgets DEF Patient, LadderInv, Paid, Counts
  <2>2. provider' \in Providers /\ DeadKeyStaysDead'
    BY <2>1 DEF BackOff, Rotate, CanFallBack, CanGoBack, LadderInv, Typed, Providers, DeadKeyStaysDead
  <2> QED BY <2>1, <2>2, BackOffHolds
<1> QED BY <1>1, <1>2

LEMMA LadderStep == LadderInv /\ [CallNext]_callVars => LadderInv'
<1> SUFFICES ASSUME LadderInv, [CallNext]_callVars PROVE LadderInv'
  OBVIOUS
<1> USE DEF keys
<1>1. ASSUME NEW m \in Modes, Ask(m) PROVE LadderInv'
  <2>1. /\ call \in {"none", "answered", "raised"} /\ call' = "asking" /\ made' = 1 /\ mode' = m
        /\ attempt' = attempt /\ recoveries' = recoveries /\ emitted' = emitted /\ texts' = texts
        /\ provider' = provider /\ authFailed' = authFailed
    BY <1>1 DEF Ask
  <2>2. Typed' /\ Said'
    BY <2>1 DEF LadderInv, Typed, Said
  <2>3. Paid'
    BY <2>1, Budgets
    DEF LadderInv, Paid, Counts, Idle, Asked, AskedUnswapped, Due, DueUnswapped
  <2>4. DeadKeyStaysDead'
    BY <2>1 DEF LadderInv, DeadKeyStaysDead
  <2> QED BY <2>2, <2>3, <2>4 DEF LadderInv
<1>2. CASE Answers
  BY <1>2, OverHolds DEF Answers
<1>3. CASE Streams
  <2>1. /\ call = "asking" /\ emitted = FALSE /\ emitted' = TRUE /\ texts' = texts + 1
        /\ call' = call /\ mode' = mode /\ attempt' = attempt /\ recoveries' = recoveries
        /\ made' = made /\ provider' = provider /\ authFailed' = authFailed
    BY <1>3 DEF Streams, LadderInv, Typed
  <2>2. Typed' /\ Said'
    BY <2>1 DEF LadderInv, Typed, Said
  <2>3. Paid'
    BY <2>1 DEF LadderInv, Paid, Counts, Idle, Asked, AskedUnswapped, Due, DueUnswapped
  <2>4. DeadKeyStaysDead'
    BY <2>1 DEF LadderInv, DeadKeyStaysDead
  <2> QED BY <2>2, <2>3, <2>4 DEF LadderInv
<1>4. CASE Breaks \/ Fatal \/ Cancelled
  BY <1>4, RaiseHolds DEF Breaks, Fatal, Cancelled
<1>5. CASE Garbled
  <2>1. CASE attempt >= MaxRetries - 1
    BY <1>5, <2>1, RaiseHolds DEF Garbled
  <2>2. CASE ~(attempt >= MaxRetries - 1)
    <3>1. /\ Failing /\ Again /\ attempt' = attempt + 1 /\ mode' = mode
          /\ recoveries' = recoveries /\ texts' = texts
          /\ provider' = provider /\ authFailed' = authFailed
      BY <1>5, <2>2 DEF Garbled
    <3>2. Counts'
      BY <2>2, <3>1, Budgets DEF Again, LadderInv, Paid, Counts
    <3>3. provider' \in Providers /\ DeadKeyStaysDead'
      BY <3>1 DEF LadderInv, Typed, DeadKeyStaysDead
    <3> QED BY <3>1, <3>2, <3>3, AgainHolds
  <2> QED BY <2>1, <2>2
<1>6. CASE Transient
  <2>1. CASE attempt >= MaxRetries - 1
    BY <1>6, <2>1, RaiseHolds DEF Transient
  <2>2. CASE ~(attempt >= MaxRetries - 1)
    <3>1. Failing /\ BackOff /\ provider' = provider
      BY <1>6, <2>2 DEF Transient
    <3>2. attempt < LimitBudget - 1
      BY <2>2, Budgets DEF LadderInv, Paid, Counts
    <3>3. provider' \in Providers /\ DeadKeyStaysDead'
      BY <3>1 DEF BackOff, LadderInv, Typed, DeadKeyStaysDead
    <3> QED BY <3>1, <3>2, <3>3, BackOffHolds
  <2> QED BY <2>1, <2>2
<1>7. CASE KeyRefused
  <2>1. CASE mode = "stream"
    BY <1>7, <2>1, PatientHolds DEF KeyRefused
  <2>2. CASE mode # "stream" /\ CanFallBack
    <3>1. /\ Failing /\ Again /\ provider' = "fallback" /\ provider = "primary" /\ HasFallback
          /\ authFailed' = TRUE /\ mode' = mode /\ attempt' = attempt
          /\ recoveries' = recoveries /\ texts' = texts
      BY <1>7, <2>2 DEF KeyRefused, CanFallBack
    <3>2. authFailed = FALSE
      BY <3>1 DEF LadderInv, Typed, DeadKeyStaysDead
    <3>3. Counts'
      BY <3>1 DEF Again, LadderInv, Paid, Counts
    <3>4. provider' \in Providers /\ DeadKeyStaysDead'
      BY <3>1 DEF Providers, DeadKeyStaysDead
    <3> QED BY <3>1, <3>2, <3>3, <3>4, AgainHolds
  <2>3. CASE mode # "stream" /\ ~CanFallBack
    <3>1. Over("raised") /\ provider' = provider /\ authFailed' = (authFailed \/ provider = "primary")
      BY <1>7, <2>3 DEF KeyRefused
    <3>2. \/ authFailed' = authFailed
          \/ authFailed' = TRUE /\ provider = "primary" /\ ~HasFallback
      BY <2>3, <3>1, Budgets DEF LadderInv, Typed, CanFallBack
    <3>3. authFailed' = authFailed \/ (authFailed' = TRUE /\ (HasFallback => provider = "fallback"))
      BY <3>2, Budgets
    <3> QED BY <3>1, <3>3, OverHolds
  <2> QED BY <2>1, <2>2, <2>3
<1>8. CASE Overflow
  <2>1. CASE ~CanReduce
    BY <1>8, <2>1, RaiseHolds DEF Overflow
  <2>2. CASE CanReduce
    <3>1. /\ Failing /\ Again /\ recoveries' = recoveries + 1 /\ recoveries < MaxRecoveries
          /\ mode' = mode /\ attempt' = attempt /\ texts' = texts
          /\ provider' = provider /\ authFailed' = authFailed
      BY <1>8, <2>2 DEF Overflow, CanReduce
    <3>2. Counts'
      BY <3>1, Budgets DEF Again, LadderInv, Paid, Counts
    <3>3. provider' \in Providers /\ DeadKeyStaysDead'
      BY <3>1 DEF LadderInv, Typed, DeadKeyStaysDead
    <3> QED BY <3>1, <3>2, <3>3, AgainHolds
  <2> QED BY <2>1, <2>2
<1>9. CASE Wakes
  <2>1. /\ call = "waiting" /\ call' = "asking" /\ made' = made + 1 /\ emitted' = FALSE
        /\ mode' = mode /\ attempt' = attempt /\ recoveries' = recoveries /\ texts' = texts
        /\ provider' = provider /\ authFailed' = authFailed
    BY <1>9 DEF Wakes, Again
  <2>2. Typed' /\ Said'
    BY <2>1 DEF LadderInv, Typed, Said
  <2>3. Paid'
    BY <2>1 DEF LadderInv, Paid, Counts, Idle, Asked, AskedUnswapped, Due, DueUnswapped
  <2>4. DeadKeyStaysDead'
    BY <2>1 DEF LadderInv, DeadKeyStaysDead
  <2> QED BY <2>2, <2>3, <2>4 DEF LadderInv
<1>10. ASSUME NEW e \in BOOLEAN, Limited(e) PROVE LadderInv'
  BY <1>10, PatientHolds DEF Limited
<1>11. CASE UNCHANGED callVars
  BY <1>11 DEF callVars, request, LadderInv, Typed, Paid, Counts, Idle, Asked, AskedUnswapped,
     Due, DueUnswapped, Said, DeadKeyStaysDead
<1> QED
  BY <1>1, <1>2, <1>3, <1>4, <1>5, <1>6, <1>7, <1>8, <1>9, <1>10, <1>11 DEF CallNext, Fails

(* Whatever the conversation does around it, the ladder takes its own steps. *)
LEMMA LadderInside == [Next]_vars => [CallNext]_callVars
BY DEF Next, vars, BeginTurn, Request, Trim, Reply, CallEnds, SendResults, Compact,
   TooLong, Retry, Summarise, Stream, Leave, Lose, CallNext, Modes

LEMMA LadderHolds == Spec => []LadderInv
<1>1. Init => LadderInv
  BY LadderInit DEF Init
<1>2. LadderInv /\ [Next]_vars => LadderInv'
  BY LadderStep, LadderInside
<1> QED BY <1>1, <1>2, PTL DEF Spec

(* However errors of all kinds mix, a request calls the providers at most   *)
(* as often as its budgets allow together, with one swap for a dead key.    *)
THEOREM CallsAreBounded == Spec => []BoundedCalls
<1>1. LadderInv => BoundedCalls
  BY Budgets DEF LadderInv, Typed, Paid, Counts, Idle, Asked, AskedUnswapped, Due, DueUnswapped,
     BoundedCalls
<1> QED BY <1>1, LadderHolds, PTL

(* Text of at most one call reaches the reader of a stream. *)
THEOREM TextOnce == Spec => []NoTextTwice
<1>1. LadderInv => NoTextTwice
  BY DEF LadderInv, Said, NoTextTwice
<1> QED BY <1>1, LadderHolds, PTL

(* The tool loop never goes back to a primary whose key it saw refused. *)
THEOREM DeadKey == Spec => []DeadKeyStaysDead
<1>1. LadderInv => DeadKeyStaysDead
  BY DEF LadderInv
<1> QED BY <1>1, LadderHolds, PTL

-----------------------------------------------------------------------------
(* The memory.  What its operators do to a sequence of messages.             *)

Messages == {m \in [kind : Kinds, calls : Replies] : m.calls # <<>> => m.kind = "ai"}

(* A reply whose calls have no answers yet ends the memory.                  *)
Open(s) == s # <<>> /\ s[Len(s)].calls # <<>> /\ Paired(SubSeq(s, 1, Len(s) - 1))

(* A memory begins with the system's message and the goal, a summary may     *)
(* stand between them; the system says nothing else.                         *)
Begins(s) ==
  /\ s[1] = Message("system", <<>>)
  /\ \/ 2 \in DOMAIN s /\ s[2].kind = "goal"
     \/ 3 \in DOMAIN s /\ s[2] = Message("summary", <<>>) /\ s[3].kind = "goal"
  /\ \A i \in DOMAIN s : i > 1 => s[i].kind # "system"

LEMMA MessageOf ==
  /\ \A k \in Kinds : /\ Message(k, <<>>) \in Messages
                      /\ Message(k, <<>>).kind = k /\ Message(k, <<>>).calls = <<>>
  /\ \A r \in Replies : /\ Message("ai", r) \in Messages
                        /\ Message("ai", r).kind = "ai" /\ Message("ai", r).calls = r
  /\ Tool \in Messages /\ Tool.kind = "tool" /\ Tool.calls = <<>>
BY ConversationConstants DEF Messages, Message, Kinds, Tool

LEMMA MessageTypes ==
  ASSUME NEW m \in Messages
  PROVE  /\ m.kind \in Kinds /\ m.calls \in Replies /\ m.calls \in Seq({"tool", "ask"})
         /\ Len(m.calls) \in Nat /\ (m.calls # <<>> => m.kind = "ai" /\ Len(m.calls) > 0)
         /\ m.kind \in {"system", "summary", "goal", "human", "note", "tool"} => m.calls = <<>>
<1>1. m.calls \in Seq({"tool", "ask"}) /\ m.kind \in Kinds /\ m.calls \in Replies
  BY ConversationConstants DEF Messages
<1>2. m.calls # <<>> => m.kind = "ai"
  BY DEF Messages
<1>3. Len(m.calls) \in Nat /\ (m.calls # <<>> => Len(m.calls) > 0)
  BY <1>1, EmptySeq
<1> QED BY <1>1, <1>2, <1>3

LEMMA MemoryOf ==
  ASSUME NEW s \in Seq(Messages)
  PROVE  /\ Len(s) \in Nat /\ DOMAIN s = 1 .. Len(s)
         /\ \A i \in DOMAIN s : s[i] \in Messages
         /\ (s # <<>>) = (Len(s) > 0)
BY ElementOfSeq, LenProperties, EmptySeq

LEMMA ToolsOf ==
  ASSUME NEW n \in Nat
  PROVE  /\ Tools(n) \in Seq(Messages) /\ Len(Tools(n)) = n
         /\ \A i \in 1 .. n : Tools(n)[i] = Tool
BY MessageOf DEF Tools

LEMMA OneMessage ==
  ASSUME NEW m \in Messages
  PROVE  <<m>> \in Seq(Messages) /\ Len(<<m>>) = 1 /\ <<m>>[1] = m
OBVIOUS

(* A message without calls stands for itself.                                *)
LEMMA SinglePaired ==
  ASSUME NEW m \in Messages, m.kind # "tool", m.calls = <<>>
  PROVE  Paired(<<m>>)
<1>1. <<m>> \in Seq(Messages) /\ Len(<<m>>) = 1 /\ <<m>>[1] = m /\ DOMAIN <<m>> = {1}
  OBVIOUS
<1>2. Len(m.calls) = 0
  BY EmptySeq
<1>3. Complete(<<m>>, 1)
  BY <1>1, <1>2 DEF Complete
<1> QED BY <1>1, <1>3 DEF Paired

LEMMA EmptyPaired == Paired(<<>>)
BY DEF Paired

(* A reply and its answers                                                   *)
LEMMA AnsweredPaired ==
  ASSUME NEW m \in Messages, m.kind = "ai"
  PROVE  Paired(<<m>> \o Tools(Len(m.calls)))
<1> DEFINE n == Len(m.calls)
           s == <<m>> \o Tools(n)
<1>1. n \in Nat
  BY MessageTypes
<1>2. /\ Tools(n) \in Seq(Messages) /\ Len(Tools(n)) = n
      /\ \A i \in 1 .. n : Tools(n)[i].kind = "tool"
  BY <1>1, ToolsOf, MessageOf
<1> HIDE DEF n
<1>3. s \in Seq(Messages) /\ Len(s) = 1 + n
  BY <1>1, <1>2, OneMessage, ConcatProperties
<1>4. \A i \in 1 .. 1 + n : s[i] = IF i <= 1 THEN <<m>>[i] ELSE Tools(n)[i - 1]
  BY <1>2, OneMessage, ConcatProperties
<1>5. s[1] = m
  BY <1>1, <1>4, OneMessage
<1>6. \A i \in 2 .. 1 + n : s[i].kind = "tool"
  <2> SUFFICES ASSUME NEW i \in 2 .. 1 + n PROVE s[i].kind = "tool"
    OBVIOUS
  <2>1. i - 1 \in 1 .. n /\ i \in 1 .. 1 + n /\ ~(i <= 1)
    BY <1>1
  <2>2. s[i] = Tools(n)[i - 1]
    BY <2>1, <1>4
  <2> QED BY <2>1, <2>2, <1>2
<1>7. DOMAIN s = 1 .. 1 + n
  BY <1>3
<1> HIDE DEF s
<1>8. Complete(s, 1)
  BY <1>1, <1>5, <1>6, <1>7 DEF Complete, n
<1>9. \A i \in DOMAIN s : s[i].kind # "tool" => i = 1
  BY <1>1, <1>6, <1>7
<1>10. Paired(s)
  BY <1>5, <1>8, <1>9 DEF Paired
<1> QED BY <1>10 DEF s, n

(* Two paired conversations one behind the other                             *)
LEMMA ConcatPaired ==
  ASSUME NEW a \in Seq(Messages), NEW b \in Seq(Messages), Paired(a), Paired(b)
  PROVE  Paired(a \o b)
<1> DEFINE s == a \o b
<1>1. /\ s \in Seq(Messages) /\ Len(s) = Len(a) + Len(b)
      /\ Len(a) \in Nat /\ Len(b) \in Nat
      /\ DOMAIN a = 1 .. Len(a) /\ DOMAIN b = 1 .. Len(b) /\ DOMAIN s = 1 .. Len(a) + Len(b)
  BY ConcatProperties, MemoryOf
<1>2. /\ \A i \in 1 .. Len(a) : s[i] = a[i]
      /\ \A i \in 1 .. Len(b) : s[Len(a) + i] = b[i]
  <2>1. \A i \in 1 .. Len(a) + Len(b) : s[i] = IF i <= Len(a) THEN a[i] ELSE b[i - Len(a)]
    BY ConcatProperties
  <2>2. ASSUME NEW i \in 1 .. Len(a) PROVE s[i] = a[i]
    BY <1>1, <2>1
  <2>3. ASSUME NEW i \in 1 .. Len(b) PROVE s[Len(a) + i] = b[i]
    <3>1. Len(a) + i \in 1 .. Len(a) + Len(b) /\ ~(Len(a) + i <= Len(a)) /\ Len(a) + i - Len(a) = i
      BY <1>1
    <3> QED BY <2>1, <3>1
  <2> QED BY <2>2, <2>3
<1> HIDE DEF s
<1>3. \A i \in 1 .. Len(a) + Len(b) : i \in 1 .. Len(a) \/ i - Len(a) \in 1 .. Len(b)
  BY <1>1
<1>4. ASSUME NEW i \in 1 .. Len(a), s[i].kind # "tool" PROVE Complete(s, i)
  <2> DEFINE n == i + Len(a[i].calls) + 1
  <2>1. a[i] \in Messages /\ Len(a[i].calls) \in Nat /\ s[i] = a[i]
    BY <1>1, <1>2, MemoryOf, MessageTypes
  <2>2. Complete(a, i)
    BY <1>1, <1>4, <2>1 DEF Paired
  <2>3. /\ \A k \in i + 1 .. n - 1 : k \in 1 .. Len(a) /\ a[k].kind = "tool"
        /\ n \in 1 .. Len(a) => a[n].kind # "tool"
    BY <1>1, <2>2 DEF Complete
  <2>4. n \in Nat /\ n > i
    BY <1>1, <2>1
  <2> HIDE DEF n
  <2>5. n <= Len(a) + 1
    <3> SUFFICES ASSUME n > Len(a) + 1 PROVE FALSE
      BY <1>1, <2>4
    <3>1. n - 1 \in i + 1 .. n - 1 /\ n - 1 \notin 1 .. Len(a)
      BY <1>1, <2>4
    <3> QED BY <3>1, <2>3
  <2>6. ASSUME NEW k \in i + 1 .. n - 1 PROVE k \in 1 .. Len(a) + Len(b) /\ s[k].kind = "tool"
    BY <1>1, <1>2, <2>3
  <2>7. ASSUME n \in 1 .. Len(a) + Len(b) PROVE s[n].kind # "tool"
    <3>1. CASE n <= Len(a)
      BY <1>1, <1>2, <2>3, <2>4, <2>7, <3>1
    <3>2. CASE n = Len(a) + 1
      <4>1. 1 \in 1 .. Len(b)
        BY <1>1, <2>7, <3>2
      <4>2. s[n] = b[1]
        BY <4>1, <3>2, <1>2
      <4>3. b # <<>>
        BY <4>1, MemoryOf
      <4> QED BY <4>2, <4>3 DEF Paired
    <3> QED BY <3>1, <3>2, <2>4, <2>5, <1>1
  <2> QED BY <1>1, <2>1, <2>6, <2>7 DEF Complete, n
<1>5. ASSUME NEW j \in 1 .. Len(b), s[Len(a) + j].kind # "tool" PROVE Complete(s, Len(a) + j)
  <2> DEFINE n == j + Len(b[j].calls) + 1
  <2>1. b[j] \in Messages /\ Len(b[j].calls) \in Nat /\ s[Len(a) + j] = b[j]
    BY <1>1, <1>2, MemoryOf, MessageTypes
  <2>2. Complete(b, j)
    BY <1>1, <1>5, <2>1 DEF Paired
  <2>3. /\ \A k \in j + 1 .. n - 1 : k \in 1 .. Len(b) /\ b[k].kind = "tool"
        /\ n \in 1 .. Len(b) => b[n].kind # "tool"
    BY <1>1, <2>2 DEF Complete
  <2>4. n \in Nat /\ n > j
    BY <1>1, <2>1
  <2> HIDE DEF n
  <2>5. PICK i \in Nat, next \in Nat : i = Len(a) + j /\ next = Len(a) + n
    BY <1>1, <2>4
  <2>6. i + Len(s[i].calls) + 1 = next
    <3>1. PICK l \in Nat : l = Len(b[j].calls)
      BY <2>1
    <3>2. n = j + l + 1 /\ Len(s[i].calls) = l
      BY <2>1, <2>5, <3>1 DEF n
    <3> QED BY <1>1, <2>5, <3>2
  <2>7. ASSUME NEW k \in i + 1 .. next - 1 PROVE k \in DOMAIN s /\ s[k].kind = "tool"
    <3>1. k - Len(a) \in j + 1 .. n - 1 /\ k = Len(a) + (k - Len(a))
      BY <1>1, <2>4, <2>5
    <3>2. k - Len(a) \in 1 .. Len(b) /\ b[k - Len(a)].kind = "tool"
      BY <3>1, <2>3
    <3>3. s[Len(a) + (k - Len(a))] = b[k - Len(a)]
      BY <3>2, <1>2
    <3> QED BY <1>1, <3>1, <3>2, <3>3
  <2>8. ASSUME next \in DOMAIN s PROVE s[next].kind # "tool"
    BY <1>1, <1>2, <2>3, <2>4, <2>5, <2>8
  <2>9. Complete(s, i)
    BY <2>6, <2>7, <2>8, Zenon DEF Complete
  <2> QED BY <2>5, <2>9
<1>6. ASSUME s # <<>> PROVE s[1].kind # "tool"
  <2>1. CASE a = <<>>
    <3>1. Len(a) = 0 /\ 1 \in 1 .. Len(b)
      BY <1>1, <1>6, <2>1, MemoryOf
    <3>2. s[1] = b[1] /\ b # <<>>
      BY <3>1, <1>2, MemoryOf
    <3> QED BY <3>2 DEF Paired
  <2>2. CASE a # <<>>
    <3>1. 1 \in 1 .. Len(a)
      BY <1>1, <2>2, MemoryOf
    <3> QED BY <2>2, <3>1, <1>2 DEF Paired
  <2> QED BY <2>1, <2>2
<1>7. ASSUME NEW i \in DOMAIN s, s[i].kind # "tool" PROVE Complete(s, i)
  <2>1. CASE i \in 1 .. Len(a)
    BY <2>1, <1>4, <1>7
  <2>2. CASE i - Len(a) \in 1 .. Len(b)
    <3>1. i = Len(a) + (i - Len(a))
      BY <1>1
    <3> QED BY <3>1, <2>2, <1>5, <1>7
  <2> QED BY <2>1, <2>2, <1>1, <1>3
<1>8. Paired(s)
  BY <1>6, <1>7 DEF Paired
<1> QED BY <1>8 DEF s

(* The end of a paired conversation, from any message but a result on        *)
LEMMA SuffixPaired ==
  ASSUME NEW s \in Seq(Messages), Paired(s), NEW c \in 1 .. Len(s), s[c].kind # "tool"
  PROVE  /\ Paired(SubSeq(s, c, Len(s))) /\ SubSeq(s, c, Len(s)) \in Seq(Messages)
         /\ Len(SubSeq(s, c, Len(s))) = Len(s) - c + 1
         /\ \A i \in 1 .. Len(s) - c + 1 : SubSeq(s, c, Len(s))[i] = s[c + i - 1]
<1> DEFINE b == SubSeq(s, c, Len(s))
<1>1. /\ Len(s) \in Nat /\ DOMAIN s = 1 .. Len(s) /\ c \in 1 .. Len(s)
      /\ \A i \in c .. Len(s) : s[i] \in Messages
  BY MemoryOf
<1>0. c \in Nat /\ Len(s) \in Nat /\ c > 0 /\ c <= Len(s)
  BY <1>1
<1>2. /\ b \in Seq(Messages) /\ Len(b) = Len(s) - c + 1
      /\ \A i \in 1 .. Len(s) - c + 1 : b[i] = s[c + i - 1]
  BY <1>1, SubSeqProperties
<1>3. DOMAIN b = 1 .. Len(s) - c + 1
  BY <1>2
<1> HIDE DEF b
<1>4. ASSUME NEW j \in 1 .. Len(s) - c + 1, b[j].kind # "tool" PROVE Complete(b, j)
  <2>1. j \in Nat /\ j > 0 /\ j <= Len(s) - c + 1
    BY <1>0
  <2>2. PICK i \in Nat : i = c + j - 1
    BY <1>0, <2>1
  <2>3. i \in 1 .. Len(s) /\ b[j] = s[i] /\ s[i] \in Messages
    <3>1. i \in 1 .. Len(s) /\ j \in 1 .. Len(s) - c + 1
      BY <1>0, <2>1, <2>2
    <3>2. b[j] = s[i]
      BY <1>2, <2>2, <3>1
    <3> QED BY <1>1, <3>1, <3>2
  <2>4. PICK l \in Nat : l = Len(s[i].calls) /\ l = Len(b[j].calls)
    BY <2>3, MessageTypes
  <2>5. PICK n \in Nat, next \in Nat : n = i + l + 1 /\ next = j + l + 1
    BY <2>1
  <2>6. Complete(s, i)
    BY <1>1, <1>4, <2>3 DEF Paired
  <2>7. /\ \A k \in i + 1 .. n - 1 : k \in 1 .. Len(s) /\ s[k].kind = "tool"
        /\ n \in 1 .. Len(s) => s[n].kind # "tool"
    BY <1>1, <2>4, <2>5, <2>6 DEF Complete
  <2>8. ASSUME NEW k \in j + 1 .. next - 1 PROVE k \in DOMAIN b /\ b[k].kind = "tool"
    <3>1. c + k - 1 \in i + 1 .. n - 1
      BY <1>0, <2>1, <2>2, <2>5
    <3>2. c + k - 1 \in 1 .. Len(s)
      BY <2>7, <3>1
    <3>3. s[c + k - 1].kind = "tool"
      BY <2>7, <3>1
    <3>4. k \in Int /\ k > 0 /\ k <= Len(s) - c + 1
      BY <1>0, <2>1, <2>5, <3>2
    <3> QED BY <1>0, <1>2, <1>3, <3>3, <3>4
  <2>9. ASSUME next \in DOMAIN b PROVE b[next].kind # "tool"
    <3>1. next \in 1 .. Len(s) - c + 1
      BY <1>3, <2>9
    <3>2. c + next - 1 = n /\ n \in 1 .. Len(s)
      BY <1>0, <2>1, <2>2, <2>5, <3>1
    <3>3. b[next] = s[n]
      BY <1>2, <3>1, <3>2
    <3> QED BY <2>7, <3>2, <3>3
  <2>10. j + Len(b[j].calls) + 1 = next
    BY <2>4, <2>5
  <2> QED BY <2>8, <2>9, <2>10, Zenon DEF Complete
<1>5. b[1].kind # "tool"
  <2>1. 1 \in 1 .. Len(s) - c + 1 /\ c + 1 - 1 = c
    BY <1>1
  <2> QED BY <2>1, <1>2
<1>6. Paired(b)
  BY <1>3, <1>4, <1>5 DEF Paired
<1> QED BY <1>2, <1>6 DEF b

(* A paired conversation does not end with calls.                            *)
LEMMA PairedEnd ==
  ASSUME NEW s \in Seq(Messages), Paired(s), s # <<>>
  PROVE  s[Len(s)].calls = <<>>
<1> SUFFICES ASSUME s[Len(s)].calls # <<>> PROVE FALSE
  OBVIOUS
<1>1. Len(s) \in Nat /\ Len(s) > 0 /\ DOMAIN s = 1 .. Len(s) /\ s[Len(s)] \in Messages
  BY MemoryOf
<1>2. /\ s[Len(s)].kind = "ai"
      /\ Len(s[Len(s)].calls) \in Nat /\ Len(s[Len(s)].calls) > 0
  BY <1>1, MessageTypes
<1>3. Complete(s, Len(s))
  BY <1>1, <1>2 DEF Paired
<1>4. Len(s) + 1 \in Len(s) + 1 .. Len(s) + Len(s[Len(s)].calls) + 1 - 1
  BY <1>1, <1>2
<1>5. Len(s) + 1 \in DOMAIN s
  BY <1>3, <1>4 DEF Complete
<1> QED BY <1>1, <1>5

LEMMA LastOf ==
  ASSUME NEW s \in Seq(Messages), s # <<>>
  PROVE  /\ s[Len(s)] \in Messages /\ SubSeq(s, 1, Len(s) - 1) \in Seq(Messages)
         /\ Len(SubSeq(s, 1, Len(s) - 1)) = Len(s) - 1
         /\ \A i \in 1 .. Len(s) - 1 : SubSeq(s, 1, Len(s) - 1)[i] = s[i]
         /\ s = SubSeq(s, 1, Len(s) - 1) \o <<s[Len(s)]>>
<1>1. Len(s) \in Nat /\ Len(s) > 0 /\ \A i \in 1 .. Len(s) : s[i] \in Messages
  BY MemoryOf
<1> DEFINE n == Len(s) - 1
<1>2. n \in Nat /\ Len(s) = n + 1
  BY <1>1
<1> HIDE DEF n
<1>3. /\ SubSeq(s, 1, n) \in Seq(Messages) /\ Len(SubSeq(s, 1, n)) = n
      /\ \A i \in 1 .. n : SubSeq(s, 1, n)[i] = s[i]
  <2>1. \A i \in 1 .. n : s[i] \in Messages
    BY <1>1, <1>2
  <2>2. /\ SubSeq(s, 1, n) \in Seq(Messages)
        /\ Len(SubSeq(s, 1, n)) = (IF 1 <= n THEN n - 1 + 1 ELSE 0)
        /\ \A i \in 1 .. n - 1 + 1 : SubSeq(s, 1, n)[i] = s[1 + i - 1]
    BY <1>2, <2>1, SubSeqProperties
  <2>3. \A i \in 1 .. n : i \in 1 .. n - 1 + 1 /\ 1 + i - 1 = i
    BY <1>2
  <2>4. \A i \in 1 .. n : SubSeq(s, 1, n)[i] = s[i]
    BY <2>2, <2>3
  <2> QED BY <1>2, <2>2, <2>4
<1>4. s = SubSeq(s, 1, n) \o <<s[Len(s)]>>
  <2>1. Len(s) \in 1 .. Len(s) /\ 1 \in 1 .. Len(s) /\ Len(s) - 1 = n
    BY <1>1, <1>2
  <2>2. SubSeq(s, 1, Len(s)) = SubSeq(s, 1, n) \o <<s[Len(s)]>>
    BY <2>1, SubSeqRecursiveSecond
  <2>3. SubSeq(s, 1, Len(s)) = s
    BY SubSeqFull
  <2> QED BY <2>2, <2>3
<1>5. s[Len(s)] \in Messages
  BY <1>1
<1> QED BY <1>3, <1>4, <1>5, Zenon DEF n

(* roll_back leaves a memory alone, answers a question, or forgets the reply *)
(* whose calls were interrupted.                                             *)
LEMMA RolledBackIs ==
  ASSUME NEW s \in Seq(Messages)
  PROVE  \/ RolledBack(s) = s /\ (s = <<>> \/ s[Len(s)].calls = <<>>)
         \/ /\ s # <<>> /\ s[Len(s)].calls # <<>> /\ Head(s[Len(s)].calls) = "ask"
            /\ RolledBack(s) = s \o <<Tool>>
         \/ /\ s # <<>> /\ s[Len(s)].calls # <<>>
            /\ RolledBack(s) = SubSeq(s, 1, Len(s) - 1)
<1>1. CASE s = <<>> \/ s[Len(s)].calls = <<>>
  BY <1>1 DEF RolledBack, Last
<1>2. CASE ~(s = <<>> \/ s[Len(s)].calls = <<>>) /\ Head(s[Len(s)].calls) = "ask"
  <2>1. RolledBack(s) = Append(s, Tool)
    BY <1>2 DEF RolledBack, Last
  <2>2. Append(s, Tool) = s \o <<Tool>>
    BY MessageOf, AppendIsConcat
  <2> QED BY <1>2, <2>1, <2>2
<1>3. CASE ~(s = <<>> \/ s[Len(s)].calls = <<>>) /\ Head(s[Len(s)].calls) # "ask"
  <2>1. RolledBack(s) = Front(s)
    BY <1>3 DEF RolledBack, Last
  <2> QED BY <1>3, <2>1 DEF Front
<1> QED BY <1>1, <1>2, <1>3

(* A question comes alone: the calls behind it would stay unanswered.        *)
QuestionsComeAlone == \A r \in Replies : r # <<>> /\ Head(r) = "ask" => Len(r) = 1

LEMMA RolledBackPaired ==
  ASSUME NEW s \in Seq(Messages), Paired(s) \/ Open(s), QuestionsComeAlone
  PROVE  Paired(RolledBack(s))
<1>1. CASE s = <<>> \/ s[Len(s)].calls = <<>>
  <2>1. RolledBack(s) = s
    BY <1>1 DEF RolledBack, Last
  <2>2. Paired(s)
    BY <1>1 DEF Open
  <2> QED BY <2>1, <2>2
<1>2. CASE s # <<>> /\ s[Len(s)].calls # <<>>
  <2> DEFINE m == s[Len(s)]
             p == SubSeq(s, 1, Len(s) - 1)
  <2>1. Paired(p)
    BY <1>2, PairedEnd DEF Open
  <2>2. p \in Seq(Messages) /\ m \in Messages /\ s = p \o <<m>>
    BY <1>2, LastOf
  <2>3. m.calls # <<>> /\ m.kind = "ai" /\ m.calls \in Replies
    BY <1>2, <2>2, MessageTypes
  <2>4. CASE RolledBack(s) = p
    BY <2>1, <2>4
  <2>5. CASE Head(m.calls) = "ask" /\ RolledBack(s) = s \o <<Tool>>
    <3> HIDE DEF m, p
    <3>1. Len(m.calls) = 1
      BY <2>3, <2>5 DEF QuestionsComeAlone
    <3>2. Paired(<<m>> \o Tools(1))
      BY <2>2, <2>3, <3>1, AnsweredPaired
    <3>3. Tools(1) = <<Tool>>
      <4>1. Tools(1) \in Seq(Messages) /\ Len(Tools(1)) = 1 /\ Tools(1)[1] = Tool
        <5>1. 1 \in Nat /\ 1 \in 1 .. 1
          OBVIOUS
        <5> QED BY <5>1, ToolsOf
      <4>2. <<Tool>> \in Seq(Messages) /\ Len(<<Tool>>) = 1 /\ <<Tool>>[1] = Tool
        BY MessageOf, OneMessage
      <4> QED BY <4>1, <4>2, SeqEqual
    <3>4. <<m>> \in Seq(Messages) /\ <<Tool>> \in Seq(Messages)
      BY <2>2, MessageOf, OneMessage
    <3>5. (p \o <<m>>) \o <<Tool>> = p \o (<<m>> \o <<Tool>>)
      BY <2>2, <3>4, ConcatAssociative
    <3>6. <<m>> \o <<Tool>> \in Seq(Messages)
      BY <3>4, ConcatProperties
    <3>7. Paired(p \o (<<m>> \o <<Tool>>))
      BY <2>1, <2>2, <3>2, <3>3, <3>6, ConcatPaired
    <3> QED BY <2>2, <2>5, <3>5, <3>7
  <2> QED BY <1>2, <2>4, <2>5, RolledBackIs
<1> QED BY <1>1, <1>2

LEMMA ConcatBegins ==
  ASSUME NEW s \in Seq(Messages), s # <<>>, Begins(s), NEW t \in Seq(Messages),
         \A i \in DOMAIN t : t[i].kind # "system"
  PROVE  Begins(s \o t) /\ s \o t \in Seq(Messages) /\ s \o t # <<>>
<1> DEFINE u == s \o t
<1>1. /\ u \in Seq(Messages) /\ Len(u) = Len(s) + Len(t)
      /\ Len(s) \in Nat /\ Len(t) \in Nat /\ Len(s) > 0
      /\ DOMAIN s = 1 .. Len(s) /\ DOMAIN t = 1 .. Len(t) /\ DOMAIN u = 1 .. Len(s) + Len(t)
  BY ConcatProperties, MemoryOf
<1>2. \A i \in 1 .. Len(s) + Len(t) : u[i] = IF i <= Len(s) THEN s[i] ELSE t[i - Len(s)]
  BY ConcatProperties
<1> HIDE DEF u
<1>3. \A i \in DOMAIN s : i \in DOMAIN u /\ u[i] = s[i]
  BY <1>1, <1>2
<1>4. ASSUME NEW i \in DOMAIN u, i > 1 PROVE u[i].kind # "system"
  <2>1. CASE i <= Len(s)
    BY <1>1, <1>3, <1>4, <2>1 DEF Begins
  <2>2. CASE ~(i <= Len(s))
    <3>1. i - Len(s) \in DOMAIN t /\ u[i] = t[i - Len(s)]
      BY <1>1, <1>2, <2>2
    <3> QED BY <3>1
  <2> QED BY <2>1, <2>2
<1>5. u[1] = Message("system", <<>>)
  BY <1>1, <1>3 DEF Begins
<1>6. \/ 2 \in DOMAIN u /\ u[2].kind = "goal"
      \/ 3 \in DOMAIN u /\ u[2] = Message("summary", <<>>) /\ u[3].kind = "goal"
  <2>1. CASE 2 \in DOMAIN s /\ s[2].kind = "goal"
    BY <2>1, <1>3
  <2>2. CASE 3 \in DOMAIN s /\ s[2] = Message("summary", <<>>) /\ s[3].kind = "goal"
    <3>1. 2 \in DOMAIN s
      BY <2>2, <1>1
    <3> QED BY <2>2, <3>1, <1>3
  <2> QED BY <2>1, <2>2 DEF Begins
<1>7. Begins(u)
  BY <1>4, <1>5, <1>6 DEF Begins
<1>8. u # <<>>
  BY <1>1, MemoryOf
<1> QED BY <1>1, <1>7, <1>8 DEF u

LEMMA RolledBackBegins ==
  ASSUME NEW s \in Seq(Messages), s # <<>> => Begins(s)
  PROVE  /\ RolledBack(s) \in Seq(Messages)
         /\ RolledBack(s) # <<>> => Begins(RolledBack(s))
<1>1. CASE RolledBack(s) = s
  BY <1>1
<1>2. CASE s # <<>> /\ RolledBack(s) = s \o <<Tool>>
  <2>1. <<Tool>> \in Seq(Messages) /\ \A i \in DOMAIN <<Tool>> : <<Tool>>[i].kind # "system"
    BY MessageOf
  <2> QED BY <1>2, <2>1, ConcatBegins
<1>3. CASE s # <<>> /\ s[Len(s)].calls # <<>> /\ RolledBack(s) = SubSeq(s, 1, Len(s) - 1)
  <2> DEFINE p == SubSeq(s, 1, Len(s) - 1)
  <2>1. /\ s[Len(s)] \in Messages /\ p \in Seq(Messages) /\ Len(p) = Len(s) - 1
        /\ \A i \in 1 .. Len(s) - 1 : p[i] = s[i]
    BY <1>3, LastOf
  <2>2. s[Len(s)].kind = "ai"
    BY <1>3, <2>1, MessageTypes
  <2>3. Len(s) \in Nat /\ DOMAIN s = 1 .. Len(s) /\ DOMAIN p = 1 .. Len(s) - 1 /\ Len(s) > 0
    BY <1>3, <2>1, MemoryOf
  <2> HIDE DEF p
  <2>4. Len(s) # 1
    BY <1>3, <2>2, MessageOf DEF Begins, Kinds
  <2>5. \/ 2 \in DOMAIN p /\ p[2].kind = "goal"
        \/ 3 \in DOMAIN p /\ p[2] = Message("summary", <<>>) /\ p[3].kind = "goal"
    <3>1. CASE 2 \in DOMAIN s /\ s[2].kind = "goal"
      <4>1. Len(s) # 2
        BY <2>2, <3>1
      <4> QED BY <2>1, <2>3, <3>1, <4>1
    <3>2. CASE 3 \in DOMAIN s /\ s[2] = Message("summary", <<>>) /\ s[3].kind = "goal"
      <4>1. Len(s) # 3
        BY <2>2, <3>2
      <4> QED BY <2>1, <2>3, <3>2, <4>1
    <3> QED BY <1>3, <3>1, <3>2 DEF Begins
  <2>6. p[1] = Message("system", <<>>)
    BY <1>3, <2>1, <2>3, <2>4 DEF Begins
  <2>7. \A i \in DOMAIN p : i > 1 => p[i].kind # "system"
    BY <1>3, <2>1, <2>3 DEF Begins
  <2>8. Begins(p)
    BY <2>5, <2>6, <2>7 DEF Begins
  <2> QED BY <1>3, <2>1, <2>8 DEF p
<1> QED BY <1>1, <1>2, <1>3, RolledBackIs

(* set_context_summary leaves a memory alone or puts the summary behind the  *)
(* message of the system.                                                    *)
LEMMA SummarisedIs ==
  ASSUME NEW s \in Seq(Messages), s # <<>>
  PROVE  \/ Summarised(s) = s
         \/ /\ \A i \in DOMAIN s : i <= 4 => s[i] # Message("summary", <<>>)
            /\ Summarised(s) = SubSeq(s, 1, 1) \o <<Message("summary", <<>>)>> \o SubSeq(s, 2, Len(s))
<1> DEFINE m == Message("summary", <<>>)
           n == Min({4, Len(s)})
           t == SubSeq(s, 1, n)
<1>1. CASE m \in Range(t)
  BY <1>1 DEF Summarised
<1>2. CASE m \notin Range(t)
  <2>1. Summarised(s) = SubSeq(s, 1, 2 - 1) \o <<m>> \o SubSeq(s, 2, Len(s))
    BY <1>2 DEF Summarised, InsertAt
  <2>2. Len(s) \in Nat /\ Len(s) > 0 /\ DOMAIN s = 1 .. Len(s) /\ \A i \in DOMAIN s : s[i] \in Messages
    BY MemoryOf
  <2>3. n \in Nat /\ n > 0 /\ n <= Len(s) /\ \A i \in DOMAIN s : i <= 4 => i <= n
    <3>1. ASSUME 4 <= Len(s) PROVE n = 4
      BY <2>2, <3>1 DEF Min
    <3>2. ASSUME ~(4 <= Len(s)) PROVE n = Len(s)
      BY <2>2, <3>2 DEF Min
    <3> HIDE DEF n
    <3> QED BY <2>2, <3>1, <3>2
  <2> HIDE DEF n
  <2>4. \A i \in 1 .. n : i \in DOMAIN t /\ t[i] = s[i]
    <3>1. \A i \in 1 .. n : s[i] \in Messages
      BY <2>2, <2>3
    <3>2. /\ t \in Seq(Messages) /\ Len(t) = (IF 1 <= n THEN n - 1 + 1 ELSE 0)
          /\ \A i \in 1 .. n - 1 + 1 : t[i] = s[1 + i - 1]
      BY <2>3, <3>1, SubSeqProperties
    <3>3. \A i \in 1 .. n : i \in 1 .. n - 1 + 1 /\ 1 + i - 1 = i
      BY <2>3
    <3>4. Len(t) = n /\ DOMAIN t = 1 .. n
      BY <2>3, <3>2, MemoryOf
    <3> QED BY <3>2, <3>3, <3>4
  <2> HIDE DEF t
  <2>5. ASSUME NEW i \in DOMAIN s, i <= 4 PROVE s[i] # m
    <3>1. i \in 1 .. n
      BY <2>2, <2>3, <2>5
    <3>2. t[i] \in Range(t)
      BY <2>4, <3>1 DEF Range
    <3> QED BY <1>2, <2>4, <3>1, <3>2
  <2>6. 2 - 1 = 1
    OBVIOUS
  <2> QED BY <2>1, <2>5, <2>6
<1> QED BY <1>1, <1>2

LEMMA SummarisedHolds ==
  ASSUME NEW s \in Seq(Messages), s # <<>>, Begins(s)
  PROVE  /\ Summarised(s) \in Seq(Messages) /\ Summarised(s) # <<>> /\ Begins(Summarised(s))
         /\ Paired(s) => Paired(Summarised(s))
<1> DEFINE m == Message("summary", <<>>)
           a == SubSeq(s, 1, 1)
           b == SubSeq(s, 2, Len(s))
           u == a \o <<m>> \o b
<1>1. CASE Summarised(s) = s
  BY <1>1
<1>2. CASE /\ \A i \in DOMAIN s : i <= 4 => s[i] # m
           /\ Summarised(s) = u
  <2>1. /\ Len(s) \in Nat /\ DOMAIN s = 1 .. Len(s) /\ \A i \in DOMAIN s : s[i] \in Messages
        /\ 1 \in DOMAIN s /\ 2 \in DOMAIN s /\ Len(s) >= 2
    BY MemoryOf DEF Begins
  <2>2. 2 \in DOMAIN s /\ s[2].kind = "goal"
    <3>1. s[2] # m
      BY <1>2, <2>1
    <3> QED BY <2>1, <3>1 DEF Begins
  <2>3. m \in Messages /\ m.kind = "summary" /\ m.calls = <<>>
    BY MessageOf DEF Kinds
  <2>4. s[1] = Message("system", <<>>) /\ s[1] \in Messages /\ s[1].kind = "system" /\ s[1].calls = <<>>
    <3>1. s[1] = Message("system", <<>>)
      BY DEF Begins
    <3>2. "system" \in Kinds
      BY DEF Kinds
    <3> QED BY <3>1, <3>2, MessageOf
  <2>5. a = <<s[1]>>
    <3>1. /\ a \in Seq(Messages) /\ Len(a) = 1 /\ a[1] = s[1]
      <4>1. \A i \in 1 .. 1 : s[i] \in Messages
        BY <2>4
      <4>2. 1 \in Int
        OBVIOUS
      <4>3. /\ a \in Seq(Messages) /\ Len(a) = (IF 1 <= 1 THEN 1 - 1 + 1 ELSE 0)
            /\ \A i \in 1 .. 1 - 1 + 1 : a[i] = s[1 + i - 1]
        BY <4>1, <4>2, SubSeqProperties
      <4>4. 1 \in 1 .. 1 - 1 + 1 /\ 1 + 1 - 1 = 1
        OBVIOUS
      <4> QED BY <4>3, <4>4
    <3>2. <<s[1]>> \in Seq(Messages) /\ Len(<<s[1]>>) = 1 /\ <<s[1]>>[1] = s[1]
      BY <2>4, OneMessage
    <3> HIDE DEF a
    <3>3. PICK t : t = <<s[1]>>
      OBVIOUS
    <3>4. t \in Seq(Messages) /\ Len(t) = 1 /\ t[1] = s[1]
      BY <3>2, <3>3, Zenon
    <3>5. \A i \in 1 .. Len(a) : a[i] = t[i]
      BY <3>1, <3>4
    <3>6. a = t
      BY <3>1, <3>4, <3>5, SeqEqual
    <3> QED BY <3>3, <3>6
  <2>6. /\ b \in Seq(Messages) /\ Len(b) = Len(s) - 1
        /\ \A i \in 1 .. Len(s) - 1 : b[i] = s[i + 1]
    <3>1. \A i \in 2 .. Len(s) : s[i] \in Messages
      BY <2>1
    <3>2. /\ b \in Seq(Messages) /\ Len(b) = (IF 2 <= Len(s) THEN Len(s) - 2 + 1 ELSE 0)
          /\ \A i \in 1 .. Len(s) - 2 + 1 : b[i] = s[2 + i - 1]
      BY <2>1, <3>1, SubSeqProperties
    <3>3. \A i \in 1 .. Len(s) - 1 : i \in 1 .. Len(s) - 2 + 1 /\ 2 + i - 1 = i + 1
      BY <2>1
    <3> QED BY <2>1, <3>2, <3>3
  <2>7. Paired(s) => Paired(b)
    <3>1. 2 \in 1 .. Len(s) /\ s[2].kind # "tool"
      BY <2>1, <2>2
    <3> QED BY <3>1, SuffixPaired
  <2> HIDE DEF m, a, b
  <2>8. a \in Seq(Messages) /\ <<m>> \in Seq(Messages) /\ Len(a) = 1 /\ a[1] = s[1] /\ Len(<<m>>) = 1
    BY <2>3, <2>4, <2>5, OneMessage
  <2>9. /\ a \o <<m>> \in Seq(Messages) /\ Len(a \o <<m>>) = 2
        /\ (a \o <<m>>)[1] = s[1] /\ (a \o <<m>>)[2] = m
    BY <2>3, <2>5, <2>8
  <2>10. Paired(a \o <<m>>)
    <3>1. Paired(a) /\ Paired(<<m>>)
      BY <2>3, <2>4, <2>5, SinglePaired
    <3> QED BY <3>1, <2>8, ConcatPaired
  <2>11. /\ u \in Seq(Messages) /\ Len(u) = 2 + Len(b)
         /\ \A i \in 1 .. 2 + Len(b) : u[i] = IF i <= 2 THEN (a \o <<m>>)[i] ELSE b[i - 2]
    BY <2>6, <2>9, ConcatProperties
  <2>12. Paired(s) => Paired(u)
    BY <2>6, <2>7, <2>9, <2>10, ConcatPaired
  <2>13. /\ u # <<>> /\ DOMAIN u = 1 .. Len(s) + 1
         /\ u[1] = s[1] /\ u[2] = m /\ \A i \in 3 .. Len(s) + 1 : u[i] = s[i - 1]
    <3>1. 1 \in 1 .. 2 + Len(b) /\ 2 \in 1 .. 2 + Len(b) /\ 2 + Len(b) = Len(s) + 1
      BY <2>1, <2>6
    <3>2. u[1] = s[1] /\ u[2] = m
      BY <3>1, <2>9, <2>11
    <3>3. ASSUME NEW i \in 3 .. Len(s) + 1 PROVE u[i] = s[i - 1]
      <4>1. i \in 1 .. 2 + Len(b) /\ ~(i <= 2) /\ i - 2 \in 1 .. Len(s) - 1 /\ i - 2 + 1 = i - 1
        BY <2>1, <2>6
      <4> QED BY <4>1, <2>6, <2>11
    <3>4. Len(u) = Len(s) + 1 /\ Len(u) > 0
      BY <2>1, <2>11, <3>1
    <3>5. u # <<>> /\ DOMAIN u = 1 .. Len(s) + 1
      BY <2>11, <3>4, MemoryOf
    <3> QED BY <3>2, <3>3, <3>5
  <2> HIDE DEF u
  <2>14. 3 \in DOMAIN u /\ u[3].kind = "goal"
    <3>1. 3 \in 3 .. Len(s) + 1 /\ 3 \in 1 .. Len(s) + 1 /\ 3 - 1 = 2
      BY <2>1
    <3> QED BY <3>1, <2>2, <2>13
  <2>15. ASSUME NEW i \in DOMAIN u, i > 1 PROVE u[i].kind # "system"
    <3>1. CASE i = 2
      BY <3>1, <2>3, <2>13
    <3>2. CASE i # 2
      <4>1. i \in 3 .. Len(s) + 1 /\ i - 1 \in DOMAIN s /\ i - 1 > 1
        BY <2>1, <2>13, <2>15, <3>2
      <4> QED BY <4>1, <2>13 DEF Begins
    <3> QED BY <3>1, <3>2
  <2>16. Begins(u)
    BY <2>4, <2>13, <2>14, <2>15 DEF Begins, m
  <2> QED BY <1>2, <2>11, <2>12, <2>13, <2>16
<1> QED BY <1>1, <1>2, SummarisedIs

LEMMA LeastIn ==
  ASSUME NEW T, T \subseteq Nat, T # {}
  PROVE  Min(T) \in T /\ \A y \in T : Min(T) <= y
<1>1. PICK x \in T : \A y \in T : <<y, x>> \notin OpToRel(<, Nat)
  BY WFMin, NatLessThanWellFounded, Zenon
<1>2. \A y \in T : x \in Nat /\ y \in Nat /\ ~(y < x)
  BY <1>1, Zenon DEF OpToRel
<1>3. \A y \in T : x <= y
  BY <1>2
<1> QED BY <1>1, <1>3, Zenon DEF Min

LEMMA FirstIsGoal ==
  ASSUME NEW s \in Seq(Messages), Begins(s)
  PROVE  /\ Min(IndicesOf(s, IsHuman)) \in {2, 3}
         /\ s[Min(IndicesOf(s, IsHuman))].kind = "goal"
<1> DEFINE H == {i \in DOMAIN s : s[i].kind \in {"goal", "human", "note"}}
           h == Min(H)
<1>1. IndicesOf(s, IsHuman) = H
  BY DEF IndicesOf, IsHuman
<1>2. /\ Len(s) \in Nat /\ DOMAIN s = 1 .. Len(s) /\ H \subseteq Nat
      /\ 1 \notin H /\ 0 \notin H
      /\ \/ 2 \in H /\ s[2].kind = "goal"
         \/ 3 \in H /\ 2 \notin H /\ s[3].kind = "goal"
  <2>1. Len(s) \in Nat /\ DOMAIN s = 1 .. Len(s)
    BY MemoryOf
  <2>2. s[1].kind = "system"
    BY MessageOf DEF Begins, Kinds
  <2>3. Message("summary", <<>>).kind = "summary"
    BY DEF Message
  <2>4. CASE 2 \in DOMAIN s /\ s[2].kind = "goal"
    BY <2>1, <2>2, <2>4
  <2>5. CASE 3 \in DOMAIN s /\ s[2] = Message("summary", <<>>) /\ s[3].kind = "goal"
    <3>1. s[2].kind = "summary"
      BY <2>3, <2>5
    <3> QED BY <2>1, <2>2, <2>5, <3>1
  <2> QED BY <2>4, <2>5 DEF Begins
<1>3. H # {}
  BY <1>2
<1>4. h \in H /\ \A y \in H : h <= y
  BY <1>2, <1>3, LeastIn
<1> HIDE DEF h
<1>5. h \in {2, 3} /\ s[h].kind = "goal"
  <2>1. CASE 2 \in H /\ s[2].kind = "goal"
    <3>1. h <= 2 /\ h # 1 /\ h # 0 /\ h \in Nat
      BY <1>2, <1>4, <2>1
    <3>2. h = 2
      BY <3>1
    <3> QED BY <2>1, <3>2
  <2>2. CASE 3 \in H /\ 2 \notin H /\ s[3].kind = "goal"
    <3>1. h <= 3 /\ h # 1 /\ h # 0 /\ h # 2 /\ h \in Nat
      BY <1>2, <1>4, <2>2
    <3>2. h = 3
      BY <3>1
    <3> QED BY <2>2, <3>2
  <2> QED BY <1>2, <2>1, <2>2
<1> QED BY <1>1, <1>5 DEF h

(* drop_older_rounds leaves a memory alone, or what comes before one of the  *)
(* user's messages gives way to the goal's stub and a note: the cut never    *)
(* falls on the goal itself.                                                 *)
LEMMA DroppedIs ==
  ASSUME NEW s \in Seq(Messages), s # <<>>, Begins(s), NEW keep \in Nat \ {0}
  PROVE  \/ Dropped(s, keep) = s
         \/ \E c \in DOMAIN s :
              /\ IsHuman(s[c])
              /\ Dropped(s, keep) = <<s[1]>> \o <<Message("goal", <<>>)>> \o <<Message("note", <<>>)>>
                                    \o SubSeq(s, c, Len(s))
<1> DEFINE humans == IndicesOf(s, IsHuman)
           h == Min(humans)
           cuts == {i \in humans : i > Len(s) - keep}
           c == Min(cuts)
           first == Message(s[h].kind, <<>>)
<1>1. CASE Len(s) <= keep + 2 \/ cuts = {}
  BY <1>1 DEF Dropped
<1>2. CASE ~(Len(s) <= keep + 2 \/ cuts = {})
  <2>1. h \in {2, 3} /\ s[h].kind = "goal"
    BY FirstIsGoal
  <2>2. Len(s) \in Nat /\ DOMAIN s = 1 .. Len(s)
    BY MemoryOf
  <2>3. \A i \in humans : i \in DOMAIN s /\ IsHuman(s[i])
    BY DEF IndicesOf
  <2>4. cuts \subseteq Nat /\ cuts # {}
    <3> HIDE DEF humans
    <3>1. humans \subseteq Nat
      BY <2>2, <2>3
    <3> QED BY <1>2, <3>1
  <2>5. c \in cuts
    BY <2>4, LeastIn
  <2>6. first = Message("goal", <<>>)
    BY <2>1
  <2>7. Head(s) = s[1]
    BY <2>2
  <2>8. Dropped(s, keep) = <<Head(s)>> \o (IF h < c THEN <<first>> ELSE <<>>)
                           \o <<Message("note", <<>>)>> \o SubSeq(s, c, Len(s))
    BY <1>2 DEF Dropped
  <2>9. c \in humans /\ c > Len(s) - keep /\ c \in DOMAIN s /\ IsHuman(s[c])
    BY <2>3, <2>5
  <2> HIDE DEF c, first, h
  <2>10. h < c
    <3>1. ~(Len(s) <= keep + 2)
      BY <1>2
    <3>2. c \in 1 .. Len(s) /\ c > Len(s) - keep
      BY <2>2, <2>9
    <3> QED BY <2>1, <2>2, <3>1, <3>2
  <2>11. Dropped(s, keep) = <<s[1]>> \o <<Message("goal", <<>>)>> \o <<Message("note", <<>>)>>
                            \o SubSeq(s, c, Len(s))
    BY <2>6, <2>7, <2>8, <2>10
  <2> QED BY <2>9, <2>11
<1> QED BY <1>1, <1>2

LEMMA DroppedHolds ==
  ASSUME NEW s \in Seq(Messages), s # <<>>, Begins(s), NEW keep \in Nat \ {0}
  PROVE  /\ Dropped(s, keep) \in Seq(Messages) /\ Dropped(s, keep) # <<>>
         /\ Begins(Dropped(s, keep))
         /\ Paired(s) => Paired(Dropped(s, keep))
<1>1. CASE Dropped(s, keep) = s
  BY <1>1
<1>2. ASSUME NEW c \in DOMAIN s, IsHuman(s[c]),
             Dropped(s, keep) = <<s[1]>> \o <<Message("goal", <<>>)>> \o <<Message("note", <<>>)>>
                                \o SubSeq(s, c, Len(s))
      PROVE  /\ Dropped(s, keep) \in Seq(Messages) /\ Dropped(s, keep) # <<>>
             /\ Begins(Dropped(s, keep))
             /\ Paired(s) => Paired(Dropped(s, keep))
  <2> DEFINE a == s[1]
             g == Message("goal", <<>>)
             n == Message("note", <<>>)
             b == SubSeq(s, c, Len(s))
             p == <<a>> \o <<g>>
             q == p \o <<n>>
  <2>1. /\ Len(s) \in Nat /\ DOMAIN s = 1 .. Len(s) /\ \A i \in DOMAIN s : s[i] \in Messages
    BY MemoryOf
  <2>2. /\ a \in Messages /\ a.kind = "system" /\ a.calls = <<>> /\ a = Message("system", <<>>)
        /\ g \in Messages /\ g.kind = "goal" /\ g.calls = <<>>
        /\ n \in Messages /\ n.kind = "note" /\ n.calls = <<>>
    BY MessageOf DEF Begins, Kinds
  <2>3. c \in Nat /\ c > 1
    <3>1. s[c].kind # "system"
      BY <1>2 DEF IsHuman
    <3> QED BY <2>1, <2>2, <3>1
  <2>4. s[c].kind # "tool"
    BY <1>2 DEF IsHuman
  <2>5. /\ b \in Seq(Messages) /\ Len(b) = Len(s) - c + 1
        /\ \A i \in 1 .. Len(s) - c + 1 : b[i] = s[c + i - 1]
    <3>1. \A i \in c .. Len(s) : s[i] \in Messages
      BY <2>1
    <3> QED BY <2>1, <3>1, SubSeqProperties
  <2>6. Paired(s) => Paired(b)
    BY <2>1, <2>4, SuffixPaired
  <2>7. \A i \in DOMAIN b : b[i].kind # "system"
    <3> SUFFICES ASSUME NEW i \in DOMAIN b PROVE b[i].kind # "system"
      OBVIOUS
    <3>1. i \in 1 .. Len(s) - c + 1
      BY <2>1, <2>5, MemoryOf
    <3>2. c + i - 1 \in DOMAIN s /\ c + i - 1 > 1
      BY <2>1, <2>3, <3>1
    <3> QED BY <2>5, <3>1, <3>2 DEF Begins
  <2> HIDE DEF a, g, n, b
  <2>8. /\ <<a>> \in Seq(Messages) /\ <<g>> \in Seq(Messages) /\ <<n>> \in Seq(Messages)
        /\ Paired(<<a>>) /\ Paired(<<g>>) /\ Paired(<<n>>)
    BY <2>2, OneMessage, SinglePaired
  <2>9. p \in Seq(Messages) /\ Paired(p) /\ Len(p) = 2 /\ DOMAIN p = 1 .. 2 /\ p[1] = a /\ p[2] = g
    <3>1. p \in Seq(Messages) /\ Paired(p)
      BY <2>8, ConcatProperties, ConcatPaired
    <3> QED BY <2>2, <3>1
  <2>10. Begins(p) /\ p # <<>>
    <3>1. p[1] = Message("system", <<>>) /\ 2 \in DOMAIN p /\ p[2].kind = "goal"
      BY <2>2, <2>9
    <3>2. \A i \in DOMAIN p : i > 1 => i = 2
      BY <2>9
    <3>3. \A i \in DOMAIN p : i > 1 => p[i].kind # "system"
      BY <3>1, <3>2
    <3>4. p # <<>>
      BY <2>9, MemoryOf
    <3> QED BY <3>1, <3>3, <3>4 DEF Begins
  <2> HIDE DEF p
  <2>11. q \in Seq(Messages) /\ Paired(q) /\ Begins(q) /\ q # <<>>
    <3>1. \A i \in DOMAIN <<n>> : <<n>>[i].kind # "system"
      BY <2>2
    <3> QED BY <2>8, <2>9, <2>10, <3>1, ConcatPaired, ConcatBegins
  <2> HIDE DEF q
  <2>12. q \o b \in Seq(Messages) /\ Begins(q \o b) /\ q \o b # <<>>
    BY <2>5, <2>7, <2>11, ConcatBegins
  <2>13. Paired(s) => Paired(q \o b)
    BY <2>5, <2>6, <2>11, ConcatPaired
  <2>14. Dropped(s, keep) = q \o b
    BY <1>2 DEF q, p, a, g, n, b
  <2> QED BY <2>12, <2>13, <2>14
<1> QED BY <1>1, <1>2, DroppedIs

(* A message joins a memory.                                                 *)
LEMMA AppendHolds ==
  ASSUME NEW s \in Seq(Messages), s # <<>>, Begins(s),
         NEW m \in Messages, m.kind \notin {"system", "tool"}
  PROVE  LET t == Append(s, m)
         IN /\ t \in Seq(Messages) /\ t # <<>> /\ Begins(t) /\ t[Len(t)] = m
            /\ Paired(s) /\ m.calls = <<>> => Paired(t)
            /\ Paired(s) /\ m.calls # <<>> => Open(t)
<1> DEFINE t == Append(s, m)
<1>1. t = s \o <<m>>
  BY AppendIsConcat
<1>2. <<m>> \in Seq(Messages) /\ \A i \in DOMAIN <<m>> : <<m>>[i].kind # "system"
  OBVIOUS
<1>3. t \in Seq(Messages) /\ t # <<>> /\ Begins(t)
  BY <1>1, <1>2, ConcatBegins
<1>4. Len(t) = Len(s) + 1 /\ t[Len(t)] = m /\ Len(s) \in Nat
  BY AppendProperties, MemoryOf
<1>5. Paired(s) /\ m.calls = <<>> => Paired(t)
  BY <1>1, <1>2, SinglePaired, ConcatPaired
<1>6. SubSeq(t, 1, Len(t) - 1) = s
  <2> DEFINE p == SubSeq(t, 1, Len(t) - 1)
  <2>1. /\ p \in Seq(Messages) /\ Len(p) = Len(t) - 1
        /\ \A i \in 1 .. Len(t) - 1 : p[i] = t[i]
    BY <1>3, LastOf
  <2>2. \A i \in 1 .. Len(s) : t[i] = s[i]
    BY AppendProperties
  <2> HIDE DEF p, t
  <2>3. Len(p) = Len(s) /\ \A i \in 1 .. Len(p) : p[i] = s[i]
    BY <1>4, <2>1, <2>2
  <2>4. p = s
    BY <2>1, <2>3, SeqEqual
  <2> QED BY <2>4 DEF p
<1> HIDE DEF t
<1>7. Paired(s) /\ m.calls # <<>> => Open(t)
  BY <1>3, <1>4, <1>6, Zenon DEF Open
<1> QED BY <1>3, <1>4, <1>5, <1>7 DEF t

(* A request joins a memory, the first one as the goal.                      *)
LEMMA RequestHolds ==
  ASSUME NEW s \in Seq(Messages), s # <<>> => Begins(s)
  PROVE  LET t == Append(Opened(s), Human(s))
         IN /\ t \in Seq(Messages) /\ t # <<>> /\ Begins(t)
            /\ Paired(s) => Paired(t)
<1>1. /\ Human(s) \in Messages /\ Human(s).kind \in {"goal", "human"} /\ Human(s).calls = <<>>
  BY MessageOf DEF Human, Kinds
<1>2. CASE s # <<>>
  <2>1. Opened(s) = s
    BY <1>2 DEF Opened
  <2>2. Human(s).kind \notin {"system", "tool"}
    BY <1>1
  <2> QED BY <1>1, <1>2, <2>1, <2>2, AppendHolds
<1>3. CASE s = <<>>
  <2> DEFINE a == Message("system", <<>>)
             g == Message("goal", <<>>)
             t == <<a>> \o <<g>>
  <2>1. /\ a \in Messages /\ a.kind = "system" /\ a.calls = <<>>
        /\ g \in Messages /\ g.kind = "goal" /\ g.calls = <<>>
    BY MessageOf DEF Kinds
  <2>2. IndicesOf(<<>>, IsHuman) = {}
    BY DEF IndicesOf
  <2>3. Human(s) = g /\ Opened(s) = <<a>>
    BY <1>3, <2>2 DEF Human, Opened
  <2> HIDE DEF a, g
  <2>4. <<a>> \in Seq(Messages) /\ <<g>> \in Seq(Messages) /\ Paired(<<a>>) /\ Paired(<<g>>)
    BY <2>1, OneMessage, SinglePaired
  <2>5. Append(Opened(s), Human(s)) = t
    BY <2>1, <2>3, <2>4, AppendIsConcat
  <2>6. t \in Seq(Messages) /\ Paired(t)
    BY <2>4, ConcatProperties, ConcatPaired
  <2>7. DOMAIN t = 1 .. 2 /\ Len(t) = 2 /\ t[1] = a /\ t[2] = g
    BY <2>1, <2>6
  <2> HIDE DEF t
  <2>8. t # <<>>
    BY <2>6, <2>7, MemoryOf
  <2>9. \A i \in DOMAIN t : i > 1 => i = 2
    BY <2>7
  <2>10. Begins(t)
    <3>1. t[1] = Message("system", <<>>)
      BY <2>7 DEF a
    <3>2. 2 \in DOMAIN t /\ t[2].kind = "goal"
      BY <2>1, <2>7
    <3>3. \A i \in DOMAIN t : i > 1 => t[i].kind # "system"
      BY <2>9, <3>2
    <3> QED BY <3>1, <3>2, <3>3 DEF Begins
  <2> QED BY <2>5, <2>6, <2>8, <2>10
<1> QED BY <1>2, <1>3

(* Results join a memory, and advice behind them.                            *)
LEMMA ResultsHold ==
  ASSUME NEW s \in Seq(Messages), s # <<>>, Begins(s), NEW n \in Nat,
         NEW advice \in {<<>>, <<Message("human", <<>>)>>}
  PROVE  LET t == s \o Tools(n) \o advice
         IN /\ t \in Seq(Messages) /\ t # <<>> /\ Begins(t)
            /\ Open(s) /\ n = Len(s[Len(s)].calls) => Paired(t)
<1> DEFINE u == s \o Tools(n)
<1>1. /\ Tools(n) \in Seq(Messages)
      /\ \A i \in DOMAIN Tools(n) : Tools(n)[i].kind # "system"
  <2>1. Tools(n) \in Seq(Messages) /\ DOMAIN Tools(n) = 1 .. n /\ \A i \in 1 .. n : Tools(n)[i] = Tool
    BY ToolsOf, MemoryOf
  <2> QED BY <2>1, MessageOf
<1>2. u \in Seq(Messages) /\ u # <<>> /\ Begins(u)
  BY <1>1, ConcatBegins
<1>3. /\ advice \in Seq(Messages) /\ Paired(advice)
      /\ \A i \in DOMAIN advice : advice[i].kind # "system"
  <2>1. /\ Message("human", <<>>) \in Messages /\ Message("human", <<>>).kind = "human"
        /\ Message("human", <<>>).calls = <<>>
    BY MessageOf DEF Kinds
  <2>2. CASE advice = <<>>
    BY <2>2, EmptyPaired
  <2>3. CASE advice = <<Message("human", <<>>)>>
    <3> DEFINE m == Message("human", <<>>)
    <3> HIDE DEF m
    <3>1. m \in Messages /\ m.kind = "human" /\ m.calls = <<>> /\ advice = <<m>>
      BY <2>1, <2>3 DEF m
    <3> QED BY <3>1, OneMessage, SinglePaired
  <2> QED BY <2>2, <2>3
<1>4. ASSUME Open(s), n = Len(s[Len(s)].calls) PROVE Paired(u)
  <2> DEFINE m == s[Len(s)]
             p == SubSeq(s, 1, Len(s) - 1)
  <2>1. Paired(p) /\ m.calls # <<>>
    BY <1>4 DEF Open
  <2>2. p \in Seq(Messages) /\ m \in Messages /\ s = p \o <<m>>
    BY LastOf
  <2>3. m.kind = "ai"
    BY <2>1, <2>2, MessageTypes
  <2>4. n = Len(m.calls)
    BY <1>4
  <2> HIDE DEF m, p
  <2>5. Paired(<<m>> \o Tools(n))
    BY <2>2, <2>3, <2>4, AnsweredPaired
  <2>6. <<m>> \in Seq(Messages)
    BY <2>2, OneMessage
  <2>7. <<m>> \o Tools(n) \in Seq(Messages)
    BY <1>1, <2>6, ConcatProperties
  <2>8. (p \o <<m>>) \o Tools(n) = p \o (<<m>> \o Tools(n))
    BY <1>1, <2>2, <2>6, ConcatAssociative
  <2>9. Paired(p \o (<<m>> \o Tools(n)))
    BY <2>1, <2>2, <2>5, <2>7, ConcatPaired
  <2> QED BY <2>2, <2>8, <2>9
<1> HIDE DEF u
<1>5. u \o advice \in Seq(Messages) /\ u \o advice # <<>> /\ Begins(u \o advice)
  BY <1>2, <1>3, ConcatBegins
<1>6. Paired(u) => Paired(u \o advice)
  BY <1>2, <1>3, ConcatPaired
<1> QED BY <1>4, <1>5, <1>6 DEF u

-----------------------------------------------------------------------------
(* What both memories of the agent are, its own and the saved one            *)

Memories ==
  /\ mem \in Seq(Messages) /\ (mem # <<>> => Begins(mem))
  /\ saved \in Seq(Messages) /\ (saved # <<>> => Begins(saved))
Places ==
  /\ at \in {"idle", "ready", "trimming", "sending", "acting", "streaming"}
  /\ at \in {"trimming", "sending", "acting", "streaming"} => mem # <<>>
Loop ==
  /\ loaded \in BOOLEAN /\ (at # "idle" => loaded)
  /\ results \in Nat /\ unsaved \in 0 .. MaxUnsaved
  /\ todo \in Seq({"tool", "ask"}) /\ (todo # <<>> => at = "acting")
  /\ (at \in {"sending", "streaming"}) = (call \in {"asking", "waiting"})
Kept == Memories /\ Places /\ Loop

LEMMA KeptInit == Init => Kept
<1> SUFFICES ASSUME Init PROVE Kept
  OBVIOUS
<1>1. <<>> \in Seq(Messages) /\ <<>> \in Seq({"tool", "ask"}) /\ 0 \in 0 .. MaxUnsaved
  BY ConversationConstants, EmptySeq
<1>2. Memories /\ Places
  BY <1>1 DEF Init, Memories, Places
<1>3. /\ loaded = FALSE /\ results = 0 /\ unsaved = 0 /\ todo = <<>>
      /\ at = "idle" /\ call = "none"
  BY DEF Init, CallInit
<1>4. (at \in {"sending", "streaming"}) = (call \in {"asking", "waiting"})
  BY <1>3
<1>5. Loop
  BY <1>1, <1>3, <1>4 DEF Loop
<1> QED BY <1>2, <1>5 DEF Kept

(* save_memory and the save of a reduction                                   *)
LEMMA StoreKeeps ==
  ASSUME Memories, unsaved \in 0 .. MaxUnsaved, NEW s \in Seq(Messages), s # <<>> => Begins(s),
         NEW next \in {"ready", "trimming", "acting"}, Store(s, next)
  PROVE  Memories' /\ at' \in {next, "idle"} /\ unsaved' \in 0 .. MaxUnsaved
         /\ mem' = s /\ saved' \in {s, saved}
<1>1. mem' = s /\ saved' \in {s, saved} /\ at' \in {next, "idle"}
  BY DEF Store
<1>2. unsaved' \in 0 .. MaxUnsaved
  BY ConversationConstants DEF Store
<1> QED BY <1>1, <1>2 DEF Memories

LEMMA SavingKeeps ==
  ASSUME Memories, unsaved \in 0 .. MaxUnsaved, mem' \in Seq(Messages), mem' # <<>> => Begins(mem)',
         KeptOrSaved
  PROVE  Memories' /\ unsaved' \in 0 .. MaxUnsaved /\ saved' \in {mem', saved}
<1>1. saved' \in {mem', saved}
  BY DEF KeptOrSaved
<1>2. unsaved' \in 0 .. MaxUnsaved
  BY ConversationConstants DEF KeptOrSaved
<1>3. CASE saved' = mem'
  BY <1>2, <1>3 DEF Memories, Begins
<1>4. CASE saved' = saved
  BY <1>2, <1>4 DEF Memories, Begins
<1> QED BY <1>1, <1>3, <1>4

(* What the steps of the ladder say about its calls                          *)
LEMMA CallMoves ==
  /\ \A m : Ask(m) => call' = "asking"
  /\ Answers => call = "asking" /\ call' = "answered"
  /\ Cancelled => call' = "raised"
  /\ Overflow /\ CanReduce => call = "asking" /\ call' = "asking"
  /\ Overflow /\ ~CanReduce => call = "asking" /\ call' = "raised"
  /\ Streams => call' = "asking"
  /\ Breaks => call' = "raised"
  /\ Wakes => call' = "asking"
  /\ Fails => call' \in {"asking", "waiting", "raised"}
BY DEF Ask, Answers, Over, Cancelled, Raise, Overflow, Failing, Again, Streams, Breaks, Wakes,
   Fails, Garbled, Transient, KeyRefused, Fatal, Limited, Patient, BackOff

LEMMA BeginTurnKeeps == Kept /\ BeginTurn => Kept'
<1> SUFFICES ASSUME Kept, BeginTurn PROVE Kept'
  OBVIOUS
<1> DEFINE s == IF loaded THEN mem ELSE saved
<1>1. /\ at = "idle" /\ loaded' = TRUE /\ todo' = todo /\ results' = results /\ call' = call
      /\ IF RolledBack(s) = s
         THEN mem' = s /\ at' = "ready" /\ saved' = saved /\ unsaved' = unsaved
         ELSE Store(RolledBack(s), "ready")
  BY DEF BeginTurn, callVars
<1>2. s \in Seq(Messages) /\ (s # <<>> => Begins(s))
  BY DEF Kept, Memories
<1> HIDE DEF s
<1>3. RolledBack(s) \in Seq(Messages) /\ (RolledBack(s) # <<>> => Begins(RolledBack(s)))
  BY <1>2, RolledBackBegins
<1>4. Memories' /\ at' \in {"ready", "idle"} /\ unsaved' \in 0 .. MaxUnsaved
  <2>1. CASE RolledBack(s) = s
    BY <1>1, <1>2, <2>1 DEF Kept, Memories, Loop
  <2>2. CASE RolledBack(s) # s
    BY <1>1, <1>3, <2>2, StoreKeeps DEF Kept, Loop
  <2> QED BY <2>1, <2>2
<1>5. Places'
  BY <1>4 DEF Places
<1>6. Loop'
  BY <1>1, <1>4 DEF Kept, Loop
<1> QED BY <1>4, <1>5, <1>6 DEF Kept

LEMMA RequestKeeps == Kept /\ Request => Kept'
<1> SUFFICES ASSUME Kept, Request PROVE Kept'
  OBVIOUS
<1> DEFINE t == Append(Opened(mem), Human(mem))
<1>1. /\ at = "ready" /\ loaded' = loaded /\ todo' = todo /\ results' = results /\ call' = call
      /\ Store(t, "trimming")
  BY DEF Request, callVars
<1>2. t \in Seq(Messages) /\ t # <<>> /\ Begins(t)
  BY RequestHolds DEF Kept, Memories
<1> HIDE DEF t
<1>3. Memories' /\ at' \in {"trimming", "idle"} /\ unsaved' \in 0 .. MaxUnsaved /\ mem' = t
  BY <1>1, <1>2, StoreKeeps DEF Kept, Loop
<1>4. Places'
  BY <1>2, <1>3 DEF Places
<1>5. Loop'
  BY <1>1, <1>3 DEF Kept, Loop
<1> QED BY <1>3, <1>4, <1>5 DEF Kept

(* What trimming may leave of the memory                                     *)
Trimmed(s, t) == t \in Seq(Messages) /\ t # <<>> /\ Begins(t) /\ (Paired(s) => Paired(t))

LEMMA TrimLeaves ==
  ASSUME Kept, Trim
  PROVE  /\ at = "trimming" /\ at' = "sending" /\ call' = "asking" /\ KeptOrSaved
         /\ loaded' = loaded /\ todo' = todo /\ results' = results
         /\ Trimmed(mem, mem')
<1>1. /\ at = "trimming" /\ at' = "sending" /\ call' = "asking" /\ KeptOrSaved
      /\ loaded' = loaded /\ todo' = todo /\ results' = results
  BY CallMoves DEF Trim
<1>2. mem \in Seq(Messages) /\ mem # <<>> /\ Begins(mem)
  BY <1>1 DEF Kept, Memories, Places
<1>3. PICK s \in {mem, Summarised(mem)} : mem' \in {s, Dropped(s, KeepLast)}
  BY DEF Trim
<1>4. s \in Seq(Messages) /\ s # <<>> /\ Begins(s) /\ (Paired(mem) => Paired(s))
  BY <1>2, <1>3, SummarisedHolds
<1>5. KeepLast \in Nat \ {0}
  BY ConversationConstants
<1>6. /\ Dropped(s, KeepLast) \in Seq(Messages) /\ Dropped(s, KeepLast) # <<>>
      /\ Begins(Dropped(s, KeepLast)) /\ (Paired(s) => Paired(Dropped(s, KeepLast)))
  BY <1>4, <1>5, DroppedHolds
<1>7. CASE mem' = s
  BY <1>1, <1>4, <1>7 DEF Trimmed
<1>8. CASE mem' = Dropped(s, KeepLast)
  BY <1>1, <1>4, <1>6, <1>8 DEF Trimmed
<1> QED BY <1>3, <1>7, <1>8

LEMMA TrimKeeps == Kept /\ Trim => Kept'
<1> SUFFICES ASSUME Kept, Trim PROVE Kept'
  OBVIOUS
<1>1. /\ at' = "sending" /\ call' = "asking" /\ KeptOrSaved
      /\ loaded' = loaded /\ todo' = todo /\ results' = results /\ at = "trimming"
      /\ mem' \in Seq(Messages) /\ mem' # <<>> /\ Begins(mem')
  BY TrimLeaves DEF Trimmed
<1>2. Begins(mem)'
  BY <1>1 DEF Begins
<1>3. Memories' /\ unsaved' \in 0 .. MaxUnsaved
  BY <1>1, <1>2, SavingKeeps DEF Kept, Loop
<1>4. Places' /\ Loop'
  BY <1>1, <1>3 DEF Kept, Places, Loop
<1> QED BY <1>3, <1>4 DEF Kept

(* A reply joins the memory: with its calls, or without them when they came  *)
(* as text.                                                                  *)
LEMMA ReplyAdds ==
  ASSUME Reply
  PROVE  \E calls \in Replies, shown \in Replies :
           /\ at = "sending" /\ call' = "answered" /\ loaded' = loaded /\ results' = results
           /\ shown = calls \/ (MayLeak = TRUE /\ shown = <<>>)
           /\ Store(Append(mem, Message("ai", shown)), IF calls = <<>> THEN "ready" ELSE "acting")
           /\ todo' = IF at' = "acting" THEN calls ELSE <<>>
<1>1. PICK calls \in Replies, leaks \in {MayLeak, FALSE} :
        /\ Store(Append(mem, Message("ai", IF leaks THEN <<>> ELSE calls)),
                 IF calls = <<>> THEN "ready" ELSE "acting")
        /\ todo' = IF at' = "acting" THEN calls ELSE <<>>
  BY DEF Reply
<1>2. at = "sending" /\ call' = "answered" /\ loaded' = loaded /\ results' = results
  BY CallMoves DEF Reply
<1>3. <<>> \in Replies /\ MayLeak \in BOOLEAN
  BY ConversationConstants
<1>4. CASE leaks = FALSE
  BY <1>1, <1>2, <1>4
<1>5. CASE leaks = TRUE
  <2>1. MayLeak = TRUE
    BY <1>5
  <2> QED BY <1>1, <1>2, <1>3, <1>5, <2>1
<1> QED BY <1>3, <1>4, <1>5

LEMMA ReplyKeeps == Kept /\ Reply => Kept'
<1> SUFFICES ASSUME Kept, Reply PROVE Kept'
  OBVIOUS
<1>1. PICK calls \in Replies, shown \in Replies :
        /\ at = "sending" /\ call' = "answered" /\ loaded' = loaded /\ results' = results
        /\ shown = calls \/ (MayLeak = TRUE /\ shown = <<>>)
        /\ Store(Append(mem, Message("ai", shown)), IF calls = <<>> THEN "ready" ELSE "acting")
        /\ todo' = IF at' = "acting" THEN calls ELSE <<>>
  BY ReplyAdds
<1> DEFINE t == Append(mem, Message("ai", shown))
           next == IF calls = <<>> THEN "ready" ELSE "acting"
<1>2. mem \in Seq(Messages) /\ mem # <<>> /\ Begins(mem)
  BY <1>1 DEF Kept, Memories, Places
<1>3. Message("ai", shown) \in Messages /\ Message("ai", shown).kind \notin {"system", "tool"}
  BY MessageOf
<1>4. t \in Seq(Messages) /\ t # <<>> /\ Begins(t)
  BY <1>2, <1>3, AppendHolds
<1>5. calls \in Seq({"tool", "ask"}) /\ <<>> \in Seq({"tool", "ask"})
  BY ConversationConstants, EmptySeq
<1>6. next \in {"ready", "trimming", "acting"}
  OBVIOUS
<1>7. Store(t, next)
  BY <1>1
<1> HIDE DEF t, next
<1>8. Memories' /\ at' \in {next, "idle"} /\ unsaved' \in 0 .. MaxUnsaved /\ mem' = t
  BY <1>4, <1>6, <1>7, StoreKeeps DEF Kept, Loop
<1>9. at' \in {"ready", "acting", "idle"}
  BY <1>8 DEF next
<1>10. Places'
  BY <1>4, <1>8, <1>9 DEF Places
<1>11. todo' \in Seq({"tool", "ask"}) /\ (todo' # <<>> => at' = "acting")
  BY <1>1, <1>5
<1>12. Loop'
  BY <1>1, <1>8, <1>9, <1>11 DEF Kept, Loop
<1> QED BY <1>8, <1>10, <1>12 DEF Kept

LEMMA CallEndsKeeps == Kept /\ CallEnds => Kept'
<1> SUFFICES ASSUME Kept, CallEnds PROVE Kept'
  OBVIOUS
<1>1. /\ at = "acting" /\ todo # <<>> /\ call' = call
      /\ mem' = mem /\ saved' = saved /\ loaded' = loaded /\ unsaved' = unsaved
      /\ \/ at' = "idle" /\ todo' = <<>> /\ results' = 0
         \/ at' = "acting" /\ todo' = Tail(todo) /\ results' = results + 1
  BY DEF CallEnds, callVars
<1>2. Memories' /\ Places'
  BY <1>1 DEF Kept, Memories, Places, Begins
<1>3. todo' \in Seq({"tool", "ask"})
  <2>1. todo \in Seq({"tool", "ask"}) /\ todo # <<>>
    BY <1>1 DEF Kept, Loop
  <2>2. Tail(todo) \in Seq({"tool", "ask"}) /\ <<>> \in Seq({"tool", "ask"})
    BY <2>1, EmptySeq, HeadTailProperties
  <2> QED BY <1>1, <2>2
<1>4. Loop'
  BY <1>1, <1>3 DEF Kept, Loop
<1> QED BY <1>2, <1>4 DEF Kept

LEMMA SendResultsKeeps == Kept /\ SendResults => Kept'
<1> SUFFICES ASSUME Kept, SendResults PROVE Kept'
  OBVIOUS
<1>1. PICK advice \in {<<>>, <<Message("human", <<>>)>>} :
        Store(mem \o Tools(results) \o advice, "trimming")
  BY DEF SendResults
<1>2. at = "acting" /\ todo = <<>> /\ results' = 0 /\ loaded' = loaded /\ todo' = todo /\ call' = call
  BY DEF SendResults, callVars
<1> DEFINE t == mem \o Tools(results) \o advice
<1>3. mem \in Seq(Messages) /\ mem # <<>> /\ Begins(mem) /\ results \in Nat
  BY <1>2 DEF Kept, Memories, Places, Loop
<1>4. t \in Seq(Messages) /\ t # <<>> /\ Begins(t)
  BY <1>3, ResultsHold
<1>5. Store(t, "trimming")
  BY <1>1
<1> HIDE DEF t
<1>6. Memories' /\ at' \in {"trimming", "idle"} /\ unsaved' \in 0 .. MaxUnsaved /\ mem' = t
  BY <1>4, <1>5, StoreKeeps DEF Kept, Loop
<1>7. Places' /\ Loop'
  BY <1>2, <1>4, <1>6 DEF Kept, Places, Loop
<1> QED BY <1>6, <1>7 DEF Kept

LEMMA CompactKeeps == Kept /\ Compact => Kept'
<1> SUFFICES ASSUME Kept, Compact PROVE Kept'
  OBVIOUS
<1>1. /\ saved' = mem /\ mem' = mem /\ at' = at /\ loaded' = loaded /\ todo' = todo
      /\ results' = results /\ unsaved' = unsaved /\ call' = call
  BY DEF Compact, callVars
<1> QED BY <1>1 DEF Kept, Memories, Places, Loop, Begins

LEMMA TooLongLeaves ==
  ASSUME Kept, TooLong
  PROVE  /\ at = "sending" /\ loaded' = loaded /\ todo' = todo /\ results' = results
         /\ \/ /\ at' = "idle" /\ call' = "raised"
               /\ mem' = mem /\ saved' = saved /\ unsaved' = unsaved
            \/ /\ at' = "sending" /\ call' = "asking" /\ KeptOrSaved
               /\ Trimmed(mem, mem')
<1>1. at = "sending" /\ loaded' = loaded /\ todo' = todo /\ results' = results
  BY DEF TooLong
<1>2. CASE ~CanReduce
  BY <1>1, <1>2, CallMoves DEF TooLong
<1>3. CASE CanReduce
  <2>1. at' = "sending" /\ call' = "asking" /\ KeptOrSaved
    BY <1>1, <1>3, CallMoves DEF TooLong
  <2>2. mem \in Seq(Messages) /\ mem # <<>> /\ Begins(mem)
    BY <1>1 DEF Kept, Memories, Places
  <2> DEFINE s == Dropped(mem, KeepLast)
  <2>3. mem' \in {mem, s, Dropped(s, KeepFewer)}
    BY <1>3 DEF TooLong
  <2>4. KeepLast \in Nat \ {0} /\ KeepFewer \in Nat \ {0}
    BY ConversationConstants
  <2>5. s \in Seq(Messages) /\ s # <<>> /\ Begins(s) /\ (Paired(mem) => Paired(s))
    BY <2>2, <2>4, DroppedHolds
  <2> HIDE DEF s
  <2>6. /\ Dropped(s, KeepFewer) \in Seq(Messages) /\ Dropped(s, KeepFewer) # <<>>
        /\ Begins(Dropped(s, KeepFewer)) /\ (Paired(s) => Paired(Dropped(s, KeepFewer)))
    BY <2>4, <2>5, DroppedHolds
  <2>7. Trimmed(mem, mem')
    <3>1. CASE mem' = mem
      BY <2>2, <3>1 DEF Trimmed
    <3>2. CASE mem' = s
      BY <2>5, <3>2 DEF Trimmed
    <3>3. CASE mem' = Dropped(s, KeepFewer)
      BY <2>5, <2>6, <3>3 DEF Trimmed
    <3> QED BY <2>3, <3>1, <3>2, <3>3
  <2> QED BY <1>1, <2>1, <2>7
<1> QED BY <1>2, <1>3

LEMMA TooLongKeeps == Kept /\ TooLong => Kept'
<1> SUFFICES ASSUME Kept, TooLong PROVE Kept'
  OBVIOUS
<1>1. at = "sending" /\ loaded' = loaded /\ todo' = todo /\ results' = results
  BY TooLongLeaves
<1>2. CASE at' = "idle" /\ call' = "raised" /\ mem' = mem /\ saved' = saved /\ unsaved' = unsaved
  BY <1>1, <1>2 DEF Kept, Memories, Places, Loop, Begins
<1>3. CASE at' = "sending" /\ call' = "asking" /\ KeptOrSaved /\ Trimmed(mem, mem')
  <2>1. mem' \in Seq(Messages) /\ mem' # <<>> /\ Begins(mem)'
    BY <1>3 DEF Trimmed, Begins
  <2>2. Memories' /\ unsaved' \in 0 .. MaxUnsaved
    BY <1>3, <2>1, SavingKeeps DEF Kept, Loop
  <2>3. Places' /\ Loop'
    BY <1>1, <1>3, <2>1, <2>2 DEF Kept, Places, Loop
  <2> QED BY <2>2, <2>3 DEF Kept
<1> QED BY <1>2, <1>3, TooLongLeaves

(* The steps that leave both memories alone                                  *)
LEMMA OthersKeep == Kept /\ (Retry \/ Summarise \/ Stream \/ Leave) => Kept'
<1> SUFFICES ASSUME Kept, Retry \/ Summarise \/ Stream \/ Leave PROVE Kept'
  OBVIOUS
<1>1. mem' = mem /\ saved' = saved /\ loaded' = loaded /\ unsaved' = unsaved
  BY DEF Retry, Summarise, Stream, Leave
<1>2. Memories'
  BY <1>1 DEF Kept, Memories, Begins
<1>3. CASE Retry
  <2>1. call' \in {"asking", "waiting", "raised"}
    BY <1>3, CallMoves DEF Retry
  <2>2. /\ at = "sending" /\ todo' = todo /\ results' = results
        /\ at' = IF call' = "raised" THEN "idle" ELSE at
    BY <1>3 DEF Retry
  <2> QED BY <1>1, <1>2, <2>1, <2>2 DEF Kept, Places, Loop
<1>4. CASE Summarise
  <2>1. at = "ready" /\ at' = "streaming" /\ mem # <<>> /\ call' = "asking" /\ todo' = todo /\ results' = results
    BY <1>4, CallMoves DEF Summarise
  <2> QED BY <1>1, <1>2, <2>1 DEF Kept, Places, Loop
<1>5. CASE Stream
  <2>1. call' \in {"asking", "waiting", "raised", "answered"}
    BY <1>5, CallMoves DEF Stream
  <2>2. /\ at = "streaming" /\ todo' = todo /\ results' = results
        /\ at' = IF call' \in {"answered", "raised"} THEN "ready" ELSE at
    BY <1>5 DEF Stream
  <2> QED BY <1>1, <1>2, <2>1, <2>2 DEF Kept, Places, Loop
<1>6. CASE Leave
  <2>1. at \in {"ready", "acting"} /\ at' = "idle" /\ todo' = <<>> /\ results' = 0 /\ call' = call
    BY <1>6 DEF Leave, callVars
  <2>2. <<>> \in Seq({"tool", "ask"})
    BY EmptySeq
  <2> QED BY <1>1, <1>2, <2>1, <2>2 DEF Kept, Places, Loop
<1> QED BY <1>3, <1>4, <1>5, <1>6

LEMMA LoseKeeps == Kept /\ Lose => Kept'
<1> SUFFICES ASSUME Kept, Lose PROVE Kept'
  OBVIOUS
<1>1. /\ at' = "idle" /\ loaded' = FALSE /\ mem' = <<>> /\ todo' = <<>> /\ results' = 0
      /\ saved' = saved /\ unsaved' = unsaved
  BY DEF Lose
<1>2. call' \notin {"asking", "waiting"}
  <2>1. CASE call \in {"asking", "waiting"}
    BY <2>1, CallMoves DEF Lose
  <2>2. CASE call \notin {"asking", "waiting"}
    BY <2>2 DEF Lose, callVars
  <2> QED BY <2>1, <2>2
<1>3. <<>> \in Seq({"tool", "ask"}) /\ <<>> \in Seq(Messages)
  BY EmptySeq
<1>4. Memories'
  BY <1>1, <1>3 DEF Kept, Memories, Begins
<1>5. (at' \in {"sending", "streaming"}) = (call' \in {"asking", "waiting"})
  BY <1>1, <1>2
<1>6. Places' /\ Loop'
  BY <1>1, <1>3, <1>5 DEF Kept, Places, Loop
<1> QED BY <1>4, <1>6 DEF Kept

LEMMA KeptStep == Kept /\ [Next]_vars => Kept'
<1>1. Kept /\ UNCHANGED vars => Kept'
  BY DEF vars, conversation, callVars, Kept, Memories, Places, Loop, Begins
<1>2. Kept /\ Next => Kept'
  BY BeginTurnKeeps, RequestKeeps, TrimKeeps, ReplyKeeps, CallEndsKeeps, SendResultsKeeps,
     CompactKeeps, TooLongKeeps, OthersKeep, LoseKeeps DEF Next
<1> QED BY <1>1, <1>2

LEMMA KeptHolds == Spec => []Kept
BY KeptInit, KeptStep, PTL DEF Spec

(* Types, and: of the memory only the first message is the system's, and     *)
(* only replies have calls; a request is under way exactly while the agent   *)
(* waits for one.                                                            *)
THEOREM TypeCorrect == Spec => []TypeOK
<1>1. Kept /\ LadderInv => TypeOK
  <2> SUFFICES ASSUME Kept, LadderInv PROVE TypeOK
    OBVIOUS
  <2>1. CallTypeOK
    BY Budgets DEF LadderInv, Typed, Paid, Counts, Said, CallTypeOK
  <2>2. ASSUME NEW s \in Seq(Messages), s # <<>> => Begins(s), NEW i \in DOMAIN s
        PROVE  /\ s[i].kind \in Kinds /\ s[i].calls \in Replies
               /\ (i = 1) = (s[i].kind = "system")
               /\ s[i].calls # <<>> => s[i].kind = "ai"
    <3>1. s[i] \in Messages /\ i \in 1 .. Len(s) /\ Len(s) \in Nat /\ s # <<>>
      BY MemoryOf
    <3>2. s[i].kind \in Kinds /\ s[i].calls \in Replies /\ (s[i].calls # <<>> => s[i].kind = "ai")
      BY <3>1, MessageTypes
    <3>3. CASE i = 1
      <4>1. s[i].kind = "system"
        BY <2>2, <3>1, <3>3 DEF Begins, Message
      <4> QED BY <3>2, <3>3, <4>1
    <3>4. CASE i # 1
      <4>1. i > 1
        BY <3>1, <3>4
      <4>2. s[i].kind # "system"
        BY <2>2, <3>1, <4>1 DEF Begins
      <4> QED BY <3>2, <3>4, <4>2
    <3> QED BY <3>3, <3>4
  <2>3. \A s \in {mem, saved} :
          \A i \in DOMAIN s : /\ s[i].kind \in Kinds /\ s[i].calls \in Replies
                              /\ (i = 1) = (s[i].kind = "system")
                              /\ s[i].calls # <<>> => s[i].kind = "ai"
    BY <2>2 DEF Kept, Memories
  <2>4. at \in {"idle", "ready", "trimming", "sending", "acting", "streaming"}
    BY DEF Kept, Places
  <2> QED BY <2>1, <2>3, <2>4 DEF Kept, Loop, TypeOK
<1> QED BY <1>1, KeptHolds, LadderHolds, PTL

(* However often the conversation is trimmed, summarised, rolled back and    *)
(* loaded again, what the model is sent begins with the goal.                *)
THEOREM GoalIsKeptHolds == Spec => []GoalIsKept
<1>1. Kept => GoalIsKept
  <2> SUFFICES ASSUME Kept, at = "sending" PROVE mem[Min(IndicesOf(mem, IsHuman))].kind = "goal"
    BY DEF GoalIsKept
  <2>1. mem \in Seq(Messages) /\ mem # <<>> /\ Begins(mem)
    BY DEF Kept, Memories, Places
  <2> QED BY <2>1, FirstIsGoal
<1> QED BY <1>1, KeptHolds, PTL

-----------------------------------------------------------------------------
(* Calls and results.  A memory is paired, or ends with the reply whose      *)
(* calls are being executed or were interrupted; a run that begins makes it  *)
(* paired again, and only the results of all calls of a reply join it.       *)

Good(s) == Paired(s) \/ Open(s)
Pairs ==
  /\ Good(mem) /\ Good(saved)
  /\ at \in {"ready", "trimming", "sending", "streaming"} => Paired(mem)
  /\ at = "acting" => Open(mem) /\ Len(todo) + results = Len(mem[Len(mem)].calls)
  /\ at # "acting" => results = 0

(* The replies for which the code keeps calls and results together: calls    *)
(* come as such, and a question alone.                                       *)
PlainCalls == MayLeak = FALSE /\ QuestionsComeAlone

LEMMA PairsInit == Init => Pairs
BY EmptyPaired DEF Init, Pairs, Good

LEMMA StoreAt ==
  ASSUME NEW s, NEW next, Store(s, next)
  PROVE  mem' = s /\ saved' \in {s, saved} /\ at' \in {next, "idle"}
BY DEF Store

LEMMA SavedGood ==
  ASSUME Good(saved), Good(mem'), saved' \in {mem', saved}
  PROVE  Good(mem)' /\ Good(saved)'
<1>1. Good(saved')
  BY Zenon
<1> QED BY <1>1 DEF Good, Open, Paired, Complete

LEMMA BeginTurnPairs == PlainCalls /\ Kept /\ Pairs /\ BeginTurn => Pairs'
<1> SUFFICES ASSUME PlainCalls, Kept, Pairs, BeginTurn PROVE Pairs'
  OBVIOUS
<1> DEFINE s == IF loaded THEN mem ELSE saved
<1>1. /\ at = "idle" /\ results' = results
      /\ IF RolledBack(s) = s
         THEN mem' = s /\ at' = "ready" /\ saved' = saved /\ unsaved' = unsaved
         ELSE Store(RolledBack(s), "ready")
  BY DEF BeginTurn
<1>2. s \in Seq(Messages) /\ Good(s)
  BY DEF Kept, Memories, Pairs
<1> HIDE DEF s
<1>3. Paired(RolledBack(s))
  BY <1>2, RolledBackPaired DEF Good, PlainCalls
<1>4. mem' = RolledBack(s) /\ saved' \in {mem', saved} /\ at' \in {"ready", "idle"}
  BY <1>1, StoreAt
<1>5. Good(mem)' /\ Good(saved)' /\ Paired(mem)'
  <2>1. Paired(mem')
    BY <1>3, <1>4
  <2>2. Good(mem') /\ Good(saved)
    BY <2>1 DEF Good, Pairs
  <2> QED BY <1>4, <2>1, <2>2, SavedGood DEF Paired, Complete
<1>6. results' = 0
  BY <1>1 DEF Pairs
<1> QED BY <1>4, <1>5, <1>6 DEF Pairs

LEMMA RequestPairs == Kept /\ Pairs /\ Request => Pairs'
<1> SUFFICES ASSUME Kept, Pairs, Request PROVE Pairs'
  OBVIOUS
<1> DEFINE t == Append(Opened(mem), Human(mem))
<1>1. at = "ready" /\ results' = results /\ Store(t, "trimming")
  BY DEF Request
<1>2. Paired(t)
  BY <1>1, RequestHolds DEF Kept, Memories, Pairs
<1> HIDE DEF t
<1>3. mem' = t /\ saved' \in {mem', saved} /\ at' \in {"trimming", "idle"}
  BY <1>1, StoreAt
<1>4. Good(mem)' /\ Good(saved)' /\ Paired(mem)'
  <2>1. Paired(mem')
    BY <1>2, <1>3
  <2>2. Good(mem') /\ Good(saved)
    BY <2>1 DEF Good, Pairs
  <2> QED BY <1>3, <2>1, <2>2, SavedGood DEF Paired, Complete
<1>5. results' = 0
  BY <1>1 DEF Pairs
<1> QED BY <1>3, <1>4, <1>5 DEF Pairs

(* A reduction of the context, before a call or after one was too long       *)
LEMMA TrimmedPairs ==
  ASSUME Pairs, at \in {"trimming", "sending"}, at' = "sending", results' = results,
         Trimmed(mem, mem'), saved' \in {mem', saved}
  PROVE  Pairs'
<1>1. Paired(mem')
  BY DEF Pairs, Trimmed
<1>2. Good(mem') /\ Good(saved)
  BY <1>1 DEF Good, Pairs
<1>3. Good(mem)' /\ Good(saved)' /\ Paired(mem)'
  BY <1>1, <1>2, SavedGood DEF Paired, Complete
<1>4. results' = 0
  BY DEF Pairs
<1> QED BY <1>3, <1>4 DEF Pairs

LEMMA ReplyPairs == PlainCalls /\ Kept /\ Pairs /\ Reply => Pairs'
<1> SUFFICES ASSUME PlainCalls, Kept, Pairs, Reply PROVE Pairs'
  OBVIOUS
<1>1. PICK calls \in Replies :
        /\ at = "sending" /\ results' = results
        /\ Store(Append(mem, Message("ai", calls)), IF calls = <<>> THEN "ready" ELSE "acting")
        /\ todo' = IF at' = "acting" THEN calls ELSE <<>>
  BY ReplyAdds DEF PlainCalls
<1> DEFINE m == Message("ai", calls)
           t == Append(mem, m)
           next == IF calls = <<>> THEN "ready" ELSE "acting"
<1>2. mem \in Seq(Messages) /\ mem # <<>> /\ Begins(mem) /\ Paired(mem) /\ results = 0
  BY <1>1 DEF Kept, Memories, Places, Pairs
<1>3. m \in Messages /\ m.kind \notin {"system", "tool"} /\ m.calls = calls
  BY MessageOf
<1>4. Store(t, next)
  BY <1>1
<1> HIDE DEF m
<1>5. /\ t[Len(t)] = m
      /\ calls = <<>> => Paired(t)
      /\ calls # <<>> => Open(t)
  BY <1>2, <1>3, AppendHolds
<1> HIDE DEF t, next
<1>6. mem' = t /\ saved' \in {mem', saved} /\ at' \in {next, "idle"}
  BY <1>4, StoreAt
<1>7. Good(mem)' /\ Good(saved)'
  <2>1. Good(mem') /\ Good(saved)
    BY <1>5, <1>6 DEF Good, Pairs
  <2> QED BY <1>6, <2>1, SavedGood
<1>8. results' = 0
  BY <1>1, <1>2
<1>9. CASE calls = <<>>
  <2>1. Paired(mem)'
    BY <1>5, <1>6, <1>9 DEF Paired, Complete
  <2>2. at' \in {"ready", "idle"}
    BY <1>6, <1>9 DEF next
  <2> QED BY <1>7, <1>8, <2>1, <2>2 DEF Pairs
<1>10. CASE calls # <<>>
  <2>1. Open(t) /\ mem' = t
    BY <1>5, <1>6, <1>10
  <2>2. at' \in {"acting", "idle"}
    BY <1>6, <1>10 DEF next
  <2>3. Open(mem)'
    BY <2>1 DEF Open, Paired, Complete
  <2>4. at' = "acting" => Len(todo') + results' = Len(mem'[Len(mem')].calls)
    <3> SUFFICES ASSUME at' = "acting" PROVE Len(todo') + results' = Len(mem'[Len(mem')].calls)
      OBVIOUS
    <3>1. todo' = calls
      BY <1>1
    <3>2. mem'[Len(mem')].calls = calls
      BY <1>3, <1>5, <2>1
    <3>3. Len(calls) \in Nat
      BY ConversationConstants
    <3> QED BY <1>8, <3>1, <3>2, <3>3
  <2> QED BY <1>7, <1>8, <2>2, <2>3, <2>4 DEF Pairs
<1> QED BY <1>9, <1>10

LEMMA CallEndsPairs == Kept /\ Pairs /\ CallEnds => Pairs'
<1> SUFFICES ASSUME Kept, Pairs, CallEnds PROVE Pairs'
  OBVIOUS
<1>1. /\ at = "acting" /\ todo # <<>> /\ mem' = mem /\ saved' = saved
      /\ \/ at' = "idle" /\ results' = 0
         \/ at' = "acting" /\ todo' = Tail(todo) /\ results' = results + 1
  BY DEF CallEnds
<1>2. Good(mem)' /\ Good(saved)' /\ (Open(mem) => Open(mem)')
  BY <1>1 DEF Pairs, Good, Open, Paired, Complete
<1>3. CASE at' = "idle" /\ results' = 0
  BY <1>2, <1>3 DEF Pairs
<1>4. CASE at' = "acting" /\ todo' = Tail(todo) /\ results' = results + 1
  <2>1. todo \in Seq({"tool", "ask"}) /\ results \in Nat
    BY DEF Kept, Loop
  <2>2. Len(Tail(todo)) = Len(todo) - 1 /\ Len(todo) \in Nat
    BY <1>1, <2>1, HeadTailProperties, LenProperties
  <2>3. Len(todo) + results = Len(mem[Len(mem)].calls) /\ Open(mem)
    BY <1>1 DEF Pairs
  <2>4. Len(todo') + results' = Len(todo) + results
    <3>1. PICK l \in Nat : l = Len(todo)
      BY <2>2
    <3>2. Len(todo') = l - 1 /\ results' = results + 1
      BY <1>4, <2>2, <3>1
    <3> QED BY <2>1, <3>1, <3>2
  <2>5. Len(todo') + results' = Len(mem'[Len(mem')].calls)
    BY <1>1, <2>3, <2>4
  <2> QED BY <1>2, <1>4, <2>3, <2>5 DEF Pairs
<1> QED BY <1>1, <1>3, <1>4

LEMMA SendResultsPairs == Kept /\ Pairs /\ SendResults => Pairs'
<1> SUFFICES ASSUME Kept, Pairs, SendResults PROVE Pairs'
  OBVIOUS
<1>1. PICK advice \in {<<>>, <<Message("human", <<>>)>>} :
        Store(mem \o Tools(results) \o advice, "trimming")
  BY DEF SendResults
<1>2. at = "acting" /\ todo = <<>> /\ results' = 0
  BY DEF SendResults
<1> DEFINE t == mem \o Tools(results) \o advice
<1>3. mem \in Seq(Messages) /\ mem # <<>> /\ Begins(mem) /\ results \in Nat /\ Open(mem)
  BY <1>2 DEF Kept, Memories, Places, Loop, Pairs
<1>4. results = Len(mem[Len(mem)].calls)
  BY <1>2, <1>3 DEF Pairs
<1>5. Paired(t)
  BY <1>3, <1>4, ResultsHold
<1>6. Store(t, "trimming")
  BY <1>1
<1> HIDE DEF t
<1>7. mem' = t /\ saved' \in {mem', saved} /\ at' \in {"trimming", "idle"}
  BY <1>6, StoreAt
<1>8. Good(mem)' /\ Good(saved)' /\ Paired(mem)'
  <2>1. Paired(mem')
    BY <1>5, <1>7
  <2>2. Good(mem') /\ Good(saved)
    BY <2>1 DEF Good, Pairs
  <2> QED BY <1>7, <2>1, <2>2, SavedGood DEF Paired, Complete
<1> QED BY <1>2, <1>7, <1>8 DEF Pairs

(* The steps that change at most one memory, and not its messages            *)
LEMMA OthersPair ==
  ASSUME Kept, Pairs, mem' = mem, saved' \in {mem, saved},
         \/ at' = at /\ results' = results /\ todo' = todo
         \/ at' = "idle" /\ results' = 0
         \/ at \in {"ready", "streaming"} /\ at' \in {"ready", "streaming"} /\ results' = results
  PROVE  Pairs'
<1>1. Good(mem)' /\ Good(saved)' /\ (Open(mem) => Open(mem)') /\ (Paired(mem) => Paired(mem)')
  <2>1. Good(mem') /\ Good(saved) /\ saved' \in {mem', saved}
    BY DEF Pairs
  <2>2. Good(mem)' /\ Good(saved)'
    BY <2>1, SavedGood
  <2>3. Open(mem) => Open(mem)'
    BY DEF Open, Paired, Complete
  <2>4. Paired(mem) => Paired(mem)'
    BY DEF Paired, Complete
  <2> QED BY <2>2, <2>3, <2>4
<1>2. CASE at' = at /\ results' = results /\ todo' = todo
  <2>1. Len(todo') + results' = Len(todo) + results /\ mem'[Len(mem')].calls = mem[Len(mem)].calls
    BY <1>2
  <2> QED BY <1>1, <1>2, <2>1 DEF Pairs
<1>3. CASE at' = "idle" /\ results' = 0
  BY <1>1, <1>3 DEF Pairs
<1>4. CASE /\ at \in {"ready", "streaming"} /\ at' \in {"ready", "streaming"}
           /\ results' = results
  BY <1>1, <1>4 DEF Pairs
<1> QED BY <1>2, <1>3, <1>4

LEMMA LosePairs == Pairs /\ Lose => Pairs'
<1> SUFFICES ASSUME Pairs, Lose PROVE Pairs'
  OBVIOUS
<1>1. at' = "idle" /\ mem' = <<>> /\ results' = 0 /\ saved' = saved
  BY DEF Lose
<1>2. Paired(mem')
  BY <1>1, EmptyPaired
<1>3. Good(mem') /\ Good(saved) /\ saved' \in {mem', saved}
  BY <1>1, <1>2 DEF Good, Pairs
<1>4. Good(mem)' /\ Good(saved)'
  BY <1>3, SavedGood
<1> QED BY <1>1, <1>4 DEF Pairs

LEMMA PairsStep == PlainCalls /\ Kept /\ Pairs /\ [Next]_vars => Pairs'
<1> SUFFICES ASSUME PlainCalls, Kept, Pairs, [Next]_vars PROVE Pairs'
  OBVIOUS
<1>1. CASE BeginTurn
  BY <1>1, BeginTurnPairs
<1>2. CASE Request
  BY <1>2, RequestPairs
<1>3. CASE Trim
  <2>1. saved' \in {mem', saved}
    BY <1>3, TrimLeaves DEF KeptOrSaved
  <2> QED BY <1>3, <2>1, TrimLeaves, TrimmedPairs
<1>4. CASE Reply
  BY <1>4, ReplyPairs
<1>5. CASE CallEnds
  BY <1>5, CallEndsPairs
<1>6. CASE SendResults
  BY <1>6, SendResultsPairs
<1>7. CASE Compact
  BY <1>7, OthersPair DEF Compact
<1>8. CASE TooLong
  <2>1. CASE at' = "idle" /\ call' = "raised" /\ mem' = mem /\ saved' = saved /\ unsaved' = unsaved
    <3>1. results' = 0
      BY <1>8, TooLongLeaves DEF Pairs
    <3> QED BY <2>1, <3>1, OthersPair
  <2>2. CASE at' = "sending" /\ call' = "asking" /\ KeptOrSaved /\ Trimmed(mem, mem')
    <3>1. saved' \in {mem', saved}
      BY <2>2 DEF KeptOrSaved
    <3> QED BY <1>8, <2>2, <3>1, TooLongLeaves, TrimmedPairs
  <2> QED BY <1>8, <2>1, <2>2, TooLongLeaves
<1>9. CASE Retry
  <2>1. /\ at = "sending" /\ mem' = mem /\ saved' = saved /\ results' = results /\ todo' = todo
        /\ at' \in {"idle", "sending"}
    BY <1>9 DEF Retry
  <2>2. results' = 0
    BY <2>1 DEF Pairs
  <2> QED BY <2>1, <2>2, OthersPair
<1>10. CASE Summarise \/ Stream
  <2>1. /\ at \in {"ready", "streaming"} /\ at' \in {"ready", "streaming"}
        /\ mem' = mem /\ saved' = saved /\ results' = results
    BY <1>10 DEF Summarise, Stream
  <2> QED BY <2>1, OthersPair
<1>11. CASE Leave
  BY <1>11, OthersPair DEF Leave
<1>12. CASE Lose
  BY <1>12, LosePairs
<1>13. CASE UNCHANGED vars
  BY <1>13, OthersPair DEF vars, conversation
<1> QED
  BY <1>1, <1>2, <1>3, <1>4, <1>5, <1>6, <1>7, <1>8, <1>9, <1>10, <1>11, <1>12, <1>13 DEF Next

(* Where calls come as such and a question comes alone, every conversation   *)
(* that is sent to the model pairs calls with results, through every         *)
(* interruption, failed save, roll back and trimming.                        *)
THEOREM WellPairedHolds ==
  ASSUME PlainCalls
  PROVE  Spec => []WellPaired
<1>1. Init => Kept /\ Pairs
  BY KeptInit, PairsInit
<1>2. Kept /\ Pairs /\ [Next]_vars => (Kept /\ Pairs)'
  BY KeptStep, PairsStep
<1>3. Kept /\ Pairs => WellPaired
  BY DEF Pairs, WellPaired
<1> QED BY <1>1, <1>2, <1>3, PTL DEF Spec

=============================================================================
