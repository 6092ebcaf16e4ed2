----------------------------- MODULE ModelCalls -----------------------------
(***************************************************************************)
(* How an agent puts one request to the language model: the retry ladder of *)
(* BaseAgent.ask_with_messages and that of astream_chunks_with_fallback,    *)
(* over a primary and a fallback provider.  Both count every kind of error  *)
(* in the same `attempt`; the choice of provider outlives the request.      *)
(*                                                                          *)
(* What a provider answers, and with which error, is nondeterministic.      *)
(*                                                                          *)
(* An operator named ...Bug is the next definition with a plausible mistake *)
(* put into it; no specification uses it.                                   *)
(***************************************************************************)
EXTENDS Naturals

CONSTANTS
  MaxRetries,       \* BaseAgent.max_retries
  ExtraAttempts,    \* _RATE_LIMIT_EXTRA_ATTEMPTS
  MaxRecoveries,    \* _MAX_CONTEXT_OVERFLOW_RECOVERIES
  HasFallback       \* a fallback provider is configured

ASSUME CallConstants ==
  /\ {MaxRetries, ExtraAttempts, MaxRecoveries} \subseteq Nat /\ MaxRetries > 0
  /\ HasFallback \in BOOLEAN

VARIABLES
  call,        \* none, asking, waiting (a back-off), answered or raised
  mode,        \* of the request under way
  attempt,     \* errors counted against the budget
  recoveries,  \* _overflow_recoveries
  emitted,     \* the stream has delivered text
  provider,    \* primary or fallback (_using_fallback)
  authFailed,  \* _primary_auth_failed
  made,        \* history: calls made to providers for this request
  texts        \* history: those whose text reached the reader

request == <<mode, attempt, recoveries, emitted, made, texts>>
keys == <<provider, authFailed>>
callVars == <<call, request, keys>>

Modes == {"tools", "stream"}   \* ask_with_messages, astream_chunks_with_fallback
Providers == {"primary", "fallback"}
LimitBudget == MaxRetries + ExtraAttempts   \* _rate_limit_budget

CallInit ==
  /\ call = "none" /\ mode = "tools"
  /\ attempt = 0 /\ recoveries = 0 /\ emitted = FALSE
  /\ provider = "primary" /\ authFailed = FALSE
  /\ made = 0 /\ texts = 0

-----------------------------------------------------------------------------
(* Providers *)

(* _switch_to_fallback_model, _switch_to_primary_model: whether they can *)
CanFallBack == provider = "primary" /\ HasFallback
\* The dead key is forgotten.
CanGoBackBug == provider = "fallback"
CanGoBack == provider = "fallback" /\ ~authFailed

(* _rotate_provider_for_limit: an exhausted balance does not clear, so it *)
(* never leads back to the primary.                                       *)
Rotate(exhausted) ==
  provider' = IF CanFallBack THEN "fallback"
              ELSE IF CanGoBack /\ ~exhausted THEN "primary" ELSE provider

-----------------------------------------------------------------------------
(* A request *)

Ask(m) ==
  /\ call \in {"none", "answered", "raised"}
  /\ call' = "asking" /\ mode' = m
  /\ made' = 1
  /\ UNCHANGED <<attempt, recoveries, emitted, texts, keys>>

\* The next call of the loop: nothing of it was delivered yet.
Again == call' = "asking" /\ made' = made + 1 /\ emitted' = FALSE

\* The request is over, and its counters with it.
Over(how) ==
  /\ call' = how /\ mode' = "tools"
  /\ attempt' = 0 /\ recoveries' = 0 /\ emitted' = FALSE /\ made' = 0 /\ texts' = 0
Raise == Over("raised") /\ UNCHANGED keys

(* A first chunk of text *)
Streams ==
  /\ call = "asking" /\ mode = "stream" /\ ~emitted
  /\ emitted' = TRUE /\ texts' = texts + 1
  /\ UNCHANGED <<call, mode, attempt, recoveries, made, keys>>

Answers == call = "asking" /\ Over("answered") /\ UNCHANGED keys

(* The connection breaks after text was delivered: no retry. *)
Breaks == call = "asking" /\ emitted /\ Raise

\* Also after text was delivered.
FailingBug == call = "asking"
Failing == call = "asking" /\ ~emitted

(* ToolCallParseError: asked again at once *)
Garbled ==
  /\ Failing /\ mode = "tools"
  /\ IF attempt >= MaxRetries - 1 THEN Raise
     ELSE Again /\ attempt' = attempt + 1 /\ UNCHANGED <<mode, recoveries, texts, keys>>

(* A back-off, which counts *)
BackOff ==
  /\ call' = "waiting" /\ attempt' = attempt + 1
  /\ UNCHANGED <<mode, recoveries, emitted, made, texts, authFailed>>

(* 5xx, network, "no endpoints found": the short budget *)
Transient ==
  /\ Failing
  /\ IF attempt >= MaxRetries - 1 THEN Raise ELSE BackOff /\ UNCHANGED provider

(* The patient path of a limit, with the other provider when there is one *)
Patient(exhausted) ==
  IF attempt >= LimitBudget - 1 THEN Raise ELSE BackOff /\ Rotate(exhausted)

(* 429 and the like, or an exhausted balance *)
Limited(exhausted) == Failing /\ Patient(exhausted)

(* The key is refused.  The tool loop swaps the provider once, without a    *)
(* wait; the stream takes it for a limit.                                   *)
KeyRefused ==
  /\ Failing
  /\ IF mode = "stream" THEN Patient(FALSE)
     ELSE /\ authFailed' = (authFailed \/ provider = "primary")
          /\ IF CanFallBack
             THEN Again /\ provider' = "fallback" /\ UNCHANGED <<mode, attempt, recoveries, texts>>
             ELSE Over("raised") /\ UNCHANGED provider

(* The prompt is too long: asked again after a reduction of the context. *)
CanReduce == recoveries < MaxRecoveries
Overflow ==
  /\ Failing
  /\ IF CanReduce
     THEN Again /\ recoveries' = recoveries + 1 /\ UNCHANGED <<mode, attempt, texts, keys>>
     ELSE Raise

(* Any other error *)
Fatal == Failing /\ Raise

\* A sleep on the fallback provider does not end.
WakesBug ==
  /\ call = "waiting" /\ provider = "primary" /\ Again
  /\ UNCHANGED <<mode, attempt, recoveries, texts, keys>>

(* The back-off is over. *)
Wakes ==
  /\ call = "waiting" /\ Again
  /\ UNCHANGED <<mode, attempt, recoveries, texts, keys>>

(* The task is cancelled. *)
Cancelled == call \in {"asking", "waiting"} /\ Raise

Fails == Garbled \/ Transient \/ KeyRefused \/ Fatal \/ \E e \in BOOLEAN : Limited(e)

CallNext ==
  \/ \E m \in Modes : Ask(m)
  \/ Answers \/ Streams \/ Breaks \/ Fails \/ Overflow \/ Wakes \/ Cancelled

CallSpec == CallInit /\ [][CallNext]_callVars

(* A provider answers or fails (the SDK has a timeout), and a sleep ends. *)
CallFairness == WF_callVars(Answers \/ Breaks \/ Fails \/ Overflow) /\ WF_callVars(Wakes)

-----------------------------------------------------------------------------
(* Correctness *)

CallTypeOK ==
  /\ call \in {"none", "asking", "waiting", "answered", "raised"}
  /\ mode \in Modes
  /\ attempt \in 0 .. LimitBudget /\ recoveries \in 0 .. MaxRecoveries
  /\ emitted \in BOOLEAN /\ provider \in Providers /\ authFailed \in BOOLEAN
  /\ made \in Nat /\ texts \in Nat

(* However the kinds of errors mix, a request calls the providers at most   *)
(* as often as its budgets allow together, with one swap for a dead key.    *)
BoundedCalls == made <= LimitBudget + MaxRecoveries + 1

(* Text of at most one call reaches the reader: a stream that has delivered *)
(* some is never started again.                                             *)
NoTextTwice == texts <= 1

(* The tool loop never goes back to a primary whose key it saw refused.     *)
DeadKeyStaysDead == authFailed /\ HasFallback => provider = "fallback"

(* Every request is answered or fails. *)
RequestsEnd == (call \in {"asking", "waiting"}) ~> (call \in {"answered", "raised"})
=============================================================================
