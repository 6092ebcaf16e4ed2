----------------------- MODULE SandboxLifecycleProofs -----------------------
(* Theorems about SandboxLifecycle, for every value of its constants. *)
EXTENDS SandboxLifecycle, FiniteSetTheorems, SequenceTheorems, TLAPS

-----------------------------------------------------------------------------
(* The inductive invariant, part by part *)

Places == {"idle", "lock", "get", "connected", "create", "publish", "ensure", "boot",
           "browser", "run", "asked", "pausing", "frozen", "watch", "loop", "done",
           "failed"}

Locals == [at : Places,
           snap : {Local, None} \cup 1..MaxVMs,
           has : {Local, None} \cup 1..MaxWrappers,
           phase : {"got", "new", "made", "tool"}]

VmStates == {"running", "paused", "gone"}
Wrappers == [vm : 1..MaxVMs, boot : BOOLEAN, busy : BOOLEAN, out : BOOLEAN]

Rest ==
  /\ stray \in SUBSET (1..MaxVMs) /\ unsure \in SUBSET (1..MaxVMs)
  /\ provider \in {"on", "cooling", "off"}
  /\ doc \in {Local, None} \cup 1..MaxVMs /\ lock \in Locking \cup {NoOne}
  /\ faults \in [expired : 0..MaxExpired, failed : 0..MaxFailures,
                 restarts : 0..MaxRestarts]
  /\ lost \in SUBSET Turns

(* TypeOK but for the bound of the viewers' counts, which takes more. *)
Formed ==
  /\ Rest
  /\ vm \in Seq(VmStates) /\ Len(vm) <= MaxVMs
  /\ wraps \in Seq(Wrappers) /\ Len(wraps) <= MaxWrappers
  /\ registry \in Seq(0..MaxWrappers) /\ watching \in Seq(Int)
  /\ caller \in [Callers -> Locals]

(* Every VM has a slot of the registry; a registered wrapper is one of its   *)
(* VM; no index dangles.                                                     *)
Linked ==
  /\ Len(registry) = Len(vm) /\ Len(watching) = Len(vm) /\ doc <= Len(vm)
  /\ \A w \in 1..Len(wraps) : wraps[w].vm <= Len(vm)
  /\ \A v \in 1..Len(vm) : registry[v] # None =>
       registry[v] <= Len(wraps) /\ wraps[registry[v]].vm = v

(* What a caller holds at each place.                                        *)
Settled(me) ==
  /\ me.snap <= Len(vm) /\ me.has <= Len(wraps)
  /\ me.at \in {"idle", "done", "failed"} => me.has = None
  /\ me.at \in {"ensure", "boot", "browser", "pausing", "frozen", "watch", "loop"} =>
       me.has > 0
  /\ me.at \in {"run", "publish", "asked"} => me.has # None
  /\ me.at = "connected" => me.snap > 0
Holds == \A c \in Callers : Settled(caller[c])

Shape == Formed /\ Linked /\ Holds

-----------------------------------------------------------------------------
(* The step of one caller *)

LEMMA GoMoves ==
  ASSUME caller \in [Callers -> Locals], NEW c \in Callers, NEW me \in Locals,
         NEW l \in Places, Go(c, me, l)
  PROVE  /\ caller' \in [Callers -> Locals]
         /\ caller'[c] = IF l \in {"done", "failed"} THEN Fresh(l) ELSE [me EXCEPT !.at = l]
         /\ \A d \in Callers : d # c => caller'[d] = caller[d]
<1>1. Fresh(l) \in Locals
  BY DEF Fresh, Locals, None, Local
<1>2. [me EXCEPT !.at = l] \in Locals
  BY DEF Locals
<1> QED BY <1>1, <1>2 DEF Go

(* The locals after a move that keeps what me holds. *)
LEMMA GoFields ==
  ASSUME NEW c \in Callers, NEW me \in Locals, NEW l \in Places, 
         caller \in [Callers -> Locals], Go(c, me, l)
  PROVE  /\ caller'[c].at = l
         /\ l \in {"done", "failed"} => caller'[c].snap = None /\ caller'[c].has = None
         /\ l \notin {"done", "failed"} =>
              /\ caller'[c].snap = me.snap /\ caller'[c].has = me.has
              /\ caller'[c].phase = me.phase
<1>1. caller'[c] = IF l \in {"done", "failed"} THEN Fresh(l) ELSE [me EXCEPT !.at = l]
  BY GoMoves
<1> QED BY <1>1 DEF Locals, Fresh

(* What has to be shown of the new place of a caller that moves, when there  *)
(* are vs VMs and ws wrappers.                                               *)
Suits(me, l, vs, ws) ==
  /\ me.snap <= vs /\ me.has <= ws
  /\ l = "idle" => me.has = None
  /\ l \in {"ensure", "boot", "browser", "pausing", "frozen", "watch", "loop"} => me.has > 0
  /\ l \in {"run", "publish", "asked"} => me.has # None
  /\ l = "connected" => me.snap > 0

LEMMA MoveSettles ==
  ASSUME Formed, Holds, NEW c \in Callers, NEW me \in Locals, NEW l \in Places,
         Go(c, me, l), Suits(me, l, Len(vm'), Len(wraps')),
         Len(vm') \in Nat, Len(wraps') \in Nat,
         Len(vm) <= Len(vm'), Len(wraps) <= Len(wraps')
  PROVE  caller' \in [Callers -> Locals] /\ Holds'
<1>1. /\ caller \in [Callers -> Locals]
      /\ Len(vm) \in Nat /\ Len(wraps) \in Nat
  BY DEF Formed
<1>2. /\ caller' \in [Callers -> Locals]
      /\ \A d \in Callers : d # c => caller'[d] = caller[d]
  BY <1>1, GoMoves
<1>3. ASSUME NEW d \in Callers PROVE Settled(caller[d])'
  <2>1. CASE d = c
    <3>1. /\ caller'[c].at = l
          /\ l \in {"done", "failed"} => caller'[c].snap = None /\ caller'[c].has = None
          /\ l \notin {"done", "failed"} =>
               caller'[c].snap = me.snap /\ caller'[c].has = me.has
      BY <1>1, GoFields
    <3>2. CASE l \in {"done", "failed"}
      BY <2>1, <3>1, <3>2 DEF Settled, None
    <3>3. CASE l \notin {"done", "failed"}
      BY <2>1, <3>1, <3>3 DEF Settled, Suits
    <3> QED BY <3>2, <3>3
  <2>2. CASE d # c
    <3>1. caller'[d] = caller[d] /\ Settled(caller[d]) /\ caller[d] \in Locals
      BY <1>1, <1>2, <2>2 DEF Holds
    <3>2. caller[d].snap \in Int /\ caller[d].has \in Int
      BY <3>1 DEF Locals, Local, None
    <3> QED BY <1>1, <3>1, <3>2 DEF Settled
  <2> QED BY <2>1, <2>2
<1> QED BY <1>2, <1>3 DEF Holds

LEMMA LinkedKept ==
  ASSUME Linked, UNCHANGED <<vm, wraps, registry>>, doc' <= Len(vm),
         Len(watching') = Len(vm)
  PROVE  Linked'
BY DEF Linked

LEMMA LocalsOf ==
  ASSUME Shape, NEW c \in Callers
  PROVE  /\ caller[c] \in Locals /\ Settled(caller[c])
         /\ caller[c].snap \in Int /\ caller[c].has \in Int
         /\ Reading(c) \in Locals /\ Reading(c).snap = doc /\ Reading(c).has = Has(c)
         /\ \A w \in {Local, None} \cup 1..MaxWrappers :
              /\ Holding(c, w) \in Locals /\ Holding(c, w).has = w
              /\ Holding(c, w).snap = caller[c].snap
              /\ \A p \in {"got", "new", "made", "tool"} :
                   /\ With(c, w, p) \in Locals /\ With(c, w, p).has = w
                   /\ With(c, w, p).snap = caller[c].snap
<1>1. caller[c] \in Locals /\ Settled(caller[c])
  BY DEF Shape, Formed, Holds
<1>2. doc \in {Local, None} \cup 1..MaxVMs
  BY DEF Shape, Formed, Rest
<1>3. caller[c].snap \in Int /\ caller[c].has \in Int
  BY <1>1 DEF Locals, Local, None
<1>4. /\ Reading(c) \in Locals /\ Reading(c).snap = doc /\ Reading(c).has = Has(c)
  BY <1>1, <1>2 DEF Locals, Reading, Has
<1>5. ASSUME NEW w \in {Local, None} \cup 1..MaxWrappers
      PROVE  /\ Holding(c, w) \in Locals /\ Holding(c, w).has = w
             /\ Holding(c, w).snap = caller[c].snap
  BY <1>1 DEF Locals, Holding
<1>6. ASSUME NEW w \in {Local, None} \cup 1..MaxWrappers,
             NEW p \in {"got", "new", "made", "tool"}
      PROVE  /\ With(c, w, p) \in Locals /\ With(c, w, p).has = w
             /\ With(c, w, p).snap = caller[c].snap
  BY <1>1 DEF Locals, With
<1> QED BY <1>1, <1>3, <1>4, <1>5, <1>6

LEMMA MoveShape ==
  ASSUME Shape, NEW c \in Callers, NEW me \in Locals, NEW l \in Places,
         Go(c, me, l), Suits(me, l, Len(vm), Len(wraps)), UNCHANGED <<vm, wraps, registry>>,
         Rest', doc' <= Len(vm), watching' \in Seq(Int), Len(watching') = Len(vm)
  PROVE  Shape'
<1>1. /\ Formed /\ Linked /\ Holds
      /\ Len(vm) \in Nat /\ Len(wraps) \in Nat
  BY DEF Shape, Formed
<1>2. Suits(me, l, Len(vm'), Len(wraps')) /\ Len(vm') = Len(vm) /\ Len(wraps') = Len(wraps)
  BY DEF Suits
<1>3. caller' \in [Callers -> Locals] /\ Holds'
  BY <1>1, <1>2, MoveSettles
<1>4. Formed'
  BY <1>1, <1>3 DEF Formed
<1> QED BY <1>1, <1>3, <1>4, LinkedKept DEF Shape

(* The same when nothing but the lock, the history or the provider changes   *)
(* besides.                                                                  *)
LEMMA PlainMove ==
  ASSUME Shape, NEW c \in Callers, NEW me \in Locals, NEW l \in Places,
         Go(c, me, l), Suits(me, l, Len(vm), Len(wraps)), UNCHANGED <<vm, wraps, registry, watching, doc>>,
         Rest'
  PROVE  Shape'
BY MoveShape DEF Shape, Formed, Linked

LEMMA ReleaseType ==
  ASSUME Rest, NEW c, Release(c) PROVE lock' \in Locking \cup {NoOne}
BY DEF Rest, Release

LEMMA FaultType ==
  ASSUME Rest,
         \/ faults.failed < MaxFailures /\ faults' = [faults EXCEPT !.failed = @ + 1]
         \/ faults.expired < MaxExpired /\ faults' = [faults EXCEPT !.expired = @ + 1]
         \/ faults.restarts < MaxRestarts /\ faults' = [faults EXCEPT !.restarts = @ + 1]
  PROVE  faults' \in [expired : 0..MaxExpired, failed : 0..MaxFailures,
                      restarts : 0..MaxRestarts]
BY SandboxConstants DEF Rest

(* A caller's place where a wrapper is at hand names one. *)
LEMMA HoldsOne ==
  ASSUME Shape, NEW c \in Callers, Has(c) > 0
  PROVE  /\ Has(c) \in 1..Len(wraps) /\ Has(c) \in 1..MaxWrappers
         /\ wraps[Has(c)] \in Wrappers /\ VmOf(c) = wraps[Has(c)].vm
         /\ VmOf(c) \in 1..Len(vm) /\ VmOf(c) \in 1..MaxVMs
<1>1. /\ Settled(caller[c]) /\ Has(c) \in Int
      /\ Len(wraps) \in Nat /\ Len(wraps) <= MaxWrappers /\ Len(vm) \in Nat
      /\ wraps \in Seq(Wrappers) /\ MaxWrappers \in Nat /\ MaxVMs \in Nat
  BY LocalsOf, SandboxConstants DEF Has, Shape, Formed
<1>2. Has(c) \in 1..Len(wraps) /\ Has(c) \in 1..MaxWrappers
  BY <1>1 DEF Settled, Has
<1>3. wraps[Has(c)] \in Wrappers
  BY <1>1, <1>2, ElementOfSeq
<1>4. wraps[Has(c)].vm <= Len(vm)
  BY <1>2 DEF Shape, Linked
<1>5. wraps[Has(c)].vm \in 1..MaxVMs
  BY <1>3 DEF Wrappers
<1> QED BY <1>1, <1>2, <1>3, <1>4, <1>5 DEF VmOf

(* A registered wrapper is one of the VM it is registered for. *)
LEMMA RegisteredOne ==
  ASSUME Shape, NEW v \in 1..Len(vm), registry[v] # None
  PROVE  /\ registry[v] \in 1..Len(wraps) /\ registry[v] \in 1..MaxWrappers
         /\ wraps[registry[v]].vm = v
<1>1. /\ registry \in Seq(0..MaxWrappers) /\ Len(registry) = Len(vm)
      /\ registry[v] <= Len(wraps) /\ wraps[registry[v]].vm = v /\ Len(wraps) \in Nat
      /\ MaxWrappers \in Nat
  BY SandboxConstants DEF Shape, Formed, Linked
<1>2. registry[v] \in 0..MaxWrappers
  BY <1>1, ElementOfSeq
<1> QED BY <1>1, <1>2 DEF None

-----------------------------------------------------------------------------
(* Every step keeps the shape *)

(* The steps that only read the document or take the lock. *)
LEMMA StartKeepsShape ==
  ASSUME Shape,
         \/ WarmupStarts \/ \E t \in Turns : TurnReads(t) \/ TurnLocks(t)
         \/ \E c \in Viewers \cup Peeks : ViewReads(c)
  PROVE  Shape'
<1> USE DEF vms, objects, rest, None, Local
<1>0. /\ Warmup \in Callers /\ Turns \subseteq Callers /\ Viewers \cup Peeks \subseteq Callers
      /\ Warmup \in Locking /\ Turns \subseteq Locking
  BY DEF Callers, Locking
<1>1. Rest /\ Len(vm) \in Nat /\ Len(wraps) \in Nat /\ doc <= Len(vm)
  BY DEF Shape, Formed, Linked
<1>2. CASE WarmupStarts
  <2>1. PICK l \in {"done", "create"} : Goto(Warmup, l)
    BY <1>2 DEF WarmupStarts
  <2>2. Rest' /\ UNCHANGED <<vm, wraps, registry, watching, doc>>
    BY <1>0, <1>1, <1>2 DEF WarmupStarts, Rest
  <2>3. caller[Warmup] \in Locals /\ Settled(caller[Warmup])
    BY <1>0, LocalsOf
  <2> QED BY <1>0, <1>1, <2>1, <2>2, <2>3, PlainMove DEF Goto, Suits, Settled, Places
<1>3. ASSUME NEW t \in Turns, TurnReads(t) PROVE Shape'
  <2>1. Go(t, Reading(t), "lock") /\ UNCHANGED <<vm, wraps, registry, watching, doc>>
    BY <1>3 DEF TurnReads
  <2>2. Rest'
    BY <1>1, <1>3 DEF TurnReads, Rest
  <2>3. /\ Reading(t) \in Locals /\ Reading(t).snap = doc /\ Reading(t).has = Has(t)
        /\ Settled(caller[t])
    BY <1>0, LocalsOf
  <2> QED BY <1>0, <1>1, <2>1, <2>2, <2>3, PlainMove DEF Suits, Settled, Places, Has
<1>4. ASSUME NEW t \in Turns, TurnLocks(t) PROVE Shape'
  <2>1. PICK l \in {"create", "get"} : Goto(t, l)
    BY <1>4 DEF TurnLocks
  <2>2. Rest' /\ UNCHANGED <<vm, wraps, registry, watching, doc>>
    BY <1>0, <1>1, <1>4 DEF TurnLocks, Rest
  <2>3. caller[t] \in Locals /\ Settled(caller[t])
    BY <1>0, LocalsOf
  <2> QED BY <1>0, <1>1, <2>1, <2>2, <2>3, PlainMove DEF Goto, Suits, Settled, Places
<1>5. ASSUME NEW c \in Viewers \cup Peeks, ViewReads(c) PROVE Shape'
  <2>1. Go(c, Reading(c), "get") /\ UNCHANGED <<vm, wraps, registry, watching, doc>>
    BY <1>5 DEF ViewReads
  <2>2. Rest'
    BY <1>1, <1>5 DEF ViewReads, Rest
  <2>3. /\ Reading(c) \in Locals /\ Reading(c).snap = doc /\ Reading(c).has = Has(c)
        /\ Settled(caller[c])
    BY <1>0, LocalsOf
  <2> QED BY <1>0, <1>1, <2>1, <2>2, <2>3, PlainMove DEF Suits, Settled, Places, Has
<1> QED BY <1>2, <1>3, <1>4, <1>5

(* The sequence of a VM's slots with one slot changed. *)
LEMMA SlotSet ==
  ASSUME NEW S, NEW s \in Seq(S), NEW i \in 1..Len(s), NEW e \in S
  PROVE  /\ [s EXCEPT ![i] = e] \in Seq(S) /\ Len([s EXCEPT ![i] = e]) = Len(s)
         /\ [s EXCEPT ![i] = e][i] = e
         /\ \A j \in 1..Len(s) : j # i => [s EXCEPT ![i] = e][j] = s[j]
BY ExceptSeq

LEMMA WatchingType ==
  ASSUME Shape, NEW v \in 1..Len(vm), NEW d \in Int,
         watching' = [watching EXCEPT ![v] = @ + d] \/ UNCHANGED watching
  PROVE  watching' \in Seq(Int) /\ Len(watching') = Len(vm)
<1>1. watching \in Seq(Int) /\ Len(watching) = Len(vm)
  BY DEF Shape, Formed, Linked
<1>2. watching[v] + d \in Int
  BY <1>1, ElementOfSeq
<1> QED BY <1>1, <1>2, SlotSet

LEMMA TakeCachedShape ==
  ASSUME Shape, NEW c \in Callers, NEW v \in 1..Len(vm), TakeCached(c, v),
         UNCHANGED <<vms, provider, doc, lock, rest>>
  PROVE  Shape'
<1> USE DEF vms, rest, None, Local
<1>1. Rest /\ Len(vm) \in Nat /\ Len(wraps) \in Nat /\ doc <= Len(vm)
  BY DEF Shape, Formed, Linked
<1> DEFINE w == registry[v]
           l == IF c \in Turns THEN "ensure" ELSE AfterGet(c)
<1>2. /\ w # None /\ Go(c, With(c, w, "got"), l)
      /\ watching' = [watching EXCEPT ![v] = @ + 1] \/ UNCHANGED watching
      /\ UNCHANGED <<vm, wraps, registry, doc>> /\ Rest'
  BY <1>1 DEF TakeCached, Rest
<1>3. w \in 1..Len(wraps) /\ w \in 1..MaxWrappers
  BY <1>2, RegisteredOne
<1>4. /\ With(c, w, "got") \in Locals /\ With(c, w, "got").has = w
      /\ With(c, w, "got").snap <= Len(vm)
  BY <1>3, LocalsOf DEF Settled
<1>5. l \in {"ensure", "browser", "watch", "done"}
  BY DEF AfterGet
<1>6. watching' \in Seq(Int) /\ Len(watching') = Len(vm)
  BY <1>2, WatchingType
<1> HIDE DEF w, l
<1>7. Suits(With(c, w, "got"), l, Len(vm), Len(wraps))
  BY <1>1, <1>3, <1>4, <1>5 DEF Suits
<1> QED BY <1>1, <1>2, <1>4, <1>5, <1>6, <1>7, MoveShape DEF Places

(* A new wrapper of VM v, registered for it. *)
LEMMA RegisteredShape ==
  ASSUME Shape, NEW c \in Callers, caller[c].snap > 0, At(c) = "connected",
         Len(wraps) < MaxWrappers,
         wraps' = Append(wraps, Wrapper(caller[c].snap)),
         registry' = [registry EXCEPT ![caller[c].snap] = Len(wraps')],
         Go(c, With(c, Len(wraps'), "got"), "ensure"),
         UNCHANGED <<vms, provider, doc, lock, watching, rest>>
  PROVE  Shape'
<1> USE DEF vms, rest, None, Local
<1> DEFINE v == caller[c].snap
           n == Len(wraps)
<1>1. /\ Rest /\ Len(vm) \in Nat /\ n \in Nat /\ doc <= Len(vm) /\ Formed /\ Holds
      /\ Linked /\ wraps \in Seq(Wrappers) /\ registry \in Seq(0..MaxWrappers)
      /\ Len(registry) = Len(vm) /\ MaxWrappers \in Nat /\ MaxVMs \in Nat
  BY SandboxConstants DEF Shape, Formed, Linked
<1>2. v \in 1..Len(vm) /\ v \in 1..MaxVMs
  <2>1. caller[c] \in Locals /\ Settled(caller[c])
    BY LocalsOf
  <2> QED BY <1>1, <2>1 DEF Locals, Settled
<1>3. Wrapper(v) \in Wrappers /\ Wrapper(v).vm = v
  BY <1>2 DEF Wrapper, Wrappers
<1>4. /\ wraps' \in Seq(Wrappers) /\ Len(wraps') = n + 1 /\ wraps'[n + 1].vm = v
      /\ \A w \in 1..n : wraps'[w] = wraps[w]
  <2> HIDE DEF v
  <2> QED BY <1>1, <1>3, AppendProperties DEF v
<1>5. n + 1 \in 1..MaxWrappers
  BY <1>1
<1>6. /\ registry' \in Seq(0..MaxWrappers) /\ Len(registry') = Len(vm)
      /\ registry'[v] = n + 1 /\ \A u \in 1..Len(vm) : u # v => registry'[u] = registry[u]
  <2> HIDE DEF v, n
  <2>1. registry' = [registry EXCEPT ![v] = n + 1] /\ n + 1 \in 0..MaxWrappers
    BY <1>4, <1>5 DEF v
  <2>2. registry \in Seq(0..MaxWrappers) /\ v \in 1..Len(registry)
    BY <1>1, <1>2
  <2>3. Len(registry) = Len(vm)
    BY <1>1
  <2> QED BY ONLY <2>1, <2>2, <2>3, SlotSet
<1>7. /\ With(c, n + 1, "got") \in Locals /\ With(c, n + 1, "got").has = n + 1
      /\ With(c, n + 1, "got").snap = v
  BY <1>5, LocalsOf
<1>8. Go(c, With(c, n + 1, "got"), "ensure") /\ UNCHANGED <<vm, watching, doc>> /\ Rest'
  BY <1>1, <1>4 DEF Rest
<1> HIDE DEF v, n
<1>9. Suits(With(c, n + 1, "got"), "ensure", Len(vm'), Len(wraps'))
  BY <1>1, <1>2, <1>4, <1>7, <1>8 DEF Suits
<1>10. caller' \in [Callers -> Locals] /\ Holds'
  BY <1>1, <1>4, <1>7, <1>8, <1>9, MoveSettles DEF n, Places
<1>11. Formed'
  BY <1>1, <1>4, <1>5, <1>6, <1>8, <1>10 DEF Formed
<1>12. Linked'
  <2>1. \A w \in 1..n + 1 : wraps'[w].vm <= Len(vm)
    BY <1>1, <1>2, <1>4 DEF Linked, n
  <2>2. ASSUME NEW u \in 1..Len(vm), registry'[u] # None
        PROVE  registry'[u] <= n + 1 /\ wraps'[registry'[u]].vm = u
    <3>1. CASE u = v
      BY <1>1, <1>4, <1>6, <3>1
    <3>2. CASE u # v
      <4>1. registry'[u] = registry[u]
        BY <1>6, <3>2
      <4>2. registry[u] \in 1..n /\ wraps[registry[u]].vm = u
        BY <2>2, <4>1, RegisteredOne DEF n
      <4> QED BY <1>1, <1>4, <4>1, <4>2
    <3> QED BY <3>1, <3>2
  <2> QED BY <1>1, <1>4, <1>6, <1>8, <2>1, <2>2 DEF Linked
<1> QED BY <1>10, <1>11, <1>12 DEF Shape

LEMMA GetKeepsShape ==
  ASSUME Shape, NEW c \in Callers,
         GetLocal(c) \/ GetCached(c) \/ Connect(c) \/ ConnectFails(c) \/ Register(c)
  PROVE  Shape'
<1> USE DEF vms, objects, rest, None, Local
<1>0. caller[c] \in Locals /\ Settled(caller[c]) /\ caller[c].snap \in Int
  BY LocalsOf
<1>1. Rest /\ Len(vm) \in Nat /\ Len(wraps) \in Nat /\ doc <= Len(vm)
  BY DEF Shape, Formed, Linked
<1>2. CASE GetLocal(c)
  <2>1. PICK l \in {"run", "done"} : Go(c, Holding(c, Local), l)
    BY <1>2 DEF GetLocal
  <2>2. Rest' /\ UNCHANGED <<vm, wraps, registry, watching, doc>>
    BY <1>1, <1>2, ReleaseType DEF GetLocal, Rest
  <2>3. /\ Holding(c, Local) \in Locals /\ Holding(c, Local).has = Local
        /\ Holding(c, Local).snap = caller[c].snap
    BY LocalsOf
  <2> QED BY <1>0, <1>1, <2>1, <2>2, <2>3, PlainMove DEF Suits, Settled, Places
<1>3. CASE GetCached(c)
  <2>1. caller[c].snap \in 1..Len(vm)
    BY <1>0, <1>1, <1>3 DEF GetCached, Settled
  <2> QED BY <1>3, <2>1, TakeCachedShape DEF GetCached
<1>4. CASE Connect(c)
  <2> DEFINE v == caller[c].snap
  <2>1. v \in 1..Len(vm) /\ v \in 1..MaxVMs
    BY <1>0, <1>1, <1>4 DEF Connect, Settled, Locals
  <2>2. /\ vm' = [vm EXCEPT ![v] = "running"] /\ Go(c, caller[c], "connected")
        /\ stray' = stray \/ stray' = stray \cup {v}
        /\ UNCHANGED <<wraps, registry, watching, unsure, provider, doc, lock, faults, lost>>
    BY <1>4 DEF Connect, Goto
  <2>3. Rest'
    BY <1>1, <2>1, <2>2 DEF Rest
  <2>4. vm \in Seq(VmStates)
    BY DEF Shape, Formed
  <2>5. vm' \in Seq(VmStates) /\ Len(vm') = Len(vm)
    BY <2>1, <2>2, <2>4, SlotSet DEF VmStates
  <2>6. Suits(caller[c], "connected", Len(vm'), Len(wraps'))
    BY <1>0, <1>1, <2>1, <2>2, <2>5 DEF Suits, Settled
  <2>7. caller' \in [Callers -> Locals] /\ Holds'
    BY <1>0, <1>1, <2>2, <2>5, <2>6, MoveSettles DEF Shape, Places
  <2> QED BY <2>2, <2>3, <2>5, <2>7 DEF Shape, Formed, Linked
<1>5. CASE ConnectFails(c)
  <2>1. Goto(c, AfterFailedGet(c)) /\ AfterFailedGet(c) \in {"create", "done"}
    BY <1>5 DEF ConnectFails, AfterFailedGet
  <2>2. Rest' /\ UNCHANGED <<vm, wraps, registry, watching, doc>>
    <3>1. /\ provider' \in {"on", "cooling", "off"}
          /\ UNCHANGED <<vms, doc, lock, objects, lost>>
          /\ \/ UNCHANGED faults
             \/ faults.failed < MaxFailures /\ faults' = [faults EXCEPT !.failed = @ + 1]
      BY <1>1, <1>5 DEF ConnectFails, ProviderFails, Rest
    <3> QED BY <1>1, <3>1, FaultType DEF Rest
  <2> QED BY <1>0, <1>1, <2>1, <2>2, PlainMove DEF Goto, Suits, Settled, Places
<1>6. CASE Register(c)
  <2>1. caller[c].snap \in 1..Len(vm)
    BY <1>0, <1>1, <1>6 DEF Register, Settled, At
  <2> QED BY <1>6, <2>1, TakeCachedShape, RegisteredShape DEF Register
<1> QED BY <1>2, <1>3, <1>4, <1>5, <1>6

(* A slot for a new VM. *)
LEMMA SlotAdded ==
  ASSUME NEW S, NEW s \in Seq(S), NEW e \in S
  PROVE  /\ Append(s, e) \in Seq(S) /\ Len(Append(s, e)) = Len(s) + 1
         /\ Append(s, e)[Len(s) + 1] = e
         /\ \A j \in 1..Len(s) : Append(s, e)[j] = s[j]
BY AppendProperties

LEMMA CreateKeepsShape ==
  ASSUME Shape, NEW c \in Callers, CreateLocal(c) \/ CreateVm(c) \/ Publish(c)
  PROVE  Shape'
<1> USE DEF vms, objects, rest, None, Local
<1>0. caller[c] \in Locals /\ Settled(caller[c]) /\ caller[c].has \in Int
  BY LocalsOf
<1>1. /\ Rest /\ Len(vm) \in Nat /\ Len(wraps) \in Nat /\ doc <= Len(vm)
      /\ MaxVMs \in Nat /\ MaxWrappers \in Nat
  BY SandboxConstants DEF Shape, Formed, Linked
<1>2. CASE CreateLocal(c)
  <2>1. Go(c, Holding(c, Local), "publish") /\ UNCHANGED <<vm, wraps, registry, watching, doc>>
    BY <1>2 DEF CreateLocal
  <2>2. Rest'
    <3>1. /\ provider' \in {"on", "cooling", "off"}
          /\ UNCHANGED <<vms, doc, lock, objects, lost>>
          /\ \/ UNCHANGED faults
             \/ faults.failed < MaxFailures /\ faults' = [faults EXCEPT !.failed = @ + 1]
      BY <1>1, <1>2 DEF CreateLocal, ProviderFails, Rest
    <3> QED BY <1>1, <3>1, FaultType DEF Rest
  <2>3. /\ Holding(c, Local) \in Locals /\ Holding(c, Local).has = Local
        /\ Holding(c, Local).snap = caller[c].snap
    BY LocalsOf
  <2> QED BY <1>0, <1>1, <2>1, <2>2, <2>3, PlainMove DEF Suits, Settled, Places
<1>3. CASE CreateVm(c)
  <2> DEFINE n == Len(wraps)
             m == Len(vm)
             me == With(c, n + 1, "new")
  <2>1. /\ vm \in Seq(VmStates) /\ wraps \in Seq(Wrappers)
        /\ registry \in Seq(0..MaxWrappers) /\ watching \in Seq(Int)
        /\ Len(registry) = m /\ Len(watching) = m /\ Formed /\ Holds /\ Linked
    BY DEF Shape, Formed, Linked
  <2>2. m + 1 \in 1..MaxVMs /\ n + 1 \in 1..MaxWrappers /\ n + 1 \in 0..MaxWrappers
    BY <1>1, <1>3 DEF CreateVm
  <2>3. Wrapper(m + 1) \in Wrappers /\ Wrapper(m + 1).vm = m + 1
    BY <2>2 DEF Wrapper, Wrappers
  <2>4. /\ vm' = Append(vm, "running") /\ wraps' = Append(wraps, Wrapper(Len(vm')))
        /\ registry' = Append(registry, Len(wraps')) /\ watching' = Append(watching, 0)
        /\ Go(c, With(c, Len(wraps'), "new"), "ensure")
        /\ UNCHANGED <<stray, unsure, provider, doc, lock, faults, lost>>
    BY <1>3 DEF CreateVm
  <2> HIDE DEF n, m, me
  <2>5. vm' \in Seq(VmStates) /\ Len(vm') = m + 1
    BY <2>1, <2>4, SlotAdded DEF VmStates, m
  <2>6. /\ wraps' \in Seq(Wrappers) /\ Len(wraps') = n + 1 /\ wraps'[n + 1].vm = m + 1
        /\ \A w \in 1..n : wraps'[w] = wraps[w]
    BY <2>1, <2>3, <2>4, <2>5, SlotAdded DEF n
  <2>7. registry' = Append(registry, n + 1)
    BY <2>4, <2>6
  <2>8. /\ registry' \in Seq(0..MaxWrappers) /\ Len(registry') = m + 1
        /\ registry'[m + 1] = n + 1 /\ \A v \in 1..m : registry'[v] = registry[v]
    BY <2>1, <2>2, <2>7, SlotAdded
  <2>9. watching' \in Seq(Int) /\ Len(watching') = m + 1
    BY <2>1, <2>4, SlotAdded
  <2>10. /\ me \in Locals /\ me.has = n + 1 /\ me.snap = caller[c].snap
         /\ Go(c, me, "ensure") /\ Rest'
    <3>1. /\ With(c, n + 1, "new") \in Locals /\ With(c, n + 1, "new").has = n + 1
          /\ With(c, n + 1, "new").snap = caller[c].snap
      BY <2>2, LocalsOf
    <3>2. Rest'
      BY <1>1, <2>4 DEF Rest
    <3> QED BY <2>4, <2>6, <3>1, <3>2 DEF me
  <2>11. Suits(me, "ensure", Len(vm'), Len(wraps'))
    <3>1. caller[c].snap <= m /\ caller[c].snap \in Int /\ m \in Nat /\ n \in Nat
      BY <1>0, <1>1, LocalsOf DEF Settled, m, n
    <3> QED BY <2>5, <2>6, <2>10, <3>1 DEF Suits
  <2>12. caller' \in [Callers -> Locals] /\ Holds'
    BY <1>1, <2>1, <2>5, <2>6, <2>10, <2>11, MoveSettles DEF n, m, Places
  <2>13. Formed'
    BY <1>1, <2>1, <2>2, <2>5, <2>6, <2>8, <2>9, <2>10, <2>12 DEF Formed
  <2>14. Linked'
    <3>1. m \in Nat /\ n \in Nat /\ doc' = doc /\ doc \in Int /\ doc <= m
      BY <1>1, <2>4 DEF Rest, m, n
    <3>2. ASSUME NEW w \in 1..n + 1 PROVE wraps'[w].vm <= m + 1
      <4>1. CASE w = n + 1
        BY <2>6, <3>1, <4>1
      <4>2. CASE w \in 1..n
        <5>1. wraps'[w].vm = wraps[w].vm /\ wraps[w].vm <= m /\ wraps[w] \in Wrappers
          BY <2>1, <2>6, <4>2, ElementOfSeq DEF Linked, m, n
        <5> QED BY <3>1, <5>1 DEF Wrappers
      <4> QED BY <3>1, <4>1, <4>2
    <3>3. ASSUME NEW v \in 1..m + 1, registry'[v] # None
          PROVE  registry'[v] <= n + 1 /\ wraps'[registry'[v]].vm = v
      <4>1. CASE v = m + 1
        BY <2>6, <2>8, <3>1, <4>1
      <4>2. CASE v \in 1..m
        <5>1. registry'[v] = registry[v]
          BY <2>8, <4>2
        <5>2. registry[v] \in 1..n /\ wraps[registry[v]].vm = v
          BY <3>3, <4>2, <5>1, RegisteredOne DEF n, m
        <5> QED BY <2>6, <3>1, <5>1, <5>2
      <4> QED BY <3>1, <4>1, <4>2
    <3> QED BY <2>5, <2>6, <2>8, <2>9, <3>1, <3>2, <3>3 DEF Linked
  <2> QED BY <2>12, <2>13, <2>14 DEF Shape
<1>4. CASE Publish(c)
  <2>1. At(c) = "publish" /\ Has(c) # None /\ UNCHANGED <<vm, wraps, registry, watching>>
    BY <1>0, <1>4 DEF Publish, Settled, At, Has
  <2>2. CASE Has(c) > 0
    <3>1. /\ VmOf(c) \in 1..Len(vm) /\ VmOf(c) \in 1..MaxVMs
          /\ Has(c) \in 1..MaxWrappers
      BY <2>2, HoldsOne
    <3>2. /\ doc' = VmOf(c) /\ Go(c, With(c, Has(c), "made"), "ensure")
      BY <1>4, <2>2 DEF Publish
    <3>3. Rest'
      BY <1>1, <1>4, <2>2, <3>1, <3>2 DEF Publish, Rest
    <3>4. /\ With(c, Has(c), "made") \in Locals /\ With(c, Has(c), "made").has = Has(c)
          /\ With(c, Has(c), "made").snap = caller[c].snap
      BY <3>1, LocalsOf
    <3>5. watching' \in Seq(Int) /\ Len(watching') = Len(vm) /\ doc' <= Len(vm)
      BY <1>1, <2>1, <3>1, <3>2 DEF Shape, Formed, Linked
    <3>6. Suits(With(c, Has(c), "made"), "ensure", Len(vm), Len(wraps))
      BY <1>0, <2>2, <3>4 DEF Suits, Settled, Has
    <3> QED BY <2>1, <3>2, <3>3, <3>4, <3>5, <3>6, MoveShape DEF Places
  <2>3. CASE ~(Has(c) > 0)
    <3>1. Has(c) = Local
      BY <1>0, <2>1, <2>3 DEF Locals, Has
    <3>2. PICK l \in {"run", "done"} : Goto(c, l)
      BY <1>4, <2>3 DEF Publish
    <3>3. doc' = Local /\ Rest'
      BY <1>1, <1>4, <2>3, ReleaseType DEF Publish, Rest
    <3>4. watching' \in Seq(Int) /\ Len(watching') = Len(vm) /\ doc' <= Len(vm)
      BY <1>1, <2>1, <3>3 DEF Shape, Formed, Linked
    <3>5. Suits(caller[c], l, Len(vm), Len(wraps))
      BY <1>0, <3>1 DEF Suits, Settled, Has
    <3> QED BY <1>0, <2>1, <3>2, <3>3, <3>4, <3>5, MoveShape DEF Places, Goto
  <2> QED BY <2>2, <2>3
<1> QED BY <1>2, <1>3, <1>4

(* The objects change in place: every wrapper stays one of its VM, and a     *)
(* slot of the registry is kept or emptied.                                  *)
InPlace ==
  /\ vm' \in Seq(VmStates) /\ Len(vm') = Len(vm)
  /\ wraps' \in Seq(Wrappers) /\ Len(wraps') = Len(wraps)
  /\ \A w \in 1..Len(wraps) : wraps'[w].vm = wraps[w].vm
  /\ registry' \in Seq(0..MaxWrappers) /\ Len(registry') = Len(registry)
  /\ \A v \in 1..Len(vm) : registry'[v] = registry[v] \/ registry'[v] = None
  /\ watching' \in Seq(Int) /\ Len(watching') = Len(vm)

LEMMA InPlaceLinks ==
  ASSUME Shape, InPlace, doc' <= Len(vm)
  PROVE  Linked'
<1>1. /\ Linked /\ Len(vm) \in Nat /\ Len(registry) = Len(vm)
  BY DEF Shape, Formed, Linked
<1>2. \A w \in 1..Len(wraps') : wraps'[w].vm <= Len(vm')
  BY <1>1 DEF InPlace, Linked
<1>3. ASSUME NEW v \in 1..Len(vm'), registry'[v] # None
      PROVE  registry'[v] <= Len(wraps') /\ wraps'[registry'[v]].vm = v
  <2>1. v \in 1..Len(vm) /\ registry'[v] = registry[v] /\ registry[v] # None
    BY <1>3 DEF InPlace
  <2>2. registry[v] \in 1..Len(wraps) /\ wraps[registry[v]].vm = v
    BY <2>1, RegisteredOne
  <2> QED BY <2>1, <2>2 DEF InPlace
<1> QED BY <1>1, <1>2, <1>3 DEF Linked, InPlace

LEMMA InPlaceMove ==
  ASSUME Shape, InPlace, NEW c \in Callers, NEW me \in Locals, NEW l \in Places,
         Go(c, me, l), Suits(me, l, Len(vm), Len(wraps)), Rest', doc' <= Len(vm)
  PROVE  Shape'
<1>1. /\ Formed /\ Holds /\ Len(vm) \in Nat /\ Len(wraps) \in Nat
      /\ Len(vm') = Len(vm) /\ Len(wraps') = Len(wraps)
  BY DEF Shape, Formed, InPlace
<1>2. caller' \in [Callers -> Locals] /\ Holds'
  BY <1>1, MoveSettles
<1>3. Formed'
  BY <1>1, <1>2 DEF Formed, InPlace
<1> QED BY <1>2, <1>3, InPlaceLinks DEF Shape

(* One field of one wrapper is set. *)
LEMMA WrapTouched ==
  ASSUME Shape, NEW w \in 1..Len(wraps), NEW b \in BOOLEAN,
         \/ wraps' = [wraps EXCEPT ![w].boot = b] \/ wraps' = [wraps EXCEPT ![w].busy = b]
  PROVE  /\ wraps' \in Seq(Wrappers) /\ Len(wraps') = Len(wraps)
         /\ \A u \in 1..Len(wraps) :
              wraps'[u].vm = wraps[u].vm /\ wraps'[u].out = wraps[u].out
<1>1. wraps \in Seq(Wrappers) /\ wraps[w] \in Wrappers
  BY ElementOfSeq DEF Shape, Formed
<1>2. PICK e : wraps' = [wraps EXCEPT ![w] = e] /\
               (e = [wraps[w] EXCEPT !.boot = b] \/ e = [wraps[w] EXCEPT !.busy = b])
  OBVIOUS
<1>3. e \in Wrappers /\ e.vm = wraps[w].vm /\ e.out = wraps[w].out
  BY <1>1, <1>2 DEF Wrappers
<1>4. /\ wraps' \in Seq(Wrappers) /\ Len(wraps') = Len(wraps) /\ wraps'[w] = e
      /\ \A u \in 1..Len(wraps) : u # w => wraps'[u] = wraps[u]
  BY <1>1, <1>2, <1>3, SlotSet
<1> QED BY <1>3, <1>4

LEMMA EnsureKeepsShape ==
  ASSUME Shape, NEW c \in Callers, Ensure(c) \/ BootSucceeds(c) \/ BootFails(c)
  PROVE  Shape'
<1> USE DEF vms, objects, rest, None, Local
<1>0. /\ caller[c] \in Locals /\ Settled(caller[c]) /\ caller[c].has \in Int
      /\ caller[c].snap \in Int
  BY LocalsOf
<1>1. /\ Rest /\ Len(vm) \in Nat /\ Len(wraps) \in Nat /\ doc <= Len(vm)
      /\ vm \in Seq(VmStates) /\ registry \in Seq(0..MaxWrappers)
  BY DEF Shape, Formed, Linked
<1>2. Has(c) > 0
  BY <1>0 DEF Ensure, BootSucceeds, BootFails, At, Has, Settled
<1>3. /\ Has(c) \in 1..Len(wraps) /\ VmOf(c) \in 1..Len(vm) /\ VmOf(c) \in 1..MaxVMs
  BY <1>2, HoldsOne
<1>4. AfterEnsure(c) \in {"publish", "run", "browser", "watch", "done", "pausing"}
  BY DEF AfterEnsure, AfterGet
<1>5. ASSUME Ensure(c) \/ BootSucceeds(c)
      PROVE  Shape'
  <2>1. PICK l \in {"publish", "run", "browser", "watch", "done", "pausing", "boot"} :
          Goto(c, l)
    BY <1>4, <1>5 DEF Ensure, BootSucceeds
  <2>2. \/ wraps' = [wraps EXCEPT ![Has(c)].busy = TRUE]
        \/ wraps' = [wraps EXCEPT ![Has(c)].boot = TRUE]
    BY <1>5 DEF Ensure, BootSucceeds
  <2>3. watching' = [watching EXCEPT ![VmOf(c)] = @ + 1] \/ UNCHANGED watching
    BY <1>5 DEF Ensure, BootSucceeds, Watches
  <2>4. UNCHANGED <<vm, registry, stray, unsure, provider, doc, lock, faults, lost>>
    BY <1>5 DEF Ensure, BootSucceeds
  <2>5. watching' \in Seq(Int) /\ Len(watching') = Len(vm)
    BY <1>3, <2>3, WatchingType
  <2>6. /\ wraps' \in Seq(Wrappers) /\ Len(wraps') = Len(wraps)
        /\ \A u \in 1..Len(wraps) : wraps'[u].vm = wraps[u].vm
    BY <1>3, <2>2, WrapTouched
  <2>7. InPlace
    BY <1>1, <2>4, <2>5, <2>6 DEF InPlace
  <2>8. Suits(caller[c], l, Len(vm), Len(wraps))
    BY <1>0, <1>2, <2>1 DEF Suits, Settled, Has
  <2>9. Rest' /\ doc' <= Len(vm)
    BY <1>1, <2>4 DEF Rest
  <2> QED BY <1>0, <2>1, <2>7, <2>8, <2>9, InPlaceMove DEF Goto, Places
<1>6. CASE BootFails(c)
  <2>1. Rest' /\ UNCHANGED <<vm, wraps, registry, watching, doc>>
    <3>1. /\ \/ UNCHANGED faults
             \/ faults.failed < MaxFailures /\ faults' = [faults EXCEPT !.failed = @ + 1]
          /\ stray' = stray \/ stray' = stray \cup {VmOf(c)}
          /\ UNCHANGED lock \/ Release(c)
          /\ UNCHANGED <<vm, unsure, provider, doc, objects, lost>>
      BY <1>6 DEF BootFails
    <3> QED BY <1>1, <1>3, <3>1, FaultType, ReleaseType DEF Rest
  <2>2. /\ Holding(c, Local) \in Locals /\ Holding(c, Local).has = Local
        /\ Holding(c, Local).snap = caller[c].snap
    BY LocalsOf
  <2>3. CASE Go(c, Holding(c, Local), "publish")
    BY <1>0, <1>1, <2>1, <2>2, <2>3, PlainMove DEF Suits, Settled, Places
  <2>4. ASSUME NEW l \in {"create", "run", "done", "failed"}, Goto(c, l) PROVE Shape'
    BY <1>0, <1>1, <1>2, <2>1, <2>4, PlainMove DEF Goto, Suits, Settled, Places, Has
  <2>5. \/ Go(c, Holding(c, Local), "publish")
        \/ \E l \in {"create", "run", "done", "failed"} : Goto(c, l)
    BY <1>6 DEF BootFails, AfterFailedGet
  <2> QED BY <2>3, <2>4, <2>5
<1> QED BY <1>5, <1>6

LEMMA RunKeepsShape ==
  ASSUME Shape, NEW t \in Turns,
         GetBrowser(t) \/ RunCommand(t) \/ RunAsks(t) \/ RunEnds(t)
  PROVE  Shape'
<1> USE DEF vms, objects, rest, None, Local
<1>0. /\ t \in Callers /\ caller[t] \in Locals /\ Settled(caller[t])
      /\ caller[t].has \in Int /\ caller[t].snap \in Int
  BY LocalsOf DEF Callers
<1>1. Rest /\ Len(vm) \in Nat /\ Len(wraps) \in Nat
  BY DEF Shape, Formed
<1>2. CASE GetBrowser(t)
  <2>1. Has(t) > 0
    BY <1>0, <1>2 DEF GetBrowser, At, Has, Settled
  <2>2. VmOf(t) \in 1..MaxVMs
    BY <1>0, <2>1, HoldsOne
  <2>3. Rest' /\ UNCHANGED <<vm, wraps, registry, watching, doc>>
    <3>1. /\ \/ UNCHANGED faults
             \/ faults.failed < MaxFailures /\ faults' = [faults EXCEPT !.failed = @ + 1]
          /\ stray' = stray \/ stray' = stray \cup {VmOf(t)}
          /\ Release(t)
          /\ UNCHANGED <<vm, unsure, provider, doc, objects, lost>>
      BY <1>2 DEF GetBrowser
    <3> QED BY <1>1, <2>2, <3>1, FaultType, ReleaseType DEF Rest
  <2>4. PICK l \in {"run", "failed"} : Goto(t, l)
    BY <1>2 DEF GetBrowser
  <2> QED BY <1>0, <1>1, <2>1, <2>3, <2>4, PlainMove DEF Goto, Suits, Settled, Places, Has
<1>3. CASE RunCommand(t)
  <2>1. Has(t) > 0 /\ Go(t, With(t, Has(t), "tool"), "ensure")
    BY <1>3 DEF RunCommand
  <2>2. Has(t) \in 1..MaxWrappers
    BY <1>0, <2>1, HoldsOne
  <2>3. /\ With(t, Has(t), "tool") \in Locals /\ With(t, Has(t), "tool").has = Has(t)
        /\ With(t, Has(t), "tool").snap = caller[t].snap
    BY <1>0, <2>2, LocalsOf
  <2>4. Rest' /\ UNCHANGED <<vm, wraps, registry, watching, doc>>
    BY <1>1, <1>3 DEF RunCommand, Rest
  <2> QED BY <1>0, <1>1, <2>1, <2>3, <2>4, PlainMove DEF Suits, Settled, Places, Has
<1>4. CASE RunAsks(t)
  <2>1. /\ At(t) = "run" /\ Goto(t, "asked")
        /\ Rest' /\ UNCHANGED <<vm, wraps, registry, watching, doc>>
    BY <1>1, <1>4 DEF RunAsks, Rest
  <2> QED BY <1>0, <1>1, <2>1, PlainMove DEF Goto, Suits, Settled, Places, At
<1>5. CASE RunEnds(t)
  <2>1. /\ At(t) = "run" /\ Rest' /\ UNCHANGED <<vm, wraps, registry, watching, doc>>
    BY <1>1, <1>5 DEF RunEnds, Rest
  <2>2. CASE Goto(t, "done")
    BY <1>0, <1>1, <2>1, <2>2, PlainMove DEF Goto, Suits, Settled, Places
  <2>3. CASE Goto(t, "pausing") /\ Has(t) # Local
    <3>1. Has(t) > 0
      BY <1>0, <2>1, <2>3 DEF Settled, At, Has, Locals
    <3> QED BY <1>0, <1>1, <2>1, <2>3, <3>1, PlainMove DEF Goto, Suits, Settled, Places, Has
  <2>4. Goto(t, "done") \/ (Goto(t, "pausing") /\ Has(t) # Local)
    BY <1>5 DEF RunEnds
  <2> QED BY <2>2, <2>3, <2>4
<1> QED BY <1>2, <1>3, <1>4, <1>5

(* A function on 1..n is a sequence of length n. *)
LEMMA FunctionIsSeq ==
  ASSUME NEW S, NEW n \in Nat, NEW f \in [1..n -> S]
  PROVE  f \in Seq(S) /\ Len(f) = n
BY SMT

LEMMA PauseKeepsShape ==
  ASSUME Shape, NEW c \in Callers, Freeze(c) \/ Paused(c) \/ PauseFails(c)
  PROVE  Shape'
<1> USE DEF vms, objects, rest, None, Local
<1>0. /\ caller[c] \in Locals /\ Settled(caller[c]) /\ caller[c].has \in Int
      /\ caller[c].snap \in Int
  BY LocalsOf
<1>1. /\ Rest /\ Len(vm) \in Nat /\ Len(wraps) \in Nat /\ doc <= Len(vm)
      /\ vm \in Seq(VmStates) /\ registry \in Seq(0..MaxWrappers) /\ wraps \in Seq(Wrappers)
      /\ watching \in Seq(Int) /\ Len(watching) = Len(vm) /\ Len(registry) = Len(vm)
      /\ MaxWrappers \in Nat
  BY SandboxConstants DEF Shape, Formed, Linked
<1>2. Has(c) > 0
  BY <1>0 DEF Freeze, Paused, PauseFails, At, Has, Settled
<1>3. /\ Has(c) \in 1..Len(wraps) /\ VmOf(c) \in 1..Len(vm) /\ VmOf(c) \in 1..MaxVMs
  BY <1>2, HoldsOne
<1>4. CASE Freeze(c)
  <2>1. /\ vm' = [vm EXCEPT ![VmOf(c)] = "paused"]
        /\ stray' = stray \ {VmOf(c)}
        /\ unsure' = unsure \cup {VmOf(c)} \/ unsure' = unsure \ {VmOf(c)}
        /\ Goto(c, "frozen")
        /\ UNCHANGED <<provider, doc, lock, wraps, registry, watching, faults, lost>>
    BY <1>4 DEF Freeze
  <2>2. Rest' /\ doc' <= Len(vm)
    BY <1>1, <1>3, <2>1 DEF Rest
  <2>3. vm' \in Seq(VmStates) /\ Len(vm') = Len(vm)
    BY <1>1, <1>3, <2>1, SlotSet DEF VmStates
  <2>4. InPlace
    BY <1>1, <2>1, <2>3 DEF InPlace
  <2>5. Suits(caller[c], "frozen", Len(vm), Len(wraps))
    BY <1>0, <1>2 DEF Suits, Settled, Has
  <2> QED BY <1>0, <2>1, <2>2, <2>4, <2>5, InPlaceMove DEF Goto, Places
<1>5. CASE Paused(c)
  <2> DEFINE Ended(w) == [wraps[w] EXCEPT !.boot = @ /\ w # Has(c),
                                         !.out = @ \/ w = registry[VmOf(c)]]
  <2>1. /\ registry' = [registry EXCEPT ![VmOf(c)] = None]
        /\ wraps' = [w \in DOMAIN wraps |-> Ended(w)]
        /\ stray' = stray \cup {VmOf(c)} \/ UNCHANGED stray
        /\ Goto(c, "done") /\ Release(c)
        /\ UNCHANGED <<vm, unsure, provider, doc, watching, faults, lost>>
    BY <1>5 DEF Paused
  <2>2. ASSUME NEW w \in 1..Len(wraps) PROVE Ended(w) \in Wrappers /\ Ended(w).vm = wraps[w].vm
    <3>1. wraps[w] \in Wrappers
      BY <1>1, ElementOfSeq
    <3>2. (wraps[w].boot /\ w # Has(c)) \in BOOLEAN /\ (wraps[w].out \/ w = registry[VmOf(c)]) \in BOOLEAN
      OBVIOUS
    <3> QED BY <3>1, <3>2 DEF Wrappers
  <2>3. DOMAIN wraps = 1..Len(wraps)
    BY <1>1
  <2> HIDE DEF Ended
  <2>4. wraps' \in [1..Len(wraps) -> Wrappers]
    BY <2>1, <2>2, <2>3
  <2>5. wraps' \in Seq(Wrappers) /\ Len(wraps') = Len(wraps)
    BY <1>1, <2>4, FunctionIsSeq
  <2>6. \A w \in 1..Len(wraps) : wraps'[w].vm = wraps[w].vm
    BY <2>1, <2>2, <2>3
  <2>7. /\ registry' \in Seq(0..MaxWrappers) /\ Len(registry') = Len(registry)
        /\ \A v \in 1..Len(vm) : registry'[v] = registry[v] \/ registry'[v] = None
    <3>1. None \in 0..MaxWrappers /\ VmOf(c) \in 1..Len(registry)
      BY <1>1, <1>3
    <3> QED BY <1>1, <2>1, <3>1, SlotSet
  <2>8. InPlace
    BY <1>1, <2>1, <2>5, <2>6, <2>7 DEF InPlace
  <2>9. Rest' /\ doc' <= Len(vm)
    BY <1>1, <1>3, <2>1, ReleaseType DEF Rest
  <2> QED BY <1>0, <1>1, <2>1, <2>8, <2>9, InPlaceMove DEF Goto, Places, Suits, Settled
<1>6. CASE PauseFails(c)
  <2>1. /\ stray' = stray \cup {VmOf(c)} /\ unsure' = unsure \cup {VmOf(c)}
        /\ Goto(c, "done") /\ Release(c)
        /\ UNCHANGED <<vm, provider, doc, wraps, registry, watching, faults, lost>>
    BY <1>6 DEF PauseFails
  <2>2. Rest'
    BY <1>1, <1>3, <2>1, ReleaseType DEF Rest
  <2> QED BY <1>0, <1>1, <2>1, <2>2, PlainMove DEF Goto, Places, Suits, Settled
<1> QED BY <1>4, <1>5, <1>6

LEMMA ViewKeepsShape ==
  ASSUME Shape, NEW x \in Viewers, Leave(x) \/ LoopLooks(x) \/ LoopGivesUp(x)
  PROVE  Shape'
<1> USE DEF vms, objects, rest, None, Local
<1>0. /\ x \in Callers /\ caller[x] \in Locals /\ Settled(caller[x])
      /\ caller[x].has \in Int /\ caller[x].snap \in Int
  BY LocalsOf DEF Callers
<1>1. Rest /\ Len(vm) \in Nat /\ Len(wraps) \in Nat /\ doc <= Len(vm)
  BY DEF Shape, Formed, Linked
<1>2. Has(x) > 0
  BY <1>0 DEF Leave, LoopLooks, LoopGivesUp, At, Has, Settled
<1>3. VmOf(x) \in 1..Len(vm)
  BY <1>0, <1>2, HoldsOne
<1>4. CASE Leave(x)
  <2>1. PICK l \in {"done", "loop"} : Goto(x, l)
    BY <1>4 DEF Leave
  <2>2. /\ watching' = [watching EXCEPT ![VmOf(x)] = @ - 1]
        /\ UNCHANGED <<vm, wraps, registry, stray, unsure, provider, doc, lock, faults, lost>>
    BY <1>4 DEF Leave
  <2>3. watching' \in Seq(Int) /\ Len(watching') = Len(vm)
    <3>1. watching \in Seq(Int) /\ Len(watching) = Len(vm)
      BY DEF Shape, Formed, Linked
    <3>2. watching[VmOf(x)] - 1 \in Int
      BY <1>3, <3>1, ElementOfSeq
    <3> QED BY <1>3, <2>2, <3>1, <3>2, SlotSet
  <2>4. Rest' /\ doc' <= Len(vm)
    BY <1>1, <2>2 DEF Rest
  <2>5. Suits(caller[x], l, Len(vm), Len(wraps))
    BY <1>0, <1>2, <2>1 DEF Suits, Settled, Has
  <2> QED BY <1>0, <2>1, <2>2, <2>3, <2>4, <2>5, MoveShape DEF Goto, Places
<1>5. CASE LoopLooks(x)
  <2> DEFINE w == registry[VmOf(x)]
  <2>1. Rest' /\ UNCHANGED <<vm, wraps, registry, watching, doc>>
    BY <1>1, <1>5 DEF LoopLooks, Rest
  <2>2. Goto(x, "done") \/ (w # None /\ Go(x, Holding(x, w), "pausing"))
    BY <1>5 DEF LoopLooks
  <2>3. CASE Goto(x, "done")
    BY <1>0, <1>1, <2>1, <2>3, PlainMove DEF Goto, Suits, Settled, Places
  <2>4. CASE w # None /\ Go(x, Holding(x, w), "pausing")
    <3>1. w \in 1..Len(wraps) /\ w \in 1..MaxWrappers
      BY <1>3, <2>4, RegisteredOne
    <3>2. /\ Holding(x, w) \in Locals /\ Holding(x, w).has = w
          /\ Holding(x, w).snap = caller[x].snap
      BY <1>0, <3>1, LocalsOf
    <3> HIDE DEF w
    <3> QED BY <1>0, <1>1, <2>1, <2>4, <3>1, <3>2, PlainMove DEF Suits, Settled, Places
  <2> QED BY <2>2, <2>3, <2>4
<1>6. CASE LoopGivesUp(x)
  <2>1. /\ Goto(x, "done") /\ Rest' /\ UNCHANGED <<vm, wraps, registry, watching, doc>>
    BY <1>1, <1>6 DEF LoopGivesUp, Rest
  <2> QED BY <1>0, <1>1, <2>1, PlainMove DEF Goto, Suits, Settled, Places
<1> QED BY <1>4, <1>5, <1>6

(* Steps no caller takes. *)
LEMMA TimeKeepsShape ==
  ASSUME Shape,
         \/ \E w \in DOMAIN wraps : Quiet(w)
         \/ \E v \in DOMAIN vm : Expire(v)
         \/ CooldownEnds \/ Restart
  PROVE  Shape'
<1> USE DEF vms, objects, rest, None, Local
<1>1. /\ Formed /\ Linked /\ Holds /\ Rest
      /\ Len(vm) \in Nat /\ Len(wraps) \in Nat /\ doc <= Len(vm)
      /\ vm \in Seq(VmStates) /\ registry \in Seq(0..MaxWrappers) /\ wraps \in Seq(Wrappers)
      /\ watching \in Seq(Int) /\ Len(watching) = Len(vm) /\ Len(registry) = Len(vm)
      /\ MaxWrappers \in Nat /\ MaxRestarts \in Nat /\ MaxExpired \in Nat
  <2>1. MaxWrappers \in Nat /\ MaxRestarts \in Nat /\ MaxExpired \in Nat
    BY SandboxConstants
  <2>2. Formed /\ Linked /\ Holds
    BY DEF Shape
  <2>3. /\ Rest /\ vm \in Seq(VmStates) /\ registry \in Seq(0..MaxWrappers)
        /\ wraps \in Seq(Wrappers) /\ watching \in Seq(Int)
    BY <2>2 DEF Formed
  <2>4. doc <= Len(vm) /\ Len(watching) = Len(vm) /\ Len(registry) = Len(vm)
    BY <2>2 DEF Linked
  <2>5. Len(vm) \in Nat /\ Len(wraps) \in Nat
    BY <2>3
  <2> QED BY <2>1, <2>2, <2>3, <2>4, <2>5
<1>2. DOMAIN wraps = 1..Len(wraps) /\ DOMAIN vm = 1..Len(vm)
  BY <1>1
<1>3. ASSUME InPlace, Rest', UNCHANGED <<doc, caller>> PROVE Shape'
  <2>1. Formed'
    BY <1>1, <1>3 DEF Formed, InPlace
  <2>2. Holds'
    BY <1>1, <1>3 DEF Holds, InPlace, Settled
  <2> QED BY <1>1, <1>3, <2>1, <2>2, InPlaceLinks DEF Shape
<1>4. ASSUME NEW w \in DOMAIN wraps, Quiet(w) PROVE Shape'
  <2>1. /\ wraps' = [wraps EXCEPT ![w].busy = FALSE]
        /\ UNCHANGED <<vm, stray, unsure, provider, doc, lock, registry, watching, caller,
                       faults, lost>>
    BY <1>4 DEF Quiet
  <2>2. /\ wraps' \in Seq(Wrappers) /\ Len(wraps') = Len(wraps)
        /\ \A u \in 1..Len(wraps) : wraps'[u].vm = wraps[u].vm
    BY <1>2, <2>1, WrapTouched
  <2>3. InPlace
    BY <1>1, <2>1, <2>2 DEF InPlace
  <2>4. Rest'
    BY <1>1, <2>1 DEF Rest
  <2> QED BY <1>3, <2>1, <2>3, <2>4
<1>5. ASSUME NEW v \in DOMAIN vm, Expire(v) PROVE Shape'
  <2>1. /\ vm' = [vm EXCEPT ![v] = "gone"]
        /\ faults' = [faults EXCEPT !.expired = @ + 1] /\ faults.expired < MaxExpired
        /\ UNCHANGED <<stray, unsure, provider, doc, lock, wraps, registry, watching,
                       caller, lost>>
    BY <1>5 DEF Expire
  <2>2. vm' \in Seq(VmStates) /\ Len(vm') = Len(vm)
    BY <1>1, <1>2, <2>1, SlotSet DEF VmStates
  <2>3. InPlace
    BY <1>1, <2>1, <2>2 DEF InPlace
  <2>4. faults' \in [expired : 0..MaxExpired, failed : 0..MaxFailures,
                     restarts : 0..MaxRestarts]
    BY <1>1, <2>1, FaultType
  <2>5. Rest'
    BY <1>1, <2>1, <2>4 DEF Rest
  <2> QED BY <1>3, <2>1, <2>3, <2>5
<1>6. CASE CooldownEnds
  <2>1. /\ provider' = "on"
        /\ UNCHANGED <<vm, stray, unsure, doc, lock, wraps, registry, watching, caller,
                       faults, lost>>
    BY <1>6 DEF CooldownEnds
  <2>2. InPlace
    BY <1>1, <2>1 DEF InPlace
  <2>3. Rest'
    BY <1>1, <2>1 DEF Rest
  <2> QED BY <1>3, <2>1, <2>2, <2>3
<1>7. CASE Restart
  <2>1. PICK killed :
          vm' = [v \in DOMAIN vm |-> IF v \in killed THEN "gone" ELSE vm[v]]
    BY <1>7 DEF Restart
  <2>2. /\ faults.restarts < MaxRestarts /\ faults' = [faults EXCEPT !.restarts = @ + 1]
        /\ stray' = stray \cup DOMAIN vm
        /\ registry' = [v \in DOMAIN vm |-> None] /\ watching' = [v \in DOMAIN vm |-> 0]
        /\ lock' = NoOne /\ provider' = "on"
        /\ caller' = [c \in Callers |->
                        IF At(c) = "idle" /\ c # Warmup THEN caller[c] ELSE Fresh("done")]
        /\ UNCHANGED <<unsure, doc, wraps, lost>>
    BY <1>7 DEF Restart
  <2>3. vm' \in Seq(VmStates) /\ Len(vm') = Len(vm)
    <3>1. \A v \in 1..Len(vm) : vm[v] \in VmStates
      BY <1>1, ElementOfSeq
    <3>2. vm' \in [1..Len(vm) -> VmStates]
      BY <1>2, <2>1, <3>1 DEF VmStates
    <3> QED BY <1>1, <3>2, FunctionIsSeq
  <2>4. /\ registry' \in Seq(0..MaxWrappers) /\ Len(registry') = Len(vm)
        /\ \A v \in 1..Len(vm) : registry'[v] = None
    <3>1. registry' \in [1..Len(vm) -> 0..MaxWrappers]
      BY <1>1, <1>2, <2>2
    <3> QED BY <1>1, <1>2, <2>2, <3>1, FunctionIsSeq
  <2>5. watching' \in Seq(Int) /\ Len(watching') = Len(vm)
    <3>1. watching' \in [1..Len(vm) -> Int]
      BY <1>2, <2>2
    <3> QED BY <1>1, <3>1, FunctionIsSeq
  <2>6. InPlace
    BY <1>1, <2>2, <2>3, <2>4, <2>5 DEF InPlace
  <2>7. Rest'
    <3>1. Len(vm) <= MaxVMs /\ MaxVMs \in Nat
      BY SandboxConstants DEF Shape, Formed
    <3>2. stray' \in SUBSET (1..MaxVMs)
      <4>1. stray \subseteq 1..MaxVMs /\ stray' = stray \cup 1..Len(vm) /\ Len(vm) \in Nat
        BY <1>1, <1>2, <2>2 DEF Rest
      <4>2. 1..Len(vm) \subseteq 1..MaxVMs
        BY <3>1, <4>1
      <4> QED BY <4>1, <4>2
    <3>3. faults' \in [expired : 0..MaxExpired, failed : 0..MaxFailures,
                       restarts : 0..MaxRestarts]
      BY <1>1, <2>2, FaultType
    <3> QED BY <1>1, <2>2, <3>2, <3>3 DEF Rest
  <2>8. ASSUME NEW c \in Callers PROVE caller'[c] \in Locals /\ Settled(caller[c])'
    <3>1. caller'[c] = caller[c] \/ caller'[c] = Fresh("done")
      BY <2>2
    <3>2. caller[c] \in Locals /\ Settled(caller[c])
      BY LocalsOf
    <3>3. CASE caller'[c] = caller[c]
      BY <1>1, <2>2, <2>3, <3>2, <3>3 DEF Settled
    <3>4. CASE caller'[c] = Fresh("done")
      BY <1>1, <2>2, <2>3, <3>4 DEF Settled, Fresh, Locals, Places
    <3> QED BY <3>1, <3>3, <3>4
  <2>9. caller' \in [Callers -> Locals] /\ Holds'
    BY <2>2, <2>8 DEF Holds
  <2>10. Formed'
    BY <1>1, <2>3, <2>6, <2>7, <2>9 DEF Formed, InPlace
  <2>11. Linked'
    BY <1>1, <2>2, <2>6, InPlaceLinks
  <2> QED BY <2>9, <2>10, <2>11 DEF Shape
<1> QED BY <1>4, <1>5, <1>6, <1>7

LEMMA InitShape == Init => Shape
<1> SUFFICES ASSUME Init PROVE Shape
  OBVIOUS
<1> USE DEF Init, None, Local, Fresh
<1>1. Formed
  BY SandboxConstants DEF Formed, Rest, Locals, Places
<1>2. Linked
  BY DEF Linked
<1>3. Holds
  BY DEF Holds, Settled
<1> QED BY <1>1, <1>2, <1>3 DEF Shape

LEMMA StepShape == Shape /\ [Next]_vars => Shape'
<1> SUFFICES ASSUME Shape, [Next]_vars PROVE Shape'
  OBVIOUS
<1>1. CASE WarmupStarts \/ \E c \in Viewers \cup Peeks : ViewReads(c)
  BY <1>1, StartKeepsShape
<1>2. CASE \E t \in Turns : TurnReads(t) \/ TurnStep(t) \/ RunCommand(t) \/ RunAsks(t)
  BY <1>2, StartKeepsShape, RunKeepsShape DEF TurnStep
<1>3. CASE \E x \in Viewers : ViewStep(x)
  BY <1>3, ViewKeepsShape DEF ViewStep
<1>4. CASE \E c \in Callers : Proceed(c)
  BY <1>4, GetKeepsShape, CreateKeepsShape, EnsureKeepsShape, PauseKeepsShape DEF Proceed
<1>5. CASE \/ \E w \in DOMAIN wraps : Quiet(w)
           \/ \E v \in DOMAIN vm : Expire(v)
           \/ CooldownEnds \/ Restart
  BY <1>5, TimeKeepsShape
<1>6. CASE UNCHANGED vars
  BY <1>6 DEF vars, vms, objects, rest, Shape, Formed, Rest, Linked, Holds, Settled
<1> QED BY <1>1, <1>2, <1>3, <1>4, <1>5, <1>6 DEF Next

-----------------------------------------------------------------------------
(* Who may hold, connect and bootstrap what *)

(* A wrapper somebody holds is the registered one of its VM, unless a pause  *)
(* has dropped it.                                                           *)
HeldIsRegistered ==
  \A c \in Callers : Has(c) > 0 => wraps[Has(c)].out \/ registry[VmOf(c)] = Has(c)

(* One caller at a time bootstraps through a wrapper: its asyncio lock.      *)
OneBootstrapPerWrapper ==
  \A c, d \in Callers : c # d /\ At(c) = "boot" /\ At(d) = "boot" => Has(c) # Has(d)

(* Between connect() and the second look into the registry a VM is paused    *)
(* only by a pause that crosses the connect.                                 *)
ConnectedVmRuns ==
  \A c \in Callers : At(c) = "connected" =>
    vm[caller[c].snap] # "paused" \/ caller[c].snap \in unsure

Inv ==
  /\ Shape
  /\ HeldIsRegistered
  /\ OneBootstrapPerWrapper
  /\ ConnectedVmRuns
  /\ FrozenVmLeavesRegistry

(* Most steps move one caller and leave the VMs, the registry and what a     *)
(* wrapper is bound to alone.                                                *)
Steady ==
  /\ UNCHANGED <<vm, registry, unsure>>
  /\ Len(wraps') = Len(wraps)
  /\ \A w \in 1..Len(wraps) :
       wraps'[w].vm = wraps[w].vm /\ wraps'[w].out = wraps[w].out

(* Such a caller keeps its wrapper or takes a registered one, enters         *)
(* bootstrap alone, and was not pausing.                                     *)
Moved(c) ==
  /\ \A d \in Callers : d # c => caller'[d] = caller[d]
  /\ caller'[c].has > 0 =>
       \/ caller'[c].has = caller[c].has
       \/ \E v \in 1..Len(vm) : registry[v] # None /\ caller'[c].has = registry[v]
  /\ caller'[c].at = "boot" =>
       \A d \in Callers : ~(At(d) = "boot" /\ Has(d) = caller'[c].has)
  /\ caller'[c].at # "connected"
  /\ At(c) \notin {"pausing", "frozen"}

LEMMA MoveIsPlain ==
  ASSUME Shape, NEW c \in Callers, NEW me \in Locals, NEW l \in Places \ {"boot", "connected"},
         Go(c, me, l), At(c) \notin {"pausing", "frozen"},
         \/ me.has = Has(c) \/ me.has \in {None, Local}
         \/ \E v \in 1..Len(vm) : registry[v] # None /\ me.has = registry[v]
  PROVE  Moved(c)
<1>1. caller \in [Callers -> Locals]
  BY DEF Shape, Formed
<1>2. \A d \in Callers : d # c => caller'[d] = caller[d]
  BY <1>1, GoMoves
<1>3. /\ caller'[c].at = l
      /\ l \in {"done", "failed"} => caller'[c].has = None
      /\ l \notin {"done", "failed"} => caller'[c].has = me.has
  BY <1>1, GoFields
<1> QED BY <1>2, <1>3 DEF Moved, Has, None, Local

LEMMA GotoIsPlain ==
  ASSUME Shape, NEW c \in Callers, NEW l \in Places \ {"boot", "connected"},
         Goto(c, l), At(c) \notin {"pausing", "frozen"}
  PROVE  Moved(c)
<1>1. caller[c] \in Locals
  BY LocalsOf
<1> QED BY <1>1, MoveIsPlain DEF Goto, Has

LEMMA TakeCachedMoves ==
  ASSUME Shape, NEW c \in Callers, NEW v \in 1..Len(vm), TakeCached(c, v),
         At(c) \in {"get", "connected"}
  PROVE  Moved(c) /\ UNCHANGED <<wraps, registry>>
<1> DEFINE l == IF c \in Turns THEN "ensure" ELSE AfterGet(c)
<1>1. /\ registry[v] # None /\ Go(c, With(c, registry[v], "got"), l)
      /\ UNCHANGED <<wraps, registry>>
  BY DEF TakeCached
<1>2. l \in Places \ {"boot", "connected"}
  BY DEF AfterGet, Places
<1>3. registry[v] \in 1..MaxWrappers
  BY <1>1, RegisteredOne
<1>4. With(c, registry[v], "got") \in Locals /\ With(c, registry[v], "got").has = registry[v]
  BY <1>3, LocalsOf
<1> HIDE DEF l
<1> QED BY <1>1, <1>2, <1>4, MoveIsPlain

(* The steps of a caller that are steady. *)
LEMMA SteadySteps ==
  ASSUME Shape, NEW c \in Callers,
         \/ c = Warmup /\ WarmupStarts
         \/ c \in Turns /\ (TurnReads(c) \/ TurnStep(c) \/ RunCommand(c) \/ RunAsks(c))
         \/ c \in Viewers \cup Peeks /\ ViewReads(c)
         \/ c \in Viewers /\ ViewStep(c)
         \/ GetLocal(c) \/ GetCached(c) \/ ConnectFails(c)
         \/ CreateLocal(c) \/ Publish(c)
         \/ Ensure(c) \/ BootSucceeds(c) \/ BootFails(c)
  PROVE  Steady /\ Moved(c)
<1> USE DEF vms, objects, rest, Places
<1>0. /\ caller[c] \in Locals /\ Settled(caller[c]) /\ caller[c].snap \in Int
      /\ Reading(c) \in Locals /\ Reading(c).has = Has(c)
      /\ Holding(c, Local) \in Locals /\ Holding(c, Local).has = Local
  BY LocalsOf
<1>1. ASSUME UNCHANGED <<vm, registry, wraps, unsure>> PROVE Steady
  BY <1>1 DEF Steady
<1>2. CASE c = Warmup /\ WarmupStarts
  BY <1>1, <1>2, GotoIsPlain DEF WarmupStarts
<1>3. CASE TurnReads(c) \/ ViewReads(c)
  BY <1>0, <1>1, <1>3, MoveIsPlain DEF TurnReads, ViewReads
<1>4. CASE TurnLocks(c)
  BY <1>1, <1>4, GotoIsPlain DEF TurnLocks
<1>5. CASE GetBrowser(c)
  <2>1. At(c) = "browser" /\ (Goto(c, "run") \/ Goto(c, "failed")) /\ UNCHANGED <<vm, registry, wraps, unsure>>
    BY <1>5 DEF GetBrowser
  <2> QED BY <1>1, <2>1, GotoIsPlain
<1>6. CASE RunCommand(c)
  <2>1. /\ At(c) = "run" /\ Has(c) > 0 /\ Go(c, With(c, Has(c), "tool"), "ensure")
        /\ UNCHANGED <<vm, registry, wraps, unsure>>
    BY <1>6 DEF RunCommand
  <2>2. With(c, Has(c), "tool") \in Locals /\ With(c, Has(c), "tool").has = Has(c)
    BY <2>1, HoldsOne, LocalsOf
  <2> QED BY <1>1, <2>1, <2>2, MoveIsPlain
<1>7. CASE RunAsks(c) \/ RunEnds(c)
  <2>1. /\ At(c) = "run" /\ \E l \in {"asked", "done", "pausing"} : Goto(c, l)
        /\ UNCHANGED <<vm, registry, wraps, unsure>>
    BY <1>7 DEF RunAsks, RunEnds
  <2> QED BY <1>1, <2>1, GotoIsPlain
<1>8. CASE c \in Viewers /\ ViewStep(c)
  <2>1. CASE Leave(c) \/ LoopGivesUp(c)
    <3>1. /\ At(c) \in {"watch", "loop"} /\ \E l \in {"loop", "done"} : Goto(c, l)
          /\ UNCHANGED <<vm, registry, wraps, unsure>>
      BY <2>1 DEF Leave, LoopGivesUp
    <3> QED BY <1>1, <3>1, GotoIsPlain
  <2>2. CASE LoopLooks(c)
    <3> DEFINE w == registry[VmOf(c)]
    <3>1. /\ At(c) = "loop" /\ UNCHANGED <<vm, registry, wraps, unsure>>
          /\ Goto(c, "done") \/ (w # None /\ Go(c, Holding(c, w), "pausing"))
      BY <2>2 DEF LoopLooks
    <3>2. VmOf(c) \in 1..Len(vm)
      BY <1>0, <3>1, HoldsOne DEF Settled, At, Has
    <3>3. CASE Goto(c, "done")
      BY <1>1, <3>1, <3>3, GotoIsPlain
    <3>4. CASE w # None /\ Go(c, Holding(c, w), "pausing")
      <4>1. w \in 1..MaxWrappers
        BY <3>2, <3>4, RegisteredOne
      <4>2. Holding(c, w) \in Locals /\ Holding(c, w).has = w
        BY <4>1, LocalsOf
      <4>3. \E v \in 1..Len(vm) : registry[v] # None /\ Holding(c, w).has = registry[v]
        BY <3>2, <3>4, <4>2
      <4> HIDE DEF w
      <4> QED BY <1>1, <3>1, <3>4, <4>2, <4>3, MoveIsPlain
    <3> QED BY <3>1, <3>3, <3>4
  <2> QED BY <1>8, <2>1, <2>2 DEF ViewStep
<1>9. CASE GetLocal(c)
  <2>1. /\ At(c) = "get" /\ \E l \in {"run", "done"} : Go(c, Holding(c, Local), l)
        /\ UNCHANGED <<vm, registry, wraps, unsure>>
    BY <1>9 DEF GetLocal
  <2> QED BY <1>0, <1>1, <2>1, MoveIsPlain
<1>10. CASE GetCached(c)
  <2>1. /\ At(c) = "get" /\ caller[c].snap > 0 /\ TakeCached(c, caller[c].snap)
        /\ UNCHANGED <<vm, unsure>>
    BY <1>10 DEF GetCached
  <2>2. caller[c].snap \in 1..Len(vm)
    BY <1>0, <2>1 DEF Settled, Shape, Formed
  <2> QED BY <1>1, <2>1, <2>2, TakeCachedMoves
<1>11. CASE ConnectFails(c)
  <2>1. /\ At(c) = "get" /\ \E l \in {"create", "done"} : Goto(c, l)
        /\ UNCHANGED <<vm, registry, wraps, unsure>>
    BY <1>11 DEF ConnectFails, AfterFailedGet
  <2> QED BY <1>1, <2>1, GotoIsPlain
<1>12. CASE CreateLocal(c)
  BY <1>0, <1>1, <1>12, MoveIsPlain DEF CreateLocal
<1>13. CASE Publish(c)
  <2>1. /\ At(c) = "publish" /\ UNCHANGED <<vm, registry, wraps, unsure>>
        /\ \/ Has(c) > 0 /\ Go(c, With(c, Has(c), "made"), "ensure")
           \/ \E l \in {"run", "done"} : Goto(c, l)
    BY <1>13 DEF Publish
  <2>2. ASSUME Has(c) > 0
        PROVE  With(c, Has(c), "made") \in Locals /\ With(c, Has(c), "made").has = Has(c)
    BY <2>2, HoldsOne, LocalsOf
  <2> QED BY <1>1, <2>1, <2>2, GotoIsPlain, MoveIsPlain
<1>14. CASE Ensure(c) \/ BootSucceeds(c)
  <2>1. At(c) \in {"ensure", "boot"} /\ UNCHANGED <<vm, registry, unsure>>
    BY <1>14 DEF Ensure, BootSucceeds
  <2>2. Has(c) \in 1..Len(wraps)
    BY <1>0, <2>1, HoldsOne DEF Settled, At, Has
  <2>3. Steady
    <3>1. \/ wraps' = [wraps EXCEPT ![Has(c)].busy = TRUE]
          \/ wraps' = [wraps EXCEPT ![Has(c)].boot = TRUE]
      BY <1>14 DEF Ensure, BootSucceeds
    <3> QED BY <2>1, <2>2, <3>1, WrapTouched DEF Steady
  <2>4. AfterEnsure(c) \in Places \ {"boot", "connected"}
    BY DEF AfterEnsure, AfterGet
  <2>5. CASE Goto(c, AfterEnsure(c))
    BY <2>1, <2>3, <2>4, <2>5, GotoIsPlain
  <2>6. CASE /\ Goto(c, "boot")
             /\ \A d \in Callers : ~(At(d) = "boot" /\ Has(d) = Has(c))
    <3>1. caller \in [Callers -> Locals]
      BY DEF Shape, Formed
    <3>2. \A d \in Callers : d # c => caller'[d] = caller[d]
      BY <1>0, <2>6, <3>1, GoMoves DEF Goto
    <3>3. caller'[c].at = "boot" /\ caller'[c].has = Has(c)
      BY <1>0, <2>6, <3>1, GoFields DEF Goto, Has
    <3> QED BY <2>1, <2>3, <2>6, <3>2, <3>3 DEF Moved, Has
  <2> QED BY <1>14, <2>5, <2>6 DEF Ensure, BootSucceeds
<1>15. CASE BootFails(c)
  <2>1. /\ At(c) = "boot" /\ UNCHANGED <<vm, registry, wraps, unsure>>
        /\ \/ Go(c, Holding(c, Local), "publish")
           \/ \E l \in {"create", "run", "done", "failed"} : Goto(c, l)
    BY <1>15 DEF BootFails, AfterFailedGet
  <2> QED BY <1>0, <1>1, <2>1, GotoIsPlain, MoveIsPlain
<1> QED BY <1>2, <1>3, <1>4, <1>5, <1>6, <1>7, <1>8, <1>9, <1>10, <1>11, <1>12, <1>13,
           <1>14, <1>15 DEF TurnStep

LEMMA SteadyKeeps ==
  ASSUME Inv, Shape', NEW c \in Callers, Steady, Moved(c)
  PROVE  Inv'
<1> USE DEF None
<1>1. Shape /\ Len(wraps) \in Nat /\ Len(vm) \in Nat
  BY DEF Inv, Shape, Formed
<1>2. ASSUME NEW d \in Callers, d # c
      PROVE  /\ At(d)' = At(d) /\ Has(d)' = Has(d) /\ caller'[d] = caller[d]
             /\ Has(d) > 0 => VmOf(d)' = VmOf(d) /\ wraps'[Has(d)].out = wraps[Has(d)].out
  <2>1. caller'[d] = caller[d]
    BY <1>2 DEF Moved
  <2>2. Has(d) > 0 => Has(d) \in 1..Len(wraps)
    BY <1>1, HoldsOne
  <2> QED BY <2>1, <2>2 DEF At, Has, VmOf, Steady
<1>3. HeldIsRegistered'
  <2> SUFFICES ASSUME NEW d \in Callers, Has(d)' > 0
               PROVE  wraps'[Has(d)'].out \/ registry'[VmOf(d)'] = Has(d)'
    BY DEF HeldIsRegistered
  <2>1. CASE d # c
    BY <1>2, <2>1 DEF Inv, HeldIsRegistered, Steady
  <2>2. CASE d = c /\ caller'[c].has = caller[c].has
    <3>1. Has(c)' = Has(c) /\ Has(c) > 0
      BY <2>2 DEF Has
    <3>2. Has(c) \in 1..Len(wraps)
      BY <1>1, <3>1, HoldsOne
    <3>3. VmOf(c)' = VmOf(c) /\ wraps'[Has(c)].out = wraps[Has(c)].out
      BY <3>1, <3>2 DEF VmOf, Steady
    <3> QED BY <2>2, <3>1, <3>3 DEF Inv, HeldIsRegistered, Steady
  <2>3. ASSUME d = c, NEW v \in 1..Len(vm), registry[v] # None, caller'[c].has = registry[v]
        PROVE  registry'[VmOf(c)'] = Has(c)'
    <3>1. registry[v] \in 1..Len(wraps) /\ wraps[registry[v]].vm = v
      BY <1>1, <2>3, RegisteredOne
    <3>2. Has(c)' = registry[v] /\ VmOf(c)' = v
      BY <1>1, <2>3, <3>1 DEF Has, VmOf, Steady
    <3> QED BY <3>2 DEF Steady
  <2> QED BY <2>1, <2>2, <2>3 DEF Moved, Has
<1>4. OneBootstrapPerWrapper'
  <2> SUFFICES ASSUME NEW d \in Callers, NEW e \in Callers, d # e,
                      At(d)' = "boot", At(e)' = "boot"
               PROVE  Has(d)' # Has(e)'
    BY DEF OneBootstrapPerWrapper
  <2>1. CASE d # c /\ e # c
    BY <1>2, <2>1 DEF Inv, OneBootstrapPerWrapper
  <2>2. CASE d = c
    BY <1>2, <2>2 DEF Moved, At, Has
  <2>3. CASE e = c
    BY <1>2, <2>3 DEF Moved, At, Has
  <2> QED BY <2>1, <2>2, <2>3
<1>5. ConnectedVmRuns'
  <2> SUFFICES ASSUME NEW d \in Callers, At(d)' = "connected"
               PROVE  vm'[caller'[d].snap] # "paused" \/ caller'[d].snap \in unsure'
    BY DEF ConnectedVmRuns
  <2>1. d # c
    BY DEF Moved, At
  <2> QED BY <1>2, <2>1 DEF Inv, ConnectedVmRuns, Steady
<1>6. FrozenVmLeavesRegistry'
  <2> SUFFICES ASSUME NEW v \in VMs', registry'[v] # None, vm'[v] = "paused"
               PROVE  Pausing(v)' # {} \/ v \in unsure'
    BY DEF FrozenVmLeavesRegistry
  <2>1. v \in VMs /\ registry[v] # None /\ vm[v] = "paused" /\ unsure' = unsure
    BY DEF VMs, Steady
  <2>2. CASE v \in unsure
    BY <2>1, <2>2
  <2>3. ASSUME NEW d \in Pausing(v) PROVE d \in Pausing(v)'
    <3>1. d \in Callers /\ At(d) \in {"pausing", "frozen"} /\ VmOf(d) = v /\ d # c
      BY DEF Pausing, Moved
    <3>2. Has(d) > 0
      BY <1>1, <3>1, LocalsOf DEF Settled, At, Has
    <3> QED BY <1>2, <3>1, <3>2 DEF Pausing
  <2> QED BY <2>1, <2>2, <2>3 DEF Inv, FrozenVmLeavesRegistry
<1> QED BY <1>3, <1>4, <1>5, <1>6 DEF Inv

(* Other callers see nothing of a move but what it does to the objects.      *)
LEMMA OthersKept ==
  ASSUME Shape, NEW c \in Callers, NEW me \in Locals, NEW l \in Places, Go(c, me, l)
  PROVE  /\ \A d \in Callers : d # c =>
              /\ caller'[d] = caller[d] /\ At(d)' = At(d) /\ Has(d)' = Has(d)
              /\ Has(d) > 0 => Has(d) \in 1..Len(wraps) /\ VmOf(d) = wraps[Has(d)].vm
         /\ At(c)' = l /\ (l \in {"done", "failed"} => Has(c)' = None)
         /\ (l \notin {"done", "failed"} => Has(c)' = me.has /\ caller'[c].snap = me.snap)
<1>1. caller \in [Callers -> Locals]
  BY DEF Shape, Formed
<1>2. \A d \in Callers : d # c => caller'[d] = caller[d]
  BY <1>1, GoMoves
<1>3. /\ caller'[c].at = l
      /\ l \in {"done", "failed"} => caller'[c].has = None
      /\ l \notin {"done", "failed"} => caller'[c].has = me.has /\ caller'[c].snap = me.snap
  BY <1>1, GoFields
<1>4. \A d \in Callers : Has(d) > 0 => Has(d) \in 1..Len(wraps) /\ VmOf(d) = wraps[Has(d)].vm
  BY HoldsOne
<1> QED BY <1>2, <1>3, <1>4 DEF At, Has

LEMMA ConnectKeeps ==
  ASSUME Inv, Shape', NEW c \in Callers, Connect(c)
  PROVE  Inv'
<1> USE DEF None, vms, objects, rest
<1> DEFINE v == caller[c].snap
<1>1. /\ Shape /\ caller[c] \in Locals /\ v \in 1..Len(vm) /\ vm \in Seq(VmStates)
  <2>1. Shape
    BY DEF Inv
  <2>2. caller[c] \in Locals /\ v \in Int /\ v <= Len(vm) /\ v > 0
    BY <2>1, LocalsOf DEF Settled, Connect
  <2>3. vm \in Seq(VmStates) /\ Len(vm) \in Nat
    BY <2>1 DEF Shape, Formed
  <2> QED BY <2>1, <2>2, <2>3
<1>2. /\ At(c) = "get" /\ registry[v] = None /\ vm' = [vm EXCEPT ![v] = "running"]
      /\ Go(c, caller[c], "connected") /\ UNCHANGED <<wraps, registry, unsure>>
  BY DEF Connect, Goto
<1>3. /\ Len(vm') = Len(vm) /\ vm'[v] = "running"
      /\ \A u \in 1..Len(vm) : u # v => vm'[u] = vm[u]
  BY <1>1, <1>2, SlotSet DEF VmStates
<1>4. /\ \A d \in Callers : d # c =>
           caller'[d] = caller[d] /\ At(d)' = At(d) /\ Has(d)' = Has(d)
      /\ At(c)' = "connected" /\ Has(c)' = Has(c) /\ caller'[c].snap = v
  BY <1>1, <1>2, OthersKept DEF Places, Has
<1>5. \A d \in Callers : Has(d)' = Has(d) /\ VmOf(d)' = VmOf(d)
  BY <1>2, <1>4 DEF VmOf
<1> HIDE DEF v
<1>6. HeldIsRegistered'
  BY <1>2, <1>5 DEF Inv, HeldIsRegistered
<1>7. OneBootstrapPerWrapper'
  BY <1>4, <1>5 DEF Inv, OneBootstrapPerWrapper
<1>8. ConnectedVmRuns'
  <2> SUFFICES ASSUME NEW d \in Callers, At(d)' = "connected"
               PROVE  vm'[caller'[d].snap] # "paused" \/ caller'[d].snap \in unsure'
    BY DEF ConnectedVmRuns
  <2>1. CASE d = c
    BY <1>3, <1>4, <2>1
  <2>2. CASE d # c
    <3>1. caller'[d] = caller[d] /\ At(d) = "connected"
      BY <1>4, <2>2
    <3>2. caller[d].snap \in 1..Len(vm)
      BY <1>1, <3>1, LocalsOf DEF Settled, At, Shape, Formed
    <3> QED BY <1>2, <1>3, <3>1, <3>2 DEF Inv, ConnectedVmRuns
  <2> QED BY <2>1, <2>2
<1>9. FrozenVmLeavesRegistry'
  <2> SUFFICES ASSUME NEW u \in VMs', registry'[u] # None, vm'[u] = "paused"
               PROVE  Pausing(u)' # {} \/ u \in unsure'
    BY DEF FrozenVmLeavesRegistry
  <2>1. u \in VMs /\ u # v
    BY <1>1, <1>2, <1>3 DEF VMs, Inv, Shape, Formed
  <2>2. vm[u] = "paused" /\ registry[u] # None
    BY <1>1, <1>2, <1>3, <2>1 DEF VMs
  <2>3. ASSUME NEW d \in Pausing(u) PROVE d \in Pausing(u)'
    BY <1>2, <1>4, <1>5 DEF Pausing
  <2> QED BY <1>2, <2>1, <2>2, <2>3 DEF Inv, FrozenVmLeavesRegistry
<1> QED BY <1>6, <1>7, <1>8, <1>9 DEF Inv

(* A new wrapper, of a VM that has none in the registry: whoever held one of *)
(* that VM holds a dropped one.                                              *)
LEMMA RegisterKeeps ==
  ASSUME Inv, Shape', NEW c \in Callers, Register(c)
  PROVE  Inv'
<1> USE DEF None, vms, objects, rest
<1> DEFINE v == caller[c].snap
           n == Len(wraps)
<1>1. Shape
  BY DEF Inv
<1>2. /\ At(c) = "connected" /\ caller[c] \in Locals /\ Len(vm) \in Nat /\ n \in Nat
      /\ n <= MaxWrappers /\ MaxWrappers \in Nat /\ wraps \in Seq(Wrappers)
      /\ registry \in Seq(0..MaxWrappers) /\ Len(registry) = Len(vm)
  BY <1>1, LocalsOf, SandboxConstants DEF Register, Shape, Formed, Linked
<1>3. v \in 1..Len(vm) /\ v \in 1..MaxVMs
  <2>1. v \in {Local, None} \cup 1..MaxVMs /\ v \in Int /\ v > 0 /\ v <= Len(vm)
    BY <1>1, <1>2, LocalsOf DEF Settled, At, Locals
  <2> QED BY <1>2, <2>1 DEF Local
<1>4. CASE TakeCached(c, v) /\ UNCHANGED <<vm, unsure>>
  BY <1>1, <1>2, <1>3, <1>4, TakeCachedMoves, SteadyKeeps DEF Steady
<1>5. CASE /\ registry[v] = None /\ n < MaxWrappers
           /\ wraps' = Append(wraps, Wrapper(v))
           /\ registry' = [registry EXCEPT ![v] = Len(wraps')]
           /\ Go(c, With(c, Len(wraps'), "got"), "ensure")
           /\ UNCHANGED <<vm, unsure>>
  <2>1. Wrapper(v) \in Wrappers /\ Wrapper(v).vm = v
    BY <1>3 DEF Wrapper, Wrappers
  <2> HIDE DEF v, n
  <2>2. /\ Len(wraps') = n + 1 /\ wraps'[n + 1].vm = v
        /\ \A w \in 1..n : wraps'[w] = wraps[w]
    BY <1>2, <1>5, <2>1, SlotAdded DEF n
  <2>3. n + 1 \in 1..MaxWrappers /\ n + 1 \in 0..MaxWrappers
    BY <1>2, <1>5
  <2>4. registry' = [registry EXCEPT ![v] = n + 1] /\ Go(c, With(c, n + 1, "got"), "ensure")
    BY <1>5, <2>2
  <2>5. /\ registry'[v] = n + 1
        /\ \A u \in 1..Len(vm) : u # v => registry'[u] = registry[u]
    <3>1. v \in 1..Len(registry)
      BY <1>2, <1>3
    <3> QED BY <1>2, <2>3, <2>4, <3>1, SlotSet
  <2>6. With(c, n + 1, "got") \in Locals /\ With(c, n + 1, "got").has = n + 1
    BY <1>1, <2>3, LocalsOf
  <2>7. /\ \A d \in Callers : d # c =>
             /\ caller'[d] = caller[d] /\ At(d)' = At(d) /\ Has(d)' = Has(d)
             /\ Has(d) > 0 => Has(d) \in 1..n /\ VmOf(d) = wraps[Has(d)].vm
        /\ At(c)' = "ensure" /\ Has(c)' = n + 1
    BY <1>1, <2>4, <2>6, OthersKept DEF Places, n
  <2>8. ASSUME NEW d \in Callers, d # c, Has(d) > 0
        PROVE  VmOf(d)' = VmOf(d) /\ wraps'[Has(d)] = wraps[Has(d)] /\ VmOf(d) \in 1..Len(vm)
    BY <1>1, <2>2, <2>7, <2>8, HoldsOne DEF VmOf
  <2>9. VmOf(c)' = v
    BY <1>2, <2>2, <2>7 DEF VmOf
  <2>10. HeldIsRegistered'
    <3> SUFFICES ASSUME NEW d \in Callers, Has(d)' > 0
                 PROVE  wraps'[Has(d)'].out \/ registry'[VmOf(d)'] = Has(d)'
      BY DEF HeldIsRegistered
    <3>1. CASE d = c
      BY <2>5, <2>7, <2>9, <3>1
    <3>2. CASE d # c
      <4>1. Has(d)' = Has(d) /\ Has(d) > 0
        BY <2>7, <3>2
      <4>2. wraps[Has(d)].out \/ registry[VmOf(d)] = Has(d)
        BY <4>1 DEF Inv, HeldIsRegistered
      <4>3. VmOf(d)' = VmOf(d) /\ wraps'[Has(d)] = wraps[Has(d)] /\ VmOf(d) \in 1..Len(vm)
        BY <2>8, <3>2, <4>1
      <4>4. CASE VmOf(d) = v
        <5>1. wraps[Has(d)].out
          BY <1>5, <4>1, <4>2, <4>4
        <5> QED BY <4>1, <4>3, <5>1
      <4>5. CASE VmOf(d) # v
        BY <2>5, <4>1, <4>2, <4>3, <4>5
      <4> QED BY <4>4, <4>5
    <3> QED BY <3>1, <3>2
  <2>11. OneBootstrapPerWrapper'
    BY <2>7 DEF Inv, OneBootstrapPerWrapper
  <2>12. ConnectedVmRuns'
    BY <1>5, <2>7 DEF Inv, ConnectedVmRuns
  <2>13. FrozenVmLeavesRegistry'
    <3> SUFFICES ASSUME NEW u \in VMs', registry'[u] # None, vm'[u] = "paused"
                 PROVE  Pausing(u)' # {} \/ u \in unsure'
      BY DEF FrozenVmLeavesRegistry
    <3>1. u \in VMs /\ vm[u] = "paused" /\ unsure' = unsure
      BY <1>5 DEF VMs
    <3>2. CASE u = v
      BY <1>2, <3>1, <3>2 DEF Inv, ConnectedVmRuns, v
    <3>3. CASE u # v
      <4>1. registry[u] # None
        <5>1. u \in 1..Len(vm)
          BY <1>1, <3>1 DEF VMs, Shape, Formed
        <5> QED BY <2>5, <3>3, <5>1
      <4>2. ASSUME NEW d \in Pausing(u) PROVE d \in Pausing(u)'
        <5>1. d \in Callers /\ At(d) \in {"pausing", "frozen"} /\ VmOf(d) = u /\ d # c
          BY <1>2 DEF Pausing
        <5>2. Has(d) > 0
          BY <1>1, <5>1, LocalsOf DEF Settled, At, Has
        <5> QED BY <2>7, <2>8, <5>1, <5>2 DEF Pausing
      <4> QED BY <3>1, <4>1, <4>2 DEF Inv, FrozenVmLeavesRegistry
    <3> QED BY <3>2, <3>3
  <2> QED BY <2>10, <2>11, <2>12, <2>13 DEF Inv
<1> QED BY <1>4, <1>5 DEF Register

(* A new VM with its wrapper: nobody else has anything of it.                *)
LEMMA CreateVmKeeps ==
  ASSUME Inv, Shape', NEW c \in Callers, CreateVm(c)
  PROVE  Inv'
<1> USE DEF None, vms, objects, rest
<1> DEFINE m == Len(vm)
           n == Len(wraps)
<1>1. /\ Shape /\ m \in Nat /\ n \in Nat /\ wraps \in Seq(Wrappers) /\ vm \in Seq(VmStates)
      /\ registry \in Seq(0..MaxWrappers) /\ Len(registry) = m
      /\ MaxVMs \in Nat /\ MaxWrappers \in Nat
  BY SandboxConstants DEF Inv, Shape, Formed, Linked
<1>2. /\ m + 1 \in 1..MaxVMs /\ n + 1 \in 1..MaxWrappers /\ n + 1 \in 0..MaxWrappers
      /\ vm' = Append(vm, "running") /\ wraps' = Append(wraps, Wrapper(Len(vm')))
      /\ registry' = Append(registry, Len(wraps'))
      /\ Go(c, With(c, Len(wraps'), "new"), "ensure")
      /\ At(c) = "create" /\ unsure' = unsure
  BY <1>1 DEF CreateVm
<1>3. Wrapper(m + 1) \in Wrappers /\ Wrapper(m + 1).vm = m + 1
  BY <1>2 DEF Wrapper, Wrappers
<1> HIDE DEF m, n
<1>4. Len(vm') = m + 1 /\ vm'[m + 1] = "running" /\ \A v \in 1..m : vm'[v] = vm[v]
  BY <1>1, <1>2, SlotAdded DEF VmStates, m
<1>5. /\ Len(wraps') = n + 1 /\ wraps'[n + 1].vm = m + 1
      /\ \A w \in 1..n : wraps'[w] = wraps[w]
  BY <1>1, <1>2, <1>3, <1>4, SlotAdded DEF n
<1>6. registry' = Append(registry, n + 1) /\ Go(c, With(c, n + 1, "new"), "ensure")
  BY <1>2, <1>5
<1>7. registry'[m + 1] = n + 1 /\ \A v \in 1..m : registry'[v] = registry[v]
  BY <1>1, <1>2, <1>6, SlotAdded
<1>8. With(c, n + 1, "new") \in Locals /\ With(c, n + 1, "new").has = n + 1
  BY <1>1, <1>2, LocalsOf
<1>9. /\ \A d \in Callers : d # c =>
           /\ caller'[d] = caller[d] /\ At(d)' = At(d) /\ Has(d)' = Has(d)
           /\ Has(d) > 0 => Has(d) \in 1..n /\ VmOf(d) = wraps[Has(d)].vm
      /\ At(c)' = "ensure" /\ Has(c)' = n + 1
  BY <1>1, <1>6, <1>8, OthersKept DEF Places, n
<1>10. ASSUME NEW d \in Callers, d # c, Has(d) > 0
       PROVE  VmOf(d)' = VmOf(d) /\ wraps'[Has(d)] = wraps[Has(d)] /\ VmOf(d) \in 1..m
  BY <1>1, <1>5, <1>9, <1>10, HoldsOne DEF VmOf, m
<1>11. VmOf(c)' = m + 1
  BY <1>1, <1>5, <1>9 DEF VmOf
<1>12. HeldIsRegistered'
  <2> SUFFICES ASSUME NEW d \in Callers, Has(d)' > 0
               PROVE  wraps'[Has(d)'].out \/ registry'[VmOf(d)'] = Has(d)'
    BY DEF HeldIsRegistered
  <2>1. CASE d = c
    BY <1>7, <1>9, <1>11, <2>1
  <2>2. CASE d # c
    <3>1. Has(d)' = Has(d) /\ Has(d) > 0
      BY <1>9, <2>2
    <3>2. VmOf(d)' = VmOf(d) /\ wraps'[Has(d)] = wraps[Has(d)] /\ VmOf(d) \in 1..m
      BY <1>10, <2>2, <3>1
    <3>3. wraps[Has(d)].out \/ registry[VmOf(d)] = Has(d)
      BY <3>1 DEF Inv, HeldIsRegistered
    <3> QED BY <1>7, <3>1, <3>2, <3>3
  <2> QED BY <2>1, <2>2
<1>13. OneBootstrapPerWrapper'
  BY <1>9 DEF Inv, OneBootstrapPerWrapper
<1>14. ConnectedVmRuns'
  <2> SUFFICES ASSUME NEW d \in Callers, At(d)' = "connected"
               PROVE  vm'[caller'[d].snap] # "paused" \/ caller'[d].snap \in unsure'
    BY DEF ConnectedVmRuns
  <2>1. d # c /\ caller'[d] = caller[d] /\ At(d) = "connected"
    BY <1>9
  <2>2. caller[d].snap \in 1..m
    BY <1>1, <2>1, LocalsOf DEF Settled, At, m
  <2> QED BY <1>2, <1>4, <2>1, <2>2 DEF Inv, ConnectedVmRuns
<1>15. FrozenVmLeavesRegistry'
  <2> SUFFICES ASSUME NEW u \in VMs', registry'[u] # None, vm'[u] = "paused"
               PROVE  Pausing(u)' # {} \/ u \in unsure'
    BY DEF FrozenVmLeavesRegistry
  <2>1. VMs' = 1..m + 1 /\ VMs = 1..m
    BY <1>1, <1>4 DEF VMs, Inv, Shape, Formed, m
  <2>2. u \in 1..m /\ vm[u] = "paused" /\ registry[u] # None
    <3>1. u # m + 1
      BY <1>4
    <3>2. u \in 1..m
      BY <1>1, <2>1, <3>1
    <3> QED BY <1>4, <1>7, <3>2
  <2>3. ASSUME NEW d \in Pausing(u) PROVE d \in Pausing(u)'
    <3>1. d \in Callers /\ At(d) \in {"pausing", "frozen"} /\ VmOf(d) = u /\ d # c
      BY <1>2 DEF Pausing
    <3>2. Has(d) > 0
      BY <1>1, <3>1, LocalsOf DEF Settled, At, Has
    <3> QED BY <1>9, <1>10, <3>1, <3>2 DEF Pausing
  <2> QED BY <1>2, <2>1, <2>2, <2>3 DEF Inv, FrozenVmLeavesRegistry
<1> QED BY <1>12, <1>13, <1>14, <1>15 DEF Inv

(* Between the call and its answer the pause is in flight; a connect it      *)
(* crosses makes the VM unsure.                                              *)
LEMMA FreezeKeeps ==
  ASSUME Inv, Shape', NEW c \in Callers, Freeze(c)
  PROVE  Inv'
<1> USE DEF None, vms, objects, rest
<1> DEFINE v == VmOf(c)
<1>1. /\ Shape /\ At(c) = "pausing" /\ caller[c] \in Locals /\ vm \in Seq(VmStates)
      /\ Len(vm) \in Nat
  BY LocalsOf DEF Inv, Freeze, Shape, Formed
<1>2. Has(c) > 0 /\ v \in 1..Len(vm)
  <2>1. Has(c) > 0
    BY <1>1, LocalsOf DEF Settled, At, Has
  <2> QED BY <1>1, <2>1, HoldsOne
<1>3. /\ vm' = [vm EXCEPT ![v] = "paused"] /\ Go(c, caller[c], "frozen")
      /\ unsure' = IF \E d \in Callers : At(d) = "connected" /\ caller[d].snap = v
                   THEN unsure \cup {v} ELSE unsure \ {v}
      /\ UNCHANGED <<wraps, registry>>
  BY DEF Freeze, Goto
<1> HIDE DEF v
<1>4. /\ Len(vm') = Len(vm) /\ \A u \in 1..Len(vm) : u # v => vm'[u] = vm[u]
  BY <1>1, <1>2, <1>3, SlotSet DEF VmStates
<1>5. /\ \A d \in Callers : d # c =>
           caller'[d] = caller[d] /\ At(d)' = At(d) /\ Has(d)' = Has(d)
      /\ At(c)' = "frozen" /\ Has(c)' = Has(c)
  BY <1>1, <1>3, OthersKept DEF Places, Has
<1>6. \A d \in Callers : Has(d)' = Has(d) /\ VmOf(d)' = VmOf(d)
  BY <1>3, <1>5 DEF VmOf
<1>7. HeldIsRegistered'
  BY <1>3, <1>6 DEF Inv, HeldIsRegistered
<1>8. OneBootstrapPerWrapper'
  BY <1>5, <1>6 DEF Inv, OneBootstrapPerWrapper
<1>9. ConnectedVmRuns'
  <2> SUFFICES ASSUME NEW d \in Callers, At(d)' = "connected"
               PROVE  vm'[caller'[d].snap] # "paused" \/ caller'[d].snap \in unsure'
    BY DEF ConnectedVmRuns
  <2>1. d # c /\ caller'[d] = caller[d] /\ At(d) = "connected"
    BY <1>5
  <2>2. caller[d].snap \in 1..Len(vm)
    BY <1>1, <2>1, LocalsOf DEF Settled, At
  <2>3. CASE caller[d].snap = v
    BY <1>3, <2>1, <2>3
  <2>4. CASE caller[d].snap # v
    BY <1>3, <1>4, <2>1, <2>2, <2>4 DEF Inv, ConnectedVmRuns
  <2> QED BY <2>3, <2>4
<1>10. FrozenVmLeavesRegistry'
  <2> SUFFICES ASSUME NEW u \in VMs', registry'[u] # None, vm'[u] = "paused"
               PROVE  Pausing(u)' # {} \/ u \in unsure'
    BY DEF FrozenVmLeavesRegistry
  <2>1. CASE u = v
    <3>1. c \in Pausing(u)'
      BY <1>5, <1>6, <2>1 DEF Pausing, v
    <3> QED BY <3>1
  <2>2. CASE u # v
    <3>1. u \in 1..Len(vm)
      BY <1>1, <1>3 DEF VMs
    <3>2. u \in VMs /\ vm[u] = "paused" /\ registry[u] # None
      BY <1>1, <1>3, <1>4, <2>2, <3>1 DEF VMs
    <3>3. ASSUME NEW d \in Pausing(u) PROVE d \in Pausing(u)'
      <4>1. d \in Callers /\ At(d) \in {"pausing", "frozen"} /\ VmOf(d) = u /\ d # c
        BY <2>2 DEF Pausing, v
      <4> QED BY <1>5, <1>6, <4>1 DEF Pausing
    <3> QED BY <1>3, <2>2, <3>2, <3>3 DEF Inv, FrozenVmLeavesRegistry
  <2> QED BY <2>1, <2>2
<1> QED BY <1>7, <1>8, <1>9, <1>10 DEF Inv

(* The answer empties the VM's slot and drops the wrapper that was there.    *)
LEMMA PausedKeeps ==
  ASSUME Inv, Shape', NEW c \in Callers, Paused(c)
  PROVE  Inv'
<1> USE DEF None, vms, objects, rest
<1> DEFINE v == VmOf(c)
<1>1. /\ Shape /\ At(c) = "frozen" /\ caller[c] \in Locals /\ Len(vm) \in Nat
      /\ vm \in Seq(VmStates)
      /\ registry \in Seq(0..MaxWrappers) /\ Len(registry) = Len(vm)
      /\ wraps \in Seq(Wrappers) /\ MaxWrappers \in Nat
  <2>1. Shape /\ At(c) = "frozen"
    BY DEF Inv, Paused
  <2> QED BY <2>1, LocalsOf, SandboxConstants DEF Shape, Formed, Linked
<1>2. v \in 1..Len(vm)
  <2>1. Has(c) > 0
    BY <1>1, LocalsOf DEF Settled, At, Has
  <2> QED BY <1>1, <2>1, HoldsOne
<1>3. /\ registry' = [registry EXCEPT ![v] = None] /\ Go(c, caller[c], "done")
      /\ wraps' = [w \in DOMAIN wraps |->
                     [wraps[w] EXCEPT !.boot = @ /\ w # Has(c), !.out = @ \/ w = registry[v]]]
      /\ UNCHANGED <<vm, unsure>>
  BY DEF Paused, Goto
<1>4. \A w \in 1..Len(wraps) :
        /\ wraps'[w].vm = wraps[w].vm
        /\ wraps'[w].out = (wraps[w].out \/ w = registry[v])
  <2> SUFFICES ASSUME NEW w \in 1..Len(wraps)
               PROVE  /\ wraps'[w].vm = wraps[w].vm
                      /\ wraps'[w].out = (wraps[w].out \/ w = registry[v])
    OBVIOUS
  <2>1. wraps[w] \in Wrappers /\ w \in DOMAIN wraps
    BY <1>1, ElementOfSeq
  <2> QED BY <1>3, <2>1 DEF Wrappers
<1> HIDE DEF v
<1>5. registry'[v] = None /\ \A u \in 1..Len(vm) : u # v => registry'[u] = registry[u]
  <2>1. None \in 0..MaxWrappers /\ v \in 1..Len(registry)
    BY <1>1, <1>2
  <2>2. Len(registry) = Len(vm)
    BY <1>1
  <2>3. /\ [registry EXCEPT ![v] = None][v] = None
        /\ \A u \in 1..Len(registry) : u # v => [registry EXCEPT ![v] = None][u] = registry[u]
    BY <1>1, <2>1, SlotSet
  <2> QED BY <1>3, <2>2, <2>3
<1>6. /\ \A d \in Callers : d # c =>
           /\ caller'[d] = caller[d] /\ At(d)' = At(d) /\ Has(d)' = Has(d)
           /\ Has(d) > 0 => Has(d) \in 1..Len(wraps) /\ VmOf(d) = wraps[Has(d)].vm
      /\ At(c)' = "done" /\ Has(c)' = None
  BY <1>1, <1>3, OthersKept DEF Places
<1>7. \A d \in Callers : d # c /\ Has(d) > 0 => VmOf(d)' = VmOf(d)
  BY <1>4, <1>6 DEF VmOf
<1>8. HeldIsRegistered'
  <2> SUFFICES ASSUME NEW d \in Callers, Has(d)' > 0
               PROVE  wraps'[Has(d)'].out \/ registry'[VmOf(d)'] = Has(d)'
    BY DEF HeldIsRegistered
  <2>1. d # c /\ Has(d)' = Has(d) /\ Has(d) > 0 /\ Has(d) \in 1..Len(wraps) /\ VmOf(d)' = VmOf(d)
    BY <1>6, <1>7
  <2>2. wraps[Has(d)].out \/ registry[VmOf(d)] = Has(d)
    BY <2>1 DEF Inv, HeldIsRegistered
  <2>3. VmOf(d) \in 1..Len(vm)
    BY <1>1, <2>1, HoldsOne
  <2>4. CASE VmOf(d) = v
    <3>1. wraps'[Has(d)].out = (wraps[Has(d)].out \/ Has(d) = registry[v])
      BY <1>4, <2>1
    <3> QED BY <2>1, <2>2, <2>4, <3>1
  <2>5. CASE VmOf(d) # v
    <3>1. wraps'[Has(d)].out = (wraps[Has(d)].out \/ Has(d) = registry[v])
      BY <1>4, <2>1
    <3>2. registry'[VmOf(d)] = registry[VmOf(d)]
      BY <1>5, <2>3, <2>5
    <3> QED BY <2>1, <2>2, <3>1, <3>2
  <2> QED BY <2>4, <2>5
<1>9. OneBootstrapPerWrapper'
  BY <1>6 DEF Inv, OneBootstrapPerWrapper
<1>10. ConnectedVmRuns'
  BY <1>3, <1>6 DEF Inv, ConnectedVmRuns
<1>11. FrozenVmLeavesRegistry'
  <2> SUFFICES ASSUME NEW u \in VMs', registry'[u] # None, vm'[u] = "paused"
               PROVE  Pausing(u)' # {} \/ u \in unsure'
    BY DEF FrozenVmLeavesRegistry
  <2>1. u # v /\ u \in VMs /\ u \in 1..Len(vm)
    <3>1. VMs' = VMs
      BY <1>3 DEF VMs
    <3>2. VMs = 1..Len(vm)
      BY <1>1 DEF VMs
    <3>3. u # v
      BY <1>5
    <3> QED BY <3>1, <3>2, <3>3
  <2>2. vm[u] = "paused" /\ registry[u] # None
    BY <1>3, <1>5, <2>1
  <2>3. ASSUME NEW d \in Pausing(u) PROVE d \in Pausing(u)'
    <3>1. d \in Callers /\ At(d) \in {"pausing", "frozen"} /\ VmOf(d) = u /\ d # c
      BY <2>1 DEF Pausing, v
    <3>2. Has(d) > 0
      BY <1>1, <3>1, LocalsOf DEF Settled, At, Has
    <3> QED BY <1>6, <1>7, <3>1, <3>2 DEF Pausing
  <2> QED BY <1>3, <2>1, <2>2, <2>3 DEF Inv, FrozenVmLeavesRegistry
<1> QED BY <1>8, <1>9, <1>10, <1>11 DEF Inv

(* A pause that gets no answer makes the VM unsure. *)
LEMMA PauseFailsKeeps ==
  ASSUME Inv, Shape', NEW c \in Callers, PauseFails(c)
  PROVE  Inv'
<1> USE DEF None, vms, objects, rest
<1> DEFINE v == VmOf(c)
<1>1. Shape /\ caller[c] \in Locals
  BY LocalsOf DEF Inv
<1>2. /\ unsure' = unsure \cup {v} /\ Go(c, caller[c], "done")
      /\ UNCHANGED <<vm, wraps, registry>>
  BY DEF PauseFails, Goto
<1> HIDE DEF v
<1>3. /\ \A d \in Callers : d # c =>
           caller'[d] = caller[d] /\ At(d)' = At(d) /\ Has(d)' = Has(d)
      /\ At(c)' = "done" /\ Has(c)' = None
  BY <1>1, <1>2, OthersKept DEF Places
<1>4. \A d \in Callers : d # c => VmOf(d)' = VmOf(d)
  BY <1>2, <1>3 DEF VmOf
<1>5. HeldIsRegistered'
  BY <1>2, <1>3, <1>4 DEF Inv, HeldIsRegistered
<1>6. OneBootstrapPerWrapper'
  BY <1>3 DEF Inv, OneBootstrapPerWrapper
<1>7. ConnectedVmRuns'
  BY <1>2, <1>3 DEF Inv, ConnectedVmRuns
<1>8. FrozenVmLeavesRegistry'
  <2> SUFFICES ASSUME NEW u \in VMs', registry'[u] # None, vm'[u] = "paused", u # v
               PROVE  Pausing(u)' # {} \/ u \in unsure'
    BY <1>2 DEF FrozenVmLeavesRegistry
  <2>1. u \in VMs /\ registry[u] # None /\ vm[u] = "paused"
    BY <1>2 DEF VMs
  <2>2. ASSUME NEW d \in Pausing(u) PROVE d \in Pausing(u)'
    BY <1>3, <1>4 DEF Pausing, v
  <2> QED BY <1>2, <2>1, <2>2 DEF Inv, FrozenVmLeavesRegistry
<1> QED BY <1>5, <1>6, <1>7, <1>8 DEF Inv

(* A restart forgets the registry and every caller that has begun. *)
LEMMA RestartKeeps ==
  ASSUME Inv, Shape', Restart
  PROVE  Inv'
<1> USE DEF None
<1>1. /\ registry' = [v \in DOMAIN vm |-> None]
      /\ caller' = [c \in Callers |->
                      IF At(c) = "idle" /\ c # Warmup THEN caller[c] ELSE Fresh("done")]
      /\ \E killed : vm' = [v \in DOMAIN vm |-> IF v \in killed THEN "gone" ELSE vm[v]]
  BY DEF Restart
<1>2. \A c \in Callers : At(c)' \in {"idle", "done"} /\ Has(c)' = None
  <2> TAKE c \in Callers
  <2>1. Shape /\ Settled(caller[c])
    BY LocalsOf DEF Inv
  <2> QED BY <1>1, <2>1 DEF At, Has, Fresh, Settled
<1>3. HeldIsRegistered' /\ OneBootstrapPerWrapper' /\ ConnectedVmRuns'
  BY <1>2 DEF HeldIsRegistered, OneBootstrapPerWrapper, ConnectedVmRuns
<1>4. FrozenVmLeavesRegistry'
  <2>1. DOMAIN vm' = DOMAIN vm
    BY <1>1
  <2> QED BY <1>1, <2>1 DEF FrozenVmLeavesRegistry, VMs
<1> QED BY <1>3, <1>4 DEF Inv

(* Time, the platform, and a step that changes nothing. *)
LEMMA TimeKeeps ==
  ASSUME Inv, Shape',
         \/ \E w \in DOMAIN wraps : Quiet(w)
         \/ \E v \in DOMAIN vm : Expire(v)
         \/ CooldownEnds \/ UNCHANGED vars
  PROVE  Inv'
<1> USE DEF None, vars, vms, objects, rest
<1>1. /\ Shape /\ Len(wraps) \in Nat /\ Len(vm) \in Nat
      /\ wraps \in Seq(Wrappers) /\ vm \in Seq(VmStates)
  BY DEF Inv, Shape, Formed
<1>2. UNCHANGED <<caller, registry, unsure>>
  BY DEF Quiet, Expire, CooldownEnds
<1>3. \A w \in 1..Len(wraps) : wraps'[w].vm = wraps[w].vm /\ wraps'[w].out = wraps[w].out
  <2>1. ASSUME NEW u \in DOMAIN wraps, wraps' = [wraps EXCEPT ![u].busy = FALSE]
        PROVE  \A w \in 1..Len(wraps) : wraps'[w].vm = wraps[w].vm /\ wraps'[w].out = wraps[w].out
    <3>1. u \in 1..Len(wraps)
      BY <1>1
    <3> QED BY <1>1, <2>1, <3>1, WrapTouched
  <2>2. \/ UNCHANGED wraps
        \/ \E u \in DOMAIN wraps : wraps' = [wraps EXCEPT ![u].busy = FALSE]
    BY DEF Quiet, Expire, CooldownEnds
  <2> QED BY <2>1, <2>2
<1>4. DOMAIN vm' = DOMAIN vm /\ \A v \in DOMAIN vm : vm'[v] = vm[v] \/ vm'[v] = "gone"
  <2>1. \/ UNCHANGED vm
        \/ \E v \in DOMAIN vm : vm' = [vm EXCEPT ![v] = "gone"]
    BY DEF Quiet, Expire, CooldownEnds
  <2> QED BY <2>1
<1>5. \A d \in Callers :
        /\ At(d)' = At(d) /\ Has(d)' = Has(d) /\ VmOf(d)' = VmOf(d)
        /\ Has(d) > 0 => wraps'[Has(d)].out = wraps[Has(d)].out
  <2> TAKE d \in Callers
  <2>1. Has(d) > 0 => Has(d) \in 1..Len(wraps)
    BY <1>1, HoldsOne
  <2> QED BY <1>2, <1>3, <2>1 DEF At, Has, VmOf
<1>6. HeldIsRegistered'
  BY <1>2, <1>5 DEF Inv, HeldIsRegistered
<1>7. OneBootstrapPerWrapper'
  BY <1>5 DEF Inv, OneBootstrapPerWrapper
<1>8. ConnectedVmRuns'
  <2> SUFFICES ASSUME NEW d \in Callers, At(d)' = "connected"
               PROVE  vm'[caller'[d].snap] # "paused" \/ caller'[d].snap \in unsure'
    BY DEF ConnectedVmRuns
  <2>1. At(d) = "connected" /\ caller'[d] = caller[d] /\ unsure' = unsure
    BY <1>2, <1>5
  <2>2. caller[d].snap \in 1..Len(vm)
    BY <1>1, <2>1, LocalsOf DEF Settled, At
  <2>3. caller[d].snap \in DOMAIN vm
    BY <1>1, <2>2
  <2> QED BY <1>4, <2>1, <2>3 DEF Inv, ConnectedVmRuns
<1>9. FrozenVmLeavesRegistry'
  <2> SUFFICES ASSUME NEW u \in VMs', registry'[u] # None, vm'[u] = "paused"
               PROVE  Pausing(u)' # {} \/ u \in unsure'
    BY DEF FrozenVmLeavesRegistry
  <2>1. u \in VMs /\ registry[u] # None /\ vm[u] = "paused"
    BY <1>2, <1>4 DEF VMs
  <2>2. ASSUME NEW d \in Pausing(u) PROVE d \in Pausing(u)'
    BY <1>5 DEF Pausing
  <2> QED BY <1>2, <2>1, <2>2 DEF Inv, FrozenVmLeavesRegistry
<1> QED BY <1>6, <1>7, <1>8, <1>9 DEF Inv

LEMMA InvInit == Init => Inv
BY InitShape DEF Init, Inv, HeldIsRegistered, OneBootstrapPerWrapper, ConnectedVmRuns,
  FrozenVmLeavesRegistry, At, Has, Fresh, VMs, None

LEMMA InvStep == Inv /\ [Next]_vars => Inv'
<1> SUFFICES ASSUME Inv, [Next]_vars PROVE Inv'
  OBVIOUS
<1>1. Shape'
  BY StepShape DEF Inv
<1>2. Shape /\ Warmup \in Callers /\ Turns \subseteq Callers /\ Viewers \cup Peeks \subseteq Callers
  BY DEF Inv, Callers
<1>3. CASE WarmupStarts
  BY <1>1, <1>2, <1>3, SteadySteps, SteadyKeeps
<1>4. CASE \E t \in Turns : TurnReads(t) \/ TurnStep(t) \/ RunCommand(t) \/ RunAsks(t)
  BY <1>1, <1>2, <1>4, SteadySteps, SteadyKeeps
<1>5. CASE \E c \in Viewers \cup Peeks : ViewReads(c)
  BY <1>1, <1>2, <1>5, SteadySteps, SteadyKeeps
<1>6. CASE \E x \in Viewers : ViewStep(x)
  BY <1>1, <1>2, <1>6, SteadySteps, SteadyKeeps
<1>7. CASE \E c \in Callers : Proceed(c)
  <2> SUFFICES ASSUME NEW c \in Callers, Proceed(c) PROVE Inv'
    BY <1>7
  <2>1. CASE \/ GetLocal(c) \/ GetCached(c) \/ ConnectFails(c) \/ CreateLocal(c)
             \/ Publish(c) \/ Ensure(c) \/ BootSucceeds(c) \/ BootFails(c)
    BY <1>1, <1>2, <2>1, SteadySteps, SteadyKeeps
  <2>2. CASE Connect(c)
    BY <1>1, <2>2, ConnectKeeps
  <2>3. CASE Register(c)
    BY <1>1, <2>3, RegisterKeeps
  <2>4. CASE CreateVm(c)
    BY <1>1, <2>4, CreateVmKeeps
  <2>5. CASE Freeze(c)
    BY <1>1, <2>5, FreezeKeeps
  <2>6. CASE Paused(c)
    BY <1>1, <2>6, PausedKeeps
  <2>7. CASE PauseFails(c)
    BY <1>1, <2>7, PauseFailsKeeps
  <2> QED BY <2>1, <2>2, <2>3, <2>4, <2>5, <2>6, <2>7 DEF Proceed
<1>8. CASE \/ \E w \in DOMAIN wraps : Quiet(w)
           \/ \E v \in DOMAIN vm : Expire(v)
           \/ CooldownEnds \/ UNCHANGED vars
  BY <1>1, <1>8, TimeKeeps
<1>9. CASE Restart
  BY <1>1, <1>9, RestartKeeps
<1> QED BY <1>3, <1>4, <1>5, <1>6, <1>7, <1>8, <1>9 DEF Next

LEMMA InvAlways == Spec => []Inv
BY InvInit, InvStep, PTL DEF Spec

(* A frozen VM does not stay behind a registered wrapper, whatever the       *)
(* callers do and the platform answers, except while its pause is in flight  *)
(* or when its outcome is unknown.                                           *)
THEOREM FrozenVmLeavesRegistryHolds == Spec => []FrozenVmLeavesRegistry
<1>1. Inv => FrozenVmLeavesRegistry
  BY DEF Inv
<1> QED BY <1>1, InvAlways, PTL

(* Two callers bootstrap one VM at the same moment only when one of them     *)
(* holds a wrapper a pause has dropped.                                      *)
THEOREM OneBootstrapPerVmHolds == Spec => []OneBootstrapPerVm
<1>1. Inv => OneBootstrapPerVm
  <2> SUFFICES ASSUME Inv, NEW c \in Callers, NEW d \in Callers, c # d,
                      At(c) = "boot", At(d) = "boot", VmOf(c) = VmOf(d)
               PROVE  wraps[Has(c)].out \/ wraps[Has(d)].out
    BY DEF OneBootstrapPerVm
  <2>1. Has(c) > 0 /\ Has(d) > 0
    BY LocalsOf DEF Inv, Settled, At, Has
  <2>2. Has(c) # Has(d)
    BY DEF Inv, OneBootstrapPerWrapper
  <2> QED BY <2>1, <2>2 DEF Inv, HeldIsRegistered
<1> QED BY <1>1, InvAlways, PTL

-----------------------------------------------------------------------------
(* The viewers' counts are exact, and with them every variable well formed    *)

Watchers(v) == {x \in Callers : At(x) = "watch" /\ VmOf(x) = v}

ViewersAreCounted ==
  /\ \A v \in 1..Len(vm) : watching[v] = Cardinality(Watchers(v))
  /\ \A c \in Callers : At(c) = "watch" => c \in Viewers

Counting == Shape /\ ViewersAreCounted

(* A caller that watches neither before nor after its step.                  *)
LEMMA SilentMove ==
  ASSUME Counting, NEW c \in Callers, At(c) # "watch",
         \E me \in Locals, l \in Places \ {"watch"} : Go(c, me, l),
         Len(vm') = Len(vm), UNCHANGED watching,
         \A w \in 1..Len(wraps) : wraps'[w].vm = wraps[w].vm
  PROVE  ViewersAreCounted'
<1>1. Shape
  BY DEF Counting
<1>2. PICK me \in Locals, l \in Places \ {"watch"} : Go(c, me, l)
  OBVIOUS
<1>3. /\ \A d \in Callers : d # c =>
           /\ At(d)' = At(d) /\ Has(d)' = Has(d)
           /\ Has(d) > 0 => Has(d) \in 1..Len(wraps) /\ VmOf(d) = wraps[Has(d)].vm
      /\ At(c)' # "watch"
  BY <1>1, <1>2, OthersKept
<1>4. \A d \in Callers : At(d)' = "watch" <=> At(d) = "watch"
  BY <1>3
<1>5. ASSUME NEW d \in Callers, At(d) = "watch" PROVE VmOf(d)' = VmOf(d)
  <2>1. Has(d) > 0 /\ d # c
    BY <1>1, <1>5, LocalsOf DEF Settled, At, Has
  <2> QED BY <1>3, <2>1 DEF VmOf
<1>6. \A v : Watchers(v)' = Watchers(v)
  BY <1>4, <1>5 DEF Watchers
<1> QED BY <1>4, <1>6 DEF Counting, ViewersAreCounted

LEMMA WatchersFinite ==
  ASSUME ViewersAreCounted, NEW v
  PROVE  IsFiniteSet(Watchers(v)) /\ Watchers(v) \subseteq Viewers
         /\ Cardinality(Watchers(v)) \in 0..Cardinality(Viewers)
<1>1. Watchers(v) \subseteq Viewers /\ IsFiniteSet(Viewers)
  BY SandboxConstants DEF Watchers, ViewersAreCounted
<1>2. IsFiniteSet(Watchers(v)) /\ Cardinality(Watchers(v)) <= Cardinality(Viewers)
  BY <1>1, FS_Subset
<1>3. Cardinality(Watchers(v)) \in Nat /\ Cardinality(Viewers) \in Nat
  BY <1>1, <1>2, FS_CardinalityType
<1> QED BY <1>1, <1>2, <1>3

(* A viewer begins to watch VM u, and is counted in the same step.           *)
LEMMA WatchBegins ==
  ASSUME Counting, NEW x \in Viewers, At(x) # "watch", NEW u \in 1..Len(vm),
         \A d \in Callers : d # x =>
           At(d)' = At(d) /\ (At(d) = "watch" => VmOf(d)' = VmOf(d)),
         At(x)' = "watch", VmOf(x)' = u,
         Len(vm') = Len(vm), watching' = [watching EXCEPT ![u] = @ + 1]
  PROVE  ViewersAreCounted'
<1>0. x \in Callers /\ Shape /\ ViewersAreCounted
  BY DEF Callers, Counting
<1>1. watching \in Seq(Int) /\ Len(watching) = Len(vm)
  BY <1>0 DEF Shape, Formed, Linked
<1>2. watching[u] + 1 \in Int
  BY <1>1, ElementOfSeq
<1>3. watching'[u] = watching[u] + 1 /\ \A v \in 1..Len(vm) : v # u => watching'[v] = watching[v]
  BY <1>1, <1>2, SlotSet
<1>4. Watchers(u)' = Watchers(u) \cup {x} /\ x \notin Watchers(u)
  BY <1>0 DEF Watchers
<1>5. \A v : v # u => Watchers(v)' = Watchers(v)
  BY <1>0 DEF Watchers
<1>6. Cardinality(Watchers(u)') = Cardinality(Watchers(u)) + 1
  BY <1>0, <1>4, WatchersFinite, FS_AddElement
<1>7. ASSUME NEW v \in 1..Len(vm) PROVE watching'[v] = Cardinality(Watchers(v)')
  <2>1. watching[v] = Cardinality(Watchers(v))
    BY <1>0 DEF ViewersAreCounted
  <2>2. CASE v = u
    BY <1>3, <1>6, <2>1, <2>2
  <2>3. CASE v # u
    BY <1>3, <1>5, <2>1, <2>3
  <2> QED BY <2>2, <2>3
<1>8. \A d \in Callers : At(d)' = "watch" => d \in Viewers
  BY <1>0 DEF ViewersAreCounted
<1> QED BY <1>7, <1>8 DEF ViewersAreCounted

(* A viewer of VM u leaves.                                                  *)
LEMMA WatchEnds ==
  ASSUME Counting, NEW x \in Viewers, Leave(x)
  PROVE  ViewersAreCounted'
<1>u. PICK u : u = VmOf(x)
  OBVIOUS
<1>0. x \in Callers /\ Shape /\ ViewersAreCounted /\ At(x) = "watch" /\ caller[x] \in Locals
  BY LocalsOf DEF Callers, Counting, Leave
<1>1. watching \in Seq(Int) /\ Len(watching) = Len(vm) /\ u \in 1..Len(vm)
  <2>1. Has(x) > 0
    BY <1>0, LocalsOf DEF Settled, At, Has
  <2> QED BY <1>u, <1>0, <2>1, HoldsOne DEF Shape, Formed, Linked
<1>2. /\ watching' = [watching EXCEPT ![u] = @ - 1] /\ UNCHANGED <<vm, wraps>>
      /\ \E l \in {"done", "loop"} : Goto(x, l)
  BY <1>u DEF Leave, vms
<1>3. watching[u] - 1 \in Int
  BY <1>1, ElementOfSeq
<1>4. /\ \A d \in Callers : d # x => At(d)' = At(d) /\ Has(d)' = Has(d)
      /\ At(x)' # "watch"
  <2>1. PICK l \in {"done", "loop"} : Go(x, caller[x], l)
    BY <1>2 DEF Goto
  <2> QED BY <1>0, <2>1, OthersKept DEF Places
<1>5. \A d \in Callers : d # x => VmOf(d)' = VmOf(d)
  BY <1>2, <1>4 DEF VmOf
<1>6. watching'[u] = watching[u] - 1 /\ \A v \in 1..Len(vm) : v # u => watching'[v] = watching[v]
  BY <1>1, <1>2, <1>3, SlotSet
<1>7. Watchers(u)' = Watchers(u) \ {x} /\ x \in Watchers(u)
  BY <1>u, <1>0, <1>4, <1>5 DEF Watchers
<1>8. \A v : v # u => Watchers(v)' = Watchers(v)
  BY <1>u, <1>0, <1>4, <1>5 DEF Watchers
<1>9. Cardinality(Watchers(u)') = Cardinality(Watchers(u)) - 1
  BY <1>0, <1>7, WatchersFinite, FS_RemoveElement
<1>10. ASSUME NEW v \in 1..Len(vm) PROVE watching'[v] = Cardinality(Watchers(v)')
  <2>1. watching[v] = Cardinality(Watchers(v))
    BY <1>0 DEF ViewersAreCounted
  <2>2. CASE v = u
    BY <1>6, <1>9, <2>1, <2>2
  <2>3. CASE v # u
    BY <1>6, <1>8, <2>1, <2>3
  <2> QED BY <2>2, <2>3
<1>11. \A d \in Callers : At(d)' = "watch" => d \in Viewers
  BY <1>0, <1>4 DEF ViewersAreCounted
<1> QED BY <1>2, <1>10, <1>11 DEF ViewersAreCounted

(* A registered wrapper is handed out: a viewer begins to watch, others do not. *)
LEMMA TakeCachedCounts ==
  ASSUME Counting, NEW c \in Callers, NEW v \in 1..Len(vm), TakeCached(c, v),
         At(c) \in {"get", "connected"}, UNCHANGED vm
  PROVE  ViewersAreCounted'
<1>1. Shape
  BY DEF Counting
<1>2. PICK w : w = registry[v]
  OBVIOUS
<1>3. PICK l : l = IF c \in Turns THEN "ensure" ELSE AfterGet(c)
  OBVIOUS
<1>4. /\ w # None /\ Go(c, With(c, w, "got"), l) /\ UNCHANGED <<wraps, registry>>
      /\ watching' = IF c \in Viewers THEN [watching EXCEPT ![v] = @ + 1] ELSE watching
  BY <1>2, <1>3 DEF TakeCached
<1>5. w \in 1..Len(wraps) /\ w \in 1..MaxWrappers /\ wraps[w].vm = v
  BY <1>1, <1>2, <1>4, RegisteredOne
<1>6. With(c, w, "got") \in Locals /\ With(c, w, "got").has = w
  BY <1>1, <1>5, LocalsOf
<1>7. Turns \cap Viewers = {} /\ l \in Places
  BY <1>3, SandboxConstants DEF Places, AfterGet
<1>8. CASE c \in Viewers
  <2>1. l = "watch"
    BY <1>3, <1>7, <1>8 DEF AfterGet
  <2>2. /\ \A d \in Callers : d # c => At(d)' = At(d) /\ Has(d)' = Has(d)
        /\ At(c)' = "watch" /\ Has(c)' = w
    BY <1>1, <1>4, <1>6, <2>1, OthersKept DEF Places
  <2>3. /\ \A d \in Callers : d # c => VmOf(d)' = VmOf(d)
        /\ VmOf(c)' = v
    BY <1>4, <1>5, <2>2 DEF VmOf
  <2> QED BY <1>4, <1>8, <2>2, <2>3, WatchBegins
<1>9. CASE c \notin Viewers
  <2>1. l # "watch"
    BY <1>3, <1>9 DEF AfterGet
  <2> QED BY <1>4, <1>6, <1>7, <1>9, <2>1, SilentMove
<1> QED BY <1>8, <1>9

(* ensure_sandbox and bootstrap: a viewer that goes on is counted.           *)
LEMMA EnsureCounts ==
  ASSUME Counting, NEW c \in Callers, Ensure(c) \/ BootSucceeds(c)
  PROVE  ViewersAreCounted'
<1>1. Shape /\ caller[c] \in Locals
  BY LocalsOf DEF Counting
<1>2. At(c) \in {"ensure", "boot"} /\ UNCHANGED vm
  BY DEF Ensure, BootSucceeds, vms
<1>3. Has(c) > 0
  BY <1>1, <1>2, LocalsOf DEF Settled, At, Has
<1>4. Has(c) \in 1..Len(wraps) /\ VmOf(c) \in 1..Len(vm)
  BY <1>1, <1>3, HoldsOne
<1>5. \A w \in 1..Len(wraps) : wraps'[w].vm = wraps[w].vm
  <2>1. \/ wraps' = [wraps EXCEPT ![Has(c)].busy = TRUE]
        \/ wraps' = [wraps EXCEPT ![Has(c)].boot = TRUE]
    BY DEF Ensure, BootSucceeds
  <2> QED BY <1>1, <1>4, <2>1, WrapTouched
<1>6. PICK l \in Places : /\ Go(c, caller[c], l)
                          /\ (l = AfterEnsure(c) /\ Watches(c, l)) \/ (l = "boot" /\ UNCHANGED watching)
  BY DEF Ensure, BootSucceeds, Goto, AfterEnsure, AfterGet, Places
<1>7. CASE l = "watch"
  <2>1. c \in Viewers /\ watching' = [watching EXCEPT ![VmOf(c)] = @ + 1]
    BY <1>6, <1>7 DEF AfterEnsure, AfterGet, Watches
  <2>2. /\ \A d \in Callers : d # c =>
             /\ At(d)' = At(d) /\ Has(d)' = Has(d)
             /\ Has(d) > 0 => Has(d) \in 1..Len(wraps) /\ VmOf(d) = wraps[Has(d)].vm
        /\ At(c)' = "watch" /\ Has(c)' = Has(c)
    BY <1>1, <1>6, <1>7, OthersKept DEF Places, Has
  <2>3. ASSUME NEW d \in Callers, d # c, At(d) = "watch" PROVE VmOf(d)' = VmOf(d)
    <3>1. Has(d) > 0
      BY <1>1, <2>3, LocalsOf DEF Settled, At, Has
    <3> QED BY <1>5, <2>2, <2>3, <3>1 DEF VmOf
  <2>4. VmOf(c)' = VmOf(c)
    BY <1>3, <1>4, <1>5, <2>2 DEF VmOf
  <2>5. PICK u : u = VmOf(c)
    OBVIOUS
  <2> QED BY <1>2, <1>4, <2>1, <2>2, <2>3, <2>4, <2>5, WatchBegins
<1>8. CASE l # "watch"
  <2>1. UNCHANGED watching
    BY <1>6, <1>8 DEF Watches
  <2> QED BY <1>1, <1>2, <1>5, <1>6, <1>8, <2>1, SilentMove
<1> QED BY <1>7, <1>8

(* Everything else a caller does.                                            *)
LEMMA SilentSteps ==
  ASSUME Counting, NEW c \in Callers,
         \/ c = Warmup /\ WarmupStarts
         \/ TurnReads(c) \/ TurnStep(c) \/ RunCommand(c) \/ RunAsks(c)
         \/ ViewReads(c) \/ LoopLooks(c) \/ LoopGivesUp(c)
         \/ GetLocal(c) \/ Connect(c) \/ ConnectFails(c) \/ CreateLocal(c) \/ Publish(c)
         \/ BootFails(c) \/ Freeze(c) \/ PauseFails(c)
  PROVE  ViewersAreCounted'
<1> USE DEF vms, objects, rest
<1>1. /\ Shape /\ caller[c] \in Locals /\ Reading(c) \in Locals /\ Holding(c, Local) \in Locals
      /\ vm \in Seq(VmStates) /\ Settled(caller[c])
  <2>1. Shape
    BY DEF Counting
  <2> QED BY <2>1, LocalsOf DEF Shape, Formed
<1>2. At(c) # "watch" /\ UNCHANGED watching /\ UNCHANGED wraps
  BY DEF WarmupStarts, TurnReads, TurnStep, TurnLocks, GetBrowser, RunEnds, RunCommand, RunAsks,
     ViewReads, LoopLooks, LoopGivesUp, GetLocal, Connect, ConnectFails, CreateLocal, Publish,
     BootFails, Freeze, PauseFails
<1>3. Len(vm') = Len(vm)
  <2>1. \/ UNCHANGED vm \/ vm' = [vm EXCEPT ![caller[c].snap] = "running"]
        \/ vm' = [vm EXCEPT ![VmOf(c)] = "paused"]
    BY DEF WarmupStarts, TurnReads, TurnStep, TurnLocks, GetBrowser, RunEnds, RunCommand, RunAsks,
       ViewReads, LoopLooks, LoopGivesUp, GetLocal, Connect, ConnectFails, CreateLocal, Publish,
       BootFails, Freeze, PauseFails
  <2> QED BY <1>1, <2>1
<1>4. Has(c) > 0 => With(c, Has(c), "tool") \in Locals /\ With(c, Has(c), "made") \in Locals
  BY <1>1, HoldsOne, LocalsOf
<1>5. LoopLooks(c) /\ registry[VmOf(c)] # None => Holding(c, registry[VmOf(c)]) \in Locals
  <2> SUFFICES ASSUME LoopLooks(c), registry[VmOf(c)] # None
               PROVE  Holding(c, registry[VmOf(c)]) \in Locals
    OBVIOUS
  <2>1. Has(c) > 0
    BY <1>1 DEF LoopLooks, Settled, At, Has
  <2>2. registry[VmOf(c)] \in 1..MaxWrappers
    BY <1>1, <2>1, HoldsOne, RegisteredOne
  <2> QED BY <1>1, <2>2, LocalsOf
<1>6. \E me \in Locals, l \in Places \ {"watch"} : Go(c, me, l)
  <2> USE DEF Places, Goto
  <2>1. CASE (c = Warmup /\ WarmupStarts) \/ TurnLocks(c) \/ GetBrowser(c) \/ RunEnds(c) \/ RunAsks(c)
    <3>1. PICK l \in {"done", "create", "get", "run", "failed", "asked", "pausing"} : Goto(c, l)
      BY <2>1 DEF WarmupStarts, TurnLocks, GetBrowser, RunEnds, RunAsks
    <3> QED BY <1>1, <3>1
  <2>2. CASE TurnReads(c) \/ ViewReads(c)
    BY <1>1, <2>2 DEF TurnReads, ViewReads
  <2>3. CASE RunCommand(c)
    BY <1>4, <2>3 DEF RunCommand
  <2>4. CASE LoopLooks(c)
    BY <1>1, <1>5, <2>4 DEF LoopLooks
  <2>5. CASE GetLocal(c) \/ CreateLocal(c)
    <3>1. PICK l \in {"run", "done", "publish"} : Go(c, Holding(c, Local), l)
      BY <2>5 DEF GetLocal, CreateLocal
    <3> QED BY <1>1, <3>1
  <2>6. CASE LoopGivesUp(c) \/ Connect(c) \/ ConnectFails(c) \/ Freeze(c) \/ PauseFails(c)
    <3>1. PICK l \in {"connected", "create", "done", "frozen"} : Goto(c, l)
      BY <2>6 DEF LoopGivesUp, Connect, ConnectFails, AfterFailedGet, Freeze, PauseFails
    <3> QED BY <1>1, <3>1
  <2>7. CASE Publish(c)
    BY <1>1, <1>4, <2>7 DEF Publish
  <2>8. CASE BootFails(c)
    <3>1. \/ Go(c, Holding(c, Local), "publish")
          \/ \E l \in {"create", "run", "done", "failed"} : Goto(c, l)
      BY <2>8 DEF BootFails, AfterFailedGet
    <3> QED BY <1>1, <3>1
  <2> QED BY <2>1, <2>2, <2>3, <2>4, <2>5, <2>6, <2>7, <2>8 DEF TurnStep
<1> QED BY <1>2, <1>3, <1>6, SilentMove

LEMMA PausedCounts ==
  ASSUME Counting, NEW c \in Callers, Paused(c)
  PROVE  ViewersAreCounted'
<1>1. Shape /\ caller[c] \in Locals /\ wraps \in Seq(Wrappers)
  BY LocalsOf DEF Counting, Shape, Formed
<1>2. /\ At(c) = "frozen" /\ Go(c, caller[c], "done") /\ UNCHANGED <<vm, watching>>
      /\ wraps' = [w \in DOMAIN wraps |->
                     [wraps[w] EXCEPT !.boot = @ /\ w # Has(c),
                                      !.out = @ \/ w = registry[VmOf(c)]]]
  BY DEF Paused, Goto
<1>3. \A w \in 1..Len(wraps) : wraps'[w].vm = wraps[w].vm
  <2> TAKE w \in 1..Len(wraps)
  <2>1. wraps[w] \in Wrappers /\ w \in DOMAIN wraps
    BY <1>1, ElementOfSeq
  <2> QED BY <1>2, <2>1 DEF Wrappers
<1> QED BY <1>1, <1>2, <1>3, SilentMove DEF Places

(* Nobody watches a new VM yet. *)
LEMMA CreateVmCounts ==
  ASSUME Counting, NEW c \in Callers, CreateVm(c)
  PROVE  ViewersAreCounted'
<1> USE DEF vms, None
<1>m. PICK m : m = Len(vm)
  OBVIOUS
<1>n. PICK n : n = Len(wraps)
  OBVIOUS
<1>1. /\ Shape /\ m \in Nat /\ n \in Nat /\ wraps \in Seq(Wrappers) /\ vm \in Seq(VmStates)
      /\ watching \in Seq(Int) /\ Len(watching) = m /\ MaxVMs \in Nat /\ MaxWrappers \in Nat
  BY <1>m, <1>n, SandboxConstants DEF Counting, Shape, Formed, Linked
<1>2. /\ m + 1 \in 1..MaxVMs /\ n + 1 \in 1..MaxWrappers
      /\ vm' = Append(vm, "running") /\ wraps' = Append(wraps, Wrapper(Len(vm')))
      /\ watching' = Append(watching, 0) /\ At(c) = "create"
      /\ Go(c, With(c, Len(wraps'), "new"), "ensure")
  BY <1>m, <1>n, <1>1 DEF CreateVm
<1>3. Wrapper(m + 1) \in Wrappers
  BY <1>2 DEF Wrapper, Wrappers
<1>4. Len(vm') = m + 1
  BY <1>m, <1>1, <1>2, SlotAdded DEF VmStates
<1>5. Len(wraps') = n + 1 /\ \A w \in 1..n : wraps'[w] = wraps[w]
  BY <1>n, <1>1, <1>2, <1>3, <1>4, SlotAdded
<1>6. watching'[m + 1] = 0 /\ \A v \in 1..m : watching'[v] = watching[v]
  BY <1>1, <1>2, SlotAdded
<1>7. With(c, n + 1, "new") \in Locals /\ Go(c, With(c, n + 1, "new"), "ensure")
  BY <1>1, <1>2, <1>5, LocalsOf
<1>8. /\ \A d \in Callers : d # c =>
           /\ At(d)' = At(d) /\ Has(d)' = Has(d)
           /\ Has(d) > 0 => Has(d) \in 1..n /\ VmOf(d) = wraps[Has(d)].vm
      /\ At(c)' = "ensure"
  BY <1>n, <1>1, <1>7, OthersKept DEF Places
<1>9. ASSUME NEW d \in Callers, At(d) = "watch"
      PROVE  VmOf(d)' = VmOf(d) /\ VmOf(d) \in 1..m
  <2>1. Has(d) > 0 /\ d # c
    BY <1>1, <1>2, <1>9, LocalsOf DEF Settled, At, Has
  <2> QED BY <1>m, <1>1, <1>5, <1>8, <2>1, HoldsOne DEF VmOf
<1>10. \A d \in Callers : At(d)' = "watch" <=> At(d) = "watch"
  BY <1>2, <1>8
<1>11. \A v : Watchers(v)' = Watchers(v)
  BY <1>9, <1>10 DEF Watchers
<1>12. Watchers(m + 1) = {}
  <2>1. m + 1 \notin 1..m
    BY <1>1
  <2> QED BY <1>9, <2>1 DEF Watchers
<1>13. ASSUME NEW v \in 1..m + 1 PROVE watching'[v] = Cardinality(Watchers(v)')
  <2>1. CASE v = m + 1
    BY <1>6, <1>11, <1>12, <2>1, FS_EmptySet
  <2>2. CASE v # m + 1
    <3>1. v \in 1..m
      BY <1>1, <2>2
    <3> QED BY <1>m, <1>6, <1>11, <3>1 DEF Counting, ViewersAreCounted
  <2> QED BY <2>1, <2>2
<1> QED BY <1>4, <1>10, <1>13 DEF Counting, ViewersAreCounted

LEMMA RestartCounts ==
  ASSUME Counting, Restart
  PROVE  ViewersAreCounted'
<1>1. /\ watching' = [v \in DOMAIN vm |-> 0]
      /\ caller' = [c \in Callers |->
                      IF At(c) = "idle" /\ c # Warmup THEN caller[c] ELSE Fresh("done")]
      /\ \E killed : vm' = [v \in DOMAIN vm |-> IF v \in killed THEN "gone" ELSE vm[v]]
  BY DEF Restart
<1>2. \A c \in Callers : At(c)' # "watch"
  BY <1>1 DEF At, Fresh
<1>3. \A v : Watchers(v)' = {}
  BY <1>2 DEF Watchers
<1>4. vm \in Seq(VmStates) /\ Len(vm) \in Nat /\ DOMAIN vm = 1..Len(vm)
  BY DEF Counting, Shape, Formed
<1>5. Len(vm') = Len(vm)
  BY <1>1, <1>4
<1> QED BY <1>1, <1>2, <1>3, <1>4, <1>5, FS_EmptySet DEF ViewersAreCounted

LEMMA TimeCounts ==
  ASSUME Counting,
         \/ \E w \in DOMAIN wraps : Quiet(w)
         \/ \E v \in DOMAIN vm : Expire(v)
         \/ CooldownEnds \/ UNCHANGED vars
  PROVE  ViewersAreCounted'
<1> USE DEF vars, vms, objects, rest
<1>1. Shape /\ wraps \in Seq(Wrappers) /\ vm \in Seq(VmStates)
  BY DEF Counting, Shape, Formed
<1>2. UNCHANGED <<caller, watching>>
  BY DEF Quiet, Expire, CooldownEnds
<1>3. Len(vm') = Len(vm)
  <2>1. UNCHANGED vm \/ \E v \in DOMAIN vm : vm' = [vm EXCEPT ![v] = "gone"]
    BY DEF Quiet, Expire, CooldownEnds
  <2> QED BY <1>1, <2>1
<1>4. \A w \in 1..Len(wraps) : wraps'[w].vm = wraps[w].vm
  <2>1. ASSUME NEW u \in DOMAIN wraps, wraps' = [wraps EXCEPT ![u].busy = FALSE]
        PROVE  \A w \in 1..Len(wraps) : wraps'[w].vm = wraps[w].vm
    <3>1. u \in 1..Len(wraps)
      BY <1>1
    <3> QED BY <1>1, <2>1, <3>1, WrapTouched
  <2>2. \/ UNCHANGED wraps
        \/ \E u \in DOMAIN wraps : wraps' = [wraps EXCEPT ![u].busy = FALSE]
    BY DEF Quiet, Expire, CooldownEnds
  <2> QED BY <2>1, <2>2
<1>5. \A d \in Callers : At(d)' = At(d) /\ VmOf(d)' = VmOf(d)
  <2> TAKE d \in Callers
  <2>1. Has(d) > 0 => Has(d) \in 1..Len(wraps)
    BY <1>1, HoldsOne
  <2> QED BY <1>2, <1>4, <2>1 DEF At, Has, VmOf
<1>6. \A v : Watchers(v)' = Watchers(v)
  BY <1>5 DEF Watchers
<1> QED BY <1>2, <1>3, <1>5, <1>6 DEF Counting, ViewersAreCounted

LEMMA CountingInit == Init => Counting
<1> SUFFICES ASSUME Init PROVE Counting
  OBVIOUS
<1>1. Len(vm) = 0 /\ \A c \in Callers : At(c) # "watch"
  BY DEF Init, At, Fresh
<1> QED BY <1>1, InitShape DEF Counting, ViewersAreCounted

LEMMA CountingStep == Counting /\ [Next]_vars => Counting'
<1> SUFFICES ASSUME Counting, [Next]_vars PROVE ViewersAreCounted'
  BY StepShape DEF Counting
<1>1. Shape /\ Warmup \in Callers /\ Turns \subseteq Callers /\ Viewers \cup Peeks \subseteq Callers
  BY DEF Counting, Callers
<1>2. CASE \/ WarmupStarts
           \/ \E t \in Turns : TurnReads(t) \/ TurnStep(t) \/ RunCommand(t) \/ RunAsks(t)
           \/ \E c \in Viewers \cup Peeks : ViewReads(c)
  BY <1>1, <1>2, SilentSteps
<1>3. CASE \E x \in Viewers : ViewStep(x)
  BY <1>1, <1>3, SilentSteps, WatchEnds DEF ViewStep
<1>4. ASSUME NEW c \in Callers, Proceed(c) PROVE ViewersAreCounted'
  <2>1. CASE \/ GetLocal(c) \/ Connect(c) \/ ConnectFails(c) \/ CreateLocal(c) \/ Publish(c)
             \/ BootFails(c) \/ Freeze(c) \/ PauseFails(c)
    BY <2>1, SilentSteps
  <2>2. CASE GetCached(c) \/ Register(c)
    <3>1. /\ caller[c] \in Locals /\ Settled(caller[c]) /\ Len(vm) \in Nat
          /\ caller[c].snap \in Int /\ wraps \in Seq(Wrappers)
          /\ At(c) \in {"get", "connected"} /\ UNCHANGED vm
      BY <1>1, <2>2, LocalsOf DEF Shape, Formed, GetCached, Register, vms
    <3>2. caller[c].snap \in 1..Len(vm) /\ caller[c].snap \in 1..MaxVMs
      <4>1. caller[c].snap > 0 /\ caller[c].snap <= Len(vm)
        BY <2>2, <3>1 DEF GetCached, Register, Settled, At
      <4>2. caller[c].snap \in {Local, None} \cup 1..MaxVMs
        BY <3>1 DEF Locals
      <4> QED BY <3>1, <4>1, <4>2 DEF Local, None
    <3>3. CASE TakeCached(c, caller[c].snap)
      BY <3>1, <3>2, <3>3, TakeCachedCounts
    <3>4. CASE /\ wraps' = Append(wraps, Wrapper(caller[c].snap)) /\ Len(wraps) < MaxWrappers
               /\ Go(c, With(c, Len(wraps'), "got"), "ensure") /\ UNCHANGED watching
      <4>n. PICK n : n = Len(wraps)
        OBVIOUS
      <4>1. Wrapper(caller[c].snap) \in Wrappers
        BY <3>2 DEF Wrapper, Wrappers
      <4>2. Len(wraps') = n + 1 /\ \A w \in 1..n : wraps'[w] = wraps[w]
        BY <4>n, <3>1, <3>4, <4>1, SlotAdded
      <4>3. n + 1 \in 1..MaxWrappers
        BY <4>n, <3>1, <3>4, SandboxConstants
      <4>4. With(c, n + 1, "got") \in Locals /\ Go(c, With(c, n + 1, "got"), "ensure")
        BY <1>1, <3>4, <4>2, <4>3, LocalsOf
      <4> QED BY <4>n, <3>1, <3>4, <4>2, <4>4, SilentMove DEF Places
    <3> QED BY <2>2, <3>3, <3>4 DEF GetCached, Register
  <2>3. CASE CreateVm(c)
    BY <2>3, CreateVmCounts
  <2>4. CASE Ensure(c) \/ BootSucceeds(c)
    BY <2>4, EnsureCounts
  <2>5. CASE Paused(c)
    BY <2>5, PausedCounts
  <2> QED BY <1>4, <2>1, <2>2, <2>3, <2>4, <2>5 DEF Proceed
<1>5. CASE \/ \E w \in DOMAIN wraps : Quiet(w)
           \/ \E v \in DOMAIN vm : Expire(v)
           \/ CooldownEnds \/ UNCHANGED vars
  BY <1>5, TimeCounts
<1>6. CASE Restart
  BY <1>6, RestartCounts
<1> QED BY <1>2, <1>3, <1>4, <1>5, <1>6 DEF Next

(* The re-pause loop starts when the count says that the last viewer has     *)
(* left: the count of a VM is the number of the callers that watch it,       *)
(* whatever reconnects, failures and restarts happen in between.             *)
THEOREM ViewersAreCountedHolds == Spec => []ViewersAreCounted
<1>1. Counting => ViewersAreCounted
  BY DEF Counting
<1> QED BY <1>1, CountingInit, CountingStep, PTL DEF Spec

(* Every variable stays well formed; no count of viewers is negative.        *)
THEOREM TypeCorrect == Spec => []TypeOK
<1>1. Counting => TypeOK
  <2> SUFFICES ASSUME Counting PROVE TypeOK
    OBVIOUS
  <2>1. watching \in Seq(Int) /\ Len(watching) = Len(vm) /\ Formed
    BY DEF Counting, Shape, Formed, Linked
  <2>2. \A v \in 1..Len(watching) : watching[v] \in 0..Cardinality(Viewers)
    BY <2>1, WatchersFinite DEF Counting, ViewersAreCounted
  <2>3. watching \in [1..Len(watching) -> 0..Cardinality(Viewers)] /\ Len(watching) \in Nat
    BY <2>1, <2>2
  <2>4. watching \in Seq(0..Cardinality(Viewers))
    BY <2>3, FunctionIsSeq
  <2> QED BY <2>1, <2>4 DEF TypeOK, Formed, Rest, Locals, Places, VmStates, Wrappers
<1> QED BY <1>1, CountingInit, CountingStep, PTL DEF Spec

=============================================================================
