-------------------------- MODULE SandboxLifecycle --------------------------
(***************************************************************************)
(* The cloud sandbox of one session: who creates, resumes, bootstraps,      *)
(* pauses and loses the microVM behind session.sandbox_id, and the process- *)
(* wide registry of wrappers through which all of them reach it.           *)
(*                                                                          *)
(* Callers share the wrapper registry and run concurrently: the warm-up     *)
(* task of a new session and the turns (AgentDomainService._create_task and *)
(* the runner's run), which take the session's lock, and the live views and *)
(* file views, which do not.  Every await of the code between two of its    *)
(* accesses to shared state is a step boundary.                             *)
(*                                                                          *)
(* What the platform does to a VM is external: a pause takes effect some    *)
(* time between the call and its answer, a running VM may expire.           *)
(*                                                                          *)
(* An operator named ...Bug is the next definition with a plausible mistake *)
(* put into it; no specification uses it.                                   *)
(***************************************************************************)
EXTENDS Integers, Sequences, FiniteSetsExt

CONSTANTS
  Warmup,       \* the warm-up task of the session
  Turns,        \* chat requests that need a task
  Viewers,      \* live-view websockets
  Peeks,        \* file and shell views of the session
  NoOne,        \* the free lock
  MaxVMs,       \* bound: VMs created
  MaxWrappers,  \* bound: wrappers built
  MaxExpired,   \* bound: VMs the platform takes away
  MaxFailures,  \* bound: platform calls that fail
  MaxRestarts,  \* bound: crashes and shutdowns of the backend
  PauseMayTimeOut

ASSUME SandboxConstants ==
  /\ {MaxVMs, MaxWrappers, MaxExpired, MaxFailures, MaxRestarts} \subseteq Nat
  /\ PauseMayTimeOut \in BOOLEAN
  \* They are coroutines of different kinds.
  /\ IsFiniteSet(Viewers) /\ ({Warmup} \cup Turns) \cap (Viewers \cup Peeks) = {}

Callers == {Warmup} \cup Turns \cup Viewers \cup Peeks
Locking == {Warmup} \cup Turns

None == 0           \* no VM, no wrapper, no sandbox_id
Local == -1         \* the shared sandbox of the host: "replit-local"

VARIABLES
  vm,        \* the platform: running, paused or gone, by VM
  provider,  \* _AUTH_DISABLED and _RATE_LIMIT_COOLDOWN: on, cooling, off
  doc,       \* session.sandbox_id in the session document
  lock,      \* holder of the per-session lock
  wraps,     \* the E2BSandbox objects: _bootstrapped (boot), _activity_until not
             \* reached (busy); history: dropped from the registry by a pause (out)
  registry,  \* E2BSandbox._registry
  watching,  \* E2BSandbox._vnc_viewers
  caller,    \* a caller's place (at) and locals: the sandbox_id it read (snap),
             \* the wrapper it holds (has), which ensure_sandbox it is in (phase)
  faults,    \* expiries, failures and restarts so far
  stray,     \* history: VMs something outside the life cycle left running
  unsure,    \* history: VMs whose last pause got no answer or crossed a connect
  lost       \* history: turns whose VM was gone when they began

vms == <<vm, stray, unsure>>
objects == <<wraps, registry, watching>>
rest == <<faults, lost>>
vars == <<vms, provider, doc, lock, objects, caller, rest>>

-----------------------------------------------------------------------------
Wrapper(v) == [vm |-> v, boot |-> FALSE, busy |-> FALSE, out |-> FALSE]

Fresh(l) == [at |-> l, snap |-> None, has |-> None, phase |-> "got"]

At(c) == caller[c].at
Has(c) == caller[c].has
VmOf(c) == IF Has(c) > 0 THEN wraps[Has(c)].vm ELSE None

(* Caller c, with the locals me, goes to l; at the end its locals are gone. *)
Go(c, me, l) ==
  caller' = [caller EXCEPT ![c] =
               IF l \in {"done", "failed"} THEN Fresh(l) ELSE [me EXCEPT !.at = l]]
Goto(c, l) == Go(c, caller[c], l)
With(c, w, p) == [caller[c] EXCEPT !.has = w, !.phase = p]
Reading(c) == [caller[c] EXCEPT !.snap = doc]
Holding(c, w) == [caller[c] EXCEPT !.has = w]

(* _e2b_available: neither disabled nor cooling down *)
E2bAvailable == provider = "on"

(* The lock is released when a caller leaves its critical section. *)
Release(c) == lock' = IF lock = c THEN NoOne ELSE lock

(* Where a caller goes with the sandbox factory.get gave it.             *)
AfterGet(c) ==
  CASE c \in Turns -> "browser" [] c \in Viewers -> "watch" [] OTHER -> "done"

(* factory.get raised: a turn makes a new sandbox, a view reports it. *)
AfterFailedGet(c) == IF c \in Turns THEN "create" ELSE "done"

(* _classify_failure: what a failed call to the platform does to the       *)
(* provider.                                                                *)
ProviderFails ==
  /\ faults.failed < MaxFailures
  /\ faults' = [faults EXCEPT !.failed = @ + 1]
  /\ provider' \in {provider, "cooling", "off"}

-----------------------------------------------------------------------------
(* The session's lock *)

(* warmup_sandbox: under the lock, the document decides. *)
WarmupStarts ==
  /\ At(Warmup) = "idle" /\ lock = NoOne
  /\ IF doc # None THEN Goto(Warmup, "done") /\ UNCHANGED lock
                   ELSE Goto(Warmup, "create") /\ lock' = Warmup
  /\ UNCHANGED <<vms, provider, doc, objects, rest>>

(* chat reads the session document; _create_task gets that copy. *)
TurnReads(t) ==
  /\ At(t) = "idle" /\ Go(t, Reading(t), "lock")
  /\ lost' = IF doc > 0 /\ vm[doc] = "gone" THEN lost \cup {t} ELSE lost
  /\ UNCHANGED <<vms, provider, doc, lock, objects, faults>>

TurnLocks(t) ==
  /\ At(t) = "lock" /\ lock = NoOne
  /\ lock' = t
  /\ Goto(t, IF caller[t].snap = None THEN "create" ELSE "get")
  /\ UNCHANGED <<vms, provider, doc, objects, rest>>

(* A view reads the document and takes no lock. *)
ViewReads(c) ==
  /\ c \in Viewers \cup Peeks /\ At(c) = "idle" /\ doc # None
  /\ Go(c, Reading(c), "get")
  /\ UNCHANGED <<vms, provider, doc, lock, objects, rest>>

-----------------------------------------------------------------------------
(* HybridSandboxFactory.get and E2BSandbox.get *)

(* An id of the host, or the cloud is off: the shared sandbox. *)
GetLocal(c) ==
  /\ At(c) = "get" /\ (caller[c].snap = Local \/ ~E2bAvailable)
  /\ Go(c, Holding(c, Local), IF c \in Turns THEN "run" ELSE "done")
  /\ Release(c)
  /\ UNCHANGED <<vms, provider, doc, objects, rest>>

(* A registered wrapper is handed out as it is; a turn then ensures it, a  *)
(* viewer is counted in the same step (vnc_viewer_connected).               *)
TakeCached(c, v) ==
  /\ registry[v] # None
  /\ Go(c, With(c, registry[v], "got"), IF c \in Turns THEN "ensure" ELSE AfterGet(c))
  /\ watching' = IF c \in Viewers THEN [watching EXCEPT ![v] = @ + 1] ELSE watching
  /\ UNCHANGED <<wraps, registry>>

GetCached(c) ==
  /\ At(c) = "get" /\ caller[c].snap > 0 /\ E2bAvailable
  /\ TakeCached(c, caller[c].snap)
  /\ UNCHANGED <<vms, provider, doc, lock, rest>>

(* AsyncSandbox.connect, outside the registry's lock: it resumes the VM. *)
Connect(c) ==
  /\ At(c) = "get" /\ caller[c].snap > 0 /\ E2bAvailable /\ registry[caller[c].snap] = None
  /\ vm[caller[c].snap] # "gone"
  /\ vm' = [vm EXCEPT ![caller[c].snap] = "running"]
  /\ stray' = IF c \in Peeks THEN stray \cup {caller[c].snap} ELSE stray
  /\ Goto(c, "connected")
  /\ UNCHANGED <<unsure, provider, doc, lock, objects, rest>>

(* The VM is gone (not an error of the provider), or the call failed. *)
ConnectFails(c) ==
  /\ At(c) = "get" /\ caller[c].snap > 0 /\ E2bAvailable /\ registry[caller[c].snap] = None
  /\ \/ vm[caller[c].snap] = "gone" /\ UNCHANGED <<provider, faults>>
     \/ ProviderFails
  /\ Goto(c, AfterFailedGet(c))
  /\ UNCHANGED <<vms, doc, lock, objects, lost>>

\* No second look.
RegisterBug(c) ==
  /\ At(c) = "connected" /\ Len(wraps) < MaxWrappers
  /\ wraps' = Append(wraps, Wrapper(caller[c].snap))
  /\ registry' = [registry EXCEPT ![caller[c].snap] = Len(wraps')]
  /\ Go(c, With(c, Len(wraps'), "got"), "ensure")
  /\ UNCHANGED <<vms, provider, doc, lock, watching, rest>>

(* The second look into the registry: the loser of a race drops its own. *)
Register(c) ==
  /\ At(c) = "connected"
  /\ \/ TakeCached(c, caller[c].snap)
     \/ /\ registry[caller[c].snap] = None /\ Len(wraps) < MaxWrappers
        /\ wraps' = Append(wraps, Wrapper(caller[c].snap))
        /\ registry' = [registry EXCEPT ![caller[c].snap] = Len(wraps')]
        /\ Go(c, With(c, Len(wraps'), "got"), "ensure")
        /\ UNCHANGED watching
  /\ UNCHANGED <<vms, provider, doc, lock, rest>>

-----------------------------------------------------------------------------
(* HybridSandboxFactory.create and the new sandbox's way into the document *)

CreateLocal(c) ==
  /\ At(c) = "create"
  /\ \/ ~E2bAvailable /\ UNCHANGED <<provider, faults>>
     \/ E2bAvailable /\ ProviderFails
  /\ Go(c, Holding(c, Local), "publish")
  /\ UNCHANGED <<vms, doc, lock, objects, lost>>

CreateVm(c) ==
  /\ At(c) = "create" /\ E2bAvailable
  /\ Len(vm) < MaxVMs /\ Len(wraps) < MaxWrappers
  /\ vm' = Append(vm, "running")
  /\ wraps' = Append(wraps, Wrapper(Len(vm')))
  /\ registry' = Append(registry, Len(wraps'))
  /\ watching' = Append(watching, 0)
  /\ Go(c, With(c, Len(wraps'), "new"), "ensure")
  /\ UNCHANGED <<stray, unsure, provider, doc, lock, rest>>

(* update_sandbox_id; the shared sandbox needs nothing more. *)
Publish(c) ==
  /\ At(c) = "publish"
  /\ doc' = IF Has(c) > 0 THEN VmOf(c) ELSE Local
  /\ IF Has(c) > 0
     THEN Go(c, With(c, Has(c), "made"), "ensure") /\ UNCHANGED lock
     ELSE Goto(c, IF c \in Turns THEN "run" ELSE "done") /\ Release(c)
  /\ UNCHANGED <<vms, provider, objects, rest>>

-----------------------------------------------------------------------------
(* ensure_sandbox, _bootstrap, get_browser *)

(* Where the caller of this ensure_sandbox goes on. *)
AfterEnsure(c) ==
  CASE caller[c].phase = "new"  -> "publish"
    [] caller[c].phase = "tool" -> "run"
    [] caller[c].phase = "got"  -> AfterGet(c)
    [] OTHER             -> IF c = Warmup THEN "pausing" ELSE "browser"

\* Everybody who makes sure of the sandbox is counted.
WatchesBug(c, l) == watching' = [watching EXCEPT ![VmOf(c)] = @ + 1]
Watches(c, l) ==
  watching' = IF l = "watch"
              THEN [watching EXCEPT ![VmOf(c)] = @ + 1] ELSE watching

(* The heartbeat; a wrapper that is bootstrapped is only kept alive, and an *)
(* error of that call is swallowed.  Otherwise one caller bootstraps.       *)
Ensure(c) ==
  LET w == Has(c) IN
  /\ At(c) = "ensure"
  /\ IF wraps[w].boot
     THEN Goto(c, AfterEnsure(c)) /\ Watches(c, AfterEnsure(c))
     ELSE /\ \A d \in Callers : ~(At(d) = "boot" /\ Has(d) = w)
          /\ Goto(c, "boot") /\ UNCHANGED watching
  /\ wraps' = [wraps EXCEPT ![w].busy = TRUE]
  /\ UNCHANGED <<vms, provider, doc, lock, registry, rest>>

(* _bootstrap needs a VM that runs. *)
BootSucceeds(c) ==
  /\ At(c) = "boot" /\ vm[VmOf(c)] = "running"
  /\ wraps' = [wraps EXCEPT ![Has(c)].boot = TRUE]
  /\ Goto(c, AfterEnsure(c)) /\ Watches(c, AfterEnsure(c))
  /\ UNCHANGED <<vms, provider, doc, lock, registry, rest>>

(* It raised: create() falls back to the shared sandbox, a reconnecting     *)
(* turn makes a new VM, a tool call fails, and a turn or warm-up whose new   *)
(* sandbox breaks after it was published ends.                              *)
BootFails(c) ==
  /\ At(c) = "boot"
  /\ \/ vm[VmOf(c)] # "running" /\ UNCHANGED faults
     \/ /\ faults.failed < MaxFailures
        /\ faults' = [faults EXCEPT !.failed = @ + 1]
  /\ stray' = IF caller[c].phase = "tool" THEN stray ELSE stray \cup {VmOf(c)}
  /\ CASE caller[c].phase = "new" ->
            Go(c, Holding(c, Local), "publish") /\ UNCHANGED lock
       [] caller[c].phase = "got" -> Goto(c, AfterFailedGet(c)) /\ UNCHANGED lock
       [] caller[c].phase = "tool" -> Goto(c, "run") /\ UNCHANGED lock
       [] OTHER ->
            /\ Goto(c, IF c = Warmup THEN "done" ELSE "failed")
            /\ Release(c)
  /\ UNCHANGED <<vm, unsure, provider, doc, objects, lost>>

(* get_browser asks the VM for its debugging address; the task starts. *)
GetBrowser(t) ==
  /\ At(t) = "browser" /\ Release(t)
  /\ \/ vm[VmOf(t)] = "running" /\ Goto(t, "run") /\ UNCHANGED <<stray, faults>>
     \/ vm[VmOf(t)] # "running" /\ Goto(t, "failed") /\ UNCHANGED <<stray, faults>>
     \/ /\ faults.failed < MaxFailures /\ Goto(t, "failed")
        /\ faults' = [faults EXCEPT !.failed = @ + 1]
        /\ stray' = stray \cup {VmOf(t)}
  /\ UNCHANGED <<vm, unsure, provider, doc, objects, lost>>

-----------------------------------------------------------------------------
(* The run *)

(* A shell command, and the start of the run, call ensure_sandbox. *)
RunCommand(t) ==
  /\ At(t) = "run" /\ Has(t) > 0
  /\ ~wraps[Has(t)].boot \/ ~wraps[Has(t)].busy
  /\ Go(t, With(t, Has(t), "tool"), "ensure")
  /\ UNCHANGED <<vms, provider, doc, lock, objects, rest>>

(* The run ends with a question to the user: the VM stays up. *)
RunAsks(t) ==
  /\ t \in Turns /\ At(t) = "run" /\ Goto(t, "asked")
  /\ UNCHANGED <<vms, provider, doc, lock, objects, rest>>

(* _pause_sandbox_after_run: not for the shared sandbox, not while watched. *)
RunEnds(t) ==
  /\ t \in Turns /\ At(t) = "run"
  /\ Goto(t, IF Has(t) = Local \/ watching[VmOf(t)] > 0 THEN "done" ELSE "pausing")
  /\ UNCHANGED <<vms, provider, doc, lock, objects, rest>>

-----------------------------------------------------------------------------
(* pause() *)

(* The platform freezes the VM, somewhere between the call and its answer. *)
Freeze(c) ==
  /\ At(c) = "pausing" /\ vm[VmOf(c)] # "gone"
  /\ vm' = [vm EXCEPT ![VmOf(c)] = "paused"]
  /\ stray' = stray \ {VmOf(c)}
  /\ unsure' = IF \E d \in Callers : At(d) = "connected" /\ caller[d].snap = VmOf(c)
               THEN unsure \cup {VmOf(c)} ELSE unsure \ {VmOf(c)}
  /\ Goto(c, "frozen")
  /\ UNCHANGED <<provider, doc, lock, objects, rest>>

\* The wrapper stays in the registry.
PausedBug(c) ==
  /\ At(c) = "frozen"
  /\ stray' = IF vm[VmOf(c)] = "running" THEN stray \cup {VmOf(c)} ELSE stray
  /\ wraps' = [wraps EXCEPT ![Has(c)].boot = FALSE]
  /\ Goto(c, "done") /\ Release(c)
  /\ UNCHANGED <<vm, unsure, provider, doc, registry, watching, rest>>

(* The answer: the wrapper leaves the registry, whichever wrapper is there. *)
Paused(c) ==
  /\ At(c) = "frozen"
  /\ registry' = [registry EXCEPT ![VmOf(c)] = None]
  /\ stray' = IF vm[VmOf(c)] = "running" THEN stray \cup {VmOf(c)} ELSE stray
  /\ wraps' = [w \in DOMAIN wraps |->
                 [wraps[w] EXCEPT !.boot = @ /\ w # Has(c),
                                  !.out = @ \/ w = registry[VmOf(c)]]]
  /\ Goto(c, "done") /\ Release(c)
  /\ UNCHANGED <<vm, unsure, provider, doc, watching, rest>>

(* No answer within 30 s, or an error: the wrapper stays as it is. *)
PauseFails(c) ==
  /\ \/ At(c) \in {"pausing", "frozen"} /\ PauseMayTimeOut
     \/ At(c) = "pausing" /\ vm[VmOf(c)] = "gone"
  /\ stray' = stray \cup {VmOf(c)} /\ unsure' = unsure \cup {VmOf(c)}
  /\ Goto(c, "done") /\ Release(c)
  /\ UNCHANGED <<vm, provider, doc, objects, rest>>

-----------------------------------------------------------------------------
(* The live view *)

\* No re-pause loop.
LeaveBug(x) ==
  /\ x \in Viewers /\ At(x) = "watch"
  /\ watching' = [watching EXCEPT ![VmOf(x)] = @ - 1]
  /\ Goto(x, "done")
  /\ UNCHANGED <<vms, provider, doc, lock, wraps, registry, rest>>

(* vnc_viewer_disconnected: the last one starts the re-pause loop. *)
Leave(x) ==
  /\ x \in Viewers /\ At(x) = "watch"
  /\ watching' = [watching EXCEPT ![VmOf(x)] = @ - 1]
  /\ Goto(x, IF watching[VmOf(x)] > 1 THEN "done" ELSE "loop")
  /\ UNCHANGED <<vms, provider, doc, lock, wraps, registry, rest>>

(* _repause_when_idle: one look of the loop. *)
LoopLooks(x) ==
  LET v == VmOf(x)  w == registry[v] IN
  /\ At(x) = "loop"
  /\ IF watching[v] > 0 \/ w = None
     THEN Goto(x, "done")
     ELSE ~wraps[w].busy /\ Go(x, Holding(x, w), "pausing")
  /\ UNCHANGED <<vms, provider, doc, lock, objects, rest>>

(* Fifteen minutes of activity are over: the loop gives up. *)
LoopGivesUp(x) ==
  /\ At(x) = "loop"
  /\ LET w == registry[VmOf(x)] IN w # None /\ wraps[w].busy
  /\ \E t \in Turns : At(t) = "run" /\ VmOf(t) = VmOf(x)
  /\ Goto(x, "done")
  /\ UNCHANGED <<vms, provider, doc, lock, objects, rest>>

-----------------------------------------------------------------------------
(* Time and faults *)

(* _ACTIVITY_WINDOW has passed since the last ensure_sandbox. *)
Quiet(w) ==
  /\ wraps[w].busy /\ wraps' = [wraps EXCEPT ![w].busy = FALSE]
  /\ UNCHANGED <<vms, provider, doc, lock, registry, watching, caller, rest>>

CooldownEnds ==
  /\ provider = "cooling" /\ provider' = "on"
  /\ UNCHANGED <<vms, doc, lock, objects, caller, rest>>

(* The platform ends a running VM whose timeout was not renewed. *)
Expire(v) ==
  /\ vm[v] = "running" /\ faults.expired < MaxExpired
  /\ vm' = [vm EXCEPT ![v] = "gone"]
  /\ faults' = [faults EXCEPT !.expired = @ + 1]
  /\ UNCHANGED <<stray, unsure, provider, doc, lock, objects, caller, lost>>

(* The turns whose task is registered. *)
IsTask(t) ==
  \/ At(t) \in {"run", "pausing", "frozen"}
  \/ At(t) \in {"ensure", "boot"} /\ caller[t].phase = "tool"

(* The backend ends: everything in memory is lost, callers are not resumed. *)
(* A shutdown also destroys the sandbox of every registered task            *)
(* (AgentTaskRunner.destroy), a crash leaves the VMs as they are.           *)
Restart ==
  /\ faults.restarts < MaxRestarts
  /\ faults' = [faults EXCEPT !.restarts = @ + 1]
  /\ \E killed \in {{}, {VmOf(t) : t \in {u \in Turns : IsTask(u)}}} :
       vm' = [v \in DOMAIN vm |-> IF v \in killed THEN "gone" ELSE vm[v]]
  /\ stray' = stray \cup DOMAIN vm
  /\ registry' = [v \in DOMAIN vm |-> None] /\ watching' = [v \in DOMAIN vm |-> 0]
  /\ lock' = NoOne /\ provider' = "on"
  /\ caller' = [c \in Callers |->
                  IF At(c) = "idle" /\ c # Warmup THEN caller[c] ELSE Fresh("done")]
  /\ UNCHANGED <<unsure, doc, wraps, lost>>

-----------------------------------------------------------------------------
Init ==
  /\ vm = <<>> /\ stray = {} /\ unsure = {}
  /\ provider = "on" /\ doc = None /\ lock = NoOne
  /\ wraps = <<>> /\ registry = <<>> /\ watching = <<>>
  /\ caller = [c \in Callers |-> Fresh("idle")]
  /\ faults = [expired |-> 0, failed |-> 0, restarts |-> 0]
  /\ lost = {}

(* What a caller does of itself once it was started. *)
Proceed(c) ==
  \/ GetLocal(c) \/ GetCached(c) \/ Connect(c) \/ ConnectFails(c) \/ Register(c)
  \/ CreateLocal(c) \/ CreateVm(c) \/ Publish(c)
  \/ Ensure(c) \/ BootSucceeds(c) \/ BootFails(c)
  \/ Freeze(c) \/ Paused(c) \/ PauseFails(c)

TurnStep(t) == TurnLocks(t) \/ GetBrowser(t) \/ RunEnds(t)
ViewStep(x) == Leave(x) \/ LoopLooks(x) \/ LoopGivesUp(x)

Next ==
  \/ WarmupStarts
  \/ \E t \in Turns : TurnReads(t) \/ TurnStep(t) \/ RunCommand(t) \/ RunAsks(t)
  \/ \E c \in Viewers \cup Peeks : ViewReads(c)
  \/ \E x \in Viewers : ViewStep(x)
  \/ \E c \in Callers : Proceed(c)
  \/ \E w \in DOMAIN wraps : Quiet(w)
  \/ \E v \in DOMAIN vm : Expire(v)
  \/ CooldownEnds \/ Restart

Spec == Init /\ [][Next]_vars

(* The event loop does not idle while some coroutine can go on or a timer is *)
(* due, people close their windows, and a run ends.                          *)
Progress ==
  \/ \E c \in Callers : Proceed(c)
  \/ \E t \in Turns : TurnStep(t)
  \/ \E x \in Viewers : ViewStep(x)
  \/ \E w \in DOMAIN wraps : Quiet(w)

Fairness == WF_vars(Progress) /\ \A t \in Turns : SF_vars(RunEnds(t))

FairSpec == Spec /\ Fairness
-----------------------------------------------------------------------------
(* Properties *)

VMs == DOMAIN vm
Runs(v) == v \in VMs /\ vm[v] = "running"
Pausing(v) == {c \in Callers : At(c) \in {"pausing", "frozen"} /\ VmOf(c) = v}

TypeOK ==
  /\ vm \in Seq({"running", "paused", "gone"}) /\ Len(vm) <= MaxVMs
  /\ stray \in SUBSET (1..MaxVMs) /\ unsure \in SUBSET (1..MaxVMs)
  /\ provider \in {"on", "cooling", "off"}
  /\ doc \in {Local, None} \cup 1..MaxVMs /\ lock \in Locking \cup {NoOne}
  /\ wraps \in Seq([vm : 1..MaxVMs, boot : BOOLEAN, busy : BOOLEAN, out : BOOLEAN])
  /\ Len(wraps) <= MaxWrappers
  /\ registry \in Seq(0..MaxWrappers) /\ watching \in Seq(0..Cardinality(Viewers))
  /\ caller \in [Callers -> [at : {"idle", "lock", "get", "connected", "create",
                                  "publish", "ensure", "boot", "browser", "run",
                                  "asked", "pausing", "frozen", "watch", "loop",
                                  "done", "failed"},
                            snap : {Local, None} \cup 1..MaxVMs,
                            has : {Local, None} \cup 1..MaxWrappers,
                            phase : {"got", "new", "made", "tool"}]]
  /\ faults \in [expired : 0..MaxExpired, failed : 0..MaxFailures,
                 restarts : 0..MaxRestarts]
  /\ lost \in SUBSET Turns

(* A frozen VM does not stay behind a registered wrapper, where get() would *)
(* hand it out without resuming it: only while its pause is being answered, *)
(* or when the platform never answered (e2b_sandbox.py:356 "instead of       *)
(* touching a stale handle"), or when the pause crossed a connect.           *)
FrozenVmLeavesRegistry ==
  \A v \in VMs : registry[v] # None /\ vm[v] = "paused" =>
    Pausing(v) # {} \/ v \in unsure

(* Callers that bootstrap one VM at the same moment would kill each other's *)
(* display.  Racing get() calls build two clients but keep one wrapper       *)
(* (e2b_sandbox.py:327), and its lock lets one of them bootstrap; only a     *)
(* caller that still holds a wrapper dropped by a pause can get in between.  *)
OneBootstrapPerVm ==
  \A c, d \in Callers :
    c # d /\ At(c) = "boot" /\ At(d) = "boot" /\ VmOf(c) = VmOf(d) =>
      wraps[Has(c)].out \/ wraps[Has(d)].out

(* Quota: whatever the order of turns, warm-up and live views, a VM that     *)
(* runs is paused in the end, unless a run waits for the user's answer on it *)
(* or something outside the life cycle left it running (stray): a file view, *)
(* a failed pause or bootstrap, a restart, or an answer to one pause that    *)
(* arrived after another caller had resumed the VM.                          *)
IdleVmIsPaused ==
  \A v \in 1..MaxVMs :
    Runs(v) ~>
      (\/ ~Runs(v)
       \/ v \in stray
       \/ \E t \in Turns : At(t) = "asked" /\ VmOf(t) = v)

(* sandbox_factory.py:190: "If reconnecting fails (sandbox expired/removed,  *)
(* quota), the domain service's own fallback creates a fresh sandbox": a     *)
(* turn that begins when its VM is gone does not fail.                       *)
LostVmIsReplaced == \A t \in lost : At(t) # "failed"

(* e2b_sandbox.py:248: the re-pause waits "so a running task is never frozen *)
(* mid-flight".                                                              *)
RunningTaskIsNotFrozen ==
  \A x \in Viewers, t \in Turns :
    At(x) = "frozen" /\ At(t) = "run" => VmOf(x) # VmOf(t)

(* agent_domain_service.py:155: the lock is there "to avoid racing with      *)
(* _create_task": without failures a session has one VM.                     *)
OneSandboxPerSession ==
  Len(vm) > 1 => faults.expired + faults.failed + faults.restarts > 0

(* e2b_sandbox.py:135: while a user is watching "the VM must NOT be paused". *)
WatchedVmRuns == \A v \in VMs : watching[v] > 0 => vm[v] # "paused"
=============================================================================
