------------------------------ MODULE Delivery ------------------------------
(***************************************************************************)
(* How the files a run produces get to the user (AgentTaskRunner._run_flow *)
(* and its sync helpers, auto_bundle, delivery_hygiene, zip_delivery, the  *)
(* ledger and the attachments of ExecutionAgent.summarize).                *)
(*                                                                         *)
(* The runner consumes the events of the flow one at a time.  A finished   *)
(* step starts a sync in the background, chained behind the previous one,  *)
(* while the agent goes on writing files.  The summary waits for the last  *)
(* sync, sweeps once more, merges what it found with what the model lists, *)
(* and a row of filters that work in the VM turns the list into cards.     *)
(*                                                                         *)
(* A file is the number of its last write, and its size tells two writes   *)
(* apart.  An archive also has members, and keeps its path when a filter   *)
(* writes it anew.  Junk, the manual, uploads of the user and generator    *)
(* scripts never get into the lists and are left out; a scan of the home   *)
(* is one step.                                                            *)
(*                                                                         *)
(* An operator named ...Bug is the next definition with a plausible        *)
(* mistake put into it; no specification uses it.                          *)
(***************************************************************************)
EXTENDS Naturals, FiniteSets, Sequences

CONSTANTS
    Paths,        \* the files in the home of the user
    Archives,     \* those that are archives
    Bundle,       \* the archive the bundling filter makes
    Documents,    \* those that stay standalone next to an archive
    ToolFiles,    \* those the file tools write; the shell may write all
    Foreign,      \* those another session of the user writes
    MinMembers,   \* _MIN_MEMBERS, files that belong together
    MaxWrites, MaxSteps, MaxRuns, MaxFaults   \* bounds of the instance

ASSUME PathsAreKnown ==
    /\ Archives \cup Documents \cup ToolFiles \cup Foreign \subseteq Paths
    /\ Bundle \in Archives
    /\ Archives \cap (Documents \cup ToolFiles \cup Foreign) = {}
    /\ ToolFiles \cap Foreign = {}
    /\ {MinMembers, MaxWrites, MaxSteps, MaxRuns, MaxFaults} \subseteq Nat

VARIABLES
    disk,      \* what each path holds in the VM
    clock,     \* the number of the last write
    ledger,    \* (path, size) pairs that final summaries have delivered
    pump,      \* what the runner is doing
    loaded,    \* the file it is uploading, and what it has read of it
    baseline,  \* home_baseline: path to size
    written,   \* files_written: the uploaded copy of each path
    pending,   \* pending_sync
    syncs,     \* the syncs of this run, the sweep of the summary last
    claimed,   \* step attachments and deferred attachments
    cards,     \* the attachments of the final message
    start,     \* history: the home when the run began
    given,     \* history: (path, write) pairs the user had before
    missed,    \* history: what failed uploads kept from the summary
    bounds     \* what is left of writes, runs and faults

home == <<disk, clock>>
lists == <<baseline, written, pending, syncs>>
history == <<start, given, missed>>
vars == <<home, ledger, pump, loaded, lists, claimed, cards, history, bounds>>

Absent == [at |-> 0, has |-> {}]
Fresh  == [at |-> 0, has |-> Paths]    \* a card without file_id: uploaded at the end
Nothing == [p \in Paths |-> Absent]
Own == Paths \ Foreign
Sizes == [p \in Paths |-> disk[p].at]
There == {p \in Paths : disk[p] # Absent}
Carded == {p \in Paths : cards[p] # Absent}
Members(z) == disk[z].has

Write(p, members) ==
    /\ clock' = clock + 1
    /\ disk' = [disk EXCEPT ![p] = [at |-> clock + 1, has |-> members]]

Spend(what) == bounds[what] > 0 /\ bounds' = [bounds EXCEPT ![what] = @ - 1]

Idle == [path |-> Bundle, got |-> Absent]
Sync(claims) == [at |-> "waits", todo |-> claims, found |-> [p \in Paths |-> 0],
                 path |-> Bundle, got |-> Absent]

Init ==
    /\ disk = Nothing
    /\ clock = 0
    /\ ledger = {}
    /\ pump = "none"
    /\ loaded = Idle
    /\ baseline = [p \in Paths |-> 0]
    /\ written = Nothing
    /\ pending = {}
    /\ syncs = <<>>
    /\ claimed = {}
    /\ cards = Nothing
    /\ start = [p \in Paths |-> 0]
    /\ given = {}
    /\ missed = {}
    /\ bounds = [writes |-> MaxWrites, runs |-> MaxRuns, faults |-> MaxFaults]

-----------------------------------------------------------------------------
(* A run, and what the agent does in it.                                    *)

(* The baseline is taken before the flow starts.  Attachments of an earlier *)
(* run come back with a plan that is resumed and with the deferred list.    *)
Baseline == Sizes
StartRun ==
    /\ pump = "none"
    /\ Spend("runs")
    /\ pump' = "events"
    /\ baseline' = Baseline
    /\ start' = Sizes
    /\ written' = Nothing
    /\ pending' = {}
    /\ syncs' = <<>>
    /\ claimed' \in {{}, claimed}
    /\ missed' = {}
    /\ UNCHANGED <<home, ledger, loaded, cards, given>>

(* A file tool writes, and the runner takes the event up before the flow    *)
(* goes on.                                                                 *)
ToolWrites(p) ==
    /\ pump = "events"
    /\ Spend("writes")
    /\ Write(p, {})
    /\ pump' = "tool"
    /\ loaded' = [path |-> p, got |-> Absent]
    /\ UNCHANGED <<ledger, lists, claimed, cards, history>>

ToolLoads ==
    /\ pump = "tool" /\ loaded.got = Absent
    /\ loaded' = [loaded EXCEPT !.got = disk[loaded.path]]
    /\ UNCHANGED <<home, ledger, pump, lists, claimed, cards, history, bounds>>

ToolStores ==
    /\ pump = "tool" /\ loaded.got # Absent
    /\ written' = [written EXCEPT ![loaded.path] = loaded.got]
    /\ pump' = "events"
    /\ loaded' = Idle
    /\ UNCHANGED <<home, ledger, baseline, pending, syncs, claimed, cards, history, bounds>>

ToolFails ==
    /\ pump = "tool"
    /\ Spend("faults")
    /\ pump' = "events"
    /\ loaded' = Idle
    /\ UNCHANGED <<home, ledger, lists, claimed, cards, history>>

(* The shell writes a file, or packs what is there.                         *)
Packable == (There \cap Own) \ Archives
ShellWrites(p) ==
    /\ pump = "events"
    /\ Spend("writes")
    /\ \/ p \notin Archives /\ Write(p, {})
       \/ p \in Archives \ {Bundle} /\ Packable # {}
          /\ Write(p, Packable)
    /\ UNCHANGED <<ledger, pump, loaded, lists, claimed, cards, history>>

(* StepEvent(completed): the sync is scheduled, the event goes on.          *)
StepDone(claims) ==
    /\ pump = "events"
    /\ Len(syncs) < MaxSteps
    /\ syncs' = Append(syncs, Sync(claims))
    /\ claimed' = claimed \cup claims
    /\ UNCHANGED <<home, ledger, pump, loaded, baseline, written, pending, cards, history, bounds>>

(* The run ends anywhere (question, STOP, error, crash), or when the        *)
(* summary is sent.  Syncs that go on after that change lists nobody reads  *)
(* any more.                                                                *)
EndRun ==
    /\ pump # "none"
    /\ pump' = "none"
    /\ loaded' = Idle
    /\ syncs' = <<>>
    /\ cards' = Nothing
    /\ given' = IF pump = "sent" THEN given \cup {<<p, cards[p].at>> : p \in Carded} ELSE given
    /\ UNCHANGED <<home, ledger, baseline, written, pending, claimed, start, missed, bounds>>

-----------------------------------------------------------------------------
(* A sync: the claimed files of its step, then all that a scan of the home  *)
(* finds new or changed (_bg_step_sync, _sync_run_artifacts).               *)

Turn(i) == \A j \in 1..(i - 1) : syncs[j].at = "done"
Begin(i) ==
    /\ syncs[i].at = "waits"
    /\ Turn(i)
    /\ syncs' = [syncs EXCEPT ![i].at = "claims"]
    /\ UNCHANGED <<home, ledger, pump, loaded, baseline, written, pending, claimed, cards, history, bounds>>

Uploading(i) == syncs[i].got # Absent
Load(i, p) ==
    /\ syncs[i].at \in {"claims", "sweeps"} /\ ~Uploading(i)
    /\ p \in syncs[i].todo /\ disk[p] # Absent
    /\ syncs' = [syncs EXCEPT ![i].todo = @ \ {p}, ![i].path = p, ![i].got = disk[p]]
    /\ UNCHANGED <<home, ledger, pump, loaded, baseline, written, pending, claimed, cards, history, bounds>>

(* A sweep sets the baseline to the size its scan saw; a claimed file stays *)
(* pending if it was.                                                       *)
Store(i) ==
    LET s == syncs[i] IN
    /\ Uploading(i)
    /\ written' = [written EXCEPT ![s.path] = s.got]
    /\ IF s.at = "sweeps"
       THEN /\ pending' = pending \ {s.path}
            /\ baseline' = [baseline EXCEPT ![s.path] =
                               IF s.found[s.path] = 0 THEN s.got.at ELSE s.found[s.path]]
       ELSE UNCHANGED <<pending, baseline>>
    /\ syncs' = [syncs EXCEPT ![i].got = Absent, ![i].path = Bundle]
    /\ UNCHANGED <<home, ledger, pump, loaded, claimed, cards, history, bounds>>

(* The file is not there yet, or the upload fails.                          *)
UploadFails(i, p) ==
    /\ syncs[i].at \in {"claims", "sweeps"} /\ ~Uploading(i)
    /\ p \in syncs[i].todo
    /\ IF disk[p] = Absent THEN UNCHANGED bounds ELSE Spend("faults")
    /\ syncs' = [syncs EXCEPT ![i].todo = @ \ {p}]
    /\ pending' = pending \cup {p}
    /\ missed' = IF pump = "sweep" THEN missed \cup {p} ELSE missed
    /\ UNCHANGED <<home, ledger, pump, loaded, baseline, written, claimed, cards, start, given>>

(* What a sweep looks at: a path that differs from the baseline and is not  *)
(* one that was new at the start and has been uploaded since, and what is   *)
(* still pending; but nothing a summary has delivered already.              *)
ChangedBug(p) == disk[p].at # baseline[p] /\ written[p] = Absent
Changed(p) == disk[p].at # baseline[p] /\ (written[p] = Absent \/ baseline[p] # 0)
SeenBug(p) == FALSE
Seen(p) == <<p, disk[p].at>> \in ledger
Candidates == {p \in There : Changed(p)} \cup pending
Scan(i) ==
    /\ syncs[i].at = "claims" /\ syncs[i].todo = {} /\ ~Uploading(i)
    /\ syncs' = [syncs EXCEPT ![i].at = "sweeps", ![i].found = Sizes,
                              ![i].todo = {p \in Candidates : ~Seen(p)}]
    /\ UNCHANGED <<home, ledger, pump, loaded, baseline, written, pending, claimed, cards, history, bounds>>

Finish(i) ==
    /\ syncs[i].at = "sweeps" /\ syncs[i].todo = {} /\ ~Uploading(i)
    /\ syncs' = [syncs EXCEPT ![i].at = "done"]
    /\ UNCHANGED <<home, ledger, pump, loaded, baseline, written, pending, claimed, cards, history, bounds>>

-----------------------------------------------------------------------------
(* The summary.                                                             *)

(* The executor lists what was claimed and what the model adds, or nothing  *)
(* when the answer to the fallback was not JSON.                            *)
Summary(more) ==
    /\ pump = "events"
    /\ pump' = "own members"
    /\ \E own \in {claimed \cup more, {}} :
           cards' = [p \in Paths |-> IF p \in own THEN Fresh ELSE Absent]
    /\ claimed' = claimed \cup more
    /\ UNCHANGED <<home, ledger, loaded, lists, history, bounds>>

(* The runner waits for the sync that is last in the chain, and sweeps.     *)
Awaited == \A i \in DOMAIN syncs : syncs[i].at = "done"
Sweep ==
    /\ pump = "await"
    /\ Awaited
    /\ pump' = "sweep"
    /\ syncs' = Append(syncs, [Sync({}) EXCEPT !.at = "claims"])
    /\ UNCHANGED <<home, ledger, loaded, baseline, written, pending, claimed, cards, history, bounds>>

MergedBug(p) == IF Carded # {} THEN cards[p] ELSE written[p]
Merged(p) == IF cards[p] # Absent THEN cards[p] ELSE written[p]
Merge ==
    /\ pump = "sweep"
    /\ syncs[Len(syncs)].at = "done"
    /\ cards' = [p \in Paths |-> Merged(p)]
    /\ pump' = "members"
    /\ UNCHANGED <<home, ledger, loaded, lists, claimed, history, bounds>>

(* The filters, first over the list of the executor, then over the merged   *)
(* one.  One that fails passes the list on as it is.                        *)
After == [s \in {"own members", "own rebuild", "own bundle", "members", "rebuild", "fold", "bundle"} |->
            CASE s = "own members" -> "own rebuild" [] s = "own rebuild" -> "own bundle"
              [] s = "own bundle" -> "await"        [] s = "members" -> "rebuild"
              [] s = "rebuild" -> "fold"            [] s = "fold" -> "bundle"
              [] s = "bundle" -> "send"]

Filtered(stages) ==
    /\ pump \in stages
    /\ pump' = After[pump]
    /\ UNCHANGED <<ledger, loaded, lists, claimed, history>>

FilterFails ==
    /\ Filtered(DOMAIN After)
    /\ Spend("faults")
    /\ UNCHANGED <<home, cards>>

Zips == {z \in Carded \cap Archives : disk[z] # Absent}
Loose == {p \in Carded \ Archives : p \notin Documents}

(* drop_zip_member_attachments                                              *)
DropMembers ==
    /\ Filtered({"own members", "members"})
    /\ cards' = [p \in Paths |-> IF p \notin Archives /\ p \in UNION {Members(z) : z \in Zips}
                                 THEN Absent ELSE cards[p]]
    /\ UNCHANGED <<home, bounds>>

(* sanitize_oversized_archives and restructure_flat_archives: archives that *)
(* need it are written anew and lose their file_id.                         *)
Rebuild ==
    /\ Filtered({"own rebuild", "rebuild"})
    /\ \/ UNCHANGED <<home, cards>>
       \/ \E z \in Zips :
              /\ Write(z, Members(z))
              /\ cards' = [cards EXCEPT ![z] = Fresh]
    /\ UNCHANGED bounds

(* fold_loose_files_into_archive: the archive in the VM gets the files, its *)
(* card stays what it is.                                                   *)
Folded(z) == Members(z) \cup (Loose \cap There)
Fold ==
    /\ Filtered({"fold"})
    /\ IF Zips = {} \/ Loose = {}
       THEN UNCHANGED <<home, cards>>
       ELSE \E z \in Zips :
              /\ Write(z, Folded(z))
              /\ cards' = [p \in Paths |-> IF p \in Loose THEN Absent ELSE cards[p]]
    /\ UNCHANGED bounds

(* auto_bundle_deliverables                                                 *)
AutoBundle ==
    /\ Filtered({"own bundle", "bundle"})
    /\ IF Carded \cap Archives # {} \/ Cardinality(Loose) < MinMembers \/ Loose \cap There = {}
       THEN UNCHANGED <<home, cards>>
       ELSE /\ Write(Bundle, Loose \cap There)
            /\ cards' = [p \in Paths |-> CASE p = Bundle -> Fresh
                                           [] p \in Loose -> Absent
                                           [] OTHER -> cards[p]]
    /\ UNCHANGED bounds

(* _sync_message_attachments_to_storage, then the ledger: a card that has   *)
(* its copy is linked, the others are uploaded now, and a failing one is    *)
(* dropped from the message.                                                *)
Send(failing) ==
    /\ pump = "send"
    /\ LET fresh == {p \in Paths : cards[p] = Fresh}
           sent == [p \in Paths |-> IF p \notin fresh THEN cards[p]
                                    ELSE IF p \in failing THEN Absent ELSE disk[p]]
       IN /\ failing \subseteq fresh \cap There
          /\ IF failing = {} THEN UNCHANGED bounds ELSE Spend("faults")
          /\ cards' = sent
          /\ ledger' = ledger \cup {<<p, sent[p].at>> : p \in {q \in Paths : sent[q] # Absent}}
    /\ missed' = missed \cup failing \cup UNION {Members(z) : z \in failing}
    /\ pump' = "sent"
    /\ UNCHANGED <<home, loaded, lists, claimed, start, given>>

-----------------------------------------------------------------------------
(* Another session of the user, in the same home.                           *)

OtherWrites(p) ==
    /\ Spend("writes")
    /\ Write(p, {})
    /\ UNCHANGED <<ledger, pump, loaded, lists, claimed, cards, history>>

CameAcross(p) ==
    \/ written[p] # Absent
    \/ \E i \in DOMAIN syncs : p \in syncs[i].todo \/ (Uploading(i) /\ syncs[i].path = p)
OtherDelivers(p) ==
    /\ disk[p] # Absent /\ <<p, disk[p].at>> \notin ledger
    /\ ledger' = ledger \cup {<<p, disk[p].at>>}
    /\ given' = IF CameAcross(p) THEN given ELSE given \cup {<<p, disk[p].at>>}
    /\ UNCHANGED <<home, pump, loaded, lists, claimed, cards, start, missed, bounds>>

-----------------------------------------------------------------------------
UpToOne(S) == {T \in SUBSET S : Cardinality(T) <= 1}

Next ==
    \/ StartRun \/ EndRun
    \/ \E p \in ToolFiles : ToolWrites(p)
    \/ ToolLoads \/ ToolStores \/ ToolFails
    \/ \E p \in Own : ShellWrites(p)
    \/ \E claims \in UpToOne(Own \ {Bundle}) : StepDone(claims) \/ Summary(claims)
    \/ \E i \in DOMAIN syncs : Begin(i) \/ Store(i) \/ Scan(i) \/ Finish(i)
    \/ \E i \in DOMAIN syncs, p \in Paths : Load(i, p) \/ UploadFails(i, p)
    \/ Sweep \/ Merge
    \/ FilterFails \/ DropMembers \/ Rebuild \/ Fold \/ AutoBundle
    \/ \E failing \in UpToOne(Paths) : Send(failing)
    \/ \E p \in Foreign : OtherWrites(p) \/ OtherDelivers(p)

Spec == Init /\ [][Next]_vars

-----------------------------------------------------------------------------
(* Properties.                                                              *)

(* Every variable stays within its type.                                    *)
Contents == [at : Nat, has : SUBSET Paths]
TypeOK ==
    /\ disk \in [Paths -> Contents]
    /\ clock \in Nat
    /\ ledger \subseteq Paths \X Nat
    /\ pump \in {"none", "events", "tool", "await", "sweep", "send", "sent"} \cup DOMAIN After
    /\ loaded \in [path : Paths, got : Contents]
    /\ baseline \in [Paths -> Nat]
    /\ written \in [Paths -> Contents]
    /\ pending \subseteq Paths
    /\ syncs \in Seq([at : {"waits", "claims", "sweeps", "done"}, todo : SUBSET Paths,
                      found : [Paths -> Nat], path : Paths, got : Contents])
    /\ claimed \subseteq Paths
    /\ cards \in [Paths -> Contents]
    /\ start \in [Paths -> Nat]
    /\ given \subseteq Paths \X Nat
    /\ missed \subseteq Paths
    /\ bounds \in [writes : 0..MaxWrites, runs : 0..MaxRuns, faults : 0..MaxFaults]

Sent == pump = "sent"

(* Whatever the run made or changed, by tools, by the shell or claimed, is  *)
(* with the summary: as a card, or in an archive that is one.  Uploads that *)
(* failed before the summary are made up for by it.  The exception is what  *)
(* was put into an archive whose card is an older copy: by the fold, or by  *)
(* a command that packed an archive anew that a claim had uploaded.         *)
Outdated == {z \in Carded \cap Archives : cards[z].at # disk[z].at}
NothingIsLost ==
    Sent => \A p \in Own \ (missed \cup UNION {Members(z) : z \in Outdated}) :
        disk[p].at # start[p] =>
            p \in Carded \/ \E z \in Carded \cap Archives : p \in cards[z].has

(* A file nobody but the sweeps took up is delivered as it is in the end,   *)
(* however the syncs of the steps, the commands that write it and the final *)
(* sweep overlapped.  What a tool or a claim uploaded and the shell changed *)
(* later is the exception: the sweep takes its old copy for the newest.     *)
NewestIsDelivered ==
    Sent => \A p \in (Carded \cap Own) \ (ToolFiles \cup claimed \cup Archives \cup missed) :
        cards[p].at = disk[p].at

(* The user gets no file again that nobody listed and that did not change   *)
(* since an earlier summary, of this session or of another one, delivered   *)
(* it; unless the run had come across it before that summary.               *)
NothingTwice ==
    Sent => \A p \in Carded \ (claimed \cup Archives) : <<p, cards[p].at>> \notin given

(* Nothing is lost by folding, as delivery_hygiene says: the copy the user  *)
(* gets of an archive holds all that was put into the archive.  The code    *)
(* does not keep this; NothingIsLost does without it.                       *)
FoldedIsDelivered ==
    Sent => \A z \in Carded \cap Archives : cards[z].has = Members(z)
=============================================================================
