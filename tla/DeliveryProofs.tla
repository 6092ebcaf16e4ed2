--------------------------- MODULE DeliveryProofs ---------------------------
(* Theorems about Delivery, for every value of its constants. *)
EXTENDS Delivery, SequenceTheorems, TLAPS

-----------------------------------------------------------------------------
(* The inductive invariant, part by part *)

SyncTypes == [at : {"waits", "claims", "sweeps", "done"}, todo : SUBSET Paths,
              found : [Paths -> Nat], path : Paths, got : Contents]

(* TypeOK, with its sets named.                                               *)
Files == [Paths -> Contents]
Stages == {"own members", "own rebuild", "own bundle", "members", "rebuild", "fold", "bundle"}
Places == {"none", "events", "tool", "await", "sweep", "send", "sent"} \cup Stages
Budget == [writes : 0..MaxWrites, runs : 0..MaxRuns, faults : 0..MaxFaults]

Types ==
  /\ disk \in Files /\ written \in Files /\ cards \in Files
  /\ clock \in Nat /\ pump \in Places
  /\ ledger \subseteq Paths \X Nat /\ given \subseteq Paths \X Nat
  /\ loaded \in [path : Paths, got : Contents]
  /\ baseline \in [Paths -> Nat] /\ start \in [Paths -> Nat]
  /\ pending \subseteq Paths /\ claimed \subseteq Paths /\ missed \subseteq Paths
  /\ syncs \in Seq(SyncTypes)
  /\ bounds \in Budget

Late == {"members", "rebuild", "fold", "bundle", "send", "sent"}

(* A copy of a file is one of its writes, and the last only if it is equal. *)
CopyOf(p, c) ==
  c = Absent \/ /\ 0 < c.at /\ c.at <= disk[p].at
                /\ c.at = disk[p].at => c = disk[p]

(* Writes are numbered upwards, and what was delivered has been written.     *)
Numbered ==
  /\ \A p \in Paths : disk[p].at <= clock /\ start[p] <= disk[p].at
                      /\ (disk[p].at = 0 => disk[p] = Absent)
  /\ \A e \in ledger : e[2] <= disk[e[1]].at
  /\ given \subseteq ledger
  /\ Sent => \A p \in Carded : <<p, cards[p].at>> \in ledger

(* What the runner holds of a file.                                          *)
Uploaded == \A p \in Paths : CopyOf(p, written[p])
Listed == \A p \in Paths : CopyOf(p, cards[p]) \/ (cards[p] = Fresh /\ ~Sent)
Held == CopyOf(loaded.path, loaded.got)
InSyncs == \A i \in DOMAIN syncs : CopyOf(syncs[i].path, syncs[i].got)
Copies == Uploaded /\ Listed /\ Held /\ InSyncs

(* The chain: an unfinished sync has its claims, a finished one nothing      *)
(* left; after the summary has waited only the sweep of the summary is       *)
(* unfinished, and after the merge none.                                     *)
Chained(i) ==
  /\ syncs[i].at \in {"waits", "claims"} =>
       /\ syncs[i].todo \subseteq claimed
       /\ Uploading(i) => syncs[i].path \in claimed
  /\ syncs[i].at \in {"waits", "done"} => ~Uploading(i)
  /\ syncs[i].at = "done" => syncs[i].todo = {}
  /\ pump \in Late => syncs[i].at = "done"
  /\ pump = "sweep" /\ i # Len(syncs) => syncs[i].at = "done"
Chain ==
  /\ \A i \in DOMAIN syncs : Chained(i)
  /\ pump = "none" => syncs = <<>> /\ cards = Nothing
  /\ pump = "sweep" => Len(syncs) > 0
  /\ pump = "tool" => loaded.path \in ToolFiles
  /\ \A p \in Carded \ (claimed \cup Archives) : pump \in Late /\ cards[p] = written[p]

Inv == Types /\ Numbered /\ Copies /\ Chain

(* The sizes the scans compare lie between the start of the run and now.     *)
Compared ==
  /\ \A p \in Paths : start[p] <= baseline[p] /\ baseline[p] <= disk[p].at
  /\ \A p \in Paths : baseline[p] # start[p] => written[p] # Absent
  /\ \A i \in DOMAIN syncs : syncs[i].at = "sweeps" =>
       /\ \A p \in Paths : start[p] <= syncs[i].found[p] /\ syncs[i].found[p] <= disk[p].at
       /\ Uploading(i) => syncs[i].found[syncs[i].path] <= syncs[i].got.at
OnlySwept == Own \ (ToolFiles \cup claimed)
Measured ==
  \A p \in OnlySwept : written[p] # Absent => 0 < baseline[p] /\ baseline[p] <= written[p].at

(* A file of this session that a summary has delivered has not changed in    *)
(* this run.                                                                 *)
Delivered ==
  \A p \in Own : <<p, disk[p].at>> \in ledger => disk[p].at = start[p] \/ pump = "sent"

SizesInv == pump # "none" => Compared /\ Measured /\ Delivered

(* Where a file that the run has changed is on its way to the user.          *)
FinalSync == syncs[Len(syncs)]
Swept == pump = "sweep" /\ FinalSync.at \in {"sweeps", "done"}
Taken(p) == p \in FinalSync.todo \/ (FinalSync.got # Absent /\ FinalSync.path = p)
Changes == {p \in Own \ missed : disk[p].at # start[p]}
Covered(p) == p \in Carded \/ \E z \in Carded \cap Archives : p \in Members(z)
Lost ==
  /\ Swept => \A p \in Changes : Taken(p) \/ written[p] # Absent
  /\ pump \in Late \ {"sent"} => \A p \in Changes : Covered(p)
LostInv == Lost /\ NothingIsLost

(* What the user has not been given before.                                  *)
NotGiven(p, c) == c # Absent => <<p, c.at>> \notin given
Ungiven ==
  /\ \A i \in DOMAIN syncs : syncs[i].at = "sweeps" =>
       /\ \A p \in syncs[i].todo : <<p, disk[p].at>> \notin given
       /\ NotGiven(syncs[i].path, syncs[i].got)
  /\ pump = "tool" => /\ <<loaded.path, disk[loaded.path].at>> \notin given
                      /\ NotGiven(loaded.path, loaded.got)
  /\ pump # "none" => \A p \in Paths \ claimed : NotGiven(p, written[p])

(* Which copy of a file that only sweeps took up is the last: between the    *)
(* scan of the final sweep and its end the file is still to load, loaded as  *)
(* it is now, or uploaded as it is now.                                      *)
Newest(p) == written[p] = Absent \/ written[p].at = disk[p].at
Loading(p) == FinalSync.got # Absent /\ FinalSync.path = p
Settled(p) ==
  \/ p \in FinalSync.todo
  \/ Loading(p) /\ FinalSync.got.at = disk[p].at
  \/ ~Loading(p) /\ Newest(p)
Newer ==
  /\ Swept => \A p \in OnlySwept \ (Archives \cup missed) : Settled(p)
  /\ pump \in Late => \A p \in OnlySwept \ (Archives \cup missed) : Newest(p)

-----------------------------------------------------------------------------
(* The step of one sync *)

LEMMA SyncOf ==
  ASSUME syncs \in Seq(SyncTypes), NEW i \in DOMAIN syncs
  PROVE  /\ syncs[i] \in SyncTypes /\ Len(syncs) \in Nat /\ i \in 1..Len(syncs)
         /\ syncs[i].at \in {"waits", "claims", "sweeps", "done"}
         /\ syncs[i].todo \subseteq Paths /\ syncs[i].path \in Paths
         /\ syncs[i].found \in [Paths -> Nat] /\ syncs[i].got \in Contents
<1>1. i \in 1..Len(syncs) /\ Len(syncs) \in Nat
  OBVIOUS
<1>2. syncs[i] \in SyncTypes
  BY <1>1, ElementOfSeq
<1> QED BY <1>1, <1>2 DEF SyncTypes

(* Sync i becomes s, and no other changes.                                   *)
Becomes(i, s) ==
  /\ syncs' \in Seq(SyncTypes) /\ Len(syncs') = Len(syncs) /\ DOMAIN syncs' = DOMAIN syncs
  /\ syncs'[i] = s
  /\ \A j \in DOMAIN syncs : j # i => syncs'[j] = syncs[j]

LEMMA OneSync ==
  ASSUME syncs \in Seq(SyncTypes), NEW i \in DOMAIN syncs, NEW s \in SyncTypes,
         syncs' = [syncs EXCEPT ![i] = s]
  PROVE  Becomes(i, s)
<1>1. i \in 1..Len(syncs) /\ DOMAIN syncs = 1..Len(syncs)
  BY SyncOf
<1>2. /\ syncs' \in Seq(SyncTypes) /\ Len(syncs') = Len(syncs)
      /\ syncs'[i] = s /\ \A j \in 1..Len(syncs) : j # i => syncs'[j] = syncs[j]
  BY <1>1, ExceptSeq
<1>3. DOMAIN syncs' = 1..Len(syncs')
  BY <1>2
<1> QED BY <1>1, <1>2, <1>3 DEF Becomes

LEMMA BeginMoves ==
  ASSUME syncs \in Seq(SyncTypes), NEW i \in DOMAIN syncs, Begin(i)
  PROVE  Becomes(i, [syncs[i] EXCEPT !.at = "claims"])
<1>1. [syncs[i] EXCEPT !.at = "claims"] \in SyncTypes
  BY SyncOf DEF SyncTypes
<1>2. syncs' = [syncs EXCEPT ![i] = [syncs[i] EXCEPT !.at = "claims"]]
  BY DEF Begin
<1> QED BY <1>1, <1>2, OneSync

LEMMA LoadMoves ==
  ASSUME syncs \in Seq(SyncTypes), disk \in [Paths -> Contents],
         NEW i \in DOMAIN syncs, NEW p \in Paths, Load(i, p)
  PROVE  Becomes(i, [syncs[i] EXCEPT !.todo = @ \ {p}, !.path = p, !.got = disk[p]])
<1> DEFINE s == [syncs[i] EXCEPT !.todo = @ \ {p}, !.path = p, !.got = disk[p]]
<1>1. s \in SyncTypes
  BY SyncOf DEF SyncTypes
<1>2. syncs' = [syncs EXCEPT ![i] = s]
  BY SyncOf DEF Load, SyncTypes
<1> QED BY <1>1, <1>2, OneSync

LEMMA StoreMoves ==
  ASSUME syncs \in Seq(SyncTypes), Bundle \in Paths, NEW i \in DOMAIN syncs, Store(i)
  PROVE  Becomes(i, [syncs[i] EXCEPT !.got = Absent, !.path = Bundle])
<1> DEFINE s == [syncs[i] EXCEPT !.got = Absent, !.path = Bundle]
<1>1. s \in SyncTypes
  BY SyncOf DEF SyncTypes, Absent, Contents
<1>2. syncs' = [syncs EXCEPT ![i] = s]
  BY SyncOf DEF Store, SyncTypes
<1> QED BY <1>1, <1>2, OneSync

LEMMA UploadFailsMoves ==
  ASSUME syncs \in Seq(SyncTypes), NEW i \in DOMAIN syncs, NEW p \in Paths, UploadFails(i, p)
  PROVE  Becomes(i, [syncs[i] EXCEPT !.todo = @ \ {p}])
<1> DEFINE s == [syncs[i] EXCEPT !.todo = @ \ {p}]
<1>1. s \in SyncTypes
  BY SyncOf DEF SyncTypes
<1>2. syncs' = [syncs EXCEPT ![i] = s]
  BY SyncOf DEF UploadFails, SyncTypes
<1> QED BY <1>1, <1>2, OneSync

LEMMA ScanMoves ==
  ASSUME syncs \in Seq(SyncTypes), disk \in [Paths -> Contents], pending \subseteq Paths,
         NEW i \in DOMAIN syncs, Scan(i)
  PROVE  Becomes(i, [syncs[i] EXCEPT !.at = "sweeps", !.found = Sizes,
                                     !.todo = {p \in Candidates : ~Seen(p)}])
<1> DEFINE todo == {p \in Candidates : ~Seen(p)}
           s == [syncs[i] EXCEPT !.at = "sweeps", !.found = Sizes, !.todo = todo]
<1>1. todo \subseteq Paths /\ Sizes \in [Paths -> Nat]
  BY DEF Candidates, There, Sizes, Contents
<1>2. syncs' = [syncs EXCEPT ![i].at = "sweeps", ![i].found = Sizes, ![i].todo = todo]
  BY DEF Scan
<1> HIDE DEF todo
<1>3. s \in SyncTypes
  BY <1>1, SyncOf DEF SyncTypes
<1>4. syncs' = [syncs EXCEPT ![i] = s]
  BY <1>2, SyncOf DEF SyncTypes
<1> QED BY <1>3, <1>4, OneSync DEF todo

LEMMA FinishMoves ==
  ASSUME syncs \in Seq(SyncTypes), NEW i \in DOMAIN syncs, Finish(i)
  PROVE  Becomes(i, [syncs[i] EXCEPT !.at = "done"])
<1>1. [syncs[i] EXCEPT !.at = "done"] \in SyncTypes
  BY SyncOf DEF SyncTypes
<1>2. syncs' = [syncs EXCEPT ![i] = [syncs[i] EXCEPT !.at = "done"]]
  BY DEF Finish
<1> QED BY <1>1, <1>2, OneSync

(* A sync joins the chain.                                                   *)
Joins(s) ==
  /\ syncs' \in Seq(SyncTypes) /\ Len(syncs') = Len(syncs) + 1
  /\ DOMAIN syncs' = DOMAIN syncs \cup {Len(syncs) + 1}
  /\ syncs'[Len(syncs) + 1] = s
  /\ \A j \in DOMAIN syncs : j # Len(syncs) + 1 /\ syncs'[j] = syncs[j]

LEMMA Joined ==
  ASSUME syncs \in Seq(SyncTypes), NEW s \in SyncTypes, syncs' = Append(syncs, s)
  PROVE  Joins(s)
<1>1. /\ syncs' \in Seq(SyncTypes) /\ Len(syncs') = Len(syncs) + 1
      /\ syncs'[Len(syncs) + 1] = s
      /\ \A j \in 1..Len(syncs) : syncs'[j] = syncs[j]
  BY AppendProperties
<1>2. /\ DOMAIN syncs = 1..Len(syncs) /\ DOMAIN syncs' = 1..Len(syncs')
      /\ Len(syncs) \in Nat
  BY <1>1
<1> QED BY <1>1, <1>2 DEF Joins

LEMMA StepDoneMoves ==
  ASSUME syncs \in Seq(SyncTypes), Bundle \in Paths, NEW claims \in SUBSET Paths,
         StepDone(claims)
  PROVE  Joins(Sync(claims))
<1>1. Sync(claims) \in SyncTypes
  BY DEF Sync, SyncTypes, Absent, Contents
<1> QED BY <1>1, Joined DEF StepDone

LEMMA SweepMoves ==
  ASSUME syncs \in Seq(SyncTypes), Bundle \in Paths, Sweep
  PROVE  Joins([Sync({}) EXCEPT !.at = "claims"])
<1>1. [Sync({}) EXCEPT !.at = "claims"] \in SyncTypes
  BY DEF Sync, SyncTypes, Absent, Contents
<1> QED BY <1>1, Joined DEF Sweep

(* What each step makes of the sync it takes up.                             *)
Others(i) ==
  /\ Len(syncs') = Len(syncs) /\ DOMAIN syncs' = DOMAIN syncs
  /\ \A j \in DOMAIN syncs : j # i => syncs'[j] = syncs[j]

LEMMA BeginFields ==
  ASSUME syncs \in Seq(SyncTypes), NEW i \in DOMAIN syncs, Begin(i)
  PROVE  /\ Others(i) /\ syncs'[i].at = "claims" /\ syncs'[i].todo = syncs[i].todo
         /\ syncs'[i].found = syncs[i].found
         /\ syncs'[i].path = syncs[i].path /\ syncs'[i].got = syncs[i].got
BY BeginMoves, SyncOf DEF Becomes, Others, SyncTypes

LEMMA LoadFields ==
  ASSUME syncs \in Seq(SyncTypes), disk \in [Paths -> Contents],
         NEW i \in DOMAIN syncs, NEW p \in Paths, Load(i, p)
  PROVE  /\ Others(i) /\ syncs'[i].at = syncs[i].at /\ syncs'[i].todo = syncs[i].todo \ {p}
         /\ syncs'[i].found = syncs[i].found
         /\ syncs'[i].path = p /\ syncs'[i].got = disk[p]
<1>1. Becomes(i, [syncs[i] EXCEPT !.todo = @ \ {p}, !.path = p, !.got = disk[p]])
  BY LoadMoves
<1>2. syncs[i] \in SyncTypes
  BY SyncOf
<1> QED BY <1>1, <1>2 DEF Becomes, Others, SyncTypes

LEMMA StoreFields ==
  ASSUME syncs \in Seq(SyncTypes), Bundle \in Paths, NEW i \in DOMAIN syncs, Store(i)
  PROVE  /\ Others(i) /\ syncs'[i].at = syncs[i].at /\ syncs'[i].todo = syncs[i].todo
         /\ syncs'[i].found = syncs[i].found
         /\ syncs'[i].path = Bundle /\ syncs'[i].got = Absent
BY StoreMoves, SyncOf DEF Becomes, Others, SyncTypes

LEMMA UploadFailsFields ==
  ASSUME syncs \in Seq(SyncTypes), NEW i \in DOMAIN syncs, NEW p \in Paths, UploadFails(i, p)
  PROVE  /\ Others(i) /\ syncs'[i].at = syncs[i].at /\ syncs'[i].todo = syncs[i].todo \ {p}
         /\ syncs'[i].found = syncs[i].found
         /\ syncs'[i].path = syncs[i].path /\ syncs'[i].got = syncs[i].got
<1>1. Becomes(i, [syncs[i] EXCEPT !.todo = @ \ {p}])
  BY UploadFailsMoves
<1>2. syncs[i] \in SyncTypes
  BY SyncOf
<1> QED BY <1>1, <1>2 DEF Becomes, Others, SyncTypes

LEMMA ScanFields ==
  ASSUME syncs \in Seq(SyncTypes), disk \in [Paths -> Contents], pending \subseteq Paths,
         NEW i \in DOMAIN syncs, Scan(i)
  PROVE  /\ Others(i) /\ syncs'[i].at = "sweeps"
         /\ syncs'[i].todo = {p \in Candidates : ~Seen(p)}
         /\ syncs'[i].found = Sizes
         /\ syncs'[i].path = syncs[i].path /\ syncs'[i].got = syncs[i].got
<1> DEFINE todo == {p \in Candidates : ~Seen(p)}
<1>1. Becomes(i, [syncs[i] EXCEPT !.at = "sweeps", !.found = Sizes, !.todo = todo])
  BY ScanMoves
<1> HIDE DEF todo
<1>2. /\ Others(i) /\ syncs'[i].at = "sweeps" /\ syncs'[i].todo = todo
      /\ syncs'[i].found = Sizes
      /\ syncs'[i].path = syncs[i].path /\ syncs'[i].got = syncs[i].got
  BY <1>1, SyncOf DEF Becomes, Others, SyncTypes
<1> QED BY <1>2 DEF todo

LEMMA FinishFields ==
  ASSUME syncs \in Seq(SyncTypes), NEW i \in DOMAIN syncs, Finish(i)
  PROVE  /\ Others(i) /\ syncs'[i].at = "done" /\ syncs'[i].todo = syncs[i].todo
         /\ syncs'[i].found = syncs[i].found
         /\ syncs'[i].path = syncs[i].path /\ syncs'[i].got = syncs[i].got
BY FinishMoves, SyncOf DEF Becomes, Others, SyncTypes

(* The sync that joins has no file yet.                                      *)
LEMMA StepDoneFields ==
  ASSUME syncs \in Seq(SyncTypes), Bundle \in Paths, NEW claims \in SUBSET Paths,
         StepDone(claims)
  PROVE  /\ Len(syncs') = Len(syncs) + 1 /\ DOMAIN syncs' = DOMAIN syncs \cup {Len(syncs')}
         /\ \A j \in DOMAIN syncs : j # Len(syncs') /\ syncs'[j] = syncs[j]
         /\ syncs'[Len(syncs')].at = "waits" /\ syncs'[Len(syncs')].todo = claims
         /\ syncs'[Len(syncs')].got = Absent
<1>1. Joins(Sync(claims))
  BY StepDoneMoves
<1>2. Sync(claims).at = "waits" /\ Sync(claims).todo = claims /\ Sync(claims).got = Absent
  BY DEF Sync, Absent
<1> QED BY <1>1, <1>2 DEF Joins

LEMMA SweepFields ==
  ASSUME syncs \in Seq(SyncTypes), Bundle \in Paths, Sweep
  PROVE  /\ Len(syncs') = Len(syncs) + 1 /\ DOMAIN syncs' = DOMAIN syncs \cup {Len(syncs')}
         /\ \A j \in DOMAIN syncs : j # Len(syncs') /\ syncs'[j] = syncs[j]
         /\ syncs'[Len(syncs')].at = "claims" /\ syncs'[Len(syncs')].todo = {}
         /\ syncs'[Len(syncs')].got = Absent
BY SweepMoves DEF Joins, Sync

-----------------------------------------------------------------------------
(* Types *)

LEMMA StagesNamed ==
  /\ DOMAIN After = Stages
  /\ \A s \in Stages : After[s] \in Places
  /\ After["own members"] = "own rebuild" /\ After["own rebuild"] = "own bundle"
  /\ After["own bundle"] = "await" /\ After["members"] = "rebuild"
  /\ After["rebuild"] = "fold" /\ After["fold"] = "bundle" /\ After["bundle"] = "send"
BY DEF After, Stages, Places

LEMMA TypesNamed == TypeOK <=> Types
<1>1. DOMAIN After = Stages
  BY StagesNamed
<1> QED BY <1>1 DEF TypeOK, Types, Files, Stages, Places, Budget, SyncTypes

LEMMA FilesOf ==
  /\ Absent \in Contents /\ Fresh \in Contents /\ Bundle \in Paths /\ Fresh # Absent
  /\ Nothing \in Files
  /\ \A p \in Paths : Nothing[p] = Absent
BY PathsAreKnown DEF Absent, Fresh, Contents, Nothing, Files

LEMMA SizesType == disk \in Files => Sizes \in [Paths -> Nat]
BY DEF Sizes, Files, Contents

LEMMA Spent ==
  ASSUME bounds \in Budget, NEW what \in {"writes", "runs", "faults"}, Spend(what)
  PROVE  bounds' \in Budget
<1>1. bounds[what] \in Nat /\ bounds[what] > 0
  BY DEF Budget, Spend
<1>2. CASE what = "writes"
  BY <1>1, <1>2, PathsAreKnown DEF Budget, Spend
<1>3. CASE what = "runs"
  BY <1>1, <1>3, PathsAreKnown DEF Budget, Spend
<1>4. CASE what = "faults"
  BY <1>1, <1>4, PathsAreKnown DEF Budget, Spend
<1> QED BY <1>2, <1>3, <1>4

(* A write to p; all other files stay.                                       *)
LEMMA Written ==
  ASSUME disk \in Files, clock \in Nat, NEW p \in Paths, NEW m \in SUBSET Paths, Write(p, m)
  PROVE  /\ disk' \in Files /\ clock' = clock + 1 /\ clock' \in Nat
         /\ disk'[p].at = clock + 1 /\ disk'[p].has = m
         /\ \A q \in Paths : q # p => disk'[q] = disk[q]
<1>1. [at |-> clock + 1, has |-> m] \in Contents
  BY DEF Contents
<1> QED BY <1>1 DEF Write, Files

LEMMA OneFile ==
  ASSUME NEW f \in Files, NEW p \in Paths, NEW c \in Contents
  PROVE  [f EXCEPT ![p] = c] \in Files
BY DEF Files

LEMMA InitTypes == Init => Types
<1> SUFFICES ASSUME Init PROVE Types
  OBVIOUS
<1>1. bounds \in Budget
  BY PathsAreKnown DEF Init, Budget
<1>2. loaded \in [path : Paths, got : Contents]
  BY FilesOf DEF Init, Idle
<1>3. syncs \in Seq(SyncTypes)
  BY EmptySeq DEF Init
<1>4. /\ disk \in Files /\ written \in Files /\ cards \in Files
  BY FilesOf DEF Init
<1> QED BY <1>1, <1>2, <1>3, <1>4 DEF Init, Types, Places

(* The agent *)
LEMMA AgentTypes ==
  ASSUME Types,
         \/ StartRun \/ EndRun \/ ToolLoads \/ ToolStores \/ ToolFails
         \/ \E p \in ToolFiles : ToolWrites(p)
         \/ \E p \in Own : ShellWrites(p)
  PROVE  Types'
<1> USE DEF Types, home, lists, history
<1>1. CASE StartRun
  <2>1. bounds' \in Budget
    BY <1>1, Spent DEF StartRun
  <2>2. baseline' \in [Paths -> Nat] /\ start' \in [Paths -> Nat] /\ written' \in Files
    BY <1>1, SizesType, FilesOf DEF StartRun, Baseline
  <2>3. syncs' \in Seq(SyncTypes) /\ pump' \in Places /\ claimed' \subseteq Paths
    BY <1>1, EmptySeq DEF StartRun, Places
  <2> QED BY <1>1, <2>1, <2>2, <2>3 DEF StartRun
<1>2. CASE EndRun
  <2>1. loaded' \in [path : Paths, got : Contents] /\ cards' \in Files
    BY <1>2, FilesOf DEF EndRun, Idle
  <2>2. syncs' \in Seq(SyncTypes) /\ pump' \in Places
    BY <1>2, EmptySeq DEF EndRun, Places
  <2>3. {<<p, cards[p].at>> : p \in Carded} \subseteq Paths \X Nat
    BY DEF Carded, Files, Contents
  <2>4. given' \subseteq Paths \X Nat
    BY <1>2, <2>3 DEF EndRun
  <2> QED BY <1>2, <2>1, <2>2, <2>4 DEF EndRun
<1>3. CASE ToolLoads
  <2>1. disk[loaded.path] \in Contents
    BY DEF Files
  <2>2. loaded' \in [path : Paths, got : Contents]
    BY <1>3, <2>1 DEF ToolLoads
  <2> QED BY <1>3, <2>2 DEF ToolLoads
<1>4. CASE ToolStores
  <2>1. written' \in Files
    BY <1>4, OneFile DEF ToolStores
  <2>2. loaded' \in [path : Paths, got : Contents] /\ pump' \in Places
    BY <1>4, FilesOf DEF ToolStores, Idle, Places
  <2> QED BY <1>4, <2>1, <2>2 DEF ToolStores
<1>5. CASE ToolFails
  <2>1. bounds' \in Budget
    BY <1>5, Spent DEF ToolFails
  <2>2. loaded' \in [path : Paths, got : Contents] /\ pump' \in Places
    BY <1>5, FilesOf DEF ToolFails, Idle, Places
  <2> QED BY <1>5, <2>1, <2>2 DEF ToolFails
<1>6. ASSUME NEW p \in ToolFiles, ToolWrites(p) PROVE Types'
  <2>1. p \in Paths
    BY PathsAreKnown
  <2>2. bounds' \in Budget
    BY <1>6, Spent DEF ToolWrites
  <2>3. disk' \in Files /\ clock' \in Nat
    BY <1>6, <2>1, Written DEF ToolWrites
  <2>4. loaded' \in [path : Paths, got : Contents] /\ pump' \in Places
    BY <1>6, <2>1, FilesOf DEF ToolWrites, Places
  <2> QED BY <1>6, <2>2, <2>3, <2>4 DEF ToolWrites
<1>7. ASSUME NEW p \in Own, ShellWrites(p) PROVE Types'
  <2>1. p \in Paths /\ Packable \subseteq Paths
    BY DEF Own, Packable, There
  <2>2. bounds' \in Budget
    BY <1>7, Spent DEF ShellWrites
  <2>3. disk' \in Files /\ clock' \in Nat
    BY <1>7, <2>1, Written DEF ShellWrites
  <2> QED BY <1>7, <2>2, <2>3 DEF ShellWrites
<1> QED BY <1>1, <1>2, <1>3, <1>4, <1>5, <1>6, <1>7

(* The syncs *)
LEMMA SyncTypesKept ==
  ASSUME Types, NEW i \in DOMAIN syncs,
         \/ Begin(i) \/ Store(i) \/ Scan(i) \/ Finish(i)
         \/ \E p \in Paths : Load(i, p) \/ UploadFails(i, p)
  PROVE  Types'
<1> USE DEF Types, home, lists, history
<1>0. disk \in [Paths -> Contents] /\ Bundle \in Paths
  BY FilesOf DEF Files
<1>1. CASE Begin(i)
  BY <1>1, BeginMoves DEF Begin, Becomes
<1>2. CASE Store(i)
  <2>1. syncs' \in Seq(SyncTypes)
    BY <1>0, <1>2, StoreMoves DEF Becomes
  <2>2. /\ syncs[i].path \in Paths /\ syncs[i].got \in Contents
        /\ syncs[i].got.at \in Nat /\ syncs[i].found[syncs[i].path] \in Nat
    BY SyncOf DEF Contents
  <2>3. written' \in Files
    BY <1>2, <2>2, OneFile DEF Store
  <2>4. pending' \subseteq Paths /\ baseline' \in [Paths -> Nat]
    BY <1>2, <2>2 DEF Store
  <2> QED BY <1>2, <2>1, <2>3, <2>4 DEF Store
<1>3. CASE Scan(i)
  BY <1>0, <1>3, ScanMoves DEF Scan, Becomes
<1>4. CASE Finish(i)
  BY <1>4, FinishMoves DEF Finish, Becomes
<1>5. ASSUME NEW p \in Paths, Load(i, p) PROVE Types'
  BY <1>0, <1>5, LoadMoves DEF Load, Becomes
<1>6. ASSUME NEW p \in Paths, UploadFails(i, p) PROVE Types'
  <2>1. syncs' \in Seq(SyncTypes)
    BY <1>6, UploadFailsMoves DEF Becomes
  <2>2. bounds' \in Budget
    BY <1>6, Spent DEF UploadFails
  <2> QED BY <1>6, <2>1, <2>2 DEF UploadFails
<1> QED BY <1>1, <1>2, <1>3, <1>4, <1>5, <1>6

(* The summary and the other session *)
LEMMA SummaryTypes ==
  ASSUME Types,
         \/ \E claims \in SUBSET Paths : StepDone(claims) \/ Summary(claims)
         \/ Sweep \/ Merge
         \/ \E failing \in SUBSET Paths : Send(failing)
         \/ \E p \in Foreign : OtherWrites(p) \/ OtherDelivers(p)
  PROVE  Types'
<1> USE DEF Types, home, lists, history
<1>1. ASSUME NEW claims \in SUBSET Paths, StepDone(claims) PROVE Types'
  <2>1. syncs' \in Seq(SyncTypes)
    BY <1>1, FilesOf, StepDoneMoves DEF Joins
  <2> QED BY <1>1, <2>1 DEF StepDone
<1>2. ASSUME NEW claims \in SUBSET Paths, Summary(claims) PROVE Types'
  <2>1. cards' \in Files
    BY <1>2, FilesOf DEF Summary, Files
  <2> QED BY <1>2, <2>1 DEF Summary, Places, Stages
<1>3. CASE Sweep
  <2>1. syncs' \in Seq(SyncTypes)
    BY <1>3, FilesOf, SweepMoves DEF Joins
  <2> QED BY <1>3, <2>1 DEF Sweep, Places
<1>4. CASE Merge
  <2>1. cards' \in Files
    BY <1>4 DEF Merge, Merged, Files
  <2> QED BY <1>4, <2>1 DEF Merge, Places, Stages
<1>5. ASSUME NEW failing \in SUBSET Paths, Send(failing) PROVE Types'
  <2> DEFINE fresh == {p \in Paths : cards[p] = Fresh}
             sent == [p \in Paths |-> IF p \notin fresh THEN cards[p]
                                      ELSE IF p \in failing THEN Absent ELSE disk[p]]
  <2>1. sent \in Files
    BY FilesOf DEF Files
  <2>2. /\ cards' = sent
        /\ ledger' = ledger \cup {<<p, sent[p].at>> : p \in {q \in Paths : sent[q] # Absent}}
        /\ pump' = "sent" /\ missed' = missed \cup failing \cup UNION {Members(z) : z \in failing}
        /\ UNCHANGED <<home, loaded, lists, claimed, start, given>>
    BY <1>5 DEF Send
  <2>3. bounds' \in Budget
    BY <1>5, Spent DEF Send
  <2>4. \A p \in Paths : sent[p].at \in Nat
    BY <2>1 DEF Files, Contents
  <2>6. \A z \in failing : Members(z) \subseteq Paths
    BY DEF Members, Files, Contents
  <2> HIDE DEF sent
  <2>7. {<<p, sent[p].at>> : p \in {q \in Paths : sent[q] # Absent}} \subseteq Paths \X Nat
    BY <2>4
  <2>5. ledger' \subseteq Paths \X Nat
    BY <2>2, <2>7
  <2> QED BY <2>1, <2>2, <2>3, <2>5, <2>6 DEF Places
<1>6. ASSUME NEW p \in Foreign, OtherWrites(p) PROVE Types'
  <2>1. p \in Paths
    BY PathsAreKnown
  <2>2. disk' \in Files /\ clock' \in Nat
    BY <1>6, <2>1, Written DEF OtherWrites
  <2>3. bounds' \in Budget
    BY <1>6, Spent DEF OtherWrites
  <2> QED BY <1>6, <2>2, <2>3 DEF OtherWrites
<1>7. ASSUME NEW p \in Foreign, OtherDelivers(p) PROVE Types'
  <2>1. p \in Paths /\ disk[p].at \in Nat
    BY PathsAreKnown DEF Files, Contents
  <2> QED BY <1>7, <2>1 DEF OtherDelivers
<1> QED BY <1>1, <1>2, <1>3, <1>4, <1>5, <1>6, <1>7

(* The filters *)
LEMMA FilterTypes ==
  ASSUME Types, FilterFails \/ DropMembers \/ Rebuild \/ Fold \/ AutoBundle
  PROVE  Types'
<1> USE DEF Types, home, lists, history
<1>1. pump \in Stages /\ pump' = After[pump]
  BY StagesNamed DEF FilterFails, DropMembers, Rebuild, Fold, AutoBundle, Filtered, Stages
<1>2. pump' \in Places
  BY <1>1, StagesNamed
<1>3. UNCHANGED <<ledger, loaded, lists, claimed, history>>
  BY DEF FilterFails, DropMembers, Rebuild, Fold, AutoBundle, Filtered
<1>4. Loose \subseteq Paths /\ There \subseteq Paths /\ Zips \subseteq Paths
  BY DEF Loose, There, Zips, Carded
<1>5. \A z \in Paths : Members(z) \subseteq Paths
  BY DEF Members, Files, Contents
<1>6. CASE FilterFails
  BY <1>2, <1>3, <1>6, Spent DEF FilterFails
<1>7. CASE DropMembers
  <2>1. cards' \in Files
    BY <1>7, FilesOf DEF DropMembers, Files
  <2> QED BY <1>2, <1>3, <1>7, <2>1 DEF DropMembers
<1>8. CASE Rebuild
  <2>1. CASE UNCHANGED <<home, cards>>
    BY <1>2, <1>3, <1>8, <2>1 DEF Rebuild
  <2>2. ASSUME NEW z \in Zips, Write(z, Members(z)), cards' = [cards EXCEPT ![z] = Fresh]
        PROVE  Types'
    <3>1. disk' \in Files /\ clock' \in Nat
      BY <1>4, <1>5, <2>2, Written
    <3>2. cards' \in Files
      BY <1>4, <2>2, FilesOf, OneFile
    <3> QED BY <1>2, <1>3, <1>8, <3>1, <3>2 DEF Rebuild
  <2> QED BY <1>8, <2>1, <2>2 DEF Rebuild
<1>9. CASE Fold
  <2>1. CASE UNCHANGED <<home, cards>>
    BY <1>2, <1>3, <1>9, <2>1 DEF Fold
  <2>2. ASSUME NEW z \in Zips, Write(z, Folded(z)),
               cards' = [p \in Paths |-> IF p \in Loose THEN Absent ELSE cards[p]]
        PROVE  Types'
    <3>1. disk' \in Files /\ clock' \in Nat
      BY <1>4, <1>5, <2>2, Written DEF Folded
    <3>2. cards' \in Files
      BY <2>2, FilesOf DEF Files
    <3> QED BY <1>2, <1>3, <1>9, <3>1, <3>2 DEF Fold
  <2> QED BY <1>9, <2>1, <2>2 DEF Fold
<1>10. CASE AutoBundle
  <2>1. CASE UNCHANGED <<home, cards>>
    BY <1>2, <1>3, <1>10, <2>1 DEF AutoBundle
  <2>2. ASSUME Write(Bundle, Loose \cap There),
               cards' = [p \in Paths |-> CASE p = Bundle -> Fresh
                                           [] p \in Loose -> Absent
                                           [] OTHER -> cards[p]]
        PROVE  Types'
    <3>1. disk' \in Files /\ clock' \in Nat
      BY <1>4, <2>2, FilesOf, Written
    <3>2. cards' \in Files
      BY <2>2, FilesOf DEF Files
    <3> QED BY <1>2, <1>3, <1>10, <3>1, <3>2 DEF AutoBundle
  <2> QED BY <1>10, <2>1, <2>2 DEF AutoBundle
<1> QED BY <1>6, <1>7, <1>8, <1>9, <1>10

(* The alternatives of a step, by who takes it.                              *)
Agent ==
  \/ StartRun \/ EndRun \/ ToolLoads \/ ToolStores \/ ToolFails
  \/ \E p \in ToolFiles : ToolWrites(p)
  \/ \E p \in Own : ShellWrites(p)
Syncing ==
  \E i \in DOMAIN syncs : \/ Begin(i) \/ Store(i) \/ Scan(i) \/ Finish(i)
                          \/ \E p \in Paths : Load(i, p) \/ UploadFails(i, p)
Summing ==
  \/ \E claims \in SUBSET Paths : StepDone(claims) \/ Summary(claims)
  \/ Sweep \/ Merge
  \/ \E failing \in SUBSET Paths : Send(failing)
  \/ \E p \in Foreign : OtherWrites(p) \/ OtherDelivers(p)
Filtering == FilterFails \/ DropMembers \/ Rebuild \/ Fold \/ AutoBundle

LEMMA StepsSplit == Next => Agent \/ Syncing \/ Summing \/ Filtering
<1> SUFFICES ASSUME Next PROVE Agent \/ Syncing \/ Summing \/ Filtering
  OBVIOUS
<1>1. UpToOne(Own \ {Bundle}) \subseteq SUBSET Paths /\ UpToOne(Paths) \subseteq SUBSET Paths
  BY DEF UpToOne, Own
<1> QED BY <1>1 DEF Next, Agent, Syncing, Summing, Filtering

LEMMA TypesStep == Types /\ [Next]_vars => Types'
<1> SUFFICES ASSUME Types, [Next]_vars PROVE Types'
  OBVIOUS
<1>1. CASE Agent
  BY <1>1, AgentTypes DEF Agent
<1>2. CASE Syncing
  BY <1>2, SyncTypesKept DEF Syncing
<1>3. CASE Summing
  BY <1>3, SummaryTypes DEF Summing
<1>4. CASE Filtering
  BY <1>4, FilterTypes DEF Filtering
<1>5. CASE UNCHANGED vars
  BY <1>5 DEF Types, vars, home, lists, history
<1> QED BY <1>1, <1>2, <1>3, <1>4, <1>5, StepsSplit

(* Every variable stays within its type, however tools, commands, syncs,     *)
(* filters and another session interleave.                                   *)
THEOREM TypeCorrect == Spec => []TypeOK
<1>1. Init => Types
  BY InitTypes
<1>2. Types /\ [Next]_vars => Types'
  BY TypesStep
<1>3. Types => TypeOK
  BY TypesNamed
<1> QED BY <1>1, <1>2, <1>3, PTL DEF Spec

-----------------------------------------------------------------------------
(* Which steps change a variable *)

LEMMA HomeMoves ==
  ASSUME Types, [Next]_vars
  PROVE  UNCHANGED home \/ \E p \in Paths, m \in SUBSET Paths : Write(p, m)
<1> USE DEF home, Types
<1>1. Loose \subseteq Paths /\ There \subseteq Paths /\ Zips \subseteq Paths /\ Packable \subseteq Paths
  BY DEF Loose, There, Zips, Carded, Packable
<1>2. \A z \in Paths : Members(z) \subseteq Paths
  BY DEF Members, Files, Contents
<1>3. ToolFiles \subseteq Paths /\ Foreign \subseteq Paths /\ Own \subseteq Paths /\ Bundle \in Paths
  BY PathsAreKnown DEF Own
<1>4. CASE Agent
  BY <1>1, <1>3, <1>4 DEF Agent, StartRun, EndRun, ToolLoads, ToolStores, ToolFails, ToolWrites,
                          ShellWrites
<1>5. CASE Syncing
  BY <1>5 DEF Syncing, Begin, Store, Scan, Finish, Load, UploadFails
<1>6. CASE Summing
  BY <1>3, <1>6 DEF Summing, StepDone, Summary, Sweep, Merge, Send, OtherWrites, OtherDelivers
<1>7. CASE Filtering
  <2>1. CASE FilterFails \/ DropMembers
    BY <2>1 DEF FilterFails, DropMembers
  <2>2. CASE Rebuild
    BY <1>1, <1>2, <2>2 DEF Rebuild
  <2>3. CASE Fold
    <3>1. \A z \in Zips : Folded(z) \subseteq Paths
      BY <1>1, <1>2 DEF Folded
    <3> QED BY <1>1, <2>3, <3>1 DEF Fold
  <2>4. CASE AutoBundle
    BY <1>1, <1>3, <2>4 DEF AutoBundle
  <2> QED BY <1>7, <2>1, <2>2, <2>3, <2>4 DEF Filtering
<1>8. CASE UNCHANGED vars
  BY <1>8 DEF vars
<1> QED BY <1>4, <1>5, <1>6, <1>7, <1>8, StepsSplit

LEMMA WrittenMoves ==
  ASSUME [Next]_vars
  PROVE  UNCHANGED written \/ StartRun \/ ToolStores \/ \E i \in DOMAIN syncs : Store(i)
<1> USE DEF lists
<1>1. CASE Agent
  BY <1>1 DEF Agent, EndRun, ToolLoads, ToolFails, ToolWrites, ShellWrites
<1>2. CASE Syncing
  BY <1>2 DEF Syncing, Begin, Scan, Finish, Load, UploadFails
<1>3. CASE Summing
  BY <1>3 DEF Summing, StepDone, Summary, Sweep, Merge, Send, OtherWrites, OtherDelivers
<1>4. CASE Filtering
  BY <1>4 DEF Filtering, FilterFails, DropMembers, Rebuild, Fold, AutoBundle, Filtered
<1>5. CASE UNCHANGED vars
  BY <1>5 DEF vars
<1> QED BY <1>1, <1>2, <1>3, <1>4, <1>5, StepsSplit

LEMMA CardsMoves ==
  ASSUME [Next]_vars
  PROVE  \/ UNCHANGED cards \/ EndRun \/ Merge \/ Filtering
         \/ \E more \in SUBSET Paths : Summary(more)
         \/ \E failing \in SUBSET Paths : Send(failing)
<1>1. CASE Agent
  BY <1>1 DEF Agent, StartRun, ToolLoads, ToolFails, ToolStores, ToolWrites, ShellWrites
<1>2. CASE Syncing
  BY <1>2 DEF Syncing, Begin, Store, Scan, Finish, Load, UploadFails
<1>3. CASE Summing
  BY <1>3 DEF Summing, StepDone, Sweep, OtherWrites, OtherDelivers
<1>5. CASE UNCHANGED vars
  BY <1>5 DEF vars
<1> QED BY <1>1, <1>2, <1>3, <1>5, StepsSplit

LEMMA LoadedMoves ==
  ASSUME [Next]_vars
  PROVE  \/ UNCHANGED loaded \/ EndRun \/ ToolLoads \/ ToolStores \/ ToolFails
         \/ \E p \in ToolFiles : ToolWrites(p)
<1>1. CASE Agent
  BY <1>1 DEF Agent, StartRun, ShellWrites
<1>2. CASE Syncing
  BY <1>2 DEF Syncing, Begin, Store, Scan, Finish, Load, UploadFails
<1>3. CASE Summing
  BY <1>3 DEF Summing, StepDone, Summary, Sweep, Merge, Send, OtherWrites, OtherDelivers
<1>4. CASE Filtering
  BY <1>4 DEF Filtering, FilterFails, DropMembers, Rebuild, Fold, AutoBundle, Filtered
<1>5. CASE UNCHANGED vars
  BY <1>5 DEF vars
<1> QED BY <1>1, <1>2, <1>3, <1>4, <1>5, StepsSplit

LEMMA SyncsMove ==
  ASSUME [Next]_vars
  PROVE  \/ UNCHANGED syncs \/ StartRun \/ EndRun \/ Syncing \/ Sweep
         \/ \E claims \in SUBSET Paths : StepDone(claims)
<1> USE DEF lists
<1>1. CASE Agent
  BY <1>1 DEF Agent, ToolLoads, ToolStores, ToolFails, ToolWrites, ShellWrites
<1>3. CASE Summing
  BY <1>3 DEF Summing, Summary, Merge, Send, OtherWrites, OtherDelivers
<1>4. CASE Filtering
  BY <1>4 DEF Filtering, FilterFails, DropMembers, Rebuild, Fold, AutoBundle, Filtered
<1>5. CASE UNCHANGED vars
  BY <1>5 DEF vars
<1> QED BY <1>1, <1>3, <1>4, <1>5, StepsSplit

LEMMA LedgerMoves ==
  ASSUME [Next]_vars
  PROVE  \/ UNCHANGED ledger
         \/ \E failing \in SUBSET Paths : Send(failing)
         \/ \E p \in Foreign : OtherDelivers(p)
<1>1. CASE Agent
  BY <1>1 DEF Agent, StartRun, EndRun, ToolLoads, ToolStores, ToolFails, ToolWrites, ShellWrites
<1>2. CASE Syncing
  BY <1>2 DEF Syncing, Begin, Store, Scan, Finish, Load, UploadFails
<1>3. CASE Summing
  BY <1>3 DEF Summing, StepDone, Summary, Sweep, Merge, OtherWrites
<1>4. CASE Filtering
  BY <1>4 DEF Filtering, FilterFails, DropMembers, Rebuild, Fold, AutoBundle, Filtered
<1>5. CASE UNCHANGED vars
  BY <1>5 DEF vars
<1> QED BY <1>1, <1>2, <1>3, <1>4, <1>5, StepsSplit

LEMMA GivenMoves ==
  ASSUME [Next]_vars
  PROVE  UNCHANGED given \/ EndRun \/ \E p \in Foreign : OtherDelivers(p)
<1> USE DEF history
<1>1. CASE Agent
  BY <1>1 DEF Agent, StartRun, ToolLoads, ToolStores, ToolFails, ToolWrites, ShellWrites
<1>2. CASE Syncing
  BY <1>2 DEF Syncing, Begin, Store, Scan, Finish, Load, UploadFails
<1>3. CASE Summing
  BY <1>3 DEF Summing, StepDone, Summary, Sweep, Merge, Send, OtherWrites
<1>4. CASE Filtering
  BY <1>4 DEF Filtering, FilterFails, DropMembers, Rebuild, Fold, AutoBundle, Filtered
<1>5. CASE UNCHANGED vars
  BY <1>5 DEF vars
<1> QED BY <1>1, <1>2, <1>3, <1>4, <1>5, StepsSplit

LEMMA StartMoves ==
  ASSUME [Next]_vars
  PROVE  UNCHANGED start \/ StartRun
<1> USE DEF history
<1>1. CASE Agent
  BY <1>1 DEF Agent, EndRun, ToolLoads, ToolStores, ToolFails, ToolWrites, ShellWrites
<1>2. CASE Syncing
  BY <1>2 DEF Syncing, Begin, Store, Scan, Finish, Load, UploadFails
<1>3. CASE Summing
  BY <1>3 DEF Summing, StepDone, Summary, Sweep, Merge, Send, OtherWrites, OtherDelivers
<1>4. CASE Filtering
  BY <1>4 DEF Filtering, FilterFails, DropMembers, Rebuild, Fold, AutoBundle, Filtered
<1>5. CASE UNCHANGED vars
  BY <1>5 DEF vars
<1> QED BY <1>1, <1>2, <1>3, <1>4, <1>5, StepsSplit

LEMMA ClaimedMoves ==
  ASSUME [Next]_vars
  PROVE  claimed \subseteq claimed' \/ StartRun
<1> USE DEF lists
<1>1. CASE Agent
  BY <1>1 DEF Agent, EndRun, ToolLoads, ToolStores, ToolFails, ToolWrites, ShellWrites
<1>2. CASE Syncing
  BY <1>2 DEF Syncing, Begin, Store, Scan, Finish, Load, UploadFails
<1>3. CASE Summing
  BY <1>3 DEF Summing, StepDone, Summary, Sweep, Merge, Send, OtherWrites, OtherDelivers
<1>4. CASE Filtering
  BY <1>4 DEF Filtering, FilterFails, DropMembers, Rebuild, Fold, AutoBundle, Filtered
<1>5. CASE UNCHANGED vars
  BY <1>5 DEF vars
<1> QED BY <1>1, <1>2, <1>3, <1>4, <1>5, StepsSplit

LEMMA PumpMoves ==
  ASSUME [Next]_vars
  PROVE  \/ UNCHANGED pump \/ StartRun \/ EndRun \/ Sweep \/ Merge \/ Filtering
         \/ pump \in {"events", "tool"} /\ pump' \in {"events", "tool"}
         \/ \E more \in SUBSET Paths : Summary(more)
         \/ \E failing \in SUBSET Paths : Send(failing)
<1>1. CASE Agent
  BY <1>1 DEF Agent, ToolLoads, ToolStores, ToolFails, ToolWrites, ShellWrites
<1>2. CASE Syncing
  BY <1>2 DEF Syncing, Begin, Store, Scan, Finish, Load, UploadFails
<1>3. CASE Summing
  BY <1>3 DEF Summing, StepDone, OtherWrites, OtherDelivers
<1>5. CASE UNCHANGED vars
  BY <1>5 DEF vars
<1> QED BY <1>1, <1>2, <1>3, <1>5, StepsSplit

(* Only the filters, the agent and another session write.                    *)
LEMMA FilterStage ==
  ASSUME Filtering
  PROVE  /\ pump \in Stages /\ pump' = After[pump]
         /\ UNCHANGED <<ledger, loaded, lists, claimed, history>>
BY StagesNamed DEF Filtering, FilterFails, DropMembers, Rebuild, Fold, AutoBundle, Filtered, Stages

-----------------------------------------------------------------------------
(* Copies of files *)

StillCopy(p, c) ==
  c = Absent \/ /\ 0 < c.at /\ c.at <= disk'[p].at
                /\ c.at = disk'[p].at => c = disk'[p]

LEMMA HomeGrows ==
  ASSUME Types, Numbered, [Next]_vars
  PROVE  /\ \A p \in Paths : \/ disk'[p] = disk[p] /\ clock <= clock'
                             \/ disk'[p].at = clock + 1 /\ clock' = clock + 1
         /\ \A p \in Paths : /\ disk[p].at \in Nat /\ disk'[p].at \in Nat
                             /\ disk[p].at <= clock /\ disk[p].at <= disk'[p].at
         /\ clock \in Nat /\ clock' \in Nat
<1>0. Types' /\ clock \in Nat /\ clock' \in Nat
  BY TypesStep DEF Types
<1>1. \A p \in Paths : disk[p].at \in Nat /\ disk'[p].at \in Nat /\ disk[p].at <= clock
  BY <1>0 DEF Types, Files, Contents, Numbered
<1>2. CASE UNCHANGED home
  BY <1>0, <1>1, <1>2 DEF home
<1>3. ASSUME NEW q \in Paths, NEW m \in SUBSET Paths, Write(q, m)
      PROVE  /\ clock' = clock + 1 /\ disk'[q].at = clock + 1
             /\ \A p \in Paths : p # q => disk'[p] = disk[p]
  BY <1>0, <1>3, Written DEF Types
<1> QED BY <1>0, <1>1, <1>2, <1>3, HomeMoves

LEMMA CopyStays ==
  ASSUME Types, Numbered, [Next]_vars, NEW p \in Paths, NEW c \in Contents, CopyOf(p, c)
  PROVE  StillCopy(p, c)
<1>1. c.at \in Nat
  BY DEF Contents
<1> QED BY <1>1, HomeGrows DEF CopyOf, StillCopy

LEMMA DiskIsCopy ==
  ASSUME Types, Numbered, NEW p \in Paths
  PROVE  CopyOf(p, disk[p]) /\ disk[p] \in Contents
BY DEF Types, Files, Contents, Numbered, CopyOf

LEMMA UploadedStep ==
  ASSUME Types, Numbered, Copies, [Next]_vars PROVE Uploaded'
<1> SUFFICES ASSUME NEW p \in Paths PROVE CopyOf(p, written[p])'
  BY DEF Uploaded
<1>0. /\ written \in Files /\ written[p] \in Contents /\ CopyOf(p, written[p])
      /\ loaded.path \in Paths /\ loaded.got \in Contents /\ CopyOf(loaded.path, loaded.got)
  BY DEF Types, Files, Copies, Uploaded, Held
<1>1. CASE UNCHANGED written
  BY <1>0, <1>1, CopyStays DEF CopyOf, StillCopy
<1>2. CASE StartRun
  BY <1>2, FilesOf DEF StartRun, CopyOf
<1>3. CASE ToolStores
  <2>1. written'[p] = IF p = loaded.path THEN loaded.got ELSE written[p]
    BY <1>0, <1>3 DEF ToolStores, Files
  <2> QED BY <1>0, <2>1, CopyStays DEF CopyOf, StillCopy
<1>4. ASSUME NEW i \in DOMAIN syncs, Store(i) PROVE CopyOf(p, written[p])'
  <2>1. /\ syncs[i].path \in Paths /\ syncs[i].got \in Contents
        /\ CopyOf(syncs[i].path, syncs[i].got)
    BY SyncOf DEF Types, Copies, InSyncs
  <2>2. written'[p] = IF p = syncs[i].path THEN syncs[i].got ELSE written[p]
    BY <1>0, <1>4, <2>1 DEF Store, Files
  <2> QED BY <1>0, <2>1, <2>2, CopyStays DEF CopyOf, StillCopy
<1> QED BY <1>1, <1>2, <1>3, <1>4, WrittenMoves

LEMMA HeldStep ==
  ASSUME Types, Numbered, Copies, [Next]_vars PROVE Held'
<1>0. loaded.path \in Paths /\ loaded.got \in Contents /\ CopyOf(loaded.path, loaded.got)
  BY DEF Types, Copies, Held
<1>1. CASE UNCHANGED loaded
  BY <1>0, <1>1, CopyStays DEF CopyOf, StillCopy, Held
<1>2. CASE EndRun \/ ToolStores \/ ToolFails
  BY <1>2 DEF EndRun, ToolStores, ToolFails, Idle, CopyOf, Held
<1>3. CASE ToolLoads
  <2>1. loaded'.path = loaded.path /\ loaded'.got = disk[loaded.path] /\ UNCHANGED disk
    BY <1>3 DEF ToolLoads, home, Types
  <2>2. CopyOf(loaded.path, disk[loaded.path])
    BY <1>0, DiskIsCopy
  <2> QED BY <2>1, <2>2 DEF CopyOf, Held
<1>4. ASSUME NEW p \in ToolFiles, ToolWrites(p) PROVE Held'
  BY <1>4 DEF ToolWrites, CopyOf, Held
<1> QED BY <1>1, <1>2, <1>3, <1>4, LoadedMoves

LEMMA InSyncsStep ==
  ASSUME Types, Numbered, Copies, [Next]_vars PROVE InSyncs'
<1>0. /\ syncs \in Seq(SyncTypes) /\ disk \in Files /\ pending \subseteq Paths
      /\ Bundle \in Paths /\ disk \in [Paths -> Contents]
      /\ \A i \in DOMAIN syncs : /\ CopyOf(syncs[i].path, syncs[i].got)
                                 /\ syncs[i].path \in Paths /\ syncs[i].got \in Contents
  BY SyncOf, FilesOf DEF Types, Copies, InSyncs, Files
<1>01. \A i \in DOMAIN syncs : StillCopy(syncs[i].path, syncs[i].got)
  BY <1>0, CopyStays
<1>1. CASE UNCHANGED syncs
  BY <1>01, <1>1 DEF CopyOf, StillCopy, InSyncs
<1>2. CASE StartRun \/ EndRun
  BY <1>2 DEF StartRun, EndRun, InSyncs
<1>3. CASE Sweep
  BY <1>0, <1>01, <1>3, SweepFields DEF CopyOf, StillCopy, InSyncs
<1>4. ASSUME NEW claims \in SUBSET Paths, StepDone(claims) PROVE InSyncs'
  BY <1>0, <1>01, <1>4, StepDoneFields DEF CopyOf, StillCopy, InSyncs
<1>5. ASSUME NEW i \in DOMAIN syncs, Others(i), StillCopy(syncs'[i].path, syncs'[i].got)
      PROVE  InSyncs'
  BY <1>01, <1>5 DEF CopyOf, StillCopy, InSyncs, Others
<1>6. ASSUME NEW i \in DOMAIN syncs, Begin(i) \/ Scan(i) \/ Finish(i) PROVE InSyncs'
  <2>1. Others(i) /\ syncs'[i].path = syncs[i].path /\ syncs'[i].got = syncs[i].got
    BY <1>0, <1>6, BeginFields, ScanFields, FinishFields
  <2> QED BY <1>01, <1>5, <2>1
<1>7. ASSUME NEW i \in DOMAIN syncs, Store(i) PROVE InSyncs'
  <2>1. Others(i) /\ syncs'[i].got = Absent
    BY <1>0, <1>7, StoreFields
  <2> QED BY <1>5, <2>1 DEF StillCopy
<1>8. ASSUME NEW i \in DOMAIN syncs, NEW p \in Paths, Load(i, p) PROVE InSyncs'
  <2>1. Others(i) /\ syncs'[i].path = p /\ syncs'[i].got = disk[p]
    BY <1>0, <1>8, LoadFields
  <2>2. StillCopy(p, disk[p])
    BY DiskIsCopy, CopyStays
  <2> QED BY <1>5, <2>1, <2>2
<1>9. ASSUME NEW i \in DOMAIN syncs, NEW p \in Paths, UploadFails(i, p) PROVE InSyncs'
  <2>1. Others(i) /\ syncs'[i].path = syncs[i].path /\ syncs'[i].got = syncs[i].got
    BY <1>0, <1>9, UploadFailsFields
  <2> QED BY <1>01, <1>5, <2>1
<1>10. CASE Syncing
  BY <1>6, <1>7, <1>8, <1>9, <1>10 DEF Syncing
<1> QED BY <1>1, <1>2, <1>3, <1>4, <1>10, SyncsMove

LEMMA FilteredHome ==
  ASSUME Types, Filtering
  PROVE  /\ UNCHANGED home \/ \E z \in Archives, m \in SUBSET Paths : Write(z, m)
         /\ \A p \in Paths : cards'[p] \in {cards[p], Absent, Fresh}
<1> USE DEF home, Types
<1>1. Loose \subseteq Paths /\ There \subseteq Paths /\ Zips \subseteq Archives \cap Paths
  BY DEF Loose, There, Zips, Carded
<1>2. \A z \in Paths : Members(z) \subseteq Paths
  BY DEF Members, Files, Contents
<1>3. CASE FilterFails
  BY <1>3 DEF FilterFails
<1>4. CASE DropMembers
  BY <1>4 DEF DropMembers
<1>5. CASE Rebuild
  BY <1>1, <1>2, <1>5 DEF Rebuild, Files
<1>6. CASE Fold
  <2>1. \A z \in Zips : Folded(z) \subseteq Paths
    BY <1>1, <1>2 DEF Folded
  <2> QED BY <1>1, <1>6, <2>1 DEF Fold
<1>7. CASE AutoBundle
  BY <1>1, <1>7, PathsAreKnown DEF AutoBundle
<1> QED BY <1>3, <1>4, <1>5, <1>6, <1>7 DEF Filtering

(* What the message of the summary holds when it is sent.                    *)
LEMMA SentCards ==
  ASSUME Types, NEW failing \in SUBSET Paths, Send(failing)
  PROVE  /\ \A p \in Paths : cards'[p] = IF cards[p] # Fresh THEN cards[p]
                                         ELSE IF p \in failing THEN Absent ELSE disk[p]
         /\ \A p \in Paths : cards'[p] # Absent => <<p, cards'[p].at>> \in ledger'
         /\ ledger \subseteq ledger'
         /\ \A e \in ledger' : e \in ledger \/ \E p \in Paths : e = <<p, cards'[p].at>>
                                                                /\ cards'[p] # Absent
         /\ failing \subseteq {p \in Paths : cards[p] = Fresh}
         /\ pump = "send" /\ pump' = "sent"
         /\ missed' = missed \cup failing \cup UNION {Members(z) : z \in failing}
         /\ UNCHANGED <<home, loaded, lists, claimed, start, given>>
BY DEF Send

LEMMA ListedStep ==
  ASSUME Types, Numbered, Copies, [Next]_vars PROVE Listed'
<1> SUFFICES ASSUME NEW p \in Paths PROVE (CopyOf(p, cards[p]) \/ (cards[p] = Fresh /\ ~Sent))'
  BY DEF Listed
<1>0. /\ cards \in Files /\ cards[p] \in Contents /\ written[p] \in Contents
      /\ CopyOf(p, cards[p]) \/ (cards[p] = Fresh /\ ~Sent)
      /\ StillCopy(p, written[p]) /\ (CopyOf(p, cards[p]) => StillCopy(p, cards[p]))
  BY CopyStays DEF Types, Files, Copies, Listed, Uploaded
<1>1. CASE UNCHANGED cards
  <2>1. Sent' => Sent \/ \E failing \in SUBSET Paths : Send(failing)
    BY PumpMoves, FilterStage, StagesNamed
       DEF Sent, StartRun, EndRun, Sweep, Merge, Summary, Stages
  <2>2. ASSUME NEW failing \in SUBSET Paths, Send(failing) PROVE cards'[p] # Fresh
    BY <1>1, <2>2, SentCards, DiskIsCopy, FilesOf DEF CopyOf, Absent, Fresh
  <2> QED BY <1>0, <1>1, <2>1, <2>2 DEF CopyOf, StillCopy
<1>2. CASE EndRun
  BY <1>2, FilesOf DEF EndRun, CopyOf
<1>3. CASE Merge
  BY <1>0, <1>3 DEF Merge, Merged, Sent, CopyOf, StillCopy
<1>4. CASE Filtering
  <2>1. ~Sent'
    BY <1>4, FilterStage, StagesNamed DEF Sent, Stages
  <2> QED BY <1>0, <1>4, <2>1, FilteredHome DEF CopyOf, StillCopy
<1>5. ASSUME NEW more \in SUBSET Paths, Summary(more)
      PROVE  (CopyOf(p, cards[p]) \/ (cards[p] = Fresh /\ ~Sent))'
  BY <1>5 DEF Summary, CopyOf, Sent
<1>6. ASSUME NEW failing \in SUBSET Paths, Send(failing)
      PROVE  (CopyOf(p, cards[p]) \/ (cards[p] = Fresh /\ ~Sent))'
  <2>1. cards'[p] \in {cards[p], Absent, disk[p]} /\ (cards'[p] = cards[p] => CopyOf(p, cards[p]) \/ cards[p] = disk[p])
    BY <1>0, <1>6, SentCards, DiskIsCopy, FilesOf DEF CopyOf, Absent, Fresh
  <2>2. StillCopy(p, disk[p])
    BY DiskIsCopy, CopyStays
  <2> QED BY <1>0, <2>1, <2>2, CopyStays DEF CopyOf, StillCopy
<1> QED BY <1>1, <1>2, <1>3, <1>4, <1>5, <1>6, CardsMoves

LEMMA NumberedStep ==
  ASSUME Types, Numbered, Copies, [Next]_vars PROVE Numbered'
<1>0. /\ \A p \in Paths : disk[p].at \in Nat /\ cards[p].at \in Nat /\ start[p] \in Nat
      /\ start \in [Paths -> Nat]
  BY DEF Types, Files, Contents
<1>1. \A p \in Paths : disk'[p].at <= clock' /\ (disk'[p].at = 0 => disk'[p] = Absent)
  BY HomeGrows DEF Numbered
<1>2. \A p \in Paths : start'[p] <= disk'[p].at
  <2>1. CASE UNCHANGED start
    BY <1>0, <2>1, HomeGrows DEF Numbered
  <2>2. CASE StartRun
    BY <1>0, <2>2 DEF StartRun, Sizes, home
  <2> QED BY <2>1, <2>2, StartMoves
<1>3. \A e \in ledger' : e[2] <= disk'[e[1]].at
  <2>1. \A e \in ledger : e[1] \in Paths /\ e[2] \in Nat
    BY DEF Types
  <2>2. \A e \in ledger : e[2] <= disk'[e[1]].at
    BY <2>1, HomeGrows DEF Numbered
  <2>3. ASSUME NEW failing \in SUBSET Paths, Send(failing), NEW p \in Paths, cards'[p] # Absent
        PROVE  cards'[p].at <= disk'[p].at
    <3>1. CopyOf(p, cards[p])'
      BY <2>3, ListedStep DEF Listed, Sent, Send
    <3> QED BY <2>3, <3>1 DEF CopyOf
  <2>4. ASSUME NEW failing \in SUBSET Paths, Send(failing), NEW e \in ledger'
        PROVE  e[2] <= disk'[e[1]].at
    BY <2>2, <2>3, <2>4, SentCards
  <2>5. ASSUME NEW p \in Foreign, OtherDelivers(p), NEW e \in ledger'
        PROVE  e[2] <= disk'[e[1]].at
    <3>1. p \in Paths /\ (e \in ledger \/ e = <<p, disk[p].at>>)
      BY <2>5, PathsAreKnown DEF OtherDelivers
    <3> QED BY <1>0, <2>2, <3>1, HomeGrows
  <2> QED BY <2>2, <2>4, <2>5, LedgerMoves
<1>4. ledger \subseteq ledger'
  BY LedgerMoves, SentCards DEF OtherDelivers
<1>5. given' \subseteq ledger'
  <2>1. CASE EndRun
    BY <1>4, <2>1 DEF EndRun, Numbered, Sent
  <2>2. ASSUME NEW p \in Foreign, OtherDelivers(p) PROVE given' \subseteq ledger'
    BY <2>2 DEF OtherDelivers, Numbered
  <2> QED BY <1>4, <2>1, <2>2, GivenMoves DEF Numbered
<1>6. ASSUME Sent', NEW p \in Paths, cards'[p] # Absent PROVE <<p, cards'[p].at>> \in ledger'
  <2>1. ASSUME NEW failing \in SUBSET Paths, Send(failing)
        PROVE <<p, cards'[p].at>> \in ledger'
    BY <1>6, <2>1, SentCards
  <2>2. Sent \/ \E failing \in SUBSET Paths : Send(failing)
    BY <1>6, PumpMoves, FilterStage, StagesNamed
       DEF Sent, StartRun, EndRun, Sweep, Merge, Summary, Stages
  <2>3. CASE Sent
    <3>1. UNCHANGED cards
      BY <1>6, <2>3, CardsMoves, FilterStage DEF Sent, EndRun, Merge, Summary, Send, Stages
    <3> QED BY <1>4, <1>6, <2>3, <3>1 DEF Numbered, Carded
  <2> QED BY <2>1, <2>2, <2>3
<1> QED BY <1>1, <1>2, <1>3, <1>5, <1>6 DEF Numbered, Carded

LEMMA CopiesStep == Types /\ Numbered /\ Copies /\ [Next]_vars => Copies'
BY UploadedStep, ListedStep, HeldStep, InSyncsStep DEF Copies

-----------------------------------------------------------------------------
(* The chain of the syncs *)

LEMMA SyncingFrame ==
  ASSUME NEW i, \/ Begin(i) \/ Store(i) \/ Scan(i) \/ Finish(i)
                \/ \E p \in Paths : Load(i, p) \/ UploadFails(i, p)
  PROVE  UNCHANGED <<home, ledger, pump, loaded, claimed, cards, start, given>>
BY DEF Begin, Store, Scan, Finish, Load, UploadFails, home, history

(* The sync that takes the step.                                             *)
LEMMA ActsChained ==
  ASSUME Types, Chain, NEW i \in DOMAIN syncs,
         \/ Begin(i) \/ Store(i) \/ Scan(i) \/ Finish(i)
         \/ \E p \in Paths : Load(i, p) \/ UploadFails(i, p)
  PROVE  /\ Others(i) /\ Chained(i)' /\ pump \notin Late
         /\ pump = "sweep" => i = Len(syncs)
<1>0. /\ syncs \in Seq(SyncTypes) /\ disk \in [Paths -> Contents] /\ pending \subseteq Paths
      /\ Bundle \in Paths /\ Chained(i)
      /\ syncs[i].at \in {"waits", "claims", "sweeps", "done"}
  BY FilesOf, SyncOf DEF Types, Files, Chain
<1>1. UNCHANGED <<pump, claimed>>
  BY SyncingFrame
<1>2. syncs[i].at # "done"
  BY <1>0 DEF Begin, Store, Scan, Finish, Load, UploadFails, Chained
<1>3. pump \notin Late /\ (pump = "sweep" => i = Len(syncs))
  BY <1>0, <1>2 DEF Chained
<1>4. CASE Begin(i)
  <2>1. /\ Others(i) /\ syncs'[i].at = "claims" /\ syncs'[i].todo = syncs[i].todo
        /\ syncs'[i].path = syncs[i].path /\ syncs'[i].got = syncs[i].got
    BY <1>0, <1>4, BeginFields
  <2> QED BY <1>0, <1>1, <1>3, <1>4, <2>1 DEF Begin, Chained, Uploading, Others
<1>5. CASE Store(i)
  <2>1. /\ Others(i) /\ syncs'[i].at = syncs[i].at /\ syncs'[i].todo = syncs[i].todo
        /\ syncs'[i].got = Absent
    BY <1>0, <1>5, StoreFields
  <2> QED BY <1>0, <1>1, <1>2, <1>3, <2>1 DEF Chained, Uploading, Others
<1>6. CASE Scan(i)
  <2>1. Others(i) /\ syncs'[i].at = "sweeps"
    BY <1>0, <1>6, ScanFields
  <2> QED BY <1>1, <1>3, <2>1 DEF Chained, Others
<1>7. CASE Finish(i)
  <2>1. /\ Others(i) /\ syncs'[i].at = "done" /\ syncs'[i].todo = syncs[i].todo
        /\ syncs'[i].got = syncs[i].got
    BY <1>0, <1>7, FinishFields
  <2> QED BY <1>1, <1>3, <1>7, <2>1 DEF Finish, Chained, Uploading, Others
<1>8. ASSUME NEW p \in Paths, Load(i, p) PROVE Others(i) /\ Chained(i)'
  <2>1. /\ Others(i) /\ syncs'[i].at = syncs[i].at /\ syncs'[i].todo = syncs[i].todo \ {p}
        /\ syncs'[i].path = p
    BY <1>0, <1>8, LoadFields
  <2>2. syncs[i].at \in {"claims", "sweeps"} /\ p \in syncs[i].todo
    BY <1>8 DEF Load
  <2> QED BY <1>0, <1>1, <1>3, <2>1, <2>2 DEF Chained, Others
<1>9. ASSUME NEW p \in Paths, UploadFails(i, p) PROVE Others(i) /\ Chained(i)'
  <2>1. /\ Others(i) /\ syncs'[i].at = syncs[i].at /\ syncs'[i].todo = syncs[i].todo \ {p}
        /\ syncs'[i].path = syncs[i].path /\ syncs'[i].got = syncs[i].got
    BY <1>0, <1>9, UploadFailsFields
  <2> QED BY <1>0, <1>1, <1>2, <1>3, <2>1 DEF Chained, Uploading, Others
<1> QED BY <1>3, <1>4, <1>5, <1>6, <1>7, <1>8, <1>9

LEMMA ChainedStep ==
  ASSUME Types, Chain, [Next]_vars PROVE \A i \in DOMAIN syncs' : Chained(i)'
<1> SUFFICES ASSUME NEW i \in DOMAIN syncs' PROVE Chained(i)'
  OBVIOUS
<1>0. /\ syncs \in Seq(SyncTypes) /\ Bundle \in Paths
      /\ \A j \in DOMAIN syncs : Chained(j)
  BY FilesOf DEF Types, Chain
<1>1. CASE UNCHANGED syncs
  <2>1. Chained(i) /\ i \in DOMAIN syncs /\ Len(syncs') = Len(syncs)
    BY <1>0, <1>1
  <2>2. claimed \subseteq claimed'
    <3>1. ASSUME StartRun PROVE FALSE
      BY <1>1, <2>1, <3>1 DEF StartRun
    <3> QED BY <3>1, ClaimedMoves
  <2>3. pump' \in Late => syncs[i].at = "done"
    <3>1. CASE pump \in Late
      BY <2>1, <3>1 DEF Chained
    <3>2. CASE Merge
      <4>1. syncs[Len(syncs)].at = "done" /\ pump = "sweep"
        BY <3>2 DEF Merge
      <4> QED BY <2>1, <4>1 DEF Chained
    <3>3. CASE Filtering
      BY <2>1, <3>3, FilterStage, StagesNamed DEF Late, Stages, Chained
    <3>4. pump' \in Late => pump \in Late \/ Merge \/ Filtering
      BY PumpMoves DEF Late, StartRun, EndRun, Sweep, Summary, Send
    <3> QED BY <3>1, <3>2, <3>3, <3>4
  <2>4. pump' = "sweep" => pump = "sweep"
    <3>1. ASSUME Sweep PROVE FALSE
      BY <1>0, <1>1, <3>1, SweepFields
    <3> QED BY <3>1, PumpMoves, FilterStage, StagesNamed
            DEF StartRun, EndRun, Merge, Summary, Send, Stages
  <2> QED BY <1>1, <2>1, <2>2, <2>3, <2>4 DEF Chained, Uploading
<1>2. CASE StartRun \/ EndRun
  BY <1>2 DEF StartRun, EndRun
<1>3. CASE Syncing
  <2>1. PICK j \in DOMAIN syncs : \/ Begin(j) \/ Store(j) \/ Scan(j) \/ Finish(j)
                                  \/ \E p \in Paths : Load(j, p) \/ UploadFails(j, p)
    BY <1>3 DEF Syncing
  <2>2. Others(j) /\ Chained(j)' /\ UNCHANGED <<pump, claimed>>
    BY <2>1, ActsChained, SyncingFrame
  <2>3. CASE i = j
    BY <2>2, <2>3
  <2>4. CASE i # j
    <3>1. i \in DOMAIN syncs /\ syncs'[i] = syncs[i] /\ Len(syncs') = Len(syncs) /\ Chained(i)
      BY <1>0, <2>2, <2>4 DEF Others
    <3> QED BY <2>2, <3>1 DEF Chained, Uploading
  <2> QED BY <2>3, <2>4
<1>4. CASE Sweep
  <2>1. /\ Len(syncs') = Len(syncs) + 1 /\ DOMAIN syncs' = DOMAIN syncs \cup {Len(syncs')}
        /\ \A j \in DOMAIN syncs : j # Len(syncs') /\ syncs'[j] = syncs[j]
        /\ syncs'[Len(syncs')].at = "claims" /\ syncs'[Len(syncs')].todo = {}
        /\ syncs'[Len(syncs')].got = Absent
    BY <1>0, <1>4, SweepFields
  <2>2. pump' = "sweep" /\ \A j \in DOMAIN syncs : syncs[j].at = "done"
    BY <1>4 DEF Sweep, Awaited
  <2>3. CASE i = Len(syncs')
    BY <2>1, <2>2, <2>3 DEF Chained, Uploading, Late
  <2>4. CASE i # Len(syncs')
    <3>1. i \in DOMAIN syncs /\ syncs'[i] = syncs[i] /\ syncs[i].at = "done" /\ Chained(i)
      BY <1>0, <2>1, <2>2, <2>4
    <3> QED BY <2>2, <3>1 DEF Chained, Uploading, Late
  <2> QED BY <2>3, <2>4
<1>5. ASSUME NEW claims \in SUBSET Paths, StepDone(claims) PROVE Chained(i)'
  <2>1. /\ Len(syncs') = Len(syncs) + 1 /\ DOMAIN syncs' = DOMAIN syncs \cup {Len(syncs')}
        /\ \A j \in DOMAIN syncs : j # Len(syncs') /\ syncs'[j] = syncs[j]
        /\ syncs'[Len(syncs')].at = "waits" /\ syncs'[Len(syncs')].todo = claims
        /\ syncs'[Len(syncs')].got = Absent
    BY <1>0, <1>5, StepDoneFields
  <2>2. pump' = "events" /\ claimed' = claimed \cup claims
    BY <1>5 DEF StepDone
  <2>3. CASE i = Len(syncs')
    BY <2>1, <2>2, <2>3 DEF Chained, Uploading, Late
  <2>4. CASE i # Len(syncs')
    <3>1. i \in DOMAIN syncs /\ syncs'[i] = syncs[i] /\ Chained(i)
      BY <1>0, <2>1, <2>4
    <3> QED BY <2>2, <3>1 DEF Chained, Uploading, Late
  <2> QED BY <2>3, <2>4
<1> QED BY <1>1, <1>2, <1>3, <1>4, <1>5, SyncsMove

(* The uploaded copies change only before the merge.                         *)
LEMMA WrittenLate ==
  ASSUME Types, Chain, [Next]_vars, pump \in Late PROVE UNCHANGED written
<1>1. ASSUME NEW i \in DOMAIN syncs, Store(i) PROVE FALSE
  BY <1>1, ActsChained
<1> QED BY <1>1, WrittenMoves DEF StartRun, ToolStores, Late

LEMMA ToolStarts ==
  ASSUME [Next]_vars, pump' = "tool"
  PROVE  pump = "tool" \/ \E p \in ToolFiles : ToolWrites(p)
<1>1. CASE Agent
  BY <1>1 DEF Agent, StartRun, EndRun, ToolLoads, ToolStores, ToolFails, ShellWrites
<1>2. CASE Syncing
  BY <1>2, SyncingFrame DEF Syncing
<1>3. CASE Summing
  BY <1>3 DEF Summing, StepDone, Summary, Sweep, Merge, Send, OtherWrites, OtherDelivers
<1>4. CASE Filtering
  BY <1>4, FilterStage, StagesNamed DEF Stages
<1> QED BY <1>1, <1>2, <1>3, <1>4, StepsSplit DEF vars

LEMMA ChainStep ==
  ASSUME Types, Copies, Chain, [Next]_vars PROVE Chain'
<1>1. \A i \in DOMAIN syncs' : Chained(i)'
  BY ChainedStep
<1>2. pump' = "none" => syncs' = <<>> /\ cards' = Nothing
  <2>1. CASE EndRun
    BY <2>1 DEF EndRun
  <2>2. CASE pump = "none" /\ pump' = "none"
    <3>1. syncs = <<>> /\ cards = Nothing
      BY <2>2 DEF Chain
    <3>2. UNCHANGED syncs
      BY <2>2, <3>1, SyncsMove DEF StartRun, EndRun, Syncing, Sweep, StepDone
    <3>3. UNCHANGED cards
      BY <2>2, CardsMoves, FilterStage DEF EndRun, Merge, Summary, Send, Stages
    <3> QED BY <3>1, <3>2, <3>3
  <2>3. pump' = "none" => EndRun \/ pump = "none"
    BY PumpMoves, FilterStage, StagesNamed DEF StartRun, Sweep, Merge, Summary, Send, Stages
  <2> QED BY <2>1, <2>2, <2>3
<1>3. pump' = "sweep" => Len(syncs') > 0
  <2>0. syncs \in Seq(SyncTypes) /\ Bundle \in Paths /\ Len(syncs) \in Nat
    BY FilesOf DEF Types
  <2>1. CASE Sweep
    BY <2>0, <2>1, SweepFields
  <2>2. CASE pump = "sweep" /\ pump' = "sweep"
    <3>1. Len(syncs') = Len(syncs)
      BY <2>2, SyncsMove, ActsChained DEF StartRun, EndRun, Sweep, StepDone, Syncing, Others
    <3> QED BY <2>2, <3>1 DEF Chain
  <2>3. pump' = "sweep" => Sweep \/ pump = "sweep"
    BY PumpMoves, FilterStage, StagesNamed DEF StartRun, EndRun, Merge, Summary, Send, Stages
  <2> QED BY <2>1, <2>2, <2>3
<1>4. pump' = "tool" => loaded'.path \in ToolFiles
  <2>1. ASSUME NEW p \in ToolFiles, ToolWrites(p) PROVE loaded'.path \in ToolFiles
    BY <2>1 DEF ToolWrites
  <2>2. CASE UNCHANGED loaded
    <3>1. pump' = "tool" => pump = "tool" \/ \E p \in ToolFiles : ToolWrites(p)
      BY ToolStarts
    <3> QED BY <2>1, <2>2, <3>1 DEF Chain
  <2>3. CASE ToolLoads
    <3>1. loaded'.path = loaded.path /\ pump = "tool"
      BY <2>3 DEF ToolLoads, Types
    <3> QED BY <3>1 DEF Chain
  <2>4. CASE EndRun \/ ToolStores \/ ToolFails
    BY <2>4 DEF EndRun, ToolStores, ToolFails
  <2> QED BY <2>1, <2>2, <2>3, <2>4, LoadedMoves
<1>5. ASSUME NEW p \in Paths, cards'[p] # Absent, p \notin claimed' \cup Archives
      PROVE  pump' \in Late /\ cards'[p] = written'[p]
  <2>1. CASE UNCHANGED cards
    <3>1. p \notin claimed \/ StartRun
      BY <1>5, ClaimedMoves
    <3>2. ASSUME StartRun PROVE FALSE
      BY <1>5, <2>1, <3>2, FilesOf DEF StartRun, Chain
    <3>3. pump \in Late /\ cards[p] = written[p]
      BY <1>5, <2>1, <3>1, <3>2 DEF Chain, Carded
    <3>4. ASSUME EndRun PROVE FALSE
      BY <1>5, <3>4, FilesOf DEF EndRun
    <3>5. pump' \in Late
      BY <3>2, <3>3, <3>4, PumpMoves, FilterStage, StagesNamed
         DEF Late, Sweep, Merge, Summary, Send, Stages
    <3> QED BY <2>1, <3>3, <3>5, WrittenLate
  <2>2. CASE EndRun
    BY <1>5, <2>2, FilesOf DEF EndRun
  <2>3. CASE Merge
    <3>1. p \notin claimed /\ pump = "sweep" /\ pump' = "members" /\ UNCHANGED written
      BY <1>5, <2>3 DEF Merge, lists
    <3>2. cards[p] = Absent
      BY <1>5, <3>1 DEF Chain, Carded, Late
    <3> QED BY <2>3, <3>1, <3>2 DEF Merge, Merged, Late
  <2>4. CASE Filtering
    <3>1. UNCHANGED <<claimed, written>> /\ pump \in Stages /\ pump' = After[pump]
      BY <2>4, FilterStage DEF lists
    <3>2. cards'[p] = cards[p]
      <4>1. ASSUME cards'[p] = Fresh PROVE cards'[p] = cards[p]
        <5>1. CASE Rebuild
          BY <1>5, <5>1 DEF Rebuild, Zips, Types, Files
        <5>2. CASE AutoBundle
          BY <1>5, <5>2, PathsAreKnown, FilesOf DEF AutoBundle, Types, Files
        <5>3. CASE FilterFails \/ DropMembers \/ Fold
          BY <1>5, <4>1, <5>3, FilesOf DEF FilterFails, DropMembers, Fold
        <5> QED BY <2>4, <5>1, <5>2, <5>3 DEF Filtering
      <4> QED BY <1>5, <2>4, <4>1, FilteredHome
    <3>3. pump \in Late /\ cards[p] = written[p]
      BY <1>5, <3>1, <3>2 DEF Chain, Carded
    <3> QED BY <3>1, <3>2, <3>3, StagesNamed DEF Late, Stages
  <2>5. ASSUME NEW more \in SUBSET Paths, Summary(more) PROVE FALSE
    BY <1>5, <2>5 DEF Summary
  <2>6. ASSUME NEW failing \in SUBSET Paths, Send(failing)
        PROVE  pump' \in Late /\ cards'[p] = written'[p]
    <3>1. UNCHANGED <<written, claimed>> /\ pump' = "sent"
      BY <2>6 DEF Send, lists
    <3>2. cards[p] # Absent
      BY <1>5, <2>6, SentCards, FilesOf
    <3>3. cards[p] = written[p]
      BY <1>5, <3>1, <3>2 DEF Chain, Carded
    <3>4. cards[p] # Fresh
      BY <3>3, FilesOf DEF Copies, Uploaded, CopyOf, Fresh
    <3> QED BY <1>5, <2>6, <3>1, <3>3, <3>4, SentCards DEF Late
  <2> QED BY <2>1, <2>2, <2>3, <2>4, <2>5, <2>6, CardsMoves
<1> QED BY <1>1, <1>2, <1>3, <1>4, <1>5 DEF Chain, Carded

LEMMA InitInv == Init => Inv
<1> SUFFICES ASSUME Init PROVE Inv
  OBVIOUS
<1>1. Types
  BY InitTypes
<1>2. Numbered
  BY FilesOf DEF Init, Numbered, Absent, Sent
<1>3. Copies
  BY FilesOf DEF Init, Copies, Uploaded, Listed, Held, InSyncs, CopyOf, Idle
<1>4. Chain
  BY FilesOf DEF Init, Chain, Carded
<1> QED BY <1>1, <1>2, <1>3, <1>4 DEF Inv

LEMMA InvStep == Inv /\ [Next]_vars => Inv'
BY TypesStep, NumberedStep, CopiesStep, ChainStep DEF Inv

-----------------------------------------------------------------------------
(* The sizes the scans compare *)

(* A run goes on from step to step.                                          *)
LEMMA RunGoesOn ==
  ASSUME [Next]_vars, pump' # "none", ~StartRun
  PROVE  /\ pump # "none" /\ start' = start /\ claimed \subseteq claimed'
         /\ Sent => Sent'
<1>1. ASSUME Filtering PROVE pump \notin {"none", "sent"}
  BY <1>1, FilterStage DEF Stages
<1>2. ASSUME NEW S, Summary(S) \/ Send(S) PROVE pump \in {"events", "send"}
  BY <1>2 DEF Summary, Send
<1>3. ~EndRun /\ (Sweep => pump = "await") /\ (Merge => pump = "sweep")
  BY DEF EndRun, Sweep, Merge
<1>4. pump \notin {"none", "sent"} \/ UNCHANGED pump
  BY <1>1, <1>2, <1>3, PumpMoves
<1> QED BY <1>4, StartMoves, ClaimedMoves DEF Sent

LEMMA BaselineMoves ==
  ASSUME [Next]_vars
  PROVE  UNCHANGED baseline \/ StartRun \/ \E i \in DOMAIN syncs : Store(i)
<1> USE DEF lists
<1>1. CASE Agent
  BY <1>1 DEF Agent, EndRun, ToolLoads, ToolStores, ToolFails, ToolWrites, ShellWrites
<1>2. CASE Syncing
  BY <1>2 DEF Syncing, Begin, Scan, Finish, Load, UploadFails
<1>3. CASE Summing
  BY <1>3 DEF Summing, StepDone, Summary, Sweep, Merge, Send, OtherWrites, OtherDelivers
<1>4. CASE Filtering
  BY <1>4 DEF Filtering, FilterFails, DropMembers, Rebuild, Fold, AutoBundle, Filtered
<1>5. CASE UNCHANGED vars
  BY <1>5 DEF vars
<1> QED BY <1>1, <1>2, <1>3, <1>4, <1>5, StepsSplit

LEMMA StoreMakes ==
  ASSUME Inv, NEW i \in DOMAIN syncs, Store(i)
  PROVE  /\ syncs[i].path \in Paths /\ syncs[i].got # Absent /\ syncs[i].got.at \in Nat
         /\ 0 < syncs[i].got.at /\ syncs[i].got.at <= disk[syncs[i].path].at
         /\ \A p \in Paths : written'[p] = IF p = syncs[i].path THEN syncs[i].got ELSE written[p]
         /\ \A p \in Paths : p # syncs[i].path => baseline'[p] = baseline[p]
         /\ \/ syncs[i].at = "sweeps"
               /\ baseline'[syncs[i].path] = (IF syncs[i].found[syncs[i].path] = 0
                                              THEN syncs[i].got.at
                                              ELSE syncs[i].found[syncs[i].path])
            \/ syncs[i].path \in claimed /\ baseline' = baseline
<1>1. /\ syncs[i].path \in Paths /\ syncs[i].got \in Contents /\ syncs[i].got # Absent
      /\ syncs[i].at \in {"waits", "claims", "sweeps", "done"}
      /\ CopyOf(syncs[i].path, syncs[i].got) /\ Chained(i) /\ Uploading(i)
      /\ written \in Files /\ baseline \in [Paths -> Nat]
  BY SyncOf DEF Inv, Types, Copies, InSyncs, Chain, Store, Uploading
<1>2. \A p \in Paths : written'[p] = IF p = syncs[i].path THEN syncs[i].got ELSE written[p]
  BY <1>1 DEF Store, Files
<1>3. CASE syncs[i].at = "sweeps"
  BY <1>1, <1>2, <1>3 DEF Store, CopyOf, Contents
<1>4. CASE syncs[i].at # "sweeps"
  BY <1>1, <1>2, <1>4 DEF Store, CopyOf, Contents, Chained
<1> QED BY <1>3, <1>4

LEMMA UploadsStay ==
  ASSUME Inv, [Next]_vars, ~StartRun, NEW p \in Paths, written[p] # Absent
  PROVE  written'[p] # Absent
<1>1. CASE ToolStores
  BY <1>1 DEF ToolStores, Inv, Types, Files
<1>2. ASSUME NEW i \in DOMAIN syncs, Store(i) PROVE written'[p] # Absent
  BY <1>2, StoreMakes
<1> QED BY <1>1, <1>2, WrittenMoves

LEMMA ComparedStep ==
  ASSUME Inv, Compared, [Next]_vars, pump' # "none", ~StartRun PROVE Compared'
<1>0. /\ start' = start
      /\ \A p \in Paths : /\ baseline[p] \in Nat /\ start[p] \in Nat /\ disk[p].at \in Nat
                          /\ disk'[p].at \in Nat /\ disk[p].at <= disk'[p].at
                          /\ start[p] <= baseline[p] /\ baseline[p] <= disk[p].at
                          /\ start[p] <= disk[p].at
      /\ syncs \in Seq(SyncTypes) /\ Bundle \in Paths /\ disk \in [Paths -> Contents]
      /\ pending \subseteq Paths
  BY RunGoesOn, HomeGrows, FilesOf DEF Inv, Types, Compared, Numbered, Files
<1>1. \A p \in Paths : start'[p] <= baseline'[p] /\ baseline'[p] <= disk'[p].at
  <2>1. CASE UNCHANGED baseline
    BY <1>0, <2>1
  <2>2. ASSUME NEW i \in DOMAIN syncs, Store(i), NEW p \in Paths
        PROVE  start'[p] <= baseline'[p] /\ baseline'[p] <= disk'[p].at
    <3>1. syncs[i].at = "sweeps" =>
            /\ start[syncs[i].path] <= syncs[i].found[syncs[i].path]
            /\ syncs[i].found[syncs[i].path] <= disk[syncs[i].path].at
            /\ syncs[i].found[syncs[i].path] \in Nat
      BY <1>0, <2>2, StoreMakes, SyncOf DEF Compared
    <3> QED BY <1>0, <2>2, <3>1, StoreMakes
  <2> QED BY <2>1, <2>2, BaselineMoves
<1>2. \A p \in Paths : baseline'[p] # start'[p] => written'[p] # Absent
  <2>1. CASE UNCHANGED baseline
    BY <1>0, <2>1, UploadsStay DEF Compared
  <2>2. ASSUME NEW i \in DOMAIN syncs, Store(i), NEW p \in Paths, baseline'[p] # start'[p]
        PROVE  written'[p] # Absent
    BY <1>0, <2>2, StoreMakes, UploadsStay DEF Compared
  <2> QED BY <2>1, <2>2, BaselineMoves
<1>3. ASSUME NEW i \in DOMAIN syncs', syncs'[i].at = "sweeps"
      PROVE  /\ \A p \in Paths : start'[p] <= syncs'[i].found[p] /\ syncs'[i].found[p] <= disk'[p].at
             /\ syncs'[i].got # Absent => syncs'[i].found[syncs'[i].path] <= syncs'[i].got.at
  <2>0. ASSUME NEW j \in DOMAIN syncs, syncs[j].at = "sweeps"
        PROVE  /\ \A p \in Paths : start'[p] <= syncs[j].found[p] /\ syncs[j].found[p] <= disk'[p].at
               /\ syncs[j].got # Absent => syncs[j].found[syncs[j].path] <= syncs[j].got.at
    <3>1. \A p \in Paths : syncs[j].found[p] \in Nat
      BY <1>0, SyncOf
    <3> QED BY <1>0, <2>0, <3>1 DEF Compared, Uploading
  <2>1. CASE UNCHANGED syncs
    BY <1>3, <2>0, <2>1
  <2>2. CASE EndRun
    BY <2>2 DEF EndRun
  <2>3. CASE Sweep
    BY <1>0, <1>3, <2>0, <2>3, SweepFields
  <2>4. ASSUME NEW claims \in SUBSET Paths, StepDone(claims)
        PROVE  /\ \A p \in Paths : start'[p] <= syncs'[i].found[p] /\ syncs'[i].found[p] <= disk'[p].at
               /\ syncs'[i].got # Absent => syncs'[i].found[syncs'[i].path] <= syncs'[i].got.at
    <3>1. i \in DOMAIN syncs /\ syncs'[i] = syncs[i]
      BY <1>0, <1>3, <2>4, StepDoneFields
    <3> QED BY <1>3, <2>0, <3>1
  <2>5. CASE Syncing
    <3>1. PICK j \in DOMAIN syncs : \/ Begin(j) \/ Store(j) \/ Scan(j) \/ Finish(j)
                                    \/ \E p \in Paths : Load(j, p) \/ UploadFails(j, p)
      BY <2>5 DEF Syncing
    <3>2. Others(j) /\ disk' = disk
      BY <3>1, ActsChained, SyncingFrame DEF Inv, home
    <3>3. CASE i # j
      <4>1. i \in DOMAIN syncs /\ syncs'[i] = syncs[i]
        BY <3>2, <3>3 DEF Others
      <4> QED BY <1>3, <2>0, <4>1
    <3>4. CASE i = j /\ Begin(j)
      BY <1>0, <1>3, <3>4, BeginFields
    <3>5. CASE i = j /\ Store(j)
      <4>1. syncs'[i].at = syncs[i].at /\ syncs'[i].found = syncs[i].found /\ syncs'[i].got = Absent
        BY <1>0, <3>5, StoreFields
      <4> QED BY <1>3, <2>0, <3>5, <4>1
    <3>6. CASE i = j /\ Scan(j)
      <4>1. syncs'[i].found = Sizes /\ syncs'[i].got = syncs[i].got
        BY <1>0, <3>6, ScanFields
      <4>2. syncs[i].got = Absent
        BY <3>6 DEF Scan, Uploading
      <4> QED BY <1>0, <3>2, <4>1, <4>2 DEF Sizes
    <3>7. CASE i = j /\ Finish(j)
      BY <1>0, <1>3, <3>7, FinishFields
    <3>8. ASSUME i = j, NEW q \in Paths, Load(j, q)
          PROVE  /\ \A p \in Paths : start'[p] <= syncs'[i].found[p] /\ syncs'[i].found[p] <= disk'[p].at
                 /\ syncs'[i].got # Absent => syncs'[i].found[syncs'[i].path] <= syncs'[i].got.at
      <4>1. /\ syncs'[i].at = syncs[i].at /\ syncs'[i].found = syncs[i].found
            /\ syncs'[i].path = q /\ syncs'[i].got = disk[q]
        BY <1>0, <3>8, LoadFields
      <4> QED BY <1>3, <2>0, <3>2, <3>8, <4>1
    <3>9. ASSUME i = j, NEW q \in Paths, UploadFails(j, q)
          PROVE  /\ \A p \in Paths : start'[p] <= syncs'[i].found[p] /\ syncs'[i].found[p] <= disk'[p].at
                 /\ syncs'[i].got # Absent => syncs'[i].found[syncs'[i].path] <= syncs'[i].got.at
      <4>1. /\ syncs'[i].at = syncs[i].at /\ syncs'[i].found = syncs[i].found
            /\ syncs'[i].path = syncs[i].path /\ syncs'[i].got = syncs[i].got
        BY <1>0, <3>9, UploadFailsFields
      <4> QED BY <1>3, <2>0, <3>9, <4>1
    <3> QED BY <3>1, <3>3, <3>4, <3>5, <3>6, <3>7, <3>8, <3>9
  <2> QED BY <2>1, <2>2, <2>3, <2>4, <2>5, SyncsMove
<1> QED BY <1>1, <1>2, <1>3 DEF Compared, Uploading

LEMMA MeasuredStep ==
  ASSUME Inv, Compared, Measured, [Next]_vars, pump' # "none", ~StartRun PROVE Measured'
<1> SUFFICES ASSUME NEW p \in OnlySwept', written'[p] # Absent
             PROVE  0 < baseline'[p] /\ baseline'[p] <= written'[p].at
  BY DEF Measured
<1>0. p \in OnlySwept /\ p \in Paths /\ p \notin ToolFiles /\ p \notin claimed
  BY RunGoesOn DEF OnlySwept, Own
<1>1. CASE ToolStores
  <2>1. loaded.path \in ToolFiles /\ baseline' = baseline
    BY <1>1 DEF ToolStores, Inv, Chain
  <2>2. written'[p] = written[p]
    BY <1>0, <1>1, <2>1 DEF ToolStores, Inv, Types, Files
  <2> QED BY <1>0, <2>1, <2>2 DEF Measured
<1>2. ASSUME NEW i \in DOMAIN syncs, Store(i)
      PROVE  0 < baseline'[p] /\ baseline'[p] <= written'[p].at
  <2>1. CASE p # syncs[i].path
    BY <1>0, <1>2, <2>1, StoreMakes DEF Measured
  <2>2. CASE p = syncs[i].path
    <3>1. syncs[i].at = "sweeps" /\ Uploading(i) /\ syncs[i].found[p] \in Nat
      BY <1>0, <1>2, <2>2, StoreMakes, SyncOf DEF Uploading, Inv, Types
    <3>2. syncs[i].found[p] <= syncs[i].got.at
      BY <2>2, <3>1 DEF Compared
    <3> QED BY <1>0, <1>2, <2>2, <3>1, <3>2, StoreMakes
  <2> QED BY <2>1, <2>2
<1>3. CASE UNCHANGED <<written, baseline>>
  BY <1>0, <1>3 DEF Measured
<1> QED BY <1>1, <1>2, <1>3, WrittenMoves, BaselineMoves

LEMMA DeliveredStep ==
  ASSUME Inv, Delivered, [Next]_vars, pump' # "none", ~StartRun PROVE Delivered'
<1> SUFFICES ASSUME NEW p \in Own, <<p, disk'[p].at>> \in ledger', pump' # "sent"
             PROVE  disk'[p].at = start'[p]
  BY DEF Delivered
<1>0. p \in Paths /\ start' = start /\ pump # "sent"
  BY RunGoesOn DEF Own, Sent
<1>1. <<p, disk'[p].at>> \in ledger
  <2>1. ASSUME NEW q \in Foreign, OtherDelivers(q) PROVE <<p, disk'[p].at>> \in ledger
    <3>1. p # q
      BY DEF Own
    <3> QED BY <2>1, <3>1 DEF OtherDelivers
  <2> QED BY <1>0, <2>1, LedgerMoves DEF Send
<1>2. disk'[p] = disk[p]
  <2>1. disk'[p].at <= disk[p].at
    BY <1>0, <1>1 DEF Inv, Numbered
  <2> QED BY <1>0, <2>1, HomeGrows DEF Inv
<1> QED BY <1>0, <1>1, <1>2 DEF Delivered

LEMMA SizesStep == Inv /\ SizesInv /\ [Next]_vars => SizesInv'
<1> SUFFICES ASSUME Inv, SizesInv, [Next]_vars, pump' # "none"
             PROVE  Compared' /\ Measured' /\ Delivered'
  BY DEF SizesInv
<1>1. CASE StartRun
  <2>1. /\ baseline' = Sizes /\ start' = Sizes /\ written' = Nothing /\ syncs' = <<>>
        /\ disk' = disk
    BY <1>1 DEF StartRun, Baseline, home
  <2>2. \A p \in Paths : Sizes[p] = disk[p].at /\ disk[p].at \in Nat
    BY DEF Sizes, Inv, Types, Files, Contents
  <2>3. Compared'
    BY <2>1, <2>2 DEF Compared
  <2>4. Measured'
    BY <2>1, FilesOf DEF Measured, OnlySwept, Own
  <2>5. Delivered'
    BY <2>1, <2>2 DEF Delivered, Own
  <2> QED BY <2>3, <2>4, <2>5
<1>2. CASE ~StartRun
  BY <1>2, RunGoesOn, ComparedStep, MeasuredStep, DeliveredStep DEF SizesInv
<1> QED BY <1>1, <1>2

LEMMA SizesInit == Init => SizesInv
BY DEF Init, SizesInv

-----------------------------------------------------------------------------
(* Nothing is lost *)

LEMMA MissedMoves ==
  ASSUME [Next]_vars
  PROVE  missed \subseteq missed' \/ StartRun
<1> USE DEF history
<1>1. CASE Agent
  BY <1>1 DEF Agent, EndRun, ToolLoads, ToolStores, ToolFails, ToolWrites, ShellWrites
<1>2. CASE Syncing
  BY <1>2 DEF Syncing, Begin, Store, Scan, Finish, Load, UploadFails
<1>3. CASE Summing
  BY <1>3 DEF Summing, StepDone, Summary, Sweep, Merge, Send, OtherWrites, OtherDelivers
<1>4. CASE Filtering
  BY <1>4 DEF Filtering, FilterFails, DropMembers, Rebuild, Fold, AutoBundle, Filtered
<1>5. CASE UNCHANGED vars
  BY <1>5 DEF vars
<1> QED BY <1>1, <1>2, <1>3, <1>4, <1>5, StepsSplit

(* While the runner sums up, only filters write the files of its session,    *)
(* and only archives.                                                        *)
LEMMA OwnStays ==
  ASSUME Types, [Next]_vars, pump \in Late \cup {"sweep"}, NEW p \in Own
  PROVE  disk'[p] = disk[p] \/ (Filtering /\ p \in Archives)
<1>0. p \in Paths /\ p \notin Foreign /\ Archives \subseteq Paths /\ Foreign \subseteq Paths
      /\ disk \in Files /\ clock \in Nat
  BY PathsAreKnown DEF Own, Types
<1>1. CASE Agent
  BY <1>1 DEF Agent, StartRun, EndRun, ToolLoads, ToolStores, ToolFails, ToolWrites,
              ShellWrites, Late, home
<1>2. CASE Syncing
  BY <1>2, SyncingFrame DEF Syncing, home
<1>3. CASE Summing
  <2>1. ASSUME NEW q \in Foreign, OtherWrites(q) PROVE disk'[p] = disk[p]
    BY <1>0, <2>1, Written DEF OtherWrites
  <2> QED BY <1>3, <2>1 DEF Summing, StepDone, Summary, Sweep, Merge, Send, OtherDelivers, home
<1>4. CASE Filtering
  BY <1>0, <1>4, FilteredHome, Written DEF home
<1>5. CASE UNCHANGED vars
  BY <1>5 DEF vars, home
<1> QED BY <1>1, <1>2, <1>3, <1>4, <1>5, StepsSplit

(* A file that the run has changed is there, and no summary had it before.   *)
LEMMA ChangedIsThere ==
  ASSUME Inv, SizesInv, pump # "none", NEW p \in Changes
  PROVE  /\ p \in Paths /\ p \in Own /\ disk[p] # Absent /\ p \in There
         /\ ~Sent => ~Seen(p)
         /\ Changed(p) \/ written[p] # Absent
<1>1. p \in Paths /\ p \in Own /\ disk[p].at # start[p]
  BY DEF Changes, Own
<1>2. disk[p].at \in Nat /\ start[p] \in Nat /\ start[p] <= disk[p].at
  BY <1>1 DEF Inv, Types, Files, Contents, Numbered
<1>3. disk[p] # Absent
  BY <1>1, <1>2 DEF Absent
<1>4. Changed(p) \/ written[p] # Absent
  BY <1>1 DEF SizesInv, Compared, Changed
<1> QED BY <1>1, <1>3, <1>4 DEF There, SizesInv, Delivered, Seen, Sent

LEMMA SweptStep ==
  ASSUME Inv, SizesInv, Lost, [Next]_vars, Swept'
  PROVE  \A p \in Changes' : Taken(p)' \/ written'[p] # Absent
<1> SUFFICES ASSUME NEW p \in Changes' PROVE Taken(p)' \/ written'[p] # Absent
  OBVIOUS
<1>0. /\ syncs \in Seq(SyncTypes) /\ Bundle \in Paths /\ disk \in [Paths -> Contents]
      /\ pending \subseteq Paths
  BY FilesOf DEF Inv, Types, Files
<1>1. pump = "sweep" /\ ~StartRun /\ pump' = "sweep"
  <2>1. ~Sweep
    BY <1>0, SweepFields DEF Swept, FinalSync
  <2>2. ~Filtering
    BY FilterStage, StagesNamed DEF Swept, Stages
  <2> QED BY <2>1, <2>2, PumpMoves DEF Swept, StartRun, EndRun, Merge, Summary, Send
<1>2. ~Filtering
  BY <1>1, FilterStage DEF Stages
<1>3. p \in Changes /\ p \in Own /\ p \in Paths
  <2>1. p \in Own /\ p \in Paths /\ disk'[p] = disk[p]
    BY <1>1, <1>2, OwnStays DEF Changes, Own, Inv
  <2>2. start' = start /\ missed \subseteq missed'
    BY <1>1, RunGoesOn, MissedMoves
  <2> QED BY <2>1, <2>2 DEF Changes
<1>4. written[p] # Absent => written'[p] # Absent
  BY <1>1, <1>3, UploadsStay
<1>5. CASE UNCHANGED syncs
  <2>1. Swept /\ (Taken(p) => Taken(p)')
    BY <1>1, <1>5 DEF Swept, FinalSync, Taken
  <2> QED BY <1>3, <1>4, <2>1 DEF Lost
<1>6. CASE Syncing
  <2>1. PICK j \in DOMAIN syncs : \/ Begin(j) \/ Store(j) \/ Scan(j) \/ Finish(j)
                                  \/ \E q \in Paths : Load(j, q) \/ UploadFails(j, q)
    BY <1>6 DEF Syncing
  <2>2. Others(j) /\ j = Len(syncs) /\ j = Len(syncs') /\ disk' = disk
    BY <1>1, <2>1, ActsChained, SyncingFrame DEF Inv, home, Others
  <2>3. FinalSync = syncs[j] /\ (Swept <=> syncs[j].at \in {"sweeps", "done"})
    BY <1>1, <2>2 DEF FinalSync, Swept
  <2>4. /\ Taken(p) <=> p \in syncs[j].todo \/ (syncs[j].got # Absent /\ syncs[j].path = p)
        /\ Taken(p)' <=> p \in syncs'[j].todo \/ (syncs'[j].got # Absent /\ syncs'[j].path = p)
        /\ syncs'[j].at \in {"sweeps", "done"}
    BY <2>2 DEF Taken, FinalSync, Swept
  <2>5. CASE Begin(j)
    BY <1>0, <2>4, <2>5, BeginFields
  <2>6. CASE Store(j)
    <3>1. syncs'[j].at = syncs[j].at /\ syncs'[j].todo = syncs[j].todo
      BY <1>0, <2>6, StoreFields
    <3>2. Taken(p) \/ written[p] # Absent
      BY <1>3, <2>3, <2>4, <3>1 DEF Lost
    <3> QED BY <1>3, <1>4, <2>4, <2>6, <3>1, <3>2, StoreMakes
  <2>7. CASE Scan(j)
    <3>1. syncs'[j].todo = {q \in Candidates : ~Seen(q)}
      BY <1>0, <2>7, ScanFields
    <3>2. ~Seen(p) /\ p \in There /\ (Changed(p) \/ written[p] # Absent)
      BY <1>1, <1>3, ChangedIsThere DEF Sent
    <3> QED BY <1>3, <1>4, <2>4, <3>1, <3>2 DEF Candidates
  <2>8. CASE Finish(j)
    <3>1. /\ syncs'[j].todo = syncs[j].todo /\ syncs'[j].path = syncs[j].path
          /\ syncs'[j].got = syncs[j].got /\ syncs[j].at = "sweeps"
      BY <1>0, <2>8, FinishFields DEF Finish
    <3> QED BY <1>3, <1>4, <2>3, <2>4, <3>1 DEF Lost
  <2>9. ASSUME NEW q \in Paths, Load(j, q) PROVE Taken(p)' \/ written'[p] # Absent
    <3>1. /\ syncs'[j].at = syncs[j].at /\ syncs'[j].todo = syncs[j].todo \ {q}
          /\ syncs'[j].path = q /\ syncs'[j].got = disk[q]
      BY <1>0, <2>9, LoadFields
    <3>2. disk[q] # Absent /\ syncs[j].got = Absent
      BY <2>9 DEF Load, Uploading
    <3> QED BY <1>3, <1>4, <2>3, <2>4, <3>1, <3>2 DEF Lost
  <2>10. ASSUME NEW q \in Paths, UploadFails(j, q) PROVE Taken(p)' \/ written'[p] # Absent
    <3>1. /\ syncs'[j].at = syncs[j].at /\ syncs'[j].todo = syncs[j].todo \ {q}
          /\ syncs'[j].path = syncs[j].path /\ syncs'[j].got = syncs[j].got
      BY <1>0, <2>10, UploadFailsFields
    <3>2. p # q
      BY <1>1, <2>10 DEF UploadFails, Changes
    <3> QED BY <1>3, <1>4, <2>3, <2>4, <3>1, <3>2 DEF Lost
  <2> QED BY <2>1, <2>5, <2>6, <2>7, <2>8, <2>9, <2>10
<1> QED BY <1>1, <1>5, <1>6, SyncsMove DEF StartRun, EndRun, Sweep, StepDone

(* What the filters take from the list is in an archive that stays there.    *)
LEMMA FilteringCovers ==
  ASSUME Inv, SizesInv, Lost, [Next]_vars, Filtering, pump \in Late, NEW p \in Changes'
  PROVE  Covered(p)'
<1>0. /\ Archives \subseteq Paths /\ Archives \cap Foreign = {} /\ Bundle \in Archives
      /\ disk \in Files /\ clock \in Nat /\ cards \in Files
      /\ pump \in Stages /\ pump # "sent" /\ pump # "none"
      /\ UNCHANGED <<start, missed>>
  BY PathsAreKnown, FilterStage DEF Inv, Types, Stages, history
<1>1. p \in Own /\ p \in Paths /\ p \notin missed
  BY <1>0 DEF Changes, Own
<1>2. disk'[p] = disk[p] => /\ p \in Changes /\ Covered(p) /\ p \in There
  <2>1. disk'[p] = disk[p] => p \in Changes
    BY <1>0, <1>1 DEF Changes
  <2> QED BY <1>0, <2>1, ChangedIsThere DEF Lost
<1>3. /\ Carded = {q \in Paths : cards[q] # Absent}
      /\ Carded' = {q \in Paths : cards'[q] # Absent}
  BY DEF Carded
<1>4. CASE UNCHANGED <<home, cards>>
  BY <1>2, <1>4 DEF Covered, Carded, Members, home
<1>5. CASE DropMembers
  <2>1. /\ UNCHANGED disk
        /\ \A q \in Paths : cards'[q] = IF q \notin Archives
                                           /\ q \in UNION {Members(z) : z \in Zips}
                                        THEN Absent ELSE cards[q]
    BY <1>5 DEF DropMembers, home
  <2>2. Carded \cap Archives \subseteq Carded'
    BY <1>3, <2>1
  <2>3. Zips \subseteq Carded \cap Archives
    BY DEF Zips
  <2> QED BY <1>2, <1>3, <2>1, <2>2, <2>3 DEF Covered, Members
<1>6. ASSUME NEW z \in Zips, Write(z, Members(z)), cards' = [cards EXCEPT ![z] = Fresh]
      PROVE  Covered(p)'
  <2>1. z \in Paths /\ z \in Archives /\ z \in Carded /\ Members(z) \subseteq Paths
    BY <1>0 DEF Zips, Carded, Members, Files, Contents
  <2>2. /\ \A q \in Paths : disk'[q].has = disk[q].has
        /\ \A q \in Paths : q # z => disk'[q] = disk[q]
    BY <1>0, <1>6, <2>1, Written DEF Members
  <2>3. Carded' = Carded
    BY <1>0, <1>3, <1>6, <2>1, FilesOf DEF Files
  <2>4. CASE p = z
    BY <2>1, <2>3, <2>4 DEF Covered
  <2>5. CASE p # z
    BY <1>0, <1>1, <1>2, <2>2, <2>3, <2>5 DEF Covered, Members
  <2> QED BY <2>4, <2>5
<1>7. ASSUME NEW z \in Zips, Write(z, Folded(z)),
             cards' = [q \in Paths |-> IF q \in Loose THEN Absent ELSE cards[q]]
      PROVE  Covered(p)'
  <2>1. z \in Paths /\ z \in Archives /\ z \in Carded /\ Folded(z) \subseteq Paths
    BY <1>0 DEF Zips, Carded, Folded, Members, Files, Contents, There
  <2>2. /\ disk'[z].has = Folded(z)
        /\ \A q \in Paths : q # z => disk'[q] = disk[q]
    BY <1>0, <1>7, <2>1, Written
  <2>3. Carded' = Carded \ Loose /\ Loose \cap Archives = {}
    BY <1>3, <1>7 DEF Loose
  <2>4. CASE p = z
    BY <2>1, <2>3, <2>4 DEF Covered
  <2>5. CASE p # z /\ p \in Loose
    BY <1>1, <1>2, <2>1, <2>2, <2>3, <2>5 DEF Covered, Folded, Members
  <2>6. CASE p # z /\ p \notin Loose
    BY <1>0, <1>1, <1>2, <2>1, <2>2, <2>3, <2>6 DEF Covered, Folded, Members
  <2> QED BY <2>4, <2>5, <2>6
<1>8. ASSUME Carded \cap Archives = {}, Write(Bundle, Loose \cap There),
             cards' = [q \in Paths |-> CASE q = Bundle -> Fresh
                                         [] q \in Loose -> Absent
                                         [] OTHER -> cards[q]]
      PROVE  Covered(p)'
  <2>1. Bundle \in Paths /\ Loose \cap There \subseteq Paths /\ Bundle \notin Loose
    BY <1>0 DEF Loose, Carded
  <2>2. disk'[Bundle].has = Loose \cap There /\ \A q \in Paths : q # Bundle => disk'[q] = disk[q]
    BY <1>0, <1>8, <2>1, Written
  <2>3. Bundle \in Carded'
    BY <1>3, <1>8, <2>1, FilesOf
  <2>4. CASE p = Bundle
    BY <2>3, <2>4 DEF Covered
  <2>5. CASE p # Bundle
    <3>1. p \in Carded /\ p \in There
      BY <1>1, <1>2, <1>8, <2>2, <2>5 DEF Covered
    <3>2. CASE p \in Loose
      BY <1>0, <2>2, <2>3, <3>1, <3>2 DEF Covered, Members
    <3>3. CASE p \notin Loose
      BY <1>1, <1>3, <1>8, <2>5, <3>1, <3>3 DEF Covered
    <3> QED BY <3>2, <3>3
  <2> QED BY <2>4, <2>5
<1>9. CASE FilterFails
  BY <1>4, <1>9 DEF FilterFails
<1>10. CASE Rebuild
  BY <1>4, <1>6, <1>10 DEF Rebuild
<1>11. CASE Fold
  BY <1>4, <1>7, <1>11 DEF Fold
<1>12. CASE AutoBundle
  BY <1>4, <1>8, <1>12 DEF AutoBundle
<1> QED BY <1>5, <1>9, <1>10, <1>11, <1>12 DEF Filtering

LEMMA CoveredStep ==
  ASSUME Inv, SizesInv, Lost, [Next]_vars, pump' \in Late \ {"sent"}
  PROVE  \A p \in Changes' : Covered(p)'
<1> SUFFICES ASSUME NEW p \in Changes' PROVE Covered(p)'
  OBVIOUS
<1>1. CASE Merge
  <2>1. /\ pump = "sweep" /\ UNCHANGED <<home, start, missed>>
        /\ \A q \in Paths : cards'[q] = IF cards[q] # Absent THEN cards[q] ELSE written[q]
    BY <1>1 DEF Merge, Merged, history
  <2>2. p \in Changes /\ p \in Paths
    BY <2>1 DEF Changes, Own, home
  <2>3. Len(syncs) \in DOMAIN syncs /\ FinalSync.at = "done"
    BY <1>1, <2>1 DEF Merge, FinalSync, Inv, Types, Chain
  <2>4. FinalSync.todo = {} /\ FinalSync.got = Absent
    BY <2>3 DEF FinalSync, Inv, Chain, Chained, Uploading
  <2>5. written[p] # Absent
    BY <2>1, <2>2, <2>3, <2>4 DEF Lost, Swept, Taken
  <2>6. cards'[p] # Absent
    BY <2>1, <2>2, <2>5
  <2> QED BY <2>2, <2>6 DEF Covered, Carded
<1>2. CASE Filtering
  <2>1. pump \in Late
    BY <1>2, FilterStage, StagesNamed DEF Late, Stages
  <2> QED BY <1>2, <2>1, FilteringCovers
<1>3. CASE pump' = pump /\ ~Filtering
  <2>1. /\ pump \in Late /\ pump \notin {"none", "sent", "sweep", "events"}
        /\ ~StartRun /\ ~EndRun /\ ~Merge
    BY <1>3 DEF Late, StartRun, EndRun, Merge
  <2>2. UNCHANGED cards
    BY <1>3, <2>1, CardsMoves DEF Summary, Send
  <2>3. \A q \in Own : disk'[q] = disk[q]
    BY <1>3, <2>1, OwnStays DEF Inv
  <2>4. p \in Changes
    BY <2>1, <2>3, RunGoesOn, MissedMoves, <1>3 DEF Changes
  <2>5. Archives \subseteq Own
    BY PathsAreKnown DEF Own
  <2> QED BY <2>1, <2>2, <2>3, <2>4, <2>5 DEF Lost, Covered, Carded, Members
<1> QED BY <1>1, <1>2, <1>3, PumpMoves DEF Late, StartRun, EndRun, Sweep, Summary, Send

LEMMA SendLosesNothing ==
  ASSUME Inv, SizesInv, Lost, NEW failing \in SUBSET Paths, Send(failing)
  PROVE  NothingIsLost'
<1> SUFFICES ASSUME NEW p \in Own, p \notin missed',
                    \A z \in Outdated' : p \notin Members(z)',
                    disk'[p].at # start'[p], p \notin Carded'
             PROVE  \E z \in Carded' \cap Archives : p \in cards'[z].has
  BY DEF NothingIsLost
<1>0. /\ pump = "send" /\ disk' = disk /\ start' = start
      /\ missed' = missed \cup failing \cup UNION {Members(z) : z \in failing}
      /\ \A q \in Paths : cards'[q] = IF cards[q] # Fresh THEN cards[q]
                                      ELSE IF q \in failing THEN Absent ELSE disk[q]
      /\ Carded = {q \in Paths : cards[q] # Absent}
      /\ Carded' = {q \in Paths : cards'[q] # Absent}
  BY SentCards DEF Inv, home, Carded
<1>1. p \in Changes /\ p \in Paths /\ disk[p] # Absent
  <2>1. p \in Changes
    BY <1>0 DEF Changes
  <2> QED BY <1>0, <2>1, ChangedIsThere
<1>2. p \notin Carded
  BY <1>0, <1>1
<1>3. PICK z \in Carded \cap Archives : p \in Members(z)
  BY <1>0, <1>1, <1>2 DEF Lost, Late, Covered
<1>4. z \in Paths /\ z \notin failing /\ disk[z] # Absent /\ Members(z)' = Members(z)
  BY <1>0, <1>3 DEF Carded, Members, Absent
<1>5. cards'[z] # Absent /\ z \in Carded'
  BY <1>0, <1>3, <1>4
<1>6. cards'[z].at = disk'[z].at
  BY <1>3, <1>4, <1>5 DEF Outdated
<1>7. cards'[z] = disk[z]
  <2>1. cards[z] = Fresh \/ CopyOf(z, cards[z])
    BY <1>4 DEF Inv, Copies, Listed
  <2> QED BY <1>0, <1>4, <1>5, <1>6, <2>1 DEF CopyOf
<1> QED BY <1>3, <1>5, <1>7 DEF Members

LEMMA LostStep == Inv /\ SizesInv /\ LostInv /\ [Next]_vars => LostInv'
<1> SUFFICES ASSUME Inv, SizesInv, LostInv, [Next]_vars PROVE LostInv'
  OBVIOUS
<1>1. Lost'
  BY SweptStep, CoveredStep DEF LostInv, Lost
<1>2. NothingIsLost'
  <2>1. ASSUME NEW failing \in SUBSET Paths, Send(failing) PROVE NothingIsLost'
    BY <2>1, SendLosesNothing DEF LostInv
  <2>2. CASE Sent /\ Sent'
    <3>1. ~StartRun /\ ~Filtering
      BY <2>2, FilterStage DEF Sent, StartRun, Stages
    <3>2. UNCHANGED cards
      BY <2>2, <3>1, CardsMoves DEF Sent, EndRun, Merge, Summary, Send
    <3>3. \A q \in Own : disk'[q] = disk[q]
      BY <2>2, <3>1, OwnStays DEF Inv, Sent, Late
    <3>4. start' = start /\ missed \subseteq missed'
      BY <2>2, <3>1, RunGoesOn, MissedMoves DEF Sent
    <3>5. Archives \subseteq Own
      BY PathsAreKnown DEF Own
    <3>6. Carded' = Carded /\ Outdated' = Outdated
      BY <3>2, <3>3, <3>5 DEF Carded, Outdated
    <3>7. \A z \in Outdated : Members(z)' = Members(z)
      BY <3>3, <3>5 DEF Outdated, Members
    <3> QED BY <2>2, <3>2, <3>3, <3>4, <3>6, <3>7 DEF LostInv, NothingIsLost
  <2>3. Sent' => Sent \/ \E failing \in SUBSET Paths : Send(failing)
    BY PumpMoves, FilterStage, StagesNamed
       DEF Sent, StartRun, EndRun, Sweep, Merge, Summary, Stages
  <2> QED BY <2>1, <2>2, <2>3 DEF NothingIsLost
<1> QED BY <1>1, <1>2 DEF LostInv

LEMMA LostInit == Init => LostInv
BY DEF Init, LostInv, Lost, NothingIsLost, Swept, Late, Sent

(* Whatever the run made or changed is with the summary, as a card or in an  *)
(* archive that is one, unless its upload failed at the end or the archive's *)
(* card is an older copy: no filter takes a file from the list that is in no *)
(* archive of it, and what the syncs of the steps missed the final sweep     *)
(* finds (AgentTaskRunner._run_flow).                                        *)
THEOREM NothingIsLostHolds == Spec => []NothingIsLost
<1>1. Init => Inv /\ SizesInv /\ LostInv
  BY InitInv, SizesInit, LostInit
<1>2. Inv /\ SizesInv /\ LostInv /\ [Next]_vars => (Inv /\ SizesInv /\ LostInv)'
  BY InvStep, SizesStep, LostStep
<1>3. LostInv => NothingIsLost
  BY DEF LostInv
<1> QED BY <1>1, <1>2, <1>3, PTL DEF Spec

-----------------------------------------------------------------------------
(* The newest copy *)

(* What the scan leaves out is uploaded as it is now.                        *)
LEMMA LeftOut ==
  ASSUME Inv, SizesInv, pump \notin {"none", "sent"}, NEW p \in OnlySwept,
         p \notin {q \in Candidates : ~Seen(q)}
  PROVE  Newest(p)
<1> SUFFICES ASSUME written[p] # Absent PROVE written[p].at = disk[p].at
  BY DEF Newest
<1>0. /\ p \in Paths /\ p \in Own /\ disk[p].at \in Nat /\ baseline[p] \in Nat /\ start[p] \in Nat
      /\ written[p].at \in Nat
  BY DEF OnlySwept, Own, Inv, Types, Files, Contents
<1>1. 0 < baseline[p] /\ baseline[p] <= written[p].at
  BY DEF SizesInv, Measured
<1>2. 0 < written[p].at /\ written[p].at <= disk[p].at
  BY <1>0 DEF Inv, Copies, Uploaded, CopyOf
<1>3. p \in There
  BY <1>0, <1>2 DEF There, Absent
<1>4. start[p] <= baseline[p] /\ baseline[p] <= disk[p].at
  BY <1>0 DEF SizesInv, Compared
<1>5. CASE Changed(p)
  <2>1. Seen(p)
    BY <1>3, <1>5 DEF Candidates
  <2>2. disk[p].at = start[p]
    BY <1>0, <2>1 DEF SizesInv, Delivered, Seen
  <2> QED BY <1>0, <1>4, <1>5, <2>2 DEF Changed
<1>6. CASE ~Changed(p)
  BY <1>0, <1>1, <1>2, <1>6 DEF Changed
<1> QED BY <1>5, <1>6

LEMMA NewerSwept ==
  ASSUME Inv, SizesInv, Newer, [Next]_vars, Swept', NEW p \in OnlySwept' \ (Archives \cup missed')
  PROVE  Settled(p)'
<1>0. /\ syncs \in Seq(SyncTypes) /\ Bundle \in Paths /\ disk \in [Paths -> Contents]
      /\ pending \subseteq Paths
  BY FilesOf DEF Inv, Types, Files
<1>1. pump = "sweep" /\ ~StartRun /\ pump' = "sweep"
  <2>1. ~Sweep
    BY <1>0, SweepFields DEF Swept, FinalSync
  <2>2. ~Filtering
    BY FilterStage, StagesNamed DEF Swept, Stages
  <2> QED BY <2>1, <2>2, PumpMoves DEF Swept, StartRun, EndRun, Merge, Summary, Send
<1>2. ~Filtering
  BY <1>1, FilterStage DEF Stages
<1>3. /\ p \in OnlySwept \ (Archives \cup missed) /\ p \in Paths /\ disk'[p] = disk[p]
      /\ Swept => Settled(p)
  <2>1. p \in OnlySwept \ (Archives \cup missed) /\ p \in Own /\ p \in Paths
    BY <1>1, RunGoesOn, MissedMoves DEF OnlySwept, Own
  <2>2. disk'[p] = disk[p]
    BY <1>1, <1>2, <2>1, OwnStays DEF Inv
  <2> QED BY <2>1, <2>2 DEF Newer
<1>4. CASE Syncing
  <2>1. PICK j \in DOMAIN syncs : \/ Begin(j) \/ Store(j) \/ Scan(j) \/ Finish(j)
                                  \/ \E q \in Paths : Load(j, q) \/ UploadFails(j, q)
    BY <1>4 DEF Syncing
  <2>2. Others(j) /\ j = Len(syncs) /\ j = Len(syncs') /\ disk' = disk
    BY <1>1, <2>1, ActsChained, SyncingFrame DEF Inv, home, Others
  <2>3. FinalSync = syncs[j] /\ (Swept <=> syncs[j].at \in {"sweeps", "done"})
    BY <1>1, <2>2 DEF FinalSync, Swept
  <2>4. FinalSync' = syncs'[j] /\ syncs'[j].at \in {"sweeps", "done"}
    BY <2>2 DEF FinalSync, Swept
  <2>5. CASE Begin(j)
    BY <1>0, <2>4, <2>5, BeginFields
  <2>6. CASE Store(j)
    <3>1. syncs'[j].at = syncs[j].at /\ syncs'[j].todo = syncs[j].todo /\ syncs'[j].got = Absent
      BY <1>0, <2>6, StoreFields
    <3>2. Settled(p)
      BY <1>3, <2>3, <2>4, <3>1
    <3> QED BY <1>3, <2>3, <2>4, <2>6, <3>1, <3>2, StoreMakes DEF Settled, Loading, Newest
  <2>7. CASE Scan(j)
    <3>1. syncs'[j].todo = {q \in Candidates : ~Seen(q)} /\ syncs'[j].got = syncs[j].got
      BY <1>0, <2>7, ScanFields
    <3>2. syncs[j].got = Absent /\ written' = written
      BY <2>7 DEF Scan, Uploading
    <3>3. p \notin syncs'[j].todo => Newest(p)
      BY <1>1, <1>3, <3>1, LeftOut
    <3> QED BY <1>3, <2>4, <3>1, <3>2, <3>3 DEF Settled, Loading, Newest
  <2>8. CASE Finish(j)
    <3>1. /\ syncs'[j].todo = syncs[j].todo /\ syncs'[j].path = syncs[j].path
          /\ syncs'[j].got = syncs[j].got /\ syncs[j].at = "sweeps" /\ written' = written
      BY <1>0, <2>8, FinishFields DEF Finish
    <3> QED BY <1>3, <2>3, <2>4, <3>1 DEF Settled, Loading, Newest
  <2>9. ASSUME NEW q \in Paths, Load(j, q) PROVE Settled(p)'
    <3>1. /\ syncs'[j].at = syncs[j].at /\ syncs'[j].todo = syncs[j].todo \ {q}
          /\ syncs'[j].path = q /\ syncs'[j].got = disk[q]
      BY <1>0, <2>9, LoadFields
    <3>2. disk[q] # Absent /\ syncs[j].got = Absent /\ written' = written
      BY <2>9 DEF Load, Uploading
    <3> QED BY <1>3, <2>3, <2>4, <3>1, <3>2 DEF Settled, Loading, Newest
  <2>10. ASSUME NEW q \in Paths, UploadFails(j, q) PROVE Settled(p)'
    <3>1. /\ syncs'[j].at = syncs[j].at /\ syncs'[j].todo = syncs[j].todo \ {q}
          /\ syncs'[j].path = syncs[j].path /\ syncs'[j].got = syncs[j].got
      BY <1>0, <2>10, UploadFailsFields
    <3>2. p # q /\ written' = written
      BY <1>1, <2>10 DEF UploadFails
    <3> QED BY <1>3, <2>3, <2>4, <3>1, <3>2 DEF Settled, Loading, Newest
  <2> QED BY <2>1, <2>5, <2>6, <2>7, <2>8, <2>9, <2>10
<1>5. CASE ~Syncing
  <2>1. UNCHANGED <<syncs, written>>
    BY <1>1, <1>5, SyncsMove, WrittenMoves
       DEF Syncing, StartRun, EndRun, Sweep, StepDone, ToolStores
  <2> QED BY <1>1, <1>3, <2>1 DEF Swept, Settled, Loading, FinalSync, Newest
<1> QED BY <1>4, <1>5

LEMMA NewerStep ==
  ASSUME Inv, SizesInv, Newer, [Next]_vars PROVE Newer'
<1>1. ASSUME Swept', NEW p \in OnlySwept' \ (Archives \cup missed') PROVE Settled(p)'
  BY <1>1, NewerSwept
<1>2. ASSUME pump' \in Late, NEW p \in OnlySwept' \ (Archives \cup missed')
      PROVE  Newest(p)'
  <2>1. CASE Merge
    <3>1. /\ pump = "sweep" /\ UNCHANGED <<home, written, missed, claimed>>
      BY <2>1 DEF Merge, history, lists
    <3>2. Len(syncs) \in DOMAIN syncs /\ FinalSync.at = "done"
      BY <2>1, <3>1 DEF Merge, FinalSync, Inv, Types, Chain
    <3>3. FinalSync.todo = {} /\ FinalSync.got = Absent
      BY <3>2 DEF FinalSync, Inv, Chain, Chained, Uploading
    <3>4. p \in OnlySwept \ (Archives \cup missed)
      BY <1>2, <3>1 DEF OnlySwept
    <3>5. Newest(p)
      BY <3>1, <3>2, <3>3, <3>4 DEF Newer, Swept, Settled, Loading
    <3> QED BY <3>1, <3>5 DEF Newest, home
  <2>2. CASE pump \in Late
    <3>1. ~StartRun /\ pump' # "none"
      BY <1>2, <2>2 DEF StartRun, Late
    <3>2. p \in OnlySwept \ (Archives \cup missed) /\ p \in Own
      BY <1>2, <3>1, RunGoesOn, MissedMoves DEF OnlySwept
    <3>3. disk'[p] = disk[p] /\ written' = written
      BY <2>2, <3>2, OwnStays, WrittenLate DEF Inv
    <3> QED BY <2>2, <3>2, <3>3 DEF Newer, Newest
  <2>3. pump \in Late \/ Merge
    <3>1. ASSUME Filtering PROVE pump \in Late
      BY <1>2, <3>1, FilterStage, StagesNamed DEF Late, Stages
    <3> QED BY <1>2, <3>1, PumpMoves DEF Late, StartRun, EndRun, Sweep, Summary, Send
  <2> QED BY <2>1, <2>2, <2>3
<1> QED BY <1>1, <1>2 DEF Newer

LEMMA NewerInit == Init => Newer
BY DEF Init, Newer, Swept, Late

(* A file nobody but the sweeps took up is delivered as it is in the end,    *)
(* however the syncs of the steps, the commands that write it and the final  *)
(* sweep overlapped (AgentTaskRunner._sync_run_artifacts).                   *)
THEOREM NewestIsDeliveredHolds == Spec => []NewestIsDelivered
<1>1. Init => Inv /\ SizesInv /\ Newer
  BY InitInv, SizesInit, NewerInit
<1>2. Inv /\ SizesInv /\ Newer /\ [Next]_vars => (Inv /\ SizesInv /\ Newer)'
  BY InvStep, SizesStep, NewerStep
<1>3. Inv /\ SizesInv /\ Newer => NewestIsDelivered
  <2> SUFFICES ASSUME Inv, Newer, Sent, NEW p \in Carded \cap Own,
                      p \notin ToolFiles \cup claimed \cup Archives \cup missed
               PROVE  cards[p].at = disk[p].at
    BY DEF NewestIsDelivered
  <2>1. cards[p] = written[p] /\ written[p] # Absent
    BY DEF Inv, Chain, Carded
  <2>2. Newest(p)
    BY DEF Newer, OnlySwept, Sent, Late
  <2> QED BY <2>1, <2>2 DEF Newest
<1> QED BY <1>1, <1>2, <1>3, PTL DEF Spec

-----------------------------------------------------------------------------
(* Nothing twice *)

(* What the user gets besides this run's messages: what another session      *)
(* delivers and the run has not come across.                                 *)
LEMMA GivenGrows ==
  ASSUME [Next]_vars, ~EndRun, NEW e \in given'
  PROVE  e \in given \/ \E q \in Foreign : OtherDelivers(q) /\ e = <<q, disk[q].at>>
                                           /\ ~CameAcross(q)
<1>1. ASSUME NEW q \in Foreign, OtherDelivers(q)
      PROVE  e \in given \/ (e = <<q, disk[q].at>> /\ ~CameAcross(q))
  BY <1>1 DEF OtherDelivers
<1> QED BY <1>1, GivenMoves

(* A copy the run holds stays new.                                           *)
LEMMA StaysNew ==
  ASSUME [Next]_vars, ~EndRun, NEW p \in Paths, NEW n, <<p, n>> \notin given,
         p \in Foreign => CameAcross(p)
  PROVE  <<p, n>> \notin given'
<1> SUFFICES ASSUME <<p, n>> \in given' PROVE FALSE
  OBVIOUS
<1>1. PICK q \in Foreign : OtherDelivers(q) /\ <<p, n>> = <<q, disk[q].at>> /\ ~CameAcross(q)
  BY GivenGrows
<1> QED BY <1>1

(* A file that is written anew is new.                                       *)
LEMMA AnewIsNew ==
  ASSUME Inv, [Next]_vars, ~EndRun, NEW p \in Paths, <<p, disk[p].at>> \notin given,
         p \in Foreign => CameAcross(p)
  PROVE  <<p, disk'[p].at>> \notin given'
<1>1. CASE disk'[p] = disk[p]
  BY <1>1, StaysNew
<1>2. CASE disk'[p].at = clock + 1
  <2>1. <<p, clock + 1>> \notin ledger /\ disk[p].at \in Nat /\ clock \in Nat
    <3>1. disk[p].at \in Nat /\ clock \in Nat /\ disk[p].at <= clock
      BY HomeGrows DEF Inv
    <3> QED BY <3>1 DEF Inv, Numbered
  <2>2. <<p, clock + 1>> \notin given
    BY <2>1 DEF Inv, Numbered
  <2> QED BY <1>2, <2>2, StaysNew
<1> QED BY <1>1, <1>2, HomeGrows DEF Inv

SyncNew(i) ==
  syncs[i].at = "sweeps" =>
    /\ \A p \in syncs[i].todo : <<p, disk[p].at>> \notin given
    /\ NotGiven(syncs[i].path, syncs[i].got)

LEMMA SyncStaysNew ==
  ASSUME Inv, [Next]_vars, ~EndRun, NEW i \in DOMAIN syncs, SyncNew(i), syncs[i].at = "sweeps"
  PROVE  /\ \A p \in syncs[i].todo : <<p, disk'[p].at>> \notin given'
         /\ syncs[i].got # Absent => <<syncs[i].path, syncs[i].got.at>> \notin given'
<1>0. syncs[i].todo \subseteq Paths /\ syncs[i].path \in Paths
  BY SyncOf DEF Inv, Types
<1>1. ASSUME NEW p \in syncs[i].todo PROVE <<p, disk'[p].at>> \notin given'
  <2>1. CameAcross(p)
    BY DEF CameAcross
  <2> QED BY <1>0, <2>1, AnewIsNew DEF SyncNew
<1>2. ASSUME syncs[i].got # Absent PROVE <<syncs[i].path, syncs[i].got.at>> \notin given'
  <2>1. CameAcross(syncs[i].path)
    BY <1>2 DEF CameAcross, Uploading
  <2> QED BY <1>0, <1>2, <2>1, StaysNew DEF SyncNew, NotGiven
<1> QED BY <1>1, <1>2

LEMMA SyncsNewStep ==
  ASSUME Inv, Ungiven, [Next]_vars, NEW i \in DOMAIN syncs' PROVE SyncNew(i)'
<1> SUFFICES ASSUME syncs'[i].at = "sweeps"
             PROVE  /\ \A p \in syncs'[i].todo : <<p, disk'[p].at>> \notin given'
                    /\ syncs'[i].got # Absent => <<syncs'[i].path, syncs'[i].got.at>> \notin given'
  BY DEF SyncNew, NotGiven
<1>0. /\ syncs \in Seq(SyncTypes) /\ Bundle \in Paths /\ disk \in [Paths -> Contents]
      /\ pending \subseteq Paths
      /\ \A j \in DOMAIN syncs : SyncNew(j)
  BY FilesOf DEF Inv, Types, Files, Ungiven, SyncNew
<1>1. ~EndRun /\ ~StartRun
  BY DEF EndRun, StartRun
<1>2. CASE i \in DOMAIN syncs /\ syncs'[i] = syncs[i]
  BY <1>0, <1>1, <1>2, SyncStaysNew
<1>3. CASE Syncing
  <2>1. PICK j \in DOMAIN syncs : \/ Begin(j) \/ Store(j) \/ Scan(j) \/ Finish(j)
                                  \/ \E q \in Paths : Load(j, q) \/ UploadFails(j, q)
    BY <1>3 DEF Syncing
  <2>2. Others(j) /\ disk' = disk /\ given' = given
    BY <2>1, ActsChained, SyncingFrame DEF Inv, home, Others
  <2>3. CASE i # j
    BY <1>2, <2>2, <2>3 DEF Others
  <2>4. CASE i = j
    <3>0. SyncNew(j)
      BY <1>0
    <3>1. CASE Begin(j)
      BY <1>0, <2>4, <3>1, BeginFields
    <3>2. CASE Store(j)
      <4>1. syncs'[j].at = syncs[j].at /\ syncs'[j].todo = syncs[j].todo /\ syncs'[j].got = Absent
        BY <1>0, <3>2, StoreFields
      <4> QED BY <2>2, <2>4, <3>0, <4>1 DEF SyncNew
    <3>3. CASE Scan(j)
      <4>1. /\ syncs'[j].todo = {q \in Candidates : ~Seen(q)}
            /\ syncs'[j].got = syncs[j].got
        BY <1>0, <3>3, ScanFields
      <4>2. syncs[j].got = Absent
        BY <3>3 DEF Scan, Uploading
      <4> QED BY <2>2, <2>4, <4>1, <4>2 DEF Seen, Inv, Numbered
    <3>4. CASE Finish(j)
      BY <1>0, <2>4, <3>4, FinishFields
    <3>5. ASSUME NEW q \in Paths, Load(j, q)
          PROVE  /\ \A p \in syncs'[i].todo : <<p, disk'[p].at>> \notin given'
                 /\ syncs'[i].got # Absent => <<syncs'[i].path, syncs'[i].got.at>> \notin given'
      <4>1. /\ syncs'[j].at = syncs[j].at /\ syncs'[j].todo = syncs[j].todo \ {q}
            /\ syncs'[j].path = q /\ syncs'[j].got = disk[q] /\ q \in syncs[j].todo
        BY <1>0, <3>5, LoadFields DEF Load
      <4> QED BY <2>2, <2>4, <3>0, <4>1 DEF SyncNew
    <3>6. ASSUME NEW q \in Paths, UploadFails(j, q)
          PROVE  /\ \A p \in syncs'[i].todo : <<p, disk'[p].at>> \notin given'
                 /\ syncs'[i].got # Absent => <<syncs'[i].path, syncs'[i].got.at>> \notin given'
      <4>1. /\ syncs'[j].at = syncs[j].at /\ syncs'[j].todo = syncs[j].todo \ {q}
            /\ syncs'[j].path = syncs[j].path /\ syncs'[j].got = syncs[j].got
        BY <1>0, <3>6, UploadFailsFields
      <4> QED BY <2>2, <2>4, <3>0, <4>1 DEF SyncNew, NotGiven
    <3> QED BY <2>1, <3>1, <3>2, <3>3, <3>4, <3>5, <3>6
  <2> QED BY <2>3, <2>4
<1>4. CASE Sweep
  BY <1>0, <1>2, <1>4, SweepFields
<1>5. ASSUME NEW claims \in SUBSET Paths, StepDone(claims)
      PROVE  i \in DOMAIN syncs /\ syncs'[i] = syncs[i]
  BY <1>0, <1>5, StepDoneFields
<1> QED BY <1>1, <1>2, <1>3, <1>4, <1>5, SyncsMove

LEMMA UngivenStep ==
  ASSUME Inv, Ungiven, [Next]_vars PROVE Ungiven'
<1>1. \A i \in DOMAIN syncs' : SyncNew(i)'
  BY SyncsNewStep
<1>2. ASSUME pump' = "tool"
      PROVE  /\ <<loaded'.path, disk'[loaded'.path].at>> \notin given'
             /\ loaded'.got # Absent => <<loaded'.path, loaded'.got.at>> \notin given'
  <2>0. ~EndRun /\ ~ToolStores /\ ~ToolFails
    BY <1>2 DEF EndRun, ToolStores, ToolFails
  <2>1. ASSUME NEW p \in ToolFiles, ToolWrites(p)
        PROVE  /\ <<loaded'.path, disk'[loaded'.path].at>> \notin given'
               /\ loaded'.got # Absent => <<loaded'.path, loaded'.got.at>> \notin given'
    <3>1. /\ p \in Paths /\ loaded'.path = p /\ loaded'.got = Absent /\ given' = given
          /\ disk'[p].at = clock + 1
      BY <2>1, PathsAreKnown, Written DEF ToolWrites, Inv, Types, history
    <3>2. disk[p].at <= clock /\ disk[p].at \in Nat /\ clock \in Nat
      BY <3>1, HomeGrows DEF Inv
    <3>3. <<p, clock + 1>> \notin ledger
      BY <3>2 DEF Inv, Numbered
    <3> QED BY <3>1, <3>3 DEF Inv, Numbered
  <2>2. CASE pump = "tool" /\ \A p \in ToolFiles : ~ToolWrites(p)
    <3>1. /\ loaded.path \in Paths /\ loaded.path \notin Foreign
          /\ <<loaded.path, disk[loaded.path].at>> \notin given
          /\ NotGiven(loaded.path, loaded.got)
      BY <2>2, PathsAreKnown DEF Ungiven, Inv, Chain
    <3>2. <<loaded.path, disk'[loaded.path].at>> \notin given'
      BY <2>0, <3>1, AnewIsNew
    <3>3. CASE UNCHANGED loaded
      BY <2>0, <3>1, <3>2, <3>3, StaysNew DEF NotGiven
    <3>4. CASE ToolLoads
      <4>1. loaded'.path = loaded.path /\ loaded'.got = disk[loaded.path] /\ disk' = disk
        BY <3>4 DEF ToolLoads, home, Inv, Types
      <4> QED BY <3>2, <4>1
    <3> QED BY <2>0, <2>2, <3>3, <3>4, LoadedMoves
  <2> QED BY <1>2, <2>1, <2>2, ToolStarts
<1>3. ASSUME pump' # "none", NEW p \in Paths \ claimed', written'[p] # Absent
      PROVE  <<p, written'[p].at>> \notin given'
  <2>1. CASE StartRun
    BY <1>3, <2>1, FilesOf DEF StartRun
  <2>2. CASE ~StartRun
    <3>0. ~EndRun /\ pump # "none" /\ p \notin claimed
      BY <1>3, <2>2, RunGoesOn DEF EndRun
    <3>1. ASSUME written[p] # Absent PROVE <<p, written[p].at>> \notin given'
      <4>1. <<p, written[p].at>> \notin given /\ CameAcross(p)
        BY <3>0, <3>1 DEF Ungiven, NotGiven, CameAcross
      <4> QED BY <3>0, <4>1, StaysNew
    <3>2. CASE UNCHANGED written
      BY <1>3, <3>1, <3>2
    <3>3. CASE ToolStores
      <4>1. /\ written'[p] = IF p = loaded.path THEN loaded.got ELSE written[p]
            /\ pump = "tool" /\ loaded.got # Absent /\ given' = given
        BY <3>3 DEF ToolStores, Inv, Types, Files, history
      <4> QED BY <1>3, <3>1, <4>1 DEF Ungiven, NotGiven
    <3>4. ASSUME NEW i \in DOMAIN syncs, Store(i) PROVE <<p, written'[p].at>> \notin given'
      <4>1. given' = given
        BY <3>4, SyncingFrame
      <4>2. p = syncs[i].path => syncs[i].at = "sweeps" /\ syncs[i].got # Absent
        BY <3>0, <3>4, StoreMakes
      <4> QED BY <1>3, <3>1, <3>4, <4>1, <4>2, StoreMakes DEF Ungiven, NotGiven
    <3> QED BY <2>2, <3>2, <3>3, <3>4, WrittenMoves
  <2> QED BY <2>1, <2>2
<1> QED BY <1>1, <1>2, <1>3 DEF Ungiven, SyncNew, NotGiven

LEMMA UngivenInit == Init => Ungiven
BY DEF Init, Ungiven, NotGiven

(* The user gets no file again that nobody listed and that did not change    *)
(* since an earlier summary, of this session or of another one, delivered    *)
(* it: the ledger stops the sweeps from taking it up (delivery_ledger.seen). *)
THEOREM NothingTwiceHolds == Spec => []NothingTwice
<1>1. Init => Inv /\ Ungiven
  BY InitInv, UngivenInit
<1>2. Inv /\ Ungiven /\ [Next]_vars => (Inv /\ Ungiven)'
  BY InvStep, UngivenStep
<1>3. Inv /\ Ungiven => NothingTwice
  <2> SUFFICES ASSUME Inv, Ungiven, Sent, NEW p \in Carded, p \notin claimed \cup Archives
               PROVE  <<p, cards[p].at>> \notin given
    BY DEF NothingTwice
  <2>1. cards[p] = written[p] /\ written[p] # Absent /\ p \in Paths
    BY DEF Inv, Chain, Carded
  <2> QED BY <2>1 DEF Ungiven, NotGiven, Sent
<1> QED BY <1>1, <1>2, <1>3, PTL DEF Spec

=============================================================================
