--------------------------- MODULE ChatFeedProofs ---------------------------
(***************************************************************************)
(* Proofs about ChatFeed, for any set of pages and any bounds: the types   *)
(* hold; a page shows the events of a run once and in order; it skips none *)
(* that is kept; what it shows is kept, but for one event per STOP; and a  *)
(* reply's message is never seen next to the bubble of its tokens.         *)
(*                                                                         *)
(* What a page holds depends on what the streams and the document hold, so *)
(* these come first: the types and bounds, the phases, the streams, the    *)
(* document, then the page that a replay of the document gives, and last   *)
(* the pages.                                                              *)
(***************************************************************************)
EXTENDS ChatFeed, FiniteSetTheorems, TLAPS

EventKinds == {"nothing", "chunk", "last", "text", "step", "done", "user",
               "error"}
EventType == [id : Nat, kind : EventKinds, task : Nat, of : Nat]
ItemType == [kind : EventKinds \cup {"bubble"}, id : Nat, of : Nat]
PageType == [at : {"closed", "restored", "drain"}, task : Nat, cursor : Nat,
             items : Seq(ItemType), streaming : BOOLEAN, rewound : BOOLEAN,
             slipped : BOOLEAN]
SpeechType == [state : {"none", "open", "shut", "said"}, of : Nat]
LeftType == [puts : 0..MaxPuts, posts : 0..MaxPosts, reloads : 0..MaxReloads,
             troubles : 0..MaxTroubles]

TypeInv ==
  /\ clock \in Nat /\ task \in Nat /\ asked \in Nat
  /\ phase \in Phases /\ status \in Statuses
  /\ stream \in [Tasks -> Seq(EventType)]
  /\ doc \in Seq(EventType)
  /\ unsaved \in EventType
  /\ speech \in SpeechType
  /\ page \in [Pages -> PageType]
  /\ left \in LeftType

-----------------------------------------------------------------------------
(* The run: the clock is paid for by the bounds, and a session is RUNNING   *)
(* exactly while its task is in the registry.                               *)

Puts == MaxPuts - left.puts
Posts == MaxPosts - left.posts
Troubles == MaxTroubles - left.troubles

(* The events a run still has to put, whatever the user does.               *)
Owed == CASE phase \in {"turn", "stopped"} -> 1
          [] phase = "stopping" -> 2
          [] OTHER -> 0

Counts ==
  /\ clock + asked + Owed <= Puts + 2 * Posts + 2 * Troubles
  /\ task <= Posts /\ asked <= Posts

PhaseInv ==
  /\ phase # "none" => task # 0
  /\ Registered <=> status = "running"

-----------------------------------------------------------------------------
(* The streams: the ids follow the clock, nothing comes between the first   *)
(* token of a reply and the rest of it, and its last token is followed by   *)
(* nothing else of it but its message.                                      *)

RunKinds == {"chunk", "last", "text", "step", "done"}

EntriesInv ==
  \A t \in Tasks : \A i \in DOMAIN stream[t] :
    LET e == stream[t][i]
    IN  /\ e.kind \in RunKinds /\ e.task = t /\ t <= task
        /\ 1 <= e.id /\ e.id <= clock /\ e.of <= e.id
        /\ Transient(e) => 1 <= e.of
        /\ e.kind \in {"step", "done"} => e.of = 0

OrderInv ==
  \A t \in Tasks : \A i, j \in DOMAIN stream[t] :
    i < j => stream[t][i].id < stream[t][j].id

TasksInv ==
  \A t, u \in Tasks : t < u =>
    \A i \in DOMAIN stream[t], j \in DOMAIN stream[u] :
      stream[t][i].id < stream[u][j].id

ReplyInv ==
  \A t \in Tasks : \A i, j \in DOMAIN stream[t] :
    /\ i < j /\ stream[t][j].of # 0
    /\ stream[t][i].id >= stream[t][j].of
    => stream[t][i].of = stream[t][j].of

LastInv ==
  \A t \in Tasks : \A i, j \in DOMAIN stream[t] :
    /\ i < j /\ stream[t][i].kind = "last"
    /\ stream[t][j].of = stream[t][i].of
    => stream[t][j].kind = "text"

Speaks(x, states) == phase = "turn" /\ speech.state \in states /\ speech.of = x

SpeechInv ==
  phase = "turn" /\ speech.state \in {"open", "shut"} =>
    /\ 1 <= speech.of /\ speech.of <= clock
    /\ \A i \in DOMAIN stream[task] :
         LET e == stream[task][i]
         IN  /\ e.id >= speech.of => e.of = speech.of
             /\ speech.state = "open" /\ e.of = speech.of => e.kind # "last"

StreamInv ==
  EntriesInv /\ OrderInv /\ TasksInv /\ ReplyInv /\ LastInv /\ SpeechInv

-----------------------------------------------------------------------------
(* The document: the events of runs in the order of their ids, the user's   *)
(* messages and the errors of requests between them.                        *)

SavedKinds == {"text", "step", "done"}

SavedInv ==
  \A i \in DOMAIN doc :
    /\ doc[i].kind \in SavedKinds \cup {"user", "error"}
    /\ doc[i].id <= clock
    /\ doc[i].kind = "error" <=> doc[i].id = 0

SavedOrderInv ==
  \A i, j \in DOMAIN doc :
    i < j /\ doc[i].kind \in SavedKinds /\ doc[j].kind \in SavedKinds
      => doc[i].id < doc[j].id

UnsavedInv ==
  unsaved # NoEvent =>
    /\ unsaved.kind \in SavedKinds
    /\ 1 <= unsaved.id /\ unsaved.id <= clock
    /\ \A i \in DOMAIN doc :
         /\ doc[i].id # unsaved.id
         /\ doc[i].kind \in SavedKinds => doc[i].id < unsaved.id

NewestInv ==
  doc # <<>> /\ doc[Len(doc)].kind # "error" =>
    \A i \in DOMAIN doc :
      doc[i].kind \in SavedKinds => doc[i].id <= doc[Len(doc)].id

DocInv == SavedInv /\ SavedOrderInv /\ UnsavedInv /\ NewestInv

-----------------------------------------------------------------------------
(* What a replay of the document shows.                                     *)

Fresh(pg) == /\ pg.at = "closed" /\ pg.task = 0 /\ pg.streaming = FALSE
             /\ pg.rewound = FALSE /\ pg.slipped = FALSE

ReplayInv ==
  LET pg == Replayed(doc)
  IN  /\ pg \in PageType /\ Fresh(pg)
      /\ pg.cursor = (IF doc = <<>> THEN 0 ELSE doc[Len(doc)].id)
      /\ \A k \in DOMAIN pg.items : pg.items[k].kind # "bubble"
      /\ \A k \in DOMAIN pg.items : OfRun(pg.items[k]) =>
           \E i \in DOMAIN doc : pg.items[k] = Item(doc[i])
      /\ \A k, l \in DOMAIN pg.items :
           k < l /\ OfRun(pg.items[k]) /\ OfRun(pg.items[l])
             => pg.items[k].id < pg.items[l].id
      /\ \A i \in DOMAIN doc : OfRun(doc[i]) \/ doc[i].kind = "error" =>
           \E k \in DOMAIN pg.items : pg.items[k] = Item(doc[i])

-----------------------------------------------------------------------------
(* The pages.                                                               *)

Placed(p) ==
  /\ page[p].task <= task /\ page[p].cursor <= clock
  /\ page[p].at = "drain" => page[p].task # 0
  /\ \A t \in Tasks : page[p].task < t =>
       \A i \in DOMAIN stream[t] : stream[t][i].id > page[p].cursor

PlaceInv == \A p \in Pages : Placed(p)

HasError(pg) == \E k \in DOMAIN pg.items : pg.items[k].kind = "error"

(* The items of runs on a page are not ahead of its cursor, unless the last *)
(* event was an error: then the page is about to rewind.                    *)
InOrder(p) ==
  LET its == page[p].items
  IN  \A i, j \in DOMAIN its :
        i < j /\ OfRun(its[i]) /\ OfRun(its[j]) => its[i].id < its[j].id
NotAhead(p) ==
  \/ \A k \in DOMAIN page[p].items :
       OfRun(page[p].items[k]) => page[p].items[k].id <= page[p].cursor
  \/ page[p].cursor = 0 /\ page[p].at # "drain" /\ HasError(page[p])
Ordered(p) == ~page[p].rewound => InOrder(p) /\ NotAhead(p)

OrderedInv == \A p \in Pages : Ordered(p)

(* The last item of a page is no message while a bubble is being written.   *)
Writing(p) ==
  page[p].streaming =>
    /\ Len(page[p].items) > 0
    /\ page[p].items[Len(page[p].items)].kind # "text"

WritingInv == \A p \in Pages : Writing(p)

(* NothingMissed, for the event that is being written to the document too.  *)
Saved(e) == e = unsaved \/ \E i \in DOMAIN doc : doc[i] = e
InStream(t, e) == \E k \in DOMAIN stream[t] : stream[t][k] = e
Seen(p) ==
  ~page[p].slipped /\ page[p].task # 0 =>
    \A e \in EventType :
      /\ InStream(page[p].task, e)
      /\ OfRun(e) /\ e.id <= page[p].cursor /\ Saved(e)
      => Shows(p, e)

SeenInv == \A p \in Pages : Seen(p)

(* The messages and steps that are on a page or in a stream, and those of   *)
(* them that no document will ever have.                                    *)
Shown(it) == \E p \in Pages :
               \E k \in DOMAIN page[p].items : page[p].items[k] = it
Streamed(it) == \E t \in Tasks :
                  \E k \in DOMAIN stream[t] : Item(stream[t][k]) = it
Given(it) == OfRun(it) /\ (Shown(it) \/ Streamed(it))
Lost == {x \in 0..clock :
           \E it \in ItemType : it.id = x /\ Given(it) /\ ~Kept(it)}

GivenInv == \A it \in ItemType : Given(it) => it.id <= clock

LostInv == Cardinality(Lost) <= Troubles

(* A bubble of reply x with nothing of the user's behind it.                *)
Alone(p, k, x) ==
  LET its == page[p].items
  IN  /\ its[k].kind = "bubble" /\ its[k].of = x
      /\ \A l \in k..Len(its) : its[l].kind # "user"

(* No message of reply x can reach the page any more; no token of it can.   *)
Ahead(p, e) == InStream(page[p].task, e) /\ e.id > page[p].cursor
Spoken(p, x, states) == page[p].task = task /\ Speaks(x, states)
NoText(p, x) ==
  /\ \A e \in EventType : Ahead(p, e) => ~(e.kind = "text" /\ e.of = x)
  /\ ~Spoken(p, x, {"open", "shut"})
NoToken(p, x) ==
  /\ \A e \in EventType : Ahead(p, e) /\ e.of = x => e.kind = "text"
  /\ ~Spoken(p, x, {"open"})

AloneInv(p) ==
  LET n == Len(page[p].items)
  IN  \A k \in DOMAIN page[p].items, x \in Nat : Alone(p, k, x) =>
        /\ x <= page[p].cursor
        /\ k < n => NoText(p, x)
        /\ k = n /\ ~page[p].streaming => NoToken(p, x)

NoBubble(p) == \A k \in DOMAIN page[p].items : page[p].items[k].kind # "bubble"
Replies(p) == \A k \in DOMAIN page[p].items :
                page[p].items[k].kind = "bubble" => 1 <= page[p].items[k].of

Bubbles(p) ==
  /\ page[p].at = "restored" => page[p].streaming = FALSE /\ NoBubble(p)
  /\ Replies(p)
  /\ page[p].at = "drain" => AloneInv(p)

BubbleInv == \A p \in Pages : Bubbles(p)

-----------------------------------------------------------------------------
(* The fold that replays a document.  TLAPS has no induction to offer for   *)
(* it; but the document grows by one event at a time, and so does the       *)
(* function that folds over the sets of its positions.                      *)

Folder(f, s) ==
  f = [S \in SUBSET DOMAIN s |->
         IF S = {} THEN FreshPage
         ELSE Rendered(f[S \ {Max(S)}], s[Max(S)])]
TheFolder(s) == CHOOSE f : Folder(f, s)
LEMMA ReplayedIs == ASSUME NEW s PROVE Replayed(s) = TheFolder(s)[DOMAIN s]
BY DEF Replayed, FoldLeft, MapThenFoldSet, TheFolder, Folder

Foldable(s) ==
  /\ \E f : Folder(f, s)
  /\ \A f, g : Folder(f, s) /\ Folder(g, s) => f = g
  /\ \A S \in SUBSET DOMAIN s : S # {} => Max(S) \in S

LEMMA MaxOfAll ==
  ASSUME NEW n \in Nat, NEW S \in SUBSET (1..(n + 1)), (n + 1) \in S
  PROVE  Max(S) = n + 1
<1>1. \A x \in S : x \in Nat /\ n + 1 >= x
  <2> SUFFICES ASSUME NEW x \in S PROVE x \in Nat /\ n + 1 >= x
    OBVIOUS
  <2>1. x \in 1..(n + 1)
    OBVIOUS
  <2> QED BY <2>1
<1>2. \E x \in S : \A y \in S : x >= y
  BY <1>1
<1>3. Max(S) \in S /\ \A y \in S : Max(S) >= y
  BY <1>2 DEF Max
<1>4. Max(S) \in Nat /\ n + 1 >= Max(S)
  BY <1>1, <1>3
<1>5. Max(S) >= n + 1
  BY <1>3
<1> QED BY <1>4, <1>5

LEMMA FoldEmpty == Foldable(<<>>) /\ Replayed(<<>>) = FreshPage
<1>d. DOMAIN <<>> = {} /\ SUBSET {} = {{}}
  OBVIOUS
<1>f. PICK f : f = [S \in {{}} |-> FreshPage]
  OBVIOUS
<1>1. \A g : Folder(g, <<>>) <=> g = f
  BY <1>d, <1>f DEF Folder
<1>2. TheFolder(<<>>) = f
  BY <1>1 DEF TheFolder
<1>3. Replayed(<<>>) = FreshPage
  BY <1>2, <1>f, <1>d, ReplayedIs
<1>4. \A S \in SUBSET DOMAIN <<>> : S # {} => Max(S) \in S
  BY <1>d
<1> QED BY <1>1, <1>3, <1>4 DEF Foldable


(* The fold over one more event: a fold of the longer sequence is one of the *)
(* shorter, and one rendering for the sets with the new position.           *)
Grown(f, s, e) ==
  [S \in SUBSET DOMAIN Append(s, e) |->
     IF Len(s) + 1 \in S THEN Rendered(f[S \ {Len(s) + 1}], e) ELSE f[S]]
Shrunk(f, s) == [S \in SUBSET DOMAIN s |-> f[S]]

LEMMA FoldDomains ==
  ASSUME NEW E, NEW s \in Seq(E), NEW e \in E
  PROVE  /\ Len(s) \in Nat /\ DOMAIN s = 1..Len(s)
         /\ DOMAIN Append(s, e) = 1..(Len(s) + 1)
         /\ Append(s, e)[Len(s) + 1] = e
         /\ \A i \in DOMAIN s : Append(s, e)[i] = s[i]
OBVIOUS

LEMMA FoldGrows ==
  ASSUME NEW E, NEW s \in Seq(E), NEW e \in E, Foldable(s),
         NEW f, Folder(f, s)
  PROVE  Folder(Grown(f, s, e), Append(s, e))
<1> DEFINE t == Append(s, e)
           n == Len(s)
           g == Grown(f, s, e)
<1>d. /\ n \in Nat /\ DOMAIN s = 1..n /\ DOMAIN t = 1..(n + 1) /\ t[n + 1] = e
      /\ \A i \in DOMAIN s : t[i] = s[i]
  BY FoldDomains
<1> HIDE DEF t, n
<1>1. SUFFICES ASSUME NEW S \in SUBSET DOMAIN t
      PROVE  g[S] = IF S = {} THEN FreshPage
                    ELSE Rendered(g[S \ {Max(S)}], t[Max(S)])
  BY DEF Folder, Grown, t, n
<1>2. CASE S = {}
  <2>1. g[S] = f[S]
    BY <1>2 DEF Grown, n, t
  <2>2. f[S] = FreshPage
    BY <1>2 DEF Folder
  <2> QED BY <2>1, <2>2, <1>2
<1>3. CASE S # {} /\ n + 1 \in S
  <2>1. Max(S) = n + 1
    BY <1>3, <1>d, MaxOfAll
  <2>2. S \ {n + 1} \in SUBSET DOMAIN s /\ S \ {n + 1} \in SUBSET DOMAIN t
    BY <1>d
  <2>3. g[S] = Rendered(f[S \ {n + 1}], e)
    BY <1>3 DEF Grown, n, t
  <2>4. g[S \ {n + 1}] = f[S \ {n + 1}]
    BY <2>2 DEF Grown, n, t
  <2> QED BY <2>1, <2>3, <2>4, <1>3, <1>d
<1>4. CASE S # {} /\ n + 1 \notin S
  <2>1. S \in SUBSET DOMAIN s
    BY <1>4, <1>d
  <2>2. Max(S) \in S /\ Max(S) \in DOMAIN s
    BY <2>1, <1>4 DEF Foldable
  <2>3. g[S] = f[S]
    BY <1>4 DEF Grown, n, t
  <2>4. g[S \ {Max(S)}] = f[S \ {Max(S)}]
    BY <1>4 DEF Grown, n, t
  <2>5. f[S] = Rendered(f[S \ {Max(S)}], s[Max(S)])
    BY <2>1, <1>4 DEF Folder
  <2>6. t[Max(S)] = s[Max(S)]
    BY <2>2, <1>d
  <2> QED BY <2>3, <2>4, <2>5, <2>6, <1>4
<1> QED BY <1>2, <1>3, <1>4

LEMMA FoldShrinks ==
  ASSUME NEW E, NEW s \in Seq(E), NEW e \in E, Foldable(s),
         NEW g, Folder(g, Append(s, e))
  PROVE  /\ Folder(Shrunk(g, s), s)
         /\ g = Grown(Shrunk(g, s), s, e)
<1> DEFINE t == Append(s, e)
           n == Len(s)
           f == Shrunk(g, s)
<1>d. /\ n \in Nat /\ DOMAIN s = 1..n /\ DOMAIN t = 1..(n + 1) /\ t[n + 1] = e
      /\ \A i \in DOMAIN s : t[i] = s[i]
  BY FoldDomains
<1>g. /\ g = [S \in SUBSET DOMAIN t |-> g[S]]
      /\ \A S \in SUBSET DOMAIN t :
           g[S] = IF S = {} THEN FreshPage
                  ELSE Rendered(g[S \ {Max(S)}], t[Max(S)])
  BY DEF Folder
<1> HIDE DEF t, n
<1>1. \A S \in SUBSET DOMAIN s : f[S] = g[S]
  BY DEF Shrunk
<1>2. ASSUME NEW S \in SUBSET DOMAIN s
      PROVE  f[S] = IF S = {} THEN FreshPage
                    ELSE Rendered(f[S \ {Max(S)}], s[Max(S)])
  <2>1. CASE S = {}
    BY <2>1, <1>1, <1>g, <1>d
  <2>2. CASE S # {}
    <3>1. Max(S) \in DOMAIN s
      BY <2>2 DEF Foldable
    <3>2. t[Max(S)] = s[Max(S)]
      BY <3>1, <1>d
    <3>3. S \in SUBSET DOMAIN t
      BY <1>d
    <3>4. g[S] = Rendered(g[S \ {Max(S)}], t[Max(S)])
      BY <3>3, <2>2, <1>g
    <3>5. f[S] = g[S] /\ f[S \ {Max(S)}] = g[S \ {Max(S)}]
      BY <1>1
    <3> QED BY <3>2, <3>4, <3>5, <2>2
  <2> QED BY <2>1, <2>2
<1>3. Folder(f, s)
  BY <1>2 DEF Folder, Shrunk
<1>4. ASSUME NEW S \in SUBSET DOMAIN t
      PROVE  g[S] = IF n + 1 \in S THEN Rendered(f[S \ {n + 1}], e) ELSE f[S]
  <2>1. CASE n + 1 \in S
    <3>1. Max(S) = n + 1
      BY <2>1, <1>d, MaxOfAll
    <3>2. S \ {n + 1} \in SUBSET DOMAIN s
      BY <1>d
    <3>3. g[S] = Rendered(g[S \ {n + 1}], e)
      BY <3>1, <2>1, <1>g, <1>d
    <3>4. f[S \ {n + 1}] = g[S \ {n + 1}]
      BY <3>2, <1>1
    <3> QED BY <3>3, <3>4, <2>1
  <2>2. CASE n + 1 \notin S
    <3>1. S \in SUBSET DOMAIN s
      BY <2>2, <1>d
    <3> QED BY <3>1, <2>2, <1>1
  <2> QED BY <2>1, <2>2
<1>5. g = Grown(f, s, e)
  BY <1>4, <1>g DEF Grown, t, n
<1> QED BY <1>3, <1>5

(* A replay of one more event renders that event on the page so far.        *)
LEMMA ReplayGrows ==
  ASSUME NEW E, NEW s \in Seq(E), NEW e \in E, Foldable(s)
  PROVE  /\ Foldable(Append(s, e))
         /\ Replayed(Append(s, e)) = Rendered(Replayed(s), e)
<1> DEFINE t == Append(s, e)
           n == Len(s)
<1>d. /\ n \in Nat /\ DOMAIN s = 1..n /\ DOMAIN t = 1..(n + 1)
  BY FoldDomains
<1>f. PICK f : Folder(f, s)
  BY DEF Foldable
<1>1. Folder(Grown(f, s, e), t)
  BY <1>f, FoldGrows
<1>2. \A g : Folder(g, t) => g = Grown(f, s, e)
  <2> SUFFICES ASSUME NEW g, Folder(g, t) PROVE g = Grown(f, s, e)
    OBVIOUS
  <2>1. Folder(Shrunk(g, s), s) /\ g = Grown(Shrunk(g, s), s, e)
    BY FoldShrinks
  <2>2. Shrunk(g, s) = f
    BY <2>1, <1>f DEF Foldable
  <2> QED BY <2>1, <2>2
<1>3. \A S \in SUBSET DOMAIN t : S # {} => Max(S) \in S
  <2> SUFFICES ASSUME NEW S \in SUBSET DOMAIN t, S # {} PROVE Max(S) \in S
    OBVIOUS
  <2>1. CASE n + 1 \in S
    BY <2>1, <1>d, MaxOfAll
  <2>2. CASE n + 1 \notin S
    <3>1. S \in SUBSET DOMAIN s
      BY <2>2, <1>d
    <3> QED BY <3>1 DEF Foldable
  <2> QED BY <2>1, <2>2
<1>4. Foldable(t)
  BY <1>1, <1>2, <1>3 DEF Foldable
<1>5. TheFolder(s) = f
  BY <1>f DEF Foldable, TheFolder
<1>6. TheFolder(t) = Grown(f, s, e)
  BY <1>1, <1>2 DEF TheFolder
<1>7. Grown(f, s, e)[DOMAIN t] = Rendered(f[DOMAIN t \ {n + 1}], e)
  BY <1>d DEF Grown
<1>8. DOMAIN t \ {n + 1} = DOMAIN s
  BY <1>d
<1>9. Replayed(t) = Rendered(Replayed(s), e)
  BY <1>5, <1>6, <1>7, <1>8, ReplayedIs
<1> QED BY <1>4, <1>9

-----------------------------------------------------------------------------
(* What an event does to a page.                                            *)

LEMMA ItemTyped ==
  ASSUME NEW e \in EventType
  PROVE  /\ Item(e) \in ItemType
         /\ Item(e).kind = e.kind /\ Item(e).id = e.id /\ Item(e).of = e.of
BY DEF Item, ItemType, EventType

LEMMA WithoutBubbleParts ==
  ASSUME NEW pg \in PageType
  PROVE  /\ WithoutBubble(pg) \in Seq(ItemType)
         /\ \A k \in 1..Len(WithoutBubble(pg)) : WithoutBubble(pg)[k] = pg.items[k]
         /\ \/ Len(WithoutBubble(pg)) = Len(pg.items)
            \/ /\ Len(pg.items) > 0
               /\ Len(WithoutBubble(pg)) = Len(pg.items) - 1
               /\ \/ pg.items[Len(pg.items)].kind = "bubble"
                  \/ /\ pg.streaming
                     /\ pg.items[Len(pg.items)].kind \in {"text", "error"}
         /\ Len(pg.items) > 0 /\ pg.items[Len(pg.items)].kind = "bubble"
              => Len(WithoutBubble(pg)) = Len(pg.items) - 1
<1> DEFINE its == pg.items
           n == Len(its)
           w == WithoutBubble(pg)
<1>1. its \in Seq(ItemType) /\ n \in Nat /\ pg.streaming \in BOOLEAN
  BY DEF PageType
<1>2. CASE n > 0 /\ its[n].kind \in
             (IF pg.streaming THEN {"bubble", "text", "error"} ELSE {"bubble"})
  <2>1. w = SubSeq(its, 1, n - 1)
    BY <1>2 DEF WithoutBubble, Front
  <2>2. w \in Seq(ItemType) /\ Len(w) = n - 1 /\ \A k \in 1..(n - 1) : w[k] = its[k]
    BY <2>1, <1>1, <1>2
  <2>3. \/ its[n].kind = "bubble"
        \/ pg.streaming /\ its[n].kind \in {"text", "error"}
    BY <1>2
  <2> QED BY <2>2, <2>3, <1>2
<1>3. CASE ~(n > 0 /\ its[n].kind \in
               (IF pg.streaming THEN {"bubble", "text", "error"} ELSE {"bubble"}))
  <2>1. w = its
    BY <1>3 DEF WithoutBubble
  <2>2. ~(n > 0 /\ its[n].kind = "bubble")
    BY <1>3
  <2> QED BY <2>1, <2>2, <1>1
<1> QED BY <1>2, <1>3

LEMMA RenderedFields ==
  ASSUME NEW pg \in PageType, NEW e \in EventType
  PROVE  /\ Rendered(pg, e).cursor = e.id
         /\ Rendered(pg, e).at = pg.at /\ Rendered(pg, e).task = pg.task
         /\ Rendered(pg, e).rewound = pg.rewound
         /\ Rendered(pg, e).slipped = pg.slipped
BY DEF Rendered, PageType

LEMMA RenderedMessage ==
  ASSUME NEW pg \in PageType, NEW e \in EventType, e.kind \in {"text", "user"}
  PROVE  /\ Rendered(pg, e).items = Append(WithoutBubble(pg), Item(e))
         /\ Rendered(pg, e).streaming = FALSE
BY DEF Rendered, PageType

LEMMA RenderedBubble ==
  ASSUME NEW pg \in PageType, NEW e \in EventType, Transient(e), ~pg.streaming
  PROVE  /\ Rendered(pg, e).items =
              Append(pg.items, [Item(e) EXCEPT !.kind = "bubble"])
         /\ Rendered(pg, e).streaming = TRUE
BY DEF Rendered, PageType, Transient

LEMMA RenderedToken ==
  ASSUME NEW pg \in PageType, NEW e \in EventType, Transient(e), pg.streaming
  PROVE  /\ Rendered(pg, e).items = pg.items
         /\ Rendered(pg, e).streaming = (e.kind # "last")
BY DEF Rendered, PageType, Transient

LEMMA RenderedItem ==
  ASSUME NEW pg \in PageType, NEW e \in EventType, e.kind \in {"step", "error"}
  PROVE  /\ Rendered(pg, e).items = Append(pg.items, Item(e))
         /\ Rendered(pg, e).streaming = pg.streaming
BY DEF Rendered, PageType

LEMMA RenderedDone ==
  ASSUME NEW pg \in PageType, NEW e \in EventType, e.kind \in {"done", "nothing"}
  PROVE  /\ Rendered(pg, e).items = pg.items
         /\ Rendered(pg, e).streaming = pg.streaming
BY DEF Rendered, PageType

LEMMA RenderedTyped ==
  ASSUME NEW pg \in PageType, NEW e \in EventType
  PROVE  Rendered(pg, e) \in PageType
<1> DEFINE r == Rendered(pg, e)
<1>i. Item(e) \in ItemType /\ [Item(e) EXCEPT !.kind = "bubble"] \in ItemType
  BY ItemTyped DEF ItemType
<1>p. pg.items \in Seq(ItemType) /\ pg.streaming \in BOOLEAN
  BY DEF PageType
<1>w. WithoutBubble(pg) \in Seq(ItemType)
  BY WithoutBubbleParts
<1>1. r.items \in Seq(ItemType) /\ r.streaming \in BOOLEAN
  <2>1. CASE e.kind \in {"text", "user"}
    <3>1. Append(WithoutBubble(pg), Item(e)) \in Seq(ItemType)
      BY <1>i, <1>w
    <3>2. r.items = Append(WithoutBubble(pg), Item(e)) /\ r.streaming = FALSE
      BY <2>1, RenderedMessage
    <3> QED BY <3>1, <3>2
  <2>2. CASE Transient(e) /\ ~pg.streaming
    <3>1. Append(pg.items, [Item(e) EXCEPT !.kind = "bubble"]) \in Seq(ItemType)
      BY <1>i, <1>p
    <3>2. /\ r.items = Append(pg.items, [Item(e) EXCEPT !.kind = "bubble"])
          /\ r.streaming = TRUE
      BY <2>2, RenderedBubble
    <3> QED BY <3>1, <3>2
  <2>3. CASE Transient(e) /\ pg.streaming
    BY <2>3, <1>p, RenderedToken
  <2>4. CASE e.kind \in {"step", "error"}
    <3>1. Append(pg.items, Item(e)) \in Seq(ItemType)
      BY <1>i, <1>p
    <3>2. r.items = Append(pg.items, Item(e)) /\ r.streaming = pg.streaming
      BY <2>4, RenderedItem
    <3> QED BY <3>1, <3>2, <1>p
  <2>5. CASE e.kind \in {"done", "nothing"}
    BY <2>5, <1>p, RenderedDone
  <2> QED BY <2>1, <2>2, <2>3, <2>4, <2>5 DEF Transient, EventType, EventKinds
<1>2. r = [pg EXCEPT !.cursor = e.id, !.items = r.items, !.streaming = r.streaming]
  BY DEF Rendered, PageType
<1> QED BY <1>1, <1>2 DEF PageType, EventType

(* However an event is rendered, a page keeps its first items, of which the *)
(* last may go for a message, and gets one more item at most: the event's.  *)
LEMMA RenderedItems ==
  ASSUME NEW pg \in PageType, NEW e \in EventType
  PROVE  \E m \in Nat :
           /\ m = Len(pg.items) \/ m + 1 = Len(pg.items)
           /\ m + 1 = Len(pg.items) =>
                /\ e.kind \in {"text", "user"}
                /\ \/ pg.items[m + 1].kind = "bubble"
                   \/ pg.streaming /\ pg.items[m + 1].kind \in {"text", "error"}
           /\ \A k \in 1..m : Rendered(pg, e).items[k] = pg.items[k]
           /\ \/ Len(Rendered(pg, e).items) = m
              \/ /\ Len(Rendered(pg, e).items) = m + 1
                 /\ Rendered(pg, e).items[m + 1].id = e.id
                 /\ Rendered(pg, e).items[m + 1].of = e.of
                 /\ \/ /\ Rendered(pg, e).items[m + 1] = Item(e)
                       /\ e.kind \in {"text", "user", "step", "error"}
                    \/ /\ Rendered(pg, e).items[m + 1].kind = "bubble"
                       /\ Transient(e) /\ ~pg.streaming
<1> DEFINE r == Rendered(pg, e)
           its == pg.items
           n == Len(its)
<1>i. /\ Item(e) \in ItemType
      /\ Item(e).kind = e.kind /\ Item(e).id = e.id /\ Item(e).of = e.of
  BY ItemTyped
<1>p. its \in Seq(ItemType) /\ n \in Nat /\ pg.streaming \in BOOLEAN
  BY DEF PageType
<1>1. CASE e.kind \in {"text", "user"}
  <2> DEFINE w == WithoutBubble(pg)
  <2>w. w \in Seq(ItemType) /\ Len(w) \in Nat
    BY WithoutBubbleParts
  <2>1. r.items = Append(w, Item(e))
    BY <1>1, RenderedMessage
  <2> HIDE DEF w
  <2>2. /\ Len(r.items) = Len(w) + 1 /\ r.items[Len(w) + 1] = Item(e)
        /\ \A k \in 1..Len(w) : r.items[k] = w[k]
    BY <2>w, <2>1, <1>i
  <2>3. \A k \in 1..Len(w) : w[k] = its[k]
    BY WithoutBubbleParts DEF w
  <2>4. \/ Len(w) = n
        \/ /\ n > 0 /\ Len(w) = n - 1
           /\ \/ its[n].kind = "bubble"
              \/ pg.streaming /\ its[n].kind \in {"text", "error"}
    BY WithoutBubbleParts DEF w
  <2>5. \/ Len(w) = n
        \/ /\ Len(w) + 1 = n
           /\ \/ its[Len(w) + 1].kind = "bubble"
              \/ pg.streaming /\ its[Len(w) + 1].kind \in {"text", "error"}
    BY <2>4, <2>w, <1>p
  <2> WITNESS Len(w) \in Nat
  <2> QED BY <2>2, <2>3, <2>5, <2>w, <1>i, <1>1, <1>p
<1>2. CASE Transient(e) /\ ~pg.streaming
  <2> DEFINE it == [Item(e) EXCEPT !.kind = "bubble"]
  <2>1. it \in ItemType /\ it.kind = "bubble" /\ it.id = e.id /\ it.of = e.of
    BY <1>i DEF ItemType
  <2>2. r.items = Append(its, it)
    BY <1>2, RenderedBubble
  <2> HIDE DEF it
  <2>3. /\ Len(r.items) = n + 1 /\ r.items[n + 1] = it
        /\ \A k \in 1..n : r.items[k] = its[k]
    BY <2>1, <2>2, <1>p
  <2> WITNESS n \in Nat
  <2> QED BY <2>1, <2>3, <1>2, <1>p
<1>3. CASE e.kind \in {"step", "error"}
  <2>1. r.items = Append(its, Item(e))
    BY <1>3, RenderedItem
  <2>2. /\ Len(r.items) = n + 1 /\ r.items[n + 1] = Item(e)
        /\ \A k \in 1..n : r.items[k] = its[k]
    BY <2>1, <1>p, <1>i
  <2> WITNESS n \in Nat
  <2> QED BY <2>2, <1>i, <1>3, <1>p
<1>4. CASE (Transient(e) /\ pg.streaming) \/ e.kind \in {"done", "nothing"}
  <2>1. r.items = its
    BY <1>4, RenderedToken, RenderedDone
  <2> WITNESS n \in Nat
  <2> QED BY <2>1, <1>p
<1> QED BY <1>1, <1>2, <1>3, <1>4 DEF Transient, EventType, EventKinds

-----------------------------------------------------------------------------
(* What the actions do.                                                     *)

LEMMA BoundsTyped ==
  /\ Capacity \in Nat /\ Capacity > 0
  /\ MaxPuts \in Nat /\ MaxPosts \in Nat /\ MaxReloads \in Nat
  /\ MaxTroubles \in Nat
BY BoundsAreNaturals

LEMMA EventTyped ==
  ASSUME NEW i \in Nat, NEW kind \in EventKinds, NEW t \in Nat, NEW of \in Nat
  PROVE  /\ Event(i, kind, t, of) \in EventType
         /\ Event(i, kind, t, of).id = i /\ Event(i, kind, t, of).kind = kind
         /\ Event(i, kind, t, of).task = t /\ Event(i, kind, t, of).of = of
BY DEF Event, EventType

(* Trimming takes entries from the front.                                   *)
LEMMA TrimmedParts ==
  ASSUME NEW E, NEW s \in Seq(E)
  PROVE  /\ Trimmed(s) \in Seq(E)
         /\ \E d \in Nat : /\ Len(Trimmed(s)) + d = Len(s)
                           /\ \A k \in 1..Len(Trimmed(s)) : Trimmed(s)[k] = s[k + d]
<1>c. Capacity \in Nat /\ Len(s) \in Nat
  BY BoundsTyped
<1>1. CASE Len(s) > Capacity
  <2> DEFINE d == Len(s) - Capacity
  <2>1. d \in Nat /\ d + 1 \in Nat
    BY <1>1, <1>c
  <2>2. Trimmed(s) = SubSeq(s, d + 1, Len(s))
    BY <1>1 DEF Trimmed
  <2>3. /\ SubSeq(s, d + 1, Len(s)) \in Seq(E)
        /\ Len(SubSeq(s, d + 1, Len(s))) = Capacity
        /\ \A k \in 1..Capacity : SubSeq(s, d + 1, Len(s))[k] = s[k + d]
    BY <1>1, <1>c
  <2>4. Capacity + d = Len(s)
    BY <1>c
  <2> QED BY <2>1, <2>2, <2>3, <2>4
<1>2. CASE ~(Len(s) > Capacity)
  <2>1. Trimmed(s) = s
    BY <1>2 DEF Trimmed
  <2>2. Len(s) + 0 = Len(s) /\ \A k \in 1..Len(s) : s[k] = s[k + 0]
    BY <1>c
  <2> QED BY <2>1, <2>2
<1> QED BY <1>1, <1>2

(* The stream of the task after a put: the entries that were there, from    *)
(* some position on, and the new one.                                       *)
Grows(e, d) ==
  \A k \in DOMAIN stream'[task] :
    /\ k + d \in 1..(Len(stream[task]) + 1)
    /\ stream'[task][k] = IF k + d = Len(stream[task]) + 1 THEN e
                          ELSE stream[task][k + d]

LEMMA PutParts ==
  ASSUME TypeInv, task \in Tasks, NEW kind \in RunKinds, NEW of \in Nat,
         Put(kind, of)
  PROVE  LET e == Event(clock + 1, kind, task, of)
         IN  /\ e \in EventType /\ e.id = clock + 1 /\ e.kind = kind
             /\ e.task = task /\ e.of = of
             /\ clock' = clock + 1
             /\ unsaved = NoEvent
             /\ unsaved' = (IF Transient(e) THEN NoEvent ELSE e)
             /\ UNCHANGED <<task, status, asked, doc, page>>
             /\ stream' \in [Tasks -> Seq(EventType)]
             /\ \A t \in Tasks \ {task} : stream'[t] = stream[t]
             /\ \E d \in Nat : Grows(e, d)
<1> DEFINE e == Event(clock + 1, kind, task, of)
           s == stream[task]
           u == Trimmed(Append(s, e))
<1>e. /\ e \in EventType /\ e.id = clock + 1 /\ e.kind = kind
      /\ e.task = task /\ e.of = of
  <2>1. clock + 1 \in Nat /\ kind \in EventKinds /\ task \in Nat
    BY DEF TypeInv, RunKinds, EventKinds
  <2> QED BY <2>1, EventTyped
<1>s. s \in Seq(EventType) /\ stream \in [Tasks -> Seq(EventType)]
  BY DEF TypeInv
<1>p. /\ clock' = clock + 1 /\ unsaved = NoEvent
      /\ unsaved' = (IF Transient(e) THEN NoEvent ELSE e)
      /\ UNCHANGED <<task, status, asked, doc, page>>
      /\ stream' = [stream EXCEPT ![task] = u]
  BY DEF Put
<1> HIDE DEF e
<1>a. Append(s, e) \in Seq(EventType) /\ Len(Append(s, e)) = Len(s) + 1
      /\ \A k \in 1..(Len(s) + 1) :
           Append(s, e)[k] = IF k = Len(s) + 1 THEN e ELSE s[k]
  BY <1>e, <1>s
<1>u. /\ u \in Seq(EventType)
      /\ \E d \in Nat : /\ Len(u) + d = Len(Append(s, e))
                        /\ \A k \in 1..Len(u) : u[k] = Append(s, e)[k + d]
  BY <1>a, TrimmedParts
<1> HIDE DEF u
<1>1. stream'[task] = u /\ \A t \in Tasks \ {task} : stream'[t] = stream[t]
  BY <1>p, <1>s
<1>2. stream' \in [Tasks -> Seq(EventType)]
  BY <1>p, <1>s, <1>u
<1>3. PICK d \in Nat : /\ Len(u) + d = Len(s) + 1
                       /\ \A k \in 1..Len(u) : u[k] = Append(s, e)[k + d]
  BY <1>u, <1>a
<1>4. ASSUME NEW k \in DOMAIN u
      PROVE  /\ k + d \in 1..(Len(s) + 1)
             /\ u[k] = IF k + d = Len(s) + 1 THEN e ELSE s[k + d]
  <2>1. k \in 1..Len(u) /\ Len(u) \in Nat /\ Len(s) \in Nat
    BY <1>u, <1>s
  <2>2. k + d \in 1..(Len(s) + 1)
    BY <2>1, <1>3
  <2> QED BY <2>1, <2>2, <1>3, <1>a
<1>5. Grows(e, d)
  BY <1>1, <1>4 DEF Grows
<1> QED BY <1>e, <1>p, <1>1, <1>2, <1>5 DEF e

(* The steps that put an event of a run.                                    *)
PutStep == Speak \/ Say \/ Work \/ Finish \/ SayStopped

(* What one of them says of the event, and of the speech it belongs to.     *)
PutsOf(kind, of) ==
  /\ kind \in {"chunk", "last"} =>
       /\ phase = "turn"
       /\ \/ speech.state = "none" /\ kind = "chunk" /\ of = clock + 1
          \/ speech.state = "open" /\ of = speech.of
       /\ speech'.of = of
       /\ speech'.state = (IF kind = "last" THEN "shut" ELSE "open")
  /\ kind = "text" =>
       of = 0 \/ (phase = "turn" /\ speech.state = "shut" /\ of = speech.of)
  /\ kind \in {"step", "done"} => of = 0
  /\ kind \notin {"chunk", "last"} =>
       ~(phase' = "turn" /\ speech'.state \in {"open", "shut"})

LEMMA PutStepParts ==
  ASSUME TypeInv, PutStep
  PROVE  /\ \E kind \in RunKinds, of \in Nat : Put(kind, of) /\ PutsOf(kind, of)
         /\ phase' \in Phases /\ speech' \in SpeechType
         /\ Registered' = Registered
         /\ phase \notin {"none", "boot", "gone"}
         /\ phase' # "none" /\ phase' # "boot" /\ phase' # "gone"
         /\ left' \in LeftType /\ left'.posts = left.posts
         /\ left'.troubles = left.troubles
<1>t. /\ speech \in SpeechType /\ clock \in Nat /\ left \in LeftType
      /\ phase \in Phases /\ asked \in Nat
  BY DEF TypeInv
<1>s. ASSUME Spend("puts")
      PROVE  /\ left' \in LeftType /\ left'.posts = left.posts
             /\ left'.troubles = left.troubles
  <2>1. left.puts \in 0..MaxPuts /\ left.puts > 0
    BY <1>t, <1>s DEF Spend, LeftType
  <2>2. left.puts - 1 \in 0..MaxPuts
    BY <2>1, BoundsTyped
  <2>3. left' = [left EXCEPT !.puts = left.puts - 1]
    BY <1>s DEF Spend
  <2> QED BY <2>2, <2>3, <1>t DEF LeftType
<1>1. CASE Speak
  <2> DEFINE of == IF speech.state = "none" THEN clock + 1 ELSE speech.of
  <2>1. /\ phase = "turn" /\ speech.state \in {"none", "open"} /\ Spend("puts")
        /\ phase' = Looked
    BY <1>1 DEF Speak
  <2>2. PICK kind \in (IF speech.state = "none" THEN {"chunk"} ELSE {"chunk", "last"}) :
          /\ Put(kind, of)
          /\ speech' = [state |-> IF kind = "last" THEN "shut" ELSE "open", of |-> of]
    BY <1>1 DEF Speak
  <2>3. of \in Nat /\ kind \in RunKinds /\ kind \in {"chunk", "last"}
    BY <2>2, <1>t DEF RunKinds, SpeechType
  <2>4. speech' \in SpeechType /\ speech'.of = of
        /\ speech'.state = (IF kind = "last" THEN "shut" ELSE "open")
    BY <2>2, <2>3 DEF SpeechType
  <2>5. \/ speech.state = "none" /\ kind = "chunk" /\ of = clock + 1
        \/ speech.state = "open" /\ of = speech.of
    BY <2>1, <2>2
  <2> HIDE DEF of
  <2>6. PutsOf(kind, of)
    BY <2>1, <2>3, <2>4, <2>5 DEF PutsOf
  <2>7. phase' \in {"turn", "over"}
    BY <2>1 DEF Looked
  <2> QED BY <2>1, <2>2, <2>3, <2>4, <2>6, <2>7, <1>s DEF Registered, Phases
<1>2. CASE Say
  <2> DEFINE of == IF speech.state = "shut" THEN speech.of ELSE 0
  <2>1. /\ phase = "turn" /\ Spend("puts") /\ Put("text", of)
        /\ speech' = [state |-> "said", of |-> 0] /\ phase' = phase
    BY <1>2 DEF Say
  <2>2. of \in Nat /\ speech' \in SpeechType /\ speech'.state = "said"
    BY <2>1, <1>t DEF SpeechType
  <2>3. PutsOf("text", of)
    BY <2>1, <2>2 DEF PutsOf
  <2> HIDE DEF of
  <2>4. "text" \in RunKinds
    BY DEF RunKinds
  <2> QED BY <2>1, <2>2, <2>3, <2>4, <1>s, <1>t DEF Registered
<1>3. CASE Work
  <2>1. /\ phase = "turn" /\ Spend("puts") /\ Put("step", 0)
        /\ speech' = [state |-> "said", of |-> 0] /\ phase' = phase
    BY <1>3 DEF Work
  <2>2. speech' \in SpeechType /\ speech'.state = "said"
    BY <2>1 DEF SpeechType
  <2>3. PutsOf("step", 0) /\ "step" \in RunKinds
    BY <2>1, <2>2 DEF PutsOf, RunKinds
  <2> QED BY <2>1, <2>2, <2>3, <1>s, <1>t DEF Registered
<1>4. CASE Finish
  <2>1. /\ phase = "turn" /\ Put("done", 0) /\ phase' = "over"
        /\ UNCHANGED <<speech, left>>
    BY <1>4 DEF Finish
  <2>2. PutsOf("done", 0) /\ "done" \in RunKinds
    BY <2>1 DEF PutsOf, RunKinds
  <2> QED BY <2>1, <2>2, <1>t DEF Registered, Phases
<1>5. CASE SayStopped
  <2>1. UNCHANGED <<speech, left>>
    BY <1>5 DEF SayStopped
  <2>2. \/ phase = "stopping" /\ Put("text", 0) /\ phase' = "stopped"
        \/ phase = "stopped" /\ Put("done", 0) /\ phase' = "ending"
    BY <1>5 DEF SayStopped
  <2>3. "text" \in RunKinds /\ "done" \in RunKinds
    BY DEF RunKinds
  <2>4. CASE phase = "stopping" /\ Put("text", 0) /\ phase' = "stopped"
    <3>1. PutsOf("text", 0)
      BY <2>4 DEF PutsOf
    <3> QED BY <3>1, <2>1, <2>3, <2>4, <1>t DEF Registered, Phases
  <2>5. CASE phase = "stopped" /\ Put("done", 0) /\ phase' = "ending"
    <3>1. PutsOf("done", 0)
      BY <2>5 DEF PutsOf
    <3> QED BY <3>1, <2>1, <2>3, <2>5, <1>t DEF Registered, Phases
  <2> QED BY <2>2, <2>4, <2>5
<1> QED BY <1>1, <1>2, <1>3, <1>4, <1>5 DEF PutStep

(* A message of the user goes to the document, and to the run or to a new   *)
(* task.                                                                    *)
LEMMA TakeMessageParts ==
  ASSUME TypeInv, Counts, PhaseInv, TakeMessage
  PROVE  /\ Message \in EventType /\ Message.kind = "user"
         /\ Message.id = clock + 1 /\ clock' = clock + 1
         /\ doc' = Append(doc, Message)
         /\ UNCHANGED <<stream, unsaved, speech>>
         /\ left' \in LeftType /\ left.posts > 0 /\ left'.posts = left.posts - 1
         /\ left'.puts = left.puts /\ left'.troubles = left.troubles
         /\ \/ /\ status = "running" /\ Registered /\ asked' = asked + 1
               /\ UNCHANGED <<task, phase, status>>
            \/ /\ status # "running" /\ ~Registered
               /\ phase \in {"none", "gone"}
               /\ asked' = 1 /\ task' = task + 1 /\ phase' = "boot"
               /\ status' \in {"paused", "queued"}
<1>t. clock \in Nat /\ left \in LeftType /\ task \in Nat
  BY DEF TypeInv
<1>l. left.posts \in 0..MaxPosts /\ left.posts > 0
  BY <1>t DEF TakeMessage, Spend, LeftType
<1>1. left.posts - 1 \in 0..MaxPosts /\ MaxPosts - left.posts + 1 \in Nat
  BY <1>l, BoundsTyped
<1>2. Message \in EventType /\ Message.kind = "user" /\ Message.id = clock + 1
  <2>1. clock + 1 \in Nat /\ "user" \in EventKinds
    BY <1>t DEF EventKinds
  <2> QED BY <2>1, <1>1, EventTyped DEF Message, UserEventId
<1>3. left' = [left EXCEPT !.posts = left.posts - 1]
  BY DEF TakeMessage, Spend
<1>4. /\ left' \in LeftType /\ left'.posts = left.posts - 1
      /\ left'.puts = left.puts /\ left'.troubles = left.troubles
  BY <1>1, <1>3, <1>t DEF LeftType
<1>5. /\ doc' = Append(doc, Message) /\ clock' = clock + 1
      /\ UNCHANGED <<stream, unsaved, speech>>
      /\ phase \in {"none", "turn", "over", "gone"}
  BY DEF TakeMessage
<1>6. CASE status = "running"
  <2>1. asked' = asked + 1 /\ UNCHANGED <<task, phase, status>>
    BY <1>6 DEF TakeMessage, Joins
  <2> QED BY <2>1, <1>2, <1>4, <1>5, <1>l, <1>6 DEF PhaseInv
<1>7. CASE status # "running"
  <2>1. /\ asked' = 1 /\ task' = task + 1 /\ phase' = "boot"
        /\ status' \in {"paused", "queued"}
    BY <1>7 DEF TakeMessage, Joins
  <2> QED BY <2>1, <1>2, <1>4, <1>5, <1>l, <1>7 DEF PhaseInv, Registered
<1> QED BY <1>6, <1>7

(* A page step leaves the other pages alone.                                *)
OnlyPage(p) == /\ page' \in [Pages -> PageType]
               /\ \A q \in Pages \ {p} : page'[q] = page[q]

LEMMA OnePage ==
  ASSUME TypeInv, NEW p \in Pages, NEW pg \in PageType,
         page' = [page EXCEPT ![p] = pg]
  PROVE  OnlyPage(p) /\ page'[p] = pg
BY DEF TypeInv, OnlyPage

(* A connection that is opened: the items stay, and the page may rewind.    *)
LEMMA DrainingParts ==
  ASSUME NEW pg \in PageType, NEW t \in Nat
  PROVE  /\ Draining(pg, t) \in PageType
         /\ Draining(pg, t).at = "drain" /\ Draining(pg, t).task = t
         /\ Draining(pg, t).cursor = pg.cursor /\ Draining(pg, t).items = pg.items
         /\ Draining(pg, t).streaming = pg.streaming
         /\ Draining(pg, t).slipped = pg.slipped
         /\ Draining(pg, t).rewound <=>
              pg.rewound \/ (pg.cursor = 0 /\ HasError(pg))
BY DEF Draining, PageType, HasError

LEMMA PostParts ==
  ASSUME TypeInv, Counts, PhaseInv, NEW p \in Pages, Post(p)
  PROVE  /\ TakeMessage /\ OnlyPage(p)
         /\ page'[p].at = "drain" /\ page'[p].task = task'
         /\ page'[p].cursor = page[p].cursor
         /\ page'[p].streaming = page[p].streaming
         /\ page'[p].slipped = page[p].slipped
         /\ page[p].rewound => page'[p].rewound
         /\ page[p].cursor = 0 /\ HasError(page[p]) => page'[p].rewound
         /\ \E it \in ItemType :
              /\ it.kind = "user" /\ it.id = 0
              /\ page'[p].items = Append(page[p].items, it)
<1>1. TakeMessage
  BY DEF Post
<1>2. Message \in EventType /\ Message.kind = "user" /\ task' \in Nat
  BY <1>1, TakeMessageParts DEF TypeInv
<1> DEFINE it == [Item(Message) EXCEPT !.id = 0]
           shown == [page[p] EXCEPT !.items = Append(@, it)]
<1>3. it \in ItemType /\ it.kind = "user" /\ it.id = 0
  BY <1>2, ItemTyped DEF ItemType
<1>4. page' = [page EXCEPT ![p] = Draining(shown, task')]
  BY DEF Post
<1>5. page[p] \in PageType
  BY DEF TypeInv
<1> HIDE DEF it
<1>6. page[p].items \in Seq(ItemType) /\ Append(page[p].items, it) \in Seq(ItemType)
  BY <1>3, <1>5 DEF PageType
<1>7. /\ shown \in PageType /\ shown.items = Append(page[p].items, it)
      /\ shown.cursor = page[p].cursor /\ shown.streaming = page[p].streaming
      /\ shown.slipped = page[p].slipped /\ shown.rewound = page[p].rewound
  BY <1>5, <1>6 DEF PageType
<1>8. HasError(page[p]) => HasError(shown)
  <2> SUFFICES ASSUME NEW k \in DOMAIN page[p].items, page[p].items[k].kind = "error"
               PROVE  HasError(shown)
    BY DEF HasError
  <2>1. k \in DOMAIN shown.items /\ shown.items[k] = page[p].items[k]
    BY <1>3, <1>6, <1>7
  <2> QED BY <2>1 DEF HasError
<1> HIDE DEF shown
<1>9. OnlyPage(p) /\ page'[p] = Draining(shown, task')
  <2>1. Draining(shown, task') \in PageType
    BY <1>2, <1>7, DrainingParts
  <2> QED BY <2>1, <1>4, OnePage
<1>10. /\ page'[p].at = "drain" /\ page'[p].task = task'
       /\ page'[p].cursor = shown.cursor /\ page'[p].items = shown.items
       /\ page'[p].streaming = shown.streaming
       /\ page'[p].slipped = shown.slipped
       /\ page'[p].rewound <=>
            shown.rewound \/ (shown.cursor = 0 /\ HasError(shown))
  <2> DEFINE pg == Draining(shown, task')
  <2>1. shown \in PageType /\ task' \in Nat
    BY <1>2, <1>7
  <2>2. /\ pg.at = "drain" /\ pg.task = task'
        /\ pg.cursor = shown.cursor /\ pg.items = shown.items
        /\ pg.streaming = shown.streaming /\ pg.slipped = shown.slipped
        /\ pg.rewound <=> shown.rewound \/ (shown.cursor = 0 /\ HasError(shown))
    BY <2>1, DrainingParts
  <2>3. page'[p] = pg
    BY <1>9
  <2> QED BY <2>2, <2>3
<1> QED BY <1>1, <1>3, <1>7, <1>8, <1>9, <1>10

LEMMA ReloadParts ==
  ASSUME TypeInv, Replayed(doc) \in PageType, NEW p \in Pages, Reload(p)
  PROVE  /\ UNCHANGED <<clock, task, phase, status, asked, speech, stream, doc,
                        unsaved>>
         /\ left' \in LeftType /\ left'.posts = left.posts
         /\ left'.puts = left.puts /\ left'.troubles = left.troubles
         /\ OnlyPage(p)
         /\ page'[p].at \in {"restored", "closed"} /\ page'[p].task = task
         /\ page'[p].cursor = Replayed(doc).cursor
         /\ page'[p].items = Replayed(doc).items
         /\ page'[p].streaming = Replayed(doc).streaming
         /\ page'[p].rewound = Replayed(doc).rewound
         /\ page'[p].slipped <=> /\ unsaved # NoEvent /\ doc # <<>>
                                 /\ doc[Len(doc)].id > unsaved.id
<1> DEFINE pg == [Replayed(doc) EXCEPT
             !.at = IF status \in {"queued", "running"} THEN "restored" ELSE "closed",
             !.task = task,
             !.slipped = /\ unsaved # NoEvent
                         /\ doc # <<>> /\ Last(doc).id > unsaved.id]
<1>t. left \in LeftType /\ task \in Nat
  BY DEF TypeInv
<1>1. /\ UNCHANGED <<clock, task, phase, status, asked, speech, stream, doc, unsaved>>
      /\ Spend("reloads") /\ page' = [page EXCEPT ![p] = pg]
  BY DEF Reload, run
<1>2. /\ pg \in PageType /\ pg.at \in {"restored", "closed"} /\ pg.task = task
      /\ pg.cursor = Replayed(doc).cursor /\ pg.items = Replayed(doc).items
      /\ pg.streaming = Replayed(doc).streaming
      /\ pg.rewound = Replayed(doc).rewound
      /\ pg.slipped <=> /\ unsaved # NoEvent /\ doc # <<>>
                        /\ doc[Len(doc)].id > unsaved.id
  BY <1>t DEF PageType, Last
<1> HIDE DEF pg
<1>3. OnlyPage(p) /\ page'[p] = pg
  BY <1>1, <1>2, OnePage
<1>4. /\ left' \in LeftType /\ left'.posts = left.posts
      /\ left'.puts = left.puts /\ left'.troubles = left.troubles
  <2>1. left.reloads \in 0..MaxReloads /\ left.reloads > 0
    BY <1>1, <1>t DEF Spend, LeftType
  <2>2. left.reloads - 1 \in 0..MaxReloads
    BY <2>1, BoundsTyped
  <2>3. left' = [left EXCEPT !.reloads = left.reloads - 1]
    BY <1>1 DEF Spend
  <2> QED BY <2>2, <2>3, <1>t DEF LeftType
<1> QED BY <1>1, <1>2, <1>3, <1>4

LEMMA TroubleParts ==
  ASSUME TypeInv, Spend("troubles")
  PROVE  /\ left' \in LeftType /\ left'.posts = left.posts
         /\ left'.puts = left.puts /\ left'.troubles = left.troubles - 1
<1>t. left \in LeftType
  BY DEF TypeInv
<1>1. left.troubles \in 0..MaxTroubles /\ left.troubles > 0
  BY <1>t DEF Spend, LeftType
<1>2. left.troubles - 1 \in 0..MaxTroubles
  BY <1>1, BoundsTyped
<1>3. left' = [left EXCEPT !.troubles = left.troubles - 1]
  BY DEF Spend
<1> QED BY <1>2, <1>3, <1>t DEF LeftType

(* A page that only closes its connection.                                  *)
Closes(p) ==
  /\ UNCHANGED <<clock, task, phase, status, asked, speech, stream, doc, unsaved>>
  /\ page' = [page EXCEPT ![p].at = "closed"]

LEMMA ClosesParts ==
  ASSUME TypeInv, NEW p \in Pages, Closes(p)
  PROVE  /\ OnlyPage(p) /\ page'[p].at = "closed"
         /\ page'[p].task = page[p].task /\ page'[p].cursor = page[p].cursor
         /\ page'[p].items = page[p].items
         /\ page'[p].streaming = page[p].streaming
         /\ page'[p].rewound = page[p].rewound
         /\ page'[p].slipped = page[p].slipped
BY DEF TypeInv, Closes, OnlyPage, PageType

LEMMA ClosingParts ==
  ASSUME TypeInv, NEW p \in Pages, DrainedDry(p) \/ Drop(p)
  PROVE  /\ Closes(p) /\ left' \in LeftType /\ left'.posts = left.posts
         /\ left'.puts = left.puts /\ left'.troubles <= left.troubles
<1>1. CASE DrainedDry(p)
  <2>1. left' = left \/ Spend("troubles")
    BY <1>1 DEF DrainedDry
  <2>2. Closes(p)
    BY <1>1 DEF DrainedDry, Closes, run
  <2>3. left \in LeftType /\ left.troubles \in Int
    BY DEF TypeInv, LeftType
  <2> QED BY <2>1, <2>2, <2>3, TroubleParts
<1>2. CASE Drop(p)
  <2>1. Spend("troubles")
    BY <1>2 DEF Drop
  <2>2. Closes(p)
    BY <1>2 DEF Drop, Closes, run
  <2>3. left.troubles \in Int
    BY DEF TypeInv, LeftType
  <2> QED BY <2>1, <2>2, <2>3, TroubleParts
<1> QED BY <1>1, <1>2

(* Asking for the rest: the page follows the newest task, or gives up.      *)
LEMMA ViewParts ==
  ASSUME TypeInv, PhaseInv, NEW p \in Pages, View(p)
  PROVE  /\ UNCHANGED <<clock, task, phase, status, asked, speech, stream, doc,
                        unsaved, left>>
         /\ page[p].at = "restored" /\ OnlyPage(p)
         /\ page'[p].items = page[p].items
         /\ page'[p].cursor = page[p].cursor
         /\ page'[p].streaming = page[p].streaming
         /\ page'[p].slipped = page[p].slipped
         /\ page[p].rewound => page'[p].rewound
         /\ \/ /\ page'[p].at = "drain" /\ page'[p].task = task /\ task # 0
               /\ page[p].cursor = 0 /\ HasError(page[p]) => page'[p].rewound
            \/ /\ page'[p].at = "closed" /\ page'[p].task = page[p].task
               /\ page'[p].rewound = page[p].rewound
<1>1. /\ UNCHANGED <<clock, task, phase, status, asked, speech, stream, doc,
                     unsaved, left>>
      /\ page[p].at = "restored" /\ page[p] \in PageType /\ task \in Nat
  BY DEF View, run, TypeInv
<1>2. CASE (Registered \/ phase = "boot") /\ page' = [page EXCEPT ![p] = Draining(@, task)]
  <2>1. Draining(page[p], task) \in PageType
    BY <1>1, DrainingParts
  <2>2. OnlyPage(p) /\ page'[p] = Draining(page[p], task)
    BY <2>1, <1>2, OnePage
  <2>3. task # 0
    BY <1>2 DEF PhaseInv, Registered
  <2>4. /\ page'[p].at = "drain" /\ page'[p].task = task
        /\ page'[p].cursor = page[p].cursor /\ page'[p].items = page[p].items
        /\ page'[p].streaming = page[p].streaming
        /\ page'[p].slipped = page[p].slipped
        /\ page'[p].rewound <=>
             page[p].rewound \/ (page[p].cursor = 0 /\ HasError(page[p]))
    BY <2>2, <1>1, DrainingParts
  <2> QED BY <1>1, <2>2, <2>3, <2>4
<1>3. CASE page' = [page EXCEPT ![p].at = "closed"]
  <2>1. Closes(p)
    BY <1>1, <1>3 DEF Closes
  <2> QED BY <2>1, <1>1, ClosesParts
<1> QED BY <1>2, <1>3 DEF View

(* The next event of a stream, on the page.                                 *)
Reads(p, i) ==
  LET next == stream[page[p].task][i]
  IN  /\ i \in Unread(page[p])
      /\ \A j \in Unread(page[p]) : i <= j
      /\ next \in EventType
      /\ page'[p].cursor = next.id
      /\ page'[p].at = (IF next.kind = "done" THEN "closed" ELSE "drain")
      /\ page'[p].task = page[p].task
      /\ page'[p].rewound = page[p].rewound
      /\ page'[p].slipped = page[p].slipped
      /\ page'[p].items = Rendered(page[p], next).items
      /\ page'[p].streaming = Rendered(page[p], next).streaming

LEMMA ReadParts ==
  ASSUME TypeInv, Counts, PlaceInv, NEW p \in Pages, Read(p)
  PROVE  /\ UNCHANGED <<clock, task, phase, status, asked, speech, stream, doc,
                        unsaved, left>>
         /\ page[p].at = "drain" /\ page[p].task \in Tasks
         /\ OnlyPage(p)
         /\ \E i \in DOMAIN stream[page[p].task] : Reads(p, i)
<1>1. /\ UNCHANGED <<clock, task, phase, status, asked, speech, stream, doc,
                     unsaved, left>>
      /\ page[p].at = "drain" /\ page[p] \in PageType
  BY DEF Read, run, TypeInv
<1>2. page[p].task \in Tasks
  <2>1. /\ page[p].task \in Nat /\ page[p].task # 0 /\ page[p].task <= task
        /\ task \in Nat /\ task <= MaxPosts - left.posts
        /\ left.posts \in 0..MaxPosts
    BY <1>1 DEF PlaceInv, Placed, PageType, TypeInv, Counts, Posts, LeftType
  <2> QED BY <2>1, BoundsTyped DEF Tasks
<1>3. PICK i \in Unread(page[p]) :
        /\ \A j \in Unread(page[p]) : i <= j
        /\ page' = [page EXCEPT ![p] =
             [Rendered(page[p], stream[page[p].task][i]) EXCEPT
                !.at = IF stream[page[p].task][i].kind = "done"
                       THEN "closed" ELSE "drain"]]
  BY DEF Read
<1> DEFINE next == stream[page[p].task][i]
           r == Rendered(page[p], next)
           pg == [r EXCEPT !.at = IF next.kind = "done" THEN "closed" ELSE "drain"]
<1>4. i \in DOMAIN stream[page[p].task]
  BY DEF Unread
<1>5. next \in EventType
  BY <1>2, <1>4 DEF TypeInv
<1>6. r \in PageType
  BY <1>1, <1>5, RenderedTyped
<1>7. /\ r.cursor = next.id /\ r.task = page[p].task
      /\ r.rewound = page[p].rewound /\ r.slipped = page[p].slipped
  BY <1>1, <1>5, RenderedFields
<1>8. page' = [page EXCEPT ![p] = pg]
  BY <1>3
<1> HIDE DEF next, r
<1>9. /\ pg \in PageType
      /\ pg.at = (IF next.kind = "done" THEN "closed" ELSE "drain")
      /\ pg.cursor = r.cursor /\ pg.task = r.task /\ pg.items = r.items
      /\ pg.rewound = r.rewound /\ pg.slipped = r.slipped
      /\ pg.streaming = r.streaming
  BY <1>6 DEF PageType
<1> HIDE DEF pg
<1>10. OnlyPage(p) /\ page'[p] = pg
  BY <1>8, <1>9, OnePage
<1>11. Reads(p, i)
  BY <1>3, <1>5, <1>7, <1>9, <1>10 DEF Reads, next, r
<1> QED BY <1>1, <1>2, <1>4, <1>10, <1>11

(* A request that fails: its error is in the document and on the page.      *)
Error == Event(0, "error", 0, 0)

LEMMA ErrorTyped ==
  /\ Error \in EventType /\ Error.id = 0 /\ Error.kind = "error"
  /\ Item(Error) \in ItemType /\ Item(Error).kind = "error"
  /\ Item(Error).id = 0
<1>1. Error \in EventType /\ Error.id = 0 /\ Error.kind = "error"
  BY DEF Error, Event, EventType, EventKinds
<1> QED BY <1>1, ItemTyped

LEMMA ReadFailsParts ==
  ASSUME TypeInv, NEW p \in Pages, ReadFails(p)
  PROVE  /\ UNCHANGED <<clock, task, phase, status, asked, speech, stream, unsaved>>
         /\ doc' = Append(doc, Error) /\ Spend("troubles")
         /\ page[p].at = "drain" /\ OnlyPage(p)
         /\ page'[p].at = "closed" /\ page'[p].task = page[p].task
         /\ page'[p].cursor = 0
         /\ page'[p].items = Append(page[p].items, Item(Error))
         /\ page'[p].streaming = page[p].streaming
         /\ page'[p].rewound = page[p].rewound
         /\ page'[p].slipped = page[p].slipped
<1> DEFINE r == Rendered(page[p], Error)
           pg == [r EXCEPT !.at = "closed"]
<1>1. /\ UNCHANGED <<clock, task, phase, status, asked, speech, stream, unsaved>>
      /\ doc' = Append(doc, Error) /\ Spend("troubles")
      /\ page[p].at = "drain" /\ page[p] \in PageType
      /\ page' = [page EXCEPT ![p] = pg]
  BY DEF ReadFails, run, TypeInv, Error
<1>2. r \in PageType
  BY <1>1, ErrorTyped, RenderedTyped
<1>3. /\ r.cursor = 0 /\ r.task = page[p].task
      /\ r.rewound = page[p].rewound /\ r.slipped = page[p].slipped
  BY <1>1, ErrorTyped, RenderedFields
<1>4. r.items = Append(page[p].items, Item(Error)) /\ r.streaming = page[p].streaming
  BY <1>1, ErrorTyped, RenderedItem
<1> HIDE DEF r
<1>5. /\ pg \in PageType /\ pg.at = "closed"
      /\ pg.cursor = r.cursor /\ pg.task = r.task /\ pg.items = r.items
      /\ pg.rewound = r.rewound /\ pg.slipped = r.slipped
      /\ pg.streaming = r.streaming
  BY <1>2 DEF PageType
<1> HIDE DEF pg
<1>6. OnlyPage(p) /\ page'[p] = pg
  BY <1>1, <1>5, OnePage
<1> QED BY <1>1, <1>3, <1>4, <1>5, <1>6

-----------------------------------------------------------------------------
(* Types and bounds.                                                        *)

LEMMA TaskIsKnown ==
  ASSUME TypeInv, Counts, PhaseInv, phase # "none"
  PROVE  task \in Tasks
<1>1. task \in Nat /\ task # 0 /\ task <= MaxPosts - left.posts
      /\ left.posts \in 0..MaxPosts
  BY DEF TypeInv, Counts, PhaseInv, Posts, LeftType
<1> QED BY <1>1, BoundsTyped DEF Tasks

LEMMA SaveParts ==
  ASSUME TypeInv, Save
  PROVE  /\ unsaved # NoEvent /\ doc' = Append(doc, unsaved)
         /\ unsaved' = NoEvent
         /\ UNCHANGED <<clock, task, status, asked, stream, speech, page, left>>
         /\ phase' = phase \/ (phase = "turn" /\ phase' = "over")
BY DEF Save, Looked

LEMMA StopParts ==
  ASSUME TypeInv, Stop
  PROVE  /\ Registered /\ Spend("troubles")
         /\ phase' = "stopping" /\ status' = "paused"
         /\ unsaved' = NoEvent
         /\ UNCHANGED <<clock, task, asked, stream, speech, page>>
         /\ doc' = doc \/ (unsaved # NoEvent /\ doc' = Append(doc, unsaved))
BY DEF Stop, Registered

LEMMA NoEventTyped == NoEvent \in EventType /\ NoEvent.kind = "nothing"
BY DEF NoEvent, EventType, EventKinds

LEMMA DocTyped ==
  ASSUME TypeInv, NEW e \in EventType
  PROVE  Append(doc, e) \in Seq(EventType)
BY DEF TypeInv

LEMMA TypeStep ==
  ASSUME TypeInv, Counts, PhaseInv, PlaceInv, Replayed(doc) \in PageType,
         [Next]_vars
  PROVE  TypeInv'
<1>t. /\ clock \in Nat /\ task \in Nat /\ asked \in Nat
      /\ phase \in Phases /\ status \in Statuses
      /\ stream \in [Tasks -> Seq(EventType)]
      /\ doc \in Seq(EventType) /\ unsaved \in EventType /\ speech \in SpeechType
      /\ page \in [Pages -> PageType] /\ left \in LeftType
  BY DEF TypeInv
<1>1. CASE UNCHANGED vars
  BY <1>1, <1>t DEF vars, TypeInv
<1>2. CASE NextTurn
  <2>1. asked - 1 \in Nat /\ "turn" \in Phases /\ "running" \in Statuses
        /\ Silent \in SpeechType
    BY <1>2, <1>t DEF NextTurn, Phases, Statuses, Silent, SpeechType
  <2> QED BY <2>1, <1>2, <1>t DEF NextTurn, TypeInv
<1>3. CASE PutStep
  <2>1. task \in Tasks
    BY <1>3, PutStepParts, TaskIsKnown
  <2>2. PICK kind \in RunKinds, of \in Nat : Put(kind, of) /\ PutsOf(kind, of)
    BY <1>3, PutStepParts
  <2>3. /\ clock' = clock + 1 /\ unsaved' \in EventType
        /\ stream' \in [Tasks -> Seq(EventType)]
        /\ UNCHANGED <<task, status, asked, doc, page>>
    BY <2>1, <2>2, PutParts, NoEventTyped
  <2>4. phase' \in Phases /\ speech' \in SpeechType /\ left' \in LeftType
    BY <1>3, PutStepParts
  <2> QED BY <2>3, <2>4, <1>t DEF TypeInv
<1>4. CASE Save
  <2>1. doc' \in Seq(EventType) /\ phase' \in Phases /\ unsaved' \in EventType
    BY <1>4, <1>t, SaveParts, DocTyped, NoEventTyped DEF Phases
  <2> QED BY <2>1, <1>4, <1>t, SaveParts DEF TypeInv
<1>5. CASE EndTask
  BY <1>5, <1>t DEF EndTask, TypeInv, Phases, Statuses
<1>6. CASE Stop
  <2>1. doc' \in Seq(EventType) /\ phase' \in Phases /\ unsaved' \in EventType
        /\ status' \in Statuses /\ left' \in LeftType
    BY <1>6, <1>t, StopParts, TroubleParts, DocTyped, NoEventTyped
       DEF Phases, Statuses
  <2> QED BY <2>1, <1>6, <1>t, StopParts DEF TypeInv
<1>7. ASSUME TakeMessage
      PROVE  /\ clock' \in Nat /\ task' \in Nat /\ asked' \in Nat
             /\ phase' \in Phases /\ status' \in Statuses
             /\ stream' = stream /\ unsaved' = unsaved /\ speech' = speech
             /\ doc' \in Seq(EventType) /\ left' \in LeftType
  <2>1. Message \in EventType /\ doc' = Append(doc, Message)
    BY <1>7, TakeMessageParts
  <2>2. doc' \in Seq(EventType)
    BY <2>1, DocTyped
  <2> QED BY <2>2, <1>7, <1>t, TakeMessageParts DEF Phases, Statuses
<1>8. CASE PostElsewhere
  BY <1>7, <1>8, <1>t DEF PostElsewhere, TypeInv
<1>9. ASSUME NEW p \in Pages, Post(p) PROVE TypeInv'
  <2>1. TakeMessage /\ page' \in [Pages -> PageType]
    BY <1>9, PostParts DEF OnlyPage
  <2> QED BY <2>1, <1>7, <1>t DEF TypeInv
<1>10. ASSUME NEW p \in Pages, Reload(p) PROVE TypeInv'
  <2>1. page' \in [Pages -> PageType]
    BY <1>10, ReloadParts DEF OnlyPage
  <2> QED BY <2>1, <1>10, <1>t, ReloadParts DEF TypeInv
<1>11. ASSUME NEW p \in Pages, View(p) PROVE TypeInv'
  <2>1. page' \in [Pages -> PageType]
    BY <1>11, ViewParts DEF OnlyPage
  <2> QED BY <2>1, <1>11, <1>t, ViewParts DEF TypeInv
<1>12. ASSUME NEW p \in Pages, Read(p) PROVE TypeInv'
  <2>1. page' \in [Pages -> PageType]
    BY <1>12, ReadParts DEF OnlyPage
  <2> QED BY <2>1, <1>12, <1>t, ReadParts DEF TypeInv
<1>13. ASSUME NEW p \in Pages, DrainedDry(p) \/ Drop(p) PROVE TypeInv'
  <2>1. Closes(p) /\ left' \in LeftType
    BY <1>13, ClosingParts
  <2>2. page' \in [Pages -> PageType]
    BY <2>1, ClosesParts DEF OnlyPage
  <2> QED BY <2>1, <2>2, <1>t DEF Closes, TypeInv
<1>14. ASSUME NEW p \in Pages, ReadFails(p) PROVE TypeInv'
  <2>1. page' \in [Pages -> PageType] /\ doc' = Append(doc, Error)
        /\ Spend("troubles")
        /\ UNCHANGED <<clock, task, phase, status, asked, speech, stream, unsaved>>
    BY <1>14, ReadFailsParts DEF OnlyPage
  <2>2. doc' \in Seq(EventType) /\ left' \in LeftType
    BY <2>1, DocTyped, ErrorTyped, TroubleParts
  <2> QED BY <2>1, <2>2, <1>t DEF TypeInv
<1> QED BY <1>1, <1>2, <1>3, <1>4, <1>5, <1>6, <1>8, <1>9, <1>10, <1>11, <1>12,
           <1>13, <1>14 DEF Next, RunStep, PageStep, PutStep

(* The clock and the owed events are paid for.                              *)
LEMMA CountsStep ==
  ASSUME TypeInv, Counts, PhaseInv, PlaceInv, Replayed(doc) \in PageType,
         [Next]_vars
  PROVE  Counts'
<1>t. /\ clock \in Nat /\ task \in Nat /\ asked \in Nat
      /\ left.puts \in Nat /\ left.posts \in Nat /\ left.troubles \in Nat
      /\ phase \in Phases
  BY DEF TypeInv, LeftType
<1>b. MaxPuts \in Nat /\ MaxPosts \in Nat /\ MaxTroubles \in Nat
  BY BoundsTyped
<1>c. /\ clock + asked + Owed
           <= (MaxPuts - left.puts) + 2 * (MaxPosts - left.posts)
              + 2 * (MaxTroubles - left.troubles)
      /\ task <= MaxPosts - left.posts /\ asked <= MaxPosts - left.posts
  BY DEF Counts, Puts, Posts, Troubles
<1>o. Owed \in 0..2 /\ Owed' \in 0..2
  BY DEF Owed
<1>n. left'.puts \in Nat /\ left'.posts \in Nat /\ left'.troubles \in Nat
  BY TypeStep DEF TypeInv, LeftType
<1>g. ASSUME UNCHANGED <<clock, task, phase, asked>>, left'.puts = left.puts,
             left'.posts = left.posts, left'.troubles <= left.troubles
      PROVE  Counts'
  <2>1. Owed' = Owed
    BY <1>g DEF Owed
  <2> QED BY <2>1, <1>g, <1>t, <1>b, <1>c, <1>o, <1>n DEF Counts, Puts, Posts, Troubles
<1>1. CASE UNCHANGED vars
  <2>1. UNCHANGED <<clock, task, phase, asked, left>>
    BY <1>1 DEF vars
  <2> QED BY <2>1, <1>g, <1>t
<1>2. CASE NextTurn
  <2>1. /\ asked' = asked - 1 /\ Owed = 0 /\ Owed' = 1
        /\ UNCHANGED <<clock, task, left>>
    BY <1>2 DEF NextTurn, Owed
  <2> QED BY <2>1, <1>t, <1>b, <1>c, <1>o, <1>n DEF Counts, Puts, Posts, Troubles
<1>3. CASE PutStep
  <2>1. task \in Tasks
    BY <1>3, PutStepParts, TaskIsKnown
  <2>2. clock' = clock + 1 /\ UNCHANGED <<task, asked>>
    BY <2>1, <1>3, PutStepParts, PutParts
  <2>3. left'.posts = left.posts /\ left'.troubles = left.troubles
    BY <1>3, PutStepParts
  <2>4. \/ left'.puts = left.puts - 1 /\ Owed' <= Owed
        \/ left'.puts = left.puts /\ Owed' = Owed - 1
    <3>s. ASSUME Spend("puts") PROVE left'.puts = left.puts - 1
      BY <3>s DEF Spend, TypeInv, LeftType
    <3>1. CASE Speak \/ Say \/ Work
      <4>1. Spend("puts") /\ phase = "turn" /\ phase' \in {"turn", "over"}
        BY <3>1 DEF Speak, Say, Work, Looked
      <4>2. Owed = 1 /\ Owed' <= 1
        BY <4>1 DEF Owed
      <4> QED BY <4>1, <4>2, <3>s
    <3>2. CASE Finish
      BY <3>2 DEF Finish, Owed
    <3>3. CASE SayStopped
      BY <3>3 DEF SayStopped, Owed
    <3> QED BY <3>1, <3>2, <3>3, <1>3 DEF PutStep
  <2> QED BY <2>2, <2>3, <2>4, <1>t, <1>b, <1>c, <1>o, <1>n
          DEF Counts, Puts, Posts, Troubles
<1>4. CASE Save
  <2>1. UNCHANGED <<clock, task, asked, left>>
        /\ (phase' = phase \/ (phase = "turn" /\ phase' = "over"))
    BY <1>4, SaveParts
  <2>2. Owed' <= Owed
    BY <2>1 DEF Owed
  <2> QED BY <2>1, <2>2, <1>t, <1>b, <1>c, <1>o, <1>n DEF Counts, Puts, Posts, Troubles
<1>5. CASE EndTask
  <2>1. UNCHANGED <<clock, task, asked, left>> /\ Owed' = 0
    BY <1>5 DEF EndTask, Owed
  <2> QED BY <2>1, <1>t, <1>b, <1>c, <1>o, <1>n DEF Counts, Puts, Posts, Troubles
<1>6. CASE Stop
  <2>1. /\ UNCHANGED <<clock, task, asked>> /\ Owed' = 2
        /\ left'.posts = left.posts /\ left'.puts = left.puts
        /\ left'.troubles = left.troubles - 1
    BY <1>6, StopParts, TroubleParts DEF Owed
  <2> QED BY <2>1, <1>t, <1>b, <1>c, <1>o, <1>n DEF Counts, Puts, Posts, Troubles
<1>7. ASSUME TakeMessage PROVE Counts'
  <2>1. /\ clock' = clock + 1 /\ left'.posts = left.posts - 1
        /\ left'.puts = left.puts /\ left'.troubles = left.troubles
    BY <1>7, TakeMessageParts
  <2>2. \/ asked' = asked + 1 /\ task' = task /\ Owed' = Owed
        \/ asked' = 1 /\ task' = task + 1 /\ Owed' = 0
    BY <1>7, TakeMessageParts DEF Owed
  <2> QED BY <2>1, <2>2, <1>t, <1>b, <1>c, <1>o, <1>n DEF Counts, Puts, Posts, Troubles
<1>8. CASE PostElsewhere
  BY <1>7, <1>8 DEF PostElsewhere
<1>9. ASSUME NEW p \in Pages, PageStep(p) PROVE Counts'
  <2>1. CASE Post(p)
    BY <2>1, <1>7, PostParts
  <2>2. CASE Reload(p)
    BY <2>2, <1>g, <1>t, ReloadParts
  <2>3. CASE View(p)
    BY <2>3, <1>g, <1>t, ViewParts
  <2>4. CASE Read(p)
    BY <2>4, <1>g, <1>t, ReadParts
  <2>5. CASE DrainedDry(p) \/ Drop(p)
    BY <2>5, <1>g, ClosingParts DEF Closes
  <2>6. CASE ReadFails(p)
    BY <2>6, <1>g, <1>t, ReadFailsParts, TroubleParts
  <2> QED BY <1>9, <2>1, <2>2, <2>3, <2>4, <2>5, <2>6 DEF PageStep
<1> QED BY <1>1, <1>2, <1>3, <1>4, <1>5, <1>6, <1>8, <1>9
        DEF Next, RunStep, PutStep

(* A run needs a task, and RUNNING goes with the registry.                  *)
LEMMA PhaseStep ==
  ASSUME TypeInv, Counts, PhaseInv, PlaceInv, Replayed(doc) \in PageType,
         [Next]_vars
  PROVE  PhaseInv'
<1>t. task \in Nat
  BY DEF TypeInv
<1>g. ASSUME UNCHANGED <<task, phase, status>> PROVE PhaseInv'
  BY <1>g DEF PhaseInv, Registered
<1>1. CASE UNCHANGED vars
  BY <1>1, <1>g DEF vars
<1>2. CASE NextTurn
  BY <1>2 DEF NextTurn, PhaseInv, Registered
<1>3. CASE PutStep
  <2>1. task \in Tasks
    BY <1>3, PutStepParts, TaskIsKnown
  <2>2. UNCHANGED <<task, status>>
    BY <2>1, <1>3, PutStepParts, PutParts
  <2>3. Registered' = Registered /\ phase # "none"
    BY <1>3, PutStepParts
  <2> QED BY <2>2, <2>3 DEF PhaseInv
<1>4. CASE Save
  BY <1>4, SaveParts DEF PhaseInv, Registered
<1>5. CASE EndTask
  BY <1>5 DEF EndTask, PhaseInv, Registered
<1>6. CASE Stop
  BY <1>6, StopParts DEF PhaseInv, Registered
<1>7. ASSUME TakeMessage PROVE PhaseInv'
  BY <1>7, <1>t, TakeMessageParts DEF PhaseInv, Registered
<1>8. CASE PostElsewhere
  BY <1>7, <1>8 DEF PostElsewhere
<1>9. ASSUME NEW p \in Pages, PageStep(p) PROVE PhaseInv'
  <2>1. CASE Post(p)
    BY <2>1, <1>7, PostParts
  <2>2. CASE Reload(p)
    BY <2>2, <1>g, ReloadParts
  <2>3. CASE View(p)
    BY <2>3, <1>g, ViewParts
  <2>4. CASE Read(p)
    BY <2>4, <1>g, ReadParts
  <2>5. CASE DrainedDry(p) \/ Drop(p)
    BY <2>5, <1>g, ClosingParts DEF Closes
  <2>6. CASE ReadFails(p)
    BY <2>6, <1>g, ReadFailsParts
  <2> QED BY <1>9, <2>1, <2>2, <2>3, <2>4, <2>5, <2>6 DEF PageStep
<1> QED BY <1>1, <1>2, <1>3, <1>4, <1>5, <1>6, <1>8, <1>9
        DEF Next, RunStep, PutStep

-----------------------------------------------------------------------------
(* The streams.                                                             *)

LEMMA EntryTyped ==
  ASSUME TypeInv, NEW t \in Tasks, NEW i \in DOMAIN stream[t]
  PROVE  /\ stream[t][i] \in EventType /\ i \in Nat /\ t \in Nat
         /\ stream[t][i].id \in Nat /\ stream[t][i].of \in Nat
<1>1. stream[t] \in Seq(EventType)
  BY DEF TypeInv
<1>2. stream[t][i] \in EventType /\ i \in Nat
  BY <1>1
<1> QED BY <1>2 DEF EventType, Tasks

(* Only a put changes a stream, and a speech only changes with one.         *)
LEMMA NoPut ==
  ASSUME TypeInv, Counts, PhaseInv, PlaceInv, Replayed(doc) \in PageType,
         [Next]_vars, ~PutStep
  PROVE  /\ stream' = stream
         /\ clock' = clock \/ clock' = clock + 1
         /\ task' = task \/ task' = task + 1
         /\ phase' = "turn" =>
              \/ phase = "turn" /\ speech' = speech /\ task' = task
              \/ speech'.state = "none"
<1>1. CASE UNCHANGED vars
  BY <1>1 DEF vars
<1>2. CASE NextTurn
  BY <1>2 DEF NextTurn, Silent
<1>3. CASE Save
  BY <1>3, SaveParts
<1>4. CASE EndTask
  BY <1>4 DEF EndTask
<1>5. CASE Stop
  BY <1>5, StopParts
<1>6. CASE TakeMessage
  BY <1>6, TakeMessageParts
<1>7. CASE PostElsewhere
  BY <1>6, <1>7 DEF PostElsewhere
<1>8. ASSUME NEW p \in Pages, PageStep(p)
      PROVE  \/ TakeMessage
             \/ UNCHANGED <<clock, task, phase, stream, speech>>
  BY <1>8, PostParts, ReloadParts, ViewParts, ReadParts, ClosingParts,
     ReadFailsParts DEF PageStep, Closes
<1> QED BY <1>1, <1>2, <1>3, <1>4, <1>5, <1>6, <1>7, <1>8
        DEF Next, RunStep, PutStep

LEMMA StreamKept ==
  ASSUME TypeInv, StreamInv, stream' = stream,
         clock' = clock \/ clock' = clock + 1,
         task' = task \/ task' = task + 1,
         phase' = "turn" =>
              \/ phase = "turn" /\ speech' = speech /\ task' = task
              \/ speech'.state = "none"
  PROVE  StreamInv'
<1>t. clock \in Nat /\ task \in Nat /\ stream \in [Tasks -> Seq(EventType)]
      /\ speech \in SpeechType
  BY DEF TypeInv
<1>1. EntriesInv'
  <2> SUFFICES ASSUME NEW t \in Tasks, NEW i \in DOMAIN stream[t]
               PROVE  /\ stream[t][i].kind \in RunKinds /\ stream[t][i].task = t
                      /\ t <= task'
                      /\ 1 <= stream[t][i].id /\ stream[t][i].id <= clock'
                      /\ stream[t][i].of <= stream[t][i].id
                      /\ Transient(stream[t][i]) => 1 <= stream[t][i].of
                      /\ stream[t][i].kind \in {"step", "done"} => stream[t][i].of = 0
    BY DEF EntriesInv
  <2>1. /\ stream[t][i].kind \in RunKinds /\ stream[t][i].task = t /\ t <= task
        /\ 1 <= stream[t][i].id /\ stream[t][i].id <= clock
        /\ stream[t][i].of <= stream[t][i].id
        /\ Transient(stream[t][i]) => 1 <= stream[t][i].of
        /\ stream[t][i].kind \in {"step", "done"} => stream[t][i].of = 0
    BY DEF StreamInv, EntriesInv
  <2>2. stream[t][i].id \in Nat /\ t \in Nat
    BY EntryTyped
  <2> QED BY <2>1, <2>2, <1>t
<1>2. OrderInv' /\ TasksInv' /\ ReplyInv' /\ LastInv'
  BY DEF StreamInv, OrderInv, TasksInv, ReplyInv, LastInv
<1>3. SpeechInv'
  <2>1. CASE phase' = "turn" /\ speech'.state \in {"open", "shut"}
    <3>1. phase = "turn" /\ speech' = speech /\ task' = task
      BY <2>1
    <3>2. speech.of <= clock'
      BY <3>1, <2>1, <1>t DEF StreamInv, SpeechInv, SpeechType
    <3> QED BY <3>1, <3>2, <2>1 DEF StreamInv, SpeechInv
  <2> QED BY <2>1 DEF SpeechInv
<1> QED BY <1>1, <1>2, <1>3 DEF StreamInv

(* A put, as the stream invariants see it.                                  *)
PutWith(e, d) ==
  /\ e \in EventType /\ e.id = clock + 1 /\ e.task = task
  /\ e.kind \in RunKinds /\ PutsOf(e.kind, e.of)
  /\ clock' = clock + 1 /\ unsaved = NoEvent
  /\ unsaved' = (IF Transient(e) THEN NoEvent ELSE e)
  /\ UNCHANGED <<task, status, asked, doc, page>>
  /\ task \in Tasks
  /\ stream' \in [Tasks -> Seq(EventType)]
  /\ \A t \in Tasks \ {task} : stream'[t] = stream[t]
  /\ Grows(e, d)

LEMMA PutStepWith ==
  ASSUME TypeInv, Counts, PhaseInv, PutStep
  PROVE  \E e \in EventType, d \in Nat : PutWith(e, d)
<1>1. task \in Tasks
  BY PutStepParts, TaskIsKnown
<1>2. PICK kind \in RunKinds, of \in Nat : Put(kind, of) /\ PutsOf(kind, of)
  BY PutStepParts
<1> DEFINE e == Event(clock + 1, kind, task, of)
<1>3. /\ e \in EventType /\ e.id = clock + 1 /\ e.kind = kind
      /\ e.task = task /\ e.of = of
      /\ clock' = clock + 1 /\ unsaved = NoEvent
      /\ unsaved' = (IF Transient(e) THEN NoEvent ELSE e)
      /\ UNCHANGED <<task, status, asked, doc, page>>
      /\ stream' \in [Tasks -> Seq(EventType)]
      /\ \A t \in Tasks \ {task} : stream'[t] = stream[t]
  BY <1>1, <1>2, PutParts
<1>4. PICK d \in Nat : Grows(e, d)
  BY <1>1, <1>2, PutParts
<1> HIDE DEF e
<1>5. PutWith(e, d)
  BY <1>1, <1>2, <1>3, <1>4 DEF PutWith
<1> QED BY <1>3, <1>5

LEMMA GrownEntry ==
  ASSUME TypeInv, NEW e \in EventType, NEW d \in Nat, PutWith(e, d),
         NEW k \in DOMAIN stream'[task]
  PROVE  \/ k + d = Len(stream[task]) + 1 /\ stream'[task][k] = e
         \/ /\ k + d \in DOMAIN stream[task] /\ k + d # Len(stream[task]) + 1
            /\ stream'[task][k] = stream[task][k + d]
<1>1. k + d \in 1..(Len(stream[task]) + 1)
      /\ stream'[task][k] = IF k + d = Len(stream[task]) + 1 THEN e
                            ELSE stream[task][k + d]
  BY DEF PutWith, Grows
<1>2. stream[task] \in Seq(EventType)
  BY DEF TypeInv, PutWith
<1> QED BY <1>1, <1>2

(* Two entries after a put: both were there, or the second is the new one.  *)
LEMMA GrownEntries ==
  ASSUME TypeInv, NEW e \in EventType, NEW d \in Nat, PutWith(e, d),
         NEW k \in DOMAIN stream'[task], NEW l \in DOMAIN stream'[task], k < l
  PROVE  /\ k + d \in DOMAIN stream[task]
         /\ stream'[task][k] = stream[task][k + d]
         /\ \/ stream'[task][l] = e
            \/ /\ l + d \in DOMAIN stream[task] /\ k + d < l + d
               /\ stream'[task][l] = stream[task][l + d]
<1>1. stream[task] \in Seq(EventType) /\ stream'[task] \in Seq(EventType)
  BY DEF TypeInv, PutWith
<1>2. k \in Nat /\ l \in Nat /\ Len(stream[task]) \in Nat
  BY <1>1
<1>3. l + d \in 1..(Len(stream[task]) + 1)
  BY DEF PutWith, Grows
<1>4. k + d # Len(stream[task]) + 1 /\ k + d < l + d
  BY <1>2, <1>3
<1> QED BY <1>2, <1>4, GrownEntry

LEMMA StreamPut ==
  ASSUME TypeInv, StreamInv, NEW e \in EventType, NEW d \in Nat, PutWith(e, d)
  PROVE  StreamInv'
<1>t. /\ clock \in Nat /\ task \in Nat /\ task \in Tasks
      /\ speech \in SpeechType /\ speech.of \in Nat
      /\ e.id \in Nat /\ e.of \in Nat
  BY DEF TypeInv, PutWith, SpeechType, EventType
<1>p. /\ e.id = clock + 1 /\ e.task = task /\ e.kind \in RunKinds
      /\ PutsOf(e.kind, e.of) /\ clock' = clock + 1 /\ task' = task
      /\ \A t \in Tasks \ {task} : stream'[t] = stream[t]
  BY DEF PutWith
<1>o. ASSUME NEW t \in Tasks, NEW i \in DOMAIN stream[t]
      PROVE  /\ stream[t][i].kind \in RunKinds /\ stream[t][i].task = t /\ t <= task
             /\ 1 <= stream[t][i].id /\ stream[t][i].id <= clock
             /\ stream[t][i].of <= stream[t][i].id
             /\ Transient(stream[t][i]) => 1 <= stream[t][i].of
             /\ stream[t][i].kind \in {"step", "done"} => stream[t][i].of = 0
             /\ stream[t][i].id \in Nat /\ stream[t][i].of \in Nat
  BY EntryTyped DEF StreamInv, EntriesInv
<1>of. /\ e.of <= e.id /\ (Transient(e) => 1 <= e.of)
       /\ e.kind \in {"step", "done"} => e.of = 0
  BY <1>p, <1>t DEF PutsOf, RunKinds, Transient, StreamInv, SpeechInv
<1>1. EntriesInv'
  <2> SUFFICES ASSUME NEW t \in Tasks, NEW i \in DOMAIN stream'[t]
               PROVE  LET x == stream'[t][i]
                      IN  /\ x.kind \in RunKinds /\ x.task = t /\ t <= task'
                          /\ 1 <= x.id /\ x.id <= clock' /\ x.of <= x.id
                          /\ Transient(x) => 1 <= x.of
                          /\ x.kind \in {"step", "done"} => x.of = 0
    BY DEF EntriesInv
  <2>1. CASE t # task
    <3>1. stream'[t] = stream[t]
      BY <2>1, <1>p
    <3> QED BY <3>1, <1>o, <1>p, <1>t
  <2>2. CASE t = task
    <3>1. CASE stream'[task][i] = e
      BY <3>1, <2>2, <1>p, <1>t, <1>of
    <3>2. CASE i + d \in DOMAIN stream[task] /\ stream'[task][i] = stream[task][i + d]
      BY <3>2, <2>2, <1>o, <1>p, <1>t
    <3> QED BY <3>1, <3>2, <2>2, GrownEntry
  <2> QED BY <2>1, <2>2
<1>2. OrderInv'
  <2> SUFFICES ASSUME NEW t \in Tasks, NEW i \in DOMAIN stream'[t],
                      NEW j \in DOMAIN stream'[t], i < j
               PROVE  stream'[t][i].id < stream'[t][j].id
    BY DEF OrderInv
  <2>1. CASE t # task
    <3>1. stream'[t] = stream[t]
      BY <2>1, <1>p
    <3> QED BY <3>1 DEF StreamInv, OrderInv
  <2>2. CASE t = task
    <3>1. /\ i + d \in DOMAIN stream[task]
          /\ stream'[task][i] = stream[task][i + d]
          /\ \/ stream'[task][j] = e
             \/ /\ j + d \in DOMAIN stream[task] /\ i + d < j + d
                /\ stream'[task][j] = stream[task][j + d]
      BY <2>2, GrownEntries
    <3>2. CASE stream'[task][j] = e
      BY <3>1, <3>2, <2>2, <1>o, <1>p, <1>t
    <3>3. CASE /\ j + d \in DOMAIN stream[task] /\ i + d < j + d
               /\ stream'[task][j] = stream[task][j + d]
      BY <3>1, <3>3, <2>2, <1>t DEF StreamInv, OrderInv
    <3> QED BY <3>1, <3>2, <3>3
  <2> QED BY <2>1, <2>2
<1>3. TasksInv'
  <2> SUFFICES ASSUME NEW t \in Tasks, NEW u \in Tasks, t < u,
                      NEW i \in DOMAIN stream'[t], NEW j \in DOMAIN stream'[u]
               PROVE  stream'[t][i].id < stream'[u][j].id
    BY DEF TasksInv
  <2>1. CASE t # task /\ u # task
    <3>1. stream'[t] = stream[t] /\ stream'[u] = stream[u]
      BY <2>1, <1>p
    <3> QED BY <3>1 DEF StreamInv, TasksInv
  <2>2. CASE t = task
    <3>1. u # task /\ u \in Nat /\ t \in Nat
      BY <2>2 DEF Tasks
    <3>2. stream'[u] = stream[u]
      BY <3>1, <1>p
    <3>3. u <= task
      BY <3>2, <1>o
    <3> QED BY <3>1, <3>3, <2>2
  <2>3. CASE t # task /\ u = task
    <3>1. stream'[t] = stream[t]
      BY <2>3, <1>p
    <3>2. CASE stream'[task][j] = e
      <4>1. stream[t][i].id <= clock /\ stream[t][i].id \in Nat
        BY <3>1, <1>o
      <4> QED BY <4>1, <3>1, <3>2, <2>3, <1>p, <1>t
    <3>3. CASE j + d \in DOMAIN stream[task] /\ stream'[task][j] = stream[task][j + d]
      BY <3>1, <3>3, <2>3 DEF StreamInv, TasksInv
    <3> QED BY <3>2, <3>3, <2>3, GrownEntry
  <2> QED BY <2>1, <2>2, <2>3
<1>4. ReplyInv'
  <2> SUFFICES ASSUME NEW t \in Tasks, NEW i \in DOMAIN stream'[t],
                      NEW j \in DOMAIN stream'[t],
                      i < j, stream'[t][j].of # 0,
                      stream'[t][i].id >= stream'[t][j].of
               PROVE  stream'[t][i].of = stream'[t][j].of
    BY DEF ReplyInv
  <2>1. CASE t # task
    <3>1. stream'[t] = stream[t]
      BY <2>1, <1>p
    <3> QED BY <3>1 DEF StreamInv, ReplyInv
  <2>2. CASE t = task
    <3>1. /\ i + d \in DOMAIN stream[task]
          /\ stream'[task][i] = stream[task][i + d]
          /\ \/ stream'[task][j] = e
             \/ /\ j + d \in DOMAIN stream[task] /\ i + d < j + d
                /\ stream'[task][j] = stream[task][j + d]
      BY <2>2, GrownEntries
    <3>2. CASE stream'[task][j] = e
      <4>1. e.of # 0 /\ stream[task][i + d].id >= e.of
        BY <3>1, <3>2, <2>2
      <4>2. e.kind \in {"chunk", "last", "text"}
        BY <4>1, <1>of, <1>p DEF RunKinds
      <4>3. stream[task][i + d].id <= clock /\ stream[task][i + d].id \in Nat
        BY <3>1, <1>o, <1>t
      <4>4. e.of # clock + 1
        BY <4>1, <4>3, <1>t
      <4>5. phase = "turn" /\ speech.state \in {"open", "shut"} /\ e.of = speech.of
        BY <4>1, <4>2, <4>4, <1>p DEF PutsOf
      <4>6. \A k \in DOMAIN stream[task] :
              stream[task][k].id >= speech.of => stream[task][k].of = speech.of
        BY <4>5 DEF StreamInv, SpeechInv
      <4>7. stream[task][i + d].of = e.of
        BY <4>1, <4>5, <4>6, <3>1
      <4> QED BY <4>7, <3>1, <3>2, <2>2
    <3>3. CASE /\ j + d \in DOMAIN stream[task] /\ i + d < j + d
               /\ stream'[task][j] = stream[task][j + d]
      BY <3>1, <3>3, <2>2, <1>t DEF StreamInv, ReplyInv
    <3> QED BY <3>1, <3>2, <3>3
  <2> QED BY <2>1, <2>2
<1>5. LastInv'
  <2> SUFFICES ASSUME NEW t \in Tasks, NEW i \in DOMAIN stream'[t],
                      NEW j \in DOMAIN stream'[t],
                      i < j, stream'[t][i].kind = "last",
                      stream'[t][j].of = stream'[t][i].of
               PROVE  stream'[t][j].kind = "text"
    BY DEF LastInv
  <2>1. CASE t # task
    <3>1. stream'[t] = stream[t]
      BY <2>1, <1>p
    <3> QED BY <3>1 DEF StreamInv, LastInv
  <2>2. CASE t = task
    <3>1. /\ i + d \in DOMAIN stream[task]
          /\ stream'[task][i] = stream[task][i + d]
          /\ \/ stream'[task][j] = e
             \/ /\ j + d \in DOMAIN stream[task] /\ i + d < j + d
                /\ stream'[task][j] = stream[task][j + d]
      BY <2>2, GrownEntries
    <3>2. CASE stream'[task][j] = e
      <4> DEFINE x == stream[task][i + d]
      <4>1. /\ x.kind = "last" /\ e.of = x.of /\ 1 <= x.of /\ x.of <= clock
            /\ x.of \in Nat
        <5>1. x.kind = "last" /\ e.of = x.of
          BY <3>1, <3>2, <2>2
        <5>2. x.id \in Nat /\ x.of \in Nat /\ x.id <= clock /\ x.of <= x.id
              /\ (Transient(x) => 1 <= x.of)
          BY <3>1, <1>o, <1>t
        <5> QED BY <5>1, <5>2, <1>t DEF Transient
      <4>2. e.kind \notin {"step", "done"}
        BY <4>1, <1>p DEF PutsOf
      <4>3. ~(e.kind \in {"chunk", "last"})
        <5> SUFFICES ASSUME e.kind \in {"chunk", "last"} PROVE FALSE
          OBVIOUS
        <5>1. phase = "turn" /\ (e.of = clock + 1 \/ (speech.state = "open" /\ e.of = speech.of))
          BY <1>p DEF PutsOf
        <5>2. speech.state = "open" /\ x.of = speech.of
          BY <5>1, <4>1, <1>t
        <5> QED BY <5>1, <5>2, <4>1, <3>1 DEF StreamInv, SpeechInv
      <4> QED BY <4>2, <4>3, <3>2, <2>2, <1>p DEF RunKinds
    <3>3. CASE /\ j + d \in DOMAIN stream[task] /\ i + d < j + d
               /\ stream'[task][j] = stream[task][j + d]
      BY <3>1, <3>3, <2>2, <1>t DEF StreamInv, LastInv
    <3> QED BY <3>1, <3>2, <3>3
  <2> QED BY <2>1, <2>2
<1>6. SpeechInv'
  <2> SUFFICES ASSUME phase' = "turn", speech'.state \in {"open", "shut"}
               PROVE  /\ 1 <= speech'.of /\ speech'.of <= clock'
                      /\ \A i \in DOMAIN stream'[task] :
                           LET x == stream'[task][i]
                           IN  /\ x.id >= speech'.of => x.of = speech'.of
                               /\ speech'.state = "open" /\ x.of = speech'.of
                                    => x.kind # "last"
    BY <1>p DEF SpeechInv
  <2>1. e.kind \in {"chunk", "last"}
    BY <1>p DEF PutsOf
  <2>2. /\ phase = "turn" /\ speech'.of = e.of
        /\ speech'.state = (IF e.kind = "last" THEN "shut" ELSE "open")
        /\ \/ speech.state = "none" /\ e.of = clock + 1
           \/ speech.state = "open" /\ e.of = speech.of
    BY <2>1, <1>p DEF PutsOf
  <2>3. 1 <= speech'.of /\ speech'.of <= clock'
    BY <2>2, <1>p, <1>t DEF StreamInv, SpeechInv
  <2>4. ASSUME NEW i \in DOMAIN stream[task]
        PROVE  /\ stream[task][i].id >= e.of => stream[task][i].of = e.of
               /\ stream[task][i].of = e.of => stream[task][i].kind # "last"
    <3>1. CASE e.of = clock + 1
      <4>1. /\ stream[task][i].id \in Nat /\ stream[task][i].of \in Nat
            /\ stream[task][i].id <= clock /\ stream[task][i].of <= stream[task][i].id
        BY <1>o, <1>t
      <4> QED BY <4>1, <3>1, <1>t
    <3>2. CASE speech.state = "open" /\ e.of = speech.of
      BY <3>2, <2>2 DEF StreamInv, SpeechInv
    <3> QED BY <3>1, <3>2, <2>2
  <2>5. ASSUME NEW i \in DOMAIN stream'[task]
        PROVE  /\ stream'[task][i].id >= speech'.of => stream'[task][i].of = speech'.of
               /\ speech'.state = "open" /\ stream'[task][i].of = speech'.of
                    => stream'[task][i].kind # "last"
    <3>1. CASE stream'[task][i] = e
      BY <3>1, <2>2
    <3>2. CASE i + d \in DOMAIN stream[task] /\ stream'[task][i] = stream[task][i + d]
      BY <3>2, <2>2, <2>4
    <3> QED BY <3>1, <3>2, GrownEntry
  <2> QED BY <2>3, <2>5
<1> QED BY <1>1, <1>2, <1>3, <1>4, <1>5, <1>6 DEF StreamInv

LEMMA StreamStep ==
  ASSUME TypeInv, Counts, PhaseInv, PlaceInv, Replayed(doc) \in PageType,
         StreamInv, [Next]_vars
  PROVE  StreamInv'
<1>1. CASE PutStep
  BY <1>1, PutStepWith, StreamPut
<1>2. CASE ~PutStep
  BY <1>2, NoPut, StreamKept
<1> QED BY <1>1, <1>2

-----------------------------------------------------------------------------
(* The document.                                                            *)

(* What may be written to the document: an event of the run, newer than all *)
(* of them, a message of the user, newer than everything, or an error.      *)
Fits(e) ==
  /\ e \in EventType
  /\ e.kind \in SavedKinds \cup {"user", "error"}
  /\ e.kind = "error" <=> e.id = 0
  /\ e.kind # "error" =>
       \A i \in DOMAIN doc : doc[i].kind \in SavedKinds => doc[i].id < e.id

LEMMA DocEntry ==
  ASSUME TypeInv, NEW i \in DOMAIN doc
  PROVE  /\ doc[i] \in EventType /\ doc[i].id \in Nat /\ i \in Nat
         /\ i \in 1..Len(doc) /\ Len(doc) \in Nat
<1>1. doc \in Seq(EventType)
  BY DEF TypeInv
<1>2. doc[i] \in EventType /\ i \in 1..Len(doc) /\ Len(doc) \in Nat
  BY <1>1
<1> QED BY <1>2 DEF EventType

LEMMA AppendedEntry ==
  ASSUME TypeInv, NEW e \in EventType
  PROVE  /\ DOMAIN Append(doc, e) = DOMAIN doc \cup {Len(doc) + 1}
         /\ Len(Append(doc, e)) = Len(doc) + 1
         /\ Append(doc, e)[Len(doc) + 1] = e
         /\ Append(doc, e) # <<>>
         /\ \A i \in DOMAIN doc : Append(doc, e)[i] = doc[i] /\ i < Len(doc) + 1
         /\ Len(doc) \in Nat /\ Len(doc) + 1 \notin DOMAIN doc
<1>1. doc \in Seq(EventType)
  BY DEF TypeInv
<1> QED BY <1>1

LEMMA DocGrows ==
  ASSUME TypeInv, DocInv, NEW e, Fits(e), doc' = Append(doc, e),
         clock' \in Nat, clock <= clock', e.id <= clock'
  PROVE  SavedInv' /\ SavedOrderInv' /\ NewestInv'
<1>e. e \in EventType /\ e.id \in Nat /\ clock \in Nat
  BY DEF Fits, EventType, TypeInv
<1>a. /\ DOMAIN doc' = DOMAIN doc \cup {Len(doc) + 1}
      /\ Len(doc') = Len(doc) + 1 /\ doc'[Len(doc) + 1] = e
      /\ \A i \in DOMAIN doc : doc'[i] = doc[i] /\ i < Len(doc) + 1
      /\ Len(doc) \in Nat
  BY <1>e, AppendedEntry
<1>1. SavedInv'
  <2> SUFFICES ASSUME NEW i \in DOMAIN doc'
               PROVE  /\ doc'[i].kind \in SavedKinds \cup {"user", "error"}
                      /\ doc'[i].id <= clock'
                      /\ doc'[i].kind = "error" <=> doc'[i].id = 0
    BY DEF SavedInv
  <2>1. CASE i \in DOMAIN doc
    <3>1. doc[i].id \in Nat
      BY <2>1, DocEntry
    <3> QED BY <3>1, <2>1, <1>a, <1>e DEF DocInv, SavedInv
  <2>2. CASE i = Len(doc) + 1
    BY <2>2, <1>a DEF Fits
  <2> QED BY <2>1, <2>2, <1>a
<1>2. SavedOrderInv'
  <2> SUFFICES ASSUME NEW i \in DOMAIN doc', NEW j \in DOMAIN doc', i < j,
                      doc'[i].kind \in SavedKinds, doc'[j].kind \in SavedKinds
               PROVE  doc'[i].id < doc'[j].id
    BY DEF SavedOrderInv
  <2>1. i \in DOMAIN doc
    <3>1. CASE i = Len(doc) + 1
      <4>1. j \in Nat /\ (j < Len(doc) + 1 \/ j = Len(doc) + 1)
        BY <1>a, DocEntry
      <4> QED BY <4>1, <3>1, <1>a
    <3> QED BY <3>1, <1>a
  <2>2. CASE j \in DOMAIN doc
    BY <2>1, <2>2, <1>a DEF DocInv, SavedOrderInv
  <2>3. CASE j = Len(doc) + 1
    BY <2>1, <2>3, <1>a DEF Fits, SavedKinds
  <2> QED BY <2>2, <2>3, <1>a
<1>3. NewestInv'
  <2> SUFFICES ASSUME e.kind # "error", NEW i \in DOMAIN doc',
                      doc'[i].kind \in SavedKinds
               PROVE  doc'[i].id <= e.id
    BY <1>a DEF NewestInv
  <2>1. CASE i \in DOMAIN doc
    <3>1. doc[i].id \in Nat
      BY <2>1, DocEntry
    <3> QED BY <3>1, <2>1, <1>a, <1>e DEF Fits
  <2>2. CASE i = Len(doc) + 1
    BY <2>2, <1>a, <1>e
  <2> QED BY <2>1, <2>2, <1>a
<1> QED BY <1>1, <1>2, <1>3

LEMMA UnsavedFits ==
  ASSUME TypeInv, DocInv, unsaved # NoEvent
  PROVE  Fits(unsaved) /\ unsaved.id <= clock
BY DEF DocInv, UnsavedInv, Fits, SavedKinds, TypeInv, EventType

LEMMA MessageFits ==
  ASSUME TypeInv, Counts, PhaseInv, DocInv, TakeMessage
  PROVE  Fits(Message) /\ Message.id = clock + 1
<1>1. Message \in EventType /\ Message.kind = "user" /\ Message.id = clock + 1
  BY TakeMessageParts
<1>2. clock \in Nat
  BY DEF TypeInv
<1>3. ASSUME NEW i \in DOMAIN doc PROVE doc[i].id < Message.id
  <2>1. doc[i].id \in Nat /\ doc[i].id <= clock
    BY DocEntry DEF DocInv, SavedInv
  <2> QED BY <2>1, <1>1, <1>2
<1> QED BY <1>1, <1>2, <1>3 DEF Fits

LEMMA ErrorFits == TypeInv => Fits(Error) /\ Error.id = 0
BY ErrorTyped DEF Fits

(* What a step does to the document.                                        *)
DocMove ==
  \/ UNCHANGED <<doc, unsaved>>
  \/ doc' = doc /\ unsaved' = NoEvent
  \/ \E e \in EventType, d \in Nat : PutWith(e, d)
  \/ /\ unsaved # NoEvent /\ doc' = Append(doc, unsaved) /\ unsaved' = NoEvent
  \/ /\ Fits(Message) /\ Message.id = clock + 1 /\ clock' = clock + 1
     /\ doc' = Append(doc, Message) /\ unsaved' = unsaved
  \/ doc' = Append(doc, Error) /\ unsaved' = unsaved

LEMMA DocMoves ==
  ASSUME TypeInv, Counts, PhaseInv, PlaceInv, DocInv, Replayed(doc) \in PageType,
         [Next]_vars
  PROVE  DocMove /\ (clock' = clock \/ clock' = clock + 1)
<1>1. CASE UNCHANGED vars
  BY <1>1 DEF vars, DocMove
<1>2. CASE NextTurn
  BY <1>2 DEF NextTurn, DocMove
<1>3. CASE PutStep
  <2>1. PICK e \in EventType, d \in Nat : PutWith(e, d)
    BY <1>3, PutStepWith
  <2>2. clock' = clock + 1
    BY <2>1 DEF PutWith
  <2> QED BY <2>1, <2>2 DEF DocMove
<1>4. CASE Save
  BY <1>4, SaveParts DEF DocMove
<1>5. CASE EndTask
  BY <1>5 DEF EndTask, DocMove
<1>6. CASE Stop
  BY <1>6, StopParts DEF DocMove
<1>7. CASE TakeMessage
  BY <1>7, TakeMessageParts, MessageFits DEF DocMove
<1>8. CASE PostElsewhere
  BY <1>7, <1>8 DEF PostElsewhere
<1>9. ASSUME NEW p \in Pages, PageStep(p)
      PROVE  \/ TakeMessage
             \/ UNCHANGED <<clock, doc, unsaved>>
             \/ UNCHANGED <<clock, unsaved>> /\ doc' = Append(doc, Error)
  BY <1>9, PostParts, ReloadParts, ViewParts, ReadParts, ClosingParts,
     ReadFailsParts DEF PageStep, Closes
<1>10. ASSUME NEW p \in Pages, PageStep(p)
       PROVE  DocMove /\ (clock' = clock \/ clock' = clock + 1)
  BY <1>7, <1>9, <1>10 DEF DocMove
<1> QED BY <1>1, <1>2, <1>3, <1>4, <1>5, <1>6, <1>8, <1>10
        DEF Next, RunStep, PutStep

LEMMA DocStep ==
  ASSUME TypeInv, DocInv, DocMove, clock' = clock \/ clock' = clock + 1
  PROVE  DocInv'
<1>t. clock \in Nat /\ clock' \in Nat /\ clock <= clock'
      /\ unsaved \in EventType /\ unsaved.id \in Nat
  BY DEF TypeInv, EventType
<1>k. ASSUME doc' = doc PROVE SavedInv' /\ SavedOrderInv' /\ NewestInv'
  <2>1. SavedInv'
    <3> SUFFICES ASSUME NEW i \in DOMAIN doc
                 PROVE  /\ doc[i].kind \in SavedKinds \cup {"user", "error"}
                        /\ doc[i].id <= clock'
                        /\ doc[i].kind = "error" <=> doc[i].id = 0
      BY <1>k DEF SavedInv
    <3>1. doc[i].id \in Nat
      BY DocEntry
    <3> QED BY <3>1, <1>t DEF DocInv, SavedInv
  <2> QED BY <2>1, <1>k DEF DocInv, SavedOrderInv, NewestInv
<1>n. unsaved' = NoEvent => UnsavedInv'
  BY DEF UnsavedInv
<1>1. CASE UNCHANGED <<doc, unsaved>>
  <2>1. UnsavedInv'
    BY <1>1, <1>t DEF DocInv, UnsavedInv
  <2> QED BY <2>1, <1>1, <1>k DEF DocInv
<1>2. CASE doc' = doc /\ unsaved' = NoEvent
  BY <1>2, <1>k, <1>n DEF DocInv
<1>3. CASE \E e \in EventType, d \in Nat : PutWith(e, d)
  <2>1. PICK e \in EventType, d \in Nat : PutWith(e, d)
    BY <1>3
  <2>2. /\ e.id = clock + 1 /\ e.kind \in RunKinds /\ clock' = clock + 1
        /\ unsaved' = (IF Transient(e) THEN NoEvent ELSE e) /\ doc' = doc
    BY <2>1 DEF PutWith
  <2>3. UnsavedInv'
    <3>1. CASE Transient(e)
      BY <3>1, <2>2, <1>n
    <3>2. CASE ~Transient(e)
      <4>1. unsaved' = e /\ e.kind \in SavedKinds
        BY <3>2, <2>2 DEF Transient, RunKinds, SavedKinds
      <4>2. ASSUME NEW i \in DOMAIN doc PROVE doc[i].id # e.id /\ doc[i].id < e.id
        <5>1. doc[i].id \in Nat /\ doc[i].id <= clock
          BY DocEntry DEF DocInv, SavedInv
        <5> QED BY <5>1, <2>2, <1>t
      <4>3. 1 <= e.id /\ e.id <= clock'
        BY <2>2, <1>t
      <4> QED BY <4>1, <4>2, <4>3, <2>2 DEF UnsavedInv
    <3> QED BY <3>1, <3>2
  <2> QED BY <2>2, <2>3, <1>k DEF DocInv
<1>4. CASE unsaved # NoEvent /\ doc' = Append(doc, unsaved) /\ unsaved' = NoEvent
  <2>1. Fits(unsaved) /\ unsaved.id <= clock'
    BY <1>4, <1>t, UnsavedFits
  <2> QED BY <2>1, <1>4, <1>n, <1>t, DocGrows DEF DocInv
<1>u. ASSUME NEW e, e \in EventType, doc' = Append(doc, e), unsaved' = unsaved,
             e.kind \notin SavedKinds,
             unsaved # NoEvent => e.id # unsaved.id
      PROVE  UnsavedInv'
  <2> SUFFICES ASSUME unsaved # NoEvent
               PROVE  /\ unsaved.kind \in SavedKinds
                      /\ 1 <= unsaved.id /\ unsaved.id <= clock'
                      /\ \A i \in DOMAIN doc' :
                           /\ doc'[i].id # unsaved.id
                           /\ doc'[i].kind \in SavedKinds => doc'[i].id < unsaved.id
    BY <1>u DEF UnsavedInv
  <2>1. /\ unsaved.kind \in SavedKinds /\ 1 <= unsaved.id /\ unsaved.id <= clock
        /\ \A i \in DOMAIN doc :
             /\ doc[i].id # unsaved.id
             /\ doc[i].kind \in SavedKinds => doc[i].id < unsaved.id
    BY DEF DocInv, UnsavedInv
  <2>2. /\ DOMAIN doc' = DOMAIN doc \cup {Len(doc) + 1} /\ doc'[Len(doc) + 1] = e
        /\ \A i \in DOMAIN doc : doc'[i] = doc[i]
    BY <1>u, AppendedEntry
  <2> QED BY <2>1, <2>2, <1>u, <1>t
<1>5. CASE /\ Fits(Message) /\ Message.id = clock + 1 /\ clock' = clock + 1
           /\ doc' = Append(doc, Message) /\ unsaved' = unsaved
  <2>1. Message \in EventType /\ Message.kind \notin SavedKinds
    BY <1>5 DEF Fits, Message, Event, SavedKinds
  <2>2. unsaved # NoEvent => Message.id # unsaved.id
    BY <1>5, <1>t DEF DocInv, UnsavedInv
  <2>3. UnsavedInv'
    BY <2>1, <2>2, <1>5, <1>u
  <2>4. Message.id <= clock'
    BY <1>5, <1>t
  <2> QED BY <2>3, <2>4, <1>5, <1>t, DocGrows DEF DocInv
<1>6. CASE doc' = Append(doc, Error) /\ unsaved' = unsaved
  <2>1. Fits(Error) /\ Error.id = 0 /\ Error \in EventType /\ Error.kind \notin SavedKinds
    BY ErrorFits, ErrorTyped DEF SavedKinds
  <2>2. unsaved # NoEvent => Error.id # unsaved.id
    BY <2>1, <1>t DEF DocInv, UnsavedInv
  <2>3. UnsavedInv'
    BY <2>1, <2>2, <1>6, <1>u
  <2>4. Error.id <= clock'
    BY <2>1, <1>t
  <2> QED BY <2>1, <2>3, <2>4, <1>6, <1>t, DocGrows DEF DocInv
<1> QED BY <1>1, <1>2, <1>3, <1>4, <1>5, <1>6 DEF DocMove

-----------------------------------------------------------------------------
(* The replay of the document.                                              *)

(* A page without bubbles gets one item for every event but a run's last.   *)
LEMMA PlainRendered ==
  ASSUME NEW pg \in PageType, NEW e \in EventType, pg.streaming = FALSE,
         \A k \in DOMAIN pg.items : pg.items[k].kind # "bubble",
         e.kind \in SavedKinds \cup {"user", "error"}
  PROVE  /\ Rendered(pg, e).streaming = FALSE
         /\ Rendered(pg, e).items =
              (IF e.kind = "done" THEN pg.items ELSE Append(pg.items, Item(e)))
<1>p. pg.items \in Seq(ItemType) /\ Len(pg.items) \in Nat
  BY DEF PageType
<1>1. CASE e.kind \in {"text", "user"}
  <2>1. ~(Len(pg.items) > 0 /\ pg.items[Len(pg.items)].kind = "bubble")
    BY <1>p
  <2>2. WithoutBubble(pg) = pg.items
    BY <2>1 DEF WithoutBubble
  <2> QED BY <2>2, <1>1, RenderedMessage
<1>2. CASE e.kind \in {"step", "error"}
  BY <1>2, RenderedItem
<1>3. CASE e.kind = "done"
  BY <1>3, RenderedDone
<1> QED BY <1>1, <1>2, <1>3 DEF SavedKinds

LEMMA ReplayGoesOn ==
  ASSUME TypeInv, DocInv, Foldable(doc), ReplayInv, NEW e, Fits(e),
         doc' = Append(doc, e)
  PROVE  Foldable(doc') /\ ReplayInv'
<1> DEFINE pg == Replayed(doc)
           its == pg.items
           new == Replayed(doc')
           n == Len(its)
<1>e. /\ e \in EventType /\ e.kind \in SavedKinds \cup {"user", "error"}
      /\ doc \in Seq(EventType)
  BY DEF Fits, TypeInv
<1>a. /\ DOMAIN doc' = DOMAIN doc \cup {Len(doc) + 1}
      /\ Len(doc') = Len(doc) + 1 /\ doc'[Len(doc) + 1] = e /\ doc' # <<>>
      /\ \A i \in DOMAIN doc : doc'[i] = doc[i]
  BY <1>e, AppendedEntry
<1>r. /\ pg \in PageType /\ Fresh(pg)
      /\ \A k \in DOMAIN its : its[k].kind # "bubble"
      /\ \A k \in DOMAIN its : OfRun(its[k]) =>
           \E i \in DOMAIN doc : its[k] = Item(doc[i])
      /\ \A k, l \in DOMAIN its :
           k < l /\ OfRun(its[k]) /\ OfRun(its[l]) => its[k].id < its[l].id
      /\ \A i \in DOMAIN doc : OfRun(doc[i]) \/ doc[i].kind = "error" =>
           \E k \in DOMAIN its : its[k] = Item(doc[i])
  BY DEF ReplayInv
<1>i. /\ Item(e) \in ItemType /\ Item(e).kind = e.kind /\ Item(e).id = e.id
  BY <1>e, ItemTyped
<1>1. Foldable(doc') /\ new = Rendered(pg, e)
  BY <1>e, ReplayGrows
<1>2. new.streaming = FALSE /\ new.items = IF e.kind = "done" THEN its ELSE Append(its, Item(e))
  BY <1>1, <1>e, <1>r, PlainRendered DEF Fresh
<1>3. new \in PageType /\ Fresh(new) /\ new.cursor = e.id
  <2>1. new \in PageType
    BY <1>1, <1>e, <1>r, RenderedTyped
  <2>2. /\ new.cursor = e.id /\ new.at = pg.at /\ new.task = pg.task
        /\ new.rewound = pg.rewound /\ new.slipped = pg.slipped
    BY <1>1, <1>e, <1>r, RenderedFields
  <2> QED BY <2>1, <2>2, <1>2, <1>r DEF Fresh
<1> HIDE DEF new, pg
<1>n. its \in Seq(ItemType) /\ n \in Nat
  BY <1>r DEF PageType
<1>c. new.cursor = (IF doc' = <<>> THEN 0 ELSE doc'[Len(doc')].id)
  BY <1>3, <1>a
<1>d. ASSUME NEW x \in ItemType, OfRun(x), \E i \in DOMAIN doc : x = Item(doc[i])
      PROVE  \E i \in DOMAIN doc' : x = Item(doc'[i])
  BY <1>d, <1>a
<1>4. CASE e.kind = "done"
  <2>1. new.items = its
    BY <1>2, <1>4
  <2>2. \A i \in DOMAIN doc' : OfRun(doc'[i]) \/ doc'[i].kind = "error" =>
          \E k \in DOMAIN its : its[k] = Item(doc'[i])
    BY <1>4, <1>a, <1>r DEF OfRun
  <2>3. \A k \in DOMAIN its : OfRun(its[k]) =>
          \E i \in DOMAIN doc' : its[k] = Item(doc'[i])
    BY <1>a, <1>r
  <2> QED BY <2>1, <2>2, <2>3, <1>1, <1>3, <1>c, <1>r DEF ReplayInv, new
<1>5. CASE e.kind # "done"
  <2>1. /\ DOMAIN new.items = DOMAIN its \cup {n + 1}
        /\ new.items[n + 1] = Item(e)
        /\ \A k \in DOMAIN its : new.items[k] = its[k] /\ k \in Nat /\ k < n + 1
    BY <1>2, <1>5, <1>i, <1>n
  <2>2. \A k \in DOMAIN new.items : new.items[k].kind # "bubble"
    BY <2>1, <1>r, <1>i, <1>e DEF SavedKinds
  <2>3. \A k \in DOMAIN new.items : OfRun(new.items[k]) =>
          \E i \in DOMAIN doc' : new.items[k] = Item(doc'[i])
    <3> SUFFICES ASSUME NEW k \in DOMAIN new.items, OfRun(new.items[k])
                 PROVE  \E i \in DOMAIN doc' : new.items[k] = Item(doc'[i])
      OBVIOUS
    <3>1. CASE k = n + 1
      BY <3>1, <2>1, <1>a
    <3>2. CASE k \in DOMAIN its
      <4>1. PICK i \in DOMAIN doc : its[k] = Item(doc[i])
        BY <3>2, <2>1, <1>r
      <4> QED BY <4>1, <3>2, <2>1, <1>a
    <3> QED BY <3>1, <3>2, <2>1
  <2>4. \A k, l \in DOMAIN new.items :
          k < l /\ OfRun(new.items[k]) /\ OfRun(new.items[l])
            => new.items[k].id < new.items[l].id
    <3> SUFFICES ASSUME NEW k \in DOMAIN new.items, NEW l \in DOMAIN new.items,
                        k < l, OfRun(new.items[k]), OfRun(new.items[l])
                 PROVE  new.items[k].id < new.items[l].id
      OBVIOUS
    <3>1. k \in DOMAIN its
      <4>1. l \in Nat /\ (l < n + 1 \/ l = n + 1)
        BY <2>1, <1>n
      <4> QED BY <4>1, <2>1, <1>n
    <3>2. CASE l \in DOMAIN its
      BY <3>1, <3>2, <2>1, <1>r
    <3>3. CASE l = n + 1
      <4>1. PICK i \in DOMAIN doc : its[k] = Item(doc[i])
        BY <3>1, <2>1, <1>r
      <4>2. its[k].kind = doc[i].kind /\ its[k].id = doc[i].id
        BY <4>1, DocEntry, ItemTyped
      <4>3. OfRun(e) /\ OfRun(doc[i])
        BY <4>2, <3>1, <3>3, <2>1, <1>i DEF OfRun
      <4>4. doc[i].id < e.id
        BY <4>3 DEF Fits, OfRun, SavedKinds
      <4> QED BY <4>2, <4>4, <3>1, <3>3, <2>1, <1>i
    <3> QED BY <3>2, <3>3, <2>1
  <2>5. \A i \in DOMAIN doc' : OfRun(doc'[i]) \/ doc'[i].kind = "error" =>
          \E k \in DOMAIN new.items : new.items[k] = Item(doc'[i])
    <3> SUFFICES ASSUME NEW i \in DOMAIN doc',
                        OfRun(doc'[i]) \/ doc'[i].kind = "error"
                 PROVE  \E k \in DOMAIN new.items : new.items[k] = Item(doc'[i])
      OBVIOUS
    <3>1. CASE i \in DOMAIN doc
      <4>1. PICK k \in DOMAIN its : its[k] = Item(doc[i])
        BY <3>1, <1>a, <1>r
      <4> QED BY <4>1, <3>1, <2>1, <1>a
    <3>2. CASE i = Len(doc) + 1
      BY <3>2, <2>1, <1>a
    <3> QED BY <3>1, <3>2, <1>a
  <2> QED BY <2>2, <2>3, <2>4, <2>5, <1>1, <1>3, <1>c DEF ReplayInv, new
<1> QED BY <1>4, <1>5

LEMMA ReplayInit == doc = <<>> => Foldable(doc) /\ ReplayInv
<1> SUFFICES ASSUME doc = <<>> PROVE Foldable(doc) /\ ReplayInv
  OBVIOUS
<1>1. Foldable(doc) /\ Replayed(doc) = FreshPage
  BY FoldEmpty
<1>2. FreshPage \in PageType /\ Fresh(FreshPage) /\ FreshPage.cursor = 0
      /\ FreshPage.items = <<>>
  BY DEF FreshPage, PageType, Fresh
<1> QED BY <1>1, <1>2 DEF ReplayInv

LEMMA ReplayStep ==
  ASSUME TypeInv, DocInv, Foldable(doc), ReplayInv, DocMove
  PROVE  Foldable(doc') /\ ReplayInv'
<1>k. ASSUME doc' = doc PROVE Foldable(doc') /\ ReplayInv'
  BY <1>k DEF ReplayInv
<1>1. CASE \E e \in EventType, d \in Nat : PutWith(e, d)
  BY <1>1, <1>k DEF PutWith
<1>2. CASE unsaved # NoEvent /\ doc' = Append(doc, unsaved) /\ unsaved' = NoEvent
  BY <1>2, UnsavedFits, ReplayGoesOn
<1>3. CASE Fits(Message) /\ doc' = Append(doc, Message)
  BY <1>3, ReplayGoesOn
<1>4. CASE doc' = Append(doc, Error)
  BY <1>4, ErrorFits, ReplayGoesOn
<1> QED BY <1>k, <1>1, <1>2, <1>3, <1>4 DEF DocMove

-----------------------------------------------------------------------------
(* The pages: where they stand.                                             *)

(* The three kinds of step: a put, one of the run or of another tab that    *)
(* leaves streams and pages alone, and one of a page.                       *)
LEMMA Moves ==
  ASSUME TypeInv, Counts, PhaseInv, PlaceInv, Replayed(doc) \in PageType,
         [Next]_vars
  PROVE  \/ \E e \in EventType, d \in Nat : PutWith(e, d)
         \/ stream' = stream /\ page' = page
         \/ stream' = stream /\ \E p \in Pages : PageStep(p) /\ OnlyPage(p)
<1>1. CASE UNCHANGED vars
  BY <1>1 DEF vars
<1>2. CASE NextTurn
  BY <1>2 DEF NextTurn
<1>3. CASE PutStep
  BY <1>3, PutStepWith
<1>4. CASE Save
  BY <1>4, SaveParts
<1>5. CASE EndTask
  BY <1>5 DEF EndTask
<1>6. CASE Stop
  BY <1>6, StopParts
<1>7. CASE PostElsewhere
  BY <1>7, TakeMessageParts DEF PostElsewhere
<1>8. ASSUME NEW p \in Pages, PageStep(p)
      PROVE  stream' = stream /\ OnlyPage(p)
  <2>1. CASE Post(p)
    BY <2>1, PostParts, TakeMessageParts
  <2>2. CASE Reload(p)
    BY <2>2, ReloadParts
  <2>3. CASE View(p)
    BY <2>3, ViewParts
  <2>4. CASE Read(p)
    BY <2>4, ReadParts
  <2>5. CASE DrainedDry(p) \/ Drop(p)
    BY <2>5, ClosingParts, ClosesParts DEF Closes
  <2>6. CASE ReadFails(p)
    BY <2>6, ReadFailsParts
  <2> QED BY <1>8, <2>1, <2>2, <2>3, <2>4, <2>5, <2>6 DEF PageStep
<1> QED BY <1>1, <1>2, <1>3, <1>4, <1>5, <1>6, <1>7, <1>8
        DEF Next, RunStep, PutStep

LEMMA ClockAndTask ==
  ASSUME TypeInv, Counts, PhaseInv, PlaceInv, Replayed(doc) \in PageType,
         [Next]_vars
  PROVE  /\ clock' = clock \/ clock' = clock + 1
         /\ task' = task \/ task' = task + 1
<1>1. CASE PutStep
  BY <1>1, PutStepWith DEF PutWith
<1>2. CASE ~PutStep
  BY <1>2, NoPut
<1> QED BY <1>1, <1>2

LEMMA PageTyped ==
  ASSUME TypeInv, NEW p \in Pages
  PROVE  /\ page[p] \in PageType /\ page[p].cursor \in Nat /\ page[p].task \in Nat
         /\ page[p].items \in Seq(ItemType) /\ Len(page[p].items) \in Nat
         /\ page[p].streaming \in BOOLEAN /\ page[p].rewound \in BOOLEAN
         /\ page[p].slipped \in BOOLEAN
         /\ DOMAIN page[p].items = 1..Len(page[p].items)
<1>1. page[p] \in PageType
  BY DEF TypeInv
<1>2. page[p].items \in Seq(ItemType)
  BY <1>1 DEF PageType
<1> QED BY <1>1, <1>2 DEF PageType

LEMMA PagePlaced ==
  ASSUME TypeInv, PhaseInv, Counts, PlaceInv, StreamInv, DocInv, ReplayInv,
         NEW p \in Pages, PageStep(p)
  PROVE  Placed(p)'
<1>t. clock \in Nat /\ task \in Nat
  BY DEF TypeInv
<1>p. page[p].cursor \in Nat /\ page[p].task \in Nat
  BY PageTyped
<1>i. /\ page[p].task <= task /\ page[p].cursor <= clock
      /\ page[p].at = "drain" => page[p].task # 0
      /\ \A t \in Tasks : page[p].task < t =>
           \A i \in DOMAIN stream[t] : stream[t][i].id > page[p].cursor
  BY DEF PlaceInv, Placed
<1>n. ASSUME NEW t \in Tasks, task < t, NEW i \in DOMAIN stream[t] PROVE FALSE
  <2>1. t <= task /\ t \in Nat
    BY EntryTyped DEF StreamInv, EntriesInv
  <2> QED BY <2>1, <1>n, <1>t
<1>1. CASE Post(p)
  <2>1. TakeMessage /\ page'[p].task = task' /\ page'[p].cursor = page[p].cursor
    BY <1>1, PostParts
  <2>2. /\ clock' = clock + 1 /\ stream' = stream
        /\ \/ Registered /\ task' = task
           \/ task' = task + 1
    BY <2>1, TakeMessageParts
  <2>3. task' # 0 /\ task' >= task /\ task' \in Nat
    BY <2>2, <1>t DEF PhaseInv, Registered
  <2>4. \A t \in Tasks : task' < t => task < t
    BY <2>3, <1>t DEF Tasks
  <2> QED BY <2>1, <2>2, <2>3, <2>4, <1>n, <1>t, <1>p, <1>i DEF Placed
<1>2. CASE Reload(p)
  <2>1. /\ UNCHANGED <<clock, task, stream>>
        /\ page'[p].at # "drain" /\ page'[p].task = task
        /\ page'[p].cursor = Replayed(doc).cursor
    BY <1>2, ReloadParts DEF ReplayInv
  <2>2. Replayed(doc).cursor <= clock
    <3>1. CASE doc = <<>>
      BY <3>1, <1>t DEF ReplayInv
    <3>2. CASE doc # <<>>
      <4>1. Len(doc) \in DOMAIN doc
        BY <3>2 DEF TypeInv
      <4> QED BY <4>1, <3>2 DEF ReplayInv, DocInv, SavedInv
    <3> QED BY <3>1, <3>2
  <2> QED BY <2>1, <2>2, <1>n, <1>t DEF Placed
<1>3. CASE View(p)
  <2>1. /\ UNCHANGED <<clock, task, stream>> /\ page'[p].cursor = page[p].cursor
        /\ \/ page'[p].task = task /\ task # 0
           \/ page'[p].at = "closed" /\ page'[p].task = page[p].task
    BY <1>3, ViewParts
  <2> QED BY <2>1, <1>n, <1>t, <1>i DEF Placed
<1>4. CASE Read(p)
  <2>1. /\ UNCHANGED <<clock, task, stream>> /\ page[p].task \in Tasks
        /\ page[p].at = "drain"
    BY <1>4, ReadParts
  <2>2. PICK i \in DOMAIN stream[page[p].task] : Reads(p, i)
    BY <1>4, ReadParts
  <2>3. page'[p].task = page[p].task /\ page'[p].cursor = stream[page[p].task][i].id
    BY <2>2 DEF Reads
  <2>4. stream[page[p].task][i].id <= clock
    BY <2>1 DEF StreamInv, EntriesInv
  <2>5. ASSUME NEW t \in Tasks, page[p].task < t, NEW j \in DOMAIN stream[t]
        PROVE  stream[t][j].id > stream[page[p].task][i].id
    <3>1. stream[page[p].task][i].id < stream[t][j].id
      BY <2>1, <2>5 DEF StreamInv, TasksInv
    <3>2. stream[t][j].id \in Nat /\ stream[page[p].task][i].id \in Nat
      BY <2>1, EntryTyped
    <3> QED BY <3>1, <3>2
  <2> QED BY <2>1, <2>3, <2>4, <2>5, <1>i DEF Placed
<1>5. CASE DrainedDry(p) \/ Drop(p)
  <2>1. Closes(p)
    BY <1>5, ClosingParts
  <2>2. /\ page'[p].at = "closed" /\ page'[p].task = page[p].task
        /\ page'[p].cursor = page[p].cursor
    BY <2>1, ClosesParts
  <2>3. UNCHANGED <<clock, task, stream>>
    BY <2>1 DEF Closes
  <2> QED BY <2>2, <2>3, <1>i DEF Placed
<1>6. CASE ReadFails(p)
  <2>1. /\ UNCHANGED <<clock, task, stream>> /\ page'[p].at = "closed"
        /\ page'[p].task = page[p].task /\ page'[p].cursor = 0
    BY <1>6, ReadFailsParts
  <2>2. ASSUME NEW t \in Tasks, NEW i \in DOMAIN stream[t]
        PROVE  stream[t][i].id > 0
    <3>1. 1 <= stream[t][i].id /\ stream[t][i].id \in Nat
      BY EntryTyped DEF StreamInv, EntriesInv
    <3> QED BY <3>1
  <2> QED BY <2>1, <2>2, <1>i, <1>t DEF Placed
<1> QED BY <1>1, <1>2, <1>3, <1>4, <1>5, <1>6 DEF PageStep

LEMMA PlaceStep ==
  ASSUME TypeInv, PhaseInv, Counts, PlaceInv, StreamInv, DocInv, ReplayInv,
         [Next]_vars
  PROVE  PlaceInv'
<1>t. clock \in Nat /\ task \in Nat /\ Replayed(doc) \in PageType
  BY DEF TypeInv, ReplayInv
<1>c. clock' \in Nat /\ task' \in Nat /\ clock <= clock' /\ task <= task'
  BY <1>t, ClockAndTask
<1>k. ASSUME NEW q \in Pages, page'[q] = page[q], stream' = stream
      PROVE  Placed(q)'
  <2>1. page[q].cursor \in Nat /\ page[q].task \in Nat
    BY PageTyped
  <2> QED BY <1>k, <2>1, <1>c, <1>t DEF PlaceInv, Placed
<1>1. CASE \E e \in EventType, d \in Nat : PutWith(e, d)
  <2>1. PICK e \in EventType, d \in Nat : PutWith(e, d)
    BY <1>1
  <2>2. /\ e.id = clock + 1 /\ page' = page
        /\ \A t \in Tasks \ {task} : stream'[t] = stream[t]
    BY <2>1 DEF PutWith
  <2> SUFFICES ASSUME NEW q \in Pages PROVE Placed(q)'
    BY DEF PlaceInv
  <2>3. page[q].cursor \in Nat /\ page[q].task \in Nat /\ page[q].cursor <= clock
        /\ page[q].task <= task
        /\ (page[q].at = "drain" => page[q].task # 0)
    BY PageTyped DEF PlaceInv, Placed
  <2>4. ASSUME NEW t \in Tasks, page[q].task < t, NEW i \in DOMAIN stream'[t]
        PROVE  stream'[t][i].id > page[q].cursor
    <3>1. CASE t # task
      BY <3>1, <2>2, <2>4 DEF PlaceInv, Placed
    <3>2. CASE t = task
      <4>1. CASE stream'[task][i] = e
        BY <4>1, <3>2, <2>2, <2>3, <1>t
      <4>2. CASE i + d \in DOMAIN stream[task] /\ stream'[task][i] = stream[task][i + d]
        BY <4>2, <3>2, <2>4 DEF PlaceInv, Placed
      <4> QED BY <4>1, <4>2, <3>2, <2>1, GrownEntry
    <3> QED BY <3>1, <3>2
  <2> QED BY <2>2, <2>3, <2>4, <1>t, <1>c DEF Placed
<1>2. CASE stream' = stream /\ page' = page
  BY <1>2, <1>k DEF PlaceInv
<1>3. ASSUME stream' = stream, NEW p \in Pages, PageStep(p), OnlyPage(p)
      PROVE  PlaceInv'
  <2> SUFFICES ASSUME NEW q \in Pages PROVE Placed(q)'
    BY DEF PlaceInv
  <2>1. CASE q = p
    BY <2>1, <1>3, PagePlaced
  <2>2. CASE q # p
    BY <2>2, <1>3, <1>k DEF OnlyPage
  <2> QED BY <2>1, <2>2
<1> QED BY <1>1, <1>2, <1>3, <1>t, Moves

-----------------------------------------------------------------------------
(* The pages: once and in order.                                            *)

(* The items after a read: those before, of which the last may have gone,   *)
(* and perhaps one for the event.                                           *)
ReadTo(p, e, m) ==
  LET old == page[p].items
      new == page'[p].items
  IN  /\ m = Len(old) \/ m + 1 = Len(old)
      /\ m + 1 = Len(old) =>
           /\ e.kind \in {"text", "user"}
           /\ \/ old[m + 1].kind = "bubble"
              \/ page[p].streaming /\ old[m + 1].kind \in {"text", "error"}
      /\ \A k \in 1..m : new[k] = old[k] /\ k \in DOMAIN old /\ k \in DOMAIN new
      /\ \/ DOMAIN new = 1..m /\ Len(new) = m
         \/ /\ DOMAIN new = 1..(m + 1) /\ Len(new) = m + 1
            /\ new[m + 1].id = e.id /\ new[m + 1].of = e.of
            /\ \/ new[m + 1] = Item(e) /\ e.kind \in {"text", "user", "step", "error"}
               \/ /\ new[m + 1].kind = "bubble"
                  /\ Transient(e) /\ ~page[p].streaming

LEMMA ReadItems ==
  ASSUME TypeInv, NEW p \in Pages, NEW i \in DOMAIN stream[page[p].task],
         Reads(p, i)
  PROVE  \E m \in Nat : ReadTo(p, stream[page[p].task][i], m)
<1> DEFINE e == stream[page[p].task][i]
           r == Rendered(page[p], e)
           old == page[p].items
<1>1. e \in EventType /\ page'[p].items = r.items
  BY DEF Reads
<1>2. page[p] \in PageType /\ old \in Seq(ItemType) /\ Len(old) \in Nat
  BY PageTyped
<1>3. r.items \in Seq(ItemType)
  BY <1>1, <1>2, RenderedTyped DEF PageType
<1> HIDE DEF e
<1>4. PICK m \in Nat :
        /\ m = Len(old) \/ m + 1 = Len(old)
        /\ m + 1 = Len(old) =>
             /\ e.kind \in {"text", "user"}
             /\ \/ old[m + 1].kind = "bubble"
                \/ page[p].streaming /\ old[m + 1].kind \in {"text", "error"}
        /\ \A k \in 1..m : r.items[k] = old[k]
        /\ \/ Len(r.items) = m
           \/ /\ Len(r.items) = m + 1
              /\ r.items[m + 1].id = e.id
              /\ r.items[m + 1].of = e.of
              /\ \/ /\ r.items[m + 1] = Item(e)
                    /\ e.kind \in {"text", "user", "step", "error"}
                 \/ /\ r.items[m + 1].kind = "bubble"
                    /\ Transient(e) /\ ~page[p].streaming
  BY <1>1, <1>2, RenderedItems
<1> HIDE DEF r
<1>5. /\ \A k \in 1..m : k \in DOMAIN old /\ k \in DOMAIN r.items
      /\ DOMAIN r.items = 1..Len(r.items)
  BY <1>2, <1>3, <1>4
<1>6. ReadTo(p, e, m)
  BY <1>1, <1>4, <1>5 DEF ReadTo
<1> QED BY <1>6 DEF e

(* The items after one more that is not of a run.                           *)
Added(p, it) ==
  LET old == page[p].items
      new == page'[p].items
  IN  /\ DOMAIN new = DOMAIN old \cup {Len(old) + 1} /\ Len(new) = Len(old) + 1
      /\ new[Len(old) + 1] = it
      /\ \A k \in DOMAIN old : new[k] = old[k] /\ k < Len(old) + 1 /\ k \in Nat
      /\ Len(old) \in Nat

LEMMA AddedItem ==
  ASSUME TypeInv, NEW p \in Pages, NEW it \in ItemType,
         page'[p].items = Append(page[p].items, it)
  PROVE  Added(p, it)
<1>1. page[p].items \in Seq(ItemType)
  BY PageTyped
<1> QED BY <1>1 DEF Added

LEMMA AddedInOrder ==
  ASSUME TypeInv, NEW p \in Pages, NEW it \in ItemType, Added(p, it), ~OfRun(it),
         InOrder(p)
  PROVE  InOrder(p)'
<1> SUFFICES ASSUME NEW i \in DOMAIN page'[p].items, NEW j \in DOMAIN page'[p].items,
                    i < j, OfRun(page'[p].items[i]), OfRun(page'[p].items[j])
             PROVE  page'[p].items[i].id < page'[p].items[j].id
  BY DEF InOrder
<1>1. i \in DOMAIN page[p].items /\ j \in DOMAIN page[p].items
  BY DEF Added
<1> QED BY <1>1 DEF Added, InOrder

LEMMA ReplayOrdered ==
  ASSUME TypeInv, DocInv, ReplayInv
  PROVE  LET pg == Replayed(doc)
         IN  \/ \A k \in DOMAIN pg.items :
                  OfRun(pg.items[k]) => pg.items[k].id <= pg.cursor
             \/ pg.cursor = 0 /\ HasError(pg)
<1> DEFINE pg == Replayed(doc)
<1>1. CASE doc = <<>>
  <2>1. \A k \in DOMAIN pg.items : ~OfRun(pg.items[k])
    BY <1>1 DEF ReplayInv
  <2> QED BY <2>1
<1>2. CASE doc # <<>>
  <2> DEFINE n == Len(doc)
  <2>1. n \in DOMAIN doc
    BY <1>2 DEF TypeInv
  <2>2. pg.cursor = doc[n].id
    BY <1>2 DEF ReplayInv
  <2>3. CASE doc[n].kind = "error"
    <3>1. pg.cursor = 0
      BY <2>1, <2>2, <2>3 DEF DocInv, SavedInv
    <3>2. PICK k \in DOMAIN pg.items : pg.items[k] = Item(doc[n])
      BY <2>1, <2>3 DEF ReplayInv
    <3>3. pg.items[k].kind = "error"
      BY <3>2, <2>1, <2>3, DocEntry, ItemTyped
    <3> QED BY <3>1, <3>3 DEF HasError
  <2>4. CASE doc[n].kind # "error"
    <3> SUFFICES ASSUME NEW k \in DOMAIN pg.items, OfRun(pg.items[k])
                 PROVE  pg.items[k].id <= pg.cursor
      OBVIOUS
    <3>1. PICK i \in DOMAIN doc : pg.items[k] = Item(doc[i])
      BY DEF ReplayInv
    <3>2. pg.items[k].kind = doc[i].kind /\ pg.items[k].id = doc[i].id
      BY <3>1, DocEntry, ItemTyped
    <3>3. doc[i].kind \in SavedKinds
      BY <3>2 DEF OfRun, SavedKinds
    <3>4. doc[i].id <= doc[n].id
      BY <3>3, <2>4, <1>2 DEF DocInv, NewestInv
    <3> QED BY <3>2, <3>4, <2>2
  <2> QED BY <2>3, <2>4
<1> QED BY <1>1, <1>2

LEMMA PageOrdered ==
  ASSUME TypeInv, PhaseInv, Counts, PlaceInv, StreamInv, DocInv, ReplayInv,
         OrderedInv, NEW p \in Pages, PageStep(p)
  PROVE  Ordered(p)'
<1>i. ~page[p].rewound => InOrder(p) /\ NotAhead(p)
  BY DEF OrderedInv, Ordered
<1>p. /\ page[p].cursor \in Nat /\ page[p].items \in Seq(ItemType)
      /\ Len(page[p].items) \in Nat /\ DOMAIN page[p].items = 1..Len(page[p].items)
  BY PageTyped
<1>1. CASE Post(p)
  <2>1. /\ page'[p].cursor = page[p].cursor
        /\ page[p].rewound => page'[p].rewound
        /\ page[p].cursor = 0 /\ HasError(page[p]) => page'[p].rewound
    BY <1>1, PostParts
  <2>2. PICK it \in ItemType : it.kind = "user" /\ page'[p].items = Append(page[p].items, it)
    BY <1>1, PostParts
  <2>3. Added(p, it) /\ ~OfRun(it)
    BY <2>2, AddedItem DEF OfRun
  <2> SUFFICES ASSUME ~page'[p].rewound PROVE InOrder(p)' /\ NotAhead(p)'
    BY DEF Ordered
  <2>4. /\ InOrder(p)
        /\ \A k \in DOMAIN page[p].items :
             OfRun(page[p].items[k]) => page[p].items[k].id <= page[p].cursor
    BY <2>1, <1>i DEF NotAhead
  <2>5. NotAhead(p)'
    BY <2>1, <2>3, <2>4 DEF NotAhead, Added
  <2> QED BY <2>3, <2>4, <2>5, AddedInOrder
<1>2. CASE Reload(p)
  <2>1. /\ page'[p].at # "drain" /\ page'[p].cursor = Replayed(doc).cursor
        /\ page'[p].items = Replayed(doc).items
    BY <1>2, ReloadParts DEF ReplayInv
  <2>2. InOrder(p)'
    BY <2>1 DEF InOrder, ReplayInv
  <2>3. NotAhead(p)'
    BY <2>1, ReplayOrdered DEF NotAhead, HasError
  <2> QED BY <2>2, <2>3 DEF Ordered
<1>3. CASE View(p)
  <2>1. /\ page'[p].items = page[p].items /\ page'[p].cursor = page[p].cursor
        /\ page[p].rewound => page'[p].rewound
        /\ \/ page[p].cursor = 0 /\ HasError(page[p]) => page'[p].rewound
           \/ page'[p].at = "closed"
    BY <1>3, ViewParts
  <2> SUFFICES ASSUME ~page'[p].rewound PROVE InOrder(p)' /\ NotAhead(p)'
    BY DEF Ordered
  <2>2. InOrder(p) /\ NotAhead(p)
    BY <2>1, <1>i
  <2>3. InOrder(p)'
    BY <2>1, <2>2 DEF InOrder
  <2>4. NotAhead(p)'
    BY <2>1, <2>2 DEF NotAhead, HasError
  <2> QED BY <2>3, <2>4
<1>4. CASE Read(p)
  <2>1. page[p].task \in Tasks /\ page[p].at = "drain"
    BY <1>4, ReadParts
  <2>2. PICK i \in DOMAIN stream[page[p].task] : Reads(p, i)
    BY <1>4, ReadParts
  <2> DEFINE e == stream[page[p].task][i]
  <2>3. e.id \in Nat /\ page'[p].cursor = e.id /\ e.id > page[p].cursor
        /\ page'[p].rewound = page[p].rewound
    BY <2>1, <2>2, EntryTyped DEF Reads, Unread
  <2>4. PICK m \in Nat : ReadTo(p, e, m)
    BY <2>2, ReadItems
  <2> HIDE DEF e
  <2> SUFFICES ASSUME ~page[p].rewound PROVE InOrder(p)' /\ NotAhead(p)'
    BY <2>3 DEF Ordered
  <2>5. /\ InOrder(p)
        /\ \A k \in DOMAIN page[p].items :
             OfRun(page[p].items[k]) => page[p].items[k].id <= page[p].cursor
    BY <2>1, <1>i DEF NotAhead
  <2>6. ASSUME NEW k \in 1..m, OfRun(page'[p].items[k])
        PROVE  /\ k \in DOMAIN page[p].items /\ page'[p].items[k] = page[p].items[k]
               /\ page'[p].items[k].id <= page[p].cursor
               /\ page'[p].items[k].id \in Nat
    <3>1. k \in DOMAIN page[p].items /\ page'[p].items[k] = page[p].items[k]
      BY <2>4 DEF ReadTo
    <3>2. page[p].items[k] \in ItemType
      BY <3>1, <1>p
    <3> QED BY <3>1, <3>2, <2>5, <2>6 DEF ItemType
  <2>7. InOrder(p)'
    <3> SUFFICES ASSUME NEW k \in DOMAIN page'[p].items,
                        NEW l \in DOMAIN page'[p].items, k < l,
                        OfRun(page'[p].items[k]), OfRun(page'[p].items[l])
                 PROVE  page'[p].items[k].id < page'[p].items[l].id
      BY DEF InOrder
    <3>1. k \in 1..m
      BY <2>4 DEF ReadTo
    <3>2. CASE l \in 1..m
      BY <3>1, <3>2, <2>5, <2>6 DEF InOrder
    <3>3. CASE l \notin 1..m
      <4>1. l = m + 1 /\ page'[p].items[l].id = e.id
        BY <3>3, <2>4 DEF ReadTo
      <4> QED BY <4>1, <3>1, <2>3, <2>6, <1>p
    <3> QED BY <3>2, <3>3
  <2>8. \A k \in DOMAIN page'[p].items :
          OfRun(page'[p].items[k]) => page'[p].items[k].id <= page'[p].cursor
    <3> SUFFICES ASSUME NEW k \in DOMAIN page'[p].items, OfRun(page'[p].items[k])
                 PROVE  page'[p].items[k].id <= page'[p].cursor
      OBVIOUS
    <3>1. CASE k \in 1..m
      BY <3>1, <2>3, <2>6, <1>p
    <3>2. CASE k \notin 1..m
      <4>1. k = m + 1 /\ page'[p].items[k].id = e.id
        BY <3>2, <2>4 DEF ReadTo
      <4> QED BY <4>1, <2>3
    <3> QED BY <3>1, <3>2
  <2> QED BY <2>7, <2>8 DEF NotAhead
<1>5. CASE DrainedDry(p) \/ Drop(p)
  <2>1. /\ page'[p].items = page[p].items /\ page'[p].cursor = page[p].cursor
        /\ page'[p].rewound = page[p].rewound /\ page'[p].at = "closed"
    BY <1>5, ClosingParts, ClosesParts
  <2> SUFFICES ASSUME ~page[p].rewound PROVE InOrder(p)' /\ NotAhead(p)'
    BY <2>1 DEF Ordered
  <2>2. InOrder(p)'
    BY <2>1, <1>i DEF InOrder
  <2>3. NotAhead(p)'
    BY <2>1, <1>i DEF NotAhead, HasError
  <2> QED BY <2>2, <2>3
<1>6. CASE ReadFails(p)
  <2>1. /\ page'[p].items = Append(page[p].items, Item(Error))
        /\ page'[p].cursor = 0 /\ page'[p].at = "closed"
        /\ page'[p].rewound = page[p].rewound
    BY <1>6, ReadFailsParts
  <2>2. Added(p, Item(Error)) /\ ~OfRun(Item(Error))
    BY <2>1, ErrorTyped, AddedItem DEF OfRun
  <2>3. NotAhead(p)'
    BY <2>1, <2>2, ErrorTyped DEF NotAhead, HasError, Added
  <2>4. InOrder(p) => InOrder(p)'
    BY <2>2, ErrorTyped, AddedInOrder
  <2> QED BY <2>1, <2>3, <2>4, <1>i DEF Ordered
<1> QED BY <1>1, <1>2, <1>3, <1>4, <1>5, <1>6 DEF PageStep

LEMMA OrderedStep ==
  ASSUME TypeInv, PhaseInv, Counts, PlaceInv, StreamInv, DocInv, ReplayInv,
         OrderedInv, [Next]_vars
  PROVE  OrderedInv'
<1>k. ASSUME NEW q \in Pages, page'[q] = page[q] PROVE Ordered(q)'
  BY <1>k DEF OrderedInv, Ordered, InOrder, NotAhead, HasError
<1>1. CASE page' = page
  BY <1>1, <1>k DEF OrderedInv
<1>2. ASSUME NEW p \in Pages, PageStep(p), OnlyPage(p)
      PROVE  OrderedInv'
  <2> SUFFICES ASSUME NEW q \in Pages PROVE Ordered(q)'
    BY DEF OrderedInv
  <2>1. CASE q = p
    BY <2>1, <1>2, PageOrdered
  <2>2. CASE q # p
    BY <2>2, <1>2, <1>k DEF OnlyPage
  <2> QED BY <2>1, <2>2
<1>3. Replayed(doc) \in PageType
  BY DEF ReplayInv
<1> QED BY <1>1, <1>2, <1>3, Moves DEF PutWith

-----------------------------------------------------------------------------
(* The pages: what is being written.                                        *)

LEMMA ReadWriting ==
  ASSUME TypeInv, NEW p \in Pages, NEW i \in DOMAIN stream[page[p].task],
         Reads(p, i)
  PROVE  LET e == stream[page[p].task][i]
             old == page[p].items
             new == page'[p].items
         IN  /\ new \in Seq(ItemType)
             /\ e.kind \in {"text", "user"} =>
                  /\ page'[p].streaming = FALSE
                  /\ Len(new) > 0 /\ new[Len(new)] = Item(e)
                  /\ Len(old) > 0 /\ old[Len(old)].kind = "bubble" => Len(new) = Len(old)
             /\ Transient(e) /\ ~page[p].streaming =>
                  /\ page'[p].streaming = TRUE
                  /\ Len(new) = Len(old) + 1
                  /\ new[Len(new)].kind = "bubble" /\ new[Len(new)].of = e.of
             /\ Transient(e) /\ page[p].streaming =>
                  /\ page'[p].streaming = (e.kind # "last") /\ new = old
             /\ e.kind \in {"step", "error"} =>
                  /\ page'[p].streaming = page[p].streaming
                  /\ Len(new) = Len(old) + 1 /\ new[Len(new)] = Item(e)
             /\ e.kind \in {"done", "nothing"} =>
                  page'[p].streaming = page[p].streaming /\ new = old
             /\ OfRun(e) => \E k \in DOMAIN new : new[k] = Item(e)
<1> DEFINE e == stream[page[p].task][i]
           old == page[p].items
           new == page'[p].items
           r == Rendered(page[p], e)
<1>1. e \in EventType /\ new = r.items /\ page'[p].streaming = r.streaming
  BY DEF Reads
<1>2. page[p] \in PageType /\ old \in Seq(ItemType) /\ Len(old) \in Nat
  BY PageTyped
<1>i. /\ Item(e) \in ItemType /\ Item(e).kind = e.kind /\ Item(e).of = e.of
  BY <1>1, ItemTyped
<1> HIDE DEF e
<1>3. new \in Seq(ItemType)
  BY <1>1, <1>2, RenderedTyped DEF PageType
<1>4. ASSUME e.kind \in {"text", "user"}
      PROVE  /\ r.streaming = FALSE /\ Len(r.items) > 0
             /\ Len(r.items) \in DOMAIN r.items /\ r.items[Len(r.items)] = Item(e)
             /\ Len(old) > 0 /\ old[Len(old)].kind = "bubble" => Len(r.items) = Len(old)
  <2> DEFINE w == WithoutBubble(page[p])
  <2>1. r.streaming = FALSE /\ r.items = Append(w, Item(e))
    BY <1>1, <1>2, <1>4, RenderedMessage
  <2>2. w \in Seq(ItemType) /\ Len(w) \in Nat
        /\ (Len(old) > 0 /\ old[Len(old)].kind = "bubble" => Len(w) = Len(old) - 1)
    BY <1>2, WithoutBubbleParts
  <2> HIDE DEF w, r
  <2>3. Len(r.items) = Len(w) + 1 /\ Len(w) + 1 \in DOMAIN r.items
        /\ r.items[Len(w) + 1] = Item(e)
    BY <2>1, <2>2, <1>i
  <2> QED BY <2>1, <2>2, <2>3, <1>2
<1>5. ASSUME Transient(e), ~page[p].streaming
      PROVE  /\ r.streaming = TRUE /\ Len(r.items) = Len(old) + 1
             /\ r.items[Len(old) + 1].kind = "bubble"
             /\ r.items[Len(old) + 1].of = e.of
  <2> DEFINE it == [Item(e) EXCEPT !.kind = "bubble"]
  <2>1. r.streaming = TRUE /\ r.items = Append(old, it)
    BY <1>1, <1>2, <1>5, RenderedBubble
  <2>2. it \in ItemType /\ it.kind = "bubble" /\ it.of = e.of
    BY <1>i DEF ItemType
  <2> HIDE DEF it, r
  <2> QED BY <2>1, <2>2, <1>2
<1>6. ASSUME Transient(e), page[p].streaming
      PROVE  r.streaming = (e.kind # "last") /\ r.items = old
  BY <1>1, <1>2, <1>6, RenderedToken
<1>7. ASSUME e.kind \in {"step", "error"}
      PROVE  /\ r.streaming = page[p].streaming
             /\ Len(r.items) = Len(old) + 1 /\ r.items[Len(old) + 1] = Item(e)
             /\ Len(old) + 1 \in DOMAIN r.items
  <2>1. r.streaming = page[p].streaming /\ r.items = Append(old, Item(e))
    BY <1>1, <1>2, <1>7, RenderedItem
  <2> HIDE DEF r
  <2> QED BY <2>1, <1>2, <1>i
<1>8. ASSUME e.kind \in {"done", "nothing"}
      PROVE  r.streaming = page[p].streaming /\ r.items = old
  BY <1>1, <1>2, <1>8, RenderedDone
<1> HIDE DEF r
<1>9. OfRun(e) => \E k \in DOMAIN new : new[k] = Item(e)
  BY <1>1, <1>4, <1>7 DEF OfRun
<1> QED BY <1>1, <1>3, <1>4, <1>5, <1>6, <1>7, <1>8, <1>9 DEF e

LEMMA PageWriting ==
  ASSUME TypeInv, PhaseInv, Counts, PlaceInv, StreamInv, ReplayInv,
         WritingInv, NEW p \in Pages, PageStep(p)
  PROVE  Writing(p)'
<1>i. page[p].streaming =>
        /\ Len(page[p].items) > 0 /\ page[p].items[Len(page[p].items)].kind # "text"
  BY DEF WritingInv, Writing
<1>p. Len(page[p].items) \in Nat /\ page[p].streaming \in BOOLEAN
  BY PageTyped
<1>1. CASE Post(p)
  <2>1. PICK it \in ItemType : it.kind = "user" /\ page'[p].items = Append(page[p].items, it)
    BY <1>1, PostParts
  <2>2. Added(p, it)
    BY <2>1, AddedItem
  <2> QED BY <2>1, <2>2 DEF Writing, Added
<1>2. CASE Reload(p)
  <2>1. page'[p].streaming = FALSE
    BY <1>2, ReloadParts DEF ReplayInv, Fresh
  <2> QED BY <2>1 DEF Writing
<1>3. CASE View(p)
  <2>1. page'[p].items = page[p].items /\ page'[p].streaming = page[p].streaming
    BY <1>3, ViewParts
  <2> QED BY <2>1, <1>i DEF Writing
<1>4. CASE Read(p)
  <2>1. page[p].task \in Tasks
    BY <1>4, ReadParts
  <2>2. PICK i \in DOMAIN stream[page[p].task] : Reads(p, i)
    BY <1>4, ReadParts
  <2> DEFINE e == stream[page[p].task][i]
             old == page[p].items
             new == page'[p].items
  <2>3. e.kind \in RunKinds /\ e \in EventType
    BY <2>1, EntryTyped DEF StreamInv, EntriesInv
  <2>4. CASE e.kind = "text"
    BY <2>2, <2>4, ReadWriting DEF Writing
  <2>5. CASE Transient(e) /\ ~page[p].streaming
    <3>1. Len(new) = Len(old) + 1 /\ new[Len(new)].kind = "bubble"
      BY <2>2, <2>5, ReadWriting
    <3> QED BY <3>1, <1>p DEF Writing
  <2>6. CASE (Transient(e) /\ page[p].streaming) \/ e.kind = "done"
    <3>1. new = old
      BY <2>2, <2>6, ReadWriting
    <3>2. page'[p].streaming => page[p].streaming
      BY <2>2, <2>6, ReadWriting
    <3> QED BY <3>1, <3>2, <1>i DEF Writing
  <2>7. CASE e.kind = "step"
    <3>1. Len(new) = Len(old) + 1 /\ new[Len(new)] = Item(e)
      BY <2>2, <2>7, ReadWriting
    <3>2. Item(e).kind = "step"
      BY <2>3, <2>7, ItemTyped
    <3> QED BY <3>1, <3>2, <1>p DEF Writing
  <2> QED BY <2>3, <2>4, <2>5, <2>6, <2>7 DEF RunKinds, Transient
<1>5. CASE DrainedDry(p) \/ Drop(p)
  <2>1. page'[p].items = page[p].items /\ page'[p].streaming = page[p].streaming
    BY <1>5, ClosingParts, ClosesParts
  <2> QED BY <2>1, <1>i DEF Writing
<1>6. CASE ReadFails(p)
  <2>1. Added(p, Item(Error))
    BY <1>6, ReadFailsParts, ErrorTyped, AddedItem
  <2> QED BY <2>1, ErrorTyped DEF Writing, Added
<1> QED BY <1>1, <1>2, <1>3, <1>4, <1>5, <1>6 DEF PageStep

LEMMA WritingStep ==
  ASSUME TypeInv, PhaseInv, Counts, PlaceInv, StreamInv, ReplayInv,
         WritingInv, [Next]_vars
  PROVE  WritingInv'
<1>k. ASSUME NEW q \in Pages, page'[q] = page[q] PROVE Writing(q)'
  BY <1>k DEF WritingInv, Writing
<1>1. CASE page' = page
  BY <1>1, <1>k DEF WritingInv
<1>2. ASSUME NEW p \in Pages, PageStep(p), OnlyPage(p)
      PROVE  WritingInv'
  <2> SUFFICES ASSUME NEW q \in Pages PROVE Writing(q)'
    BY DEF WritingInv
  <2>1. CASE q = p
    BY <2>1, <1>2, PageWriting
  <2>2. CASE q # p
    BY <2>2, <1>2, <1>k DEF OnlyPage
  <2> QED BY <2>1, <2>2
<1>3. Replayed(doc) \in PageType
  BY DEF ReplayInv
<1> QED BY <1>1, <1>2, <1>3, Moves DEF PutWith

-----------------------------------------------------------------------------
(* The pages: nothing is skipped.                                           *)

(* What is saved after a step was on its way to the document before it, but *)
(* for the event that a put has just made.                                  *)
LEMMA SavedBefore ==
  ASSUME TypeInv, DocMove, NEW e \in EventType, OfRun(e), e.id <= clock, Saved(e)'
  PROVE  Saved(e)
<1>n. e # NoEvent
  BY NoEventTyped DEF OfRun
<1>a. ASSUME NEW x \in EventType, doc' = Append(doc, x), ~(\E i \in DOMAIN doc : doc[i] = e)
      PROVE  (\E i \in DOMAIN doc' : doc'[i] = e) => e = x
  BY <1>a, AppendedEntry
<1>1. CASE UNCHANGED <<doc, unsaved>>
  BY <1>1 DEF Saved
<1>2. CASE doc' = doc /\ unsaved' = NoEvent
  BY <1>2, <1>n DEF Saved
<1>3. CASE \E x \in EventType, d \in Nat : PutWith(x, d)
  <2>1. PICK x \in EventType, d \in Nat : PutWith(x, d)
    BY <1>3
  <2>2. x.id = clock + 1 /\ (unsaved' = NoEvent \/ unsaved' = x) /\ doc' = doc
    BY <2>1 DEF PutWith
  <2>3. e # x
    BY <2>2 DEF TypeInv, EventType
  <2> QED BY <2>2, <2>3, <1>n DEF Saved
<1>4. CASE unsaved # NoEvent /\ doc' = Append(doc, unsaved) /\ unsaved' = NoEvent
  BY <1>4, <1>n, <1>a DEF Saved, TypeInv
<1>5. CASE Fits(Message) /\ doc' = Append(doc, Message) /\ unsaved' = unsaved
  <2>1. Message \in EventType /\ e # Message
    BY <1>5 DEF Fits, OfRun, Message, Event
  <2> QED BY <2>1, <1>5, <1>a DEF Saved
<1>6. CASE doc' = Append(doc, Error) /\ unsaved' = unsaved
  <2>1. e # Error
    BY ErrorTyped DEF OfRun
  <2> QED BY <2>1, <1>6, <1>a, ErrorTyped DEF Saved
<1> QED BY <1>1, <1>2, <1>3, <1>4, <1>5, <1>6 DEF DocMove

(* A page that keeps its cursor and its items, and follows the same task or *)
(* a newer one, of which it has seen nothing.                               *)
LEMMA SeenFollows ==
  ASSUME TypeInv, StreamInv, PlaceInv, SeenInv, DocMove, stream' = stream,
         NEW p \in Pages,
         page'[p].cursor = page[p].cursor, page'[p].slipped = page[p].slipped,
         page'[p].task \in Nat, page[p].task <= page'[p].task,
         page'[p].task # 0 => page'[p].task \in Tasks,
         \A e \in EventType : Shows(p, e) => Shows(p, e)'
  PROVE  Seen(p)'
<1> SUFFICES ASSUME ~page[p].slipped, page'[p].task # 0, NEW e \in EventType,
                    InStream(page'[p].task, e), OfRun(e),
                    e.id <= page[p].cursor, Saved(e)'
             PROVE  Shows(p, e)'
  BY DEF Seen, InStream
<1> DEFINE t == page'[p].task
<1>1. t \in Tasks /\ page[p].task \in Nat /\ page[p].cursor \in Nat
  BY PageTyped
<1>2. PICK k \in DOMAIN stream[t] : stream[t][k] = e
  BY DEF InStream
<1>3. e.id \in Nat /\ e.id <= clock
  BY <1>1, <1>2, EntryTyped DEF StreamInv, EntriesInv
<1>4. t = page[p].task
  <2>1. ~(page[p].task < t)
    <3> SUFFICES ASSUME page[p].task < t PROVE FALSE
      OBVIOUS
    <3>1. stream[t][k].id > page[p].cursor
      BY <1>1 DEF PlaceInv, Placed
    <3> QED BY <3>1, <1>1, <1>2, <1>3
  <2> QED BY <2>1, <1>1 DEF Tasks
<1>5. Saved(e)
  BY <1>3, SavedBefore
<1>6. Shows(p, e)
  BY <1>1, <1>4, <1>5 DEF SeenInv, Seen
<1> QED BY <1>6

LEMMA ShowsAdded ==
  ASSUME NEW p \in Pages, NEW it, Added(p, it), NEW e \in EventType, Shows(p, e)
  PROVE  Shows(p, e)'
BY DEF Added, Shows

LEMMA PageSeen ==
  ASSUME TypeInv, PhaseInv, Counts, PlaceInv, StreamInv, DocInv, ReplayInv,
         WritingInv, SeenInv, DocMove, Counts', PhaseInv', TypeInv', PlaceInv',
         NEW p \in Pages, PageStep(p), stream' = stream
  PROVE  Seen(p)'
<1>p. /\ page[p].cursor \in Nat /\ page[p].task \in Nat /\ page'[p].task \in Nat
      /\ page[p].items \in Seq(ItemType) /\ Len(page[p].items) \in Nat
      /\ DOMAIN page[p].items = 1..Len(page[p].items)
      /\ page[p].task <= task
  BY PageTyped DEF PlaceInv, Placed, TypeInv, PageType
<1>t. ASSUME page'[p].task # 0 PROVE page'[p].task \in Tasks
  <2>1. page'[p].task <= task' /\ task' <= Posts' /\ task' \in Nat
    BY DEF PlaceInv, Placed, Counts, TypeInv
  <2>2. Posts' = MaxPosts - left'.posts /\ left'.posts \in 0..MaxPosts
    BY DEF Posts, TypeInv, LeftType
  <2> QED BY <2>1, <2>2, <1>t, <1>p, BoundsTyped DEF Tasks
<1>1. CASE Post(p)
  <2>1. /\ TakeMessage /\ page'[p].cursor = page[p].cursor
        /\ page'[p].slipped = page[p].slipped /\ page'[p].task = task'
    BY <1>1, PostParts
  <2>2. page[p].task <= page'[p].task
    BY <2>1, <1>p, TakeMessageParts DEF TypeInv
  <2>3. PICK it \in ItemType : it.kind = "user" /\ page'[p].items = Append(page[p].items, it)
    BY <1>1, PostParts
  <2>4. Added(p, it)
    BY <2>3, AddedItem
  <2> QED BY <2>1, <2>2, <2>4, <1>p, <1>t, ShowsAdded, SeenFollows
<1>2. CASE Reload(p)
  <2> DEFINE pg == Replayed(doc)
  <2>1. /\ UNCHANGED <<task, doc, unsaved>> /\ page'[p].task = task
        /\ page'[p].cursor = pg.cursor /\ page'[p].items = pg.items
        /\ page'[p].slipped <=> /\ unsaved # NoEvent /\ doc # <<>>
                                /\ doc[Len(doc)].id > unsaved.id
    BY <1>2, ReloadParts DEF ReplayInv
  <2> SUFFICES ASSUME ~page'[p].slipped, task # 0, NEW e \in EventType,
                      InStream(task, e), OfRun(e), e.id <= pg.cursor, Saved(e)
               PROVE  Shows(p, e)'
    BY <2>1 DEF Seen, Saved, InStream
  <2> DEFINE n == Len(doc)
  <2>2. task \in Tasks
    BY <1>t, <2>1
  <2>3. 1 <= e.id /\ e.id \in Nat
    <3>1. PICK k \in DOMAIN stream[task] : stream[task][k] = e
      BY DEF InStream
    <3> QED BY <3>1, <2>2, EntryTyped DEF StreamInv, EntriesInv
  <2>4. doc # <<>> /\ pg.cursor = doc[n].id
    BY <2>3 DEF ReplayInv
  <2>5. n \in DOMAIN doc
    BY <2>4 DEF TypeInv
  <2>6. e # unsaved
    <3> SUFFICES ASSUME e = unsaved PROVE FALSE
      OBVIOUS
    <3>1. unsaved # NoEvent
      BY NoEventTyped DEF OfRun
    <3>2. doc[n].id # unsaved.id /\ doc[n].id \in Nat
      BY <3>1, <2>5, DocEntry DEF DocInv, UnsavedInv
    <3>3. doc[n].id > unsaved.id
      BY <3>2, <2>3, <2>4
    <3> QED BY <3>1, <3>3, <2>1, <2>4
  <2>7. PICK i \in DOMAIN doc : doc[i] = e
    BY <2>6 DEF Saved
  <2>8. PICK l \in DOMAIN pg.items : pg.items[l] = Item(doc[i])
    BY <2>7 DEF ReplayInv
  <2> QED BY <2>1, <2>7, <2>8 DEF Shows
<1>3. CASE View(p)
  <2>1. /\ page'[p].items = page[p].items /\ page'[p].cursor = page[p].cursor
        /\ page'[p].slipped = page[p].slipped
        /\ page'[p].task = task \/ page'[p].task = page[p].task
    BY <1>3, ViewParts
  <2>2. \A e \in EventType : Shows(p, e) => Shows(p, e)'
    BY <2>1 DEF Shows
  <2>3. page[p].task <= page'[p].task
    BY <2>1, <1>p
  <2> QED BY <2>1, <2>2, <2>3, <1>p, <1>t, SeenFollows
<1>4. CASE Read(p)
  <2>1. page[p].task \in Tasks /\ page[p].at = "drain" /\ UNCHANGED <<doc, unsaved>>
    BY <1>4, ReadParts
  <2>2. PICK i \in DOMAIN stream[page[p].task] : Reads(p, i)
    BY <1>4, ReadParts
  <2> DEFINE t == page[p].task
             next == stream[t][i]
             old == page[p].items
             new == page'[p].items
  <2>3. /\ page'[p].cursor = next.id /\ page'[p].task = t
        /\ page'[p].slipped = page[p].slipped
        /\ \A j \in Unread(page[p]) : i <= j
    BY <2>2 DEF Reads
  <2>4. PICK m \in Nat : ReadTo(p, next, m)
    BY <2>2, ReadItems
  <2> SUFFICES ASSUME ~page[p].slipped, NEW e \in EventType, InStream(t, e),
                      OfRun(e), e.id <= next.id, Saved(e)
               PROVE  Shows(p, e)'
    BY <2>1, <2>3 DEF Seen, Saved, InStream
  <2>k. PICK k \in DOMAIN stream[t] : stream[t][k] = e
    BY DEF InStream
  <2>5. e.id \in Nat /\ k \in Nat /\ next.id \in Nat /\ i \in Nat
    BY <2>1, <2>k, EntryTyped
  <2>6. CASE e.id <= page[p].cursor
    <3>1. Shows(p, e)
      BY <2>1, <2>6 DEF SeenInv, Seen, Tasks
    <3>2. PICK l \in DOMAIN old : old[l] = Item(e)
      BY <3>1 DEF Shows
    <3>3. l \in 1..m
      <4> SUFFICES ASSUME l \notin 1..m PROVE FALSE
        OBVIOUS
      <4>1. l = m + 1 /\ m + 1 = Len(old)
        BY <2>4, <1>p DEF ReadTo
      <4>2. old[l].kind = "text" /\ page[p].streaming
        <5>1. old[l].kind = "bubble" \/ (page[p].streaming /\ old[l].kind \in {"text", "error"})
          BY <4>1, <2>4 DEF ReadTo
        <5>2. OfRun(old[l])
          BY <3>2, <2>5, ItemTyped DEF OfRun
        <5> QED BY <5>1, <5>2 DEF OfRun
      <4> QED BY <4>1, <4>2 DEF WritingInv, Writing
    <3>4. l \in DOMAIN new /\ new[l] = old[l]
      BY <3>3, <2>4 DEF ReadTo
    <3> QED BY <3>2, <3>4 DEF Shows
  <2>7. CASE ~(e.id <= page[p].cursor)
    <3>1. k \in Unread(page[p])
      BY <2>7, <2>5, <2>k, <1>p DEF Unread
    <3>2. i <= k
      BY <3>1, <2>3
    <3>3. ~(i < k)
      <4> SUFFICES ASSUME i < k PROVE FALSE
        OBVIOUS
      <4>1. next.id < e.id
        BY <2>1, <2>k DEF StreamInv, OrderInv
      <4> QED BY <4>1, <2>5
    <3>4. k = i
      BY <3>2, <3>3, <2>5
    <3>5. next = e
      BY <3>4, <2>k
    <3>6. OfRun(next)
      BY <3>5
    <3>7. PICK l \in DOMAIN new : new[l] = Item(next)
      BY <3>6, <2>2, ReadWriting
    <3>8. new[l] = Item(e)
      BY <3>5, <3>7
    <3> QED BY <3>7, <3>8 DEF Shows
  <2> QED BY <2>6, <2>7
<1>5. CASE DrainedDry(p) \/ Drop(p)
  <2>1. /\ page'[p].items = page[p].items /\ page'[p].cursor = page[p].cursor
        /\ page'[p].slipped = page[p].slipped /\ page'[p].task = page[p].task
    BY <1>5, ClosingParts, ClosesParts
  <2>2. \A e \in EventType : Shows(p, e) => Shows(p, e)'
    BY <2>1 DEF Shows
  <2> QED BY <2>1, <2>2, <1>p, <1>t, SeenFollows
<1>6. CASE ReadFails(p)
  <2>1. page'[p].cursor = 0 /\ page'[p].task = page[p].task
    BY <1>6, ReadFailsParts
  <2> SUFFICES ASSUME page[p].task # 0, NEW k \in DOMAIN stream[page[p].task],
                      stream[page[p].task][k].id <= 0
               PROVE  FALSE
    BY <2>1 DEF Seen, InStream
  <2>2. page[p].task \in Tasks
    BY <2>1, <1>t
  <2>3. 1 <= stream[page[p].task][k].id /\ stream[page[p].task][k].id \in Nat
    BY <2>2, EntryTyped DEF StreamInv, EntriesInv
  <2> QED BY <2>3
<1> QED BY <1>1, <1>2, <1>3, <1>4, <1>5, <1>6 DEF PageStep

LEMMA SeenStep ==
  ASSUME TypeInv, PhaseInv, Counts, PlaceInv, StreamInv, DocInv, ReplayInv,
         WritingInv, SeenInv, Counts', PhaseInv', TypeInv', PlaceInv', [Next]_vars
  PROVE  SeenInv'
<1>r. Replayed(doc) \in PageType
  BY DEF ReplayInv
<1>d. DocMove
  BY <1>r, DocMoves
<1>t. ASSUME NEW q \in Pages, page[q].task # 0 PROVE page[q].task \in Tasks
  <2>1. page[q].task <= task /\ task <= Posts /\ task \in Nat /\ page[q].task \in Nat
    BY PageTyped DEF PlaceInv, Placed, Counts, TypeInv
  <2>2. Posts = MaxPosts - left.posts /\ left.posts \in 0..MaxPosts
    BY DEF Posts, TypeInv, LeftType
  <2> QED BY <2>1, <2>2, <1>t, BoundsTyped DEF Tasks
<1>k. ASSUME NEW q \in Pages, page'[q] = page[q], stream' = stream PROVE Seen(q)'
  <2>1. \A e \in EventType : Shows(q, e) => Shows(q, e)'
    BY <1>k DEF Shows
  <2>2. page[q].task \in Nat /\ page[q].task <= page[q].task
    BY PageTyped
  <2> QED BY <2>1, <2>2, <1>k, <1>d, <1>t, SeenFollows
<1>1. CASE \E e \in EventType, d \in Nat : PutWith(e, d)
  <2>1. PICK e \in EventType, d \in Nat : PutWith(e, d)
    BY <1>1
  <2>2. /\ e.id = clock + 1 /\ page' = page /\ clock \in Nat
        /\ \A t \in Tasks \ {task} : stream'[t] = stream[t]
    BY <2>1 DEF PutWith, TypeInv
  <2> SUFFICES ASSUME NEW q \in Pages, ~page[q].slipped, page[q].task # 0,
                      NEW x \in EventType, InStream(page[q].task, x)',
                      OfRun(x), x.id <= page[q].cursor, Saved(x)'
               PROVE  Shows(q, x)
    BY <2>2 DEF SeenInv, Seen, Shows, InStream
  <2> DEFINE t == page[q].task
  <2>3. /\ t \in Tasks /\ page[q].cursor \in Nat /\ page[q].cursor <= clock
        /\ x.id \in Nat
    BY <1>t, PageTyped DEF PlaceInv, Placed, EventType
  <2>4. PICK k \in DOMAIN stream'[t] : stream'[t][k] = x
    BY <2>2 DEF InStream
  <2>5. InStream(t, x)
    <3>1. CASE t # task
      BY <3>1, <2>2, <2>3, <2>4 DEF InStream
    <3>2. CASE t = task
      <4>1. stream'[t][k] # e
        BY <2>2, <2>3, <2>4
      <4>2. PICK l \in DOMAIN stream[t] : stream[t][l] = stream'[t][k]
        BY <4>1, <3>2, <2>1, GrownEntry
      <4> QED BY <4>2, <2>4 DEF InStream
    <3> QED BY <3>1, <3>2
  <2>6. Saved(x)
    <3>1. x.id <= clock
      BY <2>3, <2>2
    <3> QED BY <3>1, <1>d, SavedBefore
  <2> QED BY <2>5, <2>6 DEF SeenInv, Seen
<1>2. CASE stream' = stream /\ page' = page
  BY <1>2, <1>k DEF SeenInv
<1>3. ASSUME stream' = stream, NEW p \in Pages, PageStep(p), OnlyPage(p)
      PROVE  SeenInv'
  <2> SUFFICES ASSUME NEW q \in Pages PROVE Seen(q)'
    BY DEF SeenInv
  <2>1. CASE q = p
    BY <2>1, <1>3, <1>d, PageSeen
  <2>2. CASE q # p
    BY <2>2, <1>3, <1>k DEF OnlyPage
  <2> QED BY <2>1, <2>2
<1> QED BY <1>1, <1>2, <1>3, <1>r, Moves

-----------------------------------------------------------------------------
(* What is shown is kept.                                                   *)

(* Only a STOP can make an event that was to be kept one that is not: the   *)
(* one it is about to write.                                                *)
LEMMA KeptStays ==
  ASSUME TypeInv, DocMove, NEW it \in ItemType, OfRun(it), Kept(it), ~Kept(it)'
  PROVE  /\ unsaved # NoEvent /\ doc' = doc /\ unsaved' = NoEvent
         /\ it = Item(unsaved)
<1>n. it # Item(NoEvent)
  BY NoEventTyped, ItemTyped DEF OfRun
<1>a. ASSUME NEW x \in EventType, doc' = Append(doc, x)
      PROVE  /\ \A i \in DOMAIN doc : it # Item(doc[i])
             /\ it # Item(x)
  <2>1. /\ \A i \in DOMAIN doc : i \in DOMAIN doc' /\ doc'[i] = doc[i]
        /\ Len(doc) + 1 \in DOMAIN doc' /\ doc'[Len(doc) + 1] = x
    BY <1>a, AppendedEntry
  <2> QED BY <2>1 DEF Kept
<1>1. CASE UNCHANGED <<doc, unsaved>>
  BY <1>1 DEF Kept
<1>2. CASE doc' = doc /\ unsaved' = NoEvent
  <2>1. it = Item(unsaved)
    BY <1>2 DEF Kept
  <2> QED BY <2>1, <1>2, <1>n
<1>3. CASE \E x \in EventType, d \in Nat : PutWith(x, d)
  <2>1. doc' = doc /\ unsaved = NoEvent
    BY <1>3 DEF PutWith
  <2> QED BY <2>1, <1>n DEF Kept
<1>4. CASE unsaved # NoEvent /\ doc' = Append(doc, unsaved) /\ unsaved' = NoEvent
  <2>1. unsaved \in EventType
    BY DEF TypeInv
  <2> QED BY <2>1, <1>4, <1>a DEF Kept
<1>5. CASE Fits(Message) /\ doc' = Append(doc, Message) /\ unsaved' = unsaved
  BY <1>5, <1>a DEF Kept, Fits
<1>6. CASE doc' = Append(doc, Error) /\ unsaved' = unsaved
  BY <1>6, <1>a, ErrorTyped DEF Kept
<1> QED BY <1>1, <1>2, <1>3, <1>4, <1>5, <1>6 DEF DocMove

(* A page shows what it showed, what is in a stream, or what is kept.       *)
LEMMA PageShown ==
  ASSUME TypeInv, PhaseInv, Counts, PlaceInv, ReplayInv,
         NEW p \in Pages, PageStep(p), NEW it \in ItemType, OfRun(it),
         NEW k \in DOMAIN page'[p].items, page'[p].items[k] = it
  PROVE  Shown(it) \/ Streamed(it) \/ Kept(it)'
<1>1. ASSUME NEW x \in ItemType, page'[p].items = Append(page[p].items, x), ~OfRun(x)
      PROVE  Shown(it)
  <2>1. Added(p, x)
    BY <1>1, AddedItem
  <2>2. k \in DOMAIN page[p].items
    BY <2>1, <1>1 DEF Added
  <2>3. page[p].items[k] = it
    BY <2>1, <2>2 DEF Added
  <2> QED BY <2>2, <2>3 DEF Shown
<1>2. CASE Post(p)
  <2>1. PICK x \in ItemType : x.kind = "user" /\ page'[p].items = Append(page[p].items, x)
    BY <1>2, PostParts
  <2> QED BY <2>1, <1>1 DEF OfRun
<1>3. CASE Reload(p)
  <2>1. UNCHANGED <<doc, unsaved>> /\ page'[p].items = Replayed(doc).items
    BY <1>3, ReloadParts DEF ReplayInv
  <2>2. k \in DOMAIN Replayed(doc).items /\ Replayed(doc).items[k] = it
    BY <2>1
  <2>3. \E i \in DOMAIN doc : it = Item(doc[i])
    BY <2>2 DEF ReplayInv
  <2> QED BY <2>1, <2>3 DEF Kept
<1>4. CASE View(p)
  BY <1>4, ViewParts DEF Shown
<1>5. CASE Read(p)
  <2>1. PICK i \in DOMAIN stream[page[p].task] : Reads(p, i)
    BY <1>5, ReadParts
  <2>2. page[p].task \in Tasks
    BY <1>5, ReadParts
  <2> DEFINE e == stream[page[p].task][i]
  <2>3. PICK m \in Nat : ReadTo(p, e, m)
    BY <2>1, ReadItems
  <2>4. CASE k \in 1..m
    BY <2>3, <2>4 DEF ReadTo, Shown
  <2>5. CASE k \notin 1..m
    <3>1. k = m + 1
      BY <2>3, <2>5 DEF ReadTo
    <3>2. page'[p].items[k] = Item(e)
      BY <3>1, <2>3, <2>5 DEF ReadTo, OfRun
    <3> QED BY <3>2, <2>2 DEF Streamed
  <2> QED BY <2>4, <2>5
<1>6. CASE DrainedDry(p) \/ Drop(p)
  BY <1>6, ClosingParts, ClosesParts DEF Shown
<1>7. CASE ReadFails(p)
  <2>1. page'[p].items = Append(page[p].items, Item(Error))
    BY <1>7, ReadFailsParts
  <2> QED BY <2>1, <1>1, ErrorTyped DEF OfRun
<1> QED BY <1>2, <1>3, <1>4, <1>5, <1>6, <1>7 DEF PageStep

LEMMA GivenBefore ==
  ASSUME TypeInv, PhaseInv, Counts, PlaceInv, ReplayInv, [Next]_vars,
         NEW it \in ItemType, Given(it)'
  PROVE  Given(it) \/ Kept(it)'
<1>g. OfRun(it) /\ (Shown(it)' \/ Streamed(it)')
  BY DEF Given, OfRun
<1>r. Replayed(doc) \in PageType
  BY DEF ReplayInv
<1>1. ASSUME stream' = stream, Streamed(it)' PROVE Streamed(it)
  BY <1>1 DEF Streamed
<1>2. CASE \E e \in EventType, d \in Nat : PutWith(e, d)
  <2>1. PICK e \in EventType, d \in Nat : PutWith(e, d)
    BY <1>2
  <2>2. /\ page' = page /\ task \in Tasks
        /\ unsaved' = IF Transient(e) THEN NoEvent ELSE e
        /\ \A t \in Tasks \ {task} : stream'[t] = stream[t]
    BY <2>1 DEF PutWith
  <2>3. CASE Shown(it)'
    BY <2>2, <2>3, <1>g DEF Shown, Given
  <2>4. CASE Streamed(it)'
    <3>1. PICK t \in Tasks : \E k \in DOMAIN stream'[t] : Item(stream'[t][k]) = it
      BY <2>4 DEF Streamed, Item
    <3>2. PICK k \in DOMAIN stream'[t] : Item(stream'[t][k]) = it
      BY <3>1
    <3>3. CASE t # task
      BY <3>2, <3>3, <2>2, <1>g DEF Streamed, Given
    <3>4. CASE t = task
      <4>1. CASE stream'[t][k] = e
        <5>1. it = Item(e) /\ ~Transient(e)
          BY <4>1, <3>2, <1>g, ItemTyped DEF OfRun, Transient
        <5>2. unsaved' = e
          BY <5>1, <2>2
        <5> QED BY <5>1, <5>2 DEF Kept, Item
      <4>2. CASE stream'[t][k] # e
        <5>1. k + d \in DOMAIN stream[t] /\ stream'[t][k] = stream[t][k + d]
          BY <4>2, <3>4, <2>1, GrownEntry
        <5>2. Item(stream[t][k + d]) = it
          BY <5>1, <3>2 DEF Item
        <5> QED BY <5>1, <5>2, <1>g DEF Streamed, Given
      <4> QED BY <4>1, <4>2
    <3> QED BY <3>3, <3>4
  <2> QED BY <2>3, <2>4, <1>g
<1>3. CASE stream' = stream /\ page' = page
  BY <1>3, <1>g DEF Given, Shown, Streamed
<1>4. ASSUME stream' = stream, NEW p \in Pages, PageStep(p), OnlyPage(p)
      PROVE  Given(it) \/ Kept(it)'
  <2>1. CASE Streamed(it)'
    BY <2>1, <1>4, <1>1, <1>g DEF Given
  <2>2. CASE Shown(it)'
    <3>1. PICK q \in Pages : \E k \in DOMAIN page'[q].items : page'[q].items[k] = it
      BY <2>2 DEF Shown
    <3>2. CASE q = p
      BY <3>1, <3>2, <1>4, <1>g, PageShown DEF Given
    <3>3. CASE q # p
      BY <3>1, <3>3, <1>4, <1>g DEF OnlyPage, Shown, Given
    <3> QED BY <3>2, <3>3
  <2> QED BY <2>1, <2>2, <1>g
<1> QED BY <1>2, <1>3, <1>4, <1>r, Moves

LEMMA KeptId ==
  ASSUME TypeInv', DocInv', NEW it \in ItemType, OfRun(it), Kept(it)'
  PROVE  it.id <= clock'
<1>1. CASE it = Item(unsaved')
  <2>1. unsaved' \in EventType /\ unsaved' # NoEvent
    BY <1>1, NoEventTyped, ItemTyped DEF TypeInv, OfRun
  <2>2. it.id = unsaved'.id
    BY <2>1, <1>1, ItemTyped
  <2> QED BY <2>1, <2>2 DEF DocInv, UnsavedInv
<1>2. CASE \E i \in DOMAIN doc' : it = Item(doc'[i])
  <2>1. PICK i \in DOMAIN doc' : it = Item(doc'[i])
    BY <1>2
  <2>2. doc'[i] \in EventType
    <3>1. doc' \in Seq(EventType)
      BY DEF TypeInv
    <3> QED BY <3>1
  <2>3. it.id = doc'[i].id
    BY <2>1, <2>2, ItemTyped
  <2> QED BY <2>3 DEF DocInv, SavedInv
<1> QED BY <1>1, <1>2 DEF Kept, Item

LEMMA GivenStep ==
  ASSUME TypeInv, PhaseInv, Counts, PlaceInv, ReplayInv, GivenInv, [Next]_vars,
         TypeInv', DocInv', clock' = clock \/ clock' = clock + 1
  PROVE  GivenInv'
<1> SUFFICES ASSUME NEW it \in ItemType, Given(it)' PROVE it.id <= clock'
  BY DEF GivenInv
<1>1. CASE Given(it)
  <2>1. it.id <= clock /\ it.id \in Nat /\ clock \in Nat
    BY <1>1 DEF GivenInv, ItemType, TypeInv
  <2> QED BY <2>1
<1>2. CASE Kept(it)'
  <2>1. OfRun(it)
    BY DEF Given, OfRun
  <2> QED BY <2>1, <1>2, KeptId
<1> QED BY <1>1, <1>2, GivenBefore

(* A STOP pays for the event it keeps from the document.                    *)
Pays ==
  \/ left'.troubles = left.troubles /\ (doc' # doc \/ unsaved' = unsaved)
  \/ left'.troubles \in 0..MaxTroubles /\ left'.troubles = left.troubles - 1
  \/ left'.troubles = left.troubles /\ unsaved = NoEvent
  \/ /\ left'.troubles \in 0..MaxTroubles
     /\ left'.troubles <= left.troubles /\ unsaved' = unsaved

LEMMA StepsPay ==
  ASSUME TypeInv, Counts, PhaseInv, PlaceInv, Replayed(doc) \in PageType, [Next]_vars
  PROVE  Pays
<1>a. ASSUME NEW x \in EventType, doc' = Append(doc, x) PROVE doc' # doc
  <2>1. Len(Append(doc, x)) = Len(doc) + 1 /\ Len(doc) \in Nat
    BY AppendedEntry
  <2> QED BY <2>1, <1>a
<1>s. ASSUME Spend("troubles")
      PROVE  left'.troubles \in 0..MaxTroubles /\ left'.troubles = left.troubles - 1
  BY <1>s, TroubleParts DEF LeftType
<1>1. CASE UNCHANGED vars
  BY <1>1 DEF vars, Pays
<1>2. CASE NextTurn
  BY <1>2 DEF NextTurn, Pays
<1>3. CASE PutStep
  <2>1. unsaved = NoEvent
    BY <1>3, PutStepWith DEF PutWith
  <2> QED BY <2>1, <1>3, PutStepParts DEF Pays
<1>4. CASE Save
  <2>1. doc' # doc
    BY <1>4, <1>a, SaveParts DEF TypeInv
  <2> QED BY <2>1, <1>4, SaveParts DEF Pays
<1>5. CASE EndTask
  BY <1>5 DEF EndTask, Pays
<1>6. CASE Stop
  BY <1>6, <1>s, StopParts DEF Pays
<1>7. ASSUME TakeMessage PROVE Pays
  BY <1>7, TakeMessageParts DEF Pays
<1>8. CASE PostElsewhere
  BY <1>7, <1>8 DEF PostElsewhere
<1>9. ASSUME NEW p \in Pages, PageStep(p) PROVE Pays
  <2>1. CASE Post(p)
    BY <2>1, <1>7, PostParts
  <2>2. CASE Reload(p)
    BY <2>2, ReloadParts DEF Pays
  <2>3. CASE View(p)
    BY <2>3, ViewParts DEF Pays
  <2>4. CASE Read(p)
    BY <2>4, ReadParts DEF Pays
  <2>5. CASE DrainedDry(p) \/ Drop(p)
    BY <2>5, ClosingParts DEF Closes, LeftType, Pays
  <2>6. CASE ReadFails(p)
    BY <2>6, <1>s, ReadFailsParts DEF Pays
  <2> QED BY <1>9, <2>1, <2>2, <2>3, <2>4, <2>5, <2>6 DEF PageStep
<1> QED BY <1>1, <1>2, <1>3, <1>4, <1>5, <1>6, <1>8, <1>9
        DEF Next, RunStep, PutStep

LEMMA TroublesPay ==
  ASSUME TypeInv, Counts, PhaseInv, PlaceInv, Replayed(doc) \in PageType, [Next]_vars
  PROVE  /\ Troubles <= Troubles' /\ Troubles \in Nat /\ Troubles' \in Nat
         /\ unsaved # NoEvent /\ unsaved' = NoEvent /\ doc' = doc
              => Troubles' = Troubles + 1
<1>1. left.troubles \in 0..MaxTroubles /\ MaxTroubles \in Nat
  BY BoundsTyped DEF TypeInv, LeftType
<1>2. Pays
  BY StepsPay
<1> QED BY <1>1, <1>2 DEF Pays, Troubles

LEMMA LostStep ==
  ASSUME TypeInv, PhaseInv, Counts, PlaceInv, DocInv, ReplayInv, GivenInv, LostInv,
         [Next]_vars, TypeInv', GivenInv'
  PROVE  LostInv'
<1>r. Replayed(doc) \in PageType
  BY DEF ReplayInv
<1>d. DocMove
  BY <1>r, DocMoves
<1>t. /\ Troubles <= Troubles' /\ Troubles \in Nat /\ Troubles' \in Nat
      /\ unsaved # NoEvent /\ unsaved' = NoEvent /\ doc' = doc
           => Troubles' = Troubles + 1
  BY <1>r, TroublesPay
<1>f. IsFiniteSet(Lost)
  <2>1. clock \in Int /\ 0 \in Int
    BY DEF TypeInv
  <2>2. IsFiniteSet(0..clock)
    BY <2>1, FS_Interval
  <2>3. Lost \in SUBSET (0..clock)
    BY DEF Lost
  <2> QED BY <2>2, <2>3, FS_Subset
<1>n. Cardinality(Lost) \in Nat
  BY <1>f, FS_CardinalityType
<1>1. ASSUME NEW x \in Lost', x \notin Lost
      PROVE  /\ unsaved # NoEvent /\ doc' = doc /\ unsaved' = NoEvent
             /\ x = unsaved.id
  <2>1. PICK it \in ItemType : it.id = x /\ Given(it)' /\ ~Kept(it)'
    BY <1>1 DEF Lost
  <2>2. Given(it)
    BY <2>1, GivenBefore
  <2>3. it.id \in 0..clock
    BY <2>2 DEF GivenInv, ItemType, TypeInv
  <2>4. Kept(it)
    BY <2>1, <2>2, <2>3, <1>1 DEF Lost
  <2>5. OfRun(it)
    BY <2>2 DEF Given
  <2>6. /\ unsaved # NoEvent /\ doc' = doc /\ unsaved' = NoEvent
        /\ it = Item(unsaved)
    BY <2>1, <2>4, <2>5, <1>d, KeptStays
  <2>7. it.id = unsaved.id
    BY <2>6, ItemTyped DEF TypeInv
  <2> QED BY <2>1, <2>6, <2>7
<1>2. CASE Lost' \subseteq Lost
  <2>1. Cardinality(Lost') <= Cardinality(Lost)
    BY <1>2, <1>f, FS_Subset
  <2>2. Cardinality(Lost') \in Nat
    BY <1>2, <1>f, FS_Subset, FS_CardinalityType
  <2> QED BY <2>1, <2>2, <1>n, <1>t DEF LostInv
<1>3. CASE ~(Lost' \subseteq Lost)
  <2>1. PICK x \in Lost' : x \notin Lost
    BY <1>3
  <2>2. Troubles' = Troubles + 1
    BY <2>1, <1>1, <1>t
  <2>3. Lost' \in SUBSET (Lost \cup {unsaved.id})
    BY <1>1
  <2>4. IsFiniteSet(Lost \cup {unsaved.id})
        /\ Cardinality(Lost \cup {unsaved.id}) \in {Cardinality(Lost), Cardinality(Lost) + 1}
    BY <1>f, FS_AddElement
  <2>5. Cardinality(Lost') <= Cardinality(Lost \cup {unsaved.id})
    BY <2>3, <2>4, FS_Subset
  <2>6. Cardinality(Lost') \in Nat
    BY <2>3, <2>4, FS_Subset, FS_CardinalityType
  <2> QED BY <2>2, <2>4, <2>5, <2>6, <1>n, <1>t DEF LostInv
<1> QED BY <1>2, <1>3

LEMMA LostFollows ==
  ASSUME TypeInv, GivenInv, LostInv
  PROVE  ShownIsKept
<1> SUFFICES ASSUME NEW p \in Pages
             PROVE  LET its == page[p].items
                        lost == {k \in DOMAIN its : OfRun(its[k]) /\ ~Kept(its[k])}
                    IN  Cardinality({its[k].id : k \in lost})
                          <= MaxTroubles - left.troubles
  BY DEF ShownIsKept
<1> DEFINE its == page[p].items
           lost == {k \in DOMAIN its : OfRun(its[k]) /\ ~Kept(its[k])}
           ids == {its[k].id : k \in lost}
<1>1. ASSUME NEW k \in lost PROVE its[k].id \in Lost
  <2>1. its[k] \in ItemType /\ k \in DOMAIN its
    BY PageTyped
  <2>2. Given(its[k])
    BY <2>1 DEF Given, Shown
  <2>3. its[k].id \in 0..clock
    BY <2>1, <2>2 DEF GivenInv, ItemType, TypeInv
  <2> QED BY <2>1, <2>2, <2>3 DEF Lost
<1>2. ids \in SUBSET Lost
  BY <1>1
<1>3. IsFiniteSet(Lost)
  <2>1. clock \in Int /\ 0 \in Int
    BY DEF TypeInv
  <2>2. IsFiniteSet(0..clock)
    BY <2>1, FS_Interval
  <2>3. Lost \in SUBSET (0..clock)
    BY DEF Lost
  <2> QED BY <2>2, <2>3, FS_Subset
<1>4. Cardinality(ids) <= Cardinality(Lost)
  BY <1>2, <1>3, FS_Subset
<1>5. Cardinality(ids) \in Nat /\ Cardinality(Lost) \in Nat
  BY <1>2, <1>3, FS_Subset, FS_CardinalityType
<1>6. Troubles \in Nat
  BY BoundsTyped DEF Troubles, TypeInv, LeftType
<1>7. Cardinality(ids) <= Troubles
  BY <1>4, <1>5, <1>6 DEF LostInv
<1> QED BY <1>7 DEF Troubles

-----------------------------------------------------------------------------
(* The bubbles.                                                             *)

(* Only a put goes on with a speech.                                        *)
LEMMA SpokenStays ==
  ASSUME TypeInv, Counts, PhaseInv, PlaceInv, Replayed(doc) \in PageType,
         [Next]_vars, ~PutStep, NEW p \in Pages, page'[p].task = page[p].task,
         page[p].task <= task,
         NEW x, NEW states, "none" \notin states, Spoken(p, x, states)'
  PROVE  Spoken(p, x, states)
<1>1. /\ phase' = "turn" /\ speech'.state \in states /\ speech'.of = x
      /\ page'[p].task = task'
  BY DEF Spoken, Speaks
<1>2. phase' = "turn" =>
        \/ phase = "turn" /\ speech' = speech /\ task' = task
        \/ speech'.state = "none"
  BY NoPut
<1> QED BY <1>1, <1>2 DEF Spoken, Speaks

LEMMA AloneStays ==
  ASSUME NEW p \in Pages, page'[p] = page[p], stream' = stream, AloneInv(p),
         \A x \in Nat : /\ Spoken(p, x, {"open", "shut"})' => Spoken(p, x, {"open", "shut"})
                        /\ Spoken(p, x, {"open"})' => Spoken(p, x, {"open"})
  PROVE  AloneInv(p)'
<1>1. \A e \in EventType : Ahead(p, e)' => Ahead(p, e)
  BY DEF Ahead, InStream
<1>2. ASSUME NEW x \in Nat
      PROVE  (NoText(p, x) => NoText(p, x)') /\ (NoToken(p, x) => NoToken(p, x)')
  BY <1>1 DEF NoText, NoToken
<1>3. \A k \in DOMAIN page[p].items, x \in Nat : Alone(p, k, x)' => Alone(p, k, x)
  BY DEF Alone
<1> QED BY <1>2, <1>3 DEF AloneInv

(* A put after the page's cursor starts another reply, or goes on with one  *)
(* that the page is not done with.                                          *)
LEMMA AlonePut ==
  ASSUME TypeInv, NEW p \in Pages, page[p].cursor <= clock, page[p].task \in Tasks,
         Replies(p), AloneInv(p),
         NEW e \in EventType, NEW d \in Nat, PutWith(e, d)
  PROVE  AloneInv(p)'
<1> DEFINE t == page[p].task
<1>p. /\ page' = page /\ task' = task /\ PutsOf(e.kind, e.of) /\ e.kind \in RunKinds
      /\ e.task = task /\ task \in Tasks
      /\ \A u \in Tasks \ {task} : stream'[u] = stream[u]
      /\ stream' \in [Tasks -> Seq(EventType)] /\ stream \in [Tasks -> Seq(EventType)]
      /\ clock \in Nat /\ page[p].cursor \in Nat
  BY PageTyped DEF PutWith, TypeInv
<1>a. ASSUME NEW f \in EventType, Ahead(p, f)'
      PROVE  Ahead(p, f) \/ (f = e /\ t = task)
  <2>1. PICK k \in DOMAIN stream'[t] : stream'[t][k] = f
    BY <1>a, <1>p DEF Ahead, InStream
  <2>2. f.id > page[p].cursor
    BY <1>a, <1>p DEF Ahead
  <2>3. CASE t = task
    <3>1. CASE stream'[t][k] = e
      BY <3>1, <2>1, <2>3
    <3>2. CASE stream'[t][k] # e
      <4>1. k + d \in DOMAIN stream[t] /\ stream'[t][k] = stream[t][k + d]
        BY <3>2, <2>3, <2>1, GrownEntry
      <4> QED BY <4>1, <2>1, <2>2 DEF Ahead, InStream
    <3> QED BY <3>1, <3>2
  <2>4. CASE t # task
    <3>1. stream'[t] = stream[t]
      BY <2>4, <1>p
    <3> QED BY <3>1, <2>1, <2>2 DEF Ahead, InStream
  <2> QED BY <2>3, <2>4
<1> SUFFICES ASSUME NEW k \in DOMAIN page[p].items, NEW x \in Nat, Alone(p, k, x)
             PROVE  /\ x <= page[p].cursor
                    /\ k < Len(page[p].items) => NoText(p, x)'
                    /\ k = Len(page[p].items) /\ ~page[p].streaming => NoToken(p, x)'
  BY <1>p DEF AloneInv, Alone
<1>1. /\ x <= page[p].cursor
      /\ k < Len(page[p].items) => NoText(p, x)
      /\ k = Len(page[p].items) /\ ~page[p].streaming => NoToken(p, x)
  BY DEF AloneInv
<1>2. 1 <= x /\ x # clock + 1
  BY <1>1, <1>p DEF Replies, Alone
<1>3. ASSUME NoText(p, x) PROVE NoText(p, x)'
  <2>1. ASSUME t = task PROVE e.of # x \/ e.kind \notin {"chunk", "last", "text"}
    BY <2>1, <1>2, <1>3, <1>p DEF PutsOf, NoText, Spoken, Speaks
  <2>2. ~Spoken(p, x, {"open", "shut"})'
    <3> SUFFICES ASSUME t = task, phase' = "turn", speech'.state \in {"open", "shut"},
                        speech'.of = x
                 PROVE  FALSE
      BY <1>p DEF Spoken, Speaks
    <3> QED BY <2>1, <1>p DEF PutsOf
  <2>3. \A f \in EventType : Ahead(p, f)' => ~(f.kind = "text" /\ f.of = x)
    BY <2>1, <1>a, <1>3 DEF NoText
  <2> QED BY <2>2, <2>3 DEF NoText
<1>4. ASSUME NoToken(p, x) PROVE NoToken(p, x)'
  <2>1. ASSUME t = task PROVE e.of # x \/ e.kind = "text"
    BY <2>1, <1>2, <1>4, <1>p DEF PutsOf, NoToken, Spoken, Speaks, RunKinds
  <2>2. ~Spoken(p, x, {"open"})'
    <3> SUFFICES ASSUME t = task, phase' = "turn", speech'.state = "open",
                        speech'.of = x
                 PROVE  FALSE
      BY <1>p DEF Spoken, Speaks
    <3> QED BY <2>1, <1>p DEF PutsOf
  <2>3. \A f \in EventType : Ahead(p, f)' /\ f.of = x => f.kind = "text"
    BY <2>1, <1>a, <1>4 DEF NoToken
  <2> QED BY <2>2, <2>3 DEF NoToken
<1> QED BY <1>1, <1>3, <1>4

(* An item that stays on a page in a read, without one of the user's behind *)
(* it after the read, had none before.                                      *)
LEMMA AloneBefore ==
  ASSUME TypeInv, NEW p \in Pages, NEW e \in EventType, NEW m \in Nat, ReadTo(p, e, m),
         NEW k \in 1..m, NEW x, NEW n \in Nat, m <= n,
         page'[p].items[k].kind = "bubble", page'[p].items[k].of = x,
         \A l \in k..n : page'[p].items[l].kind # "user"
  PROVE  Alone(p, k, x)
<1> DEFINE old == page[p].items
<1>1. old[k].kind = "bubble" /\ old[k].of = x
  BY DEF ReadTo
<1>2. ASSUME NEW l \in k..Len(old) PROVE old[l].kind # "user"
  <2>1. Len(old) \in Nat
    BY PageTyped
  <2>2. CASE l \in 1..m
    <3>1. page'[p].items[l] = old[l]
      BY <2>2 DEF ReadTo
    <3>2. l \in k..n
      BY <2>2
    <3> QED BY <3>1, <3>2
  <2>3. CASE l \notin 1..m
    <3>1. l = m + 1 /\ m + 1 = Len(old)
      BY <2>1, <2>3 DEF ReadTo
    <3> QED BY <3>1 DEF ReadTo
  <2> QED BY <2>2, <2>3
<1> QED BY <1>1, <1>2 DEF Alone

LEMMA AloneRead ==
  ASSUME TypeInv, PhaseInv, Counts, PlaceInv, StreamInv, NEW p \in Pages, Read(p),
         Bubbles(p), page'[p].at = "drain"
  PROVE  AloneInv(p)'
<1>1. /\ UNCHANGED <<task, phase, speech, stream>>
      /\ page[p].at = "drain" /\ page[p].task \in Tasks
  BY ReadParts
<1>2. PICK i \in DOMAIN stream[page[p].task] : Reads(p, i)
  BY ReadParts
<1> DEFINE t == page[p].task
           e == stream[t][i]
           old == page[p].items
           new == page'[p].items
<1>3. PICK m \in Nat : ReadTo(p, e, m)
  BY <1>2, ReadItems
<1>w. /\ new \in Seq(ItemType)
      /\ e.kind \in {"text", "user"} =>
           /\ page'[p].streaming = FALSE
           /\ Len(new) > 0 /\ new[Len(new)] = Item(e)
           /\ Len(old) > 0 /\ old[Len(old)].kind = "bubble" => Len(new) = Len(old)
      /\ Transient(e) /\ ~page[p].streaming =>
           /\ page'[p].streaming = TRUE
           /\ Len(new) = Len(old) + 1
      /\ Transient(e) /\ page[p].streaming =>
           /\ page'[p].streaming = (e.kind # "last") /\ new = old
      /\ e.kind \in {"step", "error"} => new[Len(new)] = Item(e)
      /\ e.kind \in {"done", "nothing"} => new = old
  BY <1>2, ReadWriting
<1>4. /\ page'[p].cursor = e.id /\ page'[p].task = t /\ e.id > page[p].cursor
      /\ e.kind # "done"
  BY <1>2 DEF Reads, Unread
<1>5. /\ e \in EventType /\ e.id \in Nat /\ e.of \in Nat /\ i \in Nat
      /\ e.kind \in RunKinds /\ e.of <= e.id
      /\ e.kind \in {"step", "done"} => e.of = 0
      /\ page[p].cursor \in Nat /\ Len(old) \in Nat
  BY <1>1, EntryTyped, PageTyped DEF StreamInv, EntriesInv
<1>6. Item(e).kind = e.kind /\ e.kind # "bubble"
  BY <1>5, ItemTyped DEF RunKinds
<1>a. ASSUME NEW f \in EventType, Ahead(p, f)'
      PROVE  /\ Ahead(p, f)
             /\ \E j \in DOMAIN stream[t] : i < j /\ stream[t][j] = f
  <2>1. PICK j \in DOMAIN stream[t] : stream[t][j] = f
    BY <1>a, <1>1, <1>4 DEF Ahead, InStream
  <2>2. f.id > e.id /\ f.id \in Nat /\ j \in Nat
    BY <1>a, <1>1, <1>4, <2>1, EntryTyped DEF Ahead
  <2>3. ~(j < i)
    <3> SUFFICES ASSUME j < i PROVE FALSE
      OBVIOUS
    <3>1. f.id < e.id
      BY <2>1, <1>1 DEF StreamInv, OrderInv
    <3> QED BY <3>1, <2>2, <1>5
  <2>4. j # i
    BY <2>1, <2>2, <1>5
  <2>5. f.id > page[p].cursor
    BY <2>2, <1>4, <1>5
  <2> QED BY <2>1, <2>2, <2>3, <2>4, <2>5, <1>5 DEF Ahead, InStream
<1>s. \A x, states : Spoken(p, x, states)' => Spoken(p, x, states)
  BY <1>1, <1>4 DEF Spoken, Speaks
<1>q. ASSUME NEW x \in Nat, 1 <= x, x <= e.id, e.of # x
      PROVE  NoText(p, x)' /\ NoToken(p, x)'
  <2>1. ASSUME NEW f \in EventType, Ahead(p, f)', f.of = x PROVE FALSE
    <3>1. PICK j \in DOMAIN stream[t] : i < j /\ stream[t][j] = f
      BY <2>1, <1>a
    <3>2. stream[t][j].of # 0 /\ e.id >= stream[t][j].of
      BY <3>1, <2>1, <1>q, <1>5
    <3>3. e.of = stream[t][j].of
      BY <3>1, <3>2, <1>1 DEF StreamInv, ReplyInv
    <3> QED BY <3>1, <3>3, <2>1, <1>q
  <2>2. ~Spoken(p, x, {"open", "shut"})
    <3> SUFFICES ASSUME Spoken(p, x, {"open", "shut"}) PROVE FALSE
      OBVIOUS
    <3>1. /\ t = task /\ phase = "turn" /\ speech.state \in {"open", "shut"}
          /\ speech.of = x
      BY DEF Spoken, Speaks
    <3>2. \A k \in DOMAIN stream[task] :
            stream[task][k].id >= speech.of => stream[task][k].of = speech.of
      BY <3>1 DEF StreamInv, SpeechInv
    <3>3. e.id >= speech.of
      BY <3>1, <1>q, <1>5
    <3> QED BY <3>1, <3>2, <3>3, <1>q
  <2>3. ~Spoken(p, x, {"open"})
    BY <2>2 DEF Spoken, Speaks
  <2> QED BY <2>1, <2>2, <2>3, <1>s DEF NoText, NoToken
<1>n. ASSUME NEW x \in Nat, NoText(p, x) PROVE NoText(p, x)'
  BY <1>n, <1>a, <1>s DEF NoText
<1>d. Len(new) \in Nat /\ DOMAIN new = 1..Len(new)
  BY <1>w
<1> SUFFICES ASSUME NEW k \in DOMAIN new, NEW x \in Nat, Alone(p, k, x)'
             PROVE  /\ x <= e.id
                    /\ k < Len(new) => NoText(p, x)'
                    /\ k = Len(new) /\ ~page'[p].streaming => NoToken(p, x)'
  BY <1>4 DEF AloneInv
<1>7. /\ new[k].kind = "bubble" /\ new[k].of = x
      /\ \A l \in k..Len(new) : new[l].kind # "user"
  BY DEF Alone
<1>8. CASE k \notin 1..m
  <2>1. /\ k = m + 1 /\ Len(new) = m + 1 /\ new[m + 1].of = e.of
        /\ \/ new[m + 1] = Item(e)
           \/ Transient(e) /\ ~page[p].streaming
    BY <1>8, <1>3, <1>d DEF ReadTo
  <2>2. Transient(e) /\ ~page[p].streaming
    BY <2>1, <1>6, <1>7
  <2>3. page'[p].streaming = TRUE
    BY <2>2, <1>w
  <2> QED BY <2>1, <2>3, <1>5, <1>7
<1>9. CASE k \in 1..m
  <2>1. Len(new) \in {m, m + 1} /\ m <= Len(new)
    BY <1>3, <1>d DEF ReadTo
  <2>2. Alone(p, k, x)
    BY <2>1, <1>3, <1>5, <1>7, <1>9, <1>d, AloneBefore
  <2>3. k \in DOMAIN old /\ old[k].kind = "bubble" /\ old[k].of = x
    BY <2>2, <1>9, <1>3 DEF ReadTo, Alone
  <2>4. /\ x <= page[p].cursor
        /\ k < Len(old) => NoText(p, x)
        /\ k = Len(old) /\ ~page[p].streaming => NoToken(p, x)
    BY <2>2, <2>3, <1>1 DEF Bubbles, AloneInv
  <2>5. 1 <= x /\ x <= e.id
    BY <2>3, <2>4, <1>4, <1>5 DEF Bubbles, Replies
  <2>6. m = Len(old) \/ m + 1 = Len(old)
    BY <1>3 DEF ReadTo
  <2>7. ASSUME k < Len(new) PROVE NoText(p, x)'
    <3>1. CASE k < Len(old)
      BY <3>1, <2>4, <1>n
    <3>2. CASE ~(k < Len(old))
      <4>1. k = m /\ m = Len(old) /\ Len(new) = Len(old) + 1
        <5>1. k \in Nat /\ k <= m
          BY <1>9
        <5>2. ~(m + 1 = Len(old))
          BY <5>1, <3>2
        <5>3. k = m /\ m = Len(old)
          BY <5>1, <5>2, <3>2, <2>6
        <5>4. Len(new) = m + 1
          BY <5>3, <2>1, <2>7
        <5> QED BY <5>3, <5>4
      <4>2. new # old
        BY <4>1, <1>5
      <4>3. e.kind \notin {"text", "user", "done", "nothing"}
        BY <4>1, <4>2, <2>3, <1>w, <1>5, <1>9
      <4>4. ASSUME Transient(e) PROVE e.of # x
        <5>1. ~page[p].streaming
          BY <4>2, <4>4, <1>w
        <5>2. NoToken(p, x)
          BY <5>1, <4>1, <2>4
        <5>3. Ahead(p, e)
          BY <1>4 DEF Ahead, InStream
        <5> QED BY <5>2, <5>3, <4>4, <1>5 DEF NoToken, Transient
      <4>5. e.of # x
        BY <4>3, <4>4, <2>5, <1>5 DEF RunKinds, Transient
      <4> QED BY <4>5, <2>5, <1>q
    <3> QED BY <3>1, <3>2
  <2>8. ASSUME k = Len(new), ~page'[p].streaming PROVE NoToken(p, x)'
    <3>1. new[Len(new)].kind = "bubble"
      BY <2>8, <1>7
    <3>2. e.kind \notin {"text", "user", "step", "error", "done"}
      BY <3>1, <1>4, <1>6, <1>w
    <3>3. Transient(e)
      BY <3>2, <1>5 DEF RunKinds, Transient
    <3>4. page[p].streaming
      BY <3>3, <2>6, <2>8, <1>9, <1>w, <1>5
    <3>5. e.kind = "last"
      BY <3>3, <3>4, <2>8, <1>w
    <3>6. CASE e.of # x
      BY <3>6, <2>5, <1>q
    <3>7. CASE e.of = x
      <4>1. ASSUME NEW f \in EventType, Ahead(p, f)', f.of = x PROVE f.kind = "text"
        <5>1. PICK j \in DOMAIN stream[t] : i < j /\ stream[t][j] = f
          BY <4>1, <1>a
        <5> QED BY <5>1, <4>1, <3>5, <3>7, <1>1 DEF StreamInv, LastInv
      <4>2. ~Spoken(p, x, {"open"})
        <5> SUFFICES ASSUME Spoken(p, x, {"open"}) PROVE FALSE
          OBVIOUS
        <5>1. t = task /\ phase = "turn" /\ speech.state = "open" /\ speech.of = x
          BY DEF Spoken, Speaks
        <5>2. \A l \in DOMAIN stream[task] :
                stream[task][l].of = speech.of => stream[task][l].kind # "last"
          BY <5>1 DEF StreamInv, SpeechInv
        <5> QED BY <5>1, <5>2, <3>5, <3>7
      <4> QED BY <4>1, <4>2, <1>s DEF NoToken
    <3> QED BY <3>6, <3>7
  <2> QED BY <2>5, <2>7, <2>8
<1> QED BY <1>8, <1>9

LEMMA PageBubbles ==
  ASSUME TypeInv, PhaseInv, Counts, PlaceInv, StreamInv, ReplayInv, BubbleInv,
         NEW p \in Pages, PageStep(p)
  PROVE  Bubbles(p)'
<1>i. Bubbles(p)
  BY DEF BubbleInv
<1>1. ASSUME NEW it \in ItemType, Added(p, it), it.kind # "bubble" PROVE Replies(p)'
  BY <1>1, <1>i DEF Added, Bubbles, Replies
<1>2. CASE Post(p)
  <2>1. PICK it \in ItemType : it.kind = "user" /\ page'[p].items = Append(page[p].items, it)
    BY <1>2, PostParts
  <2>2. Added(p, it)
    BY <2>1, AddedItem
  <2>3. \A k \in DOMAIN page'[p].items, x \in Nat : ~Alone(p, k, x)'
    <3> SUFFICES ASSUME NEW k \in DOMAIN page'[p].items, NEW x \in Nat, Alone(p, k, x)'
                 PROVE  FALSE
      OBVIOUS
    <3> DEFINE n == Len(page'[p].items)
    <3>1. n = Len(page[p].items) + 1 /\ page'[p].items[n] = it /\ n \in Nat
      BY <2>2 DEF Added
    <3>2. k \in Nat /\ k <= n
      BY <2>2 DEF Added
    <3>3. n \in k..n
      BY <3>1, <3>2
    <3> QED BY <3>1, <3>3, <2>1 DEF Alone
  <2>4. page'[p].at = "drain"
    BY <1>2, PostParts
  <2> QED BY <2>1, <2>2, <2>3, <2>4, <1>1 DEF Bubbles, AloneInv
<1>3. CASE Reload(p)
  <2>1. /\ page'[p].at \in {"restored", "closed"} /\ page'[p].streaming = FALSE
        /\ page'[p].items = Replayed(doc).items
    BY <1>3, ReloadParts DEF ReplayInv, Fresh
  <2>2. NoBubble(p)'
    BY <2>1 DEF NoBubble, ReplayInv
  <2> QED BY <2>1, <2>2 DEF Bubbles, NoBubble, Replies
<1>4. CASE View(p)
  <2>1. /\ page[p].at = "restored" /\ page'[p].items = page[p].items
        /\ page'[p].at \in {"drain", "closed"}
    BY <1>4, ViewParts
  <2>2. NoBubble(p)'
    BY <2>1, <1>i DEF Bubbles, NoBubble
  <2> QED BY <2>1, <2>2 DEF Bubbles, NoBubble, Replies, AloneInv, Alone
<1>5. CASE Read(p)
  <2>1. PICK i \in DOMAIN stream[page[p].task] : Reads(p, i)
    BY <1>5, ReadParts
  <2> DEFINE e == stream[page[p].task][i]
  <2>2. PICK m \in Nat : ReadTo(p, e, m)
    BY <2>1, ReadItems
  <2>3. page[p].task \in Tasks /\ page'[p].at \in {"drain", "closed"}
    BY <1>5, <2>1, ReadParts DEF Reads
  <2>4. /\ Transient(e) => 1 <= e.of
        /\ e.kind \in RunKinds /\ e \in EventType
    BY <2>3, EntryTyped DEF StreamInv, EntriesInv
  <2>5. Replies(p)'
    <3> SUFFICES ASSUME NEW k \in DOMAIN page'[p].items,
                        page'[p].items[k].kind = "bubble"
                 PROVE  1 <= page'[p].items[k].of
      BY DEF Replies
    <3>1. CASE k \in 1..m
      BY <3>1, <2>2, <1>i DEF ReadTo, Bubbles, Replies
    <3>2. CASE k \notin 1..m
      <4>1. /\ k = m + 1 /\ page'[p].items[m + 1].of = e.of
            /\ page'[p].items[m + 1] = Item(e) \/ Transient(e)
        BY <3>2, <2>2 DEF ReadTo
      <4>2. Item(e).kind # "bubble"
        BY <2>4, ItemTyped DEF RunKinds
      <4> QED BY <4>1, <4>2, <2>4
    <3> QED BY <3>1, <3>2
  <2>6. page'[p].at = "drain" => AloneInv(p)'
    BY <1>5, <1>i, AloneRead
  <2> QED BY <2>3, <2>5, <2>6 DEF Bubbles
<1>6. CASE DrainedDry(p) \/ Drop(p)
  <2>1. page'[p].at = "closed" /\ page'[p].items = page[p].items
    BY <1>6, ClosingParts, ClosesParts
  <2> QED BY <2>1, <1>i DEF Bubbles, Replies
<1>7. CASE ReadFails(p)
  <2>1. page'[p].at = "closed" /\ page'[p].items = Append(page[p].items, Item(Error))
    BY <1>7, ReadFailsParts
  <2>2. Added(p, Item(Error))
    BY <2>1, ErrorTyped, AddedItem
  <2> QED BY <2>1, <2>2, <1>1, ErrorTyped DEF Bubbles
<1> QED BY <1>2, <1>3, <1>4, <1>5, <1>6, <1>7 DEF PageStep

LEMMA BubbleStep ==
  ASSUME TypeInv, PhaseInv, Counts, PlaceInv, StreamInv, ReplayInv, BubbleInv,
         [Next]_vars
  PROVE  BubbleInv'
<1>r. Replayed(doc) \in PageType
  BY DEF ReplayInv
<1>p. ASSUME NEW q \in Pages, page[q].at = "drain"
      PROVE  page[q].task \in Tasks /\ page[q].task <= task /\ page[q].cursor <= clock
  <2>1. page[q].task <= task /\ page[q].task # 0 /\ page[q].cursor <= clock
    BY <1>p DEF PlaceInv, Placed
  <2>2. task <= Posts /\ task \in Nat /\ page[q].task \in Nat
    BY PageTyped DEF Counts, TypeInv
  <2>3. Posts = MaxPosts - left.posts /\ left.posts \in 0..MaxPosts
    BY DEF Posts, TypeInv, LeftType
  <2> QED BY <2>1, <2>2, <2>3, BoundsTyped DEF Tasks
<1>k. ASSUME NEW q \in Pages, page'[q] = page[q], page[q].at = "drain" => AloneInv(q)'
      PROVE  Bubbles(q)'
  BY <1>k DEF BubbleInv, Bubbles, NoBubble, Replies
<1>1. CASE PutStep
  <2>1. PICK e \in EventType, d \in Nat : PutWith(e, d)
    BY <1>1, PutStepWith
  <2>2. page' = page
    BY <2>1 DEF PutWith
  <2> SUFFICES ASSUME NEW q \in Pages PROVE Bubbles(q)'
    BY DEF BubbleInv
  <2>3. ASSUME page[q].at = "drain" PROVE AloneInv(q)'
    <3>1. Replies(q) /\ AloneInv(q)
      BY <2>3 DEF BubbleInv, Bubbles
    <3> QED BY <3>1, <2>1, <2>3, <1>p, AlonePut
  <2> QED BY <2>2, <2>3, <1>k
<1>2. ASSUME ~PutStep, NEW q \in Pages, page'[q] = page[q] PROVE Bubbles(q)'
  <2>1. ASSUME page[q].at = "drain" PROVE AloneInv(q)'
    <3>1. stream' = stream
      BY <1>2, <1>r, NoPut
    <3>2. AloneInv(q)
      BY <2>1 DEF BubbleInv, Bubbles
    <3>3. "none" \notin {"open", "shut"} /\ "none" \notin {"open"}
      OBVIOUS
    <3>4. page[q].task <= task
      BY <2>1, <1>p
    <3>5. ASSUME NEW x \in Nat
          PROVE  /\ Spoken(q, x, {"open", "shut"})' => Spoken(q, x, {"open", "shut"})
                 /\ Spoken(q, x, {"open"})' => Spoken(q, x, {"open"})
      BY <3>3, <3>4, <1>2, <1>r, SpokenStays
    <3> QED BY <3>1, <3>2, <3>5, <1>2, AloneStays
  <2> QED BY <2>1, <1>2, <1>k
<1>3. CASE ~PutStep /\ page' = page
  BY <1>2, <1>3 DEF BubbleInv
<1>4. ASSUME ~PutStep, NEW p \in Pages, PageStep(p), OnlyPage(p) PROVE BubbleInv'
  <2> SUFFICES ASSUME NEW q \in Pages PROVE Bubbles(q)'
    BY DEF BubbleInv
  <2>1. CASE q = p
    BY <2>1, <1>4, PageBubbles
  <2>2. CASE q # p
    BY <2>2, <1>2, <1>4 DEF OnlyPage
  <2> QED BY <2>1, <2>2
<1>5. CASE \E e \in EventType, d \in Nat : PutWith(e, d)
  BY <1>1, <1>3, <1>5 DEF PutWith
<1> QED BY <1>1, <1>3, <1>4, <1>5, <1>r, Moves

(* A message of a reply and a bubble of it that are on one page have one of *)
(* the user's items between them.                                           *)
Single(p) ==
  LET its == page[p].items
  IN  \A i, j \in DOMAIN its :
        /\ i < j
        /\ its[i].kind = "bubble" /\ its[j].kind = "text"
        /\ its[i].of = its[j].of
        => \E k \in i..j : its[k].kind = "user"

LEMMA SingleRead ==
  ASSUME TypeInv, PhaseInv, Counts, PlaceInv, StreamInv, NEW p \in Pages, Read(p),
         Bubbles(p), Single(p)
  PROVE  Single(p)'
<1>1. page[p].at = "drain" /\ page[p].task \in Tasks
  BY ReadParts
<1>2. PICK z \in DOMAIN stream[page[p].task] : Reads(p, z)
  BY ReadParts
<1> DEFINE t == page[p].task
           e == stream[t][z]
           old == page[p].items
           new == page'[p].items
<1>3. PICK m \in Nat : ReadTo(p, e, m)
  BY <1>2, ReadItems
<1>4. /\ e \in EventType /\ Ahead(p, e) /\ e.kind \in RunKinds
      /\ Len(old) \in Nat
  BY <1>1, <1>2, EntryTyped, PageTyped
     DEF Reads, Unread, Ahead, InStream, StreamInv, EntriesInv
<1>5. /\ new \in Seq(ItemType)
      /\ /\ e.kind \in {"text", "user"}
         /\ Len(old) > 0 /\ old[Len(old)].kind = "bubble"
         => Len(new) = Len(old)
  BY <1>2, ReadWriting
<1> SUFFICES ASSUME NEW i \in DOMAIN new, NEW j \in DOMAIN new, i < j,
                    new[i].kind = "bubble", new[j].kind = "text",
                    new[i].of = new[j].of
             PROVE  \E k \in i..j : new[k].kind = "user"
  BY DEF Single
<1>6. /\ i \in Nat /\ j \in Nat /\ 1 <= i
      /\ j <= Len(new) /\ Len(new) \in {m, m + 1}
  BY <1>3, <1>5 DEF ReadTo
<1>7. i \in 1..m /\ i \in DOMAIN old /\ new[i] = old[i]
  <2>1. i \in 1..m
    BY <1>6
  <2> QED BY <2>1, <1>3 DEF ReadTo
<1>8. CASE j \in 1..m
  <2>1. j \in DOMAIN old /\ new[j] = old[j]
    BY <1>8, <1>3 DEF ReadTo
  <2>2. PICK k \in i..j : old[k].kind = "user"
    BY <2>1, <1>7 DEF Single
  <2>3. k \in 1..m
    BY <1>6, <1>8
  <2>4. new[k] = old[k]
    BY <2>3, <1>3 DEF ReadTo
  <2> QED BY <2>2, <2>4
<1>9. CASE j \notin 1..m
  <2>1. j = m + 1 /\ Len(new) = m + 1
    BY <1>6, <1>9
  <2>2. /\ new[m + 1].of = e.of
        /\ new[m + 1] = Item(e)
    BY <2>1, <1>3 DEF ReadTo
  <2>3. e.kind = "text" /\ e.of \in Nat
    BY <2>1, <2>2, <1>4, ItemTyped DEF EventType
  <2> SUFFICES ASSUME \A k \in i..j : new[k].kind # "user"
               PROVE  FALSE
    OBVIOUS
  <2>4. Alone(p, i, e.of)
    <3>1. j \in Nat /\ m <= j /\ new[i].of = e.of
      BY <2>1, <2>2
    <3> QED BY <3>1, <1>3, <1>4, <1>7, AloneBefore
  <2>5. CASE i < Len(old)
    <3>1. NoText(p, e.of)
      BY <2>3, <2>4, <2>5, <1>1, <1>7 DEF Bubbles, AloneInv
    <3> QED BY <3>1, <2>3, <1>4 DEF NoText
  <2>6. CASE ~(i < Len(old))
    <3>1. m = Len(old) \/ m + 1 = Len(old)
      BY <1>3 DEF ReadTo
    <3>2. i \in Nat /\ i <= m /\ 1 <= i
      BY <1>7
    <3>3. i = Len(old) /\ m = Len(old)
      BY <3>1, <3>2, <2>6
    <3>4. Len(new) = Len(old)
      BY <3>2, <3>3, <2>3, <1>5, <1>7
    <3> QED BY <3>3, <3>4, <2>1, <1>4
  <2> QED BY <2>5, <2>6
<1> QED BY <1>8, <1>9

LEMMA PageSingle ==
  ASSUME TypeInv, PhaseInv, Counts, PlaceInv, StreamInv, ReplayInv, BubbleInv,
         NEW p \in Pages, PageStep(p), Single(p)
  PROVE  Single(p)'
<1>1. ASSUME NEW it \in ItemType, Added(p, it), it.kind # "text" PROVE Single(p)'
  <2> DEFINE old == page[p].items
             new == page'[p].items
  <2> SUFFICES ASSUME NEW i \in DOMAIN new, NEW j \in DOMAIN new, i < j,
                      new[i].kind = "bubble", new[j].kind = "text",
                      new[i].of = new[j].of
               PROVE  \E k \in i..j : new[k].kind = "user"
    BY DEF Single
  <2>1. j \in DOMAIN old /\ new[j] = old[j] /\ j \in Nat /\ j < Len(old) + 1
    BY <1>1 DEF Added
  <2>2. i \in DOMAIN old /\ new[i] = old[i] /\ i \in Nat
    BY <2>1, <1>1 DEF Added
  <2>3. PICK k \in i..j : old[k].kind = "user"
    BY <2>1, <2>2 DEF Single
  <2>4. k \in DOMAIN old
    <3>1. DOMAIN old = 1..Len(old)
      BY PageTyped
    <3> QED BY <3>1, <2>1, <2>2
  <2>5. new[k] = old[k]
    BY <2>4, <1>1 DEF Added
  <2> QED BY <2>3, <2>5
<1>2. CASE Post(p)
  <2>1. PICK it \in ItemType : it.kind = "user" /\ page'[p].items = Append(page[p].items, it)
    BY <1>2, PostParts
  <2> QED BY <2>1, <1>1, AddedItem
<1>3. CASE Reload(p)
  <2>1. page'[p].items = Replayed(doc).items
    BY <1>3, ReloadParts DEF ReplayInv
  <2> QED BY <2>1 DEF Single, ReplayInv
<1>4. CASE View(p) \/ DrainedDry(p) \/ Drop(p)
  <2>1. page'[p].items = page[p].items
    BY <1>4, ViewParts, ClosingParts, ClosesParts
  <2> QED BY <2>1 DEF Single
<1>5. CASE Read(p)
  BY <1>5, SingleRead DEF BubbleInv
<1>6. CASE ReadFails(p)
  <2>1. page'[p].items = Append(page[p].items, Item(Error))
    BY <1>6, ReadFailsParts
  <2> QED BY <2>1, <1>1, AddedItem, ErrorTyped
<1> QED BY <1>2, <1>3, <1>4, <1>5, <1>6 DEF PageStep

LEMMA SingleStep ==
  ASSUME TypeInv, PhaseInv, Counts, PlaceInv, StreamInv, ReplayInv, BubbleInv,
         [Next]_vars, NoDoubleBubble
  PROVE  NoDoubleBubble'
<1>r. Replayed(doc) \in PageType
  BY DEF ReplayInv
<1>s. \A p \in Pages : Single(p)
  BY DEF NoDoubleBubble, Single
<1> SUFFICES ASSUME NEW q \in Pages PROVE Single(q)'
  BY DEF NoDoubleBubble, Single
<1>1. CASE page'[q] = page[q]
  BY <1>1, <1>s DEF Single
<1>2. ASSUME NEW p \in Pages, PageStep(p), OnlyPage(p) PROVE Single(q)'
  <2>1. CASE q = p
    BY <2>1, <1>2, <1>s, PageSingle
  <2>2. CASE q # p
    BY <2>2, <1>1, <1>2 DEF OnlyPage
  <2> QED BY <2>1, <2>2
<1> QED BY <1>1, <1>2, <1>r, Moves DEF PutWith

-----------------------------------------------------------------------------
(* The inductive invariant and the theorems.                                *)

RunInv == TypeInv /\ Counts /\ PhaseInv /\ StreamInv
KeptInv == DocInv /\ Foldable(doc) /\ ReplayInv
PagesInv == /\ PlaceInv /\ OrderedInv /\ WritingInv /\ SeenInv
            /\ GivenInv /\ LostInv /\ BubbleInv /\ NoDoubleBubble
Inv == RunInv /\ KeptInv /\ PagesInv

LEMMA InitRun == Init => RunInv
<1> SUFFICES ASSUME Init PROVE RunInv
  OBVIOUS
<1>1. <<>> \in Seq(EventType) /\ <<>> \in Seq(ItemType)
  OBVIOUS
<1>2. FreshPage \in PageType
  BY <1>1 DEF FreshPage, PageType
<1>3. left \in LeftType
  BY BoundsTyped DEF Init, LeftType
<1>4. TypeInv
  BY <1>1, <1>2, <1>3, NoEventTyped DEF Init, TypeInv, Phases, Statuses, Silent, SpeechType
<1>5. Puts = 0 /\ Posts = 0 /\ Troubles = 0 /\ Owed = 0
  BY BoundsTyped DEF Init, Puts, Posts, Troubles, Owed
<1>6. Counts /\ PhaseInv
  BY <1>5 DEF Init, Counts, PhaseInv, Registered
<1>7. \A t \in Tasks : DOMAIN stream[t] = {}
  BY DEF Init
<1>8. EntriesInv /\ OrderInv /\ TasksInv /\ ReplyInv /\ LastInv
  BY <1>7 DEF EntriesInv, OrderInv, TasksInv, ReplyInv, LastInv
<1>9. SpeechInv
  BY DEF Init, SpeechInv
<1> QED BY <1>4, <1>6, <1>8, <1>9 DEF RunInv, StreamInv

LEMMA InitKept == Init => KeptInv
<1> SUFFICES ASSUME Init PROVE KeptInv
  OBVIOUS
<1>1. doc = <<>> /\ DOMAIN doc = {} /\ unsaved = NoEvent
  BY DEF Init
<1>2. DocInv
  BY <1>1 DEF DocInv, SavedInv, SavedOrderInv, UnsavedInv, NewestInv
<1> QED BY <1>1, <1>2, ReplayInit DEF KeptInv

LEMMA InitPages == Init => PagesInv
<1> SUFFICES ASSUME Init PROVE PagesInv
  OBVIOUS
<1>1. ASSUME NEW p \in Pages
      PROVE  /\ page[p].at = "closed" /\ page[p].task = 0 /\ page[p].cursor = 0
             /\ page[p].items = <<>> /\ page[p].streaming = FALSE
             /\ DOMAIN page[p].items = {}
  BY DEF Init, FreshPage
<1>2. \A t \in Tasks : DOMAIN stream[t] = {}
  BY DEF Init
<1>3. clock = 0 /\ task = 0
  BY DEF Init
<1>4. PlaceInv
  <2> SUFFICES ASSUME NEW p \in Pages PROVE Placed(p)
    BY DEF PlaceInv
  <2>1. page[p].task <= task /\ page[p].cursor <= clock
    <3>1. page[p].task = 0 /\ page[p].cursor = 0
      BY <1>1
    <3> QED BY <3>1, <1>3
  <2>2. \A t \in Tasks : \A i \in DOMAIN stream[t] : stream[t][i].id > page[p].cursor
    BY <1>2
  <2>3. page[p].at # "drain"
    BY <1>1
  <2> QED BY <2>1, <2>2, <2>3 DEF Placed
<1>5. OrderedInv
  BY <1>1 DEF OrderedInv, Ordered, InOrder, NotAhead
<1>6. WritingInv /\ SeenInv
  BY <1>1 DEF WritingInv, Writing, SeenInv, Seen
<1>7. \A it \in ItemType : ~Given(it)
  BY <1>1, <1>2 DEF Given, Shown, Streamed
<1>8. GivenInv
  BY <1>7 DEF GivenInv
<1>9. LostInv
  <2>1. Lost = {}
    BY <1>7 DEF Lost
  <2>2. Troubles = 0
    BY BoundsTyped DEF Init, Troubles
  <2> QED BY <2>1, <2>2, FS_EmptySet DEF LostInv
<1>10. BubbleInv
  BY <1>1 DEF BubbleInv, Bubbles, Replies
<1>11. NoDoubleBubble
  BY <1>1 DEF NoDoubleBubble
<1> QED BY <1>4, <1>5, <1>6, <1>8, <1>9, <1>10, <1>11 DEF PagesInv

LEMMA InvStep == Inv /\ [Next]_vars => Inv'
<1> SUFFICES ASSUME Inv, [Next]_vars PROVE Inv'
  OBVIOUS
<1> USE DEF Inv, RunInv, KeptInv, PagesInv
<1>r. Replayed(doc) \in PageType
  BY DEF ReplayInv
<1>1. TypeInv' /\ Counts' /\ PhaseInv' /\ StreamInv'
  BY <1>r, TypeStep, CountsStep, PhaseStep, StreamStep
<1>2. DocMove /\ (clock' = clock \/ clock' = clock + 1)
  BY <1>r, DocMoves
<1>3. DocInv'
  BY <1>2, DocStep
<1>4. Foldable(doc') /\ ReplayInv'
  BY <1>2, ReplayStep
<1>5. PlaceInv'
  BY PlaceStep
<1>6. OrderedInv'
  BY OrderedStep
<1>7. WritingInv'
  BY WritingStep
<1>8. SeenInv'
  BY <1>1, <1>5, SeenStep
<1>9. GivenInv'
  BY <1>1, <1>2, <1>3, GivenStep
<1>10. LostInv'
  BY <1>1, <1>9, LostStep
<1>11. BubbleInv'
  BY BubbleStep
<1>12. NoDoubleBubble'
  BY SingleStep
<1> QED BY <1>1, <1>3, <1>4, <1>5, <1>6, <1>7, <1>8, <1>9, <1>10, <1>11, <1>12
        DEF Foldable

(* What the streams, the document and the pages hold, and how they belong   *)
(* together, is kept by every step.                                         *)
THEOREM InvHolds == Spec => []Inv
<1>1. Init => Inv
  BY InitRun, InitKept, InitPages DEF Inv
<1> QED BY <1>1, InvStep, PTL DEF Spec

(* Every variable stays within its type: the events that runs put, with the *)
(* last ones of each turn and of each STOP, are paid for by the bounds.     *)
THEOREM TypeCorrect == Spec => []TypeOK
<1>1. Inv => TypeOK
  <2> SUFFICES ASSUME TypeInv, Counts, PlaceInv PROVE TypeOK
    BY DEF Inv, RunInv, PagesInv
  <2>1. /\ left.puts \in 0..MaxPuts /\ left.posts \in 0..MaxPosts
        /\ left.troubles \in 0..MaxTroubles
        /\ MaxPuts \in Nat /\ MaxPosts \in Nat /\ MaxTroubles \in Nat
    BY BoundsTyped DEF TypeInv, LeftType
  <2>2. /\ Puts \in Nat /\ Puts <= MaxPuts /\ Posts \in Nat /\ Posts <= MaxPosts
        /\ Troubles \in Nat /\ Troubles <= MaxTroubles
    BY <2>1 DEF Puts, Posts, Troubles
  <2>3. Owed \in Nat /\ clock \in Nat /\ task \in Nat /\ asked \in Nat
    BY DEF Owed, TypeInv
  <2>4. clock <= MaxPuts + MaxPosts * 2 + 2 * MaxTroubles
    BY <2>1, <2>2, <2>3 DEF Counts
  <2>5. task <= MaxPosts /\ asked <= MaxPosts
    BY <2>1, <2>2, <2>3 DEF Counts
  <2>6. clock \in 0..(MaxPuts + MaxPosts * 2 + 2 * MaxTroubles)
    BY <2>1, <2>3, <2>4
  <2>7. task \in 0..MaxPosts /\ asked \in 0..MaxPosts
    BY <2>1, <2>3, <2>5
  <2>8. ASSUME NEW p \in Pages
        PROVE  /\ page[p].at \in {"closed", "restored", "drain"}
               /\ page[p].task \in 0..MaxPosts
               /\ page[p].cursor \in 0..clock
    <3>1. /\ page[p].at \in {"closed", "restored", "drain"}
          /\ page[p].task \in Nat /\ page[p].cursor \in Nat
      BY PageTyped DEF PageType
    <3>2. page[p].task <= task /\ page[p].cursor <= clock
      BY DEF PlaceInv, Placed
    <3> QED BY <3>1, <3>2, <2>1, <2>3, <2>5
  <2> QED BY <2>6, <2>7, <2>8 DEF TypeOK, TypeInv, SpeechType
<1> QED BY <1>1, InvHolds, PTL

(* A page shows the events of runs in the order they were put, and none     *)
(* twice, wherever it has them from, unless it asks for everything again    *)
(* after an error of the request.                                           *)
THEOREM OnceAndInOrderHolds == Spec => []OnceAndInOrder
<1>1. Inv => OnceAndInOrder
  BY DEF Inv, PagesInv, OrderedInv, Ordered, InOrder, OnceAndInOrder
<1> QED BY <1>1, InvHolds, PTL

(* No event of the task a page follows is skipped, however far its stream   *)
(* has been trimmed and however often the page lost its connection.         *)
THEOREM NothingMissedHolds == Spec => []NothingMissed
<1>1. Inv => NothingMissed
  <2> SUFFICES ASSUME TypeInv, SeenInv,
                      NEW p \in Pages, ~page[p].slipped, page[p].task # 0,
                      NEW i \in DOMAIN doc, OfRun(doc[i]),
                      doc[i].task = page[p].task, doc[i].id <= page[p].cursor,
                      \E k \in DOMAIN stream[doc[i].task] :
                        stream[doc[i].task][k] = doc[i]
               PROVE  Shows(p, doc[i])
    BY DEF Inv, RunInv, PagesInv, NothingMissed
  <2>1. doc[i] \in EventType
    BY DocEntry
  <2>2. InStream(page[p].task, doc[i]) /\ Saved(doc[i])
    BY DEF InStream, Saved
  <2> QED BY <2>1, <2>2 DEF SeenInv, Seen
<1> QED BY <1>1, InvHolds, PTL

(* What a page shows of a run is in the document or about to be written to  *)
(* it; each STOP takes at most one event from it.                           *)
THEOREM ShownIsKeptHolds == Spec => []ShownIsKept
<1>1. Inv => ShownIsKept
  BY LostFollows DEF Inv, RunInv, PagesInv
<1> QED BY <1>1, InvHolds, PTL

(* A reply's message is seen with the bubble of its tokens only when the    *)
(* user wrote in between.                                                   *)
THEOREM NoDoubleBubbleHolds == Spec => []NoDoubleBubble
<1>1. Inv => NoDoubleBubble
  BY DEF Inv, PagesInv
<1> QED BY <1>1, InvHolds, PTL
=============================================================================
