------------------------------ MODULE ChatFeed ------------------------------
(***************************************************************************)
(* How the events of a session reach the pages that show it.               *)
(*                                                                         *)
(* A run puts every event into the Redis stream of its task and then       *)
(* pushes it onto the list of the session's document; the tokens of the    *)
(* first reply only go into the stream.  A page that is opened replays the *)
(* document and, when the session is busy, asks for what follows the id of *)
(* the last event it saw; a page that sends a message gives that id too.   *)
(* Several pages may show one session.  A stream keeps only its newest     *)
(* entries, connections drop, reads fail, the user presses STOP, writes    *)
(* while the agent works and reloads at any moment.                        *)
(*                                                                         *)
(* Redis and the process are taken to read one clock in milliseconds, and  *)
(* no two ids to fall into one millisecond.  Overlapping setups, crashes   *)
(* and recoveries are the subject of SessionTurns: here a page writes only *)
(* while no setup is under way and no stopped run is still ending.         *)
(*                                                                         *)
(* An operator named ...Bug is the next definition with a plausible        *)
(* mistake put into it; no specification uses it.                          *)
(***************************************************************************)
EXTENDS Naturals, FiniteSets, SequencesExt

CONSTANTS
    Pages,         \* the browser tabs that are followed
    Capacity,      \* how many entries trimming leaves in a stream
    MaxPuts,       \* bound on the events runs emit before their last one
    MaxPosts,      \* bound on the messages of the user
    MaxReloads,    \* bound on reloads
    MaxTroubles    \* bound on failing reads, broken connections and STOPs

ASSUME BoundsAreNaturals ==
    /\ Capacity \in Nat \ {0}
    /\ {MaxPuts, MaxPosts, MaxReloads, MaxTroubles} \subseteq Nat

VARIABLES
    clock,     \* the newest id given out
    task,      \* the newest task, 0 before the first
    phase,     \* where its run stands
    status,    \* the session's status, as far as pages tell it apart
    asked,     \* messages in the input stream
    stream,    \* the output stream of each task
    doc,       \* the events of the session's document
    unsaved,   \* the event that is in the stream and not yet in the document
    speech,    \* the streamed first reply of the turn
    page,      \* what each tab holds
    left       \* what is left of each bound

vars == <<clock, task, phase, status, asked, stream, doc, unsaved, speech,
          page, left>>

run == <<task, phase, status, asked, speech>>

Tasks == 1..MaxPosts
Phases == {"none", "boot", "turn", "over", "ending", "stopping",
           "stopped", "gone"}
(* paused: cancelled, which a new message leaves as it is.                  *)
Statuses == {"idle", "paused", "queued", "running"}

(***************************************************************************)
(* Events.  A "step" stands for every event that adds an item of its own   *)
(* and does not come right after tokens; "of" is the reply a token or a      *)
(* message belongs to (the id of its first token), or the number of the    *)
(* user's message.  An id that Redis cannot parse is 0.                    *)
(***************************************************************************)
NoEvent == [id |-> 0, kind |-> "nothing", task |-> 0, of |-> 0]
Event(id, kind, t, of) == [id |-> id, kind |-> kind, task |-> t, of |-> of]

(* MessageChunkEvent is transient: it is never written to the document.     *)
TransientBug(e) == e.kind \in {"chunk", "last", "text"}
Transient(e) == e.kind \in {"chunk", "last"}

Silent == [state |-> "none", of |-> 0]

(***************************************************************************)
(* A page: the items it shows, the bubble that is being written (streaming)*)
(* and the id of the last event.  rewound: that event was an error, with   *)
(* an id that made it ask for a whole stream again; slipped: the document  *)
(* it was loaded from was ahead of an older event.                         *)
(***************************************************************************)
FreshPage == [at |-> "closed", task |-> 0, cursor |-> 0, items |-> <<>>,
              streaming |-> FALSE, rewound |-> FALSE, slipped |-> FALSE]

Item(e) == [kind |-> e.kind, id |-> e.id, of |-> e.of]
Shows(p, e) == \E i \in DOMAIN page[p].items : page[p].items[i] = Item(e)

WithoutBubbleBug(pg) ==
    LET n == Len(pg.items)
    IN  IF n > 0 /\ pg.streaming /\ pg.items[n].kind = "bubble"
        THEN Front(pg.items) ELSE pg.items

(* A message takes the place of the bubble before it.  While the bubble is  *)
(* being written the last item goes if it is any word of the assistant's,   *)
(* afterwards if it is a bubble.                                            *)
WithoutBubble(pg) ==
    LET n == Len(pg.items)
        goes == IF pg.streaming THEN {"bubble", "text", "error"} ELSE {"bubble"}
    IN  IF n > 0 /\ pg.items[n].kind \in goes THEN Front(pg.items) ELSE pg.items

(* handleEvent and the handlers it calls.                                   *)
Rendered(pg, e) ==
    LET seen == [pg EXCEPT !.cursor = e.id]
        opensBubble == e.kind \in {"chunk", "last"} /\ ~pg.streaming
    IN  CASE e.kind \in {"text", "user"} ->
               [seen EXCEPT !.items = Append(WithoutBubble(pg), Item(e)),
                            !.streaming = FALSE]
          [] opensBubble ->
               [seen EXCEPT !.items = Append(@, [Item(e) EXCEPT !.kind = "bubble"]),
                            !.streaming = TRUE]
          [] e.kind = "last" /\ ~opensBubble -> [seen EXCEPT !.streaming = FALSE]
          [] e.kind \in {"step", "error"} ->
               [seen EXCEPT !.items = Append(@, Item(e))]
          [] OTHER -> seen

(* restoreSession: a new page replays the document.                         *)
ReplayedBug(events) == [FoldLeft(Rendered, FreshPage, events) EXCEPT !.cursor = clock]
Replayed(events) == FoldLeft(Rendered, FreshPage, events)

(* The drain of a page starts behind its cursor, or with the whole stream   *)
(* when the cursor is no stream id.                                         *)
Draining(pg, t) ==
    [pg EXCEPT !.at = "drain", !.task = t,
               !.rewound = @ \/ /\ pg.cursor = 0
                                /\ \E i \in DOMAIN pg.items :
                                      pg.items[i].kind = "error"]

-----------------------------------------------------------------------------
(* The side of the run.                                                     *)

Init ==
    /\ clock = 0
    /\ task = 0
    /\ phase = "none"
    /\ status = "idle"
    /\ asked = 0
    /\ stream = [t \in Tasks |-> <<>>]
    /\ doc = <<>>
    /\ unsaved = NoEvent
    /\ speech = Silent
    /\ page = [p \in Pages |-> FreshPage]
    /\ left = [puts |-> MaxPuts, posts |-> MaxPosts, reloads |-> MaxReloads,
               troubles |-> MaxTroubles]

(* XADD with a MAXLEN.  The real one is approximate and may keep more, which *)
(* only helps the reader.                                                   *)
Trimmed(s) ==
    IF Len(s) > Capacity THEN SubSeq(s, Len(s) - Capacity + 1, Len(s)) ELSE s

(* _put_and_add_event up to the push onto the document.                     *)
Put(kind, of) ==
    LET e == Event(clock + 1, kind, task, of)
    IN  /\ unsaved = NoEvent
        /\ clock' = clock + 1
        /\ stream' = [stream EXCEPT ![task] = Trimmed(Append(@, e))]
        /\ unsaved' = IF Transient(e) THEN NoEvent ELSE e
        /\ UNCHANGED <<task, status, asked, doc, page>>

Spend(what) == /\ left[what] > 0
               /\ left' = [left EXCEPT ![what] = @ - 1]

(* The runner takes the oldest message and the flow marks the session       *)
(* RUNNING: in the run a setup has started, or in one that was left for it. *)
NextTurn ==
    /\ phase \in {"boot", "over"}
    /\ unsaved = NoEvent
    /\ asked > 0
    /\ asked' = asked - 1
    /\ phase' = "turn"
    /\ status' = "running"
    /\ speech' = Silent
    /\ UNCHANGED <<clock, task, stream, doc, unsaved, page, left>>

(* After every event the runner looks for an interjection and, if there is  *)
(* one, leaves the flow.                                                    *)
Looked == IF phase = "turn" /\ asked > 0 THEN "over" ELSE phase

(* acknowledge_stream: tokens, an empty last one, and the whole message.    *)
Speak ==
    /\ phase = "turn"
    /\ speech.state \in {"none", "open"}
    /\ Spend("puts")
    /\ LET of == IF speech.state = "none" THEN clock + 1 ELSE speech.of
       IN  \E kind \in IF speech.state = "none" THEN {"chunk"} ELSE {"chunk", "last"} :
              /\ Put(kind, of)
              /\ speech' = [state |-> IF kind = "last" THEN "shut" ELSE "open",
                            of |-> of]
    /\ phase' = Looked

(* A message after tokens: the reply's own, or another one after a reply    *)
(* that broke off.  Every other message counts as a step.                   *)
Say ==
    /\ phase = "turn"
    /\ speech.state \in {"open", "shut"}
    /\ Spend("puts")
    /\ Put("text", IF speech.state = "shut" THEN speech.of ELSE 0)
    /\ speech' = [state |-> "said", of |-> 0]
    /\ UNCHANGED phase

Work ==
    /\ phase = "turn"
    /\ Spend("puts")
    /\ Put("step", 0)
    /\ speech' = [state |-> "said", of |-> 0]
    /\ UNCHANGED phase

(* The flow's DoneEvent, after which the runner looks for another message.  *)
(* (A WaitEvent or an ErrorEvent ends the connection of a page just so; the *)
(* run then takes nothing more.)                                            *)
Finish ==
    /\ phase = "turn"
    /\ Put("done", 0)
    /\ phase' = "over"
    /\ UNCHANGED <<speech, left>>

(* The second half of _put_and_add_event, and the look after it.            *)
Save ==
    /\ unsaved # NoEvent
    /\ doc' = Append(doc, unsaved)
    /\ unsaved' = NoEvent
    /\ phase' = Looked
    /\ UNCHANGED <<clock, task, status, asked, stream, speech, page, left>>

(* The run is over and its task leaves the registry.                        *)
EndTask ==
    /\ unsaved = NoEvent
    /\ \/ phase = "over" /\ asked = 0 /\ status' = "idle"
       \/ phase = "ending" /\ UNCHANGED status
    /\ phase' = "gone"
    /\ UNCHANGED <<clock, task, asked, stream, doc, unsaved, speech, page, left>>

(* STOP takes the task out of the registry and cancels the run, which may   *)
(* be about to write an event to the document.                              *)
Stop ==
    /\ phase \in {"turn", "over"}
    /\ Spend("troubles")
    /\ phase' = "stopping"
    /\ status' = "paused"
    /\ \/ UNCHANGED doc
       \/ unsaved # NoEvent /\ doc' = Append(doc, unsaved)
    /\ unsaved' = NoEvent
    /\ UNCHANGED <<clock, task, asked, stream, speech, page>>

(* The handler of the cancelled run says so, then closes the turn.          *)
SayStopped ==
    /\ \/ phase = "stopping" /\ Put("text", 0) /\ phase' = "stopped"
       \/ phase = "stopped" /\ Put("done", 0) /\ phase' = "ending"
    /\ UNCHANGED <<speech, left>>

-----------------------------------------------------------------------------
(* The side of the pages.                                                   *)

Registered == phase \in {"turn", "over"}
TaskDoneBug(t) == t = task /\ phase = "gone"
TaskDone(t) == t < task \/ phase = "gone"

(* chat(message): the page gives up its connection, shows the message and   *)
(* posts it with the id of the last event; the server writes it to the      *)
(* document under an id of the streams' form and hands it to the task that  *)
(* is running, or sets one up.                                              *)
UserEventIdBug == 0
UserEventId == clock + 1

Message == Event(UserEventId, "user", 0, MaxPosts - left.posts + 1)
Joins == status = "running"

TakeMessage ==
    /\ phase \in {"none", "turn", "over", "gone"}
    /\ Spend("posts")
    /\ clock' = clock + 1
    /\ doc' = Append(doc, Message)
    /\ IF Joins
       THEN asked' = asked + 1 /\ UNCHANGED <<task, phase, status>>
       ELSE /\ asked' = 1
            /\ task' = task + 1
            /\ phase' = "boot"
            /\ status' = IF status = "paused" THEN "paused" ELSE "queued"
    /\ UNCHANGED <<stream, unsaved, speech>>

Post(p) ==
    /\ TakeMessage
    /\ LET shown == [page[p] EXCEPT !.items = Append(@, [Item(Message) EXCEPT !.id = 0])]
       IN  page' = [page EXCEPT ![p] = Draining(shown, task')]

(* A message from a tab that is not among Pages.                            *)
PostElsewhere == TakeMessage /\ UNCHANGED page

(* A new page reads the session and replays its events.                     *)
Reload(p) ==
    /\ Spend("reloads")
    /\ page' = [page EXCEPT ![p] =
          [Replayed(doc) EXCEPT
             !.at = IF status \in {"queued", "running"} THEN "restored" ELSE "closed",
             !.task = task,
             !.slipped = /\ unsaved # NoEvent
                         /\ doc # <<>> /\ Last(doc).id > unsaved.id]]
    /\ UNCHANGED <<clock, run, stream, doc, unsaved>>

(* Then it asks for the rest: of the task, which a setup may still be       *)
(* making.  Without a task there is nothing to drain.                       *)
View(p) ==
    /\ page[p].at = "restored"
    /\ \/ /\ Registered \/ phase = "boot"
          /\ page' = [page EXCEPT ![p] = Draining(@, task)]
       \/ /\ ~Registered /\ phase # "boot"
          /\ page' = [page EXCEPT ![p].at = "closed"]
    /\ UNCHANGED <<clock, run, stream, doc, unsaved, left>>

(* The places in the stream of the events behind the page's cursor.         *)
Unread(pg) == {i \in DOMAIN stream[pg.task] : stream[pg.task][i].id > pg.cursor}

(* One turn of the drain loop: the next event is shown, and a terminal one  *)
(* ends the connection.                                                     *)
Read(p) ==
    /\ page[p].at = "drain"
    /\ \E i \in Unread(page[p]) :
          LET next == stream[page[p].task][i]
          IN  /\ \A j \in Unread(page[p]) : i <= j
              /\ page' = [page EXCEPT ![p] =
                    [Rendered(@, next) EXCEPT
                       !.at = IF next.kind = "done" THEN "closed" ELSE "drain"]]
    /\ UNCHANGED <<clock, run, stream, doc, unsaved, left>>

(* get() returned nothing and the task is done: the connection ends.  A     *)
(* read that failed is taken for an empty one.                              *)
DrainedDry(p) ==
    /\ page[p].at = "drain"
    /\ TaskDone(page[p].task)
    /\ \/ Unread(page[p]) = {} /\ UNCHANGED left
       \/ Unread(page[p]) # {} /\ Spend("troubles")
    /\ page' = [page EXCEPT ![p].at = "closed"]
    /\ UNCHANGED <<clock, run, stream, doc, unsaved>>

(* Anything else that fails in the request becomes an ErrorEvent, with the  *)
(* id it was made with, in the document and on the page.                    *)
ReadFails(p) ==
    LET e == Event(0, "error", 0, 0)
    IN  /\ page[p].at = "drain"
        /\ phase # "boot"
        /\ Spend("troubles")
        /\ doc' = Append(doc, e)
        /\ page' = [page EXCEPT ![p] = [Rendered(@, e) EXCEPT !.at = "closed"]]
        /\ UNCHANGED <<clock, run, stream, unsaved>>

(* The connection breaks; the page does not retry by itself.                *)
Drop(p) ==
    /\ page[p].at = "drain"
    /\ Spend("troubles")
    /\ page' = [page EXCEPT ![p].at = "closed"]
    /\ UNCHANGED <<clock, run, stream, doc, unsaved>>

-----------------------------------------------------------------------------
RunStep == \/ NextTurn \/ Speak \/ Say \/ Work \/ Finish \/ Save
           \/ EndTask \/ Stop \/ SayStopped \/ PostElsewhere

PageStep(p) == \/ Post(p) \/ Reload(p) \/ View(p) \/ Read(p)
               \/ DrainedDry(p) \/ ReadFails(p) \/ Drop(p)

Next == RunStep \/ \E p \in Pages : PageStep(p)

(* The event loop goes on with the run and with every open connection; a    *)
(* turn ends (EveryRunEnds of PlanActFlow).                                 *)
Fairness ==
    /\ WF_vars(NextTurn) /\ WF_vars(Finish) /\ WF_vars(Save)
    /\ WF_vars(EndTask) /\ WF_vars(SayStopped)
    /\ \A p \in Pages : WF_vars(Read(p)) /\ WF_vars(DrainedDry(p)) /\ WF_vars(View(p))

Spec == Init /\ [][Next]_vars /\ Fairness

-----------------------------------------------------------------------------
(* Properties.                                                              *)

OfRun(e) == e.kind \in {"text", "step"}

(* Every variable stays within its type, and the bounds hold.               *)
TypeOK ==
    /\ clock \in 0..(MaxPuts + MaxPosts * 2 + 2 * MaxTroubles)
    /\ task \in 0..MaxPosts
    /\ phase \in Phases
    /\ status \in Statuses
    /\ asked \in 0..MaxPosts
    /\ DOMAIN stream = Tasks
    /\ speech.state \in {"none", "open", "shut", "said"}
    /\ \A p \in Pages : /\ page[p].at \in {"closed", "restored", "drain"}
                        /\ page[p].task \in 0..MaxPosts
                        /\ page[p].cursor \in 0..clock

(* A page shows the events of runs in the order they were put, and none     *)
(* twice, however it came by them: from the document, from a stream it      *)
(* joined in the middle, or from both.  Only a page whose last event is an  *)
(* error of the request asks for everything again.                          *)
OnceAndInOrder ==
    \A p \in Pages : ~page[p].rewound =>
        LET its == page[p].items
        IN  \A i, j \in DOMAIN its :
              i < j /\ OfRun(its[i]) /\ OfRun(its[j]) => its[i].id < its[j].id

(* No event of the task a page follows is skipped: what the document keeps  *)
(* and the stream still has, up to the page's cursor, is on the page.  The  *)
(* exception is a page that was loaded between the put of an event and its  *)
(* write to the document, with a newer message of the user written first.   *)
NothingMissed ==
    \A p \in Pages : ~page[p].slipped /\ page[p].task # 0 =>
        \A i \in DOMAIN doc :
            LET e == doc[i]
            IN  /\ OfRun(e)
                /\ e.task = page[p].task
                /\ e.id <= page[p].cursor
                /\ \E k \in DOMAIN stream[e.task] : stream[e.task][k] = e
                => Shows(p, e)

Kept(item) == \/ item = Item(unsaved)
              \/ \E i \in DOMAIN doc : item = Item(doc[i])

(* What a page shows of a run is in the document, or will be with the next  *)
(* write; a STOP loses at most the event that was being written.            *)
ShownIsKept ==
    \A p \in Pages :
        LET its == page[p].items
            lost == {k \in DOMAIN its : OfRun(its[k]) /\ ~Kept(its[k])}
        IN  Cardinality({its[k].id : k \in lost}) <= MaxTroubles - left.troubles

(* A message takes the place of the bubble its tokens were written to: the  *)
(* two are only seen together when the user wrote in between.               *)
NoDoubleBubble ==
    \A p \in Pages :
        LET its == page[p].items
        IN  \A i, j \in DOMAIN its :
              /\ i < j
              /\ its[i].kind = "bubble" /\ its[j].kind = "text"
              /\ its[i].of = its[j].of
              => \E k \in i..j : its[k].kind = "user"

(* A connection does not stay open for ever: the events come to an end, and *)
(* the page gets there or learns that nothing more will come.               *)
ConnectionsEnd == \A p \in Pages : page[p].at = "drain" ~> page[p].at # "drain"
=============================================================================
