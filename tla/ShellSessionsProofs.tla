------------------------ MODULE ShellSessionsProofs ------------------------
(* Theorems about ShellSessions, for any number of commands, prints and     *)
(* faults.                                                                  *)
EXTENDS ShellSessions, FiniteSetTheorems, TLAPS

Records == [cmd : Commands, of : Commands \cup {None}, upto : 0..MaxPrints]
Pieces == [of : Commands, upto : 0..MaxPrints, whole : BOOLEAN]
Own(s) == \A i \in DOMAIN s : s[i].cmd = i /\ s[i].of \in {None, i}

-----------------------------------------------------------------------------
(* The console                                                              *)

(* Writing the output of command i into record i keeps the records apart.   *)
LEMMA WriteRecord ==
  ASSUME NEW s \in Seq(Records), Own(s), NEW i \in 1..Len(s), NEW n \in 0..MaxPrints
  PROVE  LET t == [s EXCEPT ![i].of = i, ![i].upto = n]
         IN  t \in Seq(Records) /\ Len(t) = Len(s) /\ Own(t)
<1> DEFINE r == [s[i] EXCEPT !.of = i, !.upto = n]
           t == [s EXCEPT ![i] = r]
<1>0. i \in DOMAIN s /\ s[i] \in Records
  OBVIOUS
<1>1. s[i].cmd = i /\ i \in Commands
  BY <1>0 DEF Own, Records
<1>2. r \in Records /\ r.cmd = i /\ r.of = i
  BY <1>0, <1>1 DEF Records
<1>3. t \in Seq(Records) /\ Len(t) = Len(s)
  BY <1>0, <1>2
<1>4. \A j \in DOMAIN t : t[j] = IF j = i THEN r ELSE s[j]
  BY <1>3
<1>5. Own(t)
  BY <1>2, <1>3, <1>4 DEF Own
<1>6. [s EXCEPT ![i].of = i, ![i].upto = n] = t
  OBVIOUS
<1> QED BY <1>3, <1>5, <1>6

(* A new record is the one after the newest, and shows nothing.             *)
LEMMA AddRecord ==
  ASSUME NEW s \in Seq(Records), Own(s), Len(s) < MaxExecs, MaxExecs \in Nat, MaxPrints \in Nat
  PROVE  LET t == Append(s, Record(Len(s) + 1))
         IN  t \in Seq(Records) /\ Len(t) = Len(s) + 1 /\ Own(t)
<1> DEFINE r == Record(Len(s) + 1)
           t == Append(s, r)
<1>1. r \in Records /\ r.cmd = Len(s) + 1 /\ r.of = None
  BY DEF Record, Records, Commands, None
<1>2. t \in Seq(Records) /\ Len(t) = Len(s) + 1
  BY <1>1
<1>3. \A j \in DOMAIN t : t[j] = IF j = Len(s) + 1 THEN r ELSE s[j]
  BY <1>2
<1>4. Own(t)
  BY <1>1, <1>2, <1>3 DEF Own
<1> QED BY <1>2, <1>4

-----------------------------------------------------------------------------
(* What the session, the call under way and the newest record have in       *)
(* common: a session that holds a command holds the newest one.             *)
Held ==
  /\ Executed \in 0..MaxExecs
  /\ Own(console)
  /\ session # None => session = Executed
  /\ agent.at \in {"replacing", "starting", "window"} =>
       agent.new = Executed /\ Executed # 0
  /\ agent.at \in {"replacing", "starting"} => session = None
  /\ agent.at \in {"window", "waiting", "killing"} => session # None
  /\ agent.at # "replacing" => agent.old = None
HeldInv == TypeOK /\ Held

LEMMA HeldInit == Init => HeldInv
<1> SUFFICES ASSUME Init PROVE HeldInv
  OBVIOUS
<1> USE BoundsAreNaturals DEF Init, Idle, None
<1>1. console = <<>> /\ transcript = <<>> /\ Len(console) = 0 /\ DOMAIN console = {}
  OBVIOUS
<1>2. console \in Seq(Records) /\ transcript \in Seq(Pieces)
  BY <1>1
<1>3. alive \subseteq Commands /\ out \in [Commands -> 0..MaxPrints]
  OBVIOUS
<1>4. waiter \in [Commands -> {"none", "pending", "ended", "broken"}]
  OBVIOUS
<1>5. session \in Commands \cup {None} /\ faults \in 0..MaxFaults
  OBVIOUS
<1>5b. consumed \in BOOLEAN
  BY Zenon
<1>6. agent \in [at : Calls, old : Commands \cup {None}, new : Commands \cup {None}]
  BY DEF Calls
<1>7. TypeOK
  BY <1>2, <1>3, <1>4, <1>5, <1>5b, <1>6, Zenon DEF TypeOK, Records, Pieces
<1>8. Held
  BY <1>1 DEF Held, Own, Executed
<1> QED BY <1>7, <1>8 DEF HeldInv

LEMMA AppendPiece ==
  ASSUME NEW s \in Seq(Pieces), NEW p \in Pieces, NEW t, t = Append(s, p)
  PROVE  /\ t \in Seq(Pieces)
         /\ DOMAIN t = DOMAIN s \cup {Len(s) + 1}
         /\ t[Len(s) + 1] = p
         /\ \A i \in DOMAIN s : t[i] = s[i] /\ i # Len(s) + 1
  OBVIOUS

(* What Killed may do to the processes                                      *)
LEMMA KilledType ==
  ASSUME TypeOK, NEW c \in Commands, Killed(c)
  PROVE  /\ alive' \subseteq Commands
         /\ out' = out
         /\ waiter' \in [Commands -> {"none", "pending", "ended", "broken"}]
         /\ faults' \in 0..MaxFaults
<1> USE BoundsAreNaturals
<1>1. CASE Fault /\ UNCHANGED procs
  BY <1>1 DEF TypeOK, Fault, procs
<1>2. CASE /\ alive' = alive \ {c}
           /\ waiter' = [waiter EXCEPT ![c] = IF @ = "pending" THEN "ended" ELSE @]
           /\ UNCHANGED <<out, faults>>
  BY <1>2 DEF TypeOK
<1> QED BY <1>1, <1>2 DEF Killed

(* What is written of the command the session holds                         *)
LEMMA SessionRecord ==
  ASSUME HeldInv, session # None
  PROVE  /\ session = Executed /\ Executed \in 1..Len(console) /\ session \in Commands
         /\ Own(console) /\ console \in Seq(Records)
         /\ out[session] \in 0..MaxPrints /\ Full(session) \in 0..MaxPrints
<1> USE BoundsAreNaturals
<1>1. session = Executed /\ Own(console)
  BY DEF HeldInv, Held
<1>2. console \in Seq(Records) /\ session \in Commands
  BY DEF HeldInv, TypeOK, Records
<1>3. Executed \in 1..Len(console)
  BY <1>1, <1>2 DEF Executed, Commands
<1>4. out[session] \in 0..MaxPrints
  BY <1>2 DEF HeldInv, TypeOK
<1> QED BY <1>1, <1>2, <1>3, <1>4 DEF Full

(* A step that writes of that command, and may end the call                 *)
LEMMA WritingStep ==
  ASSUME HeldInv, session # None, NEW n \in 0..MaxPrints,
         console' = [console EXCEPT ![session].of = session, ![session].upto = n],
         transcript' \in Seq(Pieces), consumed' \in BOOLEAN,
         agent' \in {agent, Idle}, UNCHANGED <<procs, session, faults>>
  PROVE  HeldInv'
<1> USE BoundsAreNaturals
<1>1. /\ console' \in Seq(Records) /\ Len(console') = Len(console) /\ Own(console')
  BY SessionRecord, WriteRecord
<1>2. agent' \in [at : Calls, old : Commands \cup {None}, new : Commands \cup {None}]
  BY DEF HeldInv, TypeOK, Idle, Calls
<1>3. alive' = alive /\ out' = out /\ waiter' = waiter /\ session' = session /\ faults' = faults
  BY DEF procs
<1>4. TypeOK'
  BY <1>1, <1>2, <1>3, Zenon DEF HeldInv, TypeOK, Records, Pieces
<1>5. Held'
  BY <1>1, <1>3 DEF HeldInv, Held, Executed, Idle
<1> QED BY <1>4, <1>5 DEF HeldInv

LEMMA HeldStep == HeldInv /\ [Next]_vars => HeldInv'
<1> SUFFICES ASSUME HeldInv, [Next]_vars PROVE HeldInv'
  OBVIOUS
<1> USE BoundsAreNaturals
<1>0. TypeOK /\ Held /\ console \in Seq(Records) /\ transcript \in Seq(Pieces)
  BY Zenon DEF HeldInv, TypeOK, Records, Pieces
<1>1. ASSUME NEW c \in Commands, Prints(c) PROVE HeldInv'
  <2>1. TypeOK'
    BY <1>0, <1>1 DEF TypeOK, Prints, shown
  <2> QED BY <1>0, <1>1, <2>1 DEF HeldInv, Held, Own, Executed, Prints, shown
<1>2. ASSUME NEW c \in Commands, Exit(c) PROVE HeldInv'
  <2>1. TypeOK'
    BY <1>0, <1>2 DEF TypeOK, Exit, shown
  <2> QED BY <1>0, <1>2, <2>1 DEF HeldInv, Held, Own, Executed, Exit, shown
<1>3. ASSUME NEW c \in Commands, Break(c) PROVE HeldInv'
  <2>1. TypeOK'
    BY <1>0, <1>3 DEF TypeOK, Break, Fault, shown
  <2> QED BY <1>0, <1>3, <2>1 DEF HeldInv, Held, Own, Executed, Break, shown
<1>4. CASE Exec
  <2>1. Len(console) < MaxExecs
    BY <1>4 DEF Exec, Executed
  <2>2. /\ console' \in Seq(Records) /\ Len(console') = Len(console) + 1
        /\ Own(console')
    BY <1>0, <1>4, <2>1, AddRecord DEF Exec, Held, Executed
  <2>3. Len(console) + 1 \in Commands
    BY <1>0, <2>1 DEF Held, Executed, Commands
  <2>4. agent' \in [at : Calls, old : Commands \cup {None}, new : Commands \cup {None}]
    BY <1>0, <1>4, <2>3 DEF Exec, TypeOK, Calls, Executed
  <2>5. TypeOK'
    BY <1>0, <1>4, <2>2, <2>4 DEF TypeOK, Exec, procs, HeldMeanwhile, Records
  <2> QED BY <1>0, <1>4, <2>2, <2>3, <2>5 DEF HeldInv, Held, Executed, Exec, HeldMeanwhile, Commands
<1>5. CASE KillOld
  <2>1. TypeOK'
    BY <1>0, <1>5, KilledType DEF TypeOK, KillOld, Replaced, procs, shown, None, Calls
  <2> QED BY <1>0, <1>5, <2>1 DEF HeldInv, Held, Own, Executed, KillOld, shown, TypeOK
<1>6. CASE Start
  <2>1. agent.new \in Commands /\ agent.new = Executed
    BY <1>0, <1>6 DEF Held, Start, Commands
  <2>2. TypeOK'
    BY <1>0, <1>6, <2>1 DEF TypeOK, Start, shown, Calls
  <2> QED BY <1>0, <1>6, <2>1, <2>2 DEF HeldInv, Held, Own, Executed, Start, shown, TypeOK, None, Commands
<1>7. CASE StartFails
  <2>1. TypeOK'
    BY <1>0, <1>7 DEF TypeOK, Held, StartFails, Fault, shown, Idle, Calls, Commands
  <2> QED BY <1>0, <1>7, <2>1 DEF HeldInv, Held, Own, Executed, StartFails, shown, Idle
<1>8. CASE EndsInWindow
  <2>1. agent.at = "window" /\ session = agent.new /\ session # None
    BY <1>0, <1>8 DEF Held, EndsInWindow
  <2>2. transcript' \in Seq(Pieces)
    <3>1. Piece(session, Full(session), TRUE) \in Pieces
      BY <2>1, SessionRecord DEF Piece, Pieces
    <3> QED BY <1>0, <1>8, <2>1, <3>1, AppendPiece DEF EndsInWindow, Complete
  <2> QED BY <1>8, <2>1, <2>2, SessionRecord, WritingStep DEF EndsInWindow, Complete
<1>9. CASE WindowCloses
  <2>1. agent.at = "window" /\ session = agent.new /\ session # None
    BY <1>0, <1>9 DEF Held, WindowCloses
  <2>2. transcript' \in Seq(Pieces)
    <3>1. Piece(session, out[session], FALSE) \in Pieces
      BY <2>1, SessionRecord DEF Piece, Pieces
    <3> QED BY <1>0, <1>9, <2>1, <3>1, AppendPiece DEF WindowCloses
  <2>3. consumed' \in BOOLEAN
    BY <1>0, <1>9, Zenon DEF WindowCloses, TypeOK
  <2> QED BY <1>9, <2>1, <2>2, <2>3, SessionRecord, WritingStep DEF WindowCloses
<1>10. CASE Wait
  <2>1. CASE Done(session)
    <3>1. transcript' \in Seq(Pieces)
      <4>1. Piece(session, Full(session), TRUE) \in Pieces
        BY <1>10, SessionRecord DEF Wait, Piece, Pieces
      <4> QED BY <1>0, <1>10, <2>1, <4>1, AppendPiece DEF Wait, Complete
    <3> QED BY <1>10, <2>1, <3>1, SessionRecord, WritingStep DEF Wait, Complete
  <2>2. CASE ~Done(session)
    <3>1. agent' \in [at : Calls, old : Commands \cup {None}, new : Commands \cup {None}]
      BY <1>0, <1>10, <2>2 DEF Wait, Idle, Calls
    <3>2. TypeOK'
      BY <1>0, <1>10, <2>2, <3>1, Zenon DEF Wait, TypeOK, procs, shown
    <3> QED BY <1>0, <1>10, <2>2, <3>2 DEF HeldInv, Held, Own, Executed, Wait, Idle, shown
  <2> QED BY <2>1, <2>2
<1>11. CASE EndsInWait
  <2>1. session # None
    BY <1>0, <1>11 DEF Held, EndsInWait
  <2>2. transcript' \in Seq(Pieces)
    <3>1. Piece(session, Full(session), TRUE) \in Pieces
      BY <2>1, SessionRecord DEF Piece, Pieces
    <3> QED BY <1>0, <1>11, <3>1, AppendPiece DEF EndsInWait, Complete
  <2> QED BY <1>11, <2>1, <2>2, SessionRecord, WritingStep DEF EndsInWait, Complete
<1>12. CASE WaitTimesOut
  <2>1. session # None
    BY <1>0, <1>12 DEF Held, WaitTimesOut
  <2>2. consumed' \in BOOLEAN
    BY <1>0, <1>12, Zenon DEF WaitTimesOut, TypeOK
  <2>3. CASE out[session] = 0
    <3>1. TypeOK'
      BY <1>0, <1>12, <2>3 DEF TypeOK, WaitTimesOut, Idle, Calls, procs
    <3> QED BY <1>0, <1>12, <2>3, <3>1 DEF HeldInv, Held, Own, Executed, WaitTimesOut, Idle
  <2>4. CASE out[session] # 0
    BY <1>0, <1>12, <2>1, <2>2, <2>4, SessionRecord, WritingStep DEF WaitTimesOut
  <2> QED BY <2>3, <2>4
<1>13. CASE Kill
  <2>1. TypeOK'
    BY <1>0, <1>13 DEF TypeOK, Kill, Idle, Calls, procs, shown
  <2> QED BY <1>0, <1>13, <2>1 DEF HeldInv, Held, Own, Executed, Kill, Idle, shown
<1>14. CASE KillReturns
  <2>1. session \in Commands /\ Killed(session)
    BY <1>0, <1>14 DEF Held, TypeOK, KillReturns
  <2>2. TypeOK'
    BY <1>0, <1>14, <2>1, KilledType DEF TypeOK, KillReturns, Idle, Calls, shown
  <2> QED BY <1>0, <1>14, <2>2 DEF HeldInv, Held, Own, Executed, KillReturns, Idle, shown
<1>15. CASE Cancel
  <2>1. alive' \subseteq Commands
    BY <1>0, <1>15 DEF TypeOK, Held, Cancel, Commands
  <2>2. waiter' \in [Commands -> {"none", "pending", "ended", "broken"}]
    BY <1>0, <1>15 DEF TypeOK, Cancel
  <2>3. TypeOK'
    BY <1>0, <1>15, <2>1, <2>2 DEF TypeOK, Cancel, Fault, Idle, Calls, shown
  <2> QED BY <1>0, <1>15, <2>3 DEF HeldInv, Held, Own, Executed, Cancel, Idle, shown
<1>16. CASE View
  <2>1. session # None /\ console' = [console EXCEPT ![session].of = session,
                                                     ![session].upto = out[session]]
    BY <1>16, SessionRecord DEF View
  <2>2. consumed' \in BOOLEAN
    BY <1>0, <1>16, Zenon DEF View, TypeOK
  <2> QED BY <1>0, <1>16, <2>1, <2>2, SessionRecord, WritingStep DEF View
<1>17. CASE UNCHANGED vars
  BY <1>17 DEF HeldInv, TypeOK, Held, Own, Executed, vars, procs, shown
<1> QED BY <1>1, <1>2, <1>3, <1>4, <1>5, <1>6, <1>7, <1>8, <1>9, <1>10, <1>11, <1>12,
           <1>13, <1>14, <1>15, <1>16, <1>17 DEF Next

LEMMA HeldAlways == Spec => []HeldInv
  BY HeldInit, HeldStep, PTL DEF Spec

(* Whoever looks while commands take each other's place, every record shows *)
(* the output of its own command or none.                                   *)
THEOREM RecordsStayApart == Spec => []RecordsAreTheirOwn
<1>1. HeldInv => RecordsAreTheirOwn
  BY DEF HeldInv, Held, Own, RecordsAreTheirOwn
<1> QED BY <1>1, HeldAlways, PTL

-----------------------------------------------------------------------------
(* The end of a command is written down once: whole output in the transcript *)
(* is that of an older command, or the session's own, which then counts as   *)
(* consumed; the window and the wait only know a command that is not.        *)
Whole(c) == \E i \in DOMAIN transcript : transcript[i].whole /\ transcript[i].of = c
Consumption ==
  /\ \A i \in DOMAIN transcript : transcript[i].of \in DOMAIN console
  /\ session # None /\ Whole(session) => consumed
  /\ agent.at \in {"replacing", "starting"} => ~Whole(agent.new)
  /\ agent.at \in {"window", "waiting"} => ~consumed
  /\ session # None /\ consumed => Done(session)
OnceInv == Consumption /\ CompletedOnce

(* The first whole output of a command joins the transcript                 *)
LEMMA AddWhole ==
  ASSUME transcript \in Seq(Pieces), CompletedOnce,
         NEW c \in Commands, NEW n \in 0..MaxPrints, ~Whole(c),
         transcript' = Append(transcript, Piece(c, n, TRUE))
  PROVE  /\ CompletedOnce'
         /\ \A d : Whole(d)' => Whole(d) \/ d = c
         /\ \A i \in DOMAIN transcript' :
              transcript'[i].of = c \/ \E j \in DOMAIN transcript : transcript'[i] = transcript[j]
<1>1. Piece(c, n, TRUE) \in Pieces /\ Piece(c, n, TRUE).of = c
  BY DEF Piece, Pieces
<1>2. /\ DOMAIN transcript' = DOMAIN transcript \cup {Len(transcript) + 1}
      /\ transcript'[Len(transcript) + 1] = Piece(c, n, TRUE)
      /\ \A i \in DOMAIN transcript : transcript'[i] = transcript[i] /\ i # Len(transcript) + 1
  <2> DEFINE p == Piece(c, n, TRUE)
  <2>1. p \in Pieces /\ transcript \in Seq(Pieces) /\ transcript' = Append(transcript, p)
    BY <1>1
  <2> HIDE DEF p
  <2>2. /\ DOMAIN transcript' = DOMAIN transcript \cup {Len(transcript) + 1}
        /\ transcript'[Len(transcript) + 1] = p
        /\ \A i \in DOMAIN transcript : transcript'[i] = transcript[i] /\ i # Len(transcript) + 1
    BY ONLY <2>1, AppendPiece
  <2> QED BY <2>2 DEF p
<1>3. CompletedOnce'
  <2> SUFFICES ASSUME NEW i \in DOMAIN transcript', NEW j \in DOMAIN transcript',
                      transcript'[i].whole, transcript'[j].whole,
                      transcript'[i].of = transcript'[j].of
               PROVE  i = j
    BY DEF CompletedOnce
  <2>1. CASE i = Len(transcript) + 1
    BY <1>1, <1>2, <2>1 DEF Whole
  <2>2. CASE j = Len(transcript) + 1
    BY <1>1, <1>2, <2>2 DEF Whole
  <2>3. CASE i \in DOMAIN transcript /\ j \in DOMAIN transcript
    BY <1>2, <2>3 DEF CompletedOnce
  <2> QED BY <1>2, <2>1, <2>2, <2>3
<1>4. \A d : Whole(d)' => Whole(d) \/ d = c
  BY <1>1, <1>2 DEF Whole
<1>5. \A i \in DOMAIN transcript' :
        transcript'[i].of = c \/ \E j \in DOMAIN transcript : transcript'[i] = transcript[j]
  BY <1>1, <1>2
<1> QED BY <1>3, <1>4, <1>5

(* A step that does not write a whole output, starts no command and makes   *)
(* none consumed                                                            *)
LEMMA NotWriting ==
  ASSUME HeldInv, OnceInv, UNCHANGED <<transcript, consumed>>,
         DOMAIN console' = DOMAIN console, session' \in {session, None},
         agent' = Idle \/ (agent'.at = agent.at /\ agent'.new = agent.new),
         \A c \in Commands : Done(c) => Done(c)'
  PROVE  OnceInv'
<1>1. \A c : Whole(c)' <=> Whole(c)
  BY DEF Whole
<1>2. Consumption'
  BY <1>1 DEF OnceInv, Consumption, HeldInv, TypeOK, Idle, None
<1>3. CompletedOnce'
  BY DEF OnceInv, CompletedOnce
<1> QED BY <1>2, <1>3 DEF OnceInv

LEMMA OnceInit == Init => OnceInv
  BY DEF Init, OnceInv, Consumption, CompletedOnce, Whole, Idle, None

LEMMA KilledDone ==
  ASSUME NEW k, Killed(k), TypeOK, NEW c \in Commands, Done(c)
  PROVE  Done(c)'
  BY DEF Killed, Done, TypeOK, procs

(* The session's command ends, is written down and thereby consumed         *)
LEMMA ConsumingStep ==
  ASSUME HeldInv, OnceInv, session # None, ~consumed, Done(session), consumed' = TRUE,
         Complete(session, session, TRUE), agent'.at = "idle", UNCHANGED <<procs, session>>
  PROVE  OnceInv'
<1>1. ~Whole(session) /\ session \in DOMAIN console
  BY SessionRecord DEF OnceInv, Consumption
<1>2. /\ transcript \in Seq(Pieces)
      /\ transcript' = Append(transcript, Piece(session, Full(session), TRUE))
      /\ DOMAIN console' = DOMAIN console
  BY Zenon DEF HeldInv, TypeOK, Pieces, Complete
<1>3. CompletedOnce
  BY DEF OnceInv
<1>4. /\ CompletedOnce'
      /\ \A i \in DOMAIN transcript' : transcript'[i].of = session
           \/ \E j \in DOMAIN transcript : transcript'[i] = transcript[j]
  BY <1>1, <1>2, <1>3, AddWhole, SessionRecord
<1>5. Done(session)' /\ session' = session
  BY DEF Done, procs
<1>6. Consumption'
  BY <1>1, <1>2, <1>4, <1>5 DEF OnceInv, Consumption
<1> QED BY <1>4, <1>6 DEF OnceInv

LEMMA OnceStep == HeldInv /\ OnceInv /\ [Next]_vars => OnceInv'
<1> SUFFICES ASSUME HeldInv, OnceInv, [Next]_vars PROVE OnceInv'
  OBVIOUS
<1> USE BoundsAreNaturals
<1>0. TypeOK /\ Held /\ console \in Seq(Records) /\ transcript \in Seq(Pieces)
  BY Zenon DEF HeldInv, TypeOK, Records, Pieces
<1>1. ASSUME NEW c \in Commands, Prints(c) PROVE OnceInv'
  BY <1>0, <1>1, NotWriting DEF Prints, shown, Done
<1>2. ASSUME NEW c \in Commands, Exit(c) PROVE OnceInv'
  <2>1. \A d \in Commands : Done(d) => Done(d)'
    BY <1>0, <1>2 DEF Exit, Done, TypeOK
  <2> QED BY <1>2, <2>1, NotWriting DEF Exit, shown
<1>3. ASSUME NEW c \in Commands, Break(c) PROVE OnceInv'
  <2>1. \A d \in Commands : Done(d) => Done(d)'
    BY <1>0, <1>3 DEF Break, Done, TypeOK
  <2> QED BY <1>3, <2>1, NotWriting DEF Break, shown
<1>4. CASE Exec
  <2>1. /\ DOMAIN console' = DOMAIN console \cup {Executed + 1}
        /\ Executed + 1 \notin DOMAIN console
    BY <1>0, <1>4 DEF Exec, Executed
  <2>2. ~Whole(Executed + 1)
    BY <2>1 DEF OnceInv, Consumption, Whole
  <2>3. Consumption'
    BY <1>4, <2>1, <2>2 DEF OnceInv, Consumption, Whole, Exec, HeldMeanwhile
  <2> QED BY <1>4, <2>3 DEF OnceInv, CompletedOnce, Exec
<1>5. CASE KillOld
  <2>1. \A d \in Commands : Done(d) => Done(d)'
    BY <1>0, <1>5, KilledDone DEF KillOld, Replaced, Done, procs
  <2>2. Consumption'
    BY <1>0, <1>5, <2>1 DEF OnceInv, Consumption, Whole, KillOld, shown, TypeOK, None
  <2> QED BY <1>5, <2>2 DEF OnceInv, CompletedOnce, KillOld, shown
<1>6. CASE Start
  <2>1. ~Whole(agent.new)
    BY <1>6 DEF OnceInv, Consumption, Start
  <2>2. Consumption'
    BY <1>0, <1>6, <2>1 DEF OnceInv, Consumption, Whole, Start, shown, TypeOK
  <2> QED BY <1>6, <2>2 DEF OnceInv, CompletedOnce, Start, shown
<1>7. CASE StartFails
  BY <1>7, NotWriting DEF StartFails, shown, Done
<1>8. CASE EndsInWindow
  BY <1>0, <1>8, ConsumingStep DEF EndsInWindow, Idle, Held, OnceInv, Consumption
<1>9. CASE WindowCloses
  <2>1. agent.at = "window" /\ session = agent.new /\ session # None /\ ~consumed
    BY <1>0, <1>9 DEF Held, WindowCloses, OnceInv, Consumption
  <2>2. session \in DOMAIN console /\ DOMAIN console' = DOMAIN console
    BY <1>9, <2>1, SessionRecord DEF WindowCloses
  <2> DEFINE p == Piece(session, out[session], FALSE)
  <2>3. transcript' = Append(transcript, p) /\ p \in Pieces /\ p.of = session /\ p.whole = FALSE
    BY <1>9, <2>1, SessionRecord DEF WindowCloses, Piece, Pieces
  <2>4. /\ DOMAIN transcript' = DOMAIN transcript \cup {Len(transcript) + 1}
        /\ transcript'[Len(transcript) + 1] = p
        /\ \A i \in DOMAIN transcript : transcript'[i] = transcript[i]
    <3> HIDE DEF p
    <3>1. p \in Pieces /\ transcript \in Seq(Pieces) /\ transcript' = Append(transcript, p)
      BY <1>0, <2>3
    <3> QED BY ONLY <3>1, AppendPiece
  <2>5. \A i \in DOMAIN transcript' : transcript'[i].whole =>
          i \in DOMAIN transcript /\ transcript'[i] = transcript[i]
    BY <2>3, <2>4
  <2>6. \A c : Whole(c)' => Whole(c)
    BY <2>5 DEF Whole
  <2>7. CompletedOnce'
    BY <2>5 DEF OnceInv, CompletedOnce
  <2>8. Consumption'
    BY <1>9, <2>1, <2>2, <2>3, <2>4, <2>6 DEF OnceInv, Consumption, WindowCloses, Idle
  <2> QED BY <2>7, <2>8 DEF OnceInv
<1>10. CASE Wait
  <2>1. CASE Done(session) /\ consumed
    <3>1. transcript' = transcript /\ DOMAIN console' = DOMAIN console /\ consumed' = consumed
      BY <1>0, <1>10, <2>1 DEF Wait, Complete, Accumulates, TypeOK
    <3>2. agent' = agent /\ session' = session /\ \A c \in Commands : Done(c) => Done(c)'
      BY <1>10, <2>1 DEF Wait, Done, procs
    <3> QED BY <3>1, <3>2, NotWriting
  <2>2. CASE Done(session) /\ ~consumed
    <3>1. agent.at = "idle" /\ session # None /\ session = Executed
      BY <1>0, <1>10 DEF Wait, Held
    <3>3. Accumulates(consumed) = TRUE
      BY <1>0, <2>2 DEF Accumulates, TypeOK
    <3>4. /\ Complete(session, session, TRUE)
          /\ consumed' = TRUE
          /\ UNCHANGED <<agent, procs, session>>
      BY <1>10, <2>2, <3>1, <3>3 DEF Wait
    <3> QED BY <2>2, <3>1, <3>4, ConsumingStep
  <2>3. CASE ~Done(session)
    <3>1. Consumption'
      BY <1>10, <2>3 DEF Wait, OnceInv, Consumption, Whole, Idle, procs, shown, Done
    <3> QED BY <1>10, <2>3, <3>1 DEF OnceInv, CompletedOnce, Wait, shown
  <2> QED BY <2>1, <2>2, <2>3
<1>11. CASE EndsInWait
  BY <1>0, <1>11, SessionRecord, ConsumingStep DEF EndsInWait, Idle, Held, OnceInv, Consumption
<1>12. CASE WaitTimesOut
  <2>1. DOMAIN console' = DOMAIN console
    BY <1>12 DEF WaitTimesOut
  <2> QED BY <1>12, <2>1, NotWriting DEF WaitTimesOut, Done, procs
<1>13. CASE Kill
  <2>1. Consumption'
    BY <1>13 DEF Kill, OnceInv, Consumption, Whole, Idle, procs, shown, Done
  <2> QED BY <1>13, <2>1 DEF OnceInv, CompletedOnce, Kill, shown
<1>14. CASE KillReturns
  <2>1. \A d \in Commands : Done(d) => Done(d)'
    BY <1>0, <1>14, KilledDone DEF KillReturns
  <2> QED BY <1>14, <2>1, NotWriting DEF KillReturns, shown
<1>15. CASE Cancel
  <2>1. \A d \in Commands : Done(d) => Done(d)'
    BY <1>15 DEF Cancel, Done
  <2> QED BY <1>15, <2>1, NotWriting DEF Cancel, shown
<1>16. CASE View
  <2>1. DOMAIN console' = DOMAIN console
    BY <1>16 DEF View
  <2> QED BY <1>16, <2>1, NotWriting DEF View, Done, procs
<1>17. CASE UNCHANGED vars
  BY <1>17, NotWriting DEF vars, procs, shown, Done
<1> QED BY <1>1, <1>2, <1>3, <1>4, <1>5, <1>6, <1>7, <1>8, <1>9, <1>10, <1>11, <1>12,
           <1>13, <1>14, <1>15, <1>16, <1>17 DEF Next

(* The window, a wait that finds a command ended and one that sees it end   *)
(* never write down the same end twice.                                     *)
THEOREM EndsOnce == Spec => []CompletedOnce
<1>1. OnceInv => CompletedOnce
  BY DEF OnceInv
<1> QED BY <1>1, HeldAlways, OnceInit, OnceStep, PTL DEF Spec

-----------------------------------------------------------------------------
(* A process is left behind only by a fault, and a fault leaves one.        *)
LEMMA NoneIsNoCommand == None \notin Commands
  BY BoundsAreNaturals DEF None, Commands

LEMMA StraysAreFinite ==
  ASSUME TypeOK
  PROVE  IsFiniteSet(Strays) /\ Cardinality(Strays) \in Nat
<1>1. IsFiniteSet(Commands)
  BY FS_Interval, BoundsAreNaturals DEF Commands
<1>2. Strays \in SUBSET Commands
  BY DEF TypeOK, Strays
<1>3. IsFiniteSet(Strays)
  BY <1>1, <1>2, FS_Subset
<1> QED BY <1>3, FS_CardinalityType

(* A step without a fault leaves no process behind                          *)
LEMMA NoneLeft ==
  ASSUME HeldInv, NoStrays, Strays' \subseteq Strays, faults' = faults
  PROVE  NoStrays'
<1>1. IsFiniteSet(Strays) /\ Cardinality(Strays) \in Nat
  BY StraysAreFinite DEF HeldInv
<1>2. IsFiniteSet(Strays') /\ Cardinality(Strays') <= Cardinality(Strays)
  BY <1>1, FS_Subset
<1>3. Cardinality(Strays') \in Nat
  BY <1>2, FS_CardinalityType
<1> QED BY <1>1, <1>2, <1>3, BoundsAreNaturals DEF NoStrays, HeldInv, TypeOK

(* A fault leaves at most one                                               *)
LEMMA OneLeft ==
  ASSUME HeldInv, NoStrays, Fault, NEW c, Strays' \subseteq Strays \cup {c}
  PROVE  NoStrays'
<1>1. IsFiniteSet(Strays) /\ Cardinality(Strays) \in Nat
  BY StraysAreFinite DEF HeldInv
<1>2. /\ IsFiniteSet(Strays \cup {c})
      /\ Cardinality(Strays \cup {c}) \in {Cardinality(Strays), Cardinality(Strays) + 1}
  BY <1>1, FS_AddElement
<1>3. IsFiniteSet(Strays') /\ Cardinality(Strays') <= Cardinality(Strays \cup {c})
  BY <1>2, FS_Subset
<1>4. Cardinality(Strays') \in Nat
  BY <1>3, FS_CardinalityType
<1> QED BY <1>1, <1>2, <1>3, <1>4, BoundsAreNaturals DEF NoStrays, HeldInv, TypeOK, Fault

LEMMA NoStraysInit == Init => NoStrays
<1> SUFFICES ASSUME Init PROVE NoStrays
  OBVIOUS
<1>1. Strays = {}
  BY DEF Init, Strays
<1> QED BY <1>1, FS_EmptySet, BoundsAreNaturals DEF Init, NoStrays

LEMMA NoStraysStep == HeldInv /\ NoStrays /\ [Next]_vars => NoStrays'
<1> SUFFICES ASSUME HeldInv, NoStrays, [Next]_vars PROVE NoStrays'
  OBVIOUS
<1>0. TypeOK /\ Held
  BY DEF HeldInv
<1>1. ASSUME NEW c \in Commands, Prints(c) PROVE NoStrays'
  BY <1>1, NoneLeft DEF Prints, Strays
<1>2. ASSUME NEW c \in Commands, Exit(c) PROVE NoStrays'
  BY <1>2, NoneLeft DEF Exit, Strays
<1>3. ASSUME NEW c \in Commands, Break(c) PROVE NoStrays'
  BY <1>3, OneLeft DEF Break, Strays
<1>4. CASE Exec
  <2>1. agent.old = None /\ session' = None /\ agent'.old = session /\ UNCHANGED <<alive, faults>>
    BY <1>0, <1>4 DEF Exec, HeldMeanwhile, Held, procs
  <2> QED BY <2>1, NoneLeft DEF Strays
<1>5. CASE KillOld
  <2>1. session = None /\ session' = session /\ agent'.old = None
    BY <1>0, <1>5 DEF KillOld, Held, TypeOK
  <2>2. CASE UNCHANGED <<alive, faults>> /\ agent.old = None
    BY <2>1, <2>2, NoneLeft DEF Strays
  <2>3. CASE alive' = alive \ {agent.old} /\ faults' = faults
    BY <2>1, <2>3, NoneLeft DEF Strays
  <2>4. CASE Fault /\ alive' = alive
    BY <2>1, <2>4, OneLeft DEF Strays
  <2> QED BY <1>5, <2>2, <2>3, <2>4 DEF KillOld, Replaced, Killed, procs
<1>6. CASE Start
  <2>1. /\ agent.old = None /\ agent'.old = None
        /\ session' = agent.new /\ alive' = alive \cup {agent.new} /\ faults' = faults
        /\ session = None
    BY <1>0, <1>6 DEF Start, Held, TypeOK
  <2> QED BY <1>0, <2>1, NoneIsNoCommand, NoneLeft DEF Strays, TypeOK
<1>7. CASE StartFails
  <2>1. Fault /\ agent.old = None /\ agent'.old = None /\ session' = session
    BY <1>0, <1>7 DEF StartFails, Held, Idle
  <2> QED BY <1>7, <2>1, OneLeft DEF StartFails, Strays
<1>8. CASE EndsInWindow
  BY <1>0, <1>8, NoneLeft DEF EndsInWindow, Held, Idle, Strays, procs
<1>9. CASE WindowCloses
  BY <1>0, <1>9, NoneLeft DEF WindowCloses, Held, Idle, Strays, procs
<1>10. CASE Wait
  <2>1. agent.old = None /\ agent'.old = None
    BY <1>0, <1>10 DEF Wait, Held, Idle
  <2> QED BY <1>10, <2>1, NoneLeft DEF Wait, Strays, procs
<1>11. CASE EndsInWait
  BY <1>0, <1>11, NoneLeft DEF EndsInWait, Held, Idle, Strays, procs
<1>12. CASE WaitTimesOut
  BY <1>0, <1>12, NoneLeft DEF WaitTimesOut, Held, Idle, Strays, procs
<1>13. CASE Kill
  BY <1>0, <1>13, NoneLeft DEF Kill, Held, Idle, Strays, procs
<1>14. CASE KillReturns
  <2>1. session' = None /\ agent.old = None /\ agent'.old = None
    BY <1>0, <1>14 DEF KillReturns, Held, Idle
  <2>2. CASE alive' = alive \ {session} /\ faults' = faults
    BY <2>1, <2>2, NoneLeft DEF Strays
  <2>3. CASE Fault /\ alive' = alive
    BY <2>1, <2>3, OneLeft DEF Strays
  <2> QED BY <1>14, <2>2, <2>3 DEF KillReturns, Killed, procs
<1>15. CASE Cancel
  <2>1. Fault /\ session' = session /\ agent'.old = None
    BY <1>15 DEF Cancel, Idle
  <2>2. CASE agent.at = "replacing"
    <3>1. alive' \in {alive, alive \ {agent.old}} /\ session = None
      BY <1>0, <1>15, <2>2 DEF Cancel, Held
    <3> QED BY <2>1, <3>1, OneLeft DEF Strays
  <2>3. CASE agent.at = "starting"
    <3>1. alive' \in {alive, alive \cup {agent.new}} /\ agent.old = None
      BY <1>0, <1>15, <2>3 DEF Cancel, Held
    <3> QED BY <2>1, <3>1, OneLeft DEF Strays
  <2>4. CASE agent.at \notin {"replacing", "starting"}
    <3>1. alive' \subseteq alive /\ agent.old = None
      BY <1>0, <1>15, <2>4 DEF Cancel, Held
    <3> QED BY <2>1, <3>1, OneLeft DEF Strays
  <2> QED BY <2>2, <2>3, <2>4
<1>16. CASE View
  BY <1>16, NoneLeft DEF View, Strays, procs
<1>17. CASE UNCHANGED vars
  BY <1>17, NoneLeft DEF vars, Strays, procs
<1> QED BY <1>1, <1>2, <1>3, <1>4, <1>5, <1>6, <1>7, <1>8, <1>9, <1>10, <1>11, <1>12,
           <1>13, <1>14, <1>15, <1>16, <1>17 DEF Next

(* Processes that run in the VM with nobody able to stop them are never more *)
(* than there were cancelled or failing calls.                               *)
THEOREM NothingStrays == Spec => []NoStrays
  BY HeldAlways, NoStraysInit, NoStraysStep, PTL DEF Spec
=============================================================================
