-------------------------- MODULE ApexJournalProofs --------------------------
(***************************************************************************)
(* Proofs about the live daemon's journal and breaker (ApexJournal).       *)
(***************************************************************************)
EXTENDS ApexJournal, SequenceTheorems, TLAPS

USE DEF disk, world, tail, locals, books, memory

-----------------------------------------------------------------------------
(* What a write makes of the file.                                         *)

LEMMA Bounds == MaxLines \in Nat /\ MaxFailures \in Nat
BY JournalAssumption

LEMMA EventTypes ==
  /\ Note \in Events /\ Epoch \in Events /\ TornText \in Events /\ "RESET" \in Events
  /\ BreakerStates \subseteq Events /\ Entry \subseteq Events /\ Order \subseteq Events
BY DEF Events

LEMMA LineTyped ==
  ASSUME FileOK, Room, NEW e \in Events
  PROVE  Line(e) \in LineType /\ Torn \in LineType
BY EventTypes, Bounds DEF FileOK, Room, Line, Torn, LineType

\* The last line, lost in the one written behind it.
Joined == [file EXCEPT ![Len(file)] = Torn]

LEMMA JoinedTyped ==
  ASSUME FileOK, file # <<>>
  PROVE  Joined \in Seq(LineType) /\ Len(Joined) = Len(file)
<1>1. Torn \in LineType
  BY EventTypes, Bounds DEF Torn, LineType
<1>2. Len(file) \in 1 .. Len(file)
  BY EmptySeq DEF FileOK
<1>3. QED
  BY <1>1, <1>2, ExceptSeq DEF Joined, FileOK

\* A line is added at the end, or nothing is, or the last line is lost.
LEMMA WrittenTyped ==
  ASSUME FileOK, Room, NEW l \in LineType
  PROVE  /\ Written(l) \in Seq(LineType) /\ Len(Written(l)) <= MaxLines
         /\ Written(l) \in {file, Append(file, l), Joined}
<1>1. \/ Written(l) \in {file, Append(file, l)}
      \/ file # <<>> /\ Written(l) = Joined
  BY DEF Written, Joined, FileOK
<1>2. /\ file \in Seq(LineType) /\ Len(file) \in Nat /\ Len(file) + 1 <= MaxLines /\ MaxLines \in Nat
  BY Bounds DEF FileOK, Room
<1>3. CASE Written(l) = file
  BY <1>2, <1>3
<1>4. CASE Written(l) = Append(file, l)
  <2>1. Append(file, l) \in Seq(LineType) /\ Len(Append(file, l)) = Len(file) + 1
    BY <1>2
  <2>2. QED  BY <1>2, <1>4, <2>1
<1>5. CASE file # <<>> /\ Written(l) = Joined
  BY <1>2, <1>5, JoinedTyped
<1>6. QED
  BY <1>1, <1>3, <1>4, <1>5

LEMMA LogTyped ==
  ASSUME FileOK, NEW e \in Events, Log(e) \/ LogFails(e)
  PROVE  FileOK'
<1>1. Room /\ lastId + 1 \in 0 .. MaxLines
  BY Bounds DEF Log, LogFails, Room, FileOK
<1>2. Written(Line(e)) \in Seq(LineType) /\ Len(Written(Line(e))) <= MaxLines
  BY <1>1, LineTyped, WrittenTyped
<1>3. Written(Torn) \in Seq(LineType) /\ Len(Written(Torn)) <= MaxLines
  BY <1>1, LineTyped, WrittenTyped
<1>a. Append(file, Line(e)) \in Seq(LineType) /\ Len(Append(file, Line(e))) <= MaxLines
  BY <1>1, LineTyped, Bounds DEF FileOK, Room
<1>4. file' \in Seq(LineType) /\ Len(file') <= MaxLines
  BY <1>2, <1>3, <1>a DEF FileOK, Log, LogFails
<1>b. open' => file' # <<>>
  <2>1. Append(file, Line(e)) # <<>>
    BY <1>1, LineTyped, EmptySeq DEF FileOK
  <2>2. QED
    BY <2>1 DEF FileOK, Log, LogFails
<1>5. QED
  BY <1>1, <1>4, <1>b, Bounds DEF FileOK, Log, LogFails

\* Lines whose numbers have not been bounded yet.
AnyLine == [id : Nat, prev : Nat, ev : Events]

LEMMA LineIsAnyLine == LineType \subseteq AnyLine
BY Bounds DEF LineType, AnyLine

LEMMA BreakerOfTyped == ASSUME NEW f PROVE BreakerOf(f) \in BreakerStates
BY DEF BreakerOf, BreakerStates

LEMMA RenumberedTyped ==
  ASSUME NEW f \in Seq(AnyLine), Len(f) <= MaxLines
  PROVE  /\ Renumbered(f) \in Seq(LineType) /\ Len(Renumbered(f)) = Len(f)
         /\ DOMAIN Renumbered(f) = DOMAIN f
         /\ Valid(Renumbered(f))
<1> DEFINE n == Len(f)
<1>1. n \in Nat /\ DOMAIN f = 1 .. n
  OBVIOUS
<1>2. ASSUME NEW i \in 1 .. n PROVE [id |-> i, prev |-> i - 1, ev |-> f[i].ev] \in LineType
  <2>1. i \in 0 .. MaxLines /\ i - 1 \in 0 .. MaxLines
    BY <1>1, Bounds
  <2>2. f[i] \in AnyLine
    BY ElementOfSeq
  <2>3. f[i].ev \in Events
    BY <2>2 DEF AnyLine
  <2>4. QED
    BY <2>1, <2>3 DEF LineType
<1>3. Renumbered(f) \in [1 .. n -> LineType]
  BY <1>1, <1>2 DEF Renumbered
<1>4. QED
  BY <1>1, <1>3 DEF Renumbered, Valid

-----------------------------------------------------------------------------
(* Types: the file and its numbers, the flags, the rest.                   *)

\* Every line the daemon writes is written by append_event.
Logged == Events \ {"RESET", TornText}
Logs == \E e \in Logged : Log(e) \/ LogFails(e)

LEMMA LoggedEvents ==
  Note \in Logged /\ Epoch \in Logged /\ Entry \cup Order \cup BreakerStates \subseteq Logged
BY JournalAssumption, EventTypes DEF Logged, BreakerStates, Note, Epoch, TornText

Logging ==
  \/ WriteEpoch \/ HaltLogged
  \/ JournalRow("fillrows", "audit", "funding") \/ AuditFill
  \/ JournalRow("fundingrows", "fundingrows", "replay")
  \/ JudgeFine \/ JudgeDrift \/ RecordHighWater
  \/ FreezeTarget \/ (\E o \in Order : Intend(o)) \/ Confirm \/ CompleteBar

LEMMA LoggingLogs == StateOK /\ Logging => Logs \/ UNCHANGED <<disk, tail>>
<1> SUFFICES ASSUME StateOK, Logging PROVE Logs \/ UNCHANGED <<disk, tail>>
  OBVIOUS
<1> USE LoggedEvents DEF Logs
<1>1. CASE WriteEpoch
  BY <1>1 DEF WriteEpoch
<1>2. CASE HaltLogged
  BY <1>2 DEF HaltLogged, BreakerStates
<1>3. CASE JournalRow("fillrows", "audit", "funding") \/ JournalRow("fundingrows", "fundingrows", "replay")
  BY <1>3 DEF JournalRow, Unseen, StateOK
<1>4. CASE JudgeFine \/ JudgeDrift
  BY <1>4 DEF JudgeFine, JudgeDrift, Announce, BreakerStates
<1>5. CASE RecordHighWater
  BY <1>5 DEF RecordHighWater
<1>6. CASE AuditFill \/ FreezeTarget \/ Confirm \/ CompleteBar
  BY <1>6 DEF AuditFill, FreezeTarget, Confirm, CompleteBar
<1>7. ASSUME NEW o \in Order, Intend(o) PROVE Logs
  BY <1>7 DEF Intend
<1>8. QED
  BY <1>1, <1>2, <1>3, <1>4, <1>5, <1>6, <1>7 DEF Logging

\* Steps that leave the file and its numbers alone.
Quiet ==
  \/ ClockFault \/ BeginMicro \/ BeginMacro \/ Heartbeat
  \/ ReadAccount \/ AccountUnavailable
  \/ Query("fills", "fillrows", Fill) \/ QueryFails("fills", "funding")
  \/ PassOver("fills", "funding", Fill) \/ RowsDone("fillrows", "funding")
  \/ Query("funding", "fundingrows", Funding) \/ QueryFails("funding", "replay")
  \/ PassOver("funding", "replay", Funding) \/ RowsDone("fundingrows", "replay")
  \/ JudgeFault \/ Drawdown \/ Send \/ OrdersDone
  \/ Protected \/ GatewayOutage \/ Unhedged
  \/ (\E e \in Entry : Book(e)) \/ ResetDies

LEMMA QuietDisk == Quiet => UNCHANGED <<disk, tail>>
BY DEF Quiet, ClockFault, BeginMicro, BeginMacro, Heartbeat, ReadAccount, AccountUnavailable,
       Query, PassOver, QueryFails, RowsDone, JudgeFault, Drawdown, Send, OrdersDone, Protected,
       GatewayOutage, Unhedged, Book, ResetDies

\* All steps, by what they do to the file.
LEMMA ByFile ==
  ASSUME [Next]_vars
  PROVE  \/ Logging \/ Quiet \/ UNCHANGED vars
         \/ Boot \/ Replay \/ ReplayRaises \/ WriteLatch \/ ResetLatch
         \/ Die \/ RepairChain \/ ResetJournal
BY DEF Next, Logging, Quiet

LEMMA ResetLines ==
  ASSUME FileOK
  PROVE  /\ file \o <<Line(Note), Line("RESET")>> \in Seq(AnyLine)
         /\ Len(file \o <<Line(Note), Line("RESET")>>) = Len(file) + 2
<1> DEFINE l1 == Line(Note)  l2 == Line("RESET")
<1>1. l1 \in AnyLine /\ l2 \in AnyLine
  BY EventTypes, Bounds DEF Line, FileOK, AnyLine
<1>2. file \in Seq(AnyLine) /\ <<l1, l2>> \in Seq(AnyLine) /\ Len(<<l1, l2>>) = 2
  BY <1>1, LineIsAnyLine, SeqMonotonic DEF FileOK
<1>3. QED
  BY <1>2, ConcatProperties

LEMMA RenumberedEvents ==
  ASSUME NEW f \in Seq(AnyLine)
  PROVE  /\ DOMAIN Renumbered(f) = DOMAIN f
         /\ \A i \in DOMAIN f : Renumbered(f)[i].ev = f[i].ev
         /\ Recorded(Renumbered(f)) = Recorded(f)
BY DEF Renumbered, Recorded

LEMMA FileStep == FileOK /\ StateOK /\ [Next]_vars => FileOK'
<1> SUFFICES ASSUME FileOK, StateOK, [Next]_vars PROVE FileOK'
  OBVIOUS
<1>1. CASE Logging
  BY <1>1, LoggingLogs, LogTyped DEF Logs, Logged, FileOK
<1>2. CASE Quiet \/ UNCHANGED vars \/ ResetLatch
  BY <1>2, QuietDisk DEF FileOK, vars, ResetLatch
<1>3. CASE Boot \/ Replay
  BY <1>3, Bounds DEF Boot, Replay, Project, FileOK
<1>4. CASE ReplayRaises
  BY <1>4, Bounds DEF ReplayRaises, FileOK
<1>5. CASE WriteLatch
  BY <1>5, Bounds DEF WriteLatch, FileOK
<1>6. CASE Die
  BY <1>6, Bounds DEF Die, FileOK
<1>7. CASE RepairChain
  <2>1. file \in Seq(AnyLine)
    BY LineIsAnyLine, SeqMonotonic DEF FileOK
  <2>2. QED
    BY <1>7, <2>1, RenumberedTyped DEF RepairChain, FileOK
<1>8. CASE ResetJournal
  BY <1>8, ResetLines, RenumberedTyped DEF ResetJournal, FileOK
<1>9. QED
  BY <1>1, <1>2, <1>3, <1>4, <1>5, <1>6, <1>7, <1>8, ByFile

LEMMA MembershipTyped == \A x, S, b : b = (x \in S) => b \in BOOLEAN
<1> TAKE x, S, b
<1>1. CASE x \in S
  BY <1>1
<1>2. CASE x \notin S
  BY <1>2
<1>3. QED
  BY <1>1, <1>2

LEMMA FlagsStep == FlagsOK /\ StateOK /\ [Next]_vars => FlagsOK'
<1> SUFFICES ASSUME FlagsOK, StateOK, [Next]_vars PROVE FlagsOK'
  OBVIOUS
<1> USE DEF FlagsOK
<1>1. CASE Logging
  <2>1. open' \in BOOLEAN /\ latch' \in BOOLEAN /\ spoilt' \in BOOLEAN
    BY <1>1, LoggingLogs DEF Logs, Log, LogFails
  <2>2. epoch' = epoch \/ epoch' = TRUE \/ epoch' = (Epoch \in Recorded(file'))
    BY <1>1 DEF Logging, WriteEpoch, HaltLogged, JournalRow, AuditFill, JudgeFine, JudgeDrift,
         RecordHighWater, FreezeTarget, Intend, Confirm, CompleteBar
  <2>3. partial' \in {partial, TRUE, FALSE} /\ soft' = soft
    BY <1>1 DEF Logging, WriteEpoch, HaltLogged, JournalRow, AuditFill, JudgeFine, JudgeDrift,
         RecordHighWater, FreezeTarget, Intend, Confirm, CompleteBar, Forget
  <2>4. epoch' \in BOOLEAN
    BY <2>2, MembershipTyped
  <2>5. QED
    BY <2>1, <2>3, <2>4
<1>2. CASE Quiet
  <2>1. open' \in BOOLEAN /\ latch' \in BOOLEAN /\ spoilt' \in BOOLEAN
    BY <1>2, QuietDisk
  <2>2. epoch' \in BOOLEAN /\ partial' \in BOOLEAN
    BY <1>2 DEF Quiet, ClockFault, BeginMicro, BeginMacro, Heartbeat, ReadAccount, AccountUnavailable,
         Query, PassOver, QueryFails, RowsDone, JudgeFault, Drawdown, Send, OrdersDone, Protected,
         GatewayOutage, Unhedged, Book, ResetDies, Forget
  <2>3. soft' \in BOOLEAN
    BY <1>2 DEF Quiet, ClockFault, BeginMicro, BeginMacro, Heartbeat, ReadAccount, AccountUnavailable,
         Query, PassOver, QueryFails, RowsDone, JudgeFault, Drawdown, Send, OrdersDone, Protected,
         GatewayOutage, Unhedged, Book, ResetDies
  <2>4. QED
    BY <2>1, <2>2, <2>3
<1>3. CASE Boot \/ Replay
  <2>1. UNCHANGED <<open, latch, soft>> /\ spoilt' = open /\ partial' \in {partial, FALSE}
    BY <1>3 DEF Boot, Replay, Project, Forget
  <2>2. epoch' \in BOOLEAN
    BY <1>3, MembershipTyped DEF Boot, Replay, Project
  <2>3. QED
    BY <2>1, <2>2
<1>4. CASE ReplayRaises \/ WriteLatch \/ ResetLatch \/ RepairChain \/ ResetJournal
  BY <1>4 DEF ReplayRaises, Forget, WriteLatch, ResetLatch, RepairChain, ResetJournal
<1>5. CASE Die
  BY <1>5 DEF Die, Forget
<1>6. CASE UNCHANGED vars
  BY <1>6 DEF vars
<1>7. QED
  BY <1>1, <1>2, <1>3, <1>4, <1>5, <1>6, ByFile

LEMMA StateStep == StateOK /\ [Next]_vars => StateOK'
<1> SUFFICES ASSUME StateOK, [Next]_vars PROVE StateOK'
  OBVIOUS
<1> USE DEF StateOK, Points, Cycles, BreakerStates
<1>1. CASE Boot \/ Replay
  <2>1. BootBreaker \in BreakerStates /\ (IF StandingHalt THEN "HALTED" ELSE BreakerOf(file)) \in BreakerStates
    BY BreakerOfTyped DEF BootBreaker
  <2>2. QED
    BY <1>1, <2>1 DEF Boot, Replay, Project, AbortCycle, Aborted, Forget
<1>2. CASE WriteEpoch \/ WriteLatch \/ HaltLogged
  BY <1>2, BreakerOfTyped DEF WriteEpoch, WriteLatch, HaltLogged, AbortCycle, Aborted
<1>3. CASE ClockFault \/ BeginMicro \/ BeginMacro \/ Heartbeat
  BY <1>3 DEF ClockFault, BeginMicro, BeginMacro, Heartbeat, Trip
<1>4. CASE ReadAccount \/ AccountUnavailable
  BY <1>4 DEF ReadAccount, AccountUnavailable, AbortCycle, Aborted, Trip
<1>5. CASE Query("fills", "fillrows", Fill) \/ Query("funding", "fundingrows", Funding)
  BY <1>5 DEF Query
<1>6. CASE \/ QueryFails("fills", "funding") \/ QueryFails("funding", "replay")
           \/ PassOver("fills", "funding", Fill) \/ PassOver("funding", "replay", Funding)
  BY <1>6 DEF QueryFails, PassOver
<1>7. CASE \/ JournalRow("fillrows", "audit", "funding") \/ AuditFill
           \/ JournalRow("fundingrows", "fundingrows", "replay")
  BY <1>7 DEF JournalRow, AuditFill, Unseen
<1>8. CASE RowsDone("fillrows", "funding") \/ RowsDone("fundingrows", "replay")
  BY <1>8 DEF RowsDone
<1>9. CASE ReplayRaises
  BY <1>9 DEF ReplayRaises, AbortCycle, Aborted, Forget
<1>10. CASE JudgeFine \/ JudgeDrift \/ JudgeFault
  BY <1>10 DEF JudgeFine, JudgeDrift, JudgeFault, Announce, Trip, AbortCycle, Aborted, Forget
<1>11. CASE RecordHighWater
  BY <1>11 DEF RecordHighWater, Judged, AbortCycle, Aborted
<1>12. CASE Drawdown \/ FreezeTarget
  BY <1>12, BreakerOfTyped DEF Drawdown, FreezeTarget, Trip
<1>13. ASSUME NEW o \in Order, Intend(o) PROVE StateOK'
  BY <1>13 DEF Intend
<1>14. CASE Send \/ Confirm \/ OrdersDone
  BY <1>14 DEF Send, Confirm, OrdersDone
<1>15. CASE Protected \/ GatewayOutage \/ Unhedged
  BY <1>15 DEF Protected, GatewayOutage, Unhedged, Continue, Trip
<1>16. CASE CompleteBar
  BY <1>16 DEF CompleteBar
<1>17. CASE Die
  BY <1>17 DEF Die, Forget
<1>18. ASSUME NEW e \in Entry, Book(e) PROVE StateOK'
  BY <1>18 DEF Book
<1>19. CASE RepairChain \/ ResetJournal \/ ResetLatch \/ ResetDies \/ UNCHANGED vars
  BY <1>19 DEF RepairChain, ResetJournal, ResetLatch, ResetDies, vars
<1>20. QED
  BY <1>1, <1>2, <1>3, <1>4, <1>5, <1>6, <1>7, <1>8, <1>9, <1>10, <1>11, <1>12, <1>13, <1>14,
     <1>15, <1>16, <1>17, <1>18, <1>19 DEF Next

LEMMA TypeInit == Init => TypeOK
<1> SUFFICES ASSUME Init PROVE TypeOK
  OBVIOUS
<1>1. FileOK
  BY Bounds DEF Init, FileOK
<1>2. FlagsOK /\ StateOK
  BY DEF Init, FlagsOK, StateOK, Points, Cycles, BreakerStates
<1>3. QED
  BY <1>1, <1>2 DEF TypeOK

\* The daemon's state, the journal and the world keep their types.
THEOREM Types == Spec => []TypeOK
<1>1. TypeOK /\ [Next]_vars => TypeOK'
  BY FileStep, FlagsStep, StateStep DEF TypeOK
<1>2. QED
  BY <1>1, TypeInit, PTL DEF Spec

-----------------------------------------------------------------------------
(* What an append does to the file.                                        *)

LEMMA TornTail == ASSUME FileOK, TailTorn PROVE ~Valid(file) /\ TornText \in Recorded(file)
<1>1. file # <<>> /\ Len(file) \in DOMAIN file
  BY EmptySeq DEF FileOK, TailTorn
<1>2. QED
  BY <1>1 DEF TailTorn, Valid, Recorded, Torn

\* What a line appended to the file does to it.
LEMMA AppendFacts ==
  ASSUME FileOK, NEW l \in LineType
  PROVE  /\ Recorded(Append(file, l)) = Recorded(file) \cup {l.ev}
         /\ Valid(Append(file, l)) <=> Valid(file) /\ l.id = Len(file) + 1 /\ l.prev = Len(file)
<1> DEFINE n == Len(file)  g == Append(file, l)
<1>1. n \in Nat /\ DOMAIN file = 1 .. n /\ DOMAIN g = 1 .. n + 1 /\ g[n + 1] = l
  BY DEF FileOK
<1>2. \A i \in 1 .. n : g[i] = file[i]
  BY DEF FileOK
<1>3. Valid(g) <=> Valid(file) /\ l.id = n + 1 /\ l.prev = n
  BY <1>1, <1>2 DEF Valid
<1>4. Recorded(g) = Recorded(file) \cup {l.ev}
  BY <1>1, <1>2 DEF Recorded
<1>5. QED
  BY <1>3, <1>4

LEMMA JoinedFacts ==
  ASSUME FileOK, file # <<>>
  PROVE  /\ Recorded(Joined) \subseteq Recorded(file) \cup {TornText}
         /\ TornText \in Recorded(Joined) /\ ~Valid(Joined)
         /\ DOMAIN Joined = DOMAIN file
         /\ \A i \in DOMAIN file : Joined[i] = file[i] \/ Joined[i] = Torn
<1>1. DOMAIN Joined = DOMAIN file /\ Len(file) \in DOMAIN file
  BY EmptySeq DEF FileOK, Joined
<1>2. Joined[Len(file)] = Torn /\ \A i \in DOMAIN file : Joined[i] = file[i] \/ Joined[i] = Torn
  BY <1>1 DEF Joined
<1>3. QED
  BY <1>1, <1>2 DEF Recorded, Valid, Torn

\* The five files an append may leave.
LEMMA LogWrites ==
  ASSUME FileOK, NEW e \in Events, Log(e) \/ LogFails(e)
  PROVE  /\ Room /\ Line(e) \in LineType /\ Torn \in LineType
         /\ Line(e).ev = e /\ Torn.ev = TornText
         /\ \/ file' \in {file, Append(file, Line(e)), Append(file, Torn)}
            \/ file # <<>> /\ file' = Joined
         /\ Log(e) => \/ file' = Append(file, Line(e))
                      \/ TailTorn /\ file' = file
                      \/ file # <<>> /\ file' = Joined
<1>1. Room /\ Line(e) \in LineType /\ Torn \in LineType
  BY LineTyped DEF Log, LogFails
<1>2. Line(e).ev = e /\ Torn.ev = TornText
  BY DEF Line, Torn
<1>3. open => file # <<>>
  BY DEF FileOK
<1>4. \A l : \/ Written(l) = Append(file, l)
             \/ TailTorn /\ Written(l) = file
             \/ file # <<>> /\ Written(l) = Joined
  BY <1>3 DEF Written, Joined
<1>5. file' \in {file, Append(file, Line(e)), Written(Line(e)), Written(Torn)}
  BY DEF Log, LogFails
<1>6. Log(e) => file' = Written(Line(e))
  BY DEF Log
<1>7. QED
  BY <1>1, <1>2, <1>4, <1>5, <1>6

\* A file that cannot be replayed is not mended by another line, and a line that
\* is lost leaves it torn.
LEMMA LogFacts ==
  ASSUME FileOK, NEW e \in Events, Log(e) \/ LogFails(e)
  PROVE  /\ Recorded(file) \subseteq Recorded(file') \/ TornText \in Recorded(file')
         /\ TornText \in Recorded(file) => TornText \in Recorded(file')
         /\ Recorded(file') \subseteq Recorded(file) \cup {e, TornText}
         /\ Valid(file') => Valid(file) /\ Recorded(file) \subseteq Recorded(file')
         /\ Log(e) => e \in Recorded(file') \/ TornText \in Recorded(file')
         /\ Log(e) /\ Valid(file') => e \in Recorded(file')
<1>1. CASE file' = file
  <2>1. file # Append(file, Line(e))
    BY LogWrites DEF FileOK
  <2>2. Log(e) => TornText \in Recorded(file) /\ ~Valid(file)
    BY <1>1, <2>1, LogWrites, TornTail, JoinedFacts
  <2>3. QED
    BY <1>1, <2>2
<1>2. CASE file' = Append(file, Line(e)) \/ file' = Append(file, Torn)
  <2>1. PICK l \in {Line(e), Torn} : file' = Append(file, l)
    BY <1>2
  <2>2. l \in LineType /\ l.ev \in {e, TornText}
    BY LogWrites
  <2>3. Recorded(file') = Recorded(file) \cup {l.ev} /\ (Valid(file') => Valid(file))
    BY <2>1, <2>2, AppendFacts
  <2>4. Log(e) => e \in Recorded(file') \/ TailTorn \/ (file # <<>> /\ file' = Joined)
    BY LogWrites, AppendFacts
  <2>5. TailTorn => ~Valid(file) /\ TornText \in Recorded(file)
    BY TornTail
  <2>6. file # <<>> /\ file' = Joined => TornText \in Recorded(file') /\ ~Valid(file')
    BY JoinedFacts
  <2>7. QED
    BY <2>2, <2>3, <2>4, <2>5, <2>6
<1>3. CASE file # <<>> /\ file' = Joined
  BY <1>3, JoinedFacts
<1>4. QED
  BY <1>1, <1>2, <1>3, LogWrites

LEMMA LoggingIsUp == Logging => pc # "down"
BY DEF Logging, WriteEpoch, HaltLogged, JournalRow, AuditFill, JudgeFine, JudgeDrift, RecordHighWater,
       FreezeTarget, Intend, Confirm, CompleteBar

-----------------------------------------------------------------------------
(* A halt lasts.  While it stands, the latch, the journal or the running   *)
(* daemon's memory holds it, a file that holds it and cannot be read keeps *)
(* the daemon down, and no cycle passes from a reconciliation that found   *)
(* it to its orders.                                                       *)

\* The journal holds the halt, or cannot be read or repaired.
OnDisk == BreakerOf(file) = "HALTED" \/ TornText \in Recorded(file)

TornLines == \A i \in DOMAIN file : file[i].ev = TornText => file[i].id = 0

LEMMA HaltedStands == \A f : BreakerOf(f) = "HALTED" <=> Stands(f, "HALTED", {"RESET"})
BY DEF BreakerOf

LEMMA TornIsInvalid == FileOK /\ TornLines /\ TornText \in Recorded(file) => ~Valid(file)
BY DEF TornLines, Recorded, Valid, FileOK

LEMMA DiskLog ==
  ASSUME FileOK, NEW e \in Logged, Log(e) \/ LogFails(e)
  PROVE  (OnDisk => OnDisk') /\ (TornLines => TornLines')
<1> USE DEF Logged
<1>1. CASE file' = file
  BY <1>1 DEF OnDisk, TornLines
<1>2. CASE file' = Append(file, Line(e)) \/ file' = Append(file, Torn)
  <2>1. PICK l \in {Line(e), Torn} : file' = Append(file, l)
    BY <1>2
  <2>2. l \in LineType /\ l.ev # "RESET" /\ (l.ev = TornText => l.id = 0)
    BY LogWrites DEF Torn, TornText
  <2>3. /\ Len(file) \in Nat /\ DOMAIN file = 1 .. Len(file) /\ DOMAIN file' = 1 .. Len(file) + 1
        /\ file'[Len(file) + 1] = l
        /\ \A i \in DOMAIN file : file'[i] = file[i]
    BY <2>1, <2>2 DEF FileOK
  <2>4. Stands(file, "HALTED", {"RESET"}) => Stands(file', "HALTED", {"RESET"})
    BY <2>2, <2>3 DEF Stands
  <2>5. TornText \in Recorded(file) => TornText \in Recorded(file')
    BY LogFacts
  <2>6. TornLines => TornLines'
    BY <2>2, <2>3 DEF TornLines
  <2>7. QED
    BY <2>4, <2>5, <2>6, HaltedStands DEF OnDisk
<1>3. CASE file # <<>> /\ file' = Joined
  BY <1>3, JoinedFacts DEF OnDisk, TornLines, Torn
<1>4. QED
  BY <1>1, <1>2, <1>3, LogWrites

LEMMA RenumberedStands ==
  ASSUME NEW f \in Seq(AnyLine)
  PROVE  BreakerOf(Renumbered(f)) = "HALTED" <=> BreakerOf(f) = "HALTED"
BY RenumberedEvents, HaltedStands DEF Stands

\* Only the operator's reset takes a halt out of the journal.
LEMMA DiskStep ==
  FileOK /\ StateOK /\ TornLines /\ [Next]_vars
    => TornLines' /\ (OnDisk /\ ~ResetJournal => OnDisk')
<1> SUFFICES ASSUME FileOK, StateOK, TornLines, [Next]_vars
             PROVE  TornLines' /\ (OnDisk /\ ~ResetJournal => OnDisk')
  OBVIOUS
<1>1. CASE Logging
  <2>1. CASE Logs
    BY <2>1, DiskLog DEF Logs
  <2>2. CASE UNCHANGED <<disk, tail>>
    BY <2>2 DEF OnDisk, TornLines
  <2>3. QED
    BY <1>1, <2>1, <2>2, LoggingLogs
<1>2. CASE Quiet
  BY <1>2, QuietDisk DEF OnDisk, TornLines
<1>3. CASE UNCHANGED vars \/ Boot \/ Replay \/ ReplayRaises \/ WriteLatch \/ ResetLatch \/ Die
  <2>1. UNCHANGED file
    BY <1>3 DEF vars, Boot, Replay, ReplayRaises, WriteLatch, ResetLatch, Die
  <2>2. QED
    BY <2>1 DEF OnDisk, TornLines
<1>4. CASE RepairChain
  <2>1. file \in Seq(AnyLine) /\ file' = Renumbered(file) /\ TornText \notin Recorded(file)
    BY <1>4, LineIsAnyLine, SeqMonotonic DEF FileOK, RepairChain
  <2>2. Recorded(file') = Recorded(file)
    BY <2>1, RenumberedEvents
  <2>3. TornLines'
    BY <2>1, <2>2 DEF TornLines, Recorded
  <2>4. QED
    BY <2>1, <2>3, RenumberedStands DEF OnDisk
<1>5. CASE ResetJournal
  <2> DEFINE l1 == Line(Note)  l2 == Line("RESET")  g == file \o <<l1, l2>>
  <2>1. g \in Seq(AnyLine) /\ file' = Renumbered(g) /\ Valid(file)
    BY <1>5, ResetLines DEF ResetJournal
  <2>2. TornText \notin Recorded(file)
    BY <2>1, TornIsInvalid
  <2>3. l1.ev # TornText /\ l2.ev # TornText
    BY DEF Line, Note, TornText
  <2>4. \A i \in DOMAIN g : g[i].ev # TornText
    BY <2>2, <2>3, ResetLines DEF FileOK, Recorded
  <2> HIDE DEF l1, l2, g
  <2>5. DOMAIN file' = DOMAIN g /\ \A i \in DOMAIN g : file'[i].ev = g[i].ev
    BY <2>1, RenumberedEvents
  <2>6. QED
    BY <1>5, <2>4, <2>5 DEF TornLines
<1>6. QED
  BY <1>1, <1>2, <1>3, <1>4, <1>5, ByFile

Trading == {"target", "orders", "send", "confirm"}

HaltHeld ==
  /\ operator = "reset" => pc = "down"
  /\ pc \in {"latch", "log"} /\ resume = "protect" => cycle = "sweep"
  /\ halt = "standing" =>
       /\ \/ latch \/ OnDisk \/ operator = "reset"
          \/ pc # "down" /\ breaker = "HALTED"
          \/ pc = "log"
       /\ pc = "epoch" => latch
       /\ pc \in {"judge", "hwm"} => breaker = "HALTED"
       /\ pc \notin Trading
       /\ ~(pc = "protect" /\ cycle = "macro")

LEMMA HaltHeldStep == TypeOK /\ TornLines /\ HaltHeld /\ [Next]_vars => HaltHeld'
<1> SUFFICES ASSUME TypeOK, TornLines, HaltHeld, [Next]_vars PROVE HaltHeld'
  OBVIOUS
<1>d. OnDisk /\ ~ResetJournal => OnDisk'
  BY DiskStep DEF TypeOK
<1>u. pc # "down" /\ OnDisk => OnDisk'
  BY <1>d DEF ResetJournal
<1>v. Valid(file) /\ OnDisk => BreakerOf(file) = "HALTED"
  BY TornIsInvalid DEF OnDisk, TypeOK
<1>s. StateOK
  BY DEF TypeOK
<1>e. file = <<>> => ~OnDisk
  BY HaltedStands DEF OnDisk, Recorded, Stands
<1> USE DEF HaltHeld, Trading
<1>1. CASE Boot
  <2>1. halt = "standing" => latch \/ OnDisk
    BY <1>1 DEF Boot
  <2>2. BootBreaker = "HALTED" <=> latch \/ BreakerOf(file) = "HALTED"
    BY DEF BootBreaker
  <2>3. Valid(file) /\ breaker' = BootBreaker
    BY <1>1 DEF Boot, Project
  <2>4. halt = "standing" => breaker' = "HALTED" /\ (file = <<>> => latch)
    BY <2>1, <2>2, <2>3, <1>v, <1>e
  <2>5. /\ UNCHANGED <<halt, latch, operator, resume, cycle>> /\ operator = "none"
        /\ pc' = IF file = <<>> THEN "epoch" ELSE "idle"
    BY <1>1 DEF Boot
  <2>6. QED
    BY <2>4, <2>5
<1>2. CASE WriteEpoch
  <2>1. UNCHANGED latch
    BY <1>2 DEF WriteEpoch, Log, LogFails
  <2>2. QED
    BY <1>2, <2>1 DEF WriteEpoch
<1>3. CASE WriteLatch
  BY <1>3, <1>d DEF WriteLatch
<1>4. CASE HaltLogged
  <2>1. UNCHANGED <<latch, halt, operator>> /\ breaker' = "HALTED" /\ resume' = "idle"
    BY <1>4 DEF HaltLogged, Log, LogFails
  <2>2. pc = "log" /\ operator # "reset" /\ (resume = "protect" => cycle = "sweep")
    BY <1>4 DEF HaltLogged
  <2>3. /\ pc' \in {"idle", "protect", "hwm", "bar", "read"}
        /\ pc' = "protect" => cycle' = "sweep"
    BY <1>4, <1>s, <2>2 DEF HaltLogged, AbortCycle, Aborted, StateOK
  <2>4. QED
    BY <2>1, <2>2, <2>3
<1>5. CASE ClockFault \/ BeginMicro \/ BeginMacro \/ Heartbeat
  BY <1>5, <1>u DEF ClockFault, BeginMicro, BeginMacro, Heartbeat, Trip
<1>6. CASE ReadAccount \/ AccountUnavailable
  BY <1>6, <1>u DEF ReadAccount, AccountUnavailable, AbortCycle, Aborted, Trip
<1>7. CASE \/ Query("fills", "fillrows", Fill) \/ Query("funding", "fundingrows", Funding)
           \/ QueryFails("fills", "funding") \/ QueryFails("funding", "replay")
           \/ PassOver("fills", "funding", Fill) \/ PassOver("funding", "replay", Funding)
           \/ RowsDone("fillrows", "funding") \/ RowsDone("fundingrows", "replay")
  BY <1>7, <1>u DEF Query, QueryFails, PassOver, RowsDone
<1>8. CASE \/ JournalRow("fillrows", "audit", "funding") \/ AuditFill
           \/ JournalRow("fundingrows", "fundingrows", "replay")
  <2>1. /\ UNCHANGED <<latch, halt, operator, breaker, cycle, resume>>
        /\ pc \in {"fillrows", "audit", "fundingrows"}
        /\ pc' \in {"fillrows", "audit", "funding", "fundingrows", "replay"}
    BY <1>8 DEF JournalRow, AuditFill, Log, LogFails
  <2>2. ~ResetJournal
    BY <2>1 DEF ResetJournal
  <2>3. QED
    BY <1>d, <2>1, <2>2
<1>9. CASE Replay
  <2>1. halt = "standing" => breaker' = "HALTED"
    BY <1>9, <1>v DEF Replay, Project, StandingHalt
  <2>2. QED
    BY <1>9, <2>1 DEF Replay, AbortCycle, Aborted
<1>10. CASE ReplayRaises
  BY <1>10, <1>u DEF ReplayRaises, AbortCycle, Aborted
<1>11. CASE JudgeFine \/ JudgeDrift \/ JudgeFault
  BY <1>11 DEF JudgeFine, JudgeDrift, JudgeFault, Announce, Log, LogFails, Trip,
               AbortCycle, Aborted
<1>12. CASE RecordHighWater
  BY <1>12 DEF RecordHighWater, Log, LogFails, Judged, AbortCycle, Aborted
<1>13. CASE Drawdown \/ FreezeTarget
  BY <1>13 DEF Drawdown, FreezeTarget, Trip
<1>14. ASSUME NEW o \in Order, Intend(o) PROVE HaltHeld'
  BY <1>14 DEF Intend
<1>15. CASE Send \/ Confirm
  BY <1>15 DEF Send, Confirm
<1>16. CASE OrdersDone
  BY <1>16 DEF OrdersDone
<1>17. CASE Protected \/ GatewayOutage \/ Unhedged
  BY <1>17, <1>u, <1>s DEF Protected, GatewayOutage, Unhedged, Continue, Trip, StateOK
<1>18. CASE CompleteBar
  <2>1. UNCHANGED <<latch, halt, operator, breaker, resume>> /\ pc = "bar" /\ pc' \in {"read", "idle"}
    BY <1>18 DEF CompleteBar, Log, LogFails
  <2>2. ~ResetJournal
    BY <2>1 DEF ResetJournal
  <2>3. QED
    BY <1>d, <2>1, <2>2
<1>19. CASE Die
  <2>1. halt' = "standing" => latch \/ BreakerOf(file) = "HALTED"
    BY <1>19 DEF Die
  <2>2. pc' = "down" /\ UNCHANGED <<file, latch, operator>> /\ (halt' = "standing" => halt = "standing")
    BY <1>19 DEF Die
  <2>3. OnDisk' <=> OnDisk
    BY <2>2 DEF OnDisk
  <2>4. QED
    BY <2>1, <2>2, <2>3 DEF OnDisk
<1>20. ASSUME NEW e \in Entry, Book(e) PROVE HaltHeld'
  BY <1>20, <1>d DEF Book, ResetJournal
<1>21. CASE RepairChain \/ ResetLatch \/ ResetDies
  BY <1>21, <1>d DEF RepairChain, ResetLatch, ResetDies, ResetJournal
<1>22. CASE ResetJournal
  BY <1>22 DEF ResetJournal
<1>23. CASE UNCHANGED vars
  BY <1>23, <1>d DEF vars, ResetJournal
<1>24. QED
  BY <1>1, <1>2, <1>3, <1>4, <1>5, <1>6, <1>7, <1>8, <1>9, <1>10, <1>11, <1>12, <1>13, <1>14,
     <1>15, <1>16, <1>17, <1>18, <1>19, <1>20, <1>21, <1>22, <1>23 DEF Next

\* Only Send reaches the exchange.
LEMMA OnlySendSends == [Next]_vars /\ sent' # sent => pc = "send"
<1> SUFFICES ASSUME [Next]_vars, pc # "send" PROVE sent' = sent
  OBVIOUS
<1>1. CASE Logging
  BY <1>1 DEF Logging, WriteEpoch, HaltLogged, JournalRow, AuditFill, JudgeFine, JudgeDrift, RecordHighWater,
       FreezeTarget, Intend, Confirm, CompleteBar
<1>2. CASE Quiet
  BY <1>2 DEF Quiet, ClockFault, BeginMicro, BeginMacro, Heartbeat, ReadAccount, AccountUnavailable,
       Query, PassOver, QueryFails, RowsDone, JudgeFault, Drawdown, Send, OrdersDone, Protected,
       GatewayOutage, Unhedged, Book, ResetDies
<1>3. CASE UNCHANGED vars \/ Boot \/ Replay \/ ReplayRaises \/ WriteLatch \/ ResetLatch \/ RepairChain \/ ResetJournal
  BY <1>3 DEF vars, Boot, Replay, ReplayRaises, WriteLatch, ResetLatch, RepairChain, ResetJournal
<1>4. CASE Die
  BY <1>4 DEF Die
<1>5. QED
  BY <1>1, <1>2, <1>3, <1>4, ByFile

\* No order that may add risk is sent between trip_halt and the operator's
\* reset, whatever writes fail, the latch among them, unless the process dies
\* while neither the latch nor the line of the halt is on the disk.
THEOREM HaltsLast == Spec => HaltIsLasting
<1>1. Init => HaltHeld /\ TornLines
  BY EmptySeq DEF Init, HaltHeld, TornLines
<1>2. TypeOK /\ TornLines /\ HaltHeld /\ [Next]_vars => (TornLines /\ HaltHeld)'
  BY HaltHeldStep, DiskStep DEF TypeOK
<1>3. HaltHeld /\ [Next]_vars => [sent' # sent => halt # "standing"]_vars
  BY OnlySendSends DEF HaltHeld, Trading
<1>4. QED
  BY <1>1, <1>2, <1>3, Types, PTL DEF Spec, HaltIsLasting

-----------------------------------------------------------------------------
(* The chain.                                                              *)

Chain ==
  ~spoilt => /\ Valid(file) /\ ~open
             /\ pc # "down" => lastId = Len(file) /\ lastHash = Len(file)

LEMMA ChainLog ==
  ASSUME FileOK, Chain, NEW e \in Logged, Log(e) \/ LogFails(e), pc # "down", ~spoilt'
  PROVE  Valid(file') /\ ~open' /\ lastId' = Len(file') /\ lastHash' = Len(file')
<1>1. Log(e) /\ ~spoilt /\ ~open'
  BY DEF Log, LogFails
<1>2. Valid(file) /\ ~open /\ lastId = Len(file) /\ lastHash = Len(file)
  BY <1>1 DEF Chain
<1>3. file' = Append(file, Line(e)) /\ Line(e) \in LineType
  BY <1>1, <1>2, LineTyped, TornTail DEF Log, Written, Logged
<1>4. Line(e).id = Len(file) + 1 /\ Line(e).prev = Len(file)
  BY <1>2 DEF Line
<1>5. Valid(file')
  BY <1>2, <1>3, <1>4, AppendFacts
<1>6. Len(file') = Len(file) + 1
  BY <1>3 DEF FileOK
<1>7. QED
  BY <1>1, <1>2, <1>5, <1>6 DEF Log

LEMMA QuietIsUp == Quiet => (pc' = "down" <=> pc = "down")
BY DEF Quiet, ClockFault, BeginMicro, BeginMacro, Heartbeat, ReadAccount, AccountUnavailable,
       Query, PassOver, QueryFails, RowsDone, JudgeFault, Drawdown, Send, OrdersDone, Protected,
       GatewayOutage, Unhedged, Book, ResetDies, Trip, AbortCycle, Aborted, Continue

LEMMA ChainStep == FileOK /\ FlagsOK /\ StateOK /\ Chain /\ [Next]_vars => Chain'
<1> SUFFICES ASSUME FileOK, FlagsOK, StateOK, Chain, [Next]_vars PROVE Chain'
  OBVIOUS
<1>1. CASE Logging
  <2>1. CASE Logs
    BY <1>1, <2>1, ChainLog, LoggingIsUp DEF Logs, Chain
  <2>2. CASE UNCHANGED <<disk, tail>>
    BY <1>1, <2>2, LoggingIsUp DEF Chain
  <2>3. QED
    BY <1>1, <2>1, <2>2, LoggingLogs
<1>2. CASE Quiet
  BY <1>2, QuietDisk, QuietIsUp DEF Chain
<1>3. CASE Boot \/ Replay
  BY <1>3 DEF Boot, Replay, Project, Chain
<1>4. CASE ReplayRaises
  BY <1>4 DEF ReplayRaises, Chain
<1>5. CASE WriteLatch \/ ResetLatch \/ UNCHANGED vars
  BY <1>5 DEF WriteLatch, ResetLatch, vars, Chain
<1>6. CASE Die
  BY <1>6 DEF Die, Chain
<1>7. CASE RepairChain
  <2>1. file \in Seq(AnyLine)
    BY LineIsAnyLine, SeqMonotonic DEF FileOK
  <2>2. QED
    BY <1>7, <2>1, RenumberedTyped DEF RepairChain, FileOK, Chain
<1>8. CASE ResetJournal
  <2>1. file \o <<Line(Note), Line("RESET")>> \in Seq(AnyLine)
    BY <1>8, ResetLines
  <2>2. Len(file \o <<Line(Note), Line("RESET")>>) <= MaxLines
    BY <1>8, ResetLines DEF ResetJournal
  <2>3. QED
    BY <1>8, <2>1, <2>2, RenumberedTyped DEF ResetJournal, Chain
<1>9. QED
  BY <1>1, <1>2, <1>3, <1>4, <1>5, <1>6, <1>7, <1>8, ByFile

\* As long as no append has failed since the last replay that found the file
\* whole to its last newline, the file replays.
THEOREM ChainHolds == Spec => []ChainKeepsUp
<1>1. Init => Chain
  BY EmptySeq DEF Init, Chain, Valid
<1>2. TypeOK /\ Chain /\ [Next]_vars => Chain'
  BY ChainStep DEF TypeOK
<1>3. Chain => ChainKeepsUp
  BY DEF Chain, ChainKeepsUp
<1>4. QED
  BY <1>1, <1>2, <1>3, Types, PTL DEF Spec

-----------------------------------------------------------------------------
(* Intents.                                                                *)

\* No step takes a line out of the journal, unless a torn one stays behind.
LEMMA RecordedGrows ==
  FileOK /\ StateOK /\ [Next]_vars
    => /\ Recorded(file) \subseteq Recorded(file') \/ TornText \in Recorded(file')
       /\ TornText \in Recorded(file) => TornText \in Recorded(file')
<1> DEFINE Kept == /\ Recorded(file) \subseteq Recorded(file') \/ TornText \in Recorded(file')
                   /\ TornText \in Recorded(file) => TornText \in Recorded(file')
<1> SUFFICES ASSUME FileOK, StateOK, [Next]_vars PROVE Kept
  OBVIOUS
<1>1. CASE Logging
  BY <1>1, LoggingLogs, LogFacts DEF Logs, Logged
<1>2. CASE Quiet
  BY <1>2, QuietDisk
<1>3. CASE Boot \/ Replay \/ ReplayRaises \/ WriteLatch \/ ResetLatch \/ Die \/ UNCHANGED vars
  BY <1>3 DEF Boot, Replay, ReplayRaises, WriteLatch, ResetLatch, Die, vars
<1>5. CASE RepairChain
  <2>1. file \in Seq(AnyLine)
    BY LineIsAnyLine, SeqMonotonic DEF FileOK
  <2>2. QED
    BY <1>5, <2>1, RenumberedEvents DEF RepairChain, FileOK
<1>6. CASE ResetJournal
  <2> DEFINE g == file \o <<Line(Note), Line("RESET")>>
  <2>1. g \in Seq(AnyLine) /\ file' = Renumbered(g)
    BY <1>6, ResetLines DEF ResetJournal
  <2>2. Recorded(file) \subseteq Recorded(g)
    BY ResetLines DEF FileOK, Recorded
  <2>3. QED
    BY <2>1, <2>2, RenumberedEvents
<1>7. QED
  BY <1>1, <1>2, <1>3, <1>5, <1>6, ByFile

Intents ==
  TornText \notin Recorded(file) => /\ sent \subseteq Recorded(file)
                                    /\ pc = "send" => order \in Recorded(file)

LEMMA ReachesSend ==
  ASSUME StateOK, [Next]_vars, pc' = "send", pc # "send"
  PROVE  \E o \in Order : Intend(o) /\ Log(o) /\ order' = o
<1>1. CASE Logging
  BY <1>1 DEF Logging, WriteEpoch, HaltLogged, JournalRow, AuditFill, JudgeFine, JudgeDrift, RecordHighWater,
       FreezeTarget, Intend, Confirm, CompleteBar, Announce, AbortCycle, Aborted, Judged, StateOK
<1>2. CASE Quiet
  BY <1>2 DEF Quiet, ClockFault, BeginMicro, BeginMacro, Heartbeat, ReadAccount, AccountUnavailable,
       Query, PassOver, QueryFails, RowsDone, JudgeFault, Drawdown, Send, OrdersDone, Protected,
       GatewayOutage, Unhedged, Book, ResetDies, Trip, AbortCycle, Aborted, Continue
<1>3. CASE UNCHANGED vars \/ Boot \/ Replay \/ ReplayRaises \/ WriteLatch \/ ResetLatch \/ RepairChain \/ ResetJournal
  BY <1>3 DEF vars, Boot, Replay, ReplayRaises, AbortCycle, Aborted, WriteLatch, ResetLatch, RepairChain, ResetJournal
<1>4. CASE Die
  BY <1>4 DEF Die
<1>5. QED
  BY <1>1, <1>2, <1>3, <1>4, ByFile

\* The order in hand stays the same until it has been sent.
LEMMA SendsTheOrder ==
  ASSUME StateOK, [Next]_vars
  PROVE  /\ sent' \subseteq sent \cup {order}
         /\ sent' # sent => pc = "send"
         /\ pc = "send" /\ pc' = "send" => order' = order
<1>1. CASE pc = "send"
  <2>1. Send \/ Die \/ (\E e \in Entry : Book(e)) \/ ResetLatch \/ ResetDies
           \/ UNCHANGED vars
    BY <1>1 DEF Next, Boot, WriteEpoch, WriteLatch, HaltLogged, ClockFault, BeginMicro, BeginMacro,
         Heartbeat, ReadAccount, AccountUnavailable, Query, PassOver, QueryFails, JournalRow, AuditFill, RowsDone, Replay,
         ReplayRaises, JudgeFine, JudgeDrift, JudgeFault, RecordHighWater, Drawdown, FreezeTarget,
         Intend, Confirm, OrdersDone, Protected, GatewayOutage, Unhedged, CompleteBar, RepairChain, ResetJournal
  <2>2. QED
    BY <1>1, <2>1 DEF Send, Die, Book, ResetLatch, ResetDies, vars
<1>2. CASE pc # "send"
  BY <1>2, OnlySendSends
<1>3. QED
  BY <1>1, <1>2

LEMMA IntentsStep == TypeOK /\ Intents /\ [Next]_vars => Intents'
<1> SUFFICES ASSUME TypeOK, Intents, [Next]_vars, TornText \notin Recorded(file')
             PROVE  /\ sent' \subseteq Recorded(file')
                    /\ pc' = "send" => order' \in Recorded(file')
  BY DEF Intents
<1>1. Recorded(file) \subseteq Recorded(file') /\ TornText \notin Recorded(file)
  BY RecordedGrows DEF TypeOK
<1>2. sent' \subseteq Recorded(file')
  BY <1>1, SendsTheOrder DEF TypeOK, Intents
<1>3. ASSUME pc' = "send", pc # "send" PROVE order' \in Recorded(file')
  <2>1. PICK o \in Order : Log(o) /\ order' = o
    BY <1>3, ReachesSend DEF TypeOK
  <2>2. o \in Events
    BY EventTypes
  <2>3. QED
    BY <2>1, <2>2, <1>1, LogFacts DEF TypeOK
<1>4. ASSUME pc' = "send", pc = "send" PROVE order' \in Recorded(file')
  BY <1>4, <1>1, SendsTheOrder DEF TypeOK, Intents
<1>5. QED
  BY <1>2, <1>3, <1>4

\* Every order the exchange accepted has its intent in the journal, unless a
\* torn line has made the journal unreadable.
THEOREM IntentsPrecedeOrders == Spec => []IntentBeforeOrder
<1>1. Init => Intents
  BY DEF Init, Intents
<1>2. Intents => IntentBeforeOrder
  BY DEF Intents, IntentBeforeOrder
<1>3. QED
  BY <1>1, <1>2, IntentsStep, Types, PTL DEF Spec

-----------------------------------------------------------------------------
(* Entries are counted once: whatever the daemon, while it runs, has       *)
(* journaled it also knows.                                                *)

Once ==
  /\ CountedOnce
  /\ pc # "down" => Recorded(file) \cap Entry \subseteq seen

LEMMA EntriesApart == Entry \cap ({Note, Epoch, TornText, "RESET"} \cup BreakerStates \cup Order) = {}
BY JournalAssumption DEF Entry

\* A line that is no entry, or one not journaled before, keeps entries single.
LEMMA OnceAppend ==
  ASSUME FileOK, CountedOnce, NEW l \in LineType, l.ev \notin Recorded(file) \cap Entry, file' = Append(file, l)
  PROVE  CountedOnce'
<1>1. /\ Len(file) \in Nat /\ DOMAIN file = 1 .. Len(file) /\ DOMAIN file' = 1 .. Len(file) + 1
      /\ file'[Len(file) + 1] = l
      /\ \A i \in DOMAIN file : file'[i] = file[i]
  BY DEF FileOK
<1>2. QED
  BY <1>1 DEF CountedOnce, Recorded

LEMMA OnceLog ==
  ASSUME FileOK, CountedOnce, NEW e \in Events, e \notin Recorded(file) \cap Entry,
         Log(e) \/ LogFails(e)
  PROVE  CountedOnce'
<1>1. Line(e) \in LineType /\ Torn \in LineType /\ Line(e).ev = e /\ Torn.ev = TornText
  BY LogWrites
<1>2. CASE file' = file
  BY <1>2 DEF CountedOnce
<1>3. CASE file' = Append(file, Line(e))
  BY <1>1, <1>3, OnceAppend
<1>4. CASE file' = Append(file, Torn)
  BY <1>1, <1>4, OnceAppend, EntriesApart
<1>5. CASE file # <<>> /\ file' = Joined
  BY <1>1, <1>5, JoinedFacts, EntriesApart DEF CountedOnce
<1>6. QED
  BY <1>2, <1>3, <1>4, <1>5, LogWrites

\* Only the rows of a query are entries.
LEMMA LoggingEntries ==
  ASSUME StateOK, Logging
  PROVE  \/ UNCHANGED <<disk, tail>>
         \/ \E e \in Events \ Entry : Log(e) \/ LogFails(e)
         \/ \E e \in Unseen : (Log(e) \/ LogFails(e)) /\ seen' = seen \cup {e}
<1> USE EventTypes, EntriesApart
<1>1. CASE WriteEpoch
  BY <1>1 DEF WriteEpoch
<1>2. CASE HaltLogged
  BY <1>2 DEF HaltLogged, BreakerStates
<1>3. CASE JournalRow("fillrows", "audit", "funding") \/ JournalRow("fundingrows", "fundingrows", "replay")
  BY <1>3 DEF JournalRow
<1>4. CASE JudgeFine \/ JudgeDrift
  BY <1>4 DEF JudgeFine, JudgeDrift, Announce, BreakerStates
<1>5. CASE RecordHighWater
  BY <1>5 DEF RecordHighWater
<1>6. CASE AuditFill \/ FreezeTarget \/ Confirm \/ CompleteBar
  BY <1>6 DEF AuditFill, FreezeTarget, Confirm, CompleteBar
<1>7. ASSUME NEW o \in Order, Intend(o) PROVE \E e \in Events \ Entry : Log(e) \/ LogFails(e)
  BY <1>7 DEF Intend
<1>8. QED
  BY <1>1, <1>2, <1>3, <1>4, <1>5, <1>6, <1>7 DEF Logging

LEMMA SeenGrows ==
  ASSUME StateOK, Logging
  PROVE  seen \subseteq seen' \/ (Valid(file') /\ seen' = Recorded(file') \cap Entry)
BY DEF Logging, WriteEpoch, HaltLogged, JournalRow, AuditFill, JudgeFine, JudgeDrift, RecordHighWater,
       FreezeTarget, Intend, Confirm, CompleteBar

LEMMA OnceStep == TypeOK /\ Once /\ [Next]_vars => Once'
<1> SUFFICES ASSUME TypeOK, Once, [Next]_vars PROVE Once'
  OBVIOUS
<1> USE DEF Once, TypeOK
<1>1. CASE Logging
  <2>1. Recorded(file) \cap Entry \subseteq seen
    BY <1>1, LoggingIsUp
  <2>2. CASE UNCHANGED <<disk, tail>>
    BY <1>1, <2>1, <2>2, SeenGrows DEF CountedOnce
  <2>3. ASSUME NEW e \in Events \ Entry, Log(e) \/ LogFails(e) PROVE Once'
    BY <1>1, <2>1, <2>3, OnceLog, LogFacts, SeenGrows, EntriesApart
  <2>4. ASSUME NEW e \in Unseen, Log(e) \/ LogFails(e), seen' = seen \cup {e} PROVE Once'
    <3>1. e \in Events /\ e \notin Recorded(file)
      BY <2>1, EventTypes DEF Unseen, StateOK
    <3>2. QED
      BY <2>1, <2>4, <3>1, OnceLog, LogFacts, EntriesApart
  <2>5. QED
    BY <1>1, <2>2, <2>3, <2>4, LoggingEntries
<1>2. CASE Quiet
  <2>1. seen' = seen
    BY <1>2 DEF Quiet, ClockFault, BeginMicro, BeginMacro, Heartbeat, ReadAccount, AccountUnavailable,
       Query, PassOver, QueryFails, RowsDone, JudgeFault, Drawdown, Send, OrdersDone, Protected,
       GatewayOutage, Unhedged, Book, ResetDies
  <2>2. QED
    BY <1>2, <2>1, QuietDisk, QuietIsUp DEF CountedOnce
<1>3. CASE Boot \/ Replay
  BY <1>3 DEF Boot, Replay, Project, CountedOnce
<1>4. CASE ReplayRaises \/ WriteLatch \/ ResetLatch \/ UNCHANGED vars
  BY <1>4 DEF ReplayRaises, WriteLatch, ResetLatch, vars, CountedOnce
<1>5. CASE Die
  BY <1>5 DEF Die, CountedOnce
<1>6. CASE RepairChain
  <2>1. file \in Seq(AnyLine)
    BY LineIsAnyLine, SeqMonotonic DEF FileOK
  <2>2. CountedOnce'
    BY <1>6, <2>1, RenumberedEvents DEF RepairChain, CountedOnce
  <2>3. QED
    BY <1>6, <2>2 DEF RepairChain
<1>7. CASE ResetJournal
  <2> DEFINE l1 == Line(Note)  l2 == Line("RESET")  g == file \o <<l1, l2>>
  <2>1. g \in Seq(AnyLine) /\ file' = Renumbered(g)
    BY <1>7, ResetLines DEF ResetJournal
  <2>2. l1.ev \notin Entry /\ l2.ev \notin Entry
    BY EntriesApart DEF Line
  <2>3. \A i \in DOMAIN g : g[i].ev \in Entry => i \in DOMAIN file /\ g[i] = file[i]
    BY <2>2, ResetLines DEF FileOK
  <2> HIDE DEF l1, l2, g
  <2>4. DOMAIN file' = DOMAIN g /\ \A i \in DOMAIN g : file'[i].ev = g[i].ev
    BY <2>1, RenumberedEvents
  <2>5. \A i \in DOMAIN file' : file'[i].ev \in Entry => i \in DOMAIN file /\ file'[i].ev = file[i].ev
    BY <2>3, <2>4
  <2>6. CountedOnce'
    BY <2>5 DEF CountedOnce
  <2>7. QED
    BY <1>7, <2>6 DEF ResetJournal
<1>8. QED
  BY <1>1, <1>2, <1>3, <1>4, <1>5, <1>6, <1>7, ByFile

\* A fill or funding payment is journaled at most once.
THEOREM EntriesCountedOnce == Spec => []CountedOnce
<1>1. Init => Once
  BY DEF Init, Once, CountedOnce
<1>2. Once => CountedOnce
  BY DEF Once
<1>3. QED
  BY <1>1, <1>2, OnceStep, Types, PTL DEF Spec

-----------------------------------------------------------------------------
(* The books are judged whole: what the daemon knows is in the journal     *)
(* unless a row has just failed or the chain is broken, and either keeps   *)
(* the reconciliation from its judgement.                                  *)

Reconciling == {"fills", "fillrows", "audit", "funding", "fundingrows", "replay", "judge"}

\* What the queries pass over.
Skipped == passed \cup (IF epoch THEN early ELSE {})

Whole ==
  /\ \/ pc = "down" \/ seen \subseteq Recorded(file) \/ ~Valid(file)
     \/ partial /\ pc \in {"funding", "fundingrows", "replay"}
  /\ epoch => pc # "down" /\ (Epoch \in Recorded(file) \/ ~Valid(file))
  /\ pc \in Reconciling => account \subseteq ledger
  /\ pc \in {"fillrows", "audit"} => account \cap Fill \subseteq batch \cup seen \cup Skipped
  /\ pc \in {"funding", "fundingrows", "replay"} /\ ~partial
       => account \cap Fill \subseteq seen \cup Skipped
  /\ pc = "fundingrows" => account \cap Funding \subseteq batch \cup seen \cup Skipped
  /\ pc = "replay" /\ ~partial => account \cap Funding \subseteq seen \cup Skipped
  /\ pc = "judge" => account \subseteq Recorded(file) \cup Skipped

\* Rows count as known when they are taken up.
LEMMA WholeRow ==
  ASSUME TypeOK, Whole, NEW rows, NEW after, NEW next,
         \/ rows = "fillrows" /\ after = "audit" /\ next = "funding"
         \/ rows = "fundingrows" /\ after = "fundingrows" /\ next = "replay",
         JournalRow(rows, after, next)
  PROVE  Whole'
<1>1. PICK e \in Unseen :
         /\ seen' = seen \cup {e}
         /\ \/ Log(e) /\ batch' = batch \ {e} /\ pc' = after /\ UNCHANGED partial
            \/ LogFails(e) /\ batch' = {} /\ partial' = TRUE /\ pc' = next
  BY Zenon DEF JournalRow
<1>2. e \in Events
  BY EventTypes DEF Unseen, TypeOK, StateOK
<1>3. /\ Valid(file') => Valid(file) /\ Recorded(file) \subseteq Recorded(file')
      /\ Log(e) /\ Valid(file') => e \in Recorded(file')
  BY <1>1, <1>2, LogFacts DEF TypeOK
<1>4. pc = rows /\ UNCHANGED <<account, ledger, early, epoch, passed>>
  BY DEF JournalRow
<1>5. CASE Log(e) /\ batch' = batch \ {e} /\ pc' = after /\ UNCHANGED partial
  BY <1>1, <1>3, <1>4, <1>5 DEF Whole, Reconciling, Skipped
<1>6. CASE LogFails(e) /\ batch' = {} /\ partial' = TRUE /\ pc' = next
  BY <1>1, <1>3, <1>4, <1>6 DEF Whole, Reconciling, Skipped
<1>7. QED
  BY <1>1, <1>5, <1>6

\* Appends that are no row, and the audit record behind one.
OtherLogging ==
  \/ WriteEpoch \/ HaltLogged \/ JudgeFine \/ JudgeDrift \/ RecordHighWater
  \/ FreezeTarget \/ (\E o \in Order : Intend(o)) \/ Confirm \/ CompleteBar

LEMMA WholeLog ==
  ASSUME TypeOK, Whole, OtherLogging \/ AuditFill
  PROVE  Whole'
<1>1. Valid(file') => Valid(file) /\ Recorded(file) \subseteq Recorded(file')
  BY LoggingLogs, LogFacts DEF Logs, Logged, TypeOK, Logging, OtherLogging
<1>2. CASE OtherLogging
  <2>1. pc' \notin Reconciling /\ pc \notin {"funding", "fundingrows", "replay", "down"}
    BY <1>2 DEF OtherLogging, WriteEpoch, HaltLogged, JudgeFine, JudgeDrift, RecordHighWater,
         FreezeTarget, Intend, Confirm, CompleteBar, Announce, AbortCycle, Aborted, Judged,
         Reconciling, TypeOK, StateOK
  <2>2. seen' = seen \/ seen' = Recorded(file') \cap Entry
    BY <1>2 DEF OtherLogging, WriteEpoch, HaltLogged, JudgeFine, JudgeDrift, RecordHighWater,
         FreezeTarget, Intend, Confirm, CompleteBar
  <2>3. pc' # "down"
    BY <1>2 DEF OtherLogging, WriteEpoch, HaltLogged, JudgeFine, JudgeDrift, RecordHighWater,
         FreezeTarget, Intend, Confirm, CompleteBar, Announce, AbortCycle, Aborted, Judged,
         TypeOK, StateOK
  <2>4. epoch' = epoch \/ (epoch' => Epoch \in Recorded(file') \/ ~Valid(file'))
    <3>1. Epoch \in Events
      BY EventTypes
    <3>2. WriteEpoch /\ Log(Epoch) => Epoch \in Recorded(file') \/ ~Valid(file')
      BY <3>1, LogFacts DEF TypeOK
    <3>3. CASE WriteEpoch
      BY <3>2, <3>3 DEF WriteEpoch
    <3>4. CASE ~WriteEpoch
      BY <1>2, <3>4 DEF OtherLogging, HaltLogged, JudgeFine, JudgeDrift, RecordHighWater,
         FreezeTarget, Intend, Confirm, CompleteBar
    <3>5. QED
      BY <3>3, <3>4
  <2>5. QED
    BY <1>1, <2>1, <2>2, <2>3, <2>4 DEF Whole, Reconciling
<1>3. CASE AuditFill
  <2>1. /\ UNCHANGED <<ledger, early, seen, epoch, batch, account, partial, passed>>
        /\ pc = "audit" /\ pc' = "fillrows"
    BY <1>3 DEF AuditFill
  <2>2. QED
    BY <1>1, <2>1 DEF Whole, Reconciling, Skipped
<1>4. QED
  BY <1>2, <1>3

LEMMA WholeStep == TypeOK /\ Whole /\ [Next]_vars => Whole'
<1> SUFFICES ASSUME TypeOK, Whole, [Next]_vars PROVE Whole'
  OBVIOUS
<1>1. CASE \/ JournalRow("fillrows", "audit", "funding")
           \/ JournalRow("fundingrows", "fundingrows", "replay")
  <2>1. CASE JournalRow("fillrows", "audit", "funding")
    BY <2>1, WholeRow
  <2>2. CASE JournalRow("fundingrows", "fundingrows", "replay")
    BY <2>2, WholeRow
  <2>3. QED
    BY <1>1, <2>1, <2>2
<1>2. CASE OtherLogging \/ AuditFill
  BY <1>2, WholeLog
<1> USE DEF Whole, Reconciling
<1>3. CASE Quiet
  <2>1. UNCHANGED file
    BY <1>3, QuietDisk
  <2>2. CASE Query("fills", "fillrows", Fill) \/ Query("funding", "fundingrows", Funding)
    BY <2>1, <2>2 DEF Query, Skipped
  <2>3. CASE \/ QueryFails("fills", "funding") \/ QueryFails("funding", "replay")
             \/ PassOver("fills", "funding", Fill) \/ PassOver("funding", "replay", Funding)
    BY <2>1, <2>3 DEF QueryFails, PassOver, Skipped
  <2>4. CASE RowsDone("fillrows", "funding") \/ RowsDone("fundingrows", "replay")
    BY <2>1, <2>4 DEF RowsDone, Unseen, Skipped
  <2>5. CASE ReadAccount
    BY <2>1, <2>5 DEF ReadAccount
  <2>6. CASE \E e \in Entry : Book(e)
    BY <2>1, <2>6 DEF Book, Skipped
  <2>7. CASE ResetDies
    BY <2>1, <2>7 DEF ResetDies, Skipped
  <2>8. CASE \/ ClockFault \/ BeginMicro \/ BeginMacro \/ Heartbeat \/ AccountUnavailable
             \/ JudgeFault \/ Drawdown \/ Send \/ OrdersDone \/ Protected \/ GatewayOutage \/ Unhedged
    <3>1. /\ pc' \notin Reconciling \cup {"down"} /\ UNCHANGED <<seen, epoch>>
          /\ pc \notin {"funding", "fundingrows", "replay", "down"}
      BY <2>8 DEF ClockFault, BeginMicro, BeginMacro, Heartbeat, AccountUnavailable, JudgeFault, Drawdown,
           Send, OrdersDone, Protected, GatewayOutage, Unhedged, Trip, AbortCycle, Aborted, Continue
    <3>2. QED
      BY <2>1, <3>1
  <2>9. QED
    BY <1>3, <2>2, <2>3, <2>4, <2>5, <2>6, <2>7, <2>8 DEF Quiet
<1>4. CASE Boot
  BY <1>4 DEF Boot, Project
<1>5. CASE Replay
  <2>1. /\ Valid(file) /\ seen' = Recorded(file) \cap Entry /\ UNCHANGED <<file, ledger, early>>
        /\ pc = "replay" /\ pc' # "down" /\ epoch' = (Epoch \in Recorded(file))
    BY <1>5 DEF Replay, Project, AbortCycle, Aborted
  <2>2. CASE partial
    BY <1>5, <2>1, <2>2 DEF Replay, AbortCycle, Aborted
  <2>3. CASE ~partial
    <3>1. account \subseteq seen \cup Skipped /\ seen \subseteq Recorded(file)
      BY <2>1, <2>3 DEF Entry, TypeOK, StateOK
    <3>2. pc' = "judge" /\ UNCHANGED <<account, passed>>
      BY <1>5, <2>3 DEF Replay
    <3>3. epoch => epoch'
      BY <2>1
    <3>4. Skipped \subseteq Skipped'
      BY <2>1, <3>2, <3>3 DEF Skipped
    <3>5. QED
      BY <2>1, <3>1, <3>2, <3>4
  <2>4. QED
    BY <2>2, <2>3
<1>6. CASE ReplayRaises
  BY <1>6 DEF ReplayRaises, AbortCycle, Aborted
<1>7. CASE WriteLatch \/ ResetLatch \/ UNCHANGED vars
  BY <1>7 DEF WriteLatch, ResetLatch, vars, Skipped
<1>8. CASE Die \/ RepairChain \/ ResetJournal
  BY <1>8 DEF Die, RepairChain, ResetJournal
<1>9. QED
  BY <1>1, <1>2, <1>3, <1>4, <1>5, <1>6, <1>7, <1>8, ByFile DEF Logging, OtherLogging

\* The books are judged only when everything behind the account state is in
\* the journal, except what is older than the epoch and what lay behind an
\* answer that was no list.
THEOREM BooksAreWhole == Spec => []JudgedOnWholeBooks
<1>1. Init => Whole
  BY DEF Init, Whole, Reconciling
<1>2. Whole => JudgedOnWholeBooks
  BY DEF Whole, JudgedOnWholeBooks, Skipped
<1>3. QED
  BY <1>1, <1>2, WholeStep, Types, PTL DEF Spec
=============================================================================
