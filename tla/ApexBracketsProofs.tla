-------------------------- MODULE ApexBracketsProofs --------------------------
(***************************************************************************)
(* That a sweep protects the position or trips HALT, but for a stop of an  *)
(* earlier position that fits it, for any prices, sizes and distances.     *)
(***************************************************************************)
EXTENDS ApexBrackets, TLAPS

USE BracketAssumption

-----------------------------------------------------------------------------
(* Sides and sizes.                                                        *)

LEMMA SideType == ASSUME NEW p \in Int
                  PROVE  /\ Side(p) \in {-1, 0, 1}
                         /\ p = 0 <=> Side(p) = 0
                         /\ p # 0 <=> Side(p) \in Sides
                         /\ Size(p) \in Nat
                         /\ p = 0 <=> Size(p) = 0
                         /\ Size(p) <= MaxSize <=> p \in -MaxSize .. MaxSize
BY DEF Side, Size, Sides

\* Reducing a position leaves its side or nothing.
LEMMA Reduced == ASSUME NEW p \in Int, NEW e \in Sides, Side(p) = e, NEW n \in Nat, n <= Size(p)
                 PROVE  /\ p - e * n \in Int
                        /\ Side(p - e * n) \in {0, e}
                        /\ Size(p - e * n) <= Size(p)
                        /\ Side(p - e * n) = 0 <=> n = Size(p)
<1>1. CASE e = 1
  <2>1. p - e * n = p - n
    BY <1>1
  <2>2. QED  BY <1>1, <2>1 DEF Side, Size
<1>2. CASE e = -1
  <2>1. p - e * n = p + n
    BY <1>2
  <2>2. QED  BY <1>2, <2>1 DEF Side, Size
<1>3. QED  BY <1>1, <1>2 DEF Sides

LEMMA ExitOfPosition == ASSUME NEW e, NEW p \in Int
                        PROVE  StillCloses(e, p) \in {0, Side(p)}
BY DEF StillCloses

\* The stop that is armed costs no more than the distance it was computed from.
LEMMA LevelHolds == ASSUME NEW r \in [pos : -MaxSize .. MaxSize, entry : 0 .. MaxPrice,
                                      mark : 0 .. MaxPrice, dist : Nat],
                           NEW ex \in Stops \cup {NoStop}, r.pos # 0
                    PROVE  /\ Level(r, ex) \in Int
                           /\ Side(r.pos) * Level(r, ex) >= Side(r.pos) * r.entry - r.dist
                           /\ ex = NoStop => Level(r, ex) = r.entry - Side(r.pos) * r.dist
<1> DEFINE side == Side(r.pos)
           raw  == r.entry - side * r.dist
<1>1. r.pos \in Int /\ r.entry \in Int /\ r.mark \in Int /\ r.dist \in Nat
  OBVIOUS
<1>2. side \in Sides
  BY <1>1, SideType
<1>3. ex.px \in Int
  BY DEF Stops, NoStop
<1>4. raw \in Int /\ side * raw = side * r.entry - r.dist
  <2>1. CASE side = 1
    BY <1>1, <2>1
  <2>2. CASE side = -1
    BY <1>1, <2>2
  <2>3. QED  BY <1>2, <2>1, <2>2 DEF Sides
<1>5. CASE Level(r, ex) = raw
  BY <1>1, <1>2, <1>4, <1>5 DEF Sides
<1>6. CASE Level(r, ex) = ex.px /\ ex # NoStop /\ side * ex.px > side * raw
  <2>1. side * ex.px \in Int /\ side * raw \in Int
    BY <1>2, <1>3, <1>4 DEF Sides
  <2>2. side * ex.px >= side * r.entry - r.dist
    BY <2>1, <1>4, <1>6, <1>1, <1>2 DEF Sides
  <2>3. QED  BY <2>2, <1>3, <1>6
<1>7. QED  BY <1>5, <1>6 DEF Level

-----------------------------------------------------------------------------
(* Types.                                                                  *)

\* The stops are looked at for a position, and swept for none.
Reading ==
  /\ pc \in {"cancel", "place", "close"} => seen.pos # 0
  /\ pc = "orphans" => seen.pos = 0

Types == TypeOK /\ Reading

\* What a sweep forgets when it ends.
LEMMA EndTypes == EndSweep => /\ seen' \in [pos : -MaxSize .. MaxSize, entry : 0 .. MaxPrice,
                                            mark : 0 .. MaxPrice, dist : Nat]
                              /\ found' \in Stops \cup {NoStop} /\ sl' \in Int
                              /\ listed' \subseteq Stops /\ pc' = "idle"
                              /\ valid' \in BOOLEAN /\ breached' \in BOOLEAN /\ armed' \in BOOLEAN
<1> SUFFICES ASSUME EndSweep
             PROVE  EndTypes!2
  OBVIOUS
<1>1. valid' \in BOOLEAN /\ breached' \in BOOLEAN /\ armed' \in BOOLEAN
  BY DEF EndSweep
<1>2. seen' \in [pos : -MaxSize .. MaxSize, entry : 0 .. MaxPrice, mark : 0 .. MaxPrice, dist : Nat]
  BY DEF EndSweep, NoReading
<1>3. found' \in Stops \cup {NoStop} /\ sl' \in Int /\ listed' \subseteq Stops /\ pc' = "idle"
  BY DEF EndSweep
<1>4. QED  BY <1>1, <1>2, <1>3

LEMMA TypesInit == Init => Types
<1> SUFFICES ASSUME Init PROVE Types
  OBVIOUS
<1>1. Side(pos) = 0
  BY DEF Init, Side
<1>2. seen \in [pos : -MaxSize .. MaxSize, entry : 0 .. MaxPrice, mark : 0 .. MaxPrice, dist : Nat]
  BY DEF Init, NoReading
<1>3. 0 \in -MaxSize .. MaxSize /\ found \in Stops \cup {NoStop} /\ 0 \in 0 .. MaxFaults /\ 0 \in 0 .. MaxMoves
  BY DEF Init
<1>4. TypeOK
  <2>1. /\ stops \subseteq Stops /\ listed \subseteq Stops /\ sl \in Int
        /\ entry \in 1 .. MaxPrice /\ mark \in 1 .. MaxPrice /\ dist \in Distance \cup {FlatDistance}
    BY DEF Init
  <2>2. /\ halted \in BOOLEAN /\ valid \in BOOLEAN /\ breached \in BOOLEAN
        /\ armed \in BOOLEAN /\ still \in BOOLEAN
    BY DEF Init
  <2>3. QED  BY <2>1, <2>2, <1>1, <1>2, <1>3 DEF Init, TypeOK
<1>5. QED  BY <1>4 DEF Init, Types, Reading

LEMMA TypesStep == Types /\ [Next]_vars => Types'
<1> SUFFICES ASSUME Types, [Next]_vars PROVE Types'
  OBVIOUS
<1> USE DEF Types, Reading
<1>0. /\ TypeOK /\ pos \in Int /\ -MaxSize .. MaxSize \subseteq Int
      /\ NoReading \in [pos : -MaxSize .. MaxSize, entry : 0 .. MaxPrice, mark : 0 .. MaxPrice, dist : Nat]
  BY DEF TypeOK, NoReading
<1>1. CASE Fill
  <2>1. pos' \in -MaxSize .. MaxSize /\ exit' \in {0, Side(pos')}
    BY <1>0, <1>1, ExitOfPosition DEF Fill
  <2>2. entry' \in 1 .. MaxPrice
    BY <1>0, <1>1 DEF Fill, Averages, TypeOK
  <2>3. moves' \in 0 .. MaxMoves
    BY <1>0, <1>1 DEF Fill, Move, TypeOK
  <2>4. still' \in BOOLEAN
    BY <1>1 DEF Fill
  <2>5. QED  BY <1>0, <1>1, <2>1, <2>2, <2>3, <2>4 DEF Fill, TypeOK, plan, market
<1>2. CASE MarkMoves
  BY <1>0, <1>2 DEF MarkMoves, TypeOK, Move, plan, exchange
<1>3. CASE StopFires
  <2>1. PICK s \in stops : /\ stops' = stops \ {s}
                           /\ pos' = IF Side(pos) = s.side
                                       THEN pos - s.side * Lesser(s.size, Size(pos)) ELSE pos
    BY <1>3 DEF StopFires
  <2>2. s.side \in Sides /\ s.size \in Nat
    BY <1>0 DEF TypeOK, Stops
  <2>3. Lesser(s.size, Size(pos)) \in Nat /\ Lesser(s.size, Size(pos)) <= Size(pos)
    BY <1>0, <2>2, SideType DEF Lesser
  <2>4. pos' \in -MaxSize .. MaxSize
    <3>1. CASE Side(pos) = s.side
      <4>1. pos' \in Int /\ Size(pos') <= Size(pos)
        BY <3>1, <2>1, <2>2, <2>3, <1>0, Reduced
      <4>2. Size(pos) <= MaxSize /\ Size(pos) \in Nat /\ Size(pos') \in Nat
        BY <4>1, <1>0, SideType DEF TypeOK
      <4>3. QED  BY <4>1, <4>2, SideType
    <3>2. CASE Side(pos) # s.side
      BY <3>2, <2>1 DEF TypeOK
    <3>3. QED  BY <3>1, <3>2
  <2>5. exit' \in {0, Side(pos')}
    BY <2>4, <1>3, <1>0, ExitOfPosition DEF StopFires
  <2>6. stops' \subseteq Stops /\ still' \in BOOLEAN
    BY <1>0, <1>3 DEF StopFires, TypeOK
  <2>7. UNCHANGED <<entry, market, halted, bounds, pc, plan, listed, armed>>
    BY <1>3 DEF StopFires
  <2>8. QED  BY <1>0, <2>4, <2>5, <2>6, <2>7 DEF TypeOK, bounds, plan, market
<1>4. CASE ExitEnds
  <2>1. pos' \in -MaxSize .. MaxSize
    <3>1. CASE pos' = pos
      BY <3>1 DEF TypeOK
    <3>2. CASE \E n \in 1 .. Size(pos) : pos' = pos - exit * n
      <4>1. exit \in Sides /\ exit = Side(pos)
        BY <1>0, <1>4, SideType DEF ExitEnds, TypeOK, Sides
      <4>2. PICK n \in 1 .. Size(pos) : pos' = pos - exit * n
        BY <3>2
      <4>3. Size(pos) \in Nat /\ n \in Nat /\ n <= Size(pos) /\ Size(pos) <= MaxSize
        BY <1>0, SideType DEF TypeOK
      <4>4. pos' \in Int /\ Size(pos') <= Size(pos)
        BY <4>1, <4>2, <4>3, <1>0, Reduced
      <4>5. Size(pos') \in Nat
        BY <4>4, SideType
      <4>6. QED  BY <4>3, <4>4, <4>5, SideType
    <3>3. QED  BY <3>1, <3>2, <1>4 DEF ExitEnds
  <2>2. exit' \in {0, Side(pos')}
    BY <2>1, <1>4, <1>0, ExitOfPosition DEF ExitEnds
  <2>3. moves' \in 0 .. MaxMoves
    BY <1>0, <1>4 DEF ExitEnds, Move, TypeOK
  <2>4. still' \in BOOLEAN
    BY <1>4 DEF ExitEnds
  <2>5. QED  BY <1>0, <1>4, <2>1, <2>2, <2>3, <2>4 DEF ExitEnds, TypeOK, plan, market
<1>5. CASE AtrMoves
  BY <1>0, <1>5 DEF AtrMoves, TypeOK, Move, plan, exchange
<1>6. CASE ReadAccount
  BY <1>0, <1>6 DEF ReadAccount, TypeOK, exchange, market, bounds
<1>7. CASE QueryFails
  <2>1. EndSweep
    BY <1>7 DEF QueryFails
  <2>2. faults' \in 0 .. MaxFaults
    BY <1>0, <1>7 DEF QueryFails, Fault, TypeOK
  <2>4. still' \in BOOLEAN
    BY <1>7 DEF QueryFails
  <2>3. halted' \in BOOLEAN
    BY <1>0, <1>7 DEF QueryFails, TypeOK
  <2>5. QED  BY <1>0, <1>7, <2>1, <2>2, <2>3, <2>4, EndTypes DEF QueryFails, TypeOK, exchange, market
<1>8. CASE ListTriggers
  <2>1. found' \in Stops \cup {NoStop}
    BY <1>0, <1>8 DEF ListTriggers, TypeOK
  <2>2. sl' \in Int
    BY <1>0, <1>8, <2>1, LevelHolds DEF ListTriggers, TypeOK
  <2>3. breached' \in BOOLEAN /\ valid' \in BOOLEAN
    <3>1. CASE found' # NoStop
      <4>1. breached' = (Side(seen.pos) * seen.mark < Side(seen.pos) * found'.px)
        BY <3>1, <1>8 DEF ListTriggers, IsBreached
      <4>2. QED  BY <4>1, <1>8 DEF ListTriggers
    <3>2. CASE found' = NoStop
      <4>1. breached' = (Side(seen.pos) * seen.mark <= Side(seen.pos) * sl')
        BY <3>2, <1>8 DEF ListTriggers, IsBreached
      <4>2. QED  BY <4>1, <1>8 DEF ListTriggers
    <3>3. QED  BY <3>1, <3>2
  <2>4. listed' \subseteq Stops
    BY <1>0, <1>8 DEF ListTriggers, TypeOK
  <2>5. QED  BY <1>0, <1>8, <2>1, <2>2, <2>3, <2>4 DEF ListTriggers, TypeOK, exchange, market, bounds
<1>9. CASE ListOrphans
  BY <1>0, <1>9 DEF ListOrphans, TypeOK, exchange, market, bounds, plan
<1>10. CASE Cancel
  <2>1. faults' \in 0 .. MaxFaults /\ stops' \subseteq Stops /\ listed' \subseteq Stops
    BY <1>0, <1>10 DEF Cancel, Fault, TypeOK
  <2>2. QED  BY <1>0, <1>10, <2>1 DEF Cancel, TypeOK, market, plan
<1>11. CASE OrphansSwept
  BY <1>0, <1>11 DEF OrphansSwept, EndSweep, TypeOK, exchange, market, bounds
<1>12. CASE Cancelled
  BY <1>0, <1>12 DEF Cancelled, TypeOK, exchange, market, bounds, plan
<1>13. CASE Place
  <2>1. [side |-> Side(seen.pos), size |-> Size(seen.pos), px |-> sl] \in Stops
    <3>1. seen.pos \in Int /\ seen.pos # 0 /\ seen.pos \in -MaxSize .. MaxSize /\ sl \in Int
      BY <1>0, <1>13 DEF Place, TypeOK
    <3>2. Side(seen.pos) \in Sides /\ Size(seen.pos) \in 1 .. MaxSize
      BY <3>1, SideType
    <3>3. QED  BY <3>1, <3>2 DEF Stops
  <2>2. stops' \subseteq Stops
    BY <1>0, <1>13, <2>1 DEF Place, TypeOK
  <2>4. armed' \in BOOLEAN
    BY <1>13 DEF Place
  <2>5. faults' \in 0 .. MaxFaults
    BY <1>0, <1>13 DEF Place, Fault, TypeOK
  <2>6. QED  BY <1>0, <1>13, <2>2, <2>4, <2>5 DEF Place, TypeOK, market, plan
<1>14. CASE Close
  <2>1. seen.pos \in Int /\ seen.pos # 0 /\ Side(seen.pos) \in Sides /\ Size(seen.pos) \in Nat
    BY <1>0, <1>14, SideType DEF Close, TypeOK
  <2>2. PICK n \in 0 .. Closable : pos' = pos - Side(seen.pos) * n
    BY <1>14 DEF Close
  <2>3. pos' \in -MaxSize .. MaxSize
    <3>1. CASE Side(pos) = Side(seen.pos)
      <4>1. Size(pos) \in Nat /\ Size(pos) <= MaxSize
        BY <1>0, SideType DEF TypeOK
      <4>2. n \in Nat /\ n <= Size(pos)
        BY <4>1, <3>1, <2>1, <2>2 DEF Closable, Lesser
      <4>3. pos' \in Int /\ Size(pos') <= Size(pos)
        BY <4>2, <3>1, <2>1, <2>2, <1>0, Reduced
      <4>4. Size(pos') \in Nat
        BY <4>3, SideType
      <4>5. QED  BY <4>1, <4>3, <4>4, SideType
    <3>2. CASE Side(pos) # Side(seen.pos)
      <4>1. n = 0 /\ Side(seen.pos) * 0 = 0
        BY <3>2, <2>1 DEF Closable, Sides
      <4>2. QED  BY <4>1, <2>2, <1>0 DEF TypeOK
    <3>3. QED  BY <3>1, <3>2
  <2>4. exit' \in {0, Side(pos')}
    BY <2>3, <1>14, <1>0, ExitOfPosition DEF Close
  <2>5. faults' \in 0 .. MaxFaults
    BY <1>0, <1>14 DEF Close, Fault, TypeOK
  <2>6. armed' \in BOOLEAN
    BY <1>14 DEF Close
  <2>7. QED  BY <1>0, <1>14, <2>3, <2>4, <2>5, <2>6 DEF Close, TypeOK, market, plan
<1>15. CASE Verdict
  <2>1. EndSweep
    BY <1>15 DEF Verdict
  <2>2. halted' \in BOOLEAN /\ still' \in BOOLEAN
    BY <1>0, <1>15 DEF Verdict, TypeOK
  <2>3. exit' \in {0, Side(pos')}
    BY <1>0, <1>15 DEF Verdict, TypeOK
  <2>4. QED  BY <1>0, <1>15, <2>1, <2>2, <2>3, EndTypes DEF Verdict, TypeOK, market, bounds
<1>16. CASE TripElsewhere
  <2>1. halted' \in BOOLEAN /\ still' \in BOOLEAN /\ exit' \in {0, Side(pos')}
    BY <1>0, <1>16 DEF TripElsewhere, TypeOK
  <2>2. moves' \in 0 .. MaxMoves
    BY <1>0, <1>16 DEF TripElsewhere, Move, TypeOK
  <2>3. QED  BY <1>0, <1>16, <2>1, <2>2 DEF TripElsewhere, TypeOK, market, plan
<1>17. CASE Reset
  BY <1>0, <1>17 DEF Reset, TypeOK, exchange, market, bounds, plan
<1>18. CASE Die
  <2>1. EndSweep
    BY <1>18 DEF Die
  <2>2. faults' \in 0 .. MaxFaults /\ dist' \in Distance \cup {FlatDistance}
    BY <1>18, <1>0 DEF Die, Fault, TypeOK
  <2>3. still' \in BOOLEAN
    BY <1>18 DEF Die
  <2>4. QED  BY <1>0, <1>18, <2>1, <2>2, <2>3, EndTypes DEF Die, TypeOK, exchange
<1>19. CASE UNCHANGED vars
  BY <1>0, <1>19 DEF vars, TypeOK, exchange, market, bounds, plan
<1>20. QED
  BY <1>1, <1>2, <1>3, <1>4, <1>5, <1>6, <1>7, <1>8, <1>9, <1>10, <1>11, <1>12, <1>13,
     <1>14, <1>15, <1>16, <1>17, <1>18, <1>19 DEF Next, Sweep, World

\* The variables of the sweep and of the exchange keep their types.
THEOREM TypeCorrect == Spec => []TypeOK
<1>1. Spec => []Types
  BY TypesInit, TypesStep, PTL DEF Spec
<1>2. QED  BY <1>1, PTL DEF Types

-----------------------------------------------------------------------------
(* The level to be armed is the one computed from what was read.           *)

Computed == pc \in {"cancel", "place", "close"} => sl = Level(seen, found)

Known == Types /\ Computed

LEMMA KnownInit == Init => Known
BY TypesInit DEF Init, Known, Computed

LEMMA KnownStep == Known /\ [Next]_vars => Known'
<1> SUFFICES ASSUME Known, [Next]_vars PROVE Computed'
  BY TypesStep DEF Known
<1>0. Computed
  BY DEF Known
<1>1. CASE World \/ Reset
  <2>1. UNCHANGED <<pc, plan>>
    BY <1>1 DEF World, Fill, MarkMoves, StopFires, ExitEnds, AtrMoves, Reset
  <2>2. QED  BY <1>0, <2>1 DEF Computed, plan
<1>2. CASE QueryFails \/ OrphansSwept \/ Verdict \/ Die
  BY <1>2 DEF QueryFails, OrphansSwept, Verdict, Die, EndSweep, Computed
<1>3. CASE ReadAccount \/ TripElsewhere
  BY <1>3 DEF ReadAccount, TripElsewhere, Computed
<1>4. CASE ListTriggers
  BY <1>4 DEF ListTriggers, Computed
<1>5. CASE ListOrphans \/ Place \/ Close
  BY <1>5 DEF ListOrphans, Place, Close, Computed
<1>6. CASE Cancel \/ Cancelled
  <2>1. pc \in {"cancel", "orphans"} /\ UNCHANGED plan /\ (pc = "orphans" => pc' = "orphans")
    BY <1>6 DEF Cancel, Cancelled
  <2>2. QED  BY <1>0, <2>1 DEF Computed, plan
<1>7. CASE UNCHANGED vars
  BY <1>0, <1>7 DEF vars, plan, Computed
<1>8. QED
  BY <1>1, <1>2, <1>3, <1>4, <1>5, <1>6, <1>7 DEF Next, Sweep

-----------------------------------------------------------------------------
(* A sweep that nothing disturbs leaves the position guarded.              *)

\* An exit order, or a stop that fits the position, of whatever side.
Covered == exit = Side(pos) \/ \E s \in stops : Fits(s)

Sweeping == pc \in {"triggers", "orphans", "cancel", "place", "close"}

Kept ==
  /\ Sweeping => seen.dist \in Distance \cup {FlatDistance}
  /\ Sweeping /\ still => pos = seen.pos /\ entry = seen.entry
  /\ pc = "cancel" /\ still /\ valid => \E s \in stops \ listed : Fits(s)
  /\ still /\ pos # 0 /\ (pc = "idle" \/ (pc = "verdict" /\ armed)) => Covered

\* A stop of the level computed for the position as it was read fits it.
LEMMA ArmedFits == ASSUME NEW r \in [pos : -MaxSize .. MaxSize, entry : 0 .. MaxPrice,
                                         mark : 0 .. MaxPrice, dist : Nat],
                              NEW ex \in Stops \cup {NoStop},
                              r.dist \in Distance \cup {FlatDistance},
                              r.pos # 0, r.pos = pos, r.entry = entry,
                              NEW s, s.size = Size(r.pos), s.px = Level(r, ex)
                       PROVE  Fits(s)
<1>1. Side(r.pos) * s.px >= Side(r.pos) * r.entry - r.dist
  BY LevelHolds
<1>2. QED  BY <1>1 DEF Fits

LEMMA KeptInit == Init => Kept
BY DEF Init, Kept, Sweeping

LEMMA KeptStep == Known /\ Kept /\ [Next]_vars => Kept'
<1> SUFFICES ASSUME Known, Kept, [Next]_vars PROVE Kept'
  OBVIOUS
<1>0. Types /\ Computed
  BY DEF Known
<1>t. /\ seen \in [pos : -MaxSize .. MaxSize, entry : 0 .. MaxPrice, mark : 0 .. MaxPrice, dist : Nat]
      /\ pos \in Int /\ seen.pos \in Int
      /\ stops \subseteq Stops /\ found \in Stops \cup {NoStop}
      /\ dist \in Distance \cup {FlatDistance}
  BY <1>0 DEF Types, TypeOK
<1>1. CASE Fill \/ StopFires \/ ExitEnds
  <2>1. still' = FALSE /\ UNCHANGED <<pc, plan>>
    BY <1>1 DEF Fill, StopFires, ExitEnds
  <2>2. QED  BY <2>1 DEF Kept, Sweeping, plan
<1>2. CASE MarkMoves \/ AtrMoves \/ Reset
  <2>1. UNCHANGED <<exchange, pc, plan, listed, armed, still>>
    BY <1>2 DEF MarkMoves, AtrMoves, Reset
  <2>2. QED  BY <2>1 DEF Kept, Sweeping, exchange, plan, Covered, Fits
<1>3. CASE QueryFails \/ Die
  <2>1. still' = FALSE /\ pc' = "idle"
    BY <1>3 DEF QueryFails, Die, EndSweep
  <2>2. QED  BY <2>1 DEF Kept, Sweeping
<1>4. CASE ReadAccount
  <2>1. /\ UNCHANGED <<pos, entry>> /\ pc' = "triggers"
        /\ seen'.pos = pos /\ seen'.entry = entry /\ seen'.dist = dist
    BY <1>4 DEF ReadAccount, exchange
  <2>2. QED  BY <1>t, <2>1 DEF Kept, Sweeping
<1>5. CASE ListTriggers
  <2>1. /\ UNCHANGED <<pos, entry, stops, seen, still>> /\ pc = "triggers" /\ pc' = "cancel"
        /\ seen.pos # 0 /\ sl' = Level(seen, found')
        /\ found' \in stops \cup {NoStop}
    BY <1>5 DEF ListTriggers, exchange
  <2>2. ASSUME still, valid' PROVE \E s \in stops \ listed' : Fits(s)
    <3>1. PICK s \in stops : Matches(s, seen, sl')
      BY <1>5, <2>2 DEF ListTriggers
    <3>2. s \notin listed'
      BY <1>5, <2>2, <3>1 DEF ListTriggers
    <3>4. seen.pos = pos /\ seen.entry = entry /\ seen.dist \in Distance \cup {FlatDistance}
      BY <2>1, <2>2 DEF Kept, Sweeping
    <3>5. found' \in Stops \cup {NoStop}
      BY <1>t, <2>1
    <3>6. Fits(s)
      BY <1>t, <2>1, <3>1, <3>4, <3>5, ArmedFits DEF Matches
    <3>7. QED  BY <3>1, <3>2, <3>6
  <2>3. QED  BY <2>1, <2>2 DEF Kept, Sweeping, Fits
<1>6. CASE ListOrphans
  <2>1. UNCHANGED <<exchange, plan, still>> /\ pc = "triggers" /\ pc' = "orphans"
    BY <1>6 DEF ListOrphans
  <2>2. QED  BY <2>1 DEF Kept, Sweeping, exchange, plan
<1>7. CASE Cancel
  <2>1. /\ UNCHANGED <<pos, entry, exit, pc, plan, armed, still>>
        /\ pc \in {"cancel", "orphans"}
        /\ stops \ listed \subseteq stops' \ listed'
    BY <1>7 DEF Cancel
  <2>2. QED  BY <2>1 DEF Kept, Sweeping, plan, Fits
<1>8. CASE OrphansSwept
  <2>1. UNCHANGED <<exchange, still>> /\ pc = "orphans" /\ pc' = "idle" /\ seen.pos = 0
    BY <1>0, <1>8 DEF OrphansSwept, EndSweep, Types, Reading
  <2>2. QED  BY <2>1 DEF Kept, Sweeping, exchange
<1>9. CASE Cancelled
  <2>1. UNCHANGED <<exchange, plan, still>> /\ pc = "cancel" /\ listed = {}
        /\ armed' = valid /\ pc' \in {"verdict", "close", "place"}
    BY <1>9 DEF Cancelled
  <2>2. QED  BY <2>1 DEF Kept, Sweeping, exchange, plan, Covered, Fits
<1>10. CASE Place
  <2> DEFINE new == [side |-> Side(seen.pos), size |-> Size(seen.pos), px |-> sl]
  <2>1. UNCHANGED <<pos, entry, exit, plan, still>> /\ pc = "place" /\ pc' = "verdict"
        /\ (armed' => new \in stops')
    BY <1>10 DEF Place
  <2>2. ASSUME still PROVE Fits(new)
    <3>1. seen.pos = pos /\ seen.entry = entry /\ seen.dist \in Distance \cup {FlatDistance}
      BY <2>1, <2>2 DEF Kept, Sweeping
    <3>2. sl = Level(seen, found) /\ seen.pos # 0
      BY <1>0, <2>1 DEF Computed, Types, Reading
    <3>3. QED  BY <1>t, <3>1, <3>2, ArmedFits
  <2>3. QED  BY <2>1, <2>2 DEF Kept, Sweeping, Covered, Fits
<1>11. CASE Close
  <2>1. UNCHANGED <<entry, seen, still>> /\ pc = "close" /\ pc' = "verdict" /\ seen.pos # 0
    BY <1>0, <1>11 DEF Close, plan, Types, Reading
  <2>2. ASSUME still, armed', pos' # 0 PROVE exit' = Side(pos')
    <3>1. seen.pos = pos
      BY <2>1, <2>2 DEF Kept, Sweeping
    <3>2. Side(pos) \in Sides /\ Size(pos) \in Nat
      BY <1>t, <2>1, <3>1, SideType
    <3>3. Closable = Size(pos)
      BY <3>1, <3>2 DEF Closable, Lesser
    <3>4. PICK n \in 0 .. Size(pos) :
            /\ pos' = pos - Side(pos) * n
            /\ exit' = StillCloses(IF n < Size(pos) THEN Side(pos) ELSE exit, pos')
      BY <1>11, <2>2, <3>1, <3>3 DEF Close
    <3>5. n \in Nat /\ n <= Size(pos)
      BY <3>2, <3>4
    <3>6. pos' \in Int /\ Side(pos') \in {0, Side(pos)} /\ (Side(pos') = 0 <=> n = Size(pos))
      BY <1>t, <3>2, <3>4, <3>5, Reduced
    <3>7. Side(pos') # 0
      BY <2>2, <3>6, SideType
    <3>8. QED  BY <3>2, <3>4, <3>5, <3>6, <3>7 DEF StillCloses
  <2>3. QED  BY <2>1, <2>2 DEF Kept, Sweeping, Covered
<1>12. CASE Verdict
  <2>1. UNCHANGED <<pos, entry, stops>> /\ pc = "verdict" /\ pc' = "idle"
        /\ (armed => UNCHANGED <<exit, still>>) /\ (~armed => still' = FALSE)
    BY <1>12 DEF Verdict, EndSweep
  <2>2. QED  BY <2>1 DEF Kept, Sweeping, Covered, Fits
<1>13. CASE TripElsewhere
  <2>1. still' = FALSE /\ pc' \in {"idle", "account"}
    BY <1>13 DEF TripElsewhere
  <2>2. QED  BY <2>1 DEF Kept, Sweeping
<1>14. CASE UNCHANGED vars
  BY <1>14 DEF vars, exchange, plan, Kept, Sweeping, Covered, Fits
<1>15. QED
  BY <1>1, <1>2, <1>3, <1>4, <1>5, <1>6, <1>7, <1>8, <1>9, <1>10, <1>11, <1>12, <1>13, <1>14
     DEF Next, Sweep, World

\* A sweep that ends without HALT leaves the position under a stop of its own
\* side and size or under an exit order, whatever its calls answered, if
\* nothing else touched the position meanwhile; the only other stop it may rest
\* on is one that an earlier position left and that fits.
THEOREM SweepsProtect == Spec => []SweepProtects
<1>1. Init => Known /\ Kept
  BY KnownInit, KeptInit
<1>2. Known /\ Kept /\ [Next]_vars => (Known /\ Kept)'
  BY KnownStep, KeptStep
<1>3. Kept => SweepProtects
  BY DEF Kept, Covered, SweepProtects, Guarded, Protects, Mistaken
<1>4. QED  BY <1>1, <1>2, <1>3, PTL DEF Spec
=============================================================================
