----------------------------- MODULE ApexBrackets -----------------------------
(***************************************************************************)
(* The stop losses of the live trading daemon: arm_position_brackets of    *)
(* src/execution/production_apex_daemon.py in live mode, which runs every  *)
(* minute and inside every cycle, against an exchange that fills, triggers *)
(* and loses answers meanwhile.                                            *)
(*                                                                         *)
(* One coin: the coins of a sweep share nothing but the breaker.  Prices   *)
(* are levels of a grid whose step is wider than the tolerances of the     *)
(* code (0.5 % and 1 %), so "within the tolerance" is "on the same level". *)
(* The side of a position is 1 or -1, and side * price grows in the        *)
(* position's favour.  Stops of equal side, size and level count as one.   *)
(* Left out: take-profit triggers, whose failure is only logged, and the   *)
(* state DEGRADED, which does not stop a sweep.                            *)
(***************************************************************************)
EXTENDS Integers

CONSTANTS
  MaxSize,   \* bound: size of the position, in lots
  MaxPrice,  \* bound: price levels 1 .. MaxPrice
  Distance,  \* distances of the catastrophe stop, in levels (clip of 5 ATR)
  FlatDistance, \* distance of the stop of a coin whose ATR is not known
  MaxFaults, \* bound: failed calls and deaths of the process
  MaxMoves   \* bound: moves of the market, of the strategy and of the breaker

ASSUME BracketAssumption ==
  /\ MaxSize \in Nat \ {0} /\ MaxPrice \in Nat \ {0}
  /\ Distance \subseteq Nat \ {0} /\ Distance # {}
  /\ FlatDistance \in Nat \ ({0} \cup Distance)
  /\ MaxFaults \in Nat /\ MaxMoves \in Nat

VARIABLES
  pos, entry, mark, \* the position (signed), its entry price, the mark price
  stops,     \* live stop-loss triggers
  exit,      \* side of the position that a resting reduce-only order closes, or 0
  dist,      \* distance that latest_atr_map yields, or FlatDistance
  halted,    \* the breaker is HALTED
  faults, moves,
  pc,        \* where arm_position_brackets stands
  seen,      \* the account state it has read
  found,     \* the stop behind existing_sl_px, or NoStop
  sl,        \* sl_px
  listed,    \* triggers it is about to cancel
  valid,     \* has_valid_sl
  breached,  \* is_breached
  armed,     \* sl_armed
  still      \* history: nothing but the sweep has touched the position and
             \* its orders since the account was read

exchange == <<pos, entry, stops, exit>>
market   == <<mark, dist>>
bounds   == <<faults, moves>>
plan     == <<seen, found, sl, valid, breached>>
vars     == <<exchange, market, halted, bounds, pc, plan, listed, armed, still>>

Sides == {-1, 1}
Stops == [side : Sides, size : 1 .. MaxSize, px : Int]
NoStop == [side |-> 0, size |-> 0, px |-> 0]
NoReading == [pos |-> 0, entry |-> 0, mark |-> 0, dist |-> 0]

Side(p) == IF p > 0 THEN 1 ELSE IF p < 0 THEN -1 ELSE 0
Size(p) == IF p < 0 THEN -p ELSE p
Lesser(a, b) == IF a < b THEN a ELSE b

Init ==
  /\ pos = 0 /\ stops = {} /\ exit = 0
  /\ entry \in 1 .. MaxPrice /\ mark = entry
  /\ dist \in Distance /\ halted = FALSE
  /\ faults = 0 /\ moves = 0
  /\ pc = "idle" /\ seen = NoReading /\ found = NoStop /\ sl = 0
  /\ listed = {} /\ valid = FALSE /\ breached = FALSE /\ armed = FALSE
  /\ still = FALSE

-----------------------------------------------------------------------------
(* The exchange and the strategy.                                          *)

Fault == faults < MaxFaults /\ faults' = faults + 1
Move == moves < MaxMoves /\ moves' = moves + 1

\* A resting reduce-only order dies with the position it closes.
StillCloses(e, p) == IF Side(p) = e THEN e ELSE 0

\* The average of the entry and the price paid.
Averages == {p \in 1 .. MaxPrice : (entry <= p /\ p <= mark) \/ (mark <= p /\ p <= entry)}

\* Maker orders, dust sweeps and take-profits of the strategy fill.  A macro
\* rebalance sends the difference to its target as an order that is not
\* reduce-only, so one fill may leave a position of the other side, and the
\* stops of the earlier one behind.
Fill ==
  /\ Move
  /\ \E p \in -MaxSize .. MaxSize \ {pos} :
        /\ pos' = p
        /\ IF Side(p) \in {0, Side(pos)}
             THEN entry' \in (IF Size(p) > Size(pos) THEN Averages ELSE {entry})
             ELSE entry' = mark
  /\ exit' = StillCloses(exit, pos')
  /\ still' = FALSE
  /\ UNCHANGED <<stops, market, halted, faults, pc, plan, listed, armed>>

MarkMoves ==
  /\ Move
  /\ mark' \in {mark - 1, mark + 1} \cap 1 .. MaxPrice
  /\ UNCHANGED <<exchange, dist, halted, faults, pc, plan, listed, armed, still>>

\* A stop may fire late; it only ever reduces a position of its own side.
StopFires ==
  /\ \E s \in stops :
        /\ s.side * mark <= s.side * s.px
        /\ stops' = stops \ {s}
        /\ pos' = IF Side(pos) = s.side THEN pos - s.side * Lesser(s.size, Size(pos)) ELSE pos
  /\ exit' = StillCloses(exit, pos')
  /\ still' = FALSE
  /\ UNCHANGED <<entry, market, halted, bounds, pc, plan, listed, armed>>

\* The resting exit fills, or a macro cycle sweeps it with the maker orders.
ExitEnds ==
  /\ Move
  /\ exit # 0
  /\ \/ \E n \in 1 .. Size(pos) : pos' = pos - exit * n
     \/ pos' = pos
  /\ exit' \in (IF pos' = pos THEN {0} ELSE {StillCloses(exit, pos')})
  /\ still' = FALSE
  /\ UNCHANGED <<entry, stops, market, halted, faults, pc, plan, listed, armed>>

\* A macro cycle computes new signals, and with them latest_atr_map.
AtrMoves ==
  /\ pc = "idle"
  /\ Move
  /\ dist' \in Distance \ {dist}
  /\ UNCHANGED <<exchange, mark, halted, faults, pc, plan, listed, armed, still>>

-----------------------------------------------------------------------------
(* arm_position_brackets: it never runs in a loop while HALTED, but a micro  *)
(* cycle that finds itself HALTED after reconciling sweeps once more.      *)

EndSweep ==
  /\ pc' = "idle"
  /\ seen' = NoReading /\ found' = NoStop /\ sl' = 0
  /\ listed' = {} /\ valid' = FALSE /\ breached' = FALSE /\ armed' = FALSE

ReadAccount ==
  /\ pc = "account" \/ (pc = "idle" /\ ~halted)
  /\ seen' = [pos |-> pos, entry |-> entry, mark |-> mark, dist |-> dist]
  /\ still' = TRUE
  /\ pc' = "triggers"
  /\ UNCHANGED <<exchange, market, halted, bounds, found, sl, listed, valid, breached, armed>>

\* A query fails for good: the sweep is put off to the next minute, or the
\* breaker trips.
QueryFails ==
  /\ pc \in {"account", "triggers"} \/ (pc = "idle" /\ ~halted)
  /\ Fault
  /\ EndSweep
  /\ halted' \in {halted, TRUE}
  /\ still' = FALSE
  /\ UNCHANGED <<exchange, market, moves>>

\* compute_v5_catastrophe_bracket: the stop found live is kept when it is
\* tighter than the computed one and more than 1 % from the mark.
Level(r, ex) ==
  LET side == Side(r.pos)
      raw  == r.entry - side * r.dist
  IN IF /\ r.dist \in Distance /\ ex # NoStop
        /\ side * ex.px > side * raw /\ side * ex.px < side * r.mark
       THEN ex.px ELSE raw

\* Past a live stop by more than 0.5 %, or at the level to be armed.
IsBreached(r, ex, level) ==
  LET side == Side(r.pos)
  IN IF ex # NoStop THEN side * r.mark < side * ex.px
                    ELSE side * r.mark <= side * level

\* Mutant: a stop of any size counts.
MatchesLevel(s, r, level) == s.px = level

Matches(s, r, level) == s.size = Size(r.pos) /\ s.px = level

\* Mutant: a reading without a position is not passed over.
ListTriggersAlways ==
  /\ pc = "triggers"
  /\ found' \in (IF stops = {} THEN {NoStop} ELSE stops)
  /\ sl' = Level(seen, found')
  /\ breached' = FALSE /\ valid' = FALSE
  /\ listed' = stops
  /\ pc' = "cancel"
  /\ UNCHANGED <<exchange, market, halted, bounds, seen, armed, still>>

\* The first stop of the answer is existing_sl_px, whatever its side.
ListTriggers ==
  /\ pc = "triggers" /\ seen.pos # 0
  /\ found' \in (IF stops = {} THEN {NoStop} ELSE stops)
  /\ sl' = Level(seen, found')
  /\ breached' = IsBreached(seen, found', sl')
  /\ valid' = (~breached' /\ \E s \in stops : Matches(s, seen, sl'))
  /\ listed' = {s \in stops : breached' \/ ~Matches(s, seen, sl')}
  /\ pc' = "cancel"
  /\ UNCHANGED <<exchange, market, halted, bounds, seen, armed, still>>

ListOrphans ==
  /\ pc = "triggers" /\ seen.pos = 0
  /\ listed' = stops
  /\ pc' = "orphans"
  /\ UNCHANGED <<exchange, market, halted, bounds, plan, armed, still>>

\* A cancel that fails is passed over.
Cancel ==
  /\ pc \in {"cancel", "orphans"}
  /\ \E s \in listed :
        /\ listed' = listed \ {s}
        /\ \/ stops' = stops \ {s} /\ UNCHANGED faults
           \/ Fault /\ UNCHANGED stops
  /\ UNCHANGED <<pos, entry, exit, market, halted, moves, pc, plan, armed, still>>

OrphansSwept ==
  /\ pc = "orphans" /\ listed = {}
  /\ EndSweep
  /\ UNCHANGED <<exchange, market, halted, bounds, still>>

Cancelled ==
  /\ pc = "cancel" /\ listed = {}
  /\ pc' = IF valid THEN "verdict" ELSE IF breached THEN "close" ELSE "place"
  /\ armed' = valid
  /\ UNCHANGED <<exchange, market, halted, bounds, plan, listed, still>>

\* Mutant: a refused stop counts as armed.
PlaceRegardless ==
  /\ pc = "place"
  /\ \/ stops' = stops \cup {[side |-> Side(seen.pos), size |-> Size(seen.pos), px |-> sl]} /\ UNCHANGED faults
     \/ Fault /\ UNCHANGED stops
  /\ armed' = TRUE
  /\ pc' = "verdict"
  /\ UNCHANGED <<pos, entry, exit, market, halted, moves, plan, listed, still>>

\* place_trigger_stop: taken, refused, or taken and the answer lost.
Place ==
  /\ pc = "place"
  /\ \/ /\ stops' = stops \cup {[side |-> Side(seen.pos), size |-> Size(seen.pos), px |-> sl]}
        /\ \/ armed' = TRUE /\ UNCHANGED faults
           \/ armed' = FALSE /\ Fault
     \/ armed' = FALSE /\ Fault /\ UNCHANGED stops
  /\ pc' = "verdict"
  /\ UNCHANGED <<pos, entry, exit, market, halted, moves, plan, listed, still>>

\* close_position: two immediate-or-cancel orders, then a resting one for
\* what they left; all of them reduce-only, and refused when nothing is left.
Closable == IF Side(pos) = Side(seen.pos) THEN Lesser(Size(pos), Size(seen.pos)) ELSE 0

Close ==
  /\ pc = "close"
  /\ \E n \in 0 .. Closable :
        /\ pos' = pos - Side(seen.pos) * n
        /\ \/ /\ n < Closable \/ n = Size(seen.pos)
              /\ armed' = TRUE
              /\ exit' = StillCloses(IF n < Size(seen.pos) THEN Side(seen.pos) ELSE exit, pos')
              /\ UNCHANGED faults
           \/ /\ armed' = FALSE
              /\ exit' \in {StillCloses(e, pos') : e \in {exit, Side(seen.pos)}}
              /\ IF n = Closable /\ n < Size(seen.pos) THEN UNCHANGED faults ELSE Fault
  /\ pc' = "verdict"
  /\ UNCHANGED <<entry, stops, market, halted, moves, plan, listed, still>>

\* An unprotected position trips HALT, which also sweeps the maker orders.
Verdict ==
  /\ pc = "verdict"
  /\ EndSweep
  /\ IF armed THEN UNCHANGED <<exit, halted, still>>
              ELSE halted' = TRUE /\ still' = FALSE /\ exit' \in {0, exit}
  /\ UNCHANGED <<pos, entry, stops, market, bounds>>

-----------------------------------------------------------------------------
(* The daemon around it.                                                   *)

\* Another check trips HALT, at times within a cycle that goes on to sweep.
TripElsewhere ==
  /\ pc = "idle" /\ ~halted
  /\ Move
  /\ halted' = TRUE /\ exit' \in {0, exit} /\ still' = FALSE
  /\ pc' \in {"idle", "account"}
  /\ UNCHANGED <<pos, entry, stops, market, faults, plan, listed, armed>>

\* The operator's reset.
Reset ==
  /\ pc = "idle" /\ halted
  /\ halted' = FALSE
  /\ UNCHANGED <<exchange, market, bounds, pc, plan, listed, armed, still>>

\* The process dies; the cache with the ATRs may be lost with it.
Die ==
  /\ Fault
  /\ EndSweep
  /\ dist' \in {dist, FlatDistance}
  /\ still' = FALSE
  /\ UNCHANGED <<exchange, mark, halted, moves>>

Sweep ==
  \/ ReadAccount \/ ListTriggers \/ ListOrphans
  \/ Cancel \/ OrphansSwept \/ Cancelled \/ Place \/ Close \/ Verdict

World == Fill \/ MarkMoves \/ StopFires \/ ExitEnds \/ AtrMoves

Next == Sweep \/ QueryFails \/ World \/ TripElsewhere \/ Reset \/ Die

Spec == Init /\ [][Next]_vars

\* Sweeps go on: the heartbeat comes every minute and a call returns or raises.
\* The exchange executes a stop that the mark has reached, in the end.
FairSpec == Spec /\ WF_vars(Sweep) /\ WF_vars(StopFires)

-----------------------------------------------------------------------------
(* Properties.                                                             *)

\* The variables keep their types.
TypeOK ==
  /\ pos \in -MaxSize .. MaxSize
  /\ entry \in 1 .. MaxPrice /\ mark \in 1 .. MaxPrice
  /\ stops \subseteq Stops /\ listed \subseteq Stops
  /\ exit \in {0, Side(pos)}
  /\ dist \in Distance \cup {FlatDistance}
  /\ halted \in BOOLEAN /\ valid \in BOOLEAN /\ breached \in BOOLEAN
  /\ armed \in BOOLEAN /\ still \in BOOLEAN
  /\ faults \in 0 .. MaxFaults /\ moves \in 0 .. MaxMoves
  /\ pc \in {"idle", "account", "triggers", "orphans", "cancel", "place", "close", "verdict"}
  /\ seen \in [pos : -MaxSize .. MaxSize, entry : 0 .. MaxPrice, mark : 0 .. MaxPrice, dist : Nat]
  /\ found \in Stops \cup {NoStop}
  /\ sl \in Int

\* A stop of the size of the position that costs it no more than the widest
\* bracket.
Fits(s) ==
  LET side == Side(pos)
  IN /\ s.size = Size(pos)
     /\ \E d \in Distance \cup {FlatDistance} : side * s.px >= side * entry - d

Protects(s) == Fits(s) /\ s.side = Side(pos)

Guarded == exit = Side(pos) \/ \E s \in stops : Protects(s)

\* A stop of an earlier position of the other side, which closes nothing of
\* this one, but fits it: the sweep does not look at the side of a stop.
Mistaken(s) == Fits(s) /\ s.side # Side(pos)

\* A sweep that ends without tripping HALT leaves the position under a live
\* stop of its own side and size, or under an exit order for what is left of
\* it, unless the position or its orders were touched while it ran: whatever
\* the calls of arm_position_brackets answered (its "critical safety
\* invariant", that an unhedged position trips HALT).  The code excepts one
\* case, a stop that an earlier position of the other side left where the
\* sweep would have put its own.
SweepProtects ==
  pc = "idle" /\ still /\ ~halted /\ pos # 0 => Guarded \/ \E s \in stops : Mistaken(s)

\* Once the market, the strategy and the faults are quiet, a position is
\* guarded for good or the daemon is HALTED, whatever stops of other sides,
\* sizes, levels or sweeps were left behind.
GuardLasts == <>[](pos # 0 /\ ~halted => Guarded)

\* A live stop that fits the position and that the mark has not run past is
\* withdrawn for a tighter one only, so that the exchange can execute it.
NativeStopSpared ==
  pc = "cancel" /\ seen.pos # 0 =>
    LET side == Side(seen.pos)
    IN \A s \in listed :
         s.side = side /\ s.size = Size(seen.pos) /\ side * seen.mark >= side * s.px
           => side * sl > side * s.px
=============================================================================
