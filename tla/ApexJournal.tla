----------------------------- MODULE ApexJournal -----------------------------
(***************************************************************************)
(* The live trading daemon's journal and circuit breaker                   *)
(* (src/execution/production_apex_daemon.py): an append-only, hash-chained *)
(* event file, the latch file written beside it by trip_halt, the state    *)
(* replayed from the two, and the cycles that reconcile the exchange's     *)
(* fills and funding into the journal, judge the books, and place orders.  *)
(*                                                                         *)
(* The hash of a line is abstracted to its number, so a chain is unbroken  *)
(* when line i has number i and names i-1 as its predecessor.  Lines that  *)
(* no property tells apart are written as Note.  Any write may fail, a     *)
(* bounded number of times; an append that fails leaves nothing, the whole *)
(* line, the line without its newline, or a torn one, and so does a death  *)
(* in an append: it is one right after a failure.  The process may die at  *)
(* any step.  The operator's scripts are assumed to run while the daemon   *)
(* is down, one at a time.                                                 *)
(* Live mode only: the paper modes of the daemon are left out.             *)
(***************************************************************************)
EXTENDS Integers, Sequences

CONSTANTS
  Fill, Funding,  \* entries of the exchange's ledger, by their dedup keys
  Order,          \* client order ids of orders that may add risk
  NoOrder,
  MaxFailures,    \* bound: writes that fail
  MaxLines        \* bound: lines of the journal, and the number a line may carry

Entry == Fill \cup Funding
Note     == "NOTE"
Epoch    == "EPOCH"
TornText == "TORN"
BreakerStates == {"RUNNING", "DEGRADED", "HALTED"}
Events == Entry \cup Order \cup BreakerStates \cup {"RESET", Epoch, Note, TornText}

ASSUME JournalAssumption ==
  /\ Fill \cap Funding = {} /\ Entry \cap Order = {}
  /\ (Entry \cup Order) \cap (BreakerStates \cup {"RESET", Epoch, Note, TornText}) = {}
  /\ NoOrder \notin Order
  /\ MaxFailures \in Nat /\ MaxLines \in Nat

VARIABLES
  file,      \* the journal: lines [id, prev, ev]
  open,      \* its last line lacks the newline
  latch,     \* the emergency latch file exists
  failures,  \* writes that have failed
  spoilt,    \* history: an append failed since the last replay that found nothing amiss
  ledger,    \* fills and funding the exchange has booked
  early,     \* of these, booked before the epoch was stamped
  sent,      \* orders the exchange has accepted
  halt,      \* history: "standing" from trip_halt to the operator's reset, "forgotten"
             \* when the process died with neither latch nor line of it on the disk
  operator,  \* "none", or "reset" between the rewrite and the unlink of the latch
  pc,        \* where the daemon stands
  cycle,     \* the cycle it is in
  breaker,   \* state.circuit_breaker
  lastId, lastHash, \* journal.last_event_id, journal.last_hash
  seen,      \* state.processed_fill_keys and processed_funding_keys
  epoch,     \* state.epoch_start_ms is set
  batch,     \* rows of the answer being journaled
  account,   \* ledger entries behind the account state this cycle judges
  partial,   \* inputs_incomplete is not empty
  passed,    \* history: of account, what lay behind an answer that was no list
  soft,      \* _bracket_transient_degraded
  order,     \* the order in hand
  resume     \* where trip_halt returns to

disk   == <<file, open, latch, failures, spoilt>>
world  == <<ledger, early, sent, halt, operator>>
tail   == <<lastId, lastHash>>
locals == <<batch, account, partial, passed>>
books  == <<seen, epoch, locals>>
memory == <<breaker, tail, books, soft, order, resume>>
vars   == <<disk, world, pc, cycle, memory>>

Cycles == {"micro", "macro", "watch", "final", "sweep"}
Points == {"down", "epoch", "idle", "read", "fills", "fillrows", "audit", "funding", "fundingrows",
           "replay", "judge", "hwm", "target", "orders", "send", "confirm", "protect",
           "bar", "latch", "log"}

-----------------------------------------------------------------------------
(* What a replay makes of the file.                                        *)

Valid(f) == \A i \in DOMAIN f : f[i].id = i /\ f[i].prev = i - 1

\* The reading of f stops behind line n.
StopsAt(f, n) == Valid(SubSeq(f, 1, n)) /\ (n < Len(f) => ~Valid(SubSeq(f, 1, n + 1)))

Recorded(f) == {f[i].ev : i \in DOMAIN f}

\* The event is in f, with none of these behind it.
Stands(f, event, ends) ==
  \E i \in DOMAIN f : f[i].ev = event /\ \A j \in DOMAIN f : j > i => f[j].ev \notin ends

\* Once HALTED, only a reset with the administrator's token changes the state.
BreakerOf(f) ==
  IF Stands(f, "HALTED", {"RESET"}) THEN "HALTED"
  ELSE IF Stands(f, "DEGRADED", {"RESET", "RUNNING"}) THEN "DEGRADED" ELSE "RUNNING"

Init ==
  /\ file = <<>> /\ open = FALSE /\ latch = FALSE /\ failures = 0 /\ spoilt = FALSE
  /\ ledger = {} /\ early = {} /\ sent = {} /\ halt = "none" /\ operator = "none"
  /\ pc = "down" /\ cycle = "sweep" /\ breaker = "RUNNING"
  /\ lastId = 0 /\ lastHash = 0
  /\ seen = {} /\ epoch = FALSE
  /\ batch = {} /\ account = {} /\ partial = FALSE /\ passed = {}
  /\ soft = FALSE /\ order = NoOrder /\ resume = "idle"

-----------------------------------------------------------------------------
(* EventJournal.append_event: the number moves before the write, the hash  *)
(* after it.                                                               *)

Line(e) == [id |-> lastId + 1, prev |-> lastHash, ev |-> e]
Torn == [id |-> 0, prev |-> 0, ev |-> TornText]
TailTorn == file # <<>> /\ file[Len(file)] = Torn

\* A line written behind one without its newline joins it, and neither parses;
\* what stands behind a torn line is never read, and is left out.
Written(l) ==
  CASE TailTorn -> file
    [] open /\ ~TailTorn -> [file EXCEPT ![Len(file)] = Torn]
    [] OTHER -> Append(file, l)

Room == lastId < MaxLines /\ Len(file) < MaxLines

Log(e) ==
  /\ Room
  /\ lastId' = lastId + 1 /\ lastHash' = lastId + 1
  /\ file' = Written(Line(e)) /\ open' = FALSE
  /\ UNCHANGED <<latch, failures, spoilt>>

LogFails(e) ==
  /\ Room /\ failures < MaxFailures
  /\ failures' = failures + 1
  /\ lastId' = lastId + 1
  /\ \/ UNCHANGED <<file, open>>
     \/ file' \in {Written(Line(e)), Written(Torn)} /\ open' = FALSE
     \/ ~TailTorn /\ ~open /\ file' = Append(file, Line(e)) /\ open' = TRUE
  /\ spoilt' = TRUE
  /\ UNCHANGED <<latch, lastHash>>

\* Mutant: every event leaves a processed key.
ProjectAll(state) ==
  /\ Valid(file)
  /\ lastId' = Len(file) /\ lastHash' = Len(file)
  /\ seen' = Recorded(file) /\ epoch' = (Epoch \in Recorded(file))
  /\ breaker' = state
  /\ spoilt' = open

\* EventJournal.replay_and_project when it succeeds.  A last line without its
\* newline parses like any other.
Project(state) ==
  /\ Valid(file)
  /\ lastId' = Len(file) /\ lastHash' = Len(file)
  /\ seen' = Recorded(file) \cap Entry /\ epoch' = (Epoch \in Recorded(file))
  /\ breaker' = state
  /\ spoilt' = open

-----------------------------------------------------------------------------
(* Starting.                                                               *)

BootBreaker == IF latch THEN "HALTED" ELSE BreakerOf(file)

Boot ==
  /\ pc = "down" /\ operator = "none"
  /\ Project(BootBreaker)
  /\ pc' = IF file = <<>> THEN "epoch" ELSE "idle"
  /\ UNCHANGED <<file, open, latch, failures, world, cycle, locals, soft, order, resume>>

\* A clean journal gets its first line and is replayed, the latch unread.  The
\* epoch is stamped some calls after the opening equity was read: an entry
\* booked between the two is early without being behind that equity.
WriteEpoch ==
  /\ pc = "epoch"
  /\ \/ /\ Log(Epoch)
        /\ Valid(file')
        /\ breaker' = BreakerOf(file') /\ epoch' = TRUE /\ early' = ledger
     \/ LogFails(Epoch) /\ early' = ledger /\ UNCHANGED <<breaker, epoch>>
     \/ UNCHANGED <<disk, tail, breaker, epoch, early>>   \* the account state is unavailable
  /\ pc' = "idle"
  /\ UNCHANGED <<ledger, sent, halt, operator, cycle, seen, locals, soft, order, resume>>

-----------------------------------------------------------------------------
(* trip_halt: the latch file, then the journal, then memory.               *)

Trip(return) == pc' = "latch" /\ resume' = return

\* A failure to write the latch is logged and swallowed.
WriteLatch ==
  /\ pc = "latch"
  /\ \/ latch' = TRUE /\ UNCHANGED failures
     \/ failures < MaxFailures /\ failures' = failures + 1 /\ UNCHANGED latch
  /\ halt' = "standing"
  /\ pc' = "log"
  /\ UNCHANGED <<file, open, spoilt, ledger, early, sent, operator, cycle, memory>>

\* Where a cycle goes on an exception: micro and macro verify the brackets.
Aborted == IF cycle \in {"micro", "macro"} THEN "protect" ELSE "idle"
AbortCycle == pc' = Aborted /\ cycle' = "sweep"

\* The local variables of a reconciliation that has ended.
Forget == batch' = {} /\ account' = {} /\ partial' = FALSE /\ passed' = {}

HaltLogged ==
  /\ pc = "log"
  /\ \/ /\ Log("HALTED") /\ pc' = resume /\ UNCHANGED cycle
     \/ /\ LogFails("HALTED")
        /\ IF resume = "hwm" THEN AbortCycle
           ELSE pc' = (IF resume = "protect" THEN "protect" ELSE "idle") /\ UNCHANGED cycle
  /\ breaker' = "HALTED" /\ resume' = "idle"
  /\ UNCHANGED <<world, books, soft, order>>

-----------------------------------------------------------------------------
(* Beginning a cycle, behind the clock gate.                               *)

ClockFault ==
  /\ pc = "idle"
  /\ Trip("idle")
  /\ UNCHANGED <<disk, world, cycle, breaker, tail, books, soft, order>>

BeginMicro ==
  /\ pc = "idle"
  /\ cycle' = IF breaker = "HALTED" THEN "watch" ELSE "micro"
  /\ pc' = "read"
  /\ UNCHANGED <<disk, world, memory>>

BeginMacro ==
  /\ pc = "idle" /\ breaker # "HALTED"
  /\ cycle' = "macro" /\ pc' = "read"
  /\ UNCHANGED <<disk, world, memory>>

\* The 60-second sweep of the brackets.
Heartbeat ==
  /\ pc = "idle" /\ breaker # "HALTED"
  /\ cycle' = "sweep" /\ pc' = "protect"
  /\ UNCHANGED <<disk, world, memory>>

-----------------------------------------------------------------------------
(* reconcile_ledger_events_and_reconstruct_nav.                            *)

ReadAccount ==
  /\ pc = "read"
  /\ account' = ledger /\ partial' = FALSE /\ batch' = {} /\ passed' = {}
  /\ pc' = "fills"
  /\ UNCHANGED <<disk, world, cycle, breaker, tail, seen, epoch, soft, order, resume>>

AccountUnavailable ==
  /\ pc = "read"
  /\ \/ AbortCycle /\ UNCHANGED resume                  \* transient
     \/ Trip(Aborted) /\ cycle' = "sweep"
  /\ UNCHANGED <<disk, world, breaker, tail, books, soft, order>>

\* Rows from before the epoch are skipped.
Query(point, rows, kind) ==
  /\ pc = point
  /\ batch' = (ledger \cap kind) \ (IF epoch THEN early ELSE {})
  /\ pc' = rows
  /\ UNCHANGED <<disk, world, cycle, breaker, tail, seen, epoch, account, partial, passed,
                 soft, order, resume>>

\* An answer that is no list is passed over, and the inputs count as complete.
PassOver(point, next, kind) ==
  /\ pc = point
  /\ passed' = passed \cup (account \cap kind)
  /\ pc' = next
  /\ UNCHANGED <<disk, world, cycle, breaker, tail, seen, epoch, batch, account, partial,
                 soft, order, resume>>

\* Mutant: the failure of a query is only logged.
QueryFailsQuietly(point, next) ==
  /\ pc = point
  /\ pc' = next
  /\ UNCHANGED <<disk, world, cycle, memory>>

QueryFails(point, next) ==
  /\ pc = point
  /\ partial' = TRUE /\ pc' = next
  /\ UNCHANGED <<disk, world, cycle, breaker, tail, seen, epoch, batch, account, passed,
                 soft, order, resume>>

\* Mutant: a row of the 24-hour overlap is journaled again.
UnseenAll == batch

Unseen == batch \ seen

\* A row counts as processed before its line is written; a failed append
\* ends the loop.
JournalRow(rows, after, next) ==
  /\ pc = rows
  /\ \E e \in Unseen :
        /\ seen' = seen \cup {e}
        /\ \/ Log(e) /\ batch' = batch \ {e} /\ pc' = after /\ UNCHANGED partial
           \/ LogFails(e) /\ batch' = {} /\ partial' = TRUE /\ pc' = next
  /\ UNCHANGED <<world, cycle, breaker, epoch, account, passed, soft, order, resume>>

\* IMPLEMENTATION_AUDIT_RECORD behind a fill: any error in it is swallowed.
AuditFill ==
  /\ pc = "audit"
  /\ Log(Note) \/ LogFails(Note) \/ UNCHANGED <<disk, tail>>
  /\ pc' = "fillrows"
  /\ UNCHANGED <<world, cycle, breaker, books, soft, order, resume>>

RowsDone(rows, next) ==
  /\ pc = rows /\ Unseen = {}
  /\ pc' = next /\ batch' = {}
  /\ UNCHANGED <<disk, world, cycle, breaker, tail, seen, epoch, account, partial, passed,
                 soft, order, resume>>

\* Mutant: the breaker is whatever the journal says.
StandingHaltJournalOnly == FALSE

StandingHalt == breaker = "HALTED" \/ latch

Replay ==
  /\ pc = "replay"
  /\ Project(IF StandingHalt THEN "HALTED" ELSE BreakerOf(file))
  /\ IF partial THEN AbortCycle /\ Forget
                ELSE pc' = "judge" /\ UNCHANGED <<cycle, locals>>
  /\ UNCHANGED <<file, open, latch, failures, world, soft, order, resume>>

\* A broken chain raises; the numbers stay where the reading stopped.
ReplayRaises ==
  /\ pc = "replay" /\ ~Valid(file)
  /\ \E n \in 0 .. Len(file) : StopsAt(file, n) /\ lastId' = n /\ lastHash' = n
  /\ AbortCycle /\ Forget
  /\ UNCHANGED <<disk, world, breaker, seen, epoch, soft, order, resume>>

\* Records a change of the breaker; a failed append leaves it as it was.
Announce(state) ==
  \/ Log(state) /\ breaker' = state /\ pc' = "hwm" /\ UNCHANGED cycle
  \/ LogFails(state) /\ AbortCycle /\ UNCHANGED breaker

\* The discrepancy is within tolerance, drifting, or a fault.
JudgeFine ==
  /\ pc = "judge"
  /\ IF breaker = "DEGRADED" THEN Announce("RUNNING")
                             ELSE pc' = "hwm" /\ UNCHANGED <<disk, cycle, breaker, tail>>
  /\ Forget
  /\ UNCHANGED <<world, seen, epoch, soft, order, resume>>

JudgeDrift ==
  /\ pc = "judge"
  /\ IF breaker = "RUNNING" THEN Announce("DEGRADED")
                            ELSE pc' = "hwm" /\ UNCHANGED <<disk, cycle, breaker, tail>>
  /\ Forget
  /\ UNCHANGED <<world, seen, epoch, soft, order, resume>>

JudgeFault ==
  /\ pc = "judge"
  /\ Trip("hwm") /\ Forget
  /\ UNCHANGED <<disk, world, cycle, breaker, tail, seen, epoch, soft, order>>

\* What the caller does with the verdict.
Judged ==
  CASE cycle = "micro" /\ breaker # "HALTED" -> "orders"
    [] cycle = "micro" /\ breaker = "HALTED" -> "protect"
    [] cycle = "macro" /\ breaker # "HALTED" -> "target"
    [] OTHER -> "idle"

\* HWM_UPDATE when the equity is at a new high.
RecordHighWater ==
  /\ pc = "hwm"
  /\ \/ /\ Log(Note) \/ UNCHANGED <<disk, tail>>
        /\ pc' = Judged
        /\ cycle' = IF Judged = "protect" THEN "sweep" ELSE cycle
     \/ LogFails(Note) /\ AbortCycle
  /\ UNCHANGED <<world, breaker, books, soft, order, resume>>

-----------------------------------------------------------------------------
(* Trading.                                                                *)

\* The signals' drawdown checks.
Drawdown ==
  /\ pc = "target"
  /\ Trip("idle")
  /\ UNCHANGED <<disk, world, cycle, breaker, tail, books, soft, order>>

\* TARGET_FROZEN, replayed without a look at the latch.
FreezeTarget ==
  /\ pc = "target"
  /\ \/ /\ Log(Note) /\ Valid(file')
        /\ pc' = "orders" /\ breaker' = BreakerOf(file')
        /\ seen' = Recorded(file') \cap Entry /\ epoch' = (Epoch \in Recorded(file'))
     \/ /\ (Log(Note) /\ ~Valid(file')) \/ LogFails(Note)
        /\ pc' = "idle" /\ UNCHANGED <<breaker, seen, epoch>>
  /\ UNCHANGED <<world, cycle, locals, soft, order, resume>>

\* Mutant: a failed intent does not keep the order back.
IntendRegardless(o) ==
  /\ pc = "orders" /\ o \notin sent
  /\ \/ Log(o) \/ LogFails(o)
  /\ pc' = "send" /\ order' = o
  /\ UNCHANGED <<world, cycle, breaker, books, soft, resume>>

\* ORDER_INTENT: its failure ends a macro cycle, and a micro cycle goes on to
\* the next symbol.
Intend(o) ==
  /\ pc = "orders" /\ o \notin Recorded(file)
  /\ \/ Log(o) /\ pc' = "send" /\ order' = o
     \/ /\ LogFails(o) /\ UNCHANGED order
        /\ pc' = IF cycle = "macro" THEN "idle" ELSE "orders"
  /\ UNCHANGED <<world, cycle, breaker, books, soft, resume>>

\* The exchange takes the order or not; its answer may be lost.
Send ==
  /\ pc = "send"
  /\ sent' \in {sent, sent \cup {order}}
  /\ pc' \in {"confirm", "orders"}
  /\ order' = IF pc' = "confirm" THEN order ELSE NoOrder
  /\ UNCHANGED <<disk, ledger, early, halt, operator, cycle, breaker, tail, books, soft, resume>>

\* ORDER_CONFIRMED or ORDER_REJECTED; a failure is caught.
Confirm ==
  /\ pc = "confirm"
  /\ Log(Note) \/ LogFails(Note)
  /\ pc' = "orders" /\ order' = NoOrder
  /\ UNCHANGED <<world, cycle, breaker, books, soft, resume>>

OrdersDone ==
  /\ pc = "orders"
  /\ pc' = "protect"
  /\ UNCHANGED <<disk, world, cycle, memory>>

-----------------------------------------------------------------------------
(* arm_position_brackets and the end of a cycle.                           *)

\* After the brackets a macro cycle may quote again, unless it is halted.
Continue(state) ==
  \/ cycle = "micro" /\ pc' = "bar" /\ UNCHANGED cycle
  \/ cycle = "macro" /\ state # "HALTED" /\ pc' = "orders" /\ UNCHANGED cycle
  \/ cycle = "macro" /\ pc' = "read" /\ cycle' = "final"
  \/ cycle = "sweep" /\ pc' = "idle" /\ UNCHANGED cycle

\* Without a position the function returns before it looks at the breaker.
Protected ==
  /\ pc = "protect"
  /\ \/ UNCHANGED <<soft, breaker>>
     \/ /\ soft' = FALSE
        /\ breaker' = IF soft /\ breaker = "DEGRADED" THEN "RUNNING" ELSE breaker
  /\ Continue(breaker)
  /\ UNCHANGED <<disk, world, tail, books, order, resume>>

GatewayOutage ==
  /\ pc = "protect"
  /\ soft' = (soft \/ breaker = "RUNNING")
  /\ breaker' = IF breaker = "RUNNING" THEN "DEGRADED" ELSE breaker
  /\ Continue(breaker)
  /\ UNCHANGED <<disk, world, tail, books, order, resume>>

Unhedged ==
  /\ pc = "protect"
  /\ \/ cycle = "micro" /\ Trip("bar") /\ UNCHANGED cycle
     \/ cycle = "macro" /\ Trip("read") /\ cycle' = "final"
     \/ cycle \in {"macro", "sweep"} /\ Trip("idle") /\ UNCHANGED cycle
  /\ UNCHANGED <<disk, world, breaker, tail, books, soft, order>>

\* MICRO_BAR_COMPLETED, then a last reconciliation.
CompleteBar ==
  /\ pc = "bar"
  /\ \/ Log(Note) /\ pc' = "read" /\ cycle' = "final"
     \/ LogFails(Note) /\ pc' = "idle" /\ UNCHANGED cycle
  /\ UNCHANGED <<world, breaker, books, soft, order, resume>>

-----------------------------------------------------------------------------
(* The environment.                                                        *)

\* Memory is gone; so is a halt that neither the latch nor the journal holds.
Die ==
  /\ pc # "down"
  /\ halt' = IF halt = "standing" /\ ~latch /\ BreakerOf(file) # "HALTED"
             THEN "forgotten" ELSE halt
  /\ pc' = "down" /\ cycle' = "sweep" /\ breaker' = "RUNNING"
  /\ lastId' = 0 /\ lastHash' = 0
  /\ seen' = {} /\ epoch' = FALSE
  /\ Forget
  /\ soft' = FALSE /\ order' = NoOrder /\ resume' = "idle"
  /\ UNCHANGED <<disk, ledger, early, sent, operator>>

Book(e) ==
  /\ e \notin ledger
  /\ ledger' = ledger \cup {e}
  /\ UNCHANGED <<disk, early, sent, halt, operator, pc, cycle, memory>>

\* Mutant: the lines are renumbered and not hashed again.
RenumberedOnly(f) == [i \in DOMAIN f |-> [f[i] EXCEPT !.id = i]]

Renumbered(f) == [i \in DOMAIN f |-> [id |-> i, prev |-> i - 1, ev |-> f[i].ev]]

\* scripts/repair_journal_chain.py: every line must parse.
RepairChain ==
  /\ pc = "down" /\ operator = "none"
  /\ TornText \notin Recorded(file)
  /\ file' = Renumbered(file) /\ open' = FALSE
  /\ spoilt' = FALSE
  /\ UNCHANGED <<latch, failures, world, pc, cycle, memory>>

\* scripts/reconcile_and_unhalt_apex.py: a cash flow and the reset, then the latch.
ResetJournal ==
  /\ pc = "down" /\ operator = "none"
  /\ Valid(file) /\ Len(file) + 2 <= MaxLines
  /\ file' = Renumbered(file \o <<Line(Note), Line("RESET")>>) /\ open' = FALSE
  /\ operator' = "reset"
  /\ UNCHANGED <<latch, failures, spoilt, ledger, early, sent, halt, pc, cycle, memory>>

ResetLatch ==
  /\ operator = "reset"
  /\ latch' = FALSE /\ halt' = "none" /\ operator' = "none"
  /\ UNCHANGED <<file, open, failures, spoilt, ledger, early, sent, pc, cycle, memory>>

\* The script dies before it removes the latch; without one it was done.
ResetDies ==
  /\ operator = "reset"
  /\ operator' = "none"
  /\ halt' = IF latch THEN halt ELSE "none"
  /\ UNCHANGED <<disk, ledger, early, sent, pc, cycle, memory>>

Next ==
  \/ Boot \/ WriteEpoch \/ WriteLatch \/ HaltLogged
  \/ ClockFault \/ BeginMicro \/ BeginMacro \/ Heartbeat
  \/ ReadAccount \/ AccountUnavailable
  \/ Query("fills", "fillrows", Fill) \/ QueryFails("fills", "funding")
  \/ PassOver("fills", "funding", Fill)
  \/ JournalRow("fillrows", "audit", "funding") \/ AuditFill \/ RowsDone("fillrows", "funding")
  \/ Query("funding", "fundingrows", Funding) \/ QueryFails("funding", "replay")
  \/ PassOver("funding", "replay", Funding)
  \/ JournalRow("fundingrows", "fundingrows", "replay") \/ RowsDone("fundingrows", "replay")
  \/ Replay \/ ReplayRaises
  \/ JudgeFine \/ JudgeDrift \/ JudgeFault \/ RecordHighWater
  \/ Drawdown \/ FreezeTarget \/ (\E o \in Order : Intend(o)) \/ Send \/ Confirm \/ OrdersDone
  \/ Protected \/ GatewayOutage \/ Unhedged \/ CompleteBar
  \/ Die \/ (\E e \in Entry : Book(e))
  \/ RepairChain \/ ResetJournal \/ ResetLatch \/ ResetDies

Spec == Init /\ [][Next]_vars

-----------------------------------------------------------------------------
(* Properties.                                                             *)

LineType == [id : 0 .. MaxLines, prev : 0 .. MaxLines, ev : Events]

FileOK ==
  /\ file \in Seq(LineType) /\ Len(file) <= MaxLines /\ (open => file # <<>>)
  /\ failures \in 0 .. MaxFailures
  /\ lastId \in 0 .. MaxLines /\ lastHash \in 0 .. MaxLines

FlagsOK ==
  /\ open \in BOOLEAN /\ latch \in BOOLEAN /\ spoilt \in BOOLEAN
  /\ epoch \in BOOLEAN /\ partial \in BOOLEAN /\ soft \in BOOLEAN

StateOK ==
  /\ ledger \subseteq Entry /\ early \subseteq ledger /\ sent \subseteq Order
  /\ halt \in {"none", "standing", "forgotten"} /\ operator \in {"none", "reset"}
  /\ pc \in Points /\ cycle \in Cycles /\ breaker \in BreakerStates
  /\ seen \subseteq Entry /\ batch \subseteq Entry /\ account \subseteq Entry
  /\ passed \subseteq account
  /\ order \in Order \cup {NoOrder}
  /\ pc \in {"send", "confirm"} => order \in Order
  /\ resume \in {"idle", "protect", "hwm", "bar", "read"}

\* Every variable has the values the daemon gives it.
TypeOK == FileOK /\ FlagsOK /\ StateOK

\* After trip_halt has run, no order that may add risk reaches the exchange
\* until the operator's reset is complete: not through a replay, a restart, a
\* failed append, a swallowed failure of the latch, a repair of the chain or a
\* reset that died half-way.  Only a death that finds neither the latch nor the
\* line of the halt on the disk ends it (lines 763-824).
HaltIsLasting == [][sent' # sent => halt # "standing"]_vars

\* A fill or a funding payment is journaled at most once, although every query
\* covers 24 hours again and a failed append forgets what it had marked.
CountedOnce ==
  \A i, j \in DOMAIN file : file[i].ev \in Entry /\ file[i].ev = file[j].ev => i = j

\* The books are judged only when everything behind the account state they are
\* held against is in the journal, whatever queries, rows, audit records and
\* replays failed on the way; except what is older than the epoch, and what lay
\* behind an answer that was no list (lines 2425-2582).
JudgedOnWholeBooks ==
  pc = "judge" =>
    account \subseteq Recorded(file) \cup passed \cup (IF epoch THEN early ELSE {})

\* An order the exchange accepted has its intent in the journal, unless the
\* journal holds a torn line and cannot be replayed at all.
IntentBeforeOrder == sent \subseteq Recorded(file) \/ TornText \in Recorded(file)

\* As long as no append has failed since a replay that found the file whole to
\* the last newline, the file can be replayed, by this process and by the next.
ChainKeepsUp == spoilt \/ Valid(file)

-----------------------------------------------------------------------------
(* What a docstring says and the code does not do.                         *)

\* trip_halt persists the latch first and then appends to the journal,
\* "guaranteeing crash recovery even under disk-full or journal append failure"
\* (lines 785-787).
HaltSurvivesCrash == [][sent' # sent => halt = "none"]_vars
=============================================================================
