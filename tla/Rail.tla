-------------------------------- MODULE Rail --------------------------------
(***************************************************************************)
(* How the web client reorders the rows of its rail                        *)
(* (apps/web/src/lib/workspace/rail-order-commit.ts, rail-order-state.ts,  *)
(* rail-order.ts, queries.ts).                                             *)
(*                                                                         *)
(* Every sibling list is a scope that commits its moves on its own, and    *)
(* all of them share one read of the workspace, which many things restart  *)
(* that know nothing of a move.  The read is never patched with a move:    *)
(* what is shown is the latest read with moves replayed over it, a pending *)
(* one over every read, an accepted one over the reads that began before   *)
(* it was accepted, told by a clock that ticks on each acceptance.         *)
(***************************************************************************)
EXTENDS Naturals, SequencesExt

CONSTANTS
  Scopes,      \* the lists of the rail
  Rows,        \* the rows of each of them
  End,         \* the anchor of a move to the end (null)
  NotYet,      \* a read the runtime has not served
  MaxSteps     \* drops the user makes and rows that leave or come, together

ASSUME RailAssumption ==
  /\ \A s \in Scopes : IsFiniteSet(Rows[s]) /\ End \notin Rows[s]
  /\ MaxSteps \in Nat

VARIABLES
  order,     \* the runtime's order of each list
  read,      \* workspaceReadAtom: its data, the clock when it began, whether it is the last answer
  flight,    \* the read that is in flight, at most one
  waiting,   \* some settled commit waits for the read in flight
  retiring,  \* when the reads began whose commits have still to retire what they contain
  entry,     \* RailOrderState.entries
  accepted,  \* RailOrderState.accepted: the moves, by what the clock was when they were
  clock,     \* RailOrderState.clock
  dirty,     \* a row came or went, and no read has begun since
  steps

\* For the properties only.
VARIABLE
  kept       \* the move the runtime made last in each list, while no answer of one is lost and no
             \* row has come since

rail  == <<entry, accepted, clock>>
reads == <<read, flight, waiting, retiring>>
vars  == <<order, reads, rail, dirty, steps, kept>>

Moves(s) == [scope : {s}, row : Rows[s], before : Rows[s] \union {End}]
NoMove   == [scope |-> End, row |-> End, before |-> End]
Clear    == [status |-> "clear", move |-> NoMove, write |-> "none"]
Failed   == [Clear EXCEPT !.status = "failed"]
NoFlight == [begun |-> FALSE, startedAt |-> 0, data |-> NotYet]
Fresh(at) == [begun |-> TRUE, startedAt |-> at, data |-> NotYet]

Init ==
  /\ order \in [Scopes -> UNION {SetToSeqs(Rows[s]) : s \in Scopes}]
  /\ \A s \in Scopes : order[s] \in SetToSeqs(Rows[s])
  /\ read = [data |-> order, startedAt |-> 0, ok |-> TRUE]
  /\ flight = NoFlight /\ waiting = FALSE /\ retiring = {}
  /\ entry = [s \in Scopes |-> Clear] /\ accepted = [t \in {} |-> NoMove] /\ clock = 0
  /\ dirty = FALSE /\ steps = 0
  /\ kept = [s \in Scopes |-> NoMove]

\* Whether the row and the anchor of a move are both in the list.
Placeable(ids, m) ==
  /\ Contains(ids, m.row)
  /\ m.before = End \/ Contains(ids, m.before)

\* Faulty: the row stays where it was, too.
InsertBefore(ids, m) ==
  LET at == IF m.before = End THEN Len(ids) + 1 ELSE CHOOSE i \in DOMAIN ids : ids[i] = m.before
  IN  IF Placeable(ids, m) /\ m.before # m.row THEN InsertAt(ids, at, m.row) ELSE ids

\* A list has a row at most once.
Position(ids, r) == CHOOSE i \in DOMAIN ids : ids[i] = r
Without(ids, r)  == RemoveAt(ids, Position(ids, r))

\* Takes the row out and puts it before its anchor; a move that has no place changes nothing.
moveBefore(ids, m) ==
  LET rest == Without(ids, m.row)
      at   == IF m.before = End THEN Len(rest) + 1 ELSE Position(rest, m.before)
  IN  IF Placeable(ids, m) /\ m.before # m.row THEN InsertAt(rest, at, m.row) ELSE ids

applyRailMove(data, m) == [data EXCEPT ![m.scope] = moveBefore(@, m)]

Pending(s) == entry[s].status = "pending"

\* The held read with the accepted moves replayed that it may not know, those up to time t, in the
\* order of their acceptance.
replayed[t \in read.startedAt..clock] ==
  IF t = read.startedAt THEN read.data
  ELSE IF t \in DOMAIN accepted THEN applyRailMove(replayed[t - 1], accepted[t])
  ELSE replayed[t - 1]

\* What list s shows of it under the entries e: a pending move comes last.
projectRailOrder(s, e) ==
  IF e[s].status = "pending" THEN moveBefore(replayed[clock][s], e[s].move) ELSE replayed[clock][s]

Shown(s) == projectRailOrder(s, entry)

----------------------------------------------------------------------------
\* A drop: a list that awaits an answer refuses it, and one that changes nothing is not sent.
claim(s) ==
  /\ steps < MaxSteps /\ ~Pending(s)
  /\ \E m \in Moves(s) :
       /\ moveBefore(Shown(s), m) # Shown(s)
       /\ entry' = [entry EXCEPT ![s] = [status |-> "pending", move |-> m, write |-> "sent"]]
  /\ steps' = steps + 1
  /\ UNCHANGED <<order, reads, accepted, clock, dirty, kept>>

\* The runtime checks the row and the anchor and moves the row, in one transaction.
RuntimeMoves(s) ==
  LET m == entry[s].move IN
  /\ entry[s].write = "sent"
  /\ entry' = [entry EXCEPT ![s].write = IF Placeable(order[s], m) THEN "moved"
                                        ELSE IF Contains(order[s], m.row) THEN "anchor gone"
                                        ELSE "row gone"]
  /\ order' = [order EXCEPT ![s] = moveBefore(@, m)]
  /\ kept' = [kept EXCEPT ![s] = IF Placeable(order[s], m) THEN m ELSE @]
  /\ UNCHANGED <<reads, accepted, clock, dirty, steps>>

\* The commit of s is over: once no list awaits an answer, a read that begins now takes the place
\* of the one in flight, and the commit waits for it.
refreshWhenAllSettled(s) ==
  /\ UNCHANGED <<read, retiring>>
  /\ IF \E t \in Scopes \ {s} : Pending(t)
     THEN UNCHANGED <<flight, waiting, dirty>>
     ELSE flight' = Fresh(clock') /\ waiting' = TRUE /\ dirty' = FALSE

\* The runtime's answer arrives: the move is no longer pending but accepted.
Accepted(s) ==
  /\ entry[s].write = "moved"
  /\ clock' = clock + 1
  /\ entry' = [entry EXCEPT ![s] = Clear]
  /\ accepted' = [t \in DOMAIN accepted \union {clock'} |->
                    IF t = clock' THEN entry[s].move ELSE accepted[t]]
  /\ refreshWhenAllSettled(s)
  /\ UNCHANGED <<order, steps, kept>>

\* Faulty: what was refused, as far as the client knows, has changed nothing to be read again.
RollBackOnly(s) ==
  /\ Pending(s)
  /\ entry' = [entry EXCEPT ![s] = Failed]
  /\ kept' = [kept EXCEPT ![s] = IF entry[s].write = "moved" THEN NoMove ELSE @]
  /\ UNCHANGED <<order, reads, accepted, clock, dirty, steps>>

\* The write fails: the runtime refused it, it never arrived, or its answer is lost.  The refusal
\* stays at the list if that still has the row, as told by the answer, if it came, and by what is
\* now shown.
rollBackAndReport(s) ==
  LET m     == entry[s].move
      shown == projectRailOrder(s, [entry EXCEPT ![s] = Clear])
  IN
  /\ Pending(s)
  /\ \E answered \in BOOLEAN :
       LET gone == (answered /\ entry[s].write = "row gone") \/ ~Contains(shown, m.row) IN
       entry' = [entry EXCEPT ![s] = IF gone THEN Clear ELSE Failed]
  /\ kept' = [kept EXCEPT ![s] = IF entry[s].write = "moved" THEN NoMove ELSE @]
  /\ UNCHANGED <<order, accepted, clock, steps>>
  /\ refreshWhenAllSettled(s)

clearRailOrderFailure(s) ==
  /\ entry[s].status = "failed"
  /\ entry' = [entry EXCEPT ![s] = Clear]
  /\ UNCHANGED <<order, reads, accepted, clock, dirty, steps, kept>>

----------------------------------------------------------------------------
\* An event, the focus or a reconciliation reads the workspace again: the read in flight is
\* disposed of, and whoever waits for it waits for the new one.
refresh ==
  /\ flight' = Fresh(clock) /\ dirty' = FALSE
  /\ UNCHANGED <<order, read, waiting, retiring, rail, steps, kept>>

\* The runtime answers the read; when an attempt fails the same read is asked for again (policy.ts),
\* so that what it brings may be much younger than it is.
ReadServed ==
  /\ flight.begun /\ flight.data = NotYet
  /\ flight' = [flight EXCEPT !.data = order]
  /\ UNCHANGED <<order, read, waiting, retiring, rail, dirty, steps, kept>>

ReadLands ==
  /\ flight.data # NotYet
  /\ read' = [data |-> flight.data, startedAt |-> flight.startedAt, ok |-> TRUE]
  /\ flight' = NoFlight /\ waiting' = FALSE
  /\ retiring' = IF waiting THEN retiring \union {flight.startedAt} ELSE retiring
  /\ UNCHANGED <<order, rail, dirty, steps, kept>>

\* After its last attempt: the last success is still shown, and nothing is retired.
ReadFails ==
  /\ flight.begun
  /\ read' = [read EXCEPT !.ok = FALSE]
  /\ flight' = NoFlight /\ waiting' = FALSE
  /\ UNCHANGED <<order, retiring, rail, dirty, steps, kept>>

\* Faulty: what was accepted is done with once a convergence read has landed.
RetireAll ==
  \E at \in retiring :
    /\ accepted' = [t \in {} |-> NoMove] /\ retiring' = retiring \ {at}
    /\ UNCHANGED <<order, read, flight, waiting, entry, clock, dirty, steps, kept>>

\* A commit that waited goes on: what was accepted before its read began need not be replayed.
Retire ==
  \E at \in retiring :
    /\ accepted' = Restrict(accepted, {t \in DOMAIN accepted : t > at})
    /\ retiring' = retiring \ {at}
    /\ UNCHANGED <<order, read, flight, waiting, entry, clock, dirty, steps, kept>>

\* A row goes: a project is disconnected, a worktree or a surface deleted.
RowLeaves(s) ==
  /\ steps < MaxSteps /\ Len(order[s]) > 1
  /\ \E r \in Range(order[s]) : order' = [order EXCEPT ![s] = Without(@, r)]
  /\ dirty' = TRUE /\ steps' = steps + 1
  /\ UNCHANGED <<reads, rail, kept>>

\* A row comes, or comes back: always at the end.
RowComes(s) ==
  /\ steps < MaxSteps
  /\ \E r \in Rows[s] \ Range(order[s]) : order' = [order EXCEPT ![s] = Append(@, r)]
  /\ kept' = [kept EXCEPT ![s] = NoMove]
  /\ dirty' = TRUE /\ steps' = steps + 1
  /\ UNCHANGED <<reads, rail>>

Next ==
  \/ \E s \in Scopes :
       \/ claim(s) \/ RuntimeMoves(s) \/ Accepted(s) \/ rollBackAndReport(s)
       \/ clearRailOrderFailure(s) \/ RowLeaves(s) \/ RowComes(s)
  \/ refresh \/ ReadServed \/ ReadLands \/ ReadFails \/ Retire

Spec == Init /\ [][Next]_vars

----------------------------------------------------------------------------
\* Every order is of rows of its list, each at most once; only a pending entry has a write, and
\* no accepted move or read is of a time that has not come.
TypeOK ==
  /\ \A s \in Scopes :
       /\ \A ids \in {order[s], read.data[s]} : IsInjective(ids) /\ Range(ids) \subseteq Rows[s]
       /\ flight.data # NotYet => IsInjective(flight.data[s]) /\ Range(flight.data[s]) \subseteq Rows[s]
       /\ entry[s].status \in {"clear", "pending", "failed"}
       /\ Pending(s) => entry[s].move \in Moves(s)
       /\ Pending(s) <=> entry[s].write \in {"sent", "moved", "anchor gone", "row gone"}
       /\ kept[s] \in Moves(s) \union {NoMove}
  /\ clock \in 0..MaxSteps /\ read.startedAt \in 0..clock /\ flight.startedAt \in 0..clock
  /\ retiring \subseteq 0..clock /\ waiting \in BOOLEAN /\ dirty \in BOOLEAN
  /\ DOMAIN accepted \subseteq 1..clock
  /\ \A t \in DOMAIN accepted : accepted[t] \in UNION {Moves(s) : s \in Scopes}
  /\ waiting => flight.begun

\* "Whenever a read started or landed, it cannot display an order that lacks a pending or accepted
\* move" (rail-order-commit.ts:35): a list shows its pending move, or else the one that the runtime
\* accepted last, whichever read it holds, until a row comes or a lost answer moved it again.
MovesAreShown ==
  \A s \in Scopes :
    LET m == IF Pending(s) THEN entry[s].move ELSE kept[s]
    IN  m # NoMove => moveBefore(Shown(s), m) = Shown(s)

\* Nothing but the convergence read tells the client of a reorder (rail-order-commit.ts:42): once no
\* list awaits an answer and the last read has landed, every list shows the runtime's order, also
\* after a move was refused, or was made although its answer was lost.
Converges ==
  (\A s \in Scopes : ~Pending(s)) /\ ~flight.begun /\ ~dirty /\ read.ok
    => \A s \in Scopes : Shown(s) = order[s]
=============================================================================
