----------------------------- MODULE AgentTurns -----------------------------
(***************************************************************************)
(* How the runtime learns of the turns of one agent session                *)
(* (harnesses/observer.service.ts, observer-state.ts, lifecycle.ts,        *)
(* claude/lifecycle.ts, environment/agent-sessions/observation-targets.ts).*)
(*                                                                         *)
(* The hooks of the agent's executions append records to a ledger, late    *)
(* and out of order.  Four fibers read what was appended, project it, and  *)
(* publish the edges of turns that are new: the startup, a poll of live    *)
(* sessions, a handler of process events, and whoever asks for a refresh.  *)
(* They share a lock, but who is alive is written outside it, and a file   *)
(* that cannot be read is only noted.                                      *)
(***************************************************************************)
EXTENDS Integers, Sequences, SequencesExt

CONSTANTS
  MaxExecutions,  \* processes launched for the session
  MaxRecords,     \* records its hooks write
  MaxTroubles     \* reads of the ledger and of the database that fail, and restarts

ASSUME TurnsAssumption ==
  MaxExecutions \in Nat /\ MaxRecords \in Nat /\ MaxTroubles \in Nat

VARIABLES
  ledger,            \* the records: who wrote each, and of which prompt it is
  run, pointer,      \* the row of each execution, and the one the session points at
  queue,             \* the process events the handler has not taken
  active, gone,      \* activeExecutionByAgent, and whether its processFacts say that it is over
  read,              \* how many records were tailed: the cursor of the ledger, if there is one
  failed,            \* failedSourcePaths: the last read failed
  initialized,       \* the baseline was built
  sticky,            \* stickyFailures: the turns that were found dead
  edges,             \* the turns as last projected, and what became of each
  published,         \* publishedEdgeKeys
  fiber, hold,       \* where each fiber is; who has the lock, and what its read was
  faults, restarts

\* For the properties only.
VARIABLES
  told,              \* the ends of turns published since the runtime started
  asked,             \* how long the ledger was when the refresh under way was asked for
  due                \* how long the ledger was when the last execution ended

world    == <<ledger, run, pointer>>
memory   == <<active, gone>>
source   == <<read, failed>>
picture  == <<initialized, sticky, edges, published, told>>
fibers   == <<fiber, hold, asked, due>>
count    == <<faults, restarts>>
vars     == <<world, queue, memory, source, picture, fibers, count>>

Executions == 1..MaxExecutions
Nobody     == 0
Seqs       == 1..MaxRecords
Fibers     == {"startup", "poll", "handler", "caller"}
Outcomes   == {"open", "ended", "superseded", "died"}
Event(type, e) == [type |-> type, of |-> e]
Events     == [type : {"started", "over", "switched"}, of : Executions]
Records    == [by : Executions, of : Seqs]
Edge(t, what) == [turn |-> t, what |-> what]
Edges      == [turn : Seqs, what : Outcomes]
NoHold     == [who |-> "none", recovering |-> FALSE]

Due == [f \in Fibers |-> IF f = "startup" THEN "due" ELSE "idle"]

Init ==
  /\ ledger = <<>> /\ run = [e \in Executions |-> "none"] /\ pointer = Nobody
  /\ queue = <<>> /\ active = Nobody /\ gone = FALSE
  /\ read = 0 /\ failed = FALSE
  /\ initialized = FALSE /\ sticky = {} /\ edges = <<>> /\ published = {} /\ told = {}
  /\ fiber = Due /\ hold = NoHold /\ asked = 0 /\ due = 0
  /\ faults = 0 /\ restarts = 0

Fault == faults + restarts < MaxTroubles /\ faults' = faults + 1 /\ UNCHANGED restarts
Fine  == UNCHANGED count

-----------------------------------------------------------------------------
(* The turns that a prefix of the ledger tells. *)

Prompt(i) == ledger[i].of = i
\* currentIncarnationRecords: not of an execution that a newer one has replaced.
Begins(k)  == \A j \in 1..(k - 1) : ledger[j].by # ledger[k].by
Current(i) ==
  \A j \in 1..i, k \in 1..i :
    j < k /\ ledger[j].by = ledger[i].by /\ ledger[k].by # ledger[i].by => ~Begins(k)
Turns(n)   == {t \in 1..n : Prompt(t) /\ Current(t)}

\* reduceClaudeLifecycle: its own stop ends a turn, and another prompt replaces it. A stop of
\* another prompt is ignored.
Closers(t, n) == {i \in (t + 1)..n : Current(i) /\ (Prompt(i) \/ ledger[i].of = t)}
Reduced(t, n) ==
  IF Closers(t, n) = {} THEN "open"
  ELSE LET c == Min(Closers(t, n)) IN
       IF ~Prompt(c) THEN "ended"
       ELSE IF ledger[c].by = ledger[t].by THEN "superseded" ELSE "died"

\* activeTurnIsDead
Dead(t) == ledger[t].by # active \/ gone
\* Faulty: what the harness says of a turn goes before what was found dead.
ObservedFirst(t, n, found) ==
  IF Reduced(t, n) = "open" /\ t \in found THEN "died" ELSE Reduced(t, n)
\* mergeStickyFailures
Merged(t, n, found) == IF t \in found THEN "died" ELSE Reduced(t, n)

\* projectAgentObserverState
FoundDead == sticky \union {t \in Turns(read) : Reduced(t, read) = "open" /\ Dead(t)}
Projected ==
  LET found == FoundDead IN [t \in Turns(read) |-> Merged(t, read, found)]
\* lifecycleTurnEdges: every turn has started, and may be over.
EdgesOf(turns) ==
  {Edge(t, "open") : t \in DOMAIN turns}
    \union {Edge(t, turns[t]) : t \in {u \in DOMAIN turns : turns[u] # "open"}}

-----------------------------------------------------------------------------
(* The agent.  Its hooks are processes of their own, and may outlive it. *)

\* launchProcessForSession, when no execution is left: the session points at it as soon as it is
\* started, and both are announced.
Launch(e) ==
  /\ run[e] = "none" /\ \A d \in Executions : d < e => run[d] = "over"
  /\ run' = [run EXCEPT ![e] = "live"] /\ pointer' = e
  /\ queue' = queue \o <<Event("started", e), Event("switched", e)>>
  /\ due' = 0
  /\ UNCHANGED <<ledger, memory, source, picture, fiber, hold, asked, count>>
Exit(e) ==
  /\ run[e] = "live" /\ run' = [run EXCEPT ![e] = "over"]
  /\ queue' = Append(queue, Event("over", e)) /\ due' = Len(ledger)
  /\ UNCHANGED <<ledger, pointer, memory, source, picture, fiber, hold, asked, count>>
Write(e) ==
  /\ run[e] # "none" /\ Len(ledger) < MaxRecords
  /\ \E of \in 1..(Len(ledger) + 1) :
       /\ of <= Len(ledger)
            => /\ ledger[of] = [by |-> e, of |-> of]
               /\ \A i \in DOMAIN ledger : i # of => ledger[i].of # of
       /\ ledger' = Append(ledger, [by |-> e, of |-> of])
  /\ UNCHANGED <<run, pointer, queue, memory, source, picture, fibers, count>>

-----------------------------------------------------------------------------
(* What begins a refresh, outside the lock. *)

\* Faulty: the row is read again later, with the next event.
KeepsInventory == UNCHANGED memory
\* inventoryQuery and applyInventory, which nothing interleaves
AppliesInventory ==
  /\ active' = pointer
  /\ gone' = (pointer # Nobody /\ run[pointer] = "over")
Waits(f) == fiber' = [fiber EXCEPT ![f] = "waiting"]

\* The startup has subscribed to the events, and reads who there is.
StartupBegins ==
  /\ fiber["startup"] = "due" /\ AppliesInventory /\ Waits("startup")
  /\ UNCHANGED <<world, queue, source, picture, hold, asked, due, count>>
\* pollOnce: the sessions whose execution is live
PollBegins ==
  /\ fiber["startup"] = "done" /\ fiber["poll"] = "idle"
  /\ pointer # Nobody /\ run[pointer] = "live"
  /\ AppliesInventory /\ Waits("poll")
  /\ UNCHANGED <<world, queue, source, picture, hold, asked, due, count>>
\* refreshTurnEdges
Ask ==
  /\ fiber["startup"] = "done" /\ fiber["caller"] = "idle"
  /\ AppliesInventory /\ Waits("caller")
  /\ asked' = Len(ledger)
  /\ UNCHANGED <<world, queue, source, picture, hold, due, count>>

\* Faulty: the handler takes a fact, and leaves the rest to the poll.
HandleNotes ==
  /\ queue # <<>> /\ fiber["handler"] = "idle" /\ queue' = Tail(queue)
  /\ gone' = (gone \/ Head(queue) = Event("over", active))
  /\ Fine
  /\ UNCHANGED <<world, active, fiber, source, picture, hold, asked, due>>
\* An event that cannot be handled is logged.
Handle ==
  /\ queue # <<>> /\ fiber["handler"] = "idle" /\ queue' = Tail(queue)
  /\ LET event == Head(queue) IN
     \/ /\ event.type = "switched" /\ AppliesInventory /\ Waits("handler") /\ Fine
     \/ /\ event.type = "switched" /\ Fault /\ UNCHANGED <<memory, fiber>>
     \/ /\ event.type # "switched" /\ Fine /\ UNCHANGED active
        /\ IF active = event.of THEN gone' = (event.type = "over") /\ Waits("handler")
                                ELSE UNCHANGED <<gone, fiber>>
  /\ UNCHANGED <<world, source, picture, hold, asked, due>>

-----------------------------------------------------------------------------
(* refreshAgent, under the lock: the ledger, and then the projection. *)

Forced(f) == f \in {"handler", "caller"}
Baseline(f) == ~initialized \/ f = "startup"
\* Faulty: everyone reads for itself.
Unlocked == TRUE
\* withAgentLock
Unheld == hold = NoHold
Finishes(f) ==
  /\ fiber' = [fiber EXCEPT ![f] = IF f = "startup" THEN "done" ELSE "idle"]
  /\ hold' = NoHold

\* Faulty: a read that failed is tried again with the next.
TailsQuietly(f) ==
  /\ Unheld /\ fiber[f] = "waiting"
  /\ read' \in {read, Len(ledger)} /\ UNCHANGED failed /\ Fine
  /\ IF Forced(f) \/ Baseline(f) \/ read' # read
     THEN /\ hold' = [who |-> f, recovering |-> FALSE] /\ fiber' = [fiber EXCEPT ![f] = "tailed"]
     ELSE Finishes(f)
  /\ UNCHANGED <<world, queue, memory, picture, asked, due>>
\* readLedgerSource, tailLedgerSource: what was appended, or the failure is noted. A baseline
\* forgets first. Without news a poll is done.
Tails(f) ==
  /\ Unheld /\ fiber[f] = "waiting"
  /\ \/ read' = Len(ledger) /\ failed' = FALSE /\ Fine
     \/ /\ ledger # <<>> /\ failed' = TRUE /\ Fault
        /\ read' = IF Baseline(f) THEN 0 ELSE read
  /\ IF Forced(f) \/ Baseline(f) \/ read' # read
     THEN /\ hold' = [who |-> f, recovering |-> failed /\ read = 0 /\ ~failed']
          /\ fiber' = [fiber EXCEPT ![f] = "tailed"]
     ELSE Finishes(f)
  /\ UNCHANGED <<world, queue, memory, picture, asked, due>>

Deaths(e) == {x \in e : x.what = "died"}
\* rebuildBaseline, recomputeAndPublish: a baseline tells nothing, nor does the first read after a
\* failure; but who refreshes for a process event tells of the deaths.
Projects(f) ==
  /\ hold.who = f
  /\ sticky' = FoundDead /\ edges' = Projected
  /\ LET all   == EdgesOf(edges')
         fresh == all \ published
     IN
     /\ told' = told \union (IF Baseline(f) \/ hold.recovering
                             THEN IF Forced(f) THEN Deaths(fresh) ELSE {}
                             ELSE {x \in fresh : x.what # "open"})
     /\ published' = IF Baseline(f) THEN all ELSE published \union all
  /\ initialized' = TRUE
  /\ Finishes(f)
  /\ asked' = IF f = "caller" THEN 0 ELSE asked
  /\ UNCHANGED <<world, queue, memory, source, due, count>>

-----------------------------------------------------------------------------
\* The runtime goes; its own children go with it, and tmux's do not.
Restart ==
  /\ faults + restarts < MaxTroubles /\ restarts' = restarts + 1
  /\ \E ephemeral \in BOOLEAN :
       run' = [e \in Executions |-> IF ephemeral /\ run[e] = "live" THEN "over" ELSE run[e]]
  /\ queue' = <<>> /\ active' = Nobody /\ gone' = FALSE
  /\ read' = 0 /\ failed' = FALSE
  /\ initialized' = FALSE /\ sticky' = {} /\ edges' = <<>> /\ published' = {} /\ told' = {}
  /\ fiber' = Due /\ hold' = NoHold /\ asked' = 0
  /\ due' = IF \E e \in Executions : run'[e] = "live" THEN 0 ELSE Len(ledger)
  /\ UNCHANGED <<ledger, pointer, faults>>

Next ==
  \/ \E e \in Executions : Launch(e) \/ Exit(e) \/ Write(e)
  \/ StartupBegins \/ PollBegins \/ Ask \/ Handle
  \/ \E f \in Fibers : Tails(f) \/ Projects(f)
  \/ Restart

Spec == Init /\ [][Next]_vars

-----------------------------------------------------------------------------
\* Every variable has its type, the lock is held by who has tailed, and what was projected was read.
TypeOK ==
  /\ ledger \in Seq(Records) /\ Len(ledger) <= MaxRecords
  /\ run \in [Executions -> {"none", "live", "over"}] /\ pointer \in {Nobody} \union Executions
  /\ queue \in Seq(Events) /\ active \in {Nobody} \union Executions
  /\ gone \in BOOLEAN
  /\ read \in 0..Len(ledger) /\ failed \in BOOLEAN /\ initialized \in BOOLEAN
  /\ sticky \subseteq Seqs /\ published \subseteq Edges /\ told \subseteq Edges
  /\ DOMAIN edges \subseteq 1..Len(ledger) /\ \A t \in DOMAIN edges : edges[t] \in Outcomes
  /\ fiber \in [Fibers -> {"due", "idle", "waiting", "tailed", "done"}]
  /\ hold \in [who : Fibers \union {"none"}, recovering : BOOLEAN]
  /\ \A f \in Fibers : fiber[f] = "tailed" <=> hold.who = f
  /\ asked \in 0..Len(ledger)
  /\ due \in 0..Len(ledger)
  /\ faults \in Nat /\ restarts \in Nat /\ faults + restarts <= MaxTroubles

\* stickyFailures, publishedEdgeKeys: a turn has one outcome. What was told of it is never told
\* otherwise, nor taken back by what is read later, and the workflow that asks is answered the same.
OutcomesStick ==
  \A x \in told :
    /\ \A y \in told : y.turn = x.turn => y = x
    /\ x.turn \in DOMAIN edges => edges[x.turn] = x.what

\* refreshTurnEdges, "do not turn a refresh failure into a stale success": an answer knows every
\* record there was when it was asked for.
FreshOrFailed ==
  [][fiber["caller"] = "tailed" /\ fiber'["caller"] = "idle" /\ ~failed' /\ restarts' = restarts
       => read' >= asked]_vars

\* activeTurnIsDead: whoever is found dead is, or was replaced; or the session points at it, and
\* the observer has not been told yet.
DeathsAreReal ==
  [][\A t \in sticky' \ sticky :
       LET e == ledger[t].by IN
       \/ run[e] = "over" \/ e < pointer
       \/ Event("switched", e) \in Range(queue) \/ faults > 0]_vars

\* pollOnce, the events: what an agent wrote before it ended is read at last, although only live
\* sessions are polled, and no turn stays open whose execution is over; unless a read failed.
Heard(n) == ledger[n].of \in DOMAIN edges /\ (Prompt(n) \/ edges[ledger[n].of] # "open")
AtRest == queue = <<>> /\ \A f \in Fibers : fiber[f] \in {"idle", "done"}
NothingIsMissed ==
  AtRest /\ faults = 0 /\ pointer # Nobody =>
    /\ run[pointer] = "over" => \A n \in 1..due : Current(n) => Heard(n)
    /\ \A t \in DOMAIN edges : edges[t] = "open" => ledger[t].by = pointer /\ run[pointer] = "live"
=============================================================================
