-------------------------- MODULE AgentTurnsProofs --------------------------
(***************************************************************************)
(* What is proved of AgentTurns, for any number of executions, records,    *)
(* failed reads and restarts.                                              *)
(***************************************************************************)
EXTENDS AgentTurns, WellFoundedInduction, TLAPS

\* The executions in the order of their launches, and what is remembered of the last.
Order ==
  /\ \A e \in Executions : (run[e] # "none" <=> e <= pointer) /\ (e < pointer => run[e] = "over")
  /\ active <= pointer
  /\ gone => active # Nobody /\ run[active] = "over"

\* A record is of a prompt of its own execution, which was launched.
Written ==
  \A n \in 1..Len(ledger) :
    /\ run[ledger[n].by] # "none"
    /\ ledger[n].of <= n /\ Prompt(ledger[n].of) /\ ledger[ledger[n].of].by = ledger[n].by

Queued(type, e) == \E i \in 1..Len(queue) : queue[i] = Event(type, e)
\* An execution is announced before its end is, and its end is announced.
Announced ==
  /\ \A i \in 1..Len(queue) : queue[i].type = "over" => run[queue[i].of] = "over"
  /\ \A i, j \in 1..Len(queue) :
       queue[i].type = "over" /\ queue[j] = Event("switched", queue[i].of) => j < i
  /\ \A i \in 1..Len(queue) :
       queue[i].type = "started" /\ run[queue[i].of] = "over"
         => \E j \in (i + 1)..Len(queue) : queue[j] = Event("over", queue[i].of)
  /\ active # Nobody /\ run[active] = "over" /\ ~gone => Queued("over", active)

\* The startup has not looked who there is, and nobody else either.
NotYet ==
  /\ active = Nobody /\ fiber["startup"] = "due"
  /\ \A f \in Fibers : fiber[f] \notin {"waiting", "tailed"}
\* A switch that nobody has noticed is still announced.
Known == faults = 0 /\ pointer # active => NotYet \/ Queued("switched", pointer)

\* What was told is what the ledger tells, or the turn was found dead.
ToldTruly ==
  \A x \in told :
    /\ x.turn \in Turns(Len(ledger)) /\ x.what # "open"
    /\ IF x.turn \in sticky THEN x.what = "died"
       ELSE /\ Reduced(x.turn, Len(ledger)) = x.what
            /\ read # 0 => Reduced(x.turn, read) = x.what
    /\ x.turn \in DOMAIN edges => edges[x.turn] = x.what

\* A caller that is answered has read what there was when it asked.
Fresh == fiber["caller"] = "tailed" => failed \/ read >= asked

\* The end of the last execution is read, or somebody is still to read it.
Chased ==
  faults = 0 /\ pointer # Nobody /\ run[pointer] = "over" =>
    \/ Queued("over", pointer)
    \/ fiber["startup"] \in {"due", "waiting"} \/ fiber["handler"] = "waiting"
    \/ (fiber["startup"] = "tailed" \/ fiber["handler"] = "tailed") /\ read >= due
    \/ read >= due /\ \A n \in 1..due : Current(n) => Heard(n)

Busy(f) == fiber[f] \in {"waiting", "tailed"}
\* A turn is open for the execution that is known to run, or somebody is still to look.
Opened ==
  faults = 0 => \A t \in DOMAIN edges : edges[t] = "open" =>
    \/ ledger[t].by = active /\ ~gone
    \/ Busy("startup") \/ Busy("handler") \/ Busy("caller")
    \/ Queued("switched", pointer)

IInv ==
  /\ TypeOK /\ Order /\ Written /\ Announced /\ Known
  /\ ToldTruly /\ Fresh /\ Chased /\ Opened

USE TurnsAssumption

-----------------------------------------------------------------------------
(* The first closer of a turn. *)

LEMMA Least ==
  ASSUME NEW S \in SUBSET Nat, S # {}
  PROVE  \E x \in S : \A y \in S : x <= y
<1> DEFINE R == {ss \in Nat \X Nat : ss[1] < ss[2]}
<1>1. OpToRel(<, Nat) = R
  BY DEF OpToRel
<1>2. IsWellFoundedOn(R, Nat)
  BY <1>1, NatLessThanWellFounded
<1> HIDE DEF R
<1>3. \E x \in S : \A y \in S : ~(<<y, x>> \in R)
  BY <1>2, WFMin
<1>4. PICK x \in S : \A y \in S : ~(<<y, x>> \in R)
  BY <1>3
<1>5. ASSUME NEW y \in S
      PROVE  x <= y
  <2>1. x \in Nat /\ y \in Nat /\ <<y, x>> \in Nat \X Nat
    OBVIOUS
  <2>2. ~(y < x)
    BY <1>4, <2>1 DEF R
  <2> QED BY <2>1, <2>2
<1> QED BY <1>5

LEMMA MinIsIn ==
  ASSUME NEW S \in SUBSET Nat, S # {}
  PROVE  Min(S) \in S /\ \A y \in S : Min(S) <= y
BY Least DEF Min

LEMMA MinOfMore ==
  ASSUME NEW S \in SUBSET Nat, S # {}, NEW T \in SUBSET Nat, S \subseteq T,
         \A x \in S, y \in T \ S : x < y
  PROVE  Min(T) = Min(S)
<1>1. Min(S) \in S /\ Min(T) \in T /\ Min(S) \in Nat /\ Min(T) \in Nat /\ Min(T) <= Min(S)
  <2>1. T # {}
    OBVIOUS
  <2> QED BY <2>1, MinIsIn
<1>2. Min(T) \in S
  <2>1. CASE Min(T) \in T \ S
    <3>1. Min(S) < Min(T)
      BY <1>1, <2>1
    <3> QED BY <1>1, <3>1
  <2> QED BY <1>1, <2>1
<1>3. Min(S) <= Min(T)
  BY <1>2, MinIsIn
<1> QED BY <1>1, <1>3

-----------------------------------------------------------------------------
(* A ledger is only appended to, so what a prefix of it tells stays. *)

Grows ==
  /\ ledger' \in Seq(Records) /\ Len(ledger) <= Len(ledger')
  /\ \A i \in 1..Len(ledger) : ledger'[i] = ledger[i]

LEMMA PrefixKept ==
  ASSUME ledger \in Seq(Records), Grows, NEW i \in 1..Len(ledger)
  PROVE  (Prompt(i)' <=> Prompt(i)) /\ (Current(i)' <=> Current(i))
<1>1. \A j \in 1..i : ledger'[j] = ledger[j]
  BY DEF Grows
<1>2. \A k \in 1..i : Begins(k)' <=> Begins(k)
  BY <1>1 DEF Begins
<1> QED BY <1>1, <1>2 DEF Prompt, Current

LEMMA TurnsKept ==
  ASSUME ledger \in Seq(Records), Grows, NEW n \in 0..Len(ledger)
  PROVE  Turns(n)' = Turns(n)
BY PrefixKept DEF Turns

LEMMA ClosersKept ==
  ASSUME ledger \in Seq(Records), Grows, NEW t \in 1..Len(ledger), NEW n \in 0..Len(ledger)
  PROVE  Closers(t, n)' = Closers(t, n)
<1>1. \A i \in (t + 1)..n : i \in 1..Len(ledger) /\ ledger'[i] = ledger[i]
  BY DEF Grows
<1> QED BY <1>1, PrefixKept DEF Closers

LEMMA ClosersAreRead ==
  ASSUME NEW t \in Nat, NEW n \in Nat
  PROVE  /\ Closers(t, n) \in SUBSET Nat /\ Closers(t, n) \subseteq 1..n
         /\ Closers(t, n) # {} => Min(Closers(t, n)) \in Closers(t, n)
<1>1. Closers(t, n) \in SUBSET Nat /\ Closers(t, n) \subseteq 1..n
  BY DEF Closers
<1> QED BY <1>1, MinIsIn

LEMMA ReducedIsOutcome ==
  ASSUME NEW t, NEW n
  PROVE  Reduced(t, n) \in Outcomes /\ (Reduced(t, n) = "open" <=> Closers(t, n) = {})
BY DEF Reduced, Outcomes

LEMMA ReducedKept ==
  ASSUME ledger \in Seq(Records), Grows, NEW t \in 1..Len(ledger), NEW n \in 0..Len(ledger)
  PROVE  Reduced(t, n)' = Reduced(t, n)
<1>1. Closers(t, n)' = Closers(t, n)
  BY ClosersKept
<1>2. CASE Closers(t, n) = {}
  BY <1>1, <1>2 DEF Reduced
<1>3. CASE Closers(t, n) # {}
  <2> DEFINE c == Min(Closers(t, n))
  <2>1. c \in 1..Len(ledger)
    BY <1>3, ClosersAreRead
  <2>2. c' = c
    BY <1>1
  <2>3. ledger'[c] = ledger[c] /\ ledger'[t] = ledger[t]
    BY <2>1 DEF Grows
  <2> HIDE DEF c
  <2>4. Reduced(t, n) = IF ~(ledger[c].of = c) THEN "ended"
                        ELSE IF ledger[c].by = ledger[t].by THEN "superseded" ELSE "died"
    BY <1>3 DEF Reduced, Prompt, c
  <2>5. Reduced(t, n)' = IF ~(ledger'[c'].of = c') THEN "ended"
                         ELSE IF ledger'[c'].by = ledger'[t].by THEN "superseded" ELSE "died"
    BY <1>1, <1>3 DEF Reduced, Prompt, c
  <2> QED BY <2>2, <2>3, <2>4, <2>5
<1> QED BY <1>2, <1>3

\* A turn that is closed is closed by the same record, however much more is read.
LEMMA ReducedStays ==
  ASSUME NEW t \in Nat, NEW n \in Nat, NEW m \in Nat, n <= m, Reduced(t, n) # "open"
  PROVE  Reduced(t, m) = Reduced(t, n)
<1>1. Closers(t, n) # {} /\ Closers(t, n) \in SUBSET Nat /\ Closers(t, m) \in SUBSET Nat
  BY ReducedIsOutcome, ClosersAreRead
<1>2. /\ Closers(t, n) \subseteq Closers(t, m)
      /\ \A x \in Closers(t, n), y \in Closers(t, m) \ Closers(t, n) : x < y
  BY DEF Closers
<1>3. Min(Closers(t, m)) = Min(Closers(t, n))
  BY <1>1, <1>2, MinOfMore
<1>4. Closers(t, m) # {}
  BY <1>1, <1>2
<1> QED BY <1>1, <1>3, <1>4 DEF Reduced

-----------------------------------------------------------------------------
(* The types. *)

LEMMA FineCounts == ASSUME TypeOK, Fine PROVE /\ faults' \in Nat /\ restarts' \in Nat
                                         /\ faults' + restarts' <= MaxTroubles
                                         /\ faults' = faults /\ restarts' = restarts
BY DEF Fine, count, TypeOK

LEMMA FaultCounts == ASSUME TypeOK, Fault PROVE /\ faults' \in Nat /\ restarts' \in Nat
                                           /\ faults' + restarts' <= MaxTroubles
                                           /\ faults' # 0 /\ restarts' = restarts
BY DEF Fault, TypeOK

LEMMA EventIs ==
  ASSUME NEW e \in Executions, NEW type \in {"started", "over", "switched"}
  PROVE  Event(type, e) \in Events /\ Event(type, e).type = type /\ Event(type, e).of = e
BY DEF Event, Events

LEMMA LaunchTypes == ASSUME TypeOK, NEW e \in Executions, Launch(e) PROVE TypeOK'
<1>1. queue' \in Seq(Events)
  BY EventIs DEF Launch, TypeOK
<1> QED BY <1>1 DEF Launch, TypeOK, memory, source, picture, count, Executions, Nobody

LEMMA ExitTypes == ASSUME TypeOK, NEW e \in Executions, Exit(e) PROVE TypeOK'
<1>1. queue' \in Seq(Events)
  BY EventIs DEF Exit, TypeOK
<1> QED BY <1>1 DEF Exit, TypeOK, memory, source, picture, count

LEMMA WriteGrows ==
  ASSUME TypeOK, NEW e \in Executions, Write(e)
  PROVE  /\ Grows /\ Len(ledger') = Len(ledger) + 1 /\ Len(ledger') <= MaxRecords
         /\ UNCHANGED <<run, pointer, queue, memory, source, picture, fibers, count>>
<1>1. PICK of \in 1..(Len(ledger) + 1) : ledger' = Append(ledger, [by |-> e, of |-> of])
  BY DEF Write
<1>2. Len(ledger) \in Nat /\ Len(ledger) < MaxRecords
  BY DEF Write, TypeOK
<1>3. [by |-> e, of |-> of] \in Records
  BY <1>2 DEF Records, Seqs
<1> QED BY <1>1, <1>2, <1>3 DEF Grows, Write, TypeOK

LEMMA WriteTypes == ASSUME TypeOK, NEW e \in Executions, Write(e) PROVE TypeOK'
<1>1. /\ ledger' \in Seq(Records) /\ Len(ledger') = Len(ledger) + 1 /\ Len(ledger') <= MaxRecords
      /\ UNCHANGED <<run, pointer, queue, memory, source, picture, fibers, count>>
  BY WriteGrows DEF Grows
<1> QED BY <1>1 DEF TypeOK, memory, source, picture, fibers, count

LEMMA InventoryTypes ==
  ASSUME TypeOK, AppliesInventory
  PROVE  active' \in {Nobody} \union Executions /\ gone' \in BOOLEAN
<1>1. active' \in {Nobody} \union Executions
  BY DEF AppliesInventory, TypeOK
<1>2. gone' \in BOOLEAN
  BY Zenon DEF AppliesInventory
<1> QED BY <1>1, <1>2

LEMMA WaitsTypes ==
  ASSUME TypeOK, NEW f \in Fibers, Waits(f), fiber[f] # "tailed", hold' = hold
  PROVE  /\ fiber' \in [Fibers -> {"due", "idle", "waiting", "tailed", "done"}]
         /\ \A g \in Fibers : fiber'[g] = "tailed" <=> hold'.who = g
         /\ fiber'[f] = "waiting" /\ \A g \in Fibers : g # f => fiber'[g] = fiber[g]
BY DEF Waits, TypeOK

LEMMA BeginsTypes ==
  ASSUME TypeOK, StartupBegins \/ PollBegins \/ Ask
  PROVE  TypeOK'
<1>1. /\ AppliesInventory /\ UNCHANGED <<world, queue, source, picture, hold, due, count>>
      /\ \E f \in Fibers : Waits(f) /\ fiber[f] # "tailed"
      /\ asked' \in {asked, Len(ledger)}
  BY DEF StartupBegins, PollBegins, Ask, Fibers
<1>2. active' \in {Nobody} \union Executions /\ gone' \in BOOLEAN
  BY <1>1, InventoryTypes
<1>3. /\ fiber' \in [Fibers -> {"due", "idle", "waiting", "tailed", "done"}]
      /\ \A g \in Fibers : fiber'[g] = "tailed" <=> hold'.who = g
  BY <1>1, WaitsTypes
<1>4. asked' \in 0..Len(ledger)
  BY <1>1 DEF TypeOK
<1> QED BY <1>1, <1>2, <1>3, <1>4 DEF TypeOK, world, source, picture, count

LEMMA HandleTypes == ASSUME TypeOK, Handle PROVE TypeOK'
<1>1. /\ UNCHANGED <<world, source, picture, hold, asked, due>>
      /\ queue' = Tail(queue) /\ queue # <<>> /\ fiber["handler"] = "idle"
      /\ Fine \/ Fault
      /\ \/ AppliesInventory /\ Waits("handler")
         \/ active' = active /\ gone' \in BOOLEAN /\ (Waits("handler") \/ fiber' = fiber)
  BY DEF Handle, memory, TypeOK
<1>2. active' \in {Nobody} \union Executions /\ gone' \in BOOLEAN
  BY <1>1, InventoryTypes DEF TypeOK
<1>3. /\ fiber' \in [Fibers -> {"due", "idle", "waiting", "tailed", "done"}]
      /\ \A g \in Fibers : fiber'[g] = "tailed" <=> hold'.who = g
  <2>1. CASE Waits("handler")
    BY <1>1, <2>1, WaitsTypes DEF Fibers
  <2>2. CASE fiber' = fiber
    BY <1>1, <2>2 DEF TypeOK
  <2> QED BY <1>1, <2>1, <2>2
<1>4. queue' \in Seq(Events)
  BY <1>1 DEF TypeOK
<1>5. /\ faults' \in Nat /\ restarts' \in Nat /\ faults' + restarts' <= MaxTroubles
  BY <1>1, FineCounts, FaultCounts
<1> QED BY <1>1, <1>2, <1>3, <1>4, <1>5 DEF TypeOK, world, source, picture

\* Whoever finishes lets the lock go.
LEMMA FinishesTypes ==
  ASSUME TypeOK, NEW f \in Fibers, Finishes(f), hold.who \in {f, "none"}
  PROVE  /\ fiber' \in [Fibers -> {"due", "idle", "waiting", "tailed", "done"}]
         /\ hold' \in [who : Fibers \union {"none"}, recovering : BOOLEAN] /\ hold'.who = "none"
         /\ \A g \in Fibers : fiber'[g] # "tailed"
         /\ \A g \in Fibers : g # f => fiber'[g] = fiber[g]
         /\ fiber'[f] = IF f = "startup" THEN "done" ELSE "idle"
<1>1. hold' = NoHold /\ hold'.who = "none" /\ hold' \in [who : Fibers \union {"none"}, recovering : BOOLEAN]
  BY DEF Finishes, NoHold
<1>2. /\ fiber' = [fiber EXCEPT ![f] = IF f = "startup" THEN "done" ELSE "idle"]
      /\ fiber \in [Fibers -> {"due", "idle", "waiting", "tailed", "done"}]
  BY DEF Finishes, TypeOK
<1>3. \A g \in Fibers : fiber[g] = "tailed" => g = f
  BY DEF TypeOK, Fibers
<1> QED BY <1>1, <1>2, <1>3

\* What a read of the ledger does.
LEMMA TailsDoes ==
  ASSUME TypeOK, NEW f \in Fibers, Tails(f)
  PROVE  /\ UNCHANGED <<world, queue, memory, picture, asked, due>>
         /\ fiber[f] = "waiting" /\ \A g \in Fibers : fiber[g] # "tailed"
         /\ \/ read' = Len(ledger) /\ failed' = FALSE /\ faults' = faults
            \/ failed' = TRUE /\ faults' # 0 /\ read' \in {0, read}
         /\ faults' \in Nat /\ restarts' = restarts /\ faults' + restarts' <= MaxTroubles
         /\ fiber' \in [Fibers -> {"due", "idle", "waiting", "tailed", "done"}]
         /\ hold' \in [who : Fibers \union {"none"}, recovering : BOOLEAN]
         /\ \A g \in Fibers : fiber'[g] = "tailed" <=> hold'.who = g
         /\ \A g \in Fibers : g # f => fiber'[g] = fiber[g]
         /\ Forced(f) \/ f = "startup" => fiber'[f] = "tailed"
         /\ fiber'[f] = "tailed" \/ fiber'[f] = IF f = "startup" THEN "done" ELSE "idle"
<1>1. /\ hold = NoHold /\ fiber[f] = "waiting"
      /\ UNCHANGED <<world, queue, memory, picture, asked, due>>
  BY DEF Tails, Unheld
<1>2. hold.who = "none" /\ \A g \in Fibers : fiber[g] # "tailed"
  BY <1>1 DEF NoHold, TypeOK, Fibers
<1>3. /\ \/ read' = Len(ledger) /\ failed' = FALSE /\ faults' = faults
         \/ failed' = TRUE /\ faults' # 0 /\ read' \in {0, read}
      /\ faults' \in Nat /\ restarts' = restarts /\ faults' + restarts' <= MaxTroubles
  <2>1. CASE Fine /\ read' = Len(ledger) /\ failed' = FALSE
    BY <2>1, FineCounts
  <2>2. CASE Fault /\ failed' = TRUE /\ read' \in {0, read}
    BY <2>2, FaultCounts
  <2> QED BY <2>1, <2>2 DEF Tails
<1>4. CASE Finishes(f) /\ ~Forced(f) /\ ~Baseline(f)
  <2>1. f # "startup"
    BY <1>4 DEF Baseline
  <2> QED BY <1>1, <1>2, <1>3, <1>4, <2>1, FinishesTypes DEF Fibers
<1>5. CASE /\ hold' = [who |-> f, recovering |-> failed /\ read = 0 /\ ~failed']
           /\ fiber' = [fiber EXCEPT ![f] = "tailed"]
  <2>1. hold'.who = f
    BY <1>5
  <2>2. (failed /\ read = 0 /\ ~failed') \in BOOLEAN
    BY Zenon
  <2>3. hold' \in [who : Fibers \union {"none"}, recovering : BOOLEAN]
    BY <1>5, <2>2
  <2>4. /\ fiber' \in [Fibers -> {"due", "idle", "waiting", "tailed", "done"}]
        /\ fiber'[f] = "tailed" /\ \A g \in Fibers : g # f => fiber'[g] = fiber[g]
    BY <1>5 DEF TypeOK
  <2> QED BY <1>1, <1>2, <1>3, <2>1, <2>3, <2>4
<1> QED BY <1>4, <1>5 DEF Tails

LEMMA TailsTypes == ASSUME TypeOK, NEW f \in Fibers, Tails(f) PROVE TypeOK'
<1>1. read \in 0..Len(ledger) /\ Len(ledger) \in Nat
  BY DEF TypeOK
<1>2. read' \in {0, read, Len(ledger)} /\ failed' \in BOOLEAN
  BY TailsDoes
<1>3. read' \in 0..Len(ledger)
  BY <1>1, <1>2
<1> QED BY <1>2, <1>3, TailsDoes DEF TypeOK, world, memory, picture

\* What is projected are the turns that were read.
LEMMA ProjectedIs ==
  ASSUME TypeOK
  PROVE  /\ DOMAIN Projected = Turns(read) /\ Turns(read) \subseteq 1..Len(ledger)
         /\ FoundDead \subseteq Seqs
         /\ \A t \in Turns(read) : Projected[t] = Merged(t, read, FoundDead)
         /\ \A t \in Turns(read) : Projected[t] \in Outcomes
<1>1. Turns(read) \subseteq 1..read /\ 1..read \subseteq 1..Len(ledger) /\ 1..Len(ledger) \subseteq Seqs
  BY DEF Turns, TypeOK, Seqs
<1>2. FoundDead \subseteq Seqs
  BY <1>1 DEF FoundDead, TypeOK
<1>3. /\ DOMAIN Projected = Turns(read)
      /\ \A t \in Turns(read) : Projected[t] = Merged(t, read, FoundDead)
  BY DEF Projected
<1>4. \A t \in Turns(read) : Merged(t, read, FoundDead) \in Outcomes
  BY ReducedIsOutcome DEF Merged, Outcomes
<1> QED BY <1>1, <1>2, <1>3, <1>4

LEMMA EdgesAre ==
  ASSUME NEW turns, NEW x
  PROVE  /\ x \in EdgesOf(turns) => /\ x.turn \in DOMAIN turns
                                    /\ x.what = "open" \/ x.what = turns[x.turn]
                                    /\ x = Edge(x.turn, x.what)
BY DEF EdgesOf, Edge

LEMMA ProjectsTypes == ASSUME TypeOK, NEW f \in Fibers, Projects(f) PROVE TypeOK'
<1>1. /\ hold.who = f /\ sticky' = FoundDead /\ edges' = Projected /\ initialized' = TRUE
      /\ Finishes(f) /\ asked' \in {0, asked}
      /\ UNCHANGED <<world, queue, memory, source, due, count>>
      /\ told' \subseteq told \union EdgesOf(edges')
      /\ published' \subseteq published \union EdgesOf(edges')
  BY DEF Projects, Deaths
<1>2. EdgesOf(edges') \subseteq Edges
  <2>1. DOMAIN edges' \subseteq Seqs /\ \A t \in DOMAIN edges' : edges'[t] \in Outcomes
    BY <1>1, ProjectedIs DEF TypeOK, Seqs
  <2> QED BY <2>1 DEF EdgesOf, Edge, Edges, Outcomes
<1>3. /\ DOMAIN edges' \subseteq 1..Len(ledger) /\ \A t \in DOMAIN edges' : edges'[t] \in Outcomes
      /\ sticky' \subseteq Seqs
  BY <1>1, ProjectedIs
<1>4. told' \subseteq Edges /\ published' \subseteq Edges
  BY <1>1, <1>2 DEF TypeOK
<1>5. /\ fiber' \in [Fibers -> {"due", "idle", "waiting", "tailed", "done"}]
      /\ hold' \in [who : Fibers \union {"none"}, recovering : BOOLEAN]
      /\ \A g \in Fibers : fiber'[g] = "tailed" <=> hold'.who = g
  BY <1>1, FinishesTypes DEF Fibers
<1>6. asked' \in 0..Len(ledger)
  BY <1>1 DEF TypeOK
<1> QED BY <1>1, <1>3, <1>4, <1>5, <1>6 DEF TypeOK, world, memory, source, count

LEMMA RestartTypes == ASSUME TypeOK, Restart PROVE TypeOK'
<1>1. fiber' \in [Fibers -> {"due", "idle", "waiting", "tailed", "done"}]
      /\ (\A g \in Fibers : fiber'[g] # "tailed") /\ hold'.who = "none"
      /\ hold' \in [who : Fibers \union {"none"}, recovering : BOOLEAN]
  BY DEF Restart, Due, NoHold, Fibers
<1>2. run' \in [Executions -> {"none", "live", "over"}]
  BY DEF Restart, TypeOK
<1>3. due' \in 0..Len(ledger) /\ faults' \in Nat /\ restarts' \in Nat
      /\ faults' + restarts' <= MaxTroubles
  BY DEF Restart, TypeOK
<1>4. /\ ledger' = ledger /\ pointer' = pointer /\ queue' = <<>> /\ active' = Nobody /\ gone' = FALSE
      /\ read' = 0 /\ failed' = FALSE /\ asked' = 0
      /\ initialized' = FALSE /\ sticky' = {} /\ edges' = <<>> /\ published' = {} /\ told' = {}
  BY DEF Restart
<1>5. DOMAIN edges' = {} /\ queue' \in Seq(Events)
  BY <1>4
<1>6. ledger \in Seq(Records) /\ Len(ledger) \in Nat /\ Len(ledger) <= MaxRecords
      /\ pointer \in {Nobody} \union Executions
  BY DEF TypeOK
<1>7. /\ ledger' \in Seq(Records) /\ Len(ledger') <= MaxRecords /\ pointer' \in {Nobody} \union Executions
      /\ active' \in {Nobody} \union Executions /\ gone' \in BOOLEAN
      /\ read' \in 0..Len(ledger') /\ failed' \in BOOLEAN /\ initialized' \in BOOLEAN
      /\ asked' \in 0..Len(ledger') /\ due' \in 0..Len(ledger')
  <2>1. ledger' = ledger /\ pointer' = pointer /\ active' = Nobody /\ gone' = FALSE /\ read' = 0
        /\ failed' = FALSE /\ initialized' = FALSE /\ asked' = 0
    BY <1>4
  <2>2. ledger' \in Seq(Records) /\ Len(ledger') <= MaxRecords /\ Len(ledger') \in Nat
    BY <1>6, <2>1
  <2>3. read' \in 0..Len(ledger') /\ asked' \in 0..Len(ledger') /\ due' \in 0..Len(ledger')
    BY <1>3, <1>6, <2>1
  <2>4. gone' \in BOOLEAN /\ failed' \in BOOLEAN /\ initialized' \in BOOLEAN
    BY <2>1
  <2>5. pointer' \in {Nobody} \union Executions /\ active' \in {Nobody} \union Executions
    BY <1>6, <2>1
  <2> QED BY <2>2, <2>3, <2>4, <2>5
<1>8. /\ sticky' \subseteq Seqs /\ published' \subseteq Edges /\ told' \subseteq Edges
      /\ DOMAIN edges' \subseteq 1..Len(ledger') /\ \A t \in DOMAIN edges' : edges'[t] \in Outcomes
  BY <1>4, <1>5
<1>9. \A g \in Fibers : fiber'[g] = "tailed" <=> hold'.who = g
  BY <1>1 DEF Fibers
<1> QED BY <1>1, <1>2, <1>3, <1>5, <1>7, <1>8, <1>9 DEF TypeOK

-----------------------------------------------------------------------------
(* Who was launched, and what is announced of it. *)

LEMMA Numbers ==
  ASSUME TypeOK
  PROVE  /\ Executions \subseteq Nat /\ Nobody \notin Executions /\ Nobody = 0
         /\ pointer \in Nat /\ active \in Nat /\ Len(queue) \in Nat /\ Len(ledger) \in Nat
         /\ \A e \in Executions : e > 0
BY DEF TypeOK, Executions, Nobody

LEMMA QueueIs ==
  ASSUME TypeOK
  PROVE  \A i \in 1..Len(queue) : queue[i] \in Events /\ queue[i].of \in Executions
<1>1. queue \in Seq(Events)
  BY DEF TypeOK
<1>2. \A i \in 1..Len(queue) : queue[i] \in Events
  BY <1>1
<1> QED BY <1>2 DEF Events

\* The last launched is over, or there is none, when another is launched.
LEMMA LaunchOrder ==
  ASSUME TypeOK, Order, NEW e \in Executions, Launch(e)
  PROVE  /\ Order' /\ e > pointer /\ pointer' = e
         /\ run' = [run EXCEPT ![e] = "live"] /\ run[e] = "none"
<1>1. /\ run[e] = "none" /\ \A d \in Executions : d < e => run[d] = "over"
      /\ run' = [run EXCEPT ![e] = "live"] /\ pointer' = e /\ active' = active /\ gone' = gone
  BY DEF Launch, memory
<1>2. e > pointer
  BY <1>1, Numbers DEF Order
<1>3. \A d \in Executions : d # e => (run[d] # "none" <=> d < e)
  <2> SUFFICES ASSUME NEW d \in Executions, d > e PROVE run[d] = "none"
    BY <1>1, Numbers
  <2> QED BY <1>2, Numbers DEF Order
<1>4. gone => active # e /\ active \in Executions
  BY <1>1 DEF Order, TypeOK
<1> QED BY <1>1, <1>2, <1>3, <1>4, Numbers DEF Order, TypeOK

LEMMA LaunchAnnounced ==
  ASSUME TypeOK, Order, Announced, NEW e \in Executions, Launch(e)
  PROVE  Announced' /\ Queued("switched", pointer)'
<1>1. /\ run' = [run EXCEPT ![e] = "live"] /\ run[e] = "none" /\ pointer' = e
      /\ active' = active /\ gone' = gone /\ active # e
  BY LaunchOrder, Numbers DEF Launch, memory, Order
<1> DEFINE L == Len(queue)
<1>2. /\ L \in Nat /\ Len(queue') = L + 2
      /\ \A i \in 1..L : queue'[i] = queue[i]
      /\ queue'[L + 1] = Event("started", e) /\ queue'[L + 2] = Event("switched", e)
  BY EventIs DEF Launch, TypeOK
<1>3. \A i \in 1..L : queue[i] \in Events /\ queue[i].of \in Executions
  BY QueueIs
<1>4. \A i \in 1..L : queue[i].type = "over" => queue[i].of # e
  BY <1>1 DEF Announced
<1>5. \A i \in 1..Len(queue') : i \in 1..L \/ i = L + 1 \/ i = L + 2
  BY <1>2
<1>6. /\ Event("started", e).type = "started" /\ Event("switched", e).type = "switched"
      /\ Event("started", e).of = e /\ Event("switched", e).of = e
  BY EventIs
<1> HIDE DEF L
<1>7. \A i \in 1..Len(queue') : queue'[i].type = "over" => i \in 1..L /\ run'[queue'[i].of] = "over"
  BY <1>1, <1>2, <1>3, <1>4, <1>5, <1>6 DEF Announced, L, TypeOK
<1>8. \A i, j \in 1..Len(queue') :
        queue'[i].type = "over" /\ queue'[j] = Event("switched", queue'[i].of) => j < i
  <2> SUFFICES ASSUME NEW i \in 1..Len(queue'), NEW j \in 1..Len(queue'),
                      queue'[i].type = "over", queue'[j] = Event("switched", queue'[i].of)
               PROVE  j < i
    OBVIOUS
  <2>1. i \in 1..L /\ queue'[i] = queue[i] /\ queue[i].of # e /\ queue[i].of \in Executions
    BY <1>2, <1>3, <1>4, <1>7
  <2>2. queue'[j].of = queue[i].of /\ queue'[j].type = "switched"
    BY <2>1, EventIs
  <2>3. j \in 1..L
    BY <1>2, <1>5, <1>6, <2>1, <2>2
  <2> QED BY <1>2, <2>1, <2>3 DEF Announced, L
<1>9. \A i \in 1..Len(queue') :
        queue'[i].type = "started" /\ run'[queue'[i].of] = "over"
          => \E j \in (i + 1)..Len(queue') : queue'[j] = Event("over", queue'[i].of)
  <2> SUFFICES ASSUME NEW i \in 1..Len(queue'), queue'[i].type = "started", run'[queue'[i].of] = "over"
               PROVE  \E j \in (i + 1)..Len(queue') : queue'[j] = Event("over", queue'[i].of)
    OBVIOUS
  <2>1. i \in 1..L
    <3>1. run'[e] = "live"
      BY <1>1 DEF TypeOK
    <3>2. i # L + 1 /\ i # L + 2
      BY <1>2, <1>6, <3>1
    <3> QED BY <1>5, <3>2
  <2>2. queue'[i] = queue[i] /\ run[queue[i].of] = "over"
    BY <1>1, <1>2, <1>3, <2>1 DEF TypeOK
  <2>3. PICK j \in (i + 1)..L : queue[j] = Event("over", queue[i].of)
    BY <2>1, <2>2 DEF Announced, L
  <2>4. j \in (i + 1)..Len(queue') /\ queue'[j] = queue[j]
    BY <1>2, <2>1, <2>3
  <2> QED BY <2>2, <2>3, <2>4
<1>10. active # Nobody /\ run'[active] = "over" /\ ~gone => Queued("over", active)'
  <2> SUFFICES ASSUME active # Nobody, run'[active] = "over", ~gone PROVE Queued("over", active)'
    OBVIOUS
  <2>1. run[active] = "over"
    BY <1>1 DEF TypeOK
  <2>2. PICK i \in 1..L : queue[i] = Event("over", active)
    BY <2>1 DEF Announced, Queued, L
  <2>3. i \in 1..Len(queue') /\ queue'[i] = Event("over", active')
    BY <1>1, <1>2, <2>2
  <2> QED BY <2>3 DEF Queued
<1>11. Queued("switched", pointer)'
  BY <1>1, <1>2 DEF Queued, L
<1> QED BY <1>1, <1>7, <1>8, <1>9, <1>10, <1>11 DEF Announced

LEMMA ExitOrder ==
  ASSUME TypeOK, Order, NEW e \in Executions, Exit(e)
  PROVE  /\ Order' /\ e = pointer /\ run' = [run EXCEPT ![e] = "over"] /\ run[e] = "live"
         /\ UNCHANGED <<ledger, pointer, active, gone>>
<1>1. /\ run[e] = "live" /\ run' = [run EXCEPT ![e] = "over"]
      /\ UNCHANGED <<ledger, pointer, active, gone>>
  BY DEF Exit, memory
<1>2. e = pointer
  BY <1>1, Numbers DEF Order
<1> QED BY <1>1, <1>2, Numbers DEF Order, TypeOK

LEMMA ExitAnnounced ==
  ASSUME TypeOK, Order, Announced, NEW e \in Executions, Exit(e)
  PROVE  /\ Announced' /\ Queued("over", e)'
         /\ \A type \in {"started", "over", "switched"}, d \in Executions :
              Queued(type, d) => Queued(type, d)'
<1>1. /\ run' = [run EXCEPT ![e] = "over"] /\ run[e] = "live"
      /\ UNCHANGED <<ledger, pointer, active, gone>>
  BY ExitOrder
<1> DEFINE L == Len(queue)
<1>2. /\ L \in Nat /\ Len(queue') = L + 1 /\ queue'[L + 1] = Event("over", e)
      /\ \A i \in 1..L : queue'[i] = queue[i]
  BY EventIs DEF Exit, TypeOK
<1>3. \A i \in 1..L : queue[i] \in Events /\ queue[i].of \in Executions
  BY QueueIs
<1>4. \A i \in 1..Len(queue') : i \in 1..L \/ i = L + 1
  BY <1>2
<1>5. Event("over", e).type = "over" /\ Event("over", e).of = e
  BY EventIs
<1> HIDE DEF L
<1>6. \A d \in Executions : /\ run[d] = "over" => run'[d] = "over"
                            /\ run'[d] = "over" => run[d] = "over" \/ d = e
      /\ run'[e] = "over"
  BY <1>1 DEF TypeOK
<1>7. \A i \in 1..Len(queue') : queue'[i].type = "over" => run'[queue'[i].of] = "over"
  BY <1>2, <1>3, <1>4, <1>5, <1>6 DEF Announced, L
<1>8. \A i, j \in 1..Len(queue') :
        queue'[i].type = "over" /\ queue'[j] = Event("switched", queue'[i].of) => j < i
  <2> SUFFICES ASSUME NEW i \in 1..Len(queue'), NEW j \in 1..Len(queue'),
                      queue'[i].type = "over", queue'[j] = Event("switched", queue'[i].of)
               PROVE  j < i
    OBVIOUS
  <2>1. queue'[i].of \in Executions
    BY <1>2, <1>3, <1>4, <1>5
  <2>2. j \in 1..L
    <3>1. queue'[j].type = "switched"
      BY <2>1, EventIs
    <3> QED BY <1>2, <1>4, <1>5, <3>1
  <2>3. CASE i \in 1..L
    BY <1>2, <2>2, <2>3 DEF Announced, L
  <2>4. CASE i = L + 1
    BY <1>2, <2>2, <2>4
  <2> QED BY <1>4, <2>3, <2>4
<1>9. \A i \in 1..Len(queue') :
        queue'[i].type = "started" /\ run'[queue'[i].of] = "over"
          => \E j \in (i + 1)..Len(queue') : queue'[j] = Event("over", queue'[i].of)
  <2> SUFFICES ASSUME NEW i \in 1..Len(queue'), queue'[i].type = "started", run'[queue'[i].of] = "over"
               PROVE  \E j \in (i + 1)..Len(queue') : queue'[j] = Event("over", queue'[i].of)
    OBVIOUS
  <2>1. i \in 1..L
    BY <1>2, <1>4, <1>5
  <2>2. CASE queue[i].of = e
    <3>1. L + 1 \in (i + 1)..Len(queue') /\ queue'[L + 1] = Event("over", queue'[i].of)
      BY <1>2, <2>1, <2>2
    <3> QED BY <3>1
  <2>3. CASE queue[i].of # e
    <3>1. run[queue[i].of] = "over" /\ queue[i].type = "started"
      BY <1>2, <1>3, <1>6, <2>1, <2>3
    <3>2. PICK j \in (i + 1)..L : queue[j] = Event("over", queue[i].of)
      BY <2>1, <3>1 DEF Announced, L
    <3>3. j \in (i + 1)..Len(queue') /\ queue'[j] = queue[j] /\ queue'[i] = queue[i]
      BY <1>2, <2>1, <3>2
    <3> QED BY <3>2, <3>3
  <2> QED BY <2>2, <2>3
<1>10. \A type \in {"started", "over", "switched"}, d \in Executions :
         Queued(type, d) => Queued(type, d)'
  <2> SUFFICES ASSUME NEW type \in {"started", "over", "switched"}, NEW d \in Executions, Queued(type, d)
               PROVE  Queued(type, d)'
    OBVIOUS
  <2>1. PICK i \in 1..L : queue[i] = Event(type, d)
    BY DEF Queued, L
  <2>2. i \in 1..Len(queue') /\ queue'[i] = Event(type, d)
    BY <1>2, <2>1
  <2> QED BY <2>2 DEF Queued
<1>11. Queued("over", e)'
  <2>1. L + 1 \in 1..Len(queue')
    BY <1>2
  <2> QED BY <1>2, <2>1 DEF Queued
<1>12. active' # Nobody /\ run'[active'] = "over" /\ ~gone' => Queued("over", active)'
  <2> SUFFICES ASSUME active # Nobody, run'[active] = "over", ~gone
               PROVE  Queued("over", active)'
    BY <1>1
  <2>1. active \in Executions /\ active' = active
    BY <1>1 DEF TypeOK
  <2>2. CASE active = e
    <3>1. \A x : x = e => Queued("over", x)'
      BY <1>11
    <3>2. active' = e
      BY <2>1, <2>2
    <3> QED BY <1>2, <3>2 DEF Queued, L
  <2>3. CASE active # e
    <3>1. run[active] = "over"
      BY <1>6, <2>1, <2>3
    <3>2. PICK i \in 1..L : queue[i] = Event("over", active)
      BY <3>1 DEF Announced, Queued, L
    <3>3. i \in 1..Len(queue') /\ queue'[i] = Event("over", active')
      BY <1>2, <2>1, <3>2
    <3> QED BY <3>3 DEF Queued
  <2> QED BY <2>2, <2>3
<1> QED BY <1>7, <1>8, <1>9, <1>10, <1>11, <1>12 DEF Announced

\* What the handler leaves in the queue.
LEMMA TailIs ==
  ASSUME TypeOK, queue # <<>>, queue' = Tail(queue)
  PROVE  /\ Len(queue) \in Nat /\ Len(queue) > 0 /\ Len(queue') = Len(queue) - 1
         /\ \A i \in 1..Len(queue') : queue'[i] = queue[i + 1] /\ i + 1 \in 1..Len(queue)
         /\ Head(queue) = queue[1] /\ Head(queue) \in Events /\ Head(queue).of \in Executions
         /\ \A type \in {"started", "over", "switched"}, d \in Executions :
              Queued(type, d) /\ Head(queue) # Event(type, d) => \E i \in 1..Len(queue') : queue'[i] = Event(type, d)
<1>1. queue \in Seq(Events)
  BY DEF TypeOK
<1>2. /\ Len(queue) \in Nat /\ Len(queue) > 0 /\ Len(queue') = Len(queue) - 1
      /\ \A i \in 1..Len(queue') : queue'[i] = queue[i + 1] /\ i + 1 \in 1..Len(queue)
      /\ Head(queue) = queue[1]
  BY <1>1
<1>3. Head(queue) \in Events /\ Head(queue).of \in Executions
  BY <1>2, QueueIs
<1>4. ASSUME NEW type \in {"started", "over", "switched"}, NEW d \in Executions,
             Queued(type, d), Head(queue) # Event(type, d)
      PROVE  \E i \in 1..Len(queue') : queue'[i] = Event(type, d)
  <2>1. PICK i \in 1..Len(queue) : queue[i] = Event(type, d)
    BY <1>4 DEF Queued
  <2>2. i # 1 /\ i - 1 \in 1..Len(queue')
    BY <1>2, <1>4, <2>1
  <2>3. queue'[i - 1] = Event(type, d)
    BY <1>2, <2>1, <2>2
  <2> QED BY <2>2, <2>3
<1> QED BY <1>2, <1>3, <1>4

\* However an event is handled, what is left announces as much.
LEMMA TailAnnounced ==
  ASSUME TypeOK, Announced, queue # <<>>, queue' = Tail(queue), run' = run,
         active' # Nobody /\ run[active'] = "over" /\ ~gone'
           => active' = active /\ (~gone \/ Head(queue) = Event("started", active))
              /\ Head(queue) # Event("over", active)
  PROVE  Announced'
<1> USE TailIs
<1>1. \A i \in 1..Len(queue') : queue'[i].type = "over" => run'[queue'[i].of] = "over"
  BY DEF Announced
<1>2. \A i, j \in 1..Len(queue') :
        queue'[i].type = "over" /\ queue'[j] = Event("switched", queue'[i].of) => j < i
  <2> SUFFICES ASSUME NEW i \in 1..Len(queue'), NEW j \in 1..Len(queue'),
                      queue'[i].type = "over", queue'[j] = Event("switched", queue'[i].of)
               PROVE  j < i
    OBVIOUS
  <2>1. j + 1 < i + 1
    BY DEF Announced
  <2> QED BY <2>1
<1>3. ASSUME NEW i \in 1..Len(queue), queue[i].type = "started", run[queue[i].of] = "over"
      PROVE  \E j \in i..Len(queue') : queue'[j] = Event("over", queue[i].of)
  <2>1. PICK j \in (i + 1)..Len(queue) : queue[j] = Event("over", queue[i].of)
    BY <1>3 DEF Announced
  <2>2. j - 1 \in i..Len(queue') /\ j - 1 \in 1..Len(queue')
    BY <2>1
  <2>3. queue'[j - 1] = queue[j]
    BY <2>1, <2>2
  <2> QED BY <2>1, <2>2, <2>3
<1>4. \A i \in 1..Len(queue') :
        queue'[i].type = "started" /\ run'[queue'[i].of] = "over"
          => \E j \in (i + 1)..Len(queue') : queue'[j] = Event("over", queue'[i].of)
  BY <1>3
<1>5. ASSUME active' # Nobody, run[active'] = "over", ~gone'
      PROVE  \E i \in 1..Len(queue') : queue'[i] = Event("over", active')
  <2>1. active' = active /\ active \in Executions /\ Head(queue) # Event("over", active)
    BY <1>5 DEF TypeOK
  <2>2. CASE ~gone
    <3>1. Queued("over", active)
      BY <1>5, <2>1, <2>2 DEF Announced
    <3> QED BY <2>1, <3>1
  <2>3. CASE Head(queue) = Event("started", active)
    <3>1. 1 \in 1..Len(queue) /\ queue[1].type = "started" /\ queue[1].of = active
      BY <2>1, <2>3, EventIs
    <3>2. \E j \in 1..Len(queue') : queue'[j] = Event("over", queue[1].of)
      BY <1>3, <1>5, <2>1, <3>1
    <3> QED BY <2>1, <3>1, <3>2
  <2> QED BY <1>5, <2>2, <2>3
<1>6. active' # Nobody /\ run'[active'] = "over" /\ ~gone' => Queued("over", active)'
  BY <1>5 DEF Queued
<1> QED BY <1>1, <1>2, <1>4, <1>6 DEF Announced

-----------------------------------------------------------------------------
(* What goes on beside the projection. *)

LEMMA ReducedStaysNext ==
  (\A t, n, m \in Nat : n <= m /\ Reduced(t, n) # "open" => Reduced(t, m) = Reduced(t, n))'
<1>1. \A t, n, m \in Nat : n <= m /\ Reduced(t, n) # "open" => Reduced(t, m) = Reduced(t, n)
  BY ReducedStays
<1> QED BY <1>1, PTL

LEMMA ToldKept ==
  ASSUME TypeOK, ToldTruly, Grows, UNCHANGED <<told, sticky, edges, read>>
  PROVE  ToldTruly'
<1> SUFFICES ASSUME NEW x \in told
             PROVE  /\ x.turn \in Turns(Len(ledger))' /\ x.what # "open"
                    /\ x.turn \in sticky => x.what = "died"
                    /\ x.turn \notin sticky =>
                         /\ Reduced(x.turn, Len(ledger))' = x.what
                         /\ read # 0 => Reduced(x.turn, read)' = x.what
                    /\ x.turn \in DOMAIN edges => edges[x.turn] = x.what
  BY DEF ToldTruly
<1>0. ledger \in Seq(Records) /\ Len(ledger) \in Nat /\ Len(ledger') \in Nat /\ read \in 0..Len(ledger)
      /\ Len(ledger) <= Len(ledger') /\ ledger' \in Seq(Records)
  BY DEF TypeOK, Grows
<1>1. x.turn \in 1..Len(ledger) /\ Prompt(x.turn) /\ Current(x.turn) /\ x.what # "open"
  BY DEF ToldTruly, Turns
<1>2. x.turn \in Turns(Len(ledger))'
  <2>1. Prompt(x.turn)' /\ Current(x.turn)'
    BY <1>0, <1>1, PrefixKept
  <2> QED BY <1>0, <1>1, <2>1 DEF Turns
<1>3. ASSUME x.turn \notin sticky
      PROVE  /\ Reduced(x.turn, Len(ledger))' = x.what
             /\ read # 0 => Reduced(x.turn, read)' = x.what
  <2>1. Reduced(x.turn, Len(ledger)) = x.what /\ (read # 0 => Reduced(x.turn, read) = x.what)
    BY <1>3 DEF ToldTruly
  <2> DEFINE n == Len(ledger)
             m == Len(ledger')
             t == x.turn
  <2>2. \A k, u : u = n /\ k = t => Reduced(k, u)' = Reduced(k, u)
    BY <1>0, <1>1, ReducedKept
  <2>3. \A k, u : u = read /\ k = t => Reduced(k, u)' = Reduced(k, u)
    BY <1>0, <1>1, ReducedKept
  <2>4. ASSUME NEW k, NEW u, NEW v, k = t, u = n, v = m
        PROVE  Reduced(k, v)' = Reduced(k, u)
    <3>1. Reduced(k, u)' = Reduced(k, u) /\ Reduced(k, u) # "open"
      BY <1>1, <2>1, <2>2, <2>4
    <3>2. k \in Nat /\ u \in Nat /\ v \in Nat /\ u <= v
      BY <1>0, <1>1, <2>4
    <3> QED BY <3>1, <3>2, ReducedStaysNext
  <2> QED BY <2>1, <2>3, <2>4
<1> QED BY <1>1, <1>2, <1>3 DEF ToldTruly

\* The ledger does not grow.
LEMMA StillGrows == ASSUME TypeOK, UNCHANGED ledger PROVE Grows
BY DEF Grows, TypeOK

LEMMA WrittenKept ==
  ASSUME TypeOK, Written, UNCHANGED ledger,
         \A e \in Executions : run[e] # "none" => run'[e] # "none"
  PROVE  Written'
<1>1. \A n \in 1..Len(ledger) : ledger[n].by \in Executions
  <2>1. ledger \in Seq(Records)
    BY DEF TypeOK
  <2>2. \A n \in 1..Len(ledger) : ledger[n] \in Records
    BY <2>1
  <2> QED BY <2>2 DEF Records
<1> QED BY <1>1 DEF Written, Prompt

\* Nobody is further than before, so nothing that was waited for is given up.
LEMMA QueuedKept ==
  ASSUME NEW type, NEW e, UNCHANGED queue, Queued(type, e)
  PROVE  Queued(type, e)'
BY DEF Queued

LEMMA LaunchKeeps == ASSUME IInv, NEW e \in Executions, Launch(e) PROVE IInv'
<1> USE DEF IInv
<1>1. /\ UNCHANGED <<ledger, active, gone, read, failed, sticky, edges, told, fiber, asked, faults>>
      /\ Order' /\ pointer' = e /\ run' = [run EXCEPT ![e] = "live"] /\ run[e] = "none"
  BY LaunchOrder DEF Launch, memory, source, picture, count
<1>2. Announced' /\ Queued("switched", pointer)'
  BY LaunchAnnounced
<1>3. TypeOK' /\ ToldTruly'
  BY <1>1, LaunchTypes, ToldKept, StillGrows
<1>4. Written'
  BY <1>1, WrittenKept DEF TypeOK
<1>5. Known' /\ Opened'
  BY <1>2 DEF Known, Opened
<1>6. Fresh'
  BY <1>1 DEF Fresh
<1>7. Chased'
  BY <1>1 DEF Chased, TypeOK
<1> QED BY <1>1, <1>2, <1>3, <1>4, <1>5, <1>6, <1>7

LEMMA ExitKeeps == ASSUME IInv, NEW e \in Executions, Exit(e) PROVE IInv'
<1> USE DEF IInv
<1>1. /\ UNCHANGED <<ledger, pointer, active, gone, read, failed, sticky, edges, told, fiber, asked, faults>>
      /\ Order' /\ e = pointer /\ run' = [run EXCEPT ![e] = "over"]
  BY ExitOrder DEF Exit, memory, source, picture, count
<1>2. /\ Announced' /\ Queued("over", e)'
      /\ Queued("switched", e) => Queued("switched", e)'
  BY ExitAnnounced
<1>3. TypeOK' /\ ToldTruly'
  BY <1>1, ExitTypes, ToldKept, StillGrows
<1>4. Written'
  BY <1>1, WrittenKept DEF TypeOK
<1>5. /\ Queued("switched", pointer) => Queued("switched", pointer)'
      /\ Queued("over", pointer)'
  BY <1>1, <1>2 DEF Queued
<1>6. Known' /\ Opened'
  BY <1>1, <1>5 DEF Known, NotYet, Opened, Busy
<1>7. Fresh'
  BY <1>1 DEF Fresh
<1>8. Chased'
  BY <1>5 DEF Chased
<1> QED BY <1>1, <1>2, <1>3, <1>4, <1>6, <1>7, <1>8

\* What was read of an end stays read.
LEMMA HeardKept ==
  ASSUME TypeOK, Written, Grows, edges' = edges, NEW n \in 1..Len(ledger), Current(n) => Heard(n)
  PROVE  Current(n)' => Heard(n)'
<1>1. (Current(n)' <=> Current(n)) /\ (Prompt(n)' <=> Prompt(n)) /\ ledger'[n] = ledger[n]
  BY PrefixKept DEF Grows, TypeOK
<1> QED BY <1>1 DEF Heard

LEMMA ChasedKept ==
  ASSUME TypeOK, Written, Chased, Grows, UNCHANGED <<edges, pointer, run, queue, due, faults>>,
         read' = read, UNCHANGED <<fiber>>
  PROVE  Chased'
<1>1. \A n \in 1..due : (Current(n) => Heard(n)) => (Current(n)' => Heard(n)')
  BY HeardKept DEF TypeOK
<1> QED BY <1>1 DEF Chased, Queued

LEMMA WriteKeeps == ASSUME IInv, NEW e \in Executions, Write(e) PROVE IInv'
<1> USE DEF IInv
<1>1. /\ Grows /\ Len(ledger') = Len(ledger) + 1
      /\ UNCHANGED <<run, pointer, queue, active, gone, read, failed, sticky, edges, told, fiber,
                     hold, asked, due, faults>>
  BY WriteGrows DEF memory, source, picture, fibers, count
<1>2. TypeOK' /\ ToldTruly' /\ Chased'
  BY <1>1, WriteTypes, ToldKept, ChasedKept
<1>3. Written'
  <2>1. PICK of \in 1..(Len(ledger) + 1) :
          /\ of <= Len(ledger) => ledger[of] = [by |-> e, of |-> of]
          /\ ledger' = Append(ledger, [by |-> e, of |-> of])
    BY DEF Write
  <2>2. /\ ledger'[Len(ledger) + 1] = [by |-> e, of |-> of] /\ run[e] # "none" /\ Len(ledger) \in Nat
        /\ \A i \in 1..Len(ledger) : ledger'[i] = ledger[i]
    BY <2>1 DEF Write, TypeOK
  <2>3. /\ ledger'[of] = [by |-> e, of |-> of] /\ of <= Len(ledger) + 1
        /\ of \in 1..Len(ledger')
    BY <1>1, <2>1, <2>2
  <2>4. \A i \in 1..Len(ledger) : ledger[i].of \in 1..Len(ledger)
    <3>1. \A i \in 1..Len(ledger) : ledger[i] \in Records
      BY DEF TypeOK
    <3> QED BY <3>1 DEF Written, Records, Seqs
  <2> SUFFICES ASSUME NEW n \in 1..Len(ledger')
               PROVE  /\ run[ledger'[n].by] # "none" /\ ledger'[n].of <= n
                      /\ ledger'[ledger'[n].of].of = ledger'[n].of
                      /\ ledger'[ledger'[n].of].by = ledger'[n].by
    BY <1>1 DEF Written, Prompt
  <2>5. CASE n \in 1..Len(ledger)
    BY <2>2, <2>4, <2>5 DEF Written, Prompt
  <2>6. CASE n = Len(ledger) + 1
    BY <2>2, <2>3, <2>6
  <2> QED BY <1>1, <2>2, <2>5, <2>6
<1>4. Order' /\ Announced' /\ Known' /\ Fresh'
  BY <1>1 DEF Order, Announced, Queued, Known, NotYet, Fresh
<1>5. Opened'
  <2>1. \A t \in DOMAIN edges : ledger'[t] = ledger[t]
    BY <1>1 DEF Grows, TypeOK
  <2> QED BY <1>1, <2>1 DEF Opened, Busy, Queued
<1> QED BY <1>2, <1>3, <1>4, <1>5

-----------------------------------------------------------------------------
(* The beginnings of a refresh. *)

LEMMA InventoryFinds ==
  ASSUME TypeOK, Order, AppliesInventory, UNCHANGED world
  PROVE  /\ Order' /\ active' = pointer /\ UNCHANGED <<ledger, run, pointer>>
         /\ gone' <=> (pointer # Nobody /\ run[pointer] = "over")
<1>1. active' = pointer /\ UNCHANGED <<ledger, run, pointer>>
      /\ gone' = (pointer # Nobody /\ run[pointer] = "over")
  BY DEF AppliesInventory, world
<1>2. gone' <=> (pointer # Nobody /\ run[pointer] = "over")
  BY <1>1, Zenon
<1> QED BY <1>1, <1>2, Numbers DEF Order

LEMMA AnnouncedKept ==
  ASSUME Announced, UNCHANGED <<queue, run>>,
         active' # Nobody /\ run[active'] = "over" /\ ~gone' => active' = active /\ ~gone
  PROVE  Announced'
BY DEF Announced, Queued

\* Of the fibers only one waits that did not.
LEMMA BeginsDoes ==
  ASSUME TypeOK, StartupBegins \/ PollBegins \/ Ask
  PROVE  \E f \in {"startup", "poll", "caller"} :
           /\ AppliesInventory /\ UNCHANGED <<world, queue, source, picture, hold, due, count>>
           /\ fiber'[f] = "waiting" /\ \A g \in Fibers : g # f => fiber'[g] = fiber[g]
           /\ f = "poll" => fiber["startup"] = "done" /\ pointer # Nobody /\ run[pointer] = "live"
           /\ f = "caller" \/ asked' = asked
<1>1. CASE StartupBegins
  BY <1>1, WaitsTypes DEF StartupBegins, Fibers
<1>2. CASE PollBegins
  BY <1>2, WaitsTypes DEF PollBegins, Fibers
<1>3. CASE Ask
  BY <1>3, WaitsTypes DEF Ask, Fibers
<1> QED BY <1>1, <1>2, <1>3

LEMMA BeginsKeeps == ASSUME IInv, StartupBegins \/ PollBegins \/ Ask PROVE IInv'
<1> USE DEF IInv
<1>1. PICK f \in {"startup", "poll", "caller"} :
        /\ AppliesInventory /\ UNCHANGED <<world, queue, source, picture, hold, due, count>>
        /\ fiber'[f] = "waiting" /\ \A g \in Fibers : g # f => fiber'[g] = fiber[g]
        /\ f = "poll" => fiber["startup"] = "done" /\ pointer # Nobody /\ run[pointer] = "live"
        /\ f = "caller" \/ asked' = asked
  BY BeginsDoes
<1>2. /\ Order' /\ active' = pointer /\ UNCHANGED <<ledger, run, pointer>>
      /\ gone' <=> (pointer # Nobody /\ run[pointer] = "over")
  BY <1>1, InventoryFinds
<1>3. UNCHANGED <<queue, read, failed, sticky, edges, told, due, faults>>
  BY <1>1 DEF source, picture, count
<1>4. TypeOK' /\ ToldTruly' /\ Written'
  BY <1>2, <1>3, BeginsTypes, ToldKept, StillGrows, WrittenKept DEF TypeOK
<1>5. Announced'
  BY <1>2, <1>3, AnnouncedKept
<1>6. Known'
  BY <1>2 DEF Known
<1>7. Fresh'
  BY <1>1, <1>3 DEF Fresh, Fibers
<1>8. Chased'
  <2>1. /\ fiber["startup"] \in {"due", "waiting"} => fiber'["startup"] \in {"due", "waiting"}
        /\ fiber["startup"] = "tailed" =>
             fiber'["startup"] = "tailed" \/ fiber'["startup"] = "waiting"
        /\ fiber'["handler"] = fiber["handler"]
    BY <1>1 DEF Fibers
  <2>2. \A n : (Current(n)' <=> Current(n)) /\ (Heard(n)' <=> Heard(n))
    BY <1>2, <1>3 DEF Current, Begins, Heard, Prompt
  <2>3. \A type, e : Queued(type, e) => Queued(type, e)'
    BY <1>3 DEF Queued
  <2> QED BY <1>2, <1>3, <2>1, <2>2, <2>3 DEF Chased, Queued
<1>9. Opened'
  <2>1. CASE f \in {"startup", "caller"}
    BY <1>1, <2>1 DEF Opened, Busy
  <2>2. CASE f = "poll"
    <3>1. \A g \in {"startup", "handler", "caller"} : fiber'[g] = fiber[g]
      BY <1>1, <2>2 DEF Fibers
    <3>2. CASE pointer = active
      <4>1. ~gone' /\ active' = active
        BY <1>1, <1>2, <2>2, <3>2
      <4> QED BY <1>2, <1>3, <3>1, <4>1 DEF Opened, Busy, Queued
    <3>3. CASE pointer # active
      <4>1. faults = 0 => Queued("switched", pointer)
        BY <1>1, <2>2, <3>3 DEF Known, NotYet
      <4> QED BY <1>2, <1>3, <4>1 DEF Opened, Queued
    <3> QED BY <3>2, <3>3
  <2> QED BY <2>1, <2>2
<1> QED BY <1>2, <1>4, <1>5, <1>6, <1>7, <1>8, <1>9

-----------------------------------------------------------------------------
(* The events. *)

LEMMA HandleDoes ==
  ASSUME TypeOK, Handle
  PROVE  /\ UNCHANGED <<world, source, picture, hold, asked, due>> /\ restarts' = restarts
         /\ queue' = Tail(queue) /\ queue # <<>> /\ fiber["handler"] = "idle"
         /\ \A g \in Fibers : g # "handler" => fiber'[g] = fiber[g]
         /\ \/ /\ Head(queue).type = "switched" /\ AppliesInventory
               /\ fiber'["handler"] = "waiting" /\ faults' = faults
            \/ /\ Head(queue).type = "switched" /\ faults' # 0
               /\ UNCHANGED <<active, gone, fiber>>
            \/ /\ Head(queue).type # "switched" /\ Head(queue).of = active /\ faults' = faults
               /\ active' = active /\ (gone' <=> Head(queue).type = "over")
               /\ fiber'["handler"] = "waiting"
            \/ /\ Head(queue).type # "switched" /\ Head(queue).of # active /\ faults' = faults
               /\ UNCHANGED <<active, gone, fiber>>
<1>1. /\ UNCHANGED <<world, source, picture, hold, asked, due>>
      /\ queue' = Tail(queue) /\ queue # <<>> /\ fiber["handler"] = "idle"
      /\ \/ /\ Head(queue).type = "switched" /\ AppliesInventory /\ Waits("handler") /\ Fine
         \/ /\ Head(queue).type = "switched" /\ Fault /\ UNCHANGED <<memory, fiber>>
         \/ /\ Head(queue).type # "switched" /\ Head(queue).of = active /\ Fine
            /\ active' = active /\ gone' = (Head(queue).type = "over") /\ Waits("handler")
         \/ /\ Head(queue).type # "switched" /\ Head(queue).of # active /\ Fine
            /\ active' = active /\ UNCHANGED <<gone, fiber>>
  BY DEF Handle
<1>2. Waits("handler") => /\ fiber'["handler"] = "waiting"
                          /\ \A g \in Fibers : g # "handler" => fiber'[g] = fiber[g]
  BY <1>1, WaitsTypes DEF Fibers
<1>3. restarts' = restarts
  BY <1>1, FineCounts, FaultCounts
<1>4. gone' = (Head(queue).type = "over") => (gone' <=> Head(queue).type = "over")
  BY Zenon
<1> QED BY <1>1, <1>2, <1>3, <1>4, FineCounts, FaultCounts DEF memory

LEMMA HandleKeeps == ASSUME IInv, Handle PROVE IInv'
<1> USE DEF IInv
<1> DEFINE H == Head(queue)
<1>1. /\ UNCHANGED <<world, source, picture, hold, asked, due>>
      /\ queue' = Tail(queue) /\ queue # <<>> /\ fiber["handler"] = "idle"
      /\ \A g \in Fibers : g # "handler" => fiber'[g] = fiber[g]
  BY HandleDoes
<1>2. UNCHANGED <<ledger, run, pointer, read, failed, sticky, edges, told>>
  BY <1>1 DEF world, source, picture
<1>3. H \in Events /\ H.of \in Executions /\ H = queue[1] /\ 1 \in 1..Len(queue)
      /\ H.type \in {"started", "over", "switched"} /\ H = Event(H.type, H.of)
  <2>1. H \in Events /\ H.of \in Executions /\ H = queue[1] /\ 1 \in 1..Len(queue)
    BY <1>1, TailIs
  <2> QED BY <2>1 DEF Events, Event
<1> HIDE DEF H
<1>4. \/ /\ H.type = "switched" /\ AppliesInventory
         /\ fiber'["handler"] = "waiting" /\ faults' = faults
      \/ H.type = "switched" /\ faults' # 0 /\ UNCHANGED <<active, gone, fiber>>
      \/ /\ H.type # "switched" /\ H.of = active /\ faults' = faults
         /\ active' = active /\ (gone' <=> H.type = "over") /\ fiber'["handler"] = "waiting"
      \/ /\ H.type # "switched" /\ H.of # active /\ faults' = faults
         /\ UNCHANGED <<active, gone, fiber>>
  BY HandleDoes DEF H
<1>5. TypeOK' /\ ToldTruly' /\ Written'
  BY <1>2, HandleTypes, ToldKept, StillGrows, WrittenKept DEF TypeOK
<1>6. AppliesInventory => /\ Order' /\ active' = pointer
                          /\ gone' <=> (pointer # Nobody /\ run[pointer] = "over")
  BY <1>1, InventoryFinds
<1>7. H.type = "over" => run[H.of] = "over"
  BY <1>3 DEF Announced
<1>8. Order'
  <2>1. CASE AppliesInventory
    BY <1>6, <2>1
  <2>2. CASE active' = active
    BY <1>2, <1>3, <1>4, <1>6, <1>7, <2>2, Numbers DEF Order
  <2> QED BY <1>4, <2>1, <2>2
<1>9. Announced'
  <2>1. ASSUME active' # Nobody, run[active'] = "over", ~gone'
        PROVE  /\ active' = active /\ (~gone \/ H = Event("started", active))
               /\ H # Event("over", active)
    <3>1. ~AppliesInventory
      BY <1>6, <2>1
    <3>2. active' = active /\ active \in Executions
      BY <1>4, <2>1, <3>1 DEF TypeOK
    <3>3. H = Event("over", active) => H.type = "over" /\ H.of = active
      BY <3>2, EventIs
    <3>4. H.type # "switched" /\ H.type # "over" => H.type = "started"
      BY <1>3
    <3> QED BY <1>3, <1>4, <2>1, <3>1, <3>2, <3>3, <3>4
  <2> QED BY <1>1, <1>2, <2>1, TailAnnounced DEF H
<1>10. \A e \in Executions : Queued("switched", e) /\ H.type # "switched" => Queued("switched", e)'
  <2> SUFFICES ASSUME NEW e \in Executions, Queued("switched", e), H.type # "switched"
               PROVE  Queued("switched", e)'
    OBVIOUS
  <2>1. H # Event("switched", e)
    BY EventIs
  <2>2. \E i \in 1..Len(queue') : queue'[i] = Event("switched", e)
    BY <1>1, <2>1, TailIs DEF H
  <2> QED BY <2>2 DEF Queued
<1>11. pointer # active => pointer \in Executions
  BY Numbers DEF Order, TypeOK
<1>12. \A e \in Executions : e = pointer /\ Queued("switched", e)' => Queued("switched", pointer)'
  BY <1>2 DEF Queued
<1>13. Known'
  <2>1. CASE AppliesInventory
    BY <1>2, <1>6, <2>1 DEF Known
  <2>2. CASE active' = active /\ H.type # "switched"
    <3> SUFFICES ASSUME faults' = 0, pointer # active
                 PROVE  NotYet' \/ Queued("switched", pointer)'
      BY <1>2, <2>2 DEF Known
    <3>1. NotYet \/ Queued("switched", pointer)
      BY <1>4, <2>2 DEF Known
    <3>2. NotYet => NotYet'
      <4>1. NotYet => H.of # active
        BY <1>3, Numbers DEF NotYet
      <4> QED BY <1>4, <2>2, <4>1 DEF NotYet
    <3> QED BY <1>10, <1>11, <1>12, <2>2, <3>1, <3>2
  <2>3. CASE faults' # 0
    BY <2>3 DEF Known
  <2> QED BY <1>4, <2>1, <2>2, <2>3
<1>14. Fresh'
  BY <1>1, <1>2 DEF Fresh, Fibers
<1>15. Opened'
  <2>1. CASE fiber'["handler"] = "waiting"
    BY <2>1 DEF Opened, Busy
  <2>2. CASE faults' # 0
    BY <2>2 DEF Opened
  <2>3. CASE H.type # "switched" /\ faults' = faults /\ UNCHANGED <<active, gone, fiber>>
    <3>1. pointer = Nobody \/ pointer \in Executions
      BY DEF TypeOK
    <3>2. Queued("switched", pointer) => pointer \in Executions
      <4>1. ASSUME NEW i \in 1..Len(queue), queue[i] = Event("switched", pointer)
            PROVE  pointer \in Executions
        BY <4>1, QueueIs DEF Event
      <4> QED BY <4>1 DEF Queued
    <3> QED BY <1>2, <1>10, <1>12, <2>3, <3>2 DEF Opened, Busy
  <2> QED BY <1>4, <2>1, <2>2, <2>3
<1>16. Chased'
  <2> SUFFICES ASSUME faults' = 0, pointer # Nobody, run[pointer] = "over"
               PROVE  Chased'
    BY <1>2 DEF Chased
  <2>1. CASE fiber'["handler"] = "waiting"
    BY <2>1 DEF Chased
  <2>2. CASE H.type # "switched" /\ faults' = faults /\ UNCHANGED <<active, gone, fiber>> /\ H.of # active
    <3>1. pointer \in Executions
      BY DEF TypeOK
    <3>2. CASE H = Event("over", pointer)
      <4>1. pointer # active /\ H.type = "over" /\ H.of = pointer
        BY <2>2, <3>1, <3>2, EventIs
      <4>2. ~Queued("switched", pointer)
        <5>1. ASSUME NEW j \in 1..Len(queue), queue[j] = Event("switched", pointer)
              PROVE  FALSE
          BY <1>3, <4>1, <5>1 DEF Announced
        <5> QED BY <5>1 DEF Queued
      <4>3. NotYet
        BY <2>2, <4>1, <4>2 DEF Known
      <4> QED BY <2>2, <4>3 DEF Chased, NotYet
    <3>3. CASE H # Event("over", pointer)
      <4>1. Queued("over", pointer) => Queued("over", pointer)'
        <5>1. Queued("over", pointer) => \E i \in 1..Len(queue') : queue'[i] = Event("over", pointer)
          BY <1>1, <3>1, <3>3, TailIs DEF H
        <5> QED BY <1>2, <5>1 DEF Queued
      <4>2. \A n : (Current(n)' <=> Current(n)) /\ (Heard(n)' <=> Heard(n))
        BY <1>2 DEF Current, Begins, Heard, Prompt
      <4> QED BY <1>1, <1>2, <2>2, <4>1, <4>2 DEF Chased
    <3> QED BY <3>2, <3>3
  <2> QED BY <1>4, <2>1, <2>2
<1> QED BY <1>5, <1>8, <1>9, <1>13, <1>14, <1>15, <1>16

-----------------------------------------------------------------------------
(* The reads of the ledger. *)

LEMMA TailsKeeps == ASSUME IInv, NEW f \in Fibers, Tails(f) PROVE IInv'
<1> USE DEF IInv
<1>1. /\ UNCHANGED <<ledger, run, pointer, queue, active, gone, sticky, edges, told, asked, due>>
      /\ fiber[f] = "waiting" /\ \A g \in Fibers : fiber[g] # "tailed"
      /\ \/ read' = Len(ledger) /\ failed' = FALSE /\ faults' = faults
         \/ failed' = TRUE /\ faults' # 0 /\ read' \in {0, read}
      /\ \A g \in Fibers : g # f => fiber'[g] = fiber[g]
      /\ Forced(f) \/ f = "startup" => fiber'[f] = "tailed"
  BY TailsDoes DEF world, memory, picture
<1>2. TypeOK' /\ Written' /\ Order' /\ Announced'
  BY <1>1, TailsTypes, WrittenKept, AnnouncedKept DEF TypeOK, Order
<1>3. ~NotYet
  BY <1>1 DEF NotYet
<1>4. Known'
  BY <1>1, <1>3 DEF Known, Queued
<1>5. /\ asked <= Len(ledger) /\ due <= Len(ledger) /\ read \in Nat /\ Len(ledger) \in Nat
      /\ asked \in Nat /\ due \in Nat
  BY DEF TypeOK
<1>6. Fresh'
  <2>1. CASE f = "caller"
    BY <1>1, <1>5, <2>1 DEF Fresh
  <2>2. CASE f # "caller"
    BY <1>1, <2>2 DEF Fresh, Fibers
  <2> QED BY <2>1, <2>2
<1>7. ToldTruly'
  <2>1. \A n : (Turns(n)' = Turns(n)) /\ \A t : Reduced(t, n)' = Reduced(t, n)
    BY <1>1 DEF Turns, Reduced, Closers, Prompt, Current, Begins
  <2>2. read' \in {0, read, Len(ledger)}
    BY <1>1
  <2>3. \A t, n : n = read' => Reduced(t, read)' = Reduced(t, n)
    BY <2>1
  <2> SUFFICES ASSUME NEW x \in told, x.turn \notin sticky, read' # 0
               PROVE  Reduced(x.turn, read)' = x.what
    BY <1>1, <2>1 DEF ToldTruly
  <2>4. Reduced(x.turn, Len(ledger)) = x.what /\ (read # 0 => Reduced(x.turn, read) = x.what)
    BY DEF ToldTruly
  <2> QED BY <2>2, <2>3, <2>4
<1>8. Chased'
  <2> SUFFICES ASSUME faults' = 0, pointer # Nobody, run[pointer] = "over"
               PROVE  Chased'
    BY <1>1 DEF Chased
  <2>1. read' = Len(ledger) /\ faults = 0 /\ read' >= due
    BY <1>1, <1>5
  <2>2. \A n : (Current(n)' <=> Current(n)) /\ (Heard(n)' <=> Heard(n))
    BY <1>1 DEF Current, Begins, Heard, Prompt
  <2>3. Queued("over", pointer) => Queued("over", pointer)'
    BY <1>1 DEF Queued
  <2>4. /\ fiber["startup"] = "due" => fiber'["startup"] = "due"
        /\ fiber["startup"] = "waiting" => fiber'["startup"] \in {"waiting", "tailed"}
        /\ fiber["handler"] = "waiting" => fiber'["handler"] \in {"waiting", "tailed"}
        /\ fiber["startup"] # "tailed" /\ fiber["handler"] # "tailed"
    BY <1>1 DEF Fibers, Forced
  <2> QED BY <1>1, <2>1, <2>2, <2>3, <2>4 DEF Chased
<1>9. Opened'
  <2>1. CASE f = "poll"
    <3>1. \A g \in {"startup", "handler", "caller"} : fiber'[g] = fiber[g]
      BY <1>1, <2>1 DEF Fibers
    <3> QED BY <1>1, <3>1 DEF Opened, Busy, Queued
  <2>2. CASE f # "poll"
    BY <1>1, <2>2 DEF Opened, Busy, Fibers, Forced
  <2> QED BY <2>1, <2>2
<1> QED BY <1>2, <1>4, <1>6, <1>7, <1>8, <1>9

-----------------------------------------------------------------------------
(* The projections. *)

LEMMA ProjectsDoes ==
  ASSUME TypeOK, NEW f \in Fibers, Projects(f)
  PROVE  /\ UNCHANGED <<ledger, run, pointer, queue, active, gone, read, failed, due, faults, restarts>>
         /\ fiber[f] = "tailed" /\ sticky' = FoundDead /\ edges' = Projected
         /\ \A x \in told' \ told : x \in EdgesOf(Projected) /\ x.what # "open"
         /\ \A g \in Fibers : fiber'[g] # "tailed"
         /\ \A g \in Fibers : g # f => fiber'[g] = fiber[g]
         /\ f # "caller" => asked' = asked
<1>1. /\ hold.who = f /\ Finishes(f) /\ sticky' = FoundDead /\ edges' = Projected
      /\ UNCHANGED <<world, queue, memory, source, due, count>>
      /\ f # "caller" => asked' = asked
  BY DEF Projects
<1>2. \A x \in told' \ told : x \in EdgesOf(edges') /\ x.what # "open"
  BY DEF Projects, Deaths
<1>3. \A x \in told' \ told : x \in EdgesOf(Projected) /\ x.what # "open"
  BY <1>1, <1>2
<1>4. fiber[f] = "tailed"
  BY <1>1 DEF TypeOK
<1>5. UNCHANGED <<ledger, run, pointer, queue, active, gone, read, failed, due, faults, restarts>>
  BY <1>1 DEF world, memory, source, count
<1> QED BY <1>1, <1>3, <1>4, <1>5, FinishesTypes

\* A turn that is projected open has somebody who may end it, and one that was told closed is closed.
LEMMA MergedIs ==
  ASSUME TypeOK, NEW t \in Turns(read)
  PROVE  /\ Projected[t] = IF t \in FoundDead THEN "died" ELSE Reduced(t, read)
         /\ Projected[t] = "open" => ~Dead(t)
         /\ Reduced(t, read) # "open" => Projected[t] # "open"
BY ProjectedIs DEF Merged, FoundDead

LEMMA ProjectsTruly ==
  ASSUME TypeOK, ToldTruly, UNCHANGED <<ledger, read>>, sticky' = FoundDead, edges' = Projected,
         \A x \in told' \ told : x \in EdgesOf(Projected) /\ x.what # "open"
  PROVE  ToldTruly'
<1>1. \A n : Turns(n)' = Turns(n) /\ \A t : Reduced(t, n)' = Reduced(t, n)
  BY DEF Turns, Reduced, Closers, Prompt, Current, Begins
<1>2. \A t : Reduced(t, read)' = Reduced(t, read)
  BY <1>1
<1>3. \A t : Reduced(t, Len(ledger))' = Reduced(t, Len(ledger))
  BY <1>1
<1>4. Turns(Len(ledger))' = Turns(Len(ledger))
  BY <1>1
<1>5. Turns(read) \subseteq Turns(Len(ledger)) /\ read \in Nat /\ Len(ledger) \in Nat /\ read <= Len(ledger)
      /\ \A t \in Turns(read) : t \in Nat /\ read # 0
  BY DEF Turns, TypeOK
<1>6. DOMAIN Projected = Turns(read)
  BY ProjectedIs
<1> SUFFICES ASSUME NEW x \in told'
             PROVE  /\ x.turn \in Turns(Len(ledger)) /\ x.what # "open"
                    /\ x.turn \in FoundDead => x.what = "died"
                    /\ x.turn \notin FoundDead =>
                         /\ Reduced(x.turn, Len(ledger)) = x.what
                         /\ read # 0 => Reduced(x.turn, read) = x.what
                    /\ x.turn \in Turns(read) => Projected[x.turn] = x.what
  BY <1>2, <1>3, <1>4, <1>6 DEF ToldTruly
<1>7. CASE x \in told
  <2>1. CASE x.turn \in sticky
    <3>1. x.turn \in FoundDead
      BY <2>1 DEF FoundDead
    <3> QED BY <1>7, <2>1, <3>1, MergedIs DEF ToldTruly
  <2>2. CASE x.turn \notin sticky
    <3>1. /\ x.what # "open" /\ Reduced(x.turn, Len(ledger)) = x.what
          /\ read # 0 => Reduced(x.turn, read) = x.what
          /\ x.turn \in Turns(Len(ledger))
      BY <1>7, <2>2 DEF ToldTruly
    <3>2. x.turn \notin FoundDead
      BY <1>5, <2>2, <3>1 DEF FoundDead
    <3> QED BY <1>5, <3>1, <3>2, MergedIs
  <2> QED BY <2>1, <2>2
<1>8. CASE x \notin told
  <2>1. x.turn \in Turns(read) /\ x.what = Projected[x.turn] /\ x.what # "open"
    BY <1>6, <1>8, EdgesAre
  <2>2. CASE x.turn \in FoundDead
    BY <1>5, <2>1, <2>2, MergedIs
  <2>3. CASE x.turn \notin FoundDead
    <3>1. Reduced(x.turn, read) = x.what
      BY <2>1, <2>3, MergedIs
    <3>2. Reduced(x.turn, Len(ledger)) = Reduced(x.turn, read)
      BY <1>5, <2>1, <3>1, ReducedStays
    <3> QED BY <1>5, <2>1, <2>3, <3>1, <3>2
  <2> QED BY <2>2, <2>3
<1> QED BY <1>7, <1>8

\* Every record that was read is in the projection.
LEMMA ReadIsHeard ==
  ASSUME TypeOK, Written, UNCHANGED ledger, edges' = Projected, NEW n \in 1..read, Current(n)
  PROVE  Heard(n)'
<1> DEFINE t == ledger[n].of
<1>1. n \in 1..Len(ledger) /\ n \in Nat /\ read \in Nat
  BY DEF TypeOK
<1>2. t \in Nat /\ t > 0 /\ t <= n /\ Prompt(t) /\ ledger[t].by = ledger[n].by
  <2>1. ledger[n] \in Records
    BY <1>1 DEF TypeOK
  <2> QED BY <1>1, <2>1 DEF Written, Records, Seqs
<1>3. Prompt(n) <=> t = n
  BY DEF Prompt
<1>4. ~Prompt(n) => t < n /\ n \in Closers(t, read)
  BY <1>1, <1>2, <1>3 DEF Closers
<1> HIDE DEF t
<1>5. Current(t)
  BY <1>1, <1>2 DEF Current
<1>6. t \in Turns(read)
  BY <1>1, <1>2, <1>5 DEF Turns
<1>7. ~Prompt(n) => Projected[t] # "open"
  BY <1>4, <1>6, ReducedIsOutcome, MergedIs
<1>8. t \in DOMAIN edges'
  BY <1>6, ProjectedIs
<1> QED BY <1>7, <1>8 DEF Heard, Prompt, t

LEMMA ProjectsKeeps == ASSUME IInv, NEW f \in Fibers, Projects(f) PROVE IInv'
<1> USE DEF IInv
<1>1. /\ UNCHANGED <<ledger, run, pointer, queue, active, gone, read, failed, due, faults, restarts>>
      /\ fiber[f] = "tailed" /\ sticky' = FoundDead /\ edges' = Projected
      /\ \A x \in told' \ told : x \in EdgesOf(Projected) /\ x.what # "open"
      /\ \A g \in Fibers : fiber'[g] # "tailed"
      /\ \A g \in Fibers : g # f => fiber'[g] = fiber[g]
  BY ProjectsDoes
<1>2. TypeOK' /\ Written' /\ Order' /\ Announced'
  BY <1>1, ProjectsTypes, WrittenKept, AnnouncedKept DEF TypeOK, Order
<1>3. ToldTruly'
  BY <1>1, ProjectsTruly
<1>4. Known'
  <2>1. ~NotYet
    BY <1>1 DEF NotYet
  <2> QED BY <1>1, <2>1 DEF Known, Queued
<1>5. Fresh'
  BY <1>1 DEF Fresh, Fibers
<1>6. Opened'
  <2>1. \A t \in DOMAIN edges' : edges'[t] = "open" => ledger[t].by = active /\ ~gone
    BY <1>1, ProjectedIs, MergedIs DEF Dead
  <2> QED BY <1>1, <2>1 DEF Opened
<1>7. Chased'
  <2>1. CASE read >= due
    <3>1. \A n \in 1..due : n \in 1..read
      BY <2>1 DEF TypeOK
    <3>2. \A n \in 1..due : Current(n) => Heard(n)'
      BY <1>1, <3>1, ReadIsHeard
    <3>3. \A n : Current(n)' <=> Current(n)
      BY <1>1 DEF Current, Begins
    <3> QED BY <1>1, <2>1, <3>2, <3>3 DEF Chased
  <2>2. CASE ~(read >= due)
    <3>1. /\ fiber["startup"] \in {"due", "waiting"} => fiber'["startup"] = fiber["startup"]
          /\ fiber["handler"] = "waiting" => fiber'["handler"] = fiber["handler"]
      BY <1>1 DEF Fibers
    <3>2. Queued("over", pointer) => Queued("over", pointer)'
      BY <1>1 DEF Queued
    <3> QED BY <1>1, <2>2, <3>1, <3>2 DEF Chased
  <2> QED BY <2>1, <2>2
<1> QED BY <1>2, <1>3, <1>4, <1>5, <1>6, <1>7

-----------------------------------------------------------------------------
(* The runtime starts again, and the steps together. *)

LEMMA RestartKeeps == ASSUME IInv, Restart PROVE IInv'
<1> USE DEF IInv
<1>1. /\ ledger' = ledger /\ pointer' = pointer /\ queue' = <<>> /\ active' = Nobody /\ gone' = FALSE
      /\ edges' = <<>> /\ told' = {} /\ fiber' = Due
  BY DEF Restart
<1>2. \A e \in Executions : /\ run'[e] = "none" <=> run[e] = "none"
                            /\ run[e] = "over" => run'[e] = "over"
  BY DEF Restart, TypeOK
<1>3. TypeOK' /\ Written'
  BY <1>1, <1>2, RestartTypes, WrittenKept
<1>4. Order'
  BY <1>1, <1>2, Numbers DEF Order
<1>5. Announced'
  BY <1>1 DEF Announced
<1>6. /\ fiber'["startup"] = "due" /\ fiber'["caller"] = "idle"
      /\ \A f \in Fibers : fiber'[f] \notin {"waiting", "tailed"}
  BY <1>1 DEF Due, Fibers
<1>7. Known' /\ Chased' /\ Fresh'
  BY <1>1, <1>6 DEF Known, NotYet, Chased, Fresh
<1>8. ToldTruly' /\ Opened'
  BY <1>1 DEF ToldTruly, Opened
<1> QED BY <1>3, <1>4, <1>5, <1>7, <1>8

LEMMA InitInv == ASSUME Init PROVE IInv
<1>1. /\ ledger = <<>> /\ run = [e \in Executions |-> "none"] /\ pointer = Nobody
      /\ queue = <<>> /\ active = Nobody /\ gone = FALSE
      /\ read = 0 /\ failed = FALSE
      /\ initialized = FALSE /\ sticky = {} /\ edges = <<>> /\ published = {} /\ told = {}
      /\ fiber = Due /\ hold = NoHold /\ asked = 0 /\ due = 0
      /\ faults = 0 /\ restarts = 0
  BY DEF Init
<1>2. /\ fiber["startup"] = "due" /\ fiber["caller"] = "idle"
      /\ \A f \in Fibers : fiber[f] \notin {"waiting", "tailed"}
      /\ fiber \in [Fibers -> {"due", "idle", "waiting", "tailed", "done"}]
      /\ hold \in [who : Fibers \union {"none"}, recovering : BOOLEAN] /\ hold.who = "none"
      /\ "none" \notin Fibers
  BY <1>1 DEF Due, Fibers, NoHold
<1>3. TypeOK
  <2>1. ledger \in Seq(Records) /\ Len(ledger) = 0 /\ queue \in Seq(Events) /\ DOMAIN edges = {}
    BY <1>1
  <2>2. /\ run \in [Executions -> {"none", "live", "over"}] /\ pointer \in {Nobody} \union Executions
        /\ active \in {Nobody} \union Executions
    BY <1>1
  <2>3. gone \in BOOLEAN /\ failed \in BOOLEAN /\ initialized \in BOOLEAN
    BY <1>1
  <2>4. sticky \subseteq Seqs /\ published \subseteq Edges /\ told \subseteq Edges
    BY <1>1
  <2>5. \A f \in Fibers : fiber[f] = "tailed" <=> hold.who = f
    BY <1>2
  <2>6. /\ Len(ledger) <= MaxRecords /\ read \in 0..Len(ledger) /\ asked \in 0..Len(ledger)
        /\ due \in 0..Len(ledger) /\ faults \in Nat /\ restarts \in Nat
        /\ faults + restarts <= MaxTroubles
    BY <1>1, <2>1
  <2> QED BY <1>2, <2>1, <2>2, <2>3, <2>4, <2>5, <2>6 DEF TypeOK
<1>4. Order
  BY <1>1 DEF Order, Executions, Nobody
<1>5. Written /\ Announced
  BY <1>1 DEF Written, Announced
<1>6. Known /\ Chased /\ Fresh
  BY <1>1, <1>2 DEF Known, NotYet, Chased, Fresh
<1>7. ToldTruly /\ Opened
  BY <1>1 DEF ToldTruly, Opened
<1> QED BY <1>3, <1>4, <1>5, <1>6, <1>7 DEF IInv

LEMMA StutterKeeps == ASSUME IInv, UNCHANGED vars PROVE IInv'
<1>1. UNCHANGED <<ledger, run, pointer, queue, active, gone, read, failed, initialized, sticky, edges,
                  published, told, fiber, hold, asked, due, faults, restarts>>
  BY DEF vars, world, memory, source, picture, fibers, count
<1>2. TypeOK'
  BY <1>1 DEF IInv, TypeOK
<1>3. ToldTruly' /\ Written'
  BY <1>1, ToldKept, StillGrows, WrittenKept DEF IInv
<1>4. Order' /\ Announced' /\ Known' /\ Fresh'
  BY <1>1 DEF IInv, Order, Announced, Known, NotYet, Fresh, Queued
<1>5. Chased'
  BY <1>1, ChasedKept, StillGrows DEF IInv
<1>6. Opened'
  BY <1>1 DEF IInv, Opened, Busy, Queued
<1> QED BY <1>2, <1>3, <1>4, <1>5, <1>6 DEF IInv

LEMMA StepInv == ASSUME IInv, [Next]_vars PROVE IInv'
<1>1. ASSUME NEW e \in Executions, Launch(e) PROVE IInv'
  BY <1>1, LaunchKeeps
<1>2. ASSUME NEW e \in Executions, Exit(e) PROVE IInv'
  BY <1>2, ExitKeeps
<1>3. ASSUME NEW e \in Executions, Write(e) PROVE IInv'
  BY <1>3, WriteKeeps
<1>4. CASE StartupBegins \/ PollBegins \/ Ask
  BY <1>4, BeginsKeeps
<1>5. CASE Handle
  BY <1>5, HandleKeeps
<1>6. ASSUME NEW f \in Fibers, Tails(f) PROVE IInv'
  BY <1>6, TailsKeeps
<1>7. ASSUME NEW f \in Fibers, Projects(f) PROVE IInv'
  BY <1>7, ProjectsKeeps
<1>8. CASE Restart
  BY <1>8, RestartKeeps
<1>9. CASE UNCHANGED vars
  BY <1>9, StutterKeeps
<1> QED BY <1>1, <1>2, <1>3, <1>4, <1>5, <1>6, <1>7, <1>8, <1>9 DEF Next

LEMMA Inductive == Spec => []IInv
<1>1. Init => IInv
  BY InitInv
<1>2. IInv /\ [Next]_vars => IInv'
  BY StepInv
<1> QED BY <1>1, <1>2, PTL DEF Spec

-----------------------------------------------------------------------------
(* What follows. *)

\* The maps of observer-state.ts and the lock of withAgentLock: a fiber is between its read and its
\* projection exactly while it has the lock, and nothing is projected that was not read.
THEOREM TypesHold == Spec => []TypeOK
<1>1. IInv => TypeOK
  BY DEF IInv
<1> QED BY <1>1, Inductive, PTL

\* mergeStickyFailures, publishedEdgeKeys: what was told of the end of a turn is never told
\* otherwise, nor taken back, whatever is appended and whoever projects it.
THEOREM OneOutcome == Spec => []OutcomesStick
<1>1. ASSUME IInv PROVE OutcomesStick
  <2> USE <1>1 DEF IInv
  <2> SUFFICES ASSUME NEW x \in told
               PROVE  /\ \A y \in told : y.turn = x.turn => y = x
                      /\ x.turn \in DOMAIN edges => edges[x.turn] = x.what
    BY DEF OutcomesStick
  <2>1. ASSUME NEW y \in told, y.turn = x.turn
        PROVE  y = x
    <3>1. y.what = x.what
      BY <2>1 DEF ToldTruly
    <3>2. x \in Edges /\ y \in Edges
      BY DEF TypeOK
    <3> QED BY <2>1, <3>1, <3>2 DEF Edges
  <2> QED BY <2>1 DEF ToldTruly
<1> QED BY <1>1, Inductive, PTL

\* pollOnce polls live sessions only, and handleEvent reads what an ended one still had written: at
\* rest nothing of it is unread, and no turn is open whose execution is over.
THEOREM NothingMissed == Spec => []NothingIsMissed
<1>1. ASSUME IInv PROVE NothingIsMissed
  <2> USE <1>1 DEF IInv
  <2> SUFFICES ASSUME AtRest, faults = 0, pointer # Nobody
               PROVE  /\ run[pointer] = "over" => \A n \in 1..due : Current(n) => Heard(n)
                      /\ \A t \in DOMAIN edges :
                           edges[t] = "open" => ledger[t].by = pointer /\ run[pointer] = "live"
    BY DEF NothingIsMissed
  <2>1. queue = <<>> /\ \A f \in Fibers : fiber[f] \in {"idle", "done"}
    BY DEF AtRest
  <2>2. /\ \A type, e : ~Queued(type, e)
        /\ \A f \in Fibers : fiber[f] \notin {"due", "waiting", "tailed"}
    BY <2>1 DEF Queued
  <2>3. active = pointer
    BY <2>2 DEF Known, NotYet, Fibers
  <2>4. run[pointer] = "over" => \A n \in 1..due : Current(n) => Heard(n)
    BY <2>2 DEF Chased, Fibers
  <2>5. ASSUME NEW t \in DOMAIN edges, edges[t] = "open"
        PROVE  ledger[t].by = pointer /\ run[pointer] = "live"
    <3>1. ledger[t].by = active /\ ~gone
      BY <2>2, <2>5 DEF Opened, Busy, Fibers
    <3>2. run[pointer] # "over"
      BY <2>2, <2>3, <3>1 DEF Announced
    <3>3. pointer \in Executions /\ pointer <= pointer
      BY Numbers DEF TypeOK
    <3>4. run[pointer] # "none" /\ run[pointer] \in {"none", "live", "over"}
      BY <3>3 DEF Order, TypeOK
    <3> QED BY <2>3, <3>1, <3>2, <3>4
  <2> QED BY <2>4, <2>5
<1> QED BY <1>1, Inductive, PTL

\* refreshTurnEdges takes the lock after the ledger grew to what the caller saw, and answers from
\* what it read itself: no answer is older than its question, unless it says that the read failed.
THEOREM Answered == Spec => FreshOrFailed
<1> DEFINE Answers == fiber["caller"] = "tailed" /\ fiber'["caller"] = "idle" /\ ~failed'
                      /\ restarts' = restarts
<1>1. ASSUME IInv, [Next]_vars, Answers
      PROVE  read' >= asked
  <2> USE DEF IInv
  <2>1. ASSUME fiber'["caller"] = fiber["caller"]
        PROVE  FALSE
    BY <1>1, <2>1
  <2>2. ASSUME NEW e \in Executions, Launch(e) \/ Exit(e) \/ Write(e)
        PROVE  FALSE
    BY <2>1, <2>2 DEF Launch, Exit, Write, fibers
  <2>3. CASE StartupBegins \/ PollBegins \/ Ask
    BY <1>1, <2>1, <2>3, BeginsDoes DEF Fibers
  <2>4. CASE Handle
    BY <1>1, <2>1, <2>4, HandleDoes DEF Fibers
  <2>5. ASSUME NEW f \in Fibers, Tails(f)
        PROVE  FALSE
    BY <1>1, <2>5, TailsDoes DEF Fibers
  <2>6. ASSUME NEW f \in Fibers, Projects(f)
        PROVE  read' >= asked
    BY <1>1, <2>6, ProjectsDoes DEF Fresh
  <2>7. CASE Restart
    BY <1>1, <2>7 DEF Restart, TypeOK
  <2>8. CASE UNCHANGED vars
    BY <2>1, <2>8 DEF vars, fibers
  <2> QED BY <1>1, <2>2, <2>3, <2>4, <2>5, <2>6, <2>7, <2>8 DEF Next
<1>2. IInv /\ [Next]_vars => [Answers => read' >= asked]_vars
  BY <1>1
<1> QED BY <1>2, Inductive, PTL DEF Spec, FreshOrFailed

\* activeTurnIsDead trusts activeExecutionByAgent and processFacts, which are written outside the
\* lock and may be old. Still, whoever is found dead is over or was replaced, or the event that
\* tells of the session's new execution is on its way; unless the database did not answer.
THEOREM DeathsReal == Spec => DeathsAreReal
<1> DEFINE Real(t) ==
      LET e == ledger[t].by IN
      \/ run[e] = "over" \/ e < pointer \/ Event("switched", e) \in Range(queue) \/ faults > 0
<1>1. ASSUME IInv, NEW f \in Fibers, Projects(f), NEW t \in sticky' \ sticky
      PROVE  Real(t)
  <2> USE <1>1 DEF IInv
  <2> DEFINE e == ledger[t].by
  <2>1. fiber[f] = "tailed" /\ sticky' = FoundDead
    BY ProjectsDoes
  <2>2. t \in Turns(read) /\ Dead(t)
    BY <2>1 DEF FoundDead
  <2>3. t \in 1..Len(ledger)
    BY <2>2 DEF Turns, TypeOK
  <2>4. e \in Executions /\ run[e] # "none"
    <3>1. ledger[t] \in Records
      BY <2>3 DEF TypeOK
    <3> QED BY <2>3, <3>1 DEF Written, Records
  <2>5. e # active \/ gone
    BY <2>2 DEF Dead
  <2> HIDE DEF e
  <2>6. e <= pointer /\ e \in Nat /\ pointer \in Nat
    BY <2>4, Numbers DEF Order
  <2>7. CASE e < pointer
    BY <2>7 DEF e
  <2>8. CASE e = pointer /\ pointer # active /\ faults = 0
    <3>1. Queued("switched", pointer)
      BY <2>1, <2>8 DEF Known, NotYet
    <3>2. Event("switched", e) \in Range(queue)
      BY <2>8, <3>1 DEF Queued, Range
    <3> QED BY <3>2 DEF e
  <2>9. CASE e = pointer /\ pointer = active
    BY <2>5, <2>9 DEF Order, e
  <2>10. CASE faults # 0
    BY <2>10 DEF TypeOK
  <2> QED BY <2>6, <2>7, <2>8, <2>9, <2>10
<1>2. ASSUME IInv, [Next]_vars, NEW t \in sticky' \ sticky
      PROVE  Real(t)
  <2>1. ASSUME sticky' = sticky
        PROVE  FALSE
    BY <1>2, <2>1
  <2>2. ASSUME NEW e \in Executions, Launch(e) \/ Exit(e) \/ Write(e)
        PROVE  FALSE
    BY <2>1, <2>2 DEF Launch, Exit, Write, picture
  <2>3. CASE StartupBegins \/ PollBegins \/ Ask \/ Handle
    BY <2>1, <2>3 DEF StartupBegins, PollBegins, Ask, Handle, picture
  <2>4. ASSUME NEW f \in Fibers, Tails(f)
        PROVE  FALSE
    BY <2>1, <2>4 DEF Tails, picture
  <2>5. CASE Restart
    BY <1>2, <2>5 DEF Restart
  <2>6. CASE UNCHANGED vars
    BY <2>1, <2>6 DEF vars, picture
  <2> QED BY <1>1, <1>2, <2>2, <2>3, <2>4, <2>5, <2>6 DEF Next
<1>3. IInv /\ [Next]_vars =>
        [\A t \in sticky' \ sticky :
           LET e == ledger[t].by IN
           \/ run[e] = "over" \/ e < pointer
           \/ Event("switched", e) \in Range(queue) \/ faults > 0]_vars
  BY <1>2
<1> QED BY <1>3, Inductive, PTL DEF Spec, DeathsAreReal
=============================================================================
