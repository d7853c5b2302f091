--------------------------- MODULE CommandsProofs ---------------------------
(***************************************************************************)
(* What is proved of Commands, for any number of processes, runs, failures *)
(* and restarts.                                                           *)
(***************************************************************************)
EXTENDS Commands, TLAPS, WellFoundedInduction

\* There is a process behind an open row, or a backend may still start it.
Backed(p) == Open(p) /\ procs[p].proc \in {"asked"} \union Pty!Alive
Mine(p)   == Backed(p) /\ p \notin dropped

\* LiveIsKnown, from the moment a backend was asked.
Known == \A p \in Procs : Mine(p) => Named(p) /\ state.status = "running"

\* What the rows say while somebody holds the lock.
Placed ==
  /\ op.at \in {"pruning", "marking"} => state.status # "running"
  /\ op.at \in {"pruning", "marking", "allocating", "linking"} => runs[Newest].pty = Nobody
  /\ op.at \in {"allocating", "linking", "starting", "handing"} =>
       state = [status |-> "running", ptr |-> Nobody]
  /\ op.at \in {"stopping", "terminating", "finalizing"} => state.status = "running"
  /\ op.at \in {"starting", "handing"} => runs[Newest].pty = op.pid
  /\ op.at \in {"terminating", "finalizing"} => state.ptr = op.pid
  /\ op.at = "finalizing" => procs[op.pid].proc = "dead"

\* The newest run names the process that the state points at; who is announced is over.
Pointed == state.ptr # Nobody => Named(state.ptr)
Heard   == \A p \in queue : Over(p)

\* The accounting has met, or has still to meet, every process that may be there.
Counted ==
  /\ up = "boot" =>
       /\ \A p \in Procs : Mine(p) => p \in count.todo \union count.failed
       /\ count.claims => state.status = "running"
  /\ up \in {"boot", "counted"} => op = Free /\ audit = "idle"
  /\ op.at = "auditing" => audit = "read"
  /\ audit = "read" /\ op.at # "auditing" => count.failed = {}

\* StopHolds, and from where a launch may begin.
Answers ==
  stopped => /\ state.status \in {"exited", "stopped", "failed"}
             /\ op.at \notin {"relaunching", "pruning", "marking"}

IInv == TypeOK /\ Known /\ Placed /\ Pointed /\ Heard /\ Counted /\ Answers

USE CommandsAssumption

-----------------------------------------------------------------------------
(* The processes: whatever becomes of one, nothing comes back. *)

Run_ == [status : RunStatus, pty : {Nobody} \union Procs]

\* What a step may do to a process that it does not launch.
Onward(x, y) ==
  /\ y \in Pty!States
  /\ x.row \in Pty!Fates => y.row = x.row
  /\ x.row = "open" => y.row \in {"open"} \union Pty!Fates
  /\ x.row = "none" => y.row = "none"
  /\ y.proc \in {"asked"} \union Pty!Alive => x.proc \in {"asked"} \union Pty!Alive
  /\ x.proc = "dead" => y.proc = "dead"

\* The service's next steps are such steps.
LEMMA ContractIsOnward ==
  ASSUME NEW x \in Pty!States,
         NEW y \in Pty!Started(x) \union Pty!Forgotten(x) \union Pty!Ended(x) \union Pty!Concluded(x)
  PROVE  Onward(x, y)
BY DEF Onward, Pty!Started, Pty!Forgotten, Pty!Ended, Pty!Concluded, Pty!When, Pty!States,
       Pty!Fates, Pty!Alive

Advances ==
  /\ procs' \in [Procs -> Pty!States]
  /\ queue' \subseteq Procs /\ lost' \subseteq Procs
  /\ \A r \in Procs : Onward(procs[r], procs'[r])
  /\ \A r \in queue' : Over(r)'

LEMMA BecomesAdvances ==
  ASSUME Typed, Heard, NEW p \in Procs, NEW y, Onward(procs[p], y), Becomes(p, y)
  PROVE  Advances
<1>1. procs[p] \in Pty!States /\ y \in Pty!States
  BY DEF Typed, Onward
<1>2. procs' \in [Procs -> Pty!States] /\ procs'[p] = y /\ \A r \in Procs \ {p} : procs'[r] = procs[r]
  BY <1>1 DEF Becomes, Typed
<1>3. \A r \in Procs : Onward(procs[r], procs'[r])
  BY <1>2 DEF Onward, Typed
<1>4. queue' \subseteq Procs /\ lost' \subseteq Procs
  BY DEF Becomes, Typed
<1>5. ASSUME NEW r \in queue' PROVE Over(r)'
  <2>1. r \in queue \/ (r = p /\ Open(p) /\ y.row # "open")
    BY DEF Becomes
  <2>2. CASE r \in queue
    <3>1. r \in Procs /\ procs[r].row \in Pty!Fates
      BY <2>2 DEF Heard, Over, Typed
    <3> QED BY <3>1, <1>3 DEF Over, Onward
  <2>3. CASE r = p /\ Open(p) /\ y.row # "open"
    BY <2>3, <1>2 DEF Over, Open, Onward
  <2> QED BY <2>1, <2>2, <2>3
<1> QED BY <1>2, <1>3, <1>4, <1>5 DEF Advances

\* A kill is affirmed.
LEMMA KillAdvances ==
  ASSUME Typed, Heard, NEW p \in Procs, NEW cause, Killed(p, cause)
  PROVE  Advances /\ ours' \subseteq Procs /\ owed' \subseteq Procs /\ faults' \in Nat
         /\ procs'[p].proc = "dead"
<1>1. procs[p] \in Pty!States
  BY DEF Typed
<1>2. PICK q \in Pty!Ended(procs[p]) :
        \/ Over(p) /\ Becomes(p, q) /\ Fine /\ UNCHANGED owed
        \/ Open(p) /\ Becomes(p, [q EXCEPT !.row = "killed"]) /\ Fine /\ UNCHANGED owed
        \/ Open(p) /\ Becomes(p, q) /\ Fault /\ owed' = owed \union {p}
  BY DEF Killed
<1>3. Onward(procs[p], q) /\ q.proc = "dead" /\ q.row = procs[p].row
  BY <1>1, ContractIsOnward DEF Pty!Ended, Pty!When, Pty!States
<1>4. Open(p) => Onward(procs[p], [q EXCEPT !.row = "killed"]) /\ [q EXCEPT !.row = "killed"].proc = "dead"
  BY <1>3, <1>1 DEF Onward, Open, Pty!States, Pty!Fates
<1>5. ours' \subseteq Procs /\ owed' \subseteq Procs /\ faults' \in Nat
  BY <1>2 DEF Killed, Typed, Fine, Fault
<1>6. CASE Becomes(p, q)
  BY <1>3, <1>5, <1>6, BecomesAdvances DEF Becomes, Typed
<1>7. CASE Open(p) /\ Becomes(p, [q EXCEPT !.row = "killed"])
  BY <1>4, <1>5, <1>7, BecomesAdvances DEF Becomes, Typed
<1> QED BY <1>2, <1>6, <1>7

\* An allocation is abandoned.
LEMMA AbandonAdvances ==
  ASSUME Typed, Heard, NEW p \in Procs, Abandons(p)
  PROVE  Advances /\ UNCHANGED <<ours, owed>>
<1>1. PICK q \in Pty!Concluded(procs[p]) : Becomes(p, q)
  BY DEF Abandons
<1>2. Onward(procs[p], q)
  BY ContractIsOnward DEF Typed
<1> QED BY <1>1, <1>2, BecomesAdvances DEF Abandons

\* Nothing happens to any.
LEMMA IdleAdvances ==
  ASSUME Typed, Heard, UNCHANGED <<procs, queue, lost>>
  PROVE  Advances
<1>1. \A r \in Procs : procs[r] \in Pty!States
  BY DEF Typed
<1>2. \A r \in Procs : Onward(procs[r], procs'[r])
  BY <1>1 DEF Onward, Pty!States
<1> QED BY <1>2 DEF Advances, Typed, Heard, Over

\* A process that is a command's own stays so only if it was.
LEMMA MineAdvances ==
  ASSUME Advances, dropped \subseteq dropped', Typed
  PROVE  \A p \in Procs : Mine(p)' => Mine(p)
<1> SUFFICES ASSUME NEW p \in Procs, Mine(p)' PROVE Mine(p)
  OBVIOUS
<1>1. Onward(procs[p], procs'[p]) /\ procs[p] \in Pty!States
  BY DEF Advances, Typed
<1>2. procs'[p].row = "open" /\ procs'[p].proc \in {"asked"} \union Pty!Alive /\ p \notin dropped
  BY DEF Mine, Backed, Open
<1>3. procs[p].row = "open"
  BY <1>1, <1>2 DEF Onward, Pty!States, Pty!Fates
<1> QED BY <1>1, <1>2, <1>3 DEF Mine, Backed, Open, Onward

-----------------------------------------------------------------------------
(* The rows. *)

\* The runs keep their processes, whatever becomes of their status.
SameLinks ==
  /\ runs' \in Seq(Run_) /\ Len(runs') = Len(runs)
  /\ \A i \in 1..Len(runs) : runs'[i].pty = runs[i].pty

LEMMA SameNames ==
  ASSUME Typed, SameLinks
  PROVE  /\ \A p \in Procs : Named(p)' <=> Named(p)
         /\ runs' = <<>> <=> runs = <<>>
         /\ runs'[Newest'].pty = runs[Newest].pty
<1>1. runs \in Seq(Run_)
  BY DEF Typed, Run_
<1>2. runs' = <<>> <=> runs = <<>>
  BY <1>1 DEF SameLinks
<1>3. CASE runs = <<>>
  BY <1>2, <1>3 DEF Named, Newest
<1>4. CASE runs # <<>>
  <2>1. Len(runs) \in 1..Len(runs)
    BY <1>1, <1>4
  <2>2. runs'[Len(runs')].pty = runs[Len(runs)].pty
    BY <2>1 DEF SameLinks
  <2> QED BY <1>2, <1>4, <2>2 DEF Named, Newest
<1> QED BY <1>3, <1>4

LEMMA CompletedLinks ==
  ASSUME Typed, NEW i, NEW outcome \in RunStatus, runs' = Completed(i, outcome)
  PROVE  SameLinks
<1>1. runs \in Seq(Run_)
  BY DEF Typed, Run_
<1>2. CASE runs' = runs
  BY <1>1, <1>2 DEF SameLinks
<1>3. CASE runs' = [runs EXCEPT ![i].status = outcome]
  <2>1. \A j \in 1..Len(runs) : runs[j] \in Run_
    BY <1>1
  <2>0. DOMAIN runs = 1..Len(runs)
    BY <1>1
  <2>2. runs' = [j \in 1..Len(runs) |-> IF j = i THEN [runs[j] EXCEPT !.status = outcome] ELSE runs[j]]
    BY <1>3, <2>0, Zenon
  <2>3. \A j \in 1..Len(runs) : [runs[j] EXCEPT !.status = outcome] \in Run_
                               /\ [runs[j] EXCEPT !.status = outcome].pty = runs[j].pty
    BY <2>1 DEF Run_
  <2>4. Len(runs) \in Nat
    BY <1>1
  <2>5. \A j \in 1..Len(runs) : runs'[j] \in Run_ /\ runs'[j].pty = runs[j].pty
    BY <2>1, <2>2, <2>3
  <2>6. runs' \in Seq(Run_) /\ Len(runs') = Len(runs)
    BY <2>2, <2>4, <2>5
  <2> QED BY <2>5, <2>6 DEF SameLinks
<1> QED BY <1>2, <1>3 DEF Completed

LEMMA Unlinked ==
  ASSUME Typed, UNCHANGED runs
  PROVE  SameLinks
BY DEF Typed, Run_, SameLinks

LEMMA OutcomesAreOver ==
  ASSUME NEW p
  PROVE  /\ Outcome(p) \in RunStatus \ {"running"}
         /\ StateOf(Outcome(p)) \in {"suspended", "exited", "stopped", "failed"}
         /\ Outcome(p) # "interrupted" => StateOf(Outcome(p)) \in {"exited", "stopped", "failed"}
BY DEF Outcome, StateOf, RunStatus

\* A run and the state are finalised together.
LEMMA RunFinalized ==
  ASSUME Typed, NEW outcome \in RunStatus, NEW status \in Statuses, FinalizeByRun(outcome, status)
  PROVE  /\ SameLinks
         /\ state.status = "running" => state' = [status |-> status, ptr |-> Nobody]
         /\ state.status # "running" => state' = state
BY CompletedLinks DEF FinalizeByRun, Rests

LEMMA PtyFinalized ==
  ASSUME Typed, NEW p, NEW outcome \in RunStatus, NEW status, FinalizeByPty(p, outcome, status)
  PROVE  /\ SameLinks
         /\ state.ptr = p => state' = [status |-> status, ptr |-> Nobody]
         /\ state.ptr # p => state' = state
<1>1. CASE Linked(p)
  BY <1>1, CompletedLinks DEF FinalizeByPty, Rests, PointsAt
<1>2. CASE ~Linked(p)
  BY <1>2, Unlinked DEF FinalizeByPty, Rests, PointsAt
<1> QED BY <1>1, <1>2

\* A process is taken back: the newest run names it.
LEMMA Readopted ==
  ASSUME Typed, NEW p \in Procs, Readopt(p)
  PROVE  /\ runs' \in Seq(Run_) /\ runs' # <<>> /\ Named(p)'
         /\ state' = [status |-> "running", ptr |-> p]
<1>1. runs \in Seq(Run_)
  BY DEF Typed, Run_
<1>2. [status |-> "running", pty |-> p] \in Run_
  BY DEF Run_, RunStatus
<1>3. CASE runs = <<>>
  BY <1>2, <1>3 DEF Readopt, Named, Newest
<1>4. CASE runs # <<>>
  <2>1. Len(runs) \in 1..Len(runs) /\ DOMAIN runs = 1..Len(runs)
    BY <1>1, <1>4
  <2>2. runs' = [runs EXCEPT ![Len(runs)] = [status |-> "running", pty |-> p]]
    BY <1>4 DEF Readopt, Newest
  <2>3. runs' \in Seq(Run_) /\ Len(runs') = Len(runs) /\ runs'[Len(runs)] = [status |-> "running", pty |-> p]
    BY <1>1, <1>2, <2>1, <2>2
  <2> QED BY <1>1, <1>4, <2>1, <2>3 DEF Readopt, Named, Newest
<1> QED BY <1>3, <1>4 DEF Readopt

-----------------------------------------------------------------------------
(* What an action has to show. *)

\* While no launch is up to it, no process of its own is there.
LEMMA NobodyYet ==
  ASSUME Typed, Known, runs[Newest].pty = Nobody \/ state.status # "running"
  PROVE  \A p \in Procs : ~Mine(p)
BY DEF Known, Named, Procs, Nobody

LEMMA KnownKept ==
  ASSUME Typed, Advances, dropped \subseteq dropped',
         \A p \in Procs : Mine(p) => Named(p)' /\ state'.status = "running"
  PROVE  Known'
BY MineAdvances DEF Known

LEMMA HeardKept ==
  ASSUME Advances
  PROVE  Heard'
BY DEF Advances, Heard

\* The accounting of a boot is disturbed by no one else.
LEMMA CountedKept ==
  ASSUME Typed, Advances, Counted, UNCHANGED <<up, count, audit, dropped>>,
         up \notin {"boot", "counted"}, op'.at = "auditing" => op.at = "auditing",
         op.at = "auditing" => op'.at = "auditing"
  PROVE  Counted'
BY DEF Counted

\* Nor does the lock change hands in vain.
LEMMA HolderIsUp ==
  ASSUME Counted, op # Free
  PROVE  up \notin {"boot", "counted"}
BY DEF Counted

-----------------------------------------------------------------------------
(* A launch. *)

LEMMA LaunchesKeep ==
  ASSUME IInv, Launches, UNCHANGED <<backend, pty, audit, up, count, faults, restarts, dropped>>,
         plan' \in {"none", "resume", "automation"}, stopped' = FALSE,
         op.at \in {"free", "relaunching"}, up \notin {"boot", "counted"}
  PROVE  IInv'
<1> USE DEF IInv
<1>1. runs \in Seq(Run_) /\ Advances
  BY IdleAdvances DEF TypeOK, Typed, Run_, pty
<1>2. \A p \in Procs : ~Mine(p)
  BY NobodyYet DEF Launches, TypeOK
<1>3. Known' /\ Heard'
  BY <1>1, <1>2, KnownKept, HeardKept DEF TypeOK
<1>4. CASE FailsBefore
  <2>1. [status |-> "failed", pty |-> Nobody] \in Run_
    BY DEF Run_, RunStatus
  <2>2. runs' \in Seq(Run_) /\ runs' # <<>> /\ op' = Free /\ state' = [status |-> "failed", ptr |-> Nobody]
    BY <1>4, <2>1 DEF FailsBefore, Rests
  <2>3. TypeOK'
    BY <2>2 DEF TypeOK, Typed, Kept, pty, Free, Held, Points, Causes, Statuses, Run_, Launching
  <2>4. Placed' /\ Pointed' /\ Answers'
    BY <2>2 DEF Placed, Pointed, Answers, Free
  <2>5. Counted'
    BY <1>1, <2>2, CountedKept DEF Free, TypeOK, pty
  <2> QED BY <1>3, <2>3, <2>4, <2>5
<1>5. CASE CreatesRun /\ state.status # "running"
  <2>1. [status |-> "running", pty |-> Nobody] \in Run_
    BY DEF Run_, RunStatus
  <2>2. /\ runs' \in Seq(Run_) /\ runs' # <<>> /\ runs'[Newest'].pty = Nobody
        /\ op' = [Free EXCEPT !.at = "pruning"] /\ state' = state
    BY <1>1, <1>5, <2>1 DEF CreatesRun, Newest
  <2>3. TypeOK'
    BY <1>5, <2>2 DEF TypeOK, Typed, Kept, pty, Free, Held, Points, Causes, Statuses, Run_, Launching
  <2>4. Placed' /\ Pointed' /\ Answers'
    BY <1>5, <2>2 DEF Placed, Pointed, Answers, Free, TypeOK, Kept
  <2>5. Counted'
    BY <1>1, <2>2, CountedKept DEF Free, TypeOK, pty
  <2> QED BY <1>3, <2>3, <2>4, <2>5
<1> QED BY <1>4, <1>5 DEF Launches

LEMMA PruneKeeps ==
  ASSUME IInv, Prune
  PROVE  IInv'
<1> USE DEF IInv
<1>1. runs \in Seq(Run_) /\ Advances
  BY IdleAdvances DEF TypeOK, Typed, Run_, pty, Prune
<1>2. /\ \A p \in Procs : ~Mine(p)
      /\ state.status # "running" /\ state' = state /\ runs # <<>>
  BY NobodyYet DEF Placed, Prune, TypeOK, Kept, Launching, GivesUpBeforeMarker
<1>3. Known' /\ Heard'
  BY <1>1, <1>2, KnownKept, HeardKept DEF TypeOK, Prune, promise
<1>4. CASE runs' = <<runs[Newest]>> /\ op' = [op EXCEPT !.at = "marking"] /\ Fine
  <2>1. runs[Newest] \in Run_
    BY <1>1, <1>2 DEF Newest
  <2>2. runs' \in Seq(Run_) /\ runs' # <<>> /\ runs'[Newest'].pty = runs[Newest].pty
    BY <1>4, <2>1 DEF Newest
  <2>3. op' \in Held /\ op'.at = "marking"
    BY <1>4 DEF TypeOK, Typed, Held, Points
  <2>4. TypeOK'
    BY <1>2, <1>4, <2>2, <2>3 DEF TypeOK, Typed, Kept, pty, promise, Run_, Fine, Prune
  <2>5. Placed' /\ Pointed' /\ Answers'
    BY <1>2, <2>2, <2>3 DEF Placed, Pointed, Answers, TypeOK, Kept, Prune, promise
  <2>6. Counted'
    BY <1>1, <2>3, CountedKept, HolderIsUp DEF Free, TypeOK, pty, Prune, promise
  <2> QED BY <1>3, <2>4, <2>5, <2>6
<1>5. CASE GivesUpBeforeMarker /\ op' = Free
  <2>1. SameLinks
    BY <1>5, CompletedLinks, Unlinked DEF GivesUpBeforeMarker, RunStatus, TypeOK
  <2>2. TypeOK'
    BY <1>2, <1>5, <2>1, SameNames
    DEF TypeOK, Typed, Kept, pty, promise, Run_, Prune, GivesUpBeforeMarker, SameLinks, Free, Held,
        Points, Causes, Launching
  <2>3. Placed' /\ Pointed' /\ Answers'
    BY <1>2, <1>5 DEF Placed, Pointed, Answers, TypeOK, Kept, Prune, promise, Free
  <2>4. Counted'
    BY <1>1, <1>5, CountedKept, HolderIsUp DEF Free, TypeOK, pty, Prune, promise
  <2> QED BY <1>3, <2>2, <2>3, <2>4
<1> QED BY <1>4, <1>5 DEF Prune

LEMMA LaidDown ==
  ASSUME NEW o \in {Free, [Free EXCEPT !.at = "relaunching"]}
  PROVE  o \in Held /\ o.pid = Nobody /\ o.at \in {"free", "relaunching"}
<1>1. Free \in Held /\ Free.at = "free" /\ Free.pid = Nobody
  BY DEF Free, Held, Points, Causes
<1>2. CASE o = Free
  BY <1>1, <1>2
<1>3. CASE o = [Free EXCEPT !.at = "relaunching"]
  BY <1>1, <1>3 DEF Held, Points
<1> QED BY <1>2, <1>3

\* Whoever lets go of the command leaves the rows as they were, or the command at rest.
LEMMA FreedKeeps ==
  ASSUME IInv, Advances, SameLinks,
         op' \in {Free, [Free EXCEPT !.at = "relaunching"]},
         UNCHANGED <<backend, audit, plan, up, count, restarts, dropped>>,
         ours' \subseteq Procs, owed' \subseteq Procs, faults' \in Nat, stopped' \in BOOLEAN,
         up \notin {"boot", "counted"}, op.at # "auditing",
         state' = state \/ \E s \in Statuses \ {"running"} : state' = [status |-> s, ptr |-> Nobody],
         \A p \in Procs : Mine(p) => state'.status = "running",
         stopped' => state'.status \in {"exited", "stopped", "failed"} /\ op' = Free
  PROVE  IInv'
<1> USE DEF IInv
<1>1. op' \in Held /\ op'.pid = Nobody /\ op'.at \in {"free", "relaunching"}
  BY LaidDown
<1>2. Known' /\ Heard'
  BY KnownKept, HeardKept, SameNames DEF Known, TypeOK
<1>3. Typed'
  BY <1>1 DEF TypeOK, Typed, Advances, SameLinks, Run_, Procs
<1>4. Kept'
  BY <1>1, SameNames DEF TypeOK, Kept, Launching
<1>5. Placed' /\ Answers'
  BY <1>1 DEF Placed, Answers, Free
<1>6. Pointed'
  BY SameNames DEF Pointed, TypeOK, Typed, Nobody
<1>7. Counted'
  BY <1>1, CountedKept DEF TypeOK
<1> QED BY <1>2, <1>3, <1>4, <1>5, <1>6, <1>7 DEF TypeOK

LEMMA MarkKeeps ==
  ASSUME IInv, Mark
  PROVE  IInv'
<1> USE DEF IInv
<1>1. Advances /\ up \notin {"boot", "counted"} /\ op.at # "auditing"
  BY IdleAdvances, HolderIsUp DEF TypeOK, Typed, pty, Mark, Free
<1>2. /\ \A p \in Procs : ~Mine(p)
      /\ state.status # "running" /\ runs # <<>> /\ runs[Newest].pty = Nobody /\ ~stopped
  BY NobodyYet DEF Placed, Mark, TypeOK, Kept, Launching, Answers
<1>3. CASE Rests("running") /\ op' = [op EXCEPT !.at = "allocating"] /\ Fine /\ UNCHANGED runs
  <2>1. op' \in Held /\ op'.at = "allocating" /\ state' = [status |-> "running", ptr |-> Nobody]
    BY <1>3 DEF TypeOK, Typed, Held, Points, Rests
  <2>2. TypeOK'
    BY <1>2, <1>3, <2>1 DEF TypeOK, Typed, Kept, pty, promise, Fine, Mark, Statuses
  <2>3. Known' /\ Heard'
    BY <1>1, <1>2, KnownKept, HeardKept DEF TypeOK, Mark, promise
  <2>4. Placed' /\ Pointed' /\ Answers'
    BY <1>2, <1>3, <2>1 DEF Placed, Pointed, Answers, Mark, promise, Newest
  <2>5. Counted'
    BY <1>1, <2>1, CountedKept DEF TypeOK, Mark, promise
  <2> QED BY <2>2, <2>3, <2>4, <2>5
<1>4. CASE GivesUpBeforeMarker /\ op' = Free
  <2>1. SameLinks
    BY <1>4, CompletedLinks, Unlinked DEF GivesUpBeforeMarker, RunStatus, TypeOK
  <2>2. faults' \in Nat /\ state' = state /\ ~stopped'
    BY <1>2, <1>4 DEF GivesUpBeforeMarker, TypeOK, Typed, Mark, promise
  <2> QED BY <1>1, <1>2, <1>4, <2>1, <2>2, FreedKeeps DEF Mark, pty, promise, TypeOK, Typed
<1> QED BY <1>3, <1>4 DEF Mark

\* A command whose launch knows of no process yet comes to rest.
LEMMA FailedKeeps ==
  ASSUME IInv, Advances, UNCHANGED <<ours, owed>>, faults' \in Nat, op' = Free,
         op.at \in {"pruning", "marking", "allocating", "linking"},
         FinalizeByRun("failed", "failed") \/ UNCHANGED rows,
         UNCHANGED <<backend, audit, plan, up, count, restarts, promise>>
  PROVE  IInv'
<1> USE DEF IInv
<1>1. up \notin {"boot", "counted"} /\ op.at # "auditing"
  BY HolderIsUp DEF Free
<1>2. \A p \in Procs : ~Mine(p)
  BY NobodyYet DEF Placed, TypeOK
<1>3. SameLinks /\ (state' = state \/ state' = [status |-> "failed", ptr |-> Nobody])
  BY RunFinalized, Unlinked DEF rows, TypeOK, RunStatus, Statuses
<1>4. stopped' => state'.status \in {"exited", "stopped", "failed"}
  BY <1>3 DEF Answers, promise
<1> QED BY <1>1, <1>2, <1>3, <1>4, FreedKeeps DEF TypeOK, Typed, Statuses, promise

LEMMA AllocateKeeps ==
  ASSUME IInv, Allocate
  PROVE  IInv'
<1> USE DEF IInv
<1>0. op.at = "allocating" /\ UNCHANGED <<backend, ours, owed, audit, plan, up, count, restarts, promise>>
  BY Zenon DEF Allocate
<1>1. up \notin {"boot", "counted"} /\ op.at # "auditing"
  BY <1>0, HolderIsUp DEF Free
<1>2. /\ \A p \in Procs : ~Mine(p)
      /\ state = [status |-> "running", ptr |-> Nobody] /\ runs # <<>> /\ runs[Newest].pty = Nobody
      /\ ~stopped
  BY <1>0, NobodyYet DEF Placed, TypeOK, Kept, Launching, Answers
<1>3. ASSUME NEW p \in Procs, NEW q \in Pty!Allocated(procs[p]), Becomes(p, q),
             op' = [op EXCEPT !.at = "linking", !.pid = p], Fine, UNCHANGED rows
      PROVE  IInv'
  <2>1. procs[p] = Pty!Fresh /\ q = [row |-> "open", proc |-> "none"]
    BY <1>3 DEF Pty!Allocated, Pty!When, Pty!Fresh
  <2>2. UNCHANGED <<queue, lost>> /\ procs' = [procs EXCEPT ![p] = q]
    BY <1>3, <2>1 DEF Becomes, Open, Pty!Fresh
  <2>3. op' \in Held /\ op'.at = "linking" /\ op'.pid = p
    BY <1>3 DEF TypeOK, Typed, Held, Points
  <2>4. procs' \in [Procs -> Pty!States]
    BY <2>1, <2>2 DEF TypeOK, Typed, Pty!States
  <2>5. TypeOK'
    BY <1>0, <1>2, <1>3, <2>2, <2>3, <2>4 DEF TypeOK, Typed, Kept, promise, Fine, rows, Nobody, Procs
  <2>6. \A r \in Procs : ~Mine(r)'
    BY <1>0, <1>2, <2>1, <2>2 DEF Mine, Backed, Open, Pty!Alive, promise, TypeOK, Typed
  <2>7. Known' /\ Heard'
    BY <2>1, <2>2, <2>6 DEF Known, Heard, Over, Pty!Fresh, Pty!Fates, TypeOK, Typed
  <2>8. Placed' /\ Pointed' /\ Answers'
    BY <1>0, <1>2, <1>3, <2>3 DEF Placed, Pointed, Answers, promise, Newest, rows
  <2>9. Counted'
    BY <1>0, <1>1, <2>3, <2>6 DEF Counted, TypeOK
  <2> QED BY <2>5, <2>7, <2>8, <2>9
<1>4. CASE FinalizeByRun("failed", "failed") /\ op' = Free /\ Fault /\ UNCHANGED <<procs, queue, lost>>
  BY <1>0, <1>4, IdleAdvances, FailedKeeps DEF Fault, TypeOK, Typed
<1> QED BY <1>3, <1>4 DEF Allocate

LEMMA LinkKeeps ==
  ASSUME IInv, Link
  PROVE  IInv'
<1> USE DEF IInv
<1>1. up \notin {"boot", "counted"} /\ op.at # "auditing" /\ op.pid \in Procs
  BY HolderIsUp DEF Free, Link, TypeOK, Typed, Kept, Held
<1>2. /\ \A p \in Procs : ~Mine(p)
      /\ state = [status |-> "running", ptr |-> Nobody] /\ runs # <<>> /\ ~stopped
      /\ runs \in Seq(Run_)
  BY NobodyYet DEF Placed, Link, TypeOK, Typed, Kept, Launching, Answers, Run_
<1>3. ASSUME runs' = [runs EXCEPT ![Newest].pty = op.pid],
             NEW q \in Pty!Asked(procs[op.pid]), Becomes(op.pid, q),
             op' = [op EXCEPT !.at = "starting"], Fine, UNCHANGED <<state, ours, owed>>
      PROVE  IInv'
  <2>1. procs[op.pid].row = "open" /\ q = [row |-> "open", proc |-> "asked"]
    BY <1>1, <1>3 DEF Pty!Asked, Pty!When, TypeOK, Typed, Pty!States
  <2>2. UNCHANGED <<queue, lost>> /\ procs' = [procs EXCEPT ![op.pid] = q]
    BY <1>3, <2>1 DEF Becomes, Open
  <2>3. op' \in Held /\ op'.at = "starting" /\ op'.pid = op.pid
    BY <1>3 DEF TypeOK, Typed, Held, Points
  <2>4. procs' \in [Procs -> Pty!States]
    BY <2>1, <2>2 DEF TypeOK, Typed, Pty!States
  <2>5. Len(runs) \in 1..Len(runs) /\ DOMAIN runs = 1..Len(runs) /\ runs[Len(runs)] \in Run_
    BY <1>2
  <2>6. [runs[Len(runs)] EXCEPT !.pty = op.pid] \in Run_
        /\ [runs[Len(runs)] EXCEPT !.pty = op.pid].pty = op.pid
    BY <1>1, <2>5 DEF Run_
  <2>7. runs' = [runs EXCEPT ![Len(runs)] = [runs[Len(runs)] EXCEPT !.pty = op.pid]]
    BY <1>3, Zenon DEF Newest
  <2>8. runs' \in Seq(Run_) /\ Len(runs') = Len(runs) /\ runs' # <<>> /\ runs'[Len(runs')].pty = op.pid
    BY <1>2, <2>5, <2>6, <2>7
  <2>9. TypeOK'
    BY <1>1, <1>2, <1>3, <2>2, <2>3, <2>4, <2>8
    DEF TypeOK, Typed, Kept, promise, Fine, Link, Run_
  <2>10. \A r \in Procs : Mine(r)' => r = op.pid
    BY <1>2, <2>2 DEF Mine, Backed, Open, Link, promise, TypeOK, Typed
  <2>11. Known' /\ Heard'
    BY <1>2, <1>3, <2>1, <2>2, <2>8, <2>10
    DEF Known, Heard, Over, Pty!Fates, TypeOK, Typed, Named, Newest
  <2>12. Placed' /\ Pointed' /\ Answers'
    BY <1>2, <1>3, <2>3, <2>8 DEF Placed, Pointed, Answers, Link, promise, Newest
  <2>13. Counted'
    BY <1>1, <2>3 DEF Counted, Link
  <2> QED BY <2>9, <2>11, <2>12, <2>13
<1>4. CASE /\ Abandons(op.pid) /\ op' = Free
           /\ \/ FinalizeByRun("failed", "failed") /\ Fault
              \/ UNCHANGED rows /\ faults + restarts + 1 < MaxTroubles /\ faults' = faults + 2
  BY <1>1, <1>4, AbandonAdvances, FailedKeeps DEF Link, Fault, TypeOK, Typed
<1> QED BY <1>3, <1>4 DEF Link

\* Processes move on, and the rows stay: the lock may have to see it, or the accounting.
LEMMA MovedKeeps ==
  ASSUME IInv, Advances, UNCHANGED <<backend, rows, audit, up, promise>>,
         ours' \subseteq Procs, owed' \subseteq Procs, faults' \in Nat, restarts' \in Nat,
         plan' \in {"none", "resume", "automation"},
         op' = op \/ (op.at = "starting" /\ op' = [op EXCEPT !.at = "handing"]),
         count' \in Count,
         count' = count \/ (up = "boot" /\ count'.claims = count.claims) \/ op.at = "auditing",
         up = "boot" => \A p \in Procs : Mine(p)' => p \in count'.todo \union count'.failed
  PROVE  IInv'
<1> USE DEF IInv
<1>1. op' \in Held /\ op'.pid = op.pid /\ (op'.at = op.at \/ (op.at = "starting" /\ op'.at = "handing"))
  BY DEF TypeOK, Typed, Held, Points
<1>2. UNCHANGED <<state, runs, stopped, dropped>>
  BY DEF rows, promise
<1>3. Known' /\ Heard'
  BY <1>2, KnownKept, HeardKept DEF Known, TypeOK, Named, Newest
<1>4. Typed'
  BY <1>1, <1>2 DEF TypeOK, Typed, Advances
<1>5. Kept'
  BY <1>1, <1>2 DEF TypeOK, Kept, Launching
<1>6. op.at = "finalizing" => op.pid \in Procs
  BY DEF TypeOK, Typed, Kept, Held
<1>7. Placed'
  BY <1>1, <1>2, <1>6 DEF Placed, Newest, Advances, Onward
<1>8. Pointed' /\ Answers'
  BY <1>1, <1>2 DEF Pointed, Answers, Named, Newest
<1>9. Counted'
  <2>1. up \in {"boot", "counted"} => op' = Free /\ audit' = "idle"
    BY DEF Counted, Free
  <2>2. op'.at = "auditing" => audit' = "read"
    BY <1>1 DEF Counted
  <2>3. audit' = "read" /\ op'.at # "auditing" => count'.failed = {}
    BY <1>1, <2>1 DEF Counted
  <2>4. up = "boot" => op.at = "free"
    BY DEF Counted, Free
  <2>5. up = "boot" /\ count'.claims => state'.status = "running"
    BY <1>2, <2>4 DEF Counted
  <2> QED BY <2>1, <2>2, <2>3, <2>5 DEF Counted
<1> QED BY <1>3, <1>4, <1>5, <1>7, <1>8, <1>9 DEF TypeOK

\* A process is pointed at, by the state and by the newest run.
LEMMA TakenKeeps ==
  ASSUME IInv, NEW p \in Procs,
         UNCHANGED <<backend, procs, ours, owed, queue, plan, restarts>>,
         runs' \in Seq(Run_), runs' # <<>>, Named(p)', state' = [status |-> "running", ptr |-> p],
         op' \in Held, op' = Free \/ (op'.at = "terminating" /\ op'.pid = p),
         \A r \in Procs : Mine(r)' => r = p,
         lost' \subseteq Procs, audit' \in {"idle", "read"}, dropped' \subseteq Procs,
         up' \in {"boot", "counted", "ready", "closing"}, count' \in Count, faults' \in Nat,
         stopped' = FALSE, Counted'
  PROVE  IInv'
<1> USE DEF IInv
<1>1. Typed'
  BY DEF TypeOK, Typed, Run_, Statuses
<1>2. Kept'
  BY DEF Kept, Free, Nobody, Procs
<1>3. Known' /\ Heard' /\ Pointed' /\ Answers'
  BY DEF Known, Heard, Over, Pointed, Answers
<1>4. Placed'
  BY DEF Placed, Free
<1> QED BY <1>1, <1>2, <1>3, <1>4 DEF TypeOK

LEMMA NamedAlone ==
  ASSUME Known, NEW p \in Procs, Named(p)
  PROVE  \A r \in Procs : Mine(r) => r = p
BY DEF Known, Named

LEMMA StartedKeeps ==
  ASSUME IInv, Started
  PROVE  IInv'
<1> USE DEF IInv
<1>1. Advances /\ UNCHANGED <<state, runs, ours, owed>>
  BY IdleAdvances DEF Started, pty, rows, TypeOK
<1>2. up # "boot"
  BY HolderIsUp DEF Started, Free
<1> QED BY <1>1, <1>2, MovedKeeps DEF Started, TypeOK, Typed

LEMMA HandOverKeeps ==
  ASSUME IInv, HandOver
  PROVE  IInv'
<1> USE DEF IInv
<1>0. op.at = "handing" /\ op' = Free /\ UNCHANGED <<backend, pty, audit, plan, up, count, restarts, promise>>
  BY DEF HandOver
<1>1. up \notin {"boot", "counted"} /\ op.pid \in Procs
  BY <1>0, HolderIsUp DEF Free, TypeOK, Typed, Kept, Held
<1>2. /\ state = [status |-> "running", ptr |-> Nobody] /\ runs # <<>> /\ ~stopped
      /\ runs \in Seq(Run_) /\ Named(op.pid)
  BY <1>0 DEF Placed, TypeOK, Typed, Kept, Answers, Run_, Named
<1>3. Advances /\ \A r \in Procs : Mine(r) => r = op.pid
  BY <1>0, <1>1, <1>2, IdleAdvances, NamedAlone DEF pty, TypeOK
<1>4. faults' \in Nat
  BY DEF HandOver, Fine, Fault, TypeOK, Typed
<1>5. CASE Over(op.pid) /\ FinalizeByRun(Outcome(op.pid), StateOf(Outcome(op.pid)))
  <2>1. \A r \in Procs : ~Mine(r)
    BY <1>3, <1>5 DEF Mine, Backed, Over, Open, Pty!Fates
  <2>2. SameLinks /\ \E s \in Statuses \ {"running"} : state' = [status |-> s, ptr |-> Nobody]
    BY <1>2, <1>5, RunFinalized, OutcomesAreOver DEF TypeOK, Statuses
  <2> QED BY <1>0, <1>1, <1>2, <1>3, <1>4, <2>1, <2>2, FreedKeeps DEF pty, promise, TypeOK, Typed
<1>6. ASSUME NEW p \in Procs, p = op.pid, Installs(p) PROVE IInv'
  <2>1. Named(p)' /\ runs' = runs /\ state' = [status |-> "running", ptr |-> p]
    BY <1>2, <1>6 DEF Installs, Named, Newest
  <2>2. Free \in Held /\ Free.at = "free"
    BY LaidDown DEF Free
  <2>3. Counted'
    BY <1>0, <1>1, <1>3, <2>2, CountedKept DEF TypeOK, promise
  <2>4. \A r \in Procs : Mine(r)' => r = p
    BY <1>0, <1>3, <1>6, MineAdvances DEF promise, TypeOK
  <2> QED BY <1>0, <1>1, <1>2, <1>4, <1>6, <2>1, <2>2, <2>3, <2>4, TakenKeeps DEF pty, promise, TypeOK, Typed
<1>7. CASE UNCHANGED rows
  <2>1. SameLinks /\ state' = state
    BY <1>7, Unlinked DEF rows, TypeOK
  <2> QED BY <1>0, <1>1, <1>2, <1>3, <1>4, <2>1, FreedKeeps DEF pty, promise, TypeOK, Typed
<1> QED BY <1>1, <1>5, <1>6, <1>7 DEF HandOver

LEMMA CancelLaunchKeeps ==
  ASSUME IInv, CancelLaunch
  PROVE  IInv'
<1> USE DEF IInv
<1>1. /\ op.at \in {"pruning", "marking", "allocating", "linking"} /\ op' = Free /\ faults' \in Nat
      /\ FinalizeByRun("failed", "failed") \/ UNCHANGED rows
      /\ UNCHANGED <<backend, audit, plan, up, count, restarts, promise>>
  BY DEF CancelLaunch, Launching, Fine, Fault, TypeOK, Typed
<1>2. CASE op.pid = Nobody
  <2>1. Advances /\ UNCHANGED <<ours, owed>>
    BY <1>2, IdleAdvances DEF CancelLaunch, pty, TypeOK
  <2> QED BY <1>1, <2>1, FailedKeeps
<1>3. CASE op.pid # Nobody
  <2>1. op.pid \in Procs /\ Abandons(op.pid)
    BY <1>3 DEF CancelLaunch, TypeOK, Typed, Held
  <2>2. Advances /\ UNCHANGED <<ours, owed>>
    BY <2>1, AbandonAdvances DEF TypeOK
  <2> QED BY <1>1, <2>2, FailedKeeps
<1> QED BY <1>2, <1>3

LEMMA CancelStartKeeps ==
  ASSUME IInv, CancelStart
  PROVE  IInv'
<1> USE DEF IInv
<1>1. /\ op.at = "starting" /\ op' = [op EXCEPT !.at = "handing"]
      /\ UNCHANGED <<backend, rows, audit, plan, up, count, restarts, promise>>
  BY DEF CancelStart
<1>2. up # "boot" /\ op.pid \in Procs
  BY <1>1, HolderIsUp DEF Free, TypeOK, Typed, Kept, Held
<1>3. Advances /\ ours' \subseteq Procs /\ owed' \subseteq Procs /\ faults' \in Nat
  <2>1. CASE Killed(op.pid, "user")
    BY <1>2, <2>1, KillAdvances DEF TypeOK
  <2>2. CASE UNCHANGED pty /\ (Fault \/ UNCHANGED faults)
    BY <2>2, IdleAdvances DEF pty, Fault, TypeOK, Typed
  <2> QED BY <2>1, <2>2 DEF CancelStart
<1> QED BY <1>1, <1>2, <1>3, MovedKeeps DEF TypeOK, Typed

LEMMA RunKeeps ==
  ASSUME IInv, Run
  PROVE  IInv'
BY LaunchesKeep DEF Run, MayBegin, Free, IInv, TypeOK, Typed

-----------------------------------------------------------------------------
(* A stop. *)

\* A stop goes on, under the lock: the command still runs.
LEMMA HoldsOn ==
  ASSUME IInv, Advances, UNCHANGED <<backend, rows, audit, plan, up, count, restarts, dropped>>,
         ours' \subseteq Procs, owed' \subseteq Procs, faults' \in Nat, stopped' \in BOOLEAN, stopped' => stopped,
         state.status = "running", up \notin {"boot", "counted"}, op.at # "auditing",
         op' \in Held, op'.at \in {"stopping", "terminating", "finalizing"}, Placed',
         op'.at # "stopping" => op'.pid # Nobody
  PROVE  IInv'
<1> USE DEF IInv
<1>1. UNCHANGED <<state, runs>> /\ ~stopped'
  BY DEF rows, Answers
<1>2. Known' /\ Heard'
  BY <1>1, KnownKept, HeardKept DEF Known, TypeOK, Named, Newest
<1>3. Typed'
  BY <1>1 DEF TypeOK, Typed, Advances
<1>4. Kept'
  BY <1>1 DEF TypeOK, Kept
<1>5. Pointed' /\ Answers'
  BY <1>1 DEF Pointed, Answers, Named, Newest
<1>6. Counted'
  BY CountedKept DEF TypeOK
<1> QED BY <1>2, <1>3, <1>4, <1>5, <1>6 DEF TypeOK

LEMMA StopKeeps ==
  ASSUME IInv, NEW cause \in Causes, NEW again \in BOOLEAN, Stop(cause, again)
  PROVE  IInv'
<1> USE DEF IInv
<1>1. /\ up = "ready" /\ op = Free /\ Advances /\ SameLinks
      /\ UNCHANGED <<backend, runs, ours, owed, audit, plan, up, count, faults, restarts, dropped>>
  BY IdleAdvances, Unlinked DEF Stop, MayBegin, pty, TypeOK
<1>2. op.at = "free" /\ faults' \in Nat /\ ours' \subseteq Procs /\ owed' \subseteq Procs
  BY <1>1 DEF Free, TypeOK, Typed
<1>3. CASE state.status = "running"
  <2>1. op' = [at |-> "stopping", pid |-> Nobody, cause |-> cause, again |-> again] /\ state' = state
    BY <1>3 DEF Stop
  <2>2. op' \in Held /\ op'.at = "stopping" /\ op' # Free
    BY <2>1 DEF Held, Points, Free
  <2>3. stopped' \in BOOLEAN /\ (stopped' => stopped)
    BY <2>2, Zenon DEF Stop, TypeOK, Typed
  <2>4. Placed'
    BY <1>3, <2>1, <2>2 DEF Placed
  <2> QED BY <1>1, <1>2, <1>3, <2>1, <2>2, <2>3, <2>4, HoldsOn DEF rows
<1>4. CASE state.status # "running"
  <2>1. \A p \in Procs : ~Mine(p)
    BY <1>4, NobodyYet DEF TypeOK
  <2>2. /\ op' \in {Free, [Free EXCEPT !.at = "relaunching"]}
        /\ ~again => op' = Free /\ state' = [status |-> "stopped", ptr |-> Nobody]
        /\ state' = state \/ state' = [status |-> "stopped", ptr |-> Nobody]
    BY <1>4 DEF Stop, Rests
  <2>3. stopped' \in BOOLEAN /\ (stopped' => ~again)
    BY <2>2 DEF Stop
  <2> QED BY <1>1, <1>2, <2>1, <2>2, <2>3, FreedKeeps DEF Statuses
<1> QED BY <1>3, <1>4

LEMMA ResolveKeeps ==
  ASSUME IInv, Resolve
  PROVE  IInv'
<1> USE DEF IInv
<1>0. op.at = "stopping" /\ UNCHANGED <<backend, pty, audit, plan, up, count, faults, restarts, dropped>>
  BY DEF Resolve
<1>1. /\ up \notin {"boot", "counted"} /\ Advances /\ faults' \in Nat
      /\ ours' \subseteq Procs /\ owed' \subseteq Procs
  BY <1>0, HolderIsUp, IdleAdvances DEF Free, pty, TypeOK, Typed
<1>2. state.status = "running" /\ ~stopped /\ runs # <<>> /\ runs \in Seq(Run_)
  BY <1>0 DEF Placed, Answers, TypeOK, Typed, Kept, Run_
<1>3. runs[Newest].pty \in {Nobody} \union Procs
  <2>1. Len(runs) \in 1..Len(runs)
    BY <1>2
  <2>2. runs[Len(runs)] \in Run_
    BY <1>2, <2>1
  <2> QED BY <2>2 DEF Newest, Run_
<1> DEFINE p == runs[Newest].pty
<1>4. CASE state.ptr # Nobody
  <2>1. op' = [op EXCEPT !.at = "terminating", !.pid = state.ptr] /\ UNCHANGED <<rows, stopped>>
    BY <1>4 DEF Resolve
  <2>2. op' \in Held /\ op'.at = "terminating" /\ op'.pid = state.ptr
    BY <2>1 DEF TypeOK, Typed, Held, Points
  <2>3. Placed'
    BY <1>2, <2>1, <2>2 DEF Placed, rows
  <2>4. stopped' \in BOOLEAN /\ (stopped' => stopped)
    BY <2>1 DEF TypeOK, Typed
  <2>5. UNCHANGED <<backend, rows, audit, plan, up, count, restarts, dropped>>
    BY <1>0, <2>1
  <2> QED BY <1>0, <1>1, <1>2, <1>4, <2>2, <2>3, <2>4, <2>5, HoldsOn
<1>5. ASSUME NEW outcome \in RunStatus, NEW status \in Statuses \ {"running"},
             FinalizeByRun(outcome, status), op' = After, Answered,
             status \in {"exited", "stopped", "failed"} \/ op.cause = "deactivation",
             \A r \in Procs : ~Mine(r)
      PROVE  IInv'
  <2>1. SameLinks /\ state' = [status |-> status, ptr |-> Nobody]
    BY <1>2, <1>5, RunFinalized DEF TypeOK
  <2>2. op' \in {Free, [Free EXCEPT !.at = "relaunching"]} /\ stopped' \in BOOLEAN
    <3>1. op' \in {Free, [Free EXCEPT !.at = "relaunching"]}
      BY <1>5 DEF After
    <3>2. stopped' \in BOOLEAN
      BY <1>5, Zenon DEF Answered, TypeOK, Typed
    <3> QED BY <3>1, <3>2
  <2>3. stopped' => op' = Free /\ op.cause # "deactivation"
    BY <1>2, <1>5 DEF After, Answered
  <2> QED BY <1>0, <1>1, <1>5, <2>1, <2>2, <2>3, FreedKeeps
<1>6. CASE state.ptr = Nobody /\ p = Nobody
  <2>1. FinalizeByRun("failed", "failed") /\ op' = After /\ Answered
    BY <1>6 DEF Resolve
  <2> QED BY <1>5, <1>6, <2>1, NobodyYet DEF RunStatus, Statuses, TypeOK
<1>7. CASE state.ptr = Nobody /\ p # Nobody /\ Over(p)
  <2>1. PICK status :
          /\ status = IF op.cause # "deactivation" /\ Outcome(p) = "interrupted" THEN "failed"
                      ELSE StateOf(Outcome(p))
          /\ FinalizeByRun(Outcome(p), status) /\ op' = After /\ Answered
    BY <1>7 DEF Resolve
  <2>2. /\ Outcome(p) \in RunStatus /\ status \in Statuses \ {"running"}
        /\ status \in {"exited", "stopped", "failed"} \/ op.cause = "deactivation"
    BY <2>1, OutcomesAreOver DEF Statuses
  <2>3. \A r \in Procs : Mine(r) => r = p
    BY DEF Known, Named
  <2>4. \A r \in Procs : ~Mine(r)
    BY <1>7, <2>3 DEF Mine, Backed, Over, Open, Pty!Fates
  <2> QED BY <1>5, <2>1, <2>2, <2>4
<1>8. CASE state.ptr = Nobody /\ p # Nobody /\ ~Over(p)
  <2>1. PICK r \in Procs : r = p
    BY <1>3, <1>8
  <2>2. Readopt(r) /\ op' = [op EXCEPT !.at = "terminating", !.pid = r] /\ UNCHANGED stopped
    BY <1>8, <2>1 DEF Resolve
  <2>3. /\ runs' \in Seq(Run_) /\ runs' # <<>> /\ Named(r)'
        /\ state' = [status |-> "running", ptr |-> r]
    BY <2>2, Readopted DEF TypeOK
  <2>4. op' \in Held /\ op'.at = "terminating" /\ op'.pid = r
    BY <2>2 DEF TypeOK, Typed, Held, Points
  <2>5. Counted'
    BY <1>0, <1>1, <2>4, CountedKept DEF TypeOK
  <2>6. \A i \in Procs : Mine(i)' => i = r
    BY <1>0, <1>1, <2>1, MineAdvances DEF TypeOK, Known, Named
  <2> QED BY <1>0, <1>1, <1>2, <2>2, <2>3, <2>4, <2>5, <2>6, TakenKeeps DEF pty, TypeOK, Typed
<1> QED BY <1>4, <1>6, <1>7, <1>8

LEMMA HitKeeps ==
  ASSUME IInv, Hit
  PROVE  IInv'
<1> USE DEF IInv
<1>1. /\ op.at = "terminating" /\ op' = [op EXCEPT !.at = "finalizing"] /\ Killed(op.pid, op.cause)
      /\ UNCHANGED <<backend, rows, audit, plan, up, count, restarts, promise>>
  BY DEF Hit
<1>2. up \notin {"boot", "counted"} /\ op.pid \in Procs
  BY <1>1, HolderIsUp DEF Free, TypeOK, Typed, Kept, Held
<1>3. /\ Advances /\ ours' \subseteq Procs /\ owed' \subseteq Procs /\ faults' \in Nat
      /\ \A p \in Procs : p = op.pid => procs'[p].proc = "dead"
  <2>1. ASSUME NEW p \in Procs, p = op.pid
        PROVE /\ Advances /\ ours' \subseteq Procs /\ owed' \subseteq Procs /\ faults' \in Nat
              /\ procs'[p].proc = "dead"
    BY <1>1, <2>1, KillAdvances DEF TypeOK
  <2> QED BY <1>2, <2>1
<1>4. op' \in Held /\ op'.at = "finalizing" /\ op'.pid = op.pid
  BY <1>1 DEF TypeOK, Typed, Held, Points
<1>5. Placed'
  BY <1>1, <1>2, <1>3, <1>4 DEF Placed, rows
<1>6. state.status = "running" /\ op.pid # Nobody
  BY <1>1 DEF Placed, TypeOK, Kept
<1> QED BY <1>1, <1>2, <1>3, <1>4, <1>5, <1>6, HoldsOn DEF promise, TypeOK, Typed

LEMMA AbsentKeeps ==
  ASSUME IInv, Absent
  PROVE  IInv'
<1> USE DEF IInv
<1>1. /\ op.at = "terminating" /\ op' = After
      /\ UNCHANGED <<backend, rows, pty, audit, plan, up, count, faults, restarts, promise>>
  BY DEF Absent
<1>2. up \notin {"boot", "counted"} /\ Advances /\ SameLinks /\ state' = state
  BY <1>1, HolderIsUp, IdleAdvances, Unlinked DEF Free, pty, rows, TypeOK
<1>3. state.status = "running" /\ ~stopped
  BY <1>1 DEF Placed, Answers
<1>4. op' \in {Free, [Free EXCEPT !.at = "relaunching"]}
  BY <1>1 DEF After
<1> QED BY <1>1, <1>2, <1>3, <1>4, FreedKeeps DEF pty, promise, TypeOK, Typed

LEMMA StopFailsKeeps ==
  ASSUME IInv, StopFails
  PROVE  IInv'
<1> USE DEF IInv
<1>1. /\ op.at \in {"stopping", "terminating"} /\ op' = Free
      /\ UNCHANGED <<backend, pty, audit, plan, up, count, restarts, promise>>
      /\ faults' \in Nat
  BY DEF StopFails, Fine, Fault, TypeOK, Typed
<1>2. up \notin {"boot", "counted"} /\ Advances /\ state.status = "running" /\ ~stopped
  BY <1>1, HolderIsUp, IdleAdvances DEF Free, pty, TypeOK, Placed, Answers
<1>3. Free \in Held /\ Free.at = "free"
  BY LaidDown DEF Free
<1>4. CASE op.at = "terminating" /\ Readopt(op.pid)
  <2>1. PICK p \in Procs : p = op.pid
    BY <1>4 DEF TypeOK, Typed, Kept, Held
  <2>2. /\ runs' \in Seq(Run_) /\ runs' # <<>> /\ Named(p)'
        /\ state' = [status |-> "running", ptr |-> p]
    BY <1>4, <2>1, Readopted DEF TypeOK
  <2>3. Counted'
    BY <1>1, <1>2, <1>3, <1>4, CountedKept DEF TypeOK, promise
  <2>4. Named(p)
    BY <1>4, <2>1 DEF Placed, Pointed, Nobody, Procs
  <2>5. \A r \in Procs : Mine(r)' => r = p
    BY <1>1, <1>2, <2>4, NamedAlone, MineAdvances DEF TypeOK, promise
  <2> QED BY <1>1, <1>2, <1>3, <2>2, <2>3, <2>5, TakenKeeps DEF pty, promise, TypeOK, Typed
<1>5. CASE UNCHANGED rows
  <2>1. SameLinks /\ state' = state
    BY <1>5, Unlinked DEF rows, TypeOK
  <2> QED BY <1>1, <1>2, <2>1, FreedKeeps DEF pty, promise, TypeOK, Typed
<1> QED BY <1>4, <1>5 DEF StopFails

\* The process that the state points at is over, and the command comes to rest.
LEMMA PointedRests ==
  ASSUME IInv, NEW p \in Procs, ~Backed(p), state.ptr = p
  PROVE  \A r \in Procs : ~Mine(r)
BY DEF IInv, Known, Pointed, Named, Mine, Procs, Nobody

LEMMA FinalizeKeeps ==
  ASSUME IInv, Finalize
  PROVE  IInv'
<1> USE DEF IInv
<1>1. /\ op.at = "finalizing" /\ UNCHANGED <<backend, pty, audit, plan, up, count, restarts, dropped>>
      /\ faults' \in Nat
  BY DEF Finalize, Fine, Fault, TypeOK, Typed
<1>2. up \notin {"boot", "counted"} /\ Advances /\ state.status = "running" /\ ~stopped
  BY <1>1, HolderIsUp, IdleAdvances DEF Free, pty, TypeOK, Placed, Answers
<1>3. op.pid \in Procs /\ state.ptr = op.pid /\ ~Backed(op.pid)
  BY <1>1 DEF Placed, TypeOK, Typed, Kept, Held, Backed, Pty!Alive
<1>4. \A r \in Procs : ~Mine(r)
  BY <1>3, PointedRests
<1>5. ASSUME NEW status \in {"suspended", "stopped"}, FinalizeByPty(op.pid, "stopped", status),
             op' = After, Answered, status = "suspended" <=> op.cause = "deactivation"
      PROVE  IInv'
  <2>1. SameLinks /\ state' = [status |-> status, ptr |-> Nobody]
    BY <1>3, <1>5, PtyFinalized DEF TypeOK, RunStatus
  <2>2. op' \in {Free, [Free EXCEPT !.at = "relaunching"]} /\ stopped' \in BOOLEAN
    <3>1. op' \in {Free, [Free EXCEPT !.at = "relaunching"]}
      BY <1>5 DEF After
    <3>2. stopped' \in BOOLEAN
      BY <1>5, Zenon DEF Answered, TypeOK, Typed
    <3> QED BY <3>1, <3>2
  <2>3. stopped' => op' = Free /\ status = "stopped"
    BY <1>2, <1>5 DEF After, Answered
  <2> QED BY <1>1, <1>2, <1>4, <2>1, <2>2, <2>3, FreedKeeps DEF pty, TypeOK, Typed, Statuses
<1>6. CASE UNCHANGED <<rows, stopped>> /\ op' = Free
  <2>1. SameLinks /\ state' = state
    BY <1>6, Unlinked DEF rows, TypeOK
  <2> QED BY <1>1, <1>2, <1>4, <1>6, <2>1, FreedKeeps DEF pty, TypeOK, Typed
<1> QED BY <1>5, <1>6 DEF Finalize

LEMMA RelaunchKeeps ==
  ASSUME IInv, Relaunch
  PROVE  IInv'
<1> USE DEF IInv
<1>1. /\ op.at = "relaunching"
      /\ UNCHANGED <<backend, pty, audit, plan, up, count, faults, restarts, promise>>
      /\ ~stopped
  BY DEF Relaunch, Answers
<1>2. up \notin {"boot", "counted"} /\ Advances
  BY <1>1, HolderIsUp, IdleAdvances DEF Free, pty, TypeOK
<1>3. CASE Launches
  BY <1>1, <1>2, <1>3, LaunchesKeep DEF promise, TypeOK, Typed
<1>4. CASE op' = Free /\ UNCHANGED rows
  <2>1. SameLinks /\ state' = state
    BY <1>4, Unlinked DEF rows, TypeOK
  <2> QED BY <1>1, <1>2, <1>4, <2>1, FreedKeeps DEF pty, promise, TypeOK, Typed, Known
<1> QED BY <1>3, <1>4 DEF Relaunch

-----------------------------------------------------------------------------
(* The events, and what goes on without the lock. *)

LEMMA MovesKeep ==
  ASSUME IInv, NEW p \in Procs, Moves(p)
  PROVE  IInv'
<1> USE DEF IInv
<1>1. PICK q \in Begun(p) \union Judged(p) \union Pty!Forgotten(procs[p]) \union Pty!Ended(procs[p]) :
        Becomes(p, q)
  BY DEF Moves
<1>2. q \in Pty!Started(procs[p]) \union Pty!Forgotten(procs[p]) \union Pty!Ended(procs[p])
            \union Pty!Concluded(procs[p])
  BY <1>1 DEF Begun, Judged
<1>3. procs[p] \in Pty!States
  BY DEF TypeOK, Typed
<1>4. Advances
  BY <1>1, <1>2, <1>3, ContractIsOnward, BecomesAdvances DEF TypeOK
<1>5. /\ UNCHANGED <<backend, rows, op, audit, plan, up, count, faults, restarts, promise>>
      /\ owed' \subseteq Procs /\ ours' \subseteq Procs
  BY DEF Moves, TypeOK, Typed
<1>6. up = "boot" => \A r \in Procs : Mine(r)' => r \in count'.todo \union count'.failed
  BY <1>4, <1>5, MineAdvances DEF Counted, TypeOK, promise
<1> QED BY <1>4, <1>5, <1>6, MovedKeeps DEF TypeOK, Typed

LEMMA HandleKeeps ==
  ASSUME IInv, NEW p \in Procs, Handle(p)
  PROVE  IInv'
<1> USE DEF IInv
<1>1. /\ up \notin {"boot", "counted"} /\ op = Free /\ op' = Free /\ p \in queue
      /\ UNCHANGED <<backend, procs, ours, owed, audit, plan, up, count, restarts, promise>>
      /\ faults' \in Nat
  BY DEF Handle, Subscribed, Fine, Fault, TypeOK, Typed
<1>2. op.at # "auditing"
  BY <1>1 DEF Free
<1>3. Advances
  <2>1. queue' \subseteq queue /\ lost' \subseteq Procs
    BY DEF Handle, TypeOK, Typed
  <2>2. \A r \in Procs : Onward(procs[r], procs'[r])
    BY <1>1 DEF Onward, Pty!States, TypeOK, Typed
  <2> QED BY <1>1, <2>1, <2>2 DEF Advances, Heard, Over, TypeOK, Typed
<1>4. Over(p)
  BY <1>1 DEF Heard
<1>5. /\ SameLinks
      /\ \/ state' = state
         \/ /\ state.ptr = p
            /\ \E s \in Statuses \ {"running"} : state' = [status |-> s, ptr |-> Nobody]
  <2>1. CASE UNCHANGED rows
    BY <2>1, Unlinked DEF rows, TypeOK
  <2>2. CASE FinalizeByPty(p, Outcome(p), StateOf(Outcome(p)))
    <3>1. Outcome(p) \in RunStatus /\ StateOf(Outcome(p)) \in Statuses \ {"running"}
      BY OutcomesAreOver DEF Statuses
    <3> QED BY <2>2, <3>1, PtyFinalized DEF TypeOK
  <2> QED BY <2>1, <2>2 DEF Handle
<1>6. CASE state' = state
  BY <1>1, <1>2, <1>3, <1>5, <1>6, FreedKeeps DEF promise, TypeOK, Typed, Known, Answers
<1>7. CASE /\ state.ptr = p
           /\ \E s \in Statuses \ {"running"} : state' = [status |-> s, ptr |-> Nobody]
  <2>1. \A r \in Procs : ~Mine(r)
    BY <1>4, <1>7, PointedRests DEF Backed, Over, Open, Pty!Fates
  <2>2. ~stopped
    BY <1>7 DEF Answers, TypeOK, Kept, Nobody, Procs
  <2> QED BY <1>1, <1>2, <1>3, <1>5, <1>7, <2>1, <2>2, FreedKeeps DEF promise, TypeOK, Typed
<1> QED BY <1>5, <1>6, <1>7

LEMMA MakePlanKeeps ==
  ASSUME IInv, MakePlan
  PROVE  IInv'
<1> USE DEF IInv
<1>1. /\ UNCHANGED <<backend, rows, pty, op, audit, up, count, faults, restarts, promise>>
      /\ plan' \in {"none", "resume", "automation"} /\ up = "ready"
  BY DEF MakePlan
<1>2. Advances
  BY <1>1, IdleAdvances DEF pty, TypeOK
<1> QED BY <1>1, <1>2, MovedKeeps DEF pty, TypeOK, Typed

LEMMA ExecuteKeeps ==
  ASSUME IInv, Execute
  PROVE  IInv'
<1> USE DEF IInv
<1>1. /\ UNCHANGED <<backend, pty, audit, up, count, faults, restarts, promise>>
      /\ plan' = "none" /\ up = "ready" /\ op.at = "free"
  BY DEF Execute, MayBegin, Free
<1>2. CASE Launches /\ state.status \in {"suspended", "idle"}
  <2>1. ~stopped
    BY <1>2 DEF Answers
  <2> QED BY <1>1, <1>2, <2>1, LaunchesKeep DEF promise, TypeOK, Typed
<1>3. CASE UNCHANGED <<rows, op>>
  <2>1. Advances
    BY <1>1, IdleAdvances DEF pty, TypeOK
  <2> QED BY <1>1, <1>3, <2>1, MovedKeeps DEF pty, TypeOK, Typed
<1> QED BY <1>2, <1>3 DEF Execute

-----------------------------------------------------------------------------
(* The accounting. *)

\* Nobody launches or stops the command, and whoever is at it has an account of it.
LEMMA StillKeeps ==
  ASSUME IInv, Advances, SameLinks, backend' = backend,
         op' \in Held, op'.at \in {"free", "auditing"},
         ours' \subseteq Procs, owed' \subseteq Procs, faults' \in Nat, restarts' \in Nat,
         audit' \in {"idle", "read"}, plan' \in {"none", "resume", "automation"},
         up' \in {"boot", "counted", "ready", "closing"}, count' \in Count,
         dropped \subseteq dropped', dropped' \subseteq Procs, stopped' \in BOOLEAN,
         state' = state \/ \E s \in Statuses \ {"running"} : state' = [status |-> s, ptr |-> Nobody],
         \A p \in Procs : Mine(p) => state'.status = "running",
         stopped' => state'.status \in {"exited", "stopped", "failed"},
         Counted'
  PROVE  IInv'
<1> USE DEF IInv
<1>1. Known' /\ Heard'
  BY KnownKept, HeardKept, SameNames DEF Known, TypeOK
<1>2. Typed'
  BY DEF TypeOK, Typed, Advances, SameLinks, Run_, Procs
<1>3. Kept'
  BY SameNames DEF TypeOK, Kept, Launching
<1>4. Placed' /\ Answers'
  BY DEF Placed, Answers
<1>5. Pointed'
  BY SameNames DEF Pointed, TypeOK, Typed, Nobody
<1> QED BY <1>1, <1>2, <1>3, <1>4, <1>5 DEF TypeOK

LEMMA NothingCounted ==
  Uncounted \in Count /\ Uncounted.failed = {} /\ Uncounted.todo = {} /\ ~Uncounted.claims
BY DEF Uncounted, Count

LEMMA CloseKeeps ==
  ASSUME IInv, Close
  PROVE  IInv'
<1> USE DEF IInv
<1>1. /\ op = Free /\ up' = "closing" /\ audit' = "idle" /\ count' = Uncounted /\ plan' = "none"
      /\ UNCHANGED <<backend, rows, pty, op, faults, restarts, promise>>
  BY DEF Close, MayBegin
<1>2. Advances /\ SameLinks /\ state' = state
  BY <1>1, IdleAdvances, Unlinked DEF pty, rows, TypeOK
<1>3. op' \in Held /\ op'.at = "free"
  BY <1>1, LaidDown DEF Free
<1>4. Counted'
  BY <1>1, <1>3 DEF Counted
<1> QED BY <1>1, <1>2, <1>3, <1>4, NothingCounted, StillKeeps
    DEF pty, promise, TypeOK, Typed, Known, Answers

LEMMA ShutdownKillsKeeps ==
  ASSUME IInv, NEW p \in Procs, ShutdownKills(p)
  PROVE  IInv'
<1> USE DEF IInv
<1>1. /\ up = "closing" /\ Killed(p, "shutdown")
      /\ UNCHANGED <<backend, rows, op, audit, count, plan, up, restarts, promise>>
  BY DEF ShutdownKills
<1>2. Advances /\ ours' \subseteq Procs /\ owed' \subseteq Procs /\ faults' \in Nat
  BY <1>1, KillAdvances DEF TypeOK
<1> QED BY <1>1, <1>2, MovedKeeps DEF TypeOK, Typed

LEMMA NamedIsLinked ==
  ASSUME Typed, NEW p \in Procs, Named(p)
  PROVE  p \in Links
<1>1. Len(runs) \in DOMAIN runs
  BY DEF Typed, Named
<1> QED BY <1>1 DEF Named, Newest, Links, Linked

LEMMA RestartKeeps ==
  ASSUME IInv, Restart
  PROVE  IInv'
<1> USE DEF IInv
<1>1. /\ restarts' = restarts + 1 /\ owed' = {} /\ queue' = {} /\ lost' = {}
      /\ op' = Free /\ audit' = "idle" /\ plan' = "none" /\ up' = "boot"
      /\ procs' = IF backend = "tmux" THEN procs
                  ELSE [p \in Procs |-> Pty!GoneWithRuntime(procs[p])]
      /\ ours' = IF backend = "tmux" THEN ours ELSE ours \union {p \in Procs : Open(p)}
      /\ count' = [Uncounted EXCEPT !.todo = {p \in Links : procs'[p].row = "open"},
                                    !.claims = state.status = "running"]
      /\ UNCHANGED <<backend, rows, faults, promise>>
  BY DEF Restart
<1>2. \A p \in Procs : procs'[p] = procs[p] \/ procs'[p] = Pty!GoneWithRuntime(procs[p])
  BY <1>1
<1>3. procs' \in [Procs -> Pty!States] /\ \A p \in Procs : Onward(procs[p], procs'[p])
  <2>1. \A p \in Procs : procs[p] \in Pty!States
    BY DEF TypeOK, Typed
  <2>2. \A x \in Pty!States : Onward(x, x) /\ Onward(x, Pty!GoneWithRuntime(x))
    BY DEF Onward, Pty!States, Pty!GoneWithRuntime, Pty!Fates, Pty!Alive
  <2>3. \A p \in Procs : Onward(procs[p], procs'[p])
    BY <1>2, <2>1, <2>2
  <2>4. procs' \in [Procs -> Pty!States]
    BY <1>1, <2>1, <2>2 DEF Onward, TypeOK, Typed
  <2> QED BY <2>3, <2>4
<1>4. Advances
  BY <1>1, <1>3 DEF Advances
<1>5. SameLinks /\ state' = state
  BY <1>1, Unlinked DEF rows, TypeOK
<1>6. op' \in Held /\ op'.at = "free"
  BY <1>1, LaidDown DEF Free
<1>7. /\ count' \in Count
      /\ count'.todo = {p \in Links : procs'[p].row = "open"}
      /\ count'.claims => state.status = "running"
  <2>1. Links \subseteq Procs
    BY DEF Links
  <2>2. count' = [todo |-> {p \in Links : procs'[p].row = "open"}, failed |-> {}, unresolved |-> {},
                  claims |-> state.status = "running"]
    BY <1>1 DEF Uncounted
  <2>3. (state.status = "running") \in BOOLEAN
    OBVIOUS
  <2>4. {p \in Links : procs'[p].row = "open"} \in SUBSET Procs
    BY <2>1
  <2>5. count' \in Count
    BY <2>2, <2>3, <2>4, Zenon DEF Count
  <2>6. count'.todo = {p \in Links : procs'[p].row = "open"}
    BY <2>2
  <2>7. count'.claims = (state.status = "running")
    BY <2>2, Zenon
  <2> QED BY <2>5, <2>6, <2>7
<1>8. ASSUME NEW p \in Procs, Mine(p)' PROVE p \in count'.todo
  <2>1. Mine(p)
    BY <1>1, <1>4, <1>8, MineAdvances DEF promise, TypeOK
  <2>2. p \in Links /\ procs'[p].row = "open"
    BY <1>8, <2>1, NamedIsLinked DEF Known, TypeOK, Mine, Backed, Open
  <2> QED BY <1>7, <2>2
<1>9. Counted'
  BY <1>1, <1>5, <1>6, <1>7, <1>8 DEF Counted
<1>10. ours' \subseteq Procs /\ restarts' \in Nat /\ faults' \in Nat
  BY <1>1 DEF TypeOK, Typed
<1> QED BY <1>1, <1>4, <1>5, <1>6, <1>7, <1>9, <1>10, StillKeeps DEF promise, TypeOK, Typed, Known, Answers

\* A candidate that was cleaned up is gone; one that was not, is kept in mind.
LEMMA CleansAccount ==
  ASSUME IInv, NEW p \in Procs, NEW cause, NEW sure \in BOOLEAN, Cleans(p, cause, sure),
         UNCHANGED <<backend, dropped>>
  PROVE  /\ Advances /\ ours' \subseteq Procs /\ owed' \subseteq Procs /\ faults' \in Nat
         /\ count' \in Count /\ count'.claims = count.claims
         /\ \A r \in Procs : Mine(r)' /\ r \in count.todo \union count.failed
                               => r \in count'.todo \union count'.failed
<1> USE DEF IInv
<1>1. count \in Count
  BY DEF TypeOK, Typed
<1>2. CASE Accounted(p, cause, sure) /\ count' = [count EXCEPT !.todo = @ \ {p}]
  <2>1. /\ count' \in Count /\ count'.claims = count.claims
        /\ count'.todo = count.todo \ {p} /\ count'.failed = count.failed
    <3>1. count' = [todo |-> count.todo \ {p}, failed |-> count.failed,
                    unresolved |-> count.unresolved, claims |-> count.claims]
      BY <1>1, <1>2, Zenon DEF Count
    <3>2. count' \in Count
      BY <1>1, <3>1, Zenon DEF Count
    <3>3. count'.claims = count.claims
      BY <3>1, Zenon
    <3> QED BY <3>1, <3>2, <3>3
  <2>2. ASSUME Advances, ours' \subseteq Procs, owed' \subseteq Procs, faults' \in Nat, ~Backed(p)'
        PROVE  /\ Advances /\ ours' \subseteq Procs /\ owed' \subseteq Procs /\ faults' \in Nat
               /\ \A r \in Procs : Mine(r)' /\ r \in count.todo \union count.failed
                                     => r \in count'.todo \union count'.failed
    BY <2>1, <2>2 DEF Mine
  <2>3. CASE Over(p) /\ UNCHANGED <<pty, faults>>
    <3>1. Advances /\ ~Backed(p)'
      BY <2>3, IdleAdvances DEF pty, TypeOK, Over, Backed, Open, Pty!Fates
    <3> QED BY <2>1, <2>2, <2>3, <3>1 DEF pty, TypeOK, Typed
  <2>4. CASE Killed(p, cause)
    <3>1. Advances /\ ours' \subseteq Procs /\ owed' \subseteq Procs /\ faults' \in Nat /\ ~Backed(p)'
      BY <2>4, KillAdvances DEF TypeOK, Backed, Pty!Alive
    <3> QED BY <2>1, <2>2, <3>1
  <2>5. CASE /\ Fine /\ \E q \in Pty!Concluded(procs[p]) : q.row = "missing" /\ Becomes(p, q)
             /\ owed' = owed \ {p}
             /\ ours' = IF backend = "node_pty" THEN ours \union {p} ELSE ours
    <3>1. PICK q \in Pty!Concluded(procs[p]) : q.row = "missing" /\ Becomes(p, q)
      BY <2>5
    <3>2. Advances
      BY <3>1, ContractIsOnward, BecomesAdvances DEF TypeOK, Typed
    <3>3. ~Backed(p)'
      BY <3>1 DEF Becomes, Backed, Open, TypeOK, Typed
    <3> QED BY <2>1, <2>2, <2>5, <3>2, <3>3 DEF Fine, TypeOK, Typed
  <2>6. CASE procs[p].proc = "dead" /\ UNCHANGED <<pty, faults>>
    <3>1. Advances /\ ~Backed(p)'
      BY <2>6, IdleAdvances DEF pty, TypeOK, Backed, Pty!Alive
    <3> QED BY <2>1, <2>2, <2>6, <3>1 DEF pty, TypeOK, Typed
  <2>7. \/ Over(p) /\ UNCHANGED <<pty, faults>>
        \/ Killed(p, cause)
        \/ /\ Fine /\ \E q \in Pty!Concluded(procs[p]) : q.row = "missing" /\ Becomes(p, q)
           /\ owed' = owed \ {p}
           /\ ours' = IF backend = "node_pty" THEN ours \union {p} ELSE ours
        \/ procs[p].proc = "dead" /\ UNCHANGED <<pty, faults>>
    BY <1>2, Zenon DEF Accounted
  <2> QED BY <2>1, <2>3, <2>4, <2>5, <2>6, <2>7
<1>3. CASE Unaccounted(p) /\ Fault /\ UNCHANGED pty
  <2>1. Advances /\ ours' \subseteq Procs /\ owed' \subseteq Procs /\ faults' \in Nat
    BY <1>3, IdleAdvances DEF pty, Fault, TypeOK, Typed
  <2>2. PICK u \in SUBSET Procs :
          count' = [todo |-> count.todo \ {p}, failed |-> count.failed \union {p},
                    unresolved |-> u, claims |-> count.claims]
    <3> DEFINE u == IF Open(p) THEN count.unresolved \union {p} ELSE count.unresolved
    <3>1. u \in SUBSET Procs
      BY <1>1 DEF Count
    <3>2. count' = [count EXCEPT !.todo = count.todo \ {p}, !.failed = count.failed \union {p},
                                 !.unresolved = u]
      BY <1>3, Zenon DEF Unaccounted
    <3> HIDE DEF u
    <3>3. count' = [todo |-> count.todo \ {p}, failed |-> count.failed \union {p},
                    unresolved |-> u, claims |-> count.claims]
      BY <1>1, <3>2 DEF Count
    <3> QED BY <3>1, <3>3
  <2>3. count' \in Count
    <3>1. count.todo \ {p} \in SUBSET Procs /\ count.failed \union {p} \in SUBSET Procs
          /\ count.claims \in BOOLEAN
      BY <1>1, Zenon DEF Count
    <3> QED BY <2>2, <3>1, Zenon DEF Count
  <2>4. count'.claims = count.claims
    BY <2>2, Zenon
  <2>5. count'.todo = count.todo \ {p} /\ count'.failed = count.failed \union {p}
    BY <2>2
  <2> QED BY <2>1, <2>3, <2>4, <2>5
<1> QED BY <1>2, <1>3 DEF Cleans

LEMMA BootCleansKeeps ==
  ASSUME IInv, NEW p \in Procs, BootCleans(p)
  PROVE  IInv'
<1> USE DEF IInv
<1>1. /\ up = "boot" /\ Cleans(p, "shutdown", FALSE)
      /\ UNCHANGED <<backend, rows, op, audit, plan, up, restarts, promise>>
  BY DEF BootCleans
<1>2. UNCHANGED <<backend, dropped>>
  BY <1>1 DEF promise
<1>3. /\ Advances /\ ours' \subseteq Procs /\ owed' \subseteq Procs /\ faults' \in Nat
      /\ count' \in Count /\ count'.claims = count.claims
      /\ \A r \in Procs : Mine(r)' /\ r \in count.todo \union count.failed
                            => r \in count'.todo \union count'.failed
  BY <1>1, <1>2, CleansAccount
<1>4. \A r \in Procs : Mine(r)' => r \in count'.todo \union count'.failed
  BY <1>1, <1>2, <1>3, MineAdvances DEF Counted, TypeOK
<1> QED BY <1>1, <1>3, <1>4, MovedKeeps DEF TypeOK, Typed

LEMMA BootConcludesKeeps ==
  ASSUME IInv, BootConcludes
  PROVE  IInv'
<1> USE DEF IInv
<1>1. /\ up = "boot" /\ count.todo = {} /\ up' = "counted" /\ count' = Uncounted
      /\ UNCHANGED <<backend, procs, ours, owed, queue, op, audit, plan, restarts, dropped>>
      /\ lost' \subseteq Procs /\ faults' \in Nat
  BY DEF BootConcludes, Fine, Fault, TypeOK, Typed
<1>2. op = Free /\ op' = Free /\ audit' = "idle"
  BY <1>1 DEF Counted
<1>3. op' \in Held /\ op'.at = "free"
  BY <1>2, LaidDown DEF Free
<1>4. Counted'
  BY <1>1, <1>2, <1>3 DEF Counted
<1>5. Advances
  <2>1. \A r \in Procs : Onward(procs[r], procs'[r])
    BY <1>1 DEF Onward, Pty!States, TypeOK, Typed
  <2> QED BY <1>1, <2>1 DEF Advances, Heard, Over, TypeOK, Typed
<1>6. \A r \in Procs : Mine(r) => r \in count.failed
  BY <1>1 DEF Counted
<1>7. CASE Adopts /\ \E p \in count.unresolved : count.failed = {p}
  <2>1. PICK p \in count.failed : Readopt(p)
    BY <1>7 DEF Adopts
  <2>2. p \in Procs
    BY DEF TypeOK, Typed, Count
  <2>3. /\ runs' \in Seq(Run_) /\ runs' # <<>> /\ Named(p)'
        /\ state' = [status |-> "running", ptr |-> p]
    BY <2>1, <2>2, Readopted DEF TypeOK
  <2>4. \A r \in Procs : Mine(r)' => r = p
    <3>1. count.failed = {p}
      BY <1>7, <2>1
    <3> QED BY <1>1, <1>5, <1>6, <3>1, MineAdvances DEF TypeOK
  <2>5. stopped' = FALSE
    BY <1>7 DEF Adopts
  <2> QED BY <1>1, <1>2, <1>3, <1>4, <2>2, <2>3, <2>4, <2>5, NothingCounted, TakenKeeps
      DEF TypeOK, Typed
<1>8. CASE UNCHANGED <<rows, stopped>>
  <2>1. SameLinks /\ state' = state /\ (stopped' <=> stopped)
    BY <1>8, Unlinked DEF rows, TypeOK
  <2> QED BY <1>1, <1>3, <1>4, <1>5, <1>8, <2>1, NothingCounted, StillKeeps
      DEF TypeOK, Typed, Known, Answers
<1>9. CASE count.failed = {} /\ count.claims /\ Repairs /\ UNCHANGED stopped
  <2>1. state.status = "running" /\ ~stopped /\ runs # <<>> /\ runs \in Seq(Run_)
    BY <1>1, <1>9 DEF Counted, Answers, TypeOK, Typed, Kept, Run_
  <2>2. \A r \in Procs : ~Mine(r)
    BY <1>6, <1>9
  <2>3. SameLinks /\ \E s \in Statuses \ {"running"} : state' = [status |-> s, ptr |-> Nobody]
    <3> DEFINE run == runs[Newest]
               outcome == IF run.pty # Nobody /\ Over(run.pty) THEN Outcome(run.pty) ELSE "interrupted"
    <3>1. CASE run.status = "running"
      <4>1. outcome \in RunStatus /\ StateOf(outcome) \in Statuses \ {"running"}
        BY OutcomesAreOver DEF RunStatus, Statuses, StateOf
      <4>2. FinalizeByRun(outcome, StateOf(outcome))
        BY <1>9, <3>1 DEF Repairs
      <4> HIDE DEF outcome
      <4> QED BY <2>1, <4>1, <4>2, RunFinalized DEF TypeOK
    <3>2. CASE run.status # "running"
      <4>1. Rests(StateOf(run.status)) /\ UNCHANGED runs
        BY <1>9, <3>2 DEF Repairs
      <4>2. Len(runs) \in 1..Len(runs)
        BY <2>1
      <4>3. runs[Len(runs)] \in Run_
        BY <2>1, <4>2
      <4>4. StateOf(run.status) \in Statuses \ {"running"}
        BY <3>2, <4>3 DEF Newest, Run_, RunStatus, StateOf, Statuses
      <4> QED BY <4>1, <4>4, Unlinked DEF Rests, TypeOK
    <3> QED BY <3>1, <3>2
  <2> QED BY <1>1, <1>3, <1>4, <1>5, <1>9, <2>1, <2>2, <2>3, NothingCounted, StillKeeps
      DEF TypeOK, Typed
<1>10. Adopts => (\E p \in count.unresolved : count.failed = {p}) \/ UNCHANGED <<rows, stopped>>
  BY DEF Adopts
<1> QED BY <1>7, <1>8, <1>9, <1>10 DEF BootConcludes

LEMMA SubscribeKeeps ==
  ASSUME IInv, Subscribe
  PROVE  IInv'
<1> USE DEF IInv
<1>1. /\ up = "counted" /\ up' = "ready"
      /\ UNCHANGED <<backend, state, pty, op, audit, count, plan, faults, restarts, promise>>
  BY DEF Subscribe
<1>2. op = Free /\ audit = "idle" /\ op' \in Held /\ op'.at = "free"
  BY <1>1, LaidDown DEF Counted, Free
<1>3. Advances
  BY <1>1, IdleAdvances DEF pty, TypeOK
<1>4. SameLinks
  <2>1. runs \in Seq(Run_) /\ DOMAIN runs = 1..Len(runs) /\ Len(runs) \in Nat
    BY DEF TypeOK, Typed, Run_
  <2>2. \A i \in 1..Len(runs) : runs[i] \in Run_
    BY <2>1
  <2>3. \A i \in 1..Len(runs) : /\ [runs[i] EXCEPT !.status = "failed"] \in Run_
                               /\ [runs[i] EXCEPT !.status = "failed"].pty = runs[i].pty
    BY <2>2 DEF Run_, RunStatus
  <2>4. runs' = [i \in 1..Len(runs) |->
                   IF runs[i] = [status |-> "running", pty |-> Nobody] /\ state.status # "running"
                   THEN [runs[i] EXCEPT !.status = "failed"] ELSE runs[i]]
    BY <2>1, Zenon DEF Subscribe
  <2>5. \A i \in 1..Len(runs) : runs'[i] \in Run_ /\ runs'[i].pty = runs[i].pty
    BY <2>2, <2>3, <2>4
  <2>6. runs' \in Seq(Run_) /\ Len(runs') = Len(runs)
    BY <2>1, <2>4, <2>5
  <2> QED BY <2>5, <2>6 DEF SameLinks
<1>5. Counted'
  BY <1>1, <1>2 DEF Counted
<1> QED BY <1>1, <1>2, <1>3, <1>4, <1>5, StillKeeps DEF pty, promise, TypeOK, Typed, Known, Answers

\* Only the account of it changes.
LEMMA RecountKeeps ==
  ASSUME IInv, UNCHANGED <<backend, rows, pty, op, plan, up, faults, restarts, promise>>,
         audit' \in {"idle", "read"}, count' \in Count, Counted'
  PROVE  IInv'
<1> USE DEF IInv
<1>1. UNCHANGED <<state, runs, procs, ours, owed, queue, lost, op, stopped, dropped>>
  BY DEF rows, pty, promise
<1>2. Typed' /\ Kept'
  BY <1>1 DEF TypeOK, Typed, Kept
<1>3. Placed' /\ Pointed' /\ Heard' /\ Answers'
  BY <1>1 DEF Placed, Pointed, Heard, Over, Answers, Named, Newest
<1>4. Advances
  BY <1>1, IdleAdvances DEF TypeOK
<1>5. Known'
  BY <1>1, <1>4, KnownKept DEF Known, Named, Newest, TypeOK
<1> QED BY <1>2, <1>3, <1>5 DEF TypeOK

LEMMA AuditReadsKeeps ==
  ASSUME IInv, AuditReads
  PROVE  IInv'
<1> USE DEF IInv
<1>1. /\ up = "ready" /\ audit = "idle" /\ audit' = "read"
      /\ count' = [Uncounted EXCEPT !.todo = Links]
      /\ UNCHANGED <<backend, rows, pty, op, plan, up, faults, restarts, promise>>
  BY DEF AuditReads
<1>2. count' = [todo |-> Links, failed |-> {}, unresolved |-> {}, claims |-> FALSE] /\ Links \in SUBSET Procs
  BY <1>1 DEF Uncounted, Links
<1>3. count' \in Count
  BY <1>2, Zenon DEF Count
<1>4. count'.failed = {}
  BY <1>2
<1>5. Counted'
  BY <1>1, <1>4 DEF Counted
<1> QED BY <1>1, <1>3, <1>5, RecountKeeps

LEMMA AuditLocksKeeps ==
  ASSUME IInv, AuditLocks
  PROVE  IInv'
<1> USE DEF IInv
<1>1. /\ up = "ready" /\ op = Free /\ audit = "read" /\ op' = [Free EXCEPT !.at = "auditing"]
      /\ UNCHANGED <<backend, rows, pty, audit, count, plan, up, faults, restarts, promise>>
  BY DEF AuditLocks, MayBegin
<1>2. op' \in Held /\ op'.at = "auditing"
  <2>1. Free \in Held
    BY LaidDown
  <2> QED BY <1>1, <2>1 DEF Held, Points
<1>3. Advances /\ SameLinks /\ state' = state
  BY <1>1, IdleAdvances, Unlinked DEF pty, rows, TypeOK
<1>4. Counted'
  BY <1>1, <1>2 DEF Counted
<1> QED BY <1>1, <1>2, <1>3, <1>4, StillKeeps DEF pty, promise, TypeOK, Typed, Known, Answers

LEMMA AuditCleansKeeps ==
  ASSUME IInv, NEW p \in Procs, AuditCleans(p)
  PROVE  IInv'
<1> USE DEF IInv
<1>1. /\ op.at = "auditing" /\ Cleans(p, "user", TRUE)
      /\ UNCHANGED <<backend, rows, op, audit, plan, up, restarts, promise>>
  BY DEF AuditCleans
<1>2. up # "boot" /\ UNCHANGED <<backend, dropped>>
  BY <1>1, HolderIsUp DEF Free, promise
<1>3. /\ Advances /\ ours' \subseteq Procs /\ owed' \subseteq Procs /\ faults' \in Nat
      /\ count' \in Count
  BY <1>1, <1>2, CleansAccount
<1> QED BY <1>1, <1>2, <1>3, MovedKeeps DEF TypeOK, Typed

LEMMA AuditConcludesKeeps ==
  ASSUME IInv, AuditConcludes
  PROVE  IInv'
<1> USE DEF IInv
<1>1. /\ op' = (IF op.at = "auditing" THEN Free ELSE op)
      /\ Adopts /\ audit' = "idle" /\ count' = Uncounted
      /\ dropped' = dropped \union {p \in Procs : Named(p) /\ ~Named(p)'}
      /\ UNCHANGED <<backend, pty, plan, up, faults, restarts>>
  BY DEF AuditConcludes
<1>2. Advances
  BY <1>1, IdleAdvances DEF pty, TypeOK
<1>3. audit = "read"
  BY DEF AuditConcludes, Counted
<1>4. up \notin {"boot", "counted"}
  BY <1>3 DEF Counted
<1>5. op'.at # "auditing" /\ op' \in Held
  BY <1>1, LaidDown DEF Free, TypeOK, Typed
<1>6. Counted'
  BY <1>1, <1>4, <1>5 DEF Counted
<1>7. dropped \subseteq dropped' /\ dropped' \subseteq Procs
  BY <1>1 DEF TypeOK, Typed
<1>8. CASE \E p \in count.unresolved : count.failed = {p}
  <2>1. PICK p \in count.failed : Readopt(p)
    BY <1>1, <1>8 DEF Adopts
  <2>2. p \in Procs /\ stopped' = FALSE
    BY <1>1, <1>8 DEF Adopts, TypeOK, Typed, Count
  <2>3. /\ runs' \in Seq(Run_) /\ runs' # <<>> /\ Named(p)'
        /\ state' = [status |-> "running", ptr |-> p]
    BY <2>1, <2>2, Readopted DEF TypeOK
  <2>4. ASSUME NEW r \in Procs, Mine(r)' PROVE r = p
    <3>1. Mine(r) /\ r \notin dropped'
      BY <1>2, <1>7, <2>4, MineAdvances DEF TypeOK, Mine
    <3>2. Named(r)'
      BY <1>1, <3>1 DEF Known
    <3> QED BY <2>3, <3>2 DEF Named
  <2>5. op.at = "auditing"
    BY <1>3, <1>8 DEF Counted
  <2> QED BY <1>1, <1>5, <1>6, <1>7, <2>2, <2>3, <2>4, <2>5, NothingCounted, TakenKeeps
      DEF pty, TypeOK, Typed
<1>9. CASE ~\E p \in count.unresolved : count.failed = {p}
  <2>1. UNCHANGED <<rows, stopped>>
    BY <1>1, <1>9 DEF Adopts
  <2>2. \A p \in Procs : Named(p)' <=> Named(p)
    BY <2>1 DEF Named, rows, Newest
  <2>3. dropped' = dropped
    BY <1>1, <2>2
  <2>4. CASE op.at = "auditing"
    <3>1. SameLinks /\ state' = state /\ (stopped' <=> stopped) /\ op'.at = "free"
      BY <1>1, <2>1, <2>4, Unlinked DEF rows, TypeOK, Free
    <3> QED BY <1>1, <1>2, <1>5, <1>6, <2>1, <2>3, <3>1, NothingCounted, StillKeeps
        DEF pty, TypeOK, Typed, Known, Answers
  <2>5. CASE op.at # "auditing"
    <3>1. UNCHANGED <<backend, rows, pty, op, plan, up, faults, restarts, promise>>
      BY <1>1, <2>1, <2>3, <2>5 DEF promise
    <3> QED BY <1>1, <1>6, <3>1, NothingCounted, RecountKeeps
  <2> QED BY <2>4, <2>5
<1> QED BY <1>8, <1>9

-----------------------------------------------------------------------------
(* The invariant. *)

LEMMA InitInv ==
  ASSUME Init
  PROVE  IInv
<1>1. Pty!Fresh \in Pty!States
  BY DEF Pty!Fresh, Pty!States
<1>2. Free \in Held /\ Free.at = "free"
  BY LaidDown DEF Free
<1>3. Typed
  <2>1. runs = <<>> /\ runs \in Seq(Run_)
    BY DEF Init
  <2>2. procs \in [Procs -> Pty!States]
    BY <1>1 DEF Init
  <2>3. op \in Held /\ count \in Count
    BY <1>2, NothingCounted DEF Init
  <2>4. state \in [status : Statuses, ptr : {Nobody} \union Procs]
    BY DEF Init, Statuses
  <2> QED BY <2>1, <2>2, <2>3, <2>4 DEF Init, Typed, Run_
<1>4. Kept
  BY <1>2 DEF Init, Kept, Launching
<1>5. Known /\ Pointed /\ Heard
  BY DEF Init, Known, Pointed, Heard, Mine, Backed, Open, Pty!Fresh, Nobody
<1>6. Placed /\ Counted /\ Answers
  BY <1>2 DEF Init, Placed, Counted, Answers
<1> QED BY <1>3, <1>4, <1>5, <1>6 DEF IInv, TypeOK

LEMMA StutterKeeps ==
  ASSUME IInv, UNCHANGED vars
  PROVE  IInv'
<1> USE DEF IInv
<1>1. /\ UNCHANGED <<backend, rows, pty, op, plan, up, faults, restarts, promise>>
      /\ audit' = audit /\ count' = count
  BY DEF vars
<1>2. UNCHANGED <<state, procs, dropped, op, up, audit, count>>
  BY <1>1 DEF rows, pty, promise
<1>3. Counted'
  BY <1>2 DEF Counted, Mine, Backed, Open
<1> QED BY <1>1, <1>3, RecountKeeps DEF TypeOK, Typed

LEMMA StepInv ==
  ASSUME IInv, [Next]_vars
  PROVE  IInv'
<1>1. CASE Run \/ Execute \/ MakePlan
  BY <1>1, RunKeeps, ExecuteKeeps, MakePlanKeeps
<1>2. ASSUME NEW cause \in {"user", "deactivation"}, Stop(cause, FALSE) PROVE IInv'
  BY <1>2, StopKeeps DEF Causes
<1>3. CASE Stop("user", TRUE)
  BY <1>3, StopKeeps DEF Causes
<1>4. CASE Launch
  BY <1>4, PruneKeeps, MarkKeeps, AllocateKeeps, LinkKeeps, StartedKeeps, HandOverKeeps DEF Launch
<1>5. CASE Halt
  BY <1>5, ResolveKeeps, HitKeeps, AbsentKeeps, FinalizeKeeps, RelaunchKeeps DEF Halt
<1>6. CASE Cancel
  BY <1>6, CancelLaunchKeeps, CancelStartKeeps, StopFailsKeeps DEF Cancel
<1>7. CASE \E p \in Procs : Moves(p) \/ Handle(p) \/ ShutdownKills(p)
  BY <1>7, MovesKeep, HandleKeeps, ShutdownKillsKeeps
<1>8. CASE Boot
  BY <1>8, BootCleansKeeps, BootConcludesKeeps, SubscribeKeeps DEF Boot
<1>9. CASE Audit
  BY <1>9, AuditReadsKeeps, AuditLocksKeeps, AuditCleansKeeps, AuditConcludesKeeps DEF Audit
<1>10. CASE Close \/ Restart
  BY <1>10, CloseKeeps, RestartKeeps
<1>11. CASE UNCHANGED vars
  BY <1>11, StutterKeeps
<1> QED BY <1>1, <1>2, <1>3, <1>4, <1>5, <1>6, <1>7, <1>8, <1>9, <1>10, <1>11 DEF Next

LEMMA Inductive == Spec => []IInv
<1>1. IInv /\ [Next]_vars => IInv'
  BY StepInv
<1> QED BY <1>1, InitInv, PTL DEF Spec

-----------------------------------------------------------------------------
(* The theorems. *)

\* The rows, the lock and the accounting keep their types; a pointer belongs to a command that
\* runs, and whoever runs has a run (repository.ts, launch.ts).
THEOREM TypesHold == Spec => []TypeOK
<1>1. IInv => TypeOK
  BY DEF IInv
<1> QED BY <1>1, Inductive, PTL

\* Whatever fails on the way of a launch, a stop, an event or the accounting, and whenever the
\* runtime stops: a process that is alive behind an open row is named by the newest run of its
\* command, and the command says that it runs (launch.ts, convergence.ts).
THEOREM LiveStaysKnown == Spec => []LiveIsKnown
<1>1. IInv => LiveIsKnown
  BY DEF IInv, Known, LiveIsKnown, Reached, Mine, Backed, Alive
<1> QED BY <1>1, Inductive, PTL

\* Two processes of one command are never alive at once, whoever launches it: the user, a
\* restart, or arriving at the worktree (launch.ts, activation).
THEOREM OneAtATime == Spec => []OneProcess
<1>1. IInv => OneProcess
  BY DEF IInv, Known, OneProcess, Reached, Mine, Backed, Alive, Named
<1> QED BY <1>1, Inductive, PTL

\* Once the user's stop is answered, no activation, event or accounting marks the command to
\* come back, and none launches it (executeActivationEntry, resolvePointerlessRunningState).
THEOREM StopsHold == Spec => []StopHolds
<1>1. IInv => StopHolds
  BY DEF IInv, Answers, Placed, StopHolds, Launching
<1> QED BY <1>1, Inductive, PTL

-----------------------------------------------------------------------------
(* The echoes. *)

LEMMA BecomesHears ==
  ASSUME NEW p, NEW q, Becomes(p, q)
  PROVE  queue \subseteq queue'
BY DEF Becomes

LEMMA KilledHears ==
  ASSUME NEW p, NEW cause, Killed(p, cause)
  PROVE  queue \subseteq queue'
<1>1. \E q : Becomes(p, q)
  BY Zenon DEF Killed
<1> QED BY <1>1, BecomesHears

LEMMA CleansHears ==
  ASSUME NEW p, NEW cause, NEW sure, Cleans(p, cause, sure)
  PROVE  queue \subseteq queue'
<1>1. UNCHANGED pty \/ Killed(p, cause) \/ \E q : Becomes(p, q)
  BY Zenon DEF Cleans, Accounted
<1> QED BY <1>1, KilledHears, BecomesHears DEF pty

\* No action but Handle forgets an announced end; a restart leaves the state row alone.
LEMMA OnlyHandled ==
  ASSUME [Next]_vars
  PROVE  (\E p \in Procs : Handle(p)) \/ queue \subseteq queue' \/ UNCHANGED state
<1> DEFINE Hears == queue \subseteq queue' \/ UNCHANGED state
<1>1. CASE Run \/ Execute \/ MakePlan \/ Close \/ Restart \/ UNCHANGED vars
  BY <1>1 DEF Run, Execute, MakePlan, Close, Restart, vars, pty, rows
<1>2. CASE (\E cause \in {"user", "deactivation"} : Stop(cause, FALSE)) \/ Stop("user", TRUE)
  BY <1>2 DEF Stop, pty
<1>3. CASE Launch
  <2>1. CASE Prune \/ Mark \/ Started \/ HandOver
    BY <2>1 DEF Prune, Mark, Started, HandOver, pty
  <2>2. CASE Allocate
    <3>1. (\E p, q : Becomes(p, q)) \/ UNCHANGED queue
      BY <2>2, Zenon DEF Allocate
    <3> QED BY <3>1, BecomesHears
  <2>3. CASE Link
    <3>1. \E p, q : Becomes(p, q)
      BY <2>3, Zenon DEF Link, Abandons
    <3> QED BY <3>1, BecomesHears
  <2> QED BY <1>3, <2>1, <2>2, <2>3 DEF Launch
<1>4. CASE Halt
  <2>1. CASE Hit
    BY <2>1, KilledHears DEF Hit
  <2>2. CASE Resolve \/ Absent \/ Finalize \/ Relaunch
    BY <2>2 DEF Resolve, Absent, Finalize, Relaunch, pty
  <2> QED BY <1>4, <2>1, <2>2 DEF Halt
<1>5. CASE Cancel
  <2>1. CASE StopFails
    BY <2>1 DEF StopFails, pty
  <2>2. CASE CancelLaunch
    <3>1. (\E p, q : Becomes(p, q)) \/ UNCHANGED pty
      BY <2>2, Zenon DEF CancelLaunch, Abandons
    <3> QED BY <3>1, BecomesHears DEF pty
  <2>3. CASE CancelStart
    <3>1. UNCHANGED rows
      BY <2>3 DEF CancelStart
    <3> QED BY <3>1 DEF rows
  <2> QED BY <1>5, <2>1, <2>2, <2>3 DEF Cancel
<1>6. ASSUME NEW p \in Procs, Moves(p) \/ ShutdownKills(p) PROVE Hears
  BY <1>6 DEF Moves, ShutdownKills, rows
<1>7. CASE Boot
  BY <1>7 DEF Boot, BootCleans, BootConcludes, Subscribe, rows
<1>8. CASE Audit
  BY <1>8 DEF Audit, AuditReads, AuditLocks, AuditCleans, AuditConcludes, rows, pty
<1> QED BY <1>1, <1>2, <1>3, <1>4, <1>5, <1>6, <1>7, <1>8 DEF Next

\* The late echo of a process changes nothing of a command that runs another one, whatever else
\* has happened since (finalizeRunAndStateByPty).
THEOREM EchoesAreHarmless == Spec => EchoIsHarmless
<1> DEFINE Harmless == \A p \in queue : p \notin queue' /\ up' = up /\ state.status = "running"
                                        /\ state.ptr # p => UNCHANGED state
<1>1. ASSUME IInv, [Next]_vars PROVE Harmless
  <2> SUFFICES ASSUME NEW p \in queue, p \notin queue', state.ptr # p
               PROVE  UNCHANGED state
    OBVIOUS
  <2>1. ASSUME NEW r \in Procs, Handle(r) PROVE UNCHANGED state
    <3>1. r = p
      BY <2>1 DEF Handle
    <3>2. CASE UNCHANGED rows
      BY <3>2 DEF rows
    <3>3. CASE FinalizeByPty(r, Outcome(r), StateOf(Outcome(r)))
      BY <3>1, <3>3 DEF FinalizeByPty, PointsAt
    <3> QED BY <2>1, <3>2, <3>3 DEF Handle
  <2> QED BY <1>1, <2>1, OnlyHandled
<1>2. IInv /\ [Next]_vars => [Harmless]_vars
  BY <1>1
<1> QED BY <1>2, Inductive, PTL DEF Spec, EchoIsHarmless
-----------------------------------------------------------------------------
(* What the rows say of processes that are over. *)

\* The newest of the rows rs that names p.
Last(rs, p) ==
  CHOOSE i \in DOMAIN rs : rs[i].pty = p /\ \A j \in DOMAIN rs : rs[j].pty = p => j <= i

\* A launch that is past its prune has one run, and it is not completed; nor is the run of a
\* process that the state points at. Older runs of processes are, and so is the newest at rest.
Stands ==
  /\ state.ptr # Nobody => runs[Newest].status = "running"
  /\ op.at \in Launching => runs[Newest].status = "running"
  /\ op.at \in Launching \ {"pruning"} => Len(runs) = 1
  /\ state.status # "running" /\ runs # <<>> =>
       runs[Newest].pty = Nobody \/ runs[Newest].status # "running"
  /\ \A i \in 1..(Len(runs) - 1) : runs[i].pty = Nobody \/ runs[i].status # "running"

\* What the accounting looks at.
Looked == count.todo \union count.failed \union count.unresolved

\* Processes that the rows name were allocated, and who is dropped or looked for.
Born == \A p \in Procs : Linked(p) \/ p \in dropped \/ p \in Looked => procs[p].row # "none"

\* A process that was dropped, and may still be there, is in no row, and nobody looks for it.
Gone ==
  /\ \A p \in dropped : Backed(p) => ~Linked(p) /\ p \notin Looked
  /\ op.at = "linking" => op.pid \notin dropped

\* While a process may be there, its run is the only one; one that a stop has killed is over,
\* unless its run is.
Lone ==
  /\ \A p \in Procs : Backed(p) /\ Linked(p) => Len(runs) = 1
  /\ op.at = "finalizing" => Over(op.pid) \/ Len(runs) = 1

\* A process is put into a later run only when it is taken back. When that run is completed it
\* is over, so that it is taken back once; a boot settles it first.
Back ==
  \A i \in 2..Len(runs) : runs[i].pty # Nobody =>
    /\ runs[i].status # "running" => Over(runs[i].pty)
    /\ up = "boot" => Over(runs[i].pty) \/ runs[i].pty \in count.todo \union count.failed
    /\ \A j \in 2..(i - 1) : runs[j].pty # runs[i].pty

\* No process has two runs.
Unique ==
  \A i, j \in 1..Len(runs) : i # j => runs[i].pty = Nobody \/ runs[i].pty # runs[j].pty

\* Who is looked for and is in no row any more was pruned, and all others with it. Who could
\* not be verified was not over, so that no later run of it is completed.
Sought ==
  /\ \A p \in Looked : Linked(p) \/ Unique
  /\ \A p \in count.unresolved :
       /\ op.at = "auditing" \/ up = "boot"
       /\ \A i \in 2..Len(runs) : runs[i].pty = p => runs[i].status = "running"

Told == Stands /\ Born /\ Gone /\ Lone /\ Back /\ Sought

\* One step of OutcomeStays.
OutcomeKept ==
  \A p \in Procs :
    Over(p) /\ Linked(p) /\ Linked(p)' /\ runs[NewestOf(p)].status # "running"
    => \/ runs'[NewestOf(p)'].status = runs[NewestOf(p)].status
       \/ state'.ptr = p /\ count.failed = {p}

LEMMA Greatest ==
  ASSUME NEW n \in Nat, NEW S \in SUBSET (1..n), S # {}
  PROVE  \E x \in S : \A y \in S : y <= x
<1> DEFINE R == {ss \in Nat \X Nat : ss[1] < ss[2]}
           T == {n - x : x \in S}
<1>1. OpToRel(<, Nat) = R
  BY DEF OpToRel
<1>2. IsWellFoundedOn(R, Nat)
  BY <1>1, NatLessThanWellFounded
<1>3. T \in SUBSET Nat /\ T # {}
  <2>1. \A x \in S : n - x \in Nat
    OBVIOUS
  <2> QED BY <2>1
<1> HIDE DEF R, T
<1>4. \E m \in T : \A k \in T : ~(<<k, m>> \in R)
  BY <1>2, <1>3, WFMin
<1>5. PICK m \in T : \A k \in T : ~(<<k, m>> \in R)
  BY <1>4
<1>6. PICK x \in S : m = n - x
  BY DEF T
<1>7. ASSUME NEW y \in S PROVE y <= x
  <2>1. n - y \in T /\ m \in Nat /\ n - y \in Nat
    BY <1>3 DEF T
  <2>2. <<n - y, m>> \in Nat \X Nat
    BY <2>1
  <2>3. ~(n - y < m)
    BY <1>5, <2>1, <2>2 DEF R
  <2> QED BY <1>6, <2>1, <2>3
<1> QED BY <1>7

LEMMA LastIs ==
  ASSUME NEW rs \in Seq(Run_), NEW p, NEW i \in 1..Len(rs), rs[i].pty = p
  PROVE  /\ Last(rs, p) \in 1..Len(rs) /\ rs[Last(rs, p)].pty = p
         /\ \A j \in 1..Len(rs) : rs[j].pty = p => j <= Last(rs, p)
<1> DEFINE S == {k \in 1..Len(rs) : rs[k].pty = p}
<1>1. Len(rs) \in Nat /\ DOMAIN rs = 1..Len(rs) /\ S \in SUBSET (1..Len(rs)) /\ S # {}
  OBVIOUS
<1>2. \E x \in S : \A y \in S : y <= x
  BY <1>1, Greatest
<1>3. \E x \in DOMAIN rs : rs[x].pty = p /\ \A j \in DOMAIN rs : rs[j].pty = p => j <= x
  BY <1>1, <1>2
<1> QED BY <1>1, <1>3 DEF Last

LEMMA LastAt ==
  ASSUME NEW rs \in Seq(Run_), NEW p, NEW i \in 1..Len(rs), rs[i].pty = p,
         \A j \in 1..Len(rs) : rs[j].pty = p => j <= i
  PROVE  Last(rs, p) = i
<1>1. /\ Last(rs, p) \in 1..Len(rs) /\ rs[Last(rs, p)].pty = p /\ i <= Last(rs, p)
  BY LastIs
<1> QED BY <1>1

LEMMA LinkedIn ==
  ASSUME Typed, NEW p
  PROVE  Linked(p) <=> \E i \in 1..Len(runs) : runs[i].pty = p
BY DEF Typed, Linked

\* What is told of a process, if it is told of the row that was, and is, its newest.
LEMMA KeptAt ==
  ASSUME Typed, runs' \in Seq(Run_), NEW p \in Procs, Linked(p), Linked(p)',
         runs[Last(runs, p)].status # "running" =>
           runs'[Last(runs', p)].status = runs[Last(runs, p)].status
           \/ (state'.ptr = p /\ count.failed = {p})
  PROVE  Over(p) /\ Linked(p) /\ Linked(p)' /\ runs[NewestOf(p)].status # "running"
         => \/ runs'[NewestOf(p)'].status = runs[NewestOf(p)].status
            \/ state'.ptr = p /\ count.failed = {p}
<1>1. NewestOf(p) = Last(runs, p)
  BY Zenon DEF NewestOf, Last
<1>2. NewestOf(p)' = Last(runs', p)
  BY Zenon DEF NewestOf, Last
<1> QED BY <1>1, <1>2

-----------------------------------------------------------------------------
(* The processes in a step. *)

\* Who is over stays so, and nobody may be there who was not, but one that is being linked.
Sound ==
  \A r \in Procs :
    /\ procs[r].row # "none" => procs'[r].row # "none"
    /\ Over(r) => Over(r)'
    /\ Backed(r)' => Backed(r) \/ (op.at = "linking" /\ op'.at = "starting" /\ r = op.pid)

LEMMA AdvancesSoundly ==
  ASSUME Typed, Advances
  PROVE  Sound
<1> SUFFICES ASSUME NEW r \in Procs
    PROVE  /\ procs[r].row # "none" => procs'[r].row # "none"
           /\ Over(r) => Over(r)'
           /\ Backed(r)' => Backed(r)
  BY DEF Sound
<1>1. Onward(procs[r], procs'[r]) /\ procs[r] \in Pty!States
  BY DEF Advances, Typed
<1> QED BY <1>1 DEF Onward, Over, Backed, Open, Pty!States, Pty!Fates

LEMMA AllocateSound ==
  ASSUME IInv, Allocate
  PROVE  Sound
<1>1. ASSUME NEW p \in Procs, NEW q \in Pty!Allocated(procs[p]), Becomes(p, q)
      PROVE  Sound
  <2>1. procs[p] = Pty!Fresh /\ q = [row |-> "open", proc |-> "none"]
    BY <1>1 DEF Pty!Allocated, Pty!When, Pty!Fresh
  <2>2. procs' = [procs EXCEPT ![p] = q]
    BY <1>1 DEF Becomes
  <2> QED BY <2>1, <2>2 DEF Sound, Over, Backed, Open, Pty!Fresh, Pty!Fates, Pty!Alive, IInv, TypeOK, Typed
<1>2. CASE UNCHANGED <<procs, queue, lost>>
  BY <1>2, IdleAdvances, AdvancesSoundly DEF IInv, TypeOK
<1> QED BY <1>1, <1>2 DEF Allocate

LEMMA LinkSound ==
  ASSUME IInv, Link
  PROVE  Sound
<1>0. op.pid \in Procs /\ op.at = "linking"
  BY DEF Link, IInv, TypeOK, Typed, Kept, Held
<1>1. ASSUME NEW q \in Pty!Asked(procs[op.pid]), Becomes(op.pid, q),
             op' = [op EXCEPT !.at = "starting"]
      PROVE  Sound
  <2>1. procs[op.pid].row = "open" /\ q = [row |-> "open", proc |-> "asked"]
    BY <1>0, <1>1 DEF Pty!Asked, Pty!When, IInv, TypeOK, Typed, Pty!States
  <2>2. procs' = [procs EXCEPT ![op.pid] = q] /\ op'.at = "starting"
    BY <1>1 DEF Becomes, IInv, TypeOK, Typed, Held
  <2> QED BY <1>0, <2>1, <2>2 DEF Sound, Over, Backed, Open, Pty!Fates, IInv, TypeOK, Typed
<1>2. CASE Abandons(op.pid)
  BY <1>0, <1>2, AbandonAdvances, AdvancesSoundly DEF IInv, TypeOK
<1> QED BY <1>1, <1>2 DEF Link

LEMMA RestartSound ==
  ASSUME IInv, Restart
  PROVE  Sound
<1>1. \A p \in Procs : procs[p] \in Pty!States
  BY DEF IInv, TypeOK, Typed
<1>2. \A p \in Procs : procs'[p] = procs[p] \/ procs'[p] = Pty!GoneWithRuntime(procs[p])
  BY DEF Restart
<1>3. \A x \in Pty!States :
        /\ x.row # "none" => Pty!GoneWithRuntime(x).row # "none"
        /\ x.row \in Pty!Fates => Pty!GoneWithRuntime(x).row = x.row
        /\ Pty!GoneWithRuntime(x).row # "open"
  BY DEF Pty!States, Pty!GoneWithRuntime, Pty!Fates
<1> QED BY <1>1, <1>2, <1>3 DEF Sound, Over, Backed, Open

LEMMA StepSound ==
  ASSUME IInv, [Next]_vars
  PROVE  Sound
<1> USE DEF IInv, TypeOK
<1>1. ASSUME UNCHANGED procs PROVE Sound
  BY <1>1 DEF Sound, Over, Backed, Open
<1>2. ASSUME NEW p \in Procs, NEW cause, Killed(p, cause) PROVE Sound
  BY <1>2, KillAdvances, AdvancesSoundly
<1>3. ASSUME NEW p \in Procs,
             NEW q \in Pty!Started(procs[p]) \union Pty!Forgotten(procs[p]) \union Pty!Ended(procs[p])
                         \union Pty!Concluded(procs[p]),
             Becomes(p, q)
      PROVE  Sound
  <2>1. Onward(procs[p], q)
    BY <1>3, ContractIsOnward DEF Typed
  <2> QED BY <1>3, <2>1, BecomesAdvances, AdvancesSoundly
<1>4. ASSUME NEW p \in Procs, Moves(p) PROVE Sound
  <2>1. PICK q \in Begun(p) \union Judged(p) \union Pty!Forgotten(procs[p]) \union Pty!Ended(procs[p]) :
          Becomes(p, q)
    BY <1>4 DEF Moves
  <2>2. q \in Pty!Started(procs[p]) \union Pty!Forgotten(procs[p]) \union Pty!Ended(procs[p])
              \union Pty!Concluded(procs[p])
    BY <2>1 DEF Begun, Judged
  <2> QED BY <1>3, <2>1, <2>2
<1>5. ASSUME NEW p \in Procs, NEW cause, NEW sure, Cleans(p, cause, sure) PROVE Sound
  <2>1. \/ UNCHANGED pty \/ Killed(p, cause)
        \/ \E q \in Pty!Concluded(procs[p]) : Becomes(p, q)
    BY <1>5, Zenon DEF Cleans, Accounted
  <2> QED BY <1>1, <1>2, <1>3, <2>1 DEF pty
<1>6. CASE Launch
  BY <1>1, <1>6, AllocateSound, LinkSound DEF Launch, Prune, Mark, Started, HandOver, pty
<1>7. CASE Halt
  <2>1. CASE Hit
    BY <1>2, <2>1 DEF Hit, Typed, Kept, Held
  <2> QED BY <1>1, <1>7, <2>1 DEF Halt, Resolve, Absent, Finalize, Relaunch, pty
<1>8. CASE Cancel
  <2>1. CASE CancelLaunch
    <3>1. UNCHANGED pty \/ (op.pid \in Procs /\ Abandons(op.pid))
      BY <2>1 DEF CancelLaunch, Typed, Held
    <3> QED BY <1>1, <3>1, AbandonAdvances, AdvancesSoundly DEF pty
  <2>2. CASE CancelStart
    <3>1. UNCHANGED pty \/ (op.pid \in Procs /\ Killed(op.pid, "user"))
      BY <2>2, Zenon DEF CancelStart, Typed, Kept, Held
    <3> QED BY <1>1, <1>2, <3>1 DEF pty
  <2> QED BY <1>1, <1>8, <2>1, <2>2 DEF Cancel, StopFails, pty
<1>9. CASE Run \/ MakePlan \/ Execute \/ Close \/ UNCHANGED vars
  BY <1>1, <1>9 DEF Run, MakePlan, Execute, Close, pty, vars
<1>10. CASE (\E cause \in {"user", "deactivation"} : Stop(cause, FALSE)) \/ Stop("user", TRUE)
  BY <1>1, <1>10 DEF Stop, pty
<1>11. ASSUME NEW p \in Procs, Handle(p) \/ ShutdownKills(p) PROVE Sound
  BY <1>1, <1>2, <1>11 DEF Handle, ShutdownKills
<1>12. CASE Boot
  BY <1>1, <1>5, <1>12 DEF Boot, BootCleans, BootConcludes, Subscribe, pty
<1>13. CASE Audit
  BY <1>1, <1>5, <1>13 DEF Audit, AuditReads, AuditLocks, AuditCleans, AuditConcludes, pty
<1> QED BY <1>4, <1>6, <1>7, <1>8, <1>9, <1>10, <1>11, <1>12, <1>13, RestartSound DEF Next

-----------------------------------------------------------------------------
(* The accounting in a step. *)

\* It starts over, or is left alone, or goes on while nobody touches the rows; and at boot
\* whoever it is done with, or never had to look for, is over or was there.
Recounts ==
  /\ \/ /\ count' = count
        /\ op.at = "auditing" => op'.at = "auditing" /\ UNCHANGED rows
        /\ up = "boot" => up' = "boot" /\ UNCHANGED rows
     \/ count'.unresolved = {} /\ \A p \in Looked' : p \in Procs /\ Linked(p)
     \/ /\ Looked' \subseteq Looked /\ UNCHANGED rows
        /\ op'.at = "auditing" \/ up' = "boot"
        /\ \A p \in count'.unresolved \ count.unresolved : ~Over(p)
  /\ up' = "boot" =>
       \A p \in Procs : Linked(p) /\ procs[p].row # "none" =>
         \/ Over(p)' \/ Backed(p) \/ p \in count'.todo \union count'.failed
         \/ up = "boot" /\ p \notin count.todo \union count.failed

LEMMA NamedLinked ==
  ASSUME Typed, NEW p, Named(p)
  PROVE  Linked(p)
<1>1. Len(runs) \in DOMAIN runs
  BY DEF Typed, Named
<1> QED BY <1>1 DEF Named, Newest, Linked

LEMMA LinksLinked ==
  ASSUME IInv, NEW p \in Links
  PROVE  p \in Procs /\ Linked(p)
BY NamedLinked DEF Links, IInv, TypeOK, Pointed, Nobody, Procs

LEMMA LeavesCount ==
  ASSUME count' = count, up' = up, op.at # "auditing" \/ (op' = op /\ UNCHANGED rows),
         up # "boot" \/ UNCHANGED rows
  PROVE  Recounts
BY DEF Recounts

LEMMA CountsAnew ==
  ASSUME count' = Uncounted, up' # "boot"
  PROVE  Recounts
BY DEF Recounts, Uncounted, Looked

LEMMA CleansRecount ==
  ASSUME IInv, NEW p \in Procs, NEW cause, NEW sure \in BOOLEAN, Cleans(p, cause, sure),
         UNCHANGED <<rows, op, up, backend, dropped>>, op.at = "auditing" \/ up = "boot",
         up = "boot" => ~sure
  PROVE  Recounts
<1> USE DEF IInv, TypeOK
<1>1. count \in Count /\ p \in count.todo
  BY DEF Typed, Cleans
<1>2. CASE Accounted(p, cause, sure) /\ count' = [count EXCEPT !.todo = @ \ {p}]
  <2>1. count'.todo = count.todo \ {p} /\ count'.failed = count.failed
        /\ count'.unresolved = count.unresolved
    BY <1>1, <1>2, Zenon DEF Count
  <2>2. Looked' \subseteq Looked /\ count'.unresolved \ count.unresolved = {}
    BY <2>1 DEF Looked
  <2>3. ASSUME up = "boot" PROVE Over(p)' \/ Backed(p)
    <3>1. CASE Over(p) /\ UNCHANGED <<pty, faults>>
      BY <3>1 DEF Over, pty
    <3>2. CASE Alive(p) /\ (Open(p) \/ sure)
      BY <2>3, <3>2 DEF Alive, Backed
    <3>3. CASE \E q \in Pty!Concluded(procs[p]) : q.row = "missing" /\ Becomes(p, q)
      BY <3>3 DEF Becomes, Over, Typed, Pty!Fates
    <3>4. up # "ready"
      BY <2>3
    <3> QED BY <1>2, <3>1, <3>2, <3>3, <3>4 DEF Accounted
  <2>4. up' = "boot" =>
          \A r \in Procs : Linked(r) /\ procs[r].row # "none" =>
            \/ Over(r)' \/ Backed(r) \/ r \in count'.todo \union count'.failed
            \/ up = "boot" /\ r \notin count.todo \union count.failed
    BY <2>1, <2>3
  <2> QED BY <2>2, <2>4 DEF Recounts
<1>3. CASE Unaccounted(p)
  <2>1. /\ count'.todo = count.todo \ {p} /\ count'.failed = count.failed \union {p}
        /\ count'.unresolved = IF Open(p) THEN count.unresolved \union {p} ELSE count.unresolved
    BY <1>1, <1>3, Zenon DEF Count, Unaccounted
  <2>2. Looked' \subseteq Looked
    BY <1>1, <2>1 DEF Looked
  <2>3. \A r \in count'.unresolved \ count.unresolved : ~Over(r)
    BY <2>1 DEF Over, Open, Pty!Fates
  <2> QED BY <2>1, <2>2, <2>3 DEF Recounts
<1> QED BY <1>2, <1>3 DEF Cleans

LEMMA RestartRecounts ==
  ASSUME IInv, Restart
  PROVE  Recounts
<1> USE DEF IInv, TypeOK
<1>1. count' = [Uncounted EXCEPT !.todo = {p \in Links : procs'[p].row = "open"},
                                 !.claims = state.status = "running"]
  BY DEF Restart
<1>2. /\ count'.todo = {p \in Links : procs'[p].row = "open"}
      /\ count'.failed = {} /\ count'.unresolved = {}
  BY <1>1 DEF Uncounted
<1>3. \A p \in Looked' : p \in Procs /\ Linked(p)
  BY <1>2, LinksLinked DEF Looked
<1>4. ASSUME NEW p \in Procs, Linked(p), procs[p].row # "none"
      PROVE  Over(p)' \/ p \in count'.todo
  <2>1. procs'[p] \in Pty!States /\ procs'[p].row # "none"
    <3>1. procs[p] \in Pty!States
      BY DEF Typed
    <3>2. procs'[p] = procs[p] \/ procs'[p] = Pty!GoneWithRuntime(procs[p])
      BY DEF Restart
    <3> QED BY <1>4, <3>1, <3>2 DEF Pty!States, Pty!GoneWithRuntime, Pty!Fates, Pty!Alive
  <2>2. p \in Links
    BY <1>4 DEF Links
  <2> QED BY <1>2, <2>1, <2>2 DEF Over, Pty!States, Pty!Fates
<1> QED BY <1>2, <1>3, <1>4 DEF Recounts

LEMMA StepRecounts ==
  ASSUME IInv, [Next]_vars
  PROVE  Recounts
<1> USE DEF IInv, TypeOK
<1>1. up = "boot" => op.at = "free"
  BY DEF Counted, Free
<1>2. CASE Launch
  BY <1>1, <1>2, LeavesCount, Zenon DEF Launch, Prune, Mark, Allocate, Link, Started, HandOver
<1>3. CASE Halt
  BY <1>1, <1>3, LeavesCount DEF Halt, Resolve, Hit, Absent, Finalize, Relaunch
<1>4. CASE Cancel
  BY <1>1, <1>4, LeavesCount DEF Cancel, CancelLaunch, CancelStart, StopFails, Launching
<1>5. CASE Run \/ Execute \/ UNCHANGED vars \/ MakePlan
  BY <1>1, <1>5, LeavesCount DEF Run, Execute, MayBegin, Free, vars, MakePlan
<1>6. CASE (\E cause \in {"user", "deactivation"} : Stop(cause, FALSE)) \/ Stop("user", TRUE)
  <2>1. ASSUME NEW cause, NEW again, Stop(cause, again) PROVE Recounts
    <3>1. count' = count /\ up' = up /\ up = "ready" /\ op.at = "free"
      BY <2>1 DEF Stop, MayBegin, Free
    <3> QED BY <3>1, LeavesCount
  <2> QED BY <1>6, <2>1
<1>7. ASSUME NEW p \in Procs, Moves(p) \/ Handle(p) \/ ShutdownKills(p) PROVE Recounts
  BY <1>1, <1>7, LeavesCount DEF Moves, Handle, ShutdownKills, Free, Subscribed
<1>8. CASE Close
  BY <1>8, CountsAnew DEF Close
<1>9. CASE Boot
  <2>1. CASE BootConcludes
    BY <2>1, CountsAnew DEF BootConcludes
  <2>2. CASE Subscribe
    <3>1. op.at = "free"
      BY <2>2 DEF Subscribe, Counted, Free
    <3>2. count' = count /\ up = "counted" /\ up' = "ready"
      BY <2>2 DEF Subscribe
    <3> QED BY <3>1, <3>2 DEF Recounts
  <2>3. ASSUME NEW p \in Procs, BootCleans(p) PROVE Recounts
    BY <2>3, CleansRecount DEF BootCleans, promise
  <2> QED BY <1>9, <2>1, <2>2, <2>3 DEF Boot
<1>10. CASE Audit
  <2>1. CASE AuditReads
    <3>1. up' # "boot" /\ count' = [Uncounted EXCEPT !.todo = Links]
      BY <2>1 DEF AuditReads
    <3>2. count'.unresolved = {} /\ Looked' = Links
      BY <3>1 DEF Uncounted, Looked
    <3> QED BY <3>1, <3>2, LinksLinked DEF Recounts
  <2>2. CASE AuditLocks
    BY <2>2, LeavesCount DEF AuditLocks, MayBegin, Free
  <2>3. ASSUME NEW p \in Procs, AuditCleans(p) PROVE Recounts
    BY <1>1, <2>3, CleansRecount DEF AuditCleans, promise
  <2>4. CASE AuditConcludes
    BY <2>4, CountsAnew DEF AuditConcludes, Counted
  <2> QED BY <1>10, <2>1, <2>2, <2>3, <2>4 DEF Audit
<1> QED BY <1>2, <1>3, <1>4, <1>5, <1>6, <1>7, <1>8, <1>9, <1>10, RestartRecounts DEF Next

-----------------------------------------------------------------------------
(* What a step does to the rows. *)

\* The runs stay, and the command goes on, comes to rest over a run that is completed, or has
\* its launch installed.
Still ==
  /\ UNCHANGED <<runs, dropped>>
  /\ state' = state \/ state'.ptr = Nobody \/ op.at \in Launching
  /\ state'.status # "running" => state.status # "running" \/ runs[Newest].status # "running"
  /\ op'.at \in Launching => op.at \in Launching /\ (op.at = "pruning" => op'.at = "pruning")
  /\ ~(op.at = "linking" /\ op'.at = "starting")
  /\ op'.at = "linking" => (op.at = "linking" /\ op'.pid = op.pid)
                           \/ (op'.pid \in Procs /\ procs[op'.pid].row = "none")
  /\ op'.at = "finalizing" =>
       /\ op'.pid = op.pid
       /\ op.at = "finalizing" \/ Over(op.pid) \/ (op.pid \in Procs /\ Named(op.pid) /\ Backed(op.pid))

\* A run is completed, whose process is over or which is the only one; with the newest, the
\* command comes to rest.
Completes(i, outcome) ==
  /\ i \in 1..Len(runs) /\ outcome \in RunStatus \ {"running"}
  /\ runs' = Completed(i, outcome) /\ dropped' = dropped
  /\ i = 1 \/ runs[i].pty = Nobody \/ Over(runs[i].pty)
  /\ \/ state' = state /\ (i = Newest => state.ptr = Nobody)
     \/ state'.ptr = Nobody /\ i = Newest
  /\ op'.at \in {"free", "relaunching"}

\* The runs that name no process are completed.
Sweeps ==
  /\ runs' \in Seq(Run_) /\ Len(runs') = Len(runs)
  /\ \A i \in 1..Len(runs) :
       \/ runs'[i] = runs[i]
       \/ runs[i].pty = Nobody /\ runs'[i].pty = Nobody /\ state.status # "running"
  /\ UNCHANGED <<state, op, dropped>> /\ op.at = "free"

\* One run is left: the newest, or that of a launch that never was.
Singles(r) ==
  /\ r \in Run_ /\ runs' = <<r>> /\ dropped' = dropped
  /\ \/ /\ runs # <<>> /\ r = runs[Newest] /\ op.at = "pruning" /\ op'.at = "marking"
        /\ state' = state
     \/ r.pty = Nobody /\ state'.ptr = Nobody /\ op'.at = "free"

Adds ==
  /\ runs' = Append(runs, [status |-> "running", pty |-> Nobody])
  /\ state.status # "running" /\ UNCHANGED <<state, dropped>> /\ op'.at = "pruning"
  /\ op.at \in {"free", "relaunching"} /\ up # "boot"

LinksNewest ==
  /\ op.at = "linking" /\ op'.at = "starting" /\ op.pid \in Procs /\ Open(op.pid)
  /\ runs' = [runs EXCEPT ![Newest].pty = op.pid] /\ UNCHANGED <<state, dropped>>

\* The process of the newest run is taken back, by a stop that cannot end it.
Retakes(p) ==
  /\ p \in Procs /\ Named(p) /\ Readopt(p) /\ dropped' = dropped
  /\ ~Over(p) \/ state.ptr = p
  /\ op'.at \in {"free", "terminating"}

\* Any process is, by the accounting.
Adopted(p) ==
  /\ p \in count.unresolved /\ count.failed = {p} /\ Readopt(p)
  /\ dropped \subseteq dropped' /\ dropped' \subseteq dropped \union {r \in Procs : Named(r) /\ r # p}
  /\ op'.at = "free" /\ count' = Uncounted /\ up' # "boot"

RowsMove ==
  \/ Still \/ (\E i, outcome : Completes(i, outcome)) \/ Sweeps \/ (\E r : Singles(r))
  \/ Adds \/ LinksNewest \/ (\E p : Retakes(p)) \/ (\E p : Adopted(p))

\* Whoever keeps rows and lock as they are.
LEMMA AsideMoves ==
  ASSUME UNCHANGED <<runs, state, dropped>>,
         op'.at \notin {"pruning", "marking", "allocating", "linking", "starting", "handing", "finalizing"}
         \/ op' = op
  PROVE  RowsMove
BY DEF RowsMove, Still, Launching

\* Whoever completes the newest run.
LEMMA RunCompletes ==
  ASSUME IInv, NEW outcome \in RunStatus \ {"running"}, NEW status, FinalizeByRun(outcome, status),
         runs # <<>>, op'.at \in {"free", "relaunching"}, dropped' = dropped,
         Len(runs) = 1 \/ runs[Newest].pty = Nobody \/ Over(runs[Newest].pty)
  PROVE  RowsMove
<1>1. Newest \in 1..Len(runs)
  BY DEF IInv, TypeOK, Typed, Newest
<1>2. state'.ptr = Nobody \/ (state' = state /\ state.ptr = Nobody)
  BY DEF FinalizeByRun, Rests, IInv, TypeOK, Kept
<1>3. Newest = 1 \/ runs[Newest].pty = Nobody \/ Over(runs[Newest].pty)
  BY DEF Newest
<1>4. Completes(Newest, outcome)
  BY <1>1, <1>2, <1>3 DEF Completes, FinalizeByRun
<1> QED BY <1>4 DEF RowsMove

\* Whoever completes the run of a process that ended.
LEMMA PtyCompletes ==
  ASSUME IInv, NEW p \in Procs, NEW outcome \in RunStatus \ {"running"}, NEW status,
         FinalizeByPty(p, outcome, status), op'.at \in {"free", "relaunching"}, dropped' = dropped,
         Over(p) \/ Len(runs) = 1
  PROVE  RowsMove
<1> USE DEF IInv, TypeOK
<1>1. runs \in Seq(Run_)
  BY DEF Typed, Run_
<1>2. state.ptr = p => Named(p) /\ Linked(p)
  BY NamedLinked DEF Pointed, Procs, Nobody
<1>3. CASE ~Linked(p)
  <2>1. UNCHANGED <<runs, state>>
    BY <1>2, <1>3 DEF FinalizeByPty, PointsAt
  <2> QED BY <2>1, AsideMoves
<1>4. CASE Linked(p)
  <2> DEFINE i == Last(runs, p)
  <2>1. NewestOf(p) = i
    BY Zenon DEF NewestOf, Last
  <2>2. i \in 1..Len(runs) /\ runs[i].pty = p /\ \A j \in 1..Len(runs) : runs[j].pty = p => j <= i
    BY <1>1, <1>4, LinkedIn, LastIs
  <2>3. runs' = Completed(i, outcome)
    BY <1>4, <2>1 DEF FinalizeByPty
  <2>4. i = 1 \/ Over(runs[i].pty)
    BY <1>1, <2>2
  <2>5. Newest \in 1..Len(runs)
    BY <1>1, <2>2 DEF Newest
  <2>6. CASE state.ptr = p
    <3>1. i = Newest
      BY <1>1, <1>2, <2>2, <2>5, <2>6 DEF Named, Newest
    <3>2. state'.ptr = Nobody
      BY <2>6 DEF FinalizeByPty, Rests, PointsAt
    <3>3. Completes(i, outcome)
      BY <2>2, <2>3, <2>4, <3>1, <3>2 DEF Completes
    <3> QED BY <3>3 DEF RowsMove
  <2>7. CASE state.ptr # p
    <3>1. state' = state
      BY <2>7 DEF FinalizeByPty, PointsAt
    <3>2. i = Newest => state.ptr = Nobody
      BY <2>2, <2>7 DEF Pointed, Named
    <3>3. Completes(i, outcome)
      BY <2>2, <2>3, <2>4, <3>1, <3>2 DEF Completes
    <3> QED BY <3>3 DEF RowsMove
  <2> QED BY <2>6, <2>7
<1> QED BY <1>3, <1>4

LEMMA LaunchesMove ==
  ASSUME IInv, Launches, op.at \in {"free", "relaunching"}, dropped' = dropped, up # "boot"
  PROVE  RowsMove
<1>1. CASE FailsBefore
  <2> DEFINE r == [status |-> "failed", pty |-> Nobody]
  <2>1. r \in Run_ /\ r.pty = Nobody
    BY DEF Run_, RunStatus
  <2>2. runs' = <<r>> /\ state'.ptr = Nobody /\ op'.at = "free"
    BY <1>1 DEF FailsBefore, Rests, Free
  <2> HIDE DEF r
  <2>3. Singles(r)
    BY <2>1, <2>2 DEF Singles
  <2> QED BY <2>3 DEF RowsMove
<1>2. CASE CreatesRun
  BY <1>2 DEF Launches, CreatesRun, Adds, RowsMove, Free
<1> QED BY <1>1, <1>2 DEF Launches

LEMMA NewestIn ==
  ASSUME Typed, runs # <<>>
  PROVE  /\ Newest \in 1..Len(runs) /\ runs[Newest] \in Run_
         /\ runs[Newest].pty \in {Nobody} \union Procs
<1>1. runs \in Seq(Run_)
  BY DEF Typed, Run_
<1>2. Len(runs) \in 1..Len(runs)
  BY <1>1
<1>3. runs[Len(runs)] \in Run_
  BY <1>1, <1>2
<1> QED BY <1>2, <1>3 DEF Newest, Run_

LEMMA GivesUpMoves ==
  ASSUME IInv, op.at \in {"pruning", "marking"}, GivesUpBeforeMarker, op' = Free, dropped' = dropped
  PROVE  RowsMove
<1>1. op'.at = "free" /\ state' = state
  BY DEF Free, GivesUpBeforeMarker
<1>2. CASE UNCHANGED runs
  BY <1>1, <1>2, AsideMoves
<1>3. CASE runs' = Completed(Newest, "failed")
  <2>1. /\ Newest \in 1..Len(runs) /\ runs[Newest].pty = Nobody /\ state.ptr = Nobody
        /\ "failed" \in RunStatus \ {"running"}
    BY NewestIn DEF IInv, TypeOK, Kept, Placed, Launching, RunStatus
  <2>2. Completes(Newest, "failed")
    BY <1>1, <1>3, <2>1 DEF Completes
  <2> QED BY <2>2 DEF RowsMove
<1> QED BY <1>2, <1>3 DEF GivesUpBeforeMarker

LEMMA LaunchMoves ==
  ASSUME IInv, Told, Launch
  PROVE  RowsMove
<1> USE DEF IInv, TypeOK
<1>0. "failed" \in RunStatus \ {"running"}
  BY DEF RunStatus
<1>1. ASSUME FinalizeByRun("failed", "failed"), op.at \in {"pruning", "marking", "allocating", "linking"},
             op' = Free, dropped' = dropped
      PROVE  RowsMove
  BY <1>0, <1>1, RunCompletes DEF Free, Placed, Kept, Launching
<1>2. CASE Prune
  <2>1. op.at = "pruning" /\ dropped' = dropped
    BY <1>2 DEF Prune, promise
  <2>2. CASE runs' = <<runs[Newest]>> /\ op' = [op EXCEPT !.at = "marking"] /\ UNCHANGED state
    <3>1. runs # <<>> /\ runs[Newest] \in Run_
      BY <2>1, NewestIn DEF Kept, Launching
    <3>2. op'.at = "marking"
      BY <2>2 DEF Typed, Held
    <3>3. Singles(runs[Newest])
      BY <2>1, <2>2, <3>1, <3>2 DEF Singles
    <3> QED BY <3>3 DEF RowsMove
  <2> QED BY <1>2, <2>1, <2>2, GivesUpMoves DEF Prune
<1>3. CASE Mark
  <2>1. op.at = "marking" /\ dropped' = dropped
    BY <1>3 DEF Mark, promise
  <2>2. CASE Rests("running") /\ op' = [op EXCEPT !.at = "allocating"] /\ UNCHANGED runs
    <3>1. op'.at = "allocating" /\ state' = [status |-> "running", ptr |-> Nobody]
      BY <2>2 DEF Typed, Held, Rests
    <3>2. Still
      BY <2>1, <2>2, <3>1 DEF Still, Launching
    <3> QED BY <3>2 DEF RowsMove
  <2> QED BY <1>3, <2>1, <2>2, GivesUpMoves DEF Mark
<1>4. CASE Allocate
  <2>1. op.at = "allocating" /\ dropped' = dropped
    BY <1>4 DEF Allocate, promise
  <2>2. ASSUME NEW p \in Procs, NEW q \in Pty!Allocated(procs[p]),
               op' = [op EXCEPT !.at = "linking", !.pid = p], UNCHANGED rows
        PROVE  RowsMove
    <3>1. procs[p].row = "none"
      BY <2>2 DEF Pty!Allocated, Pty!When, Pty!Fresh
    <3>2. op'.at = "linking" /\ op'.pid = p /\ runs' = runs /\ state' = state
      BY <2>2 DEF Typed, Held, rows
    <3>3. Still
      BY <2>1, <3>1, <3>2 DEF Still, Launching
    <3> QED BY <3>3 DEF RowsMove
  <2> QED BY <1>1, <1>4, <2>1, <2>2 DEF Allocate
<1>5. CASE Link
  <2>1. op.at = "linking" /\ dropped' = dropped /\ op.pid \in Procs
    BY <1>5 DEF Link, promise, Typed, Kept, Held
  <2>2. ASSUME runs' = [runs EXCEPT ![Newest].pty = op.pid], NEW q \in Pty!Asked(procs[op.pid]),
               op' = [op EXCEPT !.at = "starting"], UNCHANGED state
        PROVE  RowsMove
    <3>1. Open(op.pid)
      BY <2>2 DEF Pty!Asked, Pty!When, Open
    <3>2. op'.at = "starting"
      BY <2>2 DEF Typed, Held
    <3> QED BY <2>1, <2>2, <3>1, <3>2 DEF LinksNewest, RowsMove
  <2>3. CASE UNCHANGED rows /\ op' = Free
    BY <2>1, <2>3, AsideMoves DEF rows, Free
  <2> QED BY <1>1, <1>5, <2>1, <2>2, <2>3 DEF Link
<1>6. CASE Started
  <2>1. op.at = "starting" /\ op'.at = "handing" /\ UNCHANGED <<runs, state, dropped>>
    BY <1>6 DEF Started, Typed, Held, rows, promise
  <2>2. Still
    BY <2>1 DEF Still, Launching
  <2> QED BY <2>2 DEF RowsMove
<1>7. CASE HandOver
  <2>1. op.at = "handing" /\ op'.at = "free" /\ dropped' = dropped
    BY <1>7 DEF HandOver, Free, promise
  <2>2. CASE FinalizeByRun(Outcome(op.pid), StateOf(Outcome(op.pid)))
    <3>1. Len(runs) = 1 /\ runs # <<>>
      BY <2>1 DEF Told, Stands, Launching, Kept
    <3> QED BY <2>1, <2>2, <3>1, OutcomesAreOver, RunCompletes
  <2>3. CASE Installs(op.pid)
    <3>1. Still
      BY <2>1, <2>3 DEF Installs, Still, Launching
    <3> QED BY <3>1 DEF RowsMove
  <2>4. CASE UNCHANGED rows
    BY <2>1, <2>4, AsideMoves DEF rows
  <2> QED BY <1>7, <2>2, <2>3, <2>4 DEF HandOver
<1> QED BY <1>2, <1>3, <1>4, <1>5, <1>6, <1>7 DEF Launch

LEMMA CancelMoves ==
  ASSUME IInv, Told, Cancel
  PROVE  RowsMove
<1> USE DEF IInv, TypeOK
<1>1. CASE CancelLaunch
  <2>1. /\ op.at \in {"pruning", "marking", "allocating", "linking"} /\ op'.at = "free"
        /\ dropped' = dropped
    BY <1>1 DEF CancelLaunch, Launching, Free, promise
  <2>2. CASE FinalizeByRun("failed", "failed")
    BY <2>1, <2>2, RunCompletes DEF Placed, Kept, Launching, RunStatus
  <2>3. CASE UNCHANGED rows
    BY <2>1, <2>3, AsideMoves DEF rows
  <2> QED BY <1>1, <2>2, <2>3 DEF CancelLaunch
<1>2. CASE CancelStart
  <2>1. op.at = "starting" /\ op'.at = "handing" /\ UNCHANGED <<runs, state, dropped>>
    BY <1>2 DEF CancelStart, Typed, Held, rows, promise
  <2>2. Still
    BY <2>1 DEF Still, Launching
  <2> QED BY <2>2 DEF RowsMove
<1>3. CASE StopFails
  <2>1. op'.at = "free" /\ dropped' = dropped
    BY <1>3 DEF StopFails, Free, promise
  <2>2. CASE UNCHANGED rows
    BY <2>1, <2>2, AsideMoves DEF rows
  <2>3. CASE op.at = "terminating" /\ Readopt(op.pid)
    <3>1. op.pid \in Procs /\ state.ptr = op.pid /\ Named(op.pid)
      BY <2>3 DEF Typed, Kept, Held, Placed, Pointed
    <3>2. Retakes(op.pid)
      BY <2>1, <2>3, <3>1 DEF Retakes
    <3> QED BY <3>2 DEF RowsMove
  <2> QED BY <1>3, <2>2, <2>3 DEF StopFails
<1> QED BY <1>1, <1>2, <1>3 DEF Cancel

LEMMA HaltMoves ==
  ASSUME IInv, Told, Halt
  PROVE  RowsMove
<1> USE DEF IInv, TypeOK
<1>0. After.at \in {"free", "relaunching"}
  BY DEF After, Free
<1>1. CASE Resolve
  <2> DEFINE p == runs[Newest].pty
  <2>1. op.at = "stopping" /\ state.status = "running" /\ runs # <<>> /\ dropped' = dropped
    BY <1>1 DEF Resolve, Placed, Kept
  <2>2. p \in {Nobody} \union Procs
    BY <2>1, NewestIn
  <2>3. CASE state.ptr # Nobody
    <3>1. op'.at = "terminating" /\ UNCHANGED <<runs, state>>
      BY <1>1, <2>3 DEF Resolve, Typed, Held, rows
    <3> QED BY <2>1, <3>1, AsideMoves
  <2>4. CASE state.ptr = Nobody /\ p = Nobody
    <3>1. FinalizeByRun("failed", "failed") /\ op' = After
      BY <1>1, <2>4 DEF Resolve
    <3> QED BY <1>0, <2>1, <2>4, <3>1, RunCompletes DEF RunStatus
  <2>5. CASE state.ptr = Nobody /\ p # Nobody /\ Over(p)
    <3>1. PICK status : FinalizeByRun(Outcome(p), status) /\ op' = After
      BY <1>1, <2>5 DEF Resolve
    <3> QED BY <1>0, <2>1, <2>5, <3>1, OutcomesAreOver, RunCompletes
  <2>6. CASE state.ptr = Nobody /\ p # Nobody /\ ~Over(p)
    <3>1. Readopt(p) /\ op'.at = "terminating"
      BY <1>1, <2>6 DEF Resolve, Typed, Held
    <3>2. Retakes(p)
      BY <2>1, <2>2, <2>6, <3>1 DEF Retakes, Named
    <3> QED BY <3>2 DEF RowsMove
  <2> QED BY <2>3, <2>4, <2>5, <2>6
<1>2. CASE Hit
  <2>1. /\ op.at = "terminating" /\ op'.at = "finalizing" /\ op'.pid = op.pid
        /\ UNCHANGED <<runs, state, dropped>>
    BY <1>2 DEF Hit, Typed, Held, rows, promise
  <2>2. op.pid \in Procs /\ Named(op.pid)
    BY <2>1 DEF Typed, Kept, Held, Placed, Pointed
  <2>3. Over(op.pid) \/ Backed(op.pid)
    <3>1. Alive(op.pid) /\ (Over(op.pid) \/ Open(op.pid))
      BY <1>2, Zenon DEF Hit, Killed
    <3> QED BY <3>1 DEF Backed, Alive
  <2>4. Still
    BY <2>1, <2>2, <2>3 DEF Still, Launching
  <2> QED BY <2>4 DEF RowsMove
<1>3. CASE Absent
  BY <1>0, <1>3, AsideMoves DEF Absent, rows, promise
<1>4. CASE Finalize
  <2>1. op.at = "finalizing" /\ dropped' = dropped /\ op.pid \in Procs
    BY <1>4 DEF Finalize, Typed, Kept, Held
  <2>2. CASE UNCHANGED rows /\ op' = Free
    BY <2>1, <2>2, AsideMoves DEF rows, Free
  <2>3. ASSUME NEW status, FinalizeByPty(op.pid, "stopped", status), op' = After
        PROVE  RowsMove
    BY <1>0, <2>1, <2>3, PtyCompletes DEF Told, Lone, RunStatus
  <2> QED BY <1>4, <2>2, <2>3 DEF Finalize
<1>5. CASE Relaunch
  <2>1. op.at = "relaunching" /\ dropped' = dropped /\ up # "boot"
    BY <1>5 DEF Relaunch, promise, Counted, Free
  <2>2. CASE op' = Free /\ UNCHANGED rows
    BY <2>1, <2>2, AsideMoves DEF rows, Free
  <2> QED BY <1>5, <2>1, <2>2, LaunchesMove DEF Relaunch
<1> QED BY <1>1, <1>2, <1>3, <1>4, <1>5 DEF Halt

LEMMA StopMoves ==
  ASSUME IInv, NEW cause, NEW again, Stop(cause, again)
  PROVE  RowsMove
<1>1. /\ UNCHANGED <<runs, dropped>> /\ op.at = "free"
  BY DEF Stop, MayBegin, Free
<1>2. op'.at \in {"free", "stopping", "relaunching"}
  <2>1. CASE state.status = "running"
    BY <2>1 DEF Stop
  <2>2. CASE state.status # "running"
    <3>1. op' \in {Free, [Free EXCEPT !.at = "relaunching"]}
      BY <2>2 DEF Stop
    <3> QED BY <3>1, LaidDown
  <2> QED BY <2>1, <2>2
<1>3. state' = state \/ (state.status = "suspended" /\ state' = [status |-> "stopped", ptr |-> Nobody])
  BY DEF Stop, Rests
<1>4. Still
  BY <1>1, <1>2, <1>3 DEF Still, Launching
<1> QED BY <1>4 DEF RowsMove

LEMMA AdoptsMoves ==
  ASSUME IInv, Adopts, \E p \in count.unresolved : count.failed = {p},
         dropped \subseteq dropped',
         dropped' \subseteq dropped \union {r \in Procs : Named(r) /\ ~Named(r)'},
         op'.at = "free", count' = Uncounted, up' # "boot"
  PROVE  RowsMove
<1>1. PICK p \in count.unresolved : count.failed = {p}
  OBVIOUS
<1>2. Readopt(p) /\ p \in Procs
  BY <1>1 DEF Adopts, IInv, TypeOK, Typed, Count
<1>3. Named(p)'
  BY <1>2, Readopted DEF IInv, TypeOK
<1>4. Adopted(p)
  BY <1>1, <1>2, <1>3 DEF Adopted
<1> QED BY <1>4 DEF RowsMove

LEMMA BootMoves ==
  ASSUME IInv, Told, Boot
  PROVE  RowsMove
<1> USE DEF IInv, TypeOK
<1>1. CASE BootConcludes
  <2>1. /\ up = "boot" /\ count.todo = {} /\ up' = "counted" /\ count' = Uncounted
        /\ op.at = "free" /\ op' = op /\ dropped' = dropped
    BY <1>1 DEF BootConcludes, Counted, Free
  <2>2. CASE UNCHANGED rows
    BY <2>1, <2>2, AsideMoves DEF rows
  <2>3. CASE Adopts
    <3>1. CASE \E p \in count.unresolved : count.failed = {p}
      BY <2>1, <2>3, <3>1, AdoptsMoves
    <3>2. CASE UNCHANGED rows
      BY <2>2, <3>2
    <3> QED BY <2>3, <3>1, <3>2 DEF Adopts
  <2>4. CASE count.failed = {} /\ count.claims /\ Repairs
    <3> DEFINE run == runs[Newest]
               outcome == IF run.pty # Nobody /\ Over(run.pty) THEN Outcome(run.pty) ELSE "interrupted"
    <3>1. runs # <<>>
      BY <2>1, <2>4 DEF Counted, Kept
    <3>2. CASE run.status = "running"
      <4>1. outcome \in RunStatus \ {"running"}
        BY OutcomesAreOver DEF RunStatus
      <4>2. FinalizeByRun(outcome, StateOf(outcome))
        BY <2>4, <3>2 DEF Repairs
      <4>3. Len(runs) = 1 \/ run.pty = Nobody \/ Over(run.pty)
        <5>1. Newest \in 1..Len(runs) /\ Newest = Len(runs)
          BY <3>1, NewestIn DEF Newest
        <5>2. Len(runs) = 1 \/ Newest \in 2..Len(runs)
          BY <5>1
        <5> QED BY <2>1, <2>4, <5>2 DEF Told, Back
      <4> HIDE DEF outcome
      <4> QED BY <2>1, <3>1, <4>1, <4>2, <4>3, RunCompletes
    <3>3. CASE run.status # "running"
      <4>1. state'.ptr = Nobody /\ UNCHANGED runs
        BY <2>4, <3>3 DEF Repairs, Rests
      <4>2. Still
        BY <2>1, <3>3, <4>1 DEF Still, Launching
      <4> QED BY <4>2 DEF RowsMove
    <3> QED BY <3>2, <3>3
  <2> QED BY <1>1, <2>2, <2>3, <2>4 DEF BootConcludes
<1>2. CASE Subscribe
  <2>1. op.at = "free" /\ UNCHANGED <<state, op, dropped>>
    BY <1>2 DEF Subscribe, Counted, Free, promise
  <2>2. runs \in Seq(Run_) /\ DOMAIN runs = 1..Len(runs) /\ Len(runs) \in Nat
    BY DEF Typed, Run_
  <2>3. runs' = [i \in 1..Len(runs) |->
                   IF runs[i] = [status |-> "running", pty |-> Nobody] /\ state.status # "running"
                   THEN [runs[i] EXCEPT !.status = "failed"] ELSE runs[i]]
    BY <1>2, <2>2, Zenon DEF Subscribe
  <2>4. \A i \in 1..Len(runs) :
          /\ runs'[i] \in Run_
          /\ runs'[i] = runs[i] \/ (runs[i].pty = Nobody /\ runs'[i].pty = Nobody /\ state.status # "running")
    <3> SUFFICES ASSUME NEW i \in 1..Len(runs)
        PROVE  /\ runs'[i] \in Run_
               /\ runs'[i] = runs[i] \/ (runs[i].pty = Nobody /\ runs'[i].pty = Nobody /\ state.status # "running")
      OBVIOUS
    <3>1. runs[i] \in Run_
      BY <2>2
    <3>2. CASE runs'[i] = runs[i]
      BY <3>1, <3>2
    <3>3. CASE /\ runs[i] = [status |-> "running", pty |-> Nobody] /\ state.status # "running"
               /\ runs'[i] = [runs[i] EXCEPT !.status = "failed"]
      BY <3>3 DEF Run_, RunStatus
    <3> QED BY <2>3, <3>2, <3>3
  <2>5. runs' \in Seq(Run_) /\ Len(runs') = Len(runs)
    BY <2>2, <2>3, <2>4
  <2>6. Sweeps
    BY <2>1, <2>4, <2>5 DEF Sweeps
  <2> QED BY <2>6 DEF RowsMove
<1>3. ASSUME NEW p \in Procs, BootCleans(p) PROVE RowsMove
  BY <1>3, AsideMoves DEF BootCleans, rows, promise
<1> QED BY <1>1, <1>2, <1>3 DEF Boot

LEMMA AuditMoves ==
  ASSUME IInv, Told, Audit
  PROVE  RowsMove
<1> USE DEF IInv, TypeOK
<1>1. CASE AuditReads
  BY <1>1, AsideMoves DEF AuditReads, rows, promise
<1>2. CASE AuditLocks
  <2>1. op'.at = "auditing" /\ UNCHANGED <<runs, state, dropped>>
    BY <1>2 DEF AuditLocks, Free, rows, promise
  <2> QED BY <2>1, AsideMoves
<1>3. ASSUME NEW p \in Procs, AuditCleans(p) PROVE RowsMove
  BY <1>3, AsideMoves DEF AuditCleans, rows, promise
<1>4. CASE AuditConcludes
  <2>1. /\ op' = (IF op.at = "auditing" THEN Free ELSE op)
        /\ Adopts /\ count' = Uncounted
        /\ dropped' = dropped \union {p \in Procs : Named(p) /\ ~Named(p)'}
        /\ up' = up
    BY <1>4 DEF AuditConcludes
  <2>2. audit = "read" /\ up # "boot"
    BY <1>4 DEF AuditConcludes, Counted
  <2>3. CASE \E p \in count.unresolved : count.failed = {p}
    <3>1. op.at = "auditing"
      BY <2>2, <2>3 DEF Counted
    <3>2. op'.at = "free"
      BY <2>1, <3>1 DEF Free
    <3> QED BY <2>1, <2>2, <2>3, <3>2, AdoptsMoves
  <2>4. CASE ~\E p \in count.unresolved : count.failed = {p}
    <3>1. UNCHANGED <<runs, state>>
      BY <2>1, <2>4 DEF Adopts, rows
    <3>2. dropped' = dropped
      BY <2>1, <3>1 DEF Named, Newest
    <3>3. op' = op \/ op'.at = "free"
      BY <2>1 DEF Free
    <3> QED BY <3>1, <3>2, <3>3, AsideMoves
  <2> QED BY <2>3, <2>4
<1> QED BY <1>1, <1>2, <1>3, <1>4 DEF Audit

LEMMA StepMoves ==
  ASSUME IInv, Told, [Next]_vars
  PROVE  RowsMove
<1> USE DEF IInv, TypeOK
<1>1. CASE Run \/ Execute
  <2>1. op.at = "free" /\ dropped' = dropped /\ up # "boot"
    BY <1>1 DEF Run, Execute, MayBegin, Free, promise
  <2>2. CASE UNCHANGED <<rows, op>>
    BY <2>1, <2>2, AsideMoves DEF rows
  <2> QED BY <1>1, <2>1, <2>2, LaunchesMove DEF Run, Execute
<1>2. CASE MakePlan \/ Close \/ UNCHANGED vars
  BY <1>2, AsideMoves DEF MakePlan, Close, vars, rows, promise
<1>3. CASE (\E cause \in {"user", "deactivation"} : Stop(cause, FALSE)) \/ Stop("user", TRUE)
  BY <1>3, StopMoves
<1>4. ASSUME NEW p \in Procs, Moves(p) \/ ShutdownKills(p) PROVE RowsMove
  BY <1>4, AsideMoves DEF Moves, ShutdownKills, rows, promise
<1>5. ASSUME NEW p \in Procs, Handle(p) PROVE RowsMove
  <2>1. op'.at = "free" /\ dropped' = dropped /\ Over(p)
    BY <1>5 DEF Handle, Free, Heard, promise
  <2>2. CASE UNCHANGED rows
    BY <2>1, <2>2, AsideMoves DEF rows
  <2>3. CASE FinalizeByPty(p, Outcome(p), StateOf(Outcome(p)))
    BY <2>1, <2>3, OutcomesAreOver, PtyCompletes
  <2> QED BY <1>5, <2>2, <2>3 DEF Handle
<1>6. CASE Restart
  <2>1. op'.at = "free" /\ UNCHANGED <<runs, state, dropped>>
    BY <1>6 DEF Restart, Free, rows, promise
  <2> QED BY <2>1, AsideMoves
<1> QED BY <1>1, <1>2, <1>3, <1>4, <1>5, <1>6, LaunchMoves, HaltMoves, CancelMoves, BootMoves, AuditMoves
    DEF Next

-----------------------------------------------------------------------------
(* The runs keep their processes. *)

LEMMA SameLinked ==
  ASSUME Typed, SameLinks
  PROVE  /\ \A p : Linked(p)' <=> Linked(p)
         /\ Unique' <=> Unique
         /\ \A p : Linked(p) => Last(runs', p) = Last(runs, p)
<1>1. runs \in Seq(Run_) /\ runs' \in Seq(Run_) /\ Len(runs') = Len(runs)
      /\ DOMAIN runs = 1..Len(runs) /\ DOMAIN runs' = 1..Len(runs)
      /\ \A i \in 1..Len(runs) : runs'[i].pty = runs[i].pty
  BY DEF Typed, Run_, SameLinks
<1>2. \A p : Linked(p)' <=> Linked(p)
  BY <1>1 DEF Linked
<1>3. Unique' <=> Unique
  BY <1>1 DEF Unique
<1>4. ASSUME NEW p, Linked(p) PROVE Last(runs', p) = Last(runs, p)
  <2>1. PICK k \in 1..Len(runs) : runs[k].pty = p
    BY <1>1, <1>4 DEF Linked
  <2>2. /\ Last(runs, p) \in 1..Len(runs) /\ runs[Last(runs, p)].pty = p
        /\ \A j \in 1..Len(runs) : runs[j].pty = p => j <= Last(runs, p)
    BY <1>1, <2>1, LastIs
  <2> QED BY <1>1, <2>2, LastAt
<1> QED BY <1>2, <1>3, <1>4

\* Who could not be verified stays so while nobody touches the rows.
LEMMA UnresolvedKept ==
  ASSUME IInv, IInv', Told, Recounts
  PROVE  \A p \in count'.unresolved :
           /\ op'.at = "auditing" \/ up' = "boot"
           /\ \A i \in 2..Len(runs') : runs'[i].pty = p => runs'[i].status = "running"
<1> SUFFICES ASSUME NEW p \in count'.unresolved
    PROVE  /\ op'.at = "auditing" \/ up' = "boot"
           /\ \A i \in 2..Len(runs') : runs'[i].pty = p => runs'[i].status = "running"
  OBVIOUS
<1>0. p # Nobody
  BY DEF IInv, TypeOK, Typed, Count, Procs, Nobody
<1>1. CASE p \in count.unresolved
  <2>1. /\ op.at = "auditing" \/ up = "boot"
        /\ \A i \in 2..Len(runs) : runs[i].pty = p => runs[i].status = "running"
    BY <1>1 DEF Told, Sought
  <2>2. UNCHANGED runs /\ (op'.at = "auditing" \/ up' = "boot")
    BY <2>1 DEF Recounts, rows
  <2> QED BY <2>1, <2>2
<1>2. CASE p \notin count.unresolved
  <2>1. UNCHANGED runs /\ (op'.at = "auditing" \/ up' = "boot") /\ ~Over(p)
    BY <1>2 DEF Recounts, rows
  <2>2. ASSUME NEW i \in 2..Len(runs), runs[i].pty = p PROVE runs[i].status = "running"
    BY <1>0, <2>1, <2>2 DEF Told, Back
  <2> QED BY <2>1, <2>2
<1> QED BY <1>1, <1>2

LEMMA LinksKept ==
  ASSUME IInv, IInv', Told, Sound, Recounts, SameLinks, dropped' = dropped,
         ~(op.at = "linking" /\ op'.at = "starting"),
         op'.at = "linking" => (op.at = "linking" /\ op'.pid = op.pid)
                               \/ (op'.pid \in Procs /\ procs[op'.pid].row = "none"),
         \A i \in 2..Len(runs) : runs[i].pty # Nobody /\ runs'[i].status # "running"
                                  => runs[i].status # "running" \/ Over(runs[i].pty)
  PROVE  Born' /\ Gone' /\ Back' /\ Sought' /\ \A p \in Procs : Backed(p)' /\ Linked(p)' => Len(runs') = 1
<1> USE DEF Told
<1>1. /\ \A p : Linked(p)' <=> Linked(p)
      /\ Unique' <=> Unique
  BY SameLinked DEF IInv, TypeOK
<1>2. /\ runs \in Seq(Run_) /\ runs' \in Seq(Run_) /\ Len(runs') = Len(runs)
      /\ \A i \in 1..Len(runs) : runs'[i].pty = runs[i].pty
      /\ \A i \in 1..Len(runs) : runs[i].pty \in {Nobody} \union Procs
  <2>1. runs \in Seq(Run_)
    BY DEF IInv, TypeOK, Typed, Run_
  <2>2. \A i \in 1..Len(runs) : runs[i] \in Run_
    BY <2>1
  <2>3. \A i \in 1..Len(runs) : runs[i].pty \in {Nobody} \union Procs
    BY <2>2 DEF Run_
  <2> QED BY <2>1, <2>3 DEF SameLinks
<1>3. /\ \A p \in Procs : Backed(p)' => Backed(p)
      /\ dropped \subseteq Procs
  BY DEF Sound, IInv, TypeOK, Typed
<1>4. Born'
  <2>1. \A p \in Looked' : p \in Looked \/ Linked(p)
    BY DEF Recounts, Looked
  <2> QED BY <1>1, <2>1 DEF Born, Sound
<1>5. \A p \in Procs : Backed(p)' /\ Linked(p)' => Len(runs') = 1
  BY <1>1, <1>2, <1>3 DEF Lone
<1>6. Gone'
  <2>1. ASSUME NEW p \in dropped, Backed(p)' PROVE ~Linked(p)' /\ p \notin Looked'
    <3>1. p \in Procs /\ ~Linked(p) /\ p \notin Looked
      BY <1>3, <2>1 DEF Gone
    <3>2. Looked' = Looked \/ (\A r \in Looked' : Linked(r)) \/ Looked' \subseteq Looked
      BY DEF Recounts, Looked
    <3> QED BY <1>1, <3>1, <3>2
  <2>2. op'.at = "linking" => op'.pid \notin dropped
    BY DEF Gone, Born
  <2> QED BY <2>1, <2>2 DEF Gone
<1>7. Back'
  <2> SUFFICES ASSUME NEW i \in 2..Len(runs), NEW p \in Procs, runs[i].pty = p
      PROVE  /\ runs'[i].status # "running" => Over(p)'
             /\ up' = "boot" => Over(p)' \/ p \in count'.todo \union count'.failed
             /\ \A j \in 2..(i - 1) : runs[j].pty # p
    BY <1>2 DEF Back, Over
  <2>1. /\ Linked(p) /\ p # Nobody
        /\ runs[i].status # "running" => Over(p)
        /\ up = "boot" => Over(p) \/ p \in count.todo \union count.failed
        /\ \A j \in 2..(i - 1) : runs[j].pty # p
    BY <1>2 DEF Back, Linked, Procs, Nobody
  <2>2. Over(p) => Over(p)'
    BY DEF Sound
  <2>3. procs[p].row # "none" /\ ~Backed(p)
    BY <1>2, <2>1 DEF Born, Lone
  <2>4. up' = "boot" => Over(p)' \/ p \in count'.todo \union count'.failed
    BY <2>1, <2>2, <2>3 DEF Recounts
  <2> QED BY <2>1, <2>2, <2>4
<1>8. Sought'
  <2>1. \A p \in Looked' : Linked(p)' \/ Unique'
    <3>1. Looked' = Looked \/ (\A r \in Looked' : Linked(r)) \/ Looked' \subseteq Looked
      BY DEF Recounts, Looked
    <3> QED BY <1>1, <3>1 DEF Sought
  <2> QED BY <2>1, UnresolvedKept DEF Sought
<1> QED BY <1>4, <1>5, <1>6, <1>7, <1>8

\* The run rows, and what is in them.
LEMMA RowsAre ==
  ASSUME IInv
  PROVE  /\ runs \in Seq(Run_) /\ Len(runs) \in Nat /\ DOMAIN runs = 1..Len(runs) /\ Newest = Len(runs)
         /\ runs # <<>> <=> Len(runs) \in 1..Len(runs)
         /\ \A i \in 1..Len(runs) : runs[i] \in Run_ /\ runs[i].pty \in {Nobody} \union Procs
<1>1. runs \in Seq(Run_)
  BY DEF IInv, TypeOK, Typed, Run_
<1>2. \A i \in 1..Len(runs) : runs[i] \in Run_
  BY <1>1
<1>3. \A i \in 1..Len(runs) : runs[i].pty \in {Nobody} \union Procs
  BY <1>2 DEF Run_
<1> QED BY <1>1, <1>2, <1>3 DEF Newest

\* What is recorded of a process is kept, if every row keeps what it says of those that are over.
LEMMA RowsKeep ==
  ASSUME IInv, SameLinks,
         \A i \in 1..Len(runs) :
           runs[i].pty # Nobody /\ Over(runs[i].pty) /\ runs[i].status # "running"
           => runs'[i].status = runs[i].status
  PROVE  OutcomeKept
<1> SUFFICES ASSUME NEW p \in Procs, Over(p), Linked(p), Linked(p)'
    PROVE  runs[NewestOf(p)].status # "running"
           => \/ runs'[NewestOf(p)'].status = runs[NewestOf(p)].status
              \/ state'.ptr = p /\ count.failed = {p}
  BY DEF OutcomeKept
<1>1. runs \in Seq(Run_) /\ runs' \in Seq(Run_) /\ Typed /\ p # Nobody
  BY RowsAre DEF SameLinks, IInv, TypeOK, Procs, Nobody
<1>2. Last(runs', p) = Last(runs, p)
  BY <1>1, SameLinked
<1>3. PICK k \in 1..Len(runs) : runs[k].pty = p
  BY <1>1, LinkedIn
<1>4. Last(runs, p) \in 1..Len(runs) /\ runs[Last(runs, p)].pty = p
  BY <1>1, <1>3, LastIs
<1>5. runs[Last(runs, p)].status # "running" => runs'[Last(runs', p)].status = runs[Last(runs, p)].status
  BY <1>1, <1>2, <1>4
<1> QED BY <1>1, <1>5, KeptAt

LEMMA StillTold ==
  ASSUME IInv, IInv', Told, Sound, Recounts, Still
  PROVE  Told' /\ OutcomeKept
<1>1. SameLinks /\ runs' = runs
  BY Unlinked DEF Still, IInv, TypeOK
<1>2. /\ runs \in Seq(Run_) /\ Newest = Len(runs) /\ Newest' = Len(runs)
  BY <1>1, RowsAre DEF Newest
<1>3. Born' /\ Gone' /\ Back' /\ Sought' /\ \A p \in Procs : Backed(p)' /\ Linked(p)' => Len(runs') = 1
  <2>1. /\ dropped' = dropped
        /\ ~(op.at = "linking" /\ op'.at = "starting")
        /\ op'.at = "linking" => (op.at = "linking" /\ op'.pid = op.pid)
                               \/ (op'.pid \in Procs /\ procs[op'.pid].row = "none")
    BY DEF Still
  <2>2. \A i \in 2..Len(runs) : runs[i].pty # Nobody /\ runs'[i].status # "running"
                                  => runs[i].status # "running" \/ Over(runs[i].pty)
    BY <1>1
  <2> QED BY <1>1, <2>1, <2>2, LinksKept
<1>4. Stands'
  <2>1. op'.at \in Launching => op.at \in Launching /\ (op'.at # "pruning" => op.at # "pruning")
    BY DEF Still
  <2>2. state'.ptr # Nobody => state' = state \/ op.at \in Launching
    BY DEF Still
  <2>3. state'.status # "running" => state.status # "running" \/ runs[Newest].status # "running"
    BY DEF Still
  <2> QED BY <1>1, <1>2, <2>1, <2>2, <2>3 DEF Told, Stands
<1>5. op'.at = "finalizing" => Over(op.pid)' \/ Len(runs') = 1
  <2>0. PICK r : r = op.pid
    OBVIOUS
  <2> SUFFICES ASSUME op'.at = "finalizing" PROVE procs'[r].row \in Pty!Fates \/ Len(runs) = 1
    BY <1>1, <2>0 DEF Still, Over
  <2>1. r \in Procs
    BY <2>0 DEF Still, IInv, TypeOK, Typed, Kept, Held
  <2>2. op.at = "finalizing" \/ Over(r) \/ (Named(r) /\ Backed(r))
    BY <2>0 DEF Still
  <2>3. Over(r) => procs'[r].row \in Pty!Fates
    BY <2>1 DEF Sound, Over
  <2>4. Named(r) => Linked(r)
    BY <2>1, NamedLinked DEF IInv, TypeOK
  <2> QED BY <2>0, <2>1, <2>2, <2>3, <2>4 DEF Told, Lone
<1>6. OutcomeKept
  <2>1. \A i \in 1..Len(runs) : runs'[i].status = runs[i].status
    BY <1>1
  <2> QED BY <1>1, <2>1, RowsKeep
<1> QED BY <1>3, <1>4, <1>5, <1>6 DEF Told, Lone

LEMMA CompletedRows ==
  ASSUME IInv, NEW i \in 1..Len(runs), NEW outcome \in RunStatus \ {"running"},
         runs' = Completed(i, outcome)
  PROVE  /\ SameLinks /\ Newest' = Newest
         /\ runs'[i].status # "running"
         /\ \A j \in 1..Len(runs) : j # i \/ runs[j].status # "running" => runs'[j] = runs[j]
<1>1. SameLinks
  BY CompletedLinks DEF IInv, TypeOK
<1>2. /\ runs \in Seq(Run_) /\ DOMAIN runs = 1..Len(runs)
      /\ \A j \in 1..Len(runs) : runs[j] \in Run_
  BY RowsAre
<1>3. CASE runs[i].status # "running"
  BY <1>1, <1>3 DEF Completed, Newest
<1>4. CASE runs[i].status = "running"
  <2>1. runs' = [runs EXCEPT ![i].status = outcome]
    BY <1>4 DEF Completed
  <2>2. runs' = [j \in 1..Len(runs) |-> IF j = i THEN [runs[j] EXCEPT !.status = outcome] ELSE runs[j]]
    BY <1>2, <2>1, Zenon
  <2>3. runs'[i] = [runs[i] EXCEPT !.status = outcome] /\ \A j \in 1..Len(runs) : j # i => runs'[j] = runs[j]
    BY <2>2
  <2>4. [runs[i] EXCEPT !.status = outcome].status = outcome
    BY <1>2 DEF Run_
  <2> QED BY <1>1, <1>4, <2>3, <2>4 DEF SameLinks, Newest
<1> QED BY <1>3, <1>4

LEMMA CompletesTold ==
  ASSUME IInv, IInv', Told, Sound, Recounts, NEW i, NEW outcome, Completes(i, outcome)
  PROVE  Told' /\ OutcomeKept
<1>1. i \in 1..Len(runs) /\ outcome \in RunStatus \ {"running"} /\ runs' = Completed(i, outcome)
  BY DEF Completes
<1>2. /\ SameLinks /\ Newest' = Newest /\ runs'[i].status # "running"
      /\ \A j \in 1..Len(runs) : j # i \/ runs[j].status # "running" => runs'[j] = runs[j]
  BY <1>1, CompletedRows
<1>3. /\ Newest = Len(runs) /\ Len(runs) \in Nat /\ Len(runs') = Len(runs)
      /\ \A j \in 1..Len(runs) : runs'[j].pty = runs[j].pty
  BY <1>2, RowsAre DEF SameLinks
<1>4. op'.at \notin Launching /\ op'.at # "finalizing"
  BY DEF Completes, Launching
<1>5. Born' /\ Gone' /\ Back' /\ Sought' /\ \A p \in Procs : Backed(p)' /\ Linked(p)' => Len(runs') = 1
  <2>1. dropped' = dropped /\ op'.at \notin {"linking", "starting"}
    BY <1>4 DEF Completes, Launching
  <2>2. ASSUME NEW j \in 2..Len(runs), runs[j].pty # Nobody, runs'[j].status # "running"
        PROVE  runs[j].status # "running" \/ Over(runs[j].pty)
    BY <1>2, <2>2 DEF Completes
  <2> QED BY <1>2, <2>1, <2>2, LinksKept
<1>6. Stands'
  <2>1. state'.ptr # Nobody => runs'[Newest'].status = "running"
    <3> SUFFICES ASSUME state'.ptr # Nobody PROVE runs'[Newest].status = "running"
      BY <1>2
    <3>1. state' = state /\ i # Newest
      BY DEF Completes
    <3> QED BY <1>1, <1>2, <1>3, <3>1 DEF Told, Stands
  <2>2. state'.status # "running" /\ runs' # <<>> =>
          runs'[Newest'].pty = Nobody \/ runs'[Newest'].status # "running"
    <3> SUFFICES ASSUME state'.status # "running", i # Newest
                 PROVE  runs'[Newest].pty = Nobody \/ runs'[Newest].status # "running"
      BY <1>2
    <3>1. state' = state /\ Newest \in 1..Len(runs) /\ runs # <<>>
      BY <1>1, <1>3 DEF Completes
    <3> QED BY <1>2, <1>3, <3>1 DEF Told, Stands
  <2>3. ASSUME NEW j \in 1..(Len(runs') - 1) PROVE runs'[j].pty = Nobody \/ runs'[j].status # "running"
    <3>1. j \in 1..(Len(runs) - 1) /\ j \in 1..Len(runs)
      BY <1>3
    <3>2. runs[j].pty = Nobody \/ runs[j].status # "running"
      BY <3>1 DEF Told, Stands
    <3> QED BY <1>2, <1>3, <3>1, <3>2
  <2> QED BY <1>4, <2>1, <2>2, <2>3 DEF Stands
<1>7. OutcomeKept
  BY <1>2, RowsKeep
<1> QED BY <1>4, <1>5, <1>6, <1>7 DEF Told, Lone

LEMMA SweepsTold ==
  ASSUME IInv, IInv', Told, Sound, Recounts, Sweeps
  PROVE  Told' /\ OutcomeKept
<1>1. SameLinks /\ Newest' = Newest
  BY DEF Sweeps, SameLinks, Newest
<1>2. /\ Newest = Len(runs) /\ Len(runs) \in Nat /\ Len(runs') = Len(runs)
      /\ \A i \in 1..Len(runs) : runs'[i].pty = runs[i].pty
      /\ runs # <<>> <=> Len(runs) \in 1..Len(runs)
      /\ runs' # <<>> => runs # <<>>
  BY <1>1, RowsAre DEF SameLinks
<1>3. \A i \in 1..Len(runs) : runs'[i] = runs[i] \/ runs[i].pty = Nobody
  BY DEF Sweeps
<1>4. op' = op /\ state' = state /\ dropped' = dropped /\ op.at \notin Launching /\ op.at # "finalizing"
  BY DEF Sweeps, Launching
<1>5. Born' /\ Gone' /\ Back' /\ Sought' /\ \A p \in Procs : Backed(p)' /\ Linked(p)' => Len(runs') = 1
  <2>1. op'.at \notin {"linking", "starting"}
    BY <1>4 DEF Launching
  <2>2. ASSUME NEW i \in 2..Len(runs), runs[i].pty # Nobody, runs'[i].status # "running"
        PROVE  runs[i].status # "running" \/ Over(runs[i].pty)
    BY <1>3, <2>2
  <2> QED BY <1>1, <1>4, <2>1, <2>2, LinksKept
<1>6. Stands'
  <2>1. state'.ptr # Nobody => runs'[Newest'].status = "running"
    <3> SUFFICES ASSUME state.ptr # Nobody PROVE runs'[Newest].status = "running"
      BY <1>1, <1>4
    <3>1. state.status = "running" /\ runs # <<>>
      BY DEF IInv, TypeOK, Kept
    <3>2. runs'[Newest] = runs[Newest]
      BY <1>2, <3>1 DEF Sweeps
    <3> QED BY <3>2 DEF Told, Stands
  <2>2. state'.status # "running" /\ runs' # <<>> =>
          runs'[Newest'].pty = Nobody \/ runs'[Newest'].status # "running"
    BY <1>1, <1>2, <1>3, <1>4 DEF Told, Stands
  <2>3. ASSUME NEW j \in 1..(Len(runs') - 1) PROVE runs'[j].pty = Nobody \/ runs'[j].status # "running"
    <3>1. j \in 1..(Len(runs) - 1) /\ j \in 1..Len(runs)
      BY <1>2
    <3>2. runs[j].pty = Nobody \/ runs[j].status # "running"
      BY <3>1 DEF Told, Stands
    <3> QED BY <1>2, <1>3, <3>1, <3>2
  <2> QED BY <1>4, <2>1, <2>2, <2>3 DEF Stands
<1>7. OutcomeKept
  BY <1>1, <1>3, RowsKeep
<1> QED BY <1>4, <1>5, <1>6, <1>7 DEF Told, Lone

LEMMA RetakesTold ==
  ASSUME IInv, IInv', Told, Sound, Recounts, NEW p, Retakes(p)
  PROVE  Told' /\ OutcomeKept
<1>1. /\ runs # <<>> /\ Newest = Len(runs) /\ Len(runs) \in 1..Len(runs) /\ Len(runs) \in Nat
      /\ runs \in Seq(Run_) /\ runs[Newest].pty = p /\ p \in Procs
      /\ \A i \in 1..Len(runs) : runs[i] \in Run_
  BY RowsAre DEF Retakes, Named
<1>2. [status |-> "running", pty |-> p] \in Run_
  BY <1>1 DEF Run_, RunStatus
<1>3. runs' = [runs EXCEPT ![Len(runs)] = [status |-> "running", pty |-> p]]
  BY <1>1 DEF Retakes, Readopt
<1>4. /\ runs' \in Seq(Run_) /\ Len(runs') = Len(runs)
      /\ runs'[Len(runs)] = [status |-> "running", pty |-> p]
      /\ \A i \in 1..Len(runs) : i # Len(runs) => runs'[i] = runs[i]
  BY <1>1, <1>2, <1>3
<1>5. SameLinks /\ Newest' = Len(runs) /\ runs' # <<>>
  BY <1>1, <1>4 DEF SameLinks, Newest
<1>6. state'.status = "running" /\ dropped' = dropped /\ op'.at \in {"free", "terminating"}
  BY DEF Retakes, Readopt
<1>7. Born' /\ Gone' /\ Back' /\ Sought' /\ \A q \in Procs : Backed(q)' /\ Linked(q)' => Len(runs') = 1
  <2>1. op'.at \notin {"linking", "starting"}
    BY <1>6
  <2>2. ASSUME NEW i \in 2..Len(runs), runs[i].pty # Nobody, runs'[i].status # "running"
        PROVE  runs[i].status # "running" \/ Over(runs[i].pty)
    BY <1>1, <1>4, <2>2
  <2> QED BY <1>5, <1>6, <2>1, <2>2, LinksKept
<1>8. Stands'
  <2>1. ASSUME NEW j \in 1..(Len(runs') - 1) PROVE runs'[j].pty = Nobody \/ runs'[j].status # "running"
    <3>1. j \in 1..(Len(runs) - 1) /\ j \in 1..Len(runs) /\ j # Len(runs)
      BY <1>1, <1>4
    <3>2. runs[j].pty = Nobody \/ runs[j].status # "running"
      BY <3>1 DEF Told, Stands
    <3> QED BY <1>4, <3>1, <3>2
  <2> QED BY <1>4, <1>5, <1>6, <2>1 DEF Stands, Launching
<1>9. OutcomeKept
  <2>1. Over(p) => runs[Newest].status = "running"
    BY <1>1 DEF Retakes, Told, Stands, Procs, Nobody
  <2>2. ASSUME NEW i \in 1..Len(runs), Over(runs[i].pty), runs[i].status # "running"
        PROVE  runs'[i].status = runs[i].status
    BY <1>1, <1>4, <2>1, <2>2
  <2> QED BY <1>5, <2>2, RowsKeep
<1> QED BY <1>6, <1>7, <1>8, <1>9 DEF Told, Lone

\* While no row is added, and none linked, nobody is born or gone anew.
LEMMA FewerLinked ==
  ASSUME IInv, Told, Sound, Recounts, dropped' = dropped, op'.at \notin {"linking", "starting"},
         \A p \in Procs : Linked(p)' => Linked(p)
  PROVE  /\ Born' /\ Gone'
         /\ \A p \in Looked' : Linked(p) \/ Unique
         /\ \A p \in Procs : Backed(p)' /\ Linked(p)' => p \notin dropped /\ Len(runs) = 1
<1>1. \A p \in Looked' : p \in Looked \/ Linked(p)
  BY DEF Recounts, Looked
<1>2. dropped \subseteq Procs
  BY DEF IInv, TypeOK, Typed
<1>3. \A p \in Procs : Backed(p)' => Backed(p)
  BY DEF Sound
<1>4. Born'
  BY <1>1 DEF Told, Born, Sound
<1>5. Gone'
  BY <1>1, <1>2, <1>3 DEF Told, Gone
<1>6. \A p \in Looked' : Linked(p) \/ Unique
  BY <1>1 DEF Told, Sought
<1>7. \A p \in Procs : Backed(p)' /\ Linked(p)' => p \notin dropped /\ Len(runs) = 1
  BY <1>3 DEF Told, Gone, Lone
<1> QED BY <1>4, <1>5, <1>6, <1>7

LEMMA SinglesTold ==
  ASSUME IInv, IInv', Told, Sound, Recounts, NEW r, Singles(r)
  PROVE  Told' /\ OutcomeKept
<1>1. /\ runs' = <<r>> /\ runs' \in Seq(Run_) /\ Len(runs') = 1 /\ Newest' = 1 /\ runs'[1] = r
      /\ dropped' = dropped /\ op'.at \in {"marking", "free"}
  BY DEF Singles, Newest
<1>2. CASE runs # <<>> /\ r = runs[Newest] /\ op.at = "pruning" /\ state' = state
  <2>1. runs \in Seq(Run_) /\ Newest = Len(runs) /\ Len(runs) \in 1..Len(runs) /\ Len(runs) \in Nat
    BY <1>2, RowsAre
  <2>2. \A p : Linked(p)' => Named(p)
    BY <1>1, <1>2 DEF Linked, Named
  <2>3. \A p \in Procs : Linked(p)' => Linked(p)
    BY <2>2, NamedLinked DEF IInv, TypeOK
  <2>4. Stands'
    BY <1>1, <1>2 DEF Told, Stands, Launching
  <2>5. ASSUME NEW p \in Procs, Linked(p), Linked(p)'
        PROVE  Last(runs, p) = Newest /\ Last(runs', p) = 1
    <3>1. runs[Newest].pty = p
      BY <2>2, <2>5 DEF Named
    <3>2. Last(runs, p) = Newest
      BY <2>1, <3>1, LastAt
    <3>3. Last(runs', p) = 1
      <4>1. 1 \in 1..Len(runs') /\ runs'[1].pty = p /\ \A j \in 1..Len(runs') : j <= 1
        BY <1>1, <1>2, <3>1
      <4> HIDE <1>1
      <4>2. runs' \in Seq(Run_)
        BY <1>1
      <4> QED BY <4>1, <4>2, LastAt
    <3> QED BY <3>2, <3>3
  <2>6. OutcomeKept
    <3>1. ASSUME NEW p \in Procs, Linked(p), Linked(p)'
          PROVE  Over(p) /\ Linked(p) /\ Linked(p)' /\ runs[NewestOf(p)].status # "running"
                 => \/ runs'[NewestOf(p)'].status = runs[NewestOf(p)].status
                    \/ state'.ptr = p /\ count.failed = {p}
      BY <1>1, <1>2, <2>5, <3>1, KeptAt DEF IInv, TypeOK
    <3> QED BY <3>1 DEF OutcomeKept
  <2> QED BY <1>1, <2>3, <2>4, <2>6, FewerLinked, UnresolvedKept DEF Told, Lone, Back, Sought, Unique
<1>3. CASE r.pty = Nobody /\ state'.ptr = Nobody /\ op'.at = "free"
  <2>1. \A p \in Procs : ~Linked(p)'
    BY <1>1, <1>3 DEF Linked, Procs, Nobody
  <2>2. Stands'
    BY <1>1, <1>3 DEF Stands, Launching
  <2>3. OutcomeKept
    BY <2>1 DEF OutcomeKept
  <2> QED BY <1>1, <2>1, <2>2, <2>3, FewerLinked, UnresolvedKept DEF Told, Lone, Back, Sought, Unique
<1> QED BY <1>2, <1>3 DEF Singles

LEMMA AddsTold ==
  ASSUME IInv, IInv', Told, Sound, Recounts, Adds
  PROVE  Told' /\ OutcomeKept
<1>1. /\ runs \in Seq(Run_) /\ Newest = Len(runs) /\ Len(runs) \in Nat
      /\ DOMAIN runs = 1..Len(runs) /\ [status |-> "running", pty |-> Nobody] \in Run_
      /\ runs # <<>> <=> Len(runs) \in 1..Len(runs)
  BY RowsAre DEF Run_, RunStatus
<1>2. /\ runs' \in Seq(Run_) /\ Len(runs') = Len(runs) + 1 /\ Newest' = Len(runs) + 1
      /\ DOMAIN runs' = 1..(Len(runs) + 1)
      /\ runs'[Len(runs) + 1] = [status |-> "running", pty |-> Nobody]
      /\ \A i \in 1..Len(runs) : runs'[i] = runs[i]
  BY <1>1 DEF Adds, Newest
<1>3. /\ dropped' = dropped /\ state' = state /\ state.status # "running" /\ op'.at = "pruning"
  BY DEF Adds
<1>4. \A p \in Procs : Linked(p)' <=> Linked(p)
  BY <1>1, <1>2 DEF Linked, Procs, Nobody
<1>5. /\ Born' /\ Gone'
      /\ \A p \in Looked' : Linked(p) \/ Unique
      /\ \A p \in Procs : Backed(p)' /\ Linked(p)' => p \notin dropped /\ Len(runs) = 1
  BY <1>3, <1>4, FewerLinked
<1>6. \A p \in Procs : Linked(p) => ~Backed(p)
  BY <1>3 DEF IInv, Known, Mine, Told, Gone
<1>7. Stands'
  <2>1. state'.ptr = Nobody
    BY <1>3 DEF IInv, TypeOK, Kept
  <2>2. ASSUME NEW i \in 1..Len(runs) PROVE runs'[i].pty = Nobody \/ runs'[i].status # "running"
    <3>1. CASE i = Len(runs)
      BY <1>1, <1>2, <1>3, <3>1 DEF Told, Stands
    <3>2. CASE i # Len(runs)
      <4>1. i \in 1..(Len(runs) - 1)
        BY <1>1, <3>2
      <4> QED BY <1>2, <4>1 DEF Told, Stands
    <3> QED BY <3>1, <3>2
  <2>3. Len(runs') - 1 = Len(runs)
    BY <1>1, <1>2
  <2> QED BY <1>2, <1>3, <2>1, <2>2, <2>3 DEF Stands
<1>8. Lone'
  <2>1. \A p \in Procs : Backed(p)' => Backed(p)
    BY <1>3 DEF Sound
  <2> QED BY <1>3, <1>4, <1>6, <2>1 DEF Lone
<1>9. Back'
  <2> SUFFICES ASSUME NEW i \in 2..Len(runs'), NEW p \in Procs, runs'[i].pty = p
      PROVE  /\ runs'[i].status # "running" => Over(p)'
             /\ up' = "boot" => Over(p)' \/ p \in count'.todo \union count'.failed
             /\ \A j \in 2..(i - 1) : runs'[j].pty # p
    <3>1. \A i \in 1..Len(runs') : runs'[i] \in Run_
      BY <1>2
    <3>2. \A i \in 2..Len(runs') : runs'[i].pty \in {Nobody} \union Procs
      BY <1>2, <3>1 DEF Run_
    <3> QED BY <3>2 DEF Back, Over
  <2>0. i \in 2..Len(runs) /\ runs[i] = runs'[i] /\ p # Nobody
    BY <1>1, <1>2 DEF Procs, Nobody
  <2>1. /\ Linked(p)
        /\ runs[i].status # "running" => Over(p)
        /\ up = "boot" => Over(p) \/ p \in count.todo \union count.failed
        /\ \A j \in 2..(i - 1) : runs[j].pty # p
    BY <1>1, <2>0 DEF Told, Back, Linked
  <2>2. Over(p) => Over(p)'
    BY DEF Sound
  <2>3. procs[p].row # "none" /\ ~Backed(p)
    BY <1>6, <2>1 DEF Told, Born
  <2>4. up' = "boot" => Over(p)' \/ p \in count'.todo \union count'.failed
    BY <2>1, <2>2, <2>3 DEF Recounts
  <2>5. \A j \in 2..(i - 1) : runs'[j] = runs[j]
    BY <1>1, <1>2, <2>0
  <2> QED BY <2>0, <2>1, <2>2, <2>4, <2>5
<1>10. Sought'
  <2>1. Unique => Unique'
    BY <1>1, <1>2 DEF Unique
  <2>2. \A p \in Looked' : p \in Procs
    BY DEF IInv, TypeOK, Typed, Count, Looked
  <2> QED BY <1>4, <1>5, <2>1, <2>2, UnresolvedKept DEF Sought
<1>11. OutcomeKept
  <2>1. ASSUME NEW p \in Procs, Linked(p), Linked(p)'
        PROVE  Over(p) /\ Linked(p) /\ Linked(p)' /\ runs[NewestOf(p)].status # "running"
               => \/ runs'[NewestOf(p)'].status = runs[NewestOf(p)].status
                  \/ state'.ptr = p /\ count.failed = {p}
    <3>1. PICK k \in 1..Len(runs) : runs[k].pty = p
      BY <1>1, <2>1 DEF Linked
    <3>2. /\ Last(runs, p) \in 1..Len(runs) /\ runs[Last(runs, p)].pty = p
          /\ \A j \in 1..Len(runs) : runs[j].pty = p => j <= Last(runs, p)
      BY <1>1, <3>1, LastIs
    <3>3. \A j \in 1..Len(runs') : runs'[j].pty = p => j <= Last(runs, p)
      BY <1>1, <1>2, <3>2 DEF Procs, Nobody
    <3>4. Last(runs', p) = Last(runs, p)
      BY <1>1, <1>2, <3>2, <3>3, LastAt
    <3> QED BY <1>2, <2>1, <3>2, <3>4, KeptAt DEF IInv, TypeOK
  <2> QED BY <2>1 DEF OutcomeKept
<1> QED BY <1>5, <1>7, <1>8, <1>9, <1>10, <1>11 DEF Told

LEMMA LinksNewestTold ==
  ASSUME IInv, IInv', Told, Sound, Recounts, LinksNewest
  PROVE  Told' /\ OutcomeKept
<1>0. PICK p : p = op.pid
  OBVIOUS
<1>1. /\ runs \in Seq(Run_) /\ Newest = Len(runs) /\ Len(runs) = 1
      /\ DOMAIN runs = 1..1 /\ runs[1] \in Run_ /\ runs[1].status = "running"
      /\ p \in Procs /\ Open(p) /\ p \notin dropped /\ procs[p].row # "none" /\ ~Over(p)
  <2>1. op.at = "linking" /\ p \in Procs /\ Open(p) /\ p \notin dropped
    BY <1>0 DEF LinksNewest, Told, Gone
  <2>2. Len(runs) = 1 /\ runs[Newest].status = "running"
    BY <2>1 DEF Told, Stands, Launching
  <2> QED BY <2>1, <2>2, RowsAre DEF Open, Over, Pty!Fates
<1>2. runs' = [runs EXCEPT ![1].pty = p] /\ op'.at = "starting" /\ op.at = "linking"
      /\ UNCHANGED <<state, dropped>>
  BY <1>0, <1>1 DEF LinksNewest
<1>3. /\ runs' \in Seq(Run_) /\ Len(runs') = 1 /\ Newest' = 1 /\ DOMAIN runs' = 1..1
      /\ runs'[1].status = "running" /\ runs'[1].pty = p
  <2>1. /\ [runs[1] EXCEPT !.pty = p] \in Run_
        /\ [runs[1] EXCEPT !.pty = p].pty = p /\ [runs[1] EXCEPT !.pty = p].status = "running"
    BY <1>1 DEF Run_
  <2>2. runs' = [i \in 1..1 |-> IF i = 1 THEN [runs[i] EXCEPT !.pty = p] ELSE runs[i]]
    BY <1>1, <1>2, Zenon
  <2>3. runs'[1] = [runs[1] EXCEPT !.pty = p]
    BY <2>2
  <2>4. runs' \in Seq(Run_) /\ Len(runs') = 1 /\ DOMAIN runs' = 1..1
    BY <2>1, <2>2
  <2> QED BY <2>1, <2>3, <2>4 DEF Newest
<1>4. \A q : Linked(q)' <=> q = p
  BY <1>3 DEF Linked
<1>5. \A q \in Looked' : q \in Looked \/ Linked(q)
  BY DEF Recounts, Looked
<1>6. /\ dropped \subseteq Procs
      /\ \A q \in dropped : q \in Procs /\ q # p /\ (Backed(q)' => Backed(q))
  BY <1>0, <1>1 DEF Sound, IInv, TypeOK, Typed
<1>7. Stands'
  <2>1. state.ptr = Nobody /\ state.status = "running"
    BY <1>2 DEF IInv, Placed
  <2>2. state'.ptr = Nobody /\ state'.status = "running"
    BY <1>2, <2>1
  <2>3. 1..(Len(runs') - 1) = {}
    BY <1>3
  <2>4. runs'[Newest'].status = "running"
    BY <1>3
  <2> QED BY <1>3, <2>2, <2>3, <2>4 DEF Stands
<1>8. Born'
  BY <1>1, <1>2, <1>4, <1>5 DEF Told, Born, Sound
<1>9. Gone'
  BY <1>2, <1>4, <1>5, <1>6 DEF Told, Gone
<1>10. Lone' /\ Back'
  <2>1. 2..Len(runs') = {}
    BY <1>3
  <2> QED BY <1>2, <1>3, <2>1 DEF Lone, Back
<1>11. Sought'
  <2>1. Unique'
    BY <1>3 DEF Unique
  <2> QED BY <2>1, UnresolvedKept DEF Sought
<1>12. OutcomeKept
  BY <1>1, <1>4 DEF OutcomeKept
<1> QED BY <1>7, <1>8, <1>9, <1>10, <1>11, <1>12 DEF Told

LEMMA AdoptedTold ==
  ASSUME IInv, IInv', Told, Sound, NEW p, Adopted(p)
  PROVE  Told' /\ OutcomeKept
<1>1. /\ runs \in Seq(Run_) /\ Newest = Len(runs) /\ Len(runs) \in Nat /\ DOMAIN runs = 1..Len(runs)
      /\ \A i \in 1..Len(runs) : runs[i] \in Run_ /\ runs[i].pty \in {Nobody} \union Procs
      /\ runs # <<>> <=> Len(runs) \in 1..Len(runs)
  BY RowsAre
<1>2. /\ p \in Procs /\ p \in Looked /\ p # Nobody
      /\ [status |-> "running", pty |-> p] \in Run_
  BY DEF Adopted, Looked, IInv, TypeOK, Typed, Count, Procs, Nobody, Run_, RunStatus
<1>3. PICK n \in Nat \ {0} :
        /\ n = Len(runs) \/ (n = 1 /\ runs = <<>>)
        /\ runs' \in Seq(Run_) /\ Len(runs') = n /\ DOMAIN runs' = 1..n
        /\ runs'[n] = [status |-> "running", pty |-> p]
        /\ \A i \in 1..(n - 1) : i \in 1..(Len(runs) - 1) /\ i \in 1..Len(runs) /\ runs'[i] = runs[i]
  <2>1. CASE runs = <<>>
    <3>1. runs' = <<[status |-> "running", pty |-> p]>>
      BY <2>1 DEF Adopted, Readopt
    <3>2. runs' \in Seq(Run_) /\ Len(runs') = 1 /\ DOMAIN runs' = 1..1
          /\ runs'[1] = [status |-> "running", pty |-> p]
      BY <1>2, <3>1
    <3>3. \A i \in 1..(1 - 1) : FALSE
      OBVIOUS
    <3> QED BY <2>1, <3>2, <3>3
  <2>2. CASE runs # <<>>
    <3>1. runs' = [runs EXCEPT ![Len(runs)] = [status |-> "running", pty |-> p]]
      BY <1>1, <2>2 DEF Adopted, Readopt
    <3>2. Len(runs) \in 1..Len(runs) /\ Len(runs) \in Nat \ {0}
      BY <1>1, <2>2
    <3>3. /\ runs' \in Seq(Run_) /\ Len(runs') = Len(runs) /\ DOMAIN runs' = 1..Len(runs)
          /\ runs'[Len(runs)] = [status |-> "running", pty |-> p]
          /\ \A i \in 1..Len(runs) : i # Len(runs) => runs'[i] = runs[i]
      BY <1>1, <1>2, <3>1, <3>2
    <3>4. \A i \in 1..(Len(runs) - 1) : i \in 1..Len(runs) /\ i # Len(runs)
      BY <3>2
    <3> QED BY <3>2, <3>3, <3>4
  <2> QED BY <2>1, <2>2
<1>4. /\ Newest' = n /\ state' = [status |-> "running", ptr |-> p] /\ op'.at = "free" /\ up' # "boot"
      /\ Looked' = {} /\ count'.unresolved = {} /\ runs' # <<>>
  BY <1>3 DEF Adopted, Readopt, Newest, Looked, Uncounted
<1>5. \A q \in Procs : Linked(q)' => q = p \/ Linked(q)
  <2> SUFFICES ASSUME NEW q \in Procs, NEW i \in 1..n, runs'[i].pty = q, q # p PROVE Linked(q)
    BY <1>3 DEF Linked
  <2>1. i # n
    BY <1>3
  <2>2. i \in 1..(n - 1)
    BY <2>1
  <2> QED BY <1>1, <1>3, <2>2 DEF Linked
<1>6. \A q \in Procs : (Backed(q)' => Backed(q)) /\ (Over(q) => Over(q)')
  BY <1>4 DEF Sound
<1>7. \A q \in dropped' : q \in dropped \/ (q \in Procs /\ Named(q) /\ Linked(q) /\ q # p)
  BY NamedLinked DEF Adopted, IInv, TypeOK
<1>8. dropped \subseteq Procs
  BY DEF IInv, TypeOK, Typed
<1>9. Backed(p) => p \notin dropped /\ Linked(p) /\ n = 1
  <2> SUFFICES ASSUME Backed(p) PROVE p \notin dropped /\ Linked(p) /\ n = 1
    OBVIOUS
  <2>1. p \notin dropped
    BY <1>2 DEF Told, Gone
  <2>2. Named(p)
    BY <1>2, <2>1 DEF IInv, Known, Mine
  <2>3. Linked(p) /\ runs # <<>>
    BY <2>2, NamedLinked DEF IInv, TypeOK, Named
  <2>4. Len(runs) = 1
    BY <1>2, <2>3 DEF Told, Lone
  <2> QED BY <1>3, <2>1, <2>3, <2>4
<1>10. \A q \in Procs : Backed(q) /\ Linked(q) => n = 1
  BY <1>1, <1>3 DEF Told, Lone, Linked
<1>11. Stands'
  <2>1. \A i \in 1..(n - 1) : runs'[i].pty = Nobody \/ runs'[i].status # "running"
    BY <1>3 DEF Told, Stands
  <2> QED BY <1>3, <1>4, <2>1 DEF Stands, Launching
<1>12. Born'
  BY <1>2, <1>4, <1>5, <1>7, <1>8 DEF Told, Born, Sound
<1>13. Gone'
  <2> SUFFICES ASSUME NEW q \in dropped', Backed(q)' PROVE ~Linked(q)'
    BY <1>4 DEF Gone
  <2>1. q \in Procs /\ Backed(q)
    BY <1>6, <1>7, <1>8
  <2>2. CASE q \in dropped
    BY <1>2, <1>5, <2>1, <2>2 DEF Told, Gone
  <2>3. CASE q # p /\ Linked(q)
    <3>1. n = 1
      BY <1>10, <2>1, <2>3
    <3> QED BY <1>3, <2>3, <3>1 DEF Linked
  <2> QED BY <1>7, <2>2, <2>3
<1>14. Lone'
  BY <1>3, <1>4, <1>5, <1>6, <1>9, <1>10 DEF Lone
<1>15. Back'
  <2> SUFFICES ASSUME NEW i \in 2..n, NEW q \in Procs, runs'[i].pty = q
      PROVE  /\ runs'[i].status # "running" => Over(q)'
             /\ \A j \in 2..(i - 1) : runs'[j].pty # q
    <3>1. \A i \in 1..n : runs'[i] \in Run_
      BY <1>3
    <3>2. \A i \in 2..n : runs'[i].pty \in {Nobody} \union Procs
      BY <3>1 DEF Run_
    <3> QED BY <1>3, <1>4, <3>2 DEF Back, Over
  <2>1. CASE i = n
    <3>1. q = p /\ runs'[i].status = "running"
      BY <1>3, <2>1
    <3>2. ASSUME NEW j \in 2..(i - 1), runs'[j].pty = q PROVE FALSE
      <4>1. j \in 1..(n - 1) /\ j \in 2..n
        BY <2>1
      <4>2. j \in 1..(Len(runs) - 1) /\ runs[j].pty = p /\ j \in 2..Len(runs)
        BY <1>3, <3>1, <3>2, <4>1
      <4>3. runs[j].status # "running"
        BY <1>2, <4>2 DEF Told, Stands
      <4>4. runs[j].status = "running"
        BY <4>2 DEF Adopted, Told, Sought
      <4> QED BY <4>3, <4>4
    <3> QED BY <3>1, <3>2
  <2>2. CASE i # n
    <3>1. i \in 1..(n - 1) /\ q # Nobody
      BY <2>2 DEF Procs, Nobody
    <3>2. i \in 2..Len(runs) /\ runs'[i] = runs[i]
      BY <1>1, <1>3, <3>1
    <3>3. \A j \in 2..(i - 1) : runs'[j] = runs[j]
      BY <1>3, <3>1
    <3>4. /\ runs[i].status # "running" => Over(q)
          /\ \A j \in 2..(i - 1) : runs[j].pty # q
      BY <3>1, <3>2 DEF Told, Back
    <3> QED BY <1>6, <3>2, <3>3, <3>4
  <2> QED BY <2>1, <2>2
<1>16. Sought'
  BY <1>4 DEF Sought
<1>17. OutcomeKept
  <2> SUFFICES ASSUME NEW q \in Procs, Linked(q), Linked(q)', q # p
      PROVE  Over(q) /\ Linked(q) /\ Linked(q)' /\ runs[NewestOf(q)].status # "running"
             => \/ runs'[NewestOf(q)'].status = runs[NewestOf(q)].status
                \/ state'.ptr = q /\ count.failed = {q}
    BY <1>4 DEF OutcomeKept, Adopted
  <2>1. q # Nobody
    BY DEF Procs, Nobody
  <2>2. PICK k \in 1..n : runs'[k].pty = q
    BY <1>3 DEF Linked
  <2>3. k # n /\ k \in 1..(n - 1)
    <3>1. k # n
      BY <1>3, <2>2
    <3> QED BY <3>1
  <2>4. runs[k].pty = q /\ k \in 1..Len(runs) /\ k < Len(runs) /\ n = Len(runs)
    BY <1>1, <1>3, <2>2, <2>3
  <2>5. runs[n].pty # q
    <3> SUFFICES ASSUME runs[n].pty = q PROVE FALSE
      OBVIOUS
    <3>1. ~Unique
      BY <2>1, <2>4 DEF Unique
    <3>2. Linked(p)
      BY <1>2, <3>1 DEF Told, Sought
    <3>3. PICK j \in 1..Len(runs) : runs[j].pty = p
      BY <1>1, <3>2 DEF Linked
    <3>4. j # n /\ j \in 1..(Len(runs) - 1)
      <4>1. j # n
        BY <3>3
      <4> QED BY <2>4, <4>1
    <3>5. runs[j].status # "running"
      BY <1>2, <3>3, <3>4 DEF Told, Stands
    <3>6. j = 1
      BY <3>3, <3>5 DEF Adopted, Told, Sought
    <3>7. k # 1 /\ k \in 2..(n - 1) /\ n \in 2..Len(runs)
      <4>1. k # 1
        BY <2>4, <3>3, <3>6
      <4> QED BY <1>1, <2>3, <2>4, <4>1
    <3> QED BY <2>1, <2>4, <3>7 DEF Told, Back
  <2>6. /\ Last(runs, q) \in 1..Len(runs) /\ runs[Last(runs, q)].pty = q
        /\ \A j \in 1..Len(runs) : runs[j].pty = q => j <= Last(runs, q)
    BY <1>1, <2>4, LastIs
  <2>7. Last(runs, q) \in 1..(n - 1) /\ runs'[Last(runs, q)] = runs[Last(runs, q)]
    <3>1. Last(runs, q) # n
      BY <2>5, <2>6
    <3>2. Last(runs, q) \in 1..(n - 1)
      BY <2>4, <2>6, <3>1
    <3> QED BY <1>3, <3>2
  <2>8. \A j \in 1..Len(runs') : runs'[j].pty = q => j <= Last(runs, q)
    <3> SUFFICES ASSUME NEW j \in 1..n, runs'[j].pty = q PROVE j <= Last(runs, q)
      BY <1>3
    <3>1. j # n
      BY <1>3
    <3>2. j \in 1..(n - 1)
      BY <3>1
    <3> QED BY <1>3, <2>6, <3>2
  <2>9. Last(runs, q) \in 1..Len(runs') /\ runs'[Last(runs, q)].pty = q /\ runs' \in Seq(Run_)
    BY <1>3, <2>6, <2>7
  <2>10. Last(runs', q) = Last(runs, q)
    BY <2>8, <2>9, LastAt
  <2> QED BY <1>3, <2>7, <2>10, KeptAt DEF IInv, TypeOK
<1> QED BY <1>11, <1>12, <1>13, <1>14, <1>15, <1>16, <1>17 DEF Told

-----------------------------------------------------------------------------
(* The outcomes. *)

LEMMA ToldAtFirst == Init => Told
<1> SUFFICES ASSUME Init PROVE Told
  OBVIOUS
<1>1. /\ runs = <<>> /\ Len(runs) = 0 /\ dropped = {} /\ state.ptr = Nobody /\ op.at = "free"
      /\ Looked = {} /\ count.unresolved = {} /\ \A p : ~Linked(p)
  BY DEF Init, Free, Uncounted, Looked, Linked
<1>2. 1..(Len(runs) - 1) = {} /\ 2..Len(runs) = {}
  BY <1>1
<1> QED BY <1>1, <1>2 DEF Told, Stands, Born, Gone, Lone, Back, Sought, Launching

LEMMA StepTold ==
  ASSUME IInv, Told, [Next]_vars
  PROVE  Told' /\ OutcomeKept
<1>1. IInv' /\ Sound /\ Recounts /\ RowsMove
  BY StepInv, StepSound, StepRecounts, StepMoves
<1> QED BY <1>1, StillTold, CompletesTold, SweepsTold, SinglesTold, AddsTold, LinksNewestTold,
           RetakesTold, AdoptedTold DEF RowsMove

LEMMA AllTold == Spec => [](IInv /\ Told)
<1>1. IInv /\ Told /\ [Next]_vars => IInv' /\ Told'
  BY StepInv, StepTold
<1>2. Init => IInv /\ Told
  BY InitInv, ToldAtFirst
<1> QED BY <1>1, <1>2, PTL DEF Spec

\* The first outcome that is recorded for a process that is over stays, whoever reports its end
\* after that, and when: the stop that killed it, its echo, a later launch's failure, the sweep or
\* the accounting. Only an accounting that could not verify that end, and was left with no other
\* process, reopens the run (finalizeRunAndState, readoptCommandIncarnation).
THEOREM OutcomesStay == Spec => OutcomeStays
<1> DEFINE Stays == \A p \in Procs :
         Over(p) /\ Linked(p) /\ Linked(p)' /\ runs[NewestOf(p)].status # "running"
         => \/ runs'[NewestOf(p)'].status = runs[NewestOf(p)].status
            \/ state'.ptr = p /\ count.failed = {p}
<1>1. IInv /\ Told /\ [Next]_vars => [Stays]_vars
  BY StepTold DEF OutcomeKept
<1> QED BY <1>1, AllTold, PTL DEF Spec, OutcomeStays

\* Whoever reports the end of a process, and however late: the first report stands, and of
\* another process nothing changes (finalizeRunAndState).
THEOREM OutcomesKept == Spec => OutcomesHold
BY EchoesAreHarmless, OutcomesStay DEF OutcomesHold
=============================================================================
