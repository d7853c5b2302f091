------------------------- MODULE PtyProcessesProofs -------------------------
(***************************************************************************)
(* What is proved of PtyProcesses, for any set of callers and any number   *)
(* of failures and restarts.                                               *)
(***************************************************************************)
EXTENDS PtyProcesses, TLAPS

\* Where the launch stands tells what the row says, and whether there can be a process.
Launched ==
  /\ launch = "none" <=> row = "none"
  /\ launch \in {"none", "allocated", "preparing"} => ~meta /\ row \notin Over
  /\ launch \in {"spawning", "cancelling"} => meta
  /\ ~meta => proc = "none" /\ ~coming
  /\ coming => backend = "tmux" /\ proc = "none"
  /\ launch = "spawning" /\ row \in Over => proc = "dead"

\* A process of node-pty is spawned by its launch and is in liveSessions while it lives;
\* only node-pty reports exits, and only of the dead. Its entry is there while the row is open.
NodePty ==
  /\ backend = "node_pty" /\ launch \in {"spawning", "cancelling"} => proc = "none"
  /\ backend = "node_pty" /\ proc = "live" => handle = "held"
  /\ handle = "held" => backend = "node_pty" /\ hits = 0 /\ proc # "none" /\ row \in Open
  /\ sup # "none" \/ deferred \/ term.exit => backend = "node_pty"
  /\ sup = "queued" \/ deferred \/ term.exit \/ term.write # "none" =>
       proc = "dead" /\ handle = "none"

\* An attempt that signals has killed nothing yet, and neither has anybody before it.
Killing ==
  /\ term.owner = "none" => ~term.exit
  /\ term.owner # "none" => row # "none"
  /\ term.via = "tmux" => backend = "tmux"
  /\ hits <= 1 /\ (hits # 0 => proc = "dead")
  /\ \A a \in Attempts :
       /\ pc[a] = "grace" => term.via = "node_pty"
       /\ pc[a] \in {"signalling", "grace"} /\ term.via = "node_pty" =>
            hits = 0 /\ (handle = "held" \/ proc = "dead")
       /\ pc[a] = "sweeping" => hits = 0 /\ proc = "dead" /\ handle = "none"

\* Only tmux is asked, after the launch; and who was told `missing` was told the truth,
\* unless a session came late.
Watching ==
  \A o \in Observers :
    /\ obs[o].phase # "idle" => launch = "done" /\ backend = "tmux"
    /\ obs[o].phase = "missing" => proc # "live" \/ late

IInv ==
  /\ TypeOK /\ OverIsOver /\ KillIsRecorded
  /\ Launched /\ NodePty /\ Killing /\ Watching

\* The predicates on states stay expanded; an action is cited where it is taken.
USE DEF Cancel, vars, durable, host, watch, Attempts, Observers, Open, Over, Phases, Pending,
        Points, InFlight, Unasked, Question, Fine, Fault, Recorded, RowBackend

\* An empty reservation.
LEMMA FreeFields ==
  /\ Free \in Reservation
  /\ Free.owner = "none" /\ Free.via = "node_pty" /\ ~Free.exit /\ Free.write = "none"
BY DEF Free, Reservation

-----------------------------------------------------------------------------
(* No step leaves the invariant. *)

USE FreeFields, PtyAssumption
    DEF IInv, TypeOK, Typed, Held, KillIsRecorded, OverIsOver, Launched, NodePty, Killing, Watching

\* Whoever judges the row does so after its launch, with no attempt in flight.
LEMMA JudgedAfterLaunch ==
  ASSUME IInv, NEW o \in Observers, MayJudge(o)
  PROVE  launch = "done" /\ row \in Open /\ (term.owner \in {"none", "retry"})
<1>1. row \in Open /\ launch # "none"
  BY DEF MayJudge
<1>2. CASE o = "cleanup"
  <2>1. launch \notin Pending /\ \A a \in Attempts : pc[a] \notin InFlight
    BY <1>2 DEF MayJudge
  <2>2. term.owner \notin Attempts /\ term \in Reservation
    BY <2>1
  <2> QED BY <1>1, <2>1, <2>2 DEF Reservation
<1>3. CASE o # "cleanup"
  BY <1>1, <1>3 DEF MayJudge, Reserved
<1> QED BY <1>2, <1>3

\* The launch, and what the tmux server does with its request.
LEMMA LaunchStep ==
  ASSUME IInv, Allocate \/ Launch \/ CancelSpawn \/ SessionStarts \/ RequestLost
  PROVE  IInv'
<1>1. CASE Allocate
  BY <1>1 DEF Allocate
<1>2. CASE GiveUp
  BY <1>2 DEF GiveUp, MarkLaunchFailed
<1>3. CASE Start
  BY <1>3 DEF Start
<1>4. CASE Prepare
  BY <1>4 DEF Prepare
<1>5. CASE SpawnNodePty
  BY <1>5 DEF SpawnNodePty, LaunchRecorded
<1>6. CASE SpawnTmux
  BY <1>6 DEF SpawnTmux, LaunchRecorded
<1>7. CASE SpawnFails
  <2>1. coming' \in BOOLEAN
    BY <1>7 DEF SpawnFails
  <2>2. Typed'
    BY <1>7, <2>1 DEF SpawnFails, MarkLaunchFailed
  <2>3. Held' /\ KillIsRecorded' /\ OverIsOver' /\ Launched'
    BY <1>7 DEF SpawnFails, MarkLaunchFailed
  <2>4. NodePty' /\ Killing' /\ Watching'
    BY <1>7 DEF SpawnFails, MarkLaunchFailed
  <2> QED BY <2>2, <2>3, <2>4
<1>8. CASE CancelSpawn
  BY <1>8 DEF CancelSpawn
<1>9. CASE LaunchSettles
  BY <1>9 DEF LaunchSettles
<1>10. CASE SessionStarts
  <2>1. coming' \in BOOLEAN /\ late' \in BOOLEAN
    BY <1>10 DEF SessionStarts
  <2>2. Typed'
    BY <1>10, <2>1 DEF SessionStarts
  <2>3. Held' /\ KillIsRecorded' /\ OverIsOver' /\ Launched'
    BY <1>10 DEF SessionStarts
  <2>4. NodePty' /\ Killing' /\ Watching'
    BY <1>10 DEF SessionStarts
  <2> QED BY <2>2, <2>3, <2>4
<1>11. CASE RequestLost
  <2>1. coming' \in BOOLEAN
    BY <1>11 DEF RequestLost
  <2>2. Typed'
    BY <1>11, <2>1 DEF RequestLost
  <2>3. Held' /\ KillIsRecorded' /\ OverIsOver' /\ Launched'
    BY <1>11 DEF RequestLost
  <2>4. NodePty' /\ Killing' /\ Watching'
    BY <1>11 DEF RequestLost
  <2> QED BY <2>2, <2>3, <2>4
<1> QED BY <1>1, <1>2, <1>3, <1>4, <1>5, <1>6, <1>7, <1>8, <1>9, <1>10, <1>11 DEF Launch

\* An exit is captured by the attempt that holds the row, written, or left to the retry.
LEMMA HandleExitStep ==
  ASSUME IInv, HandleExit
  PROVE  IInv'
<1>1. CASE term.owner # "none"
  <2>1. term' = [term EXCEPT !.exit = TRUE] /\ UNCHANGED <<row, deferred, faults>> /\ sup = "queued" /\ sup' = "none"
    BY <1>1 DEF HandleExit
  <2>2. term' \in Reservation /\ term'.owner = term.owner /\ term'.via = term.via /\ term'.exit
        /\ term'.write = term.write
    BY <2>1 DEF Reservation
  <2>3. UNCHANGED <<backend, meta, host, handle, launch, pc, obs, gc, restarts, hits>>
    BY DEF HandleExit
  <2>4. QED BY <1>1, <2>1, <2>2, <2>3
<1>2. CASE term.owner = "none"
  <2>1. deferred' \in BOOLEAN BY <1>2 DEF HandleExit
  <2>2. Typed' BY <1>2, <2>1 DEF HandleExit
  <2>3. QED BY <1>2, <2>1, <2>2 DEF HandleExit
<1> QED BY <1>1, <1>2

\* A row that is over settles the retry as a write does.
LEMMA RetryTerminationStep ==
  ASSUME IInv, RetryTermination
  PROVE  IInv'
<1>1. term.owner = "retry" /\ term' = Free /\ term.write \in {"killed", "ended"}
  BY DEF RetryTermination, Reservation
<1>2. /\ proc = "dead" /\ handle = "none" /\ row # "none" /\ row' = IF row \in Open THEN term.write ELSE row
      /\ UNCHANGED <<backend, meta, host, watch, launch, pc, obs, gc, faults, restarts, hits>>
  BY <1>1 DEF RetryTermination
<1> QED BY <1>1, <1>2

LEMMA EndStep ==
  ASSUME IInv, ProcessExits \/ ExitReported \/ RetryExit
  PROVE  IInv'
<1>1. CASE ProcessExits
  BY <1>1 DEF ProcessExits
<1>2. CASE ExitReported
  BY <1>2 DEF ExitReported
<1>3. CASE RetryExit
  <2>1. deferred' \in BOOLEAN
    BY <1>3 DEF RetryExit
  <2>2. Typed'
    BY <1>3, <2>1 DEF RetryExit
  <2>3. Held' /\ KillIsRecorded' /\ OverIsOver' /\ Launched'
    BY <1>3 DEF RetryExit
  <2>4. NodePty' /\ Killing' /\ Watching'
    BY <1>3 DEF RetryExit
  <2> QED BY <2>2, <2>3, <2>4
<1> QED BY <1>1, <1>2, <1>3

-----------------------------------------------------------------------------
(* The attempts to terminate. *)

LEMMA ReserveStep ==
  ASSUME IInv, NEW a \in Attempts, Reserve(a)
  PROVE  IInv'
<1>1. /\ term' \in Reservation
      /\ term'.owner = a /\ term'.via = RowBackend /\ ~term'.exit /\ term'.write = "none"
  BY DEF Reserve, Reservation
<1>2. pc[a] = "idle" /\ pc' = [pc EXCEPT ![a] = "probing"] /\ term.owner = "none" /\ row # "none"
  BY DEF Reserve, At, MayReserve, Called
<1>3. UNCHANGED <<durable, host, watch, launch, obs, gc, faults, restarts, hits>>
  BY DEF Reserve
<1> QED BY <1>1, <1>2, <1>3

LEMMA AffirmStep ==
  ASSUME IInv, NEW a \in Attempts, Affirm(a)
  PROVE  IInv'
<1>1. /\ pc[a] = "sweeping" /\ pc' = [pc EXCEPT ![a] = "hit"] /\ hits' = hits + 1
      /\ UNCHANGED <<backend, meta, host, watch, launch, obs, gc, restarts>> 
      /\ faults' \in Nat
  BY DEF Affirm, At
<1>2. hits' = 1 /\ term.owner = a /\ proc = "dead" /\ row # "none" /\ handle = "none"
  BY <1>1
<1>3. CASE row' = Recorded("killed") /\ term' = Free
  BY <1>1, <1>2, <1>3
<1>4. CASE row' = row /\ term' = [term EXCEPT !.owner = "retry", !.write = "killed"]
  <2>1. /\ term' \in Reservation /\ term'.owner = "retry" /\ term'.write = "killed"
        /\ term'.via = term.via /\ (term'.exit <=> term.exit)
    BY <1>4 DEF Reservation
  <2> QED BY <1>1, <1>2, <1>4, <2>1
<1> QED BY <1>3, <1>4 DEF Affirm

LEMMA ConcludeStep ==
  ASSUME IInv, NEW a \in Attempts, Conclude(a)
  PROVE  IInv'
<1>1. /\ pc[a] = "unaffirmed" /\ pc' = [pc EXCEPT ![a] = "over"]
      /\ UNCHANGED <<backend, meta, host, watch, launch, obs, gc, restarts, hits>> 
      /\ faults' \in Nat
  BY DEF Conclude, At
<1>2. term.owner = a /\ row # "none"
  BY <1>1
<1>3. CASE term.exit /\ row' = Recorded("ended") /\ term' = Free
  BY <1>1, <1>2, <1>3
<1>4. CASE term.exit /\ row' = row /\ term' = [term EXCEPT !.owner = "retry", !.write = "ended"]
  <2>1. /\ term' \in Reservation /\ term'.owner = "retry" /\ term'.write = "ended"
        /\ term'.via = term.via /\ (term'.exit <=> term.exit)
    BY <1>4 DEF Reservation
  <2> QED BY <1>1, <1>2, <1>4, <2>1
<1>5. CASE ~term.exit /\ row' = row /\ term' = Free
  BY <1>1, <1>2, <1>5
<1> QED BY <1>3, <1>4, <1>5 DEF Conclude

LEMMA TerminateStep ==
  ASSUME IInv, NEW a \in Attempts, Terminate(a)
  PROVE  IInv'
<1>1. CASE Refused(a)
  BY <1>1 DEF Refused, At
<1>2. CASE Probe(a)
  BY <1>2 DEF Probe, At
<1>3. CASE Stopped(a)
  BY <1>3 DEF Stopped, At
<1>4. CASE Signal(a)
  BY <1>4 DEF Signal, At
<1>5. CASE GraceEnds(a)
  BY <1>5 DEF GraceEnds, At
<1>6. CASE KillFails(a)
  BY <1>6 DEF KillFails, At
<1>7. CASE KillSession(a)
  BY <1>7 DEF KillSession, At
<1> QED BY ReserveStep, AffirmStep, ConcludeStep, <1>1, <1>2, <1>3, <1>4, <1>5, <1>6, <1>7 DEF Terminate

-----------------------------------------------------------------------------
(* The observers, the collector and the restart. *)

LEMMA ObserveStep ==
  ASSUME IInv, NEW o \in Observers, Observe(o)
  PROVE  IInv'
<1>1. CASE JudgeNodePty(o)
  BY JudgedAfterLaunch, <1>1 DEF JudgeNodePty, ExitPending
<1>2. CASE AskTmux(o)
  BY JudgedAfterLaunch, <1>2 DEF AskTmux
<1>3. CASE TmuxAnswers(o)
  BY <1>3 DEF TmuxAnswers, Told
<1>4. CASE JudgeTmux(o)
  BY <1>4 DEF JudgeTmux, Verdict, ExitPending
<1> QED BY <1>1, <1>2, <1>3, <1>4 DEF Observe

LEMMA CollectStep ==
  ASSUME IInv, AttachHeals \/ Collect
  PROVE  IInv'
<1>1. CASE AttachHeals
  BY <1>1 DEF AttachHeals
<1>2. CASE ReadRows
  BY <1>2 DEF ReadRows
<1>3. CASE SweepTmux
  BY <1>3 DEF SweepTmux, Garbage
<1> QED BY <1>1, <1>2, <1>3 DEF Collect

LEMMA RestartStep ==
  ASSUME IInv, Restart
  PROVE  IInv'
<1>1. /\ pc' = [a \in Attempts |-> "idle"] /\ obs' = [o \in Observers |-> Unasked]
      /\ term' = Free /\ handle' = "none" /\ sup' = "none" /\ ~deferred' /\ gc' = "idle"
      /\ restarts' = restarts + 1 /\ UNCHANGED <<backend, meta, coming, late, faults, hits>>
  BY DEF Restart
<1>2. /\ row' = (IF RowBackend = "node_pty" THEN Recorded("missing") ELSE row)
      /\ proc' = (IF backend = "node_pty" /\ proc = "live" THEN "dead" ELSE proc)
      /\ launch' = (IF launch = "none" THEN "none" ELSE "done")
  BY DEF Restart
<1>3. deferred' \in BOOLEAN
  BY DEF Restart
<1>4. pc' \in [Attempts -> Points] /\ obs' \in [Observers -> Question]
  BY <1>1
<1>5. Typed'
  BY <1>1, <1>2, <1>3, <1>4
<1>6. Held' /\ KillIsRecorded' /\ Killing' /\ Watching'
  BY <1>1, <1>2, <1>5
<1>7. OverIsOver' /\ Launched' /\ NodePty'
  BY <1>1, <1>2, <1>5
<1> QED BY <1>5, <1>6, <1>7

LEMMA InitInv == Init => IInv
<1> SUFFICES ASSUME Init PROVE IInv
  OBVIOUS
<1>1. /\ row = "none" /\ launch = "none" /\ proc = "none" /\ handle = "none" /\ sup = "none"
      /\ ~meta /\ ~coming /\ ~late /\ ~deferred /\ term = Free /\ hits = 0
      /\ pc = [a \in Attempts |-> "idle"] /\ obs = [o \in Observers |-> Unasked]
  BY DEF Init
<1>2. meta \in BOOLEAN /\ coming \in BOOLEAN /\ late \in BOOLEAN /\ deferred \in BOOLEAN
  BY DEF Init
<1>3. pc \in [Attempts -> Points] /\ obs \in [Observers -> Question]
  BY <1>1
<1>4. Typed
  BY <1>1, <1>2, <1>3 DEF Init
<1> QED BY <1>1, <1>4

LEMMA NextInv == IInv /\ [Next]_vars => IInv'
<1> SUFFICES ASSUME IInv, [Next]_vars PROVE IInv'
  OBVIOUS
<1>1. CASE UNCHANGED vars
  BY <1>1
<1>2. CASE Next
  BY <1>2, LaunchStep, EndStep, HandleExitStep, RetryTerminationStep, TerminateStep, ObserveStep,
     CollectStep, RestartStep DEF Next
<1> QED BY <1>1, <1>2

HIDE DEF IInv, TypeOK, KillIsRecorded, OverIsOver, vars

\* The invariant holds for ever.
LEMMA AllInv == Spec => []IInv
BY InitInv, NextInv, PTL DEF Spec

-----------------------------------------------------------------------------
(* What follows. *)

\* Everything the service keeps of a process has its type, an attempt in flight holds the
\* reservation, and the retry holds it with a write (reservePtyTermination).
THEOREM TypesHold == Spec => []TypeOK
<1>1. IInv => TypeOK
  BY DEF IInv
<1> QED BY AllInv, <1>1, PTL

\* transitionProcess, isRowReserved: no row says that a live process is over.
THEOREM RowsTellTheTruth == Spec => []OverIsOver
<1>1. IInv => OverIsOver
  BY DEF IInv
<1> QED BY AllInv, <1>1, PTL

\* reservePtyTermination: one attempt at most is told that it killed the process.
THEOREM OneIsToldOfTheKill == Spec => []OneKiller
<1>1. IInv => OneKiller
  BY DEF IInv, OneKiller
<1> QED BY AllInv, <1>1, PTL

\* retryPersistKilledUntilSuccess: and the row will say so.
THEOREM KillsAreRecorded == Spec => []KillIsRecorded
<1>1. IInv => KillIsRecorded
  BY DEF IInv
<1> QED BY AllInv, <1>1, PTL

\* collectNodePtyGarbage: liveSessions has no entry of a row that is over, so that the sweep of
\* node-pty's own entries finds nothing to kill.
THEOREM EntriesAreOpen == Spec => [](handle = "held" => row \in Open)
<1>1. IInv => (handle = "held" => row \in Open)
  BY DEF IInv
<1> QED BY AllInv, <1>1, PTL

\* Only a judge calls an open row's process missing, and a restart.
LEMMA MissingIsJudged ==
  ASSUME IInv, Next, row \in Open, row' = "missing"
  PROVE  \/ restarts' # restarts
         \/ \E o \in Observers :
              \/ JudgeNodePty(o)
              \/ JudgeTmux(o) /\ obs[o].phase = "missing" /\ obs'[o].phase = "idle"
<1>1. row # "missing" /\ restarts \in Nat /\ term.write \in {"none", "killed", "ended"}
  BY DEF IInv, TypeOK, Reservation
<1>2. ~(Allocate \/ Launch \/ CancelSpawn \/ SessionStarts \/ RequestLost)
  BY <1>1 DEF Allocate, Launch, GiveUp, MarkLaunchFailed, Start, Prepare, SpawnNodePty, SpawnTmux,
       LaunchRecorded, SpawnFails, LaunchSettles, CancelSpawn, SessionStarts, RequestLost
<1>3. ~(ProcessExits \/ ExitReported \/ HandleExit \/ RetryExit \/ RetryTermination)
  BY <1>1 DEF ProcessExits, ExitReported, HandleExit, RetryExit, RetryTermination
<1>4. ASSUME NEW a \in Attempts PROVE ~Terminate(a)
  BY <1>1 DEF Terminate, Reserve, Refused, Probe, Stopped, Signal, GraceEnds, KillFails,
       KillSession, Affirm, Conclude
<1>5. ~(AttachHeals \/ Collect)
  BY <1>1 DEF AttachHeals, Collect, ReadRows, SweepTmux
<1>6. CASE Restart
  BY <1>1, <1>6 DEF Restart
<1>7. ASSUME NEW o \in Observers, Observe(o)
      PROVE  \/ JudgeNodePty(o)
             \/ JudgeTmux(o) /\ obs[o].phase = "missing" /\ obs'[o].phase = "idle"
  <2>1. ~AskTmux(o) /\ ~TmuxAnswers(o)
    BY <1>1 DEF AskTmux, TmuxAnswers
  <2>2. CASE JudgeTmux(o)
    <3>1. Verdict(o) = "missing"
      BY <2>2 DEF JudgeTmux
    <3>2. obs[o].phase = "missing"
      BY <3>1, <1>1 DEF Verdict
    <3>3. obs'[o].phase = "idle"
      BY <2>2 DEF JudgeTmux, IInv, TypeOK
    <3> QED BY <2>2, <3>2, <3>3
  <2> QED BY <1>7, <2>1, <2>2 DEF Observe
<1> QED BY <1>2, <1>3, <1>4, <1>5, <1>6, <1>7 DEF Next

\* isExitPending, skipReservedRow: an exit that was reported is not overwritten by `missing`,
\* but by a cleanup under a write left to the retry.
THEOREM ReportedExitsWin == Spec => ReportedExitWins
<1> DEFINE Reported == sup = "queued" \/ deferred \/ term.exit
<1>1. ASSUME IInv, Next, row \in Open, row' = "missing", Reported
      PROVE  term.owner = "retry" \/ restarts' # restarts
  <2>1. backend = "node_pty"
    BY <1>1 DEF IInv
  <2>2. ASSUME NEW o \in Observers PROVE obs[o].phase # "missing"
    BY <1>1, <2>1, <2>2 DEF IInv
  <2>3. ASSUME NEW o \in Observers, JudgeNodePty(o) PROVE term.owner = "retry"
    <3>1. ~ExitPending
      BY <1>1, <2>3 DEF JudgeNodePty
    <3>2. term.exit /\ term.owner # "none"
      BY <1>1, <3>1 DEF ExitPending, IInv
    <3> QED BY <1>1, <2>3, <3>2, JudgedAfterLaunch DEF JudgeNodePty
  <2> QED BY <1>1, <2>2, <2>3, MissingIsJudged
<1>2. IInv /\ [Next]_vars =>
        [row' = "missing" /\ row \in Open /\ Reported
           => term.owner = "retry" \/ restarts' # restarts]_vars
  BY <1>1
<1> QED BY AllInv, <1>2, PTL DEF Spec, ReportedExitWins

\* skipReservedRow: no observer that looks only now calls a held row's process missing.
THEOREM HeldRowsAreLeftAlone == Spec => ReservedIsLeftAlone
<1> DEFINE Holds == term.owner \in Attempts \/ launch \in Pending
           Stale == \E o \in Observers : obs[o].phase = "missing" /\ obs'[o].phase = "idle"
<1>1. ASSUME IInv, Next, Holds, row \in Open, row' = "missing"
      PROVE  restarts' # restarts \/ Stale
  <2>1. ASSUME NEW o \in Observers PROVE ~JudgeNodePty(o)
    BY <1>1, <2>1, JudgedAfterLaunch, PtyAssumption DEF JudgeNodePty
  <2> QED BY <1>1, <2>1, MissingIsJudged
<1>2. IInv /\ [Next]_vars =>
        [Holds /\ row \in Open /\ row' = "missing" => restarts' # restarts \/ Stale]_vars
  BY <1>1
<1> QED BY AllInv, <1>2, PTL DEF Spec, ReservedIsLeftAlone

\* persistCapturedExitAndRelease, retryPersistKilledUntilSuccess: who lets go of a captured
\* exit has given the row an outcome.
THEOREM CapturedExitsAreSettled == Spec => CapturedIsSettled
<1>1. ASSUME IInv, Next, term.exit, ~term'.exit
      PROVE  row' \in Over \/ restarts' # restarts
  <2>1. row \in Open \union Over /\ term.owner # "none" /\ restarts \in Nat
    BY <1>1 DEF IInv, TypeOK
  <2>2. ~(Allocate \/ Launch \/ CancelSpawn \/ SessionStarts \/ RequestLost)
    BY <1>1 DEF Allocate, Launch, GiveUp, Start, Prepare, SpawnNodePty, SpawnTmux, SpawnFails,
         LaunchSettles, CancelSpawn, SessionStarts, RequestLost
  <2>3. ~(ProcessExits \/ ExitReported \/ RetryExit \/ AttachHeals \/ Collect)
    BY <1>1 DEF ProcessExits, ExitReported, RetryExit, AttachHeals, Collect, ReadRows, SweepTmux
  <2>4. ~HandleExit
    BY <1>1, <2>1 DEF HandleExit, IInv, TypeOK, Reservation
  <2>5. CASE RetryTermination
    <3>1. term.write \in Over
      BY <2>5, <1>1 DEF RetryTermination, IInv, TypeOK, Reservation
    <3> QED BY <2>1, <2>5, <3>1 DEF RetryTermination
  <2>6. ASSUME NEW a \in Attempts, Terminate(a) PROVE row' \in Over
    <3>1. ~Reserve(a)
      BY <2>1 DEF Reserve, MayReserve
    <3>2. ~(Refused(a) \/ Probe(a) \/ Stopped(a) \/ Signal(a) \/ GraceEnds(a) \/ KillFails(a)
            \/ KillSession(a))
      BY <1>1 DEF Refused, Probe, Stopped, Signal, GraceEnds, KillFails, KillSession
    <3>3. ASSUME NEW write \in {"killed", "ended"}
          PROVE  term' # [term EXCEPT !.owner = "retry", !.write = write]
      BY <1>1, <3>3 DEF IInv, TypeOK, Reservation
    <3>4. CASE Affirm(a)
      BY <2>1, <3>3, <3>4 DEF Affirm
    <3>5. CASE Conclude(a)
      BY <1>1, <2>1, <3>3, <3>5 DEF Conclude
    <3> QED BY <2>6, <3>1, <3>2, <3>4, <3>5 DEF Terminate
  <2>7. ASSUME NEW o \in Observers PROVE ~Observe(o)
    BY <1>1 DEF Observe, JudgeNodePty, AskTmux, TmuxAnswers, JudgeTmux
  <2>8. CASE Restart
    BY <2>1, <2>8 DEF Restart
  <2> QED BY <1>1, <2>2, <2>3, <2>4, <2>5, <2>6, <2>7, <2>8 DEF Next
<1>2. IInv /\ [Next]_vars =>
        [term.exit /\ ~term'.exit => row' \in Over \/ restarts' # restarts]_vars
  BY <1>1
<1> QED BY AllInv, <1>2, PTL DEF Spec, CapturedIsSettled

\* A kill has one author, and a record.
THEOREM KillsHaveOneRecord == Spec => []KillsAreKept
BY OneIsToldOfTheKill, KillsAreRecorded, PTL DEF KillsAreKept

\* An exit that is known is not lost again.
THEOREM KnownExitsAreKept == Spec => ExitsAreKept
BY ReportedExitsWin, CapturedExitsAreSettled DEF ExitsAreKept

-----------------------------------------------------------------------------
(* The service implements its contract: each step is one of the contract's, *)
(* or changes nothing that an owner sees.                                   *)

\* What may become of what an owner sees, field by field.
Seen(r, p, s, q) ==
  \/ r = "none" /\ p = "none" /\ s = "open" /\ q = "none"
  \/ r = "open" /\ p = "none" /\ s = r /\ q = "asked"
  \/ p = "asked" /\ s = r /\ q \in {"none", "live", "stray"}
  \/ p \in {"live", "stray"} /\ s = r /\ q = "dead"
  \/ r = "open" /\ p = "dead" /\ s \in {"ended", "killed"} /\ q = p
  \/ r = "open" /\ p # "live" /\ s = "missing" /\ q = p
  \/ r = "open" /\ p \in {"none", "asked"} /\ s = "launch_failed" /\ q = "none"
  \/ r = s /\ p = q
\* A restart takes the runtime's own processes with it.
Gone(r, p, s, q) ==
  /\ s = IF r = "open" THEN "missing" ELSE r
  /\ q = CASE p = "asked" -> "none" [] p \in {"live", "stray"} -> "dead" [] OTHER -> p

\* What is said of the fields, the contract says of the records.
LEMMA FieldsMakeSteps ==
  ASSUME NEW r, NEW p, NEW s, NEW q, Seen(r, p, s, q) \/ Gone(r, p, s, q)
  PROVE  \/ Contract!Step([row |-> r, proc |-> p], [row |-> s, proc |-> q])
         \/ [row |-> s, proc |-> q] = [row |-> r, proc |-> p]
<1> DEFINE x == [row |-> r, proc |-> p]
           y == [row |-> s, proc |-> q]
<1> USE DEF Contract!Step, Contract!Fates, Contract!Alive, Contract!Fresh, Contract!When
<1>1. CASE r = s /\ p = q
  BY <1>1
<1>2. CASE r = "none" /\ p = "none" /\ s = "open" /\ q = "none"
  <2>1. y \in Contract!Allocated(x)
    BY <1>2 DEF Contract!Allocated
  <2> QED BY <2>1
<1>3. CASE r = "open" /\ p = "none" /\ s = r /\ q = "asked"
  <2>1. y \in Contract!Asked(x)
    BY <1>3 DEF Contract!Asked
  <2> QED BY <2>1
<1>4. CASE p = "asked" /\ s = r /\ q = "none"
  <2>1. y \in Contract!Forgotten(x)
    BY <1>4 DEF Contract!Forgotten
  <2> QED BY <2>1
<1>5. CASE p = "asked" /\ s = r /\ q \in {"live", "stray"}
  <2>1. y = [x EXCEPT !.proc = q]
    BY <1>5
  <2>2. y \in Contract!Started(x)
    BY <1>5, <2>1 DEF Contract!Started
  <2> QED BY <2>2
<1>6. CASE p \in {"live", "stray"} /\ s = r /\ q = "dead"
  <2>1. y \in Contract!Ended(x)
    BY <1>6 DEF Contract!Ended
  <2> QED BY <2>1
<1>7. CASE r = "open" /\ p = "dead" /\ s \in {"ended", "killed"} /\ q = p
  <2>1. y = [x EXCEPT !.row = s]
    BY <1>7
  <2>2. y \in Contract!Concluded(x)
    BY <1>7, <2>1 DEF Contract!Concluded
  <2> QED BY <2>2
<1>8. CASE r = "open" /\ p # "live" /\ s = "missing" /\ q = p
  <2>1. y = [x EXCEPT !.row = "missing"]
    BY <1>8
  <2>2. y \in Contract!Concluded(x)
    BY <1>8, <2>1 DEF Contract!Concluded
  <2> QED BY <2>2
<1>9. CASE r = "open" /\ p \in {"none", "asked"} /\ s = "launch_failed" /\ q = "none"
  <2>1. y \in Contract!Concluded(x)
    BY <1>9 DEF Contract!Concluded
  <2> QED BY <2>1
<1>10. CASE Gone(r, p, s, q)
  <2>1. y = Contract!GoneWithRuntime(x)
    BY <1>10 DEF Gone, Contract!GoneWithRuntime
  <2> QED BY <2>1
<1> QED BY <1>1, <1>2, <1>3, <1>4, <1>5, <1>6, <1>7, <1>8, <1>9, <1>10 DEF Seen

\* A step that an owner sees so.
Follows == Seen(SeenRow, SeenProc, SeenRow', SeenProc')

\* What the invariant says of the fields, for the steps below.
LEMMA FieldTypes ==
  ASSUME IInv
  PROVE  /\ row \in {"none"} \union Open \union Over /\ proc \in {"none", "live", "dead"}
         /\ coming \in BOOLEAN /\ late \in BOOLEAN /\ handle \in {"none", "held"}
         /\ launch \in Phases /\ term.write \in {"none", "killed", "ended"}
         /\ restarts \in Nat /\ Launched /\ NodePty /\ Killing /\ Watching
BY DEF IInv, TypeOK, Typed, Reservation

\* The launch, and what tmux does with its request.
LEMMA LaunchFollows ==
  ASSUME IInv, Allocate \/ Launch \/ CancelSpawn \/ SessionStarts \/ RequestLost
  PROVE  Follows
<1> USE FieldTypes DEF SeenRow, SeenProc, Follows, Seen
<1>1. CASE Allocate
  BY <1>1 DEF Allocate
<1>2. CASE GiveUp
  BY <1>2 DEF GiveUp, MarkLaunchFailed
<1>3. CASE Start
  BY <1>3 DEF Start
<1>4. CASE Prepare
  BY <1>4 DEF Prepare
<1>5. CASE SpawnNodePty
  BY <1>5 DEF SpawnNodePty, LaunchRecorded
<1>6. CASE SpawnTmux
  BY <1>6 DEF SpawnTmux, LaunchRecorded
<1>7. CASE SpawnFails
  BY <1>7 DEF SpawnFails, MarkLaunchFailed
<1>8. CASE CancelSpawn
  BY <1>8 DEF CancelSpawn
<1>9. CASE LaunchSettles
  BY <1>9 DEF LaunchSettles
<1>10. CASE SessionStarts
  BY <1>10 DEF SessionStarts
<1>11. CASE RequestLost
  BY <1>11 DEF RequestLost
<1> QED BY <1>1, <1>2, <1>3, <1>4, <1>5, <1>6, <1>7, <1>8, <1>9, <1>10, <1>11 DEF Launch

\* The end of the process, and who writes it.
LEMMA EndFollows ==
  ASSUME IInv, ProcessExits \/ ExitReported \/ HandleExit \/ RetryExit \/ RetryTermination
  PROVE  Follows
<1> USE FieldTypes DEF SeenRow, SeenProc, Follows, Seen
<1>1. CASE ProcessExits
  BY <1>1 DEF ProcessExits
<1>2. CASE ExitReported
  BY <1>2 DEF ExitReported
<1>3. CASE HandleExit
  <2>1. proc = "dead"
    BY <1>3 DEF HandleExit
  <2> QED BY <1>3, <2>1 DEF HandleExit
<1>4. CASE RetryExit
  BY <1>4 DEF RetryExit
<1>5. CASE RetryTermination
  <2>1. term.write # "none"
    BY <1>5 DEF RetryTermination, IInv, TypeOK, Held
  <2>2. proc = "dead"
    BY <2>1
  <2> QED BY <1>5, <2>1, <2>2 DEF RetryTermination
<1> QED BY <1>1, <1>2, <1>3, <1>4, <1>5

\* An attempt to terminate.
LEMMA TerminateFollows ==
  ASSUME IInv, NEW a \in Attempts, Terminate(a)
  PROVE  Follows
<1> USE FieldTypes DEF SeenRow, SeenProc, Follows, Seen
<1>1. CASE Reserve(a) \/ Refused(a) \/ Probe(a) \/ Stopped(a) \/ Signal(a) \/ KillFails(a)
  BY <1>1 DEF Reserve, Refused, Probe, Stopped, Signal, KillFails
<1>2. CASE GraceEnds(a)
  BY <1>2 DEF GraceEnds
<1>3. CASE KillSession(a)
  BY <1>3 DEF KillSession
<1>4. CASE Affirm(a)
  <2>1. pc[a] = "sweeping"
    BY <1>4 DEF Affirm, At
  <2>2. proc = "dead"
    BY <2>1
  <2> QED BY <1>4, <2>2 DEF Affirm
<1>5. CASE Conclude(a)
  BY <1>5 DEF Conclude
<1> QED BY <1>1, <1>2, <1>3, <1>4, <1>5 DEF Terminate

\* The observers and the collector.
LEMMA ObserveFollows ==
  ASSUME IInv, (\E o \in Observers : Observe(o)) \/ AttachHeals \/ Collect
  PROVE  Follows
<1> USE FieldTypes DEF SeenRow, SeenProc, Follows, Seen
<1>1. ASSUME NEW o \in Observers, JudgeNodePty(o) PROVE Follows
  <2>1. row \in Open /\ launch = "done"
    BY <1>1, JudgedAfterLaunch DEF JudgeNodePty
  <2>2. handle # "held" => proc # "live"
    BY <1>1 DEF JudgeNodePty
  <2> QED BY <1>1, <2>1, <2>2 DEF JudgeNodePty
<1>2. ASSUME NEW o \in Observers, AskTmux(o) \/ TmuxAnswers(o) PROVE Follows
  BY <1>2 DEF AskTmux, TmuxAnswers
<1>3. ASSUME NEW o \in Observers, JudgeTmux(o) PROVE Follows
  <2>1. Verdict(o) = "missing" /\ row \in Open => proc # "live" \/ late
    BY <1>3 DEF Verdict, JudgeTmux
  <2>2. Verdict(o) \in {"running", "missing", "unavailable", row}
    BY DEF Verdict
  <2> QED BY <1>3, <2>1, <2>2 DEF JudgeTmux
<1>4. CASE AttachHeals
  BY <1>4 DEF AttachHeals
<1>5. CASE ReadRows
  BY <1>5 DEF ReadRows
<1>6. CASE SweepTmux
  BY <1>6 DEF SweepTmux
<1> QED BY <1>1, <1>2, <1>3, <1>4, <1>5, <1>6 DEF Observe, Collect

\* A restart: node-pty's process goes with the runtime, tmux's stays.
LEMMA RestartFollows ==
  ASSUME IInv, Restart
  PROVE  Follows \/ Gone(SeenRow, SeenProc, SeenRow', SeenProc')
<1> USE FieldTypes DEF SeenRow, SeenProc, Follows, Seen, Gone
<1>1. CASE backend = "node_pty"
  BY <1>1 DEF Restart
<1>2. CASE backend = "tmux" /\ meta
  BY <1>2 DEF Restart
<1>3. CASE backend = "tmux" /\ ~meta
  BY <1>3 DEF Restart
<1> QED BY <1>1, <1>2, <1>3 DEF IInv, TypeOK, Typed

\* transitionProcess: the rows and the processes of the service move as the contract lets them,
\* whoever launches, ends, judges or collects, and however often the runtime goes.
THEOREM ImplementsContract == Spec => KeepsContract
<1>1. Init => AsContract = Contract!Fresh
  BY DEF Init, AsContract, SeenRow, SeenProc, Contract!Fresh
<1>2. ASSUME IInv, Next PROVE Contract!Step(AsContract, AsContract') \/ UNCHANGED AsContract
  <2>1. Follows \/ Gone(SeenRow, SeenProc, SeenRow', SeenProc')
    BY <1>2, LaunchFollows, EndFollows, TerminateFollows, ObserveFollows, RestartFollows DEF Next
  <2> QED BY <2>1, FieldsMakeSteps DEF Follows, AsContract
<1>3. UNCHANGED vars => UNCHANGED AsContract
  BY DEF vars, AsContract, SeenRow, SeenProc
<1>4. IInv /\ [Next]_vars => [Contract!Step(AsContract, AsContract')]_AsContract
  BY <1>2, <1>3
<1> QED BY <1>1, <1>4, AllInv, PTL DEF Spec, KeepsContract
=============================================================================
