---------------------------- MODULE PtyProcesses ----------------------------
(***************************************************************************)
(* One process of the PTY service, from its row's allocation to its end    *)
(* (pty-processes/service.ts, service/launch.ts, termination.ts,           *)
(* lifecycle.ts, cleanup.ts, gc.ts and the two adapters).  Rows do not     *)
(* touch each other: every map of the service is keyed by the row's id.    *)
(*                                                                         *)
(* Everybody who may say what became of the process is here: its launch,   *)
(* the callers that terminate it, the supervisor of its exit, the poller,  *)
(* a failed attachment, a cleanup, and the collector.  A terminal row is   *)
(* immutable, so the first to write wins; two reservations and the pending *)
(* exits decide who may.  What lies between two awaits is one action; the  *)
(* database is synchronous.                                                *)
(***************************************************************************)
EXTENDS Naturals

CONSTANTS
  Callers,      \* those who call terminate
  MaxFaults,    \* writes that fail and backends that do not answer
  MaxRestarts   \* how often the runtime is restarted

Cancel == "cancel"   \* the attempt that cleans up after a cancelled spawn

ASSUME PtyAssumption ==
  /\ MaxFaults \in Nat /\ MaxRestarts \in Nat
  /\ Callers \cap {Cancel, "none", "retry"} = {}

VARIABLES
  backend,   \* the adapter this process is launched with
  row,       \* the row's status
  meta,      \* whether the row names its backend: a placeholder says node_pty
  proc,      \* what the operating system has: node-pty's child or tmux's session
  coming,    \* a request for a session that tmux has not acted on
  handle,    \* node-pty's liveSessions
  sup,       \* the supervisor: watching its stream, or with an exit in its queue
  deferred,  \* deferredWrites: an exit write left to the retry
  launch,    \* the allocation's phase
  term,      \* the termination reservation, with the exit it captured
  pc,        \* each attempt to terminate
  obs,       \* what each observer has asked tmux, and the status it started from
  gc,        \* what the collector's rows said when it went to list tmux's sessions
  faults, restarts

\* For the properties only.
VARIABLES
  late,      \* the session appeared after its launch was given up
  hits       \* attempts that were told they had killed the process

durable == <<backend, row, meta>>
host    == <<proc, coming, late>>
watch   == <<handle, sup, deferred>>
vars == <<durable, host, watch, launch, term, pc, obs, gc, faults, restarts, hits>>

Attempts  == Callers \union {Cancel}
Observers == {"poll", "attach", "cleanup"}

\* `unavailable`: running, with the reason that its backend did not answer. `ended`: with
\* an exit code or a signal. `missing`: no backend has it, and nobody knows why.
Open == {"starting", "running", "unavailable"}
Over == {"ended", "killed", "missing", "launch_failed"}

Phases  == {"none", "allocated", "preparing", "spawning", "cancelling", "done"}
Pending == {"allocated", "preparing", "spawning", "cancelling"}
\* `signalling`: before the first signal, with the processes' tree being read; `unaffirmed`:
\* nothing was demonstrably killed; `hit` is the outcome terminated_live.
Points   == {"idle", "probing", "signalling", "grace", "sweeping", "unaffirmed", "hit", "over"}
InFlight == {"probing", "signalling", "grace", "sweeping", "unaffirmed"}

\* owner: an attempt, or the retry that must still make the `write`; via: the backend
\* that the row named when the attempt read it.
Free == [owner |-> "none", via |-> "node_pty", exit |-> FALSE, write |-> "none"]
Reservation ==
  [owner : {"none", "retry"} \union Attempts, via : {"node_pty", "tmux"}, exit : BOOLEAN,
   write : {"none", "killed", "ended"}]
Unasked == [phase |-> "idle", seen |-> "running"]
Question == [phase : {"idle", "asked", "alive", "missing", "unavailable"}, seen : Open]

Init ==
  /\ backend \in {"node_pty", "tmux"}
  /\ row = "none" /\ meta = FALSE
  /\ proc = "none" /\ coming = FALSE /\ late = FALSE
  /\ handle = "none" /\ sup = "none" /\ deferred = FALSE
  /\ launch = "none" /\ term = Free
  /\ pc = [a \in Attempts |-> "idle"]
  /\ obs = [o \in Observers |-> Unasked]
  /\ gc = "idle"
  /\ faults = 0 /\ restarts = 0 /\ hits = 0

RowBackend == IF meta THEN backend ELSE "node_pty"

\* transitionProcess: a terminal row rejects every write.
Recorded(status) == IF row \in Open THEN status ELSE row

Fault == faults < MaxFaults /\ faults' = faults + 1
Fine  == UNCHANGED faults

\* Faulty: a launch does not keep the observers away.
ReservedByAttempt == term.owner # "none"
\* Faulty: neither does an attempt to terminate.
ReservedByLaunch == launch \in Pending
\* isRowReserved, skipReservedRow: what keeps a generic observer away.
Reserved == term.owner # "none" \/ launch \in Pending

\* Faulty: a write left to the retry is not a pending exit.
SupervisedExit == sup # "none"
\* isExitPending: the backend reported the exit, and the row does not say it yet.
ExitPending == sup # "none" \/ deferred

-----------------------------------------------------------------------------
(* The launch. *)

\* allocateLaunch: the reservation is visible together with the row.
Allocate ==
  /\ launch = "none"
  /\ row' = "starting" /\ launch' = "allocated"
  /\ UNCHANGED <<backend, meta, host, watch, term, pc, obs, gc, faults, restarts, hits>>

\* markLaunchFailed absorbs the failure of its own write.
MarkLaunchFailed ==
  \/ row' = Recorded("launch_failed") /\ Fine
  \/ row' = row /\ Fault

\* abandon, and a preparation that failed or was cancelled: nothing has reached a backend.
GiveUp ==
  /\ launch \in {"allocated", "preparing"}
  /\ MarkLaunchFailed /\ launch' = "done"
  /\ UNCHANGED <<backend, meta, host, watch, term, pc, obs, gc, restarts, hits>>
Start ==
  /\ launch = "allocated" /\ launch' = "preparing"
  /\ UNCHANGED <<durable, host, watch, term, pc, obs, gc, faults, restarts, hits>>
\* prepareLaunch: from here on the row tells how to inspect and to kill the process.
Prepare ==
  /\ launch = "preparing" /\ launch' = "spawning"
  /\ meta' = TRUE /\ coming' = (backend = "tmux")
  /\ UNCHANGED <<backend, row, proc, late, watch, term, pc, obs, gc, faults, restarts, hits>>

\* The row says running, or the write failed and the poller will say so.
LaunchRecorded == (row' = Recorded("running") /\ Fine) \/ (row' = row /\ Fault)

\* node-pty spawns synchronously, and the supervisor is forked without an interruption.
SpawnNodePty ==
  /\ launch = "spawning" /\ backend = "node_pty"
  /\ proc' = "live" /\ handle' = "held" /\ sup' = "watching"
  /\ LaunchRecorded /\ launch' = "done"
  /\ UNCHANGED <<backend, meta, coming, late, deferred, term, pc, obs, gc, restarts, hits>>
\* tmux's client returned. tmux reports no exit, so its supervisor ends at once.
SpawnTmux ==
  /\ launch = "spawning" /\ backend = "tmux" /\ proc # "none"
  /\ LaunchRecorded /\ launch' = "done"
  /\ UNCHANGED <<backend, meta, host, watch, term, pc, obs, gc, restarts, hits>>
\* foldSpawnFailure
SpawnFails ==
  /\ launch = "spawning" /\ proc = "none"
  /\ coming' = FALSE
  /\ MarkLaunchFailed /\ launch' = "done"
  /\ UNCHANGED <<backend, meta, proc, late, watch, term, pc, obs, gc, restarts, hits>>
\* The caller is interrupted during the spawn: cleanupCancelledSpawn terminates what there is.
CancelSpawn ==
  /\ launch = "spawning" /\ launch' = "cancelling"
  /\ UNCHANGED <<durable, host, watch, term, pc, obs, gc, faults, restarts, hits>>
\* start's finalizer, once the cleanup has answered.
LaunchSettles ==
  /\ launch = "cancelling" /\ pc[Cancel] \in {"hit", "over"}
  /\ launch' = "done"
  /\ UNCHANGED <<durable, host, watch, term, pc, obs, gc, faults, restarts, hits>>

\* The tmux server acts on new-session, if it heard of it before the client was killed.
SessionStarts ==
  /\ coming /\ coming' = FALSE
  /\ proc' = "live" /\ late' = (launch # "spawning")
  /\ UNCHANGED <<durable, watch, launch, term, pc, obs, gc, faults, restarts, hits>>
RequestLost ==
  /\ coming /\ launch # "spawning" /\ coming' = FALSE
  /\ UNCHANGED <<durable, proc, late, watch, launch, term, pc, obs, gc, faults, restarts, hits>>

-----------------------------------------------------------------------------
(* The end of the process, as its supervisor hears of it. *)

ProcessExits ==
  /\ proc = "live" /\ proc' = "dead"
  /\ UNCHANGED <<durable, coming, late, watch, launch, term, pc, obs, gc, faults, restarts, hits>>

\* onExit: a process that kill or terminate dropped is not reported; the stream ends.
ExitReported ==
  /\ sup = "watching" /\ proc = "dead"
  /\ sup' = IF handle = "held" THEN "queued" ELSE "none"
  /\ handle' = "none"
  /\ UNCHANGED <<durable, host, deferred, launch, term, pc, obs, gc, faults, restarts, hits>>

\* handleExit: an attempt that holds the row decides what the exit means; otherwise it is
\* written, or left to the retry before the supervisor ends.
HandleExit ==
  /\ sup = "queued" /\ sup' = "none"
  /\ IF term.owner # "none"
     THEN term' = [term EXCEPT !.exit = TRUE] /\ UNCHANGED <<row, deferred, faults>>
     ELSE /\ UNCHANGED term
          /\ \/ row' = Recorded("ended") /\ Fine /\ UNCHANGED deferred
             \/ deferred' = TRUE /\ Fault /\ UNCHANGED row
  /\ UNCHANGED <<backend, meta, host, handle, launch, pc, obs, gc, restarts, hits>>
\* Faulty: the retry gives up, and the exit stays pending.
RetryAbandoned == deferred /\ UNCHANGED vars
RetryExit ==
  /\ deferred /\ deferred' = FALSE
  /\ row' = Recorded("ended")
  /\ UNCHANGED <<backend, meta, host, handle, sup, launch, term, pc, obs, gc, faults,
                 restarts, hits>>

-----------------------------------------------------------------------------
(* An attempt to terminate: terminatePtyProcess. *)

At(a, from, to) == pc[a] = from /\ pc' = [pc EXCEPT ![a] = to]

\* reservePtyTermination: check and set, with nothing in between.
MayReserve == term.owner = "none"

\* Whether a is called: the command's lock keeps its stops and its cleanups apart.
Called(a) ==
  /\ row # "none"
  /\ IF a = Cancel THEN launch = "cancelling" ELSE obs["cleanup"].phase = "idle"
Reserve(a) ==
  /\ Called(a) /\ MayReserve
  /\ At(a, "idle", "probing")
  /\ term' = [Free EXCEPT !.owner = a, !.via = RowBackend]
  /\ UNCHANGED <<durable, host, watch, launch, obs, gc, faults, restarts, hits>>
Refused(a) ==
  /\ Called(a) /\ ~MayReserve
  /\ At(a, "idle", "over")
  /\ UNCHANGED <<durable, host, watch, launch, term, obs, gc, faults, restarts, hits>>

\* The adapter is probed; node-pty then looks whether it has the process at all.
Probe(a) ==
  /\ At(a, "probing", IF term.via = "node_pty" /\ handle # "held" THEN "unaffirmed"
                      ELSE "signalling")
  /\ UNCHANGED <<durable, host, watch, launch, term, obs, gc, faults, restarts, hits>>
\* `tmux -V` fails, or the request is cancelled before the first signal. The cleanup of a
\* cancelled spawn is itself not interruptible.
Stopped(a) ==
  /\ \/ a \in Callers /\ Fine
     \/ term.via = "tmux" /\ pc[a] = "probing" /\ Fault
  /\ At(a, "probing", "unaffirmed") \/ At(a, "signalling", "unaffirmed")
  /\ UNCHANGED <<durable, host, watch, launch, term, obs, gc, restarts, hits>>

\* node-pty: SIGTERM to a process it had, and the grace begins.
Signal(a) ==
  /\ term.via = "node_pty" /\ At(a, "signalling", "grace")
  /\ UNCHANGED <<durable, host, watch, launch, term, obs, gc, faults, restarts, hits>>
\* The grace is over. What still runs is dropped from liveSessions and killed.
GraceEnds(a) ==
  /\ At(a, "grace", "sweeping")
  /\ proc' = IF handle = "held" THEN "dead" ELSE proc
  /\ handle' = "none"
  /\ UNCHANGED <<durable, coming, late, sup, deferred, launch, term, obs, gc, faults, restarts,
                 hits>>
\* SIGKILL fails: back under tracking.
KillFails(a) ==
  /\ handle = "held" /\ Fault
  /\ At(a, "grace", "unaffirmed")
  /\ UNCHANGED <<durable, host, watch, launch, term, obs, gc, restarts, hits>>

\* tmux: kill-session, which answers hit, absent, or nothing at all, having acted or not;
\* then the grace of the descendants and the sweep.
KillSession(a) ==
  /\ term.via = "tmux"
  /\ \/ /\ At(a, "signalling", IF proc = "live" THEN "sweeping" ELSE "unaffirmed")
        /\ proc' = (IF proc = "live" THEN "dead" ELSE proc) /\ Fine
     \/ /\ At(a, "signalling", "unaffirmed")
        /\ proc' \in {proc, IF proc = "live" THEN "dead" ELSE proc} /\ Fault
  /\ UNCHANGED <<durable, coming, late, watch, launch, term, obs, gc, restarts, hits>>

\* Faulty: a killed write that fails is forgotten with its reservation.
AffirmForgets(a) ==
  /\ At(a, "sweeping", "hit") /\ hits' = hits + 1
  /\ term' = Free
  /\ \/ row' = Recorded("killed") /\ Fine
     \/ row' = row /\ Fault
  /\ UNCHANGED <<backend, meta, host, watch, launch, obs, gc, restarts>>
\* Faulty: the attempt does not hand its reservation to the retry.
AffirmKeeps(a) ==
  /\ At(a, "sweeping", "hit") /\ hits' = hits + 1
  /\ \/ row' = Recorded("killed") /\ term' = Free /\ Fine
     \/ term' = [term EXCEPT !.write = "killed"] /\ Fault /\ UNCHANGED row
  /\ UNCHANGED <<backend, meta, host, watch, launch, obs, gc, restarts>>
\* An affirmative kill: the row says killed, or the retry takes the write and the reservation.
Affirm(a) ==
  /\ At(a, "sweeping", "hit") /\ hits' = hits + 1
  /\ \/ row' = Recorded("killed") /\ term' = Free /\ Fine
     \/ term' = [term EXCEPT !.owner = "retry", !.write = "killed"] /\ Fault /\ UNCHANGED row
  /\ UNCHANGED <<backend, meta, host, watch, launch, obs, gc, restarts>>

\* No affirmative kill: an exit captured meanwhile is independent evidence, and is written
\* under the reservation (persistCapturedExitAndRelease, concludeReservation).
Conclude(a) ==
  /\ At(a, "unaffirmed", "over")
  /\ IF term.exit
     THEN \/ row' = Recorded("ended") /\ term' = Free /\ Fine
          \/ term' = [term EXCEPT !.owner = "retry", !.write = "ended"] /\ Fault
             /\ UNCHANGED row
     ELSE term' = Free /\ Fine /\ UNCHANGED row
  /\ UNCHANGED <<backend, meta, host, watch, launch, obs, gc, restarts, hits>>

\* The persistence retry: a row that is already terminal settles it too.
RetryTermination ==
  /\ term.owner = "retry"
  /\ row' = Recorded(term.write) /\ term' = Free
  /\ UNCHANGED <<backend, meta, host, watch, launch, pc, obs, gc, faults, restarts, hits>>

Terminate(a) ==
  \/ Reserve(a) \/ Refused(a) \/ Probe(a) \/ Stopped(a) \/ Signal(a) \/ GraceEnds(a)
  \/ KillFails(a) \/ KillSession(a) \/ Affirm(a) \/ Conclude(a)

-----------------------------------------------------------------------------
(* The observers: the poller, a failed attachment, a cleanup. *)

\* Who may begin to judge the row. A cleanup asks no reservation: it runs under the
\* command's lock, where it may still meet a write left to the retry.
MayJudge(o) ==
  /\ row \in Open
  /\ CASE o = "poll"    -> ~Reserved
       [] o = "attach"  -> ~Reserved /\ ~ExitPending /\ row # "starting"
       [] o = "cleanup" -> launch \notin Pending /\ \A a \in Attempts : pc[a] \notin InFlight

\* node-pty answers at once, out of liveSessions.
JudgeNodePty(o) ==
  /\ RowBackend = "node_pty" /\ MayJudge(o)
  /\ o = "poll" \/ handle # "held"
  /\ row' = IF handle = "held" THEN "running" ELSE IF ExitPending THEN row ELSE "missing"
  /\ UNCHANGED <<backend, meta, host, watch, launch, term, pc, obs, gc, faults, restarts, hits>>

\* tmux is asked (has-session), answers, and the answer is used.
AskTmux(o) ==
  /\ RowBackend = "tmux" /\ MayJudge(o) /\ obs[o].phase = "idle"
  /\ obs' = [obs EXCEPT ![o] = [phase |-> "asked", seen |-> row]]
  /\ UNCHANGED <<durable, host, watch, launch, term, pc, gc, faults, restarts, hits>>
Told(o, answer) == obs' = [obs EXCEPT ![o] = [phase |-> answer, seen |-> obs[o].seen]]
TmuxAnswers(o) ==
  /\ obs[o].phase = "asked"
  /\ \/ Told(o, IF proc = "live" THEN "alive" ELSE "missing") /\ Fine
     \/ Told(o, "unavailable") /\ Fault
  /\ UNCHANGED <<durable, host, watch, launch, term, pc, gc, restarts, hits>>

\* What an answer is worth, against the status the observer started from.
Verdict(o) ==
  CASE obs[o].phase = "alive" /\ o = "poll" /\ obs[o].seen # "running" -> "running"
    [] obs[o].phase = "missing" /\ (o = "attach" \/ ~ExitPending)      -> "missing"
    [] obs[o].phase = "unavailable" /\ o # "cleanup"
         /\ obs[o].seen # "unavailable"                                -> "unavailable"
    [] OTHER                                                           -> row
JudgeTmux(o) ==
  /\ obs[o].phase \in {"alive", "missing", "unavailable"}
  /\ obs' = [obs EXCEPT ![o] = Unasked]
  /\ row' = Recorded(Verdict(o))
  /\ UNCHANGED <<backend, meta, host, watch, launch, term, pc, gc, faults, restarts, hits>>

\* An attachment that succeeds on a row whose backend had not answered.
AttachHeals ==
  /\ row = "unavailable" /\ row' = "running"
  /\ UNCHANGED <<backend, meta, host, watch, launch, term, pc, obs, gc, faults, restarts, hits>>

Observe(o) == JudgeNodePty(o) \/ AskTmux(o) \/ TmuxAnswers(o) \/ JudgeTmux(o)

-----------------------------------------------------------------------------
(* The collector and the restart. *)

\* cleanupBackendProcesses reads the rows first. node-pty's entries are then at hand, and
\* none belongs to a row that is over (EntriesAreOpen, in PtyProcessesProofs): it collects nothing.
\* tmux's are listed after two awaits (available, list-sessions).
ReadRows ==
  /\ gc = "idle"
  /\ gc' = IF row = "none" \/ RowBackend # "tmux" THEN "unknown"
           ELSE IF row \in Over THEN "over" ELSE "open"
  /\ UNCHANGED <<durable, host, watch, launch, term, pc, obs, faults, restarts, hits>>

\* collectTmuxGarbage: a session that no tmux row names, or whose row is terminal.
Garbage == gc \in {"unknown", "over"}
SweepTmux ==
  /\ gc # "idle" /\ gc' = "idle"
  /\ proc' = IF backend = "tmux" /\ proc = "live" /\ Garbage THEN "dead" ELSE proc
  /\ UNCHANGED <<durable, coming, late, watch, launch, term, pc, obs, faults, restarts, hits>>

\* The runtime's memory and its children go. The startup pass calls every open row of
\* node-pty lost; tmux's rows are polled as ever.
Restart ==
  /\ restarts < MaxRestarts /\ restarts' = restarts + 1
  /\ row' = IF RowBackend = "node_pty" THEN Recorded("missing") ELSE row
  /\ proc' = IF backend = "node_pty" /\ proc = "live" THEN "dead" ELSE proc
  /\ handle' = "none" /\ sup' = "none" /\ deferred' = FALSE
  /\ launch' = IF launch = "none" THEN "none" ELSE "done"
  /\ term' = Free
  /\ pc' = [a \in Attempts |-> "idle"]
  /\ obs' = [o \in Observers |-> Unasked]
  /\ gc' = "idle"
  /\ UNCHANGED <<backend, meta, coming, late, faults, hits>>

-----------------------------------------------------------------------------
Launch == GiveUp \/ Start \/ Prepare \/ SpawnNodePty \/ SpawnTmux \/ SpawnFails \/ LaunchSettles
Collect == ReadRows \/ SweepTmux

Next ==
  \/ Allocate \/ Launch \/ CancelSpawn
  \/ SessionStarts \/ RequestLost \/ ProcessExits
  \/ ExitReported \/ HandleExit \/ RetryExit \/ RetryTermination
  \/ \E a \in Attempts : Terminate(a)
  \/ \E o \in Observers : Observe(o)
  \/ AttachHeals \/ Collect \/ Restart

Spec == Init /\ [][Next]_vars

\* Fibers run on, timers tick, the poller and the collector come round, and a request that
\* reached tmux's server is acted on or lost. Nobody has to launch, to terminate, to attach,
\* to clean up or to end the process.
Fairness ==
  /\ WF_vars(Launch) /\ WF_vars(SessionStarts \/ RequestLost)
  /\ WF_vars(ExitReported) /\ WF_vars(HandleExit)
  /\ WF_vars(RetryExit) /\ WF_vars(RetryTermination)
  /\ \A a \in Callers : WF_vars(Terminate(a) /\ pc[a] # "idle")
  /\ WF_vars(Terminate(Cancel))
  /\ WF_vars(Observe("poll")) /\ WF_vars(Collect)

FairSpec == Spec /\ Fairness

-----------------------------------------------------------------------------
Typed ==
  /\ backend \in {"node_pty", "tmux"} /\ row \in {"none"} \union Open \union Over
  /\ meta \in BOOLEAN /\ proc \in {"none", "live", "dead"}
  /\ coming \in BOOLEAN /\ late \in BOOLEAN
  /\ handle \in {"none", "held"} /\ sup \in {"none", "watching", "queued"}
  /\ deferred \in BOOLEAN /\ launch \in Phases
  /\ term \in Reservation /\ pc \in [Attempts -> Points]
  /\ obs \in [Observers -> Question] /\ gc \in {"idle", "unknown", "open", "over"}
  /\ faults \in Nat /\ restarts \in Nat /\ hits \in Nat
Held ==
  /\ \A a \in Attempts : pc[a] \in InFlight <=> term.owner = a
  /\ term.owner = "retry" <=> term.write # "none"
\* The state of one process: an attempt in flight holds the reservation and nobody else
\* does; the retry holds it with a write to make.
TypeOK == Typed /\ Held

\* transitionProcess, isRowReserved: a row that says the process is over is right; only a
\* session that tmux starts after its launch was given up can be live behind it.
OverIsOver == row \in Over /\ ~late => proc # "live"

\* reservePtyTermination: of all who ever terminate the process, one is told it did.
OneKiller == hits <= 1

\* isExitPending, skipReservedRow: an exit that was reported becomes the row's, or gives way
\* to the kill that captured it; a cleanup alone may overlook it, under a write that failed.
ReportedExitWins ==
  [][row' = "missing" /\ row \in Open /\ (sup = "queued" \/ deferred \/ term.exit)
       => term.owner = "retry" \/ restarts' # restarts]_vars

\* skipReservedRow: no observer gives a row that an attempt or a launch holds an outcome of
\* its own, unless it asked tmux before and is only now answered.
ReservedIsLeftAlone ==
  [][/\ term.owner \in Attempts \/ launch \in Pending
     /\ row \in Open /\ row' = "missing"
     => \/ restarts' # restarts
        \/ \E o \in Observers : obs[o].phase = "missing" /\ obs'[o].phase = "idle"]_vars

\* persistCapturedExitAndRelease: an exit that an attempt captured is not let go of before
\* the row has an outcome.
CapturedIsSettled ==
  [][term.exit /\ ~term'.exit => row' \in Over \/ restarts' # restarts]_vars

\* retryPersistKilledUntilSuccess: whoever was told it killed the process finds the row
\* over, or its write with the retry.
KillIsRecorded ==
  \A a \in Attempts : pc[a] = "hit" => row \in Over \/ term.owner = "retry"

\* Affirm, retryPersistKilledUntilSuccess: a kill has one author, and a record.
KillsAreKept == OneKiller /\ KillIsRecorded

\* persistExit, persistCapturedExitAndRelease: an exit that is known is not lost again.
ExitsAreKept == ReportedExitWins /\ CapturedIsSettled

\* Every process that ended is recorded as ended, whoever failed on the way.
DeadIsRecorded == proc = "dead" ~> row \in Over
\* collectPtyGarbage: what lives behind a terminal row is found and killed.
LiarsAreCollected == (row \in Over /\ proc = "live") ~> proc = "dead"
\* concludeReservation: no reservation stays.
ReservationsAreReleased == term.owner # "none" ~> term.owner = "none"
\* Nothing is left half done: every end is recorded, every reservation let go of, and every
\* session that nobody accounts for collected.
EndsAreSettled == DeadIsRecorded /\ LiarsAreCollected /\ ReservationsAreReleased

\* What the process's owners read, and what they may rely on.
Contract == INSTANCE PtyContract
SeenRow == IF row \in Open THEN "open" ELSE row
SeenProc ==
  CASE proc = "none" /\ (launch = "spawning" \/ coming) -> "asked"
    [] proc = "live" /\ late                              -> "stray"
    [] OTHER                                             -> proc
AsContract == [row |-> SeenRow, proc |-> SeenProc]
\* transitionProcess, PtyProcessStatus: the service implements the contract its owners are
\* built on. Each step is one of the contract's, or nothing that an owner could see.
KeepsContract ==
  AsContract = Contract!Fresh /\ [][Contract!Step(AsContract, AsContract')]_AsContract

\* gc.ts: a launch in flight is no garbage, and neither is a process whose row is open.
SweepSparesLaunches ==
  [][gc # "idle" /\ gc' = "idle" /\ proc' # proc => row \in Over \/ restarts' # restarts]_vars
=============================================================================
