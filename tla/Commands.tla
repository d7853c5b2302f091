------------------------------ MODULE Commands ------------------------------
(***************************************************************************)
(* One managed command of one worktree (commands/service.ts, launch.ts,    *)
(* lifecycle.ts, convergence.ts, outcomes.ts, repository.ts).  Commands    *)
(* share nothing but the queue of events: each has a lock of its own.      *)
(*                                                                         *)
(* The state row says what the command is and points at its process; the   *)
(* run rows, of which a launch keeps the newest, name the processes too.   *)
(* Both are made true from three sides, under the lock: the launch or the  *)
(* stop that holds it, the events of the PTY service, and the accounting   *)
(* at boot.  Every durable write is a step, for a crash may follow it.     *)
(* The processes obey PtyContract.                                         *)
(***************************************************************************)
EXTENDS Integers, Sequences

CONSTANTS
  MaxProcesses,   \* processes ever allocated for the command
  MaxRuns,        \* runs kept at once: each launch that ends before it prunes leaves one
  MaxTroubles     \* writes that fail, backends that do not answer, restarts of the runtime

ASSUME CommandsAssumption ==
  /\ MaxProcesses \in Nat \ {0} /\ MaxRuns \in Nat \ {0}
  /\ MaxTroubles \in Nat

VARIABLES
  backend,   \* where its processes run: tmux's outlive the runtime
  state,     \* the state row: the status, and the process it points at
  runs,      \* the run rows, oldest first
  procs,     \* each process, as PtyContract has it
  ours,      \* processes whose end the runtime caused: interruptedByRuntime
  owed,      \* processes that were killed, with the write left to the retry
  queue,     \* processes whose end was announced and not yet reconciled
  op,        \* who holds the command's lock, and where it is
  audit,     \* the deletion audit: whether it has read its links
  plan,      \* the activation plan's entry for this command
  up,        \* the runtime: accounting at boot, up, or closing
  count,     \* the accounting, at boot or of the audit: the processes it has still to clean
             \* up, those it could not, and whether the state claimed to run
  faults, restarts

\* For the properties only.
VARIABLES
  lost,      \* processes whose end nobody will reconcile before the next boot
  stopped,   \* the user's last request was a stop, it was answered, and nothing was taken back since
  dropped    \* processes whose run the audit took for another one that it could not verify

rows == <<state, runs>>
pty  == <<procs, ours, owed, queue, lost>>
promise == <<stopped, dropped>>
vars == <<backend, rows, pty, op, audit, plan, up, count, faults, restarts, promise>>

Pty == INSTANCE PtyContract

Procs     == 1..MaxProcesses
Nobody    == 0
Statuses  == {"idle", "running", "suspended", "exited", "stopped", "failed"}
\* `interrupted`: failed, with the diagnostic runtime_stopped. `exited` stands for every code.
RunStatus == {"running", "interrupted", "exited", "stopped", "failed"}
Causes    == {"user", "deactivation", "shutdown"}
\* A launch, from createRun on; a stop; the audit of a deletion.
Points == {"free", "pruning", "marking", "allocating", "linking", "starting", "handing",
           "stopping", "terminating", "finalizing", "relaunching", "auditing"}
Launching == {"pruning", "marking", "allocating", "linking", "starting", "handing"}

Free == [at |-> "free", pid |-> Nobody, cause |-> "user", again |-> FALSE]
Held == [at : Points, pid : {Nobody} \union Procs, cause : Causes, again : BOOLEAN]
Uncounted == [todo |-> {}, failed |-> {}, unresolved |-> {}, claims |-> FALSE]
Count == [todo : SUBSET Procs, failed : SUBSET Procs, unresolved : SUBSET Procs, claims : BOOLEAN]

Init ==
  /\ backend \in {"node_pty", "tmux"}
  /\ state = [status |-> "idle", ptr |-> Nobody] /\ runs = <<>>
  /\ procs = [p \in Procs |-> Pty!Fresh]
  /\ ours = {} /\ owed = {} /\ queue = {} /\ lost = {}
  /\ op = Free /\ audit = "idle" /\ plan = "none"
  /\ up = "ready" /\ count = Uncounted
  /\ faults = 0 /\ restarts = 0 /\ stopped = FALSE /\ dropped = {}

Fault == faults + restarts < MaxTroubles /\ faults' = faults + 1
Fine  == UNCHANGED faults

Open(p)  == procs[p].row = "open"
Over(p)  == procs[p].row \in Pty!Fates
Alive(p) == procs[p].proc \in Pty!Alive

-----------------------------------------------------------------------------
(* The rows. *)

Newest    == Len(runs)
Named(p)  == runs # <<>> /\ runs[Newest].pty = p
Linked(p) == \E i \in DOMAIN runs : runs[i].pty = p
\* listCommandPtyLinks
Links == {p \in Procs : state.ptr = p \/ Linked(p)}
NewestOf(p) ==
  CHOOSE i \in DOMAIN runs : runs[i].pty = p /\ \A j \in DOMAIN runs : runs[j].pty = p => j <= i

\* terminalCommandOutcomeForPtyRow
Outcome(p) ==
  CASE p \in ours                -> "interrupted"
    [] procs[p].row = "ended"    -> "exited"
    [] procs[p].row = "killed"   -> "stopped"
    [] OTHER                     -> "failed"
\* commandStateForCompletedRun
StateOf(outcome) == IF outcome = "interrupted" THEN "suspended" ELSE outcome

\* A run is completed once.
Completed(i, outcome) ==
  IF runs[i].status = "running" THEN [runs EXCEPT ![i].status = outcome] ELSE runs

\* Faulty: the pointer is left where it was.
RestsPointing(status) == state' = [state EXCEPT !.status = status]
Rests(status) == state' = [status |-> status, ptr |-> Nobody]

\* Faulty: whoever ended, the command has.
PointsAnywhere(p) == state.status = "running"
\* The state moves while it points at the process that ended.
PointsAt(p) == state.ptr = p

\* finalizeRunAndStateByPty
FinalizeByPty(p, outcome, status) ==
  /\ runs' = IF Linked(p) THEN Completed(NewestOf(p), outcome) ELSE runs
  /\ IF PointsAt(p) THEN Rests(status) ELSE UNCHANGED state
\* finalizeRunAndStateByRun, for the newest run
FinalizeByRun(outcome, status) ==
  /\ runs' = Completed(Newest, outcome)
  /\ IF state.status = "running" THEN Rests(status) ELSE UNCHANGED state
\* readoptCommandIncarnation
Readopt(p) ==
  /\ state' = [status |-> "running", ptr |-> p]
  /\ runs' = IF runs = <<>> THEN <<[status |-> "running", pty |-> p]>>
             ELSE [runs EXCEPT ![Newest] = [status |-> "running", pty |-> p]]

-----------------------------------------------------------------------------
(* The processes. *)

Subscribed == up \in {"ready", "closing"}
\* Faulty: a kill is not announced, for whoever asked for it records it.
AnnouncesExits(p, q) ==
  /\ procs' = [procs EXCEPT ![p] = q]
  /\ LET told == Open(p) /\ q.row = "ended" IN
     /\ queue' = IF told /\ Subscribed THEN queue \union {p} ELSE queue
     /\ lost'  = IF told /\ ~Subscribed THEN lost \union {p} ELSE lost
\* A row that gets its fate is announced; before the service has subscribed, to nobody.
Becomes(p, q) ==
  /\ procs' = [procs EXCEPT ![p] = q]
  /\ LET told == Open(p) /\ q.row # "open" IN
     /\ queue' = IF told /\ Subscribed THEN queue \union {p} ELSE queue
     /\ lost'  = IF told /\ ~Subscribed THEN lost \union {p} ELSE lost

\* What goes on without the command's lock: a backend starts what it was asked to, a process
\* ends, its row is judged. A process that an attempt holds is left alone, and so is a launch.
Begun(p) ==
  {q \in Pty!Started(procs[p]) :
     IF op.at = "starting" /\ op.pid = p THEN q.proc = "live"
     ELSE backend = "tmux" /\ q.proc = "stray"}
\* tmux reports no exit: its processes are missed. node-pty misses what never started.
Judged(p) ==
  {q \in Pty!Concluded(procs[p]) :
     IF op.pid = p /\ op.at \in {"linking", "starting", "finalizing"}
     THEN /\ op.at = "starting"
          /\ q.row = "launch_failed" \/ (q.row = "ended" /\ backend = "node_pty")
     ELSE q.row = IF p \in owed THEN "killed"
                  ELSE IF backend = "tmux" \/ procs[p].proc # "dead" THEN "missing" ELSE "ended"}
Moves(p) ==
  \E q \in Begun(p) \union Judged(p) \union Pty!Forgotten(procs[p]) \union Pty!Ended(procs[p]) :
    /\ Becomes(p, q)
    /\ owed' = IF q.row # "open" THEN owed \ {p} ELSE owed
    /\ ours' = IF q.row = "missing" /\ Open(p) /\ backend = "node_pty"
               THEN ours \union {p} ELSE ours
    /\ UNCHANGED <<backend, rows, op, audit, plan, up, count, faults, restarts, promise>>

\* A kill that is affirmed: the row says so, or the write is left to the retry.
Killed(p, cause) ==
  /\ Alive(p)
  /\ \E q \in Pty!Ended(procs[p]) :
       \/ Over(p) /\ Becomes(p, q) /\ Fine /\ UNCHANGED owed
       \/ Open(p) /\ Becomes(p, [q EXCEPT !.row = "killed"]) /\ Fine /\ UNCHANGED owed
       \/ Open(p) /\ Becomes(p, q) /\ Fault /\ owed' = owed \union {p}
  /\ ours' = IF cause = "shutdown" /\ Open(p) THEN ours \union {p} ELSE ours

-----------------------------------------------------------------------------
(* A launch: runCommand. *)

MayBegin == up = "ready" /\ op = Free

\* Before the marker only the run is completed, and the status stays what it was; the write
\* of that may fail as well.
GivesUpBeforeMarker ==
  /\ UNCHANGED state
  /\ \/ runs' = Completed(Newest, "failed") /\ faults + restarts < MaxTroubles /\ faults' = faults + 1
     \/ UNCHANGED runs /\ faults + restarts + 1 < MaxTroubles /\ faults' = faults + 2

\* failedRun: the working directory, a port or the environment is not to be had.
FailsBefore == runs' = <<[status |-> "failed", pty |-> Nobody]>> /\ Rests("failed") /\ op' = Free
CreatesRun ==
  /\ Len(runs) < MaxRuns
  /\ runs' = Append(runs, [status |-> "running", pty |-> Nobody])
  /\ op' = [Free EXCEPT !.at = "pruning"]
  /\ UNCHANGED state
\* Faulty: the status is not looked at again under the lock.
LaunchesAgain == FailsBefore \/ CreatesRun
Launches == state.status # "running" /\ (FailsBefore \/ CreatesRun)

Run ==
  /\ MayBegin /\ Launches /\ stopped' = FALSE
  /\ UNCHANGED <<backend, pty, audit, plan, up, count, faults, restarts, dropped>>
\* pruneRunHistory keeps the newest.
Prune ==
  /\ op.at = "pruning"
  /\ \/ runs' = <<runs[Newest]>> /\ op' = [op EXCEPT !.at = "marking"] /\ Fine /\ UNCHANGED state
     \/ GivesUpBeforeMarker /\ op' = Free
  /\ UNCHANGED <<backend, pty, audit, plan, up, count, restarts, promise>>
\* markLaunchInProgress: running, and no pointer yet.
Mark ==
  /\ op.at = "marking"
  /\ \/ Rests("running") /\ op' = [op EXCEPT !.at = "allocating"] /\ Fine /\ UNCHANGED runs
     \/ GivesUpBeforeMarker /\ op' = Free
  /\ UNCHANGED <<backend, pty, audit, plan, up, count, restarts, promise>>
Allocate ==
  /\ op.at = "allocating"
  /\ \/ \E p \in Procs :
          /\ \A r \in Procs : r < p <=> procs[r] # Pty!Fresh
          /\ \E q \in Pty!Allocated(procs[p]) : Becomes(p, q)
          /\ op' = [op EXCEPT !.at = "linking", !.pid = p]
          /\ Fine /\ UNCHANGED rows
     \/ FinalizeByRun("failed", "failed") /\ op' = Free /\ Fault /\ UNCHANGED <<procs, queue, lost>>
  /\ UNCHANGED <<backend, ours, owed, audit, plan, up, count, restarts, promise>>
\* An allocation that is abandoned never reaches a backend.
Abandons(p) ==
  /\ \E q \in Pty!Concluded(procs[p]) : q.row = "launch_failed" /\ Becomes(p, q)
  /\ UNCHANGED <<ours, owed>>
\* Faulty: the run is linked once there is a process.
LinkLater ==
  /\ op.at = "linking"
  /\ \E q \in Pty!Asked(procs[op.pid]) : Becomes(op.pid, q)
  /\ op' = [op EXCEPT !.at = "starting"]
  /\ UNCHANGED <<backend, rows, ours, owed, audit, plan, up, count, faults, restarts, promise>>
\* updateRunPty, before any process exists. If it fails, and the convergence too, the
\* residue is left to boot.
Link ==
  /\ op.at = "linking"
  /\ \/ /\ runs' = [runs EXCEPT ![Newest].pty = op.pid]
        /\ \E q \in Pty!Asked(procs[op.pid]) : Becomes(op.pid, q)
        /\ op' = [op EXCEPT !.at = "starting"]
        /\ Fine /\ UNCHANGED <<state, ours, owed>>
     \/ /\ Abandons(op.pid) /\ op' = Free
        /\ \/ FinalizeByRun("failed", "failed") /\ Fault
           \/ UNCHANGED rows /\ faults + restarts + 1 < MaxTroubles /\ faults' = faults + 2
  /\ UNCHANGED <<backend, audit, plan, up, count, restarts, promise>>
\* start has answered: there is a process, or was, or the row says why not.
Started ==
  /\ op.at = "starting" /\ procs[op.pid].proc # "asked"
  /\ op' = [op EXCEPT !.at = "handing"]
  /\ UNCHANGED <<backend, rows, pty, audit, plan, up, count, faults, restarts, promise>>
Installs(p) == state' = [status |-> "running", ptr |-> p] /\ UNCHANGED runs
\* The row is read: only its fate may end the launch here, and an unreadable row does not. A
\* pointer that cannot be written is left null. interruptionFinalizer does the same.
HandOver ==
  /\ op.at = "handing" /\ op' = Free
  /\ \/ /\ IF Over(op.pid) THEN FinalizeByRun(Outcome(op.pid), StateOf(Outcome(op.pid)))
           ELSE Installs(op.pid)
        /\ Fine
     \/ Installs(op.pid) /\ Fault
     \/ UNCHANGED rows /\ Fault
  /\ UNCHANGED <<backend, pty, audit, plan, up, count, restarts, promise>>
\* The caller is interrupted before anything was linked: interruptionFinalizer, under the lock.
CancelLaunch ==
  /\ op.at \in Launching \ {"starting", "handing"} /\ op' = Free
  /\ (FinalizeByRun("failed", "failed") /\ Fine) \/ (UNCHANGED rows /\ Fault)
  /\ IF op.pid = Nobody THEN UNCHANGED pty ELSE Abandons(op.pid)
  /\ UNCHANGED <<backend, audit, plan, up, count, restarts, promise>>
\* Or while the backend starts it: what there is, is terminated first (cleanupCancelledSpawn).
CancelStart ==
  /\ op.at = "starting" /\ op' = [op EXCEPT !.at = "handing"]
  /\ IF Alive(op.pid) /\ Open(op.pid)
     THEN Killed(op.pid, "user") \/ (Fault /\ UNCHANGED pty)
     ELSE UNCHANGED <<pty, faults>>
  /\ UNCHANGED rows
  /\ UNCHANGED <<backend, audit, plan, up, count, restarts, promise>>

-----------------------------------------------------------------------------
(* A stop, and the stop of a restart: stopResolvedCommand. *)

\* A restart launches, under the same lock.
After == IF op.again THEN [Free EXCEPT !.at = "relaunching"] ELSE Free
Relaunch ==
  /\ op.at = "relaunching"
  /\ Launches \/ (state.status = "running" /\ op' = Free /\ UNCHANGED rows)
  /\ UNCHANGED <<backend, pty, audit, plan, up, count, faults, restarts, promise>>
\* The answer that the user's stop gets: from here on nothing may bring the command back.
Answered ==
  stopped' = IF op.cause = "user" /\ ~op.again THEN TRUE ELSE stopped

\* By the user, by a restart, or by leaving the worktree, which keeps a suspension.
Stop(cause, again) ==
  /\ MayBegin
  /\ CASE state.status = "running" ->
            /\ op' = [at |-> "stopping", pid |-> Nobody, cause |-> cause, again |-> again]
            /\ UNCHANGED state
       [] state.status = "suspended" ->
            /\ cause = "user" /\ Rests("stopped")
            /\ op' = IF again THEN [Free EXCEPT !.at = "relaunching"] ELSE Free
       [] OTHER -> again /\ op' = [Free EXCEPT !.at = "relaunching"] /\ UNCHANGED state
  /\ stopped' = IF again THEN FALSE ELSE IF op' = Free THEN TRUE ELSE stopped
  /\ UNCHANGED <<backend, runs, pty, audit, plan, up, count, faults, restarts, dropped>>

\* resolvePointerlessRunningState: only the newest run knows which process was meant.
Resolve ==
  /\ op.at = "stopping"
  /\ LET p == runs[Newest].pty
         outcome == Outcome(p) IN
     CASE state.ptr # Nobody ->
            op' = [op EXCEPT !.at = "terminating", !.pid = state.ptr] /\ UNCHANGED <<rows, stopped>>
       [] state.ptr = Nobody /\ p = Nobody ->
            FinalizeByRun("failed", "failed") /\ op' = After /\ Answered
       [] state.ptr = Nobody /\ p # Nobody /\ Over(p) ->
            LET status == IF op.cause # "deactivation" /\ outcome = "interrupted" THEN "failed"
                          ELSE StateOf(outcome)
            IN FinalizeByRun(outcome, status) /\ op' = After /\ Answered
       [] OTHER ->
            Readopt(p) /\ op' = [op EXCEPT !.at = "terminating", !.pid = p] /\ UNCHANGED stopped
  /\ UNCHANGED <<backend, pty, audit, plan, up, count, faults, restarts, dropped>>
\* terminated_live
Hit ==
  /\ op.at = "terminating" /\ op' = [op EXCEPT !.at = "finalizing"]
  /\ Killed(op.pid, op.cause)
  /\ UNCHANGED <<backend, rows, audit, plan, up, count, restarts, promise>>
\* already_absent: what ended the process owns the outcome.
Absent ==
  /\ op.at = "terminating" /\ ~Alive(op.pid) /\ op' = After
  /\ UNCHANGED <<backend, rows, pty, audit, plan, up, count, faults, restarts, promise>>
\* recordProcessControlFailure; or the process cannot be looked up, or the caller is
\* interrupted before the first signal.
StopFails ==
  /\ op.at \in {"stopping", "terminating"} /\ op' = Free
  /\ \/ op.at = "terminating" /\ Readopt(op.pid) /\ Fault
     \/ UNCHANGED rows /\ (op.cause = "user" \/ faults + restarts < MaxTroubles) /\ Fine
  /\ UNCHANGED <<backend, pty, audit, plan, up, count, restarts, promise>>
\* The suspension is minted here, by a kill that leaving the worktree made.
Finalize ==
  /\ op.at = "finalizing"
  /\ \/ /\ LET status == IF op.cause = "deactivation" THEN "suspended" ELSE "stopped"
           IN FinalizeByPty(op.pid, "stopped", status)
        /\ op' = After /\ Answered /\ Fine
     \/ UNCHANGED <<rows, stopped>> /\ op' = Free /\ ((op.cause = "user" /\ Fine) \/ Fault)
  /\ UNCHANGED <<backend, pty, audit, plan, up, count, restarts, dropped>>

-----------------------------------------------------------------------------
(* The events: reconcilePtyProcessEvent, a fiber per event, under the command's lock. *)

\* A process that no run names any more is skipped; a failed write is only logged.
Handle(p) ==
  /\ p \in queue /\ Subscribed /\ op = Free
  /\ queue' = queue \ {p}
  /\ \/ /\ IF Linked(p) THEN FinalizeByPty(p, Outcome(p), StateOf(Outcome(p)))
           ELSE UNCHANGED rows
        /\ Fine /\ UNCHANGED lost
     \/ Fault /\ lost' = lost \union ({p} \cap {state.ptr}) /\ UNCHANGED rows
  /\ UNCHANGED <<backend, procs, ours, owed, op, audit, plan, up, count, restarts, promise>>

-----------------------------------------------------------------------------
(* Arriving at the worktree: a plan, and its entry executed later, under the lock. *)

MakePlan ==
  /\ up = "ready" /\ plan = "none"
  /\ plan' = CASE state.status = "suspended" -> "resume"
               [] state.status = "idle"      -> "automation"
               [] OTHER                      -> "none"
  /\ plan' # "none"
  /\ UNCHANGED <<backend, rows, pty, op, audit, up, count, faults, restarts, promise>>

\* Faulty: the plan is carried out as it was made.
ExecuteBlindly ==
  /\ MayBegin /\ plan # "none" /\ plan' = "none"
  /\ Launches \/ UNCHANGED <<rows, op>>
  /\ UNCHANGED <<backend, pty, audit, up, count, faults, restarts, promise>>
\* executeActivationEntry: what the state says now wins over the plan; so may the config.
Execute ==
  /\ MayBegin /\ plan # "none" /\ plan' = "none"
  /\ \/ /\ state.status = IF plan = "resume" THEN "suspended" ELSE "idle"
        /\ Launches
     \/ UNCHANGED <<rows, op>>
  /\ UNCHANGED <<backend, pty, audit, up, count, faults, restarts, promise>>

-----------------------------------------------------------------------------
(* Accounting, at boot and before a worktree is deleted: cleanupCommandIncarnations. *)

\* cleanupProcess, one candidate: verified to be gone, or killed. With `sure` a row that is
\* over is not believed.
Accounted(p, cause, sure) ==
  \/ /\ Over(p) /\ ~(sure /\ Alive(p))
     /\ UNCHANGED <<pty, faults>>
  \/ /\ Alive(p) /\ (Open(p) \/ sure)
     /\ Killed(p, cause)
  \/ /\ Open(p) /\ ~Alive(p) /\ Fine
     /\ \E q \in Pty!Concluded(procs[p]) : q.row = "missing" /\ Becomes(p, q)
     /\ owed' = owed \ {p}
     /\ ours' = IF backend = "node_pty" THEN ours \union {p} ELSE ours
  \* An exit that is about to be written.
  \/ /\ Open(p) /\ procs[p].proc = "dead" /\ up = "ready"
     /\ UNCHANGED <<pty, faults>>
\* Nobody can tell: the row as it stands then says whether the process may still be there.
Unaccounted(p) ==
  count' = [count EXCEPT !.todo = @ \ {p}, !.failed = @ \union {p},
                         !.unresolved = IF Open(p) THEN @ \union {p} ELSE @]
Cleans(p, cause, sure) ==
  /\ p \in count.todo
  /\ \/ /\ Accounted(p, cause, sure)
        /\ count' = [count EXCEPT !.todo = @ \ {p}]
     \/ Unaccounted(p) /\ Fault /\ UNCHANGED pty

\* The only one that is left is taken back; of several, every link is kept.
Adopts ==
  IF \E p \in count.unresolved : count.failed = {p}
  THEN (\E p \in count.failed : Readopt(p)) /\ stopped' = FALSE
  ELSE UNCHANGED <<rows, stopped>>

\* repairResolvedRunningCommand
Repairs ==
  LET run == runs[Newest]
      outcome == IF run.pty # Nobody /\ Over(run.pty) THEN Outcome(run.pty) ELSE "interrupted"
  IN IF run.status = "running" THEN FinalizeByRun(outcome, StateOf(outcome))
     ELSE Rests(StateOf(run.status)) /\ UNCHANGED runs

\* The runtime is closing: requests are interrupted, and its own children are killed. An event
\* of that may still be heard.
Close ==
  /\ MayBegin /\ up' = "closing"
  /\ audit' = "idle" /\ count' = Uncounted /\ plan' = "none"
  /\ UNCHANGED <<backend, rows, pty, op, faults, restarts, promise>>
ShutdownKills(p) ==
  /\ up = "closing" /\ backend = "node_pty" /\ Open(p) /\ Killed(p, "shutdown")
  /\ UNCHANGED <<backend, rows, op, audit, count, plan, up, restarts, promise>>

\* The runtime stops, or crashes, and starts again. The PTY service settles its rows first;
\* then the accounting reads what is to be looked at.
Restart ==
  /\ faults + restarts < MaxTroubles /\ restarts' = restarts + 1
  /\ procs' = IF backend = "tmux" THEN procs
              ELSE [p \in Procs |-> Pty!GoneWithRuntime(procs[p])]
  /\ ours' = IF backend = "tmux" THEN ours ELSE ours \union {p \in Procs : Open(p)}
  /\ owed' = {} /\ queue' = {} /\ lost' = {}
  /\ op' = Free /\ audit' = "idle" /\ plan' = "none" /\ up' = "boot"
  /\ count' = [Uncounted EXCEPT !.todo = {p \in Links : procs'[p].row = "open"},
                                !.claims = state.status = "running"]
  /\ UNCHANGED <<backend, rows, faults, promise>>
BootCleans(p) ==
  /\ up = "boot" /\ Cleans(p, "shutdown", FALSE)
  /\ UNCHANGED <<backend, rows, op, audit, plan, up, restarts, promise>>
\* convergeCommandAtBoot; a database that fails leaves everything as it is.
BootConcludes ==
  /\ up = "boot" /\ count.todo = {} /\ up' = "counted"
  /\ \/ count.failed # {} /\ Adopts /\ Fine
     \/ count.failed = {} /\ count.claims /\ Repairs /\ Fine /\ UNCHANGED stopped
     \/ count.failed = {} /\ ~count.claims /\ UNCHANGED <<rows, faults, stopped>>
     \/ Fault /\ UNCHANGED <<rows, stopped>>
  /\ count' = Uncounted
  /\ lost' = {p \in Procs : state'.ptr = p /\ Over(p)}
  /\ UNCHANGED <<backend, procs, ours, owed, queue, op, audit, plan, restarts, dropped>>
\* sweepLinklessRunningRuns; and only then the service subscribes to the events.
Subscribe ==
  /\ up = "counted" /\ up' = "ready"
  /\ runs' = [i \in DOMAIN runs |->
                IF runs[i] = [status |-> "running", pty |-> Nobody] /\ state.status # "running"
                THEN [runs[i] EXCEPT !.status = "failed"] ELSE runs[i]]
  /\ UNCHANGED <<backend, state, pty, op, audit, count, plan, faults, restarts, promise>>

\* auditWorktreeCommandIncarnations reads the links, and locks each command that has any.
AuditReads ==
  /\ up = "ready" /\ audit = "idle" /\ audit' = "read"
  /\ count' = [Uncounted EXCEPT !.todo = Links]
  /\ UNCHANGED <<backend, rows, pty, op, plan, up, faults, restarts, promise>>
AuditLocks ==
  /\ MayBegin /\ audit = "read" /\ count.todo # {}
  /\ op' = [Free EXCEPT !.at = "auditing"]
  /\ UNCHANGED <<backend, rows, pty, audit, count, plan, up, faults, restarts, promise>>
AuditCleans(p) ==
  /\ op.at = "auditing" /\ Cleans(p, "user", TRUE)
  /\ UNCHANGED <<backend, rows, op, audit, plan, up, restarts, promise>>
AuditConcludes ==
  /\ count.todo = {}
  /\ op.at = "auditing" \/ audit = "read"
  /\ op' = IF op.at = "auditing" THEN Free ELSE op
  /\ Adopts /\ audit' = "idle" /\ count' = Uncounted
  /\ dropped' = dropped \union {p \in Procs : Named(p) /\ ~Named(p)'}
  /\ UNCHANGED <<backend, pty, plan, up, faults, restarts>>

-----------------------------------------------------------------------------
Launch == Prune \/ Mark \/ Allocate \/ Link \/ Started \/ HandOver
Halt   == Resolve \/ Hit \/ Absent \/ Finalize \/ Relaunch
Cancel == CancelLaunch \/ CancelStart \/ StopFails
Boot   == (\E p \in Procs : BootCleans(p)) \/ BootConcludes \/ Subscribe
Audit  == AuditReads \/ AuditLocks \/ (\E p \in Procs : AuditCleans(p)) \/ AuditConcludes

Next ==
  \/ Run \/ (\E cause \in {"user", "deactivation"} : Stop(cause, FALSE)) \/ Stop("user", TRUE)
  \/ Launch \/ Halt \/ Cancel \/ MakePlan \/ Execute
  \/ \E p \in Procs : Moves(p) \/ Handle(p) \/ ShutdownKills(p)
  \/ Boot \/ Audit \/ Close \/ Restart

Spec == Init /\ [][Next]_vars

\* Fibers run on, a backend answers a spawn, rows are judged, boot goes on, and the lock is
\* taken in turn: a reconciliation that waits for it gets it. Nobody has to ask for anything.
Fairness ==
  /\ WF_vars(Launch \/ Halt \/ Boot \/ (op.at = "auditing" /\ Audit))
  /\ WF_vars(\E p \in Procs : Moves(p) /\ (procs[p].proc = "asked" \/ procs'[p].row # "open"))
  /\ SF_vars(\E p \in Procs : Handle(p))

FairSpec == Spec /\ Fairness

-----------------------------------------------------------------------------
Typed ==
  /\ backend \in {"node_pty", "tmux"}
  /\ state \in [status : Statuses, ptr : {Nobody} \union Procs]
  /\ runs \in Seq([status : RunStatus, pty : {Nobody} \union Procs])
  /\ procs \in [Procs -> Pty!States]
  /\ ours \subseteq Procs /\ owed \subseteq Procs /\ queue \subseteq Procs /\ lost \subseteq Procs
  /\ op \in Held /\ audit \in {"idle", "read"}
  /\ plan \in {"none", "resume", "automation"}
  /\ up \in {"boot", "counted", "ready", "closing"} /\ count \in Count
  /\ faults \in Nat /\ restarts \in Nat /\ stopped \in BOOLEAN /\ dropped \subseteq Procs
\* A pointer belongs to a running command; whoever runs has a run.
Kept ==
  /\ state.ptr # Nobody => state.status = "running"
  /\ state.status = "running" \/ op.at \in Launching => runs # <<>>
  /\ op.at \in {"starting", "handing", "terminating", "finalizing", "linking"} => op.pid # Nobody
TypeOK == Typed /\ Kept

\* A process that its command answers for: alive behind an open row, and not dropped.
Reached(p) == Alive(p) /\ Open(p) /\ p \notin dropped

\* launch.ts, convergence.ts, stopResolvedCommand: a process that is alive is never out of its
\* command's reach: whatever failed on the way, the newest run, which no launch prunes, names
\* it, and the command says that it runs, so that a stop will look for it.
LiveIsKnown == \A p \in Procs : Reached(p) => Named(p) /\ state.status = "running"

\* runCommand: two processes of one command are never alive at once.
OneProcess == \A p, r \in Procs : Reached(p) /\ Reached(r) => p = r

\* executeActivationEntry, resolvePointerlessRunningState: once the user's stop is answered,
\* no activation brings the command back, and nothing marks it to come back.
StopHolds == stopped => state.status # "suspended" /\ op.at \notin Launching

\* finalizeRunAndStateByPty: the late echo of a process changes nothing of a command that
\* runs another one.
EchoIsHarmless ==
  [][\A p \in queue : p \notin queue' /\ up' = up /\ state.status = "running" /\ state.ptr # p
        => UNCHANGED state]_vars

\* finalizeRunAndState: the outcome that was recorded first for a process that is over stays,
\* whoever else reports its end: the stop that killed it, its echo, the accounting. Only who
\* could not verify that end reopens the run, and then the command runs.
OutcomeStays ==
  [][\A p \in Procs :
       Over(p) /\ Linked(p) /\ Linked(p)' /\ runs[NewestOf(p)].status # "running"
       => \/ runs'[NewestOf(p)'].status = runs[NewestOf(p)].status
          \/ state'.ptr = p /\ count.failed = {p}]_vars

\* Whoever reports the end of a process, and when: the first report stands, for that process.
OutcomesHold == EchoIsHarmless /\ OutcomeStays

\* reconcilePtyProcessEvent: a process that ended is noticed by its command, unless the write
\* of that failed or nobody had subscribed.
EndedIsNoticed ==
  \A p \in Procs :
    state.ptr = p /\ procs[p].proc = "dead" ~> state.ptr # p \/ p \in lost

\* auditWorktreeCommandIncarnations: when it passes, no process is left that the command's
\* rows name.
AuditIsConclusive ==
  [][audit = "read" /\ audit' = "idle" /\ restarts' = restarts /\ count.failed = {}
       => \A p \in Links : ~Alive(p)]_vars
=============================================================================
