---------------------------- MODULE WorkflowRun ----------------------------
(***************************************************************************)
(* One workflow run: its row, its tree of graph invocations and node       *)
(* executions, the driver that steps it, its preparation, and the controls *)
(* a person applies to it (apps/runtime/src/workflows/engine).             *)
(*                                                                         *)
(* The runtime is one process.  A fiber runs without interruption until it *)
(* awaits something, and every commit is one synchronous transaction, so   *)
(* an action is the code between two awaits.  What happens across awaits   *)
(* (another control, a surface deleted, a restart) interleaves.            *)
(*                                                                         *)
(* Author code decides what a node returns and where an edge goes, so both *)
(* are nondeterministic.  Node and graph names, messages and events are    *)
(* left out; the answer of an agent or headless wait comes from outside.   *)
(***************************************************************************)
EXTENDS Naturals, FiniteSets

CONSTANTS
  MaxExec,      \* how many execution rows a behaviour may insert
  MaxInv,       \* how many graph invocation rows it may insert
  MaxRestarts,  \* how often the app may restart
  Builds,       \* verified builds of the workflow
  Clients       \* Resume and Retry requests that may be in flight at once

ASSUME BoundsAssumption ==
  /\ MaxExec \in Nat \ {0}
  /\ MaxInv \in Nat \ {0}
  /\ MaxRestarts \in Nat
  /\ Builds # {}

VARIABLES
  run,        \* the workflow_runs row
  exec,       \* workflow_executions, by id
  inv,        \* workflow_graph_invocations, by id
  nextExec,   \* the next id SQLite gives an execution
  nextInv,    \* the next id SQLite gives an invocation
  driver,     \* the run's entry in `drivers`, and where its fiber stands
  prep,       \* where the forked prepareAndStart stands
  cached,     \* builds in the in-memory artifactCache
  fresh,      \* the run is in `freshChecks`
  wake,       \* triggers published and not yet handled
  ctl,        \* each client's Resume or Retry request across its awaits
  restarts,   \* restarts so far (bounded by MaxRestarts)
  ran         \* history: executions whose function this process called

tree   == <<exec, inv, nextExec, nextInv>>
rows   == <<run, tree>>
memory == <<driver, prep, cached, fresh, wake, ctl>>
vars   == <<rows, memory, restarts, ran>>

ExecId == 1..MaxExec
InvId  == 1..MaxInv

NodeKinds   == {"operation", "checkpoint", "subgraph"}
RunStatuses == {"preparing", "running", "waiting", "paused",
                "completed", "failed", "cancelled"}
\* "none": nothing saved yet.  The last three are a saved suspend().
Waits   == {"user", "agent", "headless"}
Results == {"none", "complete"} \union Waits

ExecRow == [status : {"absent", "running", "waiting", "completed",
                      "failed", "interrupted", "cancelled"},
            inv : InvId, kind : NodeKinds, result : Results,
            answered : BOOLEAN, retryOf : 0..MaxExec, child : 0..MaxInv]
InvRow  == [status : {"absent", "running", "completed", "cancelled"},
            parent : 0..MaxExec]
RunRow  == [status : RunStatuses, build : Builds, surface : BOOLEAN,
            creates : BOOLEAN, envError : BOOLEAN]
\* leaf, build, placed and seen are what the step read before it awaited:
\* the leaf's id, the run's build, whether the run had a surface, and whether
\* the leaf had been answered.
Driver  == [phase : {"idle", "step", "loading", "fn", "capture",
                     "checking", "reading"},
            leaf : 0..MaxExec, build : Builds, placed : BOOLEAN,
            seen : BOOLEAN, again : BOOLEAN]
Request == [phase : {"idle", "resume", "retry", "observe"},
            preparing : BOOLEAN, target : 0..MaxExec, build : Builds]

ABuild   == CHOOSE b \in Builds : TRUE
NoExec   == [status |-> "absent", inv |-> 1, kind |-> "operation",
             result |-> "none", answered |-> FALSE, retryOf |-> 0,
             child |-> 0]
NoInv    == [status |-> "absent", parent |-> 0]
NoDriver == [phase |-> "idle", leaf |-> 0, build |-> ABuild,
             placed |-> FALSE, seen |-> FALSE, again |-> FALSE]
NoReq    == [phase |-> "idle", preparing |-> FALSE, target |-> 0,
             build |-> ABuild]

-----------------------------------------------------------------------------
(* What the handlers read. *)

ActiveStatuses == {"running", "waiting"}
Active  == run.status \in ActiveStatuses
Open(e) == exec[e].status \in {"running", "waiting"}

\* findLeafExecution: the unfinished executions that entered no child graph,
\* and the last of them.
Leaves == {e \in ExecId : Open(e) /\ exec[e].child = 0}
Leaf   == CHOOSE e \in Leaves : \A f \in Leaves : f <= e

\* findRootInvocation.
HasRoot == \E i \in InvId : inv[i].status # "absent" /\ inv[i].parent = 0

\* findRetryTarget: the latest failed or interrupted execution not retried yet.
Retryable   == {e \in ExecId : /\ exec[e].status \in {"failed", "interrupted"}
                               /\ \A f \in ExecId : exec[f].retryOf # e}
IsRetryTarget(e) == e \in Retryable /\ \A f \in Retryable : f <= e

\* The invocation i and those it is nested in: what has i and, with an invocation, the
\* one its parent execution is in.
ClosedUpwards(is) == \A i \in is : inv[i].parent # 0 => exec[inv[i].parent].inv \in is
Enclosing(i) == {j \in InvId : \A is \in SUBSET InvId : i \in is /\ ClosedUpwards(is) => j \in is}
\* e and the subgraph executions it runs under, as computeChain climbs them.
Chain(e) == {f \in ExecId : f = e \/ \E i \in Enclosing(exec[e].inv) : inv[i].parent = f}

-----------------------------------------------------------------------------
(* What the handlers write. *)

\* Faulty variants of kick: one forgets a driver that is at work, the other
\* never starts one.
KickedIfIdle(d) == IF d.phase = "idle" THEN [NoDriver EXCEPT !.phase = "step"] ELSE d
KickedMarks(d)  == [d EXCEPT !.again = TRUE]
\* kick: mark the live driver, or start one.
Kicked(d) == IF d.phase = "idle" THEN [NoDriver EXCEPT !.phase = "step"]
                                 ELSE [d EXCEPT !.again = TRUE]

\* A step that returned false goes round driveRun's loop; one that returned
\* true ends the drive, which runs again if it was kicked meanwhile.
Looped(d) == [NoDriver EXCEPT !.phase = "step", !.again = d.again]
Rested(d) == IF d.again THEN [NoDriver EXCEPT !.phase = "step"] ELSE NoDriver

\* startExecution, in a tree already updated to ex.
NewRow(k, i) == [NoExec EXCEPT !.status = "running", !.kind = k, !.inv = i]
Started(ex, k, i) == [ex EXCEPT ![nextExec] = NewRow(k, i)]
Room == nextExec <= MaxExec

\* Faulty variants: the run takes the execution's status, or only it fails.
FailAsInterrupted(e) ==
  /\ exec' = [exec EXCEPT ![e].status = "interrupted"]
  /\ run' = [run EXCEPT !.status = "interrupted", !.envError = FALSE]
  /\ UNCHANGED <<inv, nextExec, nextInv>>
FailRunOnly(e) == run' = [run EXCEPT !.status = "failed", !.envError = FALSE]
                  /\ UNCHANGED tree
\* applyFailure: the stepped execution and the run fail; nothing else changes.
Fail(e) ==
  /\ exec' = [exec EXCEPT ![e].status = "failed"]
  /\ run' = [run EXCEPT !.status = "failed", !.envError = FALSE]
  /\ UNCHANGED <<inv, nextExec, nextInv>>
FailIf(cond, e) == IF cond THEN Fail(e) ELSE UNCHANGED rows

Init ==
  /\ \E c \in BOOLEAN, b \in Builds :
       run = [status |-> "preparing", build |-> b, surface |-> ~c,
              creates |-> c, envError |-> FALSE]
  /\ exec = [e \in ExecId |-> NoExec]
  /\ inv = [i \in InvId |-> NoInv]
  /\ nextExec = 1 /\ nextInv = 1
  /\ driver = NoDriver
  /\ prep = "placing"
  /\ cached = {}
  /\ fresh = FALSE
  /\ wake = {}
  /\ ctl = [c \in Clients |-> NoReq]
  /\ restarts = 0
  /\ ran = {}

-----------------------------------------------------------------------------
(* Preparation: prepareAndStart, forked by Launch and by Retry. *)

\* The worktree and the surface are there and saved.  A run that left `preparing`
\* stops preparation, but a surface being created by then is saved all the same.
Place ==
  /\ prep = "placing"
  /\ \/ /\ run.creates \/ (run.status = "preparing" /\ run.surface)
        /\ run' = [run EXCEPT !.surface = TRUE] /\ prep' = "placed"
     \/ run.status # "preparing" /\ prep' = "none" /\ UNCHANGED run
  /\ UNCHANGED <<tree, driver, cached, fresh, wake, ctl, restarts, ran>>

\* A worktree, its setup or a surface failed, or a surface the run does not
\* create is gone.
PlaceFails ==
  /\ prep = "placing"
  /\ run' = IF run.status = "preparing"
            THEN [run EXCEPT !.status = "failed", !.envError = TRUE] ELSE run
  /\ prep' = "none"
  /\ UNCHANGED <<tree, driver, cached, fresh, wake, ctl, restarts, ran>>

\* enterRoot up to loadArtifact: a build not in the cache is read from disk.
LoadRoot ==
  /\ prep = "placed"
  /\ \/ run.status # "preparing" /\ prep' = "none"
     \/ run.status = "preparing" /\ run.build \notin cached /\ prep' = "loading"
  /\ UNCHANGED <<rows, driver, cached, fresh, wake, ctl, restarts, ran>>

\* enterRoot's commit and the kick that always follows it.
EnterRoot ==
  /\ \/ prep = "placed" /\ run.status = "preparing" /\ run.build \in cached
        /\ UNCHANGED cached
     \/ prep = "loading" /\ cached' = cached \union {run.build}
  /\ \/ run.status # "preparing" /\ UNCHANGED rows
     \/ run.status = "preparing" /\ HasRoot
        /\ run' = [run EXCEPT !.status = "running"] /\ UNCHANGED tree
     \* No surface, or the graph's init threw: the run fails with no execution.
     \/ run.status = "preparing" /\ ~HasRoot
        /\ run' = [run EXCEPT !.status = "failed", !.envError = FALSE]
        /\ UNCHANGED tree
     \/ /\ run.status = "preparing" /\ ~HasRoot /\ run.surface
        /\ Room /\ nextInv <= MaxInv
        /\ \E k \in NodeKinds : exec' = Started(exec, k, nextInv)
        /\ inv' = [inv EXCEPT ![nextInv].status = "running"]
        /\ nextExec' = nextExec + 1 /\ nextInv' = nextInv + 1
        /\ run' = [run EXCEPT !.status = "running"]
  /\ prep' = "none"
  /\ driver' = Kicked(driver)
  /\ UNCHANGED <<fresh, wake, ctl, restarts, ran>>

\* loadArtifact failed: fork's label is logged and the fiber ends.
LoadRootFails ==
  /\ prep = "loading"
  /\ prep' = "none"
  /\ UNCHANGED <<rows, driver, cached, fresh, wake, ctl, restarts, ran>>

-----------------------------------------------------------------------------
(* The pure step, and parking. *)

\* Faulty: the run's status is not read again.
CanRouteUnchecked(e) == Open(e)
\* route: a control may have landed while the wait was being checked.
CanRoute(e) == Active /\ Open(e)

\* applyChain: e and the parents it returned into complete, up to top; the
\* invocations below top finish; the next node starts in top's graph, or the
\* root graph's outcome completes the run.
ApplyChain(e, top) ==
  LET stepped == {f \in Chain(e) : top \in Chain(f)}
      ended   == {i \in InvId : inv[i].parent \in stepped /\ inv[i].status = "running"}
      after   == [f \in ExecId |-> IF f \in stepped
                                   THEN [exec[f] EXCEPT !.status = "completed"]
                                   ELSE exec[f]]
      close(is) == inv' = [i \in InvId |-> IF i \in is
                                           THEN [inv[i] EXCEPT !.status = "completed"]
                                           ELSE inv[i]]
  IN \/ /\ Room
        /\ \E k \in NodeKinds : exec' = Started(after, k, exec[top].inv)
        /\ nextExec' = nextExec + 1
        /\ close(ended)
        /\ run' = [run EXCEPT !.status = "running"]
        /\ UNCHANGED nextInv
     \/ /\ inv[exec[top].inv].parent = 0
        /\ exec' = after
        /\ close(ended \union {exec[top].inv})
        /\ run' = [run EXCEPT !.status = "completed"]
        /\ UNCHANGED <<nextExec, nextInv>>

Route(d) ==
  \/ ~CanRoute(d.leaf) /\ UNCHANGED rows /\ driver' = Rested(d)
  \* A reducer, an edge, an output or an onResult refused or threw.
  \/ CanRoute(d.leaf) /\ Fail(d.leaf) /\ driver' = Rested(d)
  \/ /\ CanRoute(d.leaf)
     /\ \E top \in ExecId : top \in Chain(d.leaf) /\ ApplyChain(d.leaf, top)
     /\ driver' = Looped(d)

\* park: nothing yet, so execution and run wait, if the run is still active.
Park(d) ==
  /\ IF Active
     THEN /\ run' = [run EXCEPT !.status = "waiting"]
          /\ exec' = [exec EXCEPT ![d.leaf].status =
                        IF @ = "running" THEN "waiting" ELSE @]
     ELSE UNCHANGED <<run, exec>>
  /\ UNCHANGED <<inv, nextExec, nextInv>>
  /\ driver' = Rested(d)

-----------------------------------------------------------------------------
(* The driver.  d is what the step read: taken afresh when the build is     *)
(* cached, or what the driver kept while the build was loading.             *)

\* A subgraph execution once its child graph is entered.
Entered(row) == [row EXCEPT !.status = "waiting", !.child = nextInv]
\* A subgraph node: its child's invocation and entry node, or a failed step.
EnterSubgraph(d) ==
  /\ exec[d.leaf].kind = "subgraph"
  /\ \/ ~Active /\ UNCHANGED rows
     \/ Active /\ Fail(d.leaf)
     \/ /\ Active /\ run.surface /\ Room /\ nextInv <= MaxInv
        /\ \E k \in NodeKinds :
             exec' = Started([exec EXCEPT ![d.leaf] = Entered(@)], k, nextInv)
        /\ inv' = [inv EXCEPT ![nextInv] = [status |-> "running", parent |-> d.leaf]]
        /\ nextExec' = nextExec + 1 /\ nextInv' = nextInv + 1
        /\ UNCHANGED run
  /\ driver' = Looped(d)
  /\ UNCHANGED <<fresh, ran>>

\* Faulty: the saved result is not looked at.
NeedsWorkAlways(e) == exec[e].kind # "subgraph"
\* Nothing saved yet: run the operation's function, or capture the checkpoint,
\* unless the node is not in this build or the run had nowhere to work.
NeedsWork(e) == exec[e].kind # "subgraph" /\ exec[e].result = "none"
StartFunction(d) ==
  /\ NeedsWork(d.leaf) /\ exec[d.leaf].kind = "operation"
  /\ \/ /\ d.placed
        /\ driver' = [d EXCEPT !.phase = "fn"]
        /\ ran' = ran \union {d.leaf}
        /\ UNCHANGED rows
     \/ FailIf(Active, d.leaf) /\ driver' = Looped(d) /\ UNCHANGED ran
  /\ UNCHANGED fresh
StartCapture(d) ==
  /\ NeedsWork(d.leaf) /\ exec[d.leaf].kind = "checkpoint"
  /\ \/ driver' = [d EXCEPT !.phase = "capture"] /\ UNCHANGED rows
     \/ FailIf(Active /\ exec[d.leaf].status = "running", d.leaf) /\ driver' = Looped(d)
  /\ UNCHANGED <<fresh, ran>>

\* A saved result: route it, or check its wait first.
Saved(e, rs) == exec[e].kind # "subgraph" /\ exec[e].result \in rs
RouteResult(d) == Saved(d.leaf, {"complete"}) /\ Route(d) /\ UNCHANGED <<fresh, ran>>
CheckUser(d) ==
  /\ Saved(d.leaf, {"user"})
  /\ IF d.seen THEN Route(d) ELSE Park(d)
  /\ fresh' = FALSE /\ UNCHANGED ran

\* What the observer or the operation rows hold now.  The reply of an agent
\* turn is read from its conversation before routing, when there is one.
Polled(d) ==
  \/ exec[d.leaf].answered /\ Route(d) /\ fresh' = FALSE
  \/ ~exec[d.leaf].answered /\ Park(d) /\ fresh' = FALSE
  \/ /\ exec[d.leaf].answered /\ exec[d.leaf].result = "agent"
     /\ driver' = [d EXCEPT !.phase = "reading"] /\ UNCHANGED <<rows, fresh>>

\* An agent wait refreshes the observation first when the check is fresh; a
\* headless wait first settles tracked jobs that have exited, if there are any.
CheckOutside(d) ==
  /\ Saved(d.leaf, {"agent", "headless"})
  /\ \/ exec[d.leaf].result = "agent" /\ ~fresh /\ Polled(d)
     \/ exec[d.leaf].result = "headless" /\ Polled(d)
     \/ /\ exec[d.leaf].result = "agent" => fresh
        /\ driver' = [d EXCEPT !.phase = "checking"] /\ UNCHANGED <<rows, fresh>>
  /\ UNCHANGED ran

Dispatch(d) == \/ EnterSubgraph(d) \/ StartFunction(d) \/ StartCapture(d)
               \/ RouteResult(d) \/ CheckUser(d) \/ CheckOutside(d)

\* step: read the run and its leaf, then the build.
StepRead == [driver EXCEPT !.leaf = Leaf, !.build = run.build,
                           !.placed = run.surface, !.seen = exec[Leaf].answered]
Step ==
  /\ driver.phase = "step"
  /\ \/ /\ ~Active \/ Leaves = {}
        /\ driver' = Rested(driver)
        /\ UNCHANGED <<rows, fresh, ran>>
     \/ /\ Active /\ Leaves # {} /\ run.build \notin cached
        /\ driver' = [StepRead EXCEPT !.phase = "loading"]
        /\ UNCHANGED <<rows, fresh, ran>>
     \/ /\ Active /\ Leaves # {} /\ run.build \in cached
        /\ Dispatch(StepRead)
  /\ UNCHANGED <<prep, cached, wake, ctl, restarts>>

Loaded ==
  /\ driver.phase = "loading"
  /\ cached' = cached \union {driver.build}
  /\ Dispatch(driver)
  /\ UNCHANGED <<prep, wake, ctl, restarts>>

LoadFails ==
  /\ driver.phase = "loading"
  /\ FailIf(Active, driver.leaf)
  /\ driver' = Rested(driver)
  /\ UNCHANGED <<prep, cached, fresh, wake, ctl, restarts, ran>>

\* Saved even when the run was paused or cancelled meanwhile.  The jobs and
\* turns a suspend names may be over by now.
SaveResult(e, r, over) ==
  /\ exec' = [exec EXCEPT ![e].result = r, ![e].answered = over]
  /\ UNCHANGED <<run, inv, nextExec, nextInv>>
FnReturns ==
  /\ driver.phase = "fn"
  /\ \E r \in Results \ {"none"}, over \in BOOLEAN :
       /\ over => r \in {"agent", "headless"}
       /\ SaveResult(driver.leaf, r, over)
  /\ driver' = Looped(driver)
  /\ UNCHANGED <<prep, cached, fresh, wake, ctl, restarts, ran>>

\* The function threw, or returned what cannot be saved.
FnFails ==
  /\ driver.phase = "fn"
  /\ FailIf(exec[driver.leaf].status = "running" /\ run.status # "cancelled", driver.leaf)
  /\ driver' = Looped(driver)
  /\ UNCHANGED <<prep, cached, fresh, wake, ctl, restarts, ran>>

CaptureDone ==
  /\ driver.phase = "capture"
  /\ IF exec[driver.leaf].result = "none"
     THEN SaveResult(driver.leaf, "complete", FALSE) ELSE UNCHANGED rows
  /\ driver' = Looped(driver)
  /\ UNCHANGED <<prep, cached, fresh, wake, ctl, restarts, ran>>
CaptureFails ==
  /\ driver.phase = "capture"
  /\ FailIf(exec[driver.leaf].status = "running" /\ Active, driver.leaf)
  /\ driver' = Looped(driver)
  /\ UNCHANGED <<prep, cached, fresh, wake, ctl, restarts, ran>>

\* The wait's check is back.  A fresh look at a dead session whose turn never
\* started delivers that instead of waiting for ever.
Checked ==
  /\ driver.phase = "checking"
  /\ \/ Polled(driver)
     \/ /\ exec[driver.leaf].result = "agent" /\ ~exec[driver.leaf].answered
        /\ Route(driver) /\ fresh' = FALSE
  /\ UNCHANGED <<prep, cached, wake, ctl, restarts, ran>>
ReplyRead ==
  /\ driver.phase = "reading"
  /\ Route(driver) /\ fresh' = FALSE
  /\ UNCHANGED <<prep, cached, wake, ctl, restarts, ran>>

-----------------------------------------------------------------------------
(* Controls. *)

Pause ==
  /\ Active
  /\ run' = [run EXCEPT !.status = "paused"]
  /\ UNCHANGED <<tree, memory, restarts, ran>>

Done(c) == ctl' = [ctl EXCEPT ![c] = NoReq]

\* Resume and Retry read the run, then await the latest verified build.
ResumeAsk(c) ==
  /\ ctl[c].phase = "idle"
  /\ run.status = "paused" /\ run.surface
  /\ ctl' = [ctl EXCEPT ![c].phase = "resume"]
  /\ UNCHANGED <<rows, driver, prep, cached, fresh, wake, restarts, ran>>

RetryAsk(c) ==
  LET preparing == run.envError \/ ~HasRoot IN
  /\ ctl[c].phase = "idle"
  /\ run.status = "failed" /\ (preparing \/ run.surface)
  /\ ctl' = [ctl EXCEPT ![c].phase = "retry", ![c].preparing = preparing]
  /\ UNCHANGED <<rows, driver, prep, cached, fresh, wake, restarts, ran>>

\* No build, a build that no longer fits, no target, a session that cannot be
\* observed, or a run that moved on: the request changes nothing.
Refused(c) ==
  /\ ctl[c].phase # "idle"
  /\ Done(c)
  /\ UNCHANGED <<rows, driver, prep, cached, fresh, wake, restarts, ran>>

ResumeCommit(c) ==
  /\ ctl[c].phase = "resume" /\ run.status = "paused"
  /\ \E b \in Builds : run' = [run EXCEPT !.status = "running", !.build = b]
  /\ fresh' = TRUE
  /\ driver' = Kicked(driver)
  /\ Done(c)
  /\ UNCHANGED <<tree, prep, cached, wake, restarts, ran>>

RetryPreparation(c) ==
  /\ ctl[c].phase = "retry" /\ ctl[c].preparing /\ run.status = "failed"
  /\ \E b \in Builds : run' = [run EXCEPT !.status = "preparing", !.build = b,
                                          !.envError = FALSE]
  /\ prep' = "placing"
  /\ Done(c)
  /\ UNCHANGED <<tree, driver, cached, fresh, wake, restarts, ran>>

\* The repeated execution copies what was saved, and a user's answer with it.
\* What answers an agent or headless wait is outside and still holds.
RetryExecution(c, target, b) ==
  /\ run.status = "failed" /\ Room
  /\ exec' = [exec EXCEPT ![nextExec] =
                [exec[target] EXCEPT !.status = "running", !.retryOf = target,
                                     !.child = 0]]
  /\ nextExec' = nextExec + 1
  /\ run' = [run EXCEPT !.status = "running", !.build = b, !.envError = FALSE]
  /\ driver' = Kicked(driver)
  /\ Done(c)
  /\ UNCHANGED <<inv, nextInv, prep, cached, fresh, wake, restarts, ran>>

\* The target is read when the build is resolved.  An agent wait refreshes the
\* session's observation before the commit.
RetryReloaded(c) ==
  /\ ctl[c].phase = "retry" /\ ~ctl[c].preparing
  /\ \E t \in Retryable, b \in Builds :
       /\ IsRetryTarget(t)
       /\ \/ exec[t].result # "agent" /\ RetryExecution(c, t, b)
          \/ /\ exec[t].result = "agent"
             /\ ctl' = [ctl EXCEPT ![c].phase = "observe",
                                   ![c].target = t, ![c].build = b]
             /\ UNCHANGED <<rows, driver, prep, cached, fresh, wake, restarts, ran>>
RetryObserved(c) ==
  /\ ctl[c].phase = "observe"
  /\ RetryExecution(c, ctl[c].target, ctl[c].build)

Cancellable == {"preparing", "running", "waiting", "paused", "failed"}
Cancel ==
  /\ run.status \in Cancellable
  /\ exec' = [e \in ExecId |-> IF Open(e) THEN [exec[e] EXCEPT !.status = "cancelled"]
                                          ELSE exec[e]]
  /\ inv' = [i \in InvId |-> IF inv[i].status = "running"
                             THEN [inv[i] EXCEPT !.status = "cancelled"] ELSE inv[i]]
  /\ run' = [run EXCEPT !.status = "cancelled"]
  /\ UNCHANGED <<nextExec, nextInv, memory, restarts, ran>>

Dismiss ==
  /\ run.status \in {"completed", "failed", "cancelled"} /\ run.surface
  /\ run' = [run EXCEPT !.surface = FALSE]
  /\ UNCHANGED <<tree, memory, restarts, ran>>

\* A deleted surface is unset on its runs, whatever they are doing.
SurfaceDeleted ==
  /\ run.surface
  /\ run' = [run EXCEPT !.surface = FALSE]
  /\ UNCHANGED <<tree, memory, restarts, ran>>

Advance(e) ==
  /\ run.status \in {"running", "waiting", "paused"}
  /\ Open(e) /\ exec[e].result = "user" /\ ~exec[e].answered
  /\ exec' = [exec EXCEPT ![e].answered = TRUE]
  /\ driver' = IF run.status = "paused" THEN driver ELSE Kicked(driver)
  /\ UNCHANGED <<run, inv, nextExec, nextInv, prep, cached, fresh, wake, ctl,
                 restarts, ran>>

-----------------------------------------------------------------------------
(* Triggers. *)

\* The observer sees a turn end, or a newer turn that a person started.
Awaiting(r) == {e \in Leaves \union Retryable : exec[e].result = r}
TurnEdge(e) ==
  /\ exec' = [exec EXCEPT ![e].answered = ~@]
  /\ wake' = wake \union {"turn"}
  /\ UNCHANGED <<run, inv, nextExec, nextInv, driver, prep, cached, fresh, ctl,
                 restarts, ran>>
\* The last job a headless wait names is settled; its kick comes after.
HeadlessSettled(e) ==
  /\ ~exec[e].answered
  /\ exec' = [exec EXCEPT ![e].answered = TRUE]
  /\ wake' = wake \union {"headless"}
  /\ UNCHANGED <<run, inv, nextExec, nextInv, driver, prep, cached, fresh, ctl,
                 restarts, ran>>
\* A turn edge kicks the runs that wait; a settled job kicks its run.
Kicks(t) == t = "headless" \/ run.status = "waiting"
Trigger(t) ==
  /\ t \in wake
  /\ wake' = wake \ {t}
  /\ driver' = IF Kicks(t) THEN Kicked(driver) ELSE driver
  /\ UNCHANGED <<rows, prep, cached, fresh, ctl, restarts, ran>>

-----------------------------------------------------------------------------
(* A restart loses everything in memory, then recoverAtStartup runs. *)

\* The node function that was running, as far as the rows can tell.
Interrupted == {e \in Leaves : /\ e = Leaf /\ exec[e].kind = "operation"
                               /\ exec[e].status = "running" /\ exec[e].result = "none"}
Recovered ==
  CASE run.status = "preparing" -> [run EXCEPT !.status = "failed", !.envError = TRUE]
    [] Active /\ Interrupted # {} -> [run EXCEPT !.status = "failed", !.envError = FALSE]
    [] Active /\ Interrupted = {} -> [run EXCEPT !.status = "paused"]
    [] OTHER -> run
Restart ==
  /\ restarts < MaxRestarts
  /\ restarts' = restarts + 1
  /\ run' = Recovered
  \* Running headless jobs are interrupted, which settles every headless wait.
  /\ exec' = [e \in ExecId |->
                [exec[e] EXCEPT
                   !.status = IF Active /\ e \in Interrupted THEN "interrupted" ELSE @,
                   !.answered = @ \/ exec[e].result = "headless"]]
  /\ driver' = NoDriver /\ prep' = "none" /\ cached' = {} /\ fresh' = FALSE
  /\ wake' = {} /\ ctl' = [c \in Clients |-> NoReq] /\ ran' = {}
  /\ UNCHANGED <<inv, nextExec, nextInv>>

-----------------------------------------------------------------------------
Prepare == Place \/ PlaceFails \/ LoadRoot \/ EnterRoot \/ LoadRootFails
DriveOn == \/ Step \/ Loaded \/ LoadFails \/ CaptureDone \/ CaptureFails
           \/ Checked \/ ReplyRead
Drive   == DriveOn \/ FnReturns \/ FnFails
Ask(c) == \/ ResumeAsk(c) \/ RetryAsk(c) \/ Refused(c) \/ ResumeCommit(c)
               \/ RetryPreparation(c) \/ RetryReloaded(c) \/ RetryObserved(c)
Control == \/ Pause \/ Cancel \/ Dismiss \/ SurfaceDeleted
           \/ \E e \in ExecId : Advance(e)
           \/ \E c \in Clients : Ask(c)
Outside == \/ \E e \in Awaiting("agent") : TurnEdge(e)
           \/ \E e \in Awaiting("headless") : HeadlessSettled(e)
           \/ \E t \in {"turn", "headless"} : Trigger(t)
Next == Prepare \/ Drive \/ Control \/ Outside \/ Restart

\* What the process does by itself goes on: disk reads, captures and checks end
\* and the trigger loop runs.  A node function may never return, and nobody has
\* to press anything.
Fairness == /\ WF_vars(Prepare)
            /\ WF_vars(DriveOn)
            /\ \A t \in {"turn", "headless"} : WF_vars(Trigger(t))
Spec == Init /\ [][Next]_vars /\ Fairness

-----------------------------------------------------------------------------
(* Properties. *)

\* What the handlers of engine/ write and keep in memory has its type: rows the
\* tables accept, and a driver and requests in one of their places.
TypeOK ==
  /\ run \in RunRow
  /\ exec \in [ExecId -> ExecRow]
  /\ inv \in [InvId -> InvRow]
  /\ nextExec \in 1..(MaxExec + 1) /\ nextInv \in 1..(MaxInv + 1)
  /\ driver \in Driver
  /\ prep \in {"none", "placing", "placed", "loading"}
  /\ cached \subseteq Builds /\ fresh \in BOOLEAN
  /\ wake \subseteq {"turn", "headless"}
  /\ ctl \in [Clients -> Request]
  /\ restarts \in 0..MaxRestarts /\ ran \subseteq ExecId

\* At most one execution is a leaf, and only while the run is under way
\* (findLeafExecution takes the last of them and calls it the only one).
AtMostOneLeaf ==
  /\ \A e, f \in Leaves : e = f
  /\ Leaves # {} => run.status \in {"running", "waiting", "paused"}

\* The open executions are one path from the root graph to the leaf, through
\* running invocations, each entered by the execution above it; a failed run
\* keeps the path above what failed, for Retry to hang the repeated execution on.
OnePath ==
  LET tip == IF Leaves # {} THEN Leaf ELSE CHOOSE e \in Retryable : IsRetryTarget(e) IN
  /\ \A e \in ExecId : Open(e) =>
       exec[e].child = 0 \/ inv[exec[e].child] = [status |-> "running", parent |-> e]
  /\ Leaves # {} \/ (run.status = "failed" /\ HasRoot) =>
       /\ Leaves # {} \/ Retryable # {}
       /\ \A f \in ExecId : Open(f) => f \in Chain(tip)
       /\ \A f \in Chain(tip) \ {tip} : Open(f)
       /\ {i \in InvId : inv[i].status = "running"} = Enclosing(exec[tip].inv)
  /\ run.status \in {"completed", "cancelled"} =>
       /\ \A e \in ExecId : ~Open(e)
       /\ \A i \in InvId : inv[i].status # "running"

\* A running run has something to run and a driver running it.
RunningIsDriven ==
  run.status = "running" => Leaves # {} /\ driver.phase # "idle"

\* A run that waits does so on a wait its leaf has saved.
WaitingHasWait ==
  run.status = "waiting" =>
    Leaves # {} /\ exec[Leaf].status = "waiting" /\ exec[Leaf].result \in Waits

\* A run never leaves completed or cancelled, and nothing of its tree reopens.
TerminalStays ==
  [][run.status \in {"completed", "cancelled"} =>
       /\ run'.status = run.status
       /\ \A e \in ExecId : exec'[e].status = exec[e].status]_vars

\* A saved result is never overwritten, and an execution once closed stays so.
SavedResultKept ==
  [][\A e \in ExecId :
       /\ exec[e].result # "none" => exec'[e].result = exec[e].result
       /\ exec[e].status \notin {"absent", "running", "waiting"} =>
            exec'[e].status = exec[e].status]_vars

\* Nothing routes or is entered unless the run was active: Pause and Cancel hold.
ProgressOnlyWhenActive ==
  [][\A e \in ExecId : exec'[e].status # exec[e].status =>
       CASE exec'[e].status = "completed" -> Active
         [] exec'[e].status = "running" ->
              Active \/ run.status \in {"failed", "preparing"}
         [] OTHER -> TRUE]_vars

\* One process calls an execution's function at most once.
RunsOncePerLife ==
  [][driver.phase # "fn" /\ driver'.phase = "fn" => driver'.leaf \notin ran]_vars

\* Every failed run can be tried again, by preparing or by repeating an execution.
FailedIsRetryable ==
  run.status = "failed" => run.envError \/ ~HasRoot \/ Retryable # {}

\* What the status of a run says is true of its tree and of its driver: each reader of the
\* row (the driver, the controls, startup) takes it at its word. The tree is one path.
StatusIsTrue == OnePath /\ RunningIsDriven /\ WaitingHasWait /\ FailedIsRetryable

\* runNodeFunction: what an execution returns is computed and saved once.
ComputedOnce == SavedResultKept /\ RunsOncePerLife

\* pause, cancel: a control that landed holds against whatever returns later.
ControlsHold == TerminalStays /\ ProgressOnlyWhenActive

\* The result of the node the run stands on: of its leaf, or of what Retry repeats.
Tip == IF Leaves # {} THEN Leaves ELSE {e \in Retryable : IsRetryTarget(e)}
Lifecycle == INSTANCE RunLifecycle WITH
  phase  <- IF Active THEN "active" ELSE run.status,
  saved  <- /\ run.status \notin {"preparing", "completed", "cancelled"}
            /\ \E e \in Tip : exec[e].result # "none",
  routed <- Cardinality({e \in ExecId : exec[e].status = "completed"})
\* The engine's drive, controls and restart implement the run a person is promised
\* (RunLifecycle): whatever its tree and its driver do, a step of the rows is one
\* of the promised steps or none.
KeepsPromise == Lifecycle!Spec

\* An answered wait is routed unless its run stops being active.
AnsweredIsRouted ==
  \A e \in ExecId :
    (Active /\ e \in Leaves /\ exec[e].answered) ~>
      (~Active \/ ~Open(e) \/ ~exec[e].answered)
=============================================================================
