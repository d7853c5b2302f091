---------------------------- MODULE HeadlessJobs ----------------------------
(***************************************************************************)
(* The headless jobs of one run: the operation rows, the processes this    *)
(* runtime tracks for them, and everything that races to end one: its      *)
(* exit, its timeout, Cancel, the check of the run's wait, and the call    *)
(* that started it (workflows/operations/headless.ts, context.ts).         *)
(*                                                                         *)
(* A call of the process port (start, exitOf, capture, terminate) is an    *)
(* await; what lies between two of them is one action.  The process itself *)
(* and its row belong to the PTY service, and are modelled by what the     *)
(* port may answer: the row records an end after the process has ended.    *)
(***************************************************************************)
EXTENDS Naturals

CONSTANTS
  Jobs,         \* calls of runHeadlessAgent, each with its operation and its process
  MaxTroubles   \* how many writes of this module fail, and restarts of the runtime, there are

ASSUME JobsAssumption == MaxTroubles \in Nat

VARIABLES
  run,       \* whether the run is cancelled
  job,       \* each job: its rows, its tracking and the fibers that deal with it
  fails,     \* writes that failed
  restarts

vars == <<run, job, fails, restarts>>

\* The author's call: `launching` until the process is spawned, `spawned` until start
\* answers, `looking` at exitOf, `settling` while it awaits settleHeadless, `stopping`
\* what Cancel overtook; `gone` with the runtime that made it.
Calls == {"idle", "launching", "spawned", "looking", "settling", "stopping", "done", "gone"}
\* How an operation ended: with its process (`ended`: completed or failed, by what the
\* process printed), failed by its timeout or by its call, or interrupted.
Ends == {"ended", "timeout", "call", "cancelled", "restarted"}
Job ==
  [op : {"none", "running"} \union Ends,        \* the operation row
   process : {"none", "live", "ended"},         \* what the operating system has
   row : {"none", "running", "over"},           \* the PTY row: exited, failed or killed
   event : BOOLEAN,                             \* its end is published, not consumed
   call : Calls,
   tracked : BOOLEAN, pinned : BOOLEAN, timer : BOOLEAN, timedOut : BOOLEAN,
   settler : {"none", "call", "other"},         \* who settles: `settling`
   timeout : {"idle", "terminating", "looking"},
   stop : {"no", "todo", "terminating"},        \* Cancel's stopRunHeadless
   stopFailed : BOOLEAN]                        \* a stop_failed event was written
NoJob ==
  [op |-> "none", process |-> "none", row |-> "none", event |-> FALSE,
   call |-> "idle", tracked |-> FALSE, pinned |-> FALSE, timer |-> FALSE, timedOut |-> FALSE,
   settler |-> "none", timeout |-> "idle", stop |-> "no", stopFailed |-> FALSE]

Init ==
  /\ run = "active"
  /\ job = [j \in Jobs |-> NoJob]
  /\ fails = 0 /\ restarts = 0

Become(j, r) == job' = [job EXCEPT ![j] = r]
Same         == UNCHANGED <<run, restarts>>

-----------------------------------------------------------------------------
(* Starting a job. *)

\* record: a function that goes on after Cancel may not start anything.
Record(j) ==
  /\ job[j].call = "idle"
  /\ Become(j, IF run = "cancelled" THEN [job[j] EXCEPT !.call = "done"]
               ELSE [job[j] EXCEPT !.op = "running", !.call = "launching"])
RunHeadless(j) == Record(j) /\ Same /\ UNCHANGED fails

\* runHeadlessAgent's tapError: the operation failed, whatever it was.
CallFailed(r) == [r EXCEPT !.op = "call", !.call = "done"]

\* port.start fails before there is a process.
StartFails(j) ==
  /\ job[j].call = "launching"
  /\ Become(j, CallFailed(job[j]))
  /\ Same /\ UNCHANGED fails
\* port.start spawns the process; a failed spawn only shows in the row and its event.
Spawn(j) ==
  /\ job[j].call = "launching"
  /\ \/ Become(j, [job[j] EXCEPT !.call = "spawned", !.process = "live", !.row = "running"])
     \/ Become(j, [job[j] EXCEPT !.call = "spawned", !.process = "ended", !.row = "over",
                                 !.event = TRUE])
  /\ Same /\ UNCHANGED fails

Tracked(r) == [r EXCEPT !.tracked = TRUE, !.pinned = TRUE]
\* startHeadless after port.start: track the process, then stop it if Cancel was faster.
Track(j) ==
  /\ job[j].call = "spawned"
  /\ Become(j, IF job[j].op = "running"
               THEN [Tracked(job[j]) EXCEPT !.timer = TRUE, !.call = "looking"]
               ELSE [Tracked(job[j]) EXCEPT !.call = "stopping"])
  /\ Same /\ UNCHANGED fails

\* settleHeadless, up to the capture of the output: one settlement at a time.
Settling(r, who) ==
  IF r.tracked /\ r.settler = "none" THEN [r EXCEPT !.settler = who] ELSE r
\* The process may have ended before it was tracked: nobody heard of it, its row knows.
LookAtExit(j) ==
  /\ job[j].call = "looking"
  /\ LET r == Settling(job[j], "call")
     IN Become(j, IF job[j].row = "over" /\ r # job[j] THEN [r EXCEPT !.call = "settling"]
                  ELSE [job[j] EXCEPT !.call = "done"])
  /\ Same /\ UNCHANGED fails

-----------------------------------------------------------------------------
(* Settling a job. *)

Forget(r) ==
  [r EXCEPT !.tracked = FALSE, !.pinned = FALSE, !.timer = FALSE, !.timedOut = FALSE]
AfterCall(r) == IF r.settler = "call" THEN [r EXCEPT !.call = "done"] ELSE r

\* Faulty: the status of the process is written for the operation's.
OutcomeOfProcess(r) == IF r.op = "running" THEN [r EXCEPT !.op = "exited"] ELSE r
\* What the end of the process makes of the operation, unless Cancel has ended it.
Outcome(r) ==
  IF r.op # "running" THEN r
  ELSE [r EXCEPT !.op = IF r.timedOut THEN "timeout" ELSE "ended"]

\* settleHeadless from the capture on: the write, and then the ownership.
Settle(j) ==
  /\ job[j].settler # "none"
  /\ Become(j, [Forget(AfterCall(Outcome(job[j]))) EXCEPT !.settler = "none"])
  /\ Same /\ UNCHANGED fails
\* The write fails: the job is still owned, and the call that settled it fails.
SettleFails(j) ==
  /\ job[j].settler # "none" /\ fails + restarts < MaxTroubles /\ fails' = fails + 1
  /\ Become(j, IF job[j].settler = "call"
               THEN CallFailed([job[j] EXCEPT !.settler = "none"])
               ELSE [job[j] EXCEPT !.settler = "none"])
  /\ Same

\* Faulty: the end of a process that timed out is left to its timeout.
TriggerInTime(j) ==
  /\ job[j].event
  /\ Become(j, [(IF job[j].timedOut THEN job[j] ELSE Settling(job[j], "other"))
                  EXCEPT !.event = FALSE])
  /\ Same /\ UNCHANGED fails
\* The trigger loop consumes the end of a process.
Trigger(j) ==
  /\ job[j].event
  /\ Become(j, [Settling(job[j], "other") EXCEPT !.event = FALSE])
  /\ Same /\ UNCHANGED fails
\* settleExitedHeadless, on a check of the run's wait.
Check(j) ==
  /\ run = "active" /\ job[j].call = "done" /\ job[j].row = "over"
  /\ Settling(job[j], "other") # job[j]
  /\ Become(j, Settling(job[j], "other"))
  /\ Same /\ UNCHANGED fails

-----------------------------------------------------------------------------
(* Stopping a job. *)

\* port.terminate succeeds: the process is not there any more.  Its row may record that
\* later, when the write is left to a retry or an exit is still on its way.
Terminated(r) ==
  LET d == [r EXCEPT !.process = "ended"]
  IN IF r.row # "running" THEN {d}
     ELSE {d, [d EXCEPT !.row = "over", !.event = TRUE]}

\* timeOutHeadless, when the timer fires.
TimerFires(j) ==
  /\ job[j].timer
  /\ Become(j, IF job[j].tracked
               THEN [job[j] EXCEPT !.timer = FALSE, !.timedOut = TRUE, !.timeout = "terminating"]
               ELSE [job[j] EXCEPT !.timer = FALSE])
  /\ Same /\ UNCHANGED fails
\* terminate answered.  A stop that failed is only noted, if that can be written.
TimeOutStops(j) ==
  /\ job[j].timeout = "terminating"
  /\ \/ /\ \E r \in Terminated(job[j]) : Become(j, [r EXCEPT !.timeout = "looking"])
        /\ UNCHANGED fails
     \/ /\ Become(j, [job[j] EXCEPT !.timeout = "idle", !.stopFailed = TRUE])
        /\ UNCHANGED fails
     \/ /\ Become(j, [job[j] EXCEPT !.timeout = "idle"])
        /\ fails + restarts < MaxTroubles /\ fails' = fails + 1
  /\ Same
TimeOutLooks(j) ==
  /\ job[j].timeout = "looking"
  /\ Become(j, [(IF job[j].row = "over" THEN Settling(job[j], "other") ELSE job[j])
                  EXCEPT !.timeout = "idle"])
  /\ Same /\ UNCHANGED fails

\* stopTracked's answer: released, or still tracked and the stop noted.  In the call
\* that started the job, a note that cannot be written fails the call.
CallStops(j) ==
  /\ job[j].call = "stopping"
  /\ \/ /\ \E r \in Terminated(job[j]) : Become(j, [Forget(r) EXCEPT !.call = "done"])
        /\ UNCHANGED fails
     \/ /\ Become(j, [job[j] EXCEPT !.call = "done", !.stopFailed = TRUE])
        /\ UNCHANGED fails
     \/ /\ Become(j, CallFailed(job[j]))
        /\ fails + restarts < MaxTroubles /\ fails' = fails + 1
  /\ Same

\* Faulty: every job of the run is ended, not only the running ones.
InterruptedAnyway(r) == [r EXCEPT !.op = "cancelled"]
Interrupted(r) == IF r.op = "running" THEN [r EXCEPT !.op = "cancelled"] ELSE r
\* Cancel ends every running job in the write that cancels the run, and then stops the
\* tracked ones in turn.
Cancel ==
  /\ run = "active" /\ run' = "cancelled"
  /\ job' = [j \in Jobs |->
       [Interrupted(job[j]) EXCEPT !.stop = IF job[j].tracked THEN "todo" ELSE "no"]]
  /\ UNCHANGED <<fails, restarts>>
StopNext(j) ==
  /\ job[j].stop = "todo" /\ \A k \in Jobs : job[k].stop # "terminating"
  /\ Become(j, IF job[j].tracked THEN [job[j] EXCEPT !.stop = "terminating", !.timer = FALSE]
               ELSE [job[j] EXCEPT !.stop = "no"])
  /\ Same /\ UNCHANGED fails
\* Faulty: a process that could not be stopped is let go.
StopForgets(j) ==
  /\ job[j].stop = "terminating"
  /\ Become(j, [Forget(job[j]) EXCEPT !.stop = "no", !.stopFailed = TRUE])
  /\ Same /\ UNCHANGED fails
StopEnds(j) ==
  /\ job[j].stop = "terminating"
  /\ \/ /\ \E r \in Terminated(job[j]) : Become(j, [Forget(r) EXCEPT !.stop = "no"])
        /\ UNCHANGED fails
     \/ /\ Become(j, [job[j] EXCEPT !.stop = "no", !.stopFailed = TRUE])
        /\ UNCHANGED fails
     \/ /\ job' = [k \in Jobs |-> [job[k] EXCEPT !.stop = "no"]]
        /\ fails + restarts < MaxTroubles /\ fails' = fails + 1
  /\ Same

-----------------------------------------------------------------------------
(* The process, and the restart of the runtime.  What a runtime leaves behind is not   *)
(* followed any further.                                                               *)

ProcessEnds(j) ==
  /\ job[j].process = "live" /\ job[j].call # "gone"
  /\ Become(j, [job[j] EXCEPT !.process = "ended"])
  /\ Same /\ UNCHANGED fails
RowRecords(j) ==
  /\ job[j].process = "ended" /\ job[j].row = "running" /\ job[j].call # "gone"
  /\ Become(j, [job[j] EXCEPT !.row = "over", !.event = TRUE])
  /\ Same /\ UNCHANGED fails

\* recoverAtStartup.  What was tracked is forgotten; a process of tmux may still be there.
Restarted(r, dead) ==
  [NoJob EXCEPT !.op = IF r.op = "running" THEN "restarted" ELSE r.op,
                !.process = IF dead /\ r.process = "live" THEN "ended" ELSE r.process,
                !.call = IF r.call = "idle" THEN "idle" ELSE "gone"]
Restart ==
  /\ fails + restarts < MaxTroubles /\ restarts' = restarts + 1
  /\ \E dead \in SUBSET Jobs : job' = [j \in Jobs |-> Restarted(job[j], j \in dead)]
  /\ UNCHANGED <<run, fails>>

StartStep(j) == StartFails(j) \/ Spawn(j) \/ Track(j) \/ LookAtExit(j) \/ CallStops(j)
SettleStep(j) == Settle(j) \/ SettleFails(j)
TimeOutStep(j) == TimerFires(j) \/ TimeOutStops(j) \/ TimeOutLooks(j)
StopStep(j) == StopNext(j) \/ StopEnds(j)
JobStep(j) ==
  \/ RunHeadless(j) \/ StartStep(j) \/ SettleStep(j) \/ Trigger(j) \/ Check(j)
  \/ TimeOutStep(j) \/ StopStep(j) \/ ProcessEnds(j) \/ RowRecords(j)
Next == Cancel \/ Restart \/ \E j \in Jobs : JobStep(j)
Spec == Init /\ [][Next]_vars

\* The port's calls return, timers fire, the trigger loop runs, and the row of a
\* process that ended records it.  Nothing makes a process end by itself.
Fairness ==
  \A j \in Jobs :
    /\ WF_vars(StartStep(j)) /\ WF_vars(SettleStep(j)) /\ WF_vars(Trigger(j))
    /\ WF_vars(TimeOutStep(j)) /\ WF_vars(StopStep(j)) /\ WF_vars(RowRecords(j))
FairSpec == Spec /\ Fairness

-----------------------------------------------------------------------------
\* Rows, tracking and fibers have their types.
TypeOK == /\ run \in {"active", "cancelled"}
          /\ job \in [Jobs -> Job]
          /\ fails \in Nat /\ restarts \in Nat /\ fails + restarts <= MaxTroubles

\* A running job never loses its owner: until its end is written it is being launched,
\* or tracked with its log pinned, so that an exit, the timeout, Cancel or the next
\* check can still end it (headless.ts:138, "the process stays tracked until that write").
OwnedUntilSettled ==
  \A j \in Jobs : job[j].op = "running" =>
    job[j].call \in {"launching", "spawned"} \/ (job[j].tracked /\ job[j].pinned)

\* A live process of this runtime always has somebody who may stop it, even when Cancel
\* came while it was launched (headless.ts:84).
LiveIsOwned ==
  \A j \in Jobs : job[j].process = "live" => job[j].tracked \/ job[j].call \in {"spawned", "gone"}

\* The run and its operations never disagree: a cancelled run has no running job, not
\* even of a function that went on after Cancel (controls.ts:195, context.ts:51).
CancelledIsOver == run = "cancelled" => \A j \in Jobs : job[j].op # "running"

\* Nobody falls between two owners, neither the row of a job nor its process, and no row outlives
\* the run that owns it.
JobsAreOwned == OwnedUntilSettled /\ LiveIsOwned /\ CancelledIsOver

\* What is told of a process is told after it ended: no timeout and no exit is written
\* for one that still runs (headless.ts:102).
EndedBeforeTold ==
  \A j \in Jobs : job[j].op \in {"ended", "timeout"} => job[j].process = "ended"

\* A job is told once: neither a late exit, a timeout nor a call that fails changes what
\* was written for a process's end.
ToldOnce ==
  [][\A j \in Jobs : job[j].op \in {"ended", "timeout"} => job'[j].op = job[j].op]_vars

\* settleHeadless, timeOutHeadless: a job is told of its process once, and truly.
ToldTruly == []EndedBeforeTold /\ ToldOnce

\* A running job is settled, by its exit or its timeout, unless it cannot be stopped or a
\* write failed: an exit published before the process was tracked is not lost.
RunningIsSettled ==
  \A j \in Jobs : job[j].op = "running" ~>
    (job[j].op # "running" \/ job[j].stopFailed \/ fails > 0)

\* Cancel reaches every process, one being launched included.
CancelStops ==
  \A j \in Jobs : (run = "cancelled" /\ job[j].process = "live") ~>
    (job[j].process # "live" \/ job[j].stopFailed \/ fails > 0 \/ job[j].call = "gone")

\* startHeadless, timeOutHeadless, Cancel: whatever comes first, a job and its process come to an end.
JobsSettle == RunningIsSettled /\ CancelStops
=============================================================================
