------------------------- MODULE HeadlessJobsProofs -------------------------
(***************************************************************************)
(* Theorems about HeadlessJobs, for any set of jobs and any number of      *)
(* failed writes and restarts.  No action relates two jobs but Cancel and  *)
(* Restart, so the invariant is about one job's record, and the run.       *)
(***************************************************************************)
EXTENDS HeadlessJobs, TLAPS

\* Before the call has tracked its process nobody else knows of the job.
Unshared(r) ==
  /\ r.call \in {"idle", "launching", "spawned"} =>
       ~r.tracked /\ ~r.timer /\ r.settler = "none" /\ r.timeout = "idle" /\ r.stop = "no"
  /\ r.call \in {"idle", "launching"} => r.process = "none" /\ r.row = "none" /\ ~r.event
  /\ r.call = "idle" => r.op = "none"
  /\ r.call \in {"launching", "spawned"} => r.op \in {"running", "cancelled"}

Owned(r) ==
  /\ r.op = "running" => r.call \in {"launching", "spawned"} \/ (r.tracked /\ r.pinned)
  /\ r.process = "live" => r.tracked \/ r.call \in {"spawned", "gone"}

\* Who settles has seen the row over, and the row is over after the process.
SettlesAnEnd(r) ==
  /\ r.event => r.row = "over"
  /\ r.settler # "none" => r.row = "over"
  /\ r.row = "over" => r.process = "ended"
  /\ r.settler = "call" <=> r.call = "settling"

\* Who stops a job found it cancelled.
StopsCancelled(r) ==
  /\ r.call = "stopping" => r.op = "cancelled"
  /\ r.stop # "no" => r.op # "running"

\* A job that was told is not tracked, so that nobody settles it again.
ToldIsOver(r) ==
  r.op \in {"ended", "timeout"} => r.process = "ended" /\ ~r.tracked /\ r.settler = "none"

Good(r) == r \in Job /\ Unshared(r) /\ Owned(r) /\ SettlesAnEnd(r) /\ StopsCancelled(r)
           /\ ToldIsOver(r)
\* What failed and the restarts stay within their bound.
Counted == fails \in Nat /\ restarts \in Nat /\ fails + restarts <= MaxTroubles

IInv == TypeOK /\ CancelledIsOver /\ \A j \in Jobs : Good(job[j])

\* A step of one job: it keeps the record good, starts nothing in a cancelled run, and
\* says nothing else of a job that was told.
Kept(j, r) ==
  /\ Good(r) /\ Become(j, r)
  /\ r.op = "running" => job[j].op = "running" \/ run # "cancelled"
  /\ job[j].op \in {"ended", "timeout"} => r.op = job[j].op

-----------------------------------------------------------------------------
(* The steps of one job. *)

LEMMA RunHeadlessKeeps ==
  ASSUME NEW j \in Jobs, Good(job[j]), RunHeadless(j)
  PROVE  \E r \in Job : Kept(j, r)
<1> DEFINE r == IF run = "cancelled" THEN [job[j] EXCEPT !.call = "done"]
                ELSE [job[j] EXCEPT !.op = "running", !.call = "launching"]
<1>1. job[j].call = "idle" /\ Become(j, r)
  BY DEF RunHeadless, Record
<1>2. job[j].op = "none" /\ r \in Job
  BY <1>1 DEF Good, Unshared, Job, Calls
<1>3. Good(r)
  BY <1>1, <1>2 DEF Good, Job, Unshared, Owned, SettlesAnEnd, StopsCancelled, ToldIsOver
<1>4. r.op = "running" => run # "cancelled"
  BY <1>1, <1>2 DEF Good, Job
<1> QED
  BY <1>1, <1>2, <1>3, <1>4 DEF Kept

LEMMA StartFailsKeeps ==
  ASSUME NEW j \in Jobs, Good(job[j]), StartFails(j)
  PROVE  \E r \in Job : Kept(j, r)
<1>1. job[j].call = "launching" /\ Become(j, CallFailed(job[j]))
  BY DEF StartFails
<1>2. CallFailed(job[j]) \in Job
  BY DEF CallFailed, Good, Job, Calls, Ends
<1>3. Good(CallFailed(job[j]))
  BY <1>1, <1>2 DEF CallFailed, Good, Job, Unshared, Owned, SettlesAnEnd, StopsCancelled,
                    ToldIsOver
<1> QED
  BY <1>1, <1>2, <1>3 DEF Kept, CallFailed, Good, Job, Unshared

LEMMA SpawnKeeps ==
  ASSUME NEW j \in Jobs, Good(job[j]), Spawn(j)
  PROVE  \E r \in Job : Kept(j, r)
<1> DEFINE up   == [job[j] EXCEPT !.call = "spawned", !.process = "live", !.row = "running"]
           dead == [job[j] EXCEPT !.call = "spawned", !.process = "ended", !.row = "over",
                                  !.event = TRUE]
<1>1. job[j].call = "launching" /\ (Become(j, up) \/ Become(j, dead))
  BY DEF Spawn
<1>2. up \in Job /\ dead \in Job
  BY DEF Good, Job, Calls
<1>3. Good(up)
  BY <1>1, <1>2 DEF Good, Job, Unshared, Owned, SettlesAnEnd, StopsCancelled, ToldIsOver
<1>4. Good(dead)
  BY <1>1, <1>2 DEF Good, Job, Unshared, Owned, SettlesAnEnd, StopsCancelled, ToldIsOver
<1>5. up.op = job[j].op /\ dead.op = job[j].op
  BY DEF Good, Job
<1> QED
  BY <1>1, <1>2, <1>3, <1>4, <1>5 DEF Kept

LEMMA TrackKeeps ==
  ASSUME NEW j \in Jobs, Good(job[j]), Track(j)
  PROVE  \E r \in Job : Kept(j, r)
<1> DEFINE r == IF job[j].op = "running"
                THEN [Tracked(job[j]) EXCEPT !.timer = TRUE, !.call = "looking"]
                ELSE [Tracked(job[j]) EXCEPT !.call = "stopping"]
<1>1. job[j].call = "spawned" /\ Become(j, r)
  BY DEF Track
<1>2. r \in Job /\ r.op = job[j].op
  BY DEF Tracked, Good, Job, Calls
<1>3. Good(r)
  BY <1>1, <1>2 DEF Tracked, Good, Job, Unshared, Owned, SettlesAnEnd, StopsCancelled,
                    ToldIsOver
<1> QED
  BY <1>1, <1>2, <1>3 DEF Kept

\* A settlement by anybody but the call, of a job whose row is over.
LEMMA OtherSettles ==
  ASSUME NEW s, Good(s), s.row = "over"
  PROVE  Good(Settling(s, "other")) /\ Settling(s, "other").op = s.op
<1>1. CASE s.tracked /\ s.settler = "none"
  <2>1. Settling(s, "other") = [s EXCEPT !.settler = "other"]
    BY <1>1 DEF Settling
  <2>2. [s EXCEPT !.settler = "other"] \in Job /\ [s EXCEPT !.settler = "other"].op = s.op
    BY DEF Good, Job
  <2>3. Good([s EXCEPT !.settler = "other"])
    BY <1>1, <2>2 DEF Good, Job, Unshared, Owned, SettlesAnEnd, StopsCancelled, ToldIsOver
  <2> QED
    BY <2>1, <2>2, <2>3
<1>2. CASE ~(s.tracked /\ s.settler = "none")
  BY <1>2 DEF Settling
<1> QED
  BY <1>1, <1>2

LEMMA LookAtExitKeeps ==
  ASSUME NEW j \in Jobs, Good(job[j]), LookAtExit(j)
  PROVE  \E r \in Job : Kept(j, r)
<1> DEFINE s == Settling(job[j], "call")
           settling == [s EXCEPT !.call = "settling"]
           done == [job[j] EXCEPT !.call = "done"]
<1>1. job[j].call = "looking"
  BY DEF LookAtExit
<1>2. CASE job[j].row = "over" /\ s # job[j]
  <2>1. Become(j, settling) /\ job[j].tracked /\ job[j].settler = "none"
        /\ s = [job[j] EXCEPT !.settler = "call"]
    BY <1>2 DEF LookAtExit, Settling
  <2>2. settling \in Job /\ settling.op = job[j].op
    BY <2>1 DEF Good, Job, Calls
  <2>3. Good(settling)
    BY <1>1, <1>2, <2>1, <2>2 DEF Good, Job, Unshared, Owned, SettlesAnEnd, StopsCancelled,
                                  ToldIsOver
  <2> QED
    BY <2>1, <2>2, <2>3 DEF Kept
<1>3. CASE ~(job[j].row = "over" /\ s # job[j])
  <2>1. Become(j, done)
    BY <1>3 DEF LookAtExit
  <2>2. done \in Job /\ done.op = job[j].op
    BY DEF Good, Job, Calls
  <2>3. Good(done)
    BY <1>1, <2>2 DEF Good, Job, Unshared, Owned, SettlesAnEnd, StopsCancelled, ToldIsOver
  <2> QED
    BY <2>1, <2>2, <2>3 DEF Kept
<1> QED
  BY <1>2, <1>3

LEMMA SettleKeeps ==
  ASSUME NEW j \in Jobs, Good(job[j]), Settle(j)
  PROVE  \E r \in Job : Kept(j, r)
<1> DEFINE o == Outcome(job[j])
           a == AfterCall(o)
           r == [Forget(a) EXCEPT !.settler = "none"]
<1>1. job[j].settler # "none" /\ Become(j, r)
  BY DEF Settle
<1>2. o \in Job /\ o = [job[j] EXCEPT !.op = o.op]
      /\ o.op = (IF job[j].op # "running" THEN job[j].op
                 ELSE IF job[j].timedOut THEN "timeout" ELSE "ended")
  BY DEF Outcome, Good, Job, Ends
<1>3. a \in Job /\ a.op = o.op
      /\ a = [o EXCEPT !.call = IF job[j].settler = "call" THEN "done" ELSE o.call]
  BY <1>2 DEF AfterCall, Job, Calls
<1>4. r \in Job /\ r.op = o.op
  BY <1>3 DEF Forget, Job
<1>5. job[j].op \in {"ended", "timeout"} => FALSE
  BY <1>1 DEF Good, ToldIsOver
<1>6. Good(r)
  BY <1>1, <1>2, <1>3, <1>4, <1>5 DEF Forget, Good, Job, Unshared, Owned, SettlesAnEnd,
                                      StopsCancelled, ToldIsOver
<1> QED
  BY <1>1, <1>2, <1>4, <1>5, <1>6 DEF Kept

\* A call that fails, of a job that is not told and not settled by others.
LEMMA FailedIsGood ==
  ASSUME NEW s, Good(s), s.call = "stopping"
  PROVE  Good(CallFailed(s))
<1>1. CallFailed(s) \in Job
  BY DEF CallFailed, Good, Job, Calls, Ends
<1> QED
  BY <1>1 DEF CallFailed, Good, Job, Unshared, Owned, SettlesAnEnd, StopsCancelled, ToldIsOver

LEMMA SettleFailsKeeps ==
  ASSUME NEW j \in Jobs, Good(job[j]), SettleFails(j)
  PROVE  \E r \in Job : Kept(j, r)
<1> DEFINE s == [job[j] EXCEPT !.settler = "none"]
<1>1. job[j].settler # "none" /\ s \in Job
  BY DEF SettleFails, Good, Job
<1>2. job[j].op \notin {"ended", "timeout"}
  BY <1>1 DEF Good, ToldIsOver
<1>3. CASE job[j].settler = "call"
  <2>1. Become(j, CallFailed(s)) /\ CallFailed(s) \in Job /\ CallFailed(s).op = "call"
    BY <1>1, <1>3 DEF SettleFails, CallFailed, Job, Calls, Ends
  <2>2. Good(CallFailed(s))
    BY <1>1, <1>3, <2>1 DEF CallFailed, Good, Job, Unshared, Owned, SettlesAnEnd,
                            StopsCancelled, ToldIsOver
  <2> QED
    BY <1>2, <2>1, <2>2 DEF Kept
<1>4. CASE job[j].settler # "call"
  <2>1. Become(j, s) /\ s.op = job[j].op
    BY <1>1, <1>4 DEF SettleFails, Good, Job
  <2>2. Good(s)
    BY <1>1, <1>4 DEF Good, Job, Unshared, Owned, SettlesAnEnd, StopsCancelled, ToldIsOver
  <2> QED
    BY <1>1, <2>1, <2>2 DEF Kept
<1> QED
  BY <1>3, <1>4

LEMMA TriggerKeeps ==
  ASSUME NEW j \in Jobs, Good(job[j]), Trigger(j)
  PROVE  \E r \in Job : Kept(j, r)
<1> DEFINE s == Settling(job[j], "other")
           r == [s EXCEPT !.event = FALSE]
<1>1. job[j].row = "over" /\ Become(j, r)
  BY DEF Trigger, Good, SettlesAnEnd
<1>2. Good(s) /\ s.op = job[j].op
  BY <1>1, OtherSettles
<1>3. r \in Job /\ r.op = s.op
  BY <1>2 DEF Good, Job
<1>4. Good(r)
  BY <1>2, <1>3 DEF Good, Job, Unshared, Owned, SettlesAnEnd, StopsCancelled, ToldIsOver
<1> QED
  BY <1>1, <1>2, <1>3, <1>4 DEF Kept

LEMMA CheckKeeps ==
  ASSUME NEW j \in Jobs, Good(job[j]), Check(j)
  PROVE  \E r \in Job : Kept(j, r)
<1>1. job[j].row = "over" /\ Become(j, Settling(job[j], "other"))
  BY DEF Check
<1>2. Good(Settling(job[j], "other")) /\ Settling(job[j], "other").op = job[j].op
  BY <1>1, OtherSettles
<1> QED
  BY <1>1, <1>2 DEF Kept, Good

-----------------------------------------------------------------------------
(* Stopping. *)

\* A process that was stopped has ended, whenever its row records it.
LEMMA TerminatedIsGood ==
  ASSUME NEW s, Good(s), s.call \notin {"idle", "launching"}, NEW r \in Terminated(s)
  PROVE  Good(r) /\ r.op = s.op /\ r.process = "ended" /\ r.call = s.call /\ r.stop = s.stop
<1> DEFINE d == [s EXCEPT !.process = "ended"]
           e == [d EXCEPT !.row = "over", !.event = TRUE]
<1>1. d \in Job /\ e \in Job /\ r \in {d, e}
  BY DEF Terminated, Good, Job
<1>2. Good(d)
  BY <1>1 DEF Good, Job, Unshared, Owned, SettlesAnEnd, StopsCancelled, ToldIsOver
<1>3. Good(e)
  BY <1>1 DEF Good, Job, Unshared, Owned, SettlesAnEnd, StopsCancelled, ToldIsOver
<1>4. d.op = s.op /\ d.process = "ended" /\ d.call = s.call /\ d.stop = s.stop
  BY DEF Good, Job
<1>5. e.op = s.op /\ e.process = "ended" /\ e.call = s.call /\ e.stop = s.stop
  BY DEF Good, Job
<1> HIDE DEF d, e
<1> QED
  BY <1>1, <1>2, <1>3, <1>4, <1>5

\* A job whose process and operation are over may be let go.
LEMMA ForgetIsGood ==
  ASSUME NEW s, Good(s), s.op # "running", s.process = "ended"
  PROVE  Good(Forget(s)) /\ Forget(s).op = s.op
<1>1. Forget(s) \in Job /\ Forget(s).op = s.op
  BY DEF Forget, Good, Job
<1> QED
  BY <1>1 DEF Forget, Good, Job, Unshared, Owned, SettlesAnEnd, StopsCancelled, ToldIsOver

LEMMA TimerFiresKeeps ==
  ASSUME NEW j \in Jobs, Good(job[j]), TimerFires(j)
  PROVE  \E r \in Job : Kept(j, r)
<1> DEFINE out == [job[j] EXCEPT !.timer = FALSE, !.timedOut = TRUE, !.timeout = "terminating"]
           late == [job[j] EXCEPT !.timer = FALSE]
<1>1. job[j].timer /\ (Become(j, out) \/ Become(j, late))
  BY DEF TimerFires
<1>2. out \in Job /\ late \in Job /\ out.op = job[j].op /\ late.op = job[j].op
  BY DEF Good, Job
<1>3. Good(out)
  BY <1>1, <1>2 DEF Good, Job, Unshared, Owned, SettlesAnEnd, StopsCancelled, ToldIsOver
<1>4. Good(late)
  BY <1>1, <1>2 DEF Good, Job, Unshared, Owned, SettlesAnEnd, StopsCancelled, ToldIsOver
<1> QED
  BY <1>1, <1>2, <1>3, <1>4 DEF Kept

LEMMA TimeOutStopsKeeps ==
  ASSUME NEW j \in Jobs, Good(job[j]), TimeOutStops(j)
  PROVE  \E r \in Job : Kept(j, r)
<1> DEFINE noted == [job[j] EXCEPT !.timeout = "idle", !.stopFailed = TRUE]
           lost == [job[j] EXCEPT !.timeout = "idle"]
<1>1. job[j].timeout = "terminating" /\ job[j].call \notin {"idle", "launching", "spawned"}
  BY DEF TimeOutStops, Good, Unshared
<1>2. ASSUME NEW d \in Terminated(job[j]), Become(j, [d EXCEPT !.timeout = "looking"])
      PROVE  Kept(j, [d EXCEPT !.timeout = "looking"])
            /\ [d EXCEPT !.timeout = "looking"] \in Job
  <2>1. Good(d) /\ d.op = job[j].op /\ d.call = job[j].call
    BY <1>1, TerminatedIsGood
  <2>2. [d EXCEPT !.timeout = "looking"] \in Job /\ [d EXCEPT !.timeout = "looking"].op = d.op
    BY <2>1 DEF Good, Job
  <2>3. Good([d EXCEPT !.timeout = "looking"])
    BY <1>1, <2>1, <2>2 DEF Good, Job, Unshared, Owned, SettlesAnEnd, StopsCancelled, ToldIsOver
  <2> QED
    BY <1>2, <2>1, <2>2, <2>3 DEF Kept
<1>3. noted \in Job /\ lost \in Job /\ noted.op = job[j].op /\ lost.op = job[j].op
  BY DEF Good, Job
<1>4. Good(noted)
  BY <1>1, <1>3 DEF Good, Job, Unshared, Owned, SettlesAnEnd, StopsCancelled, ToldIsOver
<1>5. Good(lost)
  BY <1>1, <1>3 DEF Good, Job, Unshared, Owned, SettlesAnEnd, StopsCancelled, ToldIsOver
<1>6. CASE Become(j, noted) \/ Become(j, lost)
  BY <1>3, <1>4, <1>5, <1>6 DEF Kept
<1> QED
  BY <1>2, <1>6 DEF TimeOutStops

LEMMA TimeOutLooksKeeps ==
  ASSUME NEW j \in Jobs, Good(job[j]), TimeOutLooks(j)
  PROVE  \E r \in Job : Kept(j, r)
<1> DEFINE s == IF job[j].row = "over" THEN Settling(job[j], "other") ELSE job[j]
           r == [s EXCEPT !.timeout = "idle"]
<1>1. Become(j, r)
  BY DEF TimeOutLooks
<1>2. Good(s) /\ s.op = job[j].op
  BY OtherSettles
<1>3. r \in Job /\ r.op = s.op
  BY <1>2 DEF Good, Job
<1>4. Good(r)
  BY <1>2, <1>3 DEF Good, Job, Unshared, Owned, SettlesAnEnd, StopsCancelled, ToldIsOver
<1> QED
  BY <1>1, <1>2, <1>3, <1>4 DEF Kept

LEMMA CallStopsKeeps ==
  ASSUME NEW j \in Jobs, Good(job[j]), CallStops(j)
  PROVE  \E r \in Job : Kept(j, r)
<1> DEFINE noted == [job[j] EXCEPT !.call = "done", !.stopFailed = TRUE]
<1>1. job[j].call = "stopping" /\ job[j].op = "cancelled" /\ job[j].settler # "call"
  BY DEF CallStops, Good, StopsCancelled, SettlesAnEnd
<1>2. ASSUME NEW d \in Terminated(job[j]), Become(j, [Forget(d) EXCEPT !.call = "done"])
      PROVE  \E r \in Job : Kept(j, r)
  <2> DEFINE r == [Forget(d) EXCEPT !.call = "done"]
  <2>1. Good(d) /\ d.op = "cancelled" /\ d.process = "ended" /\ d.call = "stopping"
    BY <1>1, TerminatedIsGood
  <2>2. Good(Forget(d)) /\ Forget(d).op = "cancelled"
    BY <2>1, ForgetIsGood
  <2>3. Forget(d).call = "stopping" /\ Forget(d).process = "ended"
    BY <2>1 DEF Forget, Good, Job
  <2>4. r \in Job /\ r.op = "cancelled"
    BY <2>2 DEF Good, Job, Calls
  <2>5. Good(r)
    BY <2>2, <2>3, <2>4 DEF Good, Job, Unshared, Owned, SettlesAnEnd, StopsCancelled, ToldIsOver
  <2> QED
    BY <1>1, <1>2, <2>4, <2>5 DEF Kept
<1>3. noted \in Job /\ noted.op = "cancelled"
  BY <1>1 DEF Good, Job, Calls
<1>4. Good(noted)
  BY <1>1, <1>3 DEF Good, Job, Unshared, Owned, SettlesAnEnd, StopsCancelled, ToldIsOver
<1>5. CASE Become(j, noted)
  BY <1>1, <1>3, <1>4, <1>5 DEF Kept
<1>6. CASE Become(j, CallFailed(job[j]))
  <2>1. Good(CallFailed(job[j])) /\ CallFailed(job[j]).op = "call"
    BY <1>1, FailedIsGood DEF CallFailed, Good, Job
  <2> QED
    BY <1>1, <1>6, <2>1 DEF Kept, Good
<1> QED
  BY <1>2, <1>5, <1>6 DEF CallStops

LEMMA StopNextKeeps ==
  ASSUME NEW j \in Jobs, Good(job[j]), StopNext(j)
  PROVE  \E r \in Job : Kept(j, r)
<1> DEFINE go == [job[j] EXCEPT !.stop = "terminating", !.timer = FALSE]
           skip == [job[j] EXCEPT !.stop = "no"]
<1>1. job[j].stop = "todo" /\ (Become(j, go) \/ Become(j, skip))
  BY DEF StopNext
<1>2. go \in Job /\ skip \in Job /\ go.op = job[j].op /\ skip.op = job[j].op
  BY DEF Good, Job
<1>3. Good(go)
  BY <1>1, <1>2 DEF Good, Job, Unshared, Owned, SettlesAnEnd, StopsCancelled, ToldIsOver
<1>4. Good(skip)
  BY <1>1, <1>2 DEF Good, Job, Unshared, Owned, SettlesAnEnd, StopsCancelled, ToldIsOver
<1> QED
  BY <1>1, <1>2, <1>3, <1>4 DEF Kept

LEMMA ProcessEndsKeeps ==
  ASSUME NEW j \in Jobs, Good(job[j]), ProcessEnds(j)
  PROVE  \E r \in Job : Kept(j, r)
<1> DEFINE r == [job[j] EXCEPT !.process = "ended"]
<1>1. job[j].process = "live" /\ Become(j, r)
  BY DEF ProcessEnds
<1>2. r \in Job /\ r.op = job[j].op
  BY DEF Good, Job
<1>3. Good(r)
  BY <1>1, <1>2 DEF Good, Job, Unshared, Owned, SettlesAnEnd, StopsCancelled, ToldIsOver
<1> QED
  BY <1>1, <1>2, <1>3 DEF Kept

LEMMA RowRecordsKeeps ==
  ASSUME NEW j \in Jobs, Good(job[j]), RowRecords(j)
  PROVE  \E r \in Job : Kept(j, r)
<1> DEFINE r == [job[j] EXCEPT !.row = "over", !.event = TRUE]
<1>1. job[j].process = "ended" /\ Become(j, r)
  BY DEF RowRecords
<1>2. r \in Job /\ r.op = job[j].op
  BY DEF Good, Job
<1>3. Good(r)
  BY <1>1, <1>2 DEF Good, Job, Unshared, Owned, SettlesAnEnd, StopsCancelled, ToldIsOver
<1> QED
  BY <1>1, <1>2, <1>3 DEF Kept

-----------------------------------------------------------------------------
(* The steps of one job leave the others alone, and so does the run. *)

LEMMA KeptInv ==
  ASSUME IInv, NEW j \in Jobs, NEW r, Kept(j, r), run' = run,
         Counted', restarts' = restarts
  PROVE  /\ IInv'
         /\ \A k \in Jobs : job[k].op \in {"ended", "timeout"} => job'[k].op = job[k].op
<1>1. r \in Job /\ Good(r)
  BY DEF Kept, Good
<1>2. \A k \in Jobs : job'[k] = IF k = j THEN r ELSE job[k]
  BY DEF Kept, Become, IInv, TypeOK
<1>3. TypeOK'
  BY <1>1 DEF Kept, Become, IInv, TypeOK, Counted
<1>4. CancelledIsOver'
  BY <1>2 DEF Kept, IInv, CancelledIsOver
<1>5. \A k \in Jobs : Good(job'[k])
  BY <1>1, <1>2 DEF IInv
<1> QED
  BY <1>2, <1>3, <1>4, <1>5 DEF IInv, Kept

\* A step of every job.
LEMMA AllInv ==
  ASSUME IInv, job' \in [Jobs -> Job], \A k \in Jobs : Good(job'[k]),
         run' \in {"active", "cancelled"},
         run' = "cancelled" => \A k \in Jobs : job'[k].op # "running",
         Counted'
  PROVE  IInv'
BY DEF IInv, TypeOK, CancelledIsOver, Counted

LEMMA StopEndsInv ==
  ASSUME IInv, NEW j \in Jobs, StopEnds(j)
  PROVE  /\ IInv'
         /\ \A k \in Jobs : job[k].op \in {"ended", "timeout"} => job'[k].op = job[k].op
<1> DEFINE noted == [job[j] EXCEPT !.stop = "no", !.stopFailed = TRUE]
<1>1. Good(job[j]) /\ job[j].stop = "terminating" /\ job[j].op # "running"
      /\ job[j].call \notin {"idle", "launching", "spawned"}
  BY DEF IInv, StopEnds, Good, StopsCancelled, Unshared
<1>2. ASSUME NEW d \in Terminated(job[j]), Become(j, [Forget(d) EXCEPT !.stop = "no"])
      PROVE  Kept(j, [Forget(d) EXCEPT !.stop = "no"])
  <2> DEFINE r == [Forget(d) EXCEPT !.stop = "no"]
  <2>1. Good(d) /\ d.op = job[j].op /\ d.process = "ended" /\ d.call = job[j].call
    BY <1>1, TerminatedIsGood
  <2>2. Good(Forget(d)) /\ Forget(d).op = job[j].op
    BY <1>1, <2>1, ForgetIsGood
  <2>3. r \in Job /\ r.op = job[j].op
    BY <2>2 DEF Good, Job
  <2>4. Good(r)
    BY <1>1, <2>2, <2>3 DEF Good, Job, Unshared, Owned, SettlesAnEnd, StopsCancelled, ToldIsOver
  <2> QED
    BY <1>1, <1>2, <2>3, <2>4 DEF Kept
<1>3. noted \in Job /\ noted.op = job[j].op
  BY <1>1 DEF Good, Job
<1>4. Good(noted)
  BY <1>1, <1>3 DEF Good, Job, Unshared, Owned, SettlesAnEnd, StopsCancelled, ToldIsOver
<1>5. ASSUME Become(j, noted)
      PROVE  Kept(j, noted)
  BY <1>1, <1>3, <1>4, <1>5 DEF Kept
<1>6. Counted' /\ run' = run /\ restarts' = restarts
  BY JobsAssumption DEF IInv, TypeOK, StopEnds, Same, Counted
<1>7. ASSUME job' = [k \in Jobs |-> [job[k] EXCEPT !.stop = "no"]]
      PROVE  /\ IInv'
             /\ \A k \in Jobs : job'[k].op = job[k].op
  <2>1. ASSUME NEW k \in Jobs
        PROVE  Good([job[k] EXCEPT !.stop = "no"]) /\ [job[k] EXCEPT !.stop = "no"].op = job[k].op
    <3>1. Good(job[k])
      BY DEF IInv
    <3>2. [job[k] EXCEPT !.stop = "no"] \in Job
      BY <3>1 DEF Good, Job
    <3> QED
      BY <3>1, <3>2 DEF Good, Job, Unshared, Owned, SettlesAnEnd, StopsCancelled, ToldIsOver
  <2>2. \A k \in Jobs : Good(job'[k]) /\ job'[k].op = job[k].op
    BY <1>7, <2>1
  <2>3. job' \in [Jobs -> Job]
    BY <1>7, <2>1 DEF Good
  <2>4. run \in {"active", "cancelled"} /\ Counted
        /\ (run = "cancelled" => \A k \in Jobs : job[k].op # "running")
    BY DEF IInv, TypeOK, CancelledIsOver, Counted
  <2> QED
    BY <1>6, <2>2, <2>3, <2>4, AllInv
<1> QED
  BY <1>2, <1>5, <1>6, <1>7, KeptInv DEF StopEnds

LEMMA CancelInv ==
  ASSUME IInv, Cancel
  PROVE  /\ IInv'
         /\ \A k \in Jobs : job[k].op \in {"ended", "timeout"} => job'[k].op = job[k].op
<1> DEFINE r(k) == [Interrupted(job[k]) EXCEPT !.stop = IF job[k].tracked THEN "todo" ELSE "no"]
<1>1. ASSUME NEW k \in Jobs
      PROVE  /\ Good(r(k)) /\ r(k).op # "running"
             /\ job[k].op \in {"ended", "timeout"} => r(k).op = job[k].op
  <2> DEFINE i == Interrupted(job[k])
  <2>1. Good(job[k])
    BY DEF IInv
  <2>2. i \in Job /\ i = [job[k] EXCEPT !.op = i.op]
        /\ i.op = IF job[k].op = "running" THEN "cancelled" ELSE job[k].op
    BY <2>1 DEF Interrupted, Good, Job, Ends
  <2>3. r(k) \in Job /\ r(k).op = i.op
    BY <2>2 DEF Job
  <2>4. Good(r(k))
    BY <2>1, <2>2, <2>3 DEF Good, Job, Unshared, Owned, SettlesAnEnd, StopsCancelled, ToldIsOver
  <2> QED
    BY <2>2, <2>3, <2>4
<1>2. job' = [k \in Jobs |-> r(k)]
  BY DEF Cancel
<1> HIDE DEF r
<1>3. \A k \in Jobs : job'[k] = r(k)
  BY <1>2
<1>4. job' \in [Jobs -> Job]
  BY <1>1, <1>2 DEF Good
<1>5. run' = "cancelled" /\ Counted'
  BY DEF Cancel, IInv, TypeOK, Counted
<1> QED
  BY <1>1, <1>3, <1>4, <1>5, AllInv

LEMMA RestartInv ==
  ASSUME IInv, Restart
  PROVE  /\ IInv'
         /\ \A k \in Jobs : job[k].op \in {"ended", "timeout"} => job'[k].op = job[k].op
<1>1. PICK dead \in SUBSET Jobs : job' = [k \in Jobs |-> Restarted(job[k], k \in dead)]
  BY DEF Restart
<1>2. ASSUME NEW k \in Jobs
      PROVE  /\ Good(Restarted(job[k], k \in dead))
             /\ Restarted(job[k], k \in dead).op # "running"
             /\ job[k].op \in {"ended", "timeout"} =>
                  Restarted(job[k], k \in dead).op = job[k].op
  <2> DEFINE op == IF job[k].op = "running" THEN "restarted" ELSE job[k].op
             process == IF k \in dead /\ job[k].process = "live" THEN "ended" ELSE job[k].process
             call == IF job[k].call = "idle" THEN "idle" ELSE "gone"
             r == [NoJob EXCEPT !.op = op, !.process = process, !.call = call]
  <2>1. Good(job[k])
    BY DEF IInv
  <2>2. op \in {"none"} \union Ends /\ process \in {"none", "live", "ended"} /\ call \in Calls
    BY <2>1 DEF Good, Job, Ends, Calls
  <2>3. NoJob \in Job
    BY DEF NoJob, Job, Calls, Ends
  <2>4. r \in Job /\ r.op = op /\ r.process = process /\ r.call = call
        /\ r.row = "none" /\ ~r.event /\ ~r.tracked /\ ~r.timer
        /\ r.settler = "none" /\ r.timeout = "idle" /\ r.stop = "no"
    BY <2>2, <2>3 DEF NoJob, Job
  <2>5. call = "idle" => op = "none" /\ process = "none"
    BY <2>1 DEF Good, Unshared
  <2>6. op \in {"ended", "timeout"} => process = "ended" /\ op = job[k].op
    BY <2>1 DEF Good, ToldIsOver
  <2>7. op # "running" /\ (job[k].op \in {"ended", "timeout"} => op = job[k].op)
    OBVIOUS
  <2>8. Restarted(job[k], k \in dead) = r
    BY DEF Restarted
  <2> HIDE DEF r, op, process
  <2>9. Good(r)
    BY <2>4, <2>5, <2>6, <2>7 DEF Good, Unshared, Owned, SettlesAnEnd, StopsCancelled, ToldIsOver
  <2> QED
    BY <2>4, <2>7, <2>8, <2>9
<1>3. \A k \in Jobs : Good(job'[k]) /\ job'[k].op # "running"
                      /\ (job[k].op \in {"ended", "timeout"} => job'[k].op = job[k].op)
  BY <1>1, <1>2
<1>4. job' \in [Jobs -> Job]
  BY <1>1, <1>2 DEF Good
<1>5. run' \in {"active", "cancelled"} /\ Counted'
  BY JobsAssumption DEF Restart, IInv, TypeOK, Counted
<1> QED
  BY <1>3, <1>4, <1>5, AllInv

LEMMA InitInv == Init => IInv
<1> SUFFICES ASSUME Init
             PROVE  IInv
  OBVIOUS
<1>1. Good(NoJob)
  BY DEF Good, NoJob, Job, Calls, Ends, Unshared, Owned, SettlesAnEnd, StopsCancelled, ToldIsOver
<1>2. NoJob.op # "running"
  BY DEF NoJob
<1> QED
  BY <1>1, <1>2, JobsAssumption DEF Init, IInv, TypeOK, CancelledIsOver, Good

LEMMA StepInv ==
  IInv /\ [Next]_vars =>
    /\ IInv'
    /\ \A k \in Jobs : job[k].op \in {"ended", "timeout"} => job'[k].op = job[k].op
<1> SUFFICES ASSUME IInv, [Next]_vars
             PROVE  /\ IInv'
                    /\ \A k \in Jobs : job[k].op \in {"ended", "timeout"} => job'[k].op = job[k].op
  OBVIOUS
<1>1. CASE UNCHANGED vars
  BY <1>1 DEF vars, IInv, TypeOK, CancelledIsOver
<1>2. CASE Cancel
  BY <1>2, CancelInv
<1>3. CASE Restart
  BY <1>3, RestartInv
<1>4. ASSUME NEW j \in Jobs, JobStep(j)
      PROVE  /\ IInv'
             /\ \A k \in Jobs : job[k].op \in {"ended", "timeout"} => job'[k].op = job[k].op
  <2>1. Good(job[j])
    BY DEF IInv
  <2>2. CASE StopEnds(j)
    BY <2>2, StopEndsInv
  <2>3. CASE ~StopEnds(j)
    <3>1. run' = run /\ restarts' = restarts
      BY <1>4, <2>3 DEF JobStep, StartStep, SettleStep, TimeOutStep, StopStep, RunHeadless, StartFails,
         Spawn, Track, LookAtExit, CallStops, Settle, SettleFails, Trigger, Check, TimerFires,
         TimeOutStops, TimeOutLooks, StopNext, ProcessEnds, RowRecords, Same
    <3>2. fails' = fails \/ (fails + restarts < MaxTroubles /\ fails' = fails + 1)
      BY <1>4, <2>3 DEF JobStep, StartStep, SettleStep, TimeOutStep, StopStep, RunHeadless, StartFails,
         Spawn, Track, LookAtExit, CallStops, Settle, SettleFails, Trigger, Check, TimerFires,
         TimeOutStops, TimeOutLooks, StopNext, ProcessEnds, RowRecords
    <3>3. Counted'
      BY <3>1, <3>2, JobsAssumption DEF IInv, TypeOK, Counted
    <3>4. \E r \in Job : Kept(j, r)
      BY <1>4, <2>1, <2>3, RunHeadlessKeeps, StartFailsKeeps, SpawnKeeps, TrackKeeps,
         LookAtExitKeeps, SettleKeeps, SettleFailsKeeps, TriggerKeeps, CheckKeeps,
         TimerFiresKeeps, TimeOutStopsKeeps, TimeOutLooksKeeps, CallStopsKeeps, StopNextKeeps,
         ProcessEndsKeeps, RowRecordsKeeps DEF JobStep, StartStep, SettleStep, TimeOutStep, StopStep
    <3> QED
      BY <3>1, <3>3, <3>4, KeptInv
  <2> QED
    BY <2>2, <2>3
<1> QED
  BY <1>1, <1>2, <1>3, <1>4 DEF Next

LEMMA Inductive == Spec => []IInv
<1>1. IInv /\ [Next]_vars => IInv'
  BY StepInv
<1> QED
  BY <1>1, InitInv, PTL DEF Spec

-----------------------------------------------------------------------------
(* The theorems. *)

\* Rows, tracking and fibers keep their types.
THEOREM TypesHold == Spec => []TypeOK
<1>1. IInv => TypeOK
  BY DEF IInv
<1> QED
  BY <1>1, Inductive, PTL

\* No running job is ever without an owner, whatever fails and however often the runtime
\* restarts (headless.ts:138).
THEOREM RunningIsOwned == Spec => []OwnedUntilSettled
<1>1. IInv => OwnedUntilSettled
  BY DEF IInv, Good, Owned, OwnedUntilSettled
<1> QED
  BY <1>1, Inductive, PTL

\* No live process of this runtime is without somebody who may stop it (headless.ts:84).
THEOREM ProcessesAreOwned == Spec => []LiveIsOwned
<1>1. IInv => LiveIsOwned
  BY DEF IInv, Good, Owned, LiveIsOwned
<1> QED
  BY <1>1, Inductive, PTL

\* Nothing is told of a process that still runs (headless.ts:102).
THEOREM NothingToldEarly == Spec => []EndedBeforeTold
<1>1. IInv => EndedBeforeTold
  BY DEF IInv, Good, ToldIsOver, EndedBeforeTold
<1> QED
  BY <1>1, Inductive, PTL

\* A cancelled run has no running job, however the launches interleave with Cancel
\* (controls.ts:195, context.ts:51).
THEOREM CancelIsFinal == Spec => []CancelledIsOver
<1>1. IInv => CancelledIsOver
  BY DEF IInv
<1> QED
  BY <1>1, Inductive, PTL

\* What was written for the end of a process is never written over.
THEOREM JobsAreToldOnce == Spec => ToldOnce
<1>1. IInv /\ [Next]_vars =>
        [\A j \in Jobs : job[j].op \in {"ended", "timeout"} => job'[j].op = job[j].op]_vars
  BY StepInv
<1> QED
  BY <1>1, Inductive, PTL DEF Spec, ToldOnce

\* Until its end is written a job has somebody to end it, so has its process, and a cancelled run
\* has no running job.
THEOREM NothingIsOrphaned == Spec => []JobsAreOwned
BY RunningIsOwned, ProcessesAreOwned, CancelIsFinal, PTL DEF JobsAreOwned

\* A job is told of its process once, and only of one that ended.
THEOREM JobsAreToldTruly == Spec => ToldTruly
BY NothingToldEarly, JobsAreToldOnce DEF ToldTruly
=============================================================================
