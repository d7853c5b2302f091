------------------------- MODULE WorkflowRunProofs -------------------------
(***************************************************************************)
(* Theorems about WorkflowRun, for every number of executions, graph       *)
(* invocations, restarts, builds and clients.                              *)
(*                                                                         *)
(* The second part needs more of the tree than one leaf: results computed  *)
(* once, the status of a run true of its tree and driver, and the run a    *)
(* person is promised.  Each step of the engine is first shown to have one *)
(* of ten shapes; the invariants are kept by each shape.                   *)
(***************************************************************************)
EXTENDS WorkflowRun, FiniteSetTheorems, TLAPS

-----------------------------------------------------------------------------
(* The operators the actions are built from keep the types. *)

LEMMA Defaults == /\ ABuild \in Builds
                  /\ NoExec \in ExecRow /\ NoInv \in InvRow
                  /\ NoDriver \in Driver /\ NoReq \in Request
<1>1. ABuild \in Builds
  BY BoundsAssumption DEF ABuild
<1>2. 1 \in InvId /\ 0 \in 0..MaxExec /\ 0 \in 0..MaxInv
  BY BoundsAssumption DEF InvId
<1> QED
  BY <1>1, <1>2 DEF NoExec, ExecRow, NoInv, InvRow, NoDriver, Driver, NoReq,
                    Request, NodeKinds, Results

LEMMA DriverTypes ==
  ASSUME NEW d \in Driver
  PROVE  Kicked(d) \in Driver /\ Looped(d) \in Driver /\ Rested(d) \in Driver
<1>1. d.again \in BOOLEAN
  BY DEF Driver
<1> QED
  BY <1>1, Defaults DEF Kicked, Looped, Rested, Driver

LEMMA StartedType ==
  ASSUME NEW ex \in [ExecId -> ExecRow], NEW k \in NodeKinds, NEW i \in InvId
  PROVE  Started(ex, k, i) \in [ExecId -> ExecRow]
<1>1. NewRow(k, i) \in ExecRow
  BY Defaults DEF NewRow, ExecRow
<1> QED
  BY <1>1 DEF Started

LEMMA FailType ==
  ASSUME TypeOK, NEW e, Fail(e)
  PROVE  /\ run' \in RunRow /\ exec' \in [ExecId -> ExecRow]
         /\ inv' = inv /\ nextExec' = nextExec /\ nextInv' = nextInv
<1>1. run' \in RunRow
  BY DEF TypeOK, Fail, RunRow, RunStatuses
<1>2. exec' \in [ExecId -> ExecRow]
  BY DEF TypeOK, Fail, ExecRow
<1> QED
  BY <1>1, <1>2 DEF Fail

-----------------------------------------------------------------------------
(* The inductive invariant. *)

\* Phases in which the driver holds a leaf it read before it awaited.
Holding == {"loading", "fn", "capture", "checking", "reading"}

\* What d holds across an await is still the open leaf, unless a Cancel closed
\* it meanwhile.
HoldsLeaf(d) ==
  /\ d.leaf \in ExecId
  /\ exec[d.leaf].child = 0 /\ exec[d.leaf].status # "absent"
  /\ Open(d.leaf) \/ run.status = "cancelled"

\* So does the driver, and while its function or capture runs nothing is saved.
HeldLeaf ==
  driver.phase \in Holding =>
    /\ HoldsLeaf(driver)
    /\ driver.phase \in {"fn", "capture"} => exec[driver.leaf].result = "none"

\* Rows that were not inserted yet are blank, and no invocation hangs on one.
BlankRows == /\ \A e \in ExecId : e >= nextExec => exec[e] = NoExec
             /\ \A i \in InvId : inv[i].parent < nextExec

\* An observed target is an execution (RetryObserved commits what was read).
HeldTarget == \A c \in Clients : ctl[c].phase = "observe" => ctl[c].target \in ExecId

IInv == TypeOK /\ AtMostOneLeaf /\ HeldLeaf /\ BlankRows /\ HeldTarget

RowsOK == /\ run \in RunRow
          /\ exec \in [ExecId -> ExecRow] /\ inv \in [InvId -> InvRow]
          /\ nextExec \in 1..(MaxExec + 1) /\ nextInv \in 1..(MaxInv + 1)

-----------------------------------------------------------------------------
(* Type correctness. *)

LEMMA InitType == Init => TypeOK
<1> SUFFICES ASSUME Init PROVE TypeOK
  OBVIOUS
<1>1. run \in RunRow
  BY DEF Init, RunRow, RunStatuses
<1>2. /\ exec \in [ExecId -> ExecRow] /\ inv \in [InvId -> InvRow]
      /\ driver \in Driver /\ ctl \in [Clients -> Request]
  BY Defaults DEF Init
<1>3. /\ nextExec \in 1..(MaxExec + 1) /\ nextInv \in 1..(MaxInv + 1)
      /\ restarts \in 0..MaxRestarts
  BY BoundsAssumption DEF Init
<1> QED
  BY <1>1, <1>2, <1>3 DEF TypeOK, Init

LEMMA ApplyChainType ==
  ASSUME TypeOK, NEW e, NEW top \in ExecId, ApplyChain(e, top)
  PROVE  RowsOK'
<1> DEFINE stepped == {f \in Chain(e) : top \in Chain(f)}
           after == [f \in ExecId |-> IF f \in stepped
                                      THEN [exec[f] EXCEPT !.status = "completed"]
                                      ELSE exec[f]]
<1>1. after \in [ExecId -> ExecRow]
  BY DEF TypeOK, ExecRow
<1>2. exec[top].inv \in InvId
  BY DEF TypeOK, ExecRow
<1>3. /\ inv' \in [InvId -> InvRow]
      /\ run' \in RunRow
      /\ nextExec' \in 1..(MaxExec + 1) /\ nextInv' \in 1..(MaxInv + 1)
  BY BoundsAssumption DEF ApplyChain, TypeOK, InvRow, RunRow, RunStatuses, Room
<1>4. exec' \in [ExecId -> ExecRow]
  <2> HIDE DEF stepped, after
  <2>1. exec' = after \/ \E k \in NodeKinds : exec' = Started(after, k, exec[top].inv)
    BY DEF ApplyChain, stepped, after
  <2> QED
    BY <1>1, <1>2, <2>1, StartedType
<1> QED
  BY <1>3, <1>4 DEF RowsOK

LEMMA RouteType ==
  ASSUME TypeOK, NEW d \in Driver, Route(d)
  PROVE  RowsOK' /\ driver' \in Driver
<1>1. driver' \in Driver
  BY DriverTypes DEF Route
<1>2. CASE UNCHANGED rows
  BY <1>1, <1>2 DEF TypeOK, RowsOK, rows, tree
<1>3. CASE Fail(d.leaf)
  BY <1>1, <1>3, FailType DEF TypeOK, RowsOK
<1>4. CASE \E top \in ExecId : ApplyChain(d.leaf, top)
  BY <1>1, <1>4, ApplyChainType
<1> QED
  BY <1>1, <1>2, <1>3, <1>4 DEF Route

LEMMA ParkType ==
  ASSUME TypeOK, NEW d \in Driver, Park(d)
  PROVE  RowsOK' /\ driver' \in Driver
  BY DriverTypes DEF Park, TypeOK, RowsOK, RunRow, RunStatuses, ExecRow

LEMMA EnterSubgraphType ==
  ASSUME TypeOK, NEW d \in Driver, EnterSubgraph(d)
  PROVE  RowsOK' /\ driver' \in Driver
<1>1. driver' \in Driver
  BY DriverTypes DEF EnterSubgraph
<1>2. CASE UNCHANGED rows
  BY <1>1, <1>2 DEF TypeOK, RowsOK, rows, tree
<1>3. CASE Fail(d.leaf)
  BY <1>1, <1>3, FailType DEF TypeOK, RowsOK
<1>4. CASE ~UNCHANGED rows /\ ~Fail(d.leaf)
  <2>1. nextInv \in InvId /\ nextInv \in 0..MaxInv /\ d.leaf \in 0..MaxExec
    BY <1>4, BoundsAssumption DEF EnterSubgraph, TypeOK, InvId, Driver
  <2>2. PICK k \in NodeKinds :
          exec' = Started([exec EXCEPT ![d.leaf] = Entered(@)], k, nextInv)
    BY <1>4 DEF EnterSubgraph
  <2>3. exec[d.leaf] \in ExecRow => Entered(exec[d.leaf]) \in ExecRow
    BY <2>1 DEF Entered, ExecRow
  <2>4. exec' \in [ExecId -> ExecRow]
    BY <2>1, <2>2, <2>3, StartedType DEF TypeOK
  <2>5. inv' \in [InvId -> InvRow]
    BY <1>4, <2>1 DEF EnterSubgraph, TypeOK, InvRow
  <2>6. /\ nextExec' \in 1..(MaxExec + 1) /\ nextInv' \in 1..(MaxInv + 1)
        /\ run' \in RunRow
    BY <1>4, BoundsAssumption DEF EnterSubgraph, TypeOK, Room
  <2> QED
    BY <1>1, <2>4, <2>5, <2>6 DEF RowsOK
<1> QED
  BY <1>1, <1>2, <1>3, <1>4

LEMMA FailIfType ==
  ASSUME TypeOK, NEW e, Fail(e) \/ UNCHANGED rows
  PROVE  RowsOK'
<1>1. CASE Fail(e)
  BY <1>1, FailType DEF TypeOK, RowsOK
<1>2. CASE UNCHANGED rows
  BY <1>2 DEF TypeOK, RowsOK, rows, tree
<1> QED
  BY <1>1, <1>2

\* What a step's dispatch may change.
StepOK == RowsOK /\ driver \in Driver /\ fresh \in BOOLEAN /\ ran \subseteq ExecId

LEMMA WorkType ==
  ASSUME TypeOK, NEW d \in Driver, d.leaf \in ExecId,
         StartFunction(d) \/ StartCapture(d)
  PROVE  StepOK'
<1>1. driver' \in Driver /\ fresh' \in BOOLEAN /\ ran' \subseteq ExecId
  <2>1. [d EXCEPT !.phase = "fn"] \in Driver /\ [d EXCEPT !.phase = "capture"] \in Driver
    BY DEF Driver
  <2> QED
    BY <2>1, DriverTypes DEF StartFunction, StartCapture, TypeOK
<1>2. CASE UNCHANGED rows
  BY <1>1, <1>2 DEF TypeOK, RowsOK, StepOK, rows, tree
<1>3. CASE Fail(d.leaf)
  BY <1>1, <1>3, FailIfType DEF StepOK
<1> QED
  BY <1>2, <1>3 DEF StartFunction, StartCapture, FailIf

LEMMA PolledType ==
  ASSUME TypeOK, NEW d \in Driver, Polled(d)
  PROVE  RowsOK' /\ driver' \in Driver /\ fresh' \in BOOLEAN
<1>1. fresh' \in BOOLEAN
  BY DEF Polled, TypeOK
<1>2. CASE Route(d) \/ Park(d)
  BY <1>1, <1>2, RouteType, ParkType
<1>3. CASE driver' = [d EXCEPT !.phase = "reading"] /\ UNCHANGED rows
  BY <1>1, <1>3 DEF TypeOK, RowsOK, rows, tree, Driver
<1> QED
  BY <1>2, <1>3 DEF Polled

LEMMA DispatchType ==
  ASSUME TypeOK, NEW d \in Driver, d.leaf \in ExecId, Dispatch(d)
  PROVE  StepOK'
<1>1. CASE EnterSubgraph(d)
  BY <1>1, EnterSubgraphType DEF EnterSubgraph, StepOK, TypeOK
<1>2. CASE StartFunction(d) \/ StartCapture(d)
  BY <1>2, WorkType
<1>3. CASE RouteResult(d)
  BY <1>3, RouteType DEF RouteResult, StepOK, TypeOK
<1>4. CASE CheckUser(d)
  BY <1>4, RouteType, ParkType DEF CheckUser, StepOK, TypeOK
<1>5. CASE CheckOutside(d)
  <2>1. ran' \subseteq ExecId
    BY <1>5 DEF CheckOutside, TypeOK
  <2>2. CASE Polled(d)
    BY <2>1, <2>2, PolledType DEF StepOK
  <2>3. CASE driver' = [d EXCEPT !.phase = "checking"] /\ UNCHANGED <<rows, fresh>>
    BY <2>1, <2>3 DEF StepOK, TypeOK, RowsOK, rows, tree, Driver
  <2> QED
    BY <1>5, <2>2, <2>3 DEF CheckOutside
<1> QED
  BY <1>1, <1>2, <1>3, <1>4, <1>5 DEF Dispatch

\* findLeafExecution returns the one leaf there is.
LEMMA LeafIsLeaf ==
  ASSUME TypeOK, AtMostOneLeaf, Leaves # {}
  PROVE  /\ Leaf \in Leaves /\ Leaf \in ExecId
         /\ \A e \in Leaves : e = Leaf
<1>1. PICK e \in Leaves : TRUE
  OBVIOUS
<1>2. e \in ExecId /\ e \in Nat
  BY BoundsAssumption DEF Leaves, ExecId
<1>3. \A f \in Leaves : f <= e
  BY <1>1, <1>2 DEF AtMostOneLeaf
<1>4. Leaf \in Leaves
  BY <1>1, <1>3 DEF Leaf
<1> QED
  BY <1>4 DEF AtMostOneLeaf, Leaves

LEMMA StepReadType ==
  ASSUME TypeOK, AtMostOneLeaf, Leaves # {}
  PROVE  StepRead \in Driver /\ StepRead.leaf = Leaf /\ StepRead.leaf \in ExecId
<1>1. Leaf \in ExecId /\ Leaf \in 0..MaxExec
  BY LeafIsLeaf, BoundsAssumption DEF ExecId
<1>2. run.build \in Builds /\ run.surface \in BOOLEAN /\ exec[Leaf].answered \in BOOLEAN
  BY <1>1 DEF TypeOK, RunRow, ExecRow
<1> QED
  BY <1>1, <1>2 DEF TypeOK, StepRead, Driver

\* What the driver's actions leave alone.
LEMMA DriveType ==
  ASSUME TypeOK, AtMostOneLeaf, HeldLeaf, Drive
  PROVE  TypeOK'
<1>1. driver \in Driver /\ driver.build \in Builds
  BY DEF TypeOK, Driver
<1>2. ASSUME StepOK', cached' \subseteq Builds, UNCHANGED <<prep, wake, ctl, restarts>>
      PROVE  TypeOK'
  BY <1>2 DEF StepOK, RowsOK, TypeOK
<1>3. CASE Step
  <2>1. cached' \subseteq Builds /\ UNCHANGED <<prep, wake, ctl, restarts>>
    BY <1>3 DEF Step, TypeOK
  <2>2. CASE Leaves # {} /\ Dispatch(StepRead)
    BY <1>2, <2>1, <2>2, StepReadType, DispatchType
  <2>3. CASE driver' = Rested(driver) /\ UNCHANGED <<rows, fresh, ran>>
    BY <1>1, <1>2, <2>1, <2>3, DriverTypes DEF StepOK, RowsOK, TypeOK, rows, tree
  <2>4. CASE /\ Leaves # {} /\ driver' = [StepRead EXCEPT !.phase = "loading"]
             /\ UNCHANGED <<rows, fresh, ran>>
    <3>1. driver' \in Driver
      BY <2>4, StepReadType DEF Driver
    <3> QED
      BY <1>2, <2>1, <2>4, <3>1 DEF StepOK, RowsOK, TypeOK, rows, tree
  <2> QED
    BY <1>3, <2>2, <2>3, <2>4 DEF Step
<1>4. CASE Loaded
  <2>1. driver.leaf \in ExecId
    BY <1>4 DEF Loaded, HeldLeaf, HoldsLeaf, Holding
  <2> QED
    BY <1>1, <1>2, <1>4, <2>1, DispatchType DEF Loaded, TypeOK
<1>5. CASE LoadFails \/ FnFails \/ CaptureFails
  <2>1. /\ driver' \in Driver
        /\ UNCHANGED <<prep, cached, fresh, wake, ctl, restarts, ran>>
    BY <1>1, <1>5, DriverTypes DEF LoadFails, FnFails, CaptureFails
  <2>2. RowsOK'
    BY <1>5, FailIfType DEF LoadFails, FnFails, CaptureFails, FailIf
  <2> QED
    BY <1>2, <2>1, <2>2 DEF StepOK, TypeOK
<1>6. CASE FnReturns \/ CaptureDone
  <2>1. /\ driver' \in Driver
        /\ UNCHANGED <<prep, cached, fresh, wake, ctl, restarts, ran>>
    BY <1>1, <1>6, DriverTypes DEF FnReturns, CaptureDone
  <2>2. CASE UNCHANGED rows
    BY <1>2, <2>1, <2>2 DEF StepOK, RowsOK, TypeOK, rows, tree
  <2>3. ASSUME NEW r \in Results, NEW over \in BOOLEAN, SaveResult(driver.leaf, r, over)
        PROVE  TypeOK'
    <3>1. exec' \in [ExecId -> ExecRow]
      <4>1. driver.leaf \in ExecId
        BY <1>6 DEF FnReturns, CaptureDone, HeldLeaf, HoldsLeaf, Holding
      <4>2. [exec[driver.leaf] EXCEPT !.result = r, !.answered = over] \in ExecRow
        BY <4>1 DEF TypeOK, ExecRow
      <4> QED
        BY <2>3, <4>1, <4>2 DEF SaveResult, TypeOK
    <3> QED
      BY <1>2, <2>1, <2>3, <3>1 DEF SaveResult, StepOK, RowsOK, TypeOK
  <2>4. "complete" \in Results
    BY DEF Results
  <2> QED
    BY <1>6, <2>2, <2>3, <2>4 DEF FnReturns, CaptureDone
<1>7. CASE Checked \/ ReplyRead
  <2>1. /\ cached' \subseteq Builds /\ ran' \subseteq ExecId
        /\ UNCHANGED <<prep, wake, ctl, restarts>>
    BY <1>7 DEF Checked, ReplyRead, TypeOK
  <2>2. CASE Polled(driver)
    BY <1>1, <1>2, <2>1, <2>2, PolledType DEF StepOK
  <2>3. CASE Route(driver) /\ fresh' = FALSE
    BY <1>1, <1>2, <2>1, <2>3, RouteType DEF StepOK
  <2> QED
    BY <1>7, <2>2, <2>3 DEF Checked, ReplyRead
<1> QED
  BY <1>3, <1>4, <1>5, <1>6, <1>7 DEF Drive, DriveOn

LEMMA PrepareType ==
  ASSUME TypeOK, Prepare
  PROVE  TypeOK'
<1>1. CASE Place \/ PlaceFails
  BY <1>1 DEF Place, PlaceFails, TypeOK, RunRow, RunStatuses, tree
<1>2. CASE LoadRoot \/ LoadRootFails
  BY <1>2 DEF LoadRoot, LoadRootFails, TypeOK, rows, tree
<1>3. CASE EnterRoot
  <2>1. /\ driver' \in Driver /\ cached' \subseteq Builds /\ prep' = "none"
        /\ UNCHANGED <<fresh, wake, ctl, restarts, ran>>
    BY <1>3, DriverTypes DEF EnterRoot, TypeOK, RunRow
  <2>2. run' \in RunRow
    BY <1>3 DEF EnterRoot, TypeOK, RunRow, RunStatuses, rows
  <2>3. /\ exec' \in [ExecId -> ExecRow] /\ inv' \in [InvId -> InvRow]
        /\ nextExec' \in 1..(MaxExec + 1) /\ nextInv' \in 1..(MaxInv + 1)
    <3>1. CASE UNCHANGED tree
      BY <3>1 DEF tree, TypeOK
    <3>2. CASE ~UNCHANGED tree
      <4>1. nextInv \in InvId /\ nextInv <= MaxInv /\ Room
        BY <1>3, <3>2 DEF EnterRoot, rows, TypeOK, InvId
      <4>2. \E k \in NodeKinds : exec' = Started(exec, k, nextInv)
        BY <1>3, <3>2 DEF EnterRoot, rows
      <4>3. exec' \in [ExecId -> ExecRow]
        BY <4>1, <4>2, StartedType DEF TypeOK
      <4>4. /\ inv' = [inv EXCEPT ![nextInv].status = "running"]
            /\ nextExec' = nextExec + 1 /\ nextInv' = nextInv + 1
        BY <1>3, <3>2 DEF EnterRoot, rows
      <4> QED
        BY <4>1, <4>3, <4>4, BoundsAssumption DEF TypeOK, InvRow, Room
    <3> QED
      BY <3>1, <3>2
  <2> QED
    BY <2>1, <2>2, <2>3 DEF TypeOK
<1> QED
  BY <1>1, <1>2, <1>3 DEF Prepare

LEMMA RetryExecutionType ==
  ASSUME TypeOK, NEW c \in Clients, NEW t \in ExecId, NEW b \in Builds,
         RetryExecution(c, t, b)
  PROVE  TypeOK'
<1>1. [exec[t] EXCEPT !.status = "running", !.retryOf = t, !.child = 0] \in ExecRow
  <2>1. t \in 0..MaxExec /\ 0 \in 0..MaxInv /\ exec[t] \in ExecRow
    BY BoundsAssumption DEF ExecId, TypeOK
  <2> QED
    BY <2>1 DEF ExecRow
<1>2. exec' \in [ExecId -> ExecRow]
  BY <1>1 DEF RetryExecution, TypeOK
<1>3. run' \in RunRow /\ driver' \in Driver /\ ctl' \in [Clients -> Request]
  BY Defaults, DriverTypes DEF RetryExecution, TypeOK, RunRow, RunStatuses, Done
<1>4. nextExec' \in 1..(MaxExec + 1)
  BY BoundsAssumption DEF RetryExecution, TypeOK, Room
<1> QED
  BY <1>2, <1>3, <1>4 DEF RetryExecution, TypeOK

LEMMA AskType ==
  ASSUME TypeOK, HeldTarget, NEW c \in Clients, Ask(c)
  PROVE  TypeOK' /\ HeldTarget'
<1>1. CASE ResumeAsk(c)
  BY <1>1 DEF ResumeAsk, TypeOK, HeldTarget, rows, tree, Request
<1>2. CASE RetryAsk(c)
  <2>1. (run.envError \/ ~HasRoot) \in BOOLEAN
    BY DEF TypeOK, RunRow, HasRoot
  <2>2. [ctl[c] EXCEPT !.phase = "retry", !.preparing = run.envError \/ ~HasRoot] \in Request
    BY <2>1 DEF TypeOK, Request
  <2>3. ctl' \in [Clients -> Request]
    BY <1>2, <2>2 DEF RetryAsk, TypeOK
  <2> QED
    BY <1>2, <2>3 DEF RetryAsk, TypeOK, HeldTarget, rows, tree
<1>3. CASE Refused(c)
  BY <1>3, Defaults DEF Refused, Done, TypeOK, HeldTarget, rows, tree, NoReq
<1>4. CASE ResumeCommit(c)
  BY <1>4, Defaults, DriverTypes
     DEF ResumeCommit, Done, TypeOK, HeldTarget, tree, NoReq, RunRow, RunStatuses
<1>5. CASE RetryPreparation(c)
  BY <1>5, Defaults
     DEF RetryPreparation, Done, TypeOK, HeldTarget, tree, NoReq, RunRow, RunStatuses
<1>6. ASSUME NEW t \in ExecId, NEW b \in Builds, RetryExecution(c, t, b)
      PROVE  TypeOK' /\ HeldTarget'
  BY <1>6, RetryExecutionType DEF RetryExecution, Done, HeldTarget, TypeOK, NoReq
<1>7. CASE RetryReloaded(c)
  <2>1. PICK t \in Retryable, b \in Builds :
          \/ RetryExecution(c, t, b)
          \/ /\ ctl' = [ctl EXCEPT ![c].phase = "observe",
                                   ![c].target = t, ![c].build = b]
             /\ UNCHANGED <<rows, driver, prep, cached, fresh, wake, restarts, ran>>
    BY <1>7 DEF RetryReloaded
  <2>2. t \in ExecId /\ t \in 0..MaxExec
    BY BoundsAssumption DEF Retryable, ExecId
  <2>3. CASE ctl' = [ctl EXCEPT ![c].phase = "observe", ![c].target = t, ![c].build = b]
             /\ UNCHANGED <<rows, driver, prep, cached, fresh, wake, restarts, ran>>
    BY <2>2, <2>3 DEF TypeOK, HeldTarget, rows, tree, Request
  <2> QED
    BY <1>6, <2>1, <2>2, <2>3
<1>8. CASE RetryObserved(c)
  BY <1>6, <1>8 DEF RetryObserved, HeldTarget, TypeOK, Request
<1> QED
  BY <1>1, <1>2, <1>3, <1>4, <1>5, <1>7, <1>8 DEF Ask

LEMMA ControlType ==
  ASSUME TypeOK, HeldTarget, Control
  PROVE  TypeOK' /\ HeldTarget'
<1>1. CASE Pause \/ Dismiss \/ SurfaceDeleted
  BY <1>1 DEF Pause, Dismiss, SurfaceDeleted, TypeOK, HeldTarget, RunRow, RunStatuses,
              tree, memory
<1>2. CASE Cancel
  <2>1. exec' \in [ExecId -> ExecRow]
    BY <1>2 DEF Cancel, TypeOK, ExecRow
  <2>2. inv' \in [InvId -> InvRow]
    BY <1>2 DEF Cancel, TypeOK, InvRow
  <2>3. run' \in RunRow
    BY <1>2 DEF Cancel, TypeOK, RunRow, RunStatuses
  <2> QED
    BY <1>2, <2>1, <2>2, <2>3 DEF Cancel, TypeOK, HeldTarget, memory
<1>3. ASSUME NEW e \in ExecId, Advance(e)
      PROVE  TypeOK' /\ HeldTarget'
  BY <1>3, DriverTypes DEF Advance, TypeOK, HeldTarget, ExecRow
<1> QED
  BY <1>1, <1>2, <1>3, AskType DEF Control

LEMMA OutsideType ==
  ASSUME TypeOK, HeldTarget, Outside
  PROVE  TypeOK' /\ HeldTarget'
<1>1. ASSUME NEW e \in ExecId, TurnEdge(e) \/ HeadlessSettled(e)
      PROVE  TypeOK' /\ HeldTarget'
  <2>1. exec[e] \in ExecRow /\ exec[e].answered \in BOOLEAN
    BY DEF TypeOK, ExecRow
  <2>2. ASSUME NEW a \in BOOLEAN, exec' = [exec EXCEPT ![e].answered = a]
        PROVE  exec' \in [ExecId -> ExecRow]
    BY <2>1, <2>2 DEF TypeOK, ExecRow
  <2>3. /\ \E a \in BOOLEAN : exec' = [exec EXCEPT ![e].answered = a]
        /\ wake' \subseteq {"turn", "headless"}
        /\ UNCHANGED <<run, inv, nextExec, nextInv, driver, prep, cached, fresh, ctl,
                       restarts, ran>>
    BY <1>1, <2>1, Zenon DEF TurnEdge, HeadlessSettled, TypeOK
  <2> QED
    BY <2>2, <2>3 DEF TypeOK, HeldTarget
<1>2. ASSUME NEW t \in {"turn", "headless"}, Trigger(t)
      PROVE  TypeOK' /\ HeldTarget'
  BY <1>2, DriverTypes DEF Trigger, TypeOK, HeldTarget, rows, tree
<1> QED
  BY <1>1, <1>2 DEF Outside, Awaiting, Leaves, Retryable

LEMMA RestartType ==
  ASSUME TypeOK, Restart
  PROVE  TypeOK' /\ HeldTarget'
<1>1. run' \in RunRow
  BY DEF Restart, Recovered, TypeOK, RunRow, RunStatuses, Active, ActiveStatuses
<1>2. exec' \in [ExecId -> ExecRow]
  <2>1. ASSUME NEW e \in ExecId
        PROVE  exec'[e] \in ExecRow
    <3> DEFINE s == IF Active /\ e \in Interrupted THEN "interrupted" ELSE exec[e].status
               a == exec[e].answered \/ exec[e].result = "headless"
    <3>1. exec[e] \in ExecRow /\ exec[e].answered \in BOOLEAN
      BY DEF TypeOK, ExecRow
    <3>2. s \in {"absent", "running", "waiting", "completed", "failed", "interrupted",
                 "cancelled"}
      BY <3>1 DEF ExecRow
    <3>3. a \in BOOLEAN
      BY <3>1
    <3>4. exec'[e] = [exec[e] EXCEPT !.status = s, !.answered = a]
      BY DEF Restart
    <3> HIDE DEF s, a
    <3> QED
      BY <3>1, <3>2, <3>3, <3>4 DEF ExecRow
  <2>2. exec' = [e \in ExecId |-> exec'[e]]
    BY DEF Restart
  <2> QED
    BY <2>1, <2>2
<1>3. driver' \in Driver /\ ctl' \in [Clients -> Request] /\ HeldTarget'
  BY Defaults DEF Restart, HeldTarget, NoReq
<1>4. restarts' \in 0..MaxRestarts
  <2>1. restarts < MaxRestarts /\ restarts' = restarts + 1
    BY Zenon DEF Restart
  <2> QED
    BY <2>1, BoundsAssumption DEF TypeOK
<1>5. /\ prep' = "none" /\ cached' = {} /\ fresh' = FALSE /\ wake' = {} /\ ran' = {}
      /\ UNCHANGED <<inv, nextExec, nextInv>>
  BY DEF Restart
<1> QED
  BY <1>1, <1>2, <1>3, <1>4, <1>5 DEF TypeOK

-----------------------------------------------------------------------------
(* One leaf, held by the driver. *)

Tree == AtMostOneLeaf /\ BlankRows

\* A failed step closes the only leaf.
LEMMA FailTree ==
  ASSUME TypeOK, Tree, NEW e \in Leaves, Fail(e)
  PROVE  Tree'
<1>1. e \in ExecId /\ Open(e)
  BY DEF Leaves
<1>2. exec'[e].status = "failed" /\ \A f \in ExecId : f # e => exec'[f] = exec[f]
  BY <1>1 DEF Fail, TypeOK
<1>3. Leaves' = {}
  BY <1>2 DEF Leaves, Open, Tree, AtMostOneLeaf
<1>4. BlankRows'
  <2>1. e < nextExec
    BY <1>1, BoundsAssumption DEF Tree, BlankRows, NoExec, Open, TypeOK, ExecId
  <2> QED
    BY <1>2, <2>1, BoundsAssumption DEF Fail, Tree, BlankRows, TypeOK, ExecId
<1> QED
  BY <1>3, <1>4 DEF Tree, AtMostOneLeaf

\* When the leaf goes and a row is inserted, that row is the only leaf.
LEMMA StartTree ==
  ASSUME TypeOK, Tree, Room,
         NEW ex, NEW row,
         ex \in [ExecId -> ExecRow],
         \A f \in ExecId : ~(ex[f].status \in {"running", "waiting"} /\ ex[f].child = 0),
         \A f \in ExecId : f > nextExec => ex[f] = NoExec,
         exec' = [ex EXCEPT ![nextExec] = row], nextExec' = nextExec + 1,
         \A j \in InvId : inv'[j].parent < nextExec',
         run'.status \in ActiveStatuses
  PROVE  Tree'
<1>1. nextExec \in ExecId
  BY BoundsAssumption DEF Room, TypeOK, ExecId
<1>2. \A f \in ExecId : f # nextExec => exec'[f] = ex[f]
  BY <1>1
<1>3. \A f \in Leaves' : f = nextExec
  BY <1>2 DEF Leaves, Open
<1>4. AtMostOneLeaf'
  BY <1>3 DEF AtMostOneLeaf, ActiveStatuses
<1>5. BlankRows'
  BY <1>1, <1>2, BoundsAssumption DEF BlankRows, ExecId, TypeOK
<1> QED
  BY <1>4, <1>5 DEF Tree

LEMMA ApplyChainTree ==
  ASSUME TypeOK, Tree, NEW e \in Leaves, NEW top \in Chain(e), ApplyChain(e, top)
  PROVE  Tree'
<1> DEFINE stepped == {f \in Chain(e) : top \in Chain(f)}
           after == [f \in ExecId |-> IF f \in stepped
                                      THEN [exec[f] EXCEPT !.status = "completed"]
                                      ELSE exec[f]]
<1>1. e \in ExecId /\ e \in stepped /\ top \in ExecId
  BY DEF Leaves, Chain
<1>2. \A f \in ExecId : ~(after[f].status \in {"running", "waiting"} /\ after[f].child = 0)
  <2> SUFFICES ASSUME NEW f \in ExecId, f \notin stepped
               PROVE  ~(exec[f].status \in {"running", "waiting"} /\ exec[f].child = 0)
    BY DEF TypeOK, ExecRow
  <2> QED
    BY <1>1 DEF Leaves, Open, Tree, AtMostOneLeaf
<1>3. \A f \in stepped : f < nextExec
  <2>1. e < nextExec
    BY <1>1, BoundsAssumption DEF Tree, BlankRows, NoExec, Leaves, Open, TypeOK, ExecId
  <2>2. \A i \in Enclosing(exec[e].inv) : inv[i].parent < nextExec
    BY DEF Enclosing, Tree, BlankRows
  <2> QED
    BY <2>1, <2>2 DEF Chain
<1>4. \A f \in ExecId : f >= nextExec => after[f] = NoExec
  BY <1>3, BoundsAssumption DEF Tree, BlankRows, ExecId, TypeOK
<1>5. \A j \in InvId : inv'[j].parent = inv[j].parent
  BY DEF ApplyChain, TypeOK, InvRow
<1>6. after \in [ExecId -> ExecRow]
  BY DEF TypeOK, ExecRow
<1> HIDE DEF stepped, after
<1>7. \/ /\ Room /\ nextExec' = nextExec + 1 /\ run'.status = "running"
         /\ \E k \in NodeKinds : exec' = Started(after, k, exec[top].inv)
      \/ exec' = after /\ nextExec' = nextExec
  BY DEF ApplyChain, stepped, after, TypeOK, RunRow
<1>8. CASE exec' = after /\ nextExec' = nextExec
  <2>1. Leaves' = {}
    BY <1>2, <1>8 DEF Leaves, Open
  <2> QED
    BY <1>4, <1>5, <1>8, <2>1 DEF Tree, AtMostOneLeaf, BlankRows
<1>9. CASE ~(exec' = after /\ nextExec' = nextExec)
  <2>1. PICK k \in NodeKinds : exec' = Started(after, k, exec[top].inv)
    BY <1>7, <1>9
  <2>2. \A j \in InvId : inv'[j].parent < nextExec'
    BY <1>5, <1>7, <1>9, BoundsAssumption DEF Tree, BlankRows, TypeOK, InvRow
  <2>3. \A f \in ExecId : f > nextExec => after[f] = NoExec
    BY <1>4, BoundsAssumption DEF TypeOK, ExecId
  <2> QED
    BY <1>2, <1>6, <1>7, <1>9, <2>1, <2>2, <2>3, StartTree DEF ActiveStatuses, Started
<1> QED
  BY <1>8, <1>9

\* A leaf a live run's driver holds is the leaf.
LEMMA HeldIsLeaf ==
  ASSUME NEW d, HoldsLeaf(d), run.status # "cancelled"
  PROVE  d.leaf \in Leaves
  BY DEF HoldsLeaf, Leaves

\* A driver that loops or rests holds nothing.
LEMMA LetGo ==
  ASSUME NEW d
  PROVE  Looped(d).phase \notin Holding /\ Rested(d).phase \notin Holding
  BY DEF Looped, Rested, NoDriver, Holding

\* Steps that leave the rows alone leave the tree alone.
LEMMA RowsTree ==
  ASSUME Tree, UNCHANGED rows
  PROVE  Tree'
<1>1. run' = run /\ exec' = exec /\ inv' = inv /\ nextExec' = nextExec
  BY DEF rows, tree
<1>2. Leaves' = Leaves
  BY <1>1 DEF Leaves, Open
<1> QED
  BY <1>1, <1>2 DEF Tree, AtMostOneLeaf, BlankRows

LEMMA RouteTree ==
  ASSUME TypeOK, Tree, NEW d \in Driver, HoldsLeaf(d), Route(d)
  PROVE  Tree' /\ driver'.phase \notin Holding
<1>1. driver'.phase \notin Holding
  BY LetGo DEF Route
<1>2. CASE UNCHANGED rows
  BY <1>1, <1>2, RowsTree
<1>3. CASE CanRoute(d.leaf)
  <2>1. d.leaf \in Leaves
    BY <1>3, HeldIsLeaf DEF CanRoute, Active, ActiveStatuses
  <2> QED
    BY <1>1, <1>3, <2>1, FailTree, ApplyChainTree DEF Route
<1> QED
  BY <1>1, <1>2, <1>3 DEF Route

LEMMA ParkTree ==
  ASSUME TypeOK, Tree, NEW d \in Driver, HoldsLeaf(d), Park(d)
  PROVE  Tree' /\ driver'.phase \notin Holding
<1>1. driver'.phase \notin Holding
  BY LetGo DEF Park
<1>2. CASE ~Active
  BY <1>1, <1>2, RowsTree DEF Park, rows, tree
<1>3. CASE Active
  <2>1. d.leaf \in Leaves
    BY <1>3, HeldIsLeaf DEF Active, ActiveStatuses
  <2>2. /\ exec'[d.leaf].status \in {"running", "waiting"} /\ exec'[d.leaf].child = 0
        /\ \A f \in ExecId : f # d.leaf => exec'[f] = exec[f]
        /\ UNCHANGED <<inv, nextExec>> /\ run'.status = "waiting"
    BY <1>3, <2>1 DEF Park, Leaves, Open, TypeOK, ExecRow, RunRow
  <2>3. Leaves' = Leaves
    BY <2>1, <2>2 DEF Leaves, Open
  <2>4. d.leaf < nextExec
    BY <2>1, BoundsAssumption DEF Tree, BlankRows, NoExec, Leaves, Open, TypeOK, ExecId
  <2>5. AtMostOneLeaf'
    BY <2>2, <2>3 DEF Tree, AtMostOneLeaf
  <2>6. BlankRows'
    BY <2>2, <2>4, BoundsAssumption DEF Tree, BlankRows, TypeOK, ExecId
  <2> QED
    BY <1>1, <2>5, <2>6 DEF Tree
<1> QED
  BY <1>2, <1>3

LEMMA EnterSubgraphTree ==
  ASSUME TypeOK, Tree, NEW d \in Driver, HoldsLeaf(d), EnterSubgraph(d)
  PROVE  Tree' /\ driver'.phase \notin Holding
<1>1. driver'.phase \notin Holding
  BY LetGo DEF EnterSubgraph
<1>2. CASE UNCHANGED rows
  BY <1>1, <1>2, RowsTree
<1>3. CASE ~UNCHANGED rows
  <2>1. Active /\ d.leaf \in Leaves /\ d.leaf \in ExecId
    BY <1>3, HeldIsLeaf DEF EnterSubgraph, Active, ActiveStatuses, HoldsLeaf
  <2>2. CASE Fail(d.leaf)
    BY <1>1, <2>1, <2>2, FailTree
  <2>3. CASE ~Fail(d.leaf)
    <3>1. PICK k \in NodeKinds :
            exec' = Started([exec EXCEPT ![d.leaf] = Entered(@)], k, nextInv)
      BY <1>3, <2>3 DEF EnterSubgraph
    <3>2. /\ Room /\ nextExec' = nextExec + 1 /\ run' = run /\ nextInv \in InvId
          /\ inv' = [inv EXCEPT ![nextInv] = [status |-> "running", parent |-> d.leaf]]
      BY <1>3, <2>3 DEF EnterSubgraph, TypeOK, InvId
    <3>3. nextExec \in ExecId /\ d.leaf < nextExec
      <4>1. nextExec \in ExecId
        BY <3>2, BoundsAssumption DEF Room, TypeOK, ExecId
      <4>2. exec[d.leaf] # NoExec
        BY <2>1 DEF Leaves, Open, NoExec
      <4> QED
        BY <2>1, <4>1, <4>2, BoundsAssumption DEF Tree, BlankRows, ExecId
    <3> DEFINE ex == [exec EXCEPT ![d.leaf] = Entered(@)]
    <3>4. Entered(exec[d.leaf]) \in ExecRow /\ Entered(exec[d.leaf]).child # 0
      <4>1. exec[d.leaf] \in ExecRow /\ nextInv \in 0..MaxInv /\ nextInv # 0
        BY <2>1, <3>2, BoundsAssumption DEF TypeOK, InvId
      <4> QED
        BY <4>1 DEF ExecRow, Entered
    <3>5. ex \in [ExecId -> ExecRow]
      BY <3>4 DEF TypeOK
    <3>6. exec' = Started(ex, k, nextInv)
      BY <3>1
    <3>7. ex[d.leaf].child # 0 /\ \A f \in ExecId : f # d.leaf => ex[f] = exec[f]
      BY <2>1, <3>4 DEF TypeOK
    <3> HIDE DEF ex
    <3>8. \A f \in ExecId :
            ~(ex[f].status \in {"running", "waiting"} /\ ex[f].child = 0)
      BY <2>1, <3>7 DEF Leaves, Open, Tree, AtMostOneLeaf
    <3>9. \A f \in ExecId : f > nextExec => ex[f] = NoExec
      BY <2>1, <3>3, <3>7, BoundsAssumption DEF Tree, BlankRows, ExecId
    <3>10. \A j \in InvId : inv'[j].parent < nextExec'
      <4>1. \A j \in InvId : inv'[j].parent = IF j = nextInv THEN d.leaf ELSE inv[j].parent
        BY <3>2 DEF TypeOK
      <4>2. \A j \in InvId : inv[j].parent \in Nat /\ inv[j].parent < nextExec
        BY BoundsAssumption DEF Tree, BlankRows, TypeOK, InvRow
      <4>3. nextExec' = nextExec + 1 /\ d.leaf \in Nat /\ nextExec \in Nat
        BY <2>1, <3>2, <3>3, BoundsAssumption DEF ExecId
      <4>4. \A a, b \in Nat : a < b => a < b + 1
        OBVIOUS
      <4> QED
        BY <3>3, <4>1, <4>2, <4>3, <4>4
    <3>11. run'.status \in ActiveStatuses
      BY <2>1, <3>2 DEF Active
    <3> QED
      BY <1>1, <3>2, <3>5, <3>6, <3>8, <3>9, <3>10, <3>11, StartTree DEF Started
  <2> QED
    BY <2>2, <2>3
<1> QED
  BY <1>2, <1>3

\* Answering a wait or saving a result moves no leaf.
LEMMA MarkTree ==
  ASSUME TypeOK, Tree, NEW e \in ExecId, exec[e].status # "absent",
         \A f \in ExecId : f # e => exec'[f] = exec[f],
         exec'[e].status = exec[e].status, exec'[e].child = exec[e].child,
         inv' = inv, nextExec' = nextExec, run' = run
  PROVE  Tree'
<1>1. Leaves' = Leaves
  BY DEF Leaves, Open
<1>2. e < nextExec
  BY BoundsAssumption DEF Tree, BlankRows, NoExec, TypeOK, ExecId
<1>3. BlankRows'
  BY <1>2, BoundsAssumption DEF Tree, BlankRows, TypeOK, ExecId
<1> QED
  BY <1>1, <1>3 DEF Tree, AtMostOneLeaf

\* A change of the run's status moves no leaf.
LEMMA StatusTree ==
  ASSUME Tree, UNCHANGED tree,
         Leaves # {} => run'.status \in {"running", "waiting", "paused"}
  PROVE  Tree'
<1>1. exec' = exec /\ inv' = inv /\ nextExec' = nextExec
  BY DEF tree
<1>2. Leaves' = Leaves
  BY <1>1 DEF Leaves, Open
<1> QED
  BY <1>1, <1>2 DEF Tree, AtMostOneLeaf, BlankRows

\* What the driver holds survives what everybody else does.
LEMMA HeldKept ==
  ASSUME HeldLeaf, driver' = driver \/ driver' = Kicked(driver),
         \A e \in ExecId : exec[e].status # "absent" =>
           /\ exec'[e].child = exec[e].child /\ exec'[e].result = exec[e].result
           /\ exec'[e].status # "absent"
           /\ Open(e) => Open(e)' \/ run'.status = "cancelled",
         run.status = "cancelled" => run'.status = "cancelled"
  PROVE  HeldLeaf'
<1> SUFFICES ASSUME driver'.phase \in Holding
             PROVE  /\ HoldsLeaf(driver)'
                    /\ driver'.phase \in {"fn", "capture"} =>
                         exec'[driver'.leaf].result = "none"
  BY DEF HeldLeaf
<1>1. driver.phase \in Holding /\ driver'.phase = driver.phase /\ driver'.leaf = driver.leaf
  <2>1. CASE driver' = driver
    BY <2>1
  <2>2. CASE driver' = Kicked(driver)
    BY <2>2 DEF Kicked, NoDriver, Holding
  <2> QED
    BY <2>1, <2>2
<1>2. /\ HoldsLeaf(driver)
      /\ driver.phase \in {"fn", "capture"} => exec[driver.leaf].result = "none"
  BY <1>1 DEF HeldLeaf
<1>3. /\ driver.leaf \in ExecId
      /\ exec'[driver.leaf].child = 0 /\ exec'[driver.leaf].status # "absent"
      /\ exec'[driver.leaf].result = exec[driver.leaf].result
      /\ exec'[driver.leaf].status \in {"running", "waiting"} \/ run'.status = "cancelled"
  BY <1>2 DEF HoldsLeaf, Open
<1> QED
  BY <1>1, <1>2, <1>3 DEF HoldsLeaf, Open

LEMMA FailIfTree ==
  ASSUME TypeOK, Tree, NEW d, HoldsLeaf(d), NEW c \in BOOLEAN, FailIf(c, d.leaf),
         c => run.status # "cancelled"
  PROVE  Tree'
BY HeldIsLeaf, FailTree, RowsTree DEF FailIf

LEMMA PolledTree ==
  ASSUME TypeOK, Tree, NEW d \in Driver, HoldsLeaf(d), Polled(d)
  PROVE  Tree' /\ HeldLeaf'
<1>1. CASE Route(d) \/ Park(d)
  BY <1>1, RouteTree, ParkTree DEF HeldLeaf
<1>2. CASE driver' = [d EXCEPT !.phase = "reading"] /\ UNCHANGED rows
  <2>1. driver'.leaf = d.leaf /\ driver'.phase = "reading"
    BY <1>2 DEF Driver
  <2>2. exec' = exec /\ run' = run
    BY <1>2 DEF rows, tree
  <2> QED
    BY <1>2, <2>1, <2>2, RowsTree DEF HeldLeaf, HoldsLeaf, Open
<1> QED
  BY <1>1, <1>2 DEF Polled

LEMMA WorkTree ==
  ASSUME TypeOK, Tree, NEW d \in Driver, HoldsLeaf(d),
         StartFunction(d) \/ StartCapture(d)
  PROVE  Tree' /\ HeldLeaf'
<1>1. ASSUME NEW p \in {"fn", "capture"}, driver' = [d EXCEPT !.phase = p],
             UNCHANGED rows
      PROVE  Tree' /\ HeldLeaf'
  <2>1. driver'.leaf = d.leaf
    BY <1>1 DEF Driver
  <2>2. exec' = exec /\ run' = run
    BY <1>1 DEF rows, tree
  <2>3. exec[d.leaf].result = "none"
    BY DEF StartFunction, StartCapture, NeedsWork
  <2> QED
    BY <1>1, <2>1, <2>2, <2>3, RowsTree DEF HeldLeaf, HoldsLeaf, Open
<1>2. ASSUME NEW c \in BOOLEAN, c => Active, FailIf(c, d.leaf), driver' = Looped(d)
      PROVE  Tree' /\ HeldLeaf'
  BY <1>2, FailIfTree, LetGo DEF HeldLeaf, Active, ActiveStatuses
<1>3. /\ Active \in BOOLEAN
      /\ (Active /\ exec[d.leaf].status = "running") \in BOOLEAN
  BY DEF Active
<1> QED
  BY <1>1, <1>2, <1>3 DEF StartFunction, StartCapture

LEMMA DispatchTree ==
  ASSUME TypeOK, Tree, NEW d \in Driver, HoldsLeaf(d), Dispatch(d)
  PROVE  Tree' /\ HeldLeaf'
<1>1. CASE EnterSubgraph(d)
  BY <1>1, EnterSubgraphTree DEF HeldLeaf
<1>2. CASE StartFunction(d) \/ StartCapture(d)
  BY <1>2, WorkTree
<1>3. CASE RouteResult(d) \/ CheckUser(d)
  BY <1>3, RouteTree, ParkTree DEF RouteResult, CheckUser, HeldLeaf
<1>4. CASE CheckOutside(d)
  <2>1. CASE Polled(d)
    BY <2>1, PolledTree
  <2>2. CASE driver' = [d EXCEPT !.phase = "checking"] /\ UNCHANGED <<rows, fresh>>
    <3>1. driver'.leaf = d.leaf /\ driver'.phase = "checking"
      BY <2>2 DEF Driver
    <3>2. exec' = exec /\ run' = run /\ UNCHANGED rows
      BY <2>2 DEF rows, tree
    <3> QED
      BY <3>1, <3>2, RowsTree DEF HeldLeaf, HoldsLeaf, Open
  <2> QED
    BY <1>4, <2>1, <2>2 DEF CheckOutside
<1> QED
  BY <1>1, <1>2, <1>3, <1>4 DEF Dispatch

LEMMA StepReadHolds ==
  ASSUME TypeOK, AtMostOneLeaf, Leaves # {}
  PROVE  HoldsLeaf(StepRead)
BY StepReadType, LeafIsLeaf DEF HoldsLeaf, Leaves, Open

LEMMA DriveTree ==
  ASSUME TypeOK, Tree, HeldLeaf, Drive
  PROVE  Tree' /\ HeldLeaf'
<1>1. driver \in Driver
  BY DEF TypeOK
<1>2. driver.phase \in Holding => HoldsLeaf(driver)
  BY DEF HeldLeaf
<1>3. CASE Step
  <2>1. CASE driver' = Rested(driver) /\ UNCHANGED rows
    BY <2>1, RowsTree, LetGo DEF HeldLeaf
  <2>2. CASE Leaves # {} /\ Dispatch(StepRead)
    BY <2>2, StepReadType, StepReadHolds, DispatchTree DEF Tree
  <2>3. CASE Leaves # {} /\ driver' = [StepRead EXCEPT !.phase = "loading"] /\ UNCHANGED rows
    <3>1. driver'.leaf = StepRead.leaf /\ driver'.phase = "loading"
      BY <2>3, StepReadType DEF Driver, Tree
    <3>2. exec' = exec /\ run' = run
      BY <2>3 DEF rows, tree
    <3>3. HoldsLeaf(StepRead)
      BY <2>3, StepReadHolds DEF Tree
    <3> QED
      BY <2>3, <3>1, <3>2, <3>3, RowsTree DEF HeldLeaf, HoldsLeaf, Open
  <2> QED
    BY <1>3, <2>1, <2>2, <2>3 DEF Step
<1>4. CASE Loaded
  BY <1>1, <1>2, <1>4, DispatchTree DEF Loaded, Holding
<1>5. CASE LoadFails \/ FnFails \/ CaptureFails
  <2>1. /\ Active \in BOOLEAN
        /\ (exec[driver.leaf].status = "running" /\ run.status # "cancelled") \in BOOLEAN
        /\ (exec[driver.leaf].status = "running" /\ Active) \in BOOLEAN
    BY DEF Active
  <2>2. HoldsLeaf(driver) /\ driver'.phase \notin Holding
    BY <1>2, <1>5, LetGo DEF LoadFails, FnFails, CaptureFails, Holding
  <2> QED
    BY <1>5, <2>1, <2>2, FailIfTree
       DEF LoadFails, FnFails, CaptureFails, HeldLeaf, Active, ActiveStatuses
<1>6. CASE FnReturns \/ CaptureDone
  <2>1. HoldsLeaf(driver) /\ driver'.phase \notin Holding
    BY <1>2, <1>6, LetGo DEF FnReturns, CaptureDone, Holding
  <2>2. CASE UNCHANGED rows
    BY <2>1, <2>2, RowsTree DEF HeldLeaf
  <2>3. ASSUME NEW r, NEW over, SaveResult(driver.leaf, r, over)
        PROVE  Tree' /\ HeldLeaf'
    <3>1. driver.leaf \in ExecId /\ exec[driver.leaf].status # "absent"
      BY <2>1 DEF HoldsLeaf
    <3>2. /\ \A f \in ExecId : f # driver.leaf => exec'[f] = exec[f]
          /\ exec'[driver.leaf].status = exec[driver.leaf].status
          /\ exec'[driver.leaf].child = exec[driver.leaf].child
          /\ inv' = inv /\ nextExec' = nextExec /\ run' = run
      BY <2>3, <3>1 DEF SaveResult, TypeOK, ExecRow
    <3> QED
      BY <2>1, <3>1, <3>2, MarkTree DEF HeldLeaf
  <2> QED
    BY <1>6, <2>2, <2>3 DEF FnReturns, CaptureDone
<1>7. CASE Checked \/ ReplyRead
  <2>1. HoldsLeaf(driver)
    BY <1>2, <1>7 DEF Checked, ReplyRead, Holding
  <2> QED
    BY <1>1, <1>7, <2>1, PolledTree, RouteTree DEF Checked, ReplyRead, HeldLeaf
<1> QED
  BY <1>3, <1>4, <1>5, <1>6, <1>7 DEF Drive, DriveOn

LEMMA PrepareTree ==
  ASSUME TypeOK, Tree, HeldLeaf, Prepare
  PROVE  Tree' /\ HeldLeaf'
<1>1. run.status \in {"preparing", "failed"} => Leaves = {}
  BY DEF Tree, AtMostOneLeaf
<1>2. UNCHANGED tree =>
        \A e \in ExecId : exec'[e] = exec[e] /\ (Open(e)' <=> Open(e))
  BY DEF tree, Open
<1>3. CASE UNCHANGED tree
  <2>1. /\ driver' = driver \/ driver' = Kicked(driver)
        /\ run.status # "preparing" => run'.status = run.status
    BY <1>3 DEF Prepare, Place, PlaceFails, LoadRoot, EnterRoot, LoadRootFails, rows, tree,
                TypeOK, RunRow
  <2>2. Tree'
    BY <1>1, <1>3, <2>1, StatusTree DEF Tree, AtMostOneLeaf
  <2>3. HeldLeaf'
    BY <1>2, <1>3, <2>1, HeldKept
  <2> QED
    BY <2>2, <2>3
<1>4. CASE ~UNCHANGED tree
  <2>1. /\ EnterRoot /\ run.status = "preparing" /\ Room /\ nextInv <= MaxInv
        /\ nextExec' = nextExec + 1 /\ run'.status = "running"
        /\ inv' = [inv EXCEPT ![nextInv].status = "running"]
        /\ driver' = Kicked(driver)
    BY <1>4 DEF Prepare, Place, PlaceFails, LoadRoot, EnterRoot, LoadRootFails, rows,
                TypeOK, RunRow
  <2>2. PICK k \in NodeKinds : exec' = Started(exec, k, nextInv)
    BY <1>4, <2>1 DEF EnterRoot, rows
  <2>3. nextExec \in ExecId /\ exec[nextExec] = NoExec
    BY <2>1, BoundsAssumption DEF Room, TypeOK, ExecId, Tree, BlankRows
  <2>4. \A e \in ExecId : e # nextExec => exec'[e] = exec[e]
    BY <2>2, <2>3 DEF Started, TypeOK
  <2>5. \A j \in InvId : inv'[j].parent < nextExec'
    <3>1. \A j \in InvId : inv'[j].parent = inv[j].parent
      BY <2>1 DEF TypeOK, InvRow
    <3>2. \A j \in InvId : inv[j].parent \in Nat /\ inv[j].parent < nextExec
      BY BoundsAssumption DEF Tree, BlankRows, TypeOK, InvRow
    <3> QED
      BY <2>1, <2>3, <3>1, <3>2, BoundsAssumption DEF ExecId
  <2>6. Leaves = {}
    BY <1>1, <2>1
  <2>7. \A f \in ExecId :
          ~(exec[f].status \in {"running", "waiting"} /\ exec[f].child = 0)
    BY <2>6 DEF Leaves, Open
  <2>8. \A f \in ExecId : f > nextExec => exec[f] = NoExec
    BY <2>3, BoundsAssumption DEF Tree, BlankRows, ExecId
  <2>9. Tree'
    BY <2>1, <2>2, <2>5, <2>7, <2>8, StartTree DEF TypeOK, Started, ActiveStatuses
  <2>10. HeldLeaf'
    BY <2>1, <2>3, <2>4, HeldKept DEF NoExec, Open
  <2> QED
    BY <2>9, <2>10
<1> QED
  BY <1>3, <1>4

\* Retry repeats an execution only on a failed run, which has no leaf.
LEMMA RetryExecutionTree ==
  ASSUME TypeOK, Tree, HeldLeaf, NEW c, NEW t, NEW b, RetryExecution(c, t, b)
  PROVE  Tree' /\ HeldLeaf'
<1> DEFINE row == [exec[t] EXCEPT !.status = "running", !.retryOf = t, !.child = 0]
<1>1. /\ run.status = "failed" /\ Room /\ exec' = [exec EXCEPT ![nextExec] = row]
      /\ nextExec' = nextExec + 1 /\ inv' = inv /\ driver' = Kicked(driver)
      /\ run'.status = "running"
  BY DEF RetryExecution, TypeOK, RunRow
<1> HIDE DEF row
<1>2. nextExec \in ExecId /\ exec[nextExec] = NoExec
  BY <1>1, BoundsAssumption DEF Room, TypeOK, ExecId, Tree, BlankRows
<1>3. \A e \in ExecId : e # nextExec => exec'[e] = exec[e]
  BY <1>1
<1>4. \A f \in ExecId : ~(exec[f].status \in {"running", "waiting"} /\ exec[f].child = 0)
  BY <1>1 DEF Tree, AtMostOneLeaf, Leaves, Open
<1>5. \A f \in ExecId : f > nextExec => exec[f] = NoExec
  BY <1>2, BoundsAssumption DEF Tree, BlankRows, ExecId
<1>6. \A j \in InvId : inv'[j].parent < nextExec'
  <2>1. \A j \in InvId : inv[j].parent \in Nat /\ inv[j].parent < nextExec
    BY BoundsAssumption DEF Tree, BlankRows, TypeOK, InvRow
  <2> QED
    BY <1>1, <1>2, <2>1, BoundsAssumption DEF ExecId
<1>7. Tree'
  BY <1>1, <1>4, <1>5, <1>6, StartTree DEF TypeOK, ActiveStatuses
<1>8. HeldLeaf'
  BY <1>1, <1>2, <1>3, HeldKept DEF NoExec, Open
<1> QED
  BY <1>7, <1>8

LEMMA AskTree ==
  ASSUME TypeOK, Tree, HeldLeaf, NEW c \in Clients, Ask(c)
  PROVE  Tree' /\ HeldLeaf'
<1>1. CASE UNCHANGED tree
  <2>1. /\ driver' = driver \/ driver' = Kicked(driver)
        /\ run' = run \/ run.status \in {"paused", "failed"}
        /\ run.status = "paused" => run' = run \/ run'.status = "running"
    BY <1>1 DEF Ask, ResumeAsk, RetryAsk, Refused, ResumeCommit, RetryPreparation,
                RetryReloaded, RetryObserved, RetryExecution, rows, tree, TypeOK, RunRow
  <2>2. Tree'
    BY <1>1, <2>1, StatusTree DEF Tree, AtMostOneLeaf
  <2>3. HeldLeaf'
    BY <1>1, <2>1, HeldKept DEF tree, Open
  <2> QED
    BY <2>2, <2>3
<1>2. CASE ~UNCHANGED tree
  <2>1. \E t, b : RetryExecution(c, t, b)
    BY <1>2 DEF Ask, ResumeAsk, RetryAsk, Refused, ResumeCommit, RetryPreparation,
                RetryReloaded, RetryObserved, rows, tree
  <2> QED
    BY <2>1, RetryExecutionTree
<1> QED
  BY <1>1, <1>2

LEMMA ControlTree ==
  ASSUME TypeOK, Tree, HeldLeaf, Control
  PROVE  Tree' /\ HeldLeaf'
<1>1. CASE Pause \/ Dismiss \/ SurfaceDeleted
  <2>1. /\ UNCHANGED tree /\ driver' = driver
        /\ Leaves # {} => run'.status \in {"running", "waiting", "paused"}
        /\ run.status = "cancelled" => run'.status = "cancelled"
    BY <1>1 DEF Pause, Dismiss, SurfaceDeleted, memory, TypeOK, RunRow, Tree,
                AtMostOneLeaf, Active, ActiveStatuses
  <2> QED
    BY <2>1, StatusTree, HeldKept DEF tree, Open
<1>2. CASE Cancel
  <2>1. /\ \A e \in ExecId : IF Open(e)
                             THEN exec'[e] = [exec[e] EXCEPT !.status = "cancelled"]
                             ELSE exec'[e] = exec[e]
        /\ run'.status = "cancelled" /\ nextExec' = nextExec /\ driver' = driver
        /\ \A i \in InvId : inv'[i].parent = inv[i].parent
    <3>1. /\ nextExec' = nextExec /\ driver' = driver
          /\ run' = [run EXCEPT !.status = "cancelled"]
      BY <1>2 DEF Cancel, memory
    <3>2. \A i \in InvId : inv'[i].parent = inv[i].parent
      BY <1>2 DEF Cancel, TypeOK, InvRow
    <3>3. \A e \in ExecId : IF Open(e)
                             THEN exec'[e] = [exec[e] EXCEPT !.status = "cancelled"]
                             ELSE exec'[e] = exec[e]
      BY <1>2 DEF Cancel
    <3> QED
      BY <3>1, <3>2, <3>3 DEF TypeOK, RunRow
  <2>2. Leaves' = {}
    BY <2>1 DEF Leaves, Open, TypeOK, ExecRow
  <2>3. BlankRows'
    <3>1. ASSUME NEW e \in ExecId, e >= nextExec
          PROVE  exec'[e] = NoExec
      <4>1. exec[e] = NoExec /\ ~Open(e)
        BY <3>1 DEF Tree, BlankRows, Open, NoExec
      <4> QED
        BY <2>1, <4>1
    <3>2. \A i \in InvId : inv'[i].parent < nextExec'
      BY <2>1 DEF Tree, BlankRows
    <3> QED
      BY <2>1, <3>1, <3>2 DEF BlankRows
  <2>4. HeldLeaf'
    <3>1. \A e \in ExecId : exec'[e].child = exec[e].child /\ exec'[e].result = exec[e].result
      BY <2>1 DEF TypeOK, ExecRow
    <3>2. \A e \in ExecId : exec[e].status # "absent" => exec'[e].status # "absent"
      BY <2>1 DEF TypeOK, ExecRow
    <3> QED
      BY <2>1, <3>1, <3>2, HeldKept
  <2> QED
    BY <2>2, <2>3, <2>4 DEF Tree, AtMostOneLeaf
<1>3. ASSUME NEW e \in ExecId, Advance(e)
      PROVE  Tree' /\ HeldLeaf'
  <2>1. /\ exec[e].status # "absent" /\ exec'[e].status = exec[e].status
        /\ exec'[e].child = exec[e].child /\ exec'[e].result = exec[e].result
        /\ \A f \in ExecId : f # e => exec'[f] = exec[f]
        /\ inv' = inv /\ nextExec' = nextExec /\ run' = run
        /\ driver' = driver \/ driver' = Kicked(driver)
    BY <1>3 DEF Advance, Open, TypeOK, ExecRow
  <2> QED
    BY <2>1, MarkTree, HeldKept DEF Open
<1> QED
  BY <1>1, <1>2, <1>3, AskTree DEF Control

LEMMA OutsideTree ==
  ASSUME TypeOK, Tree, HeldLeaf, Outside
  PROVE  Tree' /\ HeldLeaf'
<1>1. ASSUME NEW r, NEW e \in Awaiting(r), TurnEdge(e) \/ HeadlessSettled(e)
      PROVE  Tree' /\ HeldLeaf'
  <2>1. e \in ExecId /\ exec[e].status # "absent"
    BY DEF Awaiting, Leaves, Retryable, Open
  <2>2. \E a : exec' = [exec EXCEPT ![e].answered = a]
    BY <1>1 DEF TurnEdge, HeadlessSettled
  <2>3. /\ exec'[e].status = exec[e].status
        /\ exec'[e].child = exec[e].child /\ exec'[e].result = exec[e].result
        /\ \A f \in ExecId : f # e => exec'[f] = exec[f]
    BY <2>1, <2>2 DEF TypeOK, ExecRow
  <2>4. inv' = inv /\ nextExec' = nextExec /\ run' = run /\ driver' = driver
    BY <1>1 DEF TurnEdge, HeadlessSettled
  <2> QED
    BY <2>1, <2>3, <2>4, MarkTree, HeldKept DEF Open
<1>2. ASSUME NEW t, Trigger(t)
      PROVE  Tree' /\ HeldLeaf'
  <2>1. UNCHANGED rows /\ (driver' = driver \/ driver' = Kicked(driver))
    BY <1>2 DEF Trigger
  <2> QED
    BY <2>1, RowsTree, HeldKept DEF rows, tree, Open
<1> QED
  BY <1>1, <1>2 DEF Outside

LEMMA RestartTree ==
  ASSUME TypeOK, Tree, Restart
  PROVE  Tree' /\ HeldLeaf'
<1>1. driver'.phase = "idle" /\ inv' = inv /\ nextExec' = nextExec /\ run' = Recovered
  BY DEF Restart, NoDriver
<1>2. \A e \in ExecId :
        /\ exec'[e].status = IF Active /\ e \in Interrupted THEN "interrupted"
                                                            ELSE exec[e].status
        /\ exec'[e].child = exec[e].child
        /\ exec'[e] = [exec[e] EXCEPT
                         !.status = IF Active /\ e \in Interrupted THEN "interrupted" ELSE @,
                         !.answered = @ \/ exec[e].result = "headless"]
  BY DEF Restart, TypeOK, ExecRow
<1>3. Leaves' \subseteq Leaves
  BY <1>2 DEF Leaves, Open
<1>4. Active /\ Interrupted # {} => Leaves' = {}
  BY <1>2, <1>3 DEF Interrupted, Leaves, Open, Tree, AtMostOneLeaf
<1>5. Leaves' # {} => run'.status \in {"running", "waiting", "paused"}
  BY <1>1, <1>3, <1>4 DEF Recovered, Tree, AtMostOneLeaf, Active, ActiveStatuses, TypeOK,
                          RunRow
<1>6. BlankRows'
  <2>1. ASSUME NEW e \in ExecId, e >= nextExec
        PROVE  exec'[e] = NoExec
    <3>1. exec[e] = NoExec /\ e \notin Interrupted
      BY <2>1 DEF Tree, BlankRows, Interrupted, Leaves, Open, NoExec
    <3> DEFINE s == IF Active /\ e \in Interrupted THEN "interrupted" ELSE exec[e].status
               a == exec[e].answered \/ exec[e].result = "headless"
    <3>2. s = exec[e].status /\ a = exec[e].answered
      <4>1. exec[e].answered = FALSE /\ exec[e].result # "headless"
        BY <3>1 DEF NoExec
      <4>2. a = FALSE
        BY <4>1
      <4>3. s = exec[e].status
        BY <3>1
      <4> QED
        BY <4>1, <4>2, <4>3
    <3>3. exec'[e] = [exec[e] EXCEPT !.status = s, !.answered = a]
      BY <1>2
    <3> HIDE DEF s, a
    <3>4. [NoExec EXCEPT !.status = NoExec.status, !.answered = NoExec.answered] = NoExec
      BY Zenon DEF NoExec
    <3> QED
      BY <3>1, <3>2, <3>3, <3>4
  <2> QED
    BY <1>1, <2>1 DEF Tree, BlankRows
<1>7. HeldLeaf'
  BY <1>1 DEF HeldLeaf, Holding
<1> QED
  BY <1>3, <1>5, <1>6, <1>7 DEF Tree, AtMostOneLeaf

-----------------------------------------------------------------------------
(* The theorems. *)

LEMMA InitInv == Init => IInv
<1> SUFFICES ASSUME Init PROVE IInv
  OBVIOUS
<1>1. TypeOK
  BY InitType
<1>2. \A e \in ExecId : exec[e] = NoExec
  BY DEF Init
<1>3. Leaves = {}
  BY <1>2 DEF Leaves, Open, NoExec
<1>4. BlankRows
  BY <1>2 DEF Init, BlankRows, NoInv
<1>5. HeldLeaf
  BY DEF Init, HeldLeaf, Holding, NoDriver
<1>6. HeldTarget
  BY DEF Init, HeldTarget, NoReq
<1> QED
  BY <1>1, <1>3, <1>4, <1>5, <1>6 DEF IInv, AtMostOneLeaf

LEMMA NextInv == IInv /\ [Next]_vars => IInv'
<1> SUFFICES ASSUME IInv, [Next]_vars PROVE IInv'
  OBVIOUS
<1>1. TypeOK /\ Tree /\ AtMostOneLeaf /\ HeldLeaf /\ HeldTarget
  BY DEF IInv, Tree
<1>2. ASSUME TypeOK', Tree', HeldLeaf', HeldTarget'
      PROVE  IInv'
  BY <1>2 DEF IInv, Tree
<1>3. CASE Prepare
  <2>1. ctl' = ctl
    BY <1>3 DEF Prepare, Place, PlaceFails, LoadRoot, EnterRoot, LoadRootFails
  <2> QED
    BY <1>1, <1>2, <1>3, <2>1, PrepareType, PrepareTree DEF HeldTarget
<1>4. CASE Drive
  <2>1. ctl' = ctl
    BY <1>4 DEF Drive, DriveOn, Step, Loaded, LoadFails, FnReturns, FnFails, CaptureDone,
                CaptureFails, Checked, ReplyRead
  <2> QED
    BY <1>1, <1>2, <1>4, <2>1, DriveType, DriveTree DEF HeldTarget
<1>5. CASE Control
  BY <1>1, <1>2, <1>5, ControlType, ControlTree
<1>6. CASE Outside
  BY <1>1, <1>2, <1>6, OutsideType, OutsideTree
<1>7. CASE Restart
  BY <1>1, <1>2, <1>7, RestartType, RestartTree
<1>8. CASE UNCHANGED vars
  <2>1. UNCHANGED rows /\ UNCHANGED memory /\ restarts' = restarts /\ ran' = ran
    BY <1>8 DEF vars
  <2>2. UNCHANGED <<run, exec, inv, nextExec, nextInv, driver, prep, cached, fresh, wake,
                    ctl>>
    BY <2>1 DEF rows, tree, memory
  <2>3. TypeOK' /\ HeldTarget'
    BY <1>1, <2>1, <2>2 DEF TypeOK, HeldTarget
  <2>4. HeldLeaf'
    BY <1>1, <2>2 DEF HeldLeaf, HoldsLeaf, Open
  <2> QED
    BY <1>1, <1>2, <2>1, <2>3, <2>4, RowsTree
<1> QED
  BY <1>3, <1>4, <1>5, <1>6, <1>7, <1>8 DEF Next

\* The engine's steps keep the inductive invariant: the types, one leaf at most,
\* and a driver and Retry requests that hold what the tree has not moved under them.
THEOREM Invariance == Spec => []IInv
<1> QED
  BY InitInv, NextInv, PTL DEF Spec

\* Every row, and all that the engine keeps in memory, has its type: what the
\* handlers of engine/ write are rows the tables accept.
THEOREM TypeCorrect == Spec => []TypeOK
<1>1. IInv => TypeOK
  BY DEF IInv
<1> QED
  BY <1>1, Invariance, PTL

\* However controls, restarts and the driver interleave, findLeafExecution never
\* has two leaves to choose from, and finds one only while the run is under way.
THEOREM OneLeaf == Spec => []AtMostOneLeaf
<1>1. IInv => AtMostOneLeaf
  BY DEF IInv
<1> QED
  BY <1>1, Invariance, PTL

-----------------------------------------------------------------------------
(* What a step may do when the run is not active. *)

Quiet == \A e \in ExecId : exec'[e].status = exec[e].status

\* A drive that finds the run inactive saves its function's result, or the
\* error of a function that a Pause did not stop, and does nothing else.
LEMMA InactiveDrive ==
  ASSUME TypeOK, HeldLeaf, Drive, ~Active
  PROVE  \/ run' = run /\ Quiet
         \/ /\ FnFails /\ exec[driver.leaf].status = "running" /\ run.status # "cancelled"
            /\ HoldsLeaf(driver) /\ Fail(driver.leaf)
<1>1. UNCHANGED rows => run' = run /\ Quiet
  BY DEF rows, tree, Quiet
<1>2. ASSUME NEW d, Route(d) \/ Park(d)
      PROVE  UNCHANGED rows
  BY <1>2 DEF Route, CanRoute, Park, rows, tree
<1>3. ASSUME NEW d, Dispatch(d)
      PROVE  UNCHANGED rows
  BY <1>2, <1>3 DEF Dispatch, EnterSubgraph, StartFunction, StartCapture, FailIf,
                    RouteResult, CheckUser, CheckOutside, Polled
<1>4. CASE Step \/ Loaded \/ Checked \/ ReplyRead
  BY <1>1, <1>2, <1>3, <1>4 DEF Step, Loaded, Checked, ReplyRead, Polled
<1>5. CASE LoadFails \/ CaptureFails
  BY <1>1, <1>5 DEF LoadFails, CaptureFails, FailIf
<1>6. CASE FnReturns \/ CaptureDone
  <2>1. ASSUME NEW r, NEW over, SaveResult(driver.leaf, r, over)
        PROVE  run' = run /\ Quiet
    BY <2>1 DEF SaveResult, Quiet, TypeOK, ExecRow
  <2> QED
    BY <1>1, <1>6, <2>1 DEF FnReturns, CaptureDone
<1>7. CASE FnFails
  <2>1. HoldsLeaf(driver)
    BY <1>7 DEF FnFails, HeldLeaf, Holding
  <2> QED
    BY <1>1, <1>7, <2>1 DEF FnFails, FailIf
<1> QED
  BY <1>4, <1>5, <1>6, <1>7 DEF Drive, DriveOn

LEMMA OutsideQuiet ==
  ASSUME TypeOK, Outside
  PROVE  run' = run /\ Quiet
<1>1. ASSUME NEW e \in ExecId, TurnEdge(e) \/ HeadlessSettled(e)
      PROVE  run' = run /\ Quiet
  <2>1. \E a : exec' = [exec EXCEPT ![e].answered = a]
    BY <1>1 DEF TurnEdge, HeadlessSettled
  <2>2. run' = run
    BY <1>1 DEF TurnEdge, HeadlessSettled
  <2> QED
    BY <2>1, <2>2 DEF Quiet, TypeOK, ExecRow
<1>2. ASSUME NEW t, Trigger(t)
      PROVE  run' = run /\ Quiet
  BY <1>2 DEF Trigger, rows, tree, Quiet
<1> QED
  BY <1>1, <1>2 DEF Outside, Awaiting, Leaves, Retryable

LEMMA TerminalStep ==
  ASSUME IInv, Next, run.status \in {"completed", "cancelled"}
  PROVE  run'.status = run.status /\ Quiet
<1>1. TypeOK /\ HeldLeaf /\ ~Active /\ Leaves = {}
  BY DEF IInv, AtMostOneLeaf, Active, ActiveStatuses
<1>2. CASE Prepare
  <2>1. exec' = exec /\ (run' = run \/ run' = [run EXCEPT !.surface = TRUE])
    BY <1>2 DEF Prepare, Place, PlaceFails, LoadRoot, EnterRoot, LoadRootFails, rows, tree
  <2> QED
    BY <1>1, <2>1 DEF Quiet, TypeOK, RunRow
<1>3. CASE Drive
  <2>1. ~(HoldsLeaf(driver) /\ exec[driver.leaf].status = "running")
    BY <1>1 DEF HoldsLeaf, Leaves, Open
  <2> QED
    BY <1>1, <1>3, <2>1, InactiveDrive
<1>4. CASE Control
  <2>1. /\ run' = run \/ run' = [run EXCEPT !.surface = FALSE]
        /\ exec' = exec
    BY <1>1, <1>4 DEF Control, Pause, Cancel, Cancellable, Dismiss, SurfaceDeleted, Advance,
                      Ask, ResumeAsk, RetryAsk, Refused, ResumeCommit, RetryPreparation,
                      RetryReloaded, RetryObserved, RetryExecution, rows, tree
  <2> QED
    BY <1>1, <2>1 DEF Quiet, TypeOK, RunRow
<1>5. CASE Outside
  BY <1>1, <1>5, OutsideQuiet
<1>6. CASE Restart
  BY <1>1, <1>6 DEF Restart, Recovered, Quiet, TypeOK, ExecRow
<1> QED
  BY <1>2, <1>3, <1>4, <1>5, <1>6 DEF Next

\* A completed or cancelled run keeps its status and its tree for ever: no late
\* function result, control, trigger or restart moves it.
THEOREM TerminalForever == Spec => TerminalStays
<1> DEFINE Stays == run.status \in {"completed", "cancelled"} =>
                      /\ run'.status = run.status
                      /\ \A e \in ExecId : exec'[e].status = exec[e].status
<1>1. IInv /\ [Next]_vars => [Stays]_vars
  <2>1. IInv /\ Next => Stays
    BY TerminalStep DEF Quiet
  <2> QED
    BY <2>1
<1>2. Spec => [][Stays]_vars
  BY <1>1, Invariance, PTL DEF Spec
<1> QED
  BY <1>2 DEF TerminalStays

\* What may happen to an execution's status in a step from an inactive run.
Progress == \A e \in ExecId : exec'[e].status # exec[e].status =>
              /\ exec'[e].status # "completed"
              /\ exec'[e].status = "running" => run.status \in {"failed", "preparing"}

LEMMA InactiveStep ==
  ASSUME IInv, Next, ~Active
  PROVE  Progress
<1>1. TypeOK /\ HeldLeaf
  BY DEF IInv
<1>2. Quiet => Progress
  BY DEF Quiet, Progress
<1>3. CASE Prepare
  <2>1. CASE UNCHANGED tree
    BY <2>1 DEF tree, Progress
  <2>2. CASE ~UNCHANGED tree
    <3>1. run.status = "preparing" /\ \E k \in NodeKinds : exec' = Started(exec, k, nextInv)
      BY <1>3, <2>2 DEF Prepare, Place, PlaceFails, LoadRoot, EnterRoot, LoadRootFails, rows,
                        tree
    <3>2. \A k : NewRow(k, nextInv).status = "running"
      BY DEF NewRow, NoExec
    <3> QED
      BY <1>1, <3>1, <3>2 DEF Progress, Started, TypeOK
  <2> QED
    BY <2>1, <2>2
<1>4. CASE Drive
  <2>1. CASE Fail(driver.leaf)
    BY <1>1, <2>1 DEF Fail, Progress, TypeOK, ExecRow
  <2> QED
    BY <1>1, <1>2, <1>4, <2>1, InactiveDrive
<1>5. CASE Control
  <2>1. ASSUME NEW c, NEW t, NEW b, RetryExecution(c, t, b)
        PROVE  Progress
    BY <1>1, <2>1 DEF RetryExecution, Progress, TypeOK
  <2>2. CASE Cancel
    BY <1>1, <2>2 DEF Cancel, Progress, TypeOK, ExecRow
  <2>3. ASSUME NEW e \in ExecId, Advance(e)
        PROVE  Progress
    BY <1>1, <2>3 DEF Advance, Progress, TypeOK, ExecRow
  <2>4. CASE exec' = exec
    BY <2>4 DEF Progress
  <2> QED
    BY <1>5, <2>1, <2>2, <2>3, <2>4
       DEF Control, Pause, Dismiss, SurfaceDeleted, Ask, ResumeAsk, RetryAsk, Refused,
           ResumeCommit, RetryPreparation, RetryReloaded, RetryObserved, rows, tree
<1>6. CASE Outside
  BY <1>1, <1>2, <1>6, OutsideQuiet
<1>7. CASE Restart
  BY <1>1, <1>7 DEF Restart, Progress, TypeOK, ExecRow
<1> QED
  BY <1>3, <1>4, <1>5, <1>6, <1>7 DEF Next

\* Pause and Cancel hold: no execution completes, and none starts, in a step taken
\* from a paused, cancelled or completed run, whatever the driver held when the
\* control landed.
THEOREM NothingMovesUnlessActive == Spec => ProgressOnlyWhenActive
<1> DEFINE Moves == \A e \in ExecId : exec'[e].status # exec[e].status =>
       CASE exec'[e].status = "completed" -> Active
         [] exec'[e].status = "running" ->
              Active \/ run.status \in {"failed", "preparing"}
         [] OTHER -> TRUE
<1>1. IInv /\ [Next]_vars => [Moves]_vars
  <2>1. CASE Active
    BY <2>1
  <2>2. CASE ~Active
    BY <2>2, InactiveStep DEF Progress
  <2> QED
    BY <2>1, <2>2
<1>2. Spec => [][Moves]_vars
  BY <1>1, Invariance, PTL DEF Spec
<1> QED
  BY <1>2 DEF ProgressOnlyWhenActive

\* The two together: a control that landed holds against whatever returns later.
THEOREM ControlsAreKept == Spec => ControlsHold
BY TerminalForever, NothingMovesUnlessActive DEF ControlsHold

-----------------------------------------------------------------------------
(* What is saved, and where it is read. *)

\* What the driver waits for tells what its leaf is, and what it has saved.
HeldSaved ==
  /\ driver.phase = "fn" => exec[driver.leaf].kind = "operation"
  /\ driver.phase = "capture" => exec[driver.leaf].kind = "checkpoint"
  /\ driver.phase = "checking" => exec[driver.leaf].result \in {"agent", "headless"}
  /\ driver.phase = "reading" => exec[driver.leaf].result = "agent"

\* What waits without a child graph has saved a wait; a subgraph saves nothing.
SavedRows ==
  /\ \A e \in ExecId : exec[e].status = "waiting" /\ exec[e].child = 0 =>
       exec[e].result \in Waits
  /\ \A e \in ExecId : exec[e].result # "none" => exec[e].kind # "subgraph"

\* An execution whose function this process called has saved its result, is closed, or
\* is in that function; a leaf whose build is being loaded was not called, or has saved.
Called(e) == exec[e].result # "none" \/ ~Open(e)
RanOnce ==
  /\ \A e \in ran : /\ exec[e].status # "absent"
                    /\ Called(e) \/ (driver.phase = "fn" /\ driver.leaf = e)
  /\ driver.phase = "loading" /\ driver.leaf \in ran => exec[driver.leaf].result # "none"

\* The execution a graph was entered from waits for it or has returned from it.
ParentsEntered == \A i \in InvId : inv[i].parent # 0 =>
  /\ exec[inv[i].parent].child # 0
  /\ exec[inv[i].parent].status \in {"waiting", "completed"} \/ run.status = "cancelled"

CInv == IInv /\ HeldSaved /\ SavedRows /\ RanOnce /\ ParentsEntered

-----------------------------------------------------------------------------
(* The ten shapes of a step.  Answers to waits are left out of them: no     *)
(* invariant below reads one.                                              *)

KeepRest(e) == /\ exec'[e].inv = exec[e].inv /\ exec'[e].kind = exec[e].kind
               /\ exec'[e].result = exec[e].result /\ exec'[e].retryOf = exec[e].retryOf
               /\ exec'[e].child = exec[e].child
Keep(e)     == KeepRest(e) /\ exec'[e].status = exec[e].status
KeepAll     == \A f \in ExecId : Keep(f)
KeepBut(e)  == \A f \in ExecId : f # e => Keep(f)
KeepTree    == inv' = inv /\ nextExec' = nextExec /\ nextInv' = nextInv
KeepRun     == run'.status = run.status /\ run'.envError = run.envError
Going       == driver'.phase # "idle"

Stays ==
  /\ KeepAll /\ KeepTree /\ KeepRun
  /\ run.status = "running" /\ Leaves # {} /\ driver.phase # "idle" => Going
Shifts ==
  /\ KeepAll /\ KeepTree
  /\ \/ Active /\ run'.status = "paused" /\ run'.envError = run.envError
     \/ run.status = "paused" /\ run'.status = "running" /\ run'.envError = run.envError
        /\ Going
     \/ run.status = "preparing" /\ run'.status = "failed"
     \/ run.status = "preparing" /\ HasRoot /\ run'.status = "running" /\ Going
        /\ run'.envError = run.envError
     \/ /\ run.status = "failed" /\ run'.status = "preparing" /\ ~run'.envError
        /\ \E c \in Clients : /\ ctl[c].phase = "retry" /\ ctl[c].preparing
                              /\ ctl'[c].phase = "idle"
Saves(e) ==
  /\ HoldsLeaf(driver) /\ driver.leaf = e /\ e \in ExecId
  /\ exec[e].result = "none" /\ exec'[e].result # "none"
  /\ exec[e].kind # "subgraph"
  /\ exec'[e].inv = exec[e].inv /\ exec'[e].kind = exec[e].kind
  /\ exec'[e].retryOf = exec[e].retryOf /\ exec'[e].child = exec[e].child
  /\ exec'[e].status = exec[e].status
  /\ KeepBut(e) /\ KeepTree /\ KeepRun /\ Going
Closes(e) ==
  /\ e \in Leaves
  /\ Active \/ (run.status = "paused" /\ exec[e].result = "none")
  /\ exec'[e].status \in {"failed", "interrupted"} /\ KeepRest(e)
  /\ KeepBut(e) /\ KeepTree
  /\ run'.status = "failed" /\ ~run'.envError
Routes(e, top) ==
  /\ e \in Leaves /\ Active /\ exec[e].result # "none"
  /\ top \in Chain(e) /\ ApplyChain(e, top) /\ Going
Parks(e) ==
  /\ e \in Leaves /\ Active /\ exec[e].result \in Waits
  /\ exec'[e].status = "waiting" /\ KeepRest(e)
  /\ KeepBut(e) /\ KeepTree
  /\ run'.status = "waiting" /\ run'.envError = run.envError
\* The row inserted by Enters and Roots.
Inserted(i) ==
  /\ Room /\ nextExec' = nextExec + 1
  /\ exec'[nextExec].status = "running" /\ exec'[nextExec].inv = i
  /\ exec'[nextExec].result = "none" /\ exec'[nextExec].child = 0
  /\ exec'[nextExec].retryOf = 0
Enters(e) ==
  /\ e \in Leaves /\ Active /\ exec[e].kind = "subgraph"
  /\ nextInv <= MaxInv /\ nextInv' = nextInv + 1 /\ Inserted(nextInv)
  /\ exec'[e].status = "waiting" /\ exec'[e].child = nextInv
  /\ exec'[e].inv = exec[e].inv /\ exec'[e].kind = exec[e].kind
  /\ exec'[e].result = exec[e].result /\ exec'[e].retryOf = exec[e].retryOf
  /\ \A f \in ExecId : f # e /\ f # nextExec => Keep(f)
  /\ inv' = [inv EXCEPT ![nextInv] = [status |-> "running", parent |-> e]]
  /\ KeepRun /\ Going
Roots ==
  /\ run.status = "preparing" /\ ~HasRoot
  /\ nextInv <= MaxInv /\ nextInv' = nextInv + 1 /\ Inserted(nextInv)
  /\ KeepBut(nextExec)
  /\ inv' = [inv EXCEPT ![nextInv].status = "running"]
  /\ run'.status = "running" /\ run'.envError = run.envError /\ Going
Repeats(c, t) ==
  /\ run.status = "failed" /\ t \in ExecId
  /\ \/ ctl[c].phase = "retry" /\ IsRetryTarget(t)
     \/ ctl[c].phase = "observe" /\ t = ctl[c].target
  /\ ctl'[c].phase = "idle"
  /\ Room /\ nextExec' = nextExec + 1
  /\ exec'[nextExec].status = "running" /\ exec'[nextExec].child = 0
  /\ exec'[nextExec].retryOf = t /\ exec'[nextExec].inv = exec[t].inv
  /\ exec'[nextExec].kind = exec[t].kind /\ exec'[nextExec].result = exec[t].result
  /\ KeepBut(nextExec) /\ inv' = inv /\ nextInv' = nextInv
  /\ run'.status = "running" /\ ~run'.envError /\ Going
Cancels ==
  /\ run.status \in Cancellable /\ run'.status = "cancelled" /\ run'.envError = run.envError
  /\ \A e \in ExecId : /\ KeepRest(e)
                       /\ exec'[e].status = IF Open(e) THEN "cancelled" ELSE exec[e].status
  /\ \A i \in InvId : /\ inv'[i].parent = inv[i].parent
                      /\ inv'[i].status = IF inv[i].status = "running" THEN "cancelled"
                                                                       ELSE inv[i].status
  /\ nextExec' = nextExec /\ nextInv' = nextInv

Shape == \/ Stays \/ Shifts \/ Roots \/ Cancels
         \/ \E e \in ExecId : \/ Saves(e) \/ Closes(e) \/ Parks(e) \/ Enters(e)
                              \/ \E top \in ExecId : Routes(e, top)
         \/ \E c \in Clients, t \in ExecId : Repeats(c, t)

LEMMA KeepsAll == ASSUME TypeOK, UNCHANGED tree PROVE KeepAll /\ KeepTree
BY DEF tree, KeepAll, KeepTree, Keep, KeepRest

\* Steps that leave the rows alone.
LEMMA RowsStay ==
  ASSUME TypeOK, UNCHANGED rows,
         run.status = "running" /\ Leaves # {} /\ driver.phase # "idle" => Going
  PROVE  Stays
<1>1. UNCHANGED tree /\ run' = run
  BY DEF rows
<1> QED
  BY <1>1, KeepsAll DEF Stays, KeepRun

LEMMA LetGoes == ASSUME NEW d PROVE Looped(d).phase = "step" /\ Kicked(d).phase # "idle"
BY DEF Looped, Kicked, NoDriver

LEMMA FailCloses ==
  ASSUME TypeOK, NEW e \in Leaves, Fail(e),
         Active \/ (run.status = "paused" /\ exec[e].result = "none")
  PROVE  Closes(e) /\ Shape
<1>1. e \in ExecId
  BY DEF Leaves
<1>2. exec'[e].status = "failed" /\ KeepRest(e) /\ KeepBut(e)
  BY <1>1 DEF Fail, KeepRest, KeepBut, Keep, TypeOK, ExecRow
<1>3. KeepTree /\ run'.status = "failed" /\ ~run'.envError
  BY DEF Fail, KeepTree, TypeOK, RunRow
<1>4. Closes(e)
  BY <1>2, <1>3 DEF Closes
<1> QED
  BY <1>1, <1>4 DEF Shape

LEMMA RouteShape ==
  ASSUME TypeOK, NEW d \in Driver, HoldsLeaf(d), exec[d.leaf].result # "none", Route(d)
  PROVE  Shape
<1>1. CASE ~CanRoute(d.leaf) /\ UNCHANGED rows
  <2>1. run.status # "running"
    BY <1>1 DEF HoldsLeaf, CanRoute, Active, ActiveStatuses
  <2> QED
    BY <1>1, <2>1, RowsStay DEF Shape
<1>2. CASE CanRoute(d.leaf) /\ Fail(d.leaf)
  BY <1>2, FailCloses, HeldIsLeaf DEF CanRoute, Active, ActiveStatuses
<1>3. CASE /\ CanRoute(d.leaf) /\ driver' = Looped(d)
           /\ \E top \in ExecId : top \in Chain(d.leaf) /\ ApplyChain(d.leaf, top)
  <2>1. d.leaf \in Leaves /\ d.leaf \in ExecId /\ Active
    BY <1>3, HeldIsLeaf DEF CanRoute, Active, ActiveStatuses, HoldsLeaf
  <2>2. PICK top \in ExecId : top \in Chain(d.leaf) /\ ApplyChain(d.leaf, top)
    BY <1>3
  <2>3. Going
    BY <1>3, LetGoes DEF Going
  <2>4. Routes(d.leaf, top)
    BY <2>1, <2>2, <2>3 DEF Routes
  <2> QED
    BY <2>1, <2>4 DEF Shape
<1> QED
  BY <1>1, <1>2, <1>3 DEF Route

LEMMA ParkShape ==
  ASSUME TypeOK, NEW d \in Driver, HoldsLeaf(d), exec[d.leaf].result \in Waits, Park(d)
  PROVE  Shape
<1>1. CASE ~Active
  <2>1. UNCHANGED rows /\ run.status # "running"
    BY <1>1 DEF Park, rows, tree, Active, ActiveStatuses
  <2> QED
    BY <2>1, RowsStay DEF Shape
<1>2. CASE Active
  <2>1. d.leaf \in Leaves /\ d.leaf \in ExecId
    BY <1>2, HeldIsLeaf DEF Active, ActiveStatuses, HoldsLeaf
  <2>2. exec'[d.leaf].status = "waiting" /\ KeepRest(d.leaf) /\ KeepBut(d.leaf)
    BY <1>2, <2>1 DEF Park, KeepRest, KeepBut, Keep, Leaves, Open, TypeOK, ExecRow
  <2>3. KeepTree /\ run'.status = "waiting" /\ run'.envError = run.envError
    BY <1>2 DEF Park, KeepTree, TypeOK, RunRow
  <2>4. Parks(d.leaf)
    BY <1>2, <2>1, <2>2, <2>3 DEF Parks
  <2> QED
    BY <2>1, <2>4 DEF Shape
<1> QED
  BY <1>1, <1>2

\* A row that starts has nothing saved and no child graph.
LEMMA StartedRow ==
  ASSUME TypeOK, Room, NEW ex \in [ExecId -> ExecRow], NEW k \in NodeKinds, NEW i \in InvId,
         exec' = Started(ex, k, i), nextExec' = nextExec + 1
  PROVE  Inserted(i) /\ \A f \in ExecId : f # nextExec => exec'[f] = ex[f]
<1>1. nextExec \in ExecId
  BY BoundsAssumption DEF Room, TypeOK, ExecId
<1>2. exec'[nextExec] = NewRow(k, i)
  BY <1>1 DEF Started
<1>3. /\ exec'[nextExec].status = "running" /\ exec'[nextExec].inv = i
      /\ exec'[nextExec].result = "none" /\ exec'[nextExec].child = 0
      /\ exec'[nextExec].retryOf = 0
  BY <1>2 DEF NewRow, NoExec
<1> QED
  BY <1>1, <1>3 DEF Inserted, Started

\* The next row is blank, so it is nobody's leaf.
LEMMA NextBlank ==
  ASSUME TypeOK, BlankRows, Room
  PROVE  nextExec \in ExecId /\ exec[nextExec] = NoExec /\ nextExec \notin Leaves
<1>1. nextExec \in ExecId
  BY BoundsAssumption DEF Room, TypeOK, ExecId
<1>2. exec[nextExec] = NoExec
  BY <1>1, BoundsAssumption DEF BlankRows, ExecId
<1> QED
  BY <1>1, <1>2 DEF Leaves, Open, NoExec

LEMMA EnterShape ==
  ASSUME TypeOK, BlankRows, NEW d \in Driver, HoldsLeaf(d), EnterSubgraph(d)
  PROVE  Shape
<1>1. Going
  BY LetGoes DEF EnterSubgraph, Going
<1>2. CASE UNCHANGED rows
  BY <1>1, <1>2, RowsStay DEF Shape
<1>3. CASE ~UNCHANGED rows
  <2>1. Active /\ d.leaf \in Leaves /\ d.leaf \in ExecId /\ exec[d.leaf].kind = "subgraph"
    BY <1>3, HeldIsLeaf DEF EnterSubgraph, Active, ActiveStatuses, HoldsLeaf
  <2>2. CASE Fail(d.leaf)
    BY <2>1, <2>2, FailCloses
  <2>3. CASE ~Fail(d.leaf)
    <3> DEFINE ex == [exec EXCEPT ![d.leaf] = Entered(@)]
    <3>1. /\ Room /\ nextInv <= MaxInv /\ nextExec' = nextExec + 1
          /\ nextInv' = nextInv + 1 /\ run' = run /\ nextInv \in InvId
          /\ inv' = [inv EXCEPT ![nextInv] = [status |-> "running", parent |-> d.leaf]]
      BY <1>3, <2>3 DEF EnterSubgraph, TypeOK, InvId
    <3>2. PICK k \in NodeKinds : exec' = Started(ex, k, nextInv)
      BY <1>3, <2>3 DEF EnterSubgraph
    <3>3. Entered(exec[d.leaf]) \in ExecRow
      <4>1. exec[d.leaf] \in ExecRow /\ nextInv \in 0..MaxInv
        BY <2>1, <3>1, BoundsAssumption DEF TypeOK, InvId
      <4> QED
        BY <4>1 DEF ExecRow, Entered
    <3>4. ex \in [ExecId -> ExecRow]
      BY <3>3 DEF TypeOK
    <3>5. ex[d.leaf] = Entered(exec[d.leaf]) /\ \A f \in ExecId : f # d.leaf => ex[f] = exec[f]
      BY <2>1 DEF TypeOK
    <3> HIDE DEF ex
    <3>6. Inserted(nextInv) /\ \A f \in ExecId : f # nextExec => exec'[f] = ex[f]
      BY <3>1, <3>2, <3>4, StartedRow
    <3>7. nextExec # d.leaf
      BY <2>1, <3>1, NextBlank
    <3>8. exec'[d.leaf] = Entered(exec[d.leaf])
      BY <2>1, <3>5, <3>6, <3>7
    <3>9. /\ exec'[d.leaf].status = "waiting" /\ exec'[d.leaf].child = nextInv
          /\ exec'[d.leaf].inv = exec[d.leaf].inv /\ exec'[d.leaf].kind = exec[d.leaf].kind
          /\ exec'[d.leaf].result = exec[d.leaf].result
          /\ exec'[d.leaf].retryOf = exec[d.leaf].retryOf
      BY <2>1, <3>8 DEF Entered, TypeOK, ExecRow
    <3>10. \A f \in ExecId : f # d.leaf /\ f # nextExec => Keep(f)
      BY <3>5, <3>6 DEF Keep, KeepRest
    <3>11. Enters(d.leaf)
      BY <1>1, <2>1, <3>1, <3>6, <3>9, <3>10 DEF Enters, KeepRun
    <3> QED
      BY <2>1, <3>11 DEF Shape
  <2> QED
    BY <2>2, <2>3
<1> QED
  BY <1>2, <1>3

LEMMA WorkShape ==
  ASSUME TypeOK, NEW d \in Driver, HoldsLeaf(d), StartFunction(d) \/ StartCapture(d)
  PROVE  Shape
<1>1. Going
  <2>1. [d EXCEPT !.phase = "fn"].phase = "fn" /\ [d EXCEPT !.phase = "capture"].phase = "capture"
    BY DEF Driver
  <2> QED
    BY <2>1, LetGoes DEF StartFunction, StartCapture, Going
<1>2. UNCHANGED rows \/ (Active /\ Fail(d.leaf))
  BY DEF StartFunction, StartCapture, FailIf
<1> QED
  BY <1>1, <1>2, RowsStay, FailCloses, HeldIsLeaf DEF Shape, Active, ActiveStatuses

LEMMA PolledShape ==
  ASSUME TypeOK, NEW d \in Driver, HoldsLeaf(d), exec[d.leaf].result \in {"agent", "headless"},
         Polled(d)
  PROVE  Shape
<1>1. exec[d.leaf].result \in Waits /\ exec[d.leaf].result # "none"
  BY DEF Waits
<1>2. CASE Route(d) \/ Park(d)
  BY <1>1, <1>2, RouteShape, ParkShape
<1>3. CASE driver' = [d EXCEPT !.phase = "reading"] /\ UNCHANGED rows
  <2>1. Going
    BY <1>3 DEF Going, Driver
  <2> QED
    BY <1>3, <2>1, RowsStay DEF Shape
<1> QED
  BY <1>2, <1>3 DEF Polled

LEMMA DispatchShape ==
  ASSUME TypeOK, BlankRows, NEW d \in Driver, HoldsLeaf(d), Dispatch(d)
  PROVE  Shape
<1>1. CASE EnterSubgraph(d)
  BY <1>1, EnterShape
<1>2. CASE StartFunction(d) \/ StartCapture(d)
  BY <1>2, WorkShape
<1>3. CASE RouteResult(d)
  BY <1>3, RouteShape DEF RouteResult, Saved
<1>4. CASE CheckUser(d)
  <2>1. exec[d.leaf].result \in Waits /\ exec[d.leaf].result # "none"
    BY <1>4 DEF CheckUser, Saved, Waits
  <2> QED
    BY <1>4, <2>1, RouteShape, ParkShape DEF CheckUser
<1>5. CASE CheckOutside(d)
  <2>1. exec[d.leaf].result \in {"agent", "headless"}
    BY <1>5 DEF CheckOutside, Saved
  <2>2. CASE Polled(d)
    BY <2>1, <2>2, PolledShape
  <2>3. CASE driver' = [d EXCEPT !.phase = "checking"] /\ UNCHANGED rows
    <3>1. Going
      BY <2>3 DEF Going, Driver
    <3> QED
      BY <2>3, <3>1, RowsStay DEF Shape
  <2> QED
    BY <1>5, <2>2, <2>3 DEF CheckOutside
<1> QED
  BY <1>1, <1>2, <1>3, <1>4, <1>5 DEF Dispatch

LEMMA DriveShape ==
  ASSUME IInv, HeldSaved, SavedRows, Drive
  PROVE  Shape
<1>1. TypeOK /\ BlankRows /\ AtMostOneLeaf /\ driver \in Driver
  BY DEF IInv, TypeOK
<1>2. driver.phase \in Holding => HoldsLeaf(driver) /\ driver.leaf \in ExecId
  BY DEF IInv, HeldLeaf, HoldsLeaf
<1>3. CASE Step
  <2>1. CASE (~Active \/ Leaves = {}) /\ UNCHANGED rows
    BY <1>1, <2>1, RowsStay DEF Shape, Active, ActiveStatuses
  <2>2. CASE Leaves # {} /\ Dispatch(StepRead)
    BY <1>1, <2>2, StepReadType, StepReadHolds, DispatchShape
  <2>3. CASE Leaves # {} /\ driver' = [StepRead EXCEPT !.phase = "loading"] /\ UNCHANGED rows
    <3>1. Going
      BY <1>1, <2>3, StepReadType DEF Driver, Going
    <3> QED
      BY <1>1, <2>3, <3>1, RowsStay DEF Shape
  <2> QED
    BY <1>3, <2>1, <2>2, <2>3 DEF Step
<1>4. CASE Loaded
  BY <1>1, <1>2, <1>4, DispatchShape DEF Loaded, Holding
<1>5. CASE LoadFails \/ CaptureFails
  <2>1. HoldsLeaf(driver)
    BY <1>2, <1>5 DEF LoadFails, CaptureFails, Holding
  <2>2. UNCHANGED rows \/ (Active /\ Fail(driver.leaf))
    BY <1>5 DEF LoadFails, CaptureFails, FailIf
  <2>3. CASE UNCHANGED rows
    <3>1. run' = run
      BY <2>3 DEF rows
    <3>2. Fail(driver.leaf) => run.status # "running"
      BY <1>1, <3>1 DEF Fail, TypeOK, RunRow
    <3>3. LoadFails => run.status # "running"
      BY <3>2 DEF LoadFails, FailIf, Active, ActiveStatuses
    <3>4. CaptureFails => Going
      BY LetGoes DEF CaptureFails, Going
    <3>5. run.status = "running" => Going
      BY <1>5, <3>3, <3>4
    <3> QED
      BY <1>1, <2>3, <3>5, RowsStay DEF Shape
  <2> QED
    BY <1>1, <2>1, <2>2, <2>3, FailCloses, HeldIsLeaf DEF Active, ActiveStatuses
<1>6. CASE FnFails
  <2>1. HoldsLeaf(driver) /\ exec[driver.leaf].result = "none" /\ Going
    BY <1>2, <1>6, LetGoes DEF FnFails, Holding, IInv, HeldLeaf, Going
  <2>2. CASE UNCHANGED rows
    BY <1>1, <2>1, <2>2, RowsStay DEF Shape
  <2>3. CASE run.status # "cancelled" /\ Fail(driver.leaf)
    <3>1. driver.leaf \in Leaves
      BY <2>1, <2>3, HeldIsLeaf
    <3>2. Active \/ run.status = "paused"
      BY <1>1, <3>1 DEF AtMostOneLeaf, Active, ActiveStatuses
    <3> QED
      BY <1>1, <2>1, <2>3, <3>1, <3>2, FailCloses
  <2> QED
    BY <1>6, <2>2, <2>3 DEF FnFails, FailIf
<1>7. CASE FnReturns \/ CaptureDone
  <2>1. /\ HoldsLeaf(driver) /\ driver.leaf \in ExecId /\ Going
        /\ exec[driver.leaf].result = "none" /\ exec[driver.leaf].kind # "subgraph"
    BY <1>2, <1>7, LetGoes DEF FnReturns, CaptureDone, Holding, IInv, HeldLeaf, HeldSaved,
                               Going
  <2>2. ASSUME NEW r \in Results, r # "none", NEW over, SaveResult(driver.leaf, r, over)
        PROVE  Shape
    <3>1. /\ exec'[driver.leaf].result = r
          /\ exec'[driver.leaf].inv = exec[driver.leaf].inv
          /\ exec'[driver.leaf].kind = exec[driver.leaf].kind
          /\ exec'[driver.leaf].retryOf = exec[driver.leaf].retryOf
          /\ exec'[driver.leaf].child = exec[driver.leaf].child
          /\ exec'[driver.leaf].status = exec[driver.leaf].status
          /\ KeepBut(driver.leaf)
      BY <1>1, <2>1, <2>2 DEF SaveResult, KeepBut, Keep, KeepRest, TypeOK, ExecRow
    <3>2. KeepTree /\ KeepRun
      BY <2>2 DEF SaveResult, KeepTree, KeepRun
    <3>3. Saves(driver.leaf)
      BY <2>1, <2>2, <3>1, <3>2 DEF Saves
    <3> QED
      BY <2>1, <3>3 DEF Shape
  <2>3. "complete" \in Results /\ "complete" # "none"
    BY DEF Results
  <2>4. CASE UNCHANGED rows
    BY <1>1, <2>1, <2>4, RowsStay DEF Shape
  <2> QED
    BY <1>7, <2>2, <2>3, <2>4 DEF FnReturns, CaptureDone
<1>8. CASE Checked
  <2>1. HoldsLeaf(driver) /\ exec[driver.leaf].result \in {"agent", "headless"}
    BY <1>2, <1>8 DEF Checked, Holding, HeldSaved
  <2>2. exec[driver.leaf].result # "none"
    BY <2>1
  <2> QED
    BY <1>1, <1>8, <2>1, <2>2, PolledShape, RouteShape DEF Checked
<1>9. CASE ReplyRead
  <2>1. HoldsLeaf(driver) /\ exec[driver.leaf].result # "none"
    BY <1>2, <1>9 DEF ReplyRead, Holding, HeldSaved
  <2> QED
    BY <1>1, <1>9, <2>1, RouteShape DEF ReplyRead
<1> QED
  BY <1>3, <1>4, <1>5, <1>6, <1>7, <1>8, <1>9 DEF Drive, DriveOn

LEMMA PrepareShape ==
  ASSUME IInv, Prepare
  PROVE  Shape
<1>1. TypeOK /\ BlankRows
  BY DEF IInv
<1>2. driver' = driver \/ Going
  BY LetGoes DEF Prepare, Place, PlaceFails, LoadRoot, EnterRoot, LoadRootFails, Going
<1>3. driver.phase # "idle" => Going
  BY <1>2 DEF Going
<1>4. CASE UNCHANGED tree /\ run'.status = run.status /\ run'.envError = run.envError
  BY <1>1, <1>3, <1>4, KeepsAll DEF Shape, Stays, KeepRun
<1>5. CASE /\ UNCHANGED tree /\ run.status = "preparing"
           /\ \/ run'.status = "failed"
              \/ HasRoot /\ run'.status = "running" /\ Going /\ run'.envError = run.envError
  BY <1>1, <1>5, KeepsAll DEF Shape, Shifts
<1>6. CASE /\ EnterRoot /\ run.status = "preparing" /\ ~HasRoot /\ Room /\ nextInv <= MaxInv
           /\ \E k \in NodeKinds : exec' = Started(exec, k, nextInv)
           /\ inv' = [inv EXCEPT ![nextInv].status = "running"]
           /\ nextExec' = nextExec + 1 /\ nextInv' = nextInv + 1
           /\ run' = [run EXCEPT !.status = "running"]
  <2>1. nextInv \in InvId
    BY <1>1, <1>6 DEF TypeOK, InvId
  <2>2. Inserted(nextInv) /\ \A f \in ExecId : f # nextExec => exec'[f] = exec[f]
    BY <1>1, <1>6, <2>1, StartedRow DEF TypeOK
  <2>3. KeepBut(nextExec)
    BY <2>2 DEF KeepBut, Keep, KeepRest
  <2>4. run'.status = "running" /\ run'.envError = run.envError
    BY <1>1, <1>6 DEF TypeOK, RunRow
  <2>5. Going
    BY <1>6, LetGoes DEF EnterRoot, Going
  <2>6. Roots
    BY <1>6, <2>2, <2>3, <2>4, <2>5 DEF Roots
  <2> QED
    BY <2>6 DEF Shape
<1>7. CASE Place \/ PlaceFails
  <2>1. \/ UNCHANGED tree /\ run'.status = run.status /\ run'.envError = run.envError
        \/ UNCHANGED tree /\ run.status = "preparing" /\ run'.status = "failed"
    BY <1>1, <1>7 DEF Place, PlaceFails, TypeOK, RunRow
  <2> QED
    BY <1>4, <1>5, <2>1
<1>8. CASE LoadRoot \/ LoadRootFails
  <2>1. UNCHANGED tree /\ run' = run
    BY <1>8 DEF LoadRoot, LoadRootFails, rows
  <2> QED
    BY <1>4, <2>1
<1>9. CASE EnterRoot
  <2>1. Going
    BY <1>9, LetGoes DEF EnterRoot, Going
  <2>2. CASE UNCHANGED rows
    <3>1. UNCHANGED tree /\ run' = run
      BY <2>2 DEF rows
    <3> QED
      BY <1>4, <3>1
  <2>3. CASE /\ run.status = "preparing" /\ HasRoot /\ UNCHANGED tree
             /\ run' = [run EXCEPT !.status = "running"]
    BY <1>1, <1>5, <2>1, <2>3 DEF TypeOK, RunRow
  <2>4. CASE /\ run.status = "preparing" /\ UNCHANGED tree
             /\ run' = [run EXCEPT !.status = "failed", !.envError = FALSE]
    BY <1>1, <1>5, <2>1, <2>4 DEF TypeOK, RunRow
  <2> QED
    BY <1>6, <1>9, <2>2, <2>3, <2>4 DEF EnterRoot
<1> QED
  BY <1>7, <1>8, <1>9 DEF Prepare

LEMMA RepeatShape ==
  ASSUME IInv, NEW c \in Clients, NEW t \in ExecId, NEW b, RetryExecution(c, t, b),
         \/ ctl[c].phase = "retry" /\ IsRetryTarget(t)
         \/ ctl[c].phase = "observe" /\ t = ctl[c].target
  PROVE  Shape
<1> DEFINE row == [exec[t] EXCEPT !.status = "running", !.retryOf = t, !.child = 0]
<1>1. /\ run.status = "failed" /\ Room /\ exec' = [exec EXCEPT ![nextExec] = row]
      /\ nextExec' = nextExec + 1 /\ inv' = inv /\ nextInv' = nextInv
      /\ driver' = Kicked(driver) /\ run'.status = "running" /\ ~run'.envError
      /\ ctl'[c].phase = "idle"
  BY DEF RetryExecution, Done, NoReq, IInv, TypeOK, RunRow
<1>2. /\ row.status = "running" /\ row.child = 0 /\ row.retryOf = t
      /\ row.inv = exec[t].inv /\ row.kind = exec[t].kind /\ row.result = exec[t].result
  BY DEF IInv, TypeOK, ExecRow
<1> HIDE DEF row
<1>3. nextExec \in ExecId
  BY <1>1, NextBlank DEF IInv
<1>4. exec'[nextExec] = row /\ \A f \in ExecId : f # nextExec => exec'[f] = exec[f]
  BY <1>1, <1>3 DEF IInv, TypeOK
<1>5. Going
  BY <1>1, LetGoes DEF Going
<1>6. KeepBut(nextExec)
  BY <1>4 DEF KeepBut, Keep, KeepRest
<1>7. Repeats(c, t)
  BY <1>1, <1>2, <1>4, <1>5, <1>6 DEF Repeats
<1> QED
  BY <1>7 DEF Shape

LEMMA AskShape ==
  ASSUME IInv, HeldTarget, NEW c \in Clients, Ask(c)
  PROVE  Shape
<1>1. TypeOK
  BY DEF IInv
<1>2. ASSUME UNCHANGED rows, driver' = driver
      PROVE  Shape
  BY <1>1, <1>2, RowsStay DEF Shape, Going
<1>3. CASE ResumeAsk(c) \/ RetryAsk(c) \/ Refused(c)
  BY <1>2, <1>3 DEF ResumeAsk, RetryAsk, Refused
<1>4. CASE ResumeCommit(c)
  <2>1. /\ UNCHANGED tree /\ run.status = "paused" /\ run'.status = "running"
        /\ run'.envError = run.envError /\ driver' = Kicked(driver)
    BY <1>1, <1>4 DEF ResumeCommit, TypeOK, RunRow
  <2> QED
    BY <1>1, <2>1, KeepsAll, LetGoes DEF Shape, Shifts, Going
<1>5. CASE RetryPreparation(c)
  <2>1. /\ UNCHANGED tree /\ run.status = "failed" /\ run'.status = "preparing"
        /\ ~run'.envError /\ ctl[c].phase = "retry" /\ ctl[c].preparing
        /\ ctl'[c].phase = "idle"
    BY <1>1, <1>5 DEF RetryPreparation, Done, NoReq, TypeOK, RunRow
  <2> QED
    BY <1>1, <2>1, KeepsAll DEF Shape, Shifts
<1>6. CASE RetryReloaded(c)
  <2>1. PICK t \in Retryable, b \in Builds :
          /\ IsRetryTarget(t)
          /\ RetryExecution(c, t, b) \/ (UNCHANGED rows /\ driver' = driver)
    BY <1>6 DEF RetryReloaded
  <2>2. t \in ExecId /\ ctl[c].phase = "retry"
    BY <1>6 DEF Retryable, RetryReloaded
  <2> QED
    BY <1>2, <2>1, <2>2, RepeatShape
<1>7. CASE RetryObserved(c)
  BY <1>7, RepeatShape DEF RetryObserved, HeldTarget
<1> QED
  BY <1>3, <1>4, <1>5, <1>6, <1>7 DEF Ask

\* Steps that write an execution's answered flag and no other part of a row.
LEMMA AnswerStays ==
  ASSUME TypeOK, NEW e \in ExecId, NEW a, exec' = [exec EXCEPT ![e].answered = a],
         UNCHANGED <<run, inv, nextExec, nextInv>>, driver' = driver \/ Going
  PROVE  Shape
<1>1. KeepAll
  BY DEF KeepAll, Keep, KeepRest, TypeOK, ExecRow
<1> QED
  BY <1>1 DEF Shape, Stays, KeepTree, KeepRun, Going

LEMMA ControlShape ==
  ASSUME IInv, Control
  PROVE  Shape
<1>1. TypeOK /\ HeldTarget
  BY DEF IInv
<1>2. CASE Pause
  <2>1. UNCHANGED tree /\ Active /\ run'.status = "paused" /\ run'.envError = run.envError
    BY <1>1, <1>2 DEF Pause, TypeOK, RunRow
  <2> QED
    BY <1>1, <2>1, KeepsAll DEF Shape, Shifts
<1>3. CASE Dismiss \/ SurfaceDeleted
  <2>1. /\ UNCHANGED tree /\ run'.status = run.status /\ run'.envError = run.envError
        /\ driver' = driver
    BY <1>1, <1>3 DEF Dismiss, SurfaceDeleted, memory, TypeOK, RunRow
  <2> QED
    BY <1>1, <2>1, KeepsAll DEF Shape, Stays, KeepRun, Going
<1>4. CASE Cancel
  <2>1. /\ run.status \in Cancellable /\ run'.status = "cancelled"
        /\ run'.envError = run.envError /\ nextExec' = nextExec /\ nextInv' = nextInv
    BY <1>1, <1>4 DEF Cancel, TypeOK, RunRow
  <2>2. \A e \in ExecId :
          /\ KeepRest(e)
          /\ exec'[e].status = IF Open(e) THEN "cancelled" ELSE exec[e].status
    BY <1>1, <1>4 DEF Cancel, KeepRest, TypeOK, ExecRow
  <2>3. \A i \in InvId : /\ inv'[i].parent = inv[i].parent
                         /\ inv'[i].status = IF inv[i].status = "running" THEN "cancelled"
                                                                          ELSE inv[i].status
    BY <1>1, <1>4 DEF Cancel, TypeOK, InvRow
  <2>4. Cancels
    BY <2>1, <2>2, <2>3 DEF Cancels
  <2> QED
    BY <2>4 DEF Shape
<1>5. ASSUME NEW e \in ExecId, Advance(e)
      PROVE  Shape
  <2>1. /\ exec' = [exec EXCEPT ![e].answered = TRUE]
        /\ UNCHANGED <<run, inv, nextExec, nextInv>> /\ (driver' = driver \/ Going)
    BY <1>5, LetGoes DEF Advance, Going
  <2> QED
    BY <1>1, <2>1, AnswerStays
<1> QED
  BY <1>1, <1>2, <1>3, <1>4, <1>5, AskShape DEF Control

LEMMA OutsideShape ==
  ASSUME TypeOK, Outside
  PROVE  Shape
<1>1. ASSUME NEW e \in ExecId, TurnEdge(e) \/ HeadlessSettled(e)
      PROVE  Shape
  <2>1. PICK a : exec' = [exec EXCEPT ![e].answered = a]
    BY <1>1 DEF TurnEdge, HeadlessSettled
  <2>2. UNCHANGED <<run, inv, nextExec, nextInv>> /\ driver' = driver
    BY <1>1 DEF TurnEdge, HeadlessSettled
  <2> QED
    BY <2>1, <2>2, AnswerStays
<1>2. ASSUME NEW t, Trigger(t)
      PROVE  Shape
  <2>1. UNCHANGED rows /\ (driver' = driver \/ Going)
    BY <1>2, LetGoes DEF Trigger, Going
  <2> QED
    BY <2>1, RowsStay DEF Shape, Going
<1> QED
  BY <1>1, <1>2 DEF Outside, Awaiting, Leaves, Retryable

LEMMA RestartShape ==
  ASSUME TypeOK, AtMostOneLeaf, SavedRows, Restart
  PROVE  Shape
<1>1. KeepTree /\ run' = Recovered
  BY DEF Restart, KeepTree
<1>2. \A e \in ExecId :
        /\ KeepRest(e)
        /\ exec'[e].status = IF Active /\ e \in Interrupted THEN "interrupted"
                                                            ELSE exec[e].status
  BY DEF Restart, KeepRest, TypeOK, ExecRow
<1>3. CASE ~(Active /\ Interrupted # {})
  <2>1. KeepAll
    BY <1>2, <1>3 DEF KeepAll, Keep
  <2>2. CASE Active
    <3>1. run' = [run EXCEPT !.status = "paused"]
      BY <1>1, <1>3, <2>2 DEF Recovered, Active, ActiveStatuses
    <3>2. run'.status = "paused" /\ run'.envError = run.envError
      BY <3>1 DEF TypeOK, RunRow
    <3> QED
      BY <1>1, <2>1, <2>2, <3>2 DEF Shape, Shifts
  <2>3. CASE run.status = "preparing"
    <3>1. run'.status = "failed"
      BY <1>1, <2>3 DEF Recovered, TypeOK, RunRow, Active, ActiveStatuses
    <3> QED
      BY <1>1, <2>1, <2>3, <3>1 DEF Shape, Shifts
  <2>4. CASE ~Active /\ run.status # "preparing"
    <3>1. run' = run
      BY <1>1, <2>4 DEF Recovered
    <3> QED
      BY <1>1, <2>1, <2>4, <3>1 DEF Shape, Stays, KeepRun, Active, ActiveStatuses
  <2> QED
    BY <2>2, <2>3, <2>4
<1>4. CASE Active /\ Interrupted # {}
  <2>1. PICK e \in Leaves : e \in Interrupted
    BY <1>4 DEF Interrupted
  <2>2. Interrupted = {e} /\ e \in ExecId
    BY <2>1 DEF Interrupted, AtMostOneLeaf, Leaves
  <2>3. run' = [run EXCEPT !.status = "failed", !.envError = FALSE]
    BY <1>1, <1>4 DEF Recovered, Active, ActiveStatuses
  <2>4. run'.status = "failed" /\ ~run'.envError
    BY <2>3 DEF TypeOK, RunRow
  <2>5. exec'[e].status = "interrupted" /\ KeepRest(e) /\ KeepBut(e)
    BY <1>2, <1>4, <2>2 DEF KeepBut, Keep
  <2>6. Closes(e)
    BY <1>1, <1>4, <2>1, <2>4, <2>5 DEF Closes
  <2> QED
    BY <2>2, <2>6 DEF Shape
<1> QED
  BY <1>3, <1>4

\* Every step of the engine has one of the ten shapes.
LEMMA StepShape ==
  ASSUME CInv, [Next]_vars
  PROVE  Shape
<1>1. IInv /\ TypeOK /\ AtMostOneLeaf /\ HeldSaved /\ SavedRows
  BY DEF CInv, IInv
<1>2. CASE UNCHANGED vars
  <2>1. UNCHANGED rows /\ driver' = driver
    BY <1>2 DEF vars, memory
  <2> QED
    BY <1>1, <2>1, RowsStay DEF Shape, Going
<1> QED
  BY <1>1, <1>2, DriveShape, PrepareShape, ControlShape, OutsideShape, RestartShape DEF Next

-----------------------------------------------------------------------------
(* Results are computed once. *)

\* What routing e up to top does: the executions stepped out of complete, their graphs
\* finish, and a row starts in top's graph or the root graph finishes too.
Stepped(e, top) == {f \in Chain(e) : top \in Chain(f)}
Left(e, top)    == {i \in InvId : inv[i].parent \in Stepped(e, top) /\ inv[i].status = "running"}
Closed(is) == \A i \in InvId : inv'[i].status = IF i \in is THEN "completed" ELSE inv[i].status
RouteFacts(e, top) ==
  /\ \A f \in ExecId : f # nextExec \/ nextExec' = nextExec =>
       /\ KeepRest(f)
       /\ exec'[f].status = IF f \in Stepped(e, top) THEN "completed" ELSE exec[f].status
  /\ \A i \in InvId : inv'[i].parent = inv[i].parent
  /\ nextInv' = nextInv /\ run'.envError = run.envError
  /\ \/ /\ Inserted(exec[top].inv) /\ run'.status = "running"
        /\ Closed(Left(e, top))
     \/ /\ nextExec' = nextExec /\ inv[exec[top].inv].parent = 0
        /\ run'.status = "completed"
        /\ Closed(Left(e, top) \union {exec[top].inv})

LEMMA RoutesDo ==
  ASSUME TypeOK, NEW e \in ExecId, NEW top \in ExecId, ApplyChain(e, top)
  PROVE  RouteFacts(e, top)
<1> DEFINE after == [g \in ExecId |-> IF g \in Stepped(e, top)
                                      THEN [exec[g] EXCEPT !.status = "completed"]
                                      ELSE exec[g]]
           close(is) == inv' = [i \in InvId |-> IF i \in is
                                                THEN [inv[i] EXCEPT !.status = "completed"]
                                                ELSE inv[i]]
<1>1. after \in [ExecId -> ExecRow] /\ exec[top].inv \in InvId
  BY DEF TypeOK, ExecRow
<1>2. \A f \in ExecId :
        /\ after[f].inv = exec[f].inv /\ after[f].kind = exec[f].kind
        /\ after[f].result = exec[f].result /\ after[f].retryOf = exec[f].retryOf
        /\ after[f].child = exec[f].child
        /\ after[f].status = IF f \in Stepped(e, top) THEN "completed" ELSE exec[f].status
  BY DEF TypeOK, ExecRow
<1>3. \A is : close(is) => Closed(is) /\ \A i \in InvId : inv'[i].parent = inv[i].parent
  BY DEF Closed, TypeOK, InvRow
<1>4. \/ /\ Room /\ nextExec' = nextExec + 1
         /\ \E k \in NodeKinds : exec' = Started(after, k, exec[top].inv)
         /\ close(Left(e, top)) /\ run' = [run EXCEPT !.status = "running"]
         /\ nextInv' = nextInv
      \/ /\ inv[exec[top].inv].parent = 0 /\ exec' = after
         /\ close(Left(e, top) \union {exec[top].inv})
         /\ run' = [run EXCEPT !.status = "completed"]
         /\ nextExec' = nextExec /\ nextInv' = nextInv
  BY DEF ApplyChain, Stepped, Left
<1> HIDE DEF after, close
<1>5. CASE /\ Room /\ nextExec' = nextExec + 1
           /\ \E k \in NodeKinds : exec' = Started(after, k, exec[top].inv)
           /\ close(Left(e, top)) /\ run' = [run EXCEPT !.status = "running"]
           /\ nextInv' = nextInv
  <2>1. Inserted(exec[top].inv) /\ \A f \in ExecId : f # nextExec => exec'[f] = after[f]
    BY <1>1, <1>5, StartedRow
  <2>2. nextExec' # nextExec
    BY <1>5 DEF TypeOK
  <2>3. run'.status = "running" /\ run'.envError = run.envError
    BY <1>5 DEF TypeOK, RunRow
  <2>4. \A f \in ExecId : f # nextExec \/ nextExec' = nextExec =>
          /\ KeepRest(f)
          /\ exec'[f].status = IF f \in Stepped(e, top) THEN "completed" ELSE exec[f].status
    BY <1>2, <2>1, <2>2 DEF KeepRest
  <2>5. Closed(Left(e, top)) /\ \A i \in InvId : inv'[i].parent = inv[i].parent
    BY <1>3, <1>5
  <2> QED
    BY <1>5, <2>1, <2>3, <2>4, <2>5 DEF RouteFacts
<1>6. CASE /\ inv[exec[top].inv].parent = 0 /\ exec' = after
           /\ close(Left(e, top) \union {exec[top].inv})
           /\ run' = [run EXCEPT !.status = "completed"]
           /\ nextExec' = nextExec /\ nextInv' = nextInv
  <2>1. run'.status = "completed" /\ run'.envError = run.envError
    BY <1>6 DEF TypeOK, RunRow
  <2>2. \A f \in ExecId :
          /\ KeepRest(f)
          /\ exec'[f].status = IF f \in Stepped(e, top) THEN "completed" ELSE exec[f].status
    BY <1>2, <1>6 DEF KeepRest
  <2>3. /\ Closed(Left(e, top) \union {exec[top].inv})
        /\ \A i \in InvId : inv'[i].parent = inv[i].parent
    BY <1>3, <1>6
  <2> QED
    BY <1>6, <2>1, <2>2, <2>3 DEF RouteFacts
<1> QED
  BY <1>4, <1>5, <1>6

\* Routing leaves every row but the inserted one as it was, or completes it.
LEMMA ChainRows ==
  ASSUME TypeOK, ParentsEntered, NEW e \in Leaves, Active, NEW top \in ExecId,
         ApplyChain(e, top), NEW f \in ExecId, f # nextExec \/ nextExec' = nextExec
  PROVE  /\ KeepRest(f)
         /\ \/ exec'[f].status = exec[f].status
            \/ exec[f].status \in {"running", "waiting"} /\ exec'[f].status = "completed"
<1>1. /\ KeepRest(f)
      /\ exec'[f].status = IF f \in Stepped(e, top) THEN "completed" ELSE exec[f].status
  BY RoutesDo DEF RouteFacts, Leaves
<1>2. f \in Stepped(e, top) => exec[f].status \in {"running", "waiting", "completed"}
  <2>1. CASE f = e
    BY <2>1 DEF Leaves, Open
  <2>2. CASE f # e
    <3>1. f \in Stepped(e, top) => \E i \in InvId : inv[i].parent = f
      BY <2>2 DEF Stepped, Chain, Enclosing
    <3>2. f # 0 /\ run.status # "cancelled"
      BY DEF ExecId, Active, ActiveStatuses
    <3> QED
      BY <3>1, <3>2 DEF ParentsEntered
  <2> QED
    BY <2>1, <2>2
<1> QED
  BY <1>1, <1>2

\* What each step leaves of a row that was there: what was saved, what closed.
KeepsSaved(e) ==
  /\ exec[e].result # "none" => exec'[e].result = exec[e].result
  /\ exec[e].status \notin {"absent", "running", "waiting"} => exec'[e].status = exec[e].status
\* And of where it stands.
KeepsPlace(e) ==
  exec[e].status # "absent" =>
    /\ exec'[e].kind = exec[e].kind /\ exec'[e].inv = exec[e].inv
    /\ exec'[e].status # "absent" /\ (Open(e)' => Open(e))
    /\ exec'[e].child = exec[e].child \/ (exec'[e].child # 0 /\ exec'[e].result = "none")

LEMMA StepKeeps ==
  ASSUME CInv, Shape, NEW e \in ExecId
  PROVE  KeepsSaved(e) /\ KeepsPlace(e)
<1>1. TypeOK /\ Tree /\ BlankRows /\ SavedRows /\ ParentsEntered
  BY DEF CInv, IInv, Tree
<1>2. ASSUME Keep(e)
      PROVE  KeepsSaved(e) /\ KeepsPlace(e)
  BY <1>2 DEF Keep, KeepRest, KeepsSaved, KeepsPlace, Open
<1>3. ASSUME Room, e = nextExec
      PROVE  KeepsSaved(e) /\ KeepsPlace(e)
  <2>1. exec[e] = NoExec
    BY <1>1, <1>3, NextBlank
  <2> QED
    BY <2>1 DEF NoExec, KeepsSaved, KeepsPlace
<1>4. CASE Stays \/ Shifts
  BY <1>2, <1>4 DEF Stays, Shifts, KeepAll
<1>5. CASE Roots
  BY <1>2, <1>3, <1>5 DEF Roots, KeepBut, Inserted
<1>6. CASE Cancels
  BY <1>1, <1>6 DEF Cancels, KeepRest, KeepsSaved, KeepsPlace, Open, TypeOK, ExecRow
<1>7. ASSUME NEW f \in ExecId, Saves(f)
      PROVE  KeepsSaved(e) /\ KeepsPlace(e)
  BY <1>2, <1>7 DEF Saves, KeepBut, KeepsSaved, KeepsPlace, Open
<1>8. ASSUME NEW f \in ExecId, Closes(f) \/ Parks(f)
      PROVE  KeepsSaved(e) /\ KeepsPlace(e)
  <2>1. CASE e = f
    BY <1>8, <2>1 DEF Closes, Parks, KeepRest, KeepsSaved, KeepsPlace, Open, Leaves
  <2> QED
    BY <1>2, <1>8, <2>1 DEF Closes, Parks, KeepBut
<1>9. ASSUME NEW f \in ExecId, Enters(f)
      PROVE  KeepsSaved(e) /\ KeepsPlace(e)
  <2>1. CASE e = f
    <3>1. exec[f].result = "none" /\ nextInv # 0
      BY <1>1, <1>9 DEF SavedRows, Enters, TypeOK
    <3> QED
      BY <1>9, <2>1, <3>1 DEF Enters, KeepsSaved, KeepsPlace, Open, Leaves
  <2> QED
    BY <1>2, <1>3, <1>9, <2>1 DEF Enters, Inserted
<1>10. ASSUME NEW f \in ExecId, NEW top \in ExecId, Routes(f, top)
       PROVE  KeepsSaved(e) /\ KeepsPlace(e)
  <2>1. CASE e # nextExec \/ nextExec' = nextExec
    <3>1. /\ KeepRest(e)
          /\ \/ exec'[e].status = exec[e].status
             \/ exec[e].status \in {"running", "waiting"} /\ exec'[e].status = "completed"
      BY <1>1, <1>10, <2>1, ChainRows DEF Routes
    <3> QED
      BY <3>1 DEF KeepRest, KeepsSaved, KeepsPlace, Open
  <2>2. CASE e = nextExec /\ nextExec' # nextExec
    <3>1. Room
      BY <1>10, <2>2 DEF Routes, ApplyChain
    <3> QED
      BY <1>3, <2>2, <3>1
  <2> QED
    BY <2>1, <2>2
<1>11. ASSUME NEW c \in Clients, NEW t \in ExecId, Repeats(c, t)
       PROVE  KeepsSaved(e) /\ KeepsPlace(e)
  BY <1>2, <1>3, <1>11 DEF Repeats, KeepBut
<1> QED
  BY <1>4, <1>5, <1>6, <1>7, <1>8, <1>9, <1>10, <1>11 DEF Shape

\* The row a routing step starts.
LEMMA RoutedRow ==
  ASSUME TypeOK, NEW e \in ExecId, NEW top \in ExecId, Routes(e, top), nextExec' # nextExec
  PROVE  Inserted(exec[top].inv)
BY RoutesDo DEF RouteFacts, Routes

LEMMA SavedRowsKept ==
  ASSUME CInv, Shape
  PROVE  SavedRows'
<1>1. TypeOK /\ Tree /\ SavedRows /\ ParentsEntered /\ nextInv # 0
  BY DEF CInv, IInv, Tree, TypeOK
<1> DEFINE Good(e) ==
      /\ exec'[e].status = "waiting" /\ exec'[e].child = 0 => exec'[e].result \in Waits
      /\ exec'[e].result # "none" => exec'[e].kind # "subgraph"
<1> SUFFICES ASSUME NEW e \in ExecId PROVE Good(e)
  BY DEF SavedRows
<1>2. ASSUME KeepRest(e), exec'[e].status = exec[e].status \/ exec'[e].status # "waiting"
      PROVE  Good(e)
  BY <1>1, <1>2 DEF SavedRows, KeepRest
<1>3. Keep(e) => Good(e)
  BY <1>2 DEF Keep
<1>4. ASSUME NEW i, Inserted(i), e = nextExec
      PROVE  Good(e)
  BY <1>4 DEF Inserted
<1>5. CASE Stays \/ Shifts \/ Roots
  BY <1>3, <1>4, <1>5 DEF Stays, Shifts, KeepAll, Roots, KeepBut
<1>6. CASE Cancels
  BY <1>2, <1>6 DEF Cancels
<1>7. ASSUME NEW f \in ExecId, Saves(f) \/ Closes(f) \/ Parks(f) \/ Enters(f)
      PROVE  Good(e)
  <2>1. CASE e = f
    <3>1. CASE Saves(f)
      BY <1>1, <2>1, <3>1 DEF Saves, SavedRows, Waits
    <3>2. CASE Closes(f)
      BY <1>2, <2>1, <3>2 DEF Closes
    <3>3. CASE Parks(f)
      BY <1>1, <2>1, <3>3 DEF Parks, KeepRest, SavedRows
    <3>4. CASE Enters(f)
      BY <1>1, <2>1, <3>4 DEF Enters, SavedRows
    <3> QED
      BY <1>7, <3>1, <3>2, <3>3, <3>4
  <2>2. CASE e # f
    BY <1>3, <1>4, <1>7, <2>2 DEF Saves, Closes, Parks, Enters, KeepBut
  <2> QED
    BY <2>1, <2>2
<1>8. ASSUME NEW f \in ExecId, NEW top \in ExecId, Routes(f, top)
      PROVE  Good(e)
  <2>1. CASE e # nextExec \/ nextExec' = nextExec
    <3>1. KeepRest(e) /\ (exec'[e].status = exec[e].status \/ exec'[e].status = "completed")
      BY <1>1, <1>8, <2>1, ChainRows DEF Routes
    <3> QED
      BY <1>2, <3>1
  <2>2. CASE e = nextExec /\ nextExec' # nextExec
    BY <1>1, <1>4, <1>8, <2>2, RoutedRow
  <2> QED
    BY <2>1, <2>2
<1>9. ASSUME NEW c \in Clients, NEW t \in ExecId, Repeats(c, t)
      PROVE  Good(e)
  BY <1>1, <1>3, <1>9 DEF Repeats, KeepBut, SavedRows
<1> QED
  BY <1>5, <1>6, <1>7, <1>8, <1>9 DEF Shape

LEMMA ParentsKept ==
  ASSUME CInv, Shape
  PROVE  ParentsEntered'
<1>1. TypeOK /\ Tree /\ ParentsEntered /\ BlankRows
  BY DEF CInv, IInv, Tree
<1> DEFINE Good(i) == inv'[i].parent # 0 =>
      /\ exec'[inv'[i].parent].child # 0
      /\ exec'[inv'[i].parent].status \in {"waiting", "completed"} \/ run'.status = "cancelled"
<1> SUFFICES ASSUME NEW i \in InvId PROVE Good(i)
  BY DEF ParentsEntered
<1> DEFINE p == inv[i].parent
<1>2. p \in 0..MaxExec /\ p < nextExec /\ (p # 0 => p \in ExecId)
  BY <1>1, BoundsAssumption DEF TypeOK, InvRow, ExecId, BlankRows
<1>3. p # 0 => exec[p].child # 0 /\ p \notin Leaves
  BY <1>1 DEF ParentsEntered, Leaves
<1> HIDE DEF p
<1>4. ASSUME inv'[i].parent = p, p # 0 => exec'[p].child = exec[p].child,
             run'.status = "cancelled" \/ (run.status # "cancelled" /\
             (p # 0 => exec'[p].status = exec[p].status \/ exec'[p].status = "completed"))
      PROVE  Good(i)
  BY <1>1, <1>3, <1>4 DEF ParentsEntered, p
<1>5. ASSUME inv'[i].parent = p, p # 0 => Keep(p),
             run.status = "cancelled" => run'.status = "cancelled"
      PROVE  Good(i)
  BY <1>4, <1>5 DEF Keep, KeepRest
<1>6. CASE Stays \/ Shifts
  BY <1>2, <1>5, <1>6 DEF Stays, Shifts, KeepAll, KeepTree, KeepRun, p, Active, ActiveStatuses
<1>7. CASE Roots
  <2>1. inv'[i].parent = p
    BY <1>1, <1>7 DEF Roots, TypeOK, InvRow, p
  <2> QED
    BY <1>2, <1>5, <1>7, <2>1 DEF Roots, KeepBut
<1>8. CASE Cancels
  BY <1>2, <1>4, <1>8 DEF Cancels, KeepRest, p
<1>9. ASSUME NEW f \in ExecId, Saves(f)
      PROVE  Good(i)
  <2>1. p # 0 => Keep(p)
    <3>1. CASE p = f /\ p # 0
      <4>1. exec[f].child # 0
        BY <1>3, <3>1
      <4> QED
        BY <1>9, <4>1 DEF Saves, HoldsLeaf
    <3> QED
      BY <1>2, <1>9, <3>1 DEF Saves, KeepBut
  <2> QED
    BY <1>5, <1>9, <2>1 DEF Saves, KeepTree, KeepRun, p
<1>10. ASSUME NEW f \in ExecId, Closes(f) \/ Parks(f)
       PROVE  Good(i)
  <2>1. p # 0 => Keep(p)
    BY <1>2, <1>3, <1>10 DEF Closes, Parks, KeepBut
  <2> QED
    BY <1>5, <1>10, <2>1 DEF Closes, Parks, KeepTree, p, Active, ActiveStatuses
<1>11. ASSUME NEW f \in ExecId, Enters(f)
       PROVE  Good(i)
  <2>1. CASE i = nextInv
    <3>1. inv'[i].parent = f
      BY <1>1, <1>11, <2>1 DEF Enters, TypeOK
    <3>2. nextInv # 0
      BY <1>1 DEF TypeOK
    <3> QED
      BY <1>11, <3>1, <3>2 DEF Enters
  <2>2. CASE i # nextInv
    <3>1. inv'[i].parent = p
      BY <1>1, <1>11, <2>2 DEF Enters, TypeOK, p
    <3>2. p # 0 => Keep(p)
      BY <1>2, <1>3, <1>11 DEF Enters
    <3> QED
      BY <1>5, <1>11, <3>1, <3>2 DEF Enters, KeepRun
  <2> QED
    BY <2>1, <2>2
<1>12. ASSUME NEW f \in ExecId, NEW top \in ExecId, Routes(f, top)
       PROVE  Good(i)
  <2>1. inv'[i].parent = p /\ run.status # "cancelled"
    BY <1>1, <1>12 DEF Routes, ApplyChain, TypeOK, InvRow, p, Active, ActiveStatuses
  <2>2. p # 0 => /\ KeepRest(p)
                 /\ exec'[p].status = exec[p].status \/ exec'[p].status = "completed"
    BY <1>1, <1>2, <1>12, ChainRows DEF Routes
  <2> QED
    BY <1>4, <2>1, <2>2 DEF KeepRest
<1>13. ASSUME NEW c \in Clients, NEW t \in ExecId, Repeats(c, t)
       PROVE  Good(i)
  BY <1>2, <1>5, <1>13 DEF Repeats, KeepBut, p
<1> QED
  BY <1>6, <1>7, <1>8, <1>9, <1>10, <1>11, <1>12, <1>13 DEF Shape

\* Where a step that read d takes the driver, and which function it called.
LEMMA DispatchHeld ==
  ASSUME TypeOK, NEW d \in Driver, Dispatch(d)
  PROVE  /\ HeldSaved' /\ driver'.phase # "loading"
         /\ driver'.phase = "fn" => driver'.leaf = d.leaf /\ ran' = ran \union {d.leaf}
                                    /\ exec[d.leaf].result = "none"
         /\ driver'.phase # "fn" => ran' = ran
<1> DEFINE At(p) == [d EXCEPT !.phase = p]
<1>1. \A p : At(p).phase = p /\ At(p).leaf = d.leaf
  BY DEF Driver
<1>2. Looped(d).phase = "step" /\ Rested(d).phase \in {"step", "idle"}
  BY DEF Looped, Rested, NoDriver
<1> DEFINE Free == driver'.phase \in {"step", "idle"} /\ ran' = ran
<1>3. Free => HeldSaved'
  BY DEF HeldSaved
<1>4. \A r : (Route(r) \/ Park(r)) => driver' = Looped(r) \/ driver' = Rested(r)
  BY DEF Route, Park
<1>5. CASE EnterSubgraph(d) \/ RouteResult(d) \/ CheckUser(d)
  <2>1. driver' = Looped(d) \/ driver' = Rested(d)
    BY <1>4, <1>5 DEF EnterSubgraph, RouteResult, CheckUser
  <2>2. ran' = ran
    BY <1>5 DEF EnterSubgraph, RouteResult, CheckUser
  <2> QED
    BY <1>2, <1>3, <2>1, <2>2
<1>6. CASE StartFunction(d)
  <2>1. CASE driver' = Looped(d) /\ ran' = ran
    BY <1>2, <1>3, <2>1
  <2>2. CASE driver' = At("fn") /\ ran' = ran \union {d.leaf} /\ UNCHANGED rows
    <3>1. exec' = exec /\ exec[d.leaf].kind = "operation" /\ exec[d.leaf].result = "none"
      BY <1>6, <2>2 DEF StartFunction, NeedsWork, rows, tree
    <3> QED
      BY <1>1, <2>2, <3>1 DEF HeldSaved
  <2> QED
    BY <1>6, <2>1, <2>2 DEF StartFunction
<1>7. CASE StartCapture(d)
  <2>1. CASE driver' = Looped(d)
    BY <1>2, <1>3, <1>7, <2>1 DEF StartCapture
  <2>2. CASE driver' = At("capture") /\ UNCHANGED rows
    <3>1. exec' = exec /\ exec[d.leaf].kind = "checkpoint" /\ ran' = ran
      BY <1>7, <2>2 DEF StartCapture, rows, tree
    <3> QED
      BY <1>1, <2>2, <3>1 DEF HeldSaved
  <2> QED
    BY <1>7, <2>1, <2>2 DEF StartCapture
<1>8. CASE CheckOutside(d)
  <2>1. ran' = ran /\ exec[d.leaf].result \in {"agent", "headless"}
    BY <1>8 DEF CheckOutside, Saved
  <2>2. CASE Route(d) \/ Park(d)
    BY <1>2, <1>3, <1>4, <2>1, <2>2
  <2>3. CASE driver' = At("reading") /\ UNCHANGED rows /\ exec[d.leaf].result = "agent"
    <3>1. exec' = exec
      BY <2>3 DEF rows, tree
    <3> QED
      BY <1>1, <2>1, <2>3, <3>1 DEF HeldSaved
  <2>4. CASE driver' = At("checking") /\ UNCHANGED rows
    <3>1. exec' = exec
      BY <2>4 DEF rows, tree
    <3> QED
      BY <1>1, <2>1, <2>4, <3>1 DEF HeldSaved
  <2> QED
    BY <1>8, <2>2, <2>3, <2>4 DEF CheckOutside, Polled
<1> QED
  BY <1>5, <1>6, <1>7, <1>8 DEF Dispatch

\* What was called stays so.
LEMMA CalledStays ==
  ASSUME CInv, Shape, NEW e \in ExecId, exec[e].status # "absent", Called(e)
  PROVE  Called(e)' /\ exec'[e].status # "absent"
BY StepKeeps DEF KeepsSaved, KeepsPlace, Called

\* A function that ended has saved its result or closed its execution.
LEMMA FnEnds ==
  ASSUME CInv, FnReturns \/ FnFails, NEW l \in ExecId, driver.leaf = l
  PROVE  Called(l)'
<1>1. /\ TypeOK /\ AtMostOneLeaf /\ SavedRows /\ HoldsLeaf(driver)
      /\ exec[l].result = "none" /\ exec[l].child = 0
  BY DEF CInv, IInv, HeldLeaf, FnReturns, FnFails, Holding, HoldsLeaf
<1>2. CASE FnReturns
  <2>1. PICK r \in Results \ {"none"}, over \in BOOLEAN : SaveResult(l, r, over)
    BY <1>2 DEF FnReturns
  <2>2. exec'[l].result = r
    BY <1>1, <2>1 DEF SaveResult, TypeOK, ExecRow
  <2> QED
    BY <2>1, <2>2 DEF Called
<1>3. CASE FnFails
  <2>1. CASE exec[l].status = "running" /\ run.status # "cancelled"
    <3>1. Fail(l)
      BY <1>3, <2>1 DEF FnFails, FailIf
    <3>2. exec'[l].status = "failed"
      BY <1>1, <3>1 DEF Fail, TypeOK, ExecRow
    <3> QED
      BY <3>2 DEF Called, Open
  <2>2. CASE ~(exec[l].status = "running" /\ run.status # "cancelled")
    <3>1. exec' = exec
      BY <1>3, <2>2 DEF FnFails, FailIf, rows, tree
    <3>2. exec[l].status # "waiting"
      BY <1>1 DEF SavedRows, Waits
    <3>3. ~Open(l)
      BY <1>1, <2>2, <3>2 DEF AtMostOneLeaf, Leaves, Open
    <3> QED
      BY <3>1, <3>3 DEF Called, Open
  <2> QED
    BY <2>1, <2>2
<1> QED
  BY <1>2, <1>3

LEMMA DriveSaved ==
  ASSUME CInv, Drive
  PROVE  HeldSaved' /\ RanOnce'
<1>1. TypeOK /\ AtMostOneLeaf /\ RanOnce /\ driver \in Driver /\ HeldSaved /\ HeldLeaf
  BY DEF CInv, IInv, TypeOK
<1>2. Shape
  BY DriveShape DEF CInv
<1>3. \A e \in ran : e \in ExecId /\ exec[e].status # "absent"
  BY <1>1 DEF RanOnce, TypeOK
<1>4. ASSUME driver.phase # "fn"
      PROVE  \A e \in ran : Called(e)' /\ exec'[e].status # "absent"
  BY <1>1, <1>2, <1>3, <1>4, CalledStays DEF RanOnce
<1>5. ASSUME driver'.phase \in {"idle", "step"}, ran' = ran, driver.phase # "fn"
      PROVE  HeldSaved' /\ RanOnce'
  BY <1>4, <1>5 DEF HeldSaved, RanOnce
<1>6. \A r : Looped(r).phase = "step" /\ Rested(r).phase \in {"step", "idle"}
  BY DEF Looped, Rested, NoDriver
<1>7. ASSUME NEW d \in Driver, HoldsLeaf(d), driver.phase # "fn",
             Dispatch(d)
      PROVE  HeldSaved' /\ RanOnce'
  <2>1. /\ HeldSaved' /\ driver'.phase # "loading"
        /\ driver'.phase = "fn" => driver'.leaf = d.leaf /\ ran' = ran \union {d.leaf}
        /\ driver'.phase # "fn" => ran' = ran
    BY <1>1, <1>7, DispatchHeld
  <2>2. d.leaf \in ExecId /\ exec[d.leaf].status # "absent"
    BY <1>7 DEF HoldsLeaf
  <2>3. exec'[d.leaf].status # "absent"
    BY <1>2, <2>2, StepKeeps DEF KeepsPlace
  <2> QED
    BY <1>4, <1>7, <2>1, <2>3 DEF RanOnce
<1>8. CASE Step
  <2>1. driver.phase = "step"
    BY <1>8 DEF Step
  <2>2. CASE driver' = Rested(driver) /\ ran' = ran
    BY <1>5, <1>6, <2>1, <2>2
  <2>3. ASSUME Leaves # {}
        PROVE  StepRead \in Driver /\ HoldsLeaf(StepRead)
               /\ (StepRead.leaf \in ran => exec[StepRead.leaf].result # "none")
    BY <1>1, <2>1, <2>3, StepReadType, StepReadHolds, LeafIsLeaf
       DEF RanOnce, Called, Leaves
  <2>4. CASE Leaves # {} /\ Dispatch(StepRead)
    BY <1>7, <2>1, <2>3, <2>4
  <2>5. CASE /\ Leaves # {} /\ driver' = [StepRead EXCEPT !.phase = "loading"]
             /\ UNCHANGED <<rows, fresh, ran>>
    <3>1. driver'.phase = "loading" /\ driver'.leaf = StepRead.leaf /\ ran' = ran
          /\ exec' = exec
      BY <2>3, <2>5 DEF Driver, rows, tree
    <3>2. HeldSaved'
      BY <3>1 DEF HeldSaved
    <3>3. driver'.leaf \in ran => exec[StepRead.leaf].result # "none"
      BY <2>3, <2>5, <3>1
    <3> QED
      BY <1>4, <2>1, <3>1, <3>2, <3>3 DEF RanOnce
  <2> QED
    BY <1>8, <2>2, <2>4, <2>5 DEF Step
<1>9. CASE Loaded
  <2>1. driver.phase = "loading" /\ HoldsLeaf(driver)
    BY <1>1, <1>9 DEF Loaded, HeldLeaf, Holding
  <2> QED
    BY <1>1, <1>7, <1>9, <2>1 DEF Loaded, RanOnce
<1>10. CASE LoadFails \/ CaptureFails \/ CaptureDone
  BY <1>5, <1>6, <1>10 DEF LoadFails, CaptureFails, CaptureDone
<1>11. CASE FnReturns \/ FnFails
  <2>1. driver' = Looped(driver) /\ ran' = ran
    BY <1>11 DEF FnReturns, FnFails
  <2>2. driver'.phase = "step"
    BY <1>6, <2>1
  <2>3. ASSUME NEW e \in ran
        PROVE  Called(e)' /\ exec'[e].status # "absent"
    <3>1. e \in ExecId /\ exec[e].status # "absent"
      BY <1>3
    <3>2. exec'[e].status # "absent"
      BY <1>2, <3>1, StepKeeps DEF KeepsPlace
    <3>3. CASE Called(e)
      BY <1>2, <3>1, <3>3, CalledStays
    <3>4. CASE driver.leaf = e
      BY <1>11, <3>1, <3>2, <3>4, FnEnds
    <3> QED
      BY <1>1, <3>3, <3>4 DEF RanOnce
  <2> QED
    BY <2>1, <2>2, <2>3 DEF HeldSaved, RanOnce
<1>12. CASE Checked \/ ReplyRead
  <2>1. driver.phase # "fn" /\ ran' = ran
    BY <1>12 DEF Checked, ReplyRead
  <2>2. CASE Route(driver) \/ Park(driver)
    BY <1>5, <1>6, <2>1, <2>2 DEF Route, Park
  <2>3. CASE /\ exec[driver.leaf].result = "agent" /\ UNCHANGED rows
             /\ driver' = [driver EXCEPT !.phase = "reading"]
    <3>1. driver'.phase = "reading" /\ driver'.leaf = driver.leaf /\ exec' = exec
      BY <1>1, <2>3 DEF Driver, rows, tree
    <3> QED
      BY <1>4, <2>1, <2>3, <3>1 DEF HeldSaved, RanOnce
  <2> QED
    BY <1>12, <2>2, <2>3 DEF Checked, ReplyRead, Polled
<1> QED
  BY <1>8, <1>9, <1>10, <1>11, <1>12 DEF Drive, DriveOn

\* What everybody else leaves the driver with.
LEMMA OthersSaved ==
  ASSUME CInv, Shape, ran' = ran, driver' = driver \/ driver' = Kicked(driver)
  PROVE  HeldSaved' /\ RanOnce'
<1>1. /\ TypeOK /\ RanOnce /\ HeldSaved
      /\ driver.phase \in Holding => HoldsLeaf(driver)
  BY DEF CInv, IInv, HeldLeaf
<1>2. driver'.phase \in Holding \/ driver.phase \in Holding =>
        driver'.phase = driver.phase /\ driver'.leaf = driver.leaf
  <2>1. CASE driver' = driver
    BY <2>1
  <2>2. CASE driver' = Kicked(driver)
    BY <1>1, <2>2 DEF Kicked, NoDriver, Holding, TypeOK, Driver
  <2> QED
    BY <2>1, <2>2
<1>3. driver.phase \in Holding =>
        /\ driver.leaf \in ExecId /\ exec[driver.leaf].status # "absent"
        /\ exec'[driver.leaf].kind = exec[driver.leaf].kind
        /\ exec[driver.leaf].result # "none" =>
             exec'[driver.leaf].result = exec[driver.leaf].result
  BY <1>1, StepKeeps DEF KeepsPlace, KeepsSaved, HoldsLeaf
<1>4. HeldSaved'
  BY <1>1, <1>2, <1>3 DEF HeldSaved, Holding
<1>5. \A e \in ran : e \in ExecId /\ exec[e].status # "absent" /\ exec'[e].status # "absent"
  BY <1>1, StepKeeps DEF KeepsPlace, RanOnce, TypeOK
<1>6. ASSUME NEW e \in ran
      PROVE  Called(e)' \/ (driver'.phase = "fn" /\ driver'.leaf = e)
  BY <1>1, <1>2, <1>5, CalledStays DEF RanOnce, Holding
<1>7. ASSUME driver'.phase = "loading", driver'.leaf \in ran
      PROVE  exec'[driver'.leaf].result # "none"
  <2>1. driver'.leaf = driver.leaf /\ driver.phase = "loading"
    BY <1>2, <1>7 DEF Holding
  <2> QED
    BY <1>1, <1>3, <1>7, <2>1 DEF RanOnce, Holding
<1>8. RanOnce'
  BY <1>5, <1>6, <1>7 DEF RanOnce
<1> QED
  BY <1>4, <1>8

LEMMA InitC == Init => CInv
<1> SUFFICES ASSUME Init PROVE CInv
  OBVIOUS
<1>1. \A e \in ExecId : exec[e] = NoExec
  BY DEF Init
<1>2. \A i \in InvId : inv[i].parent = 0
  BY DEF Init, NoInv
<1>3. SavedRows
  BY <1>1 DEF SavedRows, NoExec
<1>4. driver.phase = "idle" /\ ran = {}
  BY DEF Init, NoDriver
<1>5. HeldSaved /\ RanOnce /\ ParentsEntered
  BY <1>2, <1>4 DEF HeldSaved, RanOnce, ParentsEntered
<1> QED
  BY <1>3, <1>5, InitInv DEF CInv

LEMMA NextC == CInv /\ [Next]_vars => CInv'
<1> SUFFICES ASSUME CInv, [Next]_vars PROVE CInv'
  OBVIOUS
<1>1. Shape
  BY StepShape
<1>2. IInv'
  BY NextInv DEF CInv
<1>3. SavedRows' /\ ParentsEntered'
  BY <1>1, SavedRowsKept, ParentsKept
<1>4. HeldSaved' /\ RanOnce'
  <2>1. CASE Drive
    BY <2>1, DriveSaved
  <2>2. CASE Restart
    <3>1. driver'.phase = "idle" /\ ran' = {}
      BY <2>2 DEF Restart, NoDriver
    <3> QED
      BY <3>1 DEF HeldSaved, RanOnce
  <2>3. CASE ran' = ran /\ (driver' = driver \/ driver' = Kicked(driver))
    BY <1>1, <2>3, OthersSaved
  <2>4. Prepare \/ Outside \/ UNCHANGED vars =>
          ran' = ran /\ (driver' = driver \/ driver' = Kicked(driver))
    BY DEF Prepare, Place, PlaceFails, LoadRoot, EnterRoot, LoadRootFails,
           Outside, TurnEdge, HeadlessSettled, Trigger, vars, memory
  <2>5. Control => ran' = ran /\ (driver' = driver \/ driver' = Kicked(driver))
    BY DEF Control, Pause, Cancel, Dismiss, SurfaceDeleted, Advance, Ask, ResumeAsk,
           RetryAsk, Refused, ResumeCommit, RetryPreparation, RetryReloaded,
           RetryObserved, RetryExecution, memory
  <2> QED
    BY <2>1, <2>2, <2>3, <2>4, <2>5 DEF Next
<1> QED
  BY <1>2, <1>3, <1>4 DEF CInv

LEMMA InvarianceC == Spec => []CInv
<1> QED
  BY InitC, NextC, PTL DEF Spec

\* A step that calls a node's function calls one this process did not call.
LEMMA CallsFresh ==
  ASSUME CInv, Next, driver.phase # "fn", driver'.phase = "fn"
  PROVE  driver'.leaf \notin ran
<1>1. TypeOK /\ AtMostOneLeaf /\ RanOnce /\ HeldLeaf /\ driver \in Driver
  BY DEF CInv, IInv, TypeOK
<1>2. ASSUME NEW d \in Driver, d.leaf \in ran => exec[d.leaf].result # "none", Dispatch(d)
      PROVE  driver'.leaf \notin ran
  <2>1. driver'.leaf = d.leaf /\ exec[d.leaf].result = "none"
    BY <1>1, <1>2, DispatchHeld
  <2> QED
    BY <1>2, <2>1
<1>3. \A r : Looped(r).phase # "fn" /\ Rested(r).phase # "fn" /\ NoDriver.phase # "fn"
  BY DEF Looped, Rested, NoDriver
<1>4. CASE Drive
  <2>1. CASE Loaded
    BY <1>1, <1>2, <2>1 DEF Loaded, RanOnce
  <2>2. CASE Step
    <3>1. CASE driver' = [StepRead EXCEPT !.phase = "loading"]
      BY <3>1, StepReadType, <1>1, <2>2 DEF Step, StepRead, Driver
    <3>2. CASE Leaves # {} /\ Dispatch(StepRead)
      <4>1. StepRead \in Driver /\ StepRead.leaf \in Leaves
        BY <1>1, <3>2, StepReadType, LeafIsLeaf
      <4>2. StepRead.leaf \in ran => exec[StepRead.leaf].result # "none"
        BY <1>1, <2>2, <4>1 DEF RanOnce, Called, Leaves, Step
      <4> QED
        BY <1>2, <3>2, <4>1, <4>2
    <3> QED
      BY <1>3, <2>2, <3>1, <3>2 DEF Step
  <2>3. CASE ~Loaded /\ ~Step
    <3>1. \/ driver' = Looped(driver) \/ driver' = Rested(driver)
          \/ driver' = [driver EXCEPT !.phase = "reading"]
      BY <1>4, <2>3 DEF Drive, DriveOn, LoadFails, FnReturns, FnFails, CaptureDone,
                        CaptureFails, Checked, ReplyRead, Polled, Route, Park
    <3> QED
      BY <1>1, <1>3, <3>1 DEF Driver
  <2> QED
    BY <2>1, <2>2, <2>3
<1>5. CASE Restart
  BY <1>3, <1>5 DEF Restart
<1>6. CASE Prepare \/ Outside \/ Control
  <2>1. Prepare \/ Outside => driver' = driver \/ driver' = Kicked(driver)
    BY DEF Prepare, Place, PlaceFails, LoadRoot, EnterRoot, LoadRootFails,
           Outside, TurnEdge, HeadlessSettled, Trigger
  <2>2. Control => driver' = driver \/ driver' = Kicked(driver)
    BY DEF Control, Pause, Cancel, Dismiss, SurfaceDeleted, Advance, Ask, ResumeAsk,
           RetryAsk, Refused, ResumeCommit, RetryPreparation, RetryReloaded,
           RetryObserved, RetryExecution, memory
  <2>3. Kicked(driver).phase # "fn"
    BY <1>1 DEF Kicked, NoDriver, Driver
  <2> QED
    BY <1>6, <2>1, <2>2, <2>3
<1> QED
  BY <1>4, <1>5, <1>6 DEF Next

\* runNodeFunction is called once in a process for an execution, whatever restarts,
\* pauses, retries and cancels happen around the call.
THEOREM CalledOnce == Spec => RunsOncePerLife
<1> DEFINE Fresh == driver.phase # "fn" /\ driver'.phase = "fn" => driver'.leaf \notin ran
<1>1. CInv /\ [Next]_vars => [Fresh]_vars
  <2>1. CInv /\ Next => Fresh
    BY CallsFresh
  <2> QED
    BY <2>1
<1>2. Spec => [][Fresh]_vars
  BY <1>1, InvarianceC, PTL DEF Spec
<1> QED
  BY <1>2 DEF RunsOncePerLife

\* A saved result is never overwritten and a closed execution never reopens.
THEOREM ResultsAreKept == Spec => SavedResultKept
<1> DEFINE Kept == \A e \in ExecId :
       /\ exec[e].result # "none" => exec'[e].result = exec[e].result
       /\ exec[e].status \notin {"absent", "running", "waiting"} =>
            exec'[e].status = exec[e].status
<1>1. CInv /\ [Next]_vars => [Kept]_vars
  <2>1. CInv /\ [Next]_vars => Kept
    BY StepShape, StepKeeps DEF KeepsSaved
  <2> QED
    BY <2>1
<1>2. Spec => [][Kept]_vars
  BY <1>1, InvarianceC, PTL DEF Spec
<1> QED
  BY <1>2 DEF SavedResultKept

\* The two together: what an execution returns is computed and saved once.
THEOREM ResultsComputedOnce == Spec => ComputedOnce
BY CalledOnce, ResultsAreKept DEF ComputedOnce

-----------------------------------------------------------------------------
(* The climb from an invocation to the root graph (computeChain).          *)

Up(i) == exec[inv[i].parent].inv

LEMMA UpType ==
  ASSUME TypeOK, NEW i \in InvId
  PROVE  /\ inv[i].parent \in 0..MaxExec /\ inv[i].parent \in Nat
         /\ inv[i].parent # 0 => inv[i].parent \in ExecId /\ Up(i) \in InvId
<1>1. inv[i].parent \in 0..MaxExec /\ inv[i].parent \in Nat
  BY BoundsAssumption DEF TypeOK, InvRow
<1>2. inv[i].parent # 0 => inv[i].parent \in ExecId
  BY <1>1, BoundsAssumption DEF ExecId
<1> QED
  BY <1>1, <1>2 DEF TypeOK, ExecRow, Up

\* Enclosing(i) has i and is closed under the climb: it is the least such set.
LEMMA EnclosingClosed ==
  ASSUME TypeOK, NEW i \in InvId
  PROVE  /\ i \in Enclosing(i) /\ Enclosing(i) \subseteq InvId
         /\ ClosedUpwards(Enclosing(i))
<1>1. i \in Enclosing(i) /\ Enclosing(i) \subseteq InvId
  BY DEF Enclosing
<1>2. ASSUME NEW j \in Enclosing(i), inv[j].parent # 0
      PROVE  Up(j) \in Enclosing(i)
  <2>1. Up(j) \in InvId
    BY <1>1, <1>2, UpType
  <2>2. ASSUME NEW is \in SUBSET InvId, i \in is, ClosedUpwards(is)
        PROVE  Up(j) \in is
    <3>1. j \in is
      BY <2>2 DEF Enclosing
    <3> QED
      BY <1>2, <2>2, <3>1 DEF ClosedUpwards, Up
  <2> QED
    BY <2>1, <2>2 DEF Enclosing
<1> QED
  BY <1>1, <1>2 DEF ClosedUpwards, Up

LEMMA EnclosingLeast ==
  ASSUME NEW i, NEW is \in SUBSET InvId, i \in is, ClosedUpwards(is)
  PROVE  Enclosing(i) \subseteq is
BY DEF Enclosing

\* One step of the climb.
LEMMA EnclosingStep ==
  ASSUME TypeOK, NEW i \in InvId
  PROVE  Enclosing(i) = {i} \union (IF inv[i].parent = 0 THEN {} ELSE Enclosing(Up(i)))
<1> DEFINE rest == IF inv[i].parent = 0 THEN {} ELSE Enclosing(Up(i))
<1>1. inv[i].parent # 0 => Up(i) \in InvId
  BY UpType
<1>2. /\ i \in Enclosing(i) /\ Enclosing(i) \subseteq InvId
      /\ ClosedUpwards(Enclosing(i))
  BY EnclosingClosed
<1>3. inv[i].parent # 0 => Enclosing(Up(i)) \subseteq Enclosing(i)
  BY <1>2, EnclosingLeast DEF ClosedUpwards, Up
<1>4. ClosedUpwards({i} \union rest) /\ {i} \union rest \in SUBSET InvId
  <2>1. CASE inv[i].parent = 0
    BY <2>1 DEF ClosedUpwards
  <2>2. CASE inv[i].parent # 0
    <3>1. /\ Up(i) \in Enclosing(Up(i)) /\ Enclosing(Up(i)) \subseteq InvId
          /\ ClosedUpwards(Enclosing(Up(i)))
      BY <1>1, <2>2, EnclosingClosed
    <3> QED
      BY <2>2, <3>1 DEF ClosedUpwards, Up
  <2> QED
    BY <2>1, <2>2
<1>5. Enclosing(i) \subseteq {i} \union rest
  BY <1>4, EnclosingLeast
<1> QED
  BY <1>2, <1>3, <1>5

LEMMA EnclosingNests ==
  ASSUME TypeOK, NEW i \in InvId, NEW j \in Enclosing(i)
  PROVE  Enclosing(j) \subseteq Enclosing(i)
BY EnclosingClosed, EnclosingLeast

\* Of two invocations of one climb, one encloses the other.
LEMMA EnclosingLinear ==
  ASSUME TypeOK, NEW i \in InvId, NEW j \in Enclosing(i), NEW k \in Enclosing(i)
  PROVE  j \in Enclosing(k) \/ k \in Enclosing(j)
<1> DEFINE S == {m \in InvId : m \in Enclosing(k) \/ k \in Enclosing(m)}
<1>1. k \in InvId /\ k \in Enclosing(k) /\ ClosedUpwards(Enclosing(k))
  BY EnclosingClosed
<1>2. ASSUME NEW m \in S, inv[m].parent # 0
      PROVE  Up(m) \in S
  <2>1. Up(m) \in InvId
    BY <1>2, UpType
  <2>2. CASE m \in Enclosing(k)
    BY <1>1, <1>2, <2>1, <2>2 DEF ClosedUpwards, Up
  <2>3. CASE m # k /\ k \in Enclosing(m)
    BY <1>2, <2>1, <2>3, EnclosingStep
  <2> QED
    BY <1>1, <2>2, <2>3
<1>3. ClosedUpwards(S)
  BY <1>2 DEF ClosedUpwards, Up
<1>4. Enclosing(i) \subseteq S
  BY <1>3, EnclosingLeast
<1> QED
  BY <1>4

\* Parents are older than what they contain: climbing goes down in ids.
Rising == \A i \in InvId : inv[i].parent # 0 => inv[Up(i)].parent < inv[i].parent

LEMMA EnclosingOrder ==
  ASSUME TypeOK, Rising, NEW i \in InvId, NEW j \in Enclosing(i)
  PROVE  j = i \/ inv[j].parent < inv[i].parent
<1> DEFINE S == {m \in InvId : m = i \/ inv[m].parent < inv[i].parent}
<1>1. ASSUME NEW m \in S, inv[m].parent # 0
      PROVE  Up(m) \in S
  <2>1. Up(m) \in InvId
    BY <1>1, UpType
  <2>2. inv[Up(m)].parent < inv[m].parent
    BY <1>1 DEF Rising
  <2>3. /\ inv[Up(m)].parent \in Nat /\ inv[m].parent \in Nat /\ inv[i].parent \in Nat
        /\ inv[m].parent <= inv[i].parent
    BY <2>1, <1>1, UpType
  <2> QED
    BY <2>1, <2>2, <2>3
<1>2. ClosedUpwards(S)
  BY <1>1 DEF ClosedUpwards, Up
<1>3. Enclosing(i) \subseteq S
  BY <1>2, EnclosingLeast
<1> QED
  BY <1>3

\* Where a climb passes an execution, the invocations below it are those whose parent
\* is not older.
LEMMA EnclosingSplit ==
  ASSUME TypeOK, Rising, NEW i \in InvId, NEW j \in Enclosing(i), inv[j].parent # 0,
         NEW m \in Enclosing(i)
  PROVE  m \in Enclosing(Up(j)) <=> inv[m].parent < inv[j].parent
<1>1. /\ j \in InvId /\ m \in InvId /\ Up(j) \in InvId
      /\ inv[m].parent \in Nat /\ inv[j].parent \in Nat /\ inv[Up(j)].parent \in Nat
      /\ inv[Up(j)].parent < inv[j].parent
  BY EnclosingClosed, UpType DEF Rising
<1>2. m \in Enclosing(Up(j)) => inv[m].parent < inv[j].parent
  BY <1>1, EnclosingOrder
<1>3. ASSUME inv[m].parent < inv[j].parent
      PROVE  m \in Enclosing(Up(j))
  <2>1. m # j /\ ~(inv[j].parent < inv[m].parent)
    BY <1>1, <1>3
  <2>2. j \notin Enclosing(m)
    BY <1>1, <2>1, EnclosingOrder
  <2>3. m \in Enclosing(j)
    BY <2>2, EnclosingLinear
  <2> QED
    BY <1>1, <2>1, <2>3, EnclosingStep
<1> QED
  BY <1>2, <1>3

\* The climb is the same wherever its links are.
LEMMA EnclosingLocal ==
  ASSUME TypeOK, NEW i \in InvId,
         \A j \in Enclosing(i) : /\ inv'[j].parent = inv[j].parent
                                 /\ inv[j].parent # 0 =>
                                      exec'[inv[j].parent].inv = exec[inv[j].parent].inv
  PROVE  Enclosing(i)' = Enclosing(i)
<1>1. /\ i \in Enclosing(i) /\ Enclosing(i) \in SUBSET InvId
      /\ ClosedUpwards(Enclosing(i))
  BY EnclosingClosed
<1>2. ClosedUpwards(Enclosing(i))' <=>
        \A j \in Enclosing(i)' : inv'[j].parent # 0 => exec'[inv'[j].parent].inv \in Enclosing(i)'
  BY DEF ClosedUpwards
<1>3. ASSUME NEW is \in SUBSET InvId, is \subseteq Enclosing(i)
      PROVE  ClosedUpwards(is)' <=> ClosedUpwards(is)
  BY <1>3 DEF ClosedUpwards
<1>4. Enclosing(i)' \subseteq Enclosing(i)
  <2> DEFINE E == Enclosing(i)
  <2>1. \A is \in SUBSET InvId : i \in is /\ ClosedUpwards(is)' => Enclosing(i)' \subseteq is
    BY DEF Enclosing
  <2>2. \A is : is = E => ClosedUpwards(is)'
    BY <1>1, <1>3
  <2> QED
    BY <1>1, <2>1, <2>2
<1>5. \A is \in SUBSET InvId : is = Enclosing(i)' => i \in is /\ ClosedUpwards(is)'
  <2> SUFFICES ASSUME NEW is \in SUBSET InvId, is = Enclosing(i)' PROVE i \in is /\ ClosedUpwards(is)'
    OBVIOUS
  <2>1. i \in is
    BY DEF Enclosing
  <2>2. ASSUME NEW j \in is, inv'[j].parent # 0
        PROVE  exec'[inv'[j].parent].inv \in is
    <3>1. j \in Enclosing(i)
      BY <1>4
    <3>2. exec'[inv'[j].parent].inv = exec[inv[j].parent].inv
      BY <2>2, <3>1
    <3>3. exec'[inv'[j].parent].inv \in InvId
      BY <1>1, <2>2, <3>1, <3>2, UpType DEF Up
    <3>4. ASSUME NEW ks \in SUBSET InvId, i \in ks, ClosedUpwards(ks)'
          PROVE  exec'[inv'[j].parent].inv \in ks
      <4>1. j \in ks
        BY <3>4 DEF Enclosing
      <4> QED
        BY <2>2, <3>4, <4>1 DEF ClosedUpwards
    <3> QED
      BY <3>3, <3>4 DEF Enclosing
  <2> QED
    BY <2>1, <2>2 DEF ClosedUpwards
<1>6. Enclosing(i) \subseteq Enclosing(i)'
  <2> DEFINE S == {j \in InvId : \A is \in SUBSET InvId : i \in is /\ ClosedUpwards(is)' => j \in is}
  <2>1. S = Enclosing(i)' /\ S \in SUBSET InvId
    BY DEF Enclosing
  <2> HIDE DEF S
  <2>2. i \in S /\ ClosedUpwards(S)
    BY <1>3, <1>4, <1>5, <2>1
  <2> QED
    BY <2>1, <2>2, EnclosingLeast
<1> QED
  BY <1>4, <1>6

-----------------------------------------------------------------------------
(* The path: where the run stands in its tree, and what its status says.    *)

\* The execution inserted last.
Latest == nextExec - 1

\* Rows are numbered as they are inserted: what an execution hangs on, what it repeats
\* and what it runs under are older; the first rows are the root graph's.
Numbered ==
  /\ \A e \in ExecId : e < nextExec => /\ exec[e].status # "absent"
                                       /\ exec[e].inv < nextInv
                                       /\ inv[exec[e].inv].parent < e
  /\ \A e \in ExecId : exec[e].retryOf < e
  /\ \A i \in InvId : IF i < nextInv THEN inv[i].status # "absent" ELSE inv[i] = NoInv
  /\ HasRoot <=> nextExec # 1
  /\ nextExec = 1 => nextInv = 1

\* An open execution that entered a graph and that graph's invocation name each other.
Above == \A e \in ExecId : Open(e) /\ exec[e].child # 0 =>
           inv[exec[e].child] = [status |-> "running", parent |-> e]
Below == \A i \in InvId : inv[i].status = "running" /\ inv[i].parent # 0 =>
           Open(inv[i].parent) /\ exec[inv[i].parent].child = i

\* The run stands on the execution inserted last: its leaf, or what Retry repeats.
Standing == Leaves # {} \/ (run.status = "failed" /\ HasRoot)
Tips == /\ Leaves # {} => Latest \in Leaves
        /\ run.status = "failed" /\ HasRoot => Latest \in Retryable
\* The running invocations are those it stands in.
OnPath == Standing => \A i \in InvId : i = exec[Latest].inv =>
            \A j \in InvId : inv[j].status = "running" <=> j \in Enclosing(i)
\* A run that ended left nothing open.
Ended == run.status \in {"completed", "cancelled"} =>
           /\ \A e \in ExecId : ~Open(e)
           /\ \A i \in InvId : inv[i].status # "running"

Path == Above /\ Below /\ Tips /\ OnPath /\ Ended

\* What each status of the run says of the tree and of the driver.
Stands ==
  /\ run.status \in {"running", "waiting", "paused"} => Leaves # {}
  /\ run.status = "preparing" => ~HasRoot /\ ~run.envError
  /\ run.envError => ~HasRoot
  /\ run.status = "running" => driver.phase # "idle"
  /\ run.status = "waiting" => \A e \in ExecId : e = Latest => exec[e].status = "waiting"

\* What the one Retry request in flight read still holds when it commits.
Asked == \A c \in Clients :
  /\ ctl[c].phase \in {"retry", "observe"} => run.status \in {"failed", "cancelled"}
  /\ ctl[c].phase = "retry" /\ ctl[c].preparing /\ run.status = "failed" => ~HasRoot
  /\ ctl[c].phase = "observe" /\ run.status = "failed" => ctl[c].target = Latest

PInv == CInv /\ Numbered /\ Path /\ Stands /\ Asked

\* What numbering gives.
LEMMA Older ==
  ASSUME TypeOK, BlankRows, Numbered
  PROVE  /\ nextExec \in Nat /\ nextInv \in Nat /\ Latest \in Nat /\ Latest < nextExec
         /\ Rising
         /\ \A e \in ExecId : e < nextExec <=> exec[e].status # "absent"
         /\ \A e \in ExecId : e < nextExec <=> e <= Latest
         /\ nextExec # 1 => Latest \in ExecId
<1>1. nextExec \in Nat /\ nextInv \in Nat /\ Latest \in Nat /\ Latest < nextExec
  BY BoundsAssumption DEF TypeOK, Latest
<1>2. ASSUME NEW i \in InvId, inv[i].parent # 0
      PROVE  inv[Up(i)].parent < inv[i].parent
  <2>1. inv[i].parent \in ExecId /\ inv[i].parent < nextExec
    BY <1>2, UpType DEF BlankRows
  <2> QED
    BY <2>1 DEF Numbered, Up
<1>3. \A e \in ExecId : e < nextExec <=> exec[e].status # "absent"
  <2>1. \A e \in ExecId : e < nextExec \/ e >= nextExec
    BY <1>1, BoundsAssumption DEF ExecId
  <2> QED
    BY <2>1 DEF Numbered, BlankRows, NoExec
<1>4. \A e \in ExecId : e < nextExec <=> e <= Latest
  BY <1>1, BoundsAssumption DEF ExecId, Latest
<1>5. nextExec # 1 => Latest \in ExecId
  BY <1>1, BoundsAssumption DEF ExecId, Latest, TypeOK
<1> QED
  BY <1>1, <1>2, <1>3, <1>4, <1>5 DEF Rising

\* An invocation is enclosed by older ones.
LEMMA EnclosingOlder ==
  ASSUME TypeOK, BlankRows, Numbered, NEW i \in InvId, i < nextInv
  PROVE  \A j \in Enclosing(i) : j < nextInv
<1> DEFINE S == {m \in InvId : m < nextInv}
<1>1. ASSUME NEW m \in S, inv[m].parent # 0
      PROVE  Up(m) \in S
  BY <1>1, UpType DEF BlankRows, Numbered, Up
<1>2. ClosedUpwards(S)
  BY <1>1 DEF ClosedUpwards, Up
<1> QED
  BY <1>2, EnclosingLeast

\* The leaf is the execution inserted last.
LEMMA LeafIsLatest ==
  ASSUME TypeOK, AtMostOneLeaf, Tips, NEW e \in Leaves
  PROVE  e = Latest /\ \A f \in Leaves : f = Latest
BY DEF AtMostOneLeaf, Tips

-----------------------------------------------------------------------------
(* Numbering is kept. *)

LEMMA NumberedKept ==
  ASSUME TypeOK, TypeOK', BlankRows, BlankRows', Numbered,
         \A e \in ExecId : e < nextExec =>
           /\ exec'[e].inv = exec[e].inv /\ exec'[e].retryOf = exec[e].retryOf
           /\ exec'[e].status # "absent",
         \/ nextExec' = nextExec
         \/ /\ nextExec' = nextExec + 1 /\ nextExec \in ExecId
            /\ exec'[nextExec].status # "absent" /\ exec'[nextExec].retryOf < nextExec
            /\ exec'[nextExec].inv < nextInv' /\ inv'[exec'[nextExec].inv].parent < nextExec
            /\ HasRoot \/ \E i \in InvId : inv'[i].status # "absent" /\ inv'[i].parent = 0,
         \/ nextInv' = nextInv
         \/ nextInv' = nextInv + 1 /\ nextExec' = nextExec + 1 /\ inv'[nextInv].status # "absent",
         \A i \in InvId : i < nextInv => inv'[i].parent = inv[i].parent
                                          /\ inv'[i].status # "absent",
         \A i \in InvId : i >= nextInv' => inv'[i] = NoInv
  PROVE  Numbered'
<1>1. nextExec \in Nat /\ nextInv \in Nat /\ nextExec >= 1 /\ nextInv >= 1
  BY BoundsAssumption DEF TypeOK
<1>2. \A e \in ExecId : e \in Nat /\ e >= 1 /\ exec[e].inv \in InvId
  BY BoundsAssumption DEF ExecId, TypeOK, ExecRow
<1>3. \A i \in InvId : i \in Nat /\ (i < nextInv \/ i >= nextInv)
  BY <1>1, BoundsAssumption DEF InvId
<1>4. ASSUME NEW e \in ExecId, e < nextExec
      PROVE  /\ exec'[e].status # "absent" /\ exec'[e].inv < nextInv'
             /\ inv'[exec'[e].inv].parent < e /\ exec'[e].retryOf < e
  <2>1. exec[e].inv < nextInv /\ inv[exec[e].inv].parent < e /\ exec[e].retryOf < e
    BY <1>4 DEF Numbered
  <2>2. exec[e].inv < nextInv'
    BY <1>1, <1>2, <1>3, <2>1
  <2> QED
    BY <1>2, <1>4, <2>1, <2>2
<1>5. \A e \in ExecId : e < nextExec' => e < nextExec \/ (e = nextExec /\ nextExec' # nextExec)
  BY <1>1, <1>2
<1>6. ASSUME NEW e \in ExecId, e < nextExec'
      PROVE  /\ exec'[e].status # "absent" /\ exec'[e].inv < nextInv'
             /\ inv'[exec'[e].inv].parent < e /\ exec'[e].retryOf < e
  BY <1>4, <1>5, <1>6
<1>7. \A e \in ExecId : exec'[e].retryOf < e
  <2>1. \A e \in ExecId : e < nextExec' \/ e >= nextExec'
    BY <1>1, <1>2
  <2>2. \A e \in ExecId : e >= nextExec' => exec'[e].retryOf = 0
    BY DEF BlankRows, NoExec
  <2> QED
    BY <1>2, <1>6, <2>1, <2>2
<1>8. HasRoot => HasRoot'
  <2> SUFFICES ASSUME NEW i \in InvId, inv[i].status # "absent", inv[i].parent = 0
               PROVE  HasRoot'
    BY DEF HasRoot
  <2>1. i < nextInv
    BY DEF Numbered, NoInv
  <2> QED
    BY <2>1 DEF HasRoot
<1>9. HasRoot' <=> nextExec' # 1
  <2>1. CASE nextExec' # nextExec
    <3>1. HasRoot'
      BY <1>8, <2>1 DEF HasRoot
    <3> QED
      BY <1>1, <2>1, <3>1
  <2>2. CASE nextExec' = nextExec
    <3>1. nextInv' = nextInv
      BY <1>1, <2>2
    <3>2. HasRoot' => HasRoot
      <4> SUFFICES ASSUME NEW i \in InvId, inv'[i].status # "absent", inv'[i].parent = 0
                   PROVE  HasRoot
        BY DEF HasRoot
      <4>1. i < nextInv
        BY <1>3, <3>1 DEF NoInv
      <4> QED
        BY <4>1 DEF HasRoot, Numbered
    <3> QED
      BY <1>8, <2>2, <3>2 DEF Numbered
  <2> QED
    BY <2>1, <2>2
<1>10. nextExec' = 1 => nextInv' = 1
  BY <1>1 DEF Numbered
<1>11. \A i \in InvId : IF i < nextInv' THEN inv'[i].status # "absent" ELSE inv'[i] = NoInv
  BY <1>1, <1>3
<1> QED
  BY <1>6, <1>7, <1>9, <1>10, <1>11 DEF Numbered

LEMMA StepNumbered ==
  ASSUME CInv, CInv', Numbered, Asked, Tips, Shape
  PROVE  Numbered'
<1>1. /\ TypeOK /\ TypeOK' /\ BlankRows /\ BlankRows' /\ Tree /\ SavedRows
      /\ ParentsEntered /\ AtMostOneLeaf
  BY DEF CInv, IInv, Tree
<1>2. /\ nextExec \in Nat /\ nextInv \in Nat /\ nextInv >= 1
      /\ \A e \in ExecId : e < nextExec => exec[e].status # "absent" /\ e # nextExec
  BY <1>1, Older DEF TypeOK
<1>3. \A i \in InvId : /\ i >= nextInv => inv[i] = NoInv
                       /\ i < nextInv => inv[i].status # "absent"
  BY <1>2, BoundsAssumption DEF Numbered, InvId
<1> DEFINE Old == \A e \in ExecId : e < nextExec =>
             /\ exec'[e].inv = exec[e].inv /\ exec'[e].retryOf = exec[e].retryOf
             /\ exec'[e].status # "absent"
<1>4. \A f \in ExecId : Keep(f) /\ f < nextExec =>
             /\ exec'[f].inv = exec[f].inv /\ exec'[f].retryOf = exec[f].retryOf
             /\ exec'[f].status # "absent"
  BY <1>2 DEF Keep, KeepRest
<1> HIDE DEF Old
<1>5. ASSUME Old, KeepTree
      PROVE  Numbered'
  BY <1>1, <1>3, <1>5, NumberedKept DEF KeepTree, Old
<1>6. CASE Stays \/ Shifts
  <2>1. Old
    BY <1>4, <1>6 DEF Stays, Shifts, KeepAll, Old
  <2> QED
    BY <1>5, <1>6, <2>1 DEF Stays, Shifts
<1>7. ASSUME NEW e \in ExecId, Saves(e) \/ Closes(e) \/ Parks(e)
      PROVE  Numbered'
  <2>1. \A f \in ExecId : f # e => Keep(f)
    BY <1>7 DEF Saves, Closes, Parks, KeepBut
  <2>2. /\ exec'[e].inv = exec[e].inv /\ exec'[e].retryOf = exec[e].retryOf
        /\ exec[e].status # "absent" => exec'[e].status # "absent"
    BY <1>7 DEF Saves, Closes, Parks, KeepRest
  <2>3. Old
    BY <1>2, <1>4, <2>1, <2>2 DEF Old
  <2> QED
    BY <1>5, <1>7, <2>3 DEF Saves, Closes, Parks
<1>8. CASE Cancels
  <2>1. Old
    BY <1>2, <1>8 DEF Cancels, KeepRest, Old
  <2>2. \A i \in InvId : /\ inv'[i].parent = inv[i].parent
                         /\ inv[i].status # "absent" => inv'[i].status # "absent"
    BY <1>8 DEF Cancels
  <2>3. \A i \in InvId : inv[i] = NoInv => inv'[i] = NoInv
    <3>1. ASSUME NEW i \in InvId, inv[i] = NoInv
          PROVE  inv'[i].status = "absent" /\ inv'[i].parent = 0 /\ inv'[i] \in InvRow
      BY <1>1, <1>8, <3>1 DEF Cancels, NoInv, TypeOK
    <3> QED
      BY <3>1 DEF InvRow, NoInv
  <2>4. nextExec' = nextExec /\ nextInv' = nextInv
    BY <1>8 DEF Cancels
  <2> QED
    BY <1>1, <1>3, <2>1, <2>2, <2>3, <2>4, NumberedKept DEF Old
<1>9. CASE Roots
  <2>1. /\ nextExec \in ExecId /\ nextInv \in InvId /\ inv[nextInv] = NoInv
    BY <1>1, <1>2, <1>3, <1>9, NextBlank, BoundsAssumption DEF Roots, Inserted, InvId
  <2>2. /\ inv'[nextInv].status = "running" /\ inv'[nextInv].parent = 0
        /\ \A i \in InvId : i # nextInv => inv'[i] = inv[i]
    BY <1>1, <1>9, <2>1 DEF Roots, TypeOK, NoInv, InvRow
  <2>3. Old
    BY <1>2, <1>4, <1>9 DEF Roots, KeepBut, Old
  <2>4. /\ nextExec' = nextExec + 1 /\ nextInv' = nextInv + 1
        /\ exec'[nextExec].status # "absent" /\ exec'[nextExec].retryOf = 0
        /\ exec'[nextExec].inv = nextInv
    BY <1>9 DEF Roots, Inserted
  <2>5. nextExec > 0
    BY <2>1, BoundsAssumption DEF ExecId
  <2>6. nextInv < nextInv' /\ \A i \in InvId : i >= nextInv' => i # nextInv /\ i >= nextInv
    BY <1>2, <2>4, BoundsAssumption DEF InvId
  <2>7. \A i \in InvId : i < nextInv => i # nextInv
    BY <1>2
  <2> QED
    BY <1>1, <1>3, <2>1, <2>2, <2>3, <2>4, <2>5, <2>6, <2>7, NumberedKept DEF Old
<1>10. ASSUME NEW e \in ExecId, Enters(e)
       PROVE  Numbered'
  <2>1. /\ nextExec \in ExecId /\ nextInv \in InvId /\ inv[nextInv] = NoInv
        /\ e # nextExec /\ exec[e].status # "absent"
    BY <1>1, <1>2, <1>3, <1>10, NextBlank, BoundsAssumption
       DEF Enters, Inserted, InvId, Leaves, Open
  <2>2. /\ inv'[nextInv].status = "running" /\ inv'[nextInv].parent = e
        /\ \A i \in InvId : i # nextInv => inv'[i] = inv[i]
    BY <1>1, <1>10, <2>1 DEF Enters, TypeOK
  <2>3. Old
    BY <1>2, <1>4, <1>10 DEF Enters, Old
  <2>4. /\ nextExec' = nextExec + 1 /\ nextInv' = nextInv + 1
        /\ exec'[nextExec].status # "absent" /\ exec'[nextExec].retryOf = 0
        /\ exec'[nextExec].inv = nextInv
    BY <1>10 DEF Enters, Inserted
  <2>5. nextExec > 0 /\ e < nextExec
    BY <1>1, <2>1, Older, BoundsAssumption DEF ExecId
  <2>6. nextInv < nextInv' /\ \A i \in InvId : i >= nextInv' => i # nextInv /\ i >= nextInv
    BY <1>2, <2>4, BoundsAssumption DEF InvId
  <2>7. \A i \in InvId : i < nextInv => i # nextInv
    BY <1>2
  <2>8. HasRoot
    <3>1. nextExec # 1
      BY <2>5, BoundsAssumption DEF ExecId
    <3> QED
      BY <3>1 DEF Numbered
  <2> QED
    BY <1>1, <1>3, <2>1, <2>2, <2>3, <2>4, <2>5, <2>6, <2>7, <2>8, NumberedKept DEF Old
<1>11. ASSUME NEW c \in Clients, NEW t \in ExecId, Repeats(c, t)
       PROVE  Numbered'
  <2>1. /\ nextExec \in ExecId /\ nextExec' = nextExec + 1 /\ inv' = inv
        /\ nextInv' = nextInv
        /\ exec'[nextExec].status # "absent" /\ exec'[nextExec].retryOf = t
        /\ exec'[nextExec].inv = exec[t].inv
    BY <1>1, <1>11, NextBlank DEF Repeats
  <2>2. t < nextExec
    <3>1. CASE IsRetryTarget(t)
      BY <1>1, <3>1, Older DEF IsRetryTarget, Retryable
    <3>2. CASE ctl[c].phase = "observe" /\ t = ctl[c].target
      <4>1. t = Latest
        BY <1>11, <3>2 DEF Asked, Repeats
      <4> QED
        BY <1>1, <4>1, Older
    <3> QED
      BY <1>11, <3>1, <3>2 DEF Repeats
  <2>3. exec[t].inv < nextInv /\ inv[exec[t].inv].parent < t /\ exec[t].inv \in InvId
    BY <1>1, <2>2 DEF Numbered, TypeOK, ExecRow
  <2>4. inv[exec[t].inv].parent < nextExec
    BY <1>2, <2>2, <2>3, BoundsAssumption DEF ExecId, TypeOK, BlankRows, CInv, IInv
  <2>5. Old
    BY <1>2, <1>4, <1>11 DEF Repeats, KeepBut, Old
  <2>6. HasRoot
    <3>1. nextExec # 1
      BY <2>2, BoundsAssumption DEF ExecId
    <3> QED
      BY <3>1 DEF Numbered
  <2>7. /\ exec'[nextExec].retryOf < nextExec /\ exec'[nextExec].inv < nextInv'
        /\ inv'[exec'[nextExec].inv].parent < nextExec
    BY <2>1, <2>2, <2>3, <2>4
  <2>8. \A i \in InvId : /\ inv'[i].parent = inv[i].parent
                         /\ i < nextInv => inv'[i].status # "absent"
                         /\ i >= nextInv' => inv'[i] = NoInv
    BY <1>3, <2>1
  <2>9. exec'[nextExec].status # "absent" /\ nextExec \in ExecId /\ nextInv' = nextInv
        /\ nextExec' = nextExec + 1
    BY <2>1
  <2> QED
    BY <1>1, <2>5, <2>6, <2>7, <2>8, <2>9, NumberedKept DEF Old
<1>12. ASSUME NEW e \in ExecId, NEW top \in ExecId, Routes(e, top)
       PROVE  Numbered'
  <2>1. RouteFacts(e, top) /\ e \in Leaves /\ top \in Chain(e)
    BY <1>1, <1>12, RoutesDo DEF Routes
  <2>2. \A f \in ExecId : f < nextExec =>
          /\ KeepRest(f) /\ exec'[f].status # "absent"
    BY <1>2, <2>1 DEF RouteFacts
  <2>3. Old
    BY <2>2 DEF Old, KeepRest
  <2>4. top < nextExec /\ e < nextExec
    <3>1. e < nextExec
      BY <1>1, <2>1, Older DEF Leaves, Open
    <3>2. \A i \in Enclosing(exec[e].inv) : inv[i].parent < nextExec
      BY <1>1 DEF Enclosing, BlankRows
    <3> QED
      BY <2>1, <3>1, <3>2 DEF Chain
  <2>5. /\ exec[top].inv \in InvId /\ exec[top].inv < nextInv
        /\ inv[exec[top].inv].parent < top
    BY <1>1, <2>4 DEF Numbered, TypeOK, ExecRow
  <2>6. /\ \A i \in InvId : inv'[i].parent = inv[i].parent
        /\ nextInv' = nextInv
    BY <2>1 DEF RouteFacts
  <2>7. \A i \in InvId : /\ i < nextInv => inv'[i].status # "absent"
                         /\ i >= nextInv => inv'[i].status = inv[i].status
    <3>1. \A i \in InvId : i >= nextInv => i \notin Left(e, top) \union {exec[top].inv}
      BY <1>2, <1>3, <2>5, BoundsAssumption DEF Left, NoInv, InvId
    <3> QED
      BY <1>3, <2>1, <3>1 DEF RouteFacts, Closed
  <2>8. \A i \in InvId : i >= nextInv' => inv'[i] = NoInv
    <3>1. \A i \in InvId : inv'[i] \in InvRow
      BY <1>1 DEF TypeOK
    <3>2. \A i \in InvId : i >= nextInv' => inv'[i].status = "absent" /\ inv'[i].parent = 0
      BY <1>3, <2>6, <2>7 DEF NoInv
    <3> QED
      BY <3>1, <3>2 DEF InvRow, NoInv
  <2>9. \/ nextExec' = nextExec
        \/ /\ nextExec' = nextExec + 1 /\ nextExec \in ExecId
           /\ exec'[nextExec].status # "absent" /\ exec'[nextExec].retryOf < nextExec
           /\ exec'[nextExec].inv < nextInv' /\ inv'[exec'[nextExec].inv].parent < nextExec
    <3>1. CASE nextExec' # nextExec
      <4>1. Inserted(exec[top].inv) /\ nextExec \in ExecId
        BY <1>1, <2>1, <3>1, NextBlank DEF RouteFacts, Inserted
      <4>2. 0 < nextExec /\ inv[exec[top].inv].parent < nextExec
        BY <1>2, <2>4, <2>5, <4>1, UpType, <1>1, BoundsAssumption DEF ExecId
      <4> QED
        BY <2>5, <2>6, <4>1, <4>2 DEF Inserted
    <3> QED
      BY <3>1
  <2>10. HasRoot
    <3>1. nextExec # 1
      BY <2>4, BoundsAssumption DEF ExecId
    <3> QED
      BY <3>1 DEF Numbered
  <2> QED
    BY <1>1, <2>3, <2>6, <2>7, <2>8, <2>9, <2>10, NumberedKept DEF Old
<1> QED
  BY <1>6, <1>7, <1>8, <1>9, <1>10, <1>11, <1>12 DEF Shape

-----------------------------------------------------------------------------
(* The path is kept. *)

\* The climbs a step leaves alone: those from an invocation that was there, when no row that
\* was there moves.
LEMMA EnclosingKept ==
  ASSUME TypeOK, BlankRows,
         \A f \in ExecId : f < nextExec => exec'[f].inv = exec[f].inv,
         NEW i \in InvId,
         \A j \in Enclosing(i) : inv'[j].parent = inv[j].parent
  PROVE  Enclosing(i)' = Enclosing(i)
<1>1. \A j \in Enclosing(i) :
        inv[j].parent # 0 => exec'[inv[j].parent].inv = exec[inv[j].parent].inv
  BY EnclosingClosed, UpType DEF BlankRows
<1> QED
  BY <1>1, EnclosingLocal

\* Steps that insert and close nothing.
KeepMost(e) == /\ exec'[e].inv = exec[e].inv /\ exec'[e].retryOf = exec[e].retryOf
               /\ exec'[e].child = exec[e].child /\ exec'[e].status = exec[e].status

LEMMA MostKept ==
  ASSUME TypeOK, BlankRows, Numbered, \A e \in ExecId : KeepMost(e), KeepTree
  PROVE  /\ Leaves' = Leaves /\ Retryable' = Retryable /\ Latest' = Latest
         /\ HasRoot' <=> HasRoot
         /\ Above => Above'
         /\ Below => Below'
         /\ \A i \in InvId : Enclosing(i)' = Enclosing(i)
         /\ \A e \in ExecId : Open(e)' <=> Open(e)
<1>1. \A e \in ExecId : Open(e)' <=> Open(e)
  BY DEF KeepMost, Open
<1>2. Leaves' = Leaves
  BY <1>1 DEF KeepMost, Leaves
<1>3. Retryable' = Retryable
  BY DEF KeepMost, Retryable
<1>4. Latest' = Latest /\ (HasRoot' <=> HasRoot)
  BY DEF KeepTree, Latest, HasRoot
<1>5. Above => Above'
  BY <1>1 DEF KeepMost, KeepTree, Above
<1>6. Below => Below'
  <2> SUFFICES ASSUME Below, NEW i \in InvId, inv'[i].status = "running", inv'[i].parent # 0
               PROVE  Open(inv[i].parent)' /\ exec'[inv[i].parent].child = i /\ inv' = inv
    BY DEF Below, Open, KeepTree
  <2>1. inv' = inv /\ inv[i].parent \in ExecId
    BY UpType DEF KeepTree
  <2> QED
    BY <2>1 DEF Below, KeepMost, Open
<1>7. ASSUME NEW i \in InvId
      PROVE  Enclosing(i)' = Enclosing(i)
  BY EnclosingKept DEF KeepMost, KeepTree
<1> QED
  BY <1>1, <1>2, <1>3, <1>4, <1>5, <1>6, <1>7

\* And the path, when such a step leaves the run where it stands.
LEMMA OnPathKept ==
  ASSUME TypeOK, TypeOK', BlankRows, Numbered, OnPath, Standing' => Standing,
         Latest' = Latest, \A e \in ExecId : e < nextExec => exec'[e].inv = exec[e].inv,
         \A i \in InvId : inv'[i].parent = inv[i].parent,
         \A i \in InvId : inv'[i].status = "running" <=> inv[i].status = "running",
         nextExec # 1 \/ ~Standing'
  PROVE  OnPath'
<1> SUFFICES ASSUME Standing', NEW i \in InvId, i = exec'[Latest'].inv, NEW j \in InvId
             PROVE  inv'[j].status = "running" <=> j \in Enclosing(i)'
  BY DEF OnPath
<1>1. Latest \in ExecId /\ Latest < nextExec
  BY Older
<1>2. i = exec[Latest].inv
  BY <1>1
<1>3. Enclosing(i)' = Enclosing(i)
  BY EnclosingClosed, EnclosingKept
<1> QED
  BY <1>2, <1>3 DEF OnPath

LEMMA StandingRoot ==
  ASSUME TypeOK, BlankRows, Numbered, Standing
  PROVE  HasRoot /\ nextExec # 1 /\ Latest \in ExecId
<1>1. ASSUME NEW e \in Leaves
      PROVE  nextExec # 1
  <2>1. e \in ExecId /\ e < nextExec
    BY Older DEF Leaves, Open
  <2> QED
    BY <2>1, BoundsAssumption DEF ExecId
<1>2. nextExec # 1
  BY <1>1 DEF Standing, Numbered
<1> QED
  BY <1>2, Older DEF Numbered

PathOK == Path /\ Stands

LEMMA QuietPath ==
  ASSUME CInv, CInv', Numbered, Numbered', PathOK, Stays \/ \E l \in ExecId : Saves(l)
  PROVE  PathOK'
<1>1. TypeOK /\ TypeOK' /\ BlankRows /\ KeepTree /\ KeepRun
  BY DEF CInv, IInv, Stays, Saves
<1>2. \A e \in ExecId : KeepMost(e)
  BY DEF Stays, Saves, KeepAll, KeepBut, Keep, KeepRest, KeepMost
<1>3. /\ Leaves' = Leaves /\ Retryable' = Retryable /\ Latest' = Latest
      /\ HasRoot' <=> HasRoot
      /\ Above' /\ Below'
      /\ \A e \in ExecId : Open(e)' <=> Open(e)
  BY <1>1, <1>2, MostKept DEF PathOK, Path
<1>4. Standing' <=> Standing
  BY <1>1, <1>3 DEF Standing, KeepRun
<1>5. OnPath'
  <2>1. nextExec # 1 \/ ~Standing'
    BY <1>1, <1>4, StandingRoot
  <2> QED
    BY <1>1, <1>2, <1>3, <1>4, <2>1, OnPathKept DEF PathOK, Path, KeepTree, KeepMost
<1>6. Tips' /\ Ended'
  BY <1>1, <1>3 DEF PathOK, Path, Tips, Ended, KeepRun, KeepTree
<1>7. Stands'
  BY <1>1, <1>2, <1>3 DEF PathOK, Stands, KeepRun, KeepMost, Stays, Saves, Going
<1> QED
  BY <1>3, <1>5, <1>6, <1>7 DEF PathOK, Path

LEMMA ShiftsPath ==
  ASSUME CInv, CInv', Numbered, Numbered', PathOK, Asked, Shifts
  PROVE  PathOK'
<1>1. TypeOK /\ TypeOK' /\ BlankRows /\ KeepTree /\ AtMostOneLeaf
  BY DEF CInv, IInv, Shifts
<1>2. \A e \in ExecId : KeepMost(e)
  BY DEF Shifts, KeepAll, Keep, KeepRest, KeepMost
<1>3. /\ Leaves' = Leaves /\ Retryable' = Retryable /\ Latest' = Latest
      /\ HasRoot' <=> HasRoot
      /\ Above' /\ Below'
  BY <1>1, <1>2, MostKept DEF PathOK, Path
<1>4. \/ /\ Active /\ run'.status = "paused" /\ run'.envError = run.envError
      \/ /\ run.status = "paused" /\ run'.status = "running" /\ Going
         /\ run'.envError = run.envError
      \/ run.status = "preparing" /\ ~HasRoot /\ run'.status = "failed"
      \/ /\ run.status = "failed" /\ ~HasRoot /\ run'.status = "preparing" /\ ~run'.envError
  BY DEF Shifts, PathOK, Stands, Asked
<1>5. Standing' => Standing
  BY <1>3, <1>4 DEF Standing
<1>6. OnPath'
  <2>1. nextExec # 1 \/ ~Standing'
    BY <1>1, <1>5, StandingRoot
  <2> QED
    BY <1>1, <1>2, <1>3, <1>5, <2>1, OnPathKept DEF PathOK, Path, KeepTree, KeepMost
<1>7. Tips' /\ Ended'
  BY <1>3, <1>4 DEF PathOK, Path, Tips, Ended
<1>8. Stands'
  BY <1>3, <1>4 DEF PathOK, Stands, Going, Active, ActiveStatuses
<1> QED
  BY <1>3, <1>6, <1>7, <1>8 DEF PathOK, Path

\* The leaf, and what was inserted before it.
LEMMA TheLeaf ==
  ASSUME TypeOK, AtMostOneLeaf, BlankRows, Numbered, Path, NEW l \in Leaves
  PROVE  /\ l = Latest /\ l \in ExecId /\ Open(l) /\ exec[l].child = 0
         /\ l < nextExec /\ nextExec # 1 /\ HasRoot /\ Standing
         /\ \A f \in ExecId : Open(f) /\ f # l => exec[f].child # 0
<1>1. l = Latest
  BY LeafIsLatest DEF Path
<1>2. Standing
  BY DEF Standing
<1>3. \A f \in ExecId : Open(f) /\ f # l => exec[f].child # 0
  BY DEF AtMostOneLeaf, Leaves
<1> QED
  BY <1>1, <1>2, <1>3, StandingRoot, Older DEF Leaves

LEMMA ClosesPath ==
  ASSUME CInv, CInv', Numbered, Numbered', PathOK, NEW l \in ExecId, Closes(l)
  PROVE  PathOK'
<1>1. /\ TypeOK /\ TypeOK' /\ BlankRows /\ KeepTree /\ AtMostOneLeaf /\ Path
      /\ l \in Leaves /\ KeepRest(l) /\ KeepBut(l)
      /\ exec'[l].status \in {"failed", "interrupted"}
      /\ run'.status = "failed" /\ ~run'.envError
  BY DEF CInv, IInv, Closes, PathOK
<1>2. /\ l = Latest /\ exec[l].child = 0 /\ l < nextExec /\ nextExec # 1 /\ HasRoot
      /\ Standing /\ Latest' = Latest
  BY <1>1, TheLeaf DEF KeepTree, Latest
<1>3. \A e \in ExecId : /\ exec'[e].child = exec[e].child /\ exec'[e].inv = exec[e].inv
                        /\ exec'[e].retryOf = exec[e].retryOf
                        /\ Open(e)' <=> Open(e) /\ e # l
  BY <1>1 DEF KeepBut, Keep, KeepRest, Open
<1>4. Leaves' = {}
  BY <1>1, <1>3 DEF Leaves, AtMostOneLeaf
<1>5. Above'
  BY <1>1, <1>3 DEF Path, Above, KeepTree
<1>6. Below'
  <2> SUFFICES ASSUME NEW i \in InvId, inv[i].status = "running", inv[i].parent # 0
               PROVE  Open(inv[i].parent)' /\ exec'[inv[i].parent].child = i /\ inv' = inv
    BY <1>1 DEF Below, Open, KeepTree
  <2>1. inv' = inv /\ inv[i].parent \in ExecId
    BY <1>1, UpType DEF KeepTree
  <2>2. Open(inv[i].parent) /\ exec[inv[i].parent].child = i /\ i # 0
    BY <1>1, BoundsAssumption DEF Path, Below, InvId
  <2> QED
    BY <1>2, <1>3, <2>1, <2>2
<1>7. l \in Retryable'
  <2>1. \A f \in ExecId : f < nextExec \/ exec[f] = NoExec
    BY <1>1, BoundsAssumption DEF BlankRows, ExecId, TypeOK
  <2>2. \A f \in ExecId : exec[f].retryOf # l
    <3> SUFFICES ASSUME NEW f \in ExecId PROVE exec[f].retryOf # l
      OBVIOUS
    <3>1. CASE f < nextExec
      <4>1. f <= l
        BY <1>1, <1>2, <3>1, Older
      <4>2. exec[f].retryOf < f
        BY <3>1 DEF Numbered
      <4>3. exec[f] \in ExecRow /\ f \in 1..MaxExec /\ l \in 1..MaxExec
        BY <1>1 DEF TypeOK, ExecId
      <4>4. exec[f].retryOf \in Nat /\ f \in Nat /\ l \in Nat
        BY <4>3, BoundsAssumption DEF ExecRow
      <4> QED
        BY <4>1, <4>2, <4>4
    <3>2. CASE exec[f] = NoExec
      BY <3>2, BoundsAssumption DEF NoExec, ExecId
    <3> QED
      BY <2>1, <3>1, <3>2
  <2> QED
    BY <1>1, <1>3, <2>2 DEF Retryable
<1>8. OnPath'
  BY <1>1, <1>2, <1>3, OnPathKept DEF Path, KeepTree
<1>9. HasRoot'
  BY <1>1, <1>2 DEF HasRoot, KeepTree
<1>10. Tips' /\ Ended' /\ Stands'
  BY <1>1, <1>2, <1>4, <1>7 DEF Tips, Ended, Stands
<1> QED
  BY <1>5, <1>6, <1>8, <1>10 DEF PathOK, Path

LEMMA ParksPath ==
  ASSUME CInv, CInv', Numbered, Numbered', PathOK, NEW l \in ExecId, Parks(l)
  PROVE  PathOK'
<1>1. /\ TypeOK /\ TypeOK' /\ BlankRows /\ KeepTree /\ AtMostOneLeaf /\ Path
      /\ l \in Leaves /\ KeepRest(l) /\ KeepBut(l) /\ exec'[l].status = "waiting"
      /\ run'.status = "waiting" /\ run'.envError = run.envError /\ Active
  BY DEF CInv, IInv, Parks, PathOK
<1>2. /\ l = Latest /\ exec[l].child = 0 /\ l < nextExec /\ nextExec # 1 /\ HasRoot
      /\ Standing /\ Latest' = Latest /\ Open(l)
  BY <1>1, TheLeaf DEF KeepTree, Latest
<1>3. \A e \in ExecId : /\ exec'[e].child = exec[e].child /\ exec'[e].inv = exec[e].inv
                        /\ Open(e)' <=> Open(e)
  BY <1>1, <1>2 DEF KeepBut, Keep, KeepRest, Open
<1>4. Leaves' = Leaves
  BY <1>3 DEF Leaves
<1>5. Above'
  BY <1>1, <1>3 DEF Path, Above, KeepTree
<1>6. Below'
  <2> SUFFICES ASSUME NEW i \in InvId, inv[i].status = "running", inv[i].parent # 0
               PROVE  Open(inv[i].parent)' /\ exec'[inv[i].parent].child = i /\ inv' = inv
    BY <1>1 DEF Below, Open, KeepTree
  <2>1. inv' = inv /\ inv[i].parent \in ExecId
    BY <1>1, UpType DEF KeepTree
  <2> QED
    BY <1>1, <1>3, <2>1 DEF Path, Below
<1>7. OnPath'
  BY <1>1, <1>2, <1>3, OnPathKept DEF Path, KeepTree
<1>8. HasRoot' /\ ~run.envError
  BY <1>1, <1>2 DEF HasRoot, KeepTree, PathOK, Stands
<1>9. Tips' /\ Ended' /\ Stands'
  BY <1>1, <1>2, <1>4, <1>8 DEF Tips, Ended, Stands, Path
<1> QED
  BY <1>5, <1>6, <1>7, <1>9 DEF PathOK, Path

LEMMA CancelsPath ==
  ASSUME CInv, CInv', Numbered, Numbered', PathOK, Cancels
  PROVE  PathOK'
<1>1. TypeOK /\ \A e \in ExecId : ~Open(e)'
  BY DEF CInv, IInv, Cancels, Open
<1>2. Leaves' = {}
  BY <1>1 DEF Leaves
<1>3. \A i \in InvId : /\ inv'[i].status # "running" /\ inv'[i].parent = inv[i].parent
                       /\ inv'[i].status # "absent" <=> inv[i].status # "absent"
  BY DEF Cancels
<1>4. HasRoot' <=> HasRoot
  BY <1>3 DEF HasRoot
<1>5. run'.status = "cancelled" /\ run'.envError = run.envError
  BY DEF Cancels
<1>6. Above' /\ Below' /\ Ended'
  BY <1>1, <1>3 DEF Above, Below, Ended
<1>7. OnPath' /\ Tips'
  BY <1>2, <1>5 DEF OnPath, Standing, Tips
<1>8. Stands'
  BY <1>4, <1>5 DEF Stands, PathOK
<1> QED
  BY <1>6, <1>7, <1>8 DEF PathOK, Path

-----------------------------------------------------------------------------
(* The path of a run that starts, enters a graph, or repeats an execution.  *)

\* EnclosingStep in the next state.
Climbs == \A i \in InvId :
  Enclosing(i) = {i} \union (IF inv[i].parent = 0 THEN {} ELSE Enclosing(Up(i)))

LEMMA EnclosingSteps == TypeOK => Climbs
BY EnclosingStep DEF Climbs

LEMMA EnclosingStepNext ==
  ASSUME TypeOK', NEW i \in InvId
  PROVE  Enclosing(i)' = {i} \union (IF inv'[i].parent = 0 THEN {} ELSE Enclosing(Up(i))')
<1>1. TypeOK' => Climbs'
  BY EnclosingSteps, PTL
<1> QED
  BY <1>1 DEF Climbs

LEMMA RootsPath ==
  ASSUME CInv, CInv', Numbered, Numbered', PathOK, Roots
  PROVE  PathOK'
<1>1. /\ TypeOK /\ TypeOK' /\ BlankRows /\ ~HasRoot /\ ~run.envError
      /\ run'.status = "running" /\ run'.envError = run.envError /\ Going
  BY DEF CInv, IInv, Roots, PathOK, Stands
<1>2. nextExec = 1 /\ nextInv = 1 /\ 1 \in ExecId /\ 1 \in InvId
  BY <1>1, BoundsAssumption DEF Numbered, ExecId, InvId
<1>3. /\ exec'[1].status = "running" /\ exec'[1].child = 0 /\ exec'[1].inv = 1
      /\ \A f \in ExecId : f # 1 => exec'[f].status = exec[f].status
      /\ nextExec' = 1 + 1 /\ inv' = [inv EXCEPT ![1].status = "running"]
  BY <1>2 DEF Roots, Inserted, KeepBut, Keep
<1>4. /\ \A f \in ExecId : exec[f].status = "absent"
      /\ \A i \in InvId : inv[i] = NoInv
  BY <1>1, <1>2, BoundsAssumption DEF BlankRows, NoExec, Numbered, ExecId, InvId
<1>5. Latest' = 1 /\ \A f \in ExecId : Open(f)' <=> f = 1
  BY <1>3, <1>4 DEF Latest, Open
<1>6. Leaves' = {1}
  BY <1>2, <1>3, <1>5 DEF Leaves
<1>7. /\ inv'[1].status = "running" /\ inv'[1].parent = 0
      /\ \A i \in InvId : inv'[i].status = "running" <=> i = 1
  BY <1>1, <1>2, <1>3, <1>4 DEF TypeOK, NoInv
<1>8. Above' /\ Below'
  BY <1>3, <1>5, <1>7 DEF Above, Below
<1>9. OnPath'
  <2>1. Enclosing(1)' = {1}
    BY <1>1, <1>2, <1>7, EnclosingStepNext
  <2> QED
    BY <1>3, <1>5, <1>7, <2>1 DEF OnPath
<1>10. Tips' /\ Ended' /\ Stands'
  BY <1>1, <1>5, <1>6 DEF Tips, Ended, Stands, Going
<1> QED
  BY <1>8, <1>9, <1>10 DEF PathOK, Path

LEMMA EntersPath ==
  ASSUME CInv, CInv', Numbered, Numbered', PathOK, NEW l \in ExecId, Enters(l)
  PROVE  PathOK'
<1>1. /\ TypeOK /\ TypeOK' /\ BlankRows /\ AtMostOneLeaf /\ Path /\ SavedRows /\ Stands
      /\ l \in Leaves /\ Active /\ exec[l].kind = "subgraph" /\ KeepRun /\ Going
  BY DEF CInv, IInv, Enters, PathOK
<1>2. /\ l = Latest /\ Open(l) /\ exec[l].child = 0 /\ l < nextExec /\ nextExec # 1
      /\ HasRoot /\ Standing
      /\ \A f \in ExecId : Open(f) /\ f # l => exec[f].child # 0
  BY <1>1, TheLeaf
<1>3. /\ nextExec \in ExecId /\ exec[nextExec] = NoExec /\ nextInv \in InvId
      /\ nextInv # 0 /\ inv[nextInv] = NoInv
  BY <1>1, NextBlank, BoundsAssumption DEF Enters, Inserted, Numbered, InvId, TypeOK
<1>4. /\ exec'[nextExec].status = "running" /\ exec'[nextExec].child = 0
      /\ exec'[nextExec].inv = nextInv /\ nextExec' = nextExec + 1
      /\ exec'[l].status = "waiting" /\ exec'[l].child = nextInv /\ exec'[l].inv = exec[l].inv
      /\ \A f \in ExecId : f # l /\ f # nextExec =>
           /\ exec'[f].status = exec[f].status /\ exec'[f].child = exec[f].child
           /\ exec'[f].inv = exec[f].inv
  BY DEF Enters, Inserted, Keep, KeepRest
<1>5. /\ inv'[nextInv] = [status |-> "running", parent |-> l]
      /\ \A i \in InvId : i # nextInv => inv'[i] = inv[i]
  BY <1>1, <1>3 DEF Enters, TypeOK
<1>6. \A f \in ExecId : Open(f)' <=> Open(f) \/ f = nextExec
  BY <1>2, <1>4 DEF Open
<1>7. Leaves' = {nextExec} /\ Latest' = nextExec
  <2>1. \A f \in ExecId : Open(f)' /\ exec'[f].child = 0 <=> f = nextExec
    BY <1>2, <1>3, <1>4, <1>6
  <2>2. Latest' = nextExec
    BY <1>1, <1>4, BoundsAssumption DEF Latest, TypeOK
  <2> QED
    BY <1>3, <2>1, <2>2 DEF Leaves
<1>8. run.status = "running"
  <2>1. exec[l].status # "waiting"
    BY <1>1, <1>2 DEF SavedRows, Waits
  <2> QED
    BY <1>1, <1>2, <2>1 DEF Stands, Active, ActiveStatuses
<1>9. Above'
  <2> SUFFICES ASSUME NEW f \in ExecId, Open(f)', exec'[f].child # 0
               PROVE  inv'[exec'[f].child] = [status |-> "running", parent |-> f]
    BY DEF Above
  <2>1. CASE f = l
    BY <1>4, <1>5, <2>1
  <2>2. CASE f # l
    <3>1. Open(f) /\ f # nextExec /\ exec'[f].child = exec[f].child
      BY <1>4, <1>6, <2>2
    <3>2. inv[exec[f].child] = [status |-> "running", parent |-> f]
      BY <1>1, <3>1 DEF Path, Above
    <3>3. exec[f].child \in InvId
      BY <1>1, <3>1, BoundsAssumption DEF TypeOK, ExecRow, InvId
    <3>4. exec[f].child # nextInv
      BY <1>3, <3>2 DEF NoInv
    <3> QED
      BY <1>5, <3>1, <3>2, <3>3, <3>4
  <2> QED
    BY <2>1, <2>2
<1>10. Below'
  <2> SUFFICES ASSUME NEW i \in InvId, inv'[i].status = "running", inv'[i].parent # 0,
                      NEW p, p = inv'[i].parent
               PROVE  exec'[p].status \in {"running", "waiting"} /\ exec'[p].child = i
    BY DEF Below, Open
  <2>1. CASE i = nextInv
    BY <1>4, <1>5, <2>1
  <2>2. CASE i # nextInv
    <3>1. p = inv[i].parent /\ inv[i].status = "running" /\ p # 0
      BY <1>5, <2>2
    <3>2. p \in ExecId /\ p < nextExec
      BY <1>1, <3>1, UpType DEF BlankRows
    <3>3. Open(p) /\ exec[p].child = i
      BY <1>1, <3>1 DEF Path, Below
    <3>4. p # nextExec
      BY <1>3, <3>3 DEF Open, NoExec
    <3>5. p # l
      BY <1>2, <3>3, BoundsAssumption DEF InvId
    <3> QED
      BY <1>4, <3>2, <3>3, <3>4, <3>5 DEF Open
  <2> QED
    BY <2>1, <2>2
<1>11. OnPath'
  <2> DEFINE x == exec[l].inv
  <2>1. x \in InvId /\ x < nextInv
    BY <1>1, <1>2 DEF Numbered, TypeOK, ExecRow
  <2>2. \A j \in Enclosing(x) : j \in InvId /\ j # nextInv
    BY <1>1, <1>3, <2>1, EnclosingOlder, EnclosingClosed, BoundsAssumption DEF TypeOK, InvId
  <2>3. \A f \in ExecId : f < nextExec => exec'[f].inv = exec[f].inv
    BY <1>1, <1>4, BoundsAssumption DEF TypeOK
  <2>4. \A k : k = x => Enclosing(k)' = Enclosing(k)
    BY <1>1, <1>5, <2>1, <2>2, <2>3, EnclosingKept
  <2>5. \A k : k = nextInv => Enclosing(k)' = {k} \union Enclosing(x)
    <3> SUFFICES ASSUME NEW k, k = nextInv PROVE Enclosing(k)' = {k} \union Enclosing(x)
      OBVIOUS
    <3>1. inv'[k].parent # 0 /\ k \in InvId
      BY <1>3, <1>5, BoundsAssumption DEF ExecId
    <3>2. Up(k)' = x
      BY <1>4, <1>5 DEF Up
    <3>3. Enclosing(Up(k))' = Enclosing(x)
      BY <2>4, <3>2
    <3> QED
      BY <1>1, <3>1, <3>3, EnclosingStepNext
  <2>6. \A j \in InvId : inv[j].status = "running" <=> j \in Enclosing(x)
    BY <1>1, <1>2, <2>1 DEF Path, OnPath
  <2>7. \A j \in InvId : inv'[j].status = "running" <=> j = nextInv \/ j \in Enclosing(x)
    BY <1>3, <1>5, <2>6 DEF NoInv
  <2> QED
    BY <1>4, <1>7, <2>5, <2>7 DEF OnPath
<1>12. Tips' /\ Ended' /\ Stands'
  <2>1. run'.status = "running" /\ run'.envError = run.envError /\ ~run.envError
    BY <1>1, <1>2, <1>8 DEF KeepRun, Stands
  <2> QED
    BY <1>1, <1>7, <2>1 DEF Tips, Ended, Stands, Going
<1> QED
  BY <1>9, <1>10, <1>11, <1>12 DEF PathOK, Path

\* What Retry finds to repeat is the execution inserted last.
LEMMA TargetIsLatest ==
  ASSUME TypeOK, BlankRows, Numbered, Tips, run.status = "failed",
         NEW t \in ExecId, IsRetryTarget(t)
  PROVE  t = Latest
<1>1. t \in Retryable /\ t < nextExec /\ t <= Latest
  BY Older DEF IsRetryTarget, Retryable
<1>2. HasRoot
  BY <1>1, BoundsAssumption DEF Numbered, ExecId
<1>3. Latest \in Retryable
  BY <1>2 DEF Tips
<1>4. Latest <= t /\ Latest \in Nat /\ t \in Nat
  BY <1>1, <1>3, Older, BoundsAssumption DEF IsRetryTarget, ExecId
<1> QED
  BY <1>1, <1>4

LEMMA RepeatsPath ==
  ASSUME CInv, CInv', Numbered, Numbered', PathOK, Asked,
         NEW c \in Clients, NEW t \in ExecId, Repeats(c, t)
  PROVE  PathOK'
<1>1. /\ TypeOK /\ TypeOK' /\ BlankRows /\ AtMostOneLeaf /\ Path /\ run.status = "failed"
      /\ run'.status = "running" /\ ~run'.envError /\ Going /\ inv' = inv
  BY DEF CInv, IInv, Repeats, PathOK
<1>2. t = Latest /\ Standing /\ t < nextExec
  <2>1. CASE IsRetryTarget(t)
    <3>1. t = Latest /\ t < nextExec
      BY <1>1, <2>1, TargetIsLatest, Older DEF Path
    <3>2. HasRoot
      BY <3>1, BoundsAssumption DEF Numbered, ExecId
    <3> QED
      BY <1>1, <3>1, <3>2 DEF Standing
  <2>2. CASE ctl[c].phase = "observe" /\ t = ctl[c].target
    <3>1. t = Latest /\ t < nextExec
      BY <1>1, <2>2, Older DEF Asked
    <3>2. HasRoot
      BY <3>1, BoundsAssumption DEF Numbered, ExecId
    <3> QED
      BY <1>1, <3>1, <3>2 DEF Standing
  <2> QED
    BY <2>1, <2>2 DEF Repeats
<1>3. Leaves = {}
  BY <1>1 DEF AtMostOneLeaf
<1>4. nextExec \in ExecId /\ exec[nextExec] = NoExec
  BY <1>1, NextBlank DEF Repeats
<1>5. /\ exec'[nextExec].status = "running" /\ exec'[nextExec].child = 0
      /\ exec'[nextExec].inv = exec[t].inv /\ nextExec' = nextExec + 1
      /\ \A f \in ExecId : f # nextExec =>
           /\ exec'[f].status = exec[f].status /\ exec'[f].child = exec[f].child
           /\ exec'[f].inv = exec[f].inv
  BY DEF Repeats, KeepBut, Keep, KeepRest
<1>6. \A f \in ExecId : Open(f)' <=> Open(f) \/ f = nextExec
  BY <1>5 DEF Open
<1>7. Leaves' = {nextExec} /\ Latest' = nextExec
  <2>1. \A f \in ExecId : Open(f)' /\ exec'[f].child = 0 <=> f = nextExec
    BY <1>3, <1>5, <1>6 DEF Leaves
  <2>2. Latest' = nextExec
    BY <1>1, <1>5, BoundsAssumption DEF Latest, TypeOK
  <2> QED
    BY <1>4, <2>1, <2>2 DEF Leaves
<1>8. Above'
  BY <1>1, <1>5, <1>6 DEF Path, Above
<1>9. Below'
  <2> SUFFICES ASSUME NEW i \in InvId, inv[i].status = "running", inv[i].parent # 0,
                      NEW p, p = inv[i].parent
               PROVE  exec'[p].status \in {"running", "waiting"} /\ exec'[p].child = i
    BY <1>1 DEF Below, Open
  <2>1. p \in ExecId /\ Open(p) /\ exec[p].child = i
    BY <1>1, UpType DEF Path, Below
  <2>2. p # nextExec
    BY <1>4, <2>1 DEF Open, NoExec
  <2> QED
    BY <1>5, <2>1, <2>2 DEF Open
<1>10. OnPath'
  <2> DEFINE x == exec[t].inv
  <2>1. x \in InvId
    BY <1>1 DEF TypeOK, ExecRow
  <2>2. \A f \in ExecId : f < nextExec => exec'[f].inv = exec[f].inv
    BY <1>1, <1>5, BoundsAssumption DEF TypeOK
  <2>3. \A k : k = x => Enclosing(k)' = Enclosing(k)
    BY <1>1, <2>1, <2>2, EnclosingKept
  <2>4. \A j \in InvId : inv[j].status = "running" <=> j \in Enclosing(x)
    BY <1>1, <1>2, <2>1 DEF Path, OnPath
  <2> QED
    BY <1>1, <1>5, <1>7, <2>3, <2>4 DEF OnPath
<1>11. Tips' /\ Ended' /\ Stands'
  BY <1>1, <1>7 DEF Tips, Ended, Stands, Going
<1> QED
  BY <1>8, <1>9, <1>10, <1>11 DEF PathOK, Path

-----------------------------------------------------------------------------
(* The path of a run that routes: what is stepped out of is the part of it  *)
(* from the leaf up to top.                                                 *)

LEMMA ChainOlder ==
  ASSUME TypeOK, BlankRows, Numbered, NEW f \in ExecId, f < nextExec, NEW g \in Chain(f)
  PROVE  g <= f
<1>1. CASE g = f
  BY <1>1, BoundsAssumption DEF ExecId
<1>2. CASE g # f
  <2>1. PICK i \in Enclosing(exec[f].inv) : inv[i].parent = g
    BY <1>2 DEF Chain
  <2>2. exec[f].inv \in InvId /\ inv[exec[f].inv].parent < f
    BY DEF Numbered, TypeOK, ExecRow
  <2>3. i \in InvId /\ (i = exec[f].inv \/ inv[i].parent < inv[exec[f].inv].parent)
    BY <2>2, Older, EnclosingOrder, EnclosingClosed
  <2>4. inv[i].parent \in Nat /\ inv[exec[f].inv].parent \in Nat /\ f \in Nat
    BY <2>2, <2>3, UpType, BoundsAssumption DEF ExecId
  <2> QED
    BY <2>1, <2>2, <2>3, <2>4
<1> QED
  BY <1>1, <1>2

\* On a path, an execution stepped out of is one not older than top, and a graph that
\* stays is one entered before it.
LEMMA StepsOut ==
  ASSUME TypeOK, BlankRows, Numbered, NEW e \in ExecId, e < nextExec,
         NEW top \in ExecId, top \in Chain(e)
  PROVE  /\ top <= e
         /\ Enclosing(exec[top].inv) \subseteq Enclosing(exec[e].inv)
         /\ \A f \in Chain(e) : f \in Stepped(e, top) <=> top <= f
         /\ \A i \in Enclosing(exec[e].inv) :
              i \in Enclosing(exec[top].inv) <=> inv[i].parent < top
<1> DEFINE at(f) == exec[f].inv
<1>1. Rising /\ at(e) \in InvId /\ at(top) \in InvId /\ top \in Nat /\ e \in Nat
  <2>1. Rising
    BY Older
  <2>2. at(e) \in InvId /\ at(top) \in InvId
    BY DEF TypeOK, ExecRow
  <2>3. top \in Nat /\ e \in Nat
    BY BoundsAssumption DEF ExecId
  <2> QED
    BY <2>1, <2>2, <2>3
<1>2. top <= e
  BY ChainOlder
<1>3. ASSUME NEW f \in Chain(e), f # e
      PROVE  \E j \in Enclosing(at(e)) : j \in InvId /\ inv[j].parent = f /\ Up(j) = at(f)
                                          /\ inv[j].parent # 0
  BY <1>1, <1>3, EnclosingClosed, BoundsAssumption DEF Chain, Up, ExecId
<1>4. Enclosing(at(top)) \subseteq Enclosing(at(e))
  <2>1. CASE top = e
    BY <2>1
  <2>2. CASE top # e
    <3>1. PICK j \in Enclosing(at(e)) : j \in InvId /\ Up(j) = at(top) /\ inv[j].parent # 0
      BY <1>3, <2>2
    <3>2. at(top) \in Enclosing(at(e))
      BY <1>1, <3>1, EnclosingClosed DEF ClosedUpwards, Up
    <3> QED
      BY <1>1, <3>2, EnclosingNests
  <2> QED
    BY <2>1, <2>2
<1>5. ASSUME NEW i \in Enclosing(at(e))
      PROVE  i \in Enclosing(at(top)) <=> inv[i].parent < top
  <2>1. CASE top = e
    <3>1. i \in InvId /\ inv[at(e)].parent < e
      BY <1>1, EnclosingClosed DEF Numbered
    <3>2. i = at(e) \/ inv[i].parent < inv[at(e)].parent
      BY <1>1, EnclosingOrder
    <3>3. inv[i].parent \in Nat /\ inv[at(e)].parent \in Nat
      BY <1>1, <3>1, UpType
    <3> QED
      BY <1>1, <2>1, <3>1, <3>2, <3>3
  <2>2. CASE top # e
    <3>1. PICK j \in Enclosing(at(e)) : /\ j \in InvId /\ inv[j].parent = top
                                        /\ Up(j) = at(top) /\ inv[j].parent # 0
      BY <1>3, <2>2
    <3>2. i \in Enclosing(Up(j)) <=> inv[i].parent < inv[j].parent
      BY <1>1, <3>1, EnclosingSplit
    <3> QED
      BY <3>1, <3>2
  <2> QED
    BY <2>1, <2>2
<1>6. ASSUME NEW f \in Chain(e)
      PROVE  top \in Chain(f) <=> top <= f
  <2>1. f \in ExecId /\ f \in Nat
    BY BoundsAssumption DEF Chain, ExecId
  <2>2. f <= e /\ f < nextExec
    BY <1>1, <2>1, ChainOlder, BoundsAssumption DEF TypeOK
  <2>3. top \in Chain(f) => top <= f
    BY <2>1, <2>2, ChainOlder
  <2>4. ASSUME top < f
        PROVE  top \in Chain(f)
    <3>1. top # e
      BY <1>1, <2>1, <2>2, <2>4
    <3>2. PICK m \in Enclosing(at(e)) : m \in InvId /\ inv[m].parent = top
      BY <1>3, <3>1
    <3>3. m \in Enclosing(at(f))
      <4>1. CASE f = e
        BY <4>1
      <4>2. CASE f # e
        <5>1. PICK j \in Enclosing(at(e)) : /\ j \in InvId /\ inv[j].parent = f
                                            /\ Up(j) = at(f) /\ inv[j].parent # 0
          BY <1>3, <4>2
        <5> QED
          BY <1>1, <2>4, <3>2, <5>1, EnclosingSplit
      <4> QED
        BY <4>1, <4>2
    <3> QED
      BY <3>2, <3>3 DEF Chain
  <2>5. top = f => top \in Chain(f)
    BY DEF Chain
  <2> QED
    BY <1>1, <2>1, <2>3, <2>4, <2>5
<1> QED
  BY <1>2, <1>4, <1>5, <1>6 DEF Stepped

\* What is open is the chain of where the run stands.
LEMMA OpenChain ==
  ASSUME TypeOK, AtMostOneLeaf, BlankRows, Numbered, Path, Standing, NEW l \in ExecId, l = Latest
  PROVE  \A f \in ExecId : f # l => (Open(f) <=> f \in Chain(l))
<1> DEFINE x == exec[l].inv
<1>1. x \in InvId
  BY DEF TypeOK, ExecRow
<1>2. \A f \in ExecId : Open(f) /\ f # l => exec[f].child # 0
  BY LeafIsLatest DEF Leaves, Path
<1>3. \A j \in InvId : inv[j].status = "running" <=> j \in Enclosing(x)
  BY <1>1 DEF Path, OnPath
<1>4. ASSUME NEW f \in ExecId, Open(f), f # l
      PROVE  f \in Chain(l)
  <2>1. inv[exec[f].child] = [status |-> "running", parent |-> f] /\ exec[f].child # 0
    BY <1>2, <1>4 DEF Path, Above
  <2>2. exec[f].child \in InvId
    BY <2>1, BoundsAssumption DEF TypeOK, ExecRow, InvId
  <2> QED
    BY <1>3, <2>1, <2>2 DEF Chain
<1>5. ASSUME NEW f \in ExecId, f \in Chain(l), f # l
      PROVE  Open(f)
  <2>1. PICK i \in Enclosing(x) : inv[i].parent = f
    BY <1>5 DEF Chain
  <2>2. i \in InvId /\ f # 0
    BY <1>1, EnclosingClosed, BoundsAssumption DEF ExecId
  <2> QED
    BY <1>3, <2>1, <2>2 DEF Path, Below
<1> QED
  BY <1>4, <1>5

LEMMA RoutesPath ==
  ASSUME CInv, CInv', Numbered, Numbered', PathOK, NEW e \in ExecId, NEW top \in ExecId,
         Routes(e, top)
  PROVE  PathOK'
<1> DEFINE x == exec[e].inv
           y == exec[top].inv
           n == nextExec
<1>1. /\ TypeOK /\ TypeOK' /\ BlankRows /\ AtMostOneLeaf /\ Path /\ Stands
      /\ e \in Leaves /\ Active /\ top \in Chain(e) /\ Going /\ RouteFacts(e, top)
  BY RoutesDo DEF CInv, IInv, Routes, PathOK
<1>2. /\ e = Latest /\ Open(e) /\ exec[e].child = 0 /\ e < nextExec /\ HasRoot /\ Standing
      /\ \A f \in ExecId : Open(f) /\ f # e => exec[f].child # 0
  BY <1>1, TheLeaf
<1>3. x \in InvId /\ y \in InvId /\ e \in Nat /\ top \in Nat
  <2>1. x \in InvId /\ y \in InvId
    BY <1>1 DEF TypeOK, ExecRow
  <2>2. e \in Nat /\ top \in Nat
    BY BoundsAssumption DEF ExecId
  <2> QED
    BY <2>1, <2>2
<1>4. \A j \in InvId : inv[j].status = "running" <=> j \in Enclosing(x)
  BY <1>1, <1>2, <1>3 DEF Path, OnPath
<1>5. /\ top <= e /\ Enclosing(y) \subseteq Enclosing(x)
      /\ \A f \in Chain(e) : f \in Stepped(e, top) <=> top <= f
      /\ \A i \in Enclosing(x) : i \in Enclosing(y) <=> inv[i].parent < top
  BY <1>1, <1>2, StepsOut
<1>6. \A f \in ExecId : Open(f) <=> f \in Chain(e)
  <2>1. e \in Chain(e)
    BY DEF Chain
  <2> QED
    BY <1>1, <1>2, <2>1, OpenChain
<1>7. ~run.envError /\ ~run'.envError
  BY <1>1, <1>2 DEF Stands, RouteFacts
\* What stays open is older than top; the graphs that stay are those top is in.
<1>8. \A f \in ExecId : Open(f) /\ f \notin Stepped(e, top) <=> Open(f) /\ f < top
  BY <1>3, <1>5, <1>6, BoundsAssumption DEF ExecId
<1>9. ASSUME NEW i \in InvId
      PROVE  inv[i].status = "running" /\ i \notin Left(e, top) <=> i \in Enclosing(y)
  <2>1. i \in Enclosing(y) => inv[i].status = "running"
    BY <1>4, <1>5
  <2>2. CASE inv[i].status # "running"
    BY <2>1, <2>2
  <2>3. CASE inv[i].status = "running" /\ inv[i].parent = 0
    <3>1. i \in Enclosing(y)
      BY <1>3, <1>4, <1>5, <2>3, BoundsAssumption DEF ExecId
    <3>2. i \notin Left(e, top)
      BY <2>3, BoundsAssumption DEF Left, Stepped, Chain, ExecId
    <3> QED
      BY <2>3, <3>1, <3>2
  <2>4. CASE inv[i].status = "running" /\ inv[i].parent # 0
    <3>1. inv[i].parent \in ExecId /\ inv[i].parent \in Nat
      BY <1>1, <2>4, UpType
    <3>2. inv[i].parent \in Chain(e)
      BY <1>4, <2>4, <3>1 DEF Chain
    <3>3. i \in Left(e, top) <=> top <= inv[i].parent
      BY <1>5, <2>4, <3>2 DEF Left
    <3> QED
      BY <1>3, <1>4, <1>5, <2>4, <3>1, <3>3
  <2> QED
    BY <2>2, <2>3, <2>4
<1>10. CASE Inserted(y) /\ run'.status = "running" /\ Closed(Left(e, top))
  <2>1. /\ n \in ExecId /\ exec[n] = NoExec /\ nextExec' = n + 1 /\ nextExec' # n
        /\ exec'[n].status = "running" /\ exec'[n].child = 0 /\ exec'[n].inv = y
    BY <1>1, <1>10, NextBlank DEF Inserted, TypeOK
  <2>2. /\ \A f \in ExecId : f # n => /\ exec'[f].child = exec[f].child /\ exec'[f].inv = exec[f].inv
                                      /\ Open(f)' <=> Open(f) /\ f < top
        /\ \A f \in ExecId : f = n => Open(f)'
    <3>1. \A f \in ExecId : f # n =>
            /\ exec'[f].child = exec[f].child /\ exec'[f].inv = exec[f].inv
            /\ exec'[f].status = IF f \in Stepped(e, top) THEN "completed" ELSE exec[f].status
      BY <1>1, <2>1 DEF RouteFacts, KeepRest
    <3>2. ASSUME NEW f \in ExecId, f # n
          PROVE  Open(f)' <=> Open(f) /\ f \notin Stepped(e, top)
      <4>1. CASE f \in Stepped(e, top)
        BY <3>1, <3>2, <4>1 DEF Open
      <4>2. CASE f \notin Stepped(e, top)
        BY <3>1, <3>2, <4>2 DEF Open
      <4> QED
        BY <4>1, <4>2
    <3>3. \A f \in ExecId : f = n => Open(f)'
      BY <2>1 DEF Open
    <3> QED
      BY <1>8, <3>1, <3>2, <3>3
  <2>3. Leaves' = {n} /\ Latest' = n
    <3>1. \A f \in ExecId : f < top => f # e
      BY <1>3, <1>5, BoundsAssumption DEF ExecId
    <3>2. ASSUME NEW f \in ExecId, f # n
          PROVE  ~(Open(f)' /\ exec'[f].child = 0)
      BY <1>2, <2>2, <3>1, <3>2
    <3>4. \A f \in ExecId : Open(f)' /\ exec'[f].child = 0 <=> f = n
      BY <2>1, <2>2, <3>2
    <3>3. Latest' = n
      BY <1>1, <2>1, BoundsAssumption DEF Latest, TypeOK
    <3> QED
      BY <2>1, <3>3, <3>4 DEF Leaves
  <2>4. \A i \in InvId : /\ inv'[i].parent = inv[i].parent
                         /\ inv'[i].status = "running" <=> i \in Enclosing(y)
    BY <1>1, <1>9, <1>10 DEF RouteFacts, Closed
  <2>5. Above'
    <3> SUFFICES ASSUME NEW f \in ExecId, Open(f)', exec'[f].child # 0,
                        NEW i, i = exec'[f].child
                 PROVE  inv'[i] = [status |-> "running", parent |-> f]
      BY DEF Above
    <3>1. f # n
      BY <2>1
    <3>2. Open(f) /\ f < top /\ i = exec[f].child /\ i # 0
      BY <2>2, <3>1
    <3>3. inv[i] = [status |-> "running", parent |-> f]
      BY <1>1, <3>2 DEF Path, Above
    <3>4. i \in InvId
      <4>1. exec[f].child \in 0..MaxInv
        BY <1>1 DEF TypeOK, ExecRow
      <4> QED
        BY <3>2, <4>1, BoundsAssumption DEF InvId
    <3>5. i \in Enclosing(y)
      BY <1>4, <1>5, <3>2, <3>3, <3>4
    <3>6. inv'[i] \in InvRow /\ inv'[i].parent = f /\ inv'[i].status = "running"
      BY <1>1, <2>4, <3>3, <3>4, <3>5 DEF TypeOK
    <3> QED
      BY <3>6 DEF InvRow
  <2>6. Below'
    <3> SUFFICES ASSUME NEW i \in InvId, inv'[i].status = "running", inv'[i].parent # 0,
                        NEW p, p = inv'[i].parent
                 PROVE  exec'[p].status \in {"running", "waiting"} /\ exec'[p].child = i
      BY DEF Below, Open
    <3>1. i \in Enclosing(y) /\ p = inv[i].parent /\ p # 0
      BY <2>4
    <3>2. p \in ExecId /\ p < top /\ inv[i].status = "running"
      BY <1>1, <1>4, <1>5, <3>1, UpType
    <3>3. Open(p) /\ exec[p].child = i
      BY <1>1, <3>1, <3>2 DEF Path, Below
    <3>4. p # n
      BY <2>1, <3>3 DEF Open, NoExec
    <3> QED
      BY <2>2, <3>2, <3>3, <3>4 DEF Open
  <2>7. OnPath'
    <3>1. \A f \in ExecId : f < nextExec => exec'[f].inv = exec[f].inv
      BY <1>1, <2>2, BoundsAssumption DEF TypeOK
    <3>2. \A k : k = y => Enclosing(k)' = Enclosing(k)
      BY <1>1, <1>3, <2>4, <3>1, EnclosingKept, EnclosingClosed
    <3> QED
      BY <2>1, <2>3, <2>4, <3>2 DEF OnPath
  <2>8. Tips' /\ Ended' /\ Stands'
    BY <1>1, <1>7, <1>10, <2>3 DEF Tips, Ended, Stands, Going
  <2> QED
    BY <2>5, <2>6, <2>7, <2>8 DEF PathOK, Path
<1>11. CASE /\ nextExec' = nextExec /\ inv[y].parent = 0
            /\ run'.status = "completed" /\ Closed(Left(e, top) \union {y})
  <2>1. Enclosing(y) = {y}
    BY <1>1, <1>3, <1>11, EnclosingStep
  <2>2. \A i \in InvId : inv'[i].status # "running"
    BY <1>9, <1>11, <2>1 DEF Closed
  <2>3. \A f \in ExecId : ~Open(f)'
    <3> SUFFICES ASSUME NEW f \in ExecId, Open(f), f < top PROVE FALSE
      BY <1>1, <1>8, <1>11 DEF RouteFacts, Open
    <3>1. f # e /\ f \in Chain(e) /\ f # 0
      BY <1>3, <1>5, <1>6, BoundsAssumption DEF ExecId
    <3>2. PICK i \in Enclosing(x) : inv[i].parent = f
      BY <3>1 DEF Chain
    <3>3. i = y
      BY <1>5, <2>1, <3>2
    <3> QED
      BY <1>11, <3>1, <3>2, <3>3
  <2>4. Leaves' = {}
    BY <2>3 DEF Leaves
  <2>5. Above' /\ Below'
    BY <2>2, <2>3 DEF Above, Below
  <2>6. OnPath' /\ Tips' /\ Ended' /\ Stands'
    BY <1>7, <1>11, <2>2, <2>3, <2>4 DEF OnPath, Standing, Tips, Ended, Stands
  <2> QED
    BY <2>5, <2>6 DEF PathOK, Path
<1> QED
  BY <1>1, <1>10, <1>11 DEF RouteFacts

-----------------------------------------------------------------------------
(* Every step keeps the path, and what a lone Retry request read.           *)

LEMMA StepPath ==
  ASSUME CInv, CInv', Numbered, Numbered', PathOK, Asked, Shape
  PROVE  PathOK'
<1>1. CASE Stays \/ \E e \in ExecId : Saves(e)
  BY <1>1, QuietPath
<1>2. CASE Shifts
  BY <1>2, ShiftsPath
<1>3. CASE Roots
  BY <1>3, RootsPath
<1>4. CASE Cancels
  BY <1>4, CancelsPath
<1>5. CASE \E e \in ExecId : Closes(e)
  BY <1>5, ClosesPath
<1>6. CASE \E e \in ExecId : Parks(e)
  BY <1>6, ParksPath
<1>7. CASE \E e \in ExecId : Enters(e)
  BY <1>7, EntersPath
<1>8. CASE \E e \in ExecId, top \in ExecId : Routes(e, top)
  BY <1>8, RoutesPath
<1>9. CASE \E c \in Clients, t \in ExecId : Repeats(c, t)
  BY <1>9, RepeatsPath
<1> QED
  BY <1>1, <1>2, <1>3, <1>4, <1>5, <1>6, <1>7, <1>8, <1>9 DEF Shape

\* How a request comes to hold what it holds.
LEMMA RequestStep ==
  ASSUME TypeOK, [Next]_vars, NEW c \in Clients
  PROVE  \/ ctl'[c] = ctl[c]
         \/ ctl'[c].phase \in {"idle", "resume"}
         \/ /\ ctl'[c].phase = "retry" /\ run.status = "failed" /\ UNCHANGED rows
            /\ ctl'[c].preparing <=> run.envError \/ ~HasRoot
         \/ /\ ctl'[c].phase = "observe" /\ ctl[c].phase = "retry" /\ UNCHANGED rows
            /\ ctl'[c].target \in ExecId /\ IsRetryTarget(ctl'[c].target)
<1>1. CASE Prepare \/ Drive \/ Outside \/ UNCHANGED vars
  BY <1>1 DEF Prepare, Place, PlaceFails, LoadRoot, EnterRoot, LoadRootFails,
              Drive, DriveOn, Step, Loaded, LoadFails, FnReturns, FnFails, CaptureDone,
              CaptureFails, Checked, ReplyRead,
              Outside, TurnEdge, HeadlessSettled, Trigger, vars, memory
<1>2. CASE Pause \/ Cancel \/ Dismiss \/ SurfaceDeleted \/ \E e \in ExecId : Advance(e)
  BY <1>2 DEF Pause, Cancel, Dismiss, SurfaceDeleted, Advance, memory
<1>3. CASE Restart
  BY <1>3 DEF Restart, NoReq
<1>4. ASSUME NEW d \in Clients, d # c, Ask(d)
      PROVE  ctl'[c] = ctl[c]
  BY <1>4 DEF Ask, ResumeAsk, RetryAsk, Refused, ResumeCommit, RetryPreparation,
              RetryReloaded, RetryObserved, RetryExecution, Done, TypeOK
<1>5. CASE Done(c)
  BY <1>5 DEF Done, NoReq, TypeOK
<1>6. CASE ResumeAsk(c)
  BY <1>6 DEF ResumeAsk, TypeOK, Request
<1>7. CASE RetryAsk(c)
  BY <1>7 DEF RetryAsk, TypeOK, Request
<1>8. CASE RetryReloaded(c) /\ ~Done(c)
  <2>1. PICK t \in Retryable, b \in Builds :
          /\ IsRetryTarget(t) /\ UNCHANGED rows
          /\ ctl' = [ctl EXCEPT ![c].phase = "observe", ![c].target = t, ![c].build = b]
    BY <1>8 DEF RetryReloaded, RetryExecution
  <2>2. ctl'[c].phase = "observe" /\ ctl'[c].target = t
    BY <2>1 DEF TypeOK, Request
  <2> QED
    BY <1>8, <2>1, <2>2 DEF Retryable, RetryReloaded
<1>9. Ask(c) => \/ Done(c) \/ ResumeAsk(c) \/ RetryAsk(c) \/ (RetryReloaded(c) /\ ~Done(c))
  BY DEF Ask, Refused, ResumeCommit, RetryPreparation, RetryReloaded, RetryObserved,
         RetryExecution
<1> QED
  BY <1>1, <1>2, <1>3, <1>4, <1>5, <1>6, <1>7, <1>8, <1>9 DEF Next, Control

\* No two Resume or Retry requests are in flight at once.
OneRequest == \A c, d \in Clients : c = d

LEMMA AskedKept ==
  ASSUME OneRequest, CInv, Numbered, PathOK, Asked, [Next]_vars
  PROVE  Asked'
<1> SUFFICES ASSUME NEW c \in Clients, ctl'[c].phase \in {"retry", "observe"}
             PROVE  /\ run'.status \in {"failed", "cancelled"}
                    /\ ctl'[c].phase = "retry" /\ ctl'[c].preparing /\ run'.status = "failed"
                         => ~HasRoot'
                    /\ ctl'[c].phase = "observe" /\ run'.status = "failed" =>
                         ctl'[c].target = Latest'
  BY DEF Asked
<1>1. TypeOK /\ BlankRows /\ Tips /\ Shape /\ Stands
  BY StepShape DEF CInv, IInv, PathOK, Path
<1>2. CASE /\ ctl'[c].phase = "retry" /\ run.status = "failed" /\ UNCHANGED rows
           /\ ctl'[c].preparing <=> run.envError \/ ~HasRoot
  <2>1. run' = run /\ (HasRoot' <=> HasRoot)
    BY <1>2 DEF rows, tree, HasRoot
  <2> QED
    BY <1>1, <1>2, <2>1 DEF Stands
<1>3. CASE /\ ctl'[c].phase = "observe" /\ ctl[c].phase = "retry" /\ UNCHANGED rows
           /\ ctl'[c].target \in ExecId /\ IsRetryTarget(ctl'[c].target)
  <2>1. run' = run /\ Latest' = Latest
    BY <1>3 DEF rows, tree, Latest
  <2>2. run.status \in {"failed", "cancelled"}
    BY <1>3 DEF Asked
  <2>3. run.status = "failed" => ctl'[c].target = Latest
    BY <1>1, <1>3, TargetIsLatest
  <2> QED
    BY <1>3, <2>1, <2>2, <2>3
<1>4. CASE ctl'[c] = ctl[c]
  <2>1. /\ run.status \in {"failed", "cancelled"}
        /\ ctl[c].phase = "retry" /\ ctl[c].preparing /\ run.status = "failed" => ~HasRoot
        /\ ctl[c].phase = "observe" /\ run.status = "failed" => ctl[c].target = Latest
    BY <1>4 DEF Asked
  <2>2. ~Active /\ run.status \notin {"preparing", "paused"}
    BY <2>1 DEF Active, ActiveStatuses
  <2>3. \A d \in Clients : ctl'[d].phase # "idle"
    BY <1>4 DEF OneRequest
  <2>4. \/ run'.status = run.status /\ KeepTree
        \/ run'.status = "cancelled"
    BY <1>1, <2>2, <2>3 DEF Shape, Stays, KeepRun, Shifts, Saves, Closes, Routes, Parks,
                            Enters, Roots, Repeats, Cancels
  <2>5. KeepTree => Latest' = Latest /\ (HasRoot' <=> HasRoot)
    BY DEF KeepTree, Latest, HasRoot
  <2> QED
    BY <1>4, <2>1, <2>4, <2>5
<1> QED
  BY <1>2, <1>3, <1>4, RequestStep, <1>1

-----------------------------------------------------------------------------
(* What the status of a run says is true of it.                             *)

LEMMA InitP == Init => PInv
<1> SUFFICES ASSUME Init PROVE PInv
  OBVIOUS
<1>1. /\ CInv /\ nextExec = 1 /\ nextInv = 1 /\ run.status = "preparing" /\ ~run.envError
      /\ \A e \in ExecId : exec[e].status = "absent" /\ exec[e].retryOf = 0
      /\ \A i \in InvId : inv[i] = NoInv
  <2>1. \A e \in ExecId : exec[e] = NoExec
    BY DEF Init
  <2>2. CInv
    BY InitC
  <2>3. nextExec = 1 /\ nextInv = 1 /\ \A i \in InvId : inv[i] = NoInv
    BY DEF Init
  <2>4. run.status = "preparing" /\ ~run.envError
    BY DEF Init
  <2> QED
    BY <2>1, <2>2, <2>3, <2>4 DEF NoExec
<1>2. \A i \in InvId : i > 0 /\ inv[i].status = "absent"
  BY <1>1, BoundsAssumption DEF InvId, NoInv
<1>3. \A e \in ExecId : e > 0 /\ ~Open(e) /\ ~(e < 1)
  BY <1>1, BoundsAssumption DEF ExecId, Open
<1>4. Leaves = {} /\ ~HasRoot
  BY <1>2, <1>3 DEF Leaves, HasRoot
<1>5. Numbered
  <2>1. \A i \in InvId : ~(i < nextInv)
    BY <1>1, BoundsAssumption DEF InvId
  <2> QED
    BY <1>1, <1>3, <1>4, <2>1 DEF Numbered
<1>6. Path
  BY <1>1, <1>2, <1>3, <1>4 DEF Path, Above, Below, Tips, OnPath, Standing, Ended
<1>7. Stands
  BY <1>1, <1>4 DEF Stands
<1>8. Asked
  BY DEF Init, NoReq, Asked
<1> QED
  BY <1>1, <1>5, <1>6, <1>7, <1>8 DEF PInv

LEMMA NextP == OneRequest /\ PInv /\ [Next]_vars => PInv'
<1> SUFFICES ASSUME OneRequest, PInv, [Next]_vars PROVE PInv'
  OBVIOUS
<1>1. CInv /\ CInv' /\ Numbered /\ PathOK /\ Asked /\ Tips /\ Shape
  BY NextC, StepShape DEF PInv, PathOK, Path
<1>2. Numbered'
  BY <1>1, StepNumbered
<1>3. PathOK'
  BY <1>1, <1>2, StepPath
<1>4. Asked'
  BY <1>1, AskedKept
<1> QED
  BY <1>1, <1>2, <1>3, <1>4 DEF PInv, PathOK

LEMMA InvarianceP ==
  ASSUME OneRequest
  PROVE  Spec => []PInv
<1>1. PInv /\ [Next]_vars => PInv'
  BY NextP
<1> QED
  BY <1>1, InitP, PTL DEF Spec

\* Where the run stands is the execution inserted last.
LEMMA StandsOnLatest ==
  ASSUME PInv, Standing
  PROVE  /\ Latest \in ExecId
         /\ Leaves # {} => Leaf = Latest
         /\ Leaves = {} => /\ IsRetryTarget(Latest)
                           /\ \A e \in ExecId : IsRetryTarget(e) => e = Latest
<1>1. TypeOK /\ AtMostOneLeaf /\ BlankRows /\ Numbered /\ Tips
  BY DEF PInv, CInv, IInv, Path
<1>2. Latest \in ExecId
  BY <1>1, StandingRoot
<1>3. Leaves # {} => Leaf = Latest
  BY <1>1, LeafIsLeaf, LeafIsLatest
<1>4. ASSUME Leaves = {}
      PROVE  /\ IsRetryTarget(Latest)
             /\ \A e \in ExecId : IsRetryTarget(e) => e = Latest
  <2>1. run.status = "failed" /\ Latest \in Retryable
    BY <1>1, <1>4 DEF Standing, Tips
  <2>2. \A f \in Retryable : f <= Latest
    BY <1>1, Older DEF Retryable
  <2> QED
    BY <1>1, <2>1, <2>2, TargetIsLatest DEF IsRetryTarget
<1> QED
  BY <1>2, <1>3, <1>4

LEMMA PathIsOne ==
  ASSUME PInv
  PROVE  OnePath
<1>1. TypeOK /\ AtMostOneLeaf /\ BlankRows /\ Numbered /\ Path
  BY DEF PInv, CInv, IInv
<1>2. \A e \in ExecId : Open(e) =>
        exec[e].child = 0 \/ inv[exec[e].child] = [status |-> "running", parent |-> e]
  BY <1>1 DEF Path, Above
<1>3. run.status \in {"completed", "cancelled"} =>
        /\ \A e \in ExecId : ~Open(e)
        /\ \A i \in InvId : inv[i].status # "running"
  BY <1>1 DEF Path, Ended
<1>4. ASSUME Standing, NEW tip,
             tip = IF Leaves # {} THEN Leaf ELSE CHOOSE e \in Retryable : IsRetryTarget(e)
      PROVE  /\ Leaves # {} \/ Retryable # {}
             /\ \A f \in ExecId : Open(f) => f \in Chain(tip)
             /\ \A f \in Chain(tip) \ {tip} : Open(f)
             /\ {i \in InvId : inv[i].status = "running"} = Enclosing(exec[tip].inv)
  <2>1. /\ Latest \in ExecId
        /\ Leaves # {} => Leaf = Latest
        /\ Leaves = {} => /\ IsRetryTarget(Latest)
                          /\ \A e \in ExecId : IsRetryTarget(e) => e = Latest
    BY <1>4, StandsOnLatest
  <2>2. tip = Latest
    <3>1. CASE Leaves = {}
      <4>1. (CHOOSE e \in Retryable : IsRetryTarget(e)) \in Retryable
            /\ IsRetryTarget(CHOOSE e \in Retryable : IsRetryTarget(e))
        BY <2>1, <3>1 DEF IsRetryTarget
      <4> QED
        BY <1>4, <2>1, <3>1, <4>1 DEF Retryable
    <3>2. CASE Leaves # {}
      BY <1>4, <2>1, <3>2
    <3> QED
      BY <3>1, <3>2
  <2>3. Leaves # {} \/ Retryable # {}
    BY <2>1 DEF IsRetryTarget
  <2>4. exec[tip].inv \in InvId /\ tip \in Chain(tip) /\ Chain(tip) \subseteq ExecId
    <3>1. tip \in ExecId
      BY <2>1, <2>2
    <3> QED
      BY <1>1, <3>1 DEF TypeOK, ExecRow, Chain
  <2>5. \A f \in ExecId : f # tip => (Open(f) <=> f \in Chain(tip))
    <3>1. tip \in ExecId
      BY <2>1, <2>2
    <3> QED
      BY <1>1, <1>4, <2>2, <3>1, OpenChain
  <2>6. \A j \in InvId : inv[j].status = "running" <=> j \in Enclosing(exec[tip].inv)
    BY <1>1, <1>4, <2>2, <2>4 DEF Path, OnPath
  <2>7. Enclosing(exec[tip].inv) \subseteq InvId
    BY DEF Enclosing
  <2> QED
    BY <2>3, <2>4, <2>5, <2>6, <2>7
<1> QED
  BY <1>2, <1>3, <1>4 DEF OnePath, Standing

\* With one Resume or Retry at a time, what the run's status says is true: its open
\* executions are one path through its running graphs to the leaf, or to what Retry
\* repeats; a running run has a driver, a waiting one a saved wait, a failed one a way on.
THEOREM StatusTrue ==
  ASSUME OneRequest
  PROVE  Spec => []StatusIsTrue
<1>1. PInv => StatusIsTrue
  <2> SUFFICES ASSUME PInv PROVE StatusIsTrue
    OBVIOUS
  <2>1. TypeOK /\ SavedRows /\ Path /\ Stands /\ \A e \in Leaves : e \in ExecId /\ exec[e].child = 0
    BY DEF PInv, CInv, IInv, Leaves
  <2>2. OnePath
    BY PathIsOne
  <2>3. RunningIsDriven
    BY <2>1 DEF Stands, RunningIsDriven
  <2>4. WaitingHasWait
    <3> SUFFICES ASSUME run.status = "waiting"
                 PROVE  /\ Leaves # {} /\ exec[Leaf].status = "waiting"
                        /\ exec[Leaf].result \in Waits
      BY DEF WaitingHasWait
    <3>1. Leaves # {} /\ Leaf = Latest /\ Latest \in Leaves
      BY <2>1, StandsOnLatest DEF Stands, Standing, Path, Tips
    <3>2. exec[Latest].status = "waiting"
      BY <2>1, <3>1 DEF Stands
    <3> QED
      BY <2>1, <3>1, <3>2 DEF SavedRows
  <2>5. FailedIsRetryable
    BY <2>1 DEF Path, Tips, FailedIsRetryable
  <2> QED
    BY <2>2, <2>3, <2>4, <2>5 DEF StatusIsTrue
<1> QED
  BY <1>1, InvarianceP, PTL

-----------------------------------------------------------------------------
(* The run a person is promised (RunLifecycle) is what the engine runs.     *)

\* What a step is seen as: the parameters of Lifecycle.
PhaseNow  == IF Active THEN "active" ELSE run.status
SavedTip  == /\ run.status \notin {"preparing", "completed", "cancelled"}
             /\ \E e \in Tip : exec[e].result # "none"
Completed == {e \in ExecId : exec[e].status = "completed"}
RoutedNow == Cardinality(Completed)

\* The node the run stands on is the execution inserted last.
SavedNow == /\ run.status \in {"running", "waiting", "paused", "failed"}
            /\ nextExec # 1
            /\ exec[Latest].result # "none"

LEMMA TipIsLatest == PInv => (SavedTip <=> SavedNow)
<1> SUFFICES ASSUME PInv PROVE SavedTip <=> SavedNow
  OBVIOUS
<1>1. /\ TypeOK /\ AtMostOneLeaf /\ BlankRows /\ Numbered /\ Stands /\ Path
      /\ \A e \in Leaves : e \in ExecId
  BY DEF PInv, CInv, IInv, Leaves
<1>2. run.status \in RunStatuses
  BY <1>1 DEF TypeOK, RunRow
<1>3. CASE run.status \in {"preparing", "completed", "cancelled"}
  BY <1>3 DEF SavedTip, SavedNow
<1>4. CASE run.status \in {"running", "waiting", "paused", "failed"} /\ Standing
  <2>1. nextExec # 1 /\ Latest \in ExecId
    BY <1>1, <1>4, StandingRoot
  <2>2. Tip = {Latest}
    <3>1. CASE Leaves # {}
      <4>1. Leaves = {Latest}
        BY <1>1, <3>1, LeafIsLatest DEF Path, Tips
      <4> QED
        BY <3>1, <4>1 DEF Tip
    <3>2. CASE Leaves = {}
      <4>1. /\ IsRetryTarget(Latest)
            /\ \A e \in ExecId : IsRetryTarget(e) => e = Latest
        BY <1>4, <3>2, StandsOnLatest
      <4>2. Latest \in Retryable /\ Retryable \subseteq ExecId
        BY <4>1 DEF IsRetryTarget, Retryable
      <4> QED
        BY <3>2, <4>1, <4>2 DEF Tip
    <3> QED
      BY <3>1, <3>2
  <2>3. (\E e \in Tip : exec[e].result # "none") <=> exec[Latest].result # "none"
    BY <2>2
  <2> QED
    BY <1>4, <2>1, <2>2 DEF SavedTip, SavedNow
<1>5. CASE run.status \in {"running", "waiting", "paused", "failed"} /\ ~Standing
  <2>1. Leaves = {} /\ run.status = "failed" /\ ~HasRoot
    BY <1>1, <1>5 DEF Standing, Stands
  <2>2. nextExec = 1
    BY <1>1, <2>1 DEF Numbered
  <2>3. \A e \in ExecId : exec[e].status = "absent"
    BY <1>1, <2>2, BoundsAssumption DEF BlankRows, NoExec, ExecId
  <2>4. Retryable = {}
    BY <2>3 DEF Retryable
  <2>5. Tip = {}
    BY <2>1, <2>4 DEF Tip
  <2> QED
    BY <2>2, <2>5 DEF SavedTip, SavedNow
<1> QED
  BY <1>2, <1>3, <1>4, <1>5 DEF RunStatuses

LEMMA TipIsLatestNext == PInv' => (SavedTip' <=> SavedNow')
BY TipIsLatest, PTL

\* Routed counts what completed.
LEMMA CompletedFinite ==
  ASSUME NEW S \in SUBSET ExecId
  PROVE  IsFiniteSet(S) /\ Cardinality(S) \in Nat
<1>1. IsFiniteSet(ExecId)
  BY FS_Interval, BoundsAssumption DEF ExecId
<1>2. IsFiniteSet(S)
  BY <1>1, FS_Subset
<1> QED
  BY <1>2, FS_CardinalityType

LEMMA RoutedSame ==
  ASSUME \A e \in ExecId : exec'[e].status = "completed" <=> exec[e].status = "completed"
  PROVE  RoutedNow' = RoutedNow
<1>1. Completed' = Completed
  BY DEF Completed
<1> QED
  BY <1>1 DEF RoutedNow

LEMMA RoutedMore ==
  ASSUME \A e \in ExecId : exec[e].status = "completed" => exec'[e].status = "completed",
         NEW l \in ExecId, exec[l].status # "completed", exec'[l].status = "completed"
  PROVE  RoutedNow' > RoutedNow
<1> DEFINE T == Completed
<1>1. \A S : S = Completed' => /\ S \in SUBSET ExecId /\ T \in SUBSET S /\ S # T
                               /\ T \in SUBSET ExecId
  BY DEF Completed
<1> HIDE DEF T
<1>2. \A S : S = Completed' => Cardinality(S) > Cardinality(T)
  <2> SUFFICES ASSUME NEW S, S = Completed' PROVE Cardinality(S) > Cardinality(T)
    OBVIOUS
  <2>1. S \in SUBSET ExecId /\ T \in SUBSET S /\ S # T /\ T \in SUBSET ExecId
    BY <1>1
  <2>2. IsFiniteSet(S) /\ Cardinality(S) \in Nat /\ Cardinality(T) \in Nat
    BY <2>1, CompletedFinite
  <2>3. Cardinality(T) <= Cardinality(S) /\ Cardinality(S) # Cardinality(T)
    BY <2>1, <2>2, FS_Subset
  <2> QED
    BY <2>2, <2>3
<1> QED
  BY <1>2 DEF RoutedNow, T

\* A step a person does not see.
Unseen == UNCHANGED <<PhaseNow, SavedTip, RoutedNow>>

LEMMA StayIsNone ==
  ASSUME PInv, PInv', Stays
  PROVE  Unseen
<1>1. TypeOK /\ BlankRows /\ Numbered /\ run'.status = run.status /\ KeepAll /\ KeepTree
  BY DEF PInv, CInv, IInv, Stays, KeepRun
<1>2. Latest' = Latest /\ nextExec' = nextExec /\ (nextExec # 1 => Latest \in ExecId)
  BY <1>1, Older DEF KeepTree, Latest
<1>3. SavedNow' <=> SavedNow
  BY <1>1, <1>2 DEF SavedNow, KeepAll, Keep, KeepRest
<1>4. SavedTip' = SavedTip
  BY <1>3, TipIsLatest, TipIsLatestNext DEF SavedTip
<1>5. RoutedNow' = RoutedNow
  BY <1>1, RoutedSame DEF KeepAll, Keep
<1>6. PhaseNow' = PhaseNow
  BY <1>1 DEF PhaseNow, Active
<1> QED
  BY <1>4, <1>5, <1>6 DEF Unseen

LEMMA SaveIsSave ==
  ASSUME PInv, PInv', NEW l \in ExecId, Saves(l)
  PROVE  Lifecycle!Save \/ Unseen
<1>1. /\ TypeOK /\ AtMostOneLeaf /\ BlankRows /\ Numbered /\ Path /\ run'.status = run.status
      /\ KeepTree /\ KeepBut(l) /\ exec'[l].status = exec[l].status /\ exec[l].result = "none"
      /\ exec'[l].result # "none" /\ exec[l].child = 0 /\ (Open(l) \/ run.status = "cancelled")
  BY DEF PInv, CInv, IInv, Saves, KeepRun, HoldsLeaf
<1>2. Latest' = Latest /\ nextExec' = nextExec
  BY <1>1 DEF KeepTree, Latest
<1>3. RoutedNow' = RoutedNow
  BY <1>1, RoutedSame DEF KeepBut, Keep
<1>4. PhaseNow' = PhaseNow
  BY <1>1 DEF PhaseNow, Active
<1>5. CASE Open(l)
  <2>1. l \in Leaves
    BY <1>1, <1>5 DEF Leaves
  <2>2. l = Latest /\ nextExec # 1 /\ run.status \in {"running", "waiting", "paused"}
    BY <1>1, <2>1, TheLeaf DEF AtMostOneLeaf
  <2>3. ~SavedNow /\ SavedNow'
    BY <1>1, <1>2, <2>2 DEF SavedNow
  <2>4. ~SavedTip /\ SavedTip' = TRUE
    BY <2>3, TipIsLatest, TipIsLatestNext DEF SavedTip
  <2>5. PhaseNow \in {"active", "paused"}
    BY <2>2 DEF PhaseNow, Active, ActiveStatuses
  <2> QED
    BY <1>3, <1>4, <2>4, <2>5 DEF Lifecycle!Save, PhaseNow, SavedTip, RoutedNow, Completed
<1>6. CASE run.status = "cancelled"
  <2>1. SavedTip' = SavedTip
    BY <1>1, <1>6 DEF SavedTip
  <2> QED
    BY <1>3, <1>4, <2>1 DEF Unseen
<1> QED
  BY <1>1, <1>5, <1>6

LEMMA ShiftIsSeen ==
  ASSUME PInv, PInv', Shifts
  PROVE  Lifecycle!Pause \/ Lifecycle!Resume \/ Lifecycle!Prepared \/ Lifecycle!Prepare
<1>1. TypeOK /\ BlankRows /\ Numbered /\ PathOK /\ Asked /\ KeepAll /\ KeepTree
  BY DEF PInv, PathOK, CInv, IInv, Shifts
<1>2. Latest' = Latest /\ nextExec' = nextExec /\ (nextExec # 1 => Latest \in ExecId)
  BY <1>1, Older DEF KeepTree, Latest
<1>3. RoutedNow' = RoutedNow
  BY <1>1, RoutedSame DEF KeepAll, Keep
<1>4. \/ Active /\ run'.status = "paused"
      \/ run.status = "paused" /\ run'.status = "running"
      \/ run.status = "preparing" /\ ~HasRoot /\ run'.status = "failed"
      \/ run.status = "failed" /\ ~HasRoot /\ run'.status = "preparing"
  BY <1>1 DEF Shifts, PathOK, Stands, Asked
<1>5. CASE /\ run.status \in {"running", "waiting", "paused"}
           /\ run'.status \in {"running", "paused"}
  <2>1. SavedNow' <=> SavedNow
    BY <1>1, <1>2, <1>5 DEF SavedNow, KeepAll, Keep, KeepRest
  <2>2. SavedTip' = SavedTip
    BY <2>1, TipIsLatest, TipIsLatestNext DEF SavedTip
  <2>3. CASE Active /\ run'.status = "paused"
    <3>1. PhaseNow = "active" /\ PhaseNow' = "paused"
      BY <2>3 DEF PhaseNow, Active, ActiveStatuses
    <3> QED
      BY <1>3, <2>2, <3>1 DEF Lifecycle!Pause, PhaseNow, SavedTip, RoutedNow, Completed
  <2>4. CASE run.status = "paused" /\ run'.status = "running"
    <3>1. PhaseNow = "paused" /\ PhaseNow' = "active"
      BY <2>4 DEF PhaseNow, Active, ActiveStatuses
    <3> QED
      BY <1>3, <2>2, <3>1 DEF Lifecycle!Resume, PhaseNow, SavedTip, RoutedNow, Completed
  <2> QED
    BY <1>4, <1>5, <2>3, <2>4
<1>6. CASE ~HasRoot /\ run.status \in {"preparing", "failed"}
  <2>1. nextExec = 1 /\ \A e \in ExecId : exec[e].status = "absent"
    BY <1>1, <1>6, BoundsAssumption DEF Numbered, BlankRows, NoExec, ExecId
  <2>2. ~SavedTip /\ ~SavedTip'
    BY <1>2, <2>1, TipIsLatest, TipIsLatestNext DEF SavedNow
  <2>3. SavedTip' = SavedTip
    BY <2>2 DEF SavedTip
  <2>4. RoutedNow = 0
    <3>1. Completed = {}
      BY <2>1 DEF Completed
    <3> QED
      BY <3>1, FS_EmptySet DEF RoutedNow
  <2>5. CASE run.status = "preparing" /\ run'.status = "failed"
    <3>1. PhaseNow = "preparing" /\ PhaseNow' = "failed"
      BY <2>5 DEF PhaseNow, Active, ActiveStatuses
    <3> QED
      BY <1>3, <2>3, <3>1 DEF Lifecycle!Prepared, PhaseNow, SavedTip, RoutedNow, Completed
  <2>6. CASE run.status = "failed" /\ run'.status = "preparing"
    <3>1. PhaseNow = "failed" /\ PhaseNow' = "preparing"
      BY <2>6 DEF PhaseNow, Active, ActiveStatuses
    <3> QED
      BY <1>3, <2>2, <2>3, <2>4, <3>1
         DEF Lifecycle!Prepare, PhaseNow, SavedTip, RoutedNow, Completed
  <2> QED
    BY <1>4, <1>6, <2>5, <2>6 DEF Active, ActiveStatuses
<1> QED
  BY <1>4, <1>5, <1>6 DEF Active, ActiveStatuses

LEMMA CloseIsFail ==
  ASSUME PInv, PInv', NEW l \in ExecId, Closes(l)
  PROVE  Lifecycle!Fail
<1>1. /\ TypeOK /\ AtMostOneLeaf /\ BlankRows /\ Numbered /\ Path
      /\ l \in Leaves /\ KeepRest(l) /\ KeepBut(l) /\ KeepTree
      /\ exec'[l].status \in {"failed", "interrupted"} /\ run'.status = "failed"
      /\ Active \/ (run.status = "paused" /\ exec[l].result = "none")
  BY DEF PInv, CInv, IInv, Closes
<1>2. l = Latest /\ nextExec # 1 /\ Open(l) /\ Latest' = Latest /\ nextExec' = nextExec
  BY <1>1, TheLeaf DEF KeepTree, Latest
<1>3. RoutedNow' = RoutedNow
  <2>1. \A f \in ExecId : exec'[f].status = "completed" <=> exec[f].status = "completed"
    BY <1>1, <1>2 DEF KeepBut, Keep, Open
  <2> QED
    BY <2>1, RoutedSame
<1>4. run.status \in {"running", "waiting", "paused"}
  BY <1>1 DEF Active, ActiveStatuses
<1>5. /\ SavedNow' <=> SavedNow
      /\ run.status = "paused" => ~SavedNow
  BY <1>1, <1>2, <1>4 DEF SavedNow, KeepRest, Active, ActiveStatuses
<1>6. SavedTip' = SavedTip /\ (run.status = "paused" => ~SavedTip)
  BY <1>5, TipIsLatest, TipIsLatestNext DEF SavedTip
<1>7. PhaseNow' = "failed" /\ (PhaseNow = "active" \/ (PhaseNow = "paused" /\ ~SavedTip))
  BY <1>1, <1>6 DEF PhaseNow, Active, ActiveStatuses
<1> QED
  BY <1>3, <1>6, <1>7 DEF Lifecycle!Fail, PhaseNow, SavedTip, RoutedNow, Completed

LEMMA ParkIsNone ==
  ASSUME PInv, PInv', NEW l \in ExecId, Parks(l)
  PROVE  Unseen
<1>1. /\ TypeOK /\ AtMostOneLeaf /\ BlankRows /\ Numbered /\ Path
      /\ l \in Leaves /\ KeepRest(l) /\ KeepBut(l) /\ KeepTree
      /\ exec'[l].status = "waiting" /\ run'.status = "waiting" /\ Active
  BY DEF PInv, CInv, IInv, Parks
<1>2. l = Latest /\ nextExec # 1 /\ Open(l) /\ Latest' = Latest /\ nextExec' = nextExec
  BY <1>1, TheLeaf DEF KeepTree, Latest
<1>3. RoutedNow' = RoutedNow
  <2>1. \A f \in ExecId : exec'[f].status = "completed" <=> exec[f].status = "completed"
    BY <1>1, <1>2 DEF KeepBut, Keep, Open
  <2> QED
    BY <2>1, RoutedSame
<1>4. SavedNow' <=> SavedNow
  BY <1>1, <1>2 DEF SavedNow, KeepRest, Active, ActiveStatuses
<1>5. SavedTip' = SavedTip
  BY <1>4, TipIsLatest, TipIsLatestNext DEF SavedTip
<1>6. PhaseNow' = PhaseNow
  BY <1>1 DEF PhaseNow, Active, ActiveStatuses
<1> QED
  BY <1>3, <1>5, <1>6 DEF Unseen

LEMMA EnterIsNone ==
  ASSUME PInv, PInv', NEW l \in ExecId, Enters(l)
  PROVE  Unseen
<1>1. /\ TypeOK /\ AtMostOneLeaf /\ BlankRows /\ Numbered /\ Path /\ SavedRows
      /\ l \in Leaves /\ run'.status = run.status /\ exec[l].kind = "subgraph"
      /\ exec'[l].status = "waiting" /\ Room /\ nextExec' = nextExec + 1
      /\ exec'[nextExec].status = "running" /\ exec'[nextExec].result = "none"
      /\ \A f \in ExecId : f # l /\ f # nextExec => exec'[f].status = exec[f].status
  BY DEF PInv, CInv, IInv, Enters, Inserted, Keep, KeepRun
<1>2. /\ l = Latest /\ nextExec # 1 /\ Open(l) /\ exec[l].result = "none"
      /\ Latest' = nextExec /\ nextExec \in ExecId /\ exec[nextExec] = NoExec
  <2>1. l = Latest /\ nextExec # 1 /\ Open(l) /\ exec[l].result = "none"
    BY <1>1, TheLeaf DEF SavedRows
  <2>2. Latest' = nextExec
    BY <1>1 DEF TypeOK, Latest
  <2> QED
    BY <1>1, <2>1, <2>2, NextBlank
<1>3. RoutedNow' = RoutedNow
  <2>1. \A f \in ExecId : exec'[f].status = "completed" <=> exec[f].status = "completed"
    BY <1>1, <1>2 DEF NoExec, Open
  <2> QED
    BY <2>1, RoutedSame
<1>4. ~SavedNow /\ ~SavedNow'
  <2>1. exec[Latest].result = "none"
    BY <1>2
  <2>2. exec'[Latest'].result = "none"
    BY <1>1, <1>2
  <2> QED
    BY <2>1, <2>2 DEF SavedNow
<1>5. SavedTip' = SavedTip
  BY <1>4, TipIsLatest, TipIsLatestNext DEF SavedTip
<1>6. PhaseNow' = PhaseNow
  BY <1>1 DEF PhaseNow, Active
<1> QED
  BY <1>3, <1>5, <1>6 DEF Unseen

LEMMA RootIsPrepared ==
  ASSUME PInv, PInv', Roots
  PROVE  Lifecycle!Prepared
<1>1. /\ TypeOK /\ BlankRows /\ run.status = "preparing" /\ run'.status = "running" /\ Room
      /\ nextExec' = nextExec + 1 /\ exec'[nextExec].status = "running"
      /\ exec'[nextExec].result = "none"
      /\ \A f \in ExecId : f # nextExec => exec'[f].status = exec[f].status
  BY DEF PInv, CInv, IInv, Roots, Inserted, KeepBut, Keep
<1>2. Latest' = nextExec /\ exec[nextExec] = NoExec
  BY <1>1, NextBlank DEF TypeOK, Latest
<1>3. RoutedNow' = RoutedNow
  <2>1. \A f \in ExecId : exec'[f].status = "completed" <=> exec[f].status = "completed"
    BY <1>1, <1>2 DEF NoExec
  <2> QED
    BY <2>1, RoutedSame
<1>4. ~SavedNow /\ ~SavedNow'
  <2>1. exec'[Latest'].result = "none"
    BY <1>1, <1>2
  <2> QED
    BY <1>1, <2>1 DEF SavedNow
<1>5. SavedTip' = SavedTip
  BY <1>4, TipIsLatest, TipIsLatestNext DEF SavedTip
<1>6. PhaseNow = "preparing" /\ PhaseNow' = "active"
  BY <1>1 DEF PhaseNow, Active, ActiveStatuses
<1> QED
  BY <1>3, <1>5, <1>6 DEF Lifecycle!Prepared, PhaseNow, SavedTip, RoutedNow, Completed

LEMMA RepeatIsRetry ==
  ASSUME PInv, PInv', NEW c \in Clients, NEW t \in ExecId, Repeats(c, t)
  PROVE  Lifecycle!Retry
<1>1. /\ TypeOK /\ BlankRows /\ Numbered /\ Tips /\ Asked
      /\ run.status = "failed" /\ run'.status = "running" /\ Room
      /\ nextExec' = nextExec + 1 /\ exec'[nextExec].status = "running"
      /\ exec'[nextExec].result = exec[t].result
      /\ \A f \in ExecId : f # nextExec => exec'[f].status = exec[f].status
  BY DEF PInv, CInv, IInv, Path, Repeats, KeepBut, Keep
<1>2. Latest' = nextExec /\ exec[nextExec] = NoExec /\ nextExec \in ExecId
  BY <1>1, NextBlank DEF TypeOK, Latest
<1>3. t = Latest /\ nextExec # 1
  <2>1. t = Latest
    BY <1>1, TargetIsLatest DEF Repeats, Asked
  <2>2. nextExec # 1
    BY <2>1, BoundsAssumption DEF Latest, ExecId
  <2> QED
    BY <2>1, <2>2
<1>4. RoutedNow' = RoutedNow
  <2>1. \A f \in ExecId : exec'[f].status = "completed" <=> exec[f].status = "completed"
    BY <1>1, <1>2 DEF NoExec
  <2> QED
    BY <2>1, RoutedSame
<1>5. SavedNow' <=> SavedNow
  <2>1. exec'[Latest'].result = exec[Latest].result
    BY <1>1, <1>2, <1>3
  <2>2. nextExec' # 1
    BY <1>1, <1>2, BoundsAssumption DEF ExecId
  <2> QED
    BY <1>1, <1>3, <2>1, <2>2 DEF SavedNow
<1>6. SavedTip' = SavedTip
  BY <1>5, TipIsLatest, TipIsLatestNext DEF SavedTip
<1>7. PhaseNow = "failed" /\ PhaseNow' = "active"
  BY <1>1 DEF PhaseNow, Active, ActiveStatuses
<1> QED
  BY <1>4, <1>6, <1>7 DEF Lifecycle!Retry, PhaseNow, SavedTip, RoutedNow, Completed

LEMMA CancelIsCancel ==
  ASSUME PInv, PInv', Cancels
  PROVE  Lifecycle!Cancel
<1>1. /\ run.status \in Cancellable /\ run'.status = "cancelled"
      /\ \A e \in ExecId :
           exec'[e].status = IF Open(e) THEN "cancelled" ELSE exec[e].status
  BY DEF Cancels
<1>2. RoutedNow' = RoutedNow
  <2>1. \A f \in ExecId : exec'[f].status = "completed" <=> exec[f].status = "completed"
    BY <1>1 DEF Open
  <2> QED
    BY <2>1, RoutedSame
<1>3. SavedTip' = FALSE
  BY <1>1 DEF SavedTip
<1>4. PhaseNow \notin {"completed", "cancelled"} /\ PhaseNow' = "cancelled"
  BY <1>1 DEF PhaseNow, Active, ActiveStatuses, Cancellable
<1> QED
  BY <1>2, <1>3, <1>4 DEF Lifecycle!Cancel, PhaseNow, SavedTip, RoutedNow, Completed

LEMMA RouteIsRoute ==
  ASSUME PInv, PInv', NEW e \in ExecId, NEW top \in ExecId, Routes(e, top)
  PROVE  Lifecycle!Route
<1>1. /\ TypeOK /\ AtMostOneLeaf /\ BlankRows /\ Numbered /\ Path
      /\ e \in Leaves /\ Active /\ exec[e].result # "none" /\ top \in Chain(e)
      /\ RouteFacts(e, top)
  BY RoutesDo DEF PInv, CInv, IInv, Routes
<1>2. e = Latest /\ nextExec # 1 /\ Open(e) /\ e # nextExec
  BY <1>1, TheLeaf, BoundsAssumption DEF ExecId
<1>3. e \in Stepped(e, top)
  BY <1>1 DEF Stepped, Chain
<1>4. SavedTip
  <2>1. SavedNow
    BY <1>1, <1>2 DEF SavedNow, Active, ActiveStatuses
  <2> QED
    BY <2>1, TipIsLatest
<1>5. RoutedNow' > RoutedNow
  <2>1. exec[e].status # "completed" /\ exec'[e].status = "completed"
    BY <1>1, <1>2, <1>3 DEF RouteFacts, Open
  <2>2. ASSUME NEW f \in ExecId, exec[f].status = "completed"
        PROVE  exec'[f].status = "completed"
    <3>1. f # nextExec \/ nextExec' = nextExec
      <4>1. CASE f = nextExec
        <5>1. exec[f] = NoExec
          BY <1>1, <4>1, BoundsAssumption DEF BlankRows, ExecId
        <5> QED
          BY <2>2, <5>1 DEF NoExec
      <4> QED
        BY <4>1
    <3> QED
      BY <1>1, <2>2, <3>1 DEF RouteFacts
  <2> QED
    BY <2>1, <2>2, RoutedMore
<1>6. PhaseNow = "active" /\ PhaseNow' \in {"active", "completed"}
  BY <1>1 DEF PhaseNow, Active, ActiveStatuses, RouteFacts
<1>7. ~SavedTip'
  <2>1. CASE run'.status = "completed"
    BY <2>1 DEF SavedTip
  <2>2. CASE Inserted(exec[top].inv)
    <3>1. Latest' = nextExec /\ exec'[nextExec].result = "none"
      BY <1>1, <2>2 DEF Inserted, TypeOK, Latest
    <3>2. exec'[Latest'].result = "none"
      BY <3>1
    <3> QED
      BY <3>2, TipIsLatestNext DEF SavedNow
  <2> QED
    BY <1>1, <2>1, <2>2 DEF RouteFacts
<1>8. SavedTip' = FALSE
  BY <1>7 DEF SavedTip
<1> QED
  BY <1>4, <1>5, <1>6, <1>8 DEF Lifecycle!Route, PhaseNow, SavedTip, RoutedNow, Completed

\* With one Resume or Retry at a time, whatever the tree and the driver do, a step of the
\* engine is a step of the run a person is promised, or none: results are saved once and
\* routed only by an active run, a pause lasts until Resume, Retry keeps what was saved,
\* and what was routed is never undone.
THEOREM PromiseKept ==
  ASSUME OneRequest
  PROVE  Spec => KeepsPromise
<1>1. Init => Lifecycle!Init
  <2> SUFFICES ASSUME Init PROVE Lifecycle!Init
    OBVIOUS
  <2>1. run.status = "preparing" /\ \A e \in ExecId : exec[e] = NoExec
    BY DEF Init
  <2>2. PhaseNow = "preparing" /\ SavedTip = FALSE
    BY <2>1 DEF PhaseNow, Active, ActiveStatuses, SavedTip
  <2>3. RoutedNow = 0
    <3>1. Completed = {}
      BY <2>1 DEF Completed, NoExec
    <3> QED
      BY <3>1, FS_EmptySet DEF RoutedNow
  <2> QED
    BY <2>2, <2>3 DEF Lifecycle!Init, PhaseNow, SavedTip, RoutedNow, Completed
<1>2. PInv /\ PInv' /\ [Next]_vars => [Lifecycle!Next]_(Lifecycle!state)
  <2> SUFFICES ASSUME PInv, PInv', [Next]_vars PROVE Lifecycle!Next \/ Unseen
    BY DEF Unseen, Lifecycle!state, PhaseNow, SavedTip, RoutedNow, Completed
  <2>1. Shape
    BY StepShape DEF PInv
  <2>2. CASE Stays
    BY <2>2, StayIsNone
  <2>3. CASE Shifts
    BY <2>3, ShiftIsSeen DEF Lifecycle!Next
  <2>4. CASE Roots
    BY <2>4, RootIsPrepared DEF Lifecycle!Next
  <2>5. CASE Cancels
    BY <2>5, CancelIsCancel DEF Lifecycle!Next
  <2>6. ASSUME NEW e \in ExecId, Saves(e)
        PROVE  Lifecycle!Next \/ Unseen
    BY <2>6, SaveIsSave DEF Lifecycle!Next
  <2>7. ASSUME NEW e \in ExecId, Closes(e)
        PROVE  Lifecycle!Next \/ Unseen
    BY <2>7, CloseIsFail DEF Lifecycle!Next
  <2>8. ASSUME NEW e \in ExecId, Parks(e) \/ Enters(e)
        PROVE  Lifecycle!Next \/ Unseen
    BY <2>8, ParkIsNone, EnterIsNone
  <2>9. ASSUME NEW e \in ExecId, NEW top \in ExecId, Routes(e, top)
        PROVE  Lifecycle!Next \/ Unseen
    BY <2>9, RouteIsRoute DEF Lifecycle!Next
  <2>10. ASSUME NEW c \in Clients, NEW t \in ExecId, Repeats(c, t)
         PROVE  Lifecycle!Next \/ Unseen
    BY <2>10, RepeatIsRetry DEF Lifecycle!Next
  <2> QED
    BY <2>1, <2>2, <2>3, <2>4, <2>5, <2>6, <2>7, <2>8, <2>9, <2>10 DEF Shape
<1> QED
  BY <1>1, <1>2, InvarianceP, PTL DEF Spec, KeepsPromise, Lifecycle!Spec
=============================================================================
