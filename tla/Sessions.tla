------------------------------ MODULE Sessions ------------------------------
(***************************************************************************)
(* One durable session of a worktree, an agent's or a terminal's           *)
(* (environment/surfaces/service.ts, agent-sessions/service.ts and         *)
(* interaction.ts, terminal-sessions/service.ts, sessions/*.ts).           *)
(*                                                                         *)
(* The session is a row that at most one pane holds and that points at its *)
(* current process.  One controller at a time runs it, a terminal process  *)
(* or the worker of a Fluidcast session, and one client streams it.  What  *)
(* decides about either takes the session's lock (lifecycle.ts); what does *)
(* not is the database, which commits without suspending: panes close and  *)
(* are taken by other sessions, a worktree is deleted, orphans are         *)
(* collected, and processes end, whoever holds the lock.                   *)
(***************************************************************************)
EXTENDS Integers

CONSTANTS
  Clients,        \* attempts of clients to stream the session
  Panes,          \* the panes of its worktree
  MaxProcesses,   \* processes ever launched for it
  MaxGenerations, \* changes of its controller
  MaxTroubles     \* what fails (a stop, a build, a launch, git, the write of a deletion), and
                  \* restarts of the runtime

ASSUME SessionsAssumption ==
  /\ Clients \intersect {"none", "switch", "restore", "spawn", "pane", "worktree"} = {}
  /\ "none" \notin Panes
  /\ MaxProcesses \in Nat \ {0} /\ MaxGenerations \in Nat
  /\ MaxTroubles \in Nat

VARIABLES
  kind,          \* an agent's or a terminal's
  row,           \* the session's row exists
  panes, holder, \* the panes that are not closed, and the one whose row holds the session
  ptr, procs,    \* the process the row points at; every process of the session
  mode, gen,     \* AgentSessionInteraction: who controls it, and how often that has changed
  worker,        \* the worker of its Fluidcast session
  conns,         \* each client: its attach token, the process resolved for it, its stream
  active,        \* the attachment that is registered as the session's
  op,            \* who holds the session's lock, and what it waits for
  pending,       \* deletes that committed and have their release or cleanup still to do
  condemned,     \* processes that the cleanup of a closed pane is about to terminate
  spawn,         \* a workflow that starts the agent, and the process it got
  del,           \* a worktree or project delete
  restore,       \* the restore of bound sessions at boot
  faults, restarts

\* For the properties only.
VARIABLES
  lost,          \* processes that nothing points at: the restore replaced them, or the runtime
                 \* was restarted while it launched them
  adrift         \* another session took its pane, or its process was launched for a client, or by
                 \* the restore, when no pane held it any more

place == <<row, panes, holder, adrift>>
proc  == <<ptr, procs, lost>>
ctl   == <<mode, gen, worker>>
cli   == <<conns, active>>
ends  == <<pending, condemned, del>>
count == <<faults, restarts>>
vars  == <<kind, place, proc, ctl, cli, op, ends, spawn, restore, count>>

Procs  == 1..MaxProcesses
None   == 0       \* no process
NoOne  == "none"  \* no client, no pane
Hands  == {"none", "switch", "restore", "spawn", "pane", "worktree"}
Points == {"free", "claiming", "rejoining", "attaching", "launching",
           "stopping", "building", "closing", "unloading", "ending"}

Free == [at |-> "free", who |-> NoOne, pid |-> None, pane |-> NoOne]
Spawned == [at |-> "done", pid |-> None]
NoDelete == [at |-> "none", ptys |-> {}, project |-> FALSE]
Idle == [at |-> "idle", pid |-> None, expect |-> None, gen |-> 0]

Init ==
  /\ kind \in {"agent", "terminal"} /\ row = TRUE /\ panes = Panes /\ holder = NoOne
  /\ ptr = None /\ procs = [p \in Procs |-> "none"] /\ lost = {} /\ adrift = FALSE
  /\ mode = "terminal" /\ gen = 0 /\ worker = "none"
  /\ conns = [c \in Clients |-> Idle] /\ active = NoOne
  /\ op = Free /\ pending = {} /\ condemned = {}
  /\ del = NoDelete
  /\ spawn = [at |-> "none", pid |-> None]
  /\ restore = [at |-> "done", ephemeral |-> FALSE]
  /\ faults = 0 /\ restarts = 0

Fault == faults + restarts < MaxTroubles /\ faults' = faults + 1 /\ UNCHANGED restarts
Fine  == UNCHANGED count

-----------------------------------------------------------------------------
(* What the operations ask and do. *)

Live(p) == procs[p] = "live"
\* isLive of the row's process
Current == ptr # None /\ Live(ptr)
\* sessionProcessIncarnation under the terminal's control
Runs(p) == row /\ mode = "terminal" /\ ptr = p /\ Live(p)
\* isHeldForDeletion
Held == del.at \in {"releasing", "removing"} \/ (del.at = "cleaning" /\ del.project)
\* Faulty: whatever becomes of the agent, it may get a controller.
AlwaysMayCreate == TRUE
\* assertMayCreateController
MayCreate == holder # NoOne /\ ~Held

Kills(p) == procs' = [procs EXCEPT ![p] = IF @ = "live" THEN "over" ELSE @]
Advances == gen' = gen + 1
\* setTerminal
BackToTerminal == mode' = "terminal" /\ gen' = IF mode = "terminal" THEN gen ELSE gen + 1

\* pty.launch: a process that no row points at yet.
Launches(who) ==
  /\ \E p \in Procs :
       /\ procs[p] = "none" /\ \A q \in Procs : q < p => procs[q] # "none"
       /\ procs' = [procs EXCEPT ![p] = "live"]
       /\ op' = [Free EXCEPT !.at = "launching", !.who = who, !.pid = p]
  /\ UNCHANGED ptr

\* The tokens that are revoked with every attachment that is superseded, and the attachment
\* that is told and detached.
Revoked(d)   == conns[d].at = "token"
\* Faulty: the attachment before is forgotten, and its socket goes on streaming.
NoneDisplaced(d) == FALSE
Displaced(d) == active = d
Settled(d)   == IF conns[d].at = "moved" THEN Idle ELSE conns[d]
Token(expect) == [at |-> "token", pid |-> None, expect |-> expect, gen |-> gen]
\* Every displaced client is settled, and c goes on as k.
Settles(c, k) == conns' = [d \in Clients |-> IF d = c THEN k ELSE Settled(d)]

-----------------------------------------------------------------------------
(* A pane gets the session: claimPaneSession, createPaneSession. *)

\* With the token at once, unless an attachment has to be displaced first.
Claim(c, pane) ==
  /\ op = Free /\ row /\ pane \in panes /\ conns[c].at = "idle"
  /\ holder' = pane /\ adrift' = FALSE /\ active' = NoOne
  /\ conns' = [d \in Clients |->
                 IF d = c /\ active = NoOne THEN Token(None)
                 ELSE IF Displaced(d) THEN [Idle EXCEPT !.at = "moved"]
                 ELSE IF Revoked(d) THEN Idle ELSE conns[d]]
  /\ op' = IF active = NoOne THEN Free ELSE [Free EXCEPT !.at = "claiming", !.who = c]
  /\ UNCHANGED <<kind, row, panes, proc, ctl, ends, spawn, restore, count>>
Claimed ==
  /\ op.at = "claiming" /\ op' = Free
  /\ Settles(op.who, Token(None))
  /\ UNCHANGED <<kind, place, proc, ctl, active, ends, spawn, restore, count>>

\* expectAutomaticRejoin: the pane still holds it, it still runs the process that was named, and
\* no one streams that. An attachment to an older process is displaced, before the pane is bound.
Rejoin(c) ==
  /\ op = Free /\ row /\ holder # NoOne /\ conns[c].at = "idle" /\ Current /\ Runs(ptr)
  /\ active # NoOne => conns[active].pid # ptr
  /\ active' = NoOne
  /\ conns' = [d \in Clients |->
                 IF d = c /\ active = NoOne THEN Token(ptr)
                 ELSE IF Displaced(d) THEN [Idle EXCEPT !.at = "moved"] ELSE conns[d]]
  /\ op' = IF active = NoOne THEN Free
           ELSE [at |-> "rejoining", who |-> c, pid |-> ptr, pane |-> holder]
  /\ UNCHANGED <<kind, place, proc, ctl, ends, spawn, restore, count>>
Rejoined ==
  /\ op.at = "rejoining" /\ op' = Free
  /\ IF row /\ op.pane \in panes
     THEN holder' = op.pane /\ adrift' = FALSE /\ Settles(op.who, Token(op.pid))
     ELSE UNCHANGED <<holder, adrift>> /\ Settles(op.who, Idle)
  /\ UNCHANGED <<kind, row, panes, proc, ctl, active, ends, spawn, restore, count>>

-----------------------------------------------------------------------------
(* A client's socket: consume the token, resolve a process, plan, be admitted. *)

\* consumeAttachToken, once
Consume(c) ==
  /\ conns[c].at = "token" /\ conns' = [conns EXCEPT ![c].at = "resolving"]
  /\ UNCHANGED <<kind, place, proc, ctl, active, op, ends, spawn, restore, count>>

\* requireTerminalMode, with the generation of the token
TerminalFor(c) == kind = "agent" => mode = "terminal" /\ conns[c].gen = gen
Planned(c, p) == conns' = [conns EXCEPT ![c] = [@ EXCEPT !.at = "planned", !.pid = p]]
Refused(c) == conns' = [conns EXCEPT ![c] = Idle]

\* ensureActivePtyProcess; a launch may be blocked.
Resolve(c) ==
  /\ op = Free /\ conns[c].at = "resolving"
  /\ \/ /\ row /\ TerminalFor(c) /\ Current /\ conns[c].expect \in {None, ptr}
        /\ Planned(c, ptr) /\ Fine /\ UNCHANGED <<op, proc>>
     \/ /\ row /\ TerminalFor(c) /\ ~Current /\ conns[c].expect = None
        /\ Launches(c) /\ Fine /\ UNCHANGED <<conns, lost>>
     \/ /\ \/ ~row \/ ~TerminalFor(c) \/ (conns[c].expect # None /\ ~(Current /\ conns[c].expect = ptr))
           \/ ~Current /\ procs[MaxProcesses] # "none"
        /\ Refused(c) /\ Fine /\ UNCHANGED <<op, proc>>
  /\ UNCHANGED <<kind, place, ctl, active, ends, spawn, restore>>

\* launchProcessForSession returns: the row points at the process.
Launched ==
  /\ op.at = "launching" /\ op' = Free
  /\ ptr' = IF row THEN op.pid ELSE ptr
  /\ IF op.who \in Clients THEN Planned(op.who, op.pid) ELSE UNCHANGED conns
  /\ spawn' = IF op.who = "spawn" THEN [at |-> "checking", pid |-> op.pid] ELSE spawn
  /\ adrift' = (adrift \/ (/\ holder = NoOne /\ pending \intersect {"pane", "cleanup"} = {}
                           /\ op.who \in Clients \union {"restore"}))
  /\ UNCHANGED <<kind, row, panes, holder, procs, lost, ctl, active, ends, restore, count>>
LaunchFails ==
  /\ op.at = "launching" /\ op' = Free /\ Kills(op.pid) /\ Fault
  /\ IF op.who \in Clients THEN Refused(op.who) ELSE UNCHANGED conns
  /\ spawn' = IF op.who = "spawn" THEN Spawned ELSE spawn
  /\ UNCHANGED <<kind, place, ptr, lost, ctl, active, ends, restore>>

\* Faulty: a rejoin is not checked again, for it was when the token was issued.
AdmitsUnchecked(c) == TerminalFor(c) /\ (active # NoOne => conns[active].pid # conns[c].expect)
\* admitAttach, beforeAttach: under the lock, and again, for planning may have suspended.
Admits(c) ==
  /\ TerminalFor(c)
  /\ \/ conns[c].expect = None
     \/ /\ row /\ ptr = conns[c].expect /\ Live(ptr)
        /\ active # NoOne => conns[active].pid # ptr
Admit(c) ==
  /\ op = Free /\ conns[c].at = "planned"
  /\ \/ /\ Admits(c)
        /\ op' = [Free EXCEPT !.at = "attaching", !.who = c, !.pid = conns[c].pid]
        /\ active' = NoOne
        /\ conns' = [d \in Clients |->
                       IF Displaced(d) THEN [Idle EXCEPT !.at = "moved"]
                       ELSE IF Revoked(d) /\ conns[c].expect = None THEN Idle ELSE conns[d]]
     \/ /\ ~Admits(c)
        /\ Refused(c) /\ UNCHANGED <<op, active>>
  /\ UNCHANGED <<kind, place, proc, ctl, ends, spawn, restore, count>>
\* pty.attach, and the registration, still under the lock.
Attached ==
  /\ op.at = "attaching" /\ op' = Free
  /\ IF Live(op.pid)
     THEN Settles(op.who, [Idle EXCEPT !.at = "attached", !.pid = op.pid]) /\ active' = op.who
     ELSE Settles(op.who, Idle) /\ UNCHANGED active
  /\ UNCHANGED <<kind, place, proc, ctl, ends, spawn, restore, count>>

\* Faulty: the attachment of a socket that closed stays registered.
ClosesQuietly(c) ==
  /\ conns[c].at \notin {"idle", "moved"} /\ op.who # c
  /\ Refused(c) /\ UNCHANGED active
  /\ UNCHANGED <<kind, place, proc, ctl, op, ends, spawn, restore, count>>
\* The client goes, or lets its token expire.
Close(c) ==
  /\ conns[c].at \notin {"idle", "moved"} /\ op.who # c
  /\ Refused(c) /\ active' = IF active = c THEN NoOne ELSE active
  /\ UNCHANGED <<kind, place, proc, ctl, op, ends, spawn, restore, count>>
\* Or while it holds the lock, which is released; a launch of its own is cleaned up.
CloseHolding(c) ==
  /\ op.who = c /\ op' = Free /\ Settles(c, Idle)
  /\ IF op.at = "launching" THEN Kills(op.pid) ELSE UNCHANGED procs
  /\ UNCHANGED <<kind, place, ptr, lost, ctl, active, ends, spawn, restore, count>>

-----------------------------------------------------------------------------
(* The agent's controller: setInteractionMode.  A request names the controller it was made     *)
(* under, so only one that names the current one is more than refused.                          *)

\* Faulty: a terminal that did not stop is left to itself.
HandsOffAnyway ==
  \/ Kills(ptr) /\ Fine
  \/ Fault /\ UNCHANGED procs
HandsOff == Kills(ptr) /\ Fine

SwitchToFluidcast ==
  /\ op = Free /\ kind = "agent" /\ row /\ mode # "fluidcast" /\ gen < MaxGenerations
  /\ MayCreate
  /\ IF Current
     THEN op' = [Free EXCEPT !.at = "stopping", !.who = "switch"] /\ UNCHANGED worker
     ELSE op' = [Free EXCEPT !.at = "building", !.who = "switch"] /\ worker' = "building"
  /\ UNCHANGED <<kind, place, proc, mode, gen, cli, ends, spawn, restore, count>>
\* stopTerminalForHandoff; what fails from here on is recorded.
Fails == mode' = "failed" /\ Advances /\ op' = Free
Stopped ==
  /\ op.at = "stopping"
  /\ \/ /\ row /\ HandsOff
        /\ op' = [op EXCEPT !.at = "building"] /\ worker' = "building" /\ UNCHANGED <<mode, gen>>
     \/ ~row /\ Fails /\ Fine /\ UNCHANGED <<procs, worker>>
  /\ UNCHANGED <<kind, place, ptr, lost, cli, ends, spawn, restore>>
StopFails ==
  /\ op.at = "stopping" /\ Fails /\ Fault
  /\ UNCHANGED <<kind, place, proc, worker, cli, ends, spawn, restore>>
\* FluidcastSessions.start, setFluidcast
Built ==
  /\ op.at = "building" /\ op' = Free
  /\ mode' = "fluidcast" /\ Advances /\ worker' = "live"
  /\ UNCHANGED <<kind, place, proc, cli, ends, spawn, restore, count>>
BuildFails ==
  /\ op.at = "building" /\ Fails /\ worker' = "none" /\ Fault
  /\ UNCHANGED <<kind, place, proc, cli, ends, spawn, restore>>

\* Faulty: the terminal is launched while the worker is still closing.
SwitchesAtOnce ==
  /\ mode = "fluidcast" /\ BackToTerminal /\ worker' = "stopping" /\ Launches("switch")
Switches ==
  /\ mode = "fluidcast" /\ BackToTerminal /\ worker' = "stopping"
  /\ op' = [Free EXCEPT !.at = "closing", !.who = "switch"]
  /\ UNCHANGED <<ptr, procs>>
SwitchToTerminal ==
  /\ op = Free /\ kind = "agent" /\ row /\ gen < MaxGenerations
  /\ MayCreate
  /\ \/ mode # "fluidcast" /\ BackToTerminal /\ ~Current /\ Launches("switch") /\ UNCHANGED worker
     \/ mode = "failed" /\ BackToTerminal /\ Current /\ UNCHANGED <<op, ptr, procs, worker>>
     \/ Switches
  /\ UNCHANGED <<kind, place, lost, cli, ends, spawn, restore, count>>
\* fluidcast.stop has closed the worker's scope. What is found then may forbid the launch.
Closed ==
  /\ op.at = "closing" /\ worker' = "none"
  /\ \/ row /\ Launches("switch") /\ Fine
     \/ ~row /\ op' = Free /\ Fine /\ UNCHANGED <<ptr, procs>>
     \/ row /\ op' = Free /\ Fault /\ UNCHANGED <<ptr, procs>>
  /\ UNCHANGED <<kind, place, lost, mode, gen, cli, ends, spawn, restore>>

\* watchHealth: the worker is gone, its session stays until it is stopped.
WorkerFaults ==
  /\ worker = "live" /\ worker' = "ended"
  /\ UNCHANGED <<kind, place, proc, mode, gen, cli, op, ends, spawn, restore, count>>

-----------------------------------------------------------------------------
(* Deletes.  What they release, they release after they committed, or under a hold. *)

\* releaseController: it waits for the lock, and reads what there is to end under it.
Over(who) == pending' = (pending \ {who}) \union (IF who = "pane" THEN {"cleanup"} ELSE {})
Release(who) ==
  /\ op = Free /\ who \in pending \ {"cleanup"} /\ BackToTerminal
  /\ CASE mode = "fluidcast" ->
            /\ op' = [Free EXCEPT !.at = "unloading", !.who = who] /\ worker' = "stopping"
            /\ UNCHANGED pending
       [] mode # "fluidcast" /\ row /\ Current ->
            /\ op' = [Free EXCEPT !.at = "ending", !.who = who, !.pid = ptr]
            /\ UNCHANGED <<worker, pending>>
       [] OTHER -> Over(who) /\ UNCHANGED <<op, worker>>
  /\ UNCHANGED <<kind, place, proc, cli, condemned, del, spawn, restore, count>>
Unloaded ==
  /\ op.at = "unloading" /\ worker' = "none"
  /\ IF row /\ Current THEN op' = [op EXCEPT !.at = "ending", !.pid = ptr] /\ UNCHANGED pending
     ELSE op' = Free /\ Over(op.who)
  /\ UNCHANGED <<kind, place, proc, mode, gen, cli, condemned, del, spawn, restore, count>>
\* terminatePty, best effort; the stop of stopUnlessPlaced.
Ended ==
  /\ op.at = "ending" /\ op' = Free
  /\ (Kills(op.pid) /\ Fine) \/ (Fault /\ UNCHANGED procs)
  /\ IF op.who = "spawn" THEN UNCHANGED pending ELSE Over(op.who)
  /\ UNCHANGED <<kind, place, ptr, lost, ctl, cli, condemned, del, spawn, restore>>

\* deleteSurface, deleteSurfacePane: an agent is released, and the rest cleaned up after that.
ClosePane(pane) ==
  /\ pane \in panes /\ panes' = panes \ {pane}
  /\ IF holder = pane
     THEN /\ pending \intersect {"pane", "cleanup"} = {} /\ condemned = {}
          /\ holder' = NoOne
          /\ pending' = pending \union {IF kind = "agent" THEN "pane" ELSE "cleanup"}
     ELSE UNCHANGED <<holder, pending>>
  /\ UNCHANGED <<kind, row, adrift, proc, ctl, cli, op, condemned, del, spawn, restore, count>>
\* terminateDeletedPanePtys of listSessionsBoundTo
CleanupReads ==
  /\ "cleanup" \in pending /\ pending' = pending \ {"cleanup"}
  /\ condemned' = IF row /\ ptr # None THEN {ptr} ELSE {}
  /\ UNCHANGED <<kind, place, proc, ctl, cli, op, del, spawn, restore, count>>
CleanupKills(p) ==
  /\ p \in condemned /\ condemned' = condemned \ {p}
  /\ (Kills(p) /\ Fine) \/ (Fault /\ UNCHANGED procs)
  /\ UNCHANGED <<kind, place, ptr, lost, ctl, cli, op, pending, del, spawn, restore>>
\* Another session is claimed into the pane.
Oust ==
  /\ holder # NoOne /\ holder' = NoOne /\ adrift' = TRUE
  /\ UNCHANGED <<kind, row, panes, proc, ctl, cli, op, ends, spawn, restore, count>>

Pointed == IF row /\ ptr # None THEN {ptr} ELSE {}
\* deleteWorktree reads the processes before it cleans the commands up, and holds after that;
\* deleteProject holds first, and reads when they are cleaned up.
DeleteBegins(project) ==
  /\ del.at = "none"
  /\ del' = [at |-> "cleaning", ptys |-> IF project THEN {} ELSE Pointed, project |-> project]
  /\ UNCHANGED <<kind, place, proc, ctl, cli, op, pending, condemned, spawn, restore, count>>
DeleteHolds ==
  /\ del.at = "cleaning"
  /\ del' = [at |-> "releasing", ptys |-> IF del.project THEN Pointed ELSE del.ptys,
             project |-> FALSE]
  /\ pending' = IF row /\ kind = "agent" THEN pending \union {"worktree"} ELSE pending
  /\ UNCHANGED <<kind, place, proc, ctl, cli, op, condemned, spawn, restore, count>>
\* terminateSessionPtys: all of them, or the delete fails and its hold ends.
DeleteTearsDown ==
  /\ del.at = "releasing" /\ "worktree" \notin pending
  /\ \/ /\ procs' = [p \in Procs |-> IF p \in del.ptys /\ Live(p) THEN "over" ELSE procs[p]]
        /\ del' = [NoDelete EXCEPT !.at = "removing"] /\ Fine
     \/ del' = NoDelete /\ Fault /\ UNCHANGED procs
  /\ UNCHANGED <<kind, place, ptr, lost, ctl, cli, op, pending, condemned, spawn, restore>>
\* git worktree remove, and the cascade.
DeleteCommits ==
  /\ del.at = "removing"
  /\ \/ /\ row' = FALSE /\ panes' = {} /\ holder' = NoOne /\ ptr' = None
        /\ del' = [del EXCEPT !.at = "gone"] /\ Fine
     \/ /\ del' = NoDelete /\ Fault
        /\ UNCHANGED <<row, holder, ptr, panes>>
  /\ UNCHANGED <<kind, adrift, procs, lost, ctl, cli, op, pending, condemned, spawn, restore>>

\* collectOrphanSessions; its grace is over whenever it comes.
Collect ==
  /\ row /\ holder = NoOne /\ active = NoOne
  /\ row' = FALSE /\ ptr' = None
  /\ conns' = [d \in Clients |-> IF Revoked(d) THEN Idle ELSE conns[d]]
  /\ UNCHANGED <<kind, panes, holder, adrift, procs, lost, ctl, active, op, ends, spawn, restore, count>>

-----------------------------------------------------------------------------
(* A workflow starts the agent: spawnAgent, requireSpawnPlacement. *)

Spawn ==
  /\ op = Free /\ spawn.at = "none" /\ kind = "agent" /\ row /\ mode = "terminal"
  /\ IF Current THEN spawn' = [at |-> "checking", pid |-> ptr] /\ UNCHANGED <<op, ptr, procs>>
     ELSE Launches("spawn") /\ UNCHANGED spawn
  /\ UNCHANGED <<kind, place, lost, ctl, cli, ends, restore, count>>
\* stopUnlessPlaced
SpawnChecks ==
  /\ op = Free /\ spawn.at = "checking" /\ spawn' = Spawned
  /\ op' = IF holder = NoOne
           THEN [Free EXCEPT !.at = "ending", !.who = "spawn", !.pid = spawn.pid] ELSE Free
  /\ UNCHANGED <<kind, place, proc, ctl, cli, ends, restore, count>>

-----------------------------------------------------------------------------
(* Processes, and the runtime. *)

Exits(p) ==
  /\ Live(p) /\ Kills(p)
  /\ UNCHANGED <<kind, place, ptr, lost, ctl, cli, op, ends, spawn, restore, count>>
\* Its own children end with it, tmux's do not. It listens before it has restored anything.
Restart ==
  /\ faults + restarts < MaxTroubles /\ restarts' = restarts + 1
  /\ \E ephemeral \in BOOLEAN :
       /\ procs' = [p \in Procs |-> IF ephemeral /\ Live(p) THEN "over" ELSE procs[p]]
       /\ restore' = [at |-> "unread", ephemeral |-> ephemeral]
  /\ mode' = "terminal" /\ gen' = 0 /\ worker' = "none"
  /\ conns' = [c \in Clients |-> Idle] /\ active' = NoOne /\ op' = Free
  /\ pending' = {} /\ condemned' = {}
  /\ del' = IF del.at = "gone" THEN del ELSE NoDelete
  /\ spawn' = Spawned
  /\ lost' = IF op.at = "launching" THEN lost \union {op.pid} ELSE lost
  /\ UNCHANGED <<kind, place, ptr, faults>>
\* restorePaneBoundSessions: the bindings, and then each under its lock. A process of the
\* runtime that went is replaced, whatever its row says.
RestoreReads ==
  /\ restore.at = "unread" /\ restore' = [restore EXCEPT !.at = IF holder = NoOne THEN "done" ELSE "due"]
  /\ UNCHANGED <<kind, place, proc, ctl, cli, op, ends, spawn, count>>
Restore ==
  /\ op = Free /\ restore.at = "due" /\ restore' = [restore EXCEPT !.at = "done"]
  /\ LET keeps == Current /\ ~restore.ephemeral IN
     IF row /\ mode = "terminal" /\ ~keeps
     THEN \/ Launches("restore") /\ lost' = lost \union (IF Current THEN {ptr} ELSE {}) /\ Fine
          \/ Fault /\ UNCHANGED <<op, proc>>
     ELSE Fine /\ UNCHANGED <<op, proc>>
  /\ UNCHANGED <<kind, place, ctl, cli, ends, spawn>>

-----------------------------------------------------------------------------
Client(c) ==
  \/ (\E pane \in Panes : Claim(c, pane)) \/ Rejoin(c) \/ Consume(c) \/ Resolve(c) \/ Admit(c)
  \/ Close(c) \/ CloseHolding(c)
\* What goes on once the lock is held.
Goes ==
  \/ Claimed \/ Rejoined \/ Launched \/ LaunchFails \/ Attached \/ Stopped \/ StopFails
  \/ Built \/ BuildFails \/ Closed \/ Unloaded \/ Ended
Deletes ==
  \/ (\E pane \in Panes : ClosePane(pane)) \/ CleanupReads \/ (\E p \in Procs : CleanupKills(p))
  \/ (\E project \in BOOLEAN : DeleteBegins(project)) \/ DeleteHolds \/ DeleteTearsDown
  \/ DeleteCommits \/ Collect

Next ==
  \/ (\E c \in Clients : Client(c)) \/ Goes
  \/ SwitchToFluidcast \/ SwitchToTerminal \/ WorkerFaults
  \/ (\E who \in {"pane", "worktree"} : Release(who)) \/ Deletes
  \/ Oust
  \/ Spawn \/ SpawnChecks
  \/ (\E p \in Procs : Exits(p)) \/ Restart \/ RestoreReads \/ Restore

Spec == Init /\ [][Next]_vars

-----------------------------------------------------------------------------
Typed ==
  /\ kind \in {"agent", "terminal"} /\ row \in BOOLEAN
  /\ panes \subseteq Panes /\ holder \in {NoOne} \union panes
  /\ ptr \in {None} \union Procs /\ procs \in [Procs -> {"none", "live", "over"}]
  /\ lost \subseteq Procs /\ adrift \in BOOLEAN
  /\ mode \in {"terminal", "fluidcast", "failed"} /\ gen \in Nat
  /\ worker \in {"none", "building", "live", "ended", "stopping"}
  /\ conns \in [Clients -> [at : {"idle", "token", "resolving", "planned", "attached", "moved"},
                            pid : {None} \union Procs, expect : {None} \union Procs, gen : Nat]]
  /\ active \in Clients \union {NoOne}
  /\ op \in [at : Points, who : Clients \union Hands, pid : {None} \union Procs,
             pane : {NoOne} \union Panes]
  /\ pending \subseteq {"pane", "worktree", "cleanup"} /\ condemned \subseteq Procs
  /\ del \in [at : {"none", "cleaning", "releasing", "removing", "gone"},
              ptys : SUBSET Procs, project : BOOLEAN]
  /\ spawn \in [at : {"none", "checking", "done"}, pid : {None} \union Procs]
  /\ restore \in [at : {"unread", "due", "done"}, ephemeral : BOOLEAN]
  /\ faults \in Nat /\ restarts \in Nat
\* A worker is that of the Fluidcast session in control, or of one that is being built or
\* stopped under the lock; the active attachment is attached.
Kept ==
  /\ worker # "none" => mode = "fluidcast" \/ op.at \in {"building", "closing", "unloading"}
  /\ mode = "fluidcast" => worker \in {"live", "ended"}
  /\ active # NoOne => conns[active].at = "attached"
  /\ op.at \in {"claiming", "rejoining", "attaching"} => op.who \in Clients /\ active = NoOne
  /\ ~row => ptr = None /\ holder = NoOne
TypeOK == Typed /\ Kept

Controllers == {p \in Procs \ lost : Live(p)}
\* switchToFluidcast, switchToTerminal, ensureActivePtyProcess: an agent has one controller at a
\* time, a terminal process or a worker; what the restore replaced is set apart.
OneController ==
  /\ \A p, q \in Controllers : p = q
  /\ worker \in {"building", "live", "stopping"} => Controllers = {}

\* withAttachAdmission, supersede: a live process streams to the attachment that is registered
\* and to no other, and it is the one that the row points at.
OneStream ==
  \A c \in Clients :
    conns[c].at = "attached" /\ Live(conns[c].pid)
      => active = c /\ (row /\ conns[c].pid \notin lost => ptr = conns[c].pid)

\* admitAttach: whoever gets the stream was given its token under the controller that still is.
AdmittedUnderController ==
  [][\A c \in Clients :
       conns[c].at # "attached" /\ conns'[c].at = "attached" /\ kind = "agent"
         => mode = "terminal" /\ conns[c].gen = gen]_vars

\* Who displaces the active attachment without a user having asked for it.
Rejoins(c) == op'.who = c /\ (op'.at = "rejoining" \/ (op'.at = "attaching" /\ conns[c].expect # None))
\* expectAutomaticRejoin, beforeAttach, displaceObsoleteAttachment: what a client does by itself
\* takes the stream of the running process from nobody, revokes no token, launches nothing, and
\* moves no session that a pane holds.
RejoinIsGentle ==
  [][\A c \in Clients :
       /\ op = Free /\ Rejoins(c)
            => /\ active # NoOne => ~(Current /\ conns[active].pid = ptr)
               /\ \A d \in Clients : conns[d].at = "token" => conns'[d] = conns[d]
       /\ op'.at = "launching" /\ op'.who = c => conns[c].expect = None
       /\ op.at = "rejoining" /\ op' = Free /\ holder # NoOne => holder' = holder]_vars

\* attach-route: what was decided before planning still holds when the stream is given.
AttachIsCurrent == AdmittedUnderController /\ RejoinIsGentle

\* commitAndFinish, releaseController, assertMayCreateController: a worker is owned: its session
\* is in a pane, or a delete has still to release it, or another session took the pane; and
\* none is left when a delete goes on to remove the checkout.
WorkersAreOwned ==
  /\ worker # "none"
       => \/ holder # NoOne \/ adrift \/ pending \intersect {"pane", "worktree"} # {}
  /\ del.at \in {"removing", "gone"} /\ ~adrift /\ "pane" \notin pending => worker = "none"

\* spawnAgent, finishSurfaceDelete: a live process is never left to a session whose pane was
\* closed: the close has still to end it, or the workflow that started it is about to look. Only
\* what was launched for a session that no pane held any more is, and what could not be stopped.
ProcessesAreSeenOff ==
  row /\ Current /\ holder = NoOne /\ faults = 0 /\ restarts = 0
    => \/ adrift \/ pending # {} \/ ptr \in condemned
       \/ spawn = [at |-> "checking", pid |-> ptr] \/ (op.at = "ending" /\ op.pid = ptr)

\* Whoever lets go of an agent sees off what runs for it: a worker, or a process.
NothingIsLeftBehind == WorkersAreOwned /\ ProcessesAreSeenOff
=============================================================================
