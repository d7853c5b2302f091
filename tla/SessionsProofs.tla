--------------------------- MODULE SessionsProofs ---------------------------
(***************************************************************************)
(* What is proved of Sessions, for any clients and panes, and any number   *)
(* of processes, changes of the controller, failures and restarts.         *)
(***************************************************************************)
EXTENDS Sessions, TLAPS

\* OneController, and where the one process may be.
Alone ==
  /\ \A p, q \in Controllers : p = q
  /\ worker # "none" => Controllers = {}
  /\ row => \A p \in Controllers : ptr = p \/ (op.at = "launching" /\ op.pid = p)
  /\ op.at = "launching" => \A p \in Controllers : op.pid = p

\* Who holds the lock, and what that lets nobody else change.
Holding ==
  /\ op.at = "free" => op = Free
  /\ op.at \in {"stopping", "building", "closing"} => op.who = "switch"
  /\ op.at = "stopping" => mode # "fluidcast"
  /\ op.at \in {"unloading", "ending"} => op.who \in {"pane", "worktree", "spawn"}
  /\ op.at \in {"stopping", "building", "closing", "unloading"} => kind = "agent"
  /\ op.at = "building" => worker = "building"
  /\ op.at \in {"closing", "unloading"} => worker = "stopping"
  /\ kind = "terminal" => mode = "terminal"
  /\ op.at \in {"launching", "attaching"} => op.pid \in Procs /\ procs[op.pid] # "none"
  /\ op.at = "rejoining" => op.pane # NoOne /\ (holder # NoOne => holder = op.pane)

\* A client that the lock is held for stays what it was.
Waiting ==
  /\ op.at \in {"claiming", "rejoining"} => conns[op.who].at = "idle"
  /\ op.at = "launching" /\ op.who \in Clients =>
       conns[op.who].at = "resolving" /\ conns[op.who].expect = None
  /\ op.at = "attaching" =>
       /\ conns[op.who].at = "planned"
       /\ kind = "agent" => mode = "terminal" /\ conns[op.who].gen = gen

\* Only the registered attachment streams a live process, and none a process that is being launched.
Streams ==
  \A c \in Clients :
    /\ conns[c].at \in {"planned", "attached"} =>
         /\ conns[c].pid \in Procs /\ procs[conns[c].pid] # "none"
         /\ op.at = "launching" => conns[c].pid # op.pid
    /\ conns[c].at = "attached" /\ Live(conns[c].pid) => active = c

\* What concerns neither the processes nor their clients.
Around ==
  /\ adrift \in BOOLEAN /\ panes \subseteq Panes
  /\ pending \subseteq {"pane", "worktree", "cleanup"} /\ condemned \subseteq Procs
  /\ del \in [at : {"none", "cleaning", "releasing", "removing", "gone"},
              ptys : SUBSET Procs, project : BOOLEAN]
  /\ spawn \in [at : {"none", "checking", "done"}, pid : {None} \union Procs]
  /\ restore \in [at : {"unread", "due", "done"}, ephemeral : BOOLEAN]
  /\ faults \in Nat /\ restarts \in Nat

IInv == TypeOK /\ Alone /\ Holding /\ Waiting /\ Streams

USE SessionsAssumption

Conn == [at : {"idle", "token", "resolving", "planned", "attached", "moved"},
         pid : {None} \union Procs, expect : {None} \union Procs, gen : Nat]
Hold == [at : Points, who : Clients \union Hands, pid : {None} \union Procs,
         pane : {NoOne} \union Panes]

-----------------------------------------------------------------------------
(* The processes, the clients and the lock. *)

LEMMA Names ==
  /\ NoOne \notin Clients /\ NoOne \notin Panes
  /\ \A c \in Clients : c \notin Hands
BY DEF NoOne, Hands

LEMMA FreeIsHold ==
  Free \in Hold /\ Free.at = "free" /\ Free.who = NoOne
BY DEF Free, Hold, Points, Hands, None, NoOne

LEMMA Conns ==
  /\ Idle \in Conn /\ Idle.at = "idle"
  /\ [Idle EXCEPT !.at = "moved"] \in Conn /\ [Idle EXCEPT !.at = "moved"].at = "moved"
BY DEF Idle, Conn, None

LEMMA TokenIsConn ==
  ASSUME Typed, NEW p \in {None} \union Procs
  PROVE  Token(p) \in Conn /\ Token(p).at = "token"
BY DEF Token, Conn, None, Typed

LEMMA SettledIsConn ==
  ASSUME Typed, NEW d \in Clients
  PROVE  /\ Settled(d) \in Conn
         /\ Settled(d) = conns[d] \/ Settled(d).at = "idle"
         /\ conns[d].at # "moved" => Settled(d) = conns[d]
BY Conns DEF Settled, Typed, Conn

\* Processes end, and none comes back.
Fades ==
  /\ procs' \in [Procs -> {"none", "live", "over"}]
  /\ \A p \in Procs : procs'[p] = procs[p] \/ (procs[p] = "live" /\ procs'[p] = "over")

LEMMA KillsFade ==
  ASSUME Typed, NEW p, Kills(p)
  PROVE  Fades /\ \A q \in Procs : q = p => procs'[q] # "live"
BY DEF Typed, Kills, Fades

LEMMA StillFade ==
  ASSUME Typed, UNCHANGED procs
  PROVE  Fades
BY DEF Typed, Fades

LEMMA FadingShrinks ==
  ASSUME Typed, Fades, lost \subseteq lost'
  PROVE  /\ Controllers' \subseteq Controllers
         /\ \A p \in Procs : (Live(p)' => Live(p)) /\ (procs'[p] # "none" <=> procs[p] # "none")
BY DEF Fades, Controllers, Live

\* No process is launched, and none is left behind by its row.
LEMMA AloneKept ==
  ASSUME Typed, Alone, Fades, lost \subseteq lost', row \in BOOLEAN,
         worker' # "none" => worker # "none" \/ Controllers' = {},
         row' => row /\ ptr' = ptr,
         op' = op \/ (op.at # "launching" /\ op'.at # "launching")
  PROVE  Alone'
<1>1. Controllers' \subseteq Controllers
  BY FadingShrinks
<1> QED BY <1>1 DEF Alone

\* The clients that stream, or are about to, stay as they are or go.
LEMMA StreamsKept ==
  ASSUME Typed, Streams, Fades,
         op' = op \/ op'.at # "launching",
         \A d \in Clients : \/ conns'[d] = conns[d]
                            \/ conns'[d].at \notin {"planned", "attached"},
         active' = active \/ \A d \in Clients : conns'[d].at = "attached" => active # d
  PROVE  Streams'
<1> SUFFICES ASSUME NEW d \in Clients
             PROVE  /\ conns'[d].at \in {"planned", "attached"} =>
                         /\ conns'[d].pid \in Procs /\ procs'[conns'[d].pid] # "none"
                         /\ op'.at = "launching" => conns'[d].pid # op'.pid
                    /\ conns'[d].at = "attached" /\ Live(conns[d].pid)' => active' = d
  BY DEF Streams, Live
<1>1. CASE conns'[d].at \notin {"planned", "attached"}
  BY <1>1
<1>2. CASE conns'[d] = conns[d] /\ conns[d].at \in {"planned", "attached"}
  <2>1. conns[d].pid \in Procs /\ procs[conns[d].pid] # "none"
        /\ (op.at = "launching" => conns[d].pid # op.pid)
    BY <1>2 DEF Streams
  <2>2. procs'[conns[d].pid] # "none" /\ (procs'[conns[d].pid] = "live" => procs[conns[d].pid] = "live")
    BY <2>1 DEF Fades
  <2>3. conns[d].at = "attached" /\ procs'[conns[d].pid] = "live" => active = d
    BY <2>2 DEF Streams, Live
  <2> QED BY <1>2, <2>1, <2>2, <2>3 DEF Live
<1> QED BY <1>1, <1>2

\* What goes on beside the lock and the clients: processes end, panes close, rows go.
LEMMA BesideKeeps ==
  ASSUME IInv, Fades, UNCHANGED <<kind, mode, gen, cli, op, lost>>, Around',
         worker' = worker \/ (worker = "live" /\ worker' = "ended"),
         row' \in BOOLEAN, row' => row /\ ptr' = ptr, ptr' \in {None} \union Procs,
         holder' \in {NoOne} \union panes', holder' \in {holder, NoOne},
         ~row' => ptr' = None /\ holder' = NoOne
  PROVE  IInv'
<1> USE DEF IInv
<1>1. UNCHANGED <<conns, active>>
  BY DEF cli
<1>2. Typed'
  BY <1>1 DEF TypeOK, Typed, Fades, Around
<1>3. Kept'
  BY <1>1 DEF TypeOK, Kept
<1>4. Alone'
  BY AloneKept DEF TypeOK, Typed
<1>5. Holding'
  BY DEF Holding, Fades
<1>6. Waiting'
  BY <1>1 DEF Waiting
<1>7. Streams'
  BY <1>1, StreamsKept DEF TypeOK
<1> QED BY <1>2, <1>3, <1>4, <1>5, <1>6, <1>7 DEF TypeOK

LEMMA ClosePaneKeeps ==
  ASSUME IInv, NEW pane \in Panes, ClosePane(pane)
  PROVE  IInv'
<1> USE DEF IInv
<1>1. /\ panes' = panes \ {pane} /\ holder' \in {NoOne} \union panes' /\ holder' \in {holder, NoOne}
      /\ pending' \subseteq {"pane", "worktree", "cleanup"}
      /\ UNCHANGED <<kind, row, adrift, proc, ctl, cli, op, condemned, del, spawn, restore, count>>
  BY DEF ClosePane, TypeOK, Typed
<1>2. Fades /\ Around'
  BY <1>1, StillFade DEF TypeOK, Typed, Around, proc, count
<1> QED BY <1>1, <1>2, BesideKeeps DEF proc, ctl, TypeOK, Typed, Kept

LEMMA CleanupKeeps ==
  ASSUME IInv, CleanupReads \/ \E p \in Procs : CleanupKills(p)
  PROVE  IInv'
<1> USE DEF IInv
<1>1. /\ UNCHANGED <<kind, place, ptr, lost, ctl, cli, op, del, spawn, restore>>
      /\ pending' \subseteq pending /\ condemned' \subseteq Procs /\ faults' \in Nat /\ restarts' \in Nat
  BY DEF CleanupReads, CleanupKills, Fine, Fault, count, proc, TypeOK, Typed
<1>2. Fades
  BY KillsFade, StillFade DEF CleanupReads, CleanupKills, proc, TypeOK
<1>3. Around'
  BY <1>1 DEF TypeOK, Typed, Around, place
<1> QED BY <1>1, <1>2, <1>3, BesideKeeps DEF ctl, place, TypeOK, Typed, Kept

LEMMA OustKeeps ==
  ASSUME IInv, Oust
  PROVE  IInv'
<1> USE DEF IInv
<1>1. /\ holder' = NoOne /\ adrift' = TRUE
      /\ UNCHANGED <<kind, row, panes, proc, ctl, cli, op, ends, spawn, restore, count>>
  BY DEF Oust
<1>2. Fades /\ Around'
  BY <1>1, StillFade DEF TypeOK, Typed, Around, proc, count, ends
<1> QED BY <1>1, <1>2, BesideKeeps DEF proc, ctl, TypeOK, Typed, Kept

LEMMA ExitsKeep ==
  ASSUME IInv, NEW p \in Procs, Exits(p)
  PROVE  IInv'
<1> USE DEF IInv
<1>1. UNCHANGED <<kind, place, ptr, lost, ctl, cli, op, ends, spawn, restore, count>>
  BY DEF Exits
<1>2. Fades
  BY KillsFade DEF Exits, TypeOK
<1>3. Around'
  BY <1>1 DEF TypeOK, Typed, Around, place, ends, count
<1> QED BY <1>1, <1>2, <1>3, BesideKeeps DEF ctl, place, TypeOK, Typed, Kept

LEMMA WorkerFaultsKeeps ==
  ASSUME IInv, WorkerFaults
  PROVE  IInv'
<1> USE DEF IInv
<1>1. /\ worker = "live" /\ worker' = "ended"
      /\ UNCHANGED <<kind, place, proc, mode, gen, cli, op, ends, spawn, restore, count>>
  BY DEF WorkerFaults
<1>2. Fades /\ Around'
  BY <1>1, StillFade DEF TypeOK, Typed, Around, place, proc, ends, count
<1> QED BY <1>1, <1>2, BesideKeeps DEF proc, place, TypeOK, Typed, Kept

LEMMA RestoreReadsKeeps ==
  ASSUME IInv, RestoreReads
  PROVE  IInv'
<1> USE DEF IInv
<1>1. /\ restore' = [restore EXCEPT !.at = IF holder = NoOne THEN "done" ELSE "due"]
      /\ UNCHANGED <<kind, place, proc, ctl, cli, op, ends, spawn, count>>
  BY DEF RestoreReads
<1>2. restore' \in [at : {"unread", "due", "done"}, ephemeral : BOOLEAN]
  <2>1. restore \in [at : {"unread", "due", "done"}, ephemeral : BOOLEAN]
    BY DEF TypeOK, Typed
  <2>2. restore' = [at |-> IF holder = NoOne THEN "done" ELSE "due", ephemeral |-> restore.ephemeral]
    BY <1>1, <2>1, Zenon
  <2>3. restore.ephemeral \in BOOLEAN
    BY <2>1, Zenon
  <2> QED BY <2>2, <2>3, Zenon
<1>3. Fades /\ Around'
  BY <1>1, <1>2, StillFade DEF TypeOK, Typed, Around, place, proc, ends, count
<1> QED BY <1>1, <1>3, BesideKeeps DEF proc, ctl, place, TypeOK, Typed, Kept

LEMMA DeletesAreTyped ==
  ASSUME Typed
  PROVE  /\ Pointed \in SUBSET Procs /\ NoDelete.ptys = {}
         /\ NoDelete \in [at : {"none", "cleaning", "releasing", "removing", "gone"},
                          ptys : SUBSET Procs, project : BOOLEAN]
<1>1. Pointed \in SUBSET Procs /\ NoDelete.ptys = {}
  BY DEF Pointed, Typed, NoDelete
<1>2. NoDelete \in [at : {"none", "cleaning", "releasing", "removing", "gone"},
                    ptys : SUBSET Procs, project : BOOLEAN]
  BY DEF NoDelete
<1> QED BY <1>1, <1>2

LEMMA DeleteBeginsKeeps ==
  ASSUME IInv, NEW project \in BOOLEAN, DeleteBegins(project)
  PROVE  IInv'
<1> USE DEF IInv
<1>1. /\ del' = [at |-> "cleaning", ptys |-> IF project THEN {} ELSE Pointed, project |-> project]
      /\ UNCHANGED <<kind, place, proc, ctl, cli, op, pending, condemned, spawn, restore, count>>
  BY DEF DeleteBegins
<1>2. del' \in [at : {"none", "cleaning", "releasing", "removing", "gone"},
                ptys : SUBSET Procs, project : BOOLEAN]
  <2>1. (IF project THEN {} ELSE Pointed) \in SUBSET Procs
    BY DeletesAreTyped DEF TypeOK
  <2> QED BY <1>1, <2>1, Zenon
<1>3. Fades /\ Around'
  BY <1>1, <1>2, StillFade DEF TypeOK, Typed, Around, place, proc, count
<1> QED BY <1>1, <1>3, BesideKeeps DEF proc, ctl, place, TypeOK, Typed, Kept

LEMMA DeleteHoldsKeeps ==
  ASSUME IInv, DeleteHolds
  PROVE  IInv'
<1> USE DEF IInv
<1>1. /\ del' = [at |-> "releasing", ptys |-> IF del.project THEN Pointed ELSE del.ptys, project |-> FALSE]
      /\ pending' \subseteq {"pane", "worktree", "cleanup"}
      /\ UNCHANGED <<kind, place, proc, ctl, cli, op, condemned, spawn, restore, count>>
  BY DEF DeleteHolds, TypeOK, Typed
<1>2. del' \in [at : {"none", "cleaning", "releasing", "removing", "gone"},
                ptys : SUBSET Procs, project : BOOLEAN]
  <2>1. del.ptys \in SUBSET Procs
    BY DEF TypeOK, Typed
  <2>2. (IF del.project THEN Pointed ELSE del.ptys) \in SUBSET Procs
    BY <2>1, DeletesAreTyped DEF TypeOK
  <2> QED BY <1>1, <2>2, Zenon
<1>3. Fades /\ Around'
  BY <1>1, <1>2, StillFade DEF TypeOK, Typed, Around, place, proc, count
<1> QED BY <1>1, <1>3, BesideKeeps DEF proc, ctl, place, TypeOK, Typed, Kept

LEMMA DeleteTearsDownKeeps ==
  ASSUME IInv, DeleteTearsDown
  PROVE  IInv'
<1> USE DEF IInv
<1>1. /\ del' \in {NoDelete, [NoDelete EXCEPT !.at = "removing"]}
      /\ UNCHANGED <<kind, place, ptr, lost, ctl, cli, op, pending, condemned, spawn, restore>>
      /\ faults' \in Nat /\ restarts' \in Nat
  BY DEF DeleteTearsDown, Fine, Fault, count, TypeOK, Typed
<1>2. del' \in [at : {"none", "cleaning", "releasing", "removing", "gone"},
                ptys : SUBSET Procs, project : BOOLEAN]
  <2>1. CASE del' = NoDelete
    BY <2>1, DeletesAreTyped DEF TypeOK
  <2>2. CASE del' = [NoDelete EXCEPT !.at = "removing"]
    BY <2>2 DEF NoDelete
  <2> QED BY <1>1, <2>1, <2>2
<1>3. Fades
  BY DEF DeleteTearsDown, Fades, Live, TypeOK, Typed
<1>4. Around'
  BY <1>1, <1>2 DEF TypeOK, Typed, Around, place
<1> QED BY <1>1, <1>3, <1>4, BesideKeeps DEF ctl, place, TypeOK, Typed, Kept

LEMMA DeleteCommitsKeeps ==
  ASSUME IInv, DeleteCommits
  PROVE  IInv'
<1> USE DEF IInv
<1>1. /\ UNCHANGED <<kind, adrift, procs, lost, ctl, cli, op, pending, condemned, spawn, restore>>
      /\ faults' \in Nat /\ restarts' \in Nat
      /\ \/ row' = FALSE /\ panes' = {} /\ holder' = NoOne /\ ptr' = None
         \/ UNCHANGED <<row, panes, holder, ptr>>
      /\ del' = [del EXCEPT !.at = "gone"] \/ del' = NoDelete
  BY DEF DeleteCommits, Fine, Fault, count, TypeOK, Typed
<1>2. del' \in [at : {"none", "cleaning", "releasing", "removing", "gone"},
                ptys : SUBSET Procs, project : BOOLEAN]
  <2>0. del \in [at : {"none", "cleaning", "releasing", "removing", "gone"},
                 ptys : SUBSET Procs, project : BOOLEAN]
    BY DEF TypeOK, Typed
  <2>1. CASE del' = NoDelete
    BY <2>1, DeletesAreTyped DEF TypeOK
  <2>2. CASE del' = [del EXCEPT !.at = "gone"]
    BY <2>0, <2>2
  <2> QED BY <1>1, <2>1, <2>2
<1>3. Fades
  BY <1>1, StillFade DEF TypeOK
<1>4. Around'
  BY <1>1, <1>2 DEF TypeOK, Typed, Around
<1>5. CASE row' = FALSE /\ panes' = {} /\ holder' = NoOne /\ ptr' = None
  BY <1>1, <1>3, <1>4, <1>5, BesideKeeps DEF ctl, TypeOK, Typed
<1>6. CASE UNCHANGED <<row, panes, holder, ptr>>
  BY <1>1, <1>3, <1>4, <1>6, BesideKeeps DEF ctl, TypeOK, Typed, Kept
<1> QED BY <1>1, <1>5, <1>6

-----------------------------------------------------------------------------
(* The clients. *)

\* A client goes on, and no process and no controller changes.
LEMMA ClientKeeps ==
  ASSUME IInv, UNCHANGED <<kind, procs, lost, mode, gen, worker>>, Around',
         row' \in BOOLEAN, row' => row /\ ptr' = ptr, ptr' \in {None} \union Procs,
         holder' \in {NoOne} \union panes', ~row' => ptr' = None /\ holder' = NoOne,
         op' \in Hold,
         op' = op \/ {op.at, op'.at} \subseteq {"free", "claiming", "rejoining", "attaching"},
         conns' \in [Clients -> Conn], active' \in Clients \union {NoOne},
         active' # NoOne => conns'[active'].at = "attached",
         op'.at \in {"claiming", "rejoining", "attaching"} => op'.who \in Clients /\ active' = NoOne,
         Holding', Waiting', Streams'
  PROVE  IInv'
<1> USE DEF IInv
<1>1. Typed'
  BY DEF TypeOK, Typed, Conn, Hold, Around
<1>2. Kept'
  BY DEF TypeOK, Kept
<1>3. Fades
  BY StillFade DEF TypeOK
<1>4. Alone'
  BY <1>3, AloneKept DEF TypeOK, Typed
<1> QED BY <1>1, <1>2, <1>4 DEF TypeOK

LEMMA ConnsAreTyped ==
  ASSUME Typed
  PROVE  conns \in [Clients -> Conn] /\ op \in Hold
BY DEF Typed, Conn, Hold

LEMMA ClaimKeeps ==
  ASSUME IInv, NEW c \in Clients, NEW pane \in Panes, Claim(c, pane)
  PROVE  IInv'
<1> USE DEF IInv
<1>1. /\ op = Free /\ op.at = "free" /\ row /\ pane \in panes /\ conns[c].at = "idle"
      /\ holder' = pane /\ adrift' = FALSE /\ active' = NoOne
      /\ UNCHANGED <<kind, row, panes, proc, ctl, ends, spawn, restore, count>>
      /\ op' = IF active = NoOne THEN Free ELSE [Free EXCEPT !.at = "claiming", !.who = c]
  BY FreeIsHold DEF Claim
<1>2. conns' = [d \in Clients |->
                  IF d = c /\ active = NoOne THEN Token(None)
                  ELSE IF active = d THEN [Idle EXCEPT !.at = "moved"]
                  ELSE IF conns[d].at = "token" THEN Idle ELSE conns[d]]
  BY DEF Claim, Displaced, Revoked
<1>3. \A d \in Clients : conns'[d] \in Conn
                       /\ (conns'[d] = conns[d] \/ conns'[d].at \in {"token", "moved", "idle"})
                       /\ (conns'[d].at = "attached" => active # d)
  BY <1>2, Conns, TokenIsConn, ConnsAreTyped DEF TypeOK
<1>4. conns' \in [Clients -> Conn]
  BY <1>2, <1>3
<1>5. active # NoOne => conns'[c].at = "idle"
  BY <1>1, <1>2, Names, Conns DEF TypeOK, Kept
<1>6. op' \in Hold /\ op'.at \in {"free", "claiming"} /\ (op'.at = "free" => op' = Free)
      /\ (op'.at = "claiming" => op'.who = c /\ active # NoOne)
  <2>1. CASE active = NoOne
    BY <1>1, <2>1, FreeIsHold
  <2>2. CASE active # NoOne
    BY <1>1, <2>2, FreeIsHold DEF Hold, Points
  <2> QED BY <2>1, <2>2
<1>7. Holding' /\ Waiting'
  BY <1>1, <1>5, <1>6 DEF Holding, Waiting, ctl
<1>8. Streams'
  BY <1>1, <1>3, <1>6, StillFade, StreamsKept DEF TypeOK, proc
<1>9. Around'
  BY <1>1 DEF Around, TypeOK, Typed, ends, count
<1> QED BY <1>1, <1>4, <1>6, <1>7, <1>8, <1>9, ClientKeeps DEF proc, ctl, TypeOK, Typed, Kept

\* Whoever was displaced is settled, and the lock released.
LEMMA SettlesKeep ==
  ASSUME IInv, NEW c \in Clients, NEW k \in Conn, Settles(c, k), op' = Free, op.who = c,
         op.at \in {"claiming", "rejoining", "attaching"}, k.at \notin {"planned", "attached"},
         UNCHANGED <<kind, row, panes, proc, ctl, ends, spawn, restore, count, active>>,
         adrift' \in BOOLEAN, holder' = holder \/ (row /\ holder' \in panes)
  PROVE  IInv'
<1> USE DEF IInv
<1>1. op' \in Hold /\ op'.at = "free" /\ active = NoOne
  BY FreeIsHold DEF TypeOK, Kept
<1>2. /\ conns' \in [Clients -> Conn]
      /\ \A d \in Clients : conns'[d] = conns[d] \/ conns'[d].at \notin {"planned", "attached"}
  BY SettledIsConn DEF Settles, TypeOK
<1>3. Holding' /\ Waiting'
  BY <1>1 DEF Holding, Waiting, ctl
<1>4. Streams'
  BY <1>1, <1>2, StillFade, StreamsKept DEF TypeOK, proc
<1>5. Around'
  BY DEF Around, TypeOK, Typed, ends, count
<1> QED BY <1>1, <1>2, <1>3, <1>4, <1>5, ClientKeeps DEF proc, ctl, TypeOK, Typed, Kept

LEMMA ClaimedKeeps ==
  ASSUME IInv, Claimed
  PROVE  IInv'
<1> USE DEF IInv
<1>1. /\ op.at = "claiming" /\ op' = Free /\ Settles(op.who, Token(None))
      /\ UNCHANGED <<kind, place, proc, ctl, active, ends, spawn, restore, count>>
      /\ op.who \in Clients
  BY DEF Claimed, TypeOK, Kept
<1>2. Token(None) \in Conn /\ Token(None).at = "token"
  BY TokenIsConn DEF TypeOK
<1> QED BY <1>1, <1>2, SettlesKeep DEF place, TypeOK, Typed

LEMMA RejoinKeeps ==
  ASSUME IInv, NEW c \in Clients, Rejoin(c)
  PROVE  IInv'
<1> USE DEF IInv
<1>1. /\ op = Free /\ op.at = "free" /\ row /\ holder # NoOne /\ conns[c].at = "idle"
      /\ ptr \in Procs /\ active' = NoOne
      /\ op' = IF active = NoOne THEN Free
               ELSE [at |-> "rejoining", who |-> c, pid |-> ptr, pane |-> holder]
      /\ UNCHANGED <<kind, place, proc, ctl, ends, spawn, restore, count>>
  BY FreeIsHold DEF Rejoin, Current, TypeOK, Typed
<1>2. conns' = [d \in Clients |->
                  IF d = c /\ active = NoOne THEN Token(ptr)
                  ELSE IF active = d THEN [Idle EXCEPT !.at = "moved"] ELSE conns[d]]
  BY DEF Rejoin, Displaced
<1>3. \A d \in Clients : conns'[d] \in Conn
                       /\ (conns'[d] = conns[d] \/ conns'[d].at \in {"token", "moved"})
                       /\ (conns'[d].at = "attached" => active # d)
  BY <1>1, <1>2, Conns, TokenIsConn, ConnsAreTyped DEF TypeOK
<1>4. conns' \in [Clients -> Conn]
  BY <1>2, <1>3
<1>5. active # NoOne => conns'[c].at = "idle"
  BY <1>1, <1>2, Names, Conns DEF TypeOK, Kept
<1>6. op' \in Hold /\ op'.at \in {"free", "rejoining"} /\ (op'.at = "free" => op' = Free)
      /\ (op'.at = "rejoining" => op'.who = c /\ active # NoOne /\ op'.pane = holder)
  <2>1. CASE active = NoOne
    BY <1>1, <2>1, FreeIsHold
  <2>2. CASE active # NoOne
    BY <1>1, <2>2 DEF Hold, Points, TypeOK, Typed
  <2> QED BY <2>1, <2>2
<1>7. Holding' /\ Waiting'
  BY <1>1, <1>5, <1>6 DEF Holding, Waiting, ctl, place
<1>8. Streams'
  BY <1>1, <1>3, <1>6, StillFade, StreamsKept DEF TypeOK, proc
<1>9. Around'
  BY <1>1 DEF Around, TypeOK, Typed, ends, count, place
<1> QED BY <1>1, <1>4, <1>6, <1>7, <1>8, <1>9, ClientKeeps DEF proc, ctl, place, TypeOK, Typed, Kept

LEMMA RejoinedKeeps ==
  ASSUME IInv, Rejoined
  PROVE  IInv'
<1> USE DEF IInv
<1>1. /\ op.at = "rejoining" /\ op' = Free /\ op.who \in Clients
      /\ UNCHANGED <<kind, row, panes, proc, ctl, active, ends, spawn, restore, count>>
      /\ adrift' \in BOOLEAN /\ (holder' = holder \/ (row /\ holder' \in panes))
  BY DEF Rejoined, TypeOK, Typed, Kept
<1>2. op.pid \in {None} \union Procs
  BY DEF TypeOK, Typed
<1>3. PICK k \in Conn : k.at \in {"token", "idle"} /\ Settles(op.who, k)
  BY <1>2, TokenIsConn, Conns DEF Rejoined, TypeOK
<1> QED BY <1>1, <1>3, SettlesKeep

LEMMA ConsumeKeeps ==
  ASSUME IInv, NEW c \in Clients, Consume(c)
  PROVE  IInv'
<1> USE DEF IInv
<1>1. /\ conns[c].at = "token" /\ conns[c] \in Conn
      /\ UNCHANGED <<kind, place, proc, ctl, active, op, ends, spawn, restore, count>>
  BY ConnsAreTyped DEF Consume, TypeOK
<1>2. conns' = [conns EXCEPT ![c] = [conns[c] EXCEPT !.at = "resolving"]]
  BY Zenon DEF Consume
<1>3. [conns[c] EXCEPT !.at = "resolving"] \in Conn /\ [conns[c] EXCEPT !.at = "resolving"].at = "resolving"
  BY <1>1 DEF Conn
<1>4. /\ conns' \in [Clients -> Conn]
      /\ \A d \in Clients : conns'[d] = conns[d] \/ (d = c /\ conns'[d].at = "resolving")
  BY <1>2, <1>3, ConnsAreTyped DEF TypeOK
<1>5. active # NoOne => conns'[active].at = "attached"
  BY <1>1, <1>4 DEF TypeOK, Typed, Kept
<1>6. Waiting'
  <2>1. op.at \in {"claiming", "rejoining", "attaching"} => op.who \in Clients /\ op.who # c
    BY <1>1 DEF TypeOK, Kept, Waiting
  <2>2. op.at = "launching" /\ op.who \in Clients => op.who # c
    BY <1>1 DEF Waiting
  <2>3. op' = op /\ kind' = kind /\ mode' = mode /\ gen' = gen
    BY <1>1 DEF ctl
  <2>4. op.at \in {"claiming", "rejoining", "attaching"} => conns'[op.who] = conns[op.who]
    BY <1>4, <2>1
  <2>5. op.at = "launching" /\ op.who \in Clients => conns'[op.who] = conns[op.who]
    BY <1>4, <2>2
  <2> QED BY <2>3, <2>4, <2>5 DEF Waiting
<1>7. Streams'
  BY <1>1, <1>4, StillFade, StreamsKept DEF TypeOK, proc
<1>8. Around' /\ Holding'
  BY <1>1 DEF Around, Holding, TypeOK, Typed, ends, count, place, ctl, proc
<1> QED BY <1>1, <1>4, <1>5, <1>6, <1>7, <1>8, ConnsAreTyped, ClientKeeps
    DEF proc, ctl, place, TypeOK, Typed, Kept

\* A client is refused, or goes.
LEMMA RefusedKeeps ==
  ASSUME IInv, NEW c \in Clients, Refused(c), op.who # c, op' = op,
         active' = active \/ active = c, active' \in {active, NoOne}, active' # c,
         UNCHANGED <<kind, place, proc, ctl, ends, spawn, restore, count>>
  PROVE  IInv'
<1> USE DEF IInv
<1>1. /\ conns' \in [Clients -> Conn] /\ conns'[c] = Idle
      /\ \A d \in Clients : d # c => conns'[d] = conns[d]
  BY Conns, ConnsAreTyped DEF Refused, TypeOK
<1>2. active' # NoOne => conns'[active'].at = "attached"
  BY <1>1 DEF TypeOK, Typed, Kept
<1>3. Waiting'
  <2>1. op.at \in {"claiming", "rejoining", "attaching"} => op.who \in Clients
    BY DEF TypeOK, Kept
  <2>2. op.who \in Clients => conns'[op.who] = conns[op.who]
    BY <1>1
  <2>3. kind' = kind /\ mode' = mode /\ gen' = gen
    BY DEF ctl
  <2> QED BY <2>1, <2>2, <2>3 DEF Waiting
<1>4. Streams'
  <2>1. \A d \in Clients : conns'[d] = conns[d] \/ conns'[d].at \notin {"planned", "attached"}
    BY <1>1, Conns
  <2>2. active' = active \/ \A d \in Clients : conns'[d].at = "attached" => active # d
    BY <1>1, Conns
  <2> QED BY <2>1, <2>2, StillFade, StreamsKept DEF TypeOK, proc
<1>5. Around' /\ Holding'
  BY DEF Around, Holding, TypeOK, Typed, ends, count, place, ctl, proc
<1>6. op.at \in {"claiming", "rejoining", "attaching"} => op.who \in Clients /\ active' = NoOne
  BY DEF TypeOK, Kept
<1>7. /\ active' \in Clients \union {NoOne} /\ row' \in BOOLEAN /\ ptr' \in {None} \union Procs
      /\ holder' \in {NoOne} \union panes' /\ (~row' => ptr' = None /\ holder' = NoOne)
  BY DEF TypeOK, Typed, Kept, place, proc
<1> QED BY <1>1, <1>2, <1>3, <1>4, <1>5, <1>6, <1>7, ConnsAreTyped, ClientKeeps
    DEF proc, ctl, place, TypeOK

LEMMA CloseKeeps ==
  ASSUME IInv, NEW c \in Clients, Close(c)
  PROVE  IInv'
BY RefusedKeeps, Names DEF Close

LEMMA PlannedKeeps ==
  ASSUME IInv, NEW c \in Clients, Planned(c, ptr), conns[c].at = "resolving", Current,
         op = Free, op' = op,
         UNCHANGED <<kind, place, proc, ctl, active, ends, spawn, restore, count>>
  PROVE  IInv'
<1> USE DEF IInv
<1>1. ptr \in Procs /\ procs[ptr] = "live" /\ op.at = "free"
  BY FreeIsHold DEF Current, Live, TypeOK, Typed
<1>2. conns[c] \in Conn
  BY ConnsAreTyped DEF TypeOK
<1> DEFINE k == [conns[c] EXCEPT !.at = "planned", !.pid = ptr]
<1>3. k \in Conn /\ k.at = "planned" /\ k.pid = ptr
  BY <1>1, <1>2 DEF Conn
<1>4. conns' = [conns EXCEPT ![c] = k]
  BY DEF Planned
<1> HIDE DEF k
<1>5. conns' \in [Clients -> Conn] /\ conns'[c] = k /\ \A d \in Clients : d # c => conns'[d] = conns[d]
  BY <1>3, <1>4, ConnsAreTyped DEF TypeOK
<1>6. active # NoOne => conns'[active].at = "attached"
  BY <1>5 DEF TypeOK, Typed, Kept
<1>7. Streams'
  <2> SUFFICES ASSUME NEW d \in Clients
               PROVE  /\ conns'[d].at \in {"planned", "attached"} =>
                           /\ conns'[d].pid \in Procs /\ procs'[conns'[d].pid] # "none"
                           /\ op'.at = "launching" => conns'[d].pid # op'.pid
                      /\ conns'[d].at = "attached" /\ Live(conns[d].pid)' => active' = d
    BY DEF Streams, Live
  <2>1. CASE d = c
    BY <1>1, <1>3, <1>5, <2>1 DEF proc
  <2>2. CASE d # c
    BY <1>1, <1>5, <2>2 DEF Streams, Live, proc
  <2> QED BY <2>1, <2>2
<1>8. Waiting' /\ Holding' /\ Around'
  BY <1>1 DEF Waiting, Around, Holding, TypeOK, Typed, ends, count, place, ctl, proc
<1>9. /\ row' \in BOOLEAN /\ ptr' \in {None} \union Procs
      /\ holder' \in {NoOne} \union panes' /\ (~row' => ptr' = None /\ holder' = NoOne)
  BY DEF TypeOK, Typed, Kept, place, proc
<1> QED BY <1>1, <1>5, <1>6, <1>7, <1>8, <1>9, ConnsAreTyped, ClientKeeps
    DEF proc, ctl, place, TypeOK, Typed

LEMMA AdmitKeeps ==
  ASSUME IInv, NEW c \in Clients, Admit(c)
  PROVE  IInv'
<1> USE DEF IInv
<1>1. /\ op = Free /\ op.at = "free" /\ op.who # c /\ conns[c].at = "planned" /\ conns[c] \in Conn
      /\ active # c
      /\ UNCHANGED <<kind, place, proc, ctl, ends, spawn, restore, count>>
  BY FreeIsHold, Names, ConnsAreTyped DEF Admit, TypeOK, Kept
<1>2. CASE Refused(c) /\ UNCHANGED <<op, active>>
  BY <1>1, <1>2, RefusedKeeps
<1>3. ASSUME Admits(c), op' = [Free EXCEPT !.at = "attaching", !.who = c, !.pid = conns[c].pid],
             active' = NoOne,
             conns' = [d \in Clients |->
                         IF active = d THEN [Idle EXCEPT !.at = "moved"]
                         ELSE IF conns[d].at = "token" /\ conns[c].expect = None THEN Idle
                         ELSE conns[d]]
      PROVE  IInv'
  <2>1. conns[c].pid \in Procs /\ procs[conns[c].pid] # "none"
    BY <1>1 DEF Streams
  <2>2. op' \in Hold /\ op'.at = "attaching" /\ op'.who = c /\ op'.pid = conns[c].pid
    BY <1>3, <2>1, FreeIsHold DEF Hold, Points
  <2>3. \A d \in Clients : conns'[d] \in Conn
                         /\ (conns'[d] = conns[d] \/ conns'[d].at \in {"moved", "idle"})
                         /\ (conns'[d].at = "attached" => active # d)
    BY <1>3, Conns, ConnsAreTyped DEF TypeOK
  <2>4. conns' \in [Clients -> Conn] /\ conns'[c] = conns[c]
    BY <1>1, <1>3, <2>3
  <2>5. kind = "agent" => mode = "terminal" /\ conns[c].gen = gen
    BY <1>3 DEF Admits, TerminalFor
  <2>6. Waiting' /\ Holding'
    BY <1>1, <2>1, <2>2, <2>4, <2>5 DEF Waiting, Holding, ctl, proc
  <2>7. Streams'
    BY <1>1, <1>3, <2>2, <2>3, StillFade, StreamsKept DEF TypeOK, proc
  <2>8. Around'
    BY <1>1 DEF Around, TypeOK, Typed, ends, count, place
  <2> QED BY <1>1, <1>3, <2>2, <2>4, <2>6, <2>7, <2>8, ClientKeeps
      DEF proc, ctl, place, TypeOK, Typed, Kept
<1> QED BY <1>2, <1>3 DEF Admit, Displaced, Revoked

LEMMA AttachedKeeps ==
  ASSUME IInv, Attached
  PROVE  IInv'
<1> USE DEF IInv
<1>1. /\ op.at = "attaching" /\ op' = Free /\ op.who \in Clients /\ active = NoOne
      /\ op.pid \in Procs /\ procs[op.pid] # "none"
      /\ UNCHANGED <<kind, place, proc, ctl, ends, spawn, restore, count>>
  BY DEF Attached, Holding, TypeOK, Kept
<1>2. CASE Settles(op.who, Idle) /\ UNCHANGED active
  BY <1>1, <1>2, Conns, SettlesKeep DEF place, TypeOK, Typed
<1>3. ASSUME NEW c \in Clients, c = op.who, active' = c,
             Settles(c, [Idle EXCEPT !.at = "attached", !.pid = op.pid])
      PROVE  IInv'
  <2> DEFINE k == [Idle EXCEPT !.at = "attached", !.pid = op.pid]
  <2>1. k \in Conn /\ k.at = "attached" /\ k.pid = op.pid
    BY <1>1 DEF Conn, Idle, None
  <2> HIDE DEF k
  <2>2. conns' = [d \in Clients |-> IF d = c THEN k ELSE Settled(d)]
    BY <1>3 DEF Settles, k
  <2>3. /\ conns' \in [Clients -> Conn] /\ conns'[c] = k
        /\ \A d \in Clients : d # c => conns'[d] = conns[d] \/ conns'[d].at = "idle"
    BY <2>1, <2>2, SettledIsConn DEF TypeOK
  <2>4. op' \in Hold /\ op'.at = "free"
    BY <1>1, FreeIsHold
  <2>5. Streams'
    <3> SUFFICES ASSUME NEW d \in Clients
                 PROVE  /\ conns'[d].at \in {"planned", "attached"} =>
                             /\ conns'[d].pid \in Procs /\ procs'[conns'[d].pid] # "none"
                             /\ op'.at = "launching" => conns'[d].pid # op'.pid
                        /\ conns'[d].at = "attached" /\ Live(conns[d].pid)' => active' = d
      BY DEF Streams, Live
    <3>1. CASE d = c
      BY <1>1, <1>3, <2>1, <2>3, <2>4, <3>1 DEF proc
    <3>2. CASE d # c /\ conns'[d].at = "idle"
      BY <3>2
    <3>3. CASE d # c /\ conns'[d] = conns[d]
      BY <1>1, <2>4, <3>3, Names DEF Streams, Live, proc
    <3> QED BY <2>3, <3>1, <3>2, <3>3
  <2>6. Waiting' /\ Holding' /\ Around'
    BY <1>1, <2>4 DEF Waiting, Holding, Around, TypeOK, Typed, ends, count, place, ctl
  <2> QED BY <1>1, <1>3, <2>1, <2>3, <2>4, <2>5, <2>6, ClientKeeps
      DEF proc, ctl, place, TypeOK, Typed, Kept
<1> QED BY <1>1, <1>2, <1>3 DEF Attached

LEMMA CollectKeeps ==
  ASSUME IInv, Collect
  PROVE  IInv'
<1> USE DEF IInv
<1>1. /\ row /\ holder = NoOne /\ active = NoOne /\ row' = FALSE /\ ptr' = None
      /\ UNCHANGED <<kind, panes, holder, adrift, procs, lost, ctl, active, op, ends, spawn, restore, count>>
  BY DEF Collect
<1>2. conns' = [d \in Clients |-> IF conns[d].at = "token" THEN Idle ELSE conns[d]]
  BY DEF Collect, Revoked
<1>3. conns' \in [Clients -> Conn]
  BY <1>2, Conns, ConnsAreTyped DEF TypeOK
<1>4. \A d \in Clients : conns'[d] = conns[d] \/ (conns[d].at = "token" /\ conns'[d].at = "idle")
  BY <1>2, Conns
<1>5. Waiting'
  <2>1. op.at \in {"claiming", "rejoining", "attaching"} => op.who \in Clients /\ conns[op.who].at # "token"
    BY DEF TypeOK, Kept, Waiting
  <2>2. op.at = "launching" /\ op.who \in Clients => conns[op.who].at # "token"
    BY DEF Waiting
  <2>3. op' = op /\ kind' = kind /\ mode' = mode /\ gen' = gen
    BY <1>1 DEF ctl
  <2>4. op.at \in {"claiming", "rejoining", "attaching"} => conns'[op.who] = conns[op.who]
    BY <1>4, <2>1
  <2>5. op.at = "launching" /\ op.who \in Clients => conns'[op.who] = conns[op.who]
    BY <1>4, <2>2
  <2> QED BY <2>3, <2>4, <2>5 DEF Waiting
<1>6. Streams'
  BY <1>1, <1>4, StillFade, StreamsKept DEF TypeOK
<1>7. Holding' /\ Around'
  BY <1>1 DEF Holding, Around, TypeOK, Typed, ends, count, ctl
<1> QED BY <1>1, <1>3, <1>5, <1>6, <1>7, ConnsAreTyped, ClientKeeps DEF ctl, TypeOK, Typed, Kept

-----------------------------------------------------------------------------
(* The launches. *)

\* Nobody holds the lock, and the row's process is gone: there is none.
LEMMA NoController ==
  ASSUME IInv, row, op.at # "launching"
  PROVE  /\ \A p \in Controllers : p = ptr
         /\ ~Current => Controllers = {}
<1>1. \A p \in Controllers : p = ptr /\ Live(p) /\ p \in Procs
  BY DEF IInv, Alone, Controllers
<1>2. ~Current => Controllers = {}
  BY <1>1 DEF Current, None, Procs
<1> QED BY <1>1, <1>2

LEMMA NoWorker ==
  ASSUME IInv, mode # "fluidcast", op.at \notin {"building", "closing", "unloading"}
  PROVE  worker = "none"
BY DEF IInv, TypeOK, Kept

LEMMA LaunchesKeep ==
  ASSUME IInv, NEW who \in Clients \union Hands, Launches(who), row,
         Controllers \subseteq lost', lost \subseteq lost', lost' \subseteq Procs, worker' = "none",
         who \in Clients => conns[who].at = "resolving" /\ conns[who].expect = None,
         mode' \in {"terminal", "failed"}, kind = "terminal" => mode' = "terminal", gen' \in Nat,
         UNCHANGED <<kind, place, conns, active>>, Around',
         active # NoOne => op.at \notin {"claiming", "rejoining", "attaching"}
  PROVE  IInv'
<1> USE DEF IInv
<1>1. PICK p \in Procs : /\ procs[p] = "none" /\ procs' = [procs EXCEPT ![p] = "live"]
                         /\ op' = [Free EXCEPT !.at = "launching", !.who = who, !.pid = p]
  BY DEF Launches
<1>2. op' \in Hold /\ op'.at = "launching" /\ op'.who = who /\ op'.pid = p
  BY <1>1, FreeIsHold DEF Hold, Points
<1>3. /\ procs' \in [Procs -> {"none", "live", "over"}] /\ procs'[p] = "live"
      /\ \A q \in Procs : q # p => procs'[q] = procs[q]
  BY <1>1 DEF TypeOK, Typed
<1>4. UNCHANGED <<row, panes, holder, adrift, ptr>>
  BY DEF place, Launches
<1>5. Typed'
  BY <1>2, <1>3, <1>4 DEF TypeOK, Typed, Around, Hold
<1>6. Kept'
  BY <1>2, <1>4 DEF TypeOK, Kept
<1>7. \A q \in Controllers' : q = p
  BY <1>3 DEF Controllers, Live
<1>8. Alone'
  BY <1>2, <1>7 DEF Alone
<1>9. Holding'
  BY <1>2, <1>3 DEF Holding
<1>10. Waiting'
  BY <1>2 DEF Waiting
<1>11. Streams'
  <2> SUFFICES ASSUME NEW d \in Clients, conns[d].at \in {"planned", "attached"}
               PROVE  /\ conns[d].pid \in Procs /\ procs'[conns[d].pid] # "none"
                      /\ conns[d].pid # p
                      /\ conns[d].at = "attached" /\ procs'[conns[d].pid] = "live" => active = d
    BY <1>2 DEF Streams, Live
  <2>1. conns[d].pid \in Procs /\ procs[conns[d].pid] # "none"
    BY DEF Streams
  <2>2. conns[d].pid # p /\ procs'[conns[d].pid] = procs[conns[d].pid]
    BY <1>1, <1>3, <2>1
  <2> QED BY <2>1, <2>2 DEF Streams, Live
<1> QED BY <1>5, <1>6, <1>8, <1>9, <1>10, <1>11 DEF TypeOK

LEMMA ResolveKeeps ==
  ASSUME IInv, NEW c \in Clients, Resolve(c)
  PROVE  IInv'
<1> USE DEF IInv
<1>1. /\ op = Free /\ op.at = "free" /\ op.who = NoOne /\ conns[c].at = "resolving"
      /\ UNCHANGED <<kind, place, ctl, active, ends, spawn, restore>>
  BY FreeIsHold DEF Resolve
<1>2. CASE Planned(c, ptr) /\ Current /\ Fine /\ UNCHANGED <<op, proc>>
  BY <1>1, <1>2, PlannedKeeps DEF Fine
<1>3. CASE /\ row /\ TerminalFor(c) /\ ~Current /\ conns[c].expect = None
           /\ Launches(c) /\ Fine /\ UNCHANGED <<conns, lost>>
  <2>1. mode = "terminal"
    BY <1>3 DEF TerminalFor, Holding, TypeOK, Typed
  <2>2. worker = "none" /\ Controllers = {}
    BY <1>1, <1>3, <2>1, NoWorker, NoController
  <2>3. Around'
    BY <1>1, <1>3 DEF Around, TypeOK, Typed, ends, count, place, Fine
  <2> QED BY <1>1, <1>3, <2>1, <2>2, <2>3, LaunchesKeep DEF ctl, TypeOK, Typed
<1>4. CASE Refused(c) /\ Fine /\ UNCHANGED <<op, proc>>
  <2>1. active # c
    BY <1>1, Names DEF TypeOK, Kept
  <2> QED BY <1>1, <1>4, <2>1, Names, RefusedKeeps DEF Fine, TypeOK, Typed
<1> QED BY <1>2, <1>3, <1>4 DEF Resolve

\* A launch fails, or is given up: its process is gone.
LEMMA LaunchEnds ==
  ASSUME IInv, op.at = "launching", Kills(op.pid), op' = Free,
         UNCHANGED <<kind, place, ptr, lost, ctl, active>>, Around',
         conns' \in [Clients -> Conn],
         \A d \in Clients : conns'[d] = conns[d] \/ conns'[d].at \notin {"planned", "attached"},
         active # NoOne => conns'[active] = conns[active]
  PROVE  IInv'
<1> USE DEF IInv
<1>1. op' \in Hold /\ op'.at = "free"
  BY FreeIsHold
<1>2. Fades /\ \A q \in Procs : q = op.pid => procs'[q] # "live"
  BY KillsFade DEF TypeOK
<1>3. UNCHANGED <<row, panes, holder, adrift, mode, gen, worker>>
  BY DEF place, ctl
<1>4. Typed'
  BY <1>1, <1>2, <1>3 DEF TypeOK, Typed, Around, Conn, Hold, Fades
<1>5. Kept'
  BY <1>1, <1>3 DEF TypeOK, Kept
<1>6. Controllers' = {}
  <2>1. Controllers' \subseteq Controllers
    BY <1>2, FadingShrinks DEF TypeOK
  <2>2. \A p \in Controllers : p = op.pid /\ p \in Procs
    BY DEF Alone, Controllers
  <2> QED BY <1>2, <2>1, <2>2 DEF Controllers, Live
<1>7. Alone'
  BY <1>1, <1>6 DEF Alone
<1>8. Holding' /\ Waiting'
  BY <1>1, <1>3 DEF Holding, Waiting
<1>9. Streams'
  BY <1>1, <1>2, StreamsKept DEF TypeOK
<1> QED BY <1>4, <1>5, <1>7, <1>8, <1>9 DEF TypeOK

LEMMA LaunchFailsKeeps ==
  ASSUME IInv, LaunchFails
  PROVE  IInv'
<1> USE DEF IInv
<1>1. /\ op.at = "launching" /\ op' = Free /\ Kills(op.pid)
      /\ UNCHANGED <<kind, place, ptr, lost, ctl, active, ends, restore>>
  BY DEF LaunchFails
<1>2. /\ conns' \in [Clients -> Conn]
      /\ \A d \in Clients : conns'[d] = conns[d] \/ (d = op.who /\ conns'[d].at = "idle")
  BY Conns, ConnsAreTyped DEF LaunchFails, Refused, TypeOK
<1>3. active # NoOne => conns'[active] = conns[active]
  BY <1>1, <1>2 DEF Waiting, TypeOK, Typed, Kept
<1>4. Around'
  <2>1. spawn' \in [at : {"none", "checking", "done"}, pid : {None} \union Procs]
    BY DEF LaunchFails, Spawned, TypeOK, Typed
  <2> QED BY <1>1, <2>1 DEF LaunchFails, Fault, Around, TypeOK, Typed, ends, place
<1> QED BY <1>1, <1>2, <1>3, <1>4, LaunchEnds

LEMMA CloseHoldingKeeps ==
  ASSUME IInv, NEW c \in Clients, CloseHolding(c)
  PROVE  IInv'
<1> USE DEF IInv
<1>1. /\ op.who = c /\ op' = Free /\ Settles(c, Idle)
      /\ UNCHANGED <<kind, place, ptr, lost, ctl, active, ends, spawn, restore, count>>
  BY DEF CloseHolding
<1>2. op.at \in {"claiming", "rejoining", "attaching", "launching"}
  <2>1. c \notin {"none", "switch", "pane", "worktree", "spawn"}
    BY Names DEF Hands
  <2>2. op.at # "free"
    BY <1>1, <2>1, FreeIsHold DEF Holding, NoOne
  <2>3. op.at \in Points
    BY DEF TypeOK, Typed
  <2> QED BY <1>1, <2>1, <2>2, <2>3 DEF Holding, Points
<1>3. CASE op.at # "launching"
  <2>1. UNCHANGED proc
    BY <1>1, <1>3 DEF CloseHolding, proc
  <2> QED BY <1>1, <1>2, <1>3, <2>1, Conns, SettlesKeep DEF place, TypeOK, Typed
<1>4. CASE op.at = "launching"
  <2>1. Kills(op.pid)
    BY <1>4 DEF CloseHolding
  <2>2. /\ conns' \in [Clients -> Conn]
        /\ \A d \in Clients : \/ conns'[d] = conns[d]
                              \/ conns'[d].at = "idle" /\ (d = c \/ conns[d].at = "moved")
    <3>1. conns' = [d \in Clients |-> IF d = c THEN Idle ELSE Settled(d)]
      BY <1>1 DEF Settles
    <3> QED BY <3>1, Conns, SettledIsConn DEF TypeOK
  <2>3. active # NoOne => conns'[active] = conns[active]
    BY <1>1, <1>4, <2>2 DEF Waiting, TypeOK, Typed, Kept
  <2>4. Around'
    BY <1>1 DEF Around, TypeOK, Typed, ends, count, place
  <2> QED BY <1>1, <1>4, <2>1, <2>2, <2>3, <2>4, LaunchEnds
<1> QED BY <1>3, <1>4

LEMMA LaunchedKeeps ==
  ASSUME IInv, Launched
  PROVE  IInv'
<1> USE DEF IInv
<1>1. /\ op.at = "launching" /\ op' = Free /\ ptr' = (IF row THEN op.pid ELSE ptr)
      /\ UNCHANGED <<kind, row, panes, holder, procs, lost, ctl, active, ends, restore, count>>
      /\ adrift' \in BOOLEAN
  BY DEF Launched, TypeOK, Typed
<1>2. op' \in Hold /\ op'.at = "free" /\ op.pid \in Procs /\ procs[op.pid] # "none"
  BY <1>1, FreeIsHold DEF Holding
<1>3. /\ conns' \in [Clients -> Conn]
      /\ \A d \in Clients : \/ conns'[d] = conns[d]
                            \/ d = op.who /\ conns'[d].at = "planned" /\ conns'[d].pid = op.pid
  <2>1. CASE op.who \notin Clients
    BY <2>1, ConnsAreTyped DEF Launched, TypeOK
  <2>2. CASE op.who \in Clients
    <3> DEFINE k == [conns[op.who] EXCEPT !.at = "planned", !.pid = op.pid]
    <3>1. k \in Conn /\ k.at = "planned" /\ k.pid = op.pid
      BY <1>2, <2>2, ConnsAreTyped DEF Conn, TypeOK
    <3>2. conns' = [conns EXCEPT ![op.who] = k]
      BY <2>2 DEF Launched, Planned
    <3> HIDE DEF k
    <3> QED BY <2>2, <3>1, <3>2, ConnsAreTyped DEF TypeOK
  <2> QED BY <2>1, <2>2
<1>4. active # NoOne => conns'[active].at = "attached"
  BY <1>1, <1>3 DEF Waiting, TypeOK, Typed, Kept
<1>5. spawn' \in [at : {"none", "checking", "done"}, pid : {None} \union Procs]
  BY <1>2 DEF Launched, TypeOK, Typed
<1>6. Typed'
  BY <1>1, <1>2, <1>3, <1>5 DEF TypeOK, Typed, Conn, Hold, ctl, ends, count
<1>7. Kept'
  BY <1>1, <1>2, <1>4 DEF TypeOK, Kept, ctl
<1>8. Alone'
  BY <1>1, <1>2 DEF Alone, Controllers, Live, ctl
<1>9. Holding' /\ Waiting'
  BY <1>1, <1>2 DEF Holding, Waiting, ctl
<1>10. Streams'
  <2> SUFFICES ASSUME NEW d \in Clients
               PROVE  /\ conns'[d].at \in {"planned", "attached"} =>
                           conns'[d].pid \in Procs /\ procs[conns'[d].pid] # "none"
                      /\ conns'[d].at = "attached" /\ procs[conns'[d].pid] = "live" => active = d
    BY <1>1, <1>2 DEF Streams, Live
  <2> QED BY <1>2, <1>3 DEF Streams, Live
<1> QED BY <1>6, <1>7, <1>8, <1>9, <1>10 DEF TypeOK

-----------------------------------------------------------------------------
(* The controllers. *)

\* Where the lock is not held for a client, and no process is launched.
LEMMA ControlKeeps ==
  ASSUME IInv, op.at \notin {"launching", "claiming", "rejoining", "attaching"},
         UNCHANGED <<kind, place, ptr, lost, cli>>, Fades, Around', op' \in Hold,
         op'.at \in {"free", "stopping", "building", "closing", "unloading", "ending"},
         mode' \in {"terminal", "fluidcast", "failed"}, gen' \in Nat,
         worker' \in {"none", "building", "live", "ended", "stopping"},
         worker' # "none" => /\ worker # "none" \/ Controllers' = {}
                             /\ mode' = "fluidcast" \/ op'.at \in {"building", "closing", "unloading"},
         mode' = "fluidcast" => worker' \in {"live", "ended"},
         Holding'
  PROVE  IInv'
<1> USE DEF IInv
<1>1. UNCHANGED <<row, panes, holder, adrift, conns, active>>
  BY DEF place, cli
<1>2. Typed'
  BY <1>1 DEF TypeOK, Typed, Around, Hold, Fades
<1>3. Kept'
  BY <1>1 DEF TypeOK, Kept
<1>4. Alone'
  BY <1>1, AloneKept DEF TypeOK, Typed
<1>5. Waiting'
  BY DEF Waiting
<1>6. Streams'
  BY <1>1, StreamsKept DEF TypeOK
<1> QED BY <1>2, <1>3, <1>4, <1>5, <1>6 DEF TypeOK

LEMMA SwitchToFluidcastKeeps ==
  ASSUME IInv, SwitchToFluidcast
  PROVE  IInv'
<1> USE DEF IInv
<1>1. /\ op = Free /\ op.at = "free" /\ kind = "agent" /\ row /\ mode # "fluidcast"
      /\ UNCHANGED <<kind, place, proc, mode, gen, cli, ends, spawn, restore, count>>
  BY FreeIsHold DEF SwitchToFluidcast
<1>2. worker = "none"
  BY <1>1, NoWorker
<1>3. Around' /\ Fades
  BY <1>1, StillFade DEF Around, TypeOK, Typed, ends, count, place, proc
<1>4. CASE Current
  <2>1. op' \in Hold /\ op'.at = "stopping" /\ op'.who = "switch" /\ worker' = worker
    <3>1. op' = [Free EXCEPT !.at = "stopping", !.who = "switch"] /\ worker' = worker
      BY <1>4 DEF SwitchToFluidcast
    <3> QED BY <3>1, FreeIsHold DEF Hold, Points, Hands
  <2>2. Holding'
    BY <1>1, <2>1 DEF Holding
  <2> QED BY <1>1, <1>2, <1>3, <2>1, <2>2, ControlKeeps DEF proc, TypeOK, Typed
<1>5. CASE ~Current
  <2>1. op' \in Hold /\ op'.at = "building" /\ op'.who = "switch" /\ worker' = "building"
    <3>1. op' = [Free EXCEPT !.at = "building", !.who = "switch"] /\ worker' = "building"
      BY <1>5 DEF SwitchToFluidcast
    <3> QED BY <3>1, FreeIsHold DEF Hold, Points, Hands
  <2>2. Holding'
    BY <1>1, <2>1 DEF Holding
  <2>3. Controllers = {} /\ Controllers' = Controllers
    BY <1>1, <1>5, NoController DEF Controllers, Live, proc
  <2> QED BY <1>1, <1>3, <2>1, <2>2, <2>3, ControlKeeps DEF proc, TypeOK, Typed
<1> QED BY <1>4, <1>5

LEMMA StoppedKeeps ==
  ASSUME IInv, Stopped
  PROVE  IInv'
<1> USE DEF IInv
<1>1. /\ op.at = "stopping" /\ kind = "agent" /\ op.who = "switch" /\ mode # "fluidcast"
      /\ UNCHANGED <<kind, place, ptr, lost, cli, ends, spawn, restore, count>>
  BY DEF Stopped, Holding, HandsOff, Fine, Fails
<1>2. worker = "none"
  BY <1>1, NoWorker
<1>3. Around'
  BY <1>1 DEF Around, TypeOK, Typed, ends, count, place
<1>4. CASE row /\ HandsOff /\ op' = [op EXCEPT !.at = "building"] /\ worker' = "building"
           /\ UNCHANGED <<mode, gen>>
  <2>1. op' \in Hold /\ op'.at = "building" /\ op'.who = "switch"
    BY <1>1, <1>4, ConnsAreTyped DEF Hold, Points, TypeOK
  <2>2. Fades /\ \A q \in Procs : q = ptr => procs'[q] # "live"
    BY <1>4, KillsFade DEF HandsOff, TypeOK
  <2>3. Controllers' = {}
    <3>1. Controllers' \subseteq Controllers
      BY <1>1, <2>2, FadingShrinks DEF TypeOK
    <3>2. \A p \in Controllers : p = ptr /\ p \in Procs
      BY <1>1, <1>4, NoController DEF Controllers
    <3> QED BY <2>2, <3>1, <3>2 DEF Controllers, Live
  <2>4. Holding'
    BY <1>1, <1>4, <2>1 DEF Holding
  <2> QED BY <1>1, <1>3, <1>4, <2>1, <2>2, <2>3, <2>4, ControlKeeps DEF TypeOK, Typed
<1>5. CASE Fails /\ UNCHANGED <<procs, worker>>
  <2>1. op' \in Hold /\ op'.at = "free" /\ op' = Free /\ mode' = "failed" /\ gen' \in Nat
    BY <1>5, FreeIsHold DEF Fails, Advances, TypeOK, Typed
  <2>2. Holding'
    BY <1>1, <2>1 DEF Holding
  <2>3. Fades
    BY <1>5, StillFade DEF TypeOK
  <2> QED BY <1>1, <1>2, <1>3, <1>5, <2>1, <2>2, <2>3, ControlKeeps
<1> QED BY <1>4, <1>5 DEF Stopped

LEMMA StopFailsKeeps ==
  ASSUME IInv, StopFails
  PROVE  IInv'
<1> USE DEF IInv
<1>1. /\ op.at = "stopping" /\ kind = "agent" /\ mode # "fluidcast"
      /\ UNCHANGED <<kind, place, proc, worker, cli, ends, spawn, restore>>
      /\ faults' \in Nat /\ restarts' \in Nat
  BY DEF StopFails, Holding, Fault, TypeOK, Typed
<1>2. worker = "none"
  BY <1>1, NoWorker
<1>3. Around' /\ Fades
  BY <1>1, StillFade DEF Around, TypeOK, Typed, ends, place, proc
<1>4. op' \in Hold /\ op'.at = "free" /\ op' = Free /\ mode' = "failed" /\ gen' \in Nat
  BY FreeIsHold DEF StopFails, Fails, Advances, TypeOK, Typed
<1>5. Holding'
  BY <1>1, <1>4 DEF Holding
<1> QED BY <1>1, <1>2, <1>3, <1>4, <1>5, ControlKeeps DEF proc

LEMMA BuildKeeps ==
  ASSUME IInv, Built \/ BuildFails
  PROVE  IInv'
<1> USE DEF IInv
<1>1. /\ op.at = "building" /\ op' = Free /\ kind = "agent" /\ worker = "building"
      /\ UNCHANGED <<kind, place, proc, cli, ends, spawn, restore>>
      /\ gen' \in Nat /\ faults' \in Nat /\ restarts' \in Nat
      /\ (mode' = "fluidcast" /\ worker' = "live") \/ (mode' = "failed" /\ worker' = "none")
  <2>1. CASE Built
    <3>1. /\ op.at = "building" /\ op' = Free /\ mode' = "fluidcast" /\ worker' = "live" /\ gen' = gen + 1
          /\ UNCHANGED <<kind, place, proc, cli, ends, spawn, restore, count>>
      BY <2>1, Zenon DEF Built, Advances
    <3>2. faults' \in Nat /\ restarts' \in Nat /\ gen' \in Nat
      BY <3>1 DEF count, TypeOK, Typed
    <3>3. kind = "agent" /\ worker = "building"
      BY <3>1 DEF Holding
    <3>4. UNCHANGED <<kind, place, proc, cli, ends, spawn, restore>>
      BY <3>1
    <3> QED BY <3>1, <3>2, <3>3, <3>4, Zenon
  <2>2. CASE BuildFails
    BY <2>2 DEF BuildFails, Fails, Advances, Holding, Fault, TypeOK, Typed
  <2> QED BY <2>1, <2>2
<1>2. Around' /\ Fades
  BY <1>1, StillFade DEF Around, TypeOK, Typed, ends, place, proc
<1>3. op' \in Hold /\ op'.at = "free"
  BY <1>1, FreeIsHold
<1>4. Holding'
  BY <1>1, <1>3 DEF Holding
<1> QED BY <1>1, <1>2, <1>3, <1>4, ControlKeeps DEF proc

LEMMA SwitchToTerminalKeeps ==
  ASSUME IInv, SwitchToTerminal
  PROVE  IInv'
<1> USE DEF IInv
<1>1. /\ op = Free /\ op.at = "free" /\ kind = "agent" /\ row
      /\ UNCHANGED <<kind, place, lost, cli, ends, spawn, restore, count>>
      /\ mode' = "terminal" /\ gen' \in Nat
  <2>1. BackToTerminal
    BY DEF SwitchToTerminal, Switches
  <2> QED BY <2>1, FreeIsHold DEF SwitchToTerminal, BackToTerminal, TypeOK, Typed
<1>2. Around'
  BY <1>1 DEF Around, TypeOK, Typed, ends, count, place
<1>3. CASE mode # "fluidcast" /\ ~Current /\ Launches("switch") /\ UNCHANGED worker
  <2>1. worker = "none" /\ Controllers = {}
    BY <1>1, <1>3, NoWorker, NoController
  <2>2. "switch" \in Hands /\ "switch" \notin Clients
    BY Names DEF Hands
  <2> QED BY <1>1, <1>2, <1>3, <2>1, <2>2, LaunchesKeep DEF cli, TypeOK, Typed
<1>4. CASE mode = "failed" /\ UNCHANGED <<op, ptr, procs, worker>>
  <2>1. worker = "none"
    BY <1>1, <1>4, NoWorker
  <2>2. Holding' /\ Fades
    BY <1>1, <1>4, StillFade DEF Holding, TypeOK, place
  <2> QED BY <1>1, <1>2, <1>4, <2>1, <2>2, ConnsAreTyped, ControlKeeps DEF TypeOK, Typed
<1>5. CASE Switches
  <2>1. /\ mode = "fluidcast" /\ worker' = "stopping" /\ UNCHANGED <<ptr, procs>>
        /\ op' = [Free EXCEPT !.at = "closing", !.who = "switch"]
    BY <1>5 DEF Switches
  <2>2. op' \in Hold /\ op'.at = "closing" /\ op'.who = "switch"
    BY <2>1, FreeIsHold DEF Hold, Points, Hands
  <2>3. Holding' /\ Fades
    BY <1>1, <2>1, <2>2, StillFade DEF Holding, TypeOK
  <2>4. worker # "none"
    BY <2>1 DEF TypeOK, Kept
  <2> QED BY <1>1, <1>2, <2>1, <2>2, <2>3, <2>4, ControlKeeps
<1> QED BY <1>3, <1>4, <1>5 DEF SwitchToTerminal

LEMMA ClosedKeeps ==
  ASSUME IInv, Closed
  PROVE  IInv'
<1> USE DEF IInv
<1>1. /\ op.at = "closing" /\ worker = "stopping" /\ worker' = "none" /\ kind = "agent"
      /\ UNCHANGED <<kind, place, lost, mode, gen, cli, ends, spawn, restore>>
      /\ faults' \in Nat /\ restarts' \in Nat
  BY DEF Closed, Holding, Fine, Fault, count, TypeOK, Typed
<1>2. mode \in {"terminal", "failed"} /\ Controllers = {}
  BY <1>1 DEF TypeOK, Typed, Kept, Alone
<1>3. Around'
  BY <1>1 DEF Around, TypeOK, Typed, ends, place
<1>4. CASE row /\ Launches("switch")
  <2>1. "switch" \in Hands /\ "switch" \notin Clients
    BY Names DEF Hands
  <2> QED BY <1>1, <1>2, <1>3, <1>4, <2>1, LaunchesKeep DEF cli, TypeOK, Typed
<1>5. CASE op' = Free /\ UNCHANGED <<ptr, procs>>
  <2>1. op' \in Hold /\ op'.at = "free"
    BY <1>5, FreeIsHold
  <2>2. Holding' /\ Fades
    BY <1>1, <1>5, <2>1, StillFade DEF Holding, TypeOK
  <2> QED BY <1>1, <1>2, <1>3, <1>5, <2>1, <2>2, ControlKeeps DEF TypeOK, Typed
<1> QED BY <1>4, <1>5 DEF Closed

LEMMA ReleaseKeeps ==
  ASSUME IInv, NEW who \in {"pane", "worktree"}, Release(who)
  PROVE  IInv'
<1> USE DEF IInv
<1>1. /\ op = Free /\ op.at = "free" /\ mode' = "terminal" /\ gen' \in Nat
      /\ UNCHANGED <<kind, place, proc, cli, condemned, del, spawn, restore, count>>
      /\ pending' \subseteq {"pane", "worktree", "cleanup"}
  BY FreeIsHold DEF Release, BackToTerminal, Over, TypeOK, Typed
<1>2. Around' /\ Fades
  BY <1>1, StillFade DEF Around, TypeOK, Typed, count, place, proc
<1>3. CASE mode = "fluidcast"
  <2>1. op' = [Free EXCEPT !.at = "unloading", !.who = who] /\ worker' = "stopping"
    BY <1>3 DEF Release
  <2>2. op' \in Hold /\ op'.at = "unloading" /\ op'.who = who
    BY <2>1, FreeIsHold DEF Hold, Points, Hands
  <2>3. worker # "none" /\ kind = "agent"
    BY <1>3 DEF TypeOK, Typed, Kept, Holding
  <2>4. Holding'
    BY <1>1, <2>1, <2>2, <2>3 DEF Holding
  <2> QED BY <1>1, <1>2, <2>1, <2>2, <2>3, <2>4, ControlKeeps DEF proc
<1>4. CASE mode # "fluidcast"
  <2>1. worker = "none" /\ worker' = worker
    BY <1>1, <1>4, NoWorker DEF Release
  <2>2. op' = Free \/ op' = [Free EXCEPT !.at = "ending", !.who = who, !.pid = ptr]
    BY <1>1, <1>4 DEF Release
  <2>3. op' \in Hold /\ ((op' = Free /\ op'.at = "free") \/ (op'.at = "ending" /\ op'.who = who))
    <3>1. CASE op' = Free
      BY <3>1, FreeIsHold, Zenon
    <3>2. CASE op' = [Free EXCEPT !.at = "ending", !.who = who, !.pid = ptr]
      BY <3>2, FreeIsHold DEF Hold, Points, Hands, TypeOK, Typed
    <3> QED BY <2>2, <3>1, <3>2
  <2>4. Holding'
    BY <1>1, <2>1, <2>3 DEF Holding
  <2> QED BY <1>1, <1>2, <2>1, <2>3, <2>4, ControlKeeps DEF proc
<1> QED BY <1>3, <1>4

LEMMA UnloadedKeeps ==
  ASSUME IInv, Unloaded
  PROVE  IInv'
<1> USE DEF IInv
<1>1. /\ op.at = "unloading" /\ op.who \in {"pane", "worktree", "spawn"} /\ worker = "stopping"
      /\ worker' = "none" /\ pending' \subseteq {"pane", "worktree", "cleanup"}
      /\ UNCHANGED <<kind, place, proc, mode, gen, cli, condemned, del, spawn, restore, count>>
  BY DEF Unloaded, Holding, Over, TypeOK, Typed
<1>2. mode \in {"terminal", "failed"}
  BY <1>1 DEF TypeOK, Typed, Kept
<1>3. Around' /\ Fades
  BY <1>1, StillFade DEF Around, TypeOK, Typed, count, place, proc
<1>4. /\ op' \in Hold
      /\ (op' = Free /\ op'.at = "free") \/ (op'.at = "ending" /\ op'.who = op.who)
  <2>1. CASE op' = Free
    BY <2>1, FreeIsHold
  <2>2. CASE op' = [op EXCEPT !.at = "ending", !.pid = ptr]
    BY <1>1, <2>2, ConnsAreTyped DEF Hold, Points, TypeOK, Typed
  <2> QED BY <2>1, <2>2 DEF Unloaded
<1>5. Holding'
  BY <1>1, <1>2, <1>4 DEF Holding
<1> QED BY <1>1, <1>2, <1>3, <1>4, <1>5, ControlKeeps DEF proc, TypeOK, Typed

LEMMA EndedKeeps ==
  ASSUME IInv, Ended
  PROVE  IInv'
<1> USE DEF IInv
<1>1. /\ op.at = "ending" /\ op' = Free
      /\ UNCHANGED <<kind, place, ptr, lost, ctl, cli, condemned, del, spawn, restore>>
      /\ pending' \subseteq {"pane", "worktree", "cleanup"}
      /\ faults' \in Nat /\ restarts' \in Nat
  <2>1. /\ op.at = "ending" /\ op' = Free
        /\ UNCHANGED <<kind, place, ptr, lost, ctl, cli, condemned, del, spawn, restore>>
        /\ (IF op.who = "spawn" THEN UNCHANGED pending ELSE Over(op.who))
        /\ Fine \/ Fault
    BY Zenon DEF Ended
  <2>2. pending' \subseteq {"pane", "worktree", "cleanup"}
    BY <2>1 DEF Over, TypeOK, Typed
  <2>3. faults' \in Nat /\ restarts' \in Nat
    BY <2>1 DEF Fine, Fault, count, TypeOK, Typed
  <2> QED BY <2>1, <2>2, <2>3
<1>2. Fades
  BY KillsFade, StillFade DEF Ended, TypeOK
<1>3. Around'
  BY <1>1 DEF Around, TypeOK, Typed, place
<1>4. op' \in Hold /\ op'.at = "free"
  BY <1>1, FreeIsHold
<1>5. UNCHANGED <<mode, gen, worker>>
  BY <1>1 DEF ctl
<1>6. Holding'
  BY <1>1, <1>4, <1>5 DEF Holding
<1>7. worker # "none" => mode = "fluidcast"
  BY <1>1 DEF TypeOK, Kept
<1> QED BY <1>1, <1>2, <1>3, <1>4, <1>5, <1>6, <1>7, ControlKeeps DEF TypeOK, Typed, Kept

LEMMA SpawnKeeps ==
  ASSUME IInv, Spawn
  PROVE  IInv'
<1> USE DEF IInv
<1>1. /\ op = Free /\ op.at = "free" /\ kind = "agent" /\ row /\ mode = "terminal"
      /\ UNCHANGED <<kind, place, lost, ctl, cli, ends, restore, count>>
  BY FreeIsHold DEF Spawn
<1>2. spawn' \in [at : {"none", "checking", "done"}, pid : {None} \union Procs]
  BY DEF Spawn, TypeOK, Typed
<1>3. Around'
  BY <1>1, <1>2 DEF Around, TypeOK, Typed, place, ends, count
<1>4. worker = "none" /\ UNCHANGED <<mode, gen, worker>>
  BY <1>1, NoWorker DEF ctl
<1>5. CASE UNCHANGED <<op, ptr, procs>>
  <2>1. Holding' /\ Fades
    BY <1>1, <1>4, <1>5, StillFade DEF Holding, TypeOK, place
  <2> QED BY <1>1, <1>3, <1>4, <1>5, <2>1, ConnsAreTyped, ControlKeeps DEF TypeOK, Typed
<1>6. CASE ~Current /\ Launches("spawn")
  <2>1. Controllers = {}
    BY <1>1, <1>6, NoController
  <2>2. "spawn" \in Hands /\ "spawn" \notin Clients
    BY Names DEF Hands
  <2> QED BY <1>1, <1>3, <1>4, <1>6, <2>1, <2>2, LaunchesKeep DEF cli, TypeOK, Typed
<1> QED BY <1>5, <1>6 DEF Spawn

LEMMA SpawnChecksKeeps ==
  ASSUME IInv, SpawnChecks
  PROVE  IInv'
<1> USE DEF IInv
<1>1. /\ op = Free /\ op.at = "free" /\ spawn' = Spawned
      /\ UNCHANGED <<kind, place, proc, ctl, cli, ends, restore, count>>
  BY FreeIsHold DEF SpawnChecks
<1>2. Around' /\ Fades
  BY <1>1, StillFade DEF Around, TypeOK, Typed, place, ends, count, proc, Spawned
<1>3. UNCHANGED <<mode, gen, worker>> /\ (worker # "none" => mode = "fluidcast")
  BY <1>1 DEF ctl, TypeOK, Kept
<1>4. /\ op' \in Hold
      /\ (op' = Free /\ op'.at = "free") \/ (op'.at = "ending" /\ op'.who = "spawn")
  <2>1. CASE op' = Free
    BY <2>1, FreeIsHold
  <2>2. CASE op' = [Free EXCEPT !.at = "ending", !.who = "spawn", !.pid = spawn.pid]
    BY <2>2, FreeIsHold DEF Hold, Points, Hands, TypeOK, Typed
  <2> QED BY <2>1, <2>2 DEF SpawnChecks
<1>5. Holding'
  BY <1>1, <1>3, <1>4 DEF Holding
<1> QED BY <1>1, <1>2, <1>3, <1>4, <1>5, ControlKeeps DEF proc, TypeOK, Typed, Kept

\* What the restore replaces is set apart before its successor is launched.
LEMMA RestoreKeeps ==
  ASSUME IInv, Restore
  PROVE  IInv'
<1> USE DEF IInv
<1>1. /\ op = Free /\ op.at = "free" /\ restore' = [restore EXCEPT !.at = "done"]
      /\ UNCHANGED <<kind, place, ctl, cli, ends, spawn>>
      /\ Fine \/ Fault
  BY FreeIsHold, Zenon DEF Restore
<1>2. restore' \in [at : {"unread", "due", "done"}, ephemeral : BOOLEAN]
  <2>1. restore \in [at : {"unread", "due", "done"}, ephemeral : BOOLEAN]
    BY DEF TypeOK, Typed
  <2>2. restore' = [at |-> "done", ephemeral |-> restore.ephemeral]
    BY <1>1, <2>1, Zenon
  <2>3. restore.ephemeral \in BOOLEAN
    BY <2>1, Zenon
  <2> QED BY <2>2, <2>3, Zenon
<1>3. faults' \in Nat /\ restarts' \in Nat
  BY <1>1 DEF Fine, Fault, count, TypeOK, Typed
<1>4. Around'
  BY <1>1, <1>2, <1>3 DEF Around, TypeOK, Typed, place, ends
<1>5. UNCHANGED <<mode, gen, worker>> /\ (worker # "none" => mode = "fluidcast")
  BY <1>1 DEF ctl, TypeOK, Kept
<1>6. CASE UNCHANGED <<op, proc>>
  <2>1. Holding' /\ Fades
    BY <1>1, <1>5, <1>6, StillFade DEF Holding, TypeOK, place, proc
  <2> QED BY <1>1, <1>4, <1>5, <1>6, <2>1, ConnsAreTyped, ControlKeeps DEF proc, TypeOK, Typed, Kept
<1>7. CASE /\ row /\ mode = "terminal" /\ Launches("restore")
           /\ lost' = lost \union (IF Current THEN {ptr} ELSE {})
  <2>1. worker = "none" /\ (\A p \in Controllers : p = ptr) /\ (~Current => Controllers = {})
    BY <1>1, <1>7, NoWorker, NoController
  <2>2. Controllers \subseteq lost' /\ lost \subseteq lost' /\ lost' \subseteq Procs
    BY <1>7, <2>1 DEF Current, TypeOK, Typed
  <2>3. "restore" \in Hands /\ "restore" \notin Clients
    BY Names DEF Hands
  <2> QED BY <1>1, <1>4, <1>5, <1>7, <2>1, <2>2, <2>3, LaunchesKeep DEF cli, TypeOK, Typed
<1> QED BY <1>6, <1>7, Zenon DEF Restore

LEMMA RestartKeeps ==
  ASSUME IInv, Restart
  PROVE  IInv'
<1> USE DEF IInv
<1>1. /\ mode' = "terminal" /\ gen' = 0 /\ worker' = "none" /\ active' = NoOne /\ op' = Free
      /\ conns' = [c \in Clients |-> Idle] /\ pending' = {} /\ condemned' = {} /\ spawn' = Spawned
      /\ del' = (IF del.at = "gone" THEN del ELSE NoDelete)
      /\ lost' = (IF op.at = "launching" THEN lost \union {op.pid} ELSE lost)
      /\ restarts' = restarts + 1 /\ UNCHANGED <<kind, place, ptr, faults>>
  BY Zenon DEF Restart
<1>2. PICK ephemeral \in BOOLEAN :
        /\ procs' = [p \in Procs |-> IF ephemeral /\ Live(p) THEN "over" ELSE procs[p]]
        /\ restore' = [at |-> "unread", ephemeral |-> ephemeral]
  BY Zenon DEF Restart
<1>3. restore' \in [at : {"unread", "due", "done"}, ephemeral : BOOLEAN]
  BY <1>2, Zenon
<1>4. Fades
  BY <1>2 DEF Fades, Live, TypeOK, Typed
<1>5. op' \in Hold /\ op'.at = "free"
  BY <1>1, FreeIsHold
<1>6. conns' \in [Clients -> Conn] /\ \A c \in Clients : conns'[c].at = "idle"
  BY <1>1, Conns
<1>7. del' \in [at : {"none", "cleaning", "releasing", "removing", "gone"},
                ptys : SUBSET Procs, project : BOOLEAN]
  <2>1. CASE del.at = "gone"
    <3>1. del' = del
      BY <1>1, <2>1
    <3> QED BY <3>1 DEF TypeOK, Typed
  <2>2. CASE del.at # "gone"
    BY <1>1, <2>2, DeletesAreTyped DEF TypeOK
  <2> QED BY <2>1, <2>2
<1>8. Around'
  BY <1>1, <1>3, <1>7 DEF Around, Spawned, TypeOK, Typed, place
<1>9. lost \subseteq lost' /\ lost' \subseteq Procs
  BY <1>1 DEF Holding, TypeOK, Typed
<1>10. Typed'
  BY <1>1, <1>4, <1>5, <1>6, <1>8, <1>9 DEF TypeOK, Typed, Around, Conn, Hold, Fades, place
<1>11. Kept'
  BY <1>1, <1>5 DEF TypeOK, Kept, place
<1>12. Controllers' \subseteq Controllers
  BY <1>4, <1>9, FadingShrinks DEF TypeOK
<1>13. op.at = "launching" => Controllers' = {}
  <2>1. ASSUME op.at = "launching", NEW p \in Controllers'
        PROVE  FALSE
    <3>1. p \in Controllers /\ p \notin lost'
      BY <1>12, <2>1 DEF Controllers
    <3>2. p = op.pid
      BY <2>1, <3>1 DEF Alone
    <3> QED BY <1>1, <2>1, <3>1, <3>2
  <2> QED BY <2>1
<1>14. Alone'
  BY <1>1, <1>5, <1>12, <1>13 DEF Alone, place
<1>15. Holding' /\ Waiting'
  BY <1>1, <1>5 DEF Holding, Waiting, TypeOK, Typed
<1>16. Streams'
  BY <1>6 DEF Streams
<1> QED BY <1>10, <1>11, <1>14, <1>15, <1>16 DEF TypeOK

-----------------------------------------------------------------------------
LEMMA InitInv == ASSUME Init PROVE IInv
<1>1. /\ conns = [c \in Clients |-> Idle] /\ op = Free /\ op.at = "free" /\ op \in Hold
      /\ conns \in [Clients -> Conn] /\ \A c \in Clients : conns[c].at = "idle"
  BY FreeIsHold, Conns DEF Init
<1>2. restore \in [at : {"unread", "due", "done"}, ephemeral : BOOLEAN]
  BY Zenon DEF Init
<1>3. del \in [at : {"none", "cleaning", "releasing", "removing", "gone"},
               ptys : SUBSET Procs, project : BOOLEAN]
  BY DeletesAreTyped DEF Init, NoDelete
<1>4. spawn \in [at : {"none", "checking", "done"}, pid : {None} \union Procs]
  BY DEF Init
<1>5. Typed
  BY <1>1, <1>2, <1>3, <1>4 DEF Init, Typed, Conn, Hold
<1>6. Kept
  BY <1>1 DEF Init, Kept
<1>7. Alone
  BY <1>1 DEF Init, Alone, Controllers, Live
<1>8. Holding /\ Waiting /\ Streams
  BY <1>1 DEF Init, Holding, Waiting, Streams
<1> QED BY <1>5, <1>6, <1>7, <1>8 DEF IInv, TypeOK

LEMMA StutterKeeps == ASSUME IInv, UNCHANGED vars PROVE IInv'
<1>1. /\ UNCHANGED <<kind, row, panes, holder, adrift, ptr, procs, lost, mode, gen, worker>>
      /\ UNCHANGED <<conns, active, op, pending, condemned, del, spawn, restore, faults, restarts>>
  BY DEF vars, place, proc, ctl, cli, ends, count
<1>2. TypeOK' /\ Alone'
  BY <1>1 DEF IInv, TypeOK, Typed, Kept, Alone, Controllers, Live
<1>3. Holding' /\ Waiting' /\ Streams'
  BY <1>1 DEF IInv, Holding, Waiting, Streams, Live
<1> QED BY <1>2, <1>3 DEF IInv

LEMMA StepInv == ASSUME IInv, [Next]_vars PROVE IInv'
<1>1. ASSUME NEW c \in Clients, Client(c)
      PROVE  IInv'
  BY <1>1, ClaimKeeps, RejoinKeeps, ConsumeKeeps, ResolveKeeps, AdmitKeeps, CloseKeeps,
     CloseHoldingKeeps DEF Client
<1>2. CASE Goes
  BY <1>2, ClaimedKeeps, RejoinedKeeps, LaunchedKeeps, LaunchFailsKeeps, AttachedKeeps,
     StoppedKeeps, StopFailsKeeps, BuildKeeps, ClosedKeeps, UnloadedKeeps, EndedKeeps DEF Goes
<1>3. CASE Deletes
  BY <1>3, ClosePaneKeeps, CleanupKeeps, DeleteBeginsKeeps, DeleteHoldsKeeps, DeleteTearsDownKeeps,
     DeleteCommitsKeeps, CollectKeeps DEF Deletes
<1>4. CASE SwitchToFluidcast \/ SwitchToTerminal \/ WorkerFaults
  BY <1>4, SwitchToFluidcastKeeps, SwitchToTerminalKeeps, WorkerFaultsKeeps
<1>5. CASE (\E who \in {"pane", "worktree"} : Release(who)) \/ Oust
  BY <1>5, ReleaseKeeps, OustKeeps
<1>6. CASE Spawn \/ SpawnChecks \/ (\E p \in Procs : Exits(p))
  BY <1>6, SpawnKeeps, SpawnChecksKeeps, ExitsKeep
<1>7. CASE Restart \/ RestoreReads \/ Restore
  BY <1>7, RestartKeeps, RestoreReadsKeeps, RestoreKeeps
<1>8. CASE UNCHANGED vars
  BY <1>8, StutterKeeps
<1> QED BY <1>1, <1>2, <1>3, <1>4, <1>5, <1>6, <1>7, <1>8 DEF Next

LEMMA Inductive == Spec => []IInv
<1>1. Init => IInv
  BY InitInv
<1>2. IInv /\ [Next]_vars => IInv'
  BY StepInv
<1> QED BY <1>1, <1>2, PTL DEF Spec

-----------------------------------------------------------------------------
\* TypeOK of Sessions: every variable keeps its values, a worker belongs to the Fluidcast session
\* in control or to a switch that holds the lock, and the active attachment is attached.
THEOREM TypesHold == Spec => []TypeOK
<1>1. IInv => TypeOK
  BY DEF IInv
<1> QED BY <1>1, Inductive, PTL

\* switchToFluidcast, switchToTerminal, ensureActivePtyProcess, restorePaneBoundSessions: whoever
\* launches a process or builds a worker does so under the lock, after what ran before was ended
\* or set apart, so an agent never has two controllers.
THEOREM OneAtATime == Spec => []OneController
<1>1. IInv => OneController
  BY DEF IInv, Alone, OneController
<1> QED BY <1>1, Inductive, PTL

\* admitAttach, supersede: what is attached and streams a live process is the registered
\* attachment, and while the session's row exists it is the row's process that it streams.
THEOREM StreamsAreOne == Spec => []OneStream
<1>1. IInv => OneStream
  <2> SUFFICES ASSUME IInv, NEW c \in Clients, conns[c].at = "attached", Live(conns[c].pid)
               PROVE  active = c /\ (row /\ conns[c].pid \notin lost => ptr = conns[c].pid)
    BY DEF OneStream
  <2>1. active = c /\ conns[c].pid \in Procs /\ (op.at = "launching" => conns[c].pid # op.pid)
    BY DEF IInv, Streams
  <2>2. ASSUME row, conns[c].pid \notin lost
        PROVE  ptr = conns[c].pid
    <3>1. conns[c].pid \in Controllers
      BY <2>1, <2>2 DEF Controllers
    <3> QED BY <2>1, <2>2, <3>1 DEF IInv, Alone
  <2> QED BY <2>1, <2>2
<1> QED BY <1>1, Inductive, PTL

\* A step that attaches nobody, takes the lock for nobody who rejoins or attaches, and moves no
\* session where a rejoin ends.
Plain ==
  /\ \A c \in Clients : conns'[c].at = "attached" => conns[c].at = "attached"
  /\ op = Free => op'.at \notin {"rejoining", "attaching"}
  /\ op'.at = "launching" => op' = op \/ conns' = conns
  /\ op.at = "rejoining" /\ op' = Free => UNCHANGED holder

LEMMA PlainBeside ==
  ASSUME UNCHANGED op, \A c \in Clients : conns'[c].at = "attached" => conns[c].at = "attached"
  PROVE  Plain
BY FreeIsHold DEF Plain

LEMMA PlainControl ==
  ASSUME UNCHANGED conns, op'.at \notin {"rejoining", "attaching"},
         op.at = "rejoining" => UNCHANGED holder
  PROVE  Plain
BY DEF Plain

LEMMA LaunchesIsPlain ==
  ASSUME NEW who, Launches(who)
  PROVE  op'.at = "launching"
BY FreeIsHold DEF Launches, Free

LEMMA ClientsArePlain ==
  ASSUME IInv, NEW c \in Clients, Client(c)
  PROVE  Plain \/ Rejoin(c) \/ Admit(c)
<1>0. Typed /\ (\A at : [Free EXCEPT !.at = at, !.who = c].at = at)
  BY DEF IInv, TypeOK, Free
<1>1. CASE \E pane \in Panes : Claim(c, pane)
  <2>1. \A d \in Clients : conns'[d].at = "attached" => conns[d].at = "attached"
    BY <1>0, <1>1, Conns, TokenIsConn DEF Claim
  <2>2. op'.at \in {"free", "claiming"} /\ op.at = "free"
    BY <1>0, <1>1, FreeIsHold DEF Claim
  <2> QED BY <2>1, <2>2 DEF Plain
<1>2. CASE Consume(c)
  <2>1. \A d \in Clients : conns'[d].at = "attached" => conns[d].at = "attached"
    <3>1. conns' = [conns EXCEPT ![c] = [conns[c] EXCEPT !.at = "resolving"]] /\ conns[c] \in Conn
      BY <1>0, <1>2, ConnsAreTyped, Zenon DEF Consume
    <3> QED BY <1>0, <3>1, ConnsAreTyped DEF Conn
  <2> QED BY <1>2, <2>1, PlainBeside DEF Consume
<1>3. CASE Resolve(c)
  <2>1. op = Free /\ op.at = "free" /\ conns[c] \in Conn
    BY <1>0, <1>3, FreeIsHold, ConnsAreTyped DEF Resolve
  <2>2. CASE Launches(c) /\ UNCHANGED conns
    BY <2>1, <2>2, LaunchesIsPlain, PlainControl
  <2>3. CASE Planned(c, ptr) /\ UNCHANGED op
    <3>1. \A d \in Clients : conns'[d].at = "attached" => conns[d].at = "attached"
      BY <1>0, <2>1, <2>3, ConnsAreTyped DEF Planned, Conn
    <3> QED BY <2>3, <3>1, PlainBeside
  <2>4. CASE Refused(c) /\ UNCHANGED op
    <3>1. \A d \in Clients : conns'[d].at = "attached" => conns[d].at = "attached"
      BY <1>0, <2>4, Conns, ConnsAreTyped DEF Refused
    <3> QED BY <2>4, <3>1, PlainBeside
  <2> QED BY <1>3, <2>2, <2>3, <2>4 DEF Resolve
<1>4. CASE Close(c)
  <2>1. \A d \in Clients : conns'[d].at = "attached" => conns[d].at = "attached"
    BY <1>0, <1>4, Conns, ConnsAreTyped DEF Close, Refused
  <2> QED BY <1>4, <2>1, PlainBeside DEF Close
<1>5. CASE CloseHolding(c)
  <2>1. \A d \in Clients : conns'[d].at = "attached" => conns[d].at = "attached"
    BY <1>0, <1>5, Conns, SettledIsConn DEF CloseHolding, Settles
  <2> QED BY <1>5, <2>1, FreeIsHold DEF CloseHolding, Plain, place
<1> QED BY <1>1, <1>2, <1>3, <1>4, <1>5 DEF Client

LEMMA GoesArePlain ==
  ASSUME IInv, Goes
  PROVE  Plain \/ Rejoined \/ Attached
<1>0. Typed
  BY DEF IInv, TypeOK
<1>1. CASE Claimed
  <2>1. /\ op.at = "claiming" /\ op' = Free /\ op'.at = "free" /\ op.who \in Clients
        /\ Settles(op.who, Token(None)) /\ Token(None).at = "token"
    BY <1>0, <1>1, FreeIsHold, TokenIsConn DEF Claimed, IInv, TypeOK, Kept
  <2>2. \A d \in Clients : conns'[d].at = "attached" => conns[d].at = "attached"
    BY <1>0, <2>1, SettledIsConn DEF Settles
  <2> QED BY <2>1, <2>2 DEF Plain
<1>2. CASE Launched \/ LaunchFails
  <2>1. /\ op.at = "launching" /\ op' = Free /\ op'.at = "free"
        /\ \/ UNCHANGED conns
           \/ op.who \in Clients /\ (Planned(op.who, op.pid) \/ Refused(op.who))
    BY <1>2, FreeIsHold DEF Launched, LaunchFails
  <2>2. \A d \in Clients : conns'[d].at = "attached" => conns[d].at = "attached"
    <3>1. CASE op.who \in Clients /\ Planned(op.who, op.pid)
      BY <1>0, <3>1, ConnsAreTyped DEF Planned, Conn
    <3>2. CASE op.who \in Clients /\ Refused(op.who)
      BY <1>0, <3>2, Conns, ConnsAreTyped DEF Refused
    <3> QED BY <2>1, <3>1, <3>2
  <2> QED BY <2>1, <2>2 DEF Plain
<1>3. CASE Stopped \/ StopFails \/ Built \/ BuildFails \/ Closed \/ Unloaded \/ Ended
  <2>1. UNCHANGED conns /\ op.at # "rejoining"
    BY <1>3 DEF Stopped, StopFails, Built, BuildFails, Closed, Unloaded, Ended, cli
  <2>2. op'.at \notin {"rejoining", "attaching"}
    <3>1. CASE op' = Free
      BY <3>1, FreeIsHold
    <3>2. CASE op' = [op EXCEPT !.at = "building"] \/ op' = [op EXCEPT !.at = "ending", !.pid = ptr]
      BY <1>0, <3>2, ConnsAreTyped DEF Hold
    <3>3. CASE Launches("switch")
      BY <3>3, LaunchesIsPlain
    <3> QED BY <1>3, <3>1, <3>2, <3>3
        DEF Stopped, StopFails, Fails, Built, BuildFails, Closed, Unloaded, Ended
  <2> QED BY <2>1, <2>2, PlainControl
<1> QED BY <1>1, <1>2, <1>3 DEF Goes

LEMMA OthersArePlain ==
  ASSUME IInv, [Next]_vars, ~Goes, \A c \in Clients : ~Client(c)
  PROVE  Plain
<1>1. CASE UNCHANGED <<cli, op>>
  BY <1>1, PlainBeside DEF cli
<1>2. CASE Deletes
  <2>1. CASE Collect
    <3>1. \A d \in Clients : conns'[d].at = "attached" => conns[d].at = "attached"
      BY <2>1, Conns DEF Collect
    <3> QED BY <2>1, <3>1, PlainBeside DEF Collect
  <2>2. CASE \E pane \in Panes : ClosePane(pane)
    BY <1>1, <2>2 DEF ClosePane
  <2>3. CASE CleanupReads \/ (\E p \in Procs : CleanupKills(p))
    BY <1>1, <2>3 DEF CleanupReads, CleanupKills
  <2>4. CASE (\E project \in BOOLEAN : DeleteBegins(project)) \/ DeleteHolds
    BY <1>1, <2>4 DEF DeleteBegins, DeleteHolds
  <2>5. CASE DeleteTearsDown \/ DeleteCommits
    BY <1>1, <2>5 DEF DeleteTearsDown, DeleteCommits
  <2> QED BY <1>2, <2>1, <2>2, <2>3, <2>4, <2>5 DEF Deletes
<1>3. CASE SwitchToFluidcast \/ SwitchToTerminal \/ (\E who \in {"pane", "worktree"} : Release(who))
           \/ Spawn \/ SpawnChecks \/ Restore
  <2>1. UNCHANGED conns /\ op = Free /\ op.at = "free"
    BY <1>3, FreeIsHold
    DEF SwitchToFluidcast, SwitchToTerminal, Release, Spawn, SpawnChecks, Restore, cli
  <2>2. op'.at \notin {"rejoining", "attaching"}
    <3>1. CASE op' = Free
      BY <3>1, FreeIsHold
    <3>2. CASE \E who : Launches(who)
      BY <3>2, LaunchesIsPlain
    <3>3. CASE SwitchToFluidcast
      BY <3>3 DEF SwitchToFluidcast, Free
    <3>4. CASE SwitchToTerminal
      <4>1. CASE Switches
        BY <4>1 DEF Switches, Free
      <4> QED BY <2>1, <3>1, <3>2, <3>4, <4>1 DEF SwitchToTerminal
    <3>5. CASE \E who \in {"pane", "worktree"} : Release(who)
      BY <3>5, <2>1 DEF Release, Free
    <3>6. CASE Spawn
      BY <2>1, <3>1, <3>2, <3>6 DEF Spawn
    <3>7. CASE SpawnChecks
      BY <3>7 DEF SpawnChecks, Free
    <3>8. CASE Restore
      BY <2>1, <3>1, <3>2, <3>8 DEF Restore
    <3> QED BY <1>3, <3>3, <3>4, <3>5, <3>6, <3>7, <3>8
  <2> QED BY <2>1, <2>2, PlainControl
<1>4. CASE Restart
  <2>1. /\ op' = Free /\ op'.at = "free" /\ UNCHANGED holder
        /\ \A d \in Clients : conns'[d].at = "idle"
    BY <1>4, FreeIsHold, Conns DEF Restart, place
  <2> QED BY <2>1 DEF Plain
<1>5. CASE WorkerFaults \/ Oust \/ RestoreReads \/ (\E p \in Procs : Exits(p)) \/ UNCHANGED vars
  BY <1>1, <1>5 DEF WorkerFaults, Oust, RestoreReads, Exits, vars
<1> QED BY <1>2, <1>3, <1>4, <1>5 DEF Next

LEMMA StepsArePlain ==
  ASSUME IInv, [Next]_vars
  PROVE  Plain \/ Rejoined \/ Attached \/ \E c \in Clients : Rejoin(c) \/ Admit(c)
BY ClientsArePlain, GoesArePlain, OthersArePlain

\* What a rejoin does when it begins, and an admission.
LEMMA BeginsGently ==
  ASSUME IInv, NEW c \in Clients, Rejoin(c) \/ Admit(c)
  PROVE  /\ \A d \in Clients : conns'[d].at = "attached" => conns[d].at = "attached"
         /\ op.at = "free" /\ op'.at # "launching"
         /\ op'.at \in {"rejoining", "attaching"} => op'.who = c
         /\ Rejoins(c) => /\ active # NoOne => ~(Current /\ conns[active].pid = ptr)
                          /\ \A d \in Clients : conns[d].at = "token" => conns'[d] = conns[d]
<1>0. Typed
  BY DEF IInv, TypeOK
<1>1. \A d \in Clients : active = d => conns[d].at = "attached"
  BY Names DEF IInv, TypeOK, Kept
<1>2. CASE Rejoin(c)
  <2>1. /\ op.at = "free" /\ (active # NoOne => conns[active].pid # ptr)
        /\ op' = IF active = NoOne THEN Free
                 ELSE [at |-> "rejoining", who |-> c, pid |-> ptr, pane |-> holder]
        /\ conns' = [d \in Clients |->
                       IF d = c /\ active = NoOne THEN Token(ptr)
                       ELSE IF active = d THEN [Idle EXCEPT !.at = "moved"] ELSE conns[d]]
    BY <1>2, FreeIsHold DEF Rejoin, Displaced
  <2>2. op'.at \in {"free", "rejoining"}
        /\ (op'.at = "rejoining" => op'.who = c /\ active # NoOne)
    BY <2>1, FreeIsHold
  <2>3. \A d \in Clients : conns'[d].at = "attached" => conns[d].at = "attached"
    BY <1>0, <2>1, Conns, TokenIsConn DEF Typed
  <2>4. Rejoins(c) => active # NoOne
    BY <2>2 DEF Rejoins
  <2>5. active # NoOne => \A d \in Clients : conns[d].at = "token" => conns'[d] = conns[d]
    BY <1>1, <2>1
  <2> QED BY <2>1, <2>2, <2>3, <2>4, <2>5
<1>3. CASE Admit(c) /\ Admits(c)
  <2>1. /\ op.at = "free"
        /\ op' = [Free EXCEPT !.at = "attaching", !.who = c, !.pid = conns[c].pid]
        /\ conns' = [d \in Clients |->
                       IF active = d THEN [Idle EXCEPT !.at = "moved"]
                       ELSE IF conns[d].at = "token" /\ conns[c].expect = None THEN Idle ELSE conns[d]]
    BY <1>3, FreeIsHold DEF Admit, Displaced, Revoked
  <2>2. op'.at = "attaching" /\ op'.who = c
    BY <2>1 DEF Free
  <2>3. \A d \in Clients : conns'[d].at = "attached" => conns[d].at = "attached"
    BY <2>1, Conns
  <2>4. Rejoins(c) => conns[c].expect # None
    BY <2>2 DEF Rejoins
  <2>5. conns[c].expect # None => (active # NoOne => conns[active].pid # ptr)
    BY <1>3 DEF Admits
  <2>6. conns[c].expect # None => \A d \in Clients : conns[d].at = "token" => conns'[d] = conns[d]
    BY <1>1, <2>1
  <2> QED BY <2>1, <2>2, <2>3, <2>4, <2>5, <2>6
<1>4. CASE Admit(c) /\ ~Admits(c)
  <2>1. op.at = "free" /\ op' = op /\ Refused(c)
    BY <1>4, FreeIsHold DEF Admit
  <2>2. \A d \in Clients : conns'[d].at = "attached" => conns[d].at = "attached"
    BY <1>0, <2>1, Conns, ConnsAreTyped DEF Refused
  <2> QED BY <2>1, <2>2 DEF Rejoins
<1> QED BY <1>2, <1>3, <1>4

\* What its end, and the registration, do.
LEMMA EndsGently ==
  ASSUME IInv, Rejoined \/ Attached
  PROVE  /\ op' = Free /\ op'.at = "free" /\ op.at \in {"rejoining", "attaching"}
         /\ \A d \in Clients : conns'[d].at = "attached" =>
              \/ conns[d].at = "attached"
              \/ op.at = "attaching" /\ op.who = d
         /\ op.at = "rejoining" /\ holder # NoOne => holder' = holder
<1>0. Typed
  BY DEF IInv, TypeOK
<1>1. CASE Rejoined
  <2>1. op.at = "rejoining" /\ op' = Free /\ op'.at = "free" /\ op.who \in Clients
        /\ op.pid \in {None} \union Procs
    BY <1>0, <1>1, FreeIsHold DEF Rejoined, IInv, TypeOK, Kept, Typed
  <2>2. PICK k \in Conn : k.at \in {"token", "idle"} /\ Settles(op.who, k)
    BY <1>0, <1>1, <2>1, TokenIsConn, Conns DEF Rejoined
  <2>3. \A d \in Clients : conns'[d].at = "attached" => conns[d].at = "attached"
    BY <1>0, <2>2, SettledIsConn DEF Settles
  <2>4. holder # NoOne => holder' = holder
    BY <1>1, <2>1 DEF Rejoined, IInv, Holding
  <2> QED BY <2>1, <2>3, <2>4
<1>2. CASE Attached
  <2>1. op.at = "attaching" /\ op' = Free /\ op'.at = "free"
    BY <1>2, FreeIsHold DEF Attached
  <2>2. PICK k : Settles(op.who, k)
    BY <1>2 DEF Attached
  <2>3. \A d \in Clients : d # op.who => (conns'[d].at = "attached" => conns[d].at = "attached")
    BY <1>0, <2>2, SettledIsConn DEF Settles
  <2> QED BY <2>1, <2>3
<1> QED BY <1>1, <1>2

\* requireTerminalMode under admitAttach: the attachment is registered for the client the lock has
\* been held for, under the controller its token was given under.
LEMMA AdmitsUnderController ==
  ASSUME IInv, [Next]_vars, NEW c \in Clients,
         conns[c].at # "attached", conns'[c].at = "attached", kind = "agent"
  PROVE  mode = "terminal" /\ conns[c].gen = gen
<1>1. op.at = "attaching" /\ op.who = c
  BY StepsArePlain, BeginsGently, EndsGently DEF Plain
<1> QED BY <1>1 DEF IInv, Waiting

LEMMA RejoinsGently ==
  ASSUME IInv, [Next]_vars, NEW c \in Clients
  PROVE  /\ op = Free /\ Rejoins(c)
              => /\ active # NoOne => ~(Current /\ conns[active].pid = ptr)
                 /\ \A d \in Clients : conns[d].at = "token" => conns'[d] = conns[d]
         /\ op'.at = "launching" /\ op'.who = c => conns[c].expect = None
         /\ op.at = "rejoining" /\ op' = Free /\ holder # NoOne => holder' = holder
<1>1. ASSUME op = Free, Rejoins(c)
      PROVE  /\ active # NoOne => ~(Current /\ conns[active].pid = ptr)
             /\ \A d \in Clients : conns[d].at = "token" => conns'[d] = conns[d]
  <2>1. op.at = "free" /\ op'.at \in {"rejoining", "attaching"} /\ op'.who = c
    BY <1>1, FreeIsHold DEF Rejoins
  <2>2. PICK d \in Clients : Rejoin(d) \/ Admit(d)
    BY <1>1, <2>1, StepsArePlain, EndsGently DEF Plain
  <2>3. d = c
    BY <2>1, <2>2, BeginsGently
  <2> QED BY <1>1, <2>2, <2>3, BeginsGently
<1>2. ASSUME op'.at = "launching", op'.who = c
      PROVE  conns[c].expect = None
  <2>1. op' = op \/ conns' = conns
    BY <1>2, StepsArePlain, BeginsGently, EndsGently DEF Plain
  <2>2. CASE op' = op
    BY <1>2, <2>2 DEF IInv, Waiting
  <2>3. CASE conns' = conns
    BY <1>2, <2>3, StepInv DEF IInv, Waiting
  <2> QED BY <2>1, <2>2, <2>3
<1>3. ASSUME op.at = "rejoining", op' = Free, holder # NoOne
      PROVE  holder' = holder
  BY <1>3, StepsArePlain, BeginsGently, EndsGently DEF Plain
<1> QED BY <1>1, <1>2, <1>3

\* attach-route, expectAutomaticRejoin, beforeAttach: what was decided before a client planned and
\* waited still holds when it gets the stream, and a client that comes back by itself takes the
\* running stream from nobody, revokes no token, launches nothing and moves no session.
THEOREM AttachesAreCurrent == Spec => AttachIsCurrent
<1>1. ASSUME IInv, [Next]_vars
      PROVE  \A c \in Clients :
               conns[c].at # "attached" /\ conns'[c].at = "attached" /\ kind = "agent"
                 => mode = "terminal" /\ conns[c].gen = gen
  BY <1>1, AdmitsUnderController
<1>2. ASSUME IInv, [Next]_vars
      PROVE  \A c \in Clients :
               /\ op = Free /\ Rejoins(c)
                    => /\ active # NoOne => ~(Current /\ conns[active].pid = ptr)
                       /\ \A d \in Clients : conns[d].at = "token" => conns'[d] = conns[d]
               /\ op'.at = "launching" /\ op'.who = c => conns[c].expect = None
               /\ op.at = "rejoining" /\ op' = Free /\ holder # NoOne => holder' = holder
  BY <1>2, RejoinsGently
<1> QED BY <1>1, <1>2, Inductive, PTL
    DEF Spec, AttachIsCurrent, AdmittedUnderController, RejoinIsGentle

-----------------------------------------------------------------------------
(* What is left behind: nothing that runs is without somebody to end it. *)

\* Who has the session, or has still to see it off.
Keeper == holder # NoOne \/ adrift \/ "pane" \in pending \/ "worktree" \in pending

\* Whatever runs for an agent was begun while a pane held it, and so is kept: a worker, the stop
\* of the terminal that precedes one, and a launch that follows one.
Owned ==
  worker # "none" \/ op.at = "stopping" \/ (row /\ op.at = "launching" /\ op.who = "switch")
    => Keeper

\* Once the delete has released the session, no worker comes back: not while its row is there,
\* and not after that unless the session had been taken out of its pane.
Clear ==
  /\ row /\ (del.at = "removing" \/ (del.at = "releasing" /\ "worktree" \notin pending))
       => worker = "none" /\ op.at # "stopping"
  /\ del.at = "gone" => ~row
  /\ del.at \in {"removing", "gone"} /\ ~adrift /\ "pane" \notin pending => worker = "none"

\* Whoever holds the lock to end or to launch something knows what.
Aimed ==
  /\ op.at = "ending" /\ op.who # "spawn" => mode = "terminal" /\ (row => op.pid = ptr)
  /\ op.at = "unloading" => mode = "terminal" /\ op.who # "spawn"
  /\ op.at = "launching" => op.who \in Clients \union {"switch", "spawn", "restore"}
  /\ op.at = "launching" /\ op.who = "switch" => kind = "agent"
  /\ ptr # None => procs[ptr] # "none"

Left == Owned /\ Clear /\ Aimed /\ ProcessesAreSeenOff

LEMMA AimedKept ==
  ASSUME IInv, Left, kind' = kind, ptr' \in {ptr, None},
         \A p \in Procs : procs[p] # "none" => procs'[p] # "none",
         \/ op'.at \notin {"ending", "unloading", "launching"}
         \/ op' = op /\ mode' = mode /\ (row' => row /\ ptr' = ptr)
  PROVE  Aimed'
<1>1. ptr' # None => procs'[ptr'] # "none"
  BY DEF Left, Aimed, IInv, TypeOK, Typed
<1> QED BY <1>1 DEF Left, Aimed

\* A step that lets go of nothing.
Quiet ==
  /\ UNCHANGED <<holder, del>> /\ (row' => row /\ ptr' = ptr) /\ (adrift => adrift')
  /\ pending' = pending
  /\ worker' # "none" => worker # "none"
  /\ op'.at = "stopping" => op.at = "stopping"
  /\ op'.at = "launching" /\ op'.who = "switch" => op.at = "launching" /\ op.who = "switch"
  /\ ptr # None /\ procs'[ptr] = "live" => procs[ptr] = "live"
  /\ condemned' = condemned
  /\ spawn' = spawn \/ spawn.at # "checking" \/ faults' # 0
  /\ op.at = "ending" => op' = op
  /\ faults' = 0 => faults = 0
  /\ restarts' = restarts

LEMMA QuietKeeps ==
  ASSUME IInv, Left, Quiet, Aimed'
  PROVE  Left'
<1>1. Owned'
  BY DEF Left, Owned, Keeper, Quiet
<1>2. Clear'
  BY DEF Left, Clear, Quiet
<1>3. ProcessesAreSeenOff'
  BY DEF Left, ProcessesAreSeenOff, Quiet, Current, Live
<1> QED BY <1>1, <1>2, <1>3 DEF Left

\* A launch is quiet but for its own process.
LEMMA LaunchAims ==
  ASSUME IInv, Left, NEW who \in Clients \union {"switch", "spawn", "restore"}, Launches(who),
         kind' = kind, who = "switch" => kind = "agent"
  PROVE  /\ op'.at = "launching" /\ op'.who = who /\ ptr' = ptr
         /\ ptr # None => procs'[ptr] = procs[ptr]
         /\ Aimed'
<1>1. PICK p \in Procs : /\ procs[p] = "none" /\ procs' = [procs EXCEPT ![p] = "live"]
                         /\ op' = [Free EXCEPT !.at = "launching", !.who = who, !.pid = p]
  BY DEF Launches
<1>2. op'.at = "launching" /\ op'.who = who /\ ptr' = ptr
  BY <1>1 DEF Launches, Free
<1>3. ptr # None => ptr \in Procs /\ ptr # p /\ procs'[ptr] = procs[ptr]
  BY <1>1 DEF Left, Aimed, IInv, TypeOK, Typed
<1>5. Aimed'
  BY <1>2, <1>3 DEF Left, Aimed
<1> QED BY <1>2, <1>3, <1>5

-----------------------------------------------------------------------------
(* Clients, and the launches. *)

LEMMA ClaimLeaves ==
  ASSUME IInv, Left, NEW c \in Clients, NEW pane \in Panes, Claim(c, pane)
  PROVE  Left'
<1>1. /\ row /\ op.at = "free" /\ holder' = pane /\ holder' # NoOne
      /\ op'.at \in {"free", "claiming"}
      /\ UNCHANGED <<kind, row, ptr, procs, worker, mode, pending, del>>
  BY Names, FreeIsHold DEF Claim, Free, proc, ctl, ends
<1>2. Aimed'
  BY <1>1, AimedKept
<1>3. Owned' /\ ProcessesAreSeenOff'
  BY <1>1 DEF Owned, Keeper, ProcessesAreSeenOff
<1>4. Clear'
  BY <1>1 DEF Left, Clear
<1> QED BY <1>2, <1>3, <1>4 DEF Left

LEMMA RejoinedLeaves ==
  ASSUME IInv, Left, Rejoined
  PROVE  Left'
<1>1. /\ op.at = "rejoining" /\ op'.at = "free"
      /\ UNCHANGED <<kind, row, ptr, procs, worker, mode, pending, condemned, del, spawn, faults, restarts>>
      /\ \/ row /\ holder' # NoOne
         \/ UNCHANGED <<holder, adrift>>
  BY FreeIsHold, Names DEF Rejoined, proc, ctl, ends, count, IInv, TypeOK, Typed
<1>2. Aimed'
  BY <1>1, AimedKept
<1>3. Owned' /\ ProcessesAreSeenOff'
  BY <1>1 DEF Left, Owned, Keeper, ProcessesAreSeenOff, Current, Live
<1>4. Clear'
  BY <1>1 DEF Left, Clear
<1> QED BY <1>2, <1>3, <1>4 DEF Left

\* What becomes of the lock, when a client does not launch.
LEMMA ClientsLeave ==
  ASSUME IInv, Left, NEW c \in Clients, Rejoin(c) \/ Consume(c) \/ Admit(c) \/ Close(c)
  PROVE  Left'
<1>1. /\ op' = op \/ (op.at = "free" /\ op'.at \in {"free", "rejoining", "attaching"})
      /\ UNCHANGED <<kind, place, proc, ctl, ends, spawn, count>>
  <2>1. CASE Rejoin(c)
    BY <2>1, FreeIsHold DEF Rejoin
  <2>2. CASE Admit(c)
    BY <2>2, FreeIsHold DEF Admit, Free
  <2>3. CASE Consume(c) \/ Close(c)
    BY <2>3 DEF Consume, Close
  <2> QED BY <2>1, <2>2, <2>3
<1>2. Aimed'
  BY <1>1, AimedKept DEF proc, ctl, place
<1> QED BY <1>1, <1>2, QuietKeeps DEF Quiet, place, proc, ctl, ends, count

LEMMA ResolveLeaves ==
  ASSUME IInv, Left, NEW c \in Clients, Resolve(c)
  PROVE  Left'
<1>1. op.at = "free" /\ UNCHANGED <<kind, place, ctl, ends, spawn, count>>
  BY FreeIsHold DEF Resolve, Fine
<1>2. CASE UNCHANGED <<op, proc>>
  <2>1. Aimed'
    BY <1>1, <1>2, AimedKept DEF proc, ctl, place
  <2> QED BY <1>1, <1>2, <2>1, QuietKeeps DEF Quiet, place, proc, ctl, ends, count
<1>3. CASE Launches(c)
  <2>1. op'.at = "launching" /\ op'.who = c /\ c # "switch" /\ ptr' = ptr /\ Aimed'
        /\ (ptr # None => procs'[ptr] = procs[ptr])
    BY <1>1, <1>3, LaunchAims, Names DEF Hands
  <2> QED BY <1>1, <2>1, QuietKeeps DEF Quiet, place, ctl, ends, count
<1> QED BY <1>2, <1>3 DEF Resolve

LEMMA LaunchedLeaves ==
  ASSUME IInv, Left, Launched
  PROVE  Left'
<1>1. /\ op.at = "launching" /\ op'.at = "free" /\ ptr' = (IF row THEN op.pid ELSE ptr)
      /\ UNCHANGED <<kind, row, holder, procs, worker, mode, pending, condemned, del, faults, restarts>>
      /\ spawn' = (IF op.who = "spawn" THEN [at |-> "checking", pid |-> op.pid] ELSE spawn)
      /\ adrift' = (adrift \/ (/\ holder = NoOne /\ pending \intersect {"pane", "cleanup"} = {}
                               /\ op.who \in Clients \union {"restore"}))
  BY FreeIsHold DEF Launched, ctl, ends, count
<1>2. op.pid \in Procs /\ procs[op.pid] # "none"
  BY <1>1 DEF IInv, Holding
<1>3. Aimed'
  BY <1>1, <1>2 DEF Left, Aimed
<1>4. adrift => adrift'
  BY <1>1
<1>5. Owned'
  BY <1>1, <1>4 DEF Left, Owned, Keeper
<1>6. Clear'
  BY <1>1, <1>4 DEF Left, Clear
<1>7. ASSUME row, holder = NoOne, ~adrift', pending = {}
      PROVE  spawn' = [at |-> "checking", pid |-> ptr']
  <2>1. op.who # "switch"
    BY <1>1, <1>4, <1>7 DEF Left, Owned, Keeper
  <2>2. op.who = "spawn"
    BY <1>1, <1>7, <2>1 DEF Left, Aimed
  <2> QED BY <1>1, <1>7, <2>2
<1>8. ProcessesAreSeenOff'
  BY <1>1, <1>7 DEF ProcessesAreSeenOff
<1> QED BY <1>3, <1>5, <1>6, <1>8 DEF Left

LEMMA LaunchFailsLeaves ==
  ASSUME IInv, Left, LaunchFails
  PROVE  Left'
<1>1. /\ op.at = "launching" /\ op'.at = "free" /\ faults' # 0 /\ restarts' = restarts
      /\ UNCHANGED <<kind, place, ptr, ctl, ends>>
  BY FreeIsHold DEF LaunchFails, Fault, IInv, TypeOK, Typed
<1>2. Fades
  BY KillsFade DEF LaunchFails, IInv, TypeOK
<1>3. Aimed'
  BY <1>1, <1>2, AimedKept DEF Fades
<1>4. ptr # None /\ procs'[ptr] = "live" => procs[ptr] = "live"
  BY <1>2 DEF Fades, IInv, TypeOK, Typed
<1> QED BY <1>1, <1>3, <1>4, QuietKeeps DEF Quiet, place, ctl, ends

\* The lock is let go of, and a client that launched takes its process with it.
LEMMA LetsGoLeaves ==
  ASSUME IInv, Left, op'.at = "free", op.at # "ending", Fades,
         UNCHANGED <<kind, place, ptr, ctl, ends, spawn, count>>
  PROVE  Left'
<1>1. Aimed'
  BY AimedKept DEF Fades
<1>2. ptr # None /\ procs'[ptr] = "live" => procs[ptr] = "live"
  BY DEF Fades, IInv, TypeOK, Typed
<1> QED BY <1>1, <1>2, QuietKeeps DEF Quiet, place, ctl, ends, count

LEMMA HoldersLeave ==
  ASSUME IInv, Left, Claimed \/ Attached \/ \E c \in Clients : CloseHolding(c)
  PROVE  Left'
<1>1. CASE Claimed \/ Attached
  <2>1. op'.at = "free" /\ op.at # "ending" /\ UNCHANGED <<kind, place, proc, ctl, ends, spawn, count>>
    BY <1>1, FreeIsHold DEF Claimed, Attached
  <2>2. Fades
    BY <2>1, StillFade DEF proc, IInv, TypeOK
  <2> QED BY <2>1, <2>2, LetsGoLeaves DEF proc
<1>2. ASSUME NEW c \in Clients, CloseHolding(c)
      PROVE  Left'
  <2>1. op.who = c /\ op'.at = "free" /\ UNCHANGED <<kind, place, ptr, ctl, ends, spawn, count>>
    BY <1>2, FreeIsHold DEF CloseHolding
  <2>2. op.at # "ending"
    BY <2>1, Names DEF IInv, Holding, Hands
  <2>3. Fades
    BY <1>2, KillsFade, StillFade DEF CloseHolding, IInv, TypeOK
  <2> QED BY <2>1, <2>2, <2>3, LetsGoLeaves
<1> QED BY <1>1, <1>2

-----------------------------------------------------------------------------
(* The controllers. *)

LEMMA SwitchToFluidcastLeaves ==
  ASSUME IInv, Left, SwitchToFluidcast
  PROVE  Left'
<1>1. /\ op.at = "free" /\ op'.at \in {"stopping", "building"} /\ holder # NoOne /\ ~Held
      /\ UNCHANGED <<kind, row, ptr, procs, mode, holder, adrift, pending, condemned, del, spawn, faults, restarts>>
  BY FreeIsHold DEF SwitchToFluidcast, MayCreate, Free, place, proc, ends, count
<1>2. Aimed'
  BY <1>1, AimedKept
<1>3. Owned' /\ ProcessesAreSeenOff'
  BY <1>1 DEF Owned, Keeper, ProcessesAreSeenOff
<1>4. Clear'
  BY <1>1 DEF Left, Clear, Held, IInv, TypeOK, Kept
<1> QED BY <1>2, <1>3, <1>4 DEF Left

LEMMA StoppedLeaves ==
  ASSUME IInv, Left, Stopped
  PROVE  Left'
<1>1. /\ op.at = "stopping" /\ op'.at \in {"building", "free"}
      /\ worker' # "none" => row
      /\ UNCHANGED <<kind, place, ptr, ends, spawn, count>>
  BY FreeIsHold DEF Stopped, HandsOff, Fine, Fails, IInv, TypeOK, Typed, Kept, Holding
<1>2. Fades
  BY KillsFade, StillFade DEF Stopped, HandsOff, IInv, TypeOK
<1>3. Aimed'
  BY <1>1, <1>2, AimedKept DEF Fades, place
<1>4. ptr # None /\ procs'[ptr] = "live" => procs[ptr] = "live"
  BY <1>2 DEF Fades, IInv, TypeOK, Typed
<1>5. Owned'
  BY <1>1 DEF Left, Owned, Keeper, place, ends
<1>6. Clear'
  <2>1. row /\ del.at = "removing" => FALSE
    BY <1>1 DEF Left, Clear
  <2>2. row /\ del.at = "releasing" /\ "worktree" \notin pending => FALSE
    BY <1>1 DEF Left, Clear
  <2>3. row /\ del.at = "gone" => FALSE
    BY DEF Left, Clear
  <2>4. UNCHANGED <<kind, row, del, adrift, pending>>
    BY <1>1 DEF place, ends
  <2>5. row => Clear'
    BY <2>1, <2>2, <2>3, <2>4 DEF Clear
  <2>6. ~row => Clear'
    BY <1>1, <2>4 DEF Left, Clear
  <2> QED BY <2>5, <2>6
<1>7. ProcessesAreSeenOff'
  BY <1>1, <1>4 DEF Left, ProcessesAreSeenOff, Current, Live, place, ends, count
<1> QED BY <1>3, <1>5, <1>6, <1>7 DEF Left

LEMMA ControllersLeave ==
  ASSUME IInv, Left, StopFails \/ Built \/ BuildFails \/ WorkerFaults
  PROVE  Left'
<1>1. /\ op'.at = "free" \/ (op' = op /\ mode' = mode)
      /\ op' # op => op.at \in {"stopping", "building"}
      /\ worker' # "none" => worker # "none"
      /\ faults' = 0 => faults = 0
      /\ UNCHANGED <<kind, place, proc, ends, spawn, restarts>>
  <2>1. CASE StopFails \/ BuildFails
    BY <2>1, FreeIsHold DEF StopFails, BuildFails, Fails, Fault, IInv, TypeOK, Typed
  <2>2. CASE Built
    BY <2>2, FreeIsHold DEF Built, IInv, Holding, count
  <2>3. CASE WorkerFaults
    BY <2>3 DEF WorkerFaults, count
  <2> QED BY <2>1, <2>2, <2>3
<1>2. Aimed'
  BY <1>1, AimedKept DEF proc, place
<1> QED BY <1>1, <1>2, QuietKeeps DEF Quiet, place, proc, ends

LEMMA SwitchToTerminalLeaves ==
  ASSUME IInv, Left, SwitchToTerminal
  PROVE  Left'
<1>1. /\ op.at = "free" /\ holder # NoOne /\ ~Held /\ row /\ kind = "agent"
      /\ UNCHANGED <<kind, place, ptr, lost, ends, spawn, count>>
  BY FreeIsHold DEF SwitchToTerminal, MayCreate, Switches, Launches
<1>2. CASE Launches("switch")
  <2>1. op'.at = "launching" /\ Aimed' /\ (ptr # None => procs'[ptr] = procs[ptr])
    BY <1>1, <1>2, LaunchAims
  <2>2. worker' = worker
    BY <1>2, <2>1 DEF SwitchToTerminal, Switches, Free
  <2>3. Owned' /\ ProcessesAreSeenOff'
    BY <1>1 DEF Owned, Keeper, ProcessesAreSeenOff, place
  <2>4. Clear'
    BY <1>1, <2>1, <2>2 DEF Left, Clear, place, ends
  <2> QED BY <2>1, <2>3, <2>4 DEF Left
<1>3. CASE ~Launches("switch")
  <2>1. /\ UNCHANGED procs /\ op'.at \in {"free", "closing"}
        /\ worker' # "none" => worker # "none"
    <3>1. CASE Switches
      BY <3>1 DEF Switches, Free, IInv, TypeOK, Kept
    <3> QED BY <1>1, <1>3, <3>1, FreeIsHold DEF SwitchToTerminal
  <2>2. Aimed'
    BY <1>1, <2>1, AimedKept
  <2>3. Owned' /\ ProcessesAreSeenOff'
    BY <1>1 DEF Owned, Keeper, ProcessesAreSeenOff, place
  <2>4. Clear'
    BY <1>1, <2>1 DEF Left, Clear, place, ends
  <2> QED BY <2>2, <2>3, <2>4 DEF Left
<1> QED BY <1>2, <1>3

LEMMA ClosedLeaves ==
  ASSUME IInv, Left, Closed
  PROVE  Left'
<1>1. /\ op.at = "closing" /\ worker = "stopping" /\ worker' = "none" /\ kind = "agent"
      /\ UNCHANGED <<kind, place, lost, ends, spawn, restarts>>
      /\ faults' = 0 => faults = 0
  BY DEF Closed, Fine, Fault, count, IInv, TypeOK, Typed, Holding
<1>2. /\ ptr' = ptr /\ (ptr # None => procs'[ptr] = procs[ptr]) /\ Aimed'
      /\ op'.at \in {"free", "launching"}
  <2>1. CASE op' = Free /\ UNCHANGED <<ptr, procs>>
    <3>1. op'.at = "free"
      BY <2>1, FreeIsHold
    <3> QED BY <1>1, <2>1, <3>1, AimedKept
  <2>2. CASE Launches("switch")
    BY <1>1, <2>2, LaunchAims
  <2> QED BY <2>1, <2>2 DEF Closed
<1>3. Owned'
  BY <1>1, <1>2 DEF Left, Owned, Keeper, place, ends
<1>4. Clear'
  BY <1>1, <1>2 DEF Left, Clear, place, ends
<1>5. ProcessesAreSeenOff'
  BY <1>1, <1>2 DEF Left, ProcessesAreSeenOff, Current, Live, place, ends
<1> QED BY <1>2, <1>3, <1>4, <1>5 DEF Left

-----------------------------------------------------------------------------
(* What is released, and what is ended. *)

LEMMA ReleaseLeaves ==
  ASSUME IInv, Left, NEW who \in {"pane", "worktree"}, Release(who)
  PROVE  Left'
<1>1. /\ op.at = "free" /\ mode' = "terminal"
      /\ worker' # "none" => worker # "none"
      /\ UNCHANGED <<kind, place, proc, condemned, del, spawn, count>>
  BY FreeIsHold DEF Release, BackToTerminal, IInv, TypeOK, Kept
<1>2. worker # "none" => mode = "fluidcast"
  BY <1>1 DEF IInv, TypeOK, Kept
<1>3. CASE mode = "fluidcast" \/ (row /\ Current)
  <2>1. /\ pending' = pending
        /\ \/ op'.at = "unloading" /\ op'.who = who
           \/ op'.at = "ending" /\ op'.who = who /\ op'.pid = ptr
    BY <1>3 DEF Release, Free
  <2>2. Aimed'
    BY <1>1, <2>1 DEF Left, Aimed, proc
  <2> QED BY <1>1, <2>1, <2>2, QuietKeeps DEF Quiet, place, proc, count
<1>4. CASE mode # "fluidcast" /\ ~(row /\ Current)
  <2>1. op' = Free /\ op'.at = "free" /\ worker' = "none" /\ Over(who)
    BY <1>1, <1>2, <1>4, FreeIsHold DEF Release
  <2>2. Aimed'
    BY <1>1, <2>1, AimedKept DEF proc
  <2>3. Owned' /\ ProcessesAreSeenOff'
    BY <1>1, <1>4, <2>1 DEF Owned, ProcessesAreSeenOff, Current, Live, place, proc
  <2>4. Clear'
    BY <1>1, <2>1 DEF Left, Clear, place
  <2> QED BY <2>2, <2>3, <2>4 DEF Left
<1> QED BY <1>3, <1>4

LEMMA UnloadedLeaves ==
  ASSUME IInv, Left, Unloaded
  PROVE  Left'
<1>1. /\ op.at = "unloading" /\ op.who # "spawn" /\ worker' = "none"
      /\ mode = "terminal"
      /\ UNCHANGED <<kind, place, proc, mode, condemned, del, spawn, count>>
  BY DEF Unloaded, Left, Aimed, IInv, TypeOK, Typed, Kept, Holding
<1>2. CASE row /\ Current
  <2>1. op'.at = "ending" /\ op'.who = op.who /\ op'.pid = ptr /\ pending' = pending
    BY <1>2, ConnsAreTyped DEF Unloaded, Hold, IInv, TypeOK
  <2>2. Aimed'
    BY <1>1, <2>1 DEF Left, Aimed, proc
  <2> QED BY <1>1, <2>1, <2>2, QuietKeeps DEF Quiet, place, proc, count
<1>3. CASE ~(row /\ Current)
  <2>1. op'.at = "free" /\ Over(op.who)
    BY <1>3, FreeIsHold DEF Unloaded
  <2>2. Aimed'
    BY <1>1, <2>1, AimedKept DEF proc
  <2>3. Owned' /\ ProcessesAreSeenOff'
    BY <1>1, <1>3, <2>1 DEF Owned, ProcessesAreSeenOff, Current, Live, place, proc
  <2>4. Clear'
    BY <1>1, <2>1 DEF Left, Clear, place
  <2> QED BY <2>2, <2>3, <2>4 DEF Left
<1> QED BY <1>2, <1>3

LEMMA EndedLeaves ==
  ASSUME IInv, Left, Ended
  PROVE  Left'
<1>1. /\ op.at = "ending" /\ op'.at = "free"
      /\ UNCHANGED <<kind, place, ptr, ctl, condemned, del, spawn, restarts>>
      /\ faults' = 0 => faults = 0 /\ Kills(op.pid)
      /\ IF op.who = "spawn" THEN UNCHANGED pending ELSE Over(op.who)
  BY FreeIsHold DEF Ended, Fine, Fault, count, IInv, TypeOK, Typed
<1>2. Fades /\ (faults' = 0 => \A q \in Procs : q = op.pid => procs'[q] # "live")
  <2>1. CASE Kills(op.pid)
    BY <2>1, KillsFade DEF IInv, TypeOK
  <2>2. CASE UNCHANGED procs /\ faults' # 0
    BY <2>2, StillFade DEF IInv, TypeOK
  <2> QED BY <1>1, <2>1, <2>2 DEF Ended, Fault, IInv, TypeOK, Typed
<1>3. ptr # None /\ procs'[ptr] = "live" => procs[ptr] = "live" /\ (faults' = 0 => ptr # op.pid)
  BY <1>2 DEF Fades, IInv, TypeOK, Typed
<1>4. Aimed'
  BY <1>1, <1>2, AimedKept DEF Fades, place
<1>5. CASE op.who = "spawn"
  <2>1. Owned' /\ Clear'
    BY <1>1, <1>5 DEF Left, Owned, Keeper, Clear, place, ctl
  <2>2. ProcessesAreSeenOff'
    BY <1>1, <1>3, <1>5 DEF Left, ProcessesAreSeenOff, Current, Live, place
  <2> QED BY <1>4, <2>1, <2>2 DEF Left
<1>6. CASE op.who # "spawn"
  <2>1. worker = "none" /\ (row => op.pid = ptr)
    BY <1>1, <1>6 DEF Left, Aimed, IInv, TypeOK, Kept
  <2>2. Owned' /\ Clear'
    BY <1>1, <2>1 DEF Left, Owned, Clear, place, ctl
  <2>3. ProcessesAreSeenOff'
    BY <1>1, <1>3, <2>1 DEF ProcessesAreSeenOff, Current, Live, place
  <2> QED BY <1>4, <2>2, <2>3 DEF Left
<1> QED BY <1>5, <1>6

LEMMA ClosePaneLeaves ==
  ASSUME IInv, Left, NEW pane \in Panes, ClosePane(pane)
  PROVE  Left'
<1>1. /\ UNCHANGED <<kind, row, adrift, proc, ctl, cli, op, condemned, del, spawn, restore, count>>
      /\ \/ UNCHANGED <<holder, pending>>
         \/ /\ holder' = NoOne /\ pending \subseteq pending' /\ pending' # {}
            /\ kind = "agent" => "pane" \in pending'
            /\ "worktree" \in pending' => "worktree" \in pending
  BY DEF ClosePane
<1>2. worker # "none" \/ op.at = "stopping" => kind = "agent"
  BY DEF IInv, TypeOK, Typed, Kept, Holding
<1>3. Aimed'
  BY <1>1, AimedKept DEF proc, ctl
<1>4. Owned'
  <2>1. row /\ op.at = "launching" /\ op.who = "switch" => kind = "agent"
    BY DEF Left, Aimed
  <2> QED BY <1>1, <1>2, <2>1 DEF Left, Owned, Keeper, ctl
<1>5. Clear'
  BY <1>1 DEF Left, Clear, ctl
<1>6. ProcessesAreSeenOff'
  BY <1>1 DEF Left, ProcessesAreSeenOff, Current, Live, proc, count
<1> QED BY <1>3, <1>4, <1>5, <1>6 DEF Left

LEMMA CleanupLeaves ==
  ASSUME IInv, Left, CleanupReads \/ \E p \in Procs : CleanupKills(p)
  PROVE  Left'
<1>1. CASE CleanupReads
  <2>1. /\ pending' = pending \ {"cleanup"}
        /\ condemned' = IF row /\ ptr # None THEN {ptr} ELSE {}
        /\ UNCHANGED <<kind, place, proc, ctl, op, del, spawn, count>>
    BY <1>1 DEF CleanupReads
  <2>2. Aimed'
    BY <2>1, AimedKept DEF proc, ctl, place
  <2>3. Owned' /\ Clear'
    BY <2>1 DEF Left, Owned, Keeper, Clear, place, ctl
  <2>4. ProcessesAreSeenOff'
    BY <2>1 DEF ProcessesAreSeenOff, Current, place, proc
  <2> QED BY <2>2, <2>3, <2>4 DEF Left
<1>2. ASSUME NEW p \in Procs, CleanupKills(p)
      PROVE  Left'
  <2>1. /\ condemned' = condemned \ {p} /\ UNCHANGED <<kind, place, ptr, ctl, op, pending, del, spawn, restarts>>
        /\ faults' = 0 => faults = 0 /\ Kills(p)
    BY <1>2 DEF CleanupKills, Fine, Fault, count, IInv, TypeOK, Typed
  <2>2. Fades /\ (faults' = 0 => procs'[p] # "live")
    <3>1. CASE Kills(p)
      BY <3>1, KillsFade DEF IInv, TypeOK
    <3>2. CASE UNCHANGED procs /\ faults' # 0
      BY <3>2, StillFade DEF IInv, TypeOK
    <3> QED BY <1>2, <3>1, <3>2 DEF CleanupKills, Fault, IInv, TypeOK, Typed
  <2>3. ptr # None /\ procs'[ptr] = "live" => procs[ptr] = "live" /\ (faults' = 0 => ptr # p)
    BY <2>2 DEF Fades, IInv, TypeOK, Typed
  <2>4. Aimed'
    BY <2>1, <2>2, AimedKept DEF Fades, ctl, place
  <2>5. Owned' /\ Clear'
    BY <2>1 DEF Left, Owned, Keeper, Clear, place, ctl
  <2>6. ProcessesAreSeenOff'
    BY <2>1, <2>3 DEF Left, ProcessesAreSeenOff, Current, Live, place
  <2> QED BY <2>4, <2>5, <2>6 DEF Left
<1> QED BY <1>1, <1>2

LEMMA OustLeaves ==
  ASSUME IInv, Left, Oust
  PROVE  Left'
<1>1. adrift' = TRUE /\ UNCHANGED <<kind, row, proc, ctl, op, ends, spawn, count>>
  BY DEF Oust
<1>2. Aimed'
  BY <1>1, AimedKept DEF proc, ctl
<1>3. Owned' /\ ProcessesAreSeenOff'
  BY <1>1 DEF Owned, Keeper, ProcessesAreSeenOff
<1>4. Clear'
  BY <1>1 DEF Left, Clear, ctl, ends
<1> QED BY <1>2, <1>3, <1>4 DEF Left

-----------------------------------------------------------------------------
(* The deletes, and what goes on beside them. *)

LEMMA DeletesLeave ==
  ASSUME IInv, Left, (\E project \in BOOLEAN : DeleteBegins(project)) \/ DeleteHolds
  PROVE  Left'
<1>1. /\ UNCHANGED <<kind, place, proc, ctl, op, condemned, spawn, count>>
      /\ pending \subseteq pending'
      /\ "pane" \in pending' => "pane" \in pending
      /\ \/ del'.at = "cleaning" /\ pending' = pending
         \/ /\ del'.at = "releasing"
            /\ row /\ kind = "agent" => "worktree" \in pending'
  BY DEF DeleteBegins, DeleteHolds
<1>2. Aimed'
  BY <1>1, AimedKept DEF proc, ctl, place
<1>3. Owned'
  BY <1>1 DEF Left, Owned, Keeper, place, ctl
<1>4. worker # "none" \/ op.at = "stopping" => kind = "agent"
  BY DEF IInv, TypeOK, Typed, Kept, Holding
<1>5. Clear'
  BY <1>1, <1>4 DEF Clear, place, ctl
<1>6. ProcessesAreSeenOff'
  BY <1>1 DEF Left, ProcessesAreSeenOff, Current, Live, place, proc, count
<1> QED BY <1>2, <1>3, <1>5, <1>6 DEF Left

LEMMA DeleteTearsDownLeaves ==
  ASSUME IInv, Left, DeleteTearsDown
  PROVE  Left'
<1>1. /\ del.at = "releasing" /\ "worktree" \notin pending
      /\ UNCHANGED <<kind, place, ptr, ctl, op, pending, condemned, spawn, restarts>>
      /\ faults' = 0 => faults = 0
      /\ del'.at \in {"removing", "none"}
  BY DEF DeleteTearsDown, NoDelete, Fine, Fault, count, IInv, TypeOK, Typed
<1>2. Fades
  BY StillFade DEF DeleteTearsDown, Fades, Live, IInv, TypeOK, Typed
<1>3. ptr # None /\ procs'[ptr] = "live" => procs[ptr] = "live"
  BY <1>2 DEF Fades, IInv, TypeOK, Typed
<1>4. Aimed'
  BY <1>1, <1>2, AimedKept DEF Fades, ctl, place
<1>5. Owned'
  BY <1>1 DEF Left, Owned, Keeper, place, ctl
<1>6. Clear'
  <2>1. ~row => holder = NoOne
    BY DEF IInv, TypeOK, Kept
  <2> QED BY <1>1, <2>1 DEF Left, Owned, Keeper, Clear, place, ctl
<1>7. ProcessesAreSeenOff'
  BY <1>1, <1>3 DEF Left, ProcessesAreSeenOff, Current, Live, place
<1> QED BY <1>4, <1>5, <1>6, <1>7 DEF Left

LEMMA DeleteCommitsLeaves ==
  ASSUME IInv, Left, DeleteCommits
  PROVE  Left'
<1>1. /\ del.at = "removing"
      /\ UNCHANGED <<kind, adrift, procs, ctl, op, pending, condemned, spawn, restarts>>
      /\ faults' = 0 => faults = 0
      /\ \/ del'.at = "gone" /\ row' = FALSE /\ holder' = NoOne /\ ptr' = None
         \/ del'.at = "none" /\ UNCHANGED <<row, holder, ptr>>
  BY DEF DeleteCommits, NoDelete, Fine, Fault, count, IInv, TypeOK, Typed
<1>2. Aimed'
  BY <1>1 DEF Left, Aimed, ctl
<1>3. Owned'
  <2>1. ~row => holder = NoOne
    BY DEF IInv, TypeOK, Kept
  <2>2. row => worker = "none" /\ op.at # "stopping"
    BY <1>1 DEF Left, Clear
  <2> QED BY <1>1, <2>1, <2>2 DEF Left, Owned, Keeper, ctl
<1>4. Clear'
  BY <1>1 DEF Left, Clear, ctl
<1>5. ProcessesAreSeenOff'
  BY <1>1 DEF Left, ProcessesAreSeenOff, Current, Live
<1> QED BY <1>2, <1>3, <1>4, <1>5 DEF Left

LEMMA BesideLeaves ==
  ASSUME IInv, Left, Collect \/ RestoreReads \/ \E p \in Procs : Exits(p)
  PROVE  Left'
<1>1. /\ UNCHANGED <<kind, holder, adrift, ctl, op, ends, spawn, count>>
      /\ \/ row' = FALSE /\ ptr' = None
         \/ row' = row /\ ptr' = ptr
  BY DEF Collect, RestoreReads, Exits, place, proc
<1>2. Fades
  BY KillsFade, StillFade DEF Collect, RestoreReads, Exits, proc, IInv, TypeOK
<1>3. Aimed'
  BY <1>1, <1>2 DEF Left, Aimed, Fades, ctl, IInv, TypeOK, Typed
<1>4. ptr # None /\ procs'[ptr] = "live" => procs[ptr] = "live"
  BY <1>2 DEF Fades, IInv, TypeOK, Typed
<1>5. row' => row /\ ptr' = ptr
  BY <1>1
<1> QED BY <1>1, <1>3, <1>4, <1>5, QuietKeeps DEF Quiet, ctl, ends, count

LEMMA SpawnLeaves ==
  ASSUME IInv, Left, Spawn \/ SpawnChecks
  PROVE  Left'
<1>1. CASE Spawn
  <2>1. /\ op.at = "free" /\ spawn.at = "none"
        /\ UNCHANGED <<kind, place, ctl, ends, count>>
    BY <1>1, FreeIsHold DEF Spawn
  <2>2. CASE Current
    <3>1. UNCHANGED <<op, ptr, procs>>
      BY <1>1, <2>2 DEF Spawn
    <3>2. Aimed'
      BY <2>1, <3>1, AimedKept DEF ctl, place
    <3> QED BY <2>1, <3>1, <3>2, QuietKeeps DEF Quiet, place, ctl, ends, count
  <2>3. CASE ~Current
    <3>1. Launches("spawn")
      BY <1>1, <2>3 DEF Spawn
    <3>2. op'.at = "launching" /\ op'.who = "spawn" /\ ptr' = ptr /\ Aimed'
          /\ (ptr # None => procs'[ptr] = procs[ptr])
      BY <2>1, <3>1, LaunchAims
    <3> QED BY <2>1, <3>2, QuietKeeps DEF Quiet, place, ctl, ends, count
  <2> QED BY <2>2, <2>3
<1>2. CASE SpawnChecks
  <2>1. /\ op.at = "free" /\ UNCHANGED <<kind, place, proc, ctl, ends, count>>
        /\ \/ holder # NoOne /\ op'.at = "free"
           \/ op'.at = "ending" /\ op'.who = "spawn" /\ op'.pid = spawn.pid
    BY <1>2, FreeIsHold DEF SpawnChecks, Free
  <2>2. Aimed'
    BY <2>1 DEF Left, Aimed, proc
  <2>3. Owned' /\ Clear'
    BY <2>1 DEF Left, Owned, Keeper, Clear, place, ctl, ends
  <2>4. ProcessesAreSeenOff'
    BY <2>1 DEF Left, ProcessesAreSeenOff, Current, Live, place, proc, ends, count
  <2> QED BY <2>2, <2>3, <2>4 DEF Left
<1> QED BY <1>1, <1>2

LEMMA RestoreLeaves ==
  ASSUME IInv, Left, Restore
  PROVE  Left'
<1>1. /\ op.at = "free" /\ UNCHANGED <<kind, place, ctl, ends, spawn, restarts>>
      /\ faults' = 0 => faults = 0
  BY FreeIsHold DEF Restore, Fine, Fault, count, IInv, TypeOK, Typed
<1>2. CASE Launches("restore")
  <2>1. op'.at = "launching" /\ op'.who = "restore" /\ ptr' = ptr /\ Aimed'
        /\ (ptr # None => procs'[ptr] = procs[ptr])
    BY <1>1, <1>2, LaunchAims
  <2> QED BY <1>1, <2>1, QuietKeeps DEF Quiet, place, ctl, ends
<1>3. CASE UNCHANGED <<op, proc>>
  <2>1. Aimed'
    BY <1>1, <1>3, AimedKept DEF proc, ctl, place
  <2> QED BY <1>1, <1>3, <2>1, QuietKeeps DEF Quiet, place, proc, ctl, ends
<1> QED BY <1>2, <1>3 DEF Restore

LEMMA RestartLeaves ==
  ASSUME IInv, Left, Restart
  PROVE  Left'
<1>1. /\ op'.at = "free" /\ worker' = "none" /\ restarts' # 0
      /\ del'.at \in {"gone", "none"} /\ (del'.at = "gone" => del.at = "gone")
      /\ UNCHANGED <<kind, place, ptr>>
  BY FreeIsHold DEF Restart, NoDelete, IInv, TypeOK, Typed
<1>2. \A p \in Procs : procs[p] # "none" => procs'[p] # "none"
  BY DEF Restart, Live, IInv, TypeOK, Typed
<1>3. Aimed'
  BY <1>1, <1>2, AimedKept
<1>4. Owned' /\ ProcessesAreSeenOff'
  BY <1>1 DEF Owned, ProcessesAreSeenOff
<1>5. Clear'
  BY <1>1 DEF Left, Clear, place
<1> QED BY <1>3, <1>4, <1>5 DEF Left

-----------------------------------------------------------------------------
LEMMA LeftStep == ASSUME IInv, Left, [Next]_vars PROVE Left'
<1>1. ASSUME NEW c \in Clients, Client(c)
      PROVE  Left'
  BY <1>1, ClaimLeaves, ClientsLeave, ResolveLeaves, HoldersLeave DEF Client
<1>2. CASE Goes
  BY <1>2, RejoinedLeaves, LaunchedLeaves, LaunchFailsLeaves, HoldersLeave, StoppedLeaves,
     ControllersLeave, ClosedLeaves, UnloadedLeaves, EndedLeaves DEF Goes
<1>3. CASE Deletes
  BY <1>3, ClosePaneLeaves, CleanupLeaves, DeletesLeave, DeleteTearsDownLeaves,
     DeleteCommitsLeaves, BesideLeaves DEF Deletes
<1>4. CASE SwitchToFluidcast \/ SwitchToTerminal \/ WorkerFaults
  BY <1>4, SwitchToFluidcastLeaves, SwitchToTerminalLeaves, ControllersLeave
<1>5. CASE (\E who \in {"pane", "worktree"} : Release(who)) \/ Oust
  BY <1>5, ReleaseLeaves, OustLeaves
<1>6. CASE Spawn \/ SpawnChecks \/ (\E p \in Procs : Exits(p))
  BY <1>6, SpawnLeaves, BesideLeaves
<1>7. CASE Restart \/ RestoreReads \/ Restore
  BY <1>7, RestartLeaves, BesideLeaves, RestoreLeaves
<1>8. CASE UNCHANGED vars
  <2>1. UNCHANGED <<kind, place, proc, ctl, op, ends, spawn, count>>
    BY <1>8 DEF vars
  <2>2. Aimed'
    BY <2>1, AimedKept DEF proc, ctl, place
  <2> QED BY <2>1, <2>2, QuietKeeps DEF Quiet, place, proc, ctl, ends, count
<1> QED BY <1>1, <1>2, <1>3, <1>4, <1>5, <1>6, <1>7, <1>8 DEF Next

\* commitAndFinish, releaseController, assertMayCreateController, spawnAgent, finishSurfaceDelete:
\* whatever runs for an agent has somebody who will see it off, for any clients, panes and deletes.
THEOREM SeenOff == Spec => []NothingIsLeftBehind
<1>1. Init => Left
  <2> SUFFICES ASSUME Init PROVE Left
    OBVIOUS
  <2>1. op.at = "free" /\ worker = "none" /\ ptr = None /\ del.at = "none"
    BY FreeIsHold DEF Init, NoDelete
  <2> QED BY <2>1 DEF Left, Owned, Clear, Aimed, ProcessesAreSeenOff, Current
<1>2. IInv /\ Left /\ [Next]_vars => Left'
  BY LeftStep
<1>3. Left => NothingIsLeftBehind
  BY DEF Left, Owned, Keeper, Clear, NothingIsLeftBehind, WorkersAreOwned
<1> QED BY <1>1, <1>2, <1>3, Inductive, PTL DEF Spec
=============================================================================
