---------------------------- MODULE ContentStore ----------------------------
(***************************************************************************)
(* The content store of checkpoints: captures that publish blobs under a   *)
(* lease, the rows that come to reference them, and the collector that     *)
(* marks and sweeps beside them (workflows/store/content-store.ts,         *)
(* checkpoints/capture.ts and step.ts, platform/persistence/orphan-files). *)
(*                                                                         *)
(* What runs between two awaits is one action, and so is each call to the  *)
(* file system.  A capture puts one file at a time.  Bytes are their hash; *)
(* an old file is one past the grace period at the sweep's fixed `nowMs`,  *)
(* so what is touched during a sweep is young.  Links in the store's root  *)
(* and damaged blobs are left out.                                         *)
(***************************************************************************)
EXTENDS Naturals, FiniteSets

CONSTANTS
  Hashes,      \* contents a capture may find in the checkout
  Captures,    \* captures, one per checkpoint execution
  MaxCrashes   \* how often the process dies or the power fails

ASSUME StoreAssumption == IsFiniteSet(Captures) /\ Hashes # {} /\ MaxCrashes \in Nat

VARIABLES
  blob,      \* the file of each hash: none, young or old
  temp,      \* the staged file of each capture's put
  durable,   \* hashes whose directory entry was synced
  lost,      \* history: hashes the power took, and nobody published again
  cap,       \* each capture: its lease and where its put stands
  held,      \* the ledger: how many open captures hold a hash
  rows,      \* the hashes each committed checkpoint references
  sweep,     \* the collector
  released,  \* releasedDuringSweep
  crashes

files == <<blob, temp, durable, lost>>
vars  == <<files, cap, held, rows, sweep, released, crashes>>

Ages       == {"none", "young", "old"}
\* writing: the stream; touch, verify: reuseExisting; rename, sync: the rest of
\* commitTemporary.  `last` is the second look after a failure.
PutPhases  == {"writing", "touch", "verify", "rename", "sync"}
Capture    == [phase : PutPhases \union {"idle", "open", "committed", "gone"},
               hash : Hashes, last : BOOLEAN, closed : BOOLEAN,
               holds : SUBSET Hashes, got : SUBSET Hashes]
\* `todo` are listed and not inspected, `old` the candidates, `mark` the rows' hashes.
Sweep      == [phase : {"idle", "listing", "tracking", "sweeping"},
               todo : SUBSET Hashes, old : SUBSET Hashes, temps : SUBSET Captures,
               mark : SUBSET Hashes]
IdleSweep  == [phase |-> "idle", todo |-> {}, old |-> {}, temps |-> {}, mark |-> {}]

AHash      == CHOOSE h \in Hashes : TRUE
NoCapture  == [phase |-> "idle", hash |-> AHash, last |-> FALSE, closed |-> FALSE,
               holds |-> {}, got |-> {}]
Gone       == [NoCapture EXCEPT !.phase = "gone", !.closed = TRUE]

Present    == {h \in Hashes : blob[h] # "none"}
Referenced == {h \in Hashes : \E c \in Captures : h \in rows[c]}
Tracking   == sweep.phase = "sweeping" \/ sweep.phase = "tracking"
\* The temp a put owns.  A put that was interrupted has unregistered it.
LiveTemp(c) == cap[c].phase \in PutPhases /\ ~cap[c].closed

Init ==
  /\ blob = [h \in Hashes |-> "none"]
  /\ temp = [c \in Captures |-> "none"]
  /\ durable = {} /\ lost = {}
  /\ cap = [c \in Captures |-> NoCapture]
  /\ held = [h \in Hashes |-> 0]
  /\ rows = [c \in Captures |-> {}]
  /\ sweep = IdleSweep
  /\ released = {}
  /\ crashes = 0

-----------------------------------------------------------------------------
(* Captures. *)

Goto(c, p) == cap' = [cap EXCEPT ![c].phase = p]

OpenCapture(c) ==
  /\ cap[c].phase = "idle"
  /\ Goto(c, "open")
  /\ UNCHANGED <<files, held, rows, sweep, released, crashes>>

\* put: stage claims a temp, and the stream starts.
Put(c) ==
  /\ cap[c].phase = "open"
  /\ Goto(c, "writing")
  /\ temp' = [temp EXCEPT ![c] = "young"]
  /\ UNCHANGED <<blob, durable, lost, held, rows, sweep, released, crashes>>

\* Faulty: the lease takes a content and the ledger does not hear of it, or the
\* ledger counts a content again that the capture already holds.
HoldUncounted(c, h) == UNCHANGED held
HoldTwice(c, h) ==
  held' = [held EXCEPT ![h] = @ + 1]
\* hold: the first time a capture meets a content.
Hold(c, h) ==
  held' = IF h \in cap[c].holds THEN held ELSE [held EXCEPT ![h] = @ + 1]

\* The stream ends with the content's hash.  A closed capture is refused; an open
\* one holds the hash before it looks for the blob.
Written(c) ==
  /\ cap[c].phase = "writing"
  /\ \/ /\ cap[c].closed
        /\ cap' = [cap EXCEPT ![c] = Gone]
        /\ temp' = [temp EXCEPT ![c] = "none"] /\ UNCHANGED held
     \/ /\ ~cap[c].closed
        /\ \E h \in Hashes :
             /\ Hold(c, h)
             /\ cap' = [cap EXCEPT ![c] = [@ EXCEPT !.phase = "touch", !.hash = h,
                                             !.last = FALSE,
                                             !.holds = cap[c].holds \union {h}]]
        /\ UNCHANGED temp
  /\ UNCHANGED <<blob, durable, lost, rows, sweep, released, crashes>>

\* The put is over.  What it published counts only for a capture still open.
PutEnds(c, ok) ==
  cap' = [cap EXCEPT ![c] =
            IF @.closed THEN Gone
            ELSE [NoCapture EXCEPT !.phase = "open", !.holds = cap[c].holds,
                    !.got = cap[c].got \union (IF ok THEN {cap[c].hash} ELSE {})]]

\* reuseExisting: utimes, which fails when there is no blob.
Touch(c) ==
  /\ cap[c].phase = "touch"
  /\ \/ /\ cap[c].hash \in Present
        /\ blob' = [blob EXCEPT ![cap[c].hash] = "young"] /\ Goto(c, "verify")
        /\ UNCHANGED temp
     \/ /\ cap[c].hash \notin Present /\ ~cap[c].last
        /\ Goto(c, "rename") /\ UNCHANGED <<blob, temp>>
     \/ /\ cap[c].hash \notin Present /\ cap[c].last
        /\ PutEnds(c, FALSE) /\ UNCHANGED <<blob, temp>>
  /\ UNCHANGED <<durable, lost, held, rows, sweep, released, crashes>>

\* reuseExisting: the blob is there and hashes to its name.
Verify(c) ==
  /\ cap[c].phase = "verify"
  /\ \/ /\ cap[c].hash \in Present
        /\ PutEnds(c, TRUE) /\ temp' = [temp EXCEPT ![c] = "none"]
     \/ /\ cap[c].hash \notin Present /\ ~cap[c].last
        /\ Goto(c, "rename") /\ UNCHANGED temp
     \/ /\ cap[c].hash \notin Present /\ cap[c].last
        /\ PutEnds(c, FALSE) /\ UNCHANGED temp
  /\ UNCHANGED <<blob, durable, lost, held, rows, sweep, released, crashes>>

\* commitTemporary: the temp becomes the blob.
Rename(c) ==
  /\ cap[c].phase = "rename" /\ temp[c] # "none"
  /\ blob' = [blob EXCEPT ![cap[c].hash] = temp[c]]
  /\ temp' = [temp EXCEPT ![c] = "none"]
  /\ lost' = lost \ {cap[c].hash}
  /\ Goto(c, "sync")
  /\ UNCHANGED <<durable, held, rows, sweep, released, crashes>>
\* commitTemporary: the directory entry survives a crash from here on.
SyncDirectory(c) ==
  /\ cap[c].phase = "sync"
  /\ durable' = durable \union ({cap[c].hash} \intersect Present)
  /\ PutEnds(c, TRUE)
  /\ UNCHANGED <<blob, temp, lost, held, rows, sweep, released, crashes>>

\* A step on the file system failed: the stream's ends the put, a later one looks
\* for another publisher's blob first.
StepFails(c) ==
  /\ cap[c].phase \in {"writing", "rename", "sync"}
  /\ IF cap[c].phase = "writing" THEN PutEnds(c, FALSE)
     ELSE cap' = [cap EXCEPT ![c] = [@ EXCEPT !.phase = "touch", !.last = TRUE]]
  /\ temp' = [temp EXCEPT ![c] = "none"]
  /\ UNCHANGED <<blob, durable, lost, held, rows, sweep, released, crashes>>

\* captureCheckpoint's commit: the row references everything the capture got.
Commit(c) ==
  /\ cap[c].phase = "open"
  /\ rows' = [rows EXCEPT ![c] = cap[c].got]
  /\ Goto(c, "committed")
  /\ UNCHANGED <<files, held, sweep, released, crashes>>

\* Faulty: a release that a sweep does not hear of.
ReleaseSilently(c) ==
  /\ held' = [h \in Hashes |-> IF h \in cap[c].holds THEN held[h] - 1 ELSE held[h]]
  /\ UNCHANGED released
\* release, the finalizer of the capture's scope.
Release(c) ==
  /\ held' = [h \in Hashes |-> IF h \in cap[c].holds THEN held[h] - 1 ELSE held[h]]
  /\ released' = IF Tracking THEN released \union cap[c].holds ELSE released

\* The scope closes: after the commit, on a failure, or when the engine shuts down
\* in the middle of a put, whose file operation then goes on by itself.
Close(c) ==
  /\ cap[c].phase # "idle" /\ ~cap[c].closed
  /\ Release(c)
  /\ cap' = [cap EXCEPT ![c] = IF @.phase \in PutPhases
                               THEN [@ EXCEPT !.closed = TRUE, !.holds = {}, !.got = {}]
                               ELSE Gone]
  /\ UNCHANGED <<files, rows, sweep, crashes>>

\* The project of a checkpoint is deleted, and its rows with it.
Erase(c) ==
  /\ rows[c] # {}
  /\ rows' = [rows EXCEPT ![c] = {}]
  /\ UNCHANGED <<files, cap, held, sweep, released, crashes>>

-----------------------------------------------------------------------------
(* The collector. *)

\* collectGarbage: one sweep at a time; sweepOnce lists first.
ListFiles ==
  /\ sweep.phase = "idle"
  /\ sweep' = [IdleSweep EXCEPT !.phase = "listing", !.todo = Present,
                                !.temps = {c \in Captures : temp[c] = "old"}]
  /\ UNCHANGED <<files, cap, held, rows, released, crashes>>
\* lstat of one candidate: only age decides here.
Inspect(h) ==
  /\ sweep.phase = "listing" /\ h \in sweep.todo
  /\ sweep' = [sweep EXCEPT !.todo = @ \ {h},
                            !.old = IF blob[h] = "old" THEN @ \union {h} ELSE @]
  /\ UNCHANGED <<files, cap, held, rows, released, crashes>>
StartTracking ==
  /\ sweep.phase = "listing" /\ sweep.todo = {} /\ sweep.old \union sweep.temps # {}
  /\ sweep' = [sweep EXCEPT !.phase = "tracking"]
  /\ released' = {}
  /\ UNCHANGED <<files, cap, held, rows, crashes>>
\* listReferencedContentHashes.
Mark ==
  /\ sweep.phase = "tracking"
  /\ sweep' = [sweep EXCEPT !.phase = "sweeping", !.mark = Referenced]
  /\ UNCHANGED <<files, cap, held, rows, released, crashes>>

\* Faulty: the ledger is not asked.
IsLiveByMark(h) == h \in released \/ h \in sweep.mark
\* isLiveContent.
IsLiveContent(h) == held[h] > 0 \/ h \in released \/ h \in sweep.mark
\* sweepCandidate: decided and removed in one step.
SweepBlob(h) ==
  /\ sweep.phase = "sweeping" /\ h \in sweep.old
  /\ sweep' = [sweep EXCEPT !.old = @ \ {h}]
  /\ IF IsLiveContent(h) \/ blob[h] # "old"
     THEN UNCHANGED <<blob, durable>>
     ELSE blob' = [blob EXCEPT ![h] = "none"] /\ durable' = durable \ {h}
  /\ UNCHANGED <<temp, lost, cap, held, rows, released, crashes>>
SweepTemp(c) ==
  /\ sweep.phase = "sweeping" /\ c \in sweep.temps
  /\ sweep' = [sweep EXCEPT !.temps = @ \ {c}]
  /\ temp' = IF LiveTemp(c) \/ temp[c] # "old" THEN temp ELSE [temp EXCEPT ![c] = "none"]
  /\ UNCHANGED <<blob, durable, lost, cap, held, rows, released, crashes>>
\* The sweep ends: nothing is left, nothing was old, or a listing or the mark failed.
SweepEnds ==
  /\ \/ sweep.phase = "sweeping" /\ sweep.old = {} /\ sweep.temps = {}
     \/ sweep.phase \in {"listing", "tracking"}
  /\ sweep' = IdleSweep /\ released' = {}
  /\ UNCHANGED <<files, cap, held, rows, crashes>>

\* Time passes between two sweeps.
Older ==
  /\ sweep.phase = "idle"
  /\ blob' = [h \in Hashes |-> IF blob[h] = "none" THEN "none" ELSE "old"]
  /\ temp' = [c \in Captures |-> IF temp[c] = "none" THEN "none" ELSE "old"]
  /\ UNCHANGED <<durable, lost, cap, held, rows, sweep, released, crashes>>

-----------------------------------------------------------------------------
(* The process dies; when the power fails, entries that were not synced may be gone. *)

Crash(gone) ==
  /\ crashes < MaxCrashes
  /\ crashes' = crashes + 1
  /\ gone \intersect durable = {}
  /\ blob' = [h \in Hashes |-> IF h \in gone THEN "none" ELSE blob[h]]
  /\ lost' = lost \union gone
  /\ cap' = [c \in Captures |-> IF cap[c].phase = "idle" THEN NoCapture ELSE Gone]
  /\ held' = [h \in Hashes |-> 0]
  /\ sweep' = IdleSweep /\ released' = {}
  /\ UNCHANGED <<temp, durable, rows>>

CaptureStep(c) ==
  \/ OpenCapture(c) \/ Put(c) \/ Written(c) \/ Touch(c) \/ Verify(c) \/ Rename(c)
  \/ SyncDirectory(c) \/ StepFails(c) \/ Commit(c) \/ Close(c) \/ Erase(c)
SweepStep ==
  \/ ListFiles \/ StartTracking \/ Mark \/ SweepEnds \/ Older
  \/ \E h \in Hashes : Inspect(h) \/ SweepBlob(h)
  \/ \E c \in Captures : SweepTemp(c)
Next == \/ \E c \in Captures : CaptureStep(c)
        \/ SweepStep
        \/ \E gone \in SUBSET Present : Crash(gone)
Spec == Init /\ [][Next]_vars

-----------------------------------------------------------------------------
\* Files, leases, rows and the collector have their types.
TypeOK ==
  /\ blob \in [Hashes -> Ages] /\ temp \in [Captures -> Ages]
  /\ durable \subseteq Hashes /\ lost \subseteq Hashes
  /\ cap \in [Captures -> Capture]
  /\ held \in [Hashes -> Nat]
  /\ rows \in [Captures -> SUBSET Hashes]
  /\ sweep \in Sweep
  /\ released \subseteq Hashes
  /\ crashes \in 0..MaxCrashes

\* The collector never takes what a checkpoint references, however long its
\* capture took and whenever it committed: only a power failure can.
Resolvable == Referenced \subseteq Present \union lost

\* A reference that put returned stays good while its capture is open, so that the
\* row may name it (openCapture's contract).
GotIsKept == \A c \in Captures : ~cap[c].closed => cap[c].got \subseteq Present

\* The ledger is exact: held[h] is the number of open captures that hold h, so no
\* content is kept for ever, and none is let go early.
LedgerExact ==
  \A h \in Hashes :
    held[h] = Cardinality({c \in Captures : ~cap[c].closed /\ h \in cap[c].holds})
=============================================================================
