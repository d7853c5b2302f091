------------------------- MODULE ContentStoreProofs -------------------------
(***************************************************************************)
(* Theorems about ContentStore, for every set of contents, every finite    *)
(* set of captures and every number of crashes.                            *)
(***************************************************************************)
EXTENDS ContentStore, FiniteSetTheorems, TLAPS

Holders(h) == {c \in Captures : ~cap[c].closed /\ h \in cap[c].holds}

\* What an open capture got it holds; the content it is publishing it holds too,
\* and between the rename and the sync the blob is there.
Leases ==
  \A c \in Captures : ~cap[c].closed =>
    /\ cap[c].got \subseteq cap[c].holds
    /\ cap[c].phase \in {"touch", "verify", "rename", "sync"} => cap[c].hash \in cap[c].holds
    /\ cap[c].phase = "sync" => cap[c].hash \in Present

\* A closed capture is over, or its put goes on by itself.
ClosedIsOver ==
  \A c \in Captures : cap[c].closed => cap[c].phase \in PutPhases \union {"gone"}

\* A stale mark never decides alone: what a row references was there when the mark
\* was read, or was released since, or is still held by the capture that committed it.
MarkOrReleased ==
  sweep.phase = "sweeping" =>
    \A c \in Captures : \A h \in rows[c] :
      h \in sweep.mark \/ h \in released \/ (~cap[c].closed /\ h \in cap[c].holds)
IInv == TypeOK /\ LedgerExact /\ Leases /\ ClosedIsOver /\ GotIsKept
        /\ MarkOrReleased /\ Resolvable

-----------------------------------------------------------------------------
(* The ledger. *)

LEMMA HoldersFinite ==
  ASSUME NEW h
  PROVE  IsFiniteSet(Holders(h)) /\ Cardinality(Holders(h)) \in Nat
<1>1. Holders(h) \subseteq Captures
  BY DEF Holders
<1>2. IsFiniteSet(Holders(h))
  BY <1>1, StoreAssumption, FS_Subset
<1> QED
  BY <1>2, FS_CardinalityType

\* A held content is one some open capture holds.
LEMMA HeldIsHeld ==
  ASSUME LedgerExact, NEW h \in Hashes, NEW c \in Captures,
         ~cap[c].closed, h \in cap[c].holds
  PROVE  held[h] > 0
<1>1. held[h] = Cardinality(Holders(h)) /\ c \in Holders(h)
  BY DEF LedgerExact, Holders
<1>2. Cardinality(Holders(h)) # 0
  BY <1>1, HoldersFinite, FS_EmptySet
<1> QED
  BY <1>1, <1>2, HoldersFinite

\* A step that moves neither the leases' contents nor the ledger.
LEMMA SameHolders ==
  ASSUME LedgerExact, held' = held,
         \A c \in Captures : \A h \in Hashes :
           (~cap'[c].closed /\ h \in cap'[c].holds) <=> (~cap[c].closed /\ h \in cap[c].holds)
  PROVE  LedgerExact'
<1>1. \A h \in Hashes : Holders(h)' = Holders(h)
  BY DEF Holders
<1> QED
  BY <1>1 DEF LedgerExact, Holders

LEMMA HoldCounts ==
  ASSUME TypeOK, LedgerExact, NEW c \in Captures, NEW h \in Hashes, ~cap[c].closed, Hold(c, h),
         cap' = [cap EXCEPT ![c] = [@ EXCEPT !.phase = "touch", !.hash = h, !.last = FALSE,
                                             !.holds = cap[c].holds \union {h}]]
  PROVE  LedgerExact'
<1> SUFFICES ASSUME NEW g \in Hashes
             PROVE  held'[g] = Cardinality(Holders(g)')
  BY DEF LedgerExact, Holders
<1>1. Holders(g)' = IF g = h THEN Holders(g) \union {c} ELSE Holders(g)
  BY DEF Holders, TypeOK, Capture
<1>2. held[g] = Cardinality(Holders(g))
  BY DEF LedgerExact, Holders
<1>3. c \in Holders(g) <=> g \in cap[c].holds
  BY DEF Holders
<1>4. Cardinality(Holders(g) \union {c}) =
        IF g \in cap[c].holds THEN Cardinality(Holders(g)) ELSE Cardinality(Holders(g)) + 1
  BY <1>3, HoldersFinite, FS_AddElement
<1> QED
  BY <1>1, <1>2, <1>4 DEF Hold, TypeOK

LEMMA ReleaseCounts ==
  ASSUME TypeOK, LedgerExact, NEW c \in Captures, ~cap[c].closed, Release(c),
         \A d \in Captures \ {c} : cap'[d] = cap[d], cap'[c].closed
  PROVE  LedgerExact' /\ held' \in [Hashes -> Nat]
<1>1. ASSUME NEW g \in Hashes
      PROVE  held'[g] = Cardinality(Holders(g)') /\ held'[g] \in Nat
  <2>1. Holders(g)' = Holders(g) \ {c}
    BY DEF Holders
  <2>2. held[g] = Cardinality(Holders(g)) /\ (c \in Holders(g) <=> g \in cap[c].holds)
    BY DEF LedgerExact, Holders
  <2>3. Cardinality(Holders(g) \ {c}) =
          IF g \in cap[c].holds THEN Cardinality(Holders(g)) - 1 ELSE Cardinality(Holders(g))
    BY <2>2, HoldersFinite, FS_RemoveElement
  <2>4. Cardinality(Holders(g)') \in Nat
    BY <2>1, HoldersFinite, FS_RemoveElement, FS_CardinalityType
  <2> QED
    BY <2>1, <2>2, <2>3, <2>4 DEF Release
<1> QED
  BY <1>1 DEF LedgerExact, Holders, Release

-----------------------------------------------------------------------------
(* Captures. *)

LEMMA CaptureValues == NoCapture \in Capture /\ Gone \in Capture
<1>1. AHash \in Hashes
  BY StoreAssumption DEF AHash
<1> QED
  BY <1>1 DEF NoCapture, Gone, Capture, PutPhases

LEMMA InitInv == Init => IInv
<1> SUFFICES ASSUME Init
             PROVE  IInv
  OBVIOUS
<1>1. TypeOK
  BY StoreAssumption, CaptureValues DEF Init, TypeOK, Ages, Sweep, IdleSweep
<1>2. LedgerExact
  <2>1. \A h \in Hashes : Holders(h) = {}
    BY DEF Init, Holders, NoCapture
  <2> QED
    BY <2>1, FS_EmptySet DEF Init, LedgerExact, Holders
<1>3. Leases /\ ClosedIsOver /\ GotIsKept /\ MarkOrReleased /\ Resolvable
  BY DEF Init, Leases, ClosedIsOver, GotIsKept, MarkOrReleased, Resolvable, Referenced, NoCapture, IdleSweep
<1> QED
  BY <1>1, <1>2, <1>3 DEF IInv

\* How a capture step moves the record of c, and nothing of the others.
LEMMA PutEndsCap ==
  ASSUME TypeOK, NEW c \in Captures, NEW ok \in BOOLEAN, PutEnds(c, ok)
  PROVE  /\ cap' \in [Captures -> Capture]
         /\ \A d \in Captures \ {c} : cap'[d] = cap[d]
         /\ cap'[c].closed = cap[c].closed
         /\ ~cap[c].closed => /\ cap'[c].phase = "open" /\ cap'[c].holds = cap[c].holds
                              /\ cap'[c].got \subseteq cap[c].got \union {cap[c].hash}
                              /\ ~ok => cap'[c].got = cap[c].got
<1>1. cap[c] \in Capture
  BY DEF TypeOK
<1>2. CASE cap[c].closed
  BY <1>1, <1>2, CaptureValues DEF PutEnds, TypeOK, Gone, NoCapture
<1>3. CASE ~cap[c].closed
  <2> DEFINE new == [NoCapture EXCEPT !.phase = "open", !.holds = cap[c].holds,
                       !.got = cap[c].got \union (IF ok THEN {cap[c].hash} ELSE {})]
  <2>1. new \in Capture
    BY <1>1, CaptureValues DEF Capture, NoCapture
  <2>2. cap' = [cap EXCEPT ![c] = new]
    BY <1>3 DEF PutEnds
  <2>3. /\ new.phase = "open" /\ new.holds = cap[c].holds /\ ~new.closed
        /\ new.got = cap[c].got \union (IF ok THEN {cap[c].hash} ELSE {})
    BY DEF NoCapture
  <2> HIDE DEF new
  <2>4. cap' \in [Captures -> Capture] /\ cap'[c] = new
    BY <2>1, <2>2 DEF TypeOK
  <2> QED
    BY <1>1, <1>3, <2>2, <2>3, <2>4 DEF TypeOK, Capture
<1> QED
  BY <1>1, <1>2, <1>3 DEF Capture

LEMMA GotoCap ==
  ASSUME TypeOK, NEW c \in Captures, NEW p \in PutPhases \union {"open", "committed"}, Goto(c, p)
  PROVE  /\ cap' \in [Captures -> Capture]
         /\ \A d \in Captures \ {c} : cap'[d] = cap[d]
         /\ cap'[c].phase = p /\ cap'[c].hash = cap[c].hash /\ cap'[c].closed = cap[c].closed
         /\ cap'[c].holds = cap[c].holds /\ cap'[c].got = cap[c].got
  BY DEF Goto, TypeOK, Capture, PutPhases

\* What a capture step that closes nothing does to the leases: others keep theirs,
\* c stays open or closed, and what it held it holds.
Keeps(c) ==
  /\ cap' \in [Captures -> Capture]
  /\ \A d \in Captures \ {c} : cap'[d] = cap[d]
  /\ cap'[c].closed = cap[c].closed
  /\ ~cap[c].closed => cap[c].holds \subseteq cap'[c].holds

LEMMA WrittenCap ==
  ASSUME TypeOK, NEW c \in Captures, NEW h \in Hashes,
         cap' = [cap EXCEPT ![c] = [@ EXCEPT !.phase = "touch", !.hash = h, !.last = FALSE,
                                             !.holds = cap[c].holds \union {h}]]
  PROVE  /\ Keeps(c)
         /\ cap'[c].phase = "touch" /\ cap'[c].hash = h
         /\ cap'[c].holds = cap[c].holds \union {h} /\ cap'[c].got = cap[c].got
<1> DEFINE new == [cap[c] EXCEPT !.phase = "touch", !.hash = h, !.last = FALSE,
                                 !.holds = cap[c].holds \union {h}]
<1>1. cap[c] \in Capture
  BY DEF TypeOK
<1>2. /\ new \in Capture /\ new.phase = "touch" /\ new.hash = h
      /\ new.closed = cap[c].closed
      /\ new.holds = cap[c].holds \union {h} /\ new.got = cap[c].got
  BY <1>1 DEF Capture, PutPhases
<1>3. cap' = [cap EXCEPT ![c] = new]
  OBVIOUS
<1> HIDE DEF new
<1> QED
  BY <1>2, <1>3 DEF Keeps, TypeOK

LEMMA FailsCap ==
  ASSUME TypeOK, NEW c \in Captures,
         cap' = [cap EXCEPT ![c] = [@ EXCEPT !.phase = "touch", !.last = TRUE]]
  PROVE  /\ Keeps(c)
         /\ cap'[c].phase = "touch" /\ cap'[c].hash = cap[c].hash
         /\ cap'[c].holds = cap[c].holds /\ cap'[c].got = cap[c].got
<1> DEFINE new == [cap[c] EXCEPT !.phase = "touch", !.last = TRUE]
<1>1. cap[c] \in Capture
  BY DEF TypeOK
<1>2. /\ new \in Capture /\ new.phase = "touch" /\ new.hash = cap[c].hash
      /\ new.closed = cap[c].closed
      /\ new.holds = cap[c].holds /\ new.got = cap[c].got
  BY <1>1 DEF Capture, PutPhases
<1>3. cap' = [cap EXCEPT ![c] = new]
  OBVIOUS
<1> HIDE DEF new
<1> QED
  BY <1>2, <1>3 DEF Keeps, TypeOK

LEMMA CloseCap ==
  ASSUME TypeOK, NEW c \in Captures, Close(c)
  PROVE  /\ cap' \in [Captures -> Capture]
         /\ \A d \in Captures \ {c} : cap'[d] = cap[d]
         /\ cap'[c].closed
<1> DEFINE new == IF cap[c].phase \in PutPhases
                  THEN [cap[c] EXCEPT !.closed = TRUE, !.holds = {}, !.got = {}] ELSE Gone
<1>1. cap[c] \in Capture
  BY DEF TypeOK
<1>2. new \in Capture /\ new.closed
  BY <1>1, CaptureValues DEF Capture, Gone
<1>3. cap' = [cap EXCEPT ![c] = new]
  BY DEF Close
<1> HIDE DEF new
<1> QED
  BY <1>2, <1>3 DEF TypeOK

LEMMA GoneCap ==
  ASSUME TypeOK, NEW c \in Captures, cap[c].closed, cap' = [cap EXCEPT ![c] = Gone]
  PROVE  Keeps(c)
<1>1. Gone \in Capture /\ Gone.closed
  BY CaptureValues DEF Gone
<1>2. cap[c].closed = TRUE /\ Gone.closed = TRUE
  BY <1>1 DEF TypeOK, Capture
<1> QED
  BY <1>1, <1>2 DEF Keeps, TypeOK

\* Every step of a capture but its close keeps the leases.
LEMMA CaptureKeeps ==
  ASSUME TypeOK, NEW c \in Captures, CaptureStep(c), ~Close(c)
  PROVE  Keeps(c) /\ UNCHANGED <<sweep, released, crashes>>
<1>1. ASSUME NEW p \in PutPhases \union {"open", "committed"}, Goto(c, p)
      PROVE  Keeps(c)
  BY <1>1, GotoCap DEF Keeps
<1>2. ASSUME NEW ok \in BOOLEAN, PutEnds(c, ok)
      PROVE  Keeps(c)
  BY <1>2, PutEndsCap DEF Keeps
<1>3. CASE OpenCapture(c) \/ Put(c) \/ Commit(c)
  BY <1>1, <1>3 DEF OpenCapture, Put, Commit, PutPhases
<1>4. CASE Written(c)
  BY <1>4, GoneCap, WrittenCap DEF Written
<1>5. CASE Touch(c) \/ Verify(c)
  BY <1>1, <1>2, <1>5 DEF Touch, Verify, PutPhases
<1>6. CASE Rename(c) \/ SyncDirectory(c)
  BY <1>1, <1>2, <1>6 DEF Rename, SyncDirectory, PutPhases
<1>7. CASE StepFails(c)
  BY <1>2, <1>7, FailsCap DEF StepFails
<1>8. CASE Erase(c)
  BY <1>8 DEF Erase, Keeps, TypeOK
<1> QED
  BY <1>3, <1>4, <1>5, <1>6, <1>7, <1>8
     DEF CaptureStep, OpenCapture, Put, Commit, Written, Touch, Verify, Rename, SyncDirectory,
         StepFails, Erase

\* A capture only ever adds blobs.
FilesGrow ==
  /\ blob' \in [Hashes -> Ages] /\ temp' \in [Captures -> Ages]
  /\ durable' \subseteq Hashes /\ lost' \subseteq Hashes
  /\ Present \subseteq Present'
  /\ Present \union lost \subseteq Present' \union lost'

LEMMA CaptureFiles ==
  ASSUME TypeOK, NEW c \in Captures, CaptureStep(c)
  PROVE  FilesGrow
<1>1. CASE UNCHANGED files
  BY <1>1 DEF files, FilesGrow, TypeOK, Present
<1>2. ASSUME blob' = blob, lost' = lost, durable' = durable,
             \E a \in Ages : temp' = [temp EXCEPT ![c] = a]
      PROVE  FilesGrow
  BY <1>2 DEF FilesGrow, TypeOK, Present
<1>3. CASE Put(c) \/ Written(c) \/ Verify(c) \/ StepFails(c)
  BY <1>1, <1>2, <1>3 DEF Put, Written, Verify, StepFails, files, Ages
<1>4. CASE Touch(c)
  BY <1>1, <1>4 DEF Touch, FilesGrow, TypeOK, Present, Ages, files
<1>5. CASE Rename(c)
  BY <1>5 DEF Rename, FilesGrow, TypeOK, Present, Ages
<1>6. CASE SyncDirectory(c)
  BY <1>6 DEF SyncDirectory, FilesGrow, TypeOK, Present
<1>7. CASE OpenCapture(c) \/ Commit(c) \/ Close(c) \/ Erase(c)
  BY <1>1, <1>7 DEF OpenCapture, Commit, Close, Erase
<1> QED
  BY <1>3, <1>4, <1>5, <1>6, <1>7 DEF CaptureStep

LEMMA CaptureLedger ==
  ASSUME TypeOK, LedgerExact, NEW c \in Captures, CaptureStep(c)
  PROVE  LedgerExact' /\ held' \in [Hashes -> Nat]
<1>1. CASE Close(c)
  BY <1>1, CloseCap, ReleaseCounts DEF Close
<1>2. CASE Written(c) /\ ~cap[c].closed
  <2>1. PICK h \in Hashes :
          /\ Hold(c, h)
          /\ cap' = [cap EXCEPT ![c] = [@ EXCEPT !.phase = "touch", !.hash = h,
                                          !.last = FALSE, !.holds = cap[c].holds \union {h}]]
    BY <1>2 DEF Written
  <2>2. held' \in [Hashes -> Nat]
    BY <2>1 DEF Hold, TypeOK
  <2> QED
    BY <1>2, <2>1, <2>2, HoldCounts
<1>3. CASE ~Close(c) /\ ~(Written(c) /\ ~cap[c].closed)
  <2>1. held' = held
    BY <1>3 DEF CaptureStep, OpenCapture, Put, Commit, Written, Touch, Verify, Rename,
                SyncDirectory, StepFails, Erase
  <2>2. Keeps(c)
    BY <1>3, CaptureKeeps
  <2>3. ~cap[c].closed => cap'[c].holds = cap[c].holds
    <3>1. ASSUME NEW p \in PutPhases \union {"open", "committed"}, Goto(c, p)
          PROVE  cap'[c].holds = cap[c].holds
      BY <3>1, GotoCap
    <3>2. ASSUME NEW ok \in BOOLEAN, PutEnds(c, ok), ~cap[c].closed
          PROVE  cap'[c].holds = cap[c].holds
      BY <3>2, PutEndsCap
    <3>3. CASE OpenCapture(c) \/ Put(c) \/ Commit(c) \/ Rename(c) \/ Erase(c)
      BY <3>1, <3>3 DEF OpenCapture, Put, Commit, Rename, Erase, PutPhases
    <3>4. CASE Touch(c) \/ Verify(c) \/ SyncDirectory(c)
      BY <3>1, <3>2, <3>4 DEF Touch, Verify, SyncDirectory, PutPhases
    <3>5. CASE StepFails(c)
      BY <3>2, <3>5, FailsCap DEF StepFails
    <3> QED
      BY <1>3, <3>3, <3>4, <3>5 DEF CaptureStep
  <2> QED
    BY <2>1, <2>2, <2>3, SameHolders DEF Keeps, TypeOK
<1> QED
  BY <1>1, <1>2, <1>3

\* The part of Leases and GotIsKept that is about one capture.
LeaseOK(c) ==
  ~cap[c].closed =>
    /\ cap[c].got \subseteq cap[c].holds
    /\ cap[c].phase \in {"touch", "verify", "rename", "sync"} => cap[c].hash \in cap[c].holds
    /\ cap[c].phase = "sync" => cap[c].hash \in Present
    /\ cap[c].got \subseteq Present

LEMMA CaptureLeases ==
  ASSUME IInv, NEW c \in Captures, CaptureStep(c)
  PROVE  Leases' /\ GotIsKept'
<1>0. TypeOK /\ FilesGrow /\ \A d \in Captures : LeaseOK(d)
  BY CaptureFiles DEF IInv, Leases, GotIsKept, LeaseOK
<1>1. ASSUME NEW d \in Captures, d # c
      PROVE  LeaseOK(d)'
  <2>1. cap'[d] = cap[d]
    BY <1>0, <1>1, CaptureKeeps, CloseCap DEF Keeps
  <2> QED
    BY <1>0, <2>1 DEF LeaseOK, FilesGrow
<1>2. LeaseOK(c)'
  <2>1. ASSUME NEW p \in {"open", "writing", "verify", "rename", "committed"}, Goto(c, p),
               p \in {"verify", "rename"} => cap[c].phase \in {"touch", "verify"}
        PROVE  LeaseOK(c)'
    BY <1>0, <2>1, GotoCap DEF LeaseOK, FilesGrow, PutPhases
  <2>2. ASSUME NEW ok \in BOOLEAN, PutEnds(c, ok),
               ok => cap[c].phase \in {"verify", "sync"} /\ cap[c].hash \in Present
        PROVE  LeaseOK(c)'
    <3>1. CASE cap[c].closed
      BY <1>0, <2>2, <3>1, PutEndsCap DEF LeaseOK
    <3>2. CASE ~cap[c].closed
      BY <1>0, <2>2, <3>2, PutEndsCap DEF LeaseOK, FilesGrow
    <3> QED
      BY <3>1, <3>2
  <2>3. CASE OpenCapture(c) \/ Put(c) \/ Commit(c)
    BY <2>1, <2>3 DEF OpenCapture, Put, Commit
  <2>4. CASE Written(c)
    <3>1. CASE cap[c].closed
      BY <1>0, <2>4, <3>1, GoneCap DEF Written, LeaseOK, Keeps
    <3>2. CASE ~cap[c].closed
      <4>1. PICK h \in Hashes :
              cap' = [cap EXCEPT ![c] = [@ EXCEPT !.phase = "touch", !.hash = h,
                                              !.last = FALSE, !.holds = cap[c].holds \union {h}]]
        BY <2>4, <3>2 DEF Written
      <4>2. /\ cap'[c].phase = "touch" /\ cap'[c].hash = h /\ cap'[c].got = cap[c].got
            /\ cap'[c].holds = cap[c].holds \union {h}
        BY <1>0, <4>1, WrittenCap
      <4> QED
        BY <1>0, <3>2, <4>2 DEF LeaseOK, FilesGrow
    <3> QED
      BY <3>1, <3>2
  <2>5. CASE Touch(c)
    BY <2>1, <2>2, <2>5 DEF Touch
  <2>6. CASE Verify(c)
    BY <2>1, <2>2, <2>6 DEF Verify
  <2>7. CASE Rename(c)
    <3>1. cap[c].hash \in Present'
      BY <1>0, <2>7 DEF Rename, Present, TypeOK, Capture
    <3> QED
      BY <1>0, <2>7, <3>1, GotoCap DEF Rename, LeaseOK, FilesGrow, PutPhases
  <2>8. CASE SyncDirectory(c)
    <3>1. CASE cap[c].closed
      BY <1>0, <2>8, <3>1, PutEndsCap DEF LeaseOK, SyncDirectory
    <3>2. CASE ~cap[c].closed
      BY <1>0, <2>2, <2>8, <3>2 DEF SyncDirectory, LeaseOK
    <3> QED
      BY <3>1, <3>2
  <2>9. CASE StepFails(c)
    <3>1. CASE cap[c].phase = "writing"
      BY <2>2, <2>9, <3>1 DEF StepFails
    <3>2. CASE cap[c].phase # "writing"
      BY <1>0, <2>9, <3>2, FailsCap DEF StepFails, LeaseOK, Keeps, FilesGrow
    <3> QED
      BY <3>1, <3>2
  <2>10. CASE Close(c)
    BY <1>0, <2>10, CloseCap DEF LeaseOK
  <2>11. CASE Erase(c)
    BY <1>0, <2>11 DEF Erase, LeaseOK, FilesGrow
  <2> QED
    BY <2>3, <2>4, <2>5, <2>6, <2>7, <2>8, <2>9, <2>10, <2>11 DEF CaptureStep
<1> QED
  BY <1>1, <1>2 DEF Leases, GotIsKept, LeaseOK

LEMMA CaptureClosed ==
  ASSUME IInv, NEW c \in Captures, CaptureStep(c)
  PROVE  ClosedIsOver'
<1>0. TypeOK /\ \A d \in Captures : cap[d].closed => cap[d].phase \in PutPhases \union {"gone"}
  BY DEF IInv, ClosedIsOver
<1>1. ASSUME NEW d \in Captures, d # c
      PROVE  cap'[d] = cap[d]
  BY <1>0, <1>1, CaptureKeeps, CloseCap DEF Keeps
<1>2. ASSUME cap'[c].closed
      PROVE  cap'[c].phase \in PutPhases \union {"gone"}
  <2>1. ASSUME NEW p \in PutPhases \union {"open", "committed"}, Goto(c, p),
               p \notin PutPhases => ~cap[c].closed
        PROVE  cap'[c].phase \in PutPhases \union {"gone"}
    BY <1>0, <1>2, <2>1, GotoCap
  <2>2. ASSUME NEW ok \in BOOLEAN, PutEnds(c, ok)
        PROVE  cap'[c].phase = "gone"
    <3>1. cap[c].closed
      BY <1>0, <1>2, <2>2, PutEndsCap
    <3> QED
      BY <1>0, <2>2, <3>1 DEF PutEnds, Gone, NoCapture, TypeOK
  <2>3. CASE OpenCapture(c) \/ Put(c) \/ Commit(c)
    <3>1. ~cap[c].closed
      BY <1>0, <2>3 DEF OpenCapture, Put, Commit, PutPhases
    <3> QED
      BY <2>1, <2>3, <3>1 DEF OpenCapture, Put, Commit, PutPhases
  <2>4. CASE Written(c)
    <3>1. CASE cap[c].closed
      BY <1>0, <2>4, <3>1 DEF Written, Gone, NoCapture, TypeOK
    <3>2. CASE ~cap[c].closed
      <4>1. Keeps(c)
        BY <1>0, <2>4, <3>2, WrittenCap DEF Written
      <4> QED
        BY <1>2, <3>2, <4>1 DEF Keeps
    <3> QED
      BY <3>1, <3>2
  <2>5. CASE Touch(c) \/ Verify(c) \/ Rename(c) \/ SyncDirectory(c)
    BY <2>1, <2>2, <2>5 DEF Touch, Verify, Rename, SyncDirectory, PutPhases
  <2>6. CASE StepFails(c)
    BY <1>0, <2>2, <2>6, FailsCap DEF StepFails, PutPhases
  <2>7. CASE Close(c)
    BY <1>0, <2>7 DEF Close, Gone, NoCapture, TypeOK, Capture
  <2>8. CASE Erase(c)
    BY <1>0, <1>2, <2>8 DEF Erase
  <2> QED
    BY <2>3, <2>4, <2>5, <2>6, <2>7, <2>8 DEF CaptureStep
<1> QED
  BY <1>0, <1>1, <1>2 DEF ClosedIsOver

LEMMA CaptureRows ==
  ASSUME IInv, NEW c \in Captures, CaptureStep(c)
  PROVE  rows' \in [Captures -> SUBSET Hashes] /\ MarkOrReleased' /\ Resolvable'
<1>1. TypeOK /\ FilesGrow /\ sweep' = sweep
  BY CaptureFiles, CaptureKeeps DEF IInv, Close
\* Only a commit gives a row new references, and they are held and present.
<1>2. /\ rows' \in [Captures -> SUBSET Hashes]
      /\ \A d \in Captures : \A h \in rows'[d] :
           h \in rows[d] \/ (d = c /\ Commit(c) /\ h \in cap[c].got /\ ~cap[c].closed
                                   /\ h \in cap[c].holds /\ h \in Present)
  <2>1. CASE Commit(c)
    <3>1. ~cap[c].closed
      BY <2>1 DEF Commit, IInv, ClosedIsOver, PutPhases
    <3> QED
      BY <1>1, <2>1, <3>1 DEF Commit, IInv, TypeOK, Capture, Leases, GotIsKept
  <2>2. CASE ~Commit(c)
    BY <1>1, <2>2 DEF CaptureStep, OpenCapture, Put, Written, Touch, Verify, Rename,
                      SyncDirectory, StepFails, Close, Erase, TypeOK
  <2> QED
    BY <2>1, <2>2
<1>3. Resolvable'
  BY <1>1, <1>2 DEF IInv, Resolvable, Referenced, FilesGrow, TypeOK
<1>4. MarkOrReleased'
  <2> SUFFICES ASSUME sweep.phase = "sweeping", NEW d \in Captures, NEW h \in rows'[d]
               PROVE  h \in sweep.mark \/ h \in released' \/ (~cap'[d].closed /\ h \in cap'[d].holds)
    BY <1>1 DEF MarkOrReleased
  <2>1. h \in sweep.mark \/ h \in released \/ (~cap[d].closed /\ h \in cap[d].holds)
    BY <1>2 DEF IInv, MarkOrReleased
  <2>2. CASE Close(c)
    BY <1>1, <2>1, <2>2, CloseCap DEF Close, Release, Tracking
  <2>3. CASE ~Close(c)
    BY <1>1, <2>1, <2>3, CaptureKeeps DEF Keeps
  <2> QED
    BY <2>2, <2>3
<1> QED
  BY <1>2, <1>3, <1>4

LEMMA CaptureInv ==
  ASSUME IInv, NEW c \in Captures, CaptureStep(c)
  PROVE  IInv'
<1>1. TypeOK'
  <2>1. TypeOK
    BY DEF IInv
  <2>2. cap' \in [Captures -> Capture] /\ UNCHANGED <<sweep, crashes>>
    BY <2>1, CaptureKeeps, CloseCap DEF Keeps, Close
  <2>3. released' \subseteq Hashes
    BY <2>1, CaptureKeeps DEF Close, Release, TypeOK, Capture
  <2> QED
    BY <2>1, <2>2, <2>3, CaptureFiles, CaptureLedger, CaptureRows DEF IInv, FilesGrow, TypeOK
<1> QED
  BY <1>1, CaptureLedger, CaptureLeases, CaptureClosed, CaptureRows DEF IInv

-----------------------------------------------------------------------------
(* The collector and the crash. *)

\* A sweep removes no blob that is held, and none that a row references.
LEMMA SweptBlob ==
  ASSUME IInv, NEW h \in Hashes, SweepBlob(h)
  PROVE  /\ UNCHANGED <<cap, held, rows, released, lost, temp, crashes>>
         /\ TypeOK' /\ MarkOrReleased'
         /\ \A g \in Present : \/ g \in Present'
                               \/ g \notin Referenced /\ \A c \in Captures :
                                    cap[c].closed \/ g \notin cap[c].holds
<1>1. UNCHANGED <<cap, held, rows, released, lost, temp, crashes>>
  BY DEF SweepBlob
<1>2. /\ sweep' = [sweep EXCEPT !.old = @ \ {h}] /\ sweep.phase = "sweeping"
      /\ sweep \in Sweep
  BY DEF SweepBlob, IInv, TypeOK
<1>3. sweep' \in Sweep /\ sweep'.phase = sweep.phase /\ sweep'.mark = sweep.mark
  BY <1>2 DEF Sweep
<1>4. blob' \in [Hashes -> Ages] /\ durable' \subseteq Hashes
  BY DEF SweepBlob, IInv, TypeOK, Ages
<1>5. TypeOK' /\ MarkOrReleased'
  BY <1>1, <1>3, <1>4 DEF IInv, TypeOK, MarkOrReleased
<1>6. ASSUME NEW g \in Present, g \notin Present'
      PROVE  g \notin Referenced /\ \A c \in Captures : cap[c].closed \/ g \notin cap[c].holds
  <2>1. g = h /\ ~IsLiveContent(h) /\ g \in Hashes
    BY <1>6 DEF SweepBlob, Present, IInv, TypeOK
  <2>2. held[g] = 0 /\ g \notin released /\ g \notin sweep.mark
    BY <2>1 DEF IsLiveContent, IInv, TypeOK
  <2>3. \A c \in Captures : cap[c].closed \/ g \notin cap[c].holds
    BY <2>1, <2>2, HeldIsHeld DEF IInv
  <2> QED
    BY <1>2, <2>1, <2>2, <2>3 DEF Referenced, IInv, MarkOrReleased
<1> QED
  BY <1>1, <1>5, <1>6

LEMMA SweepInv ==
  ASSUME IInv, SweepStep
  PROVE  IInv'
<1>1. ASSUME UNCHANGED <<cap, held, rows, crashes>>, TypeOK', MarkOrReleased', lost' = lost,
             \A g \in Present : \/ g \in Present'
                                \/ g \notin Referenced /\ \A c \in Captures :
                                     cap[c].closed \/ g \notin cap[c].holds
      PROVE  IInv'
  <2>1. LedgerExact' /\ ClosedIsOver'
    BY <1>1 DEF IInv, LedgerExact, ClosedIsOver
  <2>2. Leases' /\ GotIsKept'
    BY <1>1 DEF IInv, Leases, GotIsKept, TypeOK, Capture
  <2>3. Resolvable'
    BY <1>1 DEF IInv, Resolvable, Referenced
  <2> QED
    BY <1>1, <2>1, <2>2, <2>3 DEF IInv
<1>2. CASE \E h \in Hashes : SweepBlob(h)
  BY <1>1, <1>2, SweptBlob
<1>3. ASSUME UNCHANGED <<blob, lost, cap, held, rows, crashes>>, TypeOK', MarkOrReleased'
      PROVE  IInv'
  BY <1>1, <1>3 DEF Present
<1>4. CASE ListFiles
  BY <1>3, <1>4 DEF ListFiles, IInv, TypeOK, Sweep, IdleSweep, MarkOrReleased, files, Present
<1>5. CASE StartTracking
  BY <1>3, <1>5 DEF StartTracking, IInv, TypeOK, Sweep, MarkOrReleased, files
<1>6. CASE Mark
  BY <1>3, <1>6 DEF Mark, IInv, TypeOK, Sweep, MarkOrReleased, Referenced, files
<1>7. CASE SweepEnds
  BY <1>3, <1>7 DEF SweepEnds, IInv, TypeOK, Sweep, IdleSweep, MarkOrReleased, files
<1>8. CASE Older
  <2>1. Present' = Present /\ TypeOK' /\ MarkOrReleased'
    BY <1>8 DEF Older, IInv, TypeOK, Ages, Present, MarkOrReleased
  <2> QED
    BY <1>1, <1>8, <2>1 DEF Older
<1>9. CASE \E h \in Hashes : Inspect(h)
  <2>1. PICK h \in Hashes : Inspect(h)
    BY <1>9
  <2>2. sweep \in Sweep /\ sweep.phase = "listing"
    BY <2>1 DEF Inspect, IInv, TypeOK
  <2>3. sweep' \in Sweep /\ sweep'.phase = "listing"
    <3> DEFINE old == IF blob[h] = "old" THEN sweep.old \union {h} ELSE sweep.old
    <3>1. sweep' = [sweep EXCEPT !.todo = sweep.todo \ {h}, !.old = old]
      BY <2>1 DEF Inspect
    <3>2. old \in SUBSET Hashes
      BY <2>2 DEF Sweep
    <3> HIDE DEF old
    <3> QED
      BY <2>2, <3>1, <3>2 DEF Sweep
  <2> QED
    BY <1>3, <2>1, <2>3 DEF Inspect, IInv, TypeOK, MarkOrReleased, files
<1>10. CASE \E c \in Captures : SweepTemp(c)
  <2>1. TypeOK' /\ MarkOrReleased'
    BY <1>10 DEF SweepTemp, IInv, TypeOK, Ages, Sweep, MarkOrReleased
  <2> QED
    BY <1>3, <1>10, <2>1 DEF SweepTemp
<1> QED
  BY <1>2, <1>4, <1>5, <1>6, <1>7, <1>8, <1>9, <1>10 DEF SweepStep

LEMMA CrashInv ==
  ASSUME IInv, NEW gone \in SUBSET Present, Crash(gone)
  PROVE  IInv'
<1>1. /\ \A c \in Captures : cap'[c] = NoCapture \/ cap'[c] = Gone
      /\ cap' \in [Captures -> Capture]
  BY CaptureValues DEF Crash
<1>a. /\ NoCapture.holds = {} /\ NoCapture.got = {} /\ NoCapture.phase = "idle"
      /\ NoCapture.closed = FALSE /\ Gone.closed = TRUE /\ Gone.phase = "gone"
  BY DEF NoCapture, Gone
<1>2. TypeOK'
  <2>1. crashes' \in 0..MaxCrashes
    BY StoreAssumption DEF Crash, IInv, TypeOK
  <2>2. blob' \in [Hashes -> Ages] /\ lost' \subseteq Hashes
    BY DEF Crash, IInv, TypeOK, Ages, Present
  <2>3. held' \in [Hashes -> Nat] /\ sweep' \in Sweep /\ released' \subseteq Hashes
    BY DEF Crash, Sweep, IdleSweep
  <2> QED
    BY <1>1, <2>1, <2>2, <2>3 DEF Crash, IInv, TypeOK
<1>3. LedgerExact'
  <2>1. \A h \in Hashes : Holders(h)' = {}
    BY <1>1, <1>a DEF Holders
  <2> QED
    BY <2>1, FS_EmptySet DEF Crash, LedgerExact, Holders
<1>4. Leases' /\ ClosedIsOver' /\ GotIsKept'
  BY <1>1, <1>a DEF Leases, ClosedIsOver, GotIsKept
<1>5. MarkOrReleased'
  BY DEF Crash, MarkOrReleased, IdleSweep
<1>6. Resolvable'
  BY DEF Crash, IInv, Resolvable, Referenced, Present
<1> QED
  BY <1>2, <1>3, <1>4, <1>5, <1>6 DEF IInv

-----------------------------------------------------------------------------
\* The steps of captures, of the collector and of a crash keep the invariant: a
\* stale mark never decides alone, and the ledger counts what open captures hold.
THEOREM Invariance == Spec => []IInv
<1>1. IInv /\ [Next]_vars => IInv'
  <2>1. CASE Next
    BY <2>1, CaptureInv, SweepInv, CrashInv DEF Next
  <2>2. CASE UNCHANGED vars
    BY <2>2 DEF vars, files, IInv, TypeOK, LedgerExact, Leases, ClosedIsOver, GotIsKept,
                MarkOrReleased, Resolvable, Referenced, Present
  <2> QED
    BY <2>1, <2>2
<1> QED
  BY <1>1, InitInv, PTL DEF Spec

\* The collector of content-store.ts never takes what a checkpoint references,
\* whatever the captures, sweeps and crashes do and however they interleave.
THEOREM NothingReferencedIsCollected == Spec => []Resolvable
<1>1. IInv => Resolvable
  BY DEF IInv
<1> QED
  BY <1>1, Invariance, PTL

\* A reference that put returned is good until its capture closes, so the row that
\* captureCheckpoint commits names blobs that are there.
THEOREM PutsKeepTheirWord == Spec => []GotIsKept
<1>1. IInv => GotIsKept
  BY DEF IInv
<1> QED
  BY <1>1, Invariance, PTL

\* `held` counts exactly the open captures that hold a content.
THEOREM LedgerCounts == Spec => []LedgerExact
<1>1. IInv => LedgerExact
  BY DEF IInv
<1> QED
  BY <1>1, Invariance, PTL

\* Blobs, leases and reference counts keep their types.
THEOREM TypesHold == Spec => []TypeOK
<1>1. IInv => TypeOK
  BY DEF IInv
<1> QED
  BY <1>1, Invariance, PTL
=============================================================================
