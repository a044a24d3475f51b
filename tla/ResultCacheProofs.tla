------------------------- MODULE ResultCacheProofs -------------------------
(***************************************************************************)
(* Proofs about ResultCache, for any results, workspaces, sizes, shared    *)
(* blobs, slots and limits.                                                *)
(*                                                                         *)
(*   TypeCorrect        the cache, the slots and the calls keep types      *)
(*   PinsHold           a pin written on a safe result outlasts the sweeps *)
(*   QuotaIsKept        guesses exceed the quota only when planned at once *)
(*   GuessesNeverChain  at most one guess per requested retrieval          *)
(*   GuessesEvictFirst  no requested result goes before a guess            *)
(*   PinsFitCeiling     such pins fit the ceiling, check by check          *)
(*   EvictionIsFair     bytes come from a workspace over its share         *)
(*   SweepsFit          what a sweep leaves fits the cap, or must stay     *)
(***************************************************************************)
EXTENDS ResultCache, Sums

-----------------------------------------------------------------------------
(* What a slot may do *)

\* The ways a slot changes from old to new, apart from an eviction.
Idles(old, new)   == new = IdleSlot
Restarts(old, new) == new = SlotAt("sweep", None, "none")
Fetches(old, new) ==
    /\ old.pc = "idle"
    /\ \E r \in Results \ Cubes, row \in {"user", "guess"} : new = SlotAt("fetch", r, row)
Stored(old, k) ==
    [old EXCEPT !.pc = "stored", !.keys = [old.keys EXCEPT ![old.result] = k]]
Stores(old, new) ==
    old.pc = "fetch" /\ \E k \in Blob[old.result] : new = Stored(old, k)
Resolves(old, new) ==
    /\ old.pc = "stored" /\ old.row # "dead"
    /\ new = SlotAt("sweep", old.result, old.row)
Dies(old, new)    == old.pc \in {"fetch", "stored"} /\ new = [old EXCEPT !.row = "dead"]
Reads(old, new)   == old.pc = "sweep" /\ new = [old EXCEPT !.pc = "orphans", !.keys = key]
Reclaims(old, new) ==
    old.pc = "orphans" /\ new = [old EXCEPT !.pc = "cap", !.keys = NoKeys]
Sweeps(old, new)  == old.pc \in {"sweep", "cap"} /\ new = Snapshot(old)
Plans(old, new) ==
    /\ old.pc = "evict" /\ old.result # None
    /\ old.row # "guess" /\ NextWindow[old.result] # None
    /\ new = SlotAt("plan", old.result, old.row)
Evicts(s) ==
    \E r \in Results : Evict(s, r) /\ slot'[s] = [slot[s] EXCEPT !.held = @ \ {r},
                                                                  !.queue = @ \ {r}]

Moves(s) ==
    LET old == slot[s]
        new == slot'[s]
    IN  \/ new = old
        \/ Idles(old, new) \/ Restarts(old, new) \/ Fetches(old, new)
        \/ Stores(old, new) \/ Resolves(old, new) \/ Dies(old, new)
        \/ Reads(old, new) \/ Reclaims(old, new) \/ Sweeps(old, new)
        \/ Plans(old, new) \/ Evicts(s)

\* No obs_ job is behind a cube_.
JobInv == \A c \in Cubes : jobs[c] = 0 /\ c \notin found

LEMMA MoveStep ==
    ASSUME TypeOK, JobInv, [Next]_vars, NEW t \in Slots
    PROVE  Moves(t)
  <1> USE ShapeAssumption
  <1>1. slot \in [Slots -> SlotStates]
    BY DEF TypeOK
  <1>2. CASE UNCHANGED slot
    BY <1>2 DEF Moves
  <1>3. ASSUME NEW s \in Slots, NEW new, slot' = [slot EXCEPT ![s] = new],
               Moves(s) \/ slot'[s] = slot[s]
        PROVE  Moves(t)
    <2>1. CASE s = t
      BY <1>3, <2>1 DEF Moves
    <2>2. CASE s # t
      BY <1>1, <1>3, <2>2 DEF Moves
    <2> QED
      BY <2>1, <2>2
  <1>4. ASSUME NEW s \in Slots, NEW r \in Results, Fetch(s, r)
        PROVE  Moves(t)
    <2>1. PICK row \in {"user", "guess"} :
              /\ slot' = [slot EXCEPT ![s] = SlotAt("fetch", r, row)]
              /\ r \notin Cubes
      BY <1>4 DEF Fetch, JobInv, TypeOK
    <2>2. Fetches(slot[s], slot'[s])
      BY <1>1, <1>4, <2>1 DEF Fetch, Fetches
    <2> QED
      BY <1>3, <2>1, <2>2 DEF Moves
  <1>5. ASSUME NEW s \in Slots, NEW r \in Results, Evict(s, r)
        PROVE  Moves(t)
    <2> DEFINE new == [slot[s] EXCEPT !.held = @ \ {r}, !.queue = @ \ {r}]
    <2>1. slot' = [slot EXCEPT ![s] = new]
      BY <1>1, <1>5 DEF Evict
    <2>2. Evicts(s)
      BY <1>1, <1>5, <2>1 DEF Evicts
    <2> QED
      BY <1>3, <2>1, <2>2 DEF Moves
  <1>6. ASSUME NEW s \in Slots, Store(s)
        PROVE  Moves(t)
    <2>1. PICK k \in Blob[slot[s].result] :
              slot' = [slot EXCEPT ![s] = Stored(slot[s], k)]
      BY <1>1, <1>6 DEF Store, Stored, SlotStates
    <2>2. Stores(slot[s], slot'[s])
      BY <1>1, <1>6, <2>1 DEF Store, Stores
    <2> QED
      BY <1>3, <2>1, <2>2 DEF Moves
  <1>7. ASSUME NEW s \in Slots, Resolve(s)
        PROVE  Moves(t)
    <2>1. CASE slot[s].row = "dead"
      BY <1>1, <1>3, <1>7, <2>1 DEF Resolve, Moves, Idles
    <2>2. CASE slot[s].row # "dead"
      BY <1>1, <1>3, <1>7, <2>2 DEF Resolve, Moves, Resolves
    <2> QED
      BY <2>1, <2>2
  <1>8. ASSUME NEW s \in Slots, TaskDies(s)
        PROVE  Moves(t)
    <2>1. CASE slot' = [slot EXCEPT ![s] = IdleSlot]
      BY <1>1, <1>3, <2>1 DEF Moves, Idles
    <2>2. CASE slot[s].pc \in {"fetch", "stored"} /\ slot' = [slot EXCEPT ![s].row = "dead"]
      <3>1. slot' = [slot EXCEPT ![s] = [@ EXCEPT !.row = "dead"]]
        BY <2>2
      <3> QED
        BY <1>1, <1>3, <2>2, <3>1 DEF Moves, Dies
    <2> QED
      BY <1>8, <2>1, <2>2 DEF TaskDies
  <1>9. ASSUME NEW s \in Slots, ReadKeys(s)
        PROVE  Moves(t)
    <2>1. slot' = [slot EXCEPT ![s] = [@ EXCEPT !.pc = "orphans", !.keys = key]]
      BY <1>9 DEF ReadKeys
    <2> QED
      BY <1>1, <1>3, <1>9, <2>1 DEF ReadKeys, Moves, Reads
  <1>10. ASSUME NEW s \in Slots, Reclaim(s)
         PROVE  Moves(t)
    <2>1. slot' = [slot EXCEPT ![s] = [@ EXCEPT !.pc = "cap", !.keys = NoKeys]]
      BY <1>10 DEF Reclaim
    <2> QED
      BY <1>1, <1>3, <1>10, <2>1 DEF Reclaim, Moves, Reclaims
  <1>11. ASSUME NEW s \in Slots, Sweep(s)
         PROVE  Moves(t)
    BY <1>1, <1>3, <1>11 DEF Sweep, Moves, Sweeps
  <1>12. ASSUME NEW s \in Slots, Gate(s)
         PROVE  Moves(t)
    <2>1. CASE PrefetchGates(s)
      BY <1>1, <1>3, <1>12, <2>1 DEF Gate, PrefetchGates, MayGuess, Moves, Plans
    <2>2. CASE ~PrefetchGates(s)
      BY <1>1, <1>3, <1>12, <2>2 DEF Gate, Moves, Idles
    <2> QED
      BY <2>1, <2>2
  <1>13. ASSUME NEW s \in Slots, Prefetch(s)
         PROVE  Moves(t)
    BY <1>1, <1>3, <1>13 DEF Prefetch, Moves, Idles
  <1>14. CASE WorkerDies
    BY <1>14 DEF WorkerDies, Moves, Idles, Restarts
  <1>15. CASE \E r \in Wanted : Request(r) \/ Rematerialize(r) \/ Reset(r)
    BY <1>2, <1>15 DEF Request, Rematerialize, Reset
  <1>16. CASE \E c \in Cubes : StoreCube(c) \/ MintCube(c)
    BY <1>2, <1>16 DEF StoreCube, MintCube
  <1>17. CASE \E r \in Kept : PinCheck(r) \/ PinWrite(r) \/ Unpin(r)
    BY <1>2, <1>17 DEF PinCheck, PinWrite, Unpin
  <1>18. CASE \E r \in Results : JobDies(r)
    BY <1>2, <1>18 DEF JobDies
  <1>19. CASE UNCHANGED vars
    BY <1>2, <1>19 DEF vars
  <1> QED
    BY <1>4, <1>5, <1>6, <1>7, <1>8, <1>9, <1>10, <1>11, <1>12, <1>13, <1>14, <1>15,
       <1>16, <1>17, <1>18, <1>19 DEF Next

-----------------------------------------------------------------------------
(* Types *)

\* Where a task has materialized its result.
Past == {"sweep", "orphans", "cap", "evict", "plan"}

\* A slot works on an obs_ until it is idle again, except in a sweep of startup;
\* it stores under one of the result's keys, and plans only a window predicted
\* for a user.
RecordOK(record) ==
    LET r == record.result IN
    /\ record.pc \in {"fetch", "stored"} => r \in Results \ Cubes /\ record.row # "none"
    /\ record.pc = "stored" => record.keys[r] \in Blob[r]
    /\ record.pc \in Past => \/ r = None /\ record.row = "none" /\ record.pc # "plan"
                             \/ r \in Results \ Cubes /\ record.row \in {"user", "guess"}
    /\ record.pc = "plan" => record.row = "user" /\ NextWindow[r] \in Results
    /\ record.pc # "evict" => record.queue = {}
    /\ \A q \in Results : record.keys[q] \in Blob[q] \cup {None}

SlotInv == \A s \in Slots : RecordOK(slot[s])

\* A payload names a key of its own result, and one if it is ready.
KeyInv ==
    \A r \in Results : /\ key[r] \in Blob[r] \cup {None}
                       /\ status[r] = "ready" => key[r] # None

LEMMA NoKeysType == NoKeys \in [Results -> Keys \cup {None}] /\ \A r \in Results : NoKeys[r] = None
  BY DEF NoKeys

LEMMA SlotAtType ==
    ASSUME NEW pc, NEW result, NEW row
    PROVE  /\ SlotAt(pc, result, row).pc = pc /\ SlotAt(pc, result, row).result = result
           /\ SlotAt(pc, result, row).row = row /\ SlotAt(pc, result, row).keys = NoKeys
           /\ SlotAt(pc, result, row).held = {} /\ SlotAt(pc, result, row).queue = {}
           /\ SlotAt(pc, result, row).pinned = {} /\ SlotAt(pc, result, row).guessed = {}
           /\ SlotAt(pc, result, row).owners = {}
           /\ pc \in {"idle", "fetch", "stored", "sweep", "orphans", "cap", "evict", "plan"}
                  /\ result \in Results \cup {None} /\ row \in {"none", "user", "guess", "dead"}
                  => SlotAt(pc, result, row) \in SlotStates
  BY NoKeysType DEF SlotAt, IdleSlot, SlotStates

LEMMA IdleSlotType ==
    /\ IdleSlot \in SlotStates /\ RecordOK(IdleSlot)
    /\ IdleSlot.pc = "idle" /\ IdleSlot.queue = {} /\ IdleSlot.held = {}
  BY NoKeysType DEF IdleSlot, SlotStates, RecordOK, Past

LEMMA SnapshotType ==
    ASSUME TypeOK, KeyInv, NEW old \in SlotStates, RecordOK(old), old.pc \in {"sweep", "cap"}
    PROVE  /\ Snapshot(old) \in SlotStates /\ RecordOK(Snapshot(old))
           /\ Snapshot(old).pc = "evict" /\ Snapshot(old).row = old.row
           /\ Snapshot(old).result = old.result
           /\ Snapshot(old).queue \cap Pinned = {}
           /\ \/ /\ Snapshot(old).held = Candidates
                 /\ Snapshot(old).pinned = Candidates \cap Pinned
                 /\ Snapshot(old).queue = Evictable(Candidates, old.result)
              \/ /\ Snapshot(old).held = old.held /\ Snapshot(old).pinned = old.pinned
                 /\ Snapshot(old).queue = old.queue
  <1> USE ShapeAssumption
  <1> DEFINE over == SizeOf(Candidates) > Cap /\ SizeOf(Candidates \cap Pinned) <= Cap
             C == Candidates
             owners == {Owner[r] : r \in C}
             Q == Evictable(C, old.result)
  <1>1. C \subseteq Results /\ Q \subseteq Results /\ Q \cap Pinned = {}
    BY DEF Candidates, Ready, Evictable
  <1>2. owners \subseteq Workspaces
    BY <1>1
  <1>3. key \in [Results -> Keys \cup {None}]
    BY DEF TypeOK
  <1>4. CASE over
    <2> DEFINE new == [old EXCEPT !.pc = "evict", !.keys = key, !.held = C,
                                  !.pinned = C \cap Pinned, !.guessed = C \cap guessed,
                                  !.queue = Q, !.owners = owners]
    <2>1. Snapshot(old) = new
      BY <1>4 DEF Snapshot
    <2> HIDE DEF C, owners, Q
    <2>2. /\ new.pc = "evict" /\ new.row = old.row /\ new.result = old.result
          /\ new.keys = key /\ new.held = C /\ new.pinned = C \cap Pinned /\ new.queue = Q
      BY DEF SlotStates
    <2>3. new \in SlotStates
      BY <1>1, <1>2, <1>3 DEF SlotStates
    <2>4. RecordOK(new)
      BY <2>2 DEF RecordOK, KeyInv, Past
    <2> HIDE DEF new
    <2> QED
      BY <1>1, <2>1, <2>2, <2>3, <2>4 DEF C, Q
  <1>5. CASE ~over
    <2>1. Snapshot(old) = [old EXCEPT !.pc = "evict"]
      BY <1>5 DEF Snapshot
    <2>2. old.queue = {}
      BY DEF RecordOK
    <2> QED
      BY <2>1, <2>2 DEF SlotStates, RecordOK, Past
  <1> QED
    BY <1>4, <1>5

\* Whatever a slot does, its record stays what it should be.
LEMMA MoveType ==
    ASSUME TypeOK, SlotInv, KeyInv, NEW s \in Slots, Moves(s)
    PROVE  slot'[s] \in SlotStates /\ RecordOK(slot'[s])
  <1> USE ShapeAssumption
  <1> DEFINE old == slot[s]
             new == slot'[s]
  <1>1. old \in SlotStates /\ RecordOK(old)
    BY DEF TypeOK, SlotInv
  <1> SUFFICES new \in SlotStates /\ RecordOK(new)
    OBVIOUS
  <1> HIDE DEF old, new
  <1>2. CASE new = old
    BY <1>1, <1>2
  <1>3. CASE Idles(old, new)
    BY <1>3, IdleSlotType DEF Idles
  <1>4. CASE Restarts(old, new)
    BY <1>4, SlotAtType, NoKeysType DEF Restarts, RecordOK, Past
  <1>5. CASE Fetches(old, new)
    BY <1>5, SlotAtType, NoKeysType DEF Fetches, RecordOK, Past
  <1>6. CASE Stores(old, new)
    <2>1. PICK k \in Blob[old.result] : new = Stored(old, k)
      BY <1>6 DEF Stores
    <2>2. old.result \in Results \ Cubes /\ k \in Keys
      BY <1>1, <1>6, BlobAssumption DEF Stores, RecordOK
    <2> QED
      BY <1>1, <1>6, <2>1, <2>2 DEF Stored, Stores, RecordOK, SlotStates, Past
  <1>7. CASE Resolves(old, new)
    BY <1>1, <1>7, SlotAtType, NoKeysType DEF Resolves, RecordOK, Past, SlotStates
  <1>8. CASE Dies(old, new)
    BY <1>1, <1>8 DEF Dies, RecordOK, SlotStates, Past
  <1>9. CASE Reads(old, new)
    BY <1>1, <1>9 DEF TypeOK, KeyInv, Reads, RecordOK, SlotStates, Past
  <1>10. CASE Reclaims(old, new)
    BY <1>1, <1>10, NoKeysType DEF Reclaims, RecordOK, SlotStates, Past
  <1>11. CASE Sweeps(old, new)
    BY <1>1, <1>11, SnapshotType DEF Sweeps
  <1>12. CASE Plans(old, new)
    BY <1>1, <1>12, SlotAtType, NoKeysType DEF Plans, RecordOK, Past
  <1>13. CASE Evicts(s)
    <2>1. PICK r \in Results : new = [old EXCEPT !.held = @ \ {r}, !.queue = @ \ {r}]
                               /\ old.pc = "evict"
      BY <1>13 DEF Evicts, Evict, old, new
    <2> QED
      BY <1>1, <2>1 DEF RecordOK, SlotStates, Past
  <1> QED
    BY <1>2, <1>3, <1>4, <1>5, <1>6, <1>7, <1>8, <1>9, <1>10, <1>11, <1>12, <1>13
       DEF Moves, old, new

LEMMA SlotStep ==
    ASSUME TypeOK, SlotInv, KeyInv, JobInv, [Next]_vars
    PROVE  SlotInv' /\ \A s \in Slots : slot'[s] \in SlotStates
  BY MoveStep, MoveType DEF SlotInv

LEMMA KeyStep ==
    ASSUME TypeOK, SlotInv, KeyInv, [Next]_vars
    PROVE  KeyInv'
  <1> USE ShapeAssumption, BlobAssumption
  <1>1. CASE UNCHANGED <<key, status>>
    BY <1>1 DEF KeyInv
  <1>2. ASSUME NEW r \in Wanted, Request(r) \/ Rematerialize(r) \/ Reset(r)
        PROVE  KeyInv'
    BY <1>2 DEF TypeOK, KeyInv, Request, Rematerialize, Reset, Enqueue, rows, payloads
  <1>3. ASSUME NEW c \in Cubes, MintCube(c)
        PROVE  KeyInv'
    BY <1>3 DEF TypeOK, KeyInv, MintCube
  <1>4. ASSUME NEW s \in Slots, Resolve(s)
        PROVE  KeyInv'
    <2>1. slot[s].keys[slot[s].result] \in Blob[slot[s].result] /\ slot[s].result \in Results
      BY <1>4 DEF SlotInv, RecordOK, Resolve
    <2> QED
      BY <1>4, <2>1 DEF TypeOK, KeyInv, Resolve
  <1>5. ASSUME NEW s \in Slots, NEW r \in Results, Evict(s, r)
        PROVE  KeyInv'
    BY <1>5 DEF TypeOK, KeyInv, Evict
  <1>6. ASSUME NEW s \in Slots, Prefetch(s)
        PROVE  KeyInv'
    BY <1>6 DEF TypeOK, KeyInv, Prefetch
  <1>7. CASE \E c \in Cubes : StoreCube(c)
    BY <1>1, <1>7 DEF StoreCube, payloads
  <1>8. CASE \E r \in Kept : PinCheck(r) \/ PinWrite(r) \/ Unpin(r)
    BY <1>1, <1>8 DEF PinCheck, PinWrite, Unpin, payloads
  <1>9. CASE \E r \in Results : JobDies(r)
    BY <1>1, <1>9 DEF JobDies, payloads
  <1>10. CASE \E s \in Slots : Store(s) \/ TaskDies(s) \/ ReadKeys(s) \/ Reclaim(s)
                                \/ Sweep(s) \/ Gate(s) \/ \E r \in Results : Fetch(s, r)
    BY <1>1, <1>10 DEF Store, TaskDies, ReadKeys, Reclaim, Sweep, Gate, Fetch, payloads
  <1>11. CASE WorkerDies \/ UNCHANGED vars
    BY <1>1, <1>11 DEF WorkerDies, vars, payloads
  <1> QED
    BY <1>2, <1>3, <1>4, <1>5, <1>6, <1>7, <1>8, <1>9, <1>10, <1>11 DEF Next

LEMMA UsesType ==
    ASSUME TypeOK, NEW b \in Bounds, Uses(b)
    PROVE  used' \in [Bounds -> Nat]
  BY DEF TypeOK, Uses

\* The rows a dying worker had begun.
LEMMA BegunType ==
    ASSUME TypeOK, SlotInv, NEW r \in Results
    PROVE  /\ Cardinality(Begun(r, "user")) \in Nat
           /\ r \in Cubes => Begun(r, "user") = {} /\ Begun(r, "guess") = {}
  <1>1. Begun(r, "user") \subseteq Slots
    BY DEF Begun
  <1> QED
    BY <1>1, FS_Subset, FS_CardinalityType, ShapeAssumption DEF Begun, SlotInv, RecordOK

LEMMA JobStep ==
    ASSUME TypeOK, SlotInv, JobInv, [Next]_vars
    PROVE  JobInv'
  <1> USE ShapeAssumption
  <1>1. CASE UNCHANGED <<jobs, found>>
    BY <1>1 DEF JobInv
  <1>2. ASSUME NEW r \in Wanted, Request(r) \/ Rematerialize(r) \/ Reset(r)
        PROVE  JobInv'
    BY <1>2 DEF TypeOK, JobInv, Request, Rematerialize, Reset, Enqueue, rows, payloads
  <1>3. ASSUME NEW r \in Results, JobDies(r)
        PROVE  JobInv'
    BY <1>3 DEF TypeOK, JobInv, JobDies
  <1>4. ASSUME NEW s \in Slots, NEW r \in Results, Fetch(s, r)
        PROVE  JobInv'
    BY <1>4 DEF TypeOK, JobInv, Fetch
  <1>5. CASE WorkerDies
    <2>1. \A c \in Cubes : jobs'[c] = jobs[c] + Cardinality(Begun(c, "user"))
      BY <1>5 DEF WorkerDies
    <2>2. \A c \in Cubes : Begun(c, "user") = {}
      BY BegunType
    <2> QED
      <3>1. \A c \in Cubes : jobs'[c] = jobs[c] + 0
        BY <2>1, <2>2, FS_EmptySet
      <3>2. UNCHANGED found
        BY <1>5 DEF WorkerDies
      <3> QED
        BY <3>1, <3>2 DEF JobInv
  <1>6. CASE \E c \in Cubes : StoreCube(c) \/ MintCube(c)
    BY <1>1, <1>6 DEF StoreCube, MintCube, rows
  <1>7. CASE \E r \in Kept : PinCheck(r) \/ PinWrite(r) \/ Unpin(r)
    BY <1>1, <1>7 DEF PinCheck, PinWrite, Unpin, rows
  <1>8. CASE \E s \in Slots : \/ Store(s) \/ Resolve(s) \/ TaskDies(s) \/ ReadKeys(s)
                              \/ Reclaim(s) \/ Sweep(s) \/ Gate(s) \/ Prefetch(s)
                              \/ \E r \in Results : Evict(s, r)
    BY <1>1, <1>8 DEF Store, Resolve, TaskDies, ReadKeys, Reclaim, Sweep, Gate, Prefetch,
                      Evict, rows
  <1>9. CASE UNCHANGED vars
    BY <1>1, <1>9 DEF vars, rows
  <1> QED
    BY <1>2, <1>3, <1>4, <1>5, <1>6, <1>7, <1>8, <1>9 DEF Next

LEMMA RequestType ==
    ASSUME TypeOK, NEW r \in Wanted, Request(r) \/ Rematerialize(r) \/ Reset(r)
    PROVE  TypeOK'
  <1>1. CASE Enqueue(r)
    <2>1. used' \in [Bounds -> Nat]
      BY <1>1, UsesType DEF Enqueue, Bounds
    <2> QED
      BY <1>1, <2>1, ShapeAssumption
       DEF TypeOK, Enqueue, Request, Rematerialize, Reset, Statuses, PinStates, Bounds,
           payloads, rows, counts
  <1>2. CASE UNCHANGED <<status, pin, rows>>
    BY <1>2, ShapeAssumption
       DEF TypeOK, Request, Rematerialize, Reset, payloads, rows, counts
  <1> QED
    BY <1>1, <1>2 DEF Request, Rematerialize, Reset, payloads

LEMMA CubeType ==
    ASSUME TypeOK, NEW c \in Cubes, StoreCube(c) \/ MintCube(c)
    PROVE  TypeOK'
  BY ShapeAssumption, BlobAssumption
     DEF TypeOK, StoreCube, MintCube, Statuses, payloads, rows, counts

LEMMA PinType ==
    ASSUME TypeOK, NEW r \in Kept, PinCheck(r) \/ PinWrite(r) \/ Unpin(r)
    PROVE  TypeOK'
  <1>1. r \in Results /\ Owner[r] \in Workspaces
    BY ShapeAssumption
  <1>2. CASE PinCheck(r)
    BY <1>1, <1>2, UsesType DEF TypeOK, PinCheck, Bounds, payloads
  <1>3. CASE PinWrite(r)
    BY <1>1, <1>3 DEF TypeOK, PinWrite, PinStates, rows, counts
  <1>4. CASE Unpin(r)
    BY <1>1, <1>4 DEF TypeOK, Unpin, PinStates, rows, counts
  <1> QED
    BY <1>2, <1>3, <1>4

\* A slot's step, the slots themselves apart.
LEMMA WorkType ==
    ASSUME TypeOK, SlotInv, NEW s \in Slots, slot' \in [Slots -> SlotStates],
           \/ Store(s) \/ Resolve(s) \/ TaskDies(s) \/ ReadKeys(s) \/ Reclaim(s)
           \/ Sweep(s) \/ Gate(s) \/ Prefetch(s)
           \/ \E r \in Results : Fetch(s, r) \/ Evict(s, r)
    PROVE  TypeOK'
  <1> USE ShapeAssumption, BlobAssumption DEF payloads, rows, counts
  <1> DEFINE r == slot[s].result
  <1>1. CASE Store(s)
    <2>1. Blob[r] \subseteq Keys
      BY <1>1 DEF SlotInv, RecordOK, Store
    <2>2. /\ \E k \in Blob[r] : blobs' = blobs \cup {k}
          /\ UNCHANGED <<payloads, rows, found, emitting, pinning, counts>>
      BY <1>1 DEF Store
    <2> HIDE DEF r
    <2> QED
      BY <2>1, <2>2 DEF TypeOK
  <1>2. CASE Resolve(s)
    <2>1. /\ r \in Results /\ slot[s].keys[r] \in Keys
          /\ Owner[r] \in Workspaces /\ finished[Owner[r]] + 1 \in Nat
      BY <1>2 DEF TypeOK, SlotInv, RecordOK, Resolve
    <2> QED
      BY <1>2, <2>1 DEF TypeOK, Resolve, Statuses, PinStates
  <1>3. CASE TaskDies(s)
    <2>1. r \in Results
      BY <1>3 DEF TaskDies, SlotInv, RecordOK
    <2> QED
      BY <1>3, <2>1, UsesType DEF TypeOK, TaskDies, RowDies, Bounds
  <1>4. CASE ReadKeys(s)
    BY <1>4, UsesType DEF TypeOK, ReadKeys, Bounds
  <1>5. CASE Reclaim(s) \/ Sweep(s)
    BY <1>5 DEF TypeOK, Reclaim, Sweep
  <1>6. CASE Gate(s)
    <2>1. PrefetchGates(s) => Owner[r] \in Workspaces
      BY <1>6 DEF PrefetchGates, Gate, SlotInv, RecordOK, Past
    <2> QED
      BY <1>6, <2>1 DEF TypeOK, Gate
  <1>7. CASE Prefetch(s)
    <2> DEFINE next == NextWindow[r]
    <2>1. next \in Results \ Cubes /\ Owner[next] \in Workspaces /\ guesses[Owner[next]] + 1 \in Nat
      BY <1>7 DEF TypeOK, Prefetch, SlotInv, RecordOK, Past
    <2> QED
      BY <1>7, <2>1 DEF TypeOK, Prefetch, Statuses
  <1>8. ASSUME NEW q \in Results, Fetch(s, q)
        PROVE  TypeOK'
    BY <1>8 DEF TypeOK, Fetch
  <1>9. ASSUME NEW q \in Results, Evict(s, q)
        PROVE  TypeOK'
    BY <1>9 DEF TypeOK, Evict, Statuses
  <1> QED
    BY <1>1, <1>2, <1>3, <1>4, <1>5, <1>6, <1>7, <1>8, <1>9

LEMMA DieType ==
    ASSUME TypeOK, SlotInv, WorkerDies
    PROVE  TypeOK'
  <1>1. /\ jobs' \in [Results -> Nat]
        /\ guessRows' \subseteq Results \ Cubes
        /\ used' \in [Bounds -> Nat]
    <2>1. \A r \in Results : jobs[r] + Cardinality(Begun(r, "user")) \in Nat
      BY BegunType DEF TypeOK
    <2>2. \A r \in Results : Begun(r, "guess") # {} => r \notin Cubes
      BY BegunType
    <2> QED
      BY <2>1, <2>2, UsesType DEF WorkerDies, TypeOK, Bounds
  <1>2. slot' \in [Slots -> SlotStates]
    BY IdleSlotType, SlotAtType DEF WorkerDies
  <1> QED
    BY <1>1, <1>2 DEF TypeOK, WorkerDies, payloads, counts

LEMMA TypeStep ==
    ASSUME TypeOK, SlotInv, KeyInv, JobInv, [Next]_vars
    PROVE  TypeOK'
  <1>1. CASE \E r \in Wanted : Request(r) \/ Rematerialize(r) \/ Reset(r)
    BY <1>1, RequestType
  <1>2. CASE \E c \in Cubes : StoreCube(c) \/ MintCube(c)
    BY <1>2, CubeType
  <1>3. CASE \E r \in Kept : PinCheck(r) \/ PinWrite(r) \/ Unpin(r)
    BY <1>3, PinType
  <1>4. ASSUME NEW r \in Results, JobDies(r)
        PROVE  TypeOK'
    BY <1>4, UsesType DEF TypeOK, JobDies, RowDies, Bounds, payloads, counts
  <1>5. ASSUME NEW s \in Slots,
               \/ Store(s) \/ Resolve(s) \/ TaskDies(s) \/ ReadKeys(s) \/ Reclaim(s)
               \/ Sweep(s) \/ Gate(s) \/ Prefetch(s)
               \/ \E r \in Results : Fetch(s, r) \/ Evict(s, r)
        PROVE  TypeOK'
    <2>1. \E f : slot' = [slot EXCEPT ![s] = f[s]]
      <3>1. slot' = [slot EXCEPT ![s] = slot'[s]]
        BY <1>5 DEF TypeOK, Store, Resolve, TaskDies, ReadKeys, Reclaim, Sweep, Gate,
                    Prefetch, Fetch, Evict
      <3> QED
        BY <3>1
    <2>2. slot' \in [Slots -> SlotStates]
      BY <2>1, SlotStep DEF TypeOK
    <2> QED
      BY <1>5, <2>2, WorkType
  <1>6. CASE WorkerDies
    BY <1>6, DieType
  <1>7. CASE UNCHANGED vars
    BY <1>7 DEF vars, payloads, rows, counts, TypeOK
  <1> QED
    BY <1>1, <1>2, <1>3, <1>4, <1>5, <1>6, <1>7 DEF Next

-----------------------------------------------------------------------------
(* Pins *)

\* What PinHolds rests on: a result about to be pinned is one that somebody
\* asked for and stays so, and no orphan pass is about to take a pinned one.
PinInv ==
    /\ PinHolds
    /\ \A r \in pinning : r \notin guessed /\ status[r] # "absent"
    /\ \A r \in Results : pin[r] = "yes" => Spared(key[r])

\* No slot queues a result that is pinned, and none reads the keys anew without
\* those the pinned results have.
Spares(r) ==
    \A s \in Slots : /\ r \in slot'[s].queue => r \in slot[s].queue
                     /\ slot'[s].pc = "orphans" => key[r] \in {slot'[s].keys[q] : q \in Results}

\* A step that spares what is pinned, and rewrites no such payload.
LEMMA PinKept ==
    ASSUME TypeOK, PinInv, NEW r \in Results, pin[r] = "yes", pin'[r] = "yes", Spares(r),
           status'[r] = status[r], key'[r] = key[r], r \in guessed' => r \in guessed,
           Sole(r) => key[r] \in blobs'
    PROVE  /\ status'[r] = "ready" /\ r \notin guessed' /\ ~Queued(r)'
           /\ Sole(r)' => key'[r] \in blobs'
           /\ Spared(key[r])'
  BY DEF PinInv, PinHolds, Queued, Spared, Read, Spares, Sole

\* Whatever the slots do, they spare what is pinned.
LEMMA MovesSpare ==
    ASSUME TypeOK, SlotInv, KeyInv, PinInv, NEW r \in Results, pin[r] = "yes",
           \A s \in Slots : Moves(s)
    PROVE  Spares(r)
  <1> SUFFICES ASSUME NEW s \in Slots
               PROVE  /\ r \in slot'[s].queue => r \in slot[s].queue
                      /\ slot'[s].pc = "orphans" =>
                             key[r] \in {slot'[s].keys[q] : q \in Results}
    BY DEF Spares
  <1> DEFINE old == slot[s]
             new == slot'[s]
  <1>1. /\ old \in SlotStates /\ RecordOK(old)
        /\ old.pc = "orphans" => key[r] \in {old.keys[q] : q \in Results}
    BY DEF TypeOK, SlotInv, PinInv, Spared, Read
  <1> SUFFICES /\ r \in new.queue => r \in old.queue
               /\ new.pc = "orphans" => key[r] \in {new.keys[q] : q \in Results}
    OBVIOUS
  <1> HIDE DEF old, new
  <1>2. CASE new = old
    BY <1>1, <1>2
  <1>3. CASE Idles(old, new) \/ Restarts(old, new) \/ Fetches(old, new) \/ Resolves(old, new)
             \/ Plans(old, new)
    BY <1>3, IdleSlotType, SlotAtType DEF Idles, Restarts, Fetches, Resolves, Plans
  <1>4. CASE Stores(old, new)
    BY <1>1, <1>4 DEF Stores, Stored, SlotStates
  <1>5. CASE Dies(old, new) \/ Reclaims(old, new) \/ Reads(old, new)
    BY <1>1, <1>5 DEF Dies, Reclaims, Reads, SlotStates
  <1>6. CASE Sweeps(old, new)
    BY <1>1, <1>6, SnapshotType DEF Sweeps, Pinned
  <1>7. CASE Evicts(s)
    <2>1. PICK q \in Results : new = [old EXCEPT !.held = @ \ {q}, !.queue = @ \ {q}]
                               /\ old.pc = "evict"
      BY <1>7 DEF Evicts, Evict, old, new
    <2> QED
      BY <1>1, <2>1 DEF SlotStates
  <1> QED
    BY <1>2, <1>3, <1>4, <1>5, <1>6, <1>7 DEF Moves, old, new

\* A step after which every pin in force was so before.
LEMMA PinStep ==
    ASSUME TypeOK, SlotInv, KeyInv, PinInv, \A s \in Slots : Moves(s),
           \A r \in Results : pin'[r] = "yes" =>
               /\ pin[r] = "yes" /\ status'[r] = status[r] /\ key'[r] = key[r]
               /\ r \in guessed' => r \in guessed
               /\ Sole(r) => key[r] \in blobs',
           \A r \in pinning' : r \in pinning /\ (r \in guessed' => r \in guessed)
                                  /\ (status'[r] = "absent" => status[r] = "absent")
    PROVE  PinInv'
  <1>1. \A r \in pinning' : r \notin guessed' /\ status'[r] # "absent"
    BY DEF PinInv
  <1>2. ASSUME NEW r \in Results, pin'[r] = "yes"
        PROVE  /\ status'[r] = "ready" /\ r \notin guessed' /\ ~Queued(r)'
               /\ Sole(r)' => key'[r] \in blobs'
               /\ Spared(key[r])' /\ key'[r] = key[r]
    BY <1>2, PinKept, MovesSpare
  <1>3. PinHolds'
    BY <1>2 DEF PinHolds
  <1>4. \A r \in Results : pin'[r] = "yes" => Spared(key[r])'
    BY <1>2 DEF Spared, Read
  <1> QED
    BY <1>1, <1>3, <1>4 DEF PinInv

LEMMA PinInvStep ==
    ASSUME TypeOK, SlotInv, KeyInv, JobInv, PinInv, [Next]_vars
    PROVE  PinInv'
  <1> USE ShapeAssumption, BlobAssumption DEF payloads, rows, counts
  <1>0. \A s \in Slots : Moves(s)
    BY MoveStep
  <1>1. CASE /\ UNCHANGED <<status, key, pin>> /\ pinning' \subseteq pinning
             /\ guessed' \subseteq guessed /\ blobs \subseteq blobs'
    BY <1>0, <1>1, PinStep DEF PinInv, PinHolds
  <1>2. ASSUME NEW r \in Wanted, Request(r) \/ Rematerialize(r) \/ Reset(r)
        PROVE  PinInv'
    <2>1. CASE Enqueue(r)
      <3>1. UNCHANGED <<key, blobs, pinning>> /\ guessed' \subseteq guessed
        BY <1>2 DEF Request, Rematerialize, Reset
      <3>2. /\ status' = [status EXCEPT ![r] = "pending"]
            /\ pin' = [pin EXCEPT ![r] = IF @ = "no" THEN "no" ELSE "loose"]
        BY <2>1 DEF Enqueue
      <3> QED
        BY <1>0, <3>1, <3>2, PinStep DEF TypeOK, PinInv, PinHolds
    <2>2. CASE UNCHANGED <<status, pin, key>>
      BY <1>1, <1>2, <2>2 DEF Request, Rematerialize, Reset
    <2> QED
      BY <1>2, <2>1, <2>2 DEF Request, Rematerialize, Reset
  <1>3. ASSUME NEW c \in Cubes, MintCube(c)
        PROVE  PinInv'
    <2>1. PICK k \in Blob[c] : key' = [key EXCEPT ![c] = k]
      BY <1>3 DEF MintCube
    <2>2. /\ status' = [status EXCEPT ![c] = "ready"]
          /\ UNCHANGED <<guessed, pin, blobs, pinning>>
      BY <1>3 DEF MintCube
    <2>3. pin[c] = "yes" => status[c] = "ready" /\ key[c] = k
      BY DEF PinInv, PinHolds, KeyInv
    <2> QED
      BY <1>0, <2>1, <2>2, <2>3, PinStep DEF TypeOK, PinInv, PinHolds
  <1>4. ASSUME NEW r \in Kept, PinCheck(r)
        PROVE  PinInv'
    BY <1>4 DEF PinInv, PinHolds, Sole, Queued, Spared, Read, PinCheck, Ready
  <1>5. ASSUME NEW r \in Kept, PinWrite(r)
        PROVE  PinInv'
    <2>1. /\ r \in pinning /\ pinning' = pinning \ {r}
          /\ pin' = [pin EXCEPT ![r] = IF Safe(r) THEN "yes" ELSE "loose"]
          /\ UNCHANGED <<status, key, guessed, blobs, slot>>
      BY <1>5 DEF PinWrite
    <2>2. Safe(r) => status[r] = "ready" /\ key[r] \in blobs /\ ~Queued(r) /\ Spared(key[r])
      BY DEF Safe, Ready
    <2> QED
      BY <2>1, <2>2 DEF TypeOK, PinInv, PinHolds, Sole, Queued, Spared, Read
  <1>6. ASSUME NEW r \in Kept, Unpin(r)
        PROVE  PinInv'
    <2>1. \A q \in Results : pin'[q] = "yes" => pin[q] = "yes"
      BY <1>6 DEF TypeOK, Unpin
    <2> QED
      BY <1>0, <1>6, <2>1, PinStep DEF Unpin, PinInv, PinHolds
  <1>7. ASSUME NEW s \in Slots, Resolve(s)
        PROVE  PinInv'
    <2> DEFINE r == slot[s].result
    <2>1. /\ status' = [status EXCEPT ![r] = "ready"]
          /\ pin' = [pin EXCEPT ![r] = IF @ = "no" THEN "no" ELSE "loose"]
          /\ key' = [key EXCEPT ![r] = slot[s].keys[r]]
          /\ UNCHANGED <<guessed, blobs, pinning>>
      BY <1>7 DEF Resolve
    <2>2. r \in Results
      BY <1>7 DEF Resolve, SlotInv, RecordOK
    <2> HIDE DEF r
    <2> QED
      BY <1>0, <2>1, <2>2, PinStep DEF TypeOK, PinInv, PinHolds
  <1>8. ASSUME NEW s \in Slots, Reclaim(s)
        PROVE  PinInv'
    <2>1. /\ blobs' = blobs \cap Read(s) /\ slot[s].pc = "orphans"
          /\ UNCHANGED <<status, key, guessed, pin, pinning>>
      BY <1>8 DEF Reclaim
    <2>2. \A r \in Results : pin[r] = "yes" => key[r] \in Read(s)
      BY <2>1 DEF PinInv, Spared
    <2> QED
      BY <1>0, <2>1, <2>2, PinStep DEF PinInv, PinHolds
  <1>9. ASSUME NEW s \in Slots, NEW r \in Results, Evict(s, r)
        PROVE  PinInv'
    <2>1. /\ blobs' = blobs \ {slot[s].keys[r]}
          /\ status' = [status EXCEPT ![r] = "expired"]
          /\ key' = [key EXCEPT ![r] = None]
          /\ UNCHANGED <<guessed, pin, pinning>>
      BY <1>9 DEF Evict
    <2>2. pin[r] # "yes"
      BY <1>9 DEF Evict, Queued, PinInv, PinHolds
    <2>3. slot[s].keys[r] \in Blob[r] \cup {None}
      BY DEF SlotInv, RecordOK
    <2>4. ASSUME NEW q \in Results, pin[q] = "yes", Sole(q)
          PROVE  key[q] \in blobs'
      <3>1. status[q] = "ready" /\ key[q] \in blobs /\ key[q] \in Blob[q]
        BY <2>4 DEF PinInv, PinHolds, KeyInv
      <3>2. slot[s].keys[r] # key[q]
        BY <2>2, <2>3, <2>4, <3>1 DEF Sole
      <3> QED
        BY <2>1, <3>1, <3>2
    <2> QED
      BY <1>0, <2>1, <2>2, <2>4, PinStep DEF TypeOK
  <1>10. ASSUME NEW s \in Slots, Prefetch(s)
         PROVE  PinInv'
    <2> DEFINE next == NextWindow[slot[s].result]
    <2>1. next \in Results
      BY <1>10 DEF Prefetch, SlotInv, RecordOK
    <2>2. /\ \/ /\ status[next] = "absent"
                /\ status' = [status EXCEPT ![next] = "pending"]
                /\ guessed' = guessed \cup {next}
             \/ UNCHANGED <<status, guessed>>
          /\ UNCHANGED <<key, pin, blobs, pinning>>
      BY <1>10 DEF Prefetch
    <2> HIDE DEF next
    <2> QED
      BY <1>0, <2>1, <2>2, PinStep DEF TypeOK, PinInv, PinHolds
  <1>11. CASE \E c \in Cubes : StoreCube(c)
    BY <1>1, <1>11 DEF StoreCube
  <1>12. CASE \E r \in Results : JobDies(r)
    BY <1>1, <1>12 DEF JobDies
  <1>13. CASE \E s \in Slots : Store(s)
    BY <1>1, <1>13 DEF Store
  <1>14. CASE \E s \in Slots : TaskDies(s) \/ ReadKeys(s) \/ Sweep(s) \/ Gate(s)
                                \/ \E r \in Results : Fetch(s, r)
    BY <1>1, <1>14 DEF TaskDies, ReadKeys, Sweep, Gate, Fetch
  <1>15. CASE WorkerDies
    BY <1>1, <1>15 DEF WorkerDies
  <1>16. CASE UNCHANGED vars
    BY <1>1, <1>16 DEF vars
  <1> QED
    BY <1>2, <1>3, <1>4, <1>5, <1>6, <1>7, <1>8, <1>9, <1>10, <1>11, <1>12, <1>13, <1>14,
       <1>15, <1>16 DEF Next

-----------------------------------------------------------------------------
(* Quota and chaining *)

\* Where no two slots planned at once, whoever is planning was within quota.
QuotaInv ==
    \A w \in Workspaces : <<"guess", w>> \in overlapped \/
        /\ guesses[w] <= Budget
        /\ Planning(w) # {} => guesses[w] < Budget
        /\ \A s, t \in Planning(w) : s = t

\* Slots past materializing what some user requested: each may yet guess once.
Tickets(w) == {s \in Slots : slot[s].pc \in Past /\ slot[s].row = "user"
                                /\ Owner[slot[s].result] = w}

ChainInv == \A w \in Workspaces : guesses[w] + Cardinality(Tickets(w)) <= finished[w]

LEMMA TicketsFinite ==
    \A w : /\ IsFiniteSet(Tickets(w)) /\ Cardinality(Tickets(w)) \in Nat
           /\ IsFiniteSet(Tickets(w)') /\ Cardinality(Tickets(w)') \in Nat
  BY ShapeAssumption, FS_Subset, FS_CardinalityType DEF Tickets

LEMMA TicketsShrink ==
    ASSUME NEW w, Tickets(w)' \subseteq Tickets(w)
    PROVE  Cardinality(Tickets(w)') <= Cardinality(Tickets(w))
  BY TicketsFinite, FS_Subset

LEMMA TicketUsed ==
    ASSUME NEW w, NEW s \in Tickets(w), Tickets(w)' = Tickets(w) \ {s}
    PROVE  Cardinality(Tickets(w)') = Cardinality(Tickets(w)) - 1
  BY TicketsFinite, FS_RemoveElement

LEMMA TicketIssued ==
    ASSUME NEW w, NEW s, Tickets(w)' \subseteq Tickets(w) \cup {s}
    PROVE  Cardinality(Tickets(w)') <= Cardinality(Tickets(w)) + 1
  <1> DEFINE T == Tickets(w)
  <1>0. IsFiniteSet(T) /\ Cardinality(T) \in Nat
    BY TicketsFinite
  <1> HIDE DEF T
  <1>a. /\ IsFiniteSet(T \cup {s})
        /\ Cardinality(T \cup {s}) \in {Cardinality(T), Cardinality(T) + 1}
    BY <1>0, FS_AddElement
  <1>1. /\ IsFiniteSet(T \cup {s})
        /\ Cardinality(T \cup {s}) <= Cardinality(T) + 1
        /\ Cardinality(T \cup {s}) \in Nat
    BY <1>0, <1>a
  <1> USE DEF T
  <1>2. Cardinality(Tickets(w)') <= Cardinality(Tickets(w) \cup {s})
    BY <1>1, FS_Subset
  <1> QED
    BY <1>1, <1>2, TicketsFinite

\* Steps that leave the counters alone, start no planning and finish no requested
\* materialization.
LEMMA QuietStep ==
    ASSUME TypeOK, QuotaInv, ChainInv, UNCHANGED <<finished, guesses>>,
           overlapped \subseteq overlapped',
           \A s \in Slots :
               /\ slot'[s].pc \in Past /\ slot'[s].row = "user" =>
                      /\ slot[s].pc \in Past /\ slot[s].row = "user"
                      /\ slot'[s].result = slot[s].result
               /\ slot'[s].pc = "plan" =>
                      slot[s].pc = "plan" /\ slot'[s].result = slot[s].result
    PROVE  QuotaInv' /\ ChainInv'
  <1>1. \A w : Planning(w)' \subseteq Planning(w) /\ Tickets(w)' \subseteq Tickets(w)
    BY DEF Planning, Tickets
  <1>2. QuotaInv'
    BY <1>1 DEF QuotaInv
  <1>3. \A w \in Workspaces : guesses[w] \in Nat /\ finished[w] \in Nat
    BY DEF TypeOK
  <1>4. ChainInv'
    BY <1>1, <1>3, TicketsShrink, TicketsFinite DEF ChainInv
  <1> QED
    BY <1>2, <1>4

\* No slot starts to plan, or finishes a materialization, but by Gate and Resolve.
Quiet(old, new) ==
    /\ new.pc \in Past /\ new.row = "user" =>
           old.pc \in Past /\ old.row = "user" /\ new.result = old.result
    /\ new.pc = "plan" => old.pc = "plan" /\ new.result = old.result

LEMMA QuietMove ==
    ASSUME TypeOK, SlotInv, KeyInv, NEW s \in Slots, Moves(s),
           ~Resolves(slot[s], slot'[s]), ~Plans(slot[s], slot'[s])
    PROVE  Quiet(slot[s], slot'[s])
  <1> DEFINE old == slot[s]
             new == slot'[s]
  <1>1. old \in SlotStates /\ RecordOK(old)
    BY DEF TypeOK, SlotInv
  <1> SUFFICES Quiet(old, new)
    OBVIOUS
  <1> HIDE DEF old, new
  <1>2. CASE new = old
    BY <1>2 DEF Quiet
  <1>3. CASE Idles(old, new) \/ Restarts(old, new) \/ Fetches(old, new)
    BY <1>3, IdleSlotType, SlotAtType DEF Idles, Restarts, Fetches, Quiet, Past
  <1>4. CASE Stores(old, new)
    BY <1>1, <1>4 DEF Stores, Stored, SlotStates, Quiet, Past
  <1>5. CASE Dies(old, new) \/ Reclaims(old, new) \/ Reads(old, new)
    BY <1>1, <1>5 DEF Dies, Reclaims, Reads, SlotStates, Quiet, Past
  <1>6. CASE Sweeps(old, new)
    BY <1>1, <1>6, SnapshotType DEF Sweeps, Quiet, Past
  <1>7. CASE Evicts(s)
    <2>1. PICK q \in Results : new = [old EXCEPT !.held = @ \ {q}, !.queue = @ \ {q}]
                               /\ old.pc = "evict"
      BY <1>7 DEF Evicts, Evict, old, new
    <2> QED
      BY <1>1, <2>1 DEF SlotStates, Quiet, Past
  <1> QED
    BY <1>2, <1>3, <1>4, <1>5, <1>6, <1>7 DEF Moves, old, new

LEMMA ResolveCounts ==
    ASSUME TypeOK, SlotInv, QuotaInv, ChainInv, NEW s \in Slots, Resolve(s)
    PROVE  QuotaInv' /\ ChainInv'
  <1> USE ShapeAssumption
  <1> DEFINE r == slot[s].result
             row == slot[s].row
  <1>1. /\ slot \in [Slots -> SlotStates] /\ slot[s].pc = "stored"
        /\ r \in Results /\ Owner[r] \in Workspaces
        /\ \A w \in Workspaces : guesses[w] \in Nat /\ finished[w] \in Nat
    BY DEF TypeOK, SlotInv, RecordOK, Resolve
  <1>2. /\ UNCHANGED <<guesses, overlapped>>
        /\ finished' = IF row = "user" THEN [finished EXCEPT ![Owner[r]] = @ + 1]
                        ELSE finished
        /\ slot' = [slot EXCEPT ![s] = IF row = "dead" THEN IdleSlot
                                       ELSE SlotAt("sweep", r, row)]
    BY DEF Resolve
  <1>3. /\ \A t \in Slots \ {s} : slot'[t] = slot[t]
        /\ slot'[s].pc # "plan"
        /\ slot'[s].pc \in Past => slot'[s].result = r /\ slot'[s].row = row
    BY <1>1, <1>2, SlotAtType, IdleSlotType DEF Past
  <1> HIDE DEF r, row
  <1>4. \A w : Planning(w)' \subseteq Planning(w)
    BY <1>3 DEF Planning
  <1>5. QuotaInv'
    BY <1>2, <1>4 DEF QuotaInv
  <1>6. ASSUME NEW w, NEW t \in Tickets(w)'
        PROVE  t \in Tickets(w) \/ (t = s /\ w = Owner[r] /\ row = "user")
    <2>1. CASE t = s
      BY <1>3, <1>6, <2>1 DEF Tickets
    <2>2. CASE t # s
      BY <1>3, <1>6, <2>2 DEF Tickets
    <2> QED
      BY <2>1, <2>2
  <1>7. ASSUME NEW w \in Workspaces
        PROVE  guesses'[w] + Cardinality(Tickets(w)') <= finished'[w]
    <2>1. guesses[w] + Cardinality(Tickets(w)) <= finished[w] /\ guesses'[w] = guesses[w]
      BY <1>2 DEF ChainInv
    <2>2. CASE w # Owner[r] \/ row # "user"
      <3>1. finished'[w] = finished[w]
        BY <1>1, <1>2, <2>2 DEF TypeOK
      <3>2. Cardinality(Tickets(w)') <= Cardinality(Tickets(w))
        BY <1>6, <2>2, TicketsShrink
      <3> QED
        BY <1>1, <2>1, <3>1, <3>2, TicketsFinite
    <2>3. CASE w = Owner[r] /\ row = "user"
      <3>1. finished'[w] = finished[w] + 1
        BY <1>1, <1>2, <2>3 DEF TypeOK
      <3>2. Tickets(w)' \subseteq Tickets(w) \cup {s}
        BY <1>6
      <3>3. Cardinality(Tickets(w)') <= Cardinality(Tickets(w)) + 1
        BY <3>2, TicketIssued
      <3> QED
        BY <1>1, <2>1, <3>1, <3>3, TicketsFinite
    <2> QED
      BY <2>2, <2>3
  <1> QED
    BY <1>5, <1>7 DEF ChainInv

LEMMA GateCounts ==
    ASSUME TypeOK, SlotInv, QuotaInv, ChainInv, NEW s \in Slots, Gate(s)
    PROVE  QuotaInv' /\ ChainInv'
  <1> DEFINE plan == SlotAt("plan", slot[s].result, slot[s].row)
  <1>1. /\ slot \in [Slots -> SlotStates] /\ slot[s].pc = "evict" /\ slot[s].pc \in Past
        /\ \A w \in Workspaces : guesses[w] \in Nat /\ finished[w] \in Nat
    BY DEF TypeOK, Gate, Past
  <1>2. CASE ~PrefetchGates(s)
    <2>1. slot' = [slot EXCEPT ![s] = IdleSlot] /\ UNCHANGED <<finished, guesses, overlapped>>
      BY <1>2 DEF Gate
    <2> QED
      BY <1>1, <2>1, IdleSlotType, QuietStep DEF Past
  <1>3. CASE PrefetchGates(s)
    <2>q. PICK q \in Workspaces : q = Owner[slot[s].result]
      BY <1>1, <1>3, ShapeAssumption DEF PrefetchGates, SlotInv, RecordOK
    <2>1. slot' = [slot EXCEPT ![s] = plan] /\ UNCHANGED <<finished, guesses>>
      BY <1>3 DEF Gate
    <2>2. overlapped' = overlapped \cup {<<"guess", q>> : t \in Planning(q)}
      BY <1>3, <2>q DEF Gate, Planning
    <2>3. plan.pc = "plan" /\ plan.row = slot[s].row /\ plan.result = slot[s].result
      BY SlotAtType
    <2> HIDE DEF plan
    <2>4. /\ \A w : w # q => Planning(w)' = Planning(w)
          /\ Planning(q)' = Planning(q) \cup {s}
          /\ \A w : Tickets(w)' \subseteq Tickets(w)
      BY <1>1, <2>q, <2>1, <2>3 DEF Planning, Tickets, Past
    <2>5. guesses[q] < Budget
      BY <1>3, <2>q DEF PrefetchGates, WithinBudget
    <2>6. QuotaInv'
      <3> SUFFICES ASSUME NEW w \in Workspaces, <<"guess", w>> \notin overlapped'
                   PROVE  /\ guesses'[w] <= Budget
                          /\ Planning(w)' # {} => guesses'[w] < Budget
                          /\ \A t, u \in Planning(w)' : t = u
        BY DEF QuotaInv
      <3>1. <<"guess", w>> \notin overlapped
        BY <2>2
      <3>2. CASE w # q
        BY <2>1, <2>4, <3>1, <3>2 DEF QuotaInv
      <3>3. CASE w = q
        <4>1. Planning(q) = {}
          BY <2>2, <3>3
        <4>2. Planning(w)' = {s}
          BY <2>4, <3>3, <4>1
        <4>3. guesses'[w] < Budget /\ guesses'[w] \in Nat
          BY <1>1, <2>1, <2>5, <3>3
        <4> QED
          BY <4>2, <4>3, LimitsAssumption
      <3> QED
        BY <3>2, <3>3
    <2>7. ChainInv'
      BY <1>1, <2>1, <2>4, TicketsShrink, TicketsFinite DEF ChainInv
    <2> QED
      BY <2>6, <2>7
  <1> QED
    BY <1>2, <1>3

LEMMA PrefetchCounts ==
    ASSUME TypeOK, SlotInv, QuotaInv, ChainInv, NEW s \in Slots, Prefetch(s)
    PROVE  QuotaInv' /\ ChainInv'
  <1> DEFINE next == NextWindow[slot[s].result]
  <1>1. /\ slot \in [Slots -> SlotStates] /\ slot[s].pc = "plan" /\ slot[s].row = "user"
        /\ slot[s].result \in Results /\ next \in Results
        /\ \A w \in Workspaces : guesses[w] \in Nat /\ finished[w] \in Nat
    BY DEF TypeOK, Prefetch, SlotInv, RecordOK, SlotStates, Past
  <1>2. PICK q \in Workspaces : q = Owner[slot[s].result] /\ Owner[next] = q
    BY <1>1, ShapeAssumption
  <1>3. slot' = [slot EXCEPT ![s] = IdleSlot] /\ UNCHANGED <<finished, overlapped>>
    BY DEF Prefetch
  <1>4. CASE UNCHANGED guesses
    BY <1>1, <1>3, <1>4, IdleSlotType, QuietStep DEF Past
  <1>5. CASE guesses' = [guesses EXCEPT ![q] = @ + 1]
    <2>1. /\ \A w : w # q => Planning(w)' = Planning(w) /\ Tickets(w)' = Tickets(w)
          /\ s \in Planning(q) /\ Planning(q)' = Planning(q) \ {s}
          /\ s \in Tickets(q) /\ Tickets(q)' = Tickets(q) \ {s}
      <3>1. /\ slot'[s].pc = "idle"
            /\ \A t \in Slots : t # s => slot'[t] = slot[t]
        BY <1>1, <1>3, IdleSlotType
      <3>2. s \in Planning(q) /\ s \in Tickets(q)
        BY <1>1, <1>2 DEF Planning, Tickets, Past
      <3>3. \A w : Planning(w)' = Planning(w) \ {s} /\ Tickets(w)' = Tickets(w) \ {s}
        BY <1>1, <3>1 DEF Planning, Tickets, Past
      <3>4. \A w : w # q => s \notin Planning(w) /\ s \notin Tickets(w)
        BY <1>2 DEF Planning, Tickets
      <3> QED
        BY <3>2, <3>3, <3>4
    <2>2. guesses'[q] = guesses[q] + 1 /\ \A w \in Workspaces : w # q => guesses'[w] = guesses[w]
      BY <1>2, <1>5 DEF TypeOK
    <2>3. QuotaInv'
      <3> SUFFICES ASSUME NEW w \in Workspaces, <<"guess", w>> \notin overlapped'
                   PROVE  /\ guesses'[w] <= Budget
                          /\ Planning(w)' # {} => guesses'[w] < Budget
                          /\ \A t, u \in Planning(w)' : t = u
        BY DEF QuotaInv
      <3>1. CASE w # q
        BY <1>3, <2>1, <2>2, <3>1 DEF QuotaInv
      <3>2. CASE w = q
        <4>1. guesses[q] < Budget /\ \A t, u \in Planning(q) : t = u
          BY <1>2, <1>3, <2>1, <3>2 DEF QuotaInv
        <4>2. Planning(q)' = {}
          BY <2>1, <4>1
        <4> QED
          BY <1>1, <1>2, <2>2, <3>2, <4>1, <4>2, LimitsAssumption
      <3> QED
        BY <3>1, <3>2
    <2>4. ChainInv'
      <3> SUFFICES ASSUME NEW w \in Workspaces
                   PROVE  guesses'[w] + Cardinality(Tickets(w)') <= finished'[w]
        BY DEF ChainInv
      <3>1. CASE w # q
        BY <1>3, <2>1, <2>2, <3>1 DEF ChainInv
      <3>2. CASE w = q
        <4>1. Cardinality(Tickets(q)') = Cardinality(Tickets(q)) - 1
          BY <2>1, TicketUsed
        <4>2. guesses[q] + Cardinality(Tickets(q)) <= finished[q]
          BY <1>2 DEF ChainInv
        <4> QED
          BY <1>1, <1>2, <1>3, <2>2, <3>2, <4>1, <4>2, TicketsFinite
      <3> QED
        BY <3>1, <3>2
    <2> QED
      BY <2>3, <2>4
  <1> QED
    BY <1>2, <1>4, <1>5 DEF Prefetch

LEMMA CountsStep ==
    ASSUME TypeOK, SlotInv, KeyInv, JobInv, QuotaInv, ChainInv, [Next]_vars
    PROVE  QuotaInv' /\ ChainInv'
  <1> USE DEF payloads, rows, counts
  <1>1. slot \in [Slots -> SlotStates]
    BY DEF TypeOK
  <1>2. CASE UNCHANGED <<slot, finished, guesses>> /\ overlapped \subseteq overlapped'
    BY <1>2, QuietStep
  <1>3. ASSUME NEW s \in Slots,
               \/ Store(s) \/ TaskDies(s) \/ ReadKeys(s) \/ Reclaim(s) \/ Sweep(s)
               \/ \E r \in Results : Fetch(s, r) \/ Evict(s, r)
        PROVE  QuotaInv' /\ ChainInv'
    <2>1. UNCHANGED <<finished, guesses, overlapped>>
      BY <1>3 DEF Store, TaskDies, ReadKeys, Reclaim, Sweep, Fetch, Evict
    <2>2. \A t \in Slots : ~Resolves(slot[t], slot'[t]) /\ ~Plans(slot[t], slot'[t])
      <3> SUFFICES ASSUME NEW t \in Slots
                   PROVE  ~Resolves(slot[t], slot'[t]) /\ ~Plans(slot[t], slot'[t])
        OBVIOUS
      <3> DEFINE Still == /\ slot[t].pc = "stored" => slot'[t].pc # "sweep"
                          /\ slot[t].pc = "evict" => slot'[t].pc # "plan"
      <3> SUFFICES Still
        BY SlotAtType DEF Resolves, Plans
      <3>1. CASE slot'[t] = slot[t] \/ slot'[t] = IdleSlot
        BY <3>1, IdleSlotType
      <3>2. CASE Store(s) \/ ReadKeys(s) \/ Reclaim(s)
        BY <1>1, <3>2 DEF Store, ReadKeys, Reclaim, SlotStates
      <3>3. CASE TaskDies(s)
        BY <1>1, <3>1, <3>3 DEF TaskDies, SlotStates
      <3>4. CASE Sweep(s)
        BY <1>1, <3>1, <3>4 DEF Sweep
      <3>5. ASSUME NEW r \in Results, Fetch(s, r)
            PROVE  Still
        BY <1>1, <3>1, <3>5, SlotAtType DEF Fetch
      <3>6. ASSUME NEW r \in Results, Evict(s, r)
            PROVE  Still
        BY <1>1, <3>6 DEF Evict, SlotStates
      <3> QED
        BY <1>3, <3>2, <3>3, <3>4, <3>5, <3>6
    <2>3. \A t \in Slots : Quiet(slot[t], slot'[t])
      BY <2>2, MoveStep, QuietMove
    <2> QED
      BY <2>1, <2>3, QuietStep DEF Quiet
  <1>4. CASE WorkerDies
    <2>1. \A t \in Slots : slot'[t] = IdleSlot \/ slot'[t] = SlotAt("sweep", None, "none")
      BY <1>4 DEF WorkerDies
    <2> QED
      BY <1>4, <2>1, IdleSlotType, SlotAtType, QuietStep DEF WorkerDies, Past
  <1>5. CASE \E r \in Wanted : Request(r) \/ Rematerialize(r) \/ Reset(r)
    BY <1>2, <1>5 DEF Request, Rematerialize, Reset
  <1>6. CASE \E c \in Cubes : StoreCube(c) \/ MintCube(c)
    BY <1>2, <1>6 DEF StoreCube, MintCube
  <1>7. CASE \E r \in Kept : PinCheck(r) \/ PinWrite(r) \/ Unpin(r)
    BY <1>2, <1>7 DEF PinCheck, PinWrite, Unpin
  <1>8. CASE \E r \in Results : JobDies(r)
    BY <1>2, <1>8 DEF JobDies
  <1>9. CASE UNCHANGED vars
    BY <1>2, <1>9 DEF vars
  <1> QED
    BY <1>3, <1>4, <1>5, <1>6, <1>7, <1>8, <1>9, ResolveCounts, GateCounts,
       PrefetchCounts DEF Next

-----------------------------------------------------------------------------
(* Eviction order *)

\* What a sweep holds and has not queued is pinned or its own result.
QueueOK(s) ==
    slot[s].held \ slot[s].queue \subseteq slot[s].pinned \cup {slot[s].result}

QueueInv == \A s \in Slots : QueueOK(s)

\* A slot that moves to new holds what it has not queued only as QueueOK allows.
LEMMA QueueMove ==
    ASSUME TypeOK, SlotInv, KeyInv, QueueInv, NEW s \in Slots, Moves(s)
    PROVE  slot'[s].held \ slot'[s].queue \subseteq slot'[s].pinned \cup {slot'[s].result}
  <1> DEFINE old == slot[s]
             new == slot'[s]
  <1>1. /\ old \in SlotStates /\ RecordOK(old)
        /\ old.held \ old.queue \subseteq old.pinned \cup {old.result}
    BY DEF TypeOK, SlotInv, QueueInv, QueueOK
  <1> SUFFICES new.held \ new.queue \subseteq new.pinned \cup {new.result}
    OBVIOUS
  <1> HIDE DEF old, new
  <1>2. CASE new = old
    BY <1>1, <1>2
  <1>3. CASE Idles(old, new) \/ Restarts(old, new) \/ Fetches(old, new) \/ Resolves(old, new)
             \/ Plans(old, new)
    BY <1>3, IdleSlotType, SlotAtType DEF Idles, Restarts, Fetches, Resolves, Plans
  <1>4. CASE Stores(old, new)
    BY <1>1, <1>4 DEF Stores, Stored, SlotStates
  <1>5. CASE Dies(old, new) \/ Reclaims(old, new) \/ Reads(old, new)
    BY <1>1, <1>5 DEF Dies, Reclaims, Reads, SlotStates
  <1>6. CASE Sweeps(old, new)
    BY <1>1, <1>6, SnapshotType DEF Sweeps, Evictable
  <1>7. CASE Evicts(s)
    <2>1. PICK q \in Results : new = [old EXCEPT !.held = @ \ {q}, !.queue = @ \ {q}]
      BY <1>7 DEF Evicts, old, new
    <2> QED
      BY <1>1, <2>1 DEF SlotStates
  <1> QED
    BY <1>2, <1>3, <1>4, <1>5, <1>6, <1>7 DEF Moves, old, new

LEMMA QueueInvStep ==
    ASSUME TypeOK, SlotInv, KeyInv, JobInv, QueueInv, [Next]_vars
    PROVE  QueueInv'
  BY MoveStep, QueueMove DEF QueueInv, QueueOK

\* A sweep loses from its queue only what it evicts in that step.
LEMMA EvictedByEvict ==
    ASSUME TypeOK, SlotInv, KeyInv, JobInv, [Next]_vars, NEW t \in Slots, NEW x \in Evicted(t)
    PROVE  Evict(t, x)
  <1> DEFINE old == slot[t]
             new == slot'[t]
  <1>1. /\ old \in SlotStates /\ RecordOK(old) /\ Moves(t)
        /\ x \in old.queue /\ x \notin new.queue /\ new.pc = "evict"
    BY MoveStep DEF TypeOK, SlotInv, Evicted
  <1>2. old.pc = "evict"
    BY <1>1 DEF RecordOK
  <1>3. CASE Evicts(t)
    <2>1. PICK r \in Results : Evict(t, r) /\ new = [old EXCEPT !.held = @ \ {r},
                                                               !.queue = @ \ {r}]
      BY <1>3 DEF Evicts
    <2>2. new.queue = old.queue \ {r}
      BY <1>1, <2>1 DEF SlotStates
    <2> QED
      BY <1>1, <2>1, <2>2
  <1>4. CASE ~Evicts(t)
    <2>1. new = old \/ Idles(old, new) \/ Restarts(old, new) \/ Plans(old, new)
      BY <1>1, <1>2, <1>4
         DEF Moves, Fetches, Stores, Resolves, Dies, Reads, Reclaims, Sweeps
    <2> HIDE DEF old, new
    <2>2. FALSE
      BY <1>1, <2>1, IdleSlotType, SlotAtType DEF Idles, Restarts, Plans
    <2> QED
      BY <2>2
  <1> QED
    BY <1>3, <1>4

\* The step of GuessesGoFirst.
NoGuessLeft(s) ==
    \A r \in Evicted(s) \ slot[s].guessed :
        \A q \in slot[s].guessed \cap slot[s].held :
            Owner[q] = Owner[r] => q \in slot[s].pinned \/ q = slot[s].result

LEMMA EvictionOrder ==
    ASSUME TypeOK, SlotInv, KeyInv, JobInv, QueueInv, [Next]_vars, NEW t \in Slots
    PROVE  NoGuessLeft(t)
  <1> SUFFICES ASSUME NEW r \in Evicted(t), r \notin slot[t].guessed,
                      NEW q \in slot[t].guessed \cap slot[t].held, Owner[q] = Owner[r]
               PROVE  q \notin slot[t].queue
    BY DEF NoGuessLeft, QueueInv, QueueOK
  <1>1. r \in Foremost(Owner[r], slot[t].queue, slot[t].guessed)
    BY EvictedByEvict DEF Evict
  <1> QED
    BY <1>1 DEF Foremost, In

-----------------------------------------------------------------------------
(* Sizes *)

LEMMA SizeIsSum == \A R \in SUBSET Results : SizeOf(R) = Sum(Bytes, R)
  BY DEF SizeOf, Sizes, Sum

LEMMA SizeNat == \A R \in SUBSET Results : SizeOf(R) \in Nat
  BY SizeIsSum, SumNat, FS_Subset, ShapeAssumption, LimitsAssumption

LEMMA SizeMonotone ==
    ASSUME NEW R \in SUBSET Results, NEW S \in SUBSET R
    PROVE  SizeOf(S) <= SizeOf(R)
  <1>1. IsFiniteSet(R) /\ Bytes \in [Results -> Nat]
    BY FS_Subset, ShapeAssumption, LimitsAssumption
  <1>2. Sum(Bytes, S) <= Sum(Bytes, R)
    BY <1>1, SumMonotone
  <1> QED
    BY <1>2, SizeIsSum

\* One more result adds its bytes.
LEMMA SizeAdd ==
    ASSUME NEW R \in SUBSET Results, NEW r \in R
    PROVE  SizeOf(R) = SizeOf({r}) + SizeOf(R \ {r})
  <1>1. IsFiniteSet(R) /\ IsFiniteSet({r}) /\ Bytes \in [Results -> Nat] /\ Bytes[r] \in Nat
    BY FS_Subset, ShapeAssumption, LimitsAssumption
  <1>2. Sum(Bytes, R) = Bytes[r] + Sum(Bytes, R \ {r})
    BY <1>1, SumAdd
  <1>3. Sum(Bytes, {r}) = Bytes[r]
    <2>1. {r} \ {r} = {} /\ Sum(Bytes, {}) = 0
      BY FS_EmptySet, SumStep
    <2>2. Sum(Bytes, {r}) = Bytes[r] + Sum(Bytes, {r} \ {r})
      BY <1>1, SumAdd
    <2> QED
      BY <1>1, <2>1, <2>2
  <1> QED
    BY <1>2, <1>3, SizeIsSum

\* Two parts of a whole weigh at least the whole.
LEMMA SizeParts ==
    ASSUME NEW R \in SUBSET Results, NEW S \in SUBSET Results, NEW r \in Results,
           NEW T \in SUBSET (R \cup {r}), r \in S
    PROVE  SizeOf(T) <= SizeOf(R) + SizeOf(S)
  <1>1. SizeOf(T \ {r}) <= SizeOf(R) /\ SizeOf({r}) <= SizeOf(S)
    BY SizeMonotone
  <1>2. SizeOf(T) <= SizeOf({r}) + SizeOf(T \ {r})
    <2>1. CASE r \in T
      BY <2>1, SizeAdd, SizeNat
    <2>2. CASE r \notin T
      <3>1. T \ {r} = T /\ SizeOf({r}) \in Nat /\ SizeOf(T) \in Nat
        BY <2>2, SizeNat
      <3> QED
        BY <3>1
    <2> QED
      BY <2>1, <2>2
  <1>3. /\ SizeOf(T) \in Nat /\ SizeOf(T \ {r}) \in Nat /\ SizeOf({r}) \in Nat
        /\ SizeOf(R) \in Nat /\ SizeOf(S) \in Nat
    BY SizeNat
  <1> QED
    BY <1>1, <1>2, <1>3

-----------------------------------------------------------------------------
(* The pin ceiling *)

\* The results of a workspace that are safely pinned, or about to be: a cube_
\* whose blob is gone never gets it back, for no other result has its key.
Claimable(r) == pin[r] = "yes" \/ (r \in pinning /\ (r \in Cubes => Blob[r] \subseteq blobs))

Claimed(w) == In(w, {r \in Results : Sole(r) /\ Claimable(r)})

\* Where no two checks overlapped, at most one pin is about to be written, and it
\* was checked against every other.
CeilingInv ==
    \A w \in Workspaces : <<"pin", w>> \in overlapped \/
        /\ \A r, q \in In(w, pinning) : r = q
        /\ SizeOf(Claimed(w)) <= PinCeiling

LEMMA ClaimedKept ==
    ASSUME TypeOK, CeilingInv, overlapped \subseteq overlapped', pinning' \subseteq pinning,
           \A w \in Workspaces : Claimed(w)' \subseteq Claimed(w)
    PROVE  CeilingInv'
  <1> SUFFICES ASSUME NEW w \in Workspaces, <<"pin", w>> \notin overlapped'
               PROVE  /\ \A r, q \in In(w, pinning)' : r = q
                      /\ SizeOf(Claimed(w))' <= PinCeiling
    BY DEF CeilingInv
  <1>1. (\A r, q \in In(w, pinning) : r = q) /\ SizeOf(Claimed(w)) <= PinCeiling
    BY DEF CeilingInv
  <1>2. In(w, pinning)' \subseteq In(w, pinning)
    BY DEF In
  <1>3. Claimed(w) \in SUBSET Results /\ Claimed(w)' \in SUBSET Claimed(w)
    BY DEF Claimed, In
  <1>4. SizeOf(Claimed(w)') <= SizeOf(Claimed(w))
    BY <1>3, SizeMonotone
  <1>5. SizeOf(Claimed(w)') \in Nat /\ SizeOf(Claimed(w)) \in Nat
    BY <1>3, SizeNat
  <1>6. SizeOf(Claimed(w))' = SizeOf(Claimed(w)')
    BY DEF SizeOf
  <1>7. SizeOf(Claimed(w))' <= PinCeiling
    BY <1>1, <1>4, <1>5, <1>6, LimitsAssumption
  <1> QED
    BY <1>1, <1>2, <1>7

\* Nothing becomes claimable but by a check.
LEMMA ClaimsStay ==
    ASSUME TypeOK, CeilingInv, UNCHANGED pinning, overlapped \subseteq overlapped',
           \A r \in Results : pin'[r] = "yes" => pin[r] = "yes",
           \A r \in pinning : r \in Cubes /\ Sole(r) /\ Blob[r] \subseteq blobs' =>
               Blob[r] \subseteq blobs
    PROVE  CeilingInv'
  <1>1. \A w \in Workspaces : Claimed(w)' \subseteq Claimed(w)
    BY DEF Claimed, Claimable, In, Sole
  <1> QED
    BY <1>1, ClaimedKept

LEMMA CheckClaims ==
    ASSUME TypeOK, KeyInv, PinHolds, CeilingInv, NEW r \in Kept, PinCheck(r)
    PROVE  CeilingInv'
  <1> SUFFICES ASSUME NEW w \in Workspaces, <<"pin", w>> \notin overlapped'
               PROVE  /\ \A x, y \in In(w, pinning)' : x = y
                      /\ SizeOf(Claimed(w))' <= PinCeiling
    BY DEF CeilingInv
  <1>1. r \in Results /\ pinning' = pinning \cup {r} /\ UNCHANGED <<pin, blobs>>
    BY ShapeAssumption DEF PinCheck, payloads
  <1>2. (\A x, y \in In(w, pinning) : x = y) /\ SizeOf(Claimed(w)) <= PinCeiling
    BY DEF CeilingInv, PinCheck
  <1>3. SizeOf(Claimed(w))' = SizeOf(Claimed(w)')
    BY DEF SizeOf
  <1>4. CASE Owner[r] # w
    <2>1. In(w, pinning)' = In(w, pinning) /\ Claimed(w)' = Claimed(w)
      BY <1>1, <1>4 DEF In, Claimed, Claimable, Sole
    <2> QED
      BY <1>2, <1>3, <2>1
  <1>5. CASE Owner[r] = w
    <2>1. In(w, pinning) = {}
      BY <1>5 DEF PinCheck
    <2>2. In(w, pinning)' = {r}
      BY <1>1, <1>5, <2>1 DEF In
    <2> DEFINE others == In(w, (Pinned \ {r}) \cap Candidates)
               own == In(w, {r} \cap Candidates)
    <2>3. others \in SUBSET Results /\ own \in SUBSET Results
      BY <1>1 DEF In, Pinned
    <2>4. SizeOf(others) + SizeOf(own) <= PinCeiling
      BY <1>5 DEF PinCheck, PinFits, PinnedBytes
    <2>5. \A x \in Claimed(w)' : x \in others \/ x = r
      BY <1>1, <2>1 DEF Claimed, Claimable, Sole, In, PinHolds, Pinned, Candidates, Ready
    <2>6. Claimed(w)' \in SUBSET Results
      BY DEF Claimed, In
    <2>7. SizeOf(Claimed(w)') <= SizeOf(others) + SizeOf(own)
      <3>1. CASE r \notin own
        <4>1. r \in Claimed(w)' => r \in others
          <5>1. r \in Cubes /\ key[r] \notin blobs /\ key[r] \in Blob[r]
            BY <1>1, <1>5, <3>1 DEF In, Candidates, Ready, PinCheck, KeyInv
          <5>2. ~(Blob[r] \subseteq blobs)
            BY <5>1
          <5>3. pin[r] # "yes" \/ ~Sole(r)
            BY <1>1, <5>1 DEF PinHolds
          <5> QED
            BY <1>1, <5>1, <5>2, <5>3 DEF Claimed, Claimable, In, Sole
        <4>2. Claimed(w)' \in SUBSET others
          BY <2>5, <4>1
        <4>3. SizeOf(Claimed(w)') <= SizeOf(others)
          BY <2>3, <4>2, SizeMonotone
        <4>4. SizeOf(Claimed(w)') \in Nat /\ SizeOf(others) \in Nat /\ SizeOf(own) \in Nat
          BY <2>3, <2>6, SizeNat
        <4> QED
          BY <4>3, <4>4
      <3>2. CASE r \in own
        <4> HIDE DEF others, own
        <4> QED
          BY <1>1, <2>3, <2>5, <3>2, SizeParts
      <3> QED
        BY <3>1, <3>2
    <2>8. SizeOf(Claimed(w)') \in Nat /\ SizeOf(others) \in Nat /\ SizeOf(own) \in Nat
      BY <2>3, <2>6, SizeNat
    <2>9. SizeOf(Claimed(w)') <= PinCeiling
      <3> HIDE DEF others, own
      <3> QED
        BY <2>4, <2>7, <2>8, LimitsAssumption
    <2> QED
      BY <1>3, <2>2, <2>9
  <1> QED
    BY <1>4, <1>5

LEMMA CeilingStep ==
    ASSUME TypeOK, SlotInv, KeyInv, JobInv, PinInv, CeilingInv, [Next]_vars
    PROVE  CeilingInv'
  <1> USE ShapeAssumption, BlobAssumption DEF payloads, rows, counts
  <1>1. CASE UNCHANGED <<pin, pinning>> /\ blobs' \subseteq blobs /\ overlapped \subseteq overlapped'
    BY <1>1, ClaimsStay
  <1>2. ASSUME NEW r \in Kept, PinCheck(r) PROVE CeilingInv'
    BY <1>2, CheckClaims DEF PinInv
  <1>3. ASSUME NEW r \in Kept, PinWrite(r) PROVE CeilingInv'
    <2>1. /\ r \in pinning /\ pinning' = pinning \ {r} /\ UNCHANGED <<overlapped, blobs>>
          /\ pin' = [pin EXCEPT ![r] = IF Safe(r) THEN "yes" ELSE "loose"]
      BY <1>3 DEF PinWrite
    <2>2. Safe(r) /\ r \in Cubes => Blob[r] \subseteq blobs
      BY DEF Safe, Ready, KeyInv
    <2>3. \A w \in Workspaces : Claimed(w)' \subseteq Claimed(w)
      BY <2>1, <2>2 DEF Claimed, Claimable, In, Sole, TypeOK
    <2> QED
      BY <2>1, <2>3, ClaimedKept
  <1>4. ASSUME NEW r \in Kept, Unpin(r) PROVE CeilingInv'
    BY <1>4, ClaimsStay DEF Unpin, TypeOK
  <1>5. ASSUME NEW r \in Wanted, Request(r) \/ Rematerialize(r) \/ Reset(r) PROVE CeilingInv'
    <2>1. UNCHANGED <<pinning, overlapped, blobs>>
      BY <1>5 DEF Request, Rematerialize, Reset
    <2>2. \A q \in Results : pin'[q] = "yes" => pin[q] = "yes"
      BY <1>5 DEF TypeOK, Request, Rematerialize, Reset, Enqueue
    <2> QED
      BY <2>1, <2>2, ClaimsStay
  <1>6. ASSUME NEW c \in Cubes, StoreCube(c) PROVE CeilingInv'
    <2>1. /\ blobs' = blobs \cup Blob[c] /\ status[c] = "absent"
          /\ UNCHANGED <<pin, pinning, overlapped>>
      BY <1>6 DEF StoreCube
    <2>2. c \notin pinning
      BY <2>1 DEF PinInv
    <2>3. \A r \in pinning : Sole(r) => Blob[c] \cap Blob[r] = {}
      BY <2>2 DEF Sole, TypeOK
    <2> QED
      BY <2>1, <2>3, ClaimsStay DEF TypeOK
  <1>7. ASSUME NEW s \in Slots, Store(s) PROVE CeilingInv'
    <2> DEFINE q == slot[s].result
    <2>1. q \in Results \ Cubes
      BY <1>7 DEF Store, SlotInv, RecordOK
    <2>2. PICK k \in Blob[q] : blobs' = blobs \cup {k}
      BY <1>7 DEF Store
    <2>3. UNCHANGED <<pin, pinning, overlapped>>
      BY <1>7 DEF Store
    <2> HIDE DEF q
    <2>4. \A r \in pinning : r \in Cubes => k \notin Blob[r]
      BY <2>1, <2>2
    <2> QED
      BY <2>2, <2>3, <2>4, ClaimsStay
  <1>8. ASSUME NEW s \in Slots, Resolve(s) PROVE CeilingInv'
    <2>1. UNCHANGED <<pinning, overlapped, blobs>>
      BY <1>8 DEF Resolve
    <2>2. slot[s].result \in Results
      BY <1>8 DEF Resolve, SlotInv, RecordOK
    <2>3. \A q \in Results : pin'[q] = "yes" => pin[q] = "yes"
      BY <1>8, <2>2 DEF TypeOK, Resolve
    <2> QED
      BY <2>1, <2>3, ClaimsStay
  <1>9. CASE \E c \in Cubes : MintCube(c)
    BY <1>1, <1>9 DEF MintCube
  <1>10. CASE \E s \in Slots : Sweep(s) \/ Gate(s) \/ Prefetch(s)
    BY <1>1, <1>10 DEF Sweep, Gate, Prefetch
  <1>11. CASE \E s \in Slots : \/ TaskDies(s) \/ ReadKeys(s) \/ Reclaim(s)
                               \/ \E r \in Results : Fetch(s, r) \/ Evict(s, r)
    BY <1>1, <1>11 DEF TaskDies, ReadKeys, Reclaim, Fetch, Evict
  <1>12. CASE WorkerDies \/ UNCHANGED vars \/ \E r \in Results : JobDies(r)
    BY <1>1, <1>12 DEF WorkerDies, vars, JobDies
  <1> QED
    BY <1>2, <1>3, <1>4, <1>5, <1>6, <1>7, <1>8, <1>9, <1>10, <1>11, <1>12 DEF Next

-----------------------------------------------------------------------------
(* The cap *)

LEMMA Heavier ==
    ASSUME NEW a \in Nat, NEW b \in Nat, NEW n \in Nat, NEW c \in Nat, a <= b, a * n > c
    PROVE  b * n > c
  <1>1. a * n <= b * n
    OBVIOUS
  <1> QED
    BY <1>1

\* The step of FairEviction.
FairTo(s) ==
    \A r \in Evicted(s) :
        \/ OverShare(Owner[r], slot[s].held, slot[s].owners)
        \/ \A q \in slot[s].held : OverShare(Owner[q], slot[s].held, slot[s].owners) =>
               q \in slot[s].pinned \/ q = slot[s].result

LEMMA EvictionFair ==
    ASSUME TypeOK, SlotInv, KeyInv, JobInv, QueueInv, [Next]_vars, NEW t \in Slots
    PROVE  FairTo(t)
  <1> DEFINE held == slot[t].held
             footprint(w) == SizeOf(In(w, held))
             owners == slot[t].owners
             active == Cardinality(owners)
  <1> SUFFICES ASSUME NEW r \in Evicted(t), NEW q \in held, q \in slot[t].queue,
                      OverShare(Owner[q], held, owners)
               PROVE  OverShare(Owner[r], held, owners)
    BY DEF FairTo, QueueInv, QueueOK
  <1>1. held \in SUBSET Results
    BY DEF TypeOK, SlotStates
  <1>2. Owner[r] \in Heaviest(held, slot[t].queue)
    BY EvictedByEvict DEF Evict
  <1>3. footprint(Owner[q]) <= footprint(Owner[r])
    BY <1>2 DEF Heaviest
  <1>4. footprint(Owner[q]) \in Nat /\ footprint(Owner[r]) \in Nat
    BY <1>1, SizeNat DEF In
  <1>5. active \in Nat
    BY FS_Subset, FS_CardinalityType, ShapeAssumption DEF TypeOK, SlotStates
  <1>6. footprint(Owner[q]) * active > Cap
    BY DEF OverShare
  <1> HIDE DEF footprint, active
  <1>7. footprint(Owner[r]) * active > Cap
    BY <1>3, <1>4, <1>5, <1>6, Heavier, LimitsAssumption
  <1> QED
    BY <1>7 DEF OverShare, footprint, active

\* The step of SweepFits.
FitsAfter(s) ==
    slot[s].held # {} /\ Gate(s) =>
        LET left == slot[s].held \cap Ready
        IN  SizeOf(left) <= Cap \/ left \subseteq slot[s].pinned \cup {slot[s].result}

LEMMA SweepLeaves ==
    ASSUME TypeOK, QueueInv, NEW t \in Slots
    PROVE  FitsAfter(t)
  <1> DEFINE left == slot[t].held \cap Ready
  <1> SUFFICES ASSUME Gate(t), slot[t].queue # {} PROVE SizeOf(left) <= Cap
    BY DEF FitsAfter, QueueInv, QueueOK
  <1>1. slot[t].held \in SUBSET Results /\ left \in SUBSET slot[t].held
    BY DEF TypeOK, SlotStates
  <1>2. SizeOf(slot[t].held) <= Cap
    BY DEF Gate, SweepOver
  <1>3. SizeOf(left) <= SizeOf(slot[t].held)
    BY <1>1, SizeMonotone
  <1>4. SizeOf(left) \in Nat /\ SizeOf(slot[t].held) \in Nat
    BY <1>1, SizeNat
  <1> QED
    BY <1>2, <1>3, <1>4, LimitsAssumption

-----------------------------------------------------------------------------
(* Theorems *)

Inv == /\ TypeOK /\ SlotInv /\ KeyInv /\ JobInv /\ PinInv /\ QuotaInv /\ ChainInv
       /\ QueueInv /\ CeilingInv

LEMMA InitInv == Init => Inv
  <1> SUFFICES ASSUME Init PROVE Inv
    OBVIOUS
  <1>1. TypeOK
    BY IdleSlotType, NoKeysType, ShapeAssumption DEF Init, TypeOK, Statuses, PinStates, Bounds
  <1>2. SlotInv /\ KeyInv /\ JobInv /\ QueueInv
    BY IdleSlotType, NoKeysType, ShapeAssumption
       DEF Init, SlotInv, KeyInv, JobInv, QueueInv, QueueOK
  <1>3. PinInv
    BY DEF Init, PinInv, PinHolds
  <1>4. \A w : Planning(w) = {} /\ Tickets(w) = {}
    BY IdleSlotType DEF Init, Planning, Tickets, Past
  <1>5. QuotaInv /\ ChainInv
    <2>1. \A w \in Workspaces : guesses[w] = 0 /\ finished[w] = 0
      BY DEF Init
    <2> QED
      BY <1>4, <2>1, FS_EmptySet, LimitsAssumption DEF QuotaInv, ChainInv
  <1>6. CeilingInv
    <2>1. \A w : Claimed(w) = {} /\ In(w, pinning) = {}
      BY DEF Init, Claimed, Claimable, In
    <2>2. SizeOf({}) = 0
      BY FS_EmptySet, SizeIsSum, SumStep
    <2> QED
      BY <2>1, <2>2, LimitsAssumption DEF CeilingInv
  <1> QED
    BY <1>1, <1>2, <1>3, <1>5, <1>6 DEF Inv

LEMMA InvStep == Inv /\ [Next]_vars => Inv'
  BY TypeStep, SlotStep, KeyStep, JobStep, PinInvStep, CountsStep, QueueInvStep, CeilingStep
     DEF Inv, PinInv

LEMMA InvHolds == Spec => []Inv
  BY InitInv, InvStep, PTL DEF Spec

\* The cache's variables, slots and calls keep their types, for any results,
\* slots and limits (eviction.py, prefetch.py, retention.py).
THEOREM TypeCorrect == Spec => []TypeOK
  BY InvHolds, PTL DEF Inv

\* A pin written on a result that was ready, its bytes there and no sweep on its
\* way to them, outlasts every sweep and every orphan pass, however many run at
\* once, until its payload is rewritten by a call or a job or the pin taken back
\* (_evict_over_cap's "if pinned", _reclaim_orphans' known keys).
THEOREM PinsHold == Spec => []PinHolds
  BY InvHolds, PTL DEF Inv, PinInv

\* A workspace's guesses exceed the daily budget only when two slots were past
\* maybe_prefetch's quota gate for it at once.
THEOREM QuotaIsKept == Spec => []QuotaKept
  <1>1. Inv => QuotaKept
    BY DEF Inv, QuotaInv, QuotaKept
  <1> QED
    BY <1>1, InvHolds, PTL

\* One speculative job per requested retrieval, never a cascade, through
\* promotions, evictions and replays of the guesses (maybe_prefetch's first gate).
THEOREM GuessesNeverChain == Spec => []NeverChains
  <1>1. Inv => NeverChains
    <2> SUFFICES ASSUME Inv, NEW w \in Workspaces PROVE guesses[w] <= finished[w]
      BY DEF NeverChains
    <2>1. guesses[w] \in Nat /\ finished[w] \in Nat /\ Cardinality(Tickets(w)) \in Nat
      BY TicketsFinite DEF Inv, TypeOK
    <2> QED
      BY <2>1 DEF Inv, ChainInv
  <1> QED
    BY <1>1, InvHolds, PTL

\* Whatever a sweep evicts that somebody asked for, no guess of that workspace
\* which the sweep could have taken is left (eviction_key's first component).
THEOREM GuessesEvictFirst == Spec => GuessesGoFirst
  <1>1. Inv /\ [Next]_vars => [\A s \in Slots : NoGuessLeft(s)]_vars
    BY EvictionOrder DEF Inv
  <1>2. Spec => [][\A s \in Slots : NoGuessLeft(s)]_vars
    BY <1>1, InvHolds, PTL DEF Spec
  <1> QED
    BY <1>2 DEF GuessesGoFirst, NoGuessLeft

\* A sweep takes bytes from a workspace over its fair share, as long as one has
\* any to give (eviction_key's and _evict_over_cap's choice of workspace).
THEOREM EvictionIsFair == Spec => FairEviction
  <1>1. Inv /\ [Next]_vars => [\A s \in Slots : FairTo(s)]_vars
    BY EvictionFair DEF Inv
  <1>2. Spec => [][\A s \in Slots : FairTo(s)]_vars
    BY <1>1, InvHolds, PTL DEF Spec
  <1> QED
    BY <1>2 DEF FairEviction, FairTo

\* Whatever other sweeps evicted and other slots stored meanwhile, what a sweep
\* leaves of the results it saw fits the cap, or is pinned or its own.
THEOREM SweepsFit == Spec => SweepFits
  <1>1. Inv /\ [Next]_vars => [\A s \in Slots : FitsAfter(s)]_vars
    BY SweepLeaves DEF Inv
  <1>2. Spec => [][\A s \in Slots : FitsAfter(s)]_vars
    BY <1>1, InvHolds, PTL DEF Spec
  <1> QED
    BY <1>2 DEF SweepFits, FitsAfter

\* The results of a workspace that are safely pinned, the loose pins and shared
\* blobs left out, fit its ceiling unless two pin_result calls overlapped: what is
\* evicted, replayed, swept or unpinned between a check and its write never lets
\* such a pin past.
THEOREM PinsFitCeiling == Spec => []PinsBounded
  <1>1. Inv => PinsBounded
    <2> SUFFICES ASSUME Inv, NEW w \in Workspaces, <<"pin", w>> \notin overlapped
                 PROVE  SizeOf(In(w, {r \in Results : pin[r] = "yes" /\ Sole(r)})) <= PinCeiling
      BY DEF PinsBounded
    <2> DEFINE pinned == In(w, {r \in Results : pin[r] = "yes" /\ Sole(r)})
    <2>1. Claimed(w) \in SUBSET Results /\ pinned \in SUBSET Claimed(w)
      BY DEF Claimed, Claimable, In
    <2>2. SizeOf(pinned) <= SizeOf(Claimed(w)) /\ SizeOf(Claimed(w)) <= PinCeiling
      BY <2>1, SizeMonotone DEF Inv, CeilingInv
    <2>3. SizeOf(pinned) \in Nat /\ SizeOf(Claimed(w)) \in Nat
      BY <2>1, SizeNat
    <2> QED
      BY <2>2, <2>3, LimitsAssumption
  <1> QED
    BY <1>1, InvHolds, PTL
=============================================================================
