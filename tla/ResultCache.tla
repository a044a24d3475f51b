---------------------------- MODULE ResultCache ----------------------------
(***************************************************************************)
(* The materialization cache across workspaces: its results (an obs_ has   *)
(* jobs behind it, a cube_ a transform), the worker slots that fetch a     *)
(* job's result, then sweep the cache under its cap, then may prefetch the *)
(* next window, and the tools that request, transform and pin.             *)
(*                                                                         *)
(* ResultHandle looks inside one handle, at each load and commit.  Here a  *)
(* payload update is one step, and the steps are the points at which the   *)
(* sweep, the prefetch gates and the tools act on what they read earlier.  *)
(***************************************************************************)
EXTENDS FiniteSetsExt

CONSTANTS
    Results, Workspaces,
    Cubes,         \* the results that are cube_ handles; the others are obs_
    Owner,         \* each result's workspace
    Bytes,         \* its size
    Keys,          \* storage keys
    Blob,          \* the keys a result may be stored under: one per fresh job of
                   \* an obs_, its fingerprint for a cube_, which others may share
    NextWindow,    \* the result predict_next names, or None
    None,
    Wanted,        \* the results users name in their calls
    Settled,       \* results whose window is old enough to prefetch
    Slots,         \* arq tasks the worker runs at once
    Kept,          \* results pin_result is called on
    Cap,           \* earthdata_cache_max_bytes
    PinCeiling,    \* earthdata_pinned_bytes_max_per_workspace
    GuessBytes,    \* earthdata_prefetch_max_bytes
    Budget,        \* earthdata_prefetch_budget_per_workspace_per_day
    MaxRequests,   \* bound: job rows that users' requests create
    MaxUpsets,     \* bound: rows that fail or are cancelled, workers that die,
                   \* orphan passes that are due
    MaxPins        \* bound: pin_result calls that pass the check

ASSUME ShapeAssumption ==
    /\ IsFiniteSet(Results) /\ IsFiniteSet(Slots) /\ IsFiniteSet(Workspaces)
    /\ Cubes \subseteq Results /\ Settled \subseteq Results
    /\ Wanted \subseteq Results /\ Kept \subseteq Results
    /\ None \notin Results /\ None \notin Keys
    /\ Owner \in [Results -> Workspaces]
    /\ NextWindow \in [Results -> (Results \ Cubes) \cup {None}]
    /\ \A r \in Results : NextWindow[r] # None => Owner[NextWindow[r]] = Owner[r]
ASSUME BlobAssumption ==   \* an obs_ is stored under its own jobs' handles
    /\ Blob \in [Results -> SUBSET Keys]
    /\ \A r \in Results, q \in Results \ Cubes : Blob[r] \cap Blob[q] # {} => r = q
    /\ \A c \in Cubes : \E k \in Keys : Blob[c] = {k}
ASSUME LimitsAssumption ==
    /\ Bytes \in [Results -> Nat]
    /\ Cap \in Nat /\ PinCeiling \in Nat /\ GuessBytes \in Nat
    /\ Budget \in Nat
    /\ MaxRequests \in Nat /\ MaxUpsets \in Nat /\ MaxPins \in Nat

VARIABLES
    status,        \* each result's payload status
    key,           \* its payload's storage key
    guessed,       \* handles whose payload says speculative
    pin,           \* each result's pinned flag, and whether it protects
    jobs,          \* how many live rows users' requests created, not yet begun
    guessRows,     \* results with a live speculative row, not yet begun
    failed,        \* results whose newest row failed or was cancelled
    found,         \* results some call read as evicted, or as given up by a job
    emitting,      \* cubes whose blob a transform stored, the handle not minted
    blobs,         \* storage keys that hold a blob
    slot,          \* what each worker slot is doing
    pinning,       \* results a pin_result call has checked and is about to pin
    used,          \* how much of each bound is used up
    finished,      \* per workspace: requested materializations that became ready
    guesses,       \* per workspace: speculative job rows (of one day)
    overlapped     \* workspaces where a second slot passed the quota gate, or a
                   \* second pin_result the ceiling, before the first had acted

payloads == <<status, key, guessed, pin>>
rows     == <<jobs, guessRows, failed, used>>
counts   == <<finished, guesses, overlapped>>
vars     == <<payloads, rows, found, emitting, blobs, slot, pinning, counts>>

-----------------------------------------------------------------------------
(* Types *)

Statuses == {"absent", "pending", "ready", "expired"}

\* The payload's pinned flag is set in both "yes" and "loose".  A pin is loose
\* when, as it was written, the result's bytes were gone or on their way out of
\* a sweep, or once a call or job that was on its way then has rewritten it.
PinStates == {"no", "yes", "loose"}

\* A slot: the result it works on and for whom ("dead": the row was cancelled
\* under it), and the keys it stored or read; then, of the sweep's snapshot, the
\* candidates still in the cache, those pinned and speculative then, those still
\* queued, and the active workspaces; then the prefetch.
SlotStates == [pc: {"idle", "fetch", "stored", "sweep", "orphans", "cap", "evict", "plan"},
               result: Results \cup {None}, row: {"none", "user", "guess", "dead"},
               keys: [Results -> Keys \cup {None}],
               held: SUBSET Results, pinned: SUBSET Results,
               guessed: SUBSET Results, queue: SUBSET Results,
               owners: SUBSET Workspaces]

NoKeys == [r \in Results |-> None]

IdleSlot == [pc |-> "idle", result |-> None, row |-> "none", keys |-> NoKeys, held |-> {},
             pinned |-> {}, guessed |-> {}, queue |-> {}, owners |-> {}]

\* A slot with the task's result and row and nothing read.
SlotAt(pc, result, row) == [IdleSlot EXCEPT !.pc = pc, !.result = result, !.row = row]

Bounds == {"requests", "upsets", "pins"}

TypeOK ==
    /\ status \in [Results -> Statuses]
    /\ key \in [Results -> Keys \cup {None}]
    /\ guessed \subseteq Results \ Cubes
    /\ pin \in [Results -> PinStates]
    /\ jobs \in [Results -> Nat]
    /\ guessRows \subseteq Results \ Cubes
    /\ failed \subseteq Results /\ found \subseteq Results /\ emitting \subseteq Cubes
    /\ blobs \subseteq Keys
    /\ slot \in [Slots -> SlotStates]
    /\ pinning \subseteq Results
    /\ used \in [Bounds -> Nat]
    /\ finished \in [Workspaces -> Nat]
    /\ guesses \in [Workspaces -> Nat]
    /\ overlapped \subseteq {"guess", "pin"} \X Workspaces

Init ==
    /\ status = [r \in Results |-> "absent"]
    /\ key = NoKeys
    /\ guessed = {}
    /\ pin = [r \in Results |-> "no"]
    /\ jobs = [r \in Results |-> 0]
    /\ guessRows = {} /\ failed = {} /\ found = {} /\ emitting = {}
    /\ blobs = {}
    /\ slot = [s \in Slots |-> IdleSlot]
    /\ pinning = {}
    /\ used = [b \in Bounds |-> 0]
    /\ finished = [w \in Workspaces |-> 0]
    /\ guesses = [w \in Workspaces |-> 0]
    /\ overlapped = {}

-----------------------------------------------------------------------------
(* Sizes and shares *)

Sizes == [R \in SUBSET Results |-> MapThenSumSet(LAMBDA r : Bytes[r], R)]

SizeOf(R) == Sizes[R]

In(w, R) == {r \in R : Owner[r] = w}

Ready == {r \in Results : status[r] = "ready"}

Pinned == {r \in Results : pin[r] # "no"}

\* _candidates: ready results with a key.  An obs_ carries its size; a cube_'s
\* is read from storage, so one whose blob is gone is no candidate.
Candidates == {r \in Ready : r \in Cubes => key[r] \in blobs}

\* held - cap / active workspaces, scaled to whole numbers; the share is fixed
\* by the snapshot.
OverShare(w, held, owners) == SizeOf(In(w, held)) * Cardinality(owners) > Cap

\* under_fair_share: only sizes the payload carries count, so cubes do not.
UnderFairShare(w, extra) ==
    LET sized == Ready \ Cubes
        active == {Owner[r] : r \in sized} \cup {w}
    IN  (SizeOf(In(w, sized)) + extra) * Cardinality(active) <= Cap

\* _pinned_bytes and _size_of: a ready cube_ whose blob is gone counts for nothing.
PinnedBytes(w, R) == SizeOf(In(w, R \cap Candidates))

-----------------------------------------------------------------------------
(* Requests, transforms and pins: the server's tools *)

\* user_work_in_flight: a user's row that is not terminal.
UserWork ==
    \/ \E r \in Results : jobs[r] > 0
    \/ \E s \in Slots : slot[s].pc \in {"fetch", "stored"} /\ slot[s].row = "user"

Limit == [requests |-> MaxRequests, upsets |-> MaxUpsets, pins |-> MaxPins]

Uses(bound) == used[bound] < Limit[bound] /\ used' = [used EXCEPT ![bound] = @ + 1]

\* A job row for a user, and the handle "pending".  (ResultHandle takes the two
\* commits apart.)  What was pinned is no longer what the pin was written on.
Enqueue(r) ==
    /\ Uses("requests")
    /\ status' = [status EXCEPT ![r] = "pending"]
    /\ pin' = [pin EXCEPT ![r] = IF @ = "no" THEN "no" ELSE "loose"]
    /\ jobs' = [jobs EXCEPT ![r] = @ + 1]
    /\ failed' = failed \ {r}

\* The verdict of _reuse_response_for_match that needs a new row: the result was
\* evicted, or its newest job failed and left it pending.
NeedsRow(r) == status[r] = "expired" \/ (status[r] = "pending" /\ r \in failed)

\* retrieve_subset for the window of r: a fresh job when there is no handle; else
\* the handle is promoted, and reused, or found to need a new row.
Request(r) ==
    /\ r \notin Cubes
    /\ IF status[r] = "absent"
       THEN Enqueue(r) /\ UNCHANGED found
       ELSE /\ found' = IF NeedsRow(r) THEN found \cup {r} ELSE found
            /\ UNCHANGED <<status, pin, rows>>
    /\ guessed' = guessed \ {r}
    /\ UNCHANGED <<key, guessRows, emitting, blobs, slot, pinning, counts>>

\* rematerialize: only an evicted result with a job behind it is replayed.
Rematerialize(r) ==
    /\ r \notin Cubes /\ status[r] = "expired"
    /\ found' = found \cup {r}
    /\ UNCHANGED <<payloads, rows, emitting, blobs, slot, pinning, counts>>

\* A call that read r so creates the row, a replay or a fresh job, whatever has
\* become of r since; any number of calls may have read it.
Reset(r) ==
    /\ r \in found
    /\ Enqueue(r)
    /\ UNCHANGED <<key, guessed, guessRows, found, emitting, blobs, slot, pinning, counts>>

\* _emit_cube: a transform that read a result of its workspace stores its output
\* under the fingerprint of what it did ...
StoreCube(c) ==
    /\ c \in Cubes /\ status[c] = "absent"
    /\ \E q \in Ready \ {c} : Owner[q] = Owner[c] /\ key[q] \in blobs
    /\ blobs' = blobs \cup Blob[c]
    /\ emitting' = emitting \cup {c}
    /\ UNCHANGED <<payloads, rows, found, slot, pinning, counts>>

\* ... and mints the cube_.
MintCube(c) ==
    /\ c \in emitting
    /\ status' = [status EXCEPT ![c] = "ready"]
    /\ \E k \in Blob[c] : key' = [key EXCEPT ![c] = k]
    /\ emitting' = emitting \ {c}
    /\ UNCHANGED <<guessed, pin, rows, found, blobs, slot, pinning, counts>>

\* A mutant of PinFits: each pin is held to the ceiling by itself.
PinFitsAlone(r) == PinnedBytes(Owner[r], {r}) <= PinCeiling

\* The pin and the workspace's other pins are within the ceiling.
PinFits(r) ==
    PinnedBytes(Owner[r], Pinned \ {r}) + PinnedBytes(Owner[r], {r}) <= PinCeiling

\* pin_result up to its write, on the handle as it was read.
PinCheck(r) ==
    LET w == Owner[r] IN
    /\ r \notin guessed /\ r \in Ready
    /\ PinFits(r)
    /\ Uses("pins")
    /\ pinning' = pinning \cup {r}
    /\ overlapped' = overlapped \cup {<<"pin", w>> : q \in In(w, pinning)}
    /\ UNCHANGED <<payloads, jobs, guessRows, failed, found, emitting, blobs, slot,
                   finished, guesses>>

\* The keys a sweep's orphan pass, or its snapshot, read.
Read(s) == {slot[s].keys[r] : r \in Results}

Queued(r) == \E s \in Slots : r \in slot[s].queue

\* An orphan pass under way spares the key.
Spared(k) == \A s \in Slots : slot[s].pc = "orphans" => k \in Read(s)

\* The result's bytes are there, and no sweep is about to take them.
Safe(r) == r \in Ready /\ key[r] \in blobs /\ ~Queued(r) /\ Spared(key[r])

PinWrite(r) ==
    /\ r \in pinning
    /\ pin' = [pin EXCEPT ![r] = IF Safe(r) THEN "yes" ELSE "loose"]
    /\ pinning' = pinning \ {r}
    /\ UNCHANGED <<status, key, guessed, rows, found, emitting, blobs, slot, counts>>

\* A mutant of Unpin: the flag is cleared, not set to False.
UnpinClears(r) ==
    /\ r \in Pinned
    /\ pin' = [pin EXCEPT ![r] = "none"]
    /\ UNCHANGED <<status, key, guessed, rows, found, emitting, blobs, slot, pinning, counts>>

Unpin(r) ==
    /\ r \in Pinned
    /\ pin' = [pin EXCEPT ![r] = "no"]
    /\ UNCHANGED <<status, key, guessed, rows, found, emitting, blobs, slot, pinning, counts>>

-----------------------------------------------------------------------------
(* materialize_job: the result, the sweep, the prefetch *)

\* The sweep of startup, before the worker takes any task.
Booting == \E s \in Slots : slot[s].pc # "idle" /\ slot[s].result = None

\* A slot begins one of the result's rows ...
Fetch(s, r) ==
    /\ slot[s].pc = "idle" /\ ~Booting
    /\ \/ /\ jobs[r] > 0 /\ jobs' = [jobs EXCEPT ![r] = @ - 1]
          /\ slot' = [slot EXCEPT ![s] = SlotAt("fetch", r, "user")]
          /\ UNCHANGED guessRows
       \/ /\ r \in guessRows /\ guessRows' = guessRows \ {r}
          /\ slot' = [slot EXCEPT ![s] = SlotAt("fetch", r, "guess")]
          /\ UNCHANGED jobs
    /\ UNCHANGED <<payloads, failed, used, found, emitting, blobs, pinning, counts>>

\* ... and stores what the provider made, under that row's key.
Store(s) ==
    /\ slot[s].pc = "fetch"
    /\ \E k \in Blob[slot[s].result] :
          /\ blobs' = blobs \cup {k}
          /\ slot' = [slot EXCEPT ![s].pc = "stored",
                                  ![s].keys = [slot[s].keys EXCEPT ![slot[s].result] = k]]
    /\ UNCHANGED <<payloads, rows, found, emitting, pinning, counts>>

\* A mutant of Resolve: a task whose row was cancelled goes on to the sweep.
ResolveThoughDead(s) ==
    LET r == slot[s].result IN
    /\ slot[s].pc = "stored"
    /\ status' = [status EXCEPT ![r] = "ready"]
    /\ key' = [key EXCEPT ![r] = slot[s].keys[r]]
    /\ pin' = [pin EXCEPT ![r] = IF @ = "no" THEN "no" ELSE "loose"]
    /\ finished' = IF slot[s].row = "user" THEN [finished EXCEPT ![Owner[r]] = @ + 1]
                   ELSE finished
    /\ slot' = [slot EXCEPT ![s] = SlotAt("sweep", r, slot[s].row)]
    /\ UNCHANGED <<guessed, rows, found, emitting, blobs, pinning, guesses, overlapped>>

\* The handle is resolved, and the row is ready.  A row that was cancelled has no
\* such edge: the task ends there.
Resolve(s) ==
    LET r == slot[s].result IN
    /\ slot[s].pc = "stored"
    /\ status' = [status EXCEPT ![r] = "ready"]
    /\ key' = [key EXCEPT ![r] = slot[s].keys[r]]
    /\ pin' = [pin EXCEPT ![r] = IF @ = "no" THEN "no" ELSE "loose"]
    /\ finished' = IF slot[s].row = "user" THEN [finished EXCEPT ![Owner[r]] = @ + 1]
                   ELSE finished
    /\ slot' = [slot EXCEPT ![s] = IF slot[s].row = "dead" THEN IdleSlot
                                   ELSE SlotAt("sweep", r, slot[s].row)]
    /\ UNCHANGED <<guessed, rows, found, emitting, blobs, pinning, guesses, overlapped>>

\* A row dies: the newest of its result, or an older one.
RowDies(r) == Uses("upsets") /\ failed' \in {failed, failed \cup {r}}

\* A row not yet begun fails, or is cancelled.
JobDies(r) ==
    /\ RowDies(r)
    /\ \/ jobs[r] > 0 /\ jobs' = [jobs EXCEPT ![r] = @ - 1] /\ UNCHANGED guessRows
       \/ r \in guessRows /\ guessRows' = guessRows \ {r} /\ UNCHANGED jobs
    /\ UNCHANGED <<payloads, found, emitting, blobs, slot, pinning, counts>>

\* The task fails its row and ends, or its row is cancelled and it carries on.
TaskDies(s) ==
    /\ slot[s].row # "dead"
    /\ RowDies(slot[s].result)
    /\ \/ slot[s].pc = "fetch" /\ slot' = [slot EXCEPT ![s] = IdleSlot]
       \/ slot[s].pc \in {"fetch", "stored"} /\ slot' = [slot EXCEPT ![s].row = "dead"]
    /\ UNCHANGED <<payloads, jobs, guessRows, found, emitting, blobs, pinning, counts>>

\* _reclaim_orphans, when it is due, reads the keys of all payloads ...
ReadKeys(s) ==
    /\ slot[s].pc = "sweep"
    /\ Uses("upsets")
    /\ slot' = [slot EXCEPT ![s].pc = "orphans", ![s].keys = key]
    /\ UNCHANGED <<payloads, jobs, guessRows, failed, found, emitting, blobs, pinning, counts>>

\* ... and deletes what storage lists besides them.
Reclaim(s) ==
    /\ slot[s].pc = "orphans"
    /\ blobs' = blobs \cap Read(s)
    /\ slot' = [slot EXCEPT ![s].pc = "cap", ![s].keys = NoKeys]
    /\ UNCHANGED <<payloads, rows, found, emitting, pinning, counts>>

\* A mutant of Evictable: pinned results are queued with the others.
EvictableThoughPinned(held, result) == held \ {result}

\* What a sweep may evict: neither pinned results nor the one it follows.
Evictable(held, result) == (held \ Pinned) \ {result}

\* A sweep's snapshot.  Nothing is queued within the cap, nor when pinned
\* results alone exceed it.
Snapshot(record) ==
    LET over == SizeOf(Candidates) > Cap /\ SizeOf(Candidates \cap Pinned) <= Cap
    IN  IF over
        THEN [record EXCEPT !.pc = "evict", !.keys = key, !.held = Candidates,
                            !.pinned = Candidates \cap Pinned,
                            !.guessed = Candidates \cap guessed,
                            !.queue = Evictable(Candidates, record.result),
                            !.owners = {Owner[r] : r \in Candidates}]
        ELSE [record EXCEPT !.pc = "evict"]

\* _evict_over_cap up to the first eviction, the orphan pass done or not due.
Sweep(s) ==
    /\ slot[s].pc \in {"sweep", "cap"}
    /\ slot' = [slot EXCEPT ![s] = Snapshot(slot[s])]
    /\ UNCHANGED <<payloads, rows, found, emitting, blobs, pinning, counts>>

\* A mutant of Heaviest: any workspace with something queued.
HeaviestIsAny(held, queue) == {Owner[r] : r \in queue}

\* The workspace furthest over its share, of those with something queued.
Heaviest(held, queue) ==
    LET footprint(w) == SizeOf(In(w, held))
        queued == {Owner[r] : r \in queue}
    IN  {w \in queued : \A v \in queued : footprint(v) <= footprint(w)}

\* A mutant of Foremost: by score alone.
ForemostByScore(w, queue, guess) == In(w, queue)

\* Within it, every guess before any requested result; then by score, on which
\* no property depends: any result of the class may have the highest.
Foremost(w, queue, guess) ==
    IF In(w, queue) \cap guess # {} THEN In(w, queue) \cap guess ELSE In(w, queue)

\* A mutant of SweepOver: it stops when the first workspace has nothing queued.
SweepOverTooSoon(held, queue) == \E w \in {Owner[r] : r \in held} : In(w, queue) = {}

\* The loop of _evict_over_cap ends under the cap, or with nothing queued.
SweepOver(held, queue) == SizeOf(held) <= Cap \/ queue = {}

\* _evict_one: the blob goes, and the handle and its ready row expire, whatever
\* has happened to them since the snapshot.
Evict(s, r) ==
    /\ slot[s].pc = "evict"
    /\ ~SweepOver(slot[s].held, slot[s].queue)
    /\ r \in slot[s].queue
    /\ Owner[r] \in Heaviest(slot[s].held, slot[s].queue)
    /\ r \in Foremost(Owner[r], slot[s].queue, slot[s].guessed)
    /\ blobs' = blobs \ {slot[s].keys[r]}
    /\ status' = [status EXCEPT ![r] = "expired"]
    /\ key' = [key EXCEPT ![r] = None]
    /\ slot' = [slot EXCEPT ![s].held = @ \ {r}, ![s].queue = @ \ {r}]
    /\ UNCHANGED <<guessed, pin, rows, found, emitting, pinning, counts>>

\* No chaining, and a window to predict.
MayGuess(s) == slot[s].row # "guess" /\ NextWindow[slot[s].result] # None

\* A mutant of WithinBudget: off by one.
WithinBudgetTwice(w) == guesses[w] <= Budget

WithinBudget(w) == guesses[w] < Budget

\* maybe_prefetch up to the planning pass: no user's job is in flight, and the
\* result is small enough to repeat, within quota, fair share and age.
PrefetchGates(s) ==
    LET r == slot[s].result
        w == Owner[r]
    IN
    /\ r # None
    /\ MayGuess(s)
    /\ ~UserWork
    /\ Bytes[r] <= GuessBytes
    /\ WithinBudget(w)
    /\ UnderFairShare(w, Bytes[r])
    /\ NextWindow[r] \in Settled

\* The slots past the quota gate for a workspace.
Planning(w) == {s \in Slots : slot[s].pc = "plan" /\ Owner[slot[s].result] = w}

\* The sweep over, the gates are tried (after a sweep of startup, nothing is).
Gate(s) ==
    /\ slot[s].pc = "evict"
    /\ SweepOver(slot[s].held, slot[s].queue)
    /\ IF PrefetchGates(s)
       THEN LET w == Owner[slot[s].result]
            IN  /\ slot' = [slot EXCEPT ![s] = SlotAt("plan", slot[s].result, slot[s].row)]
                /\ overlapped' = overlapped \cup {<<"guess", w>> : t \in Planning(w)}
       ELSE slot' = [slot EXCEPT ![s] = IdleSlot] /\ UNCHANGED overlapped
    /\ UNCHANGED <<payloads, rows, found, emitting, blobs, pinning, finished, guesses>>

\* The window planned (it may hold nothing, or need an identity), the signature
\* is looked up and inserted: a handle that exists, or arrives first, wins.
Prefetch(s) ==
    LET next == NextWindow[slot[s].result] IN
    /\ slot[s].pc = "plan"
    /\ \/ /\ status[next] = "absent"
          /\ status' = [status EXCEPT ![next] = "pending"]
          /\ guessed' = guessed \cup {next}
          /\ guessRows' = guessRows \cup {next}
          /\ guesses' = [guesses EXCEPT ![Owner[next]] = @ + 1]
       \/ UNCHANGED <<status, guessed, guessRows, guesses>>
    /\ slot' = [slot EXCEPT ![s] = IdleSlot]
    /\ UNCHANGED <<key, pin, jobs, failed, used, found, emitting, blobs, pinning,
                   finished, overlapped>>

\* The slots whose row is a user's, or a guess, of r and not yet ready.
Begun(r, row) == {s \in Slots : slot[s].pc \in {"fetch", "stored"} /\ slot[s].result = r
                                   /\ slot[s].row = row}

\* The worker dies: a sweep or a prefetch cut short is never resumed, the rows it
\* had begun are begun again, and startup sweeps, for no result.
WorkerDies ==
    /\ \E s \in Slots : slot[s].pc # "idle"
    /\ Uses("upsets")
    /\ \E s \in Slots : slot' = [t \in Slots |-> IF t = s THEN SlotAt("sweep", None, "none")
                                                   ELSE IdleSlot]
    /\ jobs' = [r \in Results |-> jobs[r] + Cardinality(Begun(r, "user"))]
    /\ guessRows' = guessRows \cup {r \in Results : Begun(r, "guess") # {}}
    /\ UNCHANGED <<payloads, failed, found, emitting, blobs, pinning, counts>>

-----------------------------------------------------------------------------
Next ==
    \/ \E r \in Wanted : Request(r) \/ Rematerialize(r) \/ Reset(r)
    \/ \E c \in Cubes : StoreCube(c) \/ MintCube(c)
    \/ \E r \in Kept : PinCheck(r) \/ PinWrite(r) \/ Unpin(r)
    \/ \E r \in Results : JobDies(r)
    \/ \E s \in Slots :
          \/ Store(s) \/ Resolve(s) \/ TaskDies(s)
          \/ ReadKeys(s) \/ Reclaim(s) \/ Sweep(s) \/ Gate(s) \/ Prefetch(s)
          \/ \E r \in Results : Fetch(s, r) \/ Evict(s, r)
    \/ WorkerDies

Spec == Init /\ [][Next]_vars

-----------------------------------------------------------------------------
(* Properties *)

\* No identical transform may share the result's blob.
Sole(r) == \A q \in Results : Blob[q] \cap Blob[r] # {} => q = r

\* A pin written on a result that was safe then, its bytes there and no sweep
\* on its way to them, holds through every later sweep (retention.py's "the
\* eviction sweep simply never selects it"), its orphan pass included, and
\* through prefetches, transforms and restarts, until it is taken back, or a
\* call or job that had begun before it rewrites the payload: the result is
\* ready, one that somebody asked for, and its bytes are there, unless an
\* identical transform shares them.
PinHolds ==
    \A r \in Results : pin[r] = "yes" =>
        /\ status[r] = "ready" /\ r \notin guessed /\ ~Queued(r)
        /\ Sole(r) => key[r] \in blobs

\* The results a workspace has pinned so (those an identical transform shares
\* excepted) fit its ceiling, unless two pin_result calls overlapped there.  It
\* says nothing of loose pins: pin_result does not count a pinned result that is
\* evicted at the time, and its replay then takes the total past the ceiling.
PinsBounded ==
    \A w \in Workspaces : <<"pin", w>> \in overlapped \/
        SizeOf(In(w, {r \in Results : pin[r] = "yes" /\ Sole(r)})) <= PinCeiling

\* What a sweep takes from its queue in a step (it empties as the sweep ends).
Evicted(s) == IF slot'[s].pc = "evict" THEN slot[s].queue \ slot'[s].queue ELSE {}

\* Within a workspace no result somebody asked for is evicted while one nobody
\* asked for is left to the sweep (eviction_key).
GuessesGoFirst ==
    [][\A s \in Slots : \A r \in Evicted(s) \ slot[s].guessed :
           \A q \in slot[s].guessed \cap slot[s].held :
               Owner[q] = Owner[r] => q \in slot[s].pinned \/ q = slot[s].result]_vars

\* Bytes are taken from a workspace over its fair share, unless every such
\* workspace has only pinned results, and the sweep's own, left to give.
FairEviction ==
    [][\A s \in Slots : \A r \in Evicted(s) :
           \/ OverShare(Owner[r], slot[s].held, slot[s].owners)
           \/ \A q \in slot[s].held : OverShare(Owner[q], slot[s].held, slot[s].owners) =>
                  q \in slot[s].pinned \/ q = slot[s].result]_vars

\* What a sweep leaves of the results it saw fits the cap, unless all of it is
\* pinned, or its own result: however many other sweeps ran beside it.
SweepFits ==
    [][\A s \in Slots : slot[s].held # {} /\ Gate(s) =>
           LET left == slot[s].held \cap Ready
           IN  SizeOf(left) <= Cap \/ left \subseteq slot[s].pinned \cup {slot[s].result}]_vars

\* One speculative step per requested retrieval, never a cascade (prefetch.py,
\* "It never chains"), through promotions, replays and evictions of guesses.
NeverChains ==
    \A w \in Workspaces : guesses[w] <= finished[w]

\* The daily quota of guesses holds unless two slots planned one at once.
QuotaKept ==
    \A w \in Workspaces : <<"guess", w>> \in overlapped \/ guesses[w] <= Budget

=============================================================================
