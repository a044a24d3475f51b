---------------------------- MODULE ResultHandle ----------------------------
(***************************************************************************)
(* One obs_ handle, the one its request signature owns in a workspace: the *)
(* payload that tools, worker and sweep all rewrite, the job rows behind   *)
(* it over its lifetime, and the blobs in storage.                         *)
(*                                                                         *)
(* update_handle loads the payload, merges a patch and commits the whole   *)
(* of it, with no lock.  So a payload write is a load and a commit, and a  *)
(* commit over a payload that changed since its load undoes the change: it *)
(* is counted as a clash.  A row's own life is JobLifecycle's: here it is  *)
(* live until it is ready, or dead: failed or cancelled.                   *)
(***************************************************************************)
EXTENDS Naturals

CONSTANTS
    Calls,        \* tool calls, each made once
    Kinds,        \* the tools they may call
    Sweeps,       \* eviction sweeps the worker may have running at once
    MaxJobs,      \* bound: job rows created for the handle
    MaxFaults,    \* bound: calls, sweeps and tasks that die, slow winners and
                  \* clashes, together
    MaxClashes,   \* bound: payload commits that undo another (clashes)
    MaxEvictions  \* bound: sweeps that choose this handle

Tools == {"retrieve", "prefetch", "rematerialize", "pin", "unpin"}

ASSUME KindsAssumption == Kinds \subseteq Tools
ASSUME BoundsAssumption ==
    /\ MaxJobs \in Nat /\ MaxFaults \in Nat
    /\ MaxClashes \in Nat /\ MaxEvictions \in Nat

VARIABLES
    handle,   \* the handles row: its payload
    rows,     \* how many job rows name the handle; the newest is number `rows`
    job,      \* each row, and where its materialize_job is
    blobs,    \* storage keys that hold a blob
    call,     \* tool calls in progress
    sweep,    \* the worker's eviction sweeps
    faults, clashes, evictions

bounds == <<faults, clashes, evictions>>
vars == <<handle, rows, job, blobs, call, sweep, faults, clashes, evictions>>

-----------------------------------------------------------------------------
(* Types *)

Rows  == 1..MaxJobs
NoKey == 0
Keys  == 0..MaxJobs   \* a spec's storage key, named after the row it was first made for

Payloads == [status: {"absent", "pending", "ready", "expired"}, key: Keys,
             speculative: BOOLEAN, pinned: BOOLEAN]

NoHandle == [status |-> "absent", key |-> NoKey, speculative |-> FALSE, pinned |-> FALSE]

\* A row's life as the tools read it (failed and cancelled are alike to them),
\* and its materialize_job: not begun, fetching, the blob stored, the payload
\* loaded, the handle resolved.
RowStates == {"none", "live", "ready", "dead", "expired"}
JobRows == [state: RowStates, pc: {"none", "fetch", "stored", "commit", "resolved"},
            key: Keys, loaded: Payloads]

\* A call: the handle as first read, the payload update_handle loaded and the
\* patch it is loaded for, the row to replay (0: a fresh job), and whether it
\* lost the insert.
Patches == {"none", "promote", "pending", "pin", "unpin"}
CallStates == [kind: Tools \cup {"none"},
               pc: {"new", "insert", "verdict", "load", "commit", "create", "done", "died"},
               match: Payloads, loaded: Payloads, patch: Patches,
               replay: 0..MaxJobs, lost: BOOLEAN]

NewCall == [kind |-> "none", pc |-> "new", match |-> NoHandle, loaded |-> NoHandle,
            patch |-> "none", replay |-> 0, lost |-> FALSE]

SweepStates == [pc: {"idle", "orphans", "delete", "load", "commit", "row"},
                refs: SUBSET Keys, key: Keys, loaded: Payloads]

NoSweep == [pc |-> "idle", refs |-> {}, key |-> NoKey, loaded |-> NoHandle]

TypeOK ==
    /\ handle \in Payloads
    /\ rows \in 0..MaxJobs
    /\ job \in [Rows -> JobRows]
    /\ blobs \subseteq Keys
    /\ call \in [Calls -> CallStates]
    /\ sweep \in [Sweeps -> SweepStates]
    /\ faults \in Nat /\ clashes \in Nat /\ evictions \in Nat

Init ==
    /\ handle = NoHandle
    /\ rows = 0
    /\ job = [i \in Rows |-> [state |-> "none", pc |-> "none", key |-> NoKey, loaded |-> NoHandle]]
    /\ blobs = {}
    /\ call = [c \in Calls |-> NewCall]
    /\ sweep = [w \in Sweeps |-> NoSweep]
    /\ faults = 0 /\ clashes = 0 /\ evictions = 0

Troubled == faults + clashes >= MaxFaults

Fault == ~Troubled /\ faults' = faults + 1 /\ UNCHANGED <<clashes, evictions>>

-----------------------------------------------------------------------------
(* WorkspaceStore *)

\* update_handle's commit: the ORM writes the payload as loaded and merged,
\* and nothing at all when the merge changed nothing.
Commits(loaded, merged) ==
    IF merged = loaded THEN UNCHANGED <<handle, clashes>>
    ELSE /\ handle' = merged
         /\ IF handle = loaded THEN UNCHANGED clashes
            ELSE clashes < MaxClashes /\ ~Troubled /\ clashes' = clashes + 1

\* The patches the tools send.
Merged(payload, patch) ==
    CASE patch = "promote" -> [payload EXCEPT !.speculative = FALSE]
      [] patch = "pending" -> [payload EXCEPT !.status = "pending"]
      [] patch = "pin"     -> [payload EXCEPT !.pinned = TRUE]
      [] patch = "unpin"   -> [payload EXCEPT !.pinned = FALSE]
      [] OTHER             -> payload

\* A mutant of Minted: the row's first state where the handle's status belongs.
MintedAsRow(kind) == [NoHandle EXCEPT !.status = "live", !.speculative = (kind = "prefetch")]

\* The handle a winning insert mints.
Minted(kind) == [NoHandle EXCEPT !.status = "pending", !.speculative = (kind = "prefetch")]

-----------------------------------------------------------------------------
(* Tool calls *)

Goes(c, pc) == call' = [call EXCEPT ![c].pc = pc]

\* The call returned, or raised: what it had read is gone.
Ends(c, pc) == call' = [call EXCEPT ![c] = [NewCall EXCEPT !.kind = call[c].kind, !.pc = pc]]

\* The call is about to merge `patch` into the payload.
Patching(record, patch) == [record EXCEPT !.pc = "load", !.patch = patch]

\* A mutant of Reused: only a materialized match is promoted.
ReusedPromotesReady(record, match) ==
    IF match.speculative /\ match.status = "ready"
    THEN Patching([record EXCEPT !.match = match], "promote")
    ELSE [record EXCEPT !.match = match, !.pc = "verdict"]

\* _reuse_response_for_match: a speculative match is promoted first, then its
\* job decides.
Reused(record, match) ==
    IF match.speculative THEN Patching([record EXCEPT !.match = match], "promote")
    ELSE [record EXCEPT !.match = match, !.pc = "verdict"]

Turns(c, record) == call' = [call EXCEPT ![c] = record]

\* _check_reuse: no handle, and the request goes on to submit; or a match.
Retrieve(c, new) ==
    Turns(c, IF handle = NoHandle THEN [new EXCEPT !.pc = "insert"] ELSE Reused(new, handle))

\* maybe_prefetch, every gate passed: a window already held is not guessed again.
Prefetch(c, new) ==
    Turns(c, IF handle = NoHandle THEN [new EXCEPT !.pc = "insert"] ELSE [new EXCEPT !.pc = "done"])

Rematerialize(c, new) ==
    Turns(c, IF handle = NoHandle THEN [new EXCEPT !.pc = "done"]
             ELSE [new EXCEPT !.match = handle, !.pc = "verdict"])

\* pin_result: only cached bytes somebody asked for can be pinned, and the
\* workspace's ceiling may refuse them; a pin can always be taken back.
PinResult(c, new) ==
    \/ handle.status = "ready" /\ ~handle.speculative /\ Turns(c, Patching(new, "pin"))
    \/ Turns(c, [new EXCEPT !.pc = "done"])

Unpin(c, new) ==
    Turns(c, IF handle = NoHandle THEN [new EXCEPT !.pc = "done"] ELSE Patching(new, "unpin"))

\* Every tool begins by reading the handle.
Look(c) ==
    /\ call[c].pc = "new"
    /\ \E kind \in Kinds :
        LET new == [call[c] EXCEPT !.kind = kind]
        IN \/ kind = "retrieve" /\ Retrieve(c, new)
           \/ kind = "prefetch" /\ Prefetch(c, new)
           \/ kind = "rematerialize" /\ Rematerialize(c, new)
           \/ kind = "pin" /\ PinResult(c, new)
           \/ kind = "unpin" /\ Unpin(c, new)
    /\ UNCHANGED <<handle, rows, job, blobs, sweep, bounds>>

\* put_handle_unique_signature: one insert wins.  A request that loses reuses
\* the winner's handle, a prefetch that loses is abandoned.
Insert(c) ==
    /\ call[c].pc = "insert"
    /\ IF handle = NoHandle
       THEN handle' = Minted(call[c].kind) /\ Goes(c, "create")
       ELSE /\ UNCHANGED handle
            /\ IF call[c].kind = "prefetch" THEN Ends(c, "done")
               ELSE call' = [call EXCEPT ![c] = Reused([@ EXCEPT !.lost = TRUE], handle)]
    /\ UNCHANGED <<rows, job, blobs, sweep, bounds>>

\* The newest row is what get_job_by_obs_handle answers with.
NoJob  == rows = 0
Dead   == rows > 0 /\ job[rows].state = "dead"

\* The match is no use to retrieve: nothing to replay, or a job that died
\* without touching the handle.
Miss(c) ==
    /\ call[c].pc = "verdict" /\ call[c].kind = "retrieve"
    /\ \/ call[c].match.status = "expired" /\ NoJob
       \/ call[c].match.status = "pending" /\ (NoJob \/ Dead)

\* A hit on the match as it was read: answered with what is there ...
Answer(c) ==
    /\ call[c].pc = "verdict"
    /\ IF call[c].kind = "retrieve" THEN call[c].match.status # "expired" /\ ~Miss(c)
       ELSE call[c].match.status # "expired" \/ NoJob
    /\ Ends(c, "done")
    /\ UNCHANGED <<handle, rows, job, blobs, sweep, bounds>>

\* ... or, once evicted, replayed from the newest row's spec.
Replay(c) ==
    /\ call[c].pc = "verdict"
    /\ call[c].match.status = "expired" /\ ~NoJob
    /\ call' = [call EXCEPT ![c] = Patching([@ EXCEPT !.match = NoHandle, !.replay = rows], "pending")]
    /\ UNCHANGED <<handle, rows, job, blobs, sweep, bounds>>

\* A miss on the first look goes on to submit.
Submit(c) ==
    /\ Miss(c) /\ ~call[c].lost
    /\ Ends(c, "insert")
    /\ UNCHANGED <<handle, rows, job, blobs, sweep, bounds>>

\* A mutant of GiveUp: the loser of the insert does not wait for the winner's row.
GiveUpAtOnce(c) ==
    /\ Miss(c) /\ call[c].lost
    /\ call' = [call EXCEPT ![c] = Patching([@ EXCEPT !.match = NoHandle], "pending")]
    /\ UNCHANGED <<handle, rows, job, blobs, sweep, bounds>>

\* _await_reuse_after_conflict: the loser of the insert looks again for a
\* second, then submits a fresh job under the winner's handle.  A winner that
\* takes longer to commit its row is a slow one.
GiveUp(c) ==
    /\ Miss(c) /\ call[c].lost
    /\ IF NoJob /\ \E d \in Calls : call[d].pc = "create" THEN Fault ELSE UNCHANGED bounds
    /\ call' = [call EXCEPT ![c] = Patching([@ EXCEPT !.match = NoHandle], "pending")]
    /\ UNCHANGED <<handle, rows, job, blobs, sweep>>

\* update_handle: load ...
CallLoads(c) ==
    /\ call[c].pc = "load"
    /\ call' = [call EXCEPT ![c].loaded = handle, ![c].pc = "commit"]
    /\ UNCHANGED <<handle, rows, job, blobs, sweep, bounds>>

\* A mutant of AfterPatch: a handle reset to "pending" gets no row.
AfterPatchNoJob(patch) == IF patch = "promote" THEN "verdict" ELSE "done"

\* What a call does once its patch is committed.
AfterPatch(patch) ==
    CASE patch = "promote" -> "verdict"
      [] patch = "pending" -> "create"
      [] OTHER             -> "done"

\* ... and commit.
CallCommits(c) ==
    /\ call[c].pc = "commit"
    /\ Commits(call[c].loaded, Merged(call[c].loaded, call[c].patch))
    /\ IF AfterPatch(call[c].patch) = "done" THEN Ends(c, "done")
       ELSE call' = [call EXCEPT ![c].loaded = NoHandle, ![c].patch = "none",
                                 ![c].pc = AfterPatch(call[c].patch)]
    /\ UNCHANGED <<rows, job, blobs, sweep, faults, evictions>>

\* crud.create_job and the enqueue.  A replay keeps the spec it replays, and
\* with it the storage key; a fresh job has its own.
Create(c) ==
    /\ call[c].pc = "create" /\ rows < MaxJobs
    /\ rows' = rows + 1
    /\ job' = [job EXCEPT ![rows + 1].state = "live", ![rows + 1].key =
                    IF call[c].replay = 0 THEN rows + 1 ELSE job[call[c].replay].key]
    /\ Ends(c, "done")
    /\ UNCHANGED <<handle, blobs, sweep, bounds>>

\* The server dies, or a database call fails, in the middle of a call.
CallDies(c) ==
    /\ call[c].pc \notin {"new", "done", "died"}
    /\ Fault
    /\ Ends(c, "died")
    /\ UNCHANGED <<handle, rows, job, blobs, sweep>>

-----------------------------------------------------------------------------
(* The rows, as JobLifecycle drives them *)

\* The row fails or is cancelled.  A materialize_job already begun carries on.
JobEnds(i) ==
    /\ job[i].state = "live"
    /\ job' = [job EXCEPT ![i].state = "dead"]
    /\ UNCHANGED <<handle, rows, blobs, call, sweep, bounds>>

\* materialize_job begins: the row is materializing ...
JobFetches(i) ==
    /\ job[i].state = "live" /\ job[i].pc = "none"
    /\ job' = [job EXCEPT ![i].pc = "fetch"]
    /\ UNCHANGED <<handle, rows, blobs, call, sweep, bounds>>

\* ... the provider's result is stored under the spec's key ...
JobStores(i) ==
    /\ job[i].pc = "fetch"
    /\ blobs' = blobs \cup {job[i].key}
    /\ job' = [job EXCEPT ![i].pc = "stored"]
    /\ UNCHANGED <<handle, rows, call, sweep, bounds>>

\* ... the payload is loaded and resolved to it ...
JobLoads(i) ==
    /\ job[i].pc = "stored"
    /\ job' = [job EXCEPT ![i].loaded = handle, ![i].pc = "commit"]
    /\ UNCHANGED <<handle, rows, blobs, call, sweep, bounds>>

JobResolves(i) ==
    /\ job[i].pc = "commit"
    /\ Commits(job[i].loaded, [job[i].loaded EXCEPT !.status = "ready", !.key = job[i].key])
    /\ job' = [job EXCEPT ![i].pc = "resolved", ![i].loaded = NoHandle]
    /\ UNCHANGED <<rows, blobs, call, sweep, faults, evictions>>

\* ... and the row is marked.
JobReady(i) ==
    /\ job[i].pc = "resolved" /\ job[i].state = "live"
    /\ job' = [job EXCEPT ![i].state = "ready"]
    /\ UNCHANGED <<handle, rows, blobs, call, sweep, bounds>>

\* The worker dies and the row's materialization is started over.
JobRestarts(i) ==
    /\ job[i].state = "live" /\ job[i].pc # "none"
    /\ Fault
    /\ job' = [job EXCEPT ![i].pc = "none", ![i].loaded = NoHandle]
    /\ UNCHANGED <<handle, rows, blobs, call, sweep>>

-----------------------------------------------------------------------------
(* EvictionService.sweep, which any materialization and each startup set off *)

\* _referenced_storage_keys, when the orphan pass is due.
SweepReadsKeys(w) ==
    /\ sweep[w].pc = "idle"
    /\ sweep' = [sweep EXCEPT ![w].refs = {handle.key} \ {NoKey}, ![w].pc = "orphans"]
    /\ UNCHANGED <<handle, rows, job, blobs, call, bounds>>

\* _reclaim_orphans: what storage lists and the keys read before do not hold.
\* The sweep goes on to _evict_over_cap, with or without a choice to make.
ReclaimOrphans(w) ==
    /\ sweep[w].pc = "orphans"
    /\ blobs' = blobs \cap sweep[w].refs
    /\ sweep' = [sweep EXCEPT ![w] = NoSweep]
    /\ UNCHANGED <<handle, rows, job, call, bounds>>

\* _candidates: this handle may be chosen if it is ready and not pinned.
SweepSelects(w) ==
    /\ sweep[w].pc = "idle"
    /\ handle.status = "ready" /\ handle.key # NoKey /\ ~handle.pinned
    /\ evictions < MaxEvictions /\ evictions' = evictions + 1
    /\ sweep' = [sweep EXCEPT ![w] = [NoSweep EXCEPT !.key = handle.key, !.pc = "delete"]]
    /\ UNCHANGED <<handle, rows, job, blobs, call, faults, clashes>>

\* _evict_one: the blob ...
EvictDeletes(w) ==
    /\ sweep[w].pc = "delete"
    /\ blobs' = blobs \ {sweep[w].key}
    /\ sweep' = [sweep EXCEPT ![w].pc = "load"]
    /\ UNCHANGED <<handle, rows, job, call, bounds>>

\* ... the payload ...
EvictLoads(w) ==
    /\ sweep[w].pc = "load"
    /\ sweep' = [sweep EXCEPT ![w].loaded = handle, ![w].pc = "commit"]
    /\ UNCHANGED <<handle, rows, job, blobs, call, bounds>>

EvictFlips(w) ==
    /\ sweep[w].pc = "commit"
    /\ Commits(sweep[w].loaded, [sweep[w].loaded EXCEPT !.status = "expired", !.key = NoKey])
    /\ sweep' = [sweep EXCEPT ![w] = [NoSweep EXCEPT !.pc = "row"]]
    /\ UNCHANGED <<rows, job, blobs, call, faults, evictions>>

\* ... and the newest row, if it is ready.
EvictMarksRow(w) ==
    /\ sweep[w].pc = "row"
    /\ job' = IF ~NoJob /\ job[rows].state = "ready"
              THEN [job EXCEPT ![rows].state = "expired"] ELSE job
    /\ sweep' = [sweep EXCEPT ![w] = NoSweep]
    /\ UNCHANGED <<handle, rows, blobs, call, bounds>>

\* The worker dies, or storage or the database fails, in the middle of it.
SweepDies(w) ==
    /\ sweep[w].pc # "idle"
    /\ Fault
    /\ sweep' = [sweep EXCEPT ![w] = NoSweep]
    /\ UNCHANGED <<handle, rows, job, blobs, call>>

-----------------------------------------------------------------------------
(* The specification *)

CallStep(c) ==
    \/ Look(c) \/ Insert(c) \/ Answer(c) \/ Replay(c) \/ Submit(c) \/ GiveUp(c)
    \/ CallLoads(c) \/ CallCommits(c) \/ Create(c)

JobStep(i) == JobFetches(i) \/ JobStores(i) \/ JobLoads(i) \/ JobResolves(i) \/ JobReady(i)

SweepStep(w) ==
    \/ SweepReadsKeys(w) \/ ReclaimOrphans(w) \/ SweepSelects(w)
    \/ EvictDeletes(w) \/ EvictLoads(w) \/ EvictFlips(w) \/ EvictMarksRow(w)

Next ==
    \/ \E c \in Calls : CallStep(c) \/ CallDies(c)
    \/ \E i \in Rows : JobStep(i) \/ JobEnds(i) \/ JobRestarts(i)
    \/ \E w \in Sweeps : SweepStep(w) \/ SweepDies(w)

Spec == Init /\ [][Next]_vars

-----------------------------------------------------------------------------
(* Properties *)

\* A call that will create a row, or a row still live, stands behind the handle.
InHand ==
    \/ \E c \in Calls : \/ call[c].pc = "create"
                        \/ call[c].pc \in {"load", "commit"} /\ call[c].patch = "pending"
    \/ \E i \in Rows : job[i].state = "live"

\* "Two concurrent identical retrieve_subset calls must collapse onto one
\* job": for any number of requests, prefetches and replays at once, the
\* signature has one row, as long as none died or was evicted, no call died
\* and no winner was slow.
OneJobPerSignature ==
    faults = 0 /\ evictions = 0 /\ (\A i \in Rows : job[i].state # "dead")
        => rows <= 1

\* "A speculative result someone has now asked for is not speculative any
\* more": once a request was answered with the handle, whatever calls, rows and
\* sweeps had read before, the sweep no longer treats it as a guess, unless a
\* payload commit undid another.  (The prefetch's own job does so if it loaded
\* the payload before the promotion and resolves the handle after it.)
AskedIsKept ==
    clashes = 0 /\ (\E c \in Calls : call[c].kind = "retrieve" /\ call[c].pc = "done")
        => ~handle.speculative

\* A handle left "pending" can be resolved or asked for again: something is
\* in hand for it, or the newest row is one a new request sees as dead.
Retryable == handle.status = "pending" => InHand \/ NoJob \/ Dead

\* So it is as long as no process dies and no payload commit undoes another,
\* with replays, resubmissions and evictions racing.
PendingIsOwned == faults = 0 /\ clashes = 0 => Retryable

-----------------------------------------------------------------------------
(* Stated by the repository and refuted by what the code does *)

\* get_job_by_obs_handle: the newest row "is always the live job", because
\* "at most one job is ever enqueued per signature" (_submit_retrieval).
OneLiveJob == \A i \in Rows : job[i].state = "live" => i = rows

\* _reuse_response_for_match: without its check of the job a signature "would
\* be permanently un-retryable".  With it, a call that dies leaves one so.
NeverUnretryable == Retryable

\* EvictionService: the orphan pass deletes "blobs under a materialization
\* prefix with no handle referencing them"; export_result's hint: a URI that
\* stops resolving is recovered by rematerialize, which answers "ready" for
\* a handle that says so.
ReadyResolves ==
    handle.status = "ready" => handle.key \in blobs \/ \E w \in Sweeps : sweep[w].pc \in {"load", "commit"}

=============================================================================
