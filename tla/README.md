# Verification of the Harmony retrieval server

The repository is an MCP server for NASA Earthdata. A tool call resolves a
dataset, an area and a time range, routes the request to Harmony, AppEEARS or
OPeNDAP, and hands back two handles: a `job_` handle for the work and an `obs_`
handle for the result. The work itself is durable: a row in Postgres, tasks in
an arq queue (Redis), a worker that submits, polls and materializes, and a
bounded cache of results with eviction, pinning, reuse and prefetch. This
directory holds TLA+ modules of that durable part, of the planning that feeds
it and of the fetch that fills it, the TLC runs that check them, and TLAPS
proofs. Paths below are relative to `src/src/earthdata_mcp/`.

## 1. Inventory

| part | source | state it keeps | operations | what makes it hard |
|---|---|---|---|---|
| job state machine | `jobs/state.py` | none | `assert_legal` | every writer must agree with one map |
| job store | `jobs/crud.py`, `jobs/models.py` | `jobs` rows | `create_job`, `set_state`, `transition_state`, two reclaim queries | load, check and commit with no row lock |
| lifecycle worker | `jobs/worker.py` | arq slots, the queue | `submit_job`, `poll_job`, `materialize_job`, `startup`, `sweep_stalled_jobs` | at-least-once delivery, death between any two awaits, duplicates |
| cancellation | `tools/retrieval.py` | none | `cancel_retrieval` | runs in another process than the worker |
| providers | `providers/harmony.py`, `appeears.py`, `opendap/` | upstream jobs | `submit`, `poll`, `cancel`, `materialize` | an upstream job exists before the row knows its URL |
| submission and reuse | `tools/retrieval.py` | `obs_` handle of a signature | `_check_reuse`, `put_handle_unique_signature`, `_await_reuse_after_conflict`, `_reenqueue_replay` | check-then-act between concurrent callers |
| workspace store | `workspace/store.py` | `handles` rows | `put_handle`, `update_handle`, `touch_handle` | `update_handle` reads, merges and writes a whole payload |
| result cache | `jobs/eviction.py`, `tools/export.py`, `tools/retention.py`, `storage/` | blobs, pins, recency | `sweep`, orphan pass, `pin_result`, `rematerialize`, `export_result` | storage and database change in separate steps |
| prefetch | `jobs/prefetch.py` | speculative handles and rows | `maybe_prefetch` | gates checked before the job exists; races the user's own request |
| credentials | `providers/identity.py`, `http_auth.py`, `redaction.py` | `credential_encrypted` of a row | encrypt, classify failures, erase | must be gone in every terminal state |
| router, capabilities | `providers/router.py`, `_capabilities.py` | none | `route` | pure, many flags |
| rate limiter | `providers/ratelimit.py` | token bucket | `acquire` | a lock held across a sleep, shared by every job of the process |
| OPeNDAP planning | `providers/opendap/_planning.py`, `_serialization.py` | none | `plan_subset`, `validate_variables`, `build_constraint_expression` | two sources of names, each with gaps; index arithmetic |
| OPeNDAP fetch | `providers/opendap/_runtime.py` | scratch files, the bundle | `_fetch_all`, `_fetch_to_file`, `materialize` | a task per granule, retries, slots, cancellation, a thread that outlives its call |
| provenance | `workspace/provenance.py` | edges, events | append, ancestry walk | recursive query |
| request spec | `providers/request_spec.py` | none | `from_plan`, signatures | round trip through JSON |
| discovery, metadata | `providers/cmr.py`, `tools/discovery.py`, `coverage.py`, `area.py`, `understanding.py`, `catalog/` | none | CMR and KMS requests | none durable |
| transforms, preview | `tools/transform.py`, `preview.py`, `_dataio.py` | `cube_` handles, blobs | array computations | identical transforms share one blob |

How they interact: the server's tools write handles and rows and enqueue
`submit_job`; the worker chains `submit_job -> poll_job* -> materialize_job`
through Redis, writes the row at each step and the handle once; a finished
materialization runs the eviction sweep and may issue a prefetch, which enters
the same chain; `startup` and a periodic sweep put rows that were left behind
back into the queue. There is no lock between any two of these, and the
database is the only shared state: a row or a payload is loaded in one
transaction and committed later. That is what nearly every hazard in
`PROJECT.json` comes from.

What correctness means for the parts modelled: a job settles and is never
forgotten; a terminal row holds no token; a row says "ready" only after its
handle does, and only for what its own provider produced; one signature has
one job; a result somebody asked for is not treated as a guess; a handle that
says "pending" is somebody's to resolve or can be asked for again; a pinned
result keeps its bytes, guesses are evicted first and never cascade; a plan
names only services and variables that exist, at submission as at planning; a
constraint covers the box; every call to NASA is made as the caller; a
delivered bundle is whole, in order and final. Where the code does less, a run
shows it (section 3), or section 5 says what is excepted and why.

## 2. Modules

| module | models | notes |
|---|---|---|
| `JobState` | `jobs/state.py` | constants and `Legal`, no variables |
| `JobLifecycle` | the job store, the worker, `cancel_retrieval`, the providers' side, an eviction's effect on the row | extends `JobState` |
| `JobLifecycleProofs` | theorems about it | extends `JobLifecycle`, TLAPS |
| `ResultHandle` | one signature's `obs_` handle: submission, reuse, prefetch, replay, pin, eviction, orphan pass, the rows behind it | a row's life is reduced to live, ready, dead, expired |
| `ResultHandleProofs` | theorems about it | extends `ResultHandle`, TLAPS |
| `ResultCache` | the cache across workspaces: sweep, fair share, pins and their ceiling, shared transform blobs, prefetch gates and chaining | a payload update is one step |
| `ResultCacheProofs` | theorems about it | extends `ResultCache`, `Sums` |
| `Bundle` | what `OPeNDAPProvider.materialize` promises: nothing, then one answer, and with a delivery the whole bundle | abstract specification |
| `GranuleFetch` | the fetch itself: tasks, limiter, slots, retries, cancellation, archive, copy | implements `Bundle` |
| `GranuleFetchProofs` | its invariant and the refinement | extends `GranuleFetch`, TLAPS |
| `Planning` | `find_service` and the routing trace, UMM-V and DMR resolution, grid geometry, the DAP4 constraint | pure operators |
| `PlanningProofs` | what its operators compute | extends `Planning`, `LeastElement` |
| `Retrieval` | one retrieval from tool call to stored result, over a changing world | extends `Planning` and `GranuleFetch` |
| `RetrievalProofs` | theorems about it | extends `Retrieval`, `PlanningProofs`, `GranuleFetchProofs` |
| `LeastElement`, `Sums` | lemmas about `Min`, `Max` and sums over finite sets | used by the proofs |
| `MCJobLifecycle`, `MCResultHandle`, `MCResultCache`, `MCRetrieval` | instances for TLC | requests, collections, symmetries |

### JobLifecycle

Each column that control depends on is a function of the row: `state`, `spec`
(planned provider, fallback URLs, whether it parses, whether a user's token was
stored), `url`, `cred`, and `quiet` (the row's last sign of life is older than
the stall horizon). `up` is the provider's side, one status per upstream job.
The queue is two variables because arq has two kinds of id: `fresh` counts
tasks enqueued under a fresh id, `resumed` is the set under the deterministic
resume id, which arq dedupes. `task[s]` is what a slot is doing, with what it
read. Every provider call is a step between two others, and every state change
is a load (which checks the edge) and a later `Commit`, because
`transition_state` takes no lock and SQLAlchemy writes only the changed
columns; so a cancel, a duplicate task, the reclaim pass and an eviction can
each come in between. A submit that fails, is cancelled or dies with its worker
may have reached the provider all the same (`SubmitUnheard`): an upstream job
then exists whose URL no row will know. A worker death drops the slots and puts
what they were running back in the queue; a lost queue drops the queue.
`startup` and `sweep_stalled_jobs` are separate actions with the query, the
commit and the re-enqueue as steps of their own.

Data abstracted: URLs to the number of the upstream job, times to `quiet`,
error texts, progress, provenance events and the downloaded bytes to nothing.

### ResultHandle

`handle` is the payload of the one `obs_` row a signature owns: status, storage
key, `speculative`, `pinned`. `rows` and `job` are the job rows that name it,
newest last, as `get_job_by_obs_handle` sees them, with the position of each
row's `materialize_job`. `call[c]` is a tool call: the handle as first read
(`match`), the payload `update_handle` loaded, the patch it carries, and whether
it lost the insert. `sweep[w]` is an eviction sweep. A payload write is a load
and a commit (`Commits`): the whole payload as loaded, with the patch merged.
A commit over a payload that changed since the load undoes that change and is
counted in `clashes`, which share the bound of the failures; a merge that
changes nothing writes nothing, as the ORM does.
Storage keys are named after the row they were first made for: a replay keeps
its predecessor's spec and key, a fresh job has its own.

Abstractions: the twenty looks of `_await_reuse_after_conflict` are a call that
may answer as long as it has not given up, and giving up while the winner is
still about to create its row is a slow winner, counted with the failures; a
failed and a cancelled row are alike; the gates of `maybe_prefetch` are a
nondeterministic choice; other handles are not represented, so any sweep may
find this one over the cap. `EvictMarksRow` is one step (the row it marks is
ready, which only a sweep changes).

### ResultCache

`ResultHandle` looks inside one handle; `ResultCache` puts several of them, in
several workspaces, under one cap, with a payload update in one step. `status`,
`key`, `guessed` and `pin` are the parts of a payload the sweep, the gates and
`pin_result` decide by; `jobs` and `guessRows` are the live rows not yet begun,
of users and of prefetches; `blobs` holds storage keys, which two `cube_`
handles of one transform share.

A request or `rematerialize` that finds a result evicted, or given up by its
newest job, only reads that (`Request`, `Rematerialize` add it to `found`); the
payload is reset and the row created later (`Reset`), whatever has become of the
result since, and by as many calls as read it. Rows fail or are cancelled before
or while they are worked on (`JobDies`, `TaskDies`).

`slot[s]` is a worker slot: `Fetch` begins a row, `Store` puts its blob,
`Resolve` writes the payload and the row (a row cancelled meanwhile ends there),
then the sweep. The orphan pass, when it is due, is two steps, as storage and
database are two systems: `ReadKeys` reads the keys of every payload, `Reclaim`
deletes what storage lists besides them. `Sweep` takes the snapshot (candidates,
their keys, who of them was pinned or speculative, the queue, the active
workspaces), each `Evict` deletes one result by that snapshot whatever became of
it since, `Gate` tries the prefetch gates in their order, and `Prefetch` plans
and inserts. So a pin, a request, a replay or the other slot's sweep can come
between any two of these. A worker death cuts a sweep short and starts another
at boot.

`pinning` holds the `pin_result` calls between check and write. A pin is "yes"
if, as it was written, the bytes were there and no sweep or orphan pass was on
its way to them; else it is "loose", and it becomes loose when a call or job
that was on its way rewrites the payload. The code does not tell the two apart:
the distinction is there for the properties. `guesses` counts the speculative
rows, as the quota's query does; `finished` and `overlapped` are history for the
properties, and `used` counts against the three bounds.

Data abstracted: bytes to small numbers, recency and the score to any order
within a class (no property depends on it), a day to the whole behaviour (so
the quota is never renewed), windows to `NextWindow`, and age to `Settled`.

### GranuleFetch and Bundle

One call of `materialize`. `task[i]` follows a granule: waiting for the
limiter's lock and a token, waiting for a download slot, its request, its body.
A slot is taken for one attempt (`Streaming`), which is what the code's
`async with` inside the retry loop does, so a backoff holds none. A body opens
the file and only `Finish` completes it. The first error makes the group cancel
the others one after another, and `GroupEnds` waits for all. `Zip` reads the
files in the order asked, and a thread copies the archive into storage in two
steps, during which arq's timeout may cancel the call and leave the thread
running. `OtherTakes` is the rest of the process at the same limiter.
`Bundle` says what a caller may rely on. `Promise` is its instance under the
refinement mapping that makes `answer` from `phase` (`CallAnswer`); `Delivers`
is its specification.

### Planning and Retrieval

`Planning` has one operator per function of the planner. A catalogue (UMM-V)
and a granule's tree (DMR) are sequences of entries with a name (group, leaf,
leading slash), a mark for what makes a variable a coordinate, and dimensions;
name matching, groups, ambiguity and "unknown" are kept, characters are not.
Degrees are integers. A constraint is a function from the projected names to
their brackets.

`Retrieval` composes it with the fetch. `Plan` is the whole tool call: refusal
(bad token, AppEEARS product not listed, a name that makes the planner raise or
that validation rejects), route with its trace, plan, signature with its
identity scope, and the row. `row` is what `request_spec` keeps of all that;
each worker task rebuilds its plan from it, as the code does, so nothing the
plan saw can be used later unless the row carries it. In between,
`ServicesChange`, `TokenExpires` and `OtherIsRefused` change the world.
`SubmitHarmony` contains the second match and the OPeNDAP fallback. `upstream` is
the provider's job at the row's URL: `UpstreamEnds` gives it one of the ends the
provider has (AppEEARS's "expired" among them), and every poll reads what there
is. `PollMoves` takes the row on, `PollFails` ends it, and `PollAgain` leaves it
to the next poll: the job still runs, or has expired (which `_apply_poll` reads
as still running), or the provider is out of reach. `PollOPeNDAP` needs no call.
`Asks` enumerates what one request as one identity can come to, with the calls
it makes (`calls` records where, as whom, and whether refused); AppEEARS's
renewed session repeats the request with any of its answers, or the login itself
fails.

Whom a task calls NASA as is read from the row each time: `Identity` is the
`cred` column if it holds a token and the server's own identity if not.
`SetState` erases the column with a terminal state, and `CancelUndone` is the
cancel that a task's late write takes back (run `identity`): the row goes on
without its credential. A task is one step, because what two tasks of a row do
to each other is `JobLifecycle`'s subject; the fetch is `GranuleFetch`, step by
step. What a cancel then asks of the provider is also `JobLifecycle`'s, and is
not in `calls`.

`MCRetrieval` gives eight collections after the repository's own tests and
quirk ledger: a flat grid with three granules (two of one file name), the same
with one granule and services that change, one stored north to south, one
without an endpoint, one whose archive paths the endpoint flattens, a swath
whose groups share a leaf, beams known only by their DMR, and one whose DMR
cannot be read; with 23 requests over them (a box inside, a box across the
antimeridian, no box, points, unknown and ambiguous names, two identities, the
server's own, a malformed token, a format no matching service has). Its
assumption `WorldsAreTrue` says that every one of these collections meets the
hypotheses some theorems make of a collection (section 4).

## 3. What the runs check

| run | result | instance | what it shows |
|---|---|---|---|
| `safety` | pass | 1 row of each of 4 requests, 2 slots, 2 upstream jobs, 1 delay | `TypeOK`, `CredentialErased`, `NeverUnwatched`, `DeliveredWhenReady`, `ProducedWhenReady` through every order of tasks, cancel, eviction, stalled sweep and transient faults (2.1 M states) |
| `liveness` | pass, under `FairSpec` | 1 row, 2 slots, 1 failure | `Settles`, `WorkDrains`: one worker death, queue loss, dead task or cancelled poll anywhere, and the row still ends and leaves no task (141 k states) |
| `reuse` | pass | 3 calls of any tool, 2 rows, 1 sweep, 1 failure or 1 payload commit that undoes another, 1 eviction | `TypeOK`, `OneJobPerSignature`, `AskedIsKept`, `PendingIsOwned` (2.2 M states) |
| `cache` | pass | workspace A with 3 windows in a chain and a transform, workspace B with one window, 2 slots, cap 4 of sizes 2 and 1, 2 requested rows, 1 upset (a failing or cancelled row, a worker death, an orphan pass), 2 pins | `TypeOK`, `PinHolds`, `PinsBounded`, `NeverChains`, `QuotaKept`, `GuessesGoFirst`, `FairEviction`, `SweepFits`: two sweeps, an orphan pass, pins, stale resets, promotions and prefetches in every order (1 M states) |
| `retrieval` | pass, under fairness | 23 requests on 8 collections, 3 granules, 2 download slots, 2 attempts, bucket of 1, 1 poll that finds nothing new | services (`PinnedServiceSuffices`, `TraceExplains`), names (`NeverGuesses`, `ProjectsReal`), slabs (`BracketPerDimension`, `SlabsCover`), identity (`RunsAsCaller`, `SignatureDecides`), record (`RecordTrue`), `Delivers` (the refinement of `Bundle`) and `Answered` (127 k states) |
| `once` | violated | 1 row, 2 slots, 1 failure | `SubmittedByOne`: the worker dies with the row's `submit_job` still queued; `startup` resumes the row beside it, and both copies are inside `provider.submit` at once |
| `upstream` | violated | 1 row, 1 slot | `NothingLeftUpstream`: a cancel during `provider.submit` finds no URL, and the upstream job runs on |
| `expired` | violated, under `FairSpec` | 1 AppEEARS row | `ExpiryIsTerminal`: an expired AppEEARS task is polled for ever |
| `identity` | violated | 1 row, 1 slot | `IdentityKept`: a cancel overwritten by `submit_job`'s commit leaves a live row with no credential, polled as the service account |
| `duplicate` | violated | 3 requests | `OneLiveJob`: two requests give up on the same dead job and both create one |
| `stranded` | violated | 2 calls, 1 failure, 1 eviction | `NeverUnretryable`: a server death between a replay's reset of the handle and its new row leaves "pending" for ever |
| `debris` | violated | 1 request, 1 sweep | `ReadyResolves`: the orphan pass deletes a blob stored and not yet referenced |

Each violated run checks a sentence of the code's own comments; `PROJECT.json`
quotes it under `findings`.

Bounds. One row is enough for `JobLifecycle`: rows share nothing but slots, and
the proofs cover any number. Two slots give duplicate tasks of one row running
side by side, which is what redelivery and resumption produce. `MaxSubmits` 2
lets a row be submitted twice. `MaxDelays` bounds how often a row looks stalled
while it is busy and how often a poll meets a transient fault; `MaxFaults` how
many processes die. In `reuse` three calls make a winner, a loser and a third
party (a prefetch, a replay, a pin); two rows a first job and its replay; one
eviction is needed for any replay. A lost payload update takes the place of the
one failure: `OneJobPerSignature` holds through it, the other two properties do
not and say so in their premise (section 5 has the trace). In `cache` the cap
holds two results, so the third brings an eviction with a choice to make, and
both workspaces can be over their share; the pin ceiling holds one of the two
results that may be pinned; with two slots sweeps and gates overlap, and the one
upset can be an orphan pass beside the other slot's store, a death in mid-sweep,
or a job that fails behind its handle. Its transform has a key of its own:
shared keys are in the model and in the theorems, which hold for any, and are
the exception in `PinHolds`. In `retrieval` there are fewer slots than granules
and two attempts, so a granule waits for a slot that another's backoff gives up;
two granules of one file name tell whether their files are kept apart; services
change at most once, before submission, the only other time they are matched;
`MaxPolls` counts only the polls that leave everything as it was. CHECK_DEADLOCK
is off because the system may stop: rows settle, calls are finite.

Fairness (`FairSpec`), and why the code justifies it: a slot that has begun a
task goes on with it (asyncio, and arq's `job_timeout` ends a stuck one); a
queued task is eventually run if slots keep becoming free (arq takes tasks in
order of their due time; strong fairness, because a slot is busy and free in
turn); the worker is restarted and runs `startup` (compose restarts it); the
stalled sweep is a cron job; a reclaim pass in progress and a cancel in
progress go on; a row nobody works on passes the stall horizon; and an upstream
job settles. Nothing is assumed of users, evictions or failures.
`Retrieval`'s `Spec` is weaker: the worker takes a queued task and is told of a
job that has ended (`Work`), the provider ends its jobs one way or another
(`UpstreamEnds`), the event loop runs a coroutine that can run (`FetchWork`, as
one set of steps: no single granule is promised its turn), and the bucket
refills. All four are weak fairness, and no poll is promised to fail: a row ends
because its job does, or not at all, which is why `Answered` excepts the
AppEEARS job that expires. With the retries bounded that is enough: every step
of a fetch brings some task nearer its end, and nothing a backoff or a cancelled
task keeps can stop the others.

## 4. What is proved

For any rows, slots, requests and bounds (`JobLifecycleProofs`), assuming only
that the bounds are naturals, that `Slots` is finite, that `NoJob` is not a row
and that requests are specs whose URLs fit their provider:

- `TypeCorrect`: `Spec => []TypeOK`.
- `CredentialSafe`: `Spec => []CredentialErased`, inductive with the types: a
  commit clears the credential of whatever state it writes.
- `DeliverySafe`: `Spec => []DeliveredWhenReady`. `DeliveryInv` adds that a
  slot about to mark the row has resolved the handle.
- `NothingForgotten`: `Spec => []NeverUnwatched`. It needs `SessionInv` (what a
  slot will do next agrees with what it loaded) and `AttendedInv` (without
  faults, the task a row's state is owed is queued, running, or about to be
  enqueued by the slot that commits the state).
- `MadeFromItsOwn`: `Spec => []ProducedWhenReady`. `ProductionInv`: as long as
  no worker died and no pass took a row for stalled, a row has at most one task,
  queued or in a slot (`OneTask`); what that slot has read of the row is still
  so, and what it is about to write fits (`SlotDue`). The property alone is not
  inductive: the URL, the spec and the upstream status that make it true are
  read in one session and used in another, so nothing but the one task may
  change them in between. A cancel or an eviction writes only the state, and no
  state the property speaks of. `AttendedInv` is needed for `Undisturbed`: a
  live row always has its task, so it can only pass the stall horizon while busy,
  which is what `stalls` counts.

For any calls, tools, rows, sweeps and bounds (`ResultHandleProofs`), assuming
only that the bounds are naturals and `Kinds` are tools:

- `TypeCorrect`: `Spec => []TypeOK`.
- `AskedStaysKept`: `Spec => []AskedIsKept`, whose premise is that no payload
  commit undid another. `PresentInv`: whoever works on the
  handle has one. `KeptInv`: while no commit undid another, a request past its
  promotion has a handle that is not speculative. The promotion that finds
  nothing to change needs its own conjunct: what it loaded was not speculative,
  so the handle is not.
- `PendingStaysOwned`: `Spec => []PendingIsOwned`. `OwnedInv`: if the newest row
  is done with a handle that is "pending", a call that reset it is about to
  create the next row. The delicate case is a row that resolves to what it had
  loaded as resolved already, and so writes nothing.
- `SignatureHasOneJob`: `Spec => []OneJobPerSignature`. `FreshInv`: before the
  first eviction nobody has read "expired". `SingleInv`: at most one call is
  about to create a row, and one is exactly while the handle has none.

For any results, workspaces, sizes, limits and finitely many slots
(`ResultCacheProofs`), assuming that limits and sizes are naturals, that a
predicted window is an `obs_` of the same workspace, and that an `obs_` shares
its key with nothing:

- `TypeCorrect`: `Spec => []TypeOK`.
- `PinsHold`: `Spec => []PinHolds`. A pin written on a safe result is in no
  sweep's queue, because queues are made from unpinned results and only shrink,
  so no eviction touches it. For the orphan pass the invariant needs a second
  half: every pass under way has read the pinned result's key (`Spared`). It
  does so as long as the payload names that key, and a call or job that rewrites
  the payload makes the pin loose; so the blob stays, if the key is the
  result's own (`KeyInv`).
- `QuotaIsKept`: `Spec => []QuotaKept`; `GuessesNeverChain`:
  `Spec => []NeverChains`. Both count tickets: a slot of a requested result
  that has not yet planned may still issue one guess, so guesses plus tickets
  never exceed the requested materializations, and, where gates did not
  overlap, guesses plus slots in "plan" never exceed the budget. The first needs
  that a guess's own slot never reaches "plan".
- `GuessesEvictFirst`: `Spec => GuessesGoFirst`, an action property, from an
  invariant that relates a sweep's queue to its snapshot: a speculative
  candidate still held and neither pinned nor the sweep's own is queued.
- `EvictionIsFair`: `Spec => FairEviction`; `SweepsFit`: `Spec => SweepFits`,
  action properties from the same relation of queue and snapshot: whatever a
  sweep still holds is queued, pinned or its own, and what the other slots evict
  only leaves less than it counts.
- `PinsFitCeiling`: `Spec => []PinsBounded`, about the pins that are not loose.
  `CeilingInv` counts a pin from its check, not from its write: unless checks
  overlapped, at most one pin of a workspace is about to be written, and it and
  the pins together fit. What `pin_result` counted then is still ready with its
  bytes there, by `PinHolds`; a loose pin may have been evicted at the check and
  replayed since, and the ceiling does not hold of it (section 5).

  The last three need sums over sets that grow and shrink. The library's
  theorems about folds take operators as parameters and cannot be used, so
  `Sums` shows that the recursion in the library's definition has one solution,
  that adding or removing an element adds or subtracts its size, and that a
  subset's sum is no larger, each from the smallest set that would be a
  counterexample (`LeastElement`).

For any URLs, file names, numbers of granules, slots, attempts and tokens
(`GranuleFetchProofs`):

- `FetchTypeCorrect`: `FetchSpec => []FetchTypeOK`.
- `FetchKeepsItsPromise`: `FetchSpec => Delivers`, every step of the fetch is a
  step of `Bundle` or a stutter. The types are not enough: that the blob is
  right as the call returns needs that a done task's file is whole and of the
  granule at its position (`FilesWhole`, for which no two positions share a path),
  that a failed task leaves an error (`FailuresKnown`), so the group can only end
  without one when all are done (`PhaseInv`: past the fetch the files are those
  of all granules, and the archive is the bundle), and that a blob still being
  copied holds the archive (`BlobInv`); a delivered one changes no more because
  a thread still copying would have left it incomplete. `TriesLeft` bounds the
  attempts of a task that may still make one.

For any requests, collections, capabilities and order of answers
(`RetrievalProofs`), assuming only that cases are of the declared shape (a tool
call's fields, integer boxes, catalogues and trees of entries) and that
`retrieve_data` takes no variables (`CasesAssumption`):

- `RetrievalTypeCorrect`: `Spec => []TypeOK`.
- `RetrievalDelivers`: `Spec => Delivers`. Every step of a retrieval is a step
  of its fetch or leaves it alone, so the refinement of `Bundle` carries over.
- `HarmonyServiceSuffices`, `RecordIsTrue`, `CallsAreTheCallers`, `TraceIsRight`,
  `NoCoordinateIsGuessed`, `SignatureIsEnough`: the invariants
  `PinnedServiceSuffices`, `RecordTrue`, `RunsAsCaller`, `TraceExplains`,
  `NeverGuesses` and `SignatureDecides`, all from `RetrievalInv`. Its heart is
  `RowInv`: at every stage the row is what the planner made of the request from
  the capabilities it saw, except that the provider may have become OPeNDAP.
  `SentInv` says the same of what was sent. `CredInv` follows the credential
  column: until a cancel is undone, the row of a live job holds the caller's.
  With it `CallsInv` shows whom each call was made as, and that a credential not
  refused is the condition for going on. And `FetchesRow` says that the granules
  being fetched are the row's; without it `RecordTrue` cannot be carried over
  the end of a fetch.
- `ProjectedIsReal`: `Spec => [](NamesTrue(world) => ProjectsReal)`.
- `BracketsMatch` and `SlabsCoverTheBox`:
  `Spec => [](CatalogueTrue(world) /\ GridTrue(world) => BracketPerDimension)`,
  and the same for `SlabsCover`. The planner reads an extent, a size and a list
  of dimensions; that the cells it selects contain those the box touches is
  shown from `IndexRange`'s floor, ceiling and clamps, for any step and box.

The hypotheses of the last three are about NASA's data and not about the code,
and the code relies on each: that UMM-V's bare names are at the granule's root
(`NamesTrue`; only a grouped name is reconciled with the tree), that its
dimensions are the granule's, and that a grid's coordinate has one dimension of
its own name (`CatalogueTrue`), and that the axis is regular, of the published
extent and size (`GridTrue`). They hold of every collection the `retrieval` run
checks, which TLC evaluates (`WorldsAreTrue`); where they fail the code has no
way to know, which is why they are hypotheses of these theorems and not of the
model.

Only model-checked: `Settles`, `WorkDrains` and `Answered`, since liveness under
fairness is beyond the prover; and the seven violations, which are
counterexamples. Every invariant and every action property of a passing run has
a theorem.

## 5. Not modelled

- Discovery, coverage and area tools (requests to CMR and KMS shaped into
  answers; no state, nothing decided between two steps), previews and the array
  computations of transforms (numeric libraries; a transform's blob and handle
  are in `ResultCache`), file formats.
- Provenance: edges and events are only appended, best-effort, and read by one
  recursive query; no guard and nothing another part decides by.
- Server, configuration and engine set-up: no state of their own.
- Parsing: of tokens, of Harmony's capability answer, of DMR XML and of the time
  range's grammar. Each is taken by its outcome: refused or not, an entry and
  its mark. Encryption of a stored token likewise; redaction is text.
- The direct S3 path: no tool's needs reach it.
- Harmony's and AppEEARS's downloads are one step; OPeNDAP's is the one with
  tasks of its own.

### Divergences and limits no run shows

Met while modelling. Each is in the model as the code has it, or lies in a part
taken by its outcome. None has a run of its own: a property of a passing run
excepts it by name, or the code's comment already admits it.

Between two steps:

- `workspace/store.py:202` against `tools/retrieval.py:1198`, which promotes "for
  **every** hit shape, including a match that is still in flight": the promotion
  is lost if the prefetch's own job loaded the payload before it and resolves the
  handle after it, and the answered result goes on as a guess. `AskedIsKept`
  excepts payload commits that undo another; without that premise the `reuse`
  run ends in exactly this trace, and the same lost update can leave a result
  pending (`PendingIsOwned`).
- `jobs/worker.py:653`: the fallback rewrites the provider of a row whatever
  state it is in. A duplicate `submit_job` that fails late can so turn a row that
  was already submitted to Harmony into one polled and fetched as OPeNDAP, and
  its Harmony job is left behind. `ProducedWhenReady` speaks of rows no task of
  which was delivered twice.
- `tools/retrieval.py:1130`: the verdict "expired" is read before the promotion
  and the job lookup; a replay that acts on it resets the payload of a result
  resolved, or resolved and pinned, in between, and makes it once more. A pin so
  overwritten is "loose", and `PinHolds` excepts it.
- `tools/retention.py:133`: two overlapping `pin_result` calls may exceed the
  ceiling together, and a pinned result that is evicted at the check (its pin was
  written too late to stop a sweep) is not counted and comes back with its
  replay. `PinsBounded` excepts both.
- `jobs/eviction.py:305`: a pin committed once a sweep is on its way does not stop
  that sweep, and the orphan pass takes a blob stored and not yet referenced
  (run `debris`). `PinHolds` speaks of pins written before.
- `jobs/eviction.py:113`: the prefetch's fair-share gate counts only payloads
  that carry a size, which `cube_` handles do not; the sweep counts them.
- `jobs/prefetch.py:240`: the gates are checked one after another and the row
  created after the planning, so two slots may pass the quota together.
  `QuotaKept` excepts the workspace in which two did.
- `tools/transform.py:362`: identical transforms share one content-addressed blob,
  and the eviction of one takes the bytes of the other. `PinHolds` excepts
  results that share a blob.

In the planner and the providers:

- `providers/identity.py:474`: a refusal met while streaming has no text to
  read, so a EULA refusal of an OPeNDAP fetch is never told from any other and
  never flags the collection (`FetchEnds`).
- `providers/opendap/_serialization.py:189`: a box across the antimeridian
  leaves out the longitude bracket while the other dimensions keep theirs.
  `BracketPerDimension` and `SlabsCover` leave such boxes out; the run has one,
  and finds it if they do not.
- `providers/opendap/_planning.py:212`: the axis is made from an extent, which
  tells no direction, so a grid stored north to south gets a rising axis.
  `SlabsCover` leaves such grids out; without that guard the run finds it.
- `providers/opendap/_planning.py:105`: UMM-V entries are found by leaf alone, so a
  grouped variable may get the dimensions of a namesake.
- `providers/opendap/_planning.py:427`: only data variables are reconciled with
  the granule's tree; coordinates keep their catalogue paths. `ProjectsReal`
  speaks of data variables, and assumes that a catalogue of bare names is
  served flat, as the planner does.
- `providers/opendap/_planning.py:523`: more granules than the limit are dropped
  without a word.
- `providers/ratelimit.py:3`: retries of a granule, AppEEARS's second request and
  Harmony's downloads do not pass the limiter.
- `jobs/prefetch.py:297` against `tools/retrieval.py:787`: a prefetch signs the
  resolved variables, a request the raw ones, so a prefetched result may be missed.
- `providers/base.py:114`: one naive and one aware end of a time range cannot be
  compared.
- `jobs/eviction.py:296`: the comment's promise about a heavy week holds unless
  the heavier workspace has nothing left to give, the exception in `FairEviction`.
- A copy thread whose call was cancelled may complete the blob of a failed job
  (`CopyEnds` after `Timeout`); `Bundle` promises nothing of a refused call's
  storage, and the orphan pass removes it.

## 6. Plan

Done, in this order: `JobState`, `JobLifecycle`, its proofs, `ResultHandle`,
its proofs, `ResultCache`, its proofs, `Bundle` and `GranuleFetch` with the
refinement proof, `Planning`, `Retrieval`, and their proofs. Next:

1. An abstract specification of a job as its caller sees it (asked, working,
   then one of ready, failed, cancelled, expired), refined by `JobLifecycle`
   away from the lost updates that `identity` shows, and proved from
   `ProductionInv` and `AttendedInv`.
2. Harmony's download of several outputs, in `GranuleFetch`'s style.
3. The time range's grammar and the windows of `predict_next` as pure
   operators, and provenance's ancestry walk.
