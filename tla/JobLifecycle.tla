---------------------------- MODULE JobLifecycle ----------------------------
(***************************************************************************)
(* The durable retrieval job: its Postgres row, the arq queue that carries *)
(* its next step, the worker slots that run submit_job / poll_job /        *)
(* materialize_job, the two reclaim passes, the server's cancel_retrieval, *)
(* and the eviction that expires a finished job.                           *)
(*                                                                         *)
(* A state change in the code is "load the row, check the edge, commit":   *)
(* the load takes no row lock, and the commit writes only the columns that *)
(* the session changed.  So every change here is two steps, a read that    *)
(* keeps what it saw and a later commit, and other actors may run between  *)
(* them.  Provider calls, the queue and the handle store are separate      *)
(* steps for the same reason: the worker can die between any two of them.  *)
(***************************************************************************)
EXTENDS Naturals, FiniteSets, JobState

CONSTANTS
    Jobs,        \* job rows
    Slots,       \* arq's concurrent task slots
    NoJob,       \* the job of an idle slot
    Requests,    \* the durable specs a row may be created with
    MaxSubmits,  \* bound: upstream jobs a row may create
    MaxFaults,   \* bound: worker deaths, queue losses and tasks that die
    MaxDelays    \* bound: rows that look stalled while work is in hand, and
                 \* transient faults a poll meets, together

ASSUME JobsAssumption  == NoJob \notin Jobs
ASSUME SlotsAssumption == IsFiniteSet(Slots)

\* request_spec: the planned provider, whether OPeNDAP URLs were discovered
\* for it, whether from_jsonb accepts it, and whether the row was created
\* with the caller's own credential.
Providers == {"harmony", "appeears", "opendap"}
Specs == [provider: Providers, urls: BOOLEAN, valid: BOOLEAN, user: BOOLEAN]

\* Point samples have no URLs; a direct OPeNDAP plan is made of them.
ASSUME RequestsAssumption ==
    /\ Requests \subseteq Specs
    /\ \A q \in Requests : /\ q.provider = "appeears" => ~q.urls
                           /\ q.provider = "opendap" => q.urls
ASSUME BoundsAssumption ==
    MaxSubmits \in Nat /\ MaxFaults \in Nat /\ MaxDelays \in Nat

VARIABLES
    (* the jobs table, one function per column that control depends on *)
    state,    \* jobs.state
    spec,     \* jobs.request_spec: provider, fallback urls, validity, owner
    url,      \* jobs.provider_job_url
    cred,     \* jobs.credential_encrypted is not NULL
    quiet,    \* coalesce(last_polled_at, updated_at) is before the horizon
    (* what the row's work produces *)
    handle,   \* status of the row's obs_ handle
    up,       \* the provider's side: upstream jobs created for the row
    (* the arq queue, in Redis *)
    fresh,    \* number of queued tasks under a fresh id
    resumed,  \* <<job, task>> queued under the deterministic resume id
    (* processes *)
    worker,   \* the worker process
    task,     \* what each slot is doing
    reclaim,  \* the reclaim pass in progress
    cancel,   \* cancel_retrieval in progress, per job
    evict,    \* eviction of the job's handle in progress
    (* how much of each bound is spent *)
    faults, stalls, blips

rowVars   == <<state, spec, url, cred, quiet>>
queueVars == <<fresh, resumed>>
procVars  == <<worker, reclaim, cancel, evict>>
spent     == <<faults, stalls, blips>>
vars == <<state, spec, url, cred, quiet, handle, up, fresh, resumed,
          worker, task, reclaim, cancel, evict, faults, stalls, blips>>

-----------------------------------------------------------------------------
(* Types *)

Tasks == {"submit_job", "poll_job", "materialize_job"}

\* provider_job_url: none yet, an upstream job's status URL (1..MaxSubmits),
\* or the newline-joined constraint URLs that OPeNDAP's submit builds.
NoUrl   == 0
Refs    == 1..MaxSubmits
DapUrls == MaxSubmits + 1
Urls    == 0..(MaxSubmits + 1)

UpStatus == {"unused", "active", "done", "error", "canceled", "expired"}

\* A slot is idle, or runs a task: where it is in it, what the task's first
\* session read (prov, ref, ident), and what its open session is about to write.
PCs == {"call", "store", "mark", "write", "next"}
Busy == [pc: PCs, kind: Tasks, job: Jobs, resume: BOOLEAN,
         prov: Providers \cup {"none"}, ref: Urls, ident: BOOLEAN,
         to: JobStates \cup {"none"}, then: Tasks \cup {"none"}]

TaskAt(pc, j, k, r) ==
    [pc |-> pc, kind |-> k, job |-> j, resume |-> r, prov |-> "none",
     ref |-> NoUrl, ident |-> FALSE, to |-> "none", then |-> "none"]

Idle == TaskAt("idle", NoJob, "none", FALSE)

NotCancelling == [pc |-> "idle", ref |-> NoUrl]

TypeOK ==
    /\ state \in [Jobs -> JobStates]
    /\ spec \in [Jobs -> Specs]
    /\ url \in [Jobs -> Urls]
    /\ cred \in [Jobs -> BOOLEAN]
    /\ quiet \in [Jobs -> BOOLEAN]
    /\ handle \in [Jobs -> {"pending", "ready", "expired"}]
    /\ up \in [Jobs -> [Refs -> UpStatus]]
    /\ fresh \in [Jobs -> [Tasks -> Nat]]
    /\ resumed \subseteq Jobs \X Tasks
    /\ worker \in {"up", "booting", "down"}
    /\ task \in [Slots -> {Idle} \cup Busy]
    /\ reclaim \in [pc: {"idle", "commit", "resume"},
                    plan: [Jobs -> NonTerminal \cup {"skip", "failed"}]]
    /\ cancel \in [Jobs -> [pc: {"idle", "write", "upstream"}, ref: Urls]]
    /\ evict \in [Jobs -> {"idle", "flipped", "write"}]
    /\ faults \in Nat /\ stalls \in Nat /\ blips \in Nat

-----------------------------------------------------------------------------
(* The tables the worker is driven by *)

\* _RESUME_TASK: the task that carries a row on from each non-terminal state.
\* The same table says which task the row is owed.
RESUME_TASK == [s \in NonTerminal |->
    CASE s = "pending"       -> "submit_job"
      [] s = "materializing" -> "materialize_job"
      [] OTHER               -> "poll_job"]

\* The state guard each task opens with.
Guard == [k \in Tasks |->
    CASE k = "submit_job" -> {"pending"}
      [] k = "poll_job"   -> {"submitted", "running"}
      [] OTHER            -> {"materializing"}]

\* The providers' status maps: the job states an upstream status is read as.
\* A status neither map names is "running".
HarmonyStatus(status) ==
    CASE status = "active"   -> {"submitted", "running"}
      [] status = "done"     -> {"ready"}
      [] status = "error"    -> {"failed"}
      [] status = "canceled" -> {"cancelled"}
      [] OTHER               -> {"running"}

\* A mutant of AppEEARSStatus: an expired task is taken for a finished one.
AppEEARSExpiredIsDone(status) ==
    IF status = "expired" THEN {"ready"} ELSE HarmonyStatus(status)

AppEEARSStatus(status) ==
    IF status = "expired" THEN {"expired"} ELSE HarmonyStatus(status)

\* What provider.poll may report.  OPeNDAP is synchronous; a provider handed
\* a URL that is not its own raises.
PollReports(prov, ref, j) ==
    IF prov = "opendap" THEN {"ready"}
    ELSE IF ref \notin Refs THEN {}
    ELSE IF prov = "harmony" THEN HarmonyStatus(up[j][ref])
    ELSE AppEEARSStatus(up[j][ref])

\* A mutant of PollTarget: a failed upstream job taken for a running one.
PollTargetIgnoresFailure(current, report) ==
    IF report = "cancelled" THEN report
    ELSE IF report = "ready" THEN "materializing"
    ELSE IF current = "submitted" /\ report # "submitted" THEN "running"
    ELSE current

\* _apply_poll: the state a report moves the row to.  "submitted" -> "ready"
\* walks through "running" in one transaction; every other report is either
\* a verdict or read as "still running".
PollTarget(current, report) ==
    IF report \in {"failed", "cancelled"} THEN report
    ELSE IF report = "ready" THEN "materializing"
    ELSE IF current = "submitted" /\ report # "submitted" THEN "running"
    ELSE current

\* ... whether set_state accepts it from the state the row is in ...
PollLegal(current, report) ==
    LET to == PollTarget(current, report) IN
        \/ to = current /\ report # "ready"
        \/ Legal(current, to)
        \/ current = "submitted" /\ to = "materializing"

\* Mutants of PollNext: a job still queued upstream is not polled again; the
\* new state is returned in place of the task.
PollNextForgetsQueued(report) ==
    CASE report = "ready"   -> "materialize_job"
      [] report = "running" -> "poll_job"
      [] OTHER              -> "none"

PollNextReturnsState(report) ==
    CASE report = "ready"                   -> "materializing"
      [] report \in {"failed", "cancelled"} -> "none"
      [] OTHER                              -> "poll_job"

\* ... and the task it leaves to enqueue.
PollNext(report) ==
    CASE report = "ready"                   -> "materialize_job"
      [] report \in {"failed", "cancelled"} -> "none"
      [] OTHER                              -> "poll_job"

-----------------------------------------------------------------------------
(* The arq queue (external): at-least-once, unordered, resume ids deduped *)

Queued(j, k) == fresh[j][k] > 0 \/ <<j, k>> \in resumed

\* A resume id is taken while the task is queued or running under it.
ResumeLive(j, k) ==
    \/ <<j, k>> \in resumed
    \/ \E s \in Slots : task[s].resume /\ task[s].job = j /\ task[s].kind = k

EnqueueFresh(j, k) ==
    /\ fresh' = [fresh EXCEPT ![j][k] = @ + 1]
    /\ UNCHANGED resumed

Dequeue(j, k, r) ==
    IF r THEN /\ <<j, k>> \in resumed
              /\ resumed' = resumed \ {<<j, k>>}
              /\ UNCHANGED fresh
         ELSE /\ fresh[j][k] > 0
              /\ fresh' = [fresh EXCEPT ![j][k] = @ - 1]
              /\ UNCHANGED resumed

\* The task a slot is running, or is about to enqueue, for row j.
Carries(s, j, k) ==
    /\ task[s].job = j
    /\ IF task[s].pc = "next" THEN task[s].then = k ELSE task[s].kind = k

Held(j, k) == Queued(j, k) \/ \E s \in Slots : Carries(s, j, k)

\* Something queued or running will take row j on from the state it is in.
Watched(j) == state[j] \in NonTerminal /\ Held(j, RESUME_TASK[state[j]])

-----------------------------------------------------------------------------
(* A row as create_job leaves it, its submit_job queued by the tool *)

Init ==
    /\ state = [j \in Jobs |-> "pending"]
    /\ spec \in [Jobs -> Requests]
    /\ url = [j \in Jobs |-> NoUrl]
    /\ cred = [j \in Jobs |-> spec[j].user]
    /\ quiet = [j \in Jobs |-> FALSE]
    /\ handle = [j \in Jobs |-> "pending"]
    /\ up = [j \in Jobs |-> [u \in Refs |-> "unused"]]
    /\ fresh = [j \in Jobs |-> [k \in Tasks |-> IF k = "submit_job" THEN 1 ELSE 0]]
    /\ resumed = {}
    /\ worker = "up"
    /\ task = [s \in Slots |-> Idle]
    /\ reclaim = [pc |-> "idle", plan |-> [j \in Jobs |-> "skip"]]
    /\ cancel = [j \in Jobs |-> NotCancelling]
    /\ evict = [j \in Jobs |-> "idle"]
    /\ faults = 0 /\ stalls = 0 /\ blips = 0

-----------------------------------------------------------------------------
(* Sessions: open on a row, commit what changed *)

At(s, pc) == TaskAt(pc, task[s].job, task[s].kind, task[s].resume)

\* The slot's session has loaded its row in the state it is in now and has
\* passed assert_legal for `to`; `then` is enqueued after the commit.  The
\* ORM writes the state column only if it changed since the load, so a write
\* that leaves the state alone is remembered as "none".
OpenWrite(s, to, ref, then) ==
    task' = [task EXCEPT ![s] = [At(s, "write") EXCEPT !.ref = ref, !.then = then,
                    !.to = IF to = state[task[s].job] THEN "none" ELSE to]]

\* The slot still has `then` to enqueue.
HandOff(s, then) == task' = [task EXCEPT ![s] = [At(s, "next") EXCEPT !.then = then]]

\* The task returned or raised: arq drops it and frees its id.
Release(s) == task' = [task EXCEPT ![s] = Idle]

\* Mutants of CredentialAfter: the cancelling, and the failing, transition
\* keeps the token.
CredentialKeptOnCancel(to, stored) == stored /\ to \notin {"ready", "failed", "expired"}
CredentialKeptOnFailure(to, stored) == stored /\ to \notin {"ready", "expired", "cancelled"}

\* set_state: a terminal state erases the stored credential.  The session
\* writes NULL only if it loaded a value, but nothing ever stores one again,
\* so a row whose credential was loaded as NULL still has none.
CredentialAfter(to, stored) == stored /\ to \notin TERMINAL_STATES

\* The UPDATE a commit sends: state only if it changed, provider_job_url only
\* at "submitted".  Any write is taken for a sign of life; on a row that was
\* polled only a poll is, which tells apart rows submitted twice.
CommitRow(j, to, ref) ==
    /\ state' = [state EXCEPT ![j] = IF to = "none" THEN @ ELSE to]
    /\ url' = [url EXCEPT ![j] = IF to = "submitted" THEN ref ELSE @]
    /\ cred' = [cred EXCEPT ![j] = CredentialAfter(to, @)]
    /\ quiet' = [quiet EXCEPT ![j] = FALSE]
    /\ UNCHANGED spec

-----------------------------------------------------------------------------
(* The lifecycle tasks *)

\* A free slot takes a task and its first session reads the row: the guard
\* sends it home, a malformed spec is failed, or the provider is called.
Start(s, j, k, r) ==
    /\ worker = "up"
    /\ task[s].pc = "idle"
    /\ Dequeue(j, k, r)
    /\ UNCHANGED <<rowVars, handle, up, procVars, spent>>

StartReturns(s, j, k, r) ==
    /\ Start(s, j, k, r)
    /\ state[j] \notin Guard[k]
    /\ UNCHANGED task

StartInvalid(s, j, k, r) ==
    /\ Start(s, j, k, r)
    /\ state[j] \in Guard[k]
    /\ ~spec[j].valid
    /\ task' = [task EXCEPT ![s] = [TaskAt("write", j, k, r) EXCEPT !.to = "failed"]]

StartCalls(s, j, k, r) ==
    /\ Start(s, j, k, r)
    /\ state[j] \in Guard[k]
    /\ spec[j].valid
    /\ task' = [task EXCEPT ![s] = [TaskAt("call", j, k, r) EXCEPT
                    !.prov = spec[j].provider, !.ref = url[j], !.ident = cred[j]]]

Calling(s, k) == task[s].pc = "call" /\ task[s].kind = k

\* provider.submit: Harmony and AppEEARS create an upstream job, OPeNDAP only
\* builds the constraint URLs.
UpstreamAccepts(j, ref) ==
    /\ ref \in Refs
    /\ up[j][ref] = "unused"
    /\ \A earlier \in 1..(ref - 1) : up[j][earlier] # "unused"
    /\ up' = [up EXCEPT ![j][ref] = "active"]

OPeNDAPBuilds(ref) == ref = DapUrls /\ UNCHANGED up

\* A submit that fails, is cancelled or dies with its worker may have reached
\* the provider all the same: the upstream job's URL is then nobody's.
SubmitUnheard(s) ==
    \/ UNCHANGED up
    \/ /\ Calling(s, "submit_job") /\ task[s].prov # "opendap"
       /\ \E ref \in Refs : UpstreamAccepts(task[s].job, ref)

\* submit_job, the provider accepted: the row is loaded again for the edge to
\* "submitted".
SubmitAccepted(s) ==
    LET j == task[s].job IN
    /\ Calling(s, "submit_job")
    /\ \E ref \in Urls :
        /\ IF task[s].prov = "opendap" THEN OPeNDAPBuilds(ref) ELSE UpstreamAccepts(j, ref)
        /\ IF Legal(state[j], "submitted")
           THEN OpenWrite(s, "submitted", ref, "poll_job")
           ELSE Release(s)
    /\ UNCHANGED <<rowVars, handle, queueVars, procVars, spent>>

\* submit_job, Harmony failed for want of infrastructure (a cancelled submit
\* is classified so too) and the spec has OPeNDAP URLs: the spec's provider
\* is rewritten, whatever state the row is in by now, and submit_job queued.
SubmitFallsBack(s) ==
    LET j == task[s].job IN
    /\ Calling(s, "submit_job")
    /\ task[s].prov = "harmony" /\ spec[j].urls
    /\ spec' = [spec EXCEPT ![j].provider = "opendap"]
    /\ quiet' = [quiet EXCEPT ![j] = FALSE]
    /\ HandOff(s, "submit_job")
    /\ SubmitUnheard(s)
    /\ UNCHANGED <<state, url, cred, handle, queueVars, procVars, spent>>

\* poll_job, the provider answered: the row is loaded again, and a terminal
\* one ends the chain, as does an edge set_state refuses.
PollAnswered(s) ==
    LET j == task[s].job IN
    /\ Calling(s, "poll_job")
    /\ \E report \in PollReports(task[s].prov, task[s].ref, j) :
        IF state[j] \notin TERMINAL_STATES /\ PollLegal(state[j], report)
        THEN OpenWrite(s, PollTarget(state[j], report), NoUrl, PollNext(report))
        ELSE Release(s)
    /\ UNCHANGED <<rowVars, handle, up, queueVars, procVars, spent>>

\* poll_job, a dependency could not be reached, before or at the commit:
\* nothing is decided and a fresh poll_job is queued.
PollUnreachable(s) ==
    /\ task[s].kind = "poll_job" /\ task[s].pc \in {"call", "write"}
    /\ stalls + blips < MaxDelays /\ blips' = blips + 1
    /\ EnqueueFresh(task[s].job, "poll_job")
    /\ Release(s)
    /\ UNCHANGED <<rowVars, handle, up, procVars, faults, stalls>>

\* A mutant of MaterializeFetched: the row is marked with the handle pending.
MaterializeSkipsHandle(s) ==
    /\ Calling(s, "materialize_job")
    /\ task' = [task EXCEPT ![s] = At(s, "mark")]
    /\ UNCHANGED <<rowVars, handle, up, queueVars, procVars, spent>>

\* materialize_job: the provider's result is in storage ...
MaterializeFetched(s) ==
    /\ Calling(s, "materialize_job")
    /\ task' = [task EXCEPT ![s] = At(s, "store")]
    /\ UNCHANGED <<rowVars, handle, up, queueVars, procVars, spent>>

\* ... the obs_ handle is resolved to it ...
MaterializeResolves(s) ==
    /\ task[s].pc = "store"
    /\ handle' = [handle EXCEPT ![task[s].job] = "ready"]
    /\ task' = [task EXCEPT ![s] = At(s, "mark")]
    /\ UNCHANGED <<rowVars, up, queueVars, procVars, spent>>

\* ... and only then is the row loaded for the edge to "ready".
MaterializeMarks(s) ==
    /\ task[s].pc = "mark"
    /\ IF Legal(state[task[s].job], "ready")
       THEN OpenWrite(s, "ready", NoUrl, "none")
       ELSE Release(s)
    /\ UNCHANGED <<rowVars, handle, up, queueVars, procVars, spent>>

\* _fail_job, from any provider call or from _load_job_identity: the one path
\* to "failed".  A row already terminal makes the transition itself raise.
Fails(s) ==
    /\ task[s].pc = "call"
    /\ IF Legal(state[task[s].job], "failed")
       THEN OpenWrite(s, "failed", NoUrl, "none")
       ELSE Release(s)
    /\ SubmitUnheard(s)
    /\ UNCHANGED <<rowVars, handle, queueVars, procVars, spent>>

Commit(s) ==
    /\ task[s].pc = "write"
    /\ CommitRow(task[s].job, task[s].to, task[s].ref)
    /\ IF task[s].then = "none" THEN Release(s) ELSE HandOff(s, task[s].then)
    /\ UNCHANGED <<handle, up, queueVars, procVars, spent>>

\* The lifecycle's own hand-off, under a fresh id.
Enqueue(s) ==
    /\ task[s].pc = "next"
    /\ EnqueueFresh(task[s].job, task[s].then)
    /\ Release(s)
    /\ UNCHANGED <<rowVars, handle, up, procVars, spent>>

-----------------------------------------------------------------------------
(* Reclaim: startup takes every non-terminal row, the cron sweep the stalled *)

\* _triage_reclaimed: a malformed row, or one created before the staleness
\* horizon, is failed; the rest are resumed from the state this session saw.
\* Which rows have passed the horizon is for the clock to say.
Triage(rows, aged) ==
    [j \in Jobs |-> IF j \notin rows THEN "skip"
                    ELSE IF ~spec[j].valid \/ j \in aged THEN "failed"
                    ELSE state[j]]

NonTerminalRows == {j \in Jobs : state[j] \notin TERMINAL_STATES}

\* startup: on_startup runs to its end before arq takes a task.
Startup ==
    /\ worker = "down"
    /\ worker' = "booting"
    /\ \E aged \in SUBSET NonTerminalRows :
        reclaim' = [pc |-> "commit", plan |-> Triage(NonTerminalRows, aged)]
    /\ UNCHANGED <<rowVars, handle, up, queueVars, task, cancel, evict, spent>>

\* A mutant of StalledRows: a download is never taken for stalled.
StalledRowsButDownloads == {j \in NonTerminalRows : quiet[j] /\ state[j] # "materializing"}

\* crud.reclaim_stalled: the rows sweep_stalled_jobs loads.
StalledRows == {j \in NonTerminalRows : quiet[j]}

SweepStalledJobs ==
    /\ worker = "up" /\ reclaim.pc = "idle"
    /\ StalledRows # {}
    /\ \E aged \in SUBSET StalledRows :
        reclaim' = [pc |-> "commit", plan |-> Triage(StalledRows, aged)]
    /\ UNCHANGED <<rowVars, handle, up, queueVars, task, worker, cancel,
                   evict, spent>>

\* What the pass has left to resume; with nothing left it is over, and a
\* booting worker is up.
ReclaimLeft(plan) ==
    LET left == \E j \in Jobs : plan[j] # "skip" IN
    /\ reclaim' = [pc |-> IF left THEN "resume" ELSE "idle", plan |-> plan]
    /\ worker' = IF left THEN worker ELSE "up"

ReclaimCommit ==
    LET failing == {j \in Jobs : reclaim.plan[j] = "failed"} IN
    /\ reclaim.pc = "commit"
    /\ state' = [j \in Jobs |-> IF j \in failing THEN "failed" ELSE state[j]]
    /\ cred' = [j \in Jobs |-> IF j \in failing THEN CredentialAfter("failed", cred[j])
                               ELSE cred[j]]
    /\ ReclaimLeft([j \in Jobs |-> IF j \in failing THEN "skip" ELSE reclaim.plan[j]])
    /\ UNCHANGED <<spec, url, quiet, handle, up, queueVars, task, cancel, evict, spent>>

\* _resume_all: under lifecycle_job_id, a no-op while that id is taken.
Resume(j) ==
    LET k == RESUME_TASK[reclaim.plan[j]] IN
    /\ reclaim.pc = "resume"
    /\ reclaim.plan[j] \in NonTerminal
    /\ resumed' = IF ResumeLive(j, k) THEN resumed ELSE resumed \cup {<<j, k>>}
    /\ ReclaimLeft([reclaim.plan EXCEPT ![j] = "skip"])
    /\ UNCHANGED <<rowVars, handle, up, fresh, task, cancel, evict, spent>>

-----------------------------------------------------------------------------
(* cancel_retrieval, in the server process *)

\* A row with no edge to "cancelled" is answered without being touched.
CancelReads(j) ==
    /\ cancel[j].pc = "idle"
    /\ state[j] \notin TERMINAL_STATES
    /\ Legal(state[j], "cancelled")
    /\ cancel' = [cancel EXCEPT ![j] = [pc |-> "write",
                    ref |-> IF spec[j].provider = "opendap" THEN NoUrl ELSE url[j]]]
    /\ UNCHANGED <<rowVars, handle, up, queueVars, worker, task, reclaim, evict,
                   spent>>

\* OPeNDAP, or no URL when the row was loaded: upstream "unsupported".
CancelCommits(j) ==
    /\ cancel[j].pc = "write"
    /\ CommitRow(j, "cancelled", NoUrl)
    /\ cancel' = [cancel EXCEPT ![j].pc = IF cancel[j].ref = NoUrl THEN "idle" ELSE "upstream"]
    /\ UNCHANGED <<handle, up, queueVars, worker, task, reclaim, evict, spent>>

\* provider.cancel: stops a live upstream job, ignores a finished one.
UpstreamCancels(j, ref) ==
    ref \in Refs /\ up[j][ref] = "active" /\ up' = [up EXCEPT ![j][ref] = "canceled"]

\* _attempt_provider_cancel, with the URL loaded before the commit; a request
\* that fails is logged.
CancelUpstream(j) ==
    /\ cancel[j].pc = "upstream"
    /\ UpstreamCancels(j, cancel[j].ref) \/ UNCHANGED up
    /\ cancel' = [cancel EXCEPT ![j] = NotCancelling]
    /\ UNCHANGED <<rowVars, handle, queueVars, worker, task, reclaim, evict, spent>>

-----------------------------------------------------------------------------
(* _evict_one, run by the sweep after another row's materialization or at  *)
(* startup: the handle first, then the row if it is "ready"                *)

EvictFlips(j) ==
    /\ worker # "down" /\ evict[j] = "idle"
    /\ handle[j] = "ready"
    /\ handle' = [handle EXCEPT ![j] = "expired"]
    /\ evict' = [evict EXCEPT ![j] = "flipped"]
    /\ UNCHANGED <<rowVars, up, queueVars, worker, task, reclaim, cancel, spent>>

EvictReads(j) ==
    /\ evict[j] = "flipped"
    /\ evict' = [evict EXCEPT ![j] = IF state[j] = "ready" THEN "write" ELSE "idle"]
    /\ UNCHANGED <<rowVars, handle, up, queueVars, worker, task, reclaim, cancel,
                   spent>>

EvictCommits(j) ==
    /\ evict[j] = "write"
    /\ CommitRow(j, "expired", NoUrl)
    /\ evict' = [evict EXCEPT ![j] = "idle"]
    /\ UNCHANGED <<handle, up, queueVars, worker, task, reclaim, cancel, spent>>

-----------------------------------------------------------------------------
(* Faults and time *)

\* A task raises outside any handler: CMR unreachable in _load_provider, a
\* database error in submit or materialize, Redis refusing the hand-off.
\* arq does not retry it.
TaskDies(s) ==
    /\ task[s].pc # "idle"
    /\ task[s].kind # "poll_job" \/ task[s].pc = "next"
    /\ faults < MaxFaults /\ faults' = faults + 1
    /\ Release(s)
    /\ UNCHANGED <<rowVars, handle, up, queueVars, procVars, stalls, blips>>

\* poll_job is cancelled: it queues a fresh poll and re-raises.  arq runs a
\* task cancelled by its shutdown again, and drops one past job_timeout.
PollCancelled(s) ==
    LET j == task[s].job IN
    /\ task[s].kind = "poll_job" /\ task[s].pc # "idle"
    /\ faults < MaxFaults /\ faults' = faults + 1
    /\ \E again \in BOOLEAN :
        /\ fresh' = [fresh EXCEPT ![j]["poll_job"] =
                        @ + (IF again /\ ~task[s].resume THEN 2 ELSE 1)]
        /\ resumed' = IF again /\ task[s].resume THEN resumed \cup {<<j, "poll_job">>}
                                                 ELSE resumed
    /\ Release(s)
    /\ UNCHANGED <<rowVars, handle, up, procVars, stalls, blips>>

\* The worker dies.  Redis still holds what was queued, and what was running
\* is delivered again unless max_tries is used up.
WorkerDies ==
    /\ worker # "down"
    /\ faults < MaxFaults /\ faults' = faults + 1
    /\ worker' = "down"
    /\ \E kept \in SUBSET {s \in Slots : task[s].pc # "idle"} :
        /\ fresh' = [j \in Jobs |-> [k \in Tasks |-> fresh[j][k] +
                Cardinality({s \in kept : /\ task[s].job = j /\ task[s].kind = k
                                          /\ ~task[s].resume})]]
        /\ resumed' = resumed \cup
                {<<task[s].job, task[s].kind>> : s \in {t \in kept : task[t].resume}}
    /\ task' = [s \in Slots |-> Idle]
    /\ reclaim' = [pc |-> "idle", plan |-> [j \in Jobs |-> "skip"]]
    /\ evict' = [j \in Jobs |-> "idle"]
    /\ UNCHANGED up \/ \E s \in Slots : SubmitUnheard(s)
    /\ UNCHANGED <<rowVars, handle, cancel, stalls, blips>>

\* Redis loses the queue, and with it every taken id, under a live worker.
QueueLost ==
    /\ faults < MaxFaults /\ faults' = faults + 1
    /\ fresh' = [j \in Jobs |-> [k \in Tasks |-> 0]]
    /\ resumed' = {}
    /\ task' = [s \in Slots |-> [task[s] EXCEPT !.resume = FALSE]]
    /\ UNCHANGED <<rowVars, handle, up, procVars, stalls, blips>>

\* A row shows no sign of life for the horizon.  One with work in hand does
\* so only behind a slow provider, an outage or a backlog.
GoesQuiet(j) ==
    /\ state[j] \notin TERMINAL_STATES /\ ~quiet[j]
    /\ IF Watched(j) THEN stalls + blips < MaxDelays /\ stalls' = stalls + 1
                     ELSE UNCHANGED stalls
    /\ quiet' = [quiet EXCEPT ![j] = TRUE]
    /\ UNCHANGED <<state, spec, url, cred, handle, up, queueVars, task,
                   procVars, faults, blips>>

\* The provider finishes an upstream job; an AppEEARS task may also expire.
UpstreamSettles(j, u) ==
    /\ up[j][u] = "active"
    /\ \E outcome \in {"done", "error"} \cup
            (IF spec[j].provider = "appeears" THEN {"expired"} ELSE {}) :
        up' = [up EXCEPT ![j][u] = outcome]
    /\ UNCHANGED <<rowVars, handle, queueVars, task, procVars, spent>>

-----------------------------------------------------------------------------
(* The specification *)

Runs(s, j, k, r) ==
    StartReturns(s, j, k, r) \/ StartInvalid(s, j, k, r) \/ StartCalls(s, j, k, r)

SlotStep(s) ==
    \/ SubmitAccepted(s) \/ SubmitFallsBack(s) \/ PollAnswered(s)
    \/ MaterializeFetched(s) \/ MaterializeResolves(s) \/ MaterializeMarks(s)
    \/ Fails(s) \/ Commit(s) \/ Enqueue(s)

ReclaimStep == ReclaimCommit \/ \E j \in Jobs : Resume(j)

Next ==
    \/ \E s \in Slots, j \in Jobs, k \in Tasks, r \in BOOLEAN : Runs(s, j, k, r)
    \/ \E s \in Slots : SlotStep(s) \/ PollUnreachable(s) \/ PollCancelled(s) \/ TaskDies(s)
    \/ Startup \/ SweepStalledJobs \/ ReclaimStep \/ WorkerDies \/ QueueLost
    \/ \E j \in Jobs :
        \/ CancelReads(j) \/ CancelCommits(j) \/ CancelUpstream(j)
        \/ EvictFlips(j) \/ EvictReads(j) \/ EvictCommits(j)
        \/ GoesQuiet(j)
        \/ \E u \in Refs : UpstreamSettles(j, u)

Spec == Init /\ [][Next]_vars

\* arq serves its queue in time order, so a queued task is not passed over
\* for ever; a started task, a reclaim pass and a cron tick come to their
\* end; a dead worker is restarted; an unattended row does pass the stall
\* horizon; and a provider finishes what it accepted.  No user action, fault
\* or eviction is promised.
Fairness ==
    /\ \A j \in Jobs, k \in Tasks :
        SF_vars(\E s \in Slots, r \in BOOLEAN : Runs(s, j, k, r))
    /\ \A s \in Slots : WF_vars(SlotStep(s))
    /\ WF_vars(Startup) /\ WF_vars(SweepStalledJobs) /\ WF_vars(ReclaimStep)
    /\ \A j \in Jobs :
        /\ WF_vars(CancelCommits(j)) /\ WF_vars(CancelUpstream(j))
        /\ WF_vars(~Watched(j) /\ GoesQuiet(j))
        /\ \A u \in Refs : WF_vars(UpstreamSettles(j, u))

FairSpec == Spec /\ Fairness

-----------------------------------------------------------------------------
(* Safety *)

\* "Any terminal state erases the credential at rest": no interleaving of
\* tasks, cancels, reclaims and evictions, however stale what they read,
\* leaves a terminal row with a stored token.
CredentialErased == \A j \in Jobs : state[j] \in TERMINAL_STATES => ~cred[j]

\* "A job stops being watched the moment a single path out of this function
\* forgets to leave a poll queued": short of a dead worker, a lost queue or a
\* task that dies, a non-terminal row always has the task its state is owed
\* queued, running or about to be queued, duplicates and cancels included.
NeverUnwatched == faults = 0 => \A j \in NonTerminalRows : Watched(j)

\* materialize_job resolves the handle before it marks the row: whoever sees
\* "ready" finds a handle that this job delivered.  (The handle's later resets,
\* by a replay of an evicted result, are the subject of ResultHandle.)
DeliveredWhenReady == \A j \in Jobs : state[j] = "ready" => handle[j] # "pending"

\* As long as no task was delivered twice, a row is materialized only from an
\* upstream job its own provider reported done, through the URL it stored.
ProducedWhenReady ==
    faults = 0 /\ stalls = 0 =>
        \A j \in Jobs : state[j] \in {"materializing", "ready"} =>
            IF spec[j].provider = "opendap" THEN url[j] = DapUrls
            ELSE url[j] \in Refs /\ up[j][url[j]] = "done"

-----------------------------------------------------------------------------
(* Liveness, under FairSpec *)

\* Every row settles: whatever was lost on the way, the chain or one of the
\* reclaim passes brings it to a terminal state, where it stays.
Settles == \A j \in Jobs : <>[](state[j] \in TERMINAL_STATES)

\* "A real local resource release": no row keeps a queue entry or a slot for
\* ever; the chain of a finished or cancelled row, duplicates too, dies out.
WorkDrains ==
    \A j \in Jobs : <>[](/\ \A k \in Tasks : ~Queued(j, k)
                         /\ \A s \in Slots : task[s].job # j)

-----------------------------------------------------------------------------
(* Stated by the repository and refuted by what the code does *)

\* appeears.py's status map: an "expired" task is the durable state EXPIRED,
\* a terminal one.
ExpiryIsTerminal ==
    \A j \in Jobs, u \in Refs : up[j][u] = "expired" ~> state[j] \in TERMINAL_STATES

\* reclaim_non_terminal and startup: "at boot nothing is in flight, so taking
\* every non-terminal row is safe", and the resume id keeps two copies of one
\* row from both passing the state guard and submitting it.
SubmittedByOne ==
    \A s, t \in Slots :
        Calling(s, "submit_job") /\ Calling(t, "submit_job") /\ task[s].job = task[t].job
            => s = t

\* _load_job_identity: "a job started as one identity must terminate rather
\* than silently degrade to the service account".
IdentityKept ==
    \A s \in Slots : task[s].pc = "call" /\ spec[task[s].job].user => task[s].ident

\* _attempt_provider_cancel: a job cancelled with no provider_job_url "was
\* cancelled before it was ever submitted", "there is genuinely nothing
\* upstream to cancel".  (Once no task is in hand that could still say so.)
NothingLeftUpstream ==
    \A j \in Jobs : state[j] = "cancelled" /\ url[j] = NoUrl =>
        \/ \A u \in Refs : up[j][u] # "active"
        \/ \E s \in Slots : task[s].job = j

=============================================================================
