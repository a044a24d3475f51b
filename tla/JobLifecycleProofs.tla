------------------------- MODULE JobLifecycleProofs -------------------------
(***************************************************************************)
(* Proofs about JobLifecycle, for any set of rows, any number of worker    *)
(* slots, any requests and any bounds.                                     *)
(*                                                                         *)
(*   TypeCorrect       every column, queue entry and session keeps its type*)
(*   CredentialSafe    a terminal row stores no credential                 *)
(*   DeliverySafe      a "ready" row has a delivered handle                *)
(*   NothingForgotten  without faults a live row always has its next task  *)
(*   MadeFromItsOwn    ... and is materialized from its own upstream work  *)
(***************************************************************************)
EXTENDS JobLifecycle, TLAPS, FiniteSetTheorems

-----------------------------------------------------------------------------
(* The sessions a slot opens are well typed *)

\* A task is recorded as an otherwise idle slot.
LEMMA TaskAtType ==
    ASSUME NEW pc \in PCs, NEW j \in Jobs, NEW k \in Tasks, NEW r \in BOOLEAN
    PROVE  /\ TaskAt(pc, j, k, r) \in Busy
           /\ TaskAt(pc, j, k, r).pc = pc /\ TaskAt(pc, j, k, r).job = j
           /\ TaskAt(pc, j, k, r).kind = k /\ TaskAt(pc, j, k, r).then = "none"
           /\ TaskAt(pc, j, k, r).to = "none"
  <1>1. NoUrl \in Urls
    BY BoundsAssumption DEF NoUrl, Urls
  <1> QED
    BY <1>1 DEF TaskAt, Busy

\* A slot that is not idle runs a task of a row, and keeps its identity.
LEMMA BusySlot ==
    ASSUME TypeOK, NEW s \in Slots, task[s].pc # "idle"
    PROVE  task[s] \in Busy
  BY DEF TypeOK, Idle, TaskAt

LEMMA AtType ==
    ASSUME NEW s \in Slots, NEW pc \in PCs, task[s] \in Busy
    PROVE  /\ At(s, pc) \in Busy
           /\ At(s, pc).pc = pc /\ At(s, pc).job = task[s].job
           /\ At(s, pc).kind = task[s].kind /\ At(s, pc).then = "none"
           /\ At(s, pc).to = "none"
  <1>1. task[s].job \in Jobs /\ task[s].kind \in Tasks /\ task[s].resume \in BOOLEAN
    BY DEF Busy
  <1> QED
    BY <1>1, TaskAtType DEF At

\* Releasing a slot, handing off and opening a write keep the slots typed.
LEMMA ReleaseType ==
    ASSUME TypeOK, NEW s, Release(s)
    PROVE  task' \in [Slots -> {Idle} \cup Busy]
  BY DEF Release, TypeOK

LEMMA HandOffType ==
    ASSUME TypeOK, NEW s \in Slots, task[s] \in Busy, NEW then \in Tasks \cup {"none"}, HandOff(s, then)
    PROVE  task' \in [Slots -> {Idle} \cup Busy]
  <1>1. At(s, "next") \in Busy
    BY AtType DEF PCs
  <1>2. [At(s, "next") EXCEPT !.then = then] \in Busy
    BY <1>1 DEF Busy
  <1> QED
    BY <1>2 DEF HandOff, TypeOK

LEMMA OpenWriteType ==
    ASSUME TypeOK, NEW s \in Slots, task[s] \in Busy, NEW to \in JobStates, NEW ref \in Urls,
           NEW then \in Tasks \cup {"none"}, OpenWrite(s, to, ref, then)
    PROVE  task' \in [Slots -> {Idle} \cup Busy]
  <1> DEFINE w == [At(s, "write") EXCEPT !.ref = ref, !.then = then,
                      !.to = IF to = state[task[s].job] THEN "none" ELSE to]
  <1>1. At(s, "write") \in Busy
    BY AtType DEF PCs
  <1>2. w \in Busy
    BY <1>1 DEF Busy
  <1>3. task' = [task EXCEPT ![s] = w]
    BY DEF OpenWrite
  <1> QED
    BY <1>2, <1>3 DEF TypeOK

\* A commit keeps the row typed.
LEMMA CommitRowType ==
    ASSUME TypeOK, NEW j, NEW to \in JobStates \cup {"none"}, NEW ref \in Urls,
           CommitRow(j, to, ref)
    PROVE  /\ state' \in [Jobs -> JobStates] /\ spec' \in [Jobs -> Specs]
           /\ url' \in [Jobs -> Urls] /\ cred' \in [Jobs -> BOOLEAN]
           /\ quiet' \in [Jobs -> BOOLEAN]
  BY DEF CommitRow, CredentialAfter, TypeOK

\* An upstream job the provider creates, heard of or not.
LEMMA AcceptsType ==
    ASSUME TypeOK, NEW j \in Jobs, NEW ref, UpstreamAccepts(j, ref)
    PROVE  /\ up' \in [Jobs -> [Refs -> UpStatus]]
           /\ \A i \in Jobs \ {j} : up'[i] = up[i]
           /\ \A u \in Refs : up[j][u] = "done" => up'[j][u] = "done"
  <1>1. /\ ref \in Refs /\ up[j][ref] = "unused"
        /\ up' = [up EXCEPT ![j] = [up[j] EXCEPT ![ref] = "active"]]
    BY DEF UpstreamAccepts
  <1>2. up[j] \in [Refs -> UpStatus]
    BY DEF TypeOK
  <1>3. [up[j] EXCEPT ![ref] = "active"] \in [Refs -> UpStatus]
    BY <1>2 DEF UpStatus
  <1>4. up'[j] = [up[j] EXCEPT ![ref] = "active"]
    BY <1>1 DEF TypeOK
  <1> QED
    BY <1>1, <1>2, <1>3, <1>4 DEF TypeOK

LEMMA UnheardType ==
    ASSUME TypeOK, NEW s \in Slots, SubmitUnheard(s)
    PROVE  /\ up' \in [Jobs -> [Refs -> UpStatus]]
           /\ \A i \in Jobs \ {task[s].job} : up'[i] = up[i]
           /\ \A u \in Refs : up[task[s].job][u] = "done" => up'[task[s].job][u] = "done"
  <1>1. CASE UNCHANGED up
    BY <1>1 DEF TypeOK
  <1>2. CASE ~ UNCHANGED up
    <2>1. PICK ref \in Refs : UpstreamAccepts(task[s].job, ref) /\ task[s].pc = "call"
      BY <1>2 DEF SubmitUnheard, Calling
    <2>2. task[s].job \in Jobs
      BY <2>1, BusySlot DEF Busy
    <2> QED
      BY <2>1, <2>2, AcceptsType
  <1> QED
    BY <1>1, <1>2

\* The queue's operations keep it typed.
LEMMA EnqueueFreshType ==
    ASSUME TypeOK, NEW j, NEW k, EnqueueFresh(j, k)
    PROVE  fresh' \in [Jobs -> [Tasks -> Nat]] /\ resumed' \subseteq Jobs \X Tasks
  <1>1. fresh' = [fresh EXCEPT ![j] = [fresh[j] EXCEPT ![k] = fresh[j][k] + 1]]
    BY DEF EnqueueFresh
  <1>2. \A x \in Jobs : fresh[x] \in [Tasks -> Nat]
    BY DEF TypeOK
  <1>3. ASSUME NEW x \in Jobs
        PROVE  [fresh[x] EXCEPT ![k] = fresh[x][k] + 1] \in [Tasks -> Nat]
    <2>1. CASE k \in Tasks
      BY <1>2, <2>1
    <2>2. CASE k \notin Tasks
      BY <1>2, <2>2
    <2> QED
      BY <2>1, <2>2
  <1>4. fresh' \in [Jobs -> [Tasks -> Nat]]
    BY <1>1, <1>2, <1>3 DEF TypeOK
  <1> QED
    BY <1>4 DEF EnqueueFresh, TypeOK

LEMMA DequeueType ==
    ASSUME TypeOK, NEW j \in Jobs, NEW k \in Tasks, NEW r \in BOOLEAN, Dequeue(j, k, r)
    PROVE  fresh' \in [Jobs -> [Tasks -> Nat]] /\ resumed' \subseteq Jobs \X Tasks
  <1>1. CASE r
    BY <1>1 DEF Dequeue, TypeOK
  <1>2. CASE ~r
    <2>1. fresh[j][k] \in Nat /\ fresh[j][k] - 1 \in Nat
      BY <1>2 DEF Dequeue, TypeOK
    <2>2. fresh' = [fresh EXCEPT ![j][k] = fresh[j][k] - 1] /\ resumed' = resumed
      BY <1>2 DEF Dequeue
    <2> QED
      BY <2>1, <2>2 DEF TypeOK
  <1> QED
    BY <1>1, <1>2

\* What a poll asks for is a state and a task.
LEMMA PollTargetType ==
    ASSUME NEW current \in JobStates, NEW report
    PROVE  PollTarget(current, report) \in JobStates
  BY DEF PollTarget, JobStates

LEMMA PollNextType ==
    ASSUME NEW report
    PROVE  PollNext(report) \in Tasks \cup {"none"}
  BY DEF PollNext, Tasks

-----------------------------------------------------------------------------
(* Type correctness *)

\* A row as create_job leaves it is typed.
LEMMA InitType == Init => TypeOK
  <1> SUFFICES ASSUME Init PROVE TypeOK
    OBVIOUS
  <1>1. NoUrl \in Urls
    BY BoundsAssumption DEF NoUrl, Urls
  <1>2. spec \in [Jobs -> Specs]
    BY RequestsAssumption DEF Init
  <1>3. cred \in [Jobs -> BOOLEAN]
    BY <1>2 DEF Init, Specs
  <1> QED
    BY <1>1, <1>2, <1>3
    DEF Init, TypeOK, JobStates, UpStatus, Tasks, NotCancelling

\* Taking a task off the queue, whatever the first session decides.
LEMMA StartKeepsType ==
    ASSUME TypeOK, NEW s \in Slots, NEW j \in Jobs, NEW k \in Tasks,
           NEW r \in BOOLEAN, Runs(s, j, k, r)
    PROVE  TypeOK'
  <1>1. fresh' \in [Jobs -> [Tasks -> Nat]] /\ resumed' \subseteq Jobs \X Tasks
    BY DequeueType DEF Runs, StartReturns, StartInvalid, StartCalls, Start
  <1>2. TaskAt("write", j, k, r) \in Busy /\ TaskAt("call", j, k, r) \in Busy
    BY TaskAtType DEF PCs
  <1>3. task' \in [Slots -> {Idle} \cup Busy]
    <2>1. CASE StartReturns(s, j, k, r)
      BY <2>1 DEF StartReturns, TypeOK
    <2>2. CASE StartInvalid(s, j, k, r)
      <3>1. [TaskAt("write", j, k, r) EXCEPT !.to = "failed"] \in Busy
        BY <1>2 DEF Busy, JobStates
      <3> QED
        BY <2>2, <3>1 DEF StartInvalid, TypeOK
    <2>3. CASE StartCalls(s, j, k, r)
      <3>1. spec[j].provider \in Providers /\ url[j] \in Urls /\ cred[j] \in BOOLEAN
        BY DEF TypeOK, Specs
      <3>2. [TaskAt("call", j, k, r) EXCEPT !.prov = spec[j].provider,
                 !.ref = url[j], !.ident = cred[j]] \in Busy
        BY <1>2, <3>1 DEF Busy
      <3> QED
        BY <2>3, <3>2 DEF StartCalls, TypeOK
    <2> QED
      BY <2>1, <2>2, <2>3 DEF Runs
  <1>4. UNCHANGED <<rowVars, handle, up, procVars, spent>>
    BY DEF Runs, StartReturns, StartInvalid, StartCalls, Start
  <1> QED
    BY <1>1, <1>3, <1>4 DEF TypeOK, rowVars, procVars, spent

\* The steps a slot takes between its first session and its last.
LEMMA SlotKeepsType ==
    ASSUME TypeOK, NEW s \in Slots, SlotStep(s) \/ PollUnreachable(s)
    PROVE  TypeOK'
  <1> USE DEF rowVars, queueVars, procVars, spent
  <1>a. task[s] \in Busy
    BY BusySlot DEF SlotStep, PollUnreachable, SubmitAccepted, SubmitFallsBack,
       PollAnswered, MaterializeFetched, MaterializeResolves, MaterializeMarks,
       Fails, Commit, Enqueue, Calling
  <1>0. /\ task[s] \in Busy /\ task[s].job \in Jobs /\ NoUrl \in Urls
        /\ state[task[s].job] \in JobStates
    BY <1>a, BoundsAssumption DEF TypeOK, Busy, NoUrl, Urls
  <1>1. CASE SubmitAccepted(s)
    <2>1. PICK ref \in Urls :
            /\ IF task[s].prov = "opendap"
               THEN UNCHANGED up
               ELSE UpstreamAccepts(task[s].job, ref)
            /\ IF Legal(state[task[s].job], "submitted")
               THEN OpenWrite(s, "submitted", ref, "poll_job")
               ELSE Release(s)
      BY <1>1 DEF SubmitAccepted, OPeNDAPBuilds
    <2>2. up' \in [Jobs -> [Refs -> UpStatus]]
      BY <1>0, <2>1, AcceptsType DEF TypeOK
    <2>3. task' \in [Slots -> {Idle} \cup Busy]
      BY <1>0, <2>1, OpenWriteType, ReleaseType DEF JobStates, Tasks
    <2> QED
      BY <1>1, <2>2, <2>3 DEF SubmitAccepted, TypeOK
  <1>2. CASE SubmitFallsBack(s)
    <2>1. task' \in [Slots -> {Idle} \cup Busy]
      BY <1>0, <1>2, HandOffType DEF SubmitFallsBack, Tasks
    <2>2. spec[task[s].job] \in Specs
      BY <1>0 DEF TypeOK
    <2>3. [spec[task[s].job] EXCEPT !.provider = "opendap"] \in Specs
      BY <2>2 DEF Specs, Providers
    <2>4. spec' \in [Jobs -> Specs]
      BY <1>2, <2>3 DEF SubmitFallsBack, TypeOK
    <2> QED
      BY <1>2, <2>1, <2>4, UnheardType DEF SubmitFallsBack, TypeOK
  <1>3. CASE PollAnswered(s)
    <2>1. PICK report :
            IF state[task[s].job] \notin TERMINAL_STATES /\ PollLegal(state[task[s].job], report)
            THEN OpenWrite(s, PollTarget(state[task[s].job], report), NoUrl, PollNext(report))
            ELSE Release(s)
      BY <1>3 DEF PollAnswered
    <2>2. PollTarget(state[task[s].job], report) \in JobStates
      BY <1>0, PollTargetType
    <2>3. PollNext(report) \in Tasks \cup {"none"}
      BY PollNextType
    <2>4. task' \in [Slots -> {Idle} \cup Busy]
      BY <1>0, <2>1, <2>2, <2>3, OpenWriteType, ReleaseType
    <2> QED
      BY <1>3, <2>4 DEF PollAnswered, TypeOK
  <1>4. CASE MaterializeFetched(s)
    <2>1. At(s, "store") \in Busy
      BY <1>0, AtType DEF PCs
    <2> QED
      BY <1>4, <2>1 DEF MaterializeFetched, TypeOK
  <1>5. CASE MaterializeResolves(s)
    <2>1. At(s, "mark") \in Busy
      BY <1>0, AtType DEF PCs
    <2> QED
      BY <1>5, <2>1 DEF MaterializeResolves, TypeOK
  <1>6. CASE MaterializeMarks(s)
    <2>1. task' \in [Slots -> {Idle} \cup Busy]
      BY <1>0, <1>6, OpenWriteType, ReleaseType DEF MaterializeMarks, JobStates
    <2> QED
      BY <1>6, <2>1 DEF MaterializeMarks, TypeOK
  <1>7. CASE Fails(s)
    <2>1. task' \in [Slots -> {Idle} \cup Busy]
      BY <1>0, <1>7, OpenWriteType, ReleaseType DEF Fails, JobStates
    <2> QED
      BY <1>7, <2>1, UnheardType DEF Fails, TypeOK
  <1>8. CASE Commit(s)
    <2>1. task[s].to \in JobStates \cup {"none"} /\ task[s].ref \in Urls
          /\ task[s].then \in Tasks \cup {"none"}
      BY <1>0 DEF Busy
    <2>2. task' \in [Slots -> {Idle} \cup Busy]
      BY <1>0, <1>8, <2>1, HandOffType, ReleaseType DEF Commit
    <2>3. /\ state' \in [Jobs -> JobStates] /\ spec' \in [Jobs -> Specs]
          /\ url' \in [Jobs -> Urls] /\ cred' \in [Jobs -> BOOLEAN]
          /\ quiet' \in [Jobs -> BOOLEAN]
      BY <1>8, <2>1, CommitRowType DEF Commit
    <2> QED
      BY <1>8, <2>2, <2>3 DEF Commit, TypeOK
  <1>9. CASE Enqueue(s)
    <2>1. task' \in [Slots -> {Idle} \cup Busy]
      BY <1>9, ReleaseType DEF Enqueue
    <2>2. fresh' \in [Jobs -> [Tasks -> Nat]] /\ resumed' \subseteq Jobs \X Tasks
      BY <1>9, EnqueueFreshType DEF Enqueue
    <2> QED
      BY <1>9, <2>1, <2>2 DEF Enqueue, TypeOK
  <1>10. CASE PollUnreachable(s)
    <2>1. task' \in [Slots -> {Idle} \cup Busy]
      BY <1>10, ReleaseType DEF PollUnreachable
    <2>2. fresh' \in [Jobs -> [Tasks -> Nat]] /\ resumed' \subseteq Jobs \X Tasks
      BY <1>10, EnqueueFreshType DEF PollUnreachable
    <2> QED
      BY <1>10, <2>1, <2>2 DEF PollUnreachable, TypeOK
  <1> QED
    BY <1>1, <1>2, <1>3, <1>4, <1>5, <1>6, <1>7, <1>8, <1>9, <1>10 DEF SlotStep

\* The two reclaim passes.
LEMMA ReclaimKeepsType ==
    ASSUME TypeOK, Startup \/ SweepStalledJobs \/ ReclaimStep
    PROVE  TypeOK'
  <1> USE DEF rowVars, queueVars, procVars, spent
  <1> DEFINE Plans == [Jobs -> NonTerminal \cup {"skip", "failed"}]
  <1>0. ASSUME NEW rows, NEW aged, rows \subseteq NonTerminalRows
        PROVE  Triage(rows, aged) \in Plans
    BY <1>0 DEF Triage, NonTerminalRows, NonTerminal, TypeOK
  <1>1. CASE Startup
    BY <1>0, <1>1 DEF Startup, TypeOK
  <1>2. CASE SweepStalledJobs
    <2>1. StalledRows \subseteq NonTerminalRows
      BY DEF StalledRows
    <2> QED
      BY <1>0, <1>2, <2>1 DEF SweepStalledJobs, TypeOK
  <1>3. ASSUME NEW plan \in Plans, ReclaimLeft(plan)
        PROVE  /\ reclaim' \in [pc: {"idle", "commit", "resume"}, plan: Plans]
               /\ worker' \in {"up", "booting", "down"}
    BY <1>3 DEF ReclaimLeft, TypeOK
  <1>4. reclaim.plan \in Plans
    BY DEF TypeOK
  <1>5. CASE ReclaimCommit
    <2> DEFINE failing == {j \in Jobs : reclaim.plan[j] = "failed"}
               plan == [j \in Jobs |-> IF j \in failing THEN "skip" ELSE reclaim.plan[j]]
    <2>1. plan \in Plans
      BY <1>4
    <2>2. /\ reclaim' \in [pc: {"idle", "commit", "resume"}, plan: Plans]
          /\ worker' \in {"up", "booting", "down"}
      BY <1>3, <1>5, <2>1 DEF ReclaimCommit
    <2>3. state' \in [Jobs -> JobStates]
      BY <1>5 DEF ReclaimCommit, TypeOK, JobStates
    <2>4. cred' \in [Jobs -> BOOLEAN]
      BY <1>5 DEF ReclaimCommit, TypeOK, CredentialAfter
    <2> QED
      BY <1>5, <2>2, <2>3, <2>4 DEF ReclaimCommit, TypeOK
  <1>6. ASSUME NEW j \in Jobs, Resume(j) PROVE TypeOK'
    <2>1. [reclaim.plan EXCEPT ![j] = "skip"] \in Plans
      BY <1>4
    <2>2. /\ reclaim' \in [pc: {"idle", "commit", "resume"}, plan: Plans]
          /\ worker' \in {"up", "booting", "down"}
      BY <1>3, <1>6, <2>1 DEF Resume
    <2>3. RESUME_TASK[reclaim.plan[j]] \in Tasks
      BY <1>6 DEF Resume, RESUME_TASK, Tasks
    <2>4. resumed' \subseteq Jobs \X Tasks
      BY <1>6, <2>3 DEF Resume, TypeOK
    <2> QED
      BY <1>6, <2>2, <2>4 DEF Resume, TypeOK
  <1> QED
    BY <1>1, <1>2, <1>5, <1>6 DEF ReclaimStep

\* The server's cancel, the eviction, time and the provider.
LEMMA OthersKeepType ==
    ASSUME TypeOK, NEW j \in Jobs,
           \/ CancelReads(j) \/ CancelCommits(j) \/ CancelUpstream(j)
           \/ EvictFlips(j) \/ EvictReads(j) \/ EvictCommits(j)
           \/ GoesQuiet(j) \/ \E u \in Refs : UpstreamSettles(j, u)
    PROVE  TypeOK'
  <1> USE DEF rowVars, queueVars, procVars, spent
  <1>0. /\ NoUrl \in Urls /\ "expired" \in JobStates /\ "cancelled" \in JobStates
        /\ cancel[j] \in [pc: {"idle", "write", "upstream"}, ref: Urls]
        /\ up[j] \in [Refs -> UpStatus]
    BY BoundsAssumption DEF NoUrl, Urls, JobStates, TypeOK
  <1>1. CASE CancelReads(j)
    <2>1. [pc |-> "write", ref |-> IF spec[j].provider = "opendap" THEN NoUrl ELSE url[j]]
              \in [pc: {"idle", "write", "upstream"}, ref: Urls]
      BY <1>0 DEF TypeOK
    <2> QED
      BY <1>1, <2>1 DEF CancelReads, TypeOK
  <1>2. CASE CancelCommits(j)
    <2>1. cancel' \in [Jobs -> [pc: {"idle", "write", "upstream"}, ref: Urls]]
      BY <1>0, <1>2 DEF CancelCommits, TypeOK
    <2>2. /\ state' \in [Jobs -> JobStates] /\ spec' \in [Jobs -> Specs]
          /\ url' \in [Jobs -> Urls] /\ cred' \in [Jobs -> BOOLEAN]
          /\ quiet' \in [Jobs -> BOOLEAN]
      BY <1>0, <1>2, CommitRowType DEF CancelCommits
    <2> QED
      BY <1>2, <2>1, <2>2 DEF CancelCommits, TypeOK
  <1>3. CASE CancelUpstream(j)
    <2>1. [up[j] EXCEPT ![cancel[j].ref] = "canceled"] \in [Refs -> UpStatus]
      BY <1>0 DEF UpStatus
    <2>2. up' \in [Jobs -> [Refs -> UpStatus]]
      BY <1>3, <2>1 DEF CancelUpstream, UpstreamCancels, TypeOK
    <2>3. cancel' \in [Jobs -> [pc: {"idle", "write", "upstream"}, ref: Urls]]
      BY <1>0, <1>3 DEF CancelUpstream, NotCancelling, TypeOK
    <2> QED
      BY <1>3, <2>2, <2>3 DEF CancelUpstream, TypeOK
  <1>4. CASE EvictFlips(j)
    BY <1>4 DEF EvictFlips, TypeOK
  <1>5. CASE EvictReads(j)
    BY <1>5 DEF EvictReads, TypeOK
  <1>6. CASE EvictCommits(j)
    <2>1. /\ state' \in [Jobs -> JobStates] /\ spec' \in [Jobs -> Specs]
          /\ url' \in [Jobs -> Urls] /\ cred' \in [Jobs -> BOOLEAN]
          /\ quiet' \in [Jobs -> BOOLEAN]
      BY <1>0, <1>6, CommitRowType DEF EvictCommits
    <2> QED
      BY <1>6, <2>1 DEF EvictCommits, TypeOK
  <1>7. CASE GoesQuiet(j)
    <2>1. stalls' \in Nat
      BY <1>7 DEF GoesQuiet, TypeOK
    <2> QED
      BY <1>7, <2>1 DEF GoesQuiet, TypeOK
  <1>8. ASSUME NEW u \in Refs, UpstreamSettles(j, u) PROVE TypeOK'
    <2>1. PICK outcome \in UpStatus : up' = [up EXCEPT ![j][u] = outcome]
      BY <1>8 DEF UpstreamSettles, UpStatus
    <2>2. [up[j] EXCEPT ![u] = outcome] \in [Refs -> UpStatus]
      BY <1>0, <2>1
    <2>3. up' \in [Jobs -> [Refs -> UpStatus]]
      BY <2>1, <2>2 DEF TypeOK
    <2> QED
      BY <1>8, <2>3 DEF UpstreamSettles, TypeOK
  <1> QED
    BY <1>1, <1>2, <1>3, <1>4, <1>5, <1>6, <1>7, <1>8

\* The faults.
LEMMA FaultsKeepType ==
    ASSUME TypeOK,
           \/ \E s \in Slots : TaskDies(s) \/ PollCancelled(s)
           \/ WorkerDies \/ QueueLost
    PROVE  TypeOK' /\ faults' = faults + 1
  <1> USE DEF rowVars, queueVars, procVars, spent
  <1>1. ASSUME NEW s \in Slots, TaskDies(s) PROVE TypeOK' /\ faults' = faults + 1
    <2>1. task' \in [Slots -> {Idle} \cup Busy]
      BY <1>1, ReleaseType DEF TaskDies
    <2> QED
      BY <1>1, <2>1 DEF TaskDies, TypeOK
  <1>2. ASSUME NEW s \in Slots, PollCancelled(s) PROVE TypeOK' /\ faults' = faults + 1
    <2>1. task' \in [Slots -> {Idle} \cup Busy]
      BY <1>2, ReleaseType DEF PollCancelled
    <2>2. task[s].job \in Jobs /\ "poll_job" \in Tasks
      BY <1>2, BusySlot DEF PollCancelled, Busy, Tasks
    <2>3. PICK again \in BOOLEAN :
            /\ fresh' = [fresh EXCEPT ![task[s].job]["poll_job"] =
                           @ + (IF again /\ ~task[s].resume THEN 2 ELSE 1)]
            /\ resumed' = IF again /\ task[s].resume
                          THEN resumed \cup {<<task[s].job, "poll_job">>} ELSE resumed
      BY <1>2 DEF PollCancelled
    <2>4. PICK n \in Nat : fresh' = [fresh EXCEPT ![task[s].job]["poll_job"] = @ + n]
      BY <2>3
    <2>5. fresh[task[s].job] \in [Tasks -> Nat]
      BY <2>2 DEF TypeOK
    <2>6. [fresh[task[s].job] EXCEPT !["poll_job"] = @ + n] \in [Tasks -> Nat]
      BY <2>2, <2>5
    <2>7. fresh' \in [Jobs -> [Tasks -> Nat]]
      BY <2>4, <2>6 DEF TypeOK
    <2>8. resumed' \subseteq Jobs \X Tasks
      BY <2>2, <2>3 DEF TypeOK
    <2> QED
      BY <1>2, <2>1, <2>7, <2>8 DEF PollCancelled, TypeOK
  <1>3. CASE WorkerDies
    <2>1. PICK kept \in SUBSET {s \in Slots : task[s].pc # "idle"} :
        /\ fresh' = [j \in Jobs |-> [k \in Tasks |-> fresh[j][k] +
                Cardinality({s \in kept : /\ task[s].job = j /\ task[s].kind = k
                                          /\ ~task[s].resume})]]
        /\ resumed' = resumed \cup
                {<<task[s].job, task[s].kind>> : s \in {t \in kept : task[t].resume}}
      BY <1>3 DEF WorkerDies
    <2>2. ASSUME NEW j \in Jobs, NEW k \in Tasks
          PROVE  Cardinality({s \in kept : /\ task[s].job = j /\ task[s].kind = k
                                           /\ ~task[s].resume}) \in Nat
      BY SlotsAssumption, FS_Subset, FS_CardinalityType
    <2>3. fresh' \in [Jobs -> [Tasks -> Nat]]
      <3>1. \A j \in Jobs : \A k \in Tasks : fresh[j][k] \in Nat
        BY DEF TypeOK
      <3> QED
        BY <2>1, <2>2, <3>1
    <2>4. resumed' \subseteq Jobs \X Tasks
      <3>1. \A s \in kept : task[s].job \in Jobs /\ task[s].kind \in Tasks
        BY BusySlot DEF Busy
      <3> QED
        BY <2>1, <3>1 DEF TypeOK
    <2>5. task' \in [Slots -> {Idle} \cup Busy]
      BY <1>3 DEF WorkerDies
    <2>6. reclaim' \in [pc: {"idle", "commit", "resume"},
                        plan: [Jobs -> NonTerminal \cup {"skip", "failed"}]]
      BY <1>3 DEF WorkerDies
    <2> QED
      BY <1>3, <2>3, <2>4, <2>5, <2>6, UnheardType DEF WorkerDies, TypeOK
  <1>4. CASE QueueLost
    <2>1. ASSUME NEW s \in Slots
          PROVE  [task[s] EXCEPT !.resume = FALSE] \in {Idle} \cup Busy
      <3>1. task[s] = Idle \/ task[s] \in Busy
        BY DEF TypeOK
      <3>2. CASE task[s] = Idle
        <4>1. /\ Idle \in [pc: {"idle"}, kind: {"none"}, job: {NoJob}, resume: BOOLEAN,
                            prov: {"none"}, ref: {NoUrl}, ident: BOOLEAN,
                            to: {"none"}, then: {"none"}]
              /\ Idle.resume = FALSE
          BY DEF Idle, TaskAt
        <4>2. [Idle EXCEPT !.resume = FALSE] = Idle
          BY <4>1
        <4> QED
          BY <3>2, <4>2
      <3>3. CASE task[s] \in Busy
        BY <3>3 DEF Busy
      <3> QED
        BY <3>1, <3>2, <3>3
    <2>2. task' \in [Slots -> {Idle} \cup Busy]
      BY <1>4, <2>1 DEF QueueLost
    <2> QED
      BY <1>4, <2>2 DEF QueueLost, TypeOK
  <1> QED
    BY <1>1, <1>2, <1>3, <1>4

LEMMA StepKeepsType == TypeOK /\ [Next]_vars => TypeOK'
  <1> SUFFICES ASSUME TypeOK, [Next]_vars PROVE TypeOK'
    OBVIOUS
  <1>1. CASE Next
    BY <1>1, StartKeepsType, SlotKeepsType, ReclaimKeepsType, OthersKeepType,
       FaultsKeepType DEF Next
  <1>2. CASE UNCHANGED vars
    BY <1>2 DEF vars, TypeOK
  <1> QED
    BY <1>1, <1>2

\* Every column, queue entry, session and counter keeps its type, whatever
\* the rows, slots, requests and bounds.
THEOREM TypeCorrect == Spec => []TypeOK
  BY InitType, StepKeepsType, PTL DEF Spec

-----------------------------------------------------------------------------
(* The stored credential *)

\* A commit that ends in a terminal state erases what is stored, any other
\* leaves the pair (state terminal, credential) as it was or better.
LEMMA CommitErases ==
    ASSUME TypeOK, CredentialErased, NEW j, NEW to \in JobStates \cup {"none"},
           NEW ref \in Urls, CommitRow(j, to, ref)
    PROVE  CredentialErased'
  <1> SUFFICES ASSUME NEW x \in Jobs, state'[x] \in TERMINAL_STATES
               PROVE  ~cred'[x]
    BY DEF CredentialErased
  <1>1. /\ state' = [state EXCEPT ![j] = IF to = "none" THEN @ ELSE to]
        /\ cred' = [cred EXCEPT ![j] = cred[j] /\ to \notin TERMINAL_STATES]
    BY DEF CommitRow, CredentialAfter
  <1>2. CASE x # j
    BY <1>1, <1>2 DEF CredentialErased, TypeOK
  <1>3. CASE x = j /\ to = "none"
    <2>1. ~cred[x]
      BY <1>1, <1>3 DEF CredentialErased, TypeOK
    <2> QED
      BY <1>1, <1>3, <2>1 DEF TypeOK
  <1>4. CASE x = j /\ to # "none"
    <2>1. to \in TERMINAL_STATES
      BY <1>1, <1>4 DEF TypeOK
    <2> QED
      BY <1>1, <1>4, <2>1 DEF TypeOK
  <1> QED
    BY <1>2, <1>3, <1>4

LEMMA StepErases == TypeOK /\ CredentialErased /\ [Next]_vars => CredentialErased'
  <1> SUFFICES ASSUME TypeOK, CredentialErased, [Next]_vars PROVE CredentialErased'
    OBVIOUS
  <1> USE DEF rowVars, queueVars, procVars, spent
  <1>1. ASSUME UNCHANGED <<state, cred>> PROVE CredentialErased'
    BY <1>1 DEF CredentialErased
  <1>2. ASSUME NEW s \in Slots, SlotStep(s) PROVE CredentialErased'
    <2>1. CASE Commit(s)
      <3>1. task[s] \in Busy
        BY <2>1, BusySlot DEF Commit
      <3>2. task[s].to \in JobStates \cup {"none"} /\ task[s].ref \in Urls
        BY <3>1 DEF Busy
      <3> QED
        BY <2>1, <3>2, CommitErases DEF Commit
    <2> QED
      BY <1>1, <1>2, <2>1 DEF SlotStep, SubmitAccepted, SubmitFallsBack, PollAnswered,
         MaterializeFetched, MaterializeResolves, MaterializeMarks, Fails, Enqueue
  <1>3. CASE ReclaimCommit
    <2> SUFFICES ASSUME NEW x \in Jobs, state'[x] \in TERMINAL_STATES
                 PROVE  ~cred'[x]
      BY DEF CredentialErased
    <2>1. CASE reclaim.plan[x] = "failed"
      BY <1>3, <2>1 DEF ReclaimCommit, CredentialAfter, TERMINAL_STATES
    <2>2. CASE reclaim.plan[x] # "failed"
      BY <1>3, <2>2 DEF ReclaimCommit, CredentialErased
    <2> QED
      BY <2>1, <2>2
  <1>4. ASSUME NEW j \in Jobs, CancelCommits(j) \/ EvictCommits(j)
        PROVE  CredentialErased'
    <2>1. NoUrl \in Urls /\ "cancelled" \in JobStates /\ "expired" \in JobStates
      BY BoundsAssumption DEF NoUrl, Urls, JobStates
    <2> QED
      BY <1>4, <2>1, CommitErases DEF CancelCommits, EvictCommits
  <1>5. ASSUME NEW j \in Jobs,
               \/ CancelReads(j) \/ CancelUpstream(j) \/ EvictFlips(j) \/ EvictReads(j)
               \/ GoesQuiet(j) \/ Resume(j) \/ \E u \in Refs : UpstreamSettles(j, u)
        PROVE  CredentialErased'
    BY <1>1, <1>5 DEF CancelReads, CancelUpstream, EvictFlips, EvictReads, GoesQuiet,
       UpstreamSettles, Resume
  <1>6. CASE Startup \/ SweepStalledJobs \/ WorkerDies \/ QueueLost
    BY <1>1, <1>6 DEF Startup, SweepStalledJobs, WorkerDies, QueueLost
  <1>7. ASSUME NEW s \in Slots, PollUnreachable(s) \/ PollCancelled(s) \/ TaskDies(s)
        PROVE  CredentialErased'
    BY <1>1, <1>7 DEF PollUnreachable, PollCancelled, TaskDies
  <1>8. ASSUME NEW s \in Slots, NEW j \in Jobs, NEW k \in Tasks, NEW r \in BOOLEAN,
               Runs(s, j, k, r)
        PROVE  CredentialErased'
    BY <1>1, <1>8 DEF Runs, StartReturns, StartInvalid, StartCalls, Start
  <1>9. CASE UNCHANGED vars
    BY <1>1, <1>9 DEF vars
  <1> QED
    BY <1>2, <1>3, <1>4, <1>5, <1>6, <1>7, <1>8, <1>9 DEF Next, ReclaimStep

\* "Any terminal state erases the credential at rest", although cancel,
\* reclaim, eviction and the tasks all commit what they read earlier.
THEOREM CredentialSafe == Spec => []CredentialErased
  <1>1. Init => CredentialErased
    BY DEF Init, CredentialErased, TERMINAL_STATES
  <1> QED
    BY <1>1, TypeCorrect, StepErases, PTL DEF Spec

-----------------------------------------------------------------------------
(* What a slot's session is about to do *)

\* A session that will write has the follow-on its new state needs; a session
\* that leaves the state alone is a poll that polls again.
Session(t) ==
    /\ t.pc \in {"store", "mark"} => t.kind = "materialize_job"
    /\ t.pc = "next" => t.then \in Tasks
    /\ t.pc = "write" =>
        \/ t.to \in TERMINAL_STATES /\ t.then = "none"
        \/ t.to \in {"submitted", "running"} /\ t.then = "poll_job"
        \/ t.to = "materializing" /\ t.then = "materialize_job"
        \/ t.to = "none" /\ t.kind = "poll_job" /\ t.then = "poll_job"

\* Only materialize_job, past the handle, is about to make the row "ready".
Delivers(t) == t.pc = "mark" \/ (t.pc = "write" /\ t.to = "ready")

SessionInv == \A s \in Slots : Session(task[s])

DeliveryInv ==
    /\ DeliveredWhenReady
    /\ \A s \in Slots : Delivers(task[s]) => handle[task[s].job] # "pending"

\* What one slot's step leaves in the slots.
LEMMA ReleaseSlot ==
    ASSUME TypeOK, NEW s \in Slots, Release(s)
    PROVE  task'[s] = Idle /\ \A t \in Slots \ {s} : task'[t] = task[t]
  BY DEF Release, TypeOK

LEMMA HandOffSlot ==
    ASSUME TypeOK, NEW s \in Slots, task[s] \in Busy,
           NEW then \in Tasks \cup {"none"}, HandOff(s, then)
    PROVE  /\ task'[s].pc = "next" /\ task'[s].then = then
           /\ task'[s].job = task[s].job
           /\ \A t \in Slots \ {s} : task'[t] = task[t]
  <1>1. At(s, "next") \in Busy /\ At(s, "next").pc = "next"
        /\ At(s, "next").job = task[s].job
    BY AtType DEF PCs
  <1>2. task' = [task EXCEPT ![s] = [At(s, "next") EXCEPT !.then = then]]
    BY DEF HandOff
  <1> QED
    BY <1>1, <1>2 DEF TypeOK, Busy

LEMMA OpenWriteSlot ==
    ASSUME TypeOK, NEW s \in Slots, task[s] \in Busy, NEW to \in JobStates, NEW ref \in Urls,
           NEW then \in Tasks \cup {"none"}, OpenWrite(s, to, ref, then)
    PROVE  /\ task'[s].pc = "write" /\ task'[s].then = then
           /\ task'[s].to = IF to = state[task[s].job] THEN "none" ELSE to
           /\ task'[s].job = task[s].job /\ task'[s].kind = task[s].kind
           /\ task'[s].ref = ref
           /\ \A t \in Slots \ {s} : task'[t] = task[t]
  <1> DEFINE w == [At(s, "write") EXCEPT !.ref = ref, !.then = then,
                      !.to = IF to = state[task[s].job] THEN "none" ELSE to]
  <1>1. At(s, "write") \in Busy /\ At(s, "write").pc = "write"
        /\ At(s, "write").job = task[s].job /\ At(s, "write").kind = task[s].kind
    BY AtType DEF PCs
  <1>2. /\ w.pc = "write" /\ w.then = then /\ w.job = task[s].job /\ w.kind = task[s].kind
        /\ w.ref = ref
        /\ w.to = IF to = state[task[s].job] THEN "none" ELSE to
    BY <1>1 DEF Busy
  <1>3. task' = [task EXCEPT ![s] = w]
    BY DEF OpenWrite
  <1> QED
    BY <1>2, <1>3 DEF TypeOK

\* The edges, read off LEGAL_TRANSITIONS and _apply_poll.
LEMMA Edges ==
    ASSUME NEW current \in JobStates
    PROVE  /\ Legal(current, "submitted") <=> current = "pending"
           /\ Legal(current, "ready") <=> current = "materializing"
           /\ Legal(current, "failed") <=> current \notin TERMINAL_STATES
  BY DEF Legal, LEGAL_TRANSITIONS, JobStates, TERMINAL_STATES

LEMMA PollEdges ==
    ASSUME NEW current \in JobStates, current \notin TERMINAL_STATES,
           NEW report \in JobStates
    PROVE  /\ current \in {"submitted", "running"} => PollLegal(current, report)
           /\ PollLegal(current, report) =>
                LET to == PollTarget(current, report) IN
                \/ to \in {"failed", "cancelled"} /\ PollNext(report) = "none"
                \/ to = "running" /\ PollNext(report) = "poll_job"
                \/ to = "materializing" /\ to # current /\ PollNext(report) = "materialize_job"
                \/ to = current /\ PollNext(report) = "poll_job"
  BY DEF PollLegal, PollTarget, PollNext, Legal, LEGAL_TRANSITIONS, JobStates,
     TERMINAL_STATES

LEMMA ReportType ==
    ASSUME NEW prov, NEW ref, NEW j, NEW report \in PollReports(prov, ref, j)
    PROVE  report \in JobStates
  BY DEF PollReports, HarmonyStatus, AppEEARSStatus, JobStates

\* The task each state is owed, and the states each task's guard lets in.
LEMMA Owed ==
    /\ RESUME_TASK["pending"] = "submit_job"
    /\ RESUME_TASK["submitted"] = "poll_job" /\ RESUME_TASK["running"] = "poll_job"
    /\ RESUME_TASK["materializing"] = "materialize_job"
    /\ NonTerminal = {"pending", "submitted", "running", "materializing"}
    /\ \A k \in Tasks, x \in NonTerminal : x \in Guard[k] <=> RESUME_TASK[x] = k
    /\ \A x \in NonTerminal : RESUME_TASK[x] \in Tasks
  <1>1. NonTerminal = {"pending", "submitted", "running", "materializing"}
    BY DEF NonTerminal, JobStates, TERMINAL_STATES
  <1> QED
    BY <1>1 DEF RESUME_TASK, Guard, Tasks

\* What a poll's answer leaves in its slot: it lets go only of a row that is
\* owed no poll, and else is about to write a verdict or go on.
LEMMA PollSlot ==
    ASSUME TypeOK, NEW s \in Slots, PollAnswered(s)
    PROVE  \/ Release(s) /\ state[task[s].job] \notin {"submitted", "running"}
           \/ /\ task'[s].pc = "write" /\ task'[s].job = task[s].job
              /\ task'[s].kind = "poll_job"
              /\ \A t \in Slots \ {s} : task'[t] = task[t]
              /\ \/ task'[s].to \in {"failed", "cancelled"} /\ task'[s].then = "none"
                 \/ task'[s].to = "running" /\ task'[s].then = "poll_job"
                 \/ task'[s].to = "materializing" /\ task'[s].then = "materialize_job"
                 \/ task'[s].to = "none" /\ task'[s].then = "poll_job"
  <1> DEFINE current == state[task[s].job]
  <1>0. task[s] \in Busy /\ task[s].kind = "poll_job"
    BY BusySlot DEF PollAnswered, Calling
  <1>1. current \in JobStates /\ NoUrl \in Urls
    BY <1>0, BoundsAssumption DEF Busy, TypeOK, NoUrl, Urls
  <1>2. PICK report \in PollReports(task[s].prov, task[s].ref, task[s].job) :
            IF current \notin TERMINAL_STATES /\ PollLegal(current, report)
            THEN OpenWrite(s, PollTarget(current, report), NoUrl, PollNext(report))
            ELSE Release(s)
    BY DEF PollAnswered
  <1>3. report \in JobStates
    BY <1>2, ReportType
  <1>4. CASE current \notin TERMINAL_STATES /\ PollLegal(current, report)
    <2>1. OpenWrite(s, PollTarget(current, report), NoUrl, PollNext(report))
      BY <1>2, <1>4
    <2>2. /\ PollTarget(current, report) \in JobStates
          /\ PollNext(report) \in Tasks \cup {"none"}
      BY <1>1, PollTargetType, PollNextType
    <2>3. /\ task'[s].pc = "write" /\ task'[s].then = PollNext(report)
          /\ task'[s].to = IF PollTarget(current, report) = current
                           THEN "none" ELSE PollTarget(current, report)
          /\ task'[s].job = task[s].job /\ task'[s].kind = task[s].kind
          /\ \A t \in Slots \ {s} : task'[t] = task[t]
      BY <1>0, <1>1, <2>1, <2>2, OpenWriteSlot
    <2> QED
      BY <1>0, <1>1, <1>3, <1>4, <2>3, PollEdges DEF TERMINAL_STATES
  <1>5. CASE ~(current \notin TERMINAL_STATES /\ PollLegal(current, report))
    <2>1. current \notin {"submitted", "running"}
      BY <1>1, <1>3, <1>5, PollEdges DEF TERMINAL_STATES
    <2> QED
      BY <1>2, <1>5, <2>1
  <1> QED
    BY <1>4, <1>5

LEMMA SlotKeepsSession ==
    ASSUME TypeOK, SessionInv, NEW s \in Slots, SlotStep(s)
    PROVE  SessionInv'
  <1>a. task[s] \in Busy
    BY BusySlot DEF SlotStep, SubmitAccepted, SubmitFallsBack, PollAnswered,
       MaterializeFetched, MaterializeResolves, MaterializeMarks, Fails, Commit,
       Enqueue, Calling
  <1>0. /\ task[s] \in Busy /\ task[s].job \in Jobs /\ NoUrl \in Urls
        /\ state[task[s].job] \in JobStates
    BY <1>a, BoundsAssumption DEF TypeOK, Busy, NoUrl, Urls
  <1>1. ASSUME Session(task'[s]), \A t \in Slots \ {s} : task'[t] = task[t]
        PROVE  SessionInv'
    BY <1>1 DEF SessionInv
  <1>2. ASSUME Release(s) PROVE SessionInv'
    BY <1>1, <1>2, ReleaseSlot DEF Session, Idle, TaskAt
  <1>3. CASE SubmitAccepted(s)
    <2>1. CASE Legal(state[task[s].job], "submitted")
      <3>1. PICK ref \in Urls : OpenWrite(s, "submitted", ref, "poll_job")
        BY <1>3, <2>1 DEF SubmitAccepted
      <3>2. state[task[s].job] # "submitted"
        BY <1>0, <2>1, Edges
      <3> QED
        BY <1>0, <1>1, <3>1, <3>2, OpenWriteSlot DEF Session, JobStates, Tasks
    <2> QED
      BY <1>2, <1>3, <2>1 DEF SubmitAccepted
  <1>4. CASE SubmitFallsBack(s)
    BY <1>0, <1>1, <1>4, HandOffSlot DEF SubmitFallsBack, Session, Tasks
  <1>5. CASE PollAnswered(s)
    BY <1>1, <1>2, <1>5, PollSlot DEF Session, TERMINAL_STATES
  <1>6. CASE MaterializeFetched(s)
    <2>1. task'[s] = At(s, "store") /\ \A t \in Slots \ {s} : task'[t] = task[t]
      BY <1>6 DEF MaterializeFetched, TypeOK
    <2>2. task'[s].pc = "store" /\ task'[s].kind = "materialize_job"
      BY <1>0, <1>6, <2>1, AtType DEF MaterializeFetched, Calling, PCs
    <2> QED
      BY <1>1, <2>1, <2>2 DEF Session
  <1>7. CASE MaterializeResolves(s)
    <2>1. task'[s] = At(s, "mark") /\ \A t \in Slots \ {s} : task'[t] = task[t]
      BY <1>7 DEF MaterializeResolves, TypeOK
    <2>2. task'[s].pc = "mark" /\ task'[s].kind = "materialize_job"
      BY <1>0, <1>7, <2>1, AtType DEF MaterializeResolves, SessionInv, Session, PCs
    <2> QED
      BY <1>1, <2>1, <2>2 DEF Session
  <1>8. CASE MaterializeMarks(s)
    <2>1. CASE Legal(state[task[s].job], "ready")
      <3>1. OpenWrite(s, "ready", NoUrl, "none") /\ state[task[s].job] # "ready"
        BY <1>0, <1>8, <2>1, Edges DEF MaterializeMarks
      <3> QED
        BY <1>0, <1>1, <3>1, OpenWriteSlot DEF Session, JobStates, TERMINAL_STATES
    <2> QED
      BY <1>2, <1>8, <2>1 DEF MaterializeMarks
  <1>9. CASE Fails(s)
    <2>1. CASE Legal(state[task[s].job], "failed")
      <3>1. OpenWrite(s, "failed", NoUrl, "none") /\ state[task[s].job] # "failed"
        BY <1>0, <1>9, <2>1, Edges DEF Fails, TERMINAL_STATES
      <3> QED
        BY <1>0, <1>1, <3>1, OpenWriteSlot DEF Session, JobStates, TERMINAL_STATES
    <2> QED
      BY <1>2, <1>9, <2>1 DEF Fails
  <1>10. CASE Commit(s)
    <2>1. CASE task[s].then = "none"
      BY <1>2, <1>10, <2>1 DEF Commit
    <2>2. CASE task[s].then # "none"
      <3>1. task[s].then \in Tasks /\ HandOff(s, task[s].then)
        BY <1>0, <1>10, <2>2 DEF Commit, Busy
      <3> QED
        BY <1>0, <1>1, <3>1, HandOffSlot DEF Session
    <2> QED
      BY <2>1, <2>2
  <1>11. CASE Enqueue(s)
    BY <1>2, <1>11 DEF Enqueue
  <1> QED
    BY <1>3, <1>4, <1>5, <1>6, <1>7, <1>8, <1>9, <1>10, <1>11 DEF SlotStep

LEMMA StepKeepsSession == TypeOK /\ SessionInv /\ [Next]_vars => SessionInv'
  <1> SUFFICES ASSUME TypeOK, SessionInv, [Next]_vars PROVE SessionInv'
    OBVIOUS
  <1> USE DEF rowVars, queueVars, procVars, spent
  <1>1. ASSUME UNCHANGED task PROVE SessionInv'
    BY <1>1 DEF SessionInv
  <1>2. Session(Idle)
    BY DEF Session, Idle, TaskAt
  <1>3. ASSUME NEW s \in Slots, PollUnreachable(s) \/ PollCancelled(s) \/ TaskDies(s)
        PROVE  SessionInv'
    BY <1>2, <1>3, ReleaseSlot DEF PollUnreachable, PollCancelled, TaskDies, SessionInv
  <1>4. ASSUME NEW s \in Slots, NEW j \in Jobs, NEW k \in Tasks, NEW r \in BOOLEAN,
               Runs(s, j, k, r)
        PROVE  SessionInv'
    <2>1. CASE StartReturns(s, j, k, r)
      BY <1>1, <2>1 DEF StartReturns
    <2>2. CASE StartInvalid(s, j, k, r)
      <3> DEFINE w == [TaskAt("write", j, k, r) EXCEPT !.to = "failed"]
      <3>1. w.pc = "write" /\ w.to = "failed" /\ w.then = "none"
        BY TaskAtType DEF PCs, Busy
      <3>2. Session(w)
        BY <3>1 DEF Session, TERMINAL_STATES
      <3> QED
        BY <2>2, <3>2 DEF StartInvalid, SessionInv, TypeOK
    <2>3. CASE StartCalls(s, j, k, r)
      <3> DEFINE w == [TaskAt("call", j, k, r) EXCEPT !.prov = spec[j].provider,
                           !.ref = url[j], !.ident = cred[j]]
      <3>1. w.pc = "call"
        BY TaskAtType DEF PCs, Busy
      <3>2. Session(w)
        BY <3>1 DEF Session
      <3> QED
        BY <2>3, <3>2 DEF StartCalls, SessionInv, TypeOK
    <2> QED
      BY <1>4, <2>1, <2>2, <2>3 DEF Runs
  <1>5. CASE WorkerDies
    BY <1>2, <1>5 DEF WorkerDies, SessionInv
  <1>6. CASE QueueLost
    <2> SUFFICES ASSUME NEW s \in Slots PROVE Session(task'[s])
      BY DEF SessionInv
    <2>1. task'[s] = [task[s] EXCEPT !.resume = FALSE]
      BY <1>6 DEF QueueLost
    <2>2. task[s] = Idle \/ task[s] \in Busy
      BY DEF TypeOK
    <2>3. /\ task'[s].pc = task[s].pc /\ task'[s].kind = task[s].kind
          /\ task'[s].to = task[s].to /\ task'[s].then = task[s].then
      BY <2>1, <2>2 DEF Idle, TaskAt, Busy
    <2> QED
      BY <2>3 DEF SessionInv, Session
  <1>7. ASSUME NEW j \in Jobs,
               \/ CancelReads(j) \/ CancelCommits(j) \/ CancelUpstream(j)
               \/ EvictFlips(j) \/ EvictReads(j) \/ EvictCommits(j)
               \/ GoesQuiet(j) \/ Resume(j) \/ \E u \in Refs : UpstreamSettles(j, u)
        PROVE  SessionInv'
    BY <1>1, <1>7 DEF CancelReads, CancelCommits, CancelUpstream, EvictFlips, EvictReads,
       EvictCommits, GoesQuiet, UpstreamSettles, Resume
  <1>8. CASE Startup \/ SweepStalledJobs \/ ReclaimCommit
    BY <1>1, <1>8 DEF Startup, SweepStalledJobs, ReclaimCommit
  <1>9. CASE UNCHANGED vars
    BY <1>1, <1>9 DEF vars
  <1> QED
    BY <1>3, <1>4, <1>5, <1>6, <1>7, <1>8, <1>9, SlotKeepsSession DEF Next, ReclaimStep

LEMMA SessionAlways == Spec => []SessionInv
  <1>1. Init => SessionInv
    BY DEF Init, SessionInv, Session, Idle, TaskAt
  <1> QED
    BY <1>1, TypeCorrect, StepKeepsSession, PTL DEF Spec

-----------------------------------------------------------------------------
(* Delivery *)

\* A slot that is about to make its row "ready" was so before, or has just
\* resolved the handle.
LEMMA SlotDelivers ==
    ASSUME TypeOK, NEW s \in Slots, SlotStep(s)
    PROVE  /\ \A t \in Slots \ {s} : task'[t] = task[t]
           /\ Delivers(task'[s]) =>
                /\ task'[s].job = task[s].job
                /\ Delivers(task[s]) \/ handle'[task[s].job] # "pending"
  <1>a. task[s] \in Busy
    BY BusySlot DEF SlotStep, SubmitAccepted, SubmitFallsBack, PollAnswered,
       MaterializeFetched, MaterializeResolves, MaterializeMarks, Fails, Commit,
       Enqueue, Calling
  <1>0. /\ task[s] \in Busy /\ task[s].job \in Jobs /\ NoUrl \in Urls
        /\ state[task[s].job] \in JobStates
    BY <1>a, BoundsAssumption DEF TypeOK, Busy, NoUrl, Urls
  <1> DEFINE Goal == /\ \A t \in Slots \ {s} : task'[t] = task[t]
                     /\ Delivers(task'[s]) =>
                          /\ task'[s].job = task[s].job
                          /\ Delivers(task[s]) \/ handle'[task[s].job] # "pending"
  <1>1. ASSUME Release(s) PROVE Goal
    BY <1>1, ReleaseSlot DEF Delivers, Idle, TaskAt
  <1>2. ASSUME NEW then \in Tasks \cup {"none"}, HandOff(s, then) PROVE Goal
    BY <1>0, <1>2, HandOffSlot DEF Delivers
  <1>3. ASSUME NEW to \in JobStates \ {"ready"}, NEW ref \in Urls,
               NEW then \in Tasks \cup {"none"}, OpenWrite(s, to, ref, then)
        PROVE  Goal
    BY <1>0, <1>3, OpenWriteSlot DEF Delivers
  <1>4. CASE SubmitAccepted(s)
    BY <1>1, <1>3, <1>4 DEF SubmitAccepted, JobStates, Tasks
  <1>5. CASE SubmitFallsBack(s)
    BY <1>2, <1>5 DEF SubmitFallsBack, Tasks
  <1>6. CASE PollAnswered(s)
    BY <1>1, <1>6, PollSlot DEF Delivers
  <1>7. CASE MaterializeFetched(s)
    <2>1. task'[s] = At(s, "store") /\ \A t \in Slots \ {s} : task'[t] = task[t]
      BY <1>7 DEF MaterializeFetched, TypeOK
    <2> QED
      BY <1>0, <2>1, AtType DEF Delivers, PCs
  <1>8. CASE MaterializeResolves(s)
    <2>1. task'[s] = At(s, "mark") /\ \A t \in Slots \ {s} : task'[t] = task[t]
      BY <1>8 DEF MaterializeResolves, TypeOK
    <2>2. handle'[task[s].job] = "ready"
      BY <1>0, <1>8 DEF MaterializeResolves, TypeOK
    <2> QED
      BY <1>0, <2>1, <2>2, AtType DEF PCs
  <1>9. CASE MaterializeMarks(s)
    <2>1. CASE Legal(state[task[s].job], "ready")
      <3>1. OpenWrite(s, "ready", NoUrl, "none") /\ Delivers(task[s])
        BY <1>9, <2>1 DEF MaterializeMarks, Delivers
      <3> QED
        BY <1>0, <3>1, OpenWriteSlot DEF JobStates
    <2> QED
      BY <1>1, <1>9, <2>1 DEF MaterializeMarks
  <1>10. CASE Fails(s)
    BY <1>0, <1>1, <1>3, <1>10 DEF Fails, JobStates
  <1>11. CASE Commit(s)
    BY <1>0, <1>1, <1>2, <1>11 DEF Commit, Busy
  <1>12. CASE Enqueue(s)
    BY <1>1, <1>12 DEF Enqueue
  <1> QED
    BY <1>4, <1>5, <1>6, <1>7, <1>8, <1>9, <1>10, <1>11, <1>12 DEF SlotStep

LEMMA StepDelivers == TypeOK /\ DeliveryInv /\ [Next]_vars => DeliveryInv'
  <1> SUFFICES ASSUME TypeOK, DeliveryInv, [Next]_vars PROVE DeliveryInv'
    OBVIOUS
  <1> USE DEF rowVars, queueVars, procVars, spent
  \* The handle never goes back, a slot delivers on good grounds, and a row is
  \* made "ready" only by a slot that delivers.
  <1> DEFINE Onward == \A j \in Jobs : handle'[j] = "pending" => handle[j] = "pending"
             Grounds == \A s \in Slots : Delivers(task'[s]) =>
                           \/ Delivers(task[s]) /\ task'[s].job = task[s].job
                           \/ handle'[task'[s].job] # "pending"
             Earned == \A j \in Jobs : state'[j] = "ready" =>
                           \/ state[j] = "ready"
                           \/ \E s \in Slots : Delivers(task[s]) /\ task[s].job = j
  <1>1. ASSUME Onward, Grounds, Earned PROVE DeliveryInv'
    <2>1. \A s \in Slots : Delivers(task[s]) => task[s].job \in Jobs
      BY DEF Delivers, TypeOK, Busy, Idle, TaskAt
    <2>2. DeliveredWhenReady'
      BY <1>1, <2>1 DEF DeliveryInv, DeliveredWhenReady
    <2>3. \A s \in Slots : Delivers(task'[s]) => handle'[task'[s].job] # "pending"
      BY <1>1, <2>1 DEF DeliveryInv
    <2> QED
      BY <2>2, <2>3 DEF DeliveryInv
  <1>2. ASSUME UNCHANGED handle PROVE Onward
    BY <1>2
  <1>3. ASSUME UNCHANGED task PROVE Grounds
    BY <1>3
  <1>4. ASSUME UNCHANGED state PROVE Earned
    BY <1>4
  <1>5. ASSUME NEW s \in Slots, SlotStep(s) PROVE DeliveryInv'
    <2>1. Onward
      BY <1>2, <1>5 DEF SlotStep, SubmitAccepted, SubmitFallsBack, PollAnswered,
         MaterializeFetched, MaterializeResolves, MaterializeMarks, Fails, Commit,
         Enqueue, TypeOK
    <2>2. Grounds
      BY <1>5, SlotDelivers
    <2>3. Earned
      <3>1. CASE Commit(s)
        <4> SUFFICES ASSUME NEW j \in Jobs, state'[j] = "ready", state[j] # "ready"
                     PROVE  Delivers(task[s]) /\ task[s].job = j
          OBVIOUS
        <4>1. /\ task[s].pc = "write"
              /\ state' = [state EXCEPT ![task[s].job] =
                              IF task[s].to = "none" THEN @ ELSE task[s].to]
          BY <3>1 DEF Commit, CommitRow
        <4>2. task[s].job = j /\ task[s].to = "ready"
          BY <4>1 DEF TypeOK
        <4> QED
          BY <4>1, <4>2 DEF Delivers
      <3> QED
        BY <1>4, <1>5, <3>1 DEF SlotStep, SubmitAccepted, SubmitFallsBack, PollAnswered,
           MaterializeFetched, MaterializeResolves, MaterializeMarks, Fails, Enqueue
    <2> QED
      BY <1>1, <2>1, <2>2, <2>3
  <1>6. ~Delivers(Idle)
    BY DEF Delivers, Idle, TaskAt
  <1>7. ASSUME NEW s \in Slots, PollUnreachable(s) \/ PollCancelled(s) \/ TaskDies(s)
        PROVE  DeliveryInv'
    <2>1. Release(s) /\ UNCHANGED <<handle, state>>
      BY <1>7 DEF PollUnreachable, PollCancelled, TaskDies
    <2>2. Grounds
      BY <1>6, <2>1, ReleaseSlot
    <2> QED
      BY <1>1, <1>2, <1>4, <2>1, <2>2
  <1>8. ASSUME NEW s \in Slots, NEW j \in Jobs, NEW k \in Tasks, NEW r \in BOOLEAN,
               Runs(s, j, k, r)
        PROVE  DeliveryInv'
    <2>1. UNCHANGED <<handle, state>>
      BY <1>8 DEF Runs, StartReturns, StartInvalid, StartCalls, Start
    <2>2. Grounds
      <3>1. CASE StartReturns(s, j, k, r)
        BY <1>3, <3>1 DEF StartReturns
      <3>2. CASE StartInvalid(s, j, k, r)
        <4> DEFINE w == [TaskAt("write", j, k, r) EXCEPT !.to = "failed"]
        <4>1. ~Delivers(w)
          BY TaskAtType DEF PCs, Busy, Delivers
        <4> QED
          BY <3>2, <4>1 DEF StartInvalid, TypeOK
      <3>3. CASE StartCalls(s, j, k, r)
        <4> DEFINE w == [TaskAt("call", j, k, r) EXCEPT !.prov = spec[j].provider,
                             !.ref = url[j], !.ident = cred[j]]
        <4>1. ~Delivers(w)
          BY TaskAtType DEF PCs, Busy, Delivers
        <4> QED
          BY <3>3, <4>1 DEF StartCalls, TypeOK
      <3> QED
        BY <1>8, <3>1, <3>2, <3>3 DEF Runs
    <2> QED
      BY <1>1, <1>2, <1>4, <2>1, <2>2
  <1>9. CASE WorkerDies
    BY <1>1, <1>2, <1>4, <1>6, <1>9 DEF WorkerDies
  <1>10. CASE QueueLost
    <2>1. ASSUME NEW s \in Slots
          PROVE  /\ task'[s].pc = task[s].pc /\ task'[s].to = task[s].to
                 /\ task'[s].job = task[s].job
      <3>1. task'[s] = [task[s] EXCEPT !.resume = FALSE]
        BY <1>10 DEF QueueLost
      <3>2. task[s] = Idle \/ task[s] \in Busy
        BY DEF TypeOK
      <3> QED
        BY <3>1, <3>2 DEF Idle, TaskAt, Busy
    <2>2. Grounds
      BY <2>1 DEF Delivers
    <2> QED
      BY <1>1, <1>2, <1>4, <1>10, <2>2 DEF QueueLost
  <1>11. ASSUME NEW j \in Jobs, CancelCommits(j) \/ EvictCommits(j)
         PROVE  DeliveryInv'
    <2>1. Earned
      BY <1>11 DEF CancelCommits, EvictCommits, CommitRow, TypeOK
    <2> QED
      BY <1>1, <1>2, <1>3, <1>11, <2>1 DEF CancelCommits, EvictCommits
  <1>12. CASE ReclaimCommit
    <2>1. Earned
      BY <1>12 DEF ReclaimCommit
    <2> QED
      BY <1>1, <1>2, <1>3, <1>12, <2>1 DEF ReclaimCommit
  <1>13. ASSUME NEW j \in Jobs, EvictFlips(j) PROVE DeliveryInv'
    <2>1. Onward
      BY <1>13 DEF EvictFlips, TypeOK
    <2> QED
      BY <1>1, <1>3, <1>4, <1>13, <2>1 DEF EvictFlips
  <1>14. ASSUME NEW j \in Jobs,
                \/ CancelReads(j) \/ CancelUpstream(j) \/ EvictReads(j) \/ GoesQuiet(j)
                \/ Resume(j) \/ \E u \in Refs : UpstreamSettles(j, u)
         PROVE  DeliveryInv'
    BY <1>1, <1>2, <1>3, <1>4, <1>14 DEF CancelReads, CancelUpstream, EvictReads,
       GoesQuiet, Resume, UpstreamSettles
  <1>15. CASE Startup \/ SweepStalledJobs
    BY <1>1, <1>2, <1>3, <1>4, <1>15 DEF Startup, SweepStalledJobs
  <1>16. CASE UNCHANGED vars
    BY <1>1, <1>2, <1>3, <1>4, <1>16 DEF vars
  <1> QED
    BY <1>5, <1>7, <1>8, <1>9, <1>10, <1>11, <1>12, <1>13, <1>14, <1>15, <1>16
    DEF Next, ReclaimStep

\* A row is "ready" only once its obs_ handle was resolved, for all the
\* duplicate materializations, crashes and evictions in between.
THEOREM DeliverySafe == Spec => []DeliveredWhenReady
  <1>1. Init => DeliveryInv
    BY DEF Init, DeliveryInv, DeliveredWhenReady, Delivers, Idle, TaskAt
  <1>2. DeliveryInv => DeliveredWhenReady
    BY DEF DeliveryInv
  <1> QED
    BY <1>1, <1>2, TypeCorrect, StepDelivers, PTL DEF Spec

-----------------------------------------------------------------------------
(* A live row always has its next task *)

\* The row is owed a task and has it.
Attended(j) == state[j] \in NonTerminal => Held(j, RESUME_TASK[state[j]])

\* A step of one slot keeps a task in hand unless that slot had it and neither
\* keeps nor queues it.
LEMMA HeldFrame ==
    ASSUME NEW s \in Slots, NEW j \in Jobs, NEW k \in Tasks,
           \A t \in Slots \ {s} : task'[t] = task[t],
           Queued(j, k) => Queued(j, k)',
           Carries(s, j, k) => Carries(s, j, k)' \/ Queued(j, k)',
           Held(j, k)
    PROVE  Held(j, k)'
  BY DEF Held, Carries

LEMMA SameQueue ==
    ASSUME NEW j, NEW k, UNCHANGED queueVars
    PROVE  Queued(j, k) => Queued(j, k)'
  BY DEF queueVars, Queued

\* What is enqueued is queued, and nothing leaves the queue.
LEMMA EnqueueHolds ==
    ASSUME TypeOK, NEW j \in Jobs, NEW k \in Tasks, EnqueueFresh(j, k)
    PROVE  /\ Queued(j, k)'
           /\ \A x \in Jobs, y \in Tasks : Queued(x, y) => Queued(x, y)'
  <1>1. fresh[j] \in [Tasks -> Nat] /\ fresh[j][k] \in Nat
    BY DEF TypeOK
  <1>2. /\ fresh'[j][k] = fresh[j][k] + 1
        /\ \A x \in Jobs, y \in Tasks :
                fresh'[x][y] = IF x = j /\ y = k THEN fresh[j][k] + 1 ELSE fresh[x][y]
    BY <1>1 DEF EnqueueFresh, TypeOK
  <1>3. \A x \in Jobs, y \in Tasks : fresh[x][y] \in Nat
    BY DEF TypeOK
  <1>4. resumed' = resumed
    BY DEF EnqueueFresh
  <1> QED
    BY <1>1, <1>2, <1>3, <1>4 DEF Queued

LEMMA SlotAttends ==
    ASSUME TypeOK, SessionInv, NEW s \in Slots, SlotStep(s) \/ PollUnreachable(s),
           NEW j \in Jobs, Attended(j), state'[j] \in NonTerminal,
           NEW k \in Tasks, k = RESUME_TASK[state'[j]]
    PROVE  Held(j, k)'
  <1> USE DEF rowVars, procVars, spent
  <1>a. task[s] \in Busy
    BY BusySlot DEF SlotStep, SubmitAccepted, SubmitFallsBack, PollAnswered,
       MaterializeFetched, MaterializeResolves, MaterializeMarks, Fails, Commit,
       Enqueue, PollUnreachable, Calling
  <1>0. /\ task[s] \in Busy /\ task[s].job \in Jobs /\ NoUrl \in Urls
        /\ state[task[s].job] \in JobStates
    BY <1>a, BoundsAssumption DEF TypeOK, Busy, NoUrl, Urls
  \* Where the row's state stands still, what is owed must stay in hand.
  <1>1. ASSUME state' = state,
               \A t \in Slots \ {s} : task'[t] = task[t],
               Queued(j, k) => Queued(j, k)',
               Carries(s, j, k) => Carries(s, j, k)' \/ Queued(j, k)'
        PROVE  Held(j, k)'
    <2>1. Held(j, k)
      BY <1>1 DEF Attended
    <2> QED
      BY <1>1, <2>1, HeldFrame
  <1>2. ASSUME state' = state, UNCHANGED queueVars, Release(s),
               task[s].pc # "next", state[task[s].job] \notin NonTerminal
                    \/ task[s].kind # RESUME_TASK[state[task[s].job]]
        PROVE  Held(j, k)'
    <2>1. ~Carries(s, j, k)
      BY <1>2 DEF Carries
    <2> QED
      BY <1>1, <1>2, <2>1, ReleaseSlot, SameQueue
  <1>3. ASSUME state' = state, UNCHANGED queueVars,
               \A t \in Slots \ {s} : task'[t] = task[t],
               task[s].pc # "next", task'[s].pc # "next",
               task'[s].job = task[s].job, task'[s].kind = task[s].kind
        PROVE  Held(j, k)'
    <2>1. Carries(s, j, k) => Carries(s, j, k)'
      BY <1>3 DEF Carries
    <2> QED
      BY <1>1, <1>3, <2>1, SameQueue
  <1>4. CASE SubmitAccepted(s)
    <2>0. state' = state /\ UNCHANGED queueVars /\ task[s].pc = "call"
          /\ task[s].kind = "submit_job"
      BY <1>4 DEF SubmitAccepted, Calling
    <2>1. CASE Legal(state[task[s].job], "submitted")
      <3>1. PICK ref \in Urls : OpenWrite(s, "submitted", ref, "poll_job")
        BY <1>4, <2>1 DEF SubmitAccepted
      <3> QED
        BY <1>0, <1>3, <2>0, <3>1, OpenWriteSlot DEF JobStates, Tasks
    <2>2. CASE ~Legal(state[task[s].job], "submitted")
      BY <1>0, <1>2, <1>4, <2>0, <2>2, Edges, Owed DEF SubmitAccepted
    <2> QED
      BY <2>1, <2>2
  <1>5. CASE SubmitFallsBack(s)
    <2>1. state' = state /\ UNCHANGED queueVars /\ task[s].pc = "call"
          /\ task[s].kind = "submit_job" /\ HandOff(s, "submit_job")
      BY <1>5 DEF SubmitFallsBack, Calling
    <2>2. /\ task'[s].pc = "next" /\ task'[s].then = "submit_job"
          /\ task'[s].job = task[s].job
          /\ \A t \in Slots \ {s} : task'[t] = task[t]
      BY <1>0, <2>1, HandOffSlot DEF Tasks
    <2>3. Carries(s, j, k) => Carries(s, j, k)'
      BY <2>1, <2>2 DEF Carries
    <2> QED
      BY <1>1, <2>1, <2>2, <2>3, SameQueue
  <1>6. CASE PollAnswered(s)
    <2>0. state' = state /\ UNCHANGED queueVars /\ task[s].pc = "call"
          /\ task[s].kind = "poll_job"
      BY <1>6 DEF PollAnswered, Calling
    <2>1. CASE Release(s) /\ state[task[s].job] \notin {"submitted", "running"}
      BY <1>0, <1>2, <2>0, <2>1, Owed
    <2> QED
      BY <1>3, <1>6, <2>0, <2>1, PollSlot
  <1>7. CASE MaterializeFetched(s)
    <2>1. task'[s] = At(s, "store") /\ \A t \in Slots \ {s} : task'[t] = task[t]
      BY <1>7 DEF MaterializeFetched, TypeOK
    <2>2. task'[s].pc = "store" /\ task'[s].kind = task[s].kind /\ task'[s].job = task[s].job
      BY <1>0, <2>1, AtType DEF PCs
    <2> QED
      BY <1>3, <1>7, <2>1, <2>2 DEF MaterializeFetched, Calling
  <1>8. CASE MaterializeResolves(s)
    <2>1. task'[s] = At(s, "mark") /\ \A t \in Slots \ {s} : task'[t] = task[t]
      BY <1>8 DEF MaterializeResolves, TypeOK
    <2>2. task'[s].pc = "mark" /\ task'[s].kind = task[s].kind /\ task'[s].job = task[s].job
      BY <1>0, <2>1, AtType DEF PCs
    <2> QED
      BY <1>3, <1>8, <2>1, <2>2 DEF MaterializeResolves
  <1>9. CASE MaterializeMarks(s)
    <2>0. state' = state /\ UNCHANGED queueVars /\ task[s].pc = "mark"
          /\ task[s].kind = "materialize_job"
      BY <1>9 DEF MaterializeMarks, SessionInv, Session
    <2>1. CASE Legal(state[task[s].job], "ready")
      <3>1. OpenWrite(s, "ready", NoUrl, "none")
        BY <1>9, <2>1 DEF MaterializeMarks
      <3> QED
        BY <1>0, <1>3, <2>0, <3>1, OpenWriteSlot DEF JobStates
    <2>2. CASE ~Legal(state[task[s].job], "ready")
      BY <1>0, <1>2, <1>9, <2>0, <2>2, Edges, Owed DEF MaterializeMarks
    <2> QED
      BY <2>1, <2>2
  <1>10. CASE Fails(s)
    <2>0. state' = state /\ UNCHANGED queueVars /\ task[s].pc = "call"
      BY <1>10 DEF Fails
    <2>1. CASE Legal(state[task[s].job], "failed")
      <3>1. OpenWrite(s, "failed", NoUrl, "none")
        BY <1>10, <2>1 DEF Fails
      <3> QED
        BY <1>0, <1>3, <2>0, <3>1, OpenWriteSlot DEF JobStates
    <2>2. CASE ~Legal(state[task[s].job], "failed")
      <3>1. state[task[s].job] \notin NonTerminal /\ Release(s)
        BY <1>0, <1>10, <2>2, Edges DEF Fails, NonTerminal
      <3> QED
        BY <1>2, <2>0, <3>1
    <2> QED
      BY <2>1, <2>2
  <1>11. CASE Commit(s)
    <2>0. /\ task[s].pc = "write" /\ UNCHANGED queueVars
          /\ state' = [state EXCEPT ![task[s].job] =
                          IF task[s].to = "none" THEN @ ELSE task[s].to]
      BY <1>11 DEF Commit, CommitRow
    <2>1. Session(task[s])
      BY DEF SessionInv
    <2>2. task[s].then # "none" =>
            /\ task'[s].pc = "next" /\ task'[s].then = task[s].then
            /\ task'[s].job = task[s].job
            /\ \A t \in Slots \ {s} : task'[t] = task[t]
      BY <1>0, <1>11, HandOffSlot DEF Commit, Busy
    <2>3. CASE task[s].to = "none"
      <3>1. state' = state /\ task[s].kind = "poll_job" /\ task[s].then = "poll_job"
        BY <2>0, <2>1, <2>3 DEF Session, TERMINAL_STATES, TypeOK
      <3>2. Carries(s, j, k) => Carries(s, j, k)'
        BY <2>0, <2>2, <3>1 DEF Carries
      <3> QED
        BY <1>1, <2>0, <2>2, <3>1, <3>2, SameQueue
    <2>4. CASE task[s].to # "none" /\ task[s].job = j
      <3>1. state'[j] = task[s].to
        BY <2>0, <2>4 DEF TypeOK
      <3>2. task[s].then = k /\ task[s].then # "none"
        BY <2>0, <2>1, <3>1, Owed DEF Session, NonTerminal
      <3>3. Carries(s, j, k)'
        BY <2>2, <2>4, <3>2 DEF Carries
      <3> QED
        BY <3>3 DEF Held
    <2>5. CASE task[s].to # "none" /\ task[s].job # j
      <3>1. state'[j] = state[j]
        BY <2>0, <2>5 DEF TypeOK
      <3>2. ~Carries(s, j, k)
        BY <2>5 DEF Carries
      <3>3. \A t \in Slots \ {s} : task'[t] = task[t]
        BY <1>11, <2>2, ReleaseSlot DEF Commit
      <3>4. Held(j, k)
        BY <3>1 DEF Attended
      <3> QED
        BY <2>0, <3>2, <3>3, <3>4, HeldFrame, SameQueue
    <2> QED
      BY <2>3, <2>4, <2>5
  <1>12. CASE Enqueue(s)
    <2>1. task[s].then \in Tasks /\ task[s].pc = "next"
      BY <1>12 DEF Enqueue, SessionInv, Session
    <2>2. EnqueueFresh(task[s].job, task[s].then) /\ Release(s) /\ state' = state
      BY <1>12 DEF Enqueue
    <2>3. Carries(s, j, k) => Queued(j, k)'
      BY <1>0, <2>1, <2>2, EnqueueHolds DEF Carries
    <2>4. Queued(j, k) => Queued(j, k)'
      BY <1>0, <2>1, <2>2, EnqueueHolds
    <2> QED
      BY <1>1, <2>2, <2>3, <2>4, ReleaseSlot
  <1>13. CASE PollUnreachable(s)
    <2>1. /\ task[s].kind = "poll_job" /\ task[s].pc # "next" /\ state' = state
          /\ EnqueueFresh(task[s].job, "poll_job") /\ Release(s) /\ "poll_job" \in Tasks
      BY <1>13 DEF PollUnreachable, Tasks
    <2>2. Carries(s, j, k) => Queued(j, k)'
      BY <1>0, <2>1, EnqueueHolds DEF Carries
    <2>3. Queued(j, k) => Queued(j, k)'
      BY <1>0, <2>1, EnqueueHolds
    <2> QED
      BY <1>1, <2>1, <2>2, <2>3, ReleaseSlot
  <1> QED
    BY <1>4, <1>5, <1>6, <1>7, <1>8, <1>9, <1>10, <1>11, <1>12, <1>13 DEF SlotStep

\* A task that is taken off the queue is run, unless its guard says that the
\* row is owed another one.
LEMMA StartAttends ==
    ASSUME TypeOK, NEW s \in Slots, NEW i \in Jobs, NEW y \in Tasks, NEW r \in BOOLEAN,
           Runs(s, i, y, r),
           NEW j \in Jobs, Attended(j), state'[j] \in NonTerminal,
           NEW k \in Tasks, k = RESUME_TASK[state'[j]]
    PROVE  Held(j, k)'
  <1>0. /\ Dequeue(i, y, r) /\ task[s].pc = "idle" /\ state' = state
    BY DEF Runs, StartReturns, StartInvalid, StartCalls, Start, rowVars
  <1>1. Held(j, k)
    BY <1>0 DEF Attended
  <1>2. ~Carries(s, j, k)
    <2>1. task[s].job = NoJob
      <3>1. task[s] \in {Idle} \cup Busy
        BY DEF TypeOK
      <3>2. task[s] \notin Busy
        BY <1>0 DEF Busy, PCs
      <3> QED
        BY <3>1, <3>2 DEF Idle, TaskAt
    <2> QED
      BY <2>1, JobsAssumption DEF Carries
  <1>3. ASSUME ~(j = i /\ k = y), Queued(j, k) PROVE Queued(j, k)'
    <2>1. CASE r
      BY <1>0, <1>3, <2>1 DEF Dequeue, Queued
    <2>2. CASE ~r
      <3>1. fresh' = [fresh EXCEPT ![i][y] = fresh[i][y] - 1] /\ resumed' = resumed
        BY <1>0, <2>2 DEF Dequeue
      <3>2. fresh'[j][k] = fresh[j][k]
        BY <1>3, <3>1 DEF TypeOK
      <3> QED
        BY <1>3, <3>1, <3>2 DEF Queued
    <2> QED
      BY <2>1, <2>2
  <1>4. CASE StartReturns(s, i, y, r)
    <2>1. state[i] \notin Guard[y] /\ task' = task
      BY <1>4 DEF StartReturns
    <2>2. ~(j = i /\ k = y)
      BY <1>0, <2>1, Owed
    <2> QED
      BY <1>1, <1>2, <1>3, <2>1, <2>2, HeldFrame
  <1>5. ASSUME NEW w, task' = [task EXCEPT ![s] = w],
               w.job = i, w.kind = y, w.pc # "next"
        PROVE  Held(j, k)'
    <2>1. task'[s] = w /\ \A t \in Slots \ {s} : task'[t] = task[t]
      BY <1>5 DEF TypeOK
    <2>2. CASE j = i /\ k = y
      <3>1. Carries(s, j, k)'
        BY <1>5, <2>1, <2>2 DEF Carries
      <3> QED
        BY <3>1 DEF Held
    <2>3. CASE ~(j = i /\ k = y)
      BY <1>1, <1>2, <1>3, <2>1, <2>3, HeldFrame
    <2> QED
      BY <2>2, <2>3
  <1>6. CASE StartInvalid(s, i, y, r)
    <2> DEFINE w == [TaskAt("write", i, y, r) EXCEPT !.to = "failed"]
    <2>1. w.job = i /\ w.kind = y /\ w.pc = "write"
      BY TaskAtType DEF PCs, Busy
    <2> QED
      BY <1>5, <1>6, <2>1 DEF StartInvalid
  <1>7. CASE StartCalls(s, i, y, r)
    <2> DEFINE w == [TaskAt("call", i, y, r) EXCEPT !.prov = spec[i].provider,
                         !.ref = url[i], !.ident = cred[i]]
    <2>1. w.job = i /\ w.kind = y /\ w.pc = "call"
      BY TaskAtType DEF PCs, Busy
    <2> QED
      BY <1>5, <1>7, <2>1 DEF StartCalls
  <1> QED
    BY <1>4, <1>6, <1>7 DEF Runs

\* The other actors take nothing from the queue or the slots, and what they
\* write to a row is terminal.
LEMMA OthersAttend ==
    ASSUME TypeOK, NEW j \in Jobs, Attended(j), state'[j] \in NonTerminal,
           NEW k \in Tasks, k = RESUME_TASK[state'[j]],
           \/ Startup \/ SweepStalledJobs \/ ReclaimStep
           \/ \E i \in Jobs :
                \/ CancelReads(i) \/ CancelCommits(i) \/ CancelUpstream(i)
                \/ EvictFlips(i) \/ EvictReads(i) \/ EvictCommits(i)
                \/ GoesQuiet(i) \/ \E u \in Refs : UpstreamSettles(i, u)
           \/ UNCHANGED vars
    PROVE  Held(j, k)'
  <1> USE DEF rowVars, queueVars, procVars, spent
  <1>1. task' = task /\ fresh' = fresh /\ resumed \subseteq resumed'
    BY DEF Startup, SweepStalledJobs, ReclaimStep, ReclaimCommit, Resume, CancelReads,
       CancelCommits, CancelUpstream, EvictFlips, EvictReads, EvictCommits, GoesQuiet,
       UpstreamSettles, vars
  <1>2. state'[j] = state[j]
    <2>1. ASSUME NEW i \in Jobs, CancelCommits(i) \/ EvictCommits(i)
          PROVE  state'[j] = state[j]
      BY <2>1, Owed DEF CancelCommits, EvictCommits, CommitRow, TypeOK
    <2>2. ASSUME ReclaimCommit PROVE state'[j] = state[j]
      BY <2>2, Owed DEF ReclaimCommit
    <2> QED
      BY <2>1, <2>2 DEF Startup, SweepStalledJobs, ReclaimStep, Resume, CancelReads,
         CancelUpstream, EvictFlips, EvictReads, GoesQuiet, UpstreamSettles, vars
  <1>3. Held(j, k)
    BY <1>2 DEF Attended
  <1> QED
    BY <1>1, <1>3 DEF Held, Queued, Carries

\* Without faults every row stays attended.
AttendedInv == faults = 0 => \A j \in Jobs : Attended(j)

\* The tool queues the submit_job of the row it creates.
LEMMA InitAttends == Init => AttendedInv
  <1> SUFFICES ASSUME Init, NEW j \in Jobs
               PROVE  Held(j, RESUME_TASK[state[j]])
    BY DEF AttendedInv, Attended
  <1>1. state[j] = "pending" /\ fresh[j]["submit_job"] = 1
    BY DEF Init, Tasks
  <1> QED
    BY <1>1, Owed DEF Held, Queued

LEMMA StepAttends == TypeOK /\ SessionInv /\ AttendedInv /\ [Next]_vars => AttendedInv'
  <1> SUFFICES ASSUME TypeOK, SessionInv, AttendedInv, [Next]_vars, faults' = 0,
                      NEW j \in Jobs, state'[j] \in NonTerminal
               PROVE  Held(j, RESUME_TASK[state[j]])'
    BY DEF AttendedInv, Attended
  <1>0. PICK k \in Tasks : k = RESUME_TASK[state'[j]]
    BY Owed
  <1>1. ASSUME faults' = faults + 1 PROVE FALSE
    BY <1>1 DEF TypeOK
  <1>2. CASE \/ \E s \in Slots : TaskDies(s) \/ PollCancelled(s)
             \/ WorkerDies \/ QueueLost
    BY <1>1, <1>2, FaultsKeepType
  <1>3. CASE ~(\/ \E s \in Slots : TaskDies(s) \/ PollCancelled(s)
               \/ WorkerDies \/ QueueLost)
    <2>1. faults' = faults
      <3> USE DEF spent
      <3>1. ASSUME NEW s \in Slots, SlotStep(s) \/ PollUnreachable(s)
            PROVE  faults' = faults
        BY <3>1 DEF SlotStep, SubmitAccepted, SubmitFallsBack, PollAnswered,
           PollUnreachable, MaterializeFetched, MaterializeResolves, MaterializeMarks,
           Fails, Commit, Enqueue
      <3>2. ASSUME NEW s \in Slots, NEW i \in Jobs, NEW y \in Tasks, NEW r \in BOOLEAN,
                   Runs(s, i, y, r)
            PROVE  faults' = faults
        BY <3>2 DEF Runs, StartReturns, StartInvalid, StartCalls, Start
      <3>3. ASSUME NEW i \in Jobs,
                   \/ CancelReads(i) \/ CancelCommits(i) \/ CancelUpstream(i)
                   \/ EvictFlips(i) \/ EvictReads(i) \/ EvictCommits(i)
                   \/ GoesQuiet(i) \/ Resume(i) \/ \E u \in Refs : UpstreamSettles(i, u)
            PROVE  faults' = faults
        BY <3>3 DEF Resume, CancelReads, CancelCommits, CancelUpstream, EvictFlips,
           EvictReads, EvictCommits, GoesQuiet, UpstreamSettles
      <3>4. ASSUME Startup \/ SweepStalledJobs \/ ReclaimCommit \/ UNCHANGED vars
            PROVE  faults' = faults
        BY <3>4 DEF Startup, SweepStalledJobs, ReclaimCommit, vars
      <3> QED
        BY <1>3, <3>1, <3>2, <3>3, <3>4 DEF Next, ReclaimStep
    <2>2. Attended(j)
      BY <2>1 DEF AttendedInv
    <2>3. Held(j, k)'
      BY <1>0, <1>3, <2>2, SlotAttends, StartAttends, OthersAttend DEF Next
    <2> QED
      BY <1>0, <2>3 DEF Held, Queued, Carries
  <1> QED
    BY <1>2, <1>3

\* "A job stops being watched the moment a single path out of this function
\* forgets to leave a poll queued": none does.  As long as no worker dies, no
\* queue is lost and no task dies, a live row has its next task queued,
\* running or about to be queued, for any number of rows and slots, and
\* whatever cancels, sweeps, duplicates and transient faults come between.
THEOREM NothingForgotten == Spec => []NeverUnwatched
  <1>1. TypeOK /\ AttendedInv => NeverUnwatched
    BY DEF AttendedInv, Attended, NeverUnwatched, NonTerminalRows, Watched, NonTerminal,
       TypeOK
  <1> QED
    BY <1>1, InitAttends, TypeCorrect, SessionAlways, StepAttends, PTL DEF Spec

-----------------------------------------------------------------------------
(* A row is materialized from what its own submit created *)

\* The upstream work of the row is done: the property's conclusion.
Produced(j) ==
    IF spec[j].provider = "opendap" THEN url[j] = DapUrls
    ELSE url[j] \in Refs /\ up[j][url[j]] = "done"

Materialized(j) == state[j] \in {"materializing", "ready"}

\* No pass took a row for stalled, and no worker was restarted.
Undisturbed ==
    /\ \A j \in Jobs : ~quiet[j]
    /\ worker = "up" /\ reclaim.pc = "idle" /\ resumed = {}

\* The row has one task, queued or in a slot, or none.
OneTask(j) ==
    /\ \A k \in Tasks : fresh[j][k] <= 1
    /\ \A k, l \in Tasks : fresh[j][k] > 0 /\ fresh[j][l] > 0 => k = l
    /\ \A k \in Tasks, s \in Slots : fresh[j][k] > 0 => task[s].job # j
    /\ \A s, t \in Slots : task[s].job = j /\ task[t].job = j => s = t

\* What the row is when it has the task k before it.
Due(j, k) ==
    /\ k = "submit_job" => ~Materialized(j)
    /\ k = "poll_job" => (spec[j].provider = "opendap" => url[j] = DapUrls)
    /\ k = "materialize_job" => Produced(j)

\* What a slot has read of its row is still so, and what it is about to write fits.
SlotDue(s) ==
    LET t == task[s]
        j == t.job
    IN  /\ t.pc = "call" => t.prov = spec[j].provider /\ t.ref = url[j]
        /\ t.pc = "write" =>
              /\ t.to = "submitted" =>
                    /\ t.kind = "submit_job"
                    /\ IF spec[j].provider = "opendap" THEN t.ref = DapUrls ELSE t.ref \in Refs
              /\ t.to = "materializing" => t.kind = "poll_job" /\ Produced(j)
              /\ t.to = "ready" => t.kind = "materialize_job"
              /\ t.to \in {"running", "none"} => t.kind = "poll_job"
        /\ Due(j, IF t.pc = "next" THEN t.then ELSE t.kind)

RowDue(j) ==
    /\ OneTask(j)
    /\ Materialized(j) => Produced(j)
    /\ \A k \in Tasks : fresh[j][k] > 0 => Due(j, k)
    /\ \A s \in Slots : task[s].job = j => SlotDue(s)

ProductionInv == faults = 0 /\ stalls = 0 => Undisturbed /\ \A j \in Jobs : RowDue(j)

\* A step that leaves a row's columns, queue entries and slot alone keeps it
\* due; a write of another state than the two that count may come between, and
\* upstream work that is done stays done.
LEMMA RowFrame ==
    ASSUME NEW i \in Jobs, RowDue(i), fresh'[i] = fresh[i], spec'[i] = spec[i],
           url'[i] = url[i], state'[i] = state[i] \/ ~Materialized(i)',
           \A u \in Refs : up[i][u] = "done" => up'[i][u] = "done",
           \A s \in Slots : task'[s] = task[s] \/ (task[s].job # i /\ task'[s].job # i)
    PROVE  RowDue(i)'
  <1>1. Produced(i) => Produced(i)'
    BY DEF Produced
  <1>2. Materialized(i)' => Materialized(i)
    BY DEF Materialized
  <1>3. ASSUME NEW k, Due(i, k) PROVE Due(i, k)'
    BY <1>1, <1>2, <1>3 DEF Due
  <1>4. OneTask(i)'
    BY DEF RowDue, OneTask
  <1>5. ASSUME NEW s \in Slots, task'[s].job = i PROVE SlotDue(s)'
    <2>1. task'[s] = task[s] /\ task[s].job = i /\ SlotDue(s)
      BY <1>5 DEF RowDue
    <2>2. Due(i, IF task[s].pc = "next" THEN task[s].then ELSE task[s].kind)'
      BY <1>3, <2>1 DEF SlotDue
    <2> QED
      BY <1>1, <2>1, <2>2 DEF SlotDue
  <1> QED
    BY <1>1, <1>2, <1>3, <1>4, <1>5 DEF RowDue

\* A step of a slot that keeps its row or lets it go: the others keep theirs.
LEMMA SlotMoves ==
    ASSUME TypeOK, NEW s \in Slots, NEW j \in Jobs, task[s].job = j,
           \A i \in Jobs : RowDue(i), fresh' = fresh,
           \A i \in Jobs \ {j} : /\ state'[i] = state[i] /\ spec'[i] = spec[i]
                                 /\ url'[i] = url[i] /\ up'[i] = up[i],
           \A t \in Slots \ {s} : task'[t] = task[t],
           task'[s].job \in {j, NoJob},
           task'[s].job = j => SlotDue(s)',
           Materialized(j)' => Produced(j)'
    PROVE  \A i \in Jobs : RowDue(i)'
  <1>1. ASSUME NEW i \in Jobs, i # j PROVE RowDue(i)'
    <2>1. task'[s].job # i
      BY <1>1, JobsAssumption
    <2> QED
      BY <1>1, <2>1, RowFrame
  <1>2. OneTask(j) /\ \A k \in Tasks : ~(fresh[j][k] > 0)
    BY DEF RowDue, OneTask
  <1>3. OneTask(j)'
    BY <1>2 DEF OneTask
  <1>4. ASSUME NEW t \in Slots, task'[t].job = j PROVE SlotDue(t)'
    <2>1. t = s
      BY <1>2, <1>4 DEF OneTask
    <2> QED
      BY <1>4, <2>1
  <1>5. RowDue(j)'
    BY <1>2, <1>3, <1>4 DEF RowDue
  <1> QED
    BY <1>1, <1>5

\* A slot that enqueues its row's next task and lets it go.
LEMMA SlotEnqueues ==
    ASSUME TypeOK, NEW s \in Slots, NEW j \in Jobs, task[s].job = j,
           \A i \in Jobs : RowDue(i), NEW k \in Tasks, Due(j, k),
           EnqueueFresh(j, k), Release(s), UNCHANGED <<state, spec, url, up>>
    PROVE  \A i \in Jobs : RowDue(i)'
  <1>1. /\ task'[s].job = NoJob /\ NoJob \notin Jobs
        /\ \A t \in Slots \ {s} : task'[t] = task[t]
    BY ReleaseSlot, JobsAssumption DEF Idle, TaskAt
  <1>2. \A i \in Jobs, l \in Tasks : fresh[i][l] \in Nat
    BY DEF TypeOK
  <1>3. /\ fresh'[j] = [fresh[j] EXCEPT ![k] = fresh[j][k] + 1]
        /\ \A i \in Jobs \ {j} : fresh'[i] = fresh[i]
    BY DEF EnqueueFresh, TypeOK
  <1>4. \A l \in Tasks : fresh'[j][l] = IF l = k THEN fresh[j][k] + 1 ELSE fresh[j][l]
    BY <1>3 DEF TypeOK
  <1>5. OneTask(j) /\ \A l \in Tasks : fresh[j][l] = 0
    BY <1>2 DEF RowDue, OneTask
  <1>6. \A t \in Slots : task'[t].job # j
    BY <1>1, <1>5 DEF OneTask
  <1>7. OneTask(j)'
    BY <1>4, <1>5, <1>6 DEF OneTask
  <1>8. RowDue(j)'
    <2>1. Due(j, k)' /\ (Materialized(j)' => Produced(j)')
      BY DEF Due, RowDue, Materialized, Produced
    <2> QED
      BY <1>4, <1>5, <1>6, <1>7, <2>1 DEF RowDue
  <1>9. ASSUME NEW i \in Jobs, i # j PROVE RowDue(i)'
    BY <1>1, <1>3, <1>9, RowFrame
  <1> QED
    BY <1>8, <1>9

\* Each step of a slot's task.
LEMMA SlotProduces ==
    ASSUME TypeOK, SessionInv, NEW s \in Slots, SlotStep(s) \/ PollUnreachable(s),
           \A i \in Jobs : RowDue(i)
    PROVE  \A i \in Jobs : RowDue(i)'
  <1> USE DEF rowVars, queueVars, procVars, spent
  <1>a. task[s] \in Busy
    BY BusySlot DEF SlotStep, SubmitAccepted, SubmitFallsBack, PollAnswered,
       MaterializeFetched, MaterializeResolves, MaterializeMarks, Fails, Commit,
       Enqueue, PollUnreachable, Calling
  <1>b. PICK j \in Jobs, k \in Tasks, then \in Tasks \cup {"none"} :
            task[s].job = j /\ task[s].kind = k /\ task[s].then = then
    BY <1>a DEF Busy
  <1>0. /\ task[s] \in Busy /\ task[s].job = j /\ task[s].kind = k /\ task[s].then = then
        /\ NoUrl \in Urls /\ state[j] \in JobStates
        /\ RowDue(j) /\ SlotDue(s) /\ Session(task[s])
    BY <1>a, <1>b, BoundsAssumption DEF TypeOK, NoUrl, Urls, RowDue, SessionInv
  <1> DEFINE UpKept == /\ \A i \in Jobs \ {j} : up'[i] = up[i]
                       /\ \A u \in Refs : up[j][u] = "done" => up'[j][u] = "done"
  <1>1. ASSUME fresh' = fresh, UNCHANGED <<state, spec, url>>, UpKept,
               \A t \in Slots \ {s} : task'[t] = task[t],
               task'[s].job \in {j, NoJob}, task'[s].job = j => SlotDue(s)'
        PROVE  \A i \in Jobs : RowDue(i)'
    <2>1. Materialized(j)' => Produced(j)'
      BY <1>0, <1>1 DEF RowDue, Materialized, Produced
    <2> QED
      BY <1>0, <1>1, <2>1, SlotMoves
  <1>2. ASSUME fresh' = fresh, UNCHANGED <<state, spec, url>>, UpKept, Release(s)
        PROVE  \A i \in Jobs : RowDue(i)'
    <2>1. task'[s].job = NoJob /\ \A t \in Slots \ {s} : task'[t] = task[t]
      BY <1>2, ReleaseSlot DEF Idle, TaskAt
    <2> QED
      BY <1>0, <1>1, <1>2, <2>1, JobsAssumption
  <1>3. ASSUME UNCHANGED <<state, spec, url>>, UpKept PROVE \A x : Due(j, x) => Due(j, x)'
    BY <1>3 DEF Due, Materialized, Produced
  <1>4. CASE SubmitAccepted(s)
    <2>1. PICK ref \in Urls :
            /\ IF task[s].prov = "opendap" THEN OPeNDAPBuilds(ref) ELSE UpstreamAccepts(j, ref)
            /\ IF Legal(state[j], "submitted")
               THEN OpenWrite(s, "submitted", ref, "poll_job")
               ELSE Release(s)
      BY <1>0, <1>4 DEF SubmitAccepted
    <2>2. UNCHANGED <<state, spec, url, fresh>> /\ task[s].pc = "call"
          /\ task[s].kind = "submit_job"
      BY <1>4 DEF SubmitAccepted, Calling
    <2>3. task[s].prov = spec[j].provider /\ ~Materialized(j)
      BY <1>0, <2>2 DEF SlotDue, Due
    <2>4. /\ \A i \in Jobs \ {j} : up'[i] = up[i]
          /\ IF spec[j].provider = "opendap" THEN ref = DapUrls ELSE ref \in Refs
      BY <1>0, <2>1, <2>3 DEF OPeNDAPBuilds, UpstreamAccepts, TypeOK
    <2>5. ASSUME \A t \in Slots \ {s} : task'[t] = task[t],
                 task'[s].job \in {j, NoJob}, task'[s].job = j => SlotDue(s)'
          PROVE  \A i \in Jobs : RowDue(i)'
      BY <1>0, <2>2, <2>3, <2>4, <2>5, SlotMoves DEF Materialized
    <2>6. CASE Legal(state[j], "submitted")
      <3>1. OpenWrite(s, "submitted", ref, "poll_job") /\ state[j] # "submitted"
        BY <1>0, <2>1, <2>6, Edges
      <3>2. /\ task'[s].pc = "write" /\ task'[s].to = "submitted" /\ task'[s].ref = ref
            /\ task'[s].job = j /\ task'[s].kind = "submit_job"
            /\ \A t \in Slots \ {s} : task'[t] = task[t]
        BY <1>0, <2>2, <3>1, OpenWriteSlot DEF JobStates, Tasks
      <3>3. SlotDue(s)'
        BY <2>2, <2>3, <2>4, <3>2 DEF SlotDue, Due, Materialized
      <3> QED
        BY <2>5, <3>2, <3>3
    <2>7. CASE ~Legal(state[j], "submitted")
      <3>1. task'[s].job = NoJob /\ \A t \in Slots \ {s} : task'[t] = task[t]
        BY <2>1, <2>7, ReleaseSlot DEF Idle, TaskAt
      <3> QED
        BY <1>0, <2>5, <3>1, JobsAssumption
    <2> QED
      BY <2>6, <2>7
  <1>5. CASE SubmitFallsBack(s)
    <2>1. /\ UNCHANGED <<state, url, fresh>> /\ task[s].pc = "call"
          /\ task[s].kind = "submit_job" /\ HandOff(s, "submit_job")
          /\ \A i \in Jobs \ {j} : spec'[i] = spec[i] /\ up'[i] = up[i]
      BY <1>0, <1>5, UnheardType DEF SubmitFallsBack, Calling, TypeOK
    <2>2. /\ task'[s].pc = "next" /\ task'[s].then = "submit_job" /\ task'[s].job = j
          /\ \A t \in Slots \ {s} : task'[t] = task[t]
      BY <1>0, <2>1, HandOffSlot DEF Tasks
    <2>3. ~Materialized(j) /\ ~Materialized(j)'
      BY <1>0, <2>1 DEF SlotDue, Due, Materialized
    <2>4. SlotDue(s)'
      BY <2>2, <2>3 DEF SlotDue, Due
    <2> QED
      BY <1>0, <2>1, <2>2, <2>3, <2>4, SlotMoves
  <1>6. CASE PollAnswered(s)
    <2>0. /\ UNCHANGED <<state, spec, url, up, fresh>> /\ task[s].pc = "call"
          /\ task[s].kind = "poll_job"
      BY <1>6 DEF PollAnswered, Calling
    <2>1. PICK report \in PollReports(task[s].prov, task[s].ref, j) :
            IF state[j] \notin TERMINAL_STATES /\ PollLegal(state[j], report)
            THEN OpenWrite(s, PollTarget(state[j], report), NoUrl, PollNext(report))
            ELSE Release(s)
      BY <1>0, <1>6 DEF PollAnswered
    <2>2. /\ task[s].prov = spec[j].provider /\ task[s].ref = url[j]
          /\ Due(j, "poll_job")
      BY <1>0, <2>0 DEF SlotDue
    <2>3. report \in JobStates
      BY <2>1, ReportType
    <2>4. report = "ready" => Produced(j)
      BY <2>1, <2>2 DEF PollReports, HarmonyStatus, AppEEARSStatus, Produced, Due
    <2>5. CASE state[j] \notin TERMINAL_STATES /\ PollLegal(state[j], report)
      <3> DEFINE to == PollTarget(state[j], report)
      <3>1. OpenWrite(s, to, NoUrl, PollNext(report))
        BY <2>1, <2>5
      <3>2. to \in JobStates /\ PollNext(report) \in Tasks \cup {"none"}
        BY <1>0, PollTargetType, PollNextType
      <3>3. /\ task'[s].pc = "write" /\ task'[s].to = IF to = state[j] THEN "none" ELSE to
            /\ task'[s].job = j /\ task'[s].kind = "poll_job"
            /\ \A t \in Slots \ {s} : task'[t] = task[t]
        BY <1>0, <2>0, <3>1, <3>2, OpenWriteSlot
      <3>4. to # state[j] => /\ to \in {"running", "materializing", "failed", "cancelled"}
                             /\ to = "materializing" => report = "ready"
        BY DEF PollTarget
      <3>5. Due(j, "poll_job")' /\ (Produced(j) => Produced(j)')
        BY <1>3, <2>0, <2>2 DEF Produced
      <3>6. task'[s].to \in {"running", "materializing", "failed", "cancelled", "none"}
            /\ (task'[s].to = "materializing" => Produced(j)')
        BY <2>4, <3>3, <3>4, <3>5
      <3>7. SlotDue(s)'
        BY <3>3, <3>5, <3>6 DEF SlotDue
      <3> QED
        BY <1>1, <2>0, <3>3, <3>7
    <2>6. CASE ~(state[j] \notin TERMINAL_STATES /\ PollLegal(state[j], report))
      BY <1>2, <2>0, <2>1, <2>6
    <2> QED
      BY <2>5, <2>6
  <1>7. ASSUME UNCHANGED <<state, spec, url, up, fresh>>, NEW pc \in PCs,
               task' = [task EXCEPT ![s] = At(s, pc)],
               pc \in {"store", "mark"}, task[s].pc # "next"
        PROVE  \A i \in Jobs : RowDue(i)'
    <2>1. task'[s] = At(s, pc) /\ \A t \in Slots \ {s} : task'[t] = task[t]
      BY <1>7 DEF TypeOK
    <2>2. task'[s].pc = pc /\ task'[s].kind = k /\ task'[s].job = j
      BY <1>0, <2>1, AtType
    <2>3. Due(j, k)'
      BY <1>0, <1>3, <1>7 DEF SlotDue
    <2>4. SlotDue(s)'
      BY <1>7, <2>2, <2>3 DEF SlotDue
    <2> QED
      BY <1>1, <1>7, <2>1, <2>2, <2>4
  <1>8. CASE MaterializeFetched(s)
    BY <1>7, <1>8 DEF MaterializeFetched, Calling, PCs
  <1>9. CASE MaterializeResolves(s)
    BY <1>7, <1>9 DEF MaterializeResolves, PCs
  <1>10. CASE MaterializeMarks(s)
    <2>1. /\ UNCHANGED <<state, spec, url, up, fresh>> /\ task[s].pc = "mark"
          /\ task[s].kind = "materialize_job"
      BY <1>0, <1>10 DEF MaterializeMarks, Session
    <2>2. CASE Legal(state[j], "ready")
      <3>1. OpenWrite(s, "ready", NoUrl, "none") /\ state[j] # "ready"
        BY <1>0, <1>10, <2>2, Edges DEF MaterializeMarks
      <3>2. /\ task'[s].pc = "write" /\ task'[s].to = "ready"
            /\ task'[s].job = j /\ task'[s].kind = "materialize_job"
            /\ \A t \in Slots \ {s} : task'[t] = task[t]
        BY <1>0, <2>1, <3>1, OpenWriteSlot DEF JobStates
      <3>3. Due(j, "materialize_job")'
        BY <1>0, <1>3, <2>1 DEF SlotDue
      <3>4. SlotDue(s)'
        BY <3>2, <3>3 DEF SlotDue
      <3> QED
        BY <1>1, <2>1, <3>2, <3>4
    <2> QED
      BY <1>0, <1>2, <1>10, <2>1, <2>2 DEF MaterializeMarks
  <1>11. CASE Fails(s)
    <2>1. UNCHANGED <<state, spec, url, fresh>> /\ UpKept /\ task[s].pc = "call"
      BY <1>0, <1>11, UnheardType DEF Fails
    <2>2. CASE Legal(state[j], "failed")
      <3>1. OpenWrite(s, "failed", NoUrl, "none") /\ state[j] # "failed"
        BY <1>0, <1>11, <2>2, Edges DEF Fails, TERMINAL_STATES
      <3>2. /\ task'[s].pc = "write" /\ task'[s].to = "failed"
            /\ task'[s].job = j /\ task'[s].kind = k
            /\ \A t \in Slots \ {s} : task'[t] = task[t]
        BY <1>0, <3>1, OpenWriteSlot DEF JobStates
      <3>3. Due(j, k)'
        BY <1>0, <1>3, <2>1 DEF SlotDue
      <3>4. SlotDue(s)'
        BY <3>2, <3>3 DEF SlotDue
      <3> QED
        BY <1>1, <2>1, <3>2, <3>4
    <2> QED
      BY <1>0, <1>2, <1>11, <2>1, <2>2 DEF Fails
  <1>12. CASE Commit(s)
    <2>0. /\ task[s].pc = "write" /\ UNCHANGED <<fresh, up, spec>>
          /\ state' = [state EXCEPT ![j] = IF task[s].to = "none" THEN @ ELSE task[s].to]
          /\ url' = [url EXCEPT ![j] = IF task[s].to = "submitted" THEN task[s].ref ELSE @]
      BY <1>0, <1>12 DEF Commit, CommitRow
    <2>1. /\ state'[j] = IF task[s].to = "none" THEN state[j] ELSE task[s].to
          /\ url'[j] = IF task[s].to = "submitted" THEN task[s].ref ELSE url[j]
          /\ \A i \in Jobs \ {j} : state'[i] = state[i] /\ url'[i] = url[i]
      BY <1>0, <2>0 DEF TypeOK
    <2>2. task[s].to # "submitted" => (Produced(j) => Produced(j)')
      BY <2>0, <2>1 DEF Produced
    <2>3. Materialized(j)' => Produced(j)'
      <3>1. CASE task[s].to = "none"
        BY <1>0, <2>1, <2>2, <3>1 DEF RowDue, Materialized
      <3>2. CASE task[s].to = "materializing"
        BY <1>0, <2>0, <2>2, <3>2 DEF SlotDue
      <3>3. CASE task[s].to = "ready"
        BY <1>0, <2>0, <2>2, <3>3 DEF SlotDue, Due
      <3> QED
        BY <2>1, <3>1, <3>2, <3>3 DEF Materialized
    <2>4. CASE task[s].then = "none"
      <3>1. task'[s].job = NoJob /\ \A t \in Slots \ {s} : task'[t] = task[t]
        BY <1>12, <2>4, ReleaseSlot DEF Commit, Idle, TaskAt
      <3> QED
        BY <1>0, <2>0, <2>1, <2>3, <3>1, JobsAssumption, SlotMoves
    <2>5. CASE task[s].then # "none"
      <3>1. /\ task'[s].pc = "next" /\ task'[s].then = then /\ task'[s].job = j
            /\ \A t \in Slots \ {s} : task'[t] = task[t]
        BY <1>0, <1>12, <2>5, HandOffSlot DEF Commit, Busy
      <3>2. ASSUME task[s].to = "submitted" PROVE Due(j, then)'
        <4>1. task[s].then = "poll_job"
          BY <1>0, <2>0, <3>2 DEF Session, TERMINAL_STATES
        <4>2. spec[j].provider = "opendap" => url'[j] = DapUrls
          BY <1>0, <2>0, <2>1, <3>2 DEF SlotDue
        <4>3. Due(j, "poll_job")'
          BY <2>0, <4>2 DEF Due, DapUrls
        <4> QED
          BY <1>0, <4>1, <4>3
      <3>3. ASSUME task[s].to \in {"running", "none"} PROVE Due(j, then)'
        <4>1. task[s].then = "poll_job" /\ Due(j, "poll_job")
          BY <1>0, <2>0, <3>3 DEF Session, SlotDue, TERMINAL_STATES
        <4>2. Due(j, "poll_job")'
          BY <2>0, <2>1, <3>3, <4>1 DEF Due, DapUrls
        <4> QED
          BY <1>0, <4>1, <4>2
      <3>4. ASSUME task[s].to = "materializing" PROVE Due(j, then)'
        <4>1. task[s].then = "materialize_job"
          BY <1>0, <2>0, <3>4 DEF Session, TERMINAL_STATES
        <4>2. Due(j, "materialize_job")'
          BY <1>0, <2>0, <2>2, <3>4 DEF Due, SlotDue
        <4> QED
          BY <1>0, <4>1, <4>2
      <3>5. Due(j, then)'
        BY <1>0, <2>0, <2>5, <3>1, <3>2, <3>3, <3>4 DEF Session
      <3>6. SlotDue(s)'
        BY <3>1, <3>5 DEF SlotDue
      <3> QED
        BY <1>0, <2>0, <2>1, <2>3, <3>1, <3>6, SlotMoves
    <2> QED
      BY <2>4, <2>5
  <1>13. CASE Enqueue(s)
    <2>1. task[s].then \in Tasks /\ Due(j, task[s].then)
      BY <1>0, <1>13 DEF Enqueue, Session, SlotDue
    <2> QED
      BY <1>0, <1>13, <2>1, SlotEnqueues DEF Enqueue
  <1>14. CASE PollUnreachable(s)
    <2>1. task[s].pc # "next" /\ task[s].kind = "poll_job" /\ "poll_job" \in Tasks
      BY <1>14 DEF PollUnreachable, Tasks
    <2>2. Due(j, "poll_job")
      BY <1>0, <2>1 DEF SlotDue
    <2> QED
      BY <1>0, <1>14, <2>1, <2>2, SlotEnqueues DEF PollUnreachable
  <1> QED
    BY <1>4, <1>5, <1>6, <1>8, <1>9, <1>10, <1>11, <1>12, <1>13, <1>14 DEF SlotStep

\* A slot takes the row's one task, off a queue that holds no resumed one.
LEMMA StartProduces ==
    ASSUME TypeOK, NEW s \in Slots, NEW j \in Jobs, NEW k \in Tasks, NEW r \in BOOLEAN,
           Runs(s, j, k, r), resumed = {}, \A i \in Jobs : RowDue(i)
    PROVE  resumed' = {} /\ \A i \in Jobs : RowDue(i)'
  <1>0. /\ Dequeue(j, k, r) /\ task[s].pc = "idle" /\ UNCHANGED <<state, spec, url, up>>
    BY DEF Runs, StartReturns, StartInvalid, StartCalls, Start, rowVars
  <1>1. /\ fresh[j][k] > 0 /\ resumed' = {}
        /\ fresh' = [fresh EXCEPT ![j][k] = fresh[j][k] - 1]
    BY <1>0 DEF Dequeue
  <1>2. \A i \in Jobs, l \in Tasks : fresh[i][l] \in Nat
    BY DEF TypeOK
  <1>3. /\ \A i \in Jobs \ {j} : fresh'[i] = fresh[i]
        /\ \A l \in Tasks : fresh'[j][l] = IF l = k THEN fresh[j][k] - 1 ELSE fresh[j][l]
    BY <1>1 DEF TypeOK
  <1>4. task[s].job = NoJob /\ NoJob \notin Jobs
    <2>1. task[s] \in {Idle} \cup Busy /\ task[s] \notin Busy
      BY <1>0 DEF TypeOK, Busy, PCs
    <2> QED
      BY <2>1, JobsAssumption DEF Idle, TaskAt
  <1>5. OneTask(j) /\ Due(j, k) /\ (Materialized(j) => Produced(j))
    BY <1>1 DEF RowDue
  <1>6. \A l \in Tasks : fresh'[j][l] = 0
    BY <1>1, <1>2, <1>3, <1>5 DEF OneTask
  <1>7. \A t \in Slots : task[t].job # j
    BY <1>1, <1>5 DEF OneTask
  <1>8. ASSUME \A t \in Slots \ {s} : task'[t] = task[t],
               task'[s].job \in {j, NoJob}, task'[s].job = j => SlotDue(s)'
        PROVE  \A i \in Jobs : RowDue(i)'
    <2>1. OneTask(j)'
      BY <1>6, <1>7, <1>8 DEF OneTask
    <2>2. Materialized(j)' => Produced(j)'
      BY <1>0, <1>5 DEF Materialized, Produced
    <2>3. RowDue(j)'
      BY <1>6, <1>7, <1>8, <2>1, <2>2 DEF RowDue
    <2>4. ASSUME NEW i \in Jobs, i # j PROVE RowDue(i)'
      BY <1>0, <1>3, <1>4, <1>8, <2>4, RowFrame
    <2> QED
      BY <2>3, <2>4
  <1>9. Due(j, k)'
    BY <1>0, <1>5 DEF Due, Materialized, Produced
  <1>10. CASE StartReturns(s, j, k, r)
    BY <1>1, <1>4, <1>8, <1>10 DEF StartReturns
  <1>11. ASSUME NEW w, task' = [task EXCEPT ![s] = w], w.job = j, w.kind = k,
                \/ w.pc = "write" /\ w.to = "failed"
                \/ w.pc = "call" /\ w.prov = spec[j].provider /\ w.ref = url[j]
         PROVE  \A i \in Jobs : RowDue(i)'
    <2>1. task'[s] = w /\ \A t \in Slots \ {s} : task'[t] = task[t]
      BY <1>11 DEF TypeOK
    <2>2. SlotDue(s)'
      BY <1>0, <1>9, <1>11, <2>1 DEF SlotDue
    <2> QED
      BY <1>8, <1>11, <2>1, <2>2
  <1>12. CASE StartInvalid(s, j, k, r)
    <2> DEFINE w == [TaskAt("write", j, k, r) EXCEPT !.to = "failed"]
    <2>1. w.job = j /\ w.kind = k /\ w.pc = "write" /\ w.to = "failed"
      BY TaskAtType DEF PCs, Busy
    <2> QED
      BY <1>1, <1>11, <1>12, <2>1 DEF StartInvalid
  <1>13. CASE StartCalls(s, j, k, r)
    <2> DEFINE w == [TaskAt("call", j, k, r) EXCEPT !.prov = spec[j].provider,
                         !.ref = url[j], !.ident = cred[j]]
    <2>1. /\ w.job = j /\ w.kind = k /\ w.pc = "call"
          /\ w.prov = spec[j].provider /\ w.ref = url[j]
      BY TaskAtType DEF PCs, Busy
    <2> QED
      BY <1>1, <1>11, <1>13, <2>1 DEF StartCalls
  <1> QED
    BY <1>1, <1>10, <1>12, <1>13 DEF Runs

\* The server, the sweeps and the providers cancel, expire and finish.
LEMMA OthersProduce ==
    ASSUME TypeOK, \A i \in Jobs : RowDue(i), NEW j \in Jobs,
           \/ CancelReads(j) \/ CancelCommits(j) \/ CancelUpstream(j)
           \/ EvictFlips(j) \/ EvictReads(j) \/ EvictCommits(j)
           \/ \E u \in Refs : UpstreamSettles(j, u)
    PROVE  \A i \in Jobs : RowDue(i)'
  <1> USE DEF rowVars, queueVars, procVars, spent
  <1> SUFFICES ASSUME NEW i \in Jobs PROVE RowDue(i)'
    OBVIOUS
  <1>1. UNCHANGED <<task, fresh, spec>>
    BY DEF CancelReads, CancelCommits, CancelUpstream, EvictFlips, EvictReads,
       EvictCommits, UpstreamSettles, CommitRow
  <1>2. CASE CancelCommits(j) \/ EvictCommits(j)
    <2>1. /\ url'[i] = url[i] /\ up' = up
          /\ state'[i] = state[i] \/ state'[i] \in {"cancelled", "expired"}
      BY <1>2 DEF CancelCommits, EvictCommits, CommitRow, TypeOK
    <2> QED
      BY <1>1, <2>1, RowFrame DEF Materialized
  <1>3. CASE ~(CancelCommits(j) \/ EvictCommits(j))
    <2>1. UNCHANGED <<state, url>>
      BY <1>3 DEF CancelReads, CancelUpstream, EvictFlips, EvictReads, UpstreamSettles
    <2>2. ASSUME NEW u \in Refs, up[i][u] = "done" PROVE up'[i][u] = "done"
      <3>1. ASSUME NEW v, NEW x, up[j][v] = "active", up' = [up EXCEPT ![j][v] = x]
            PROVE  up'[i][u] = "done"
        <4>1. ~(i = j /\ u = v)
          BY <2>2, <3>1
        <4> QED
          BY <2>2, <3>1, <4>1 DEF TypeOK
      <3> QED
        BY <1>3, <2>2, <3>1 DEF CancelReads, CancelUpstream, UpstreamCancels, EvictFlips,
           EvictReads, UpstreamSettles
    <2> QED
      BY <1>1, <2>1, <2>2, RowFrame
  <1> QED
    BY <1>2, <1>3

\* Without faults and stalls no row falls quiet, so no pass finds one to
\* reclaim, and the worker is never restarted.
LEMMA StepUndisturbed ==
    ASSUME TypeOK, AttendedInv, Undisturbed, [Next]_vars,
           faults = 0, stalls = 0, faults' = 0, stalls' = 0
    PROVE  /\ Undisturbed'
           /\ ~Startup /\ ~SweepStalledJobs /\ ~ReclaimStep /\ ~WorkerDies /\ ~QueueLost
           /\ \A s \in Slots : ~PollCancelled(s) /\ ~TaskDies(s)
           /\ \A j \in Jobs : ~GoesQuiet(j)
  <1> USE DEF rowVars, queueVars, procVars, spent
  <1>1. ~Startup /\ ~SweepStalledJobs /\ ~ReclaimStep
    BY DEF Undisturbed, Startup, SweepStalledJobs, ReclaimStep, ReclaimCommit, Resume,
       StalledRows, NonTerminalRows
  <1>2. /\ ~WorkerDies /\ ~QueueLost
        /\ \A s \in Slots : ~PollCancelled(s) /\ ~TaskDies(s)
    BY DEF WorkerDies, QueueLost, PollCancelled, TaskDies
  <1>3. \A j \in Jobs : ~GoesQuiet(j)
    <2> SUFFICES ASSUME NEW j \in Jobs, GoesQuiet(j) PROVE FALSE
      OBVIOUS
    <2>1. state[j] \in NonTerminal
      BY DEF GoesQuiet, NonTerminal, TypeOK
    <2>2. Watched(j)
      BY <2>1 DEF AttendedInv, Attended, Watched
    <2> QED
      BY <2>2 DEF GoesQuiet
  <1>4. ASSUME NEW s \in Slots, SlotStep(s) \/ PollUnreachable(s) PROVE Undisturbed'
    <2>1. UNCHANGED <<worker, reclaim, resumed>>
      BY <1>4 DEF SlotStep, SubmitAccepted, SubmitFallsBack, PollAnswered,
         PollUnreachable, MaterializeFetched, MaterializeResolves, MaterializeMarks,
         Fails, Commit, Enqueue, EnqueueFresh
    <2>2. \A j \in Jobs : quiet'[j] => quiet[j]
      BY <1>4 DEF SlotStep, SubmitAccepted, SubmitFallsBack, PollAnswered,
         PollUnreachable, MaterializeFetched, MaterializeResolves, MaterializeMarks,
         Fails, Commit, CommitRow, Enqueue, TypeOK
    <2> QED
      BY <2>1, <2>2 DEF Undisturbed
  <1>5. ASSUME NEW s \in Slots, NEW j \in Jobs, NEW k \in Tasks, NEW r \in BOOLEAN,
               Runs(s, j, k, r)
        PROVE  Undisturbed'
    BY <1>5 DEF Runs, StartReturns, StartInvalid, StartCalls, Start, Dequeue, Undisturbed
  <1>6. ASSUME NEW j \in Jobs,
               \/ CancelReads(j) \/ CancelCommits(j) \/ CancelUpstream(j)
               \/ EvictFlips(j) \/ EvictReads(j) \/ EvictCommits(j)
               \/ \E u \in Refs : UpstreamSettles(j, u)
        PROVE  Undisturbed'
    <2>1. UNCHANGED <<worker, reclaim, resumed>>
      BY <1>6 DEF CancelReads, CancelCommits, CancelUpstream, EvictFlips, EvictReads,
         EvictCommits, UpstreamSettles
    <2>2. \A i \in Jobs : quiet'[i] => quiet[i]
      BY <1>6 DEF CancelReads, CancelCommits, CancelUpstream, EvictFlips, EvictReads,
         EvictCommits, UpstreamSettles, CommitRow, TypeOK
    <2> QED
      BY <2>1, <2>2 DEF Undisturbed
  <1>7. ASSUME UNCHANGED vars PROVE Undisturbed'
    BY <1>7 DEF vars, Undisturbed
  <1> QED
    BY <1>1, <1>2, <1>3, <1>4, <1>5, <1>6, <1>7 DEF Next

LEMMA StepProduces ==
    TypeOK /\ SessionInv /\ AttendedInv /\ ProductionInv /\ TypeOK' /\ [Next]_vars
        => ProductionInv'
  <1> SUFFICES ASSUME TypeOK, SessionInv, AttendedInv, ProductionInv, [Next]_vars,
                      faults' = 0, stalls' = 0, TypeOK'
               PROVE  Undisturbed' /\ \A j \in Jobs : RowDue(j)'
    BY DEF ProductionInv
  <1> USE DEF rowVars, queueVars, procVars, spent
  <1>1. faults' >= faults /\ stalls' >= stalls
    <2> USE DEF TypeOK
    <2>1. ASSUME NEW s \in Slots,
                 SlotStep(s) \/ PollUnreachable(s) \/ PollCancelled(s) \/ TaskDies(s)
          PROVE  faults' >= faults /\ stalls' >= stalls
      BY <2>1 DEF SlotStep, SubmitAccepted, SubmitFallsBack, PollAnswered,
         PollUnreachable, MaterializeFetched, MaterializeResolves, MaterializeMarks,
         Fails, Commit, Enqueue, PollCancelled, TaskDies
    <2>2. ASSUME NEW s \in Slots, NEW i \in Jobs, NEW y \in Tasks, NEW r \in BOOLEAN,
                 Runs(s, i, y, r)
          PROVE  faults' >= faults /\ stalls' >= stalls
      BY <2>2 DEF Runs, StartReturns, StartInvalid, StartCalls, Start
    <2>3. ASSUME NEW i \in Jobs,
                 \/ CancelReads(i) \/ CancelCommits(i) \/ CancelUpstream(i)
                 \/ EvictFlips(i) \/ EvictReads(i) \/ EvictCommits(i)
                 \/ GoesQuiet(i) \/ Resume(i) \/ \E u \in Refs : UpstreamSettles(i, u)
          PROVE  faults' >= faults /\ stalls' >= stalls
      BY <2>3 DEF Resume, CancelReads, CancelCommits, CancelUpstream, EvictFlips,
         EvictReads, EvictCommits, GoesQuiet, UpstreamSettles
    <2>4. ASSUME \/ Startup \/ SweepStalledJobs \/ ReclaimCommit \/ WorkerDies
                 \/ QueueLost \/ UNCHANGED vars
          PROVE  faults' >= faults /\ stalls' >= stalls
      BY <2>4 DEF Startup, SweepStalledJobs, ReclaimCommit, WorkerDies, QueueLost, vars
    <2> QED
      BY <2>1, <2>2, <2>3, <2>4 DEF Next, ReclaimStep
  <1>2. faults = 0 /\ stalls = 0
    BY <1>1 DEF TypeOK
  <1>3. Undisturbed /\ \A j \in Jobs : RowDue(j)
    BY <1>2 DEF ProductionInv
  <1>4. /\ Undisturbed'
        /\ ~Startup /\ ~SweepStalledJobs /\ ~ReclaimStep /\ ~WorkerDies /\ ~QueueLost
        /\ \A s \in Slots : ~PollCancelled(s) /\ ~TaskDies(s)
        /\ \A j \in Jobs : ~GoesQuiet(j)
    BY <1>2, <1>3, StepUndisturbed
  <1>5. ASSUME UNCHANGED vars PROVE \A j \in Jobs : RowDue(j)'
    BY <1>3, <1>5, RowFrame DEF vars
  <1>6. \A j \in Jobs : RowDue(j)'
    BY <1>3, <1>4, <1>5, SlotProduces, StartProduces, OthersProduce DEF Next, Undisturbed
  <1> QED
    BY <1>4, <1>6

\* As long as no task was delivered twice, nothing is materialized but the
\* upstream work that the row's own submit created and its own provider
\* reported done, through the URL the row stored: neither a late answer, a
\* cancel, an eviction, the fallback to another provider nor a transient fault
\* makes a poll or a download read another job's URL, or one provider's URL as
\* another's.
THEOREM MadeFromItsOwn == Spec => []ProducedWhenReady
  <1>1. Init => ProductionInv
    <2> SUFFICES ASSUME Init PROVE Undisturbed /\ \A j \in Jobs : RowDue(j)
      BY DEF ProductionInv
    <2>1. Undisturbed
      BY DEF Init, Undisturbed
    <2>2. ASSUME NEW j \in Jobs PROVE RowDue(j)
      <3>1. /\ \A k \in Tasks : fresh[j][k] = IF k = "submit_job" THEN 1 ELSE 0
            /\ \A s \in Slots : task[s].job # j
            /\ ~Materialized(j)
        BY JobsAssumption DEF Init, Idle, TaskAt, Materialized
      <3> QED
        BY <3>1 DEF RowDue, OneTask, Due
    <2> QED
      BY <2>1, <2>2
  <1>2. Init => AttendedInv
    BY InitAttends
  <1>3. ProductionInv => ProducedWhenReady
    BY DEF ProductionInv, ProducedWhenReady, RowDue, Materialized, Produced
  <1> QED
    BY <1>1, <1>2, <1>3, TypeCorrect, SessionAlways, StepAttends, StepProduces, PTL DEF Spec
=============================================================================
