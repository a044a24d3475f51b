------------------------- MODULE ResultHandleProofs -------------------------
(***************************************************************************)
(* Proofs about ResultHandle, for any number of calls, tools, rows, sweeps *)
(* and any bounds.                                                         *)
(*                                                                         *)
(*   TypeCorrect         the payload, rows, calls and sweeps keep types    *)
(*   AskedStaysKept      an answered request's handle is not speculative   *)
(*   PendingStaysOwned   a pending handle has an owner, or can be retried  *)
(*   SignatureHasOneJob  racing identical requests end with one row        *)
(***************************************************************************)
EXTENDS ResultHandle, TLAPS

-----------------------------------------------------------------------------
(* Types *)

LEMMA ConstantTypes ==
    /\ NoHandle \in Payloads /\ NewCall \in CallStates /\ NoSweep \in SweepStates
    /\ NoKey \in Keys /\ 0 \in 0..MaxJobs
  <1>1. NoKey \in Keys /\ 0 \in 0..MaxJobs
    BY BoundsAssumption DEF NoKey, Keys
  <1>2. NoHandle \in Payloads
    BY <1>1 DEF NoHandle, Payloads
  <1> QED
    BY <1>1, <1>2 DEF NewCall, CallStates, NoSweep, SweepStates, Tools, Patches

\* What each patch leaves is a payload, and it never makes a result speculative
\* nor a handle absent.
LEMMA MergedType ==
    ASSUME NEW payload \in Payloads, NEW patch
    PROVE  /\ Merged(payload, patch) \in Payloads
           /\ Merged(payload, patch).speculative => payload.speculative
           /\ payload.status # "absent" => Merged(payload, patch).status # "absent"
           /\ patch = "promote" => ~Merged(payload, patch).speculative
           /\ patch = "pending" => Merged(payload, patch).status = "pending"
           /\ patch # "pending" => Merged(payload, patch).status = payload.status
  BY DEF Merged, Payloads

LEMMA MintedType ==
    ASSUME NEW kind
    PROVE  /\ Minted(kind) \in Payloads
           /\ Minted(kind).status = "pending"
           /\ Minted(kind).speculative <=> kind = "prefetch"
  BY ConstantTypes DEF Minted, Payloads, NoHandle

LEMMA CommitsType ==
    ASSUME TypeOK, NEW loaded, NEW merged \in Payloads, Commits(loaded, merged)
    PROVE  handle' \in Payloads /\ clashes' \in Nat
  BY DEF Commits, TypeOK

\* A call's record as the tools rewrite it.
LEMMA CallTypes ==
    ASSUME NEW record \in CallStates, NEW match \in Payloads
    PROVE  /\ \A patch \in Patches : Patching(record, patch) \in CallStates
           /\ Reused(record, match) \in CallStates
  <1>1. \A r \in CallStates : \A patch \in Patches : Patching(r, patch) \in CallStates
    BY DEF Patching, CallStates
  <1>2. [record EXCEPT !.match = match] \in CallStates
    BY DEF CallStates
  <1>3. [record EXCEPT !.match = match, !.pc = "verdict"] \in CallStates
    BY DEF CallStates
  <1> QED
    BY <1>1, <1>2, <1>3 DEF Reused, Patches

LEMMA EndsType ==
    ASSUME TypeOK, NEW c \in Calls, NEW pc \in {"insert", "done", "died"}, Ends(c, pc)
    PROVE  call' \in [Calls -> CallStates]
  <1>1. call[c].kind \in Tools \cup {"none"}
    BY DEF TypeOK, CallStates
  <1>2. [NewCall EXCEPT !.kind = call[c].kind, !.pc = pc] \in CallStates
    BY <1>1, ConstantTypes DEF CallStates
  <1> QED
    BY <1>2 DEF Ends, TypeOK

LEMMA FaultType ==
    ASSUME TypeOK, Fault
    PROVE  faults' \in Nat /\ clashes' \in Nat /\ evictions' \in Nat
  BY DEF Fault, TypeOK

LEMMA CallTypeStep ==
    ASSUME TypeOK, NEW c \in Calls, CallStep(c) \/ CallDies(c)
    PROVE  TypeOK'
  <1> USE DEF bounds
  <1>0. /\ call[c] \in CallStates /\ call \in [Calls -> CallStates] /\ handle \in Payloads
        /\ rows \in 0..MaxJobs /\ faults \in Nat /\ clashes \in Nat /\ evictions \in Nat
    BY DEF TypeOK
  <1>1. CASE Look(c)
    <2>1. PICK kind \in Kinds :
            \/ call' = [call EXCEPT ![c] = [call[c] EXCEPT !.kind = kind, !.pc = "insert"]]
            \/ call' = [call EXCEPT ![c] = [call[c] EXCEPT !.kind = kind, !.pc = "done"]]
            \/ call' = [call EXCEPT ![c] = Reused([call[c] EXCEPT !.kind = kind], handle)]
            \/ call' = [call EXCEPT ![c] = [call[c] EXCEPT !.kind = kind, !.match = handle, !.pc = "verdict"]]
            \/ call' = [call EXCEPT ![c] = Patching([call[c] EXCEPT !.kind = kind], "pin")]
            \/ call' = [call EXCEPT ![c] = Patching([call[c] EXCEPT !.kind = kind], "unpin")]
      BY <1>1 DEF Look, Turns, Retrieve, Prefetch, Rematerialize, PinResult, Unpin
    <2>2. kind \in Tools
      BY KindsAssumption
    <2>3. /\ [call[c] EXCEPT !.kind = kind] \in CallStates
          /\ [call[c] EXCEPT !.kind = kind, !.pc = "insert"] \in CallStates
          /\ [call[c] EXCEPT !.kind = kind, !.pc = "done"] \in CallStates
          /\ [call[c] EXCEPT !.kind = kind, !.match = handle, !.pc = "verdict"] \in CallStates
      BY <1>0, <2>2 DEF CallStates
    <2>4. "pin" \in Patches /\ "unpin" \in Patches
      BY DEF Patches
    <2>5. call' \in [Calls -> CallStates]
      BY <1>0, <2>1, <2>3, <2>4, CallTypes
    <2> QED
      BY <1>1, <2>5 DEF Look, TypeOK
  <1>2. CASE Insert(c)
    <2>1. CASE handle = NoHandle
      <3>1. handle' \in Payloads
        BY <1>2, <2>1, MintedType DEF Insert
      <3>2. [call[c] EXCEPT !.pc = "create"] \in CallStates
        BY <1>0 DEF CallStates
      <3>3. call' = [call EXCEPT ![c] = [call[c] EXCEPT !.pc = "create"]]
        BY <1>2, <2>1 DEF Insert, Goes
      <3> QED
        BY <1>0, <1>2, <3>1, <3>2, <3>3 DEF Insert, TypeOK
    <2>2. CASE handle # NoHandle /\ call[c].kind = "prefetch"
      <3>1. call' \in [Calls -> CallStates]
        BY <1>2, <2>2, EndsType DEF Insert
      <3> QED
        BY <1>2, <2>2, <3>1 DEF Insert, TypeOK
    <2>3. CASE handle # NoHandle /\ call[c].kind # "prefetch"
      <3>1. [call[c] EXCEPT !.lost = TRUE] \in CallStates
        BY <1>0 DEF CallStates
      <3>2. call' = [call EXCEPT ![c] = Reused([call[c] EXCEPT !.lost = TRUE], handle)]
        BY <1>2, <2>3 DEF Insert
      <3>3. call' \in [Calls -> CallStates]
        BY <1>0, <3>1, <3>2, CallTypes
      <3> QED
        BY <1>2, <2>3, <3>3 DEF Insert, TypeOK
    <2> QED
      BY <2>1, <2>2, <2>3
  <1>3. CASE Answer(c)
    BY <1>3, EndsType DEF Answer, TypeOK
  <1>4. CASE Replay(c)
    <2>1. [call[c] EXCEPT !.match = NoHandle, !.replay = rows] \in CallStates
      BY <1>0, ConstantTypes DEF CallStates
    <2>2. call' = [call EXCEPT ![c] = Patching([call[c] EXCEPT !.match = NoHandle, !.replay = rows], "pending")]
      BY <1>4 DEF Replay
    <2>3. call' \in [Calls -> CallStates]
      BY <1>0, <2>1, <2>2, CallTypes, ConstantTypes DEF Patches
    <2> QED
      BY <1>4, <2>3 DEF Replay, TypeOK
  <1>5. CASE Submit(c)
    BY <1>5, EndsType DEF Submit, TypeOK
  <1>6. CASE GiveUp(c)
    <2>1. [call[c] EXCEPT !.match = NoHandle] \in CallStates
      BY <1>0, ConstantTypes DEF CallStates
    <2>2. call' = [call EXCEPT ![c] = Patching([call[c] EXCEPT !.match = NoHandle], "pending")]
      BY <1>6 DEF GiveUp
    <2>3. call' \in [Calls -> CallStates]
      BY <1>0, <2>1, <2>2, CallTypes, ConstantTypes DEF Patches
    <2>4. faults' \in Nat /\ clashes' \in Nat /\ evictions' \in Nat
      BY <1>0, <1>6, FaultType DEF GiveUp
    <2> QED
      BY <1>6, <2>3, <2>4 DEF GiveUp, TypeOK
  <1>7. CASE CallLoads(c)
    <2>1. [call[c] EXCEPT !.loaded = handle, !.pc = "commit"] \in CallStates
      BY <1>0 DEF CallStates
    <2>2. call' = [call EXCEPT ![c] = [call[c] EXCEPT !.loaded = handle, !.pc = "commit"]]
      BY <1>7 DEF CallLoads
    <2> QED
      BY <1>0, <1>7, <2>1, <2>2 DEF CallLoads, TypeOK
  <1>8. CASE CallCommits(c)
    <2>1. Merged(call[c].loaded, call[c].patch) \in Payloads
      BY <1>0, MergedType DEF CallStates
    <2>2. handle' \in Payloads /\ clashes' \in Nat
      BY <1>8, <2>1, CommitsType DEF CallCommits
    <2>3. call' \in [Calls -> CallStates]
      <3>1. CASE AfterPatch(call[c].patch) = "done"
        BY <1>8, <3>1, EndsType DEF CallCommits
      <3>2. CASE AfterPatch(call[c].patch) # "done"
        <4>1. AfterPatch(call[c].patch) \in {"verdict", "create"}
          BY <3>2 DEF AfterPatch
        <4>2. [call[c] EXCEPT !.loaded = NoHandle, !.patch = "none",
                              !.pc = AfterPatch(call[c].patch)] \in CallStates
          BY <1>0, <4>1, ConstantTypes DEF CallStates, Patches
        <4> QED
          BY <1>0, <1>8, <3>2, <4>2 DEF CallCommits
      <3> QED
        BY <3>1, <3>2
    <2> QED
      BY <1>8, <2>2, <2>3 DEF CallCommits, TypeOK
  <1>9. CASE Create(c)
    <2>1. rows + 1 \in Rows /\ rows' \in 0..MaxJobs
      BY <1>0, <1>9, BoundsAssumption DEF Create, Rows
    <2>2. call[c].replay # 0 => call[c].replay \in Rows
      BY <1>0, BoundsAssumption DEF CallStates, Rows
    <2> DEFINE key == IF call[c].replay = 0 THEN rows + 1 ELSE job[call[c].replay].key
    <2>3. key \in Keys
      BY <2>1, <2>2, BoundsAssumption DEF TypeOK, JobRows, Keys, Rows
    <2>4. [job[rows + 1] EXCEPT !.state = "live", !.key = key] \in JobRows
      BY <2>1, <2>3 DEF TypeOK, JobRows, RowStates
    <2>5. job' = [job EXCEPT ![rows + 1] = [job[rows + 1] EXCEPT !.state = "live", !.key = key]]
      BY <1>9 DEF Create
    <2>6. job' \in [Rows -> JobRows]
      BY <2>4, <2>5 DEF TypeOK
    <2>7. call' \in [Calls -> CallStates]
      BY <1>9, EndsType DEF Create
    <2> QED
      BY <1>9, <2>1, <2>6, <2>7 DEF Create, TypeOK
  <1>10. CASE CallDies(c)
    BY <1>10, EndsType, FaultType DEF CallDies, TypeOK
  <1> QED
    BY <1>1, <1>2, <1>3, <1>4, <1>5, <1>6, <1>7, <1>8, <1>9, <1>10 DEF CallStep

LEMMA JobTypeStep ==
    ASSUME TypeOK, NEW i \in Rows, JobStep(i) \/ JobEnds(i) \/ JobRestarts(i)
    PROVE  TypeOK'
  <1> USE DEF bounds
  <1>0. /\ job[i] \in JobRows /\ job \in [Rows -> JobRows] /\ handle \in Payloads
        /\ job[i].key \in Keys /\ job[i].loaded \in Payloads
    BY DEF TypeOK, JobRows
  <1>1. ASSUME NEW row \in JobRows, job' = [job EXCEPT ![i] = row]
        PROVE  job' \in [Rows -> JobRows]
    BY <1>0, <1>1
  <1>2. CASE JobFetches(i)
    <2>1. [job[i] EXCEPT !.pc = "fetch"] \in JobRows
      BY <1>0 DEF JobRows
    <2>2. job' \in [Rows -> JobRows]
      BY <1>1, <1>2, <2>1 DEF JobFetches
    <2> QED
      BY <1>2, <2>2 DEF JobFetches, TypeOK
  <1>3. CASE JobStores(i)
    <2>1. [job[i] EXCEPT !.pc = "stored"] \in JobRows
      BY <1>0 DEF JobRows
    <2>2. job' \in [Rows -> JobRows]
      BY <1>1, <1>3, <2>1 DEF JobStores
    <2> QED
      BY <1>0, <1>3, <2>2 DEF JobStores, TypeOK
  <1>4. CASE JobLoads(i)
    <2>1. [job[i] EXCEPT !.loaded = handle, !.pc = "commit"] \in JobRows
      BY <1>0 DEF JobRows
    <2>2. job' = [job EXCEPT ![i] = [job[i] EXCEPT !.loaded = handle, !.pc = "commit"]]
      BY <1>4 DEF JobLoads
    <2> QED
      BY <1>1, <1>4, <2>1, <2>2 DEF JobLoads, TypeOK
  <1>5. CASE JobResolves(i)
    <2>1. [job[i].loaded EXCEPT !.status = "ready", !.key = job[i].key] \in Payloads
      BY <1>0 DEF Payloads
    <2>2. handle' \in Payloads /\ clashes' \in Nat
      BY <1>5, <2>1, CommitsType DEF JobResolves
    <2>3. [job[i] EXCEPT !.pc = "resolved", !.loaded = NoHandle] \in JobRows
      BY <1>0, ConstantTypes DEF JobRows
    <2>4. job' = [job EXCEPT ![i] = [job[i] EXCEPT !.pc = "resolved", !.loaded = NoHandle]]
      BY <1>5 DEF JobResolves
    <2> QED
      BY <1>1, <1>5, <2>2, <2>3, <2>4 DEF JobResolves, TypeOK
  <1>6. CASE JobReady(i)
    <2>1. [job[i] EXCEPT !.state = "ready"] \in JobRows
      BY <1>0 DEF JobRows, RowStates
    <2>2. job' \in [Rows -> JobRows]
      BY <1>1, <1>6, <2>1 DEF JobReady
    <2> QED
      BY <1>6, <2>2 DEF JobReady, TypeOK
  <1>7. CASE JobEnds(i)
    <2>1. [job[i] EXCEPT !.state = "dead"] \in JobRows
      BY <1>0 DEF JobRows, RowStates
    <2>2. job' \in [Rows -> JobRows]
      BY <1>1, <1>7, <2>1 DEF JobEnds
    <2> QED
      BY <1>7, <2>2 DEF JobEnds, TypeOK
  <1>8. CASE JobRestarts(i)
    <2>1. [job[i] EXCEPT !.pc = "none", !.loaded = NoHandle] \in JobRows
      BY <1>0, ConstantTypes DEF JobRows
    <2>2. job' = [job EXCEPT ![i] = [job[i] EXCEPT !.pc = "none", !.loaded = NoHandle]]
      BY <1>8 DEF JobRestarts
    <2> QED
      BY <1>1, <1>8, <2>1, <2>2, FaultType DEF JobRestarts, TypeOK
  <1> QED
    BY <1>2, <1>3, <1>4, <1>5, <1>6, <1>7, <1>8 DEF JobStep

LEMMA SweepTypeStep ==
    ASSUME TypeOK, NEW w \in Sweeps, SweepStep(w) \/ SweepDies(w)
    PROVE  TypeOK'
  <1> USE DEF bounds
  <1>0. /\ sweep[w] \in SweepStates /\ sweep \in [Sweeps -> SweepStates]
        /\ handle \in Payloads /\ handle.key \in Keys
        /\ sweep[w].loaded \in Payloads
    BY DEF TypeOK, SweepStates, Payloads
  <1>1. ASSUME NEW record \in SweepStates, sweep' = [sweep EXCEPT ![w] = record]
        PROVE  sweep' \in [Sweeps -> SweepStates]
    BY <1>0, <1>1
  <1>2. CASE SweepReadsKeys(w)
    <2> DEFINE record == [sweep[w] EXCEPT !.refs = {handle.key} \ {NoKey}, !.pc = "orphans"]
    <2>1. record \in SweepStates
      BY <1>0 DEF SweepStates
    <2>2. sweep' = [sweep EXCEPT ![w] = record]
      BY <1>2 DEF SweepReadsKeys
    <2> QED
      BY <1>1, <1>2, <2>1, <2>2 DEF SweepReadsKeys, TypeOK
  <1>3. CASE ReclaimOrphans(w)
    BY <1>1, <1>3, ConstantTypes DEF ReclaimOrphans, TypeOK
  <1>4. CASE SweepSelects(w)
    <2>1. [NoSweep EXCEPT !.key = handle.key, !.pc = "delete"] \in SweepStates
      BY <1>0, ConstantTypes DEF SweepStates
    <2> QED
      BY <1>1, <1>4, <2>1 DEF SweepSelects, TypeOK
  <1>5. CASE EvictDeletes(w)
    <2>1. [sweep[w] EXCEPT !.pc = "load"] \in SweepStates
      BY <1>0 DEF SweepStates
    <2>2. sweep' \in [Sweeps -> SweepStates]
      BY <1>1, <1>5, <2>1 DEF EvictDeletes
    <2> QED
      BY <1>5, <2>2 DEF EvictDeletes, TypeOK
  <1>6. CASE EvictLoads(w)
    <2>1. [sweep[w] EXCEPT !.loaded = handle, !.pc = "commit"] \in SweepStates
      BY <1>0 DEF SweepStates
    <2>2. sweep' = [sweep EXCEPT ![w] = [sweep[w] EXCEPT !.loaded = handle, !.pc = "commit"]]
      BY <1>6 DEF EvictLoads
    <2> QED
      BY <1>1, <1>6, <2>1, <2>2 DEF EvictLoads, TypeOK
  <1>7. CASE EvictFlips(w)
    <2>1. [sweep[w].loaded EXCEPT !.status = "expired", !.key = NoKey] \in Payloads
      BY <1>0, ConstantTypes DEF Payloads
    <2>2. handle' \in Payloads /\ clashes' \in Nat
      BY <1>7, <2>1, CommitsType DEF EvictFlips
    <2>3. [NoSweep EXCEPT !.pc = "row"] \in SweepStates
      BY ConstantTypes DEF SweepStates
    <2> QED
      BY <1>1, <1>7, <2>2, <2>3 DEF EvictFlips, TypeOK
  <1>8. CASE EvictMarksRow(w)
    <2>1. job' \in [Rows -> JobRows]
      <3>1. CASE ~NoJob /\ job[rows].state = "ready"
        <4>1. rows \in Rows
          BY <3>1, BoundsAssumption DEF NoJob, TypeOK, Rows
        <4>2. [job[rows] EXCEPT !.state = "expired"] \in JobRows
          BY <4>1 DEF TypeOK, JobRows, RowStates
        <4> QED
          BY <1>8, <3>1, <4>2 DEF EvictMarksRow, TypeOK
      <3> QED
        BY <1>8, <3>1 DEF EvictMarksRow, TypeOK
    <2> QED
      BY <1>1, <1>8, <2>1, ConstantTypes DEF EvictMarksRow, TypeOK
  <1>9. CASE SweepDies(w)
    BY <1>1, <1>9, ConstantTypes, FaultType DEF SweepDies, TypeOK
  <1> QED
    BY <1>2, <1>3, <1>4, <1>5, <1>6, <1>7, <1>8, <1>9 DEF SweepStep

LEMMA TypeStep == TypeOK /\ [Next]_vars => TypeOK'
  <1> SUFFICES ASSUME TypeOK, [Next]_vars PROVE TypeOK'
    OBVIOUS
  <1>1. CASE UNCHANGED vars
    BY <1>1 DEF TypeOK, vars
  <1> QED
    BY <1>1, CallTypeStep, JobTypeStep, SweepTypeStep DEF Next

LEMMA InitType == Init => TypeOK
  <1> SUFFICES ASSUME Init PROVE TypeOK
    OBVIOUS
  <1>1. [state |-> "none", pc |-> "none", key |-> NoKey, loaded |-> NoHandle] \in JobRows
    BY ConstantTypes DEF JobRows, RowStates
  <1> QED
    BY <1>1, ConstantTypes DEF Init, TypeOK

\* The handle's payload, its rows, the calls and the sweeps keep their types,
\* whatever the tools, the worker and the sweep do to them and in what order.
THEOREM TypeCorrect == Spec => []TypeOK
  BY InitType, TypeStep, PTL DEF Spec

-----------------------------------------------------------------------------
(* A handle in use is there, and stays there *)

CallPresent(record, payload) ==
    /\ record.pc \in {"verdict", "load", "commit", "create"} => payload.status # "absent"
    /\ record.pc = "commit" => record.loaded.status # "absent"

RowPresent(record, payload) ==
    /\ record.state # "none" \/ record.pc # "none" => payload.status # "absent"
    /\ record.pc = "commit" => record.loaded.status # "absent"

SweepPresent(record, payload) ==
    /\ record.pc \in {"delete", "load", "commit"} => payload.status # "absent"
    /\ record.pc = "commit" => record.loaded.status # "absent"

\* Whoever works on the handle, or loaded its payload to commit it, has one.
PresentInv ==
    /\ handle.status = "absent" => handle = NoHandle
    /\ \A c \in Calls : CallPresent(call[c], handle)
    /\ \A i \in Rows : RowPresent(job[i], handle)
    /\ \A w \in Sweeps : SweepPresent(sweep[w], handle)

\* What any step may do to the handle: it does not go away, and as long as no
\* commit undid another a requested result does not become a guess again.
HandleKept ==
    /\ handle.status # "absent" => handle'.status # "absent"
    /\ handle'.status = "absent" => handle' = NoHandle
    /\ clashes' = 0 =>
        /\ clashes = 0
        /\ handle.status # "absent" /\ ~handle.speculative => ~handle'.speculative

\* A commit that is no clash wrote over what it had loaded, or nothing.
LEMMA CleanCommit ==
    ASSUME TypeOK, NEW loaded, NEW merged, Commits(loaded, merged)
    PROVE  /\ \/ handle' = handle /\ merged = loaded /\ clashes' = clashes
              \/ handle' = merged
           /\ clashes' = 0 => /\ clashes = 0
                              /\ \/ handle' = handle /\ merged = loaded
                                 \/ handle' = merged /\ handle = loaded
  BY DEF Commits, TypeOK

LEMMA HandleStep ==
    ASSUME TypeOK, PresentInv, [Next]_vars
    PROVE  HandleKept
  <1> USE DEF bounds
  <1>0. /\ clashes \in Nat /\ handle \in Payloads
        /\ handle.status = "absent" => handle = NoHandle
    BY DEF TypeOK, PresentInv
  <1>1. ASSUME handle' = handle, clashes' = clashes
        PROVE  HandleKept
    BY <1>0, <1>1 DEF HandleKept
  <1>2. ASSUME NEW loaded \in Payloads, NEW merged \in Payloads, Commits(loaded, merged),
               merged.status # "absent", merged.speculative => loaded.speculative
        PROVE  HandleKept
    BY <1>0, <1>2, CleanCommit DEF HandleKept
  <1>3. ASSUME Fault PROVE clashes' = clashes
    BY <1>3 DEF Fault
  <1>4. ASSUME NEW c \in Calls, CallStep(c) \/ CallDies(c) PROVE HandleKept
    <2>1. CASE Look(c)
      BY <1>1, <2>1 DEF Look
    <2>2. CASE Insert(c)
      <3>1. CASE handle = NoHandle
        BY <1>0, <2>2, <3>1, MintedType DEF Insert, HandleKept, NoHandle
      <3> QED
        BY <1>1, <2>2, <3>1 DEF Insert
    <2>3. CASE CallCommits(c)
      <3>1. call[c].loaded \in Payloads
        BY DEF TypeOK, CallStates
      <3>2. call[c].loaded.status # "absent"
        BY <2>3 DEF PresentInv, CallPresent, CallCommits
      <3>3. Commits(call[c].loaded, Merged(call[c].loaded, call[c].patch))
        BY <2>3 DEF CallCommits
      <3> QED
        BY <1>2, <3>1, <3>2, <3>3, MergedType
    <2>4. CASE \/ Answer(c) \/ Replay(c) \/ Submit(c) \/ GiveUp(c) \/ CallLoads(c)
               \/ Create(c) \/ CallDies(c)
      BY <1>1, <1>3, <2>4 DEF Answer, Replay, Submit, GiveUp, CallLoads, Create, CallDies
    <2> QED
      BY <1>4, <2>1, <2>2, <2>3, <2>4 DEF CallStep
  <1>5. ASSUME NEW i \in Rows, JobStep(i) \/ JobEnds(i) \/ JobRestarts(i) PROVE HandleKept
    <2>1. CASE JobResolves(i)
      <3>1. job[i].loaded \in Payloads /\ job[i].key \in Keys
        BY DEF TypeOK, JobRows
      <3> DEFINE merged == [job[i].loaded EXCEPT !.status = "ready", !.key = job[i].key]
      <3>2. /\ merged \in Payloads /\ merged.status = "ready"
            /\ merged.speculative = job[i].loaded.speculative
        BY <3>1 DEF Payloads
      <3>3. Commits(job[i].loaded, merged)
        BY <2>1 DEF JobResolves
      <3> QED
        BY <1>2, <3>1, <3>2, <3>3
    <2>2. CASE \/ JobFetches(i) \/ JobStores(i) \/ JobLoads(i) \/ JobReady(i)
               \/ JobEnds(i) \/ JobRestarts(i)
      BY <1>1, <1>3, <2>2 DEF JobFetches, JobStores, JobLoads, JobReady, JobEnds, JobRestarts
    <2> QED
      BY <1>5, <2>1, <2>2 DEF JobStep
  <1>6. ASSUME NEW w \in Sweeps, SweepStep(w) \/ SweepDies(w) PROVE HandleKept
    <2>1. CASE EvictFlips(w)
      <3>1. sweep[w].loaded \in Payloads
        BY DEF TypeOK, SweepStates
      <3> DEFINE merged == [sweep[w].loaded EXCEPT !.status = "expired", !.key = NoKey]
      <3>2. /\ merged \in Payloads /\ merged.status = "expired"
            /\ merged.speculative = sweep[w].loaded.speculative
        BY <3>1, ConstantTypes DEF Payloads
      <3>3. Commits(sweep[w].loaded, merged)
        BY <2>1 DEF EvictFlips
      <3> QED
        BY <1>2, <3>1, <3>2, <3>3
    <2>2. CASE \/ SweepReadsKeys(w) \/ ReclaimOrphans(w) \/ SweepSelects(w) \/ EvictDeletes(w)
               \/ EvictLoads(w) \/ EvictMarksRow(w) \/ SweepDies(w)
      BY <1>1, <1>3, <2>2 DEF SweepReadsKeys, ReclaimOrphans, SweepSelects, EvictDeletes,
            EvictLoads, EvictMarksRow, SweepDies
    <2> QED
      BY <1>6, <2>1, <2>2 DEF SweepStep
  <1> QED
    BY <1>1, <1>4, <1>5, <1>6 DEF Next, vars

-----------------------------------------------------------------------------
(* How a step moves a call, a row and a sweep *)

\* A call rewrites its own record only.
LEMMA OwnRecord ==
    ASSUME TypeOK, NEW c \in Calls, CallStep(c) \/ CallDies(c)
    PROVE  \A d \in Calls \ {c} : call'[d] = call[d]
  BY DEF CallStep, Look, Turns, Retrieve, Prefetch, Rematerialize, PinResult, Unpin,
         Insert, Goes, Answer, Ends, Replay, Submit, GiveUp, CallLoads, CallCommits, Create,
         CallDies, TypeOK

LEMMA EndsRecord ==
    ASSUME TypeOK, NEW c \in Calls, NEW pc, Ends(c, pc)
    PROVE  /\ call'[c].pc = pc /\ call'[c].kind = call[c].kind /\ call'[c].patch = "none"
           /\ call'[c].match = NoHandle /\ call'[c].loaded = NoHandle
  BY DEF Ends, TypeOK, NewCall

\* _reuse_response_for_match either promotes its match or goes on to its job.
LEMMA ReusedRecord ==
    ASSUME NEW record \in CallStates, NEW match \in Payloads
    PROVE  LET r == Reused(record, match)
           IN  /\ r.kind = record.kind /\ r.loaded = record.loaded /\ r.match = match
               /\ \/ match.speculative /\ r.pc = "load" /\ r.patch = "promote"
                  \/ ~match.speculative /\ r.pc = "verdict" /\ r.patch = record.patch
  BY DEF Reused, Patching, CallStates

\* What a call's look at the handle leads to.
LEMMA LookRecord ==
    ASSUME TypeOK, NEW c \in Calls, Look(c)
    PROVE  LET r == call'[c]
           IN  /\ r.loaded = call[c].loaded
               /\ \/ r.pc = "insert" /\ r.match = call[c].match
                  \/ r.pc = "done" /\ r.kind # "retrieve" /\ r.match = call[c].match
                  \/ /\ handle # NoHandle /\ r.match = handle
                     /\ \/ r.pc = "load" /\ r.patch = "promote"
                        \/ r.pc = "verdict" /\ (r.kind = "retrieve" => ~handle.speculative)
                  \/ /\ handle # NoHandle /\ r.pc = "load" /\ r.patch \in {"pin", "unpin"}
                     /\ r.kind # "retrieve" /\ r.match = call[c].match
  <1>0. call \in [Calls -> CallStates] /\ call[c] \in CallStates /\ handle \in Payloads
    BY DEF TypeOK
  <1> DEFINE new(kind) == [call[c] EXCEPT !.kind = kind]
  <1>1. handle.status = "ready" => handle # NoHandle
    BY DEF NoHandle
  <1>2. PICK kind \in Kinds :
            \/ call' = [call EXCEPT ![c] = [new(kind) EXCEPT !.pc = "insert"]]
            \/ kind # "retrieve" /\ call' = [call EXCEPT ![c] = [new(kind) EXCEPT !.pc = "done"]]
            \/ handle # NoHandle /\ call' = [call EXCEPT ![c] = Reused(new(kind), handle)]
            \/ /\ handle # NoHandle /\ kind # "retrieve"
               /\ call' = [call EXCEPT ![c] = [new(kind) EXCEPT !.match = handle, !.pc = "verdict"]]
            \/ /\ handle # NoHandle /\ kind # "retrieve"
               /\ \E patch \in {"pin", "unpin"} : call' = [call EXCEPT ![c] = Patching(new(kind), patch)]
    BY <1>1 DEF Look, Turns, Retrieve, Prefetch, Rematerialize, PinResult, Unpin
  <1>3. /\ new(kind) \in CallStates /\ new(kind).kind = kind
        /\ new(kind).match = call[c].match /\ new(kind).loaded = call[c].loaded
    BY <1>0, KindsAssumption DEF CallStates
  <1> HIDE DEF new
  <1>4. CASE handle # NoHandle /\ call' = [call EXCEPT ![c] = Reused(new(kind), handle)]
    BY <1>0, <1>3, <1>4, ReusedRecord
  <1>5. CASE \/ call' = [call EXCEPT ![c] = [new(kind) EXCEPT !.pc = "insert"]]
             \/ kind # "retrieve" /\ call' = [call EXCEPT ![c] = [new(kind) EXCEPT !.pc = "done"]]
    BY <1>0, <1>3, <1>5 DEF CallStates
  <1>6. CASE /\ handle # NoHandle /\ kind # "retrieve"
             /\ call' = [call EXCEPT ![c] = [new(kind) EXCEPT !.match = handle, !.pc = "verdict"]]
    BY <1>0, <1>3, <1>6 DEF CallStates
  <1>7. CASE /\ handle # NoHandle /\ kind # "retrieve"
             /\ \E patch \in {"pin", "unpin"} : call' = [call EXCEPT ![c] = Patching(new(kind), patch)]
    BY <1>0, <1>3, <1>7 DEF CallStates, Patching
  <1> QED
    BY <1>2, <1>4, <1>5, <1>6, <1>7

\* The insert wins, is abandoned, or turns to the winner's handle.
LEMMA InsertRecord ==
    ASSUME TypeOK, NEW c \in Calls, Insert(c)
    PROVE  LET r == call'[c]
           IN  /\ r.kind = call[c].kind /\ r.loaded \in {call[c].loaded, NoHandle}
               /\ \/ /\ handle = NoHandle /\ handle' = Minted(call[c].kind)
                     /\ r.pc = "create" /\ r.match = call[c].match
                  \/ /\ handle # NoHandle /\ handle' = handle
                     /\ \/ r.pc = "done" /\ r.kind = "prefetch" /\ r.match = NoHandle
                        \/ r.pc = "load" /\ r.patch = "promote" /\ r.match = handle
                        \/ r.pc = "verdict" /\ ~handle.speculative /\ r.match = handle
  <1>0. call \in [Calls -> CallStates] /\ call[c] \in CallStates /\ handle \in Payloads
    BY DEF TypeOK
  <1>1. CASE handle = NoHandle
    BY <1>0, <1>1 DEF Insert, Goes, CallStates
  <1>2. CASE handle # NoHandle /\ call[c].kind = "prefetch"
    BY <1>2, EndsRecord DEF Insert
  <1>3. CASE handle # NoHandle /\ call[c].kind # "prefetch"
    <2> DEFINE lost == [call[c] EXCEPT !.lost = TRUE]
    <2>1. lost \in CallStates /\ lost.kind = call[c].kind /\ lost.loaded = call[c].loaded
      BY <1>0 DEF CallStates
    <2>2. call'[c] = Reused(lost, handle)
      BY <1>0, <1>3 DEF Insert
    <2> HIDE DEF lost
    <2> QED
      BY <1>0, <1>3, <2>1, <2>2, ReusedRecord DEF Insert
  <1> QED
    BY <1>1, <1>2, <1>3

\* A replay and a fresh submission under a claimed handle both reset it first.
LEMMA ResetRecord ==
    ASSUME TypeOK, NEW c \in Calls, Replay(c) \/ GiveUp(c)
    PROVE  /\ call[c].pc = "verdict"
           /\ call'[c].kind = call[c].kind /\ call'[c].match = NoHandle
           /\ call'[c].loaded = call[c].loaded
           /\ call'[c].pc = "load" /\ call'[c].patch = "pending"
  <1>0. call \in [Calls -> CallStates] /\ call[c] \in CallStates
    BY DEF TypeOK
  <1>1. PICK record \in CallStates : /\ record.kind = call[c].kind /\ record.match = NoHandle
                                     /\ record.loaded = call[c].loaded
                                     /\ call'[c] = Patching(record, "pending")
    <2>1. CASE Replay(c)
      <3>1. [call[c] EXCEPT !.match = NoHandle, !.replay = rows] \in CallStates
        BY <1>0, ConstantTypes DEF TypeOK, CallStates
      <3>2. call'[c] = Patching([call[c] EXCEPT !.match = NoHandle, !.replay = rows], "pending")
        BY <1>0, <2>1 DEF Replay
      <3> QED
        BY <1>0, <3>1, <3>2 DEF CallStates
    <2>2. CASE GiveUp(c)
      <3>1. [call[c] EXCEPT !.match = NoHandle] \in CallStates
        BY <1>0, ConstantTypes DEF CallStates
      <3>2. call'[c] = Patching([call[c] EXCEPT !.match = NoHandle], "pending")
        BY <1>0, <2>2 DEF GiveUp
      <3> QED
        BY <1>0, <3>1, <3>2 DEF CallStates
    <2> QED
      BY <2>1, <2>2
  <1>2. /\ call'[c].kind = call[c].kind /\ call'[c].match = NoHandle
        /\ call'[c].loaded = call[c].loaded
        /\ call'[c].pc = "load" /\ call'[c].patch = "pending"
    BY <1>1 DEF Patching, CallStates
  <1> QED
    BY <1>2 DEF Replay, GiveUp, Miss

LEMMA CommitRecord ==
    ASSUME TypeOK, NEW c \in Calls, CallCommits(c)
    PROVE  LET r == call'[c]
           IN  /\ r.kind = call[c].kind /\ r.match \in {call[c].match, NoHandle}
               /\ r.loaded = NoHandle
               /\ \/ call[c].patch = "promote" /\ r.pc = "verdict"
                  \/ call[c].patch = "pending" /\ r.pc = "create"
                  \/ call[c].patch \notin {"promote", "pending"} /\ r.pc = "done"
  <1>0. call \in [Calls -> CallStates] /\ call[c] \in CallStates
    BY DEF TypeOK
  <1>1. CASE AfterPatch(call[c].patch) = "done"
    BY <1>1, EndsRecord DEF CallCommits, AfterPatch
  <1>2. CASE AfterPatch(call[c].patch) # "done"
    BY <1>0, <1>2 DEF CallCommits, AfterPatch, CallStates
  <1> QED
    BY <1>1, <1>2

LEMMA LoadRecord ==
    ASSUME TypeOK, NEW c \in Calls, CallLoads(c)
    PROVE  LET r == call'[c]
           IN  /\ r.kind = call[c].kind /\ r.match = call[c].match /\ r.patch = call[c].patch
               /\ r.pc = "commit" /\ r.loaded = handle
  BY DEF CallLoads, TypeOK, CallStates

LEMMA PresentStep ==
    ASSUME TypeOK, PresentInv, [Next]_vars
    PROVE  PresentInv'
  <1> USE DEF bounds
  <1>0. HandleKept
    BY HandleStep
  <1>1. handle'.status = "absent" => handle' = NoHandle
    BY <1>0 DEF HandleKept
  <1>2. \A r : /\ CallPresent(r, handle) => CallPresent(r, handle')
               /\ RowPresent(r, handle) => RowPresent(r, handle')
               /\ SweepPresent(r, handle) => SweepPresent(r, handle')
    BY <1>0 DEF HandleKept, CallPresent, RowPresent, SweepPresent
  <1>3. handle # NoHandle => handle.status # "absent"
    BY DEF PresentInv
  <1>4. ASSUME NEW c \in Calls, CallStep(c) \/ CallDies(c) PROVE PresentInv'
    <2>1. CallPresent(call'[c], handle')
      <3>1. CASE Look(c)
        BY <1>0, <1>3, <3>1, LookRecord DEF CallPresent, HandleKept
      <3>2. CASE Insert(c)
        BY <1>0, <1>3, <3>2, InsertRecord, MintedType DEF CallPresent, HandleKept
      <3>3. CASE Replay(c) \/ GiveUp(c)
        BY <1>0, <3>3, ResetRecord DEF CallPresent, HandleKept, PresentInv
      <3>4. CASE CallLoads(c)
        BY <1>0, <3>4, LoadRecord DEF CallPresent, HandleKept, PresentInv, CallLoads
      <3>5. CASE CallCommits(c)
        BY <1>0, <3>5, CommitRecord DEF CallPresent, HandleKept, PresentInv, CallCommits
      <3>6. CASE Answer(c) \/ Submit(c) \/ Create(c) \/ CallDies(c)
        BY <3>6, EndsRecord DEF CallPresent, Answer, Submit, Create, CallDies
      <3> QED
        BY <1>4, <3>1, <3>2, <3>3, <3>4, <3>5, <3>6 DEF CallStep
    <2>2. \A d \in Calls : CallPresent(call'[d], handle')
      BY <1>2, <1>4, <2>1, OwnRecord DEF PresentInv
    <2>3. \A i \in Rows : RowPresent(job'[i], handle')
      <3>1. CASE Create(c)
        <4>1. handle'.status # "absent"
          BY <1>0, <3>1 DEF Create, PresentInv, CallPresent, HandleKept
        <4>2. \A i \in Rows : job'[i].pc = job[i].pc /\ job'[i].loaded = job[i].loaded
          BY <3>1 DEF Create, TypeOK, JobRows
        <4> QED
          BY <4>1, <4>2 DEF RowPresent, PresentInv
      <3>2. CASE ~Create(c)
        <4>1. job' = job
          BY <1>4, <3>2 DEF CallStep, Look, Insert, Answer, Replay, Submit, GiveUp, CallLoads,
                CallCommits, CallDies
        <4> QED
          BY <1>2, <4>1 DEF PresentInv
      <3> QED
        BY <3>1, <3>2
    <2>4. sweep' = sweep
      BY <1>4 DEF CallStep, Look, Insert, Answer, Replay, Submit, GiveUp, CallLoads,
            CallCommits, Create, CallDies
    <2> QED
      BY <1>1, <1>2, <2>2, <2>3, <2>4 DEF PresentInv
  <1>5. ASSUME NEW i \in Rows, JobStep(i) \/ JobEnds(i) \/ JobRestarts(i) PROVE PresentInv'
    <2>1. call' = call /\ sweep' = sweep
      BY <1>5 DEF JobStep, JobFetches, JobStores, JobLoads, JobResolves, JobReady, JobEnds, JobRestarts
    <2>2. job[i].state # "none" \/ job[i].pc # "none"
      BY <1>5 DEF JobStep, JobFetches, JobStores, JobLoads, JobResolves, JobReady, JobEnds, JobRestarts
    <2>3. handle.status # "absent" /\ handle'.status # "absent"
      BY <1>0, <2>2 DEF HandleKept, PresentInv, RowPresent
    <2>4. /\ \A k \in Rows \ {i} : job'[k] = job[k]
          /\ job'[i].pc = "commit" => job'[i].loaded \in {job[i].loaded, handle}
                                    /\ (job'[i].loaded = job[i].loaded => job[i].pc = "commit" \/ job[i].loaded = handle)
      BY <1>5 DEF JobStep, JobFetches, JobStores, JobLoads, JobResolves, JobReady, JobEnds,
            JobRestarts, TypeOK, JobRows
    <2>5. RowPresent(job'[i], handle')
      BY <2>3, <2>4 DEF RowPresent, PresentInv
    <2> QED
      BY <1>1, <1>2, <2>1, <2>4, <2>5 DEF PresentInv
  <1>6. ASSUME NEW w \in Sweeps, SweepStep(w) \/ SweepDies(w) PROVE PresentInv'
    <2>1. call' = call
      BY <1>6 DEF SweepStep, SweepReadsKeys, ReclaimOrphans, SweepSelects, EvictDeletes, EvictLoads,
            EvictFlips, EvictMarksRow, SweepDies
    <2>2. \A i \in Rows : /\ job'[i].pc = job[i].pc /\ job'[i].loaded = job[i].loaded
                          /\ job[i].state = "none" => job'[i].state = "none"
      BY <1>6 DEF SweepStep, SweepReadsKeys, ReclaimOrphans, SweepSelects, EvictDeletes, EvictLoads,
            EvictFlips, EvictMarksRow, SweepDies, TypeOK, JobRows
    <2>3. \A v \in Sweeps \ {w} : sweep'[v] = sweep[v]
      BY <1>6 DEF SweepStep, SweepReadsKeys, ReclaimOrphans, SweepSelects, EvictDeletes, EvictLoads,
            EvictFlips, EvictMarksRow, SweepDies, TypeOK
    <2>4. SweepPresent(sweep'[w], handle')
      <3>1. CASE SweepSelects(w)
        BY <1>0, <3>1 DEF SweepSelects, SweepPresent, HandleKept, TypeOK, NoSweep
      <3>2. CASE EvictDeletes(w)
        BY <1>0, <3>2 DEF EvictDeletes, SweepPresent, PresentInv, HandleKept, TypeOK, SweepStates
      <3>3. CASE EvictLoads(w)
        BY <1>0, <3>3 DEF EvictLoads, SweepPresent, PresentInv, HandleKept, TypeOK, SweepStates
      <3>4. CASE SweepReadsKeys(w) \/ ReclaimOrphans(w) \/ EvictFlips(w) \/ EvictMarksRow(w) \/ SweepDies(w)
        BY <3>4 DEF SweepReadsKeys, ReclaimOrphans, EvictFlips, EvictMarksRow, SweepDies,
              SweepPresent, TypeOK, SweepStates, NoSweep
      <3> QED
        BY <1>6, <3>1, <3>2, <3>3, <3>4 DEF SweepStep
    <2>5. \A i \in Rows : RowPresent(job'[i], handle')
      BY <1>0, <2>2 DEF RowPresent, PresentInv, HandleKept
    <2> QED
      BY <1>1, <1>2, <2>1, <2>3, <2>4, <2>5 DEF PresentInv
  <1>7. CASE UNCHANGED vars
    BY <1>7 DEF vars, PresentInv
  <1> QED
    BY <1>4, <1>5, <1>6, <1>7 DEF Next

LEMMA PresentInit == Init => PresentInv
  BY DEF Init, PresentInv, CallPresent, RowPresent, SweepPresent, NewCall, NoSweep, NoHandle

-----------------------------------------------------------------------------
(* What was asked for is no longer a guess *)

\* A request whose promotion is behind it, answered or not.
Claimed(record) ==
    /\ record.kind = "retrieve"
    /\ \/ record.pc \in {"verdict", "create", "done"}
       \/ record.pc \in {"load", "commit"} /\ record.patch = "pending"

CallKept(record, payload) ==
    /\ Claimed(record) => payload.status # "absent" /\ ~payload.speculative
    /\ record.pc = "commit" /\ ~record.loaded.speculative => ~payload.speculative
    /\ record.kind = "retrieve" /\ record.pc \in {"load", "commit"} =>
            record.patch \in {"promote", "pending"}

\* As long as no commit undid another: the handle of a claimed request is not
\* speculative, no payload loaded for a commit is less so than it, and a
\* request writes nothing but its promotion and its reset.
KeptInv == clashes = 0 => \A c \in Calls : CallKept(call[c], handle)

LEMMA KeptStep ==
    ASSUME TypeOK, PresentInv, KeptInv, [Next]_vars
    PROVE  KeptInv'
  <1> USE DEF bounds
  <1> SUFFICES ASSUME clashes' = 0, NEW d \in Calls
               PROVE  CallKept(call'[d], handle')
    BY DEF KeptInv
  <1>0. HandleKept
    BY HandleStep
  <1>1. CallKept(call[d], handle) /\ CallPresent(call[d], handle)
    BY <1>0 DEF HandleKept, KeptInv, PresentInv
  <1>2. CallKept(call[d], handle')
    BY <1>0, <1>1 DEF HandleKept, CallKept, CallPresent
  <1>3. ASSUME NEW c \in Calls, CallStep(c) \/ CallDies(c) PROVE CallKept(call'[d], handle')
    <2>1. CASE d # c
      BY <1>2, <1>3, <2>1, OwnRecord
    <2>2. CASE d = c /\ Look(c)
      <3>1. handle' = handle /\ (handle # NoHandle => handle.status # "absent")
        BY <2>2 DEF Look, PresentInv
      <3> QED
        BY <2>2, <3>1, LookRecord DEF CallKept, Claimed
    <2>3. CASE d = c /\ CallCommits(c)
      <3>1. /\ call'[c].kind = call[c].kind
            /\ \/ call[c].patch = "promote" /\ call'[c].pc = "verdict"
               \/ call[c].patch = "pending" /\ call'[c].pc = "create"
               \/ call[c].patch \notin {"promote", "pending"} /\ call'[c].pc = "done"
        BY <2>3, CommitRecord
      <3>2. call[c].loaded \in Payloads /\ Commits(call[c].loaded, Merged(call[c].loaded, call[c].patch))
        BY <2>3 DEF CallCommits, TypeOK, CallStates
      <3>3. handle'.status # "absent"
        BY <1>0, <1>1, <2>3 DEF CallPresent, CallCommits, HandleKept
      <3>4. call[c].patch = "promote" => ~handle'.speculative
        <4>1. SUFFICES ASSUME call[c].patch = "promote" PROVE ~handle'.speculative
          OBVIOUS
        <4>2. ~Merged(call[c].loaded, call[c].patch).speculative
          BY <3>2, <4>1, MergedType
        <4>3. CASE handle' = Merged(call[c].loaded, call[c].patch)
          BY <4>2, <4>3
        <4>4. CASE handle' = handle /\ Merged(call[c].loaded, call[c].patch) = call[c].loaded
          BY <1>1, <2>3, <4>2, <4>4 DEF CallKept, CallCommits
        <4> QED
          BY <3>2, <4>3, <4>4, CleanCommit
      <3>5. call[c].kind = "retrieve" => call[c].patch \in {"promote", "pending"}
        BY <1>1, <2>3 DEF CallKept, CallCommits
      <3> QED
        BY <1>2, <2>3, <3>1, <3>3, <3>4, <3>5 DEF CallKept, Claimed, CallCommits
    <2>4. CASE d = c /\ Insert(c)
      <3>1. handle # NoHandle => handle.status # "absent"
        BY DEF PresentInv
      <3> QED
        BY <2>4, <3>1, InsertRecord, MintedType DEF CallKept, Claimed
    <2>5. CASE d = c /\ CallLoads(c)
      <3>1. /\ call'[c].kind = call[c].kind /\ call'[c].pc = "commit" /\ call[c].pc = "load"
            /\ call'[c].patch = call[c].patch /\ call'[c].loaded = handle /\ handle' = handle
        BY <2>5, LoadRecord DEF CallLoads
      <3> QED
        BY <1>1, <2>5, <3>1 DEF CallKept, Claimed
    <2>6. CASE d = c /\ (Replay(c) \/ GiveUp(c))
      <3>1. /\ call[c].pc = "verdict" /\ call'[c].kind = call[c].kind
            /\ call'[c].pc = "load" /\ call'[c].patch = "pending" /\ handle' = handle
        BY <2>6, ResetRecord DEF Replay, GiveUp
      <3> QED
        BY <1>1, <2>6, <3>1 DEF CallKept, Claimed
    <2>7. CASE d = c /\ (Answer(c) \/ Create(c))
      <3>1. /\ call'[c].kind = call[c].kind /\ call'[c].pc = "done" /\ handle' = handle
            /\ call[c].pc \in {"verdict", "create"}
        BY <2>7, EndsRecord DEF Answer, Create
      <3> QED
        BY <1>1, <2>7, <3>1 DEF CallKept, Claimed
    <2>8. CASE d = c /\ (Submit(c) \/ CallDies(c))
      <3>1. call'[c].pc \in {"insert", "died"}
        BY <2>8, EndsRecord DEF Submit, CallDies
      <3> QED
        BY <2>8, <3>1 DEF CallKept, Claimed
    <2> QED
      BY <1>3, <2>1, <2>2, <2>3, <2>4, <2>5, <2>6, <2>7, <2>8 DEF CallStep
  <1>4. ASSUME call' = call PROVE CallKept(call'[d], handle')
    BY <1>2, <1>4
  <1>5. ASSUME NEW i \in Rows, JobStep(i) \/ JobEnds(i) \/ JobRestarts(i) PROVE call' = call
    BY <1>5 DEF JobStep, JobFetches, JobStores, JobLoads, JobResolves, JobReady, JobEnds, JobRestarts
  <1>6. ASSUME NEW w \in Sweeps, SweepStep(w) \/ SweepDies(w) PROVE call' = call
    BY <1>6 DEF SweepStep, SweepReadsKeys, ReclaimOrphans, SweepSelects, EvictDeletes, EvictLoads,
          EvictFlips, EvictMarksRow, SweepDies
  <1> QED
    BY <1>3, <1>4, <1>5, <1>6 DEF Next, vars

\* Once a request was answered with the handle its signature owns, the handle is
\* no longer speculative, whatever prefetch, worker and sweep were doing: the
\* promotion of retrieval.py holds against any interleaving in which no payload
\* commit undoes another.
THEOREM AskedStaysKept == Spec => []AskedIsKept
  <1>1. Init => TypeOK /\ PresentInv /\ KeptInv
    <2>1. Init => KeptInv
      <3> SUFFICES ASSUME Init, NEW c \in Calls PROVE CallKept(call[c], handle)
        BY DEF KeptInv
      <3>1. call[c] = NewCall
        BY DEF Init
      <3>2. NewCall.pc = "new" /\ NewCall.kind = "none"
        BY DEF NewCall
      <3> QED
        BY <3>1, <3>2 DEF CallKept, Claimed
    <2> QED
      BY <2>1, InitType, PresentInit
  <1>2. TypeOK /\ PresentInv /\ KeptInv /\ [Next]_vars => (TypeOK /\ PresentInv /\ KeptInv)'
    BY TypeStep, PresentStep, KeptStep
  <1>3. KeptInv => AskedIsKept
    BY DEF KeptInv, AskedIsKept, CallKept, Claimed
  <1> QED
    BY <1>1, <1>2, <1>3, PTL DEF Spec

-----------------------------------------------------------------------------
(* The rows behind the handle *)

\* Rows are made in order, and a row is marked "ready" by the task that
\* resolved the handle for it.
RowsInv ==
    \A i \in Rows :
        /\ i > rows => job[i].state = "none" /\ job[i].pc = "none"
        /\ i <= rows => job[i].state # "none"
        /\ job[i].state \in {"ready", "expired"} => job[i].pc = "resolved"

LEMMA CreateRecord ==
    ASSUME TypeOK, NEW c \in Calls, Create(c)
    PROVE  /\ rows' = rows + 1 /\ rows \in Nat /\ rows' \in Rows
           /\ job'[rows'].state = "live"
           /\ job'[rows'].pc = job[rows'].pc /\ job'[rows'].loaded = job[rows'].loaded
           /\ \A i \in Rows \ {rows'} : job'[i] = job[i]
  <1>1. rows' = rows + 1 /\ rows \in Nat /\ rows' \in Rows
    BY BoundsAssumption DEF Create, TypeOK, Rows
  <1>2. PICK key : job' = [job EXCEPT ![rows + 1] = [job[rows + 1] EXCEPT !.state = "live", !.key = key]]
    BY DEF Create
  <1>3. job \in [Rows -> JobRows] /\ job[rows + 1] \in JobRows
    BY <1>1 DEF TypeOK
  <1> QED
    BY <1>1, <1>2, <1>3 DEF JobRows

\* A call that creates no row leaves the rows alone.
LEMMA RowsUntouched ==
    ASSUME NEW c \in Calls, CallStep(c) \/ CallDies(c), ~Create(c)
    PROVE  rows' = rows /\ job' = job
  BY DEF CallStep, Look, Insert, Answer, Replay, Submit, GiveUp, CallLoads, CallCommits, CallDies

\* What a row's steps do to it.
LEMMA RowRecord ==
    ASSUME TypeOK, NEW i \in Rows, JobStep(i) \/ JobEnds(i) \/ JobRestarts(i)
    PROVE  /\ rows' = rows /\ call' = call
           /\ \A k \in Rows \ {i} : job'[k] = job[k]
           /\ LET r == job'[i]
              IN  \/ JobFetches(i) /\ job[i].state = "live" /\ r.state = "live" /\ r.pc = "fetch"
                  \/ JobStores(i) /\ job[i].pc = "fetch" /\ r.state = job[i].state /\ r.pc = "stored"
                  \/ /\ JobLoads(i) /\ job[i].pc = "stored" /\ r.state = job[i].state
                     /\ r.pc = "commit" /\ r.loaded = handle
                  \/ JobResolves(i) /\ job[i].pc = "commit" /\ r.state = job[i].state /\ r.pc = "resolved"
                  \/ JobReady(i) /\ job[i].pc = "resolved" /\ r.state = "ready" /\ r.pc = "resolved"
                        /\ job[i].state = "live"
                  \/ JobEnds(i) /\ job[i].state = "live" /\ r.state = "dead" /\ r.pc = job[i].pc
                        /\ r.loaded = job[i].loaded
                  \/ JobRestarts(i) /\ Fault /\ job[i].state = "live" /\ r.state = "live" /\ r.pc = "none"
  <1>1. job \in [Rows -> JobRows] /\ job[i] \in JobRows
    BY DEF TypeOK
  <1> QED
    BY <1>1 DEF JobStep, JobFetches, JobStores, JobLoads, JobResolves, JobReady, JobEnds, JobRestarts,
        JobRows

\* A sweep marks at most the newest row, and only a ready one.
LEMMA SweepRows ==
    ASSUME TypeOK, NEW w \in Sweeps, SweepStep(w) \/ SweepDies(w)
    PROVE  /\ rows' = rows /\ call' = call
           /\ \A i \in Rows : /\ job'[i].pc = job[i].pc /\ job'[i].loaded = job[i].loaded
                              /\ \/ job'[i].state = job[i].state
                                 \/ job[i].state = "ready" /\ job'[i].state = "expired"
  BY DEF SweepStep, SweepReadsKeys, ReclaimOrphans, SweepSelects, EvictDeletes, EvictLoads,
         EvictFlips, EvictMarksRow, SweepDies, TypeOK, JobRows

LEMMA RowsStep ==
    ASSUME TypeOK, RowsInv, [Next]_vars
    PROVE  RowsInv'
  <1>0. rows \in Nat /\ \A i \in Rows : i \in Nat
    BY BoundsAssumption DEF TypeOK, Rows
  <1>1. ASSUME NEW c \in Calls, CallStep(c) \/ CallDies(c) PROVE RowsInv'
    <2>1. CASE Create(c)
      BY <1>0, <2>1, CreateRecord DEF RowsInv
    <2>2. CASE ~Create(c)
      BY <1>1, <2>2, RowsUntouched DEF RowsInv
    <2> QED
      BY <2>1, <2>2
  <1>2. ASSUME NEW i \in Rows, JobStep(i) \/ JobEnds(i) \/ JobRestarts(i) PROVE RowsInv'
    BY <1>0, <1>2, RowRecord DEF RowsInv
  <1>3. ASSUME NEW w \in Sweeps, SweepStep(w) \/ SweepDies(w) PROVE RowsInv'
    BY <1>0, <1>3, SweepRows DEF RowsInv
  <1>4. CASE UNCHANGED vars
    BY <1>4 DEF vars, RowsInv
  <1> QED
    BY <1>1, <1>2, <1>3, <1>4 DEF Next

LEMMA RowsInit == Init => RowsInv
  <1> SUFFICES ASSUME Init, NEW i \in Rows PROVE job[i].state = "none" /\ job[i].pc = "none" /\ ~(i <= rows)
    BY DEF RowsInv
  <1> QED
    BY BoundsAssumption DEF Init, Rows

-----------------------------------------------------------------------------
(* A pending handle is somebody's to resolve *)

\* The call will create a row.
Creating(record) ==
    \/ record.pc = "create"
    \/ record.pc \in {"load", "commit"} /\ record.patch = "pending"

\* The row has resolved the handle, or is about to "resolve" it to what it
\* loaded resolved already, which writes nothing.
Settling(record) ==
    \/ record.pc = "resolved"
    \/ record.pc = "commit" /\ record.loaded.status # "pending"

\* If the newest row no longer resolves the handle, a call that reset it is
\* about to create the next one.
OwnedInv ==
    faults = 0 /\ clashes = 0 /\ handle.status = "pending" /\ rows > 0 /\ Settling(job[rows])
        => \E c \in Calls : Creating(call[c])

LEMMA OwnedStep ==
    ASSUME TypeOK, PresentInv, RowsInv, OwnedInv, [Next]_vars
    PROVE  OwnedInv'
  <1> USE DEF bounds
  <1> SUFFICES ASSUME faults' = 0, clashes' = 0, handle'.status = "pending", rows' > 0, Settling(job'[rows'])
               PROVE  \E c \in Calls : Creating(call'[c])
    BY DEF OwnedInv, Settling, Creating
  <1>0. /\ rows \in Nat /\ (rows > 0 => rows \in Rows) /\ clashes = 0 /\ faults \in Nat
    BY HandleStep, BoundsAssumption DEF HandleKept, TypeOK, Rows
  <1>1. ~Fault
    BY <1>0 DEF Fault
  <1>2. ASSUME NEW c \in Calls, CallStep(c) \/ CallDies(c) PROVE \E d \in Calls : Creating(call'[d])
    <2>1. ~CallDies(c)
      BY <1>1 DEF CallDies
    <2>2. CASE Create(c)
      BY <2>2, CreateRecord, <1>0 DEF RowsInv, Settling
    <2>3. CASE Creating(call'[c])
      BY <2>3
    <2>4. CASE ~Create(c) /\ ~Creating(call'[c])
      <3>1. rows' = rows /\ job' = job
        BY <1>2, <2>4, RowsUntouched
      <3>2. faults = 0 /\ ~Creating(call[c]) /\ handle.status = "pending"
        <4>1. CASE Look(c)
          BY <4>1 DEF Look, Creating
        <4>2. CASE Insert(c)
          BY <2>4, <4>2, InsertRecord DEF Creating, Insert
        <4>3. CASE Replay(c) \/ GiveUp(c)
          BY <2>4, <4>3, ResetRecord DEF Creating
        <4>4. CASE CallLoads(c)
          BY <2>4, <4>4, LoadRecord DEF Creating, CallLoads
        <4>5. CASE CallCommits(c)
          <5>1. call[c].pc = "commit" /\ call[c].patch # "pending" /\ faults = 0
            BY <2>4, <4>5, CommitRecord DEF Creating, CallCommits
          <5>2. call[c].loaded \in Payloads /\ Commits(call[c].loaded, Merged(call[c].loaded, call[c].patch))
            BY <4>5 DEF CallCommits, TypeOK, CallStates
          <5>3. handle.status = "pending"
            BY <5>1, <5>2, CleanCommit, MergedType
          <5> QED
            BY <5>1, <5>3 DEF Creating
        <4>6. CASE Answer(c) \/ Submit(c)
          BY <4>6 DEF Answer, Submit, Miss, Creating
        <4> QED
          BY <1>2, <2>1, <2>4, <4>1, <4>2, <4>3, <4>4, <4>5, <4>6 DEF CallStep
      <3>3. PICK d \in Calls : Creating(call[d])
        BY <1>0, <3>1, <3>2 DEF OwnedInv
      <3> QED
        BY <1>2, <3>2, <3>3, OwnRecord
    <2> QED
      BY <2>2, <2>3, <2>4
  <1>3. ASSUME rows' = rows, call' = call, faults' = faults, handle.status = "pending", Settling(job[rows])
        PROVE  \E c \in Calls : Creating(call'[c])
    BY <1>0, <1>3 DEF OwnedInv
  <1>4. ASSUME NEW i \in Rows, JobStep(i) \/ JobEnds(i) \/ JobRestarts(i)
        PROVE  \E c \in Calls : Creating(call'[c])
    <2>1. rows' = rows /\ call' = call /\ ~JobRestarts(i) /\ \A k \in Rows \ {i} : job'[k] = job[k]
      BY <1>1, <1>4, RowRecord DEF JobRestarts
    <2>2. faults' = faults
      BY <1>4, <2>1 DEF JobStep, JobFetches, JobStores, JobLoads, JobResolves, JobReady, JobEnds
    <2>3. CASE JobResolves(i)
      <3> DEFINE merged == [job[i].loaded EXCEPT !.status = "ready", !.key = job[i].key]
      <3>1. job[i].loaded \in Payloads /\ merged.status = "ready" /\ Commits(job[i].loaded, merged)
        BY <2>3 DEF JobResolves, TypeOK, JobRows, Payloads
      <3>2. handle' = handle /\ merged = job[i].loaded
        BY <3>1, CleanCommit
      <3>3. Settling(job[rows])
        <4>1. CASE i = rows
          BY <2>3, <3>1, <3>2, <4>1 DEF Settling, JobResolves
        <4>2. CASE i # rows
          BY <1>0, <2>1, <4>2
        <4> QED
          BY <4>1, <4>2
      <3> QED
        BY <1>3, <2>1, <2>2, <3>2, <3>3
    <2>4. CASE ~JobResolves(i)
      <3>1. handle' = handle
        BY <1>4, <2>1, <2>4 DEF JobStep, JobFetches, JobStores, JobLoads, JobReady, JobEnds
      <3>2. Settling(job[rows])
        <4>1. CASE i = rows
          BY <1>4, <2>1, <2>4, <3>1, <4>1, RowRecord DEF Settling
        <4>2. CASE i # rows
          BY <1>0, <2>1, <4>2
        <4> QED
          BY <4>1, <4>2
      <3> QED
        BY <1>3, <2>1, <2>2, <3>1, <3>2
    <2> QED
      BY <2>3, <2>4
  <1>5. ASSUME NEW w \in Sweeps, SweepStep(w) \/ SweepDies(w)
        PROVE  \E c \in Calls : Creating(call'[c])
    <2>1. rows' = rows /\ call' = call /\ Settling(job[rows])
      BY <1>0, <1>5, SweepRows DEF Settling
    <2>2. ~SweepDies(w)
      BY <1>1 DEF SweepDies
    <2>3. faults' = faults
      BY <1>5, <2>2 DEF SweepStep, SweepReadsKeys, ReclaimOrphans, SweepSelects, EvictDeletes,
            EvictLoads, EvictFlips, EvictMarksRow
    <2>4. handle' = handle
      <3>1. CASE EvictFlips(w)
        <4> DEFINE merged == [sweep[w].loaded EXCEPT !.status = "expired", !.key = NoKey]
        <4>1. sweep[w].loaded \in Payloads /\ merged.status = "expired" /\ Commits(sweep[w].loaded, merged)
          BY <3>1 DEF EvictFlips, TypeOK, SweepStates, Payloads
        <4> QED
          BY <4>1, CleanCommit
      <3>2. CASE ~EvictFlips(w)
        BY <1>5, <2>2, <3>2 DEF SweepStep, SweepReadsKeys, ReclaimOrphans, SweepSelects, EvictDeletes,
              EvictLoads, EvictMarksRow
      <3> QED
        BY <3>1, <3>2
    <2> QED
      BY <1>3, <2>1, <2>3, <2>4
  <1>6. CASE UNCHANGED vars
    BY <1>3, <1>6 DEF vars
  <1> QED
    BY <1>2, <1>4, <1>5, <1>6 DEF Next

\* As long as no process dies and no commit undoes another, a handle left
\* "pending" by a submission, a replay or a resubmission has somebody to
\* resolve it, or is one that a new request will see as dead and retry.
THEOREM PendingStaysOwned == Spec => []PendingIsOwned
  <1> DEFINE Inv == TypeOK /\ PresentInv /\ RowsInv /\ OwnedInv
  <1>1. Init => Inv
    <2>1. Init => OwnedInv
      BY DEF Init, OwnedInv, NoHandle
    <2> QED
      BY <2>1, InitType, PresentInit, RowsInit
  <1>2. Inv /\ [Next]_vars => Inv'
    BY TypeStep, PresentStep, RowsStep, OwnedStep
  <1>3. Inv => PendingIsOwned
    <2> SUFFICES ASSUME Inv, faults = 0, clashes = 0, handle.status = "pending", rows # 0,
                        job[rows].state # "dead", ~\E i \in Rows : job[i].state = "live"
                 PROVE  \E c \in Calls : Creating(call[c])
      BY DEF PendingIsOwned, Retryable, InHand, NoJob, Dead, Creating, TypeOK
    <2>1. rows > 0 /\ rows \in Rows
      BY BoundsAssumption DEF TypeOK, Rows
    <2>2. job[rows].state \in {"ready", "expired"}
      BY <2>1 DEF RowsInv, TypeOK, JobRows, RowStates
    <2> QED
      BY <2>1, <2>2 DEF RowsInv, OwnedInv, Settling
  <1> QED
    BY <1>1, <1>2, <1>3, PTL DEF Spec

-----------------------------------------------------------------------------
(* One job per signature *)

\* Before the first eviction nobody has read the handle as evicted.
FreshInv ==
    evictions = 0 =>
        /\ handle.status # "expired"
        /\ \A c \in Calls : call[c].match.status # "expired" /\ call[c].loaded.status # "expired"
        /\ \A i \in Rows : job[i].loaded.status # "expired"
        /\ \A w \in Sweeps : sweep[w].pc \in {"idle", "orphans"}

\* Failures and evictions are only counted up.
LEMMA CountersStep ==
    ASSUME TypeOK, [Next]_vars
    PROVE  (faults' = 0 => faults = 0) /\ (evictions' = 0 => evictions = 0)
  <1> USE DEF bounds
  <1>0. faults \in Nat /\ evictions \in Nat /\ (Fault => faults' = faults + 1 /\ evictions' = evictions)
    BY DEF TypeOK, Fault
  <1>1. ASSUME NEW c \in Calls, CallStep(c) \/ CallDies(c)
        PROVE  (faults' = faults \/ Fault) /\ evictions' = evictions
    BY <1>0, <1>1 DEF CallStep, Look, Insert, Answer, Replay, Submit, GiveUp, CallLoads, CallCommits,
        Create, CallDies
  <1>2. ASSUME NEW i \in Rows, JobStep(i) \/ JobEnds(i) \/ JobRestarts(i)
        PROVE  (faults' = faults \/ Fault) /\ evictions' = evictions
    BY <1>0, <1>2 DEF JobStep, JobFetches, JobStores, JobLoads, JobResolves, JobReady, JobEnds, JobRestarts
  <1>3. ASSUME NEW w \in Sweeps, SweepStep(w) \/ SweepDies(w)
        PROVE  (faults' = faults \/ Fault) /\ evictions' \in {evictions, evictions + 1}
    BY <1>0, <1>3 DEF SweepStep, SweepReadsKeys, ReclaimOrphans, SweepSelects, EvictDeletes, EvictLoads,
        EvictFlips, EvictMarksRow, SweepDies
  <1>4. CASE UNCHANGED vars
    BY <1>4 DEF vars
  <1> QED
    BY <1>0, <1>1, <1>2, <1>3, <1>4 DEF Next

LEMMA FreshStep ==
    ASSUME TypeOK, FreshInv, [Next]_vars
    PROVE  FreshInv'
  <1> USE DEF bounds
  <1> SUFFICES ASSUME evictions' = 0
               PROVE  /\ handle'.status # "expired"
                      /\ \A c \in Calls : call'[c].match.status # "expired" /\ call'[c].loaded.status # "expired"
                      /\ \A i \in Rows : job'[i].loaded.status # "expired"
                      /\ \A w \in Sweeps : sweep'[w].pc \in {"idle", "orphans"}
    BY DEF FreshInv
  <1>0. evictions = 0
    BY CountersStep
  <1>1. /\ handle.status # "expired" /\ NoHandle.status # "expired"
        /\ \A c \in Calls : call[c].match.status # "expired" /\ call[c].loaded.status # "expired"
        /\ \A i \in Rows : job[i].loaded.status # "expired"
        /\ \A w \in Sweeps : sweep[w].pc \in {"idle", "orphans"}
    BY <1>0 DEF FreshInv, NoHandle
  <1>2. ASSUME NEW c \in Calls, CallStep(c) \/ CallDies(c)
        PROVE  /\ handle'.status # "expired"
               /\ \A d \in Calls : call'[d].match.status # "expired" /\ call'[d].loaded.status # "expired"
               /\ job' = job \/ \A i \in Rows : job'[i].loaded = job[i].loaded
               /\ sweep' = sweep
    <2>1. handle'.status # "expired"
      <3>1. CASE Insert(c)
        BY <1>1, <3>1, InsertRecord, MintedType
      <3>2. CASE CallCommits(c)
        BY <1>1, <3>2, CleanCommit, MergedType DEF CallCommits, TypeOK, CallStates
      <3>3. CASE ~Insert(c) /\ ~CallCommits(c)
        BY <1>1, <1>2, <3>3 DEF CallStep, Look, Answer, Replay, Submit, GiveUp, CallLoads, Create, CallDies
      <3> QED
        BY <3>1, <3>2, <3>3
    <2>2. call'[c].match \in {call[c].match, handle, NoHandle} /\ call'[c].loaded \in {call[c].loaded, handle, NoHandle}
      <3>1. CASE Look(c)
        BY <3>1, LookRecord
      <3>2. CASE Insert(c)
        BY <3>2, InsertRecord
      <3>3. CASE Replay(c) \/ GiveUp(c)
        BY <3>3, ResetRecord
      <3>4. CASE CallLoads(c)
        BY <3>4, LoadRecord
      <3>5. CASE CallCommits(c)
        BY <3>5, CommitRecord
      <3>6. CASE Answer(c) \/ Submit(c) \/ Create(c) \/ CallDies(c)
        BY <3>6, EndsRecord DEF Answer, Submit, Create, CallDies
      <3> QED
        BY <1>2, <3>1, <3>2, <3>3, <3>4, <3>5, <3>6 DEF CallStep
    <2>3. \A d \in Calls : call'[d].match.status # "expired" /\ call'[d].loaded.status # "expired"
      BY <1>1, <1>2, <2>2, OwnRecord
    <2>4. job' = job \/ \A i \in Rows : job'[i].loaded = job[i].loaded
      BY <1>2, RowsUntouched, CreateRecord
    <2>5. sweep' = sweep
      BY <1>2 DEF CallStep, Look, Insert, Answer, Replay, Submit, GiveUp, CallLoads, CallCommits,
            Create, CallDies
    <2> QED
      BY <2>1, <2>3, <2>4, <2>5
  <1>3. ASSUME NEW i \in Rows, JobStep(i) \/ JobEnds(i) \/ JobRestarts(i)
        PROVE  /\ handle'.status # "expired" /\ call' = call /\ sweep' = sweep
               /\ \A k \in Rows : job'[k].loaded.status # "expired"
    <2>1. call' = call /\ sweep' = sweep
      BY <1>3 DEF JobStep, JobFetches, JobStores, JobLoads, JobResolves, JobReady, JobEnds, JobRestarts
    <2>2. handle'.status # "expired"
      <3>1. CASE JobResolves(i)
        <4> DEFINE merged == [job[i].loaded EXCEPT !.status = "ready", !.key = job[i].key]
        <4>1. job[i].loaded \in Payloads /\ merged.status = "ready" /\ Commits(job[i].loaded, merged)
          BY <3>1 DEF JobResolves, TypeOK, JobRows, Payloads
        <4> QED
          BY <1>1, <4>1, CleanCommit
      <3> QED
        BY <1>1, <1>3, <3>1 DEF JobStep, JobFetches, JobStores, JobLoads, JobReady, JobEnds, JobRestarts
    <2>3. \A k \in Rows : job'[k].loaded \in {job[k].loaded, handle, NoHandle}
      BY <1>3 DEF JobStep, JobFetches, JobStores, JobLoads, JobResolves, JobReady, JobEnds, JobRestarts,
            TypeOK, JobRows
    <2> QED
      BY <1>1, <2>1, <2>2, <2>3
  <1>4. ASSUME NEW w \in Sweeps, SweepStep(w) \/ SweepDies(w)
        PROVE  /\ handle' = handle /\ call' = call
               /\ \A i \in Rows : job'[i].loaded = job[i].loaded
               /\ \A v \in Sweeps : sweep'[v].pc \in {"idle", "orphans"}
    <2>1. ~SweepSelects(w) /\ (ReclaimOrphans(w) \/ SweepReadsKeys(w) \/ SweepDies(w))
      BY <1>0, <1>1, <1>4 DEF SweepStep, SweepSelects, EvictDeletes, EvictLoads, EvictFlips, EvictMarksRow
    <2> QED
      BY <1>1, <2>1 DEF ReclaimOrphans, SweepReadsKeys, SweepDies, TypeOK, SweepStates, NoSweep
  <1>5. CASE UNCHANGED vars
    BY <1>1, <1>5 DEF vars
  <1> QED
    BY <1>1, <1>2, <1>3, <1>4, <1>5 DEF Next

\* No process died, nothing was evicted and no row died.
Calm == faults = 0 /\ evictions = 0 /\ \A i \in Rows : job[i].state # "dead"

\* Then nobody resets the handle; one call at most is about to create a row,
\* and one is exactly while the handle has none.
SingleInv ==
    Calm =>
        /\ \A c \in Calls : call[c].pc \in {"load", "commit"} => call[c].patch # "pending"
        /\ \A c, d \in Calls : call[c].pc = "create" /\ call[d].pc = "create" => c = d
        /\ \A c \in Calls : call[c].pc = "create" => rows = 0
        /\ handle.status # "absent" /\ rows = 0 => \E c \in Calls : call[c].pc = "create"
        /\ rows <= 1

LEMMA SingleStep ==
    ASSUME TypeOK, PresentInv, RowsInv, FreshInv, SingleInv, [Next]_vars
    PROVE  SingleInv'
  <1> USE DEF bounds
  <1> SUFFICES ASSUME Calm'
               PROVE  /\ \A c \in Calls : call'[c].pc \in {"load", "commit"} => call'[c].patch # "pending"
                      /\ \A c, d \in Calls : call'[c].pc = "create" /\ call'[d].pc = "create" => c = d
                      /\ \A c \in Calls : call'[c].pc = "create" => rows' = 0
                      /\ handle'.status # "absent" /\ rows' = 0 => \E c \in Calls : call'[c].pc = "create"
                      /\ rows' <= 1
    BY DEF SingleInv
  <1>0. /\ rows \in Nat /\ (rows > 0 => rows \in Rows) /\ faults \in Nat
        /\ faults = 0 /\ faults' = 0 /\ evictions = 0 /\ \A i \in Rows : job'[i].state # "dead"
    BY CountersStep, BoundsAssumption DEF Calm, TypeOK, Rows
  <1>1. ~Fault
    BY <1>0 DEF Fault
  <1>2. ASSUME \A i \in Rows : job[i].state = "dead" => job'[i].state = "dead"
        PROVE  /\ \A c \in Calls : call[c].pc \in {"load", "commit"} => call[c].patch # "pending"
               /\ \A c, d \in Calls : call[c].pc = "create" /\ call[d].pc = "create" => c = d
               /\ \A c \in Calls : call[c].pc = "create" => rows = 0
               /\ handle.status # "absent" /\ rows = 0 => \E c \in Calls : call[c].pc = "create"
               /\ rows <= 1 /\ \A i \in Rows : job[i].state # "dead"
    BY <1>0, <1>2 DEF SingleInv, Calm
  <1>3. ASSUME NEW c \in Calls, CallStep(c) \/ CallDies(c) PROVE SingleInv'
    <2>1. \A i \in Rows : job[i].state = "dead" => job'[i].state = "dead"
      BY <1>0, <1>3, CreateRecord, RowsUntouched DEF RowsInv
    <2>2. CASE Create(c)
      <3>1. rows' = rows + 1 /\ call'[c].pc = "done" /\ call[c].pc = "create"
        BY <2>2, CreateRecord, EndsRecord DEF Create
      <3> QED
        BY <1>0, <1>2, <1>3, <2>1, <3>1, OwnRecord DEF SingleInv
    <2>3. CASE Insert(c) /\ handle = NoHandle
      <3>1. call'[c].pc = "create" /\ rows' = rows
        BY <2>3, InsertRecord DEF Insert
      <3>2. handle.status = "absent"
        BY <2>3 DEF NoHandle
      <3>3. \A d \in Calls : call[d].pc # "create"
        BY <3>2 DEF PresentInv, CallPresent
      <3>4. rows = 0
        BY <1>0, <3>2 DEF PresentInv, RowPresent, RowsInv
      <3> QED
        BY <1>0, <1>2, <1>3, <2>1, <3>1, <3>3, <3>4, OwnRecord DEF SingleInv
    <2>4. ~Replay(c)
      BY <1>0 DEF Replay, FreshInv
    <2>5. ~GiveUp(c)
      <3> SUFFICES ASSUME GiveUp(c) PROVE FALSE
        OBVIOUS
      <3>1. call[c].pc = "verdict" /\ call[c].match.status # "expired"
        BY <1>0 DEF GiveUp, Miss, FreshInv
      <3>2. handle.status # "absent"
        BY <3>1 DEF PresentInv, CallPresent
      <3>3. ~Dead
        BY <1>0, <1>2, <2>1 DEF Dead
      <3>4. NoJob
        BY <3>1, <3>3 DEF GiveUp, Miss
      <3>5. \E d \in Calls : call[d].pc = "create"
        BY <1>2, <2>1, <3>2, <3>4 DEF NoJob
      <3> QED
        BY <1>1, <3>4, <3>5 DEF GiveUp
    <2>6. CASE ~Create(c) /\ ~(Insert(c) /\ handle = NoHandle)
      <3>1. rows' = rows
        BY <1>3, <2>6, RowsUntouched
      <3>2. /\ call[c].pc # "create" /\ call'[c].pc # "create"
            /\ call'[c].pc \in {"load", "commit"} => call'[c].patch # "pending"
            /\ handle'.status # "absent" => handle.status # "absent"
        <4>1. CASE Look(c)
          BY <4>1, LookRecord DEF Look
        <4>2. CASE Insert(c)
          BY <2>6, <4>2, InsertRecord DEF Insert
        <4>3. CASE CallLoads(c)
          BY <1>2, <2>1, <4>3, LoadRecord DEF CallLoads
        <4>4. CASE CallCommits(c)
          BY <1>2, <2>1, <4>4, CommitRecord DEF CallCommits, PresentInv, CallPresent
        <4>5. CASE Answer(c) \/ Submit(c)
          BY <4>5, EndsRecord DEF Answer, Submit, Miss
        <4>6. ~CallDies(c)
          BY <1>1 DEF CallDies
        <4> QED
          BY <1>3, <2>4, <2>5, <2>6, <4>1, <4>2, <4>3, <4>4, <4>5, <4>6 DEF CallStep
      <3>3. \A d \in Calls : d # c => call'[d] = call[d]
        BY <1>3, OwnRecord
      <3> QED
        BY <1>2, <2>1, <3>1, <3>2, <3>3 DEF SingleInv
    <2> QED
      BY <2>2, <2>3, <2>6
  <1>4. ASSUME rows' = rows, call' = call, handle'.status # "absent" => handle.status # "absent",
               \A i \in Rows : job[i].state = "dead" => job'[i].state = "dead"
        PROVE  SingleInv'
    BY <1>2, <1>4 DEF SingleInv
  <1>5. ASSUME NEW i \in Rows, JobStep(i) \/ JobEnds(i) \/ JobRestarts(i) PROVE SingleInv'
    <2>1. handle.status # "absent"
      BY <1>5, RowRecord DEF PresentInv, RowPresent
    <2>2. rows' = rows /\ call' = call /\ \A k \in Rows : job[k].state = "dead" => job'[k].state = "dead"
      BY <1>5, RowRecord
    <2> QED
      BY <1>4, <2>1, <2>2
  <1>6. ASSUME NEW w \in Sweeps, SweepStep(w) \/ SweepDies(w) PROVE SingleInv'
    <2>1. rows' = rows /\ call' = call /\ \A k \in Rows : job[k].state = "dead" => job'[k].state = "dead"
      BY <1>6, SweepRows
    <2>2. handle' = handle
      BY <1>0, <1>6 DEF SweepStep, SweepReadsKeys, ReclaimOrphans, SweepSelects, EvictDeletes, EvictLoads,
            EvictFlips, EvictMarksRow, SweepDies, FreshInv
    <2> QED
      BY <1>4, <2>1, <2>2
  <1>7. ASSUME UNCHANGED vars PROVE SingleInv'
    BY <1>4, <1>7 DEF vars
  <1>8. SingleInv'
    BY <1>3, <1>5, <1>6, <1>7 DEF Next
  <1> QED
    BY <1>8 DEF SingleInv

\* The unique-signature insert and the wait of its losers leave one job row for
\* a signature, however many requests and prefetches race, as long as no
\* process died or was slow, no row died and nothing was evicted.
THEOREM SignatureHasOneJob == Spec => []OneJobPerSignature
  <1> DEFINE Inv == TypeOK /\ PresentInv /\ RowsInv /\ FreshInv /\ SingleInv
  <1>1. Init => Inv
    <2>1. ASSUME Init PROVE FreshInv /\ SingleInv
      <3>1. \A c \in Calls : call[c] = NewCall
        BY <2>1 DEF Init
      <3>2. /\ NewCall.pc = "new" /\ NewCall.match = NoHandle /\ NewCall.loaded = NoHandle
            /\ NoHandle.status = "absent" /\ NoSweep.pc = "idle"
        BY DEF NewCall, NoHandle, NoSweep
      <3>3. FreshInv
        BY <2>1, <3>1, <3>2 DEF Init, FreshInv
      <3>4. SingleInv
        BY <2>1, <3>1, <3>2 DEF Init, SingleInv
      <3> QED
        BY <3>3, <3>4
    <2> QED
      BY <2>1, InitType, PresentInit, RowsInit
  <1>2. Inv /\ [Next]_vars => Inv'
    BY TypeStep, PresentStep, RowsStep, FreshStep, SingleStep
  <1>3. Inv => OneJobPerSignature
    BY DEF SingleInv, Calm, OneJobPerSignature
  <1> QED
    BY <1>1, <1>2, <1>3, PTL DEF Spec

=============================================================================
