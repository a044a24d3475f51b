-------------------------- MODULE RetrievalProofs --------------------------
(***************************************************************************)
(* Proofs about Retrieval, for any requests, collections and capabilities. *)
(*                                                                         *)
(* RetrievalInv is inductive.  Its heart is RowInv: whatever happens, the  *)
(* row is what the planner made of the request, except that the provider   *)
(* may have become OPeNDAP; what a later task builds from the row is then  *)
(* a matter of the planner's operators (PlanningProofs).  Beside it,       *)
(* CredInv says which rows still hold the caller's credential, which is    *)
(* what a task of theirs calls NASA with (CallsInv).                       *)
(*                                                                         *)
(* What the repository does not decide is a hypothesis: that the metadata  *)
(* describe the granule (NamesTrue, CatalogueTrue, GridTrue).              *)
(***************************************************************************)
EXTENDS Retrieval, PlanningProofs, GranuleFetchProofs, FiniteSetTheorems

-----------------------------------------------------------------------------
(* The invariant *)

Created == stage \notin {"planning", "rejected"}

RowFields == {"provider", "service", "bbox", "needs", "format", "plan", "trace",
              "seen", "signature"}

\* The row is the request's, by what the planner saw; only the provider changes,
\* and only from Harmony to OPeNDAP.
RowInv ==
    IF ~Created THEN row = NoRow
    ELSE /\ ~BadName /\ DOMAIN row = RowFields
         /\ row.seen \in {world.services} \cup world.later
         /\ row.needs = Needs(request) /\ row.format = Format(request)
         /\ row.bbox = request.bbox /\ row.plan = Subset
         /\ row.trace = IF request.point
                        THEN [path |-> "appeears", pinned |-> None, unmet |-> <<>>]
                        ELSE ServiceTrace(row.seen, PlanOf(request))
         /\ row.service = row.trace.pinned
         /\ row.provider \in {row.trace.path, "opendap"}
         /\ row.signature # None =>
               \E scope \in {None, Caller(request)} :
                  row.signature = [bbox |-> request.bbox, variables |-> request.variables,
                                   format |-> Format(request), scope |-> scope]

\* Until a cancel is undone the row of a live job holds the caller's credential.
CredInv == Created /\ stage \notin Terminal /\ ~undone => cred = request.token

\* The identities a call may have been made as: another than the caller's only
\* after a cancel was undone.
Ids == {Caller(request)} \cup (IF undone THEN {Service} ELSE {})

\* No call that is refused is followed by another, but for a renewed session's.
Excused(call) == call.to = "appeears" /\ call.as = Service

Sound(by) == \A i \in DOMAIN by : by[i].refused /\ i < Len(by) => Excused(by[i])

Open(by) == \A i \in DOMAIN by : by[i].refused => Excused(by[i])

CallRecords(ids) == [to: Destinations, as: ids, refused: BOOLEAN]

CallsInv ==
    /\ calls \in Seq(CallRecords(Ids)) /\ Sound(calls)
    /\ stage \notin {"rejected", "failed"} => Open(calls)

\* The last order is the one the row's provider was given.
SentInv ==
    /\ ~Created => sent = NoOrder
    /\ stage \in {"submitted", "materializing"} /\ row.provider # "opendap" =>
          sent.to = row.provider
    /\ sent.to = "hyrax" =>
          /\ row.plan.urls # <<>>
          /\ sent.names = Projection(world.shape, row.needs, row.bbox, row.plan.variables,
                                     row.plan.lat, row.plan.lon, row.plan.time,
                                     row.plan.geometry, row.plan.coords)

\* The fetch under way is that of the row's granules.
FetchesRow == stage = "fetching" => asked = row.plan.urls /\ row.provider = "opendap"

RetrievalInv ==
    /\ TypeOK /\ FetchInv /\ RowInv /\ CredInv /\ CallsInv /\ SentInv /\ FetchesRow
    /\ PinnedServiceSuffices /\ RecordTrue

-----------------------------------------------------------------------------
(* The steps by kind *)

Polling == PollOPeNDAP \/ PollMoves \/ PollFails \/ PollAgain

Around == UpstreamEnds \/ CancelJob \/ CancelUndone

LEMMA PollSteps ==
    ASSUME Polling
    PROVE  /\ stage = "submitted" /\ stage' \in {"submitted", "materializing", "failed", "cancelled"}
           /\ UNCHANGED <<context, services, expired, row, undone, sent, made, record, fetchVars>>
           /\ UNCHANGED upstream /\ polls' \in {polls, polls + 1} /\ (polls' # polls => polls < MaxPolls)
  <1>1. CASE PollOPeNDAP
    BY <1>1 DEF PollOPeNDAP, SetState, upVars
  <1>2. CASE PollMoves
    BY <1>2 DEF PollMoves, Polls, SetState, StageAfter
  <1>3. CASE PollFails
    BY <1>3 DEF PollFails, Polls, Fail, SetState
  <1>4. CASE PollAgain
    BY <1>4 DEF PollAgain, Polls
  <1> QED
    BY <1>1, <1>2, <1>3, <1>4 DEF Polling

LEMMA AroundSteps ==
    ASSUME Around
    PROVE  /\ stage \in {"pending", "submitted", "materializing"} /\ stage' \in {stage, "cancelled"}
           /\ UNCHANGED <<context, services, expired, flagged, row, sent, polls, calls, made, record,
                          fetchVars>>
           /\ undone' \in {undone, TRUE}
           /\ upstream' \in {upstream} \cup UpstreamEnded
  <1>1. CASE UpstreamEnds
    BY <1>1 DEF UpstreamEnds, credVars
  <1>2. CASE CancelJob
    BY <1>2 DEF CancelJob, SetState, upVars
  <1>3. CASE CancelUndone
    BY <1>3 DEF CancelUndone, upVars
  <1> QED
    BY <1>1, <1>2, <1>3 DEF Around

LEMMA EveryStep ==
    ASSUME [Next]_vars
    PROVE  \/ Plan \/ ServicesChange \/ TokenExpires \/ OtherIsRefused \/ TaskExpires
           \/ SubmitHarmony \/ SubmitAppEEARS \/ SubmitOPeNDAP \/ Download \/ Fetch \/ FetchEnds
           \/ Polling \/ Around \/ InFetch(FetchStep) \/ UNCHANGED vars
  BY DEF Next, Work, Polling, Around

-----------------------------------------------------------------------------
(* The fetch inside a retrieval *)

LEMMA FetchInside == [Next]_vars => [FetchNext]_fetchVars
  <1> SUFFICES ASSUME [Next]_vars PROVE [FetchNext]_fetchVars
    OBVIOUS
  <1>1. CASE Plan
    BY <1>1 DEF Plan
  <1>2. CASE ServicesChange \/ TokenExpires \/ OtherIsRefused
    BY <1>2 DEF ServicesChange, TokenExpires, OtherIsRefused
  <1>3. CASE TaskExpires \/ SubmitHarmony \/ SubmitAppEEARS \/ SubmitOPeNDAP
    BY <1>3 DEF TaskExpires, SubmitHarmony, SubmitAppEEARS, SubmitOPeNDAP
  <1>4. CASE Download \/ FetchEnds
    BY <1>4 DEF Download, FetchEnds
  <1>5. CASE Fetch
    BY <1>5 DEF Fetch, FetchStart, FetchNext
  <1>8. CASE Polling \/ Around
    BY <1>8, PollSteps, AroundSteps
  <1>6. CASE InFetch(FetchStep)
    BY <1>6 DEF InFetch, FetchNext
  <1>7. CASE UNCHANGED vars
    BY <1>7 DEF vars
  <1> QED
    BY <1>1, <1>2, <1>3, <1>4, <1>5, <1>6, <1>7, <1>8, EveryStep

LEMMA RetrievalFetches == Spec => FetchSpec
  <1>1. Init => FetchInit
    BY DEF Init
  <1> QED
    BY <1>1, FetchInside, PTL DEF Spec, FetchSpec

\* A retrieval that fell back, was retried and timed out still gets, from its
\* fetch, one answer and the whole archive or none.
THEOREM RetrievalDelivers == Spec => Delivers
  BY RetrievalFetches, FetchKeepsItsPromise, PTL

-----------------------------------------------------------------------------
(* Calls *)

LEMMA Wider == ASSUME NEW S, NEW T, S \subseteq T, NEW s \in Seq(S) PROVE s \in Seq(T)
  OBVIOUS

LEMMA CallOpen ==
    ASSUME NEW ids, NEW who \in ids, NEW to \in Destinations
    PROVE  << Call(to, who, FALSE) >> \in Seq(CallRecords(ids)) /\ Open(<< Call(to, who, FALSE) >>)
  BY DEF Call, CallRecords, Open

LEMMA Joined ==
    ASSUME NEW ids, NEW s \in Seq(CallRecords(ids)), NEW t \in Seq(CallRecords(ids)),
           Open(s), Sound(t)
    PROVE  /\ s \o t \in Seq(CallRecords(ids)) /\ Sound(s \o t)
           /\ Open(t) => Open(s \o t)
  <1>1. \A i \in DOMAIN (s \o t) :
           \/ i \in DOMAIN s /\ (s \o t)[i] = s[i]
           \/ i - Len(s) \in DOMAIN t /\ (s \o t)[i] = t[i - Len(s)]
    OBVIOUS
  <1>2. Len(s \o t) = Len(s) + Len(t)
    OBVIOUS
  <1>3. Sound(s \o t)
    BY <1>1, <1>2 DEF Sound, Open
  <1>4. ASSUME Open(t) PROVE Open(s \o t)
    BY <1>1, <1>4 DEF Open
  <1> QED
    BY <1>3, <1>4

LEMMA OpenSound == \A by : Open(by) => Sound(by)
  BY DEF Open, Sound

\* A request that may be made may be followed, unless it is refused.
LEMMA AnswersSound ==
    ASSUME NEW ids, NEW who \in ids, NEW to \in Destinations,
           NEW before \in Seq(CallRecords(ids)), Open(before), NEW ask \in Answers(before, to, who)
    PROVE  /\ ask.by \in Seq(CallRecords(ids)) /\ Sound(ask.by)
           /\ ask.verdict \notin Refusals => Open(ask.by)
  <1> DEFINE kept == << Call(to, who, FALSE) >>
             lost == << Call(to, who, TRUE) >>
  <1>1. /\ kept \in Seq(CallRecords(ids)) /\ Open(kept)
        /\ lost \in Seq(CallRecords(ids)) /\ Sound(lost)
    BY DEF Call, CallRecords, Open, Sound
  <1>2. \/ \E v \in Outcomes : ask = [by |-> before \o kept, verdict |-> v]
        \/ \E v \in Refusals : ask = [by |-> before \o lost, verdict |-> v]
    BY DEF Answers
  <1> HIDE DEF kept, lost
  <1>3. \/ ask.by = before \o kept
        \/ ask.by = before \o lost /\ ask.verdict \in Refusals
    <2>1. ASSUME NEW v \in Outcomes, ask = [by |-> before \o kept, verdict |-> v]
          PROVE  ask.by = before \o kept
      BY <2>1
    <2>2. ASSUME NEW v \in Refusals, ask = [by |-> before \o lost, verdict |-> v]
          PROVE  (ask.by = before \o lost) /\ (ask.verdict \in Refusals)
      BY <2>2
    <2> QED
      BY <1>2, <2>1, <2>2
  <1>4. CASE ask.by = before \o kept
    BY <1>1, <1>4, Joined, OpenSound
  <1>5. CASE ask.by = before \o lost /\ ask.verdict \in Refusals
    BY <1>1, <1>5, Joined
  <1> QED
    BY <1>3, <1>4, <1>5

LEMMA AsksSound ==
    ASSUME NEW ids, NEW who \in ids, NEW to \in Destinations, NEW ask \in Asks(to, who)
    PROVE  /\ ask.by \in Seq(CallRecords(ids)) /\ Sound(ask.by)
           /\ ask.verdict \notin Refusals => Open(ask.by)
  <1> DEFINE lost == << Call(to, who, TRUE) >>
             renews == to = "appeears" /\ who = Service
  <1>1. ASSUME renews PROVE lost \in Seq(CallRecords(ids)) /\ Open(lost)
    BY <1>1 DEF Call, CallRecords, Open, Excused
  <1>2. << >> \in Seq(CallRecords(ids)) /\ Open(<< >>)
    BY DEF Open
  <1>3. \/ ask \in Answers(<<>>, to, who)
        \/ renews /\ ask \in Answers(lost, to, who)
        \/ renews /\ ask = [by |-> lost, verdict |-> "error"]
    BY DEF Asks
  <1> HIDE DEF lost, renews
  <1>4. CASE ask \in Answers(<<>>, to, who)
    BY <1>2, <1>4, AnswersSound
  <1>5. CASE renews /\ ask \in Answers(lost, to, who)
    BY <1>1, <1>5, AnswersSound
  <1>6. CASE renews /\ ask = [by |-> lost, verdict |-> "error"]
    BY <1>1, <1>6, OpenSound
  <1> QED
    BY <1>3, <1>4, <1>5, <1>6

\* A handler's calls: the capabilities are fetched, and a request is made.
LEMMA Asked ==
    ASSUME NEW ids, NEW who \in ids, NEW before \in Seq(CallRecords(ids)), Open(before),
           NEW to \in Destinations, NEW ask \in Asks(to, who)
    PROVE  LET after == before \o Capabilities(who) \o ask.by IN
           /\ after \in Seq(CallRecords(ids)) /\ Sound(after)
           /\ ask.verdict \notin Refusals => Open(after)
  <1> DEFINE looked == before \o Capabilities(who)
  <1>1. looked \in Seq(CallRecords(ids)) /\ Open(looked)
    BY CallOpen, OpenSound, Joined DEF Destinations, Capabilities
  <1> HIDE DEF looked
  <1>2. looked \o ask.by \in Seq(CallRecords(ids)) /\ Sound(looked \o ask.by)
        /\ (ask.verdict \notin Refusals => Open(looked \o ask.by))
    BY <1>1, AsksSound, Joined
  <1> QED
    BY <1>2 DEF looked

-----------------------------------------------------------------------------
(* The row *)

LEMMA SubsetKept == UNCHANGED context => UNCHANGED Subset /\ (BadName' <=> BadName)
  BY DEF context, Subset, BadName, Needs

LEMMA RowKept ==
    ASSUME RowInv, UNCHANGED <<context, row>>, Created' = Created
    PROVE  RowInv'
  BY SubsetKept DEF RowInv, context, Needs, Format, PlanOf, Caller

LEMMA RowCreated ==
    ASSUME TypeOK, CreateJob, ~Rejected, UNCHANGED context
    PROVE  RowInv'
  <1> DEFINE spec == RequestSpec
  <1>1. row' = spec /\ Created'
    BY DEF CreateJob, Created
  <1>2. /\ DOMAIN spec = RowFields
        /\ spec.seen = services /\ spec.needs = Needs(request) /\ spec.format = Format(request)
        /\ spec.bbox = request.bbox /\ spec.plan = Subset /\ spec.trace = Route
        /\ spec.service = Route.pinned /\ spec.provider = Route.path
        /\ spec.signature \in {Signature(request), None}
    BY DEF RequestSpec, RowFields
  <1>3. Route = IF request.point
                THEN [path |-> "appeears", pinned |-> None, unmet |-> <<>>]
                ELSE ServiceTrace(services, PlanOf(request))
    BY DEF Route
  <1>4. \E scope \in {None, Caller(request)} :
           Signature(request) = [bbox |-> request.bbox, variables |-> request.variables,
                                 format |-> Format(request), scope |-> scope]
    BY DEF Signature, ReuseScope
  <1>5. ~BadName
    BY DEF Rejected
  <1> HIDE DEF spec
  <1> QED
    BY <1>1, <1>2, <1>3, <1>4, <1>5, SubsetKept
       DEF RowInv, TypeOK, context, Needs, Format, PlanOf, Caller

LEMMA RowFallback ==
    ASSUME RowInv, Created, Created', UNCHANGED context,
           row' = [row EXCEPT !.provider = "opendap"]
    PROVE  RowInv' /\ row'.provider = "opendap" /\ UNCHANGED <<row.seen, row.needs, row.format, row.plan, row.bbox>>
  <1>1. /\ DOMAIN row' = RowFields
        /\ \A f \in RowFields \ {"provider"} : row'[f] = row[f]
        /\ row'.provider = "opendap"
    BY DEF RowInv, RowFields
  <1> QED
    BY <1>1, SubsetKept DEF RowInv, RowFields, context, Needs, Format, PlanOf, Caller

LEMMA RowStep ==
    ASSUME TypeOK, RowInv, [Next]_vars
    PROVE  RowInv'
  <1>1. CASE Plan
    <2>1. CASE ~Rejected /\ CreateJob
      BY <1>1, <2>1, RowCreated DEF Plan
    <2>2. CASE ~(~Rejected /\ CreateJob)
      BY <1>1, <2>2, RowKept DEF Plan, Created
    <2> QED
      BY <2>1, <2>2
  <1>2. CASE ServicesChange \/ TokenExpires \/ OtherIsRefused
    BY <1>2, RowKept DEF ServicesChange, TokenExpires, OtherIsRefused, jobVars, Created
  <1>3. CASE SubmitHarmony
    <2>1. UNCHANGED context /\ Created /\ Created'
      BY <1>3 DEF SubmitHarmony, Created, Fail, SetState
    <2>2. CASE row' = [row EXCEPT !.provider = "opendap"]
      BY <2>1, <2>2, RowFallback
    <2>3. CASE UNCHANGED row
      BY <2>1, <2>3, RowKept
    <2> QED
      BY <1>3, <2>2, <2>3 DEF SubmitHarmony
  <1>4. CASE TaskExpires \/ SubmitAppEEARS \/ SubmitOPeNDAP
    BY <1>4, RowKept DEF TaskExpires, SubmitAppEEARS, SubmitOPeNDAP, Fail, SetState, Created
  <1>5. CASE Download \/ Fetch \/ FetchEnds
    BY <1>5, RowKept DEF Download, Fetch, FetchEnds, Fail, SetState, Created
  <1>6. CASE InFetch(FetchStep) \/ UNCHANGED vars
    BY <1>6, RowKept DEF InFetch, vars, jobVars, Created
  <1>7. CASE Polling \/ Around
    BY <1>7, PollSteps, AroundSteps, RowKept DEF Created
  <1> QED
    BY <1>1, <1>2, <1>3, <1>4, <1>5, <1>6, <1>7, EveryStep

-----------------------------------------------------------------------------
(* The credential *)

LEMMA CredStep ==
    ASSUME TypeOK, CredInv, [Next]_vars
    PROVE  CredInv' /\ cred' \in {None, request.token} /\ undone' \in BOOLEAN
  <1>1. cred \in {None, request.token} /\ undone \in BOOLEAN
    BY DEF TypeOK
  <1>2. UNCHANGED request
    BY EveryStep, PollSteps, AroundSteps
       DEF vars, context, Plan, ServicesChange, TokenExpires, OtherIsRefused, TaskExpires,
           SubmitHarmony, SubmitAppEEARS, SubmitOPeNDAP, Download, Fetch, FetchEnds, InFetch
  <1> DEFINE Good == CredInv' /\ cred' \in {None, request.token} /\ undone' \in BOOLEAN
  <1> SUFFICES Good
    OBVIOUS
  <1>3. ASSUME UNCHANGED <<cred, undone>>,
               (Created /\ stage \notin Terminal) \/ stage' \in {"planning", "rejected"} \cup Terminal
        PROVE  Good
    BY <1>1, <1>2, <1>3 DEF CredInv, Created
  <1>4. ASSUME NEW to, SetState(to), UNCHANGED undone, Created, stage \notin Terminal
        PROVE  Good
    BY <1>1, <1>2, <1>4 DEF SetState, CredInv, Created
  <1>5. ASSUME UNCHANGED <<stage, cred, undone>> PROVE Good
    BY <1>1, <1>2, <1>5 DEF CredInv, Created
  <1>6. CASE Plan
    <2>1. CASE CreateJob
      BY <1>1, <1>2, <1>6, <2>1 DEF Plan, CreateJob, CredInv
    <2>2. CASE ~CreateJob
      BY <1>3, <1>6, <2>2 DEF Plan
    <2> QED
      BY <2>1, <2>2
  <1>7. CASE ServicesChange \/ TokenExpires \/ OtherIsRefused \/ InFetch(FetchStep) \/ UNCHANGED vars
    BY <1>5, <1>7
       DEF ServicesChange, TokenExpires, OtherIsRefused, InFetch, vars, jobVars, credVars
  <1>8. CASE SubmitHarmony
    <2>1. UNCHANGED undone /\ Created /\ stage \notin Terminal
          /\ (UNCHANGED <<stage, cred>> \/ SetState("submitted") \/ SetState("failed"))
      BY <1>8 DEF SubmitHarmony, Fail, Created, Terminal
    <2> QED
      BY <1>4, <1>5, <2>1
  <1>9. CASE SubmitAppEEARS
    <2>1. UNCHANGED undone /\ Created /\ stage \notin Terminal
          /\ (SetState("submitted") \/ SetState("failed"))
      BY <1>9 DEF SubmitAppEEARS, Fail, Created, Terminal
    <2> QED
      BY <1>4, <2>1
  <1>10. CASE TaskExpires \/ SubmitOPeNDAP
    <2>1. UNCHANGED undone /\ Created /\ stage \notin Terminal
          /\ (SetState("submitted") \/ SetState("failed"))
      BY <1>10 DEF TaskExpires, SubmitOPeNDAP, Created, Terminal
    <2> QED
      BY <1>4, <2>1
  <1>11. CASE Download \/ Fetch \/ FetchEnds
    <2>1. UNCHANGED undone /\ Created /\ stage \notin Terminal
          /\ (SetState("ready") \/ SetState("fetching") \/ SetState("failed"))
      BY <1>11 DEF Download, Fetch, FetchEnds, Fail, Created, Terminal
    <2> QED
      BY <1>4, <2>1
  <1>12. CASE Polling
    <2>1. stage = "submitted" /\ UNCHANGED undone
      BY <1>12, PollSteps
    <2>2. UNCHANGED <<stage, cred>> \/ \E to : SetState(to)
      BY <1>12 DEF Polling, PollOPeNDAP, PollMoves, PollFails, PollAgain, Fail
    <2> QED
      BY <1>4, <1>5, <2>1, <2>2 DEF Created, Terminal
  <1>13. CASE UpstreamEnds
    BY <1>5, <1>13 DEF UpstreamEnds, credVars
  <1>14. CASE CancelJob
    BY <1>4, <1>14 DEF CancelJob, Created, Terminal
  <1>15. CASE CancelUndone
    BY <1>15 DEF CancelUndone, CredInv
  <1> QED
    BY EveryStep, <1>6, <1>7, <1>8, <1>9, <1>10, <1>11, <1>12, <1>13, <1>14, <1>15 DEF Around

\* Whoever a task runs as is one of those it may.
LEMMA IdentityIs ==
    ASSUME TypeOK, CredInv, Created, stage \notin Terminal
    PROVE  Identity \in Ids
  BY DEF TypeOK, CredInv, Identity, Ids, Caller

-----------------------------------------------------------------------------
(* The calls *)

LEMMA CallsStep ==
    ASSUME TypeOK, RowInv, CredInv, CallsInv, [Next]_vars
    PROVE  CallsInv'
  <1>1. /\ calls \in Seq(CallRecords(Ids)) /\ Sound(calls)
        /\ stage \notin {"rejected", "failed"} => Open(calls)
    BY DEF CallsInv
  <1>2. UNCHANGED request /\ undone' \in {undone, TRUE}
    <2>1. CASE Polling \/ Around
      BY <2>1, PollSteps, AroundSteps DEF context
    <2>2. CASE ServicesChange \/ TokenExpires \/ OtherIsRefused \/ InFetch(FetchStep) \/ UNCHANGED vars
      BY <2>2 DEF vars, context, ServicesChange, TokenExpires, OtherIsRefused, InFetch, jobVars, credVars
    <2>3. CASE Plan \/ TaskExpires \/ SubmitHarmony \/ SubmitAppEEARS \/ SubmitOPeNDAP
      BY <2>3 DEF context, Plan, TaskExpires, SubmitHarmony, SubmitAppEEARS, SubmitOPeNDAP
    <2>4. CASE Download \/ Fetch \/ FetchEnds
      BY <2>4 DEF context, Download, Fetch, FetchEnds
    <2> QED
      BY EveryStep, <2>1, <2>2, <2>3, <2>4
  <1>3. CallRecords(Ids) \subseteq CallRecords(Ids)'
    <2>1. Ids \subseteq Ids'
      <3>1. UNCHANGED Caller(request)
        BY <1>2 DEF Caller
      <3>2. undone => undone'
        BY <1>2
      <3> QED
        BY <3>1, <3>2 DEF Ids
    <2>2. ASSUME NEW c \in CallRecords(Ids) PROVE c \in CallRecords(Ids')
      BY <2>1 DEF CallRecords
    <2>3. CallRecords(Ids)' = CallRecords(Ids')
      BY DEF CallRecords
    <2> QED
      BY <2>2, <2>3
  <1> DEFINE Good == /\ calls' \in Seq(CallRecords(Ids)) /\ Sound(calls')
                     /\ stage' \notin {"rejected", "failed"} => Open(calls')
  <1> SUFFICES Good
    <2>1. ASSUME Good PROVE calls' \in Seq(CallRecords(Ids)')
      BY <1>3, <2>1
    <2> QED
      BY <2>1 DEF CallsInv, Sound, Open, Excused, CallRecords
  <1>4. CASE UNCHANGED calls /\ (stage' \in {"rejected", "failed"} \/ stage \notin {"rejected", "failed"})
    BY <1>1, <1>4
  <1>5. ASSUME NEW who \in Ids, NEW to \in Destinations, NEW ask \in Asks(to, who), Open(calls),
               calls' = calls \o Capabilities(who) \o ask.by,
               ask.verdict \in Refusals => stage' \in {"rejected", "failed"}
        PROVE  Good
    BY <1>1, <1>5, Asked
  <1>6. ASSUME NEW who \in Ids, Open(calls), calls' = calls \o Capabilities(who) PROVE Good
    BY <1>1, <1>6, CallOpen, OpenSound, Joined DEF Destinations, Capabilities
  <1>7. CASE Plan
    <2> DEFINE who == Caller(request)
    <2>1. who \in Ids
      BY DEF Ids
    <2>2. Capabilities(who) \in Seq(CallRecords(Ids)) /\ Open(Capabilities(who))
      BY <2>1, CallOpen DEF Destinations, Capabilities
    <2>3. \/ UNCHANGED calls
          \/ calls' = Capabilities(who)
          \/ \E ask \in Asks("appeears", who) :
                /\ calls' = Capabilities(who) \o ask.by
                /\ ask.verdict \in Refusals => stage' = "rejected"
      BY <1>7 DEF Plan, Refusals
    <2> HIDE DEF who
    <2>4. ASSUME NEW ask \in Asks("appeears", who), calls' = Capabilities(who) \o ask.by,
                 ask.verdict \in Refusals => stage' = "rejected"
          PROVE  Good
      BY <2>1, <2>2, <2>4, AsksSound, Joined DEF Destinations
    <2>5. CASE calls' = Capabilities(who)
      BY <2>2, <2>5, OpenSound
    <2>6. CASE UNCHANGED calls
      BY <1>1, <1>7, <2>6 DEF Plan
    <2> QED
      BY <2>3, <2>4, <2>5, <2>6
  <1>8. CASE SubmitHarmony
    <2>1. PICK ask \in Asks("harmony", Identity) :
             /\ calls' = calls \o Capabilities(Identity) \o ask.by
             /\ ask.verdict \in Refusals => stage' = "failed"
      BY <1>8 DEF SubmitHarmony, Fail, SetState, Refusals
    <2>2. Open(calls) /\ Identity \in Ids
      BY <1>1, <1>8, IdentityIs DEF SubmitHarmony, Created, Terminal
    <2> QED
      BY <1>5, <2>1, <2>2 DEF Destinations
  <1>9. CASE SubmitAppEEARS
    <2>1. PICK look \in Asks("appeears", Identity), post \in Asks("appeears", Identity),
               found \in BOOLEAN :
             /\ found => look.verdict = "ok"
             /\ calls' = calls \o Capabilities(Identity) \o look.by \o (IF found THEN post.by ELSE <<>>)
             /\ found /\ post.verdict # "ok" => stage' = "failed"
             /\ ~found => stage' = "failed"
      BY <1>9 DEF SubmitAppEEARS, Fail, SetState
    <2> DEFINE looked == calls \o Capabilities(Identity) \o look.by
    <2>2. Open(calls) /\ Identity \in Ids
      BY <1>1, <1>9, IdentityIs DEF SubmitAppEEARS, Created, Terminal
    <2>3. /\ looked \in Seq(CallRecords(Ids)) /\ Sound(looked)
          /\ look.verdict \notin Refusals => Open(looked)
      BY <1>1, <2>2, Asked DEF Destinations
    <2>4. calls' = looked \o (IF found THEN post.by ELSE <<>>)
      BY <2>1
    <2> HIDE DEF looked
    <2>5. CASE ~found
      <3>1. calls' = looked
        BY <2>3, <2>4, <2>5
      <3> QED
        BY <2>1, <2>3, <2>5, <3>1
    <2>6. CASE found
      <3>1. Open(looked)
        BY <2>1, <2>3, <2>6 DEF Refusals
      <3>2. calls' = looked \o post.by
        BY <2>4, <2>6
      <3>3. post.verdict \in Refusals => stage' = "failed"
        BY <2>1, <2>6 DEF Refusals
      <3> QED
        BY <2>2, <2>3, <3>1, <3>2, <3>3, AsksSound, Joined DEF Destinations
    <2> QED
      BY <2>5, <2>6
  <1>10. CASE SubmitOPeNDAP
    <2>1. Open(calls) /\ Identity \in Ids /\ calls' = calls \o Capabilities(Identity)
      BY <1>1, <1>10, IdentityIs DEF SubmitOPeNDAP, Created, Terminal
    <2> QED
      BY <1>6, <2>1
  <1>11. CASE Polling
    <2>1. Open(calls) /\ Identity \in Ids
      BY <1>1, <1>11, PollSteps, IdentityIs DEF Created, Terminal
    <2>2. CASE PollOPeNDAP
      BY <1>6, <2>1, <2>2 DEF PollOPeNDAP
    <2>3. CASE PollMoves \/ PollFails \/ PollAgain
      <3>1. PICK ask \in Asks(row.provider, Identity) :
               /\ calls' = calls \o Capabilities(Identity) \o ask.by
               /\ ask.verdict \in Refusals => stage' = "failed"
        BY <2>3 DEF PollMoves, PollFails, PollAgain, Polls, Fail, SetState, Refusals
      <3>2. row.provider \in Destinations
        BY <2>3 DEF PollMoves, PollFails, PollAgain, Polls, TypeOK, Destinations
      <3> QED
        BY <1>5, <2>1, <3>1, <3>2
    <2> QED
      BY <1>11, <2>2, <2>3 DEF Polling
  <1>12. CASE Download
    <2>1. PICK ask \in Asks(row.provider, Identity) :
             /\ calls' = calls \o Capabilities(Identity) \o ask.by
             /\ ask.verdict \in Refusals => stage' = "failed"
      BY <1>12 DEF Download, Fail, SetState, Refusals
    <2>2. row.provider \in Destinations /\ Open(calls) /\ Identity \in Ids
      BY <1>1, <1>12, IdentityIs DEF Download, TypeOK, Destinations, Created, Terminal
    <2> QED
      BY <1>5, <2>1, <2>2
  <1>13. CASE Fetch
    <2>1. /\ Open(calls) /\ Identity \in Ids
          /\ calls' = calls \o Capabilities(Identity) \o << Call("hyrax", Identity, FALSE) >>
      BY <1>1, <1>13, IdentityIs DEF Fetch, Created, Terminal
    <2> DEFINE looked == calls \o Capabilities(Identity)
    <2>2. looked \in Seq(CallRecords(Ids)) /\ Open(looked)
      BY <1>1, <2>1, CallOpen, OpenSound, Joined DEF Destinations, Capabilities
    <2>3. calls' = looked \o << Call("hyrax", Identity, FALSE) >>
      BY <2>1
    <2> HIDE DEF looked
    <2> QED
      BY <2>1, <2>2, <2>3, CallOpen, OpenSound, Joined DEF Destinations
  <1>14. CASE ServicesChange \/ TokenExpires \/ OtherIsRefused \/ InFetch(FetchStep) \/ UNCHANGED vars
    BY <1>1, <1>14
       DEF ServicesChange, TokenExpires, OtherIsRefused, InFetch, vars, jobVars
  <1>15. CASE TaskExpires \/ FetchEnds
    BY <1>4, <1>15 DEF TaskExpires, FetchEnds, Fail, SetState
  <1>16. CASE Around
    BY <1>4, <1>16, AroundSteps
  <1> QED
    BY EveryStep, <1>7, <1>8, <1>9, <1>10, <1>11, <1>12, <1>13, <1>14, <1>15, <1>16

-----------------------------------------------------------------------------
(* The pinned service *)

LEMMA NoneApart == None \notin {"harmony", "appeears", "opendap", "hyrax"}
  BY CasesAssumption

LEMMA ServicesTyped ==
    ASSUME TypeOK
    PROVE  \A list \in {world.services} \cup world.later : list \in Seq(ServiceRecords)
  <1>1. \E c \in Cases : c.world = world
    BY DEF TypeOK
  <1> QED
    BY <1>1, CasesAssumption

\* A service the row holds satisfies its plan, by what the planner saw.
LEMMA RowServiceFits ==
    ASSUME TypeOK, RowInv, Created, row.service # None
    PROVE  Fits(row.seen, row.service)
  <1>1. ~request.point /\ row.trace = ServiceTrace(row.seen, PlanOf(request))
    BY DEF RowInv
  <1>2. row.service = FindService(row.seen, PlanOf(request))
    BY <1>1 DEF RowInv, ServiceTrace
  <1>3. row.seen \in Seq(ServiceRecords)
    BY ServicesTyped DEF RowInv
  <1>4. PICK s \in Range(row.seen) : s.name = row.service /\ Satisfies(s, PlanOf(request))
    BY <1>2, <1>3, FoundFits
  <1> QED
    BY <1>4 DEF Fits, Satisfies, PlanOf, RowInv

LEMMA PinnedKept ==
    ASSUME PinnedServiceSuffices, UNCHANGED <<sent, row.seen, row.needs, row.format>>
    PROVE  PinnedServiceSuffices'
  BY DEF PinnedServiceSuffices, Fits, Satisfies

LEMMA PinnedStep ==
    ASSUME TypeOK, RowInv, SentInv, PinnedServiceSuffices, [Next]_vars
    PROVE  PinnedServiceSuffices'
  <1>1. CASE Plan
    <2>1. sent'.to = None
      BY <1>1 DEF Plan, SentInv, Created, NoOrder
    <2> QED
      BY <2>1, NoneApart DEF PinnedServiceSuffices
  <1>2. CASE SubmitHarmony
    <2>1. Created /\ Created' /\ UNCHANGED context
      BY <1>2 DEF SubmitHarmony, Created, Fail, SetState
    <2>2. UNCHANGED <<row.seen, row.needs, row.format>>
      BY <1>2, <2>1, RowFallback DEF SubmitHarmony
    <2>3. sent' = [to |-> "harmony", service |-> PinnedService, seen |-> services]
      BY <1>2 DEF SubmitHarmony
    <2>4. CASE services = <<>>
      <3>1. row.service # None => Fits(row.seen, row.service)
        BY <2>1, RowServiceFits
      <3> QED
        BY <2>2, <2>3, <2>4, <3>1 DEF PinnedService, PinnedServiceSuffices, Fits, Satisfies
    <2>5. CASE services # <<>>
      <3>1. services \in Seq(ServiceRecords)
        BY ServicesTyped DEF TypeOK
      <3>2. FindService(services, row) # None => Fits(services, FindService(services, row))
        BY <3>1, FoundFits DEF Fits
      <3> QED
        BY <2>2, <2>3, <2>5, <3>2 DEF PinnedService, PinnedServiceSuffices, Fits, Satisfies
    <2> QED
      BY <2>4, <2>5
  <1>3. CASE SubmitAppEEARS
    <2>1. UNCHANGED row /\ (UNCHANGED sent \/ sent'.to = "appeears")
      BY <1>3 DEF SubmitAppEEARS
    <2> QED
      BY <2>1, PinnedKept DEF PinnedServiceSuffices
  <1>4. CASE SubmitOPeNDAP
    <2>1. UNCHANGED row /\ (UNCHANGED sent \/ sent'.to = "hyrax")
      BY <1>4 DEF SubmitOPeNDAP
    <2> QED
      BY <2>1, PinnedKept DEF PinnedServiceSuffices
  <1>5. CASE ServicesChange \/ TokenExpires \/ OtherIsRefused \/ InFetch(FetchStep) \/ UNCHANGED vars
    BY <1>5, PinnedKept
       DEF ServicesChange, TokenExpires, OtherIsRefused, InFetch, vars, jobVars
  <1>6. CASE TaskExpires \/ Download \/ Fetch \/ FetchEnds
    BY <1>6, PinnedKept DEF TaskExpires, Download, Fetch, FetchEnds
  <1>7. CASE Polling \/ Around
    BY <1>7, PollSteps, AroundSteps, PinnedKept
  <1> QED
    BY <1>1, <1>2, <1>3, <1>4, <1>5, <1>6, <1>7, EveryStep

-----------------------------------------------------------------------------
(* The order *)

LEMMA SentKept ==
    ASSUME RowInv, SentInv, UNCHANGED <<context, row, sent>>, Created' = Created,
           stage' \in {"submitted", "materializing"} => stage \in {"submitted", "materializing"}
    PROVE  SentInv'
  BY DEF SentInv, context

LEMMA SentStep ==
    ASSUME TypeOK, RowInv, SentInv, [Next]_vars
    PROVE  SentInv'
  <1>1. CASE Plan
    <2>1. sent' = NoOrder /\ sent'.to = None /\ stage' \notin {"submitted", "materializing"}
      BY <1>1 DEF Plan, CreateJob, SentInv, Created, NoOrder
    <2> QED
      BY <2>1, NoneApart DEF SentInv, NoOrder
  <1>2. CASE SubmitHarmony
    <2>1. Created' /\ sent'.to = "harmony"
      BY <1>2 DEF SubmitHarmony, Created, Fail, SetState
    <2>2. stage' = "submitted" => UNCHANGED row
      BY <1>2 DEF SubmitHarmony, Fail, SetState
    <2>3. stage' # "materializing" /\ row.provider = "harmony"
      BY <1>2 DEF SubmitHarmony, Fail, SetState
    <2> QED
      BY <2>1, <2>2, <2>3 DEF SentInv
  <1>3. CASE SubmitAppEEARS
    <2>1. Created /\ Created' /\ UNCHANGED <<row, context>> /\ row.provider = "appeears"
      BY <1>3 DEF SubmitAppEEARS, Created, Fail, SetState
    <2>2. \/ UNCHANGED sent /\ stage' = "failed"
          \/ sent'.to = "appeears" /\ stage' \in {"submitted", "failed"}
      <3>1. PICK found \in BOOLEAN, look \in Asks("appeears", Identity),
                 post \in Asks("appeears", Identity) :
               /\ sent' = IF found
                          THEN [to |-> "appeears", layers |-> {Layer(n) : n \in row.plan.variables}]
                          ELSE sent
               /\ CASE found /\ post.verdict = "ok" -> SetState("submitted")
                    [] found /\ post.verdict # "ok" -> Fail(post.verdict)
                    [] ~found -> Fail(look.verdict)
        BY <1>3 DEF SubmitAppEEARS
      <3> QED
        BY <3>1 DEF Fail, SetState
    <2>3. CASE UNCHANGED sent /\ stage' = "failed"
      BY <2>1, <2>3, SentKept
    <2>4. CASE sent'.to = "appeears"
      BY <2>1, <2>4 DEF SentInv
    <2> QED
      BY <2>2, <2>3, <2>4
  <1>4. CASE SubmitOPeNDAP
    <2>1. Created /\ Created' /\ UNCHANGED <<row, context>> /\ row.provider = "opendap"
      BY <1>4 DEF SubmitOPeNDAP, Created, SetState
    <2>2. CASE UNCHANGED sent /\ stage' = "failed"
      BY <2>1, <2>2, SentKept
    <2>3. CASE CanHandle
      BY <1>4, <2>1, <2>3 DEF SubmitOPeNDAP, SentInv, context, CanHandle
    <2> QED
      BY <1>4, <2>2, <2>3 DEF SubmitOPeNDAP, SetState
  <1>5. CASE ServicesChange \/ TokenExpires \/ OtherIsRefused \/ InFetch(FetchStep) \/ UNCHANGED vars
    BY <1>5, SentKept
       DEF ServicesChange, TokenExpires, OtherIsRefused, InFetch, vars, jobVars, Created
  <1>6. CASE TaskExpires \/ Download \/ Fetch \/ FetchEnds
    BY <1>6, SentKept DEF TaskExpires, Download, Fetch, FetchEnds, Fail, SetState, Created
  <1>7. CASE Polling \/ Around
    BY <1>7, PollSteps, AroundSteps, SentKept DEF Created
  <1> QED
    BY <1>1, <1>2, <1>3, <1>4, <1>5, <1>6, <1>7, EveryStep

-----------------------------------------------------------------------------
(* The result and its record *)

LEMMA AskedKept == FetchStep => UNCHANGED asked
  <1>1. \A i \in Positions :
           AcquireLock(i) \/ TakeToken(i) \/ Request(i) \/ Transient(i) \/ Refused(i)
           \/ Body(i) \/ Finish(i) \/ Break(i) \/ Cancel(i) => UNCHANGED asked
    BY DEF AcquireLock, TakeToken, Request, Transient, Refused, Body, Finish, Break, Cancel, Fails
  <1>2. Refill \/ OtherTakes \/ Timeout \/ GroupEnds \/ Zip \/ CopyStarts \/ CopyEnds
        \/ CopyFails \/ Return => UNCHANGED asked
    BY DEF Refill, OtherTakes, Timeout, GroupEnds, Zip, CopyStarts, CopyEnds, CopyFails, Return
  <1> QED
    BY <1>1, <1>2 DEF FetchStep, FetchWork

LEMMA FetchesStep ==
    ASSUME FetchesRow, [Next]_vars
    PROVE  FetchesRow'
  <1>1. CASE Plan
    BY <1>1 DEF Plan, CreateJob, FetchesRow
  <1>2. CASE \/ TaskExpires \/ SubmitHarmony \/ SubmitAppEEARS \/ SubmitOPeNDAP \/ Download
             \/ FetchEnds \/ Polling \/ Around
    <2>1. stage' # "fetching"
      BY <1>2, PollSteps, AroundSteps
         DEF TaskExpires, SubmitHarmony, SubmitAppEEARS, SubmitOPeNDAP, Download, FetchEnds, Fail, SetState
    <2> QED
      BY <2>1 DEF FetchesRow
  <1>3. CASE Fetch
    BY <1>3 DEF Fetch, FetchStart, FetchesRow
  <1>4. CASE ServicesChange \/ TokenExpires \/ OtherIsRefused
    BY <1>4 DEF ServicesChange, TokenExpires, OtherIsRefused, jobVars, fetchVars, FetchesRow
  <1>5. CASE InFetch(FetchStep)
    BY <1>5, AskedKept DEF InFetch, jobVars, FetchesRow
  <1>6. CASE UNCHANGED vars
    BY <1>6 DEF vars, jobVars, fetchVars, FetchesRow
  <1> QED
    BY <1>1, <1>2, <1>3, <1>4, <1>5, <1>6, EveryStep

\* The archive of a call holds the granules of its URLs.
LEMMA MembersOf ==
    ASSUME NEW urls \in Seq(Urls)
    PROVE  {m.of : m \in Range(Promise!Members(urls))} = Range(urls)
  <1> DEFINE members == Promise!Members(urls)
  <1>1. DOMAIN members = DOMAIN urls /\ \A i \in DOMAIN urls : members[i].of = urls[i]
    BY DEF Promise!Members
  <1> HIDE DEF members
  <1>2. Range(members) = {members[i] : i \in DOMAIN urls}
    BY <1>1 DEF Range
  <1>3. {m.of : m \in Range(members)} = {members[i].of : i \in DOMAIN urls}
    BY <1>2
  <1>4. {members[i].of : i \in DOMAIN urls} = Range(urls)
    BY <1>1 DEF Range
  <1> QED
    BY <1>3, <1>4 DEF members

\* What a stage without a result has, and what makes one.
ResultInv ==
    /\ (made = NoResult) = (stage # "ready")
    /\ (record = NoResult) = (stage # "ready")
    /\ RecordTrue

LEMMA ResultStep ==
    ASSUME TypeOK, FetchInv, RowInv, SentInv, FetchesRow, RecordTrue, [Next]_vars
    PROVE  ResultInv'
  <1> DEFINE Typed == /\ (made = NoResult) = (stage # "ready")
                      /\ (record = NoResult) = (stage # "ready")
  <1>1. Typed
    BY DEF TypeOK
  <1>2. ASSUME UNCHANGED <<made, record>>, (stage' = "ready") <=> (stage = "ready") PROVE ResultInv'
    BY <1>1, <1>2 DEF ResultInv, RecordTrue, NoResult
  <1>3. CASE Download
    <2>1. row.provider = sent.to /\ row.provider # None /\ stage # "ready"
      BY <1>3 DEF Download, SentInv, TypeOK
    <2>2. CASE stage' = "ready"
      <3>1. PICK granules : made' = [by |-> sent.to, of |-> granules] /\ record' = RecordOf(granules)
        BY <1>3, <2>2 DEF Download, Fail, SetState
      <3>2. made' = record' /\ made'.by # None
        BY <2>1, <3>1 DEF RecordOf
      <3> QED
        BY <2>2, <3>2 DEF ResultInv, RecordTrue, NoResult
    <2>3. CASE stage' # "ready"
      BY <1>2, <1>3, <2>1, <2>3 DEF Download, SetState
    <2> QED
      BY <2>2, <2>3
  <1>4. CASE FetchEnds
    <2>1. CASE phase = "stored"
      <3>1. blob.members = Promise!Members(row.plan.urls) /\ row.provider = "opendap"
        BY <1>4, <2>1 DEF FetchEnds, FetchesRow, FetchInv, PhaseInv, BlobInv
      <3>2. row.plan.urls \in Seq(Urls)
        BY <1>4, AskedDomain DEF FetchEnds, FetchesRow, FetchInv
      <3>3. made' = [by |-> "opendap", of |-> Range(row.plan.urls)]
        BY <1>4, <2>1, <3>1, <3>2, MembersOf DEF FetchEnds
      <3>4. record' = made' /\ made'.by # None
        BY <1>4, <2>1, <3>1, <3>3, NoneApart DEF FetchEnds, RecordOf
      <3> QED
        BY <1>4, <2>1, <3>4 DEF FetchEnds, SetState, ResultInv, RecordTrue, NoResult
    <2>2. CASE phase # "stored"
      BY <1>2, <1>4, <2>2 DEF FetchEnds, Fail, SetState
    <2> QED
      BY <2>1, <2>2
  <1>5. CASE Plan
    BY <1>2, <1>5 DEF Plan, CreateJob
  <1>6. CASE ServicesChange \/ TokenExpires \/ OtherIsRefused \/ InFetch(FetchStep) \/ UNCHANGED vars
    BY <1>2, <1>6 DEF ServicesChange, TokenExpires, OtherIsRefused, InFetch, vars, jobVars
  <1>7. CASE TaskExpires \/ SubmitHarmony \/ SubmitAppEEARS \/ SubmitOPeNDAP \/ Fetch
    BY <1>2, <1>7 DEF TaskExpires, SubmitHarmony, SubmitAppEEARS, SubmitOPeNDAP, Fetch, Fail, SetState
  <1>8. CASE Polling \/ Around
    BY <1>2, <1>8, PollSteps, AroundSteps
  <1> QED
    BY <1>3, <1>4, <1>5, <1>6, <1>7, <1>8, EveryStep

-----------------------------------------------------------------------------
(* Types *)

LEMMA StageStep ==
    ASSUME TypeOK, [Next]_vars
    PROVE  stage' \in Stages /\ flagged' \in BOOLEAN
  <1> DEFINE Typed == stage' \in Stages /\ flagged' \in BOOLEAN
  <1>1. stage \in Stages /\ flagged \in BOOLEAN
    BY DEF TypeOK
  <1>2. \A v : Fail(v) => Typed
    BY <1>1 DEF Fail, SetState, Stages, Terminal
  <1>3. UNCHANGED flagged /\ stage' \in Stages => Typed
    BY <1>1
  <1> SUFFICES Typed
    OBVIOUS
  <1> HIDE DEF Typed
  <1>4. CASE SubmitHarmony
    <2>1. \/ stage' = "submitted" /\ UNCHANGED flagged
          \/ UNCHANGED <<flagged, stage>>
          \/ \E v : Fail(v)
      BY <1>4 DEF SubmitHarmony, SetState
    <2> QED
      BY <1>1, <1>2, <1>3, <2>1 DEF Stages
  <1>5. CASE SubmitAppEEARS
    <2>1. (stage' = "submitted" /\ UNCHANGED flagged) \/ \E v : Fail(v)
      BY <1>5 DEF SubmitAppEEARS, SetState
    <2> QED
      BY <1>2, <1>3, <2>1 DEF Stages
  <1>6. CASE Polling
    <2>1. UNCHANGED flagged \/ \E v : Fail(v)
      BY <1>6 DEF Polling, PollOPeNDAP, PollMoves, PollFails, PollAgain
    <2> QED
      BY <1>2, <1>3, <1>6, <2>1, PollSteps DEF Stages, Terminal
  <1>7. CASE Download \/ FetchEnds
    <2>1. (stage' = "ready" /\ UNCHANGED flagged) \/ \E v : Fail(v)
      BY <1>7 DEF Download, FetchEnds, SetState
    <2> QED
      BY <1>2, <1>3, <2>1 DEF Stages, Terminal
  <1>8. CASE Plan \/ TaskExpires \/ SubmitOPeNDAP \/ Fetch
    BY <1>1, <1>3, <1>8
       DEF Plan, CreateJob, TaskExpires, SubmitOPeNDAP, Fetch, SetState, Stages, Terminal
  <1>9. CASE ServicesChange \/ TokenExpires \/ InFetch(FetchStep) \/ UNCHANGED vars
    BY <1>1, <1>3, <1>9 DEF ServicesChange, TokenExpires, InFetch, vars, jobVars
  <1>10. CASE OtherIsRefused
    BY <1>1, <1>10 DEF OtherIsRefused, jobVars, Typed
  <1>11. CASE Around
    BY <1>1, <1>3, <1>11, AroundSteps DEF Stages, Terminal
  <1> QED
    BY EveryStep, <1>4, <1>5, <1>6, <1>7, <1>8, <1>9, <1>10, <1>11 DEF Typed

LEMMA ContextStep ==
    ASSUME TypeOK, [Next]_vars
    PROVE  /\ UNCHANGED context
           /\ services' \in {world.services} \cup world.later
           /\ expired' \in BOOLEAN
  <1> USE DEF TypeOK
  <1>1. CASE Plan \/ ServicesChange \/ TokenExpires \/ OtherIsRefused \/ InFetch(FetchStep) \/ UNCHANGED vars
    BY <1>1 DEF Plan, ServicesChange, TokenExpires, OtherIsRefused, InFetch, vars
  <1>2. CASE \/ TaskExpires \/ SubmitHarmony \/ SubmitAppEEARS \/ SubmitOPeNDAP \/ Download \/ Fetch
             \/ FetchEnds
    BY <1>2 DEF TaskExpires, SubmitHarmony, SubmitAppEEARS, SubmitOPeNDAP, Download, Fetch, FetchEnds
  <1>3. CASE Polling \/ Around
    BY <1>3, PollSteps, AroundSteps
  <1> QED
    BY EveryStep, <1>1, <1>2, <1>3

\* A job the provider has not been given has no status, and polls are counted.
LEMMA UpstreamStep ==
    ASSUME TypeOK, [Next]_vars
    PROVE  upstream' \in {"none", "running"} \cup UpstreamEnded /\ polls' \in 0..MaxPolls
  <1>1. /\ upstream \in {"none", "running"} \cup UpstreamEnded
        /\ polls \in 0..MaxPolls /\ MaxPolls \in Nat
    BY CasesAssumption DEF TypeOK
  <1>2. CASE UNCHANGED upVars
    BY <1>1, <1>2 DEF upVars
  <1>3. CASE SubmitHarmony \/ SubmitAppEEARS
    <2>1. upstream' \in {upstream, "running"} /\ UNCHANGED polls
      BY <1>3 DEF SubmitHarmony, SubmitAppEEARS
    <2> QED
      BY <1>1, <2>1
  <1>4. CASE Polling
    BY <1>1, <1>4, PollSteps
  <1>5. CASE Around
    BY <1>1, <1>5, AroundSteps
  <1> QED
    BY EveryStep, <1>2, <1>3, <1>4, <1>5
       DEF vars, jobVars, Plan, ServicesChange, TokenExpires, OtherIsRefused, TaskExpires,
           SubmitOPeNDAP, Download, Fetch, FetchEnds, InFetch

LEMMA SentTypeStep ==
    ASSUME TypeOK, [Next]_vars
    PROVE  sent'.to \in {"harmony", "appeears", "hyrax", None}
  <1>1. CASE UNCHANGED sent
    BY <1>1 DEF TypeOK
  <1>2. CASE SubmitHarmony \/ SubmitAppEEARS \/ SubmitOPeNDAP
    <2>1. SubmitHarmony => sent'.to = "harmony"
      BY DEF SubmitHarmony
    <2>2. ASSUME SubmitAppEEARS PROVE UNCHANGED sent \/ sent'.to = "appeears"
      <3>1. PICK found \in BOOLEAN :
               sent' = IF found
                       THEN [to |-> "appeears", layers |-> {Layer(n) : n \in row.plan.variables}]
                       ELSE sent
        BY <2>2 DEF SubmitAppEEARS
      <3> QED
        BY <3>1
    <2>3. SubmitOPeNDAP => UNCHANGED sent \/ sent'.to = "hyrax"
      BY DEF SubmitOPeNDAP
    <2> QED
      BY <1>1, <1>2, <2>1, <2>2, <2>3
  <1>3. CASE Plan \/ ServicesChange \/ TokenExpires \/ OtherIsRefused \/ InFetch(FetchStep) \/ UNCHANGED vars
    BY <1>1, <1>3 DEF Plan, ServicesChange, TokenExpires, OtherIsRefused, InFetch, vars, jobVars
  <1>4. CASE TaskExpires \/ Download \/ Fetch \/ FetchEnds
    BY <1>1, <1>4 DEF TaskExpires, Download, Fetch, FetchEnds
  <1>5. CASE Polling \/ Around
    BY <1>1, <1>5, PollSteps, AroundSteps
  <1> QED
    BY EveryStep, <1>2, <1>3, <1>4, <1>5

LEMMA RetrievalTypeStep ==
    ASSUME TypeOK, CredInv, RowInv', CallsInv', ResultInv', FetchTypeOK', [Next]_vars
    PROVE  TypeOK'
  <1>1. UNCHANGED <<request, world>>
    BY ContextStep DEF context
  <1>2. (calls \in Seq([to: Destinations, as: {Service, Caller(request)}, refused: BOOLEAN]))'
    <2>1. (CallRecords(Ids) \subseteq CallRecords({Service, Caller(request)}))'
      BY DEF CallRecords, Ids
    <2>2. (calls \in Seq(CallRecords({Service, Caller(request)})))'
      BY <2>1, Wider DEF CallsInv
    <2> QED
      BY <2>2 DEF CallRecords
  <1>3. /\ row'.provider \in {"harmony", "appeears", "opendap", None}
        /\ row'.provider = None <=> stage' \in {"planning", "rejected"}
    <2>1. CASE Created'
      BY <2>1, NoneApart DEF RowInv, Created, ServiceTrace
    <2>2. CASE ~Created'
      BY <2>2 DEF RowInv, Created, NoRow
    <2> QED
      BY <2>1, <2>2
  <1>4. /\ (\E c \in Cases : request = c.request /\ world = c.world)'
        /\ services' \in ({world.services} \cup world.later)'
    BY <1>1, ContextStep DEF TypeOK
  <1>5. (cred \in {None, request.token} /\ undone \in BOOLEAN)'
    BY <1>1, CredStep
  <1> QED
    BY <1>2, <1>3, <1>4, <1>5, ContextStep, StageStep, SentTypeStep, UpstreamStep
       DEF TypeOK, ResultInv

LEMMA RetrievalInvInit == Init => RetrievalInv
  <1> SUFFICES ASSUME Init PROVE RetrievalInv
    OBVIOUS
  <1>1. FetchInv
    BY InitInv DEF Init
  <1>2. TypeOK
    <2>1. /\ row.provider = None /\ sent.to = None /\ stage = "planning" /\ calls = <<>>
          /\ made = NoResult /\ record = NoResult /\ cred = None /\ undone = FALSE
          /\ upstream = "none" /\ polls \in 0..MaxPolls
      BY CasesAssumption DEF Init, NoRow, NoOrder
    <2>2. \E c \in Cases : request = c.request /\ world = c.world
      BY DEF Init
    <2>3. calls \in Seq([to: Destinations, as: {Service, Caller(request)}, refused: BOOLEAN])
      BY <2>1
    <2>4. services = world.services /\ expired = FALSE /\ flagged = FALSE
      BY DEF Init
    <2> QED
      BY <1>1, <2>1, <2>2, <2>3, <2>4 DEF TypeOK, FetchInv, Stages
  <1> QED
    BY <1>1, <1>2, NoneApart
       DEF Init, RetrievalInv, RowInv, CredInv, Created, CallsInv, Sound, Open, SentInv, NoOrder,
           FetchesRow, PinnedServiceSuffices, RecordTrue

LEMMA RetrievalInvStep == RetrievalInv /\ [Next]_vars => RetrievalInv'
  <1> SUFFICES ASSUME RetrievalInv, [Next]_vars PROVE RetrievalInv'
    OBVIOUS
  <1> USE DEF RetrievalInv
  <1>1. FetchInv' /\ FetchTypeOK'
    BY FetchInside, InvStep DEF FetchInv
  <1>2. RowInv' /\ SentInv' /\ FetchesRow' /\ PinnedServiceSuffices'
    BY RowStep, SentStep, FetchesStep, PinnedStep
  <1>3. CallsInv' /\ CredInv'
    BY CallsStep, CredStep
  <1>4. ResultInv'
    BY ResultStep
  <1>5. TypeOK'
    BY <1>1, <1>2, <1>3, <1>4, RetrievalTypeStep
  <1> QED
    BY <1>1, <1>2, <1>3, <1>4, <1>5 DEF ResultInv

LEMMA RetrievalInvAlways == Spec => []RetrievalInv
  BY RetrievalInvInit, RetrievalInvStep, PTL DEF Spec

-----------------------------------------------------------------------------
(* The theorems *)

\* Every reachable state has the types declared: whatever answers, refusals,
\* changes of capabilities and fallbacks there were.
THEOREM RetrievalTypeCorrect == Spec => []TypeOK
  BY RetrievalInvAlways, PTL DEF RetrievalInv

\* Harmony is only told to use a service that satisfies the whole plan, also when
\* the capabilities changed or could not be fetched between plan and submit.
THEOREM HarmonyServiceSuffices == Spec => []PinnedServiceSuffices
  BY RetrievalInvAlways, PTL DEF RetrievalInv

\* The worker's record names the provider and the granules that made the result,
\* also after a fallback.
THEOREM RecordIsTrue == Spec => []RecordTrue
  BY RetrievalInvAlways, PTL DEF RetrievalInv

\* A task's NASA calls are made by what the row's credential column holds when it
\* starts: they are the caller's, unless a cancel erased it and was then undone, and
\* a refused credential is the last thing tried.
THEOREM CallsAreTheCallers == Spec => []RunsAsCaller
  <1>1. RetrievalInv => RunsAsCaller
    <2> SUFFICES ASSUME RetrievalInv PROVE RunsAsCaller
      OBVIOUS
    <2>1. \A i \in DOMAIN calls : calls[i].as \in Ids
      <3>1. \A i \in DOMAIN calls : calls[i] \in CallRecords(Ids)
        BY DEF RetrievalInv, CallsInv
      <3>2. \A c \in CallRecords(Ids) : c.as \in Ids
        BY DEF CallRecords
      <3> QED
        BY <3>1, <3>2
    <2> QED
      BY <2>1 DEF RetrievalInv, CallsInv, Sound, Excused, Ids, RunsAsCaller
  <1> QED
    BY <1>1, RetrievalInvAlways, PTL

LEMMA NeedsOrdered ==
    ASSUME TypeOK, RowInv, Created
    PROVE  row.needs \subseteq Range(NeedOrder)
  <1>1. Range(NeedOrder) = {"bbox", "variable", "temporal", "shape", "dimension", "reproject"}
    BY DEF NeedOrder, Range
  <1>2. request.tool \in {"data", "subset", "timeseries"}
    BY CasesAssumption DEF TypeOK
  <1> QED
    BY <1>1, <1>2 DEF RowInv, Needs

\* The routing trace explains the route it is recorded with: the narration of
\* unmet needs and the choice of a service never disagree.
THEOREM TraceIsRight == Spec => []TraceExplains
  <1>1. ASSUME RetrievalInv PROVE TraceExplains
    <2> SUFFICES ASSUME row.provider # None, row.trace.path = "harmony" PROVE TraceExplains
      BY DEF TraceExplains
    <2>1. Created /\ RowInv /\ TypeOK
      BY <1>1 DEF RetrievalInv, TypeOK, Created
    <2>2. ~request.point /\ row.trace = ServiceTrace(row.seen, PlanOf(request))
      BY <2>1 DEF RowInv
    <2> DEFINE found == FindService(row.seen, PlanOf(request))
    <2>3. row.trace.pinned = found
      BY <2>2 DEF ServiceTrace
    <2>4. CASE found # None
      BY <2>1, <2>3, <2>4, RowServiceFits DEF RowInv, TraceExplains
    <2>5. CASE found = None
      <3>1. row.trace.unmet =
               [i \in DOMAIN row.seen |-> FirstUnmetNeed(row.seen[i], PlanOf(request))]
        BY <2>2, <2>5 DEF ServiceTrace
      <3>2. row.seen \in Seq(ServiceRecords)
        BY <2>1, ServicesTyped DEF RowInv
      <3>3. \A i \in DOMAIN row.seen : ~Satisfies(row.seen[i], PlanOf(request))
        BY <2>5, <3>2, NothingFits, CasesAssumption
      <3>4. PlanOf(request).needs = row.needs /\ PlanOf(request).format = row.format
        BY <2>1 DEF RowInv, PlanOf
      <3>5. ASSUME NEW i \in DOMAIN row.seen
            PROVE  LET need == row.trace.unmet[i] IN
                   \/ need \in row.needs \ row.seen[i].can
                   \/ need = "output_format" /\ row.format \notin row.seen[i].formats
        BY <2>1, <3>1, <3>3, <3>4, NeedsOrdered, NarratedNeed
      <3> QED
        BY <2>3, <2>5, <3>5 DEF TraceExplains
    <2> QED
      BY <2>4, <2>5
  <1> QED
    BY <1>1, RetrievalInvAlways, PTL

\* The constraint sent to Hyrax names no coordinate that neither UMM-V nor the
\* granule's metadata marked as one.
THEOREM NoCoordinateIsGuessed == Spec => []NeverGuesses
  <1>1. ASSUME RetrievalInv PROVE NeverGuesses
    <2> SUFFICES ASSUME sent.to = "hyrax", NEW n \in DOMAIN sent.names, n \notin row.plan.variables
                 PROVE  \E e \in Range(world.catalogue) \cup Range(world.dmr) :
                           e.name = n /\ e.mark \in {"lat", "lon", "time"}
      BY DEF NeverGuesses, ProjectedRest
    <2>1. Created /\ row.plan = Subset
      BY <1>1, NoneApart DEF RetrievalInv, SentInv, NoOrder, RowInv
    <2>2. world.catalogue \in Seq(Entries) /\ world.dmr \in Seq(Entries)
      BY <1>1, CasesAssumption DEF RetrievalInv, TypeOK
    <2>3. \/ n \in {row.plan.lat, row.plan.lon, row.plan.time} \ {None}
          \/ \E v \in DOMAIN row.plan.coords : n \in Range(row.plan.coords[v])
      BY <1>1, ProjectionNames DEF RetrievalInv, SentInv
    <2>4. CASE row.plan = NoSubset(request.variables)
      <3>1. DOMAIN <<>> = {}
        OBVIOUS
      <3> QED
        BY <2>3, <2>4, <3>1 DEF NoSubset
    <2>5. CASE row.plan # NoSubset(request.variables)
      <3> DEFINE resolved == ResolvedVariables(world, request.variables)
      <3>1. row.plan = PlanSubset(world, request.variables) /\ world.urls # <<>>
        BY <2>1, <2>5 DEF Subset, PlanSubset
      <3>2. /\ row.plan.lat = Coordinate(world.catalogue, "lat")
            /\ row.plan.lon = Coordinate(world.catalogue, "lon")
            /\ row.plan.time = Coordinate(world.catalogue, "time")
            /\ row.plan.coords = GroupCoordinates(world, resolved)
        BY <3>1 DEF PlanSubset
      <3>3. CASE n \in {row.plan.lat, row.plan.lon, row.plan.time} \ {None}
        BY <2>2, <3>2, <3>3, CoordinateMarked
      <3>4. ASSUME NEW v \in DOMAIN row.plan.coords, n \in Range(row.plan.coords[v])
            PROVE  \E e \in Range(world.dmr) : e.name = n /\ e.mark \in {"lat", "lon"}
        <4>1. DOMAIN <<>> = {}
          OBVIOUS
        <4>2. /\ GroupGeolocation(world.dmr, v) # None
              /\ row.plan.coords[v] = GroupGeolocation(world.dmr, v)
          BY <3>2, <3>4, <4>1 DEF GroupCoordinates
        <4> QED
          BY <2>2, <3>4, <4>2, GeolocationMarked
      <3> QED
        BY <2>3, <3>3, <3>4
    <2> QED
      BY <2>4, <2>5
  <1> QED
    BY <1>1, RetrievalInvAlways, PTL

\* Two subset requests of one signature ask for the same thing, and share a result
\* across identities only where the licence allows it.
THEOREM SignatureIsEnough == Spec => []SignatureDecides
  <1>1. ASSUME RetrievalInv PROVE SignatureDecides
    <2> SUFFICES ASSUME row.provider # None, row.signature # None, NEW r \in Others,
                        r.tool = "subset", Signature(r) = row.signature
                 PROVE  /\ r.bbox = row.bbox /\ Format(r) = row.format
                        /\ world.restricted # FALSE \/ flagged => Caller(r) = Caller(request)
      BY DEF SignatureDecides
    <2>1. Created /\ RowInv
      BY <1>1 DEF RetrievalInv, TypeOK, Created
    <2>2. PICK scope \in {None, Caller(request)} :
             row.signature = [bbox |-> request.bbox, variables |-> request.variables,
                              format |-> Format(request), scope |-> scope]
      BY <2>1 DEF RowInv
    <2>3. r.bbox = request.bbox /\ Format(r) = Format(request) /\ ReuseScope(r) = scope
      BY <2>2 DEF Signature
    <2>4. ASSUME world.restricted # FALSE \/ flagged PROVE Caller(r) = Caller(request)
      <3>1. Caller(r) = scope
        BY <2>3, <2>4 DEF ReuseScope
      <3>2. Caller(r) # None
        BY CasesAssumption DEF Caller
      <3> QED
        BY <3>1, <3>2
    <2> QED
      BY <2>1, <2>3, <2>4 DEF RowInv
  <1> QED
    BY <1>1, RetrievalInvAlways, PTL

-----------------------------------------------------------------------------
(* Names in the constraint *)

\* A constraint is only sent for a plan that plan_subset made of checked names.
LEMMA HyraxPlan ==
    ASSUME RetrievalInv, sent.to = "hyrax"
    PROVE  /\ row.plan = PlanSubset(world, request.variables) /\ world.urls # <<>> /\ ~BadName
           /\ ~request.point /\ request.bbox # None /\ request.bbox \in Boxes
  <1>1. Created /\ row.plan = Subset /\ row.plan.urls # <<>> /\ ~BadName
    BY NoneApart DEF RetrievalInv, SentInv, NoOrder, RowInv
  <1>2. row.plan # NoSubset(request.variables)
    BY <1>1 DEF NoSubset
  <1>3. ~request.point /\ request.bbox # None /\ row.plan = PlanSubset(world, request.variables)
    BY <1>1, <1>2 DEF Subset
  <1>4. request.bbox \in Boxes
    BY <1>3, CasesAssumption DEF RetrievalInv, TypeOK
  <1> QED
    BY <1>1, <1>2, <1>3, <1>4 DEF PlanSubset

LEMMA WorldTyped ==
    ASSUME TypeOK
    PROVE  /\ world.catalogue \in Seq(Entries) /\ world.dmr \in Seq(Entries)
           /\ world.granule \in Seq(Entries)
           /\ request.variables \subseteq VariableNames
           /\ request.tool \in {"data", "subset", "timeseries"}
           /\ request.tool = "data" => request.variables = {}
           /\ world.extent \in Boxes \cup {None}
  BY CasesAssumption DEF TypeOK

LEMMA NamesTyped ==
    ASSUME NEW tree \in Seq(Entries)
    PROVE  /\ Names(tree) \subseteq VariableNames
           /\ \A leaf : WithLeaf(tree, leaf) \subseteq Names(tree)
  <1>1. \A i \in DOMAIN tree : tree[i].name \in VariableNames
    <2>1. \A i \in DOMAIN tree : tree[i] \in Entries
      OBVIOUS
    <2> QED
      BY <2>1 DEF Entries
  <1> QED
    BY <1>1 DEF Names, WithLeaf

LEMMA RootedIsFqn ==
    ASSUME NEW n \in VariableNames
    PROVE  Fqn(Fqn(n)) = Fqn(n) /\ (n.rooted => Fqn(n) = n) /\ Fqn(n).leaf = n.leaf
  BY DEF VariableNames, Fqn

\* A name that is checked against UMM-V resolves to one it has.
LEMMA ResolvedKnown ==
    ASSUME NEW catalogue \in Seq(Entries), NEW n \in VariableNames, catalogue # <<>>,
           ~Unknown(catalogue, n), Bare(ResolveFromCMR(catalogue, n))
    PROVE  ResolveFromCMR(catalogue, n) \in Names(catalogue)
  <1>1. CASE Bare(n) /\ WithLeaf(catalogue, n.leaf) # {}
    <2>1. ResolveFromCMR(catalogue, n) \in WithLeaf(catalogue, n.leaf)
      BY <1>1 DEF ResolveFromCMR
    <2> QED
      BY <2>1, NamesTyped
  <1>2. CASE ~(Bare(n) /\ WithLeaf(catalogue, n.leaf) # {})
    <2>1. ResolveFromCMR(catalogue, n) = n
      BY <1>2 DEF ResolveFromCMR
    <2>2. n \in Names(catalogue)
      BY <1>2, <2>1 DEF Unknown, Bare
    <2> QED
      BY <2>1, <2>2
  <1> QED
    BY <1>1, <1>2

\* A reconciled name whose leaf the granule has once is one of the granule's.
LEMMA ReconciledReal ==
    ASSUME NEW tree \in Seq(Entries), NEW m, \A g \in Names(tree) : g.rooted,
           Cardinality(WithLeaf(tree, Reconcile(tree, m).leaf)) = 1
    PROVE  Fqn(Reconcile(tree, m)) \in Names(tree)
  <1>1. CASE Fqn(m) \notin Names(tree) /\ Cardinality(WithLeaf(tree, m.leaf)) = 1
    <2>1. WithLeaf(tree, m.leaf) # {}
      <3>1. Cardinality({}) = 0
        BY FS_EmptySet
      <3>2. WithLeaf(tree, m.leaf) = {} => Cardinality(WithLeaf(tree, m.leaf)) = 0
        BY <3>1, Zenon
      <3> QED
        BY <1>1, <3>2
    <2>2. Reconcile(tree, m) \in WithLeaf(tree, m.leaf)
      BY <1>1, <2>1 DEF Reconcile
    <2> QED
      BY <2>2, NamesTyped, RootedIsFqn
  <1>2. CASE ~(Fqn(m) \notin Names(tree) /\ Cardinality(WithLeaf(tree, m.leaf)) = 1)
    BY <1>2 DEF Reconcile
  <1> QED
    BY <1>1, <1>2

LEMMA VariablesReal ==
    ASSUME RetrievalInv, NamesTrue(world), sent.to = "hyrax", NEW n \in row.plan.variables,
           world.dmr # <<>>, Cardinality(WithLeaf(world.granule, n.leaf)) = 1
    PROVE  Fqn(n) \in Names(world.granule)
  <1> DEFINE tree == world.granule
             catalogue == world.catalogue
             resolved == {ResolveFromCMR(catalogue, v) : v \in request.variables}
  <1>1. world.dmr = tree /\ n \in ResolvedVariables(world, request.variables)
    <2>1. row.plan.variables = ResolvedVariables(world, request.variables)
      BY HyraxPlan DEF PlanSubset
    <2> QED
      BY <2>1 DEF NamesTrue
  <1>2. /\ catalogue \in Seq(Entries) /\ tree \in Seq(Entries)
        /\ request.variables \subseteq VariableNames
    BY WorldTyped DEF RetrievalInv
  <1>3. CASE catalogue = <<>>
    <2>1. n \in ResolveFromDMR(tree, resolved)
      BY <1>1, <1>3 DEF ResolvedVariables
    <2>2. \A v : WithLeaf(catalogue, v) = {}
      BY <1>3 DEF WithLeaf, Names
    <2>3. resolved = request.variables
      BY <2>2 DEF ResolveFromCMR
    <2>4. PICK v \in request.variables :
             n \in IF Bare(v) THEN WithLeaf(tree, v.leaf) ELSE {Fqn(v)}
      BY <2>1, <2>3 DEF ResolveFromDMR
    <2>5. ~Unresolvable(tree, v)
      BY <1>1, <1>3, HyraxPlan DEF BadName, PlanRaises
    <2>6. CASE Bare(v)
      <3>1. n \in Names(tree)
        BY <1>2, <2>4, <2>6, NamesTyped
      <3> QED
        BY <1>2, <3>1, NamesTyped, RootedIsFqn DEF NamesTrue
    <2>7. CASE ~Bare(v)
      BY <1>2, <2>4, <2>5, <2>7, RootedIsFqn DEF Unresolvable
    <2> QED
      BY <2>6, <2>7
  <1>4. CASE catalogue # <<>> /\ \E m \in resolved : m.group # "" \/ m.rooted
    <2>1. PICK m \in resolved : n = Reconcile(tree, m)
      BY <1>1, <1>4 DEF ResolvedVariables
    <2> QED
      BY <1>2, <2>1, ReconciledReal DEF NamesTrue
  <1>5. CASE catalogue # <<>> /\ ~\E m \in resolved : m.group # "" \/ m.rooted
    <2>1. n \in resolved
      BY <1>1, <1>5 DEF ResolvedVariables
    <2>2. Bare(n)
      BY <1>5, <2>1 DEF Bare
    <2>3. PICK v \in request.variables : n = ResolveFromCMR(catalogue, v)
      BY <2>1
    <2>4. "variable" \in Needs(request)
      BY <2>3, WorldTyped DEF Needs, RetrievalInv
    <2>5. ~Unknown(catalogue, v)
      BY <2>4, HyraxPlan DEF BadName
    <2>6. n \in Names(catalogue)
      BY <1>2, <1>5, <2>2, <2>3, <2>5, ResolvedKnown
    <2> QED
      BY <2>2, <2>6 DEF NamesTrue
  <1> QED
    BY <1>3, <1>4, <1>5

\* A constraint names a variable of the granule, if it has one of that leaf and
\* its metadata was read: also where the endpoint flattened the catalogue's paths.
THEOREM ProjectedIsReal == Spec => [](NamesTrue(world) => ProjectsReal)
  <1>1. RetrievalInv => (NamesTrue(world) => ProjectsReal)
    BY VariablesReal DEF ProjectsReal, ProjectedData
  <1> QED
    BY <1>1, RetrievalInvAlways, PTL

-----------------------------------------------------------------------------
(* Brackets in the constraint *)

\* A plan with a grid's geometry has it from the coordinates UMM-V marks.
LEMMA GridPlan ==
    ASSUME RetrievalInv, sent.to = "hyrax", row.plan.geometry.lat # None, world.shape = "grid"
    PROVE  LET lat == Coordinate(world.catalogue, "lat")
               lon == Coordinate(world.catalogue, "lon")
               plan == row.plan
           IN  /\ plan.lat = lat /\ plan.lon = lon /\ lat # None /\ lon # None
               /\ world.extent # None /\ world.extent \in Boxes
               /\ DimensionLength(world.catalogue, lat) # None
               /\ DimensionLength(world.catalogue, lon) # None
               /\ plan.geometry.lat = Axis(lat, world.extent.south, world.extent.north,
                                           DimensionLength(world.catalogue, lat))
               /\ plan.geometry.lon = Axis(lon, world.extent.west, world.extent.east,
                                           DimensionLength(world.catalogue, lon))
               /\ \A n \in DOMAIN plan.geometry.dims :
                     /\ VariableDimPlan(world.catalogue, n, lat.leaf, lon.leaf) # None
                     /\ plan.geometry.dims[n] =
                           VariableDimPlan(world.catalogue, n, lat.leaf, lon.leaf)
  <1> DEFINE catalogue == world.catalogue
             lat == Coordinate(catalogue, "lat")
             lon == Coordinate(catalogue, "lon")
             resolved == ResolvedVariables(world, request.variables)
             geometry == DiscoverGridGeometry(catalogue, world.extent, resolved, lat, lon)
             Planned(n) == VariableDimPlan(catalogue, n, lat.leaf, lon.leaf)
  <1>1. row.plan.lat = lat /\ row.plan.lon = lon /\ row.plan.geometry = geometry
    BY HyraxPlan DEF PlanSubset
  <1>2. NoGeometry.lat = None
    BY DEF NoGeometry
  <1>3. geometry # NoGeometry
    BY <1>1, <1>2
  <1>4. /\ world.extent # None /\ lat # None /\ lon # None
        /\ DimensionLength(catalogue, lat) # None /\ DimensionLength(catalogue, lon) # None
        /\ geometry =
              [lat |-> Axis(lat, world.extent.south, world.extent.north, DimensionLength(catalogue, lat)),
               lon |-> Axis(lon, world.extent.west, world.extent.east, DimensionLength(catalogue, lon)),
               dims |-> [n \in {v \in resolved : Planned(v) # None} |-> Planned(n)]]
    BY <1>3 DEF DiscoverGridGeometry
  <1>5. world.extent \in Boxes
    BY <1>4, WorldTyped DEF RetrievalInv
  <1> QED
    BY <1>1, <1>4, <1>5

LEMMA Quotient ==
    ASSUME NEW w \in Nat \ {0}, NEW n \in Nat \ {0}
    PROVE  (w * n) \div n = w
  <1>1. /\ (w * n) \div n \in Int /\ n * ((w * n) \div n) <= w * n
        /\ w * n < n * ((w * n) \div n) + n
    BY Floor
  <1>2. ASSUME NEW q \in Int, q <= w - 1 PROVE n * q <= n * w - n
    <2>1. n * q <= n * (w - 1)
      BY <1>2, ScaleOrder
    <2> QED
      BY <2>1
  <1>3. ASSUME NEW q \in Int, q >= w + 1 PROVE n * q >= n * w + n
    <2>1. n * (w + 1) <= n * q
      BY <1>3, ScaleOrder
    <2> QED
      BY <2>1
  <1> QED
    BY <1>1, <1>2, <1>3

\* The brackets of an axis take in every cell a window touches.
LEMMA AxisCovered ==
    ASSUME NEW name, NEW values \in Seq(Int), NEW low \in Int, NEW high \in Int,
           world.width \in Nat \ {0}, AxisTrue(values, world.width, low, high),
           NEW from \in Int, NEW to \in Int
    PROVE  /\ IndexRange(Axis(name, low, high, Len(values)), from, to) \in Seq(Int)
           /\ Covers(IndexRange(Axis(name, low, high, Len(values)), from, to),
                     Touched(values, from, to))
  <1> DEFINE axis == Axis(name, low, high, Len(values))
             w == world.width
  <1>1. Len(values) \in Nat \ {0}
    BY DEF AxisTrue
  <1>2. (high - low) \div Len(values) = w
    BY <1>1, Quotient DEF AxisTrue
  <1>3. axis.step = w /\ axis.origin = low + w \div 2 /\ axis.length = Len(values)
    BY <1>2 DEF Axis
  <1>4. axis.origin \in Int /\ axis.step \in Int \ {0} /\ axis.length \in Nat \ {0}
    BY <1>1, <1>3, Floor
  <1> HIDE DEF axis
  <1>5. ASSUME NEW i \in Touched(values, from, to)
        PROVE  i - 1 >= IndexRange(axis, from, to)[1] /\ i - 1 <= IndexRange(axis, from, to)[2]
    <2>1. /\ i \in 1..Len(values)
          /\ 2 * from <= 2 * values[i] + w /\ 2 * to >= 2 * values[i] - w
      BY <1>5 DEF Touched
    <2>2. values[i] = axis.origin + (i - 1) * w
      BY <1>3, <2>1 DEF AxisTrue
    <2>3. i - 1 \in 0..(axis.length - 1)
      BY <1>1, <1>3, <2>1
    <2>4. CellTouched(axis, i - 1, from, to)
      <3>1. axis.step > 0 /\ axis.origin + (i - 1) * axis.step = values[i]
        BY <1>3, <2>2
      <3> QED
        BY <1>3, <2>1, <3>1 DEF CellTouched
    <2>5. IndexRange(axis, from, to)[1] <= i - 1 /\ i - 1 <= IndexRange(axis, from, to)[2]
      BY <1>4, <2>3, <2>4, IndexRangeCovers
    <2>6. IndexRange(axis, from, to)[1] \in Int /\ IndexRange(axis, from, to)[2] \in Int
      BY <1>4, IndexRangeType
    <2> QED
      BY <2>3, <2>5, <2>6
  <1>6. IndexRange(axis, from, to) \in Seq(Int)
    BY <1>4, IndexRangeType
  <1> QED
    BY <1>5, <1>6 DEF Covers, axis

\* The dimensions that the properties speak of are those of UMM-V.
LEMMA DimsAre ==
    ASSUME TypeOK, CatalogueTrue(world), NEW e \in Range(world.catalogue), NEW n, e.name.leaf = n.leaf
    PROVE  /\ e.dims \in Seq(Dimensions)
           /\ Len(Dims(n)) = Len(e.dims) /\ DOMAIN Dims(n) = DOMAIN e.dims
           /\ \A i \in DOMAIN e.dims : Dims(n)[i].leaf = e.dims[i].leaf
  <1> DEFINE g == CHOOSE g \in Range(world.granule) : g.name.leaf = n.leaf
  <1>1. g \in Range(world.granule) /\ g.name.leaf = n.leaf /\ Dims(n) = g.dims
    BY DEF CatalogueTrue, Dims
  <1>2. e \in Entries /\ g \in Entries
    <2>1. ASSUME NEW tree \in Seq(Entries), NEW t \in Range(tree) PROVE t \in Entries
      BY DEF Range
    <2> QED
      BY <1>1, <2>1, WorldTyped
  <1> HIDE DEF g
  <1>3. /\ e.dims \in Seq(Dimensions)
        /\ g.dims \in Seq(Dimensions)
    BY <1>2 DEF Entries
  <1>4. DOMAIN g.dims = DOMAIN e.dims /\ \A i \in DOMAIN e.dims : g.dims[i].leaf = e.dims[i].leaf
    BY <1>1 DEF CatalogueTrue
  <1>5. Len(g.dims) = Len(e.dims)
    BY <1>3, <1>4
  <1> QED
    BY <1>1, <1>3, <1>4, <1>5

\* A sliced variable: one of the axes, or one whose dimensions UMM-V gives.
LEMMA SlicedIs ==
    ASSUME RetrievalInv, NEW n \in Sliced, ~Wraps
    PROVE  LET lats == IndexRange(row.plan.geometry.lat, row.bbox.south, row.bbox.north)
               lons == IndexRange(row.plan.geometry.lon, row.bbox.west, row.bbox.east)
           IN  /\ sent.to = "hyrax" /\ row.plan.geometry.lat # None /\ world.shape = "grid"
               /\ row.bbox \in Boxes
               /\ \/ n = row.plan.lat /\ sent.names[n] = <<lats>>
                  \/ n = row.plan.lon /\ sent.names[n] = <<lons>>
                  \/ /\ n \in DOMAIN row.plan.geometry.dims
                     /\ sent.names[n] = VarBrackets(row.plan.geometry.dims[n], row.plan.geometry,
                                                    lats, lons)
  <1>1. /\ sent.to = "hyrax" /\ n \in row.plan.variables /\ n \in DOMAIN sent.names
        /\ sent.names[n] # <<>>
    BY DEF Sliced, ProjectedData
  <1>2. sent.names = Projection(world.shape, row.needs, row.bbox, row.plan.variables,
                                row.plan.lat, row.plan.lon, row.plan.time,
                                row.plan.geometry, row.plan.coords)
    BY <1>1 DEF RetrievalInv, SentInv
  <1>3. row.bbox \in Boxes
    BY <1>1, HyraxPlan, NoneApart DEF RetrievalInv, SentInv, NoOrder, RowInv
  <1>4. row.bbox.west <= row.bbox.east
    BY <1>3 DEF Wraps, Boxes
  <1> QED
    BY <1>1, <1>2, <1>3, <1>4, SlicedBrackets

\* What a sliced variable's brackets are, dimension by dimension.
LEMMA SlicedEach ==
    ASSUME RetrievalInv, CatalogueTrue(world), NEW n \in Sliced, ~Wraps,
           LET lons == IndexRange(row.plan.geometry.lon, row.bbox.west, row.bbox.east)
           IN  lons # None
    PROVE  LET lats == IndexRange(row.plan.geometry.lat, row.bbox.south, row.bbox.north)
               lons == IndexRange(row.plan.geometry.lon, row.bbox.west, row.bbox.east)
               brackets == sent.names[n]
           IN  /\ Len(brackets) = Len(Dims(n))
               /\ row.plan.lat.leaf # row.plan.lon.leaf =>
                     \A i \in DOMAIN Dims(n) :
                        /\ Dims(n)[i].leaf = row.plan.lat.leaf => brackets[i] = lats
                        /\ Dims(n)[i].leaf = row.plan.lon.leaf => brackets[i] = lons
  <1> DEFINE catalogue == world.catalogue
             lat == Coordinate(catalogue, "lat")
             lon == Coordinate(catalogue, "lon")
             lats == IndexRange(row.plan.geometry.lat, row.bbox.south, row.bbox.north)
             lons == IndexRange(row.plan.geometry.lon, row.bbox.west, row.bbox.east)
             brackets == sent.names[n]
  <1>1. TypeOK /\ catalogue \in Seq(Entries)
    BY WorldTyped DEF RetrievalInv
  <1>2. /\ sent.to = "hyrax" /\ row.plan.geometry.lat # None /\ world.shape = "grid"
        /\ \/ n = row.plan.lat /\ brackets = <<lats>>
           \/ n = row.plan.lon /\ brackets = <<lons>>
           \/ /\ n \in DOMAIN row.plan.geometry.dims
              /\ brackets = VarBrackets(row.plan.geometry.dims[n], row.plan.geometry, lats, lons)
    BY SlicedIs
  <1>3. row.plan.lat = lat /\ row.plan.lon = lon /\ lat # None /\ lon # None
    BY <1>2, GridPlan
  <1>4. row.plan.geometry.lat.name = lat /\ row.plan.geometry.lon.name = lon
    BY <1>2, GridPlan DEF Axis
  <1>5. lons # None
    OBVIOUS
  <1> HIDE DEF lats, lons
  <1> SUFFICES /\ Len(brackets) = Len(Dims(n))
               /\ lat.leaf # lon.leaf =>
                     \A i \in DOMAIN Dims(n) :
                        /\ Dims(n)[i].leaf = lat.leaf => brackets[i] = lats
                        /\ Dims(n)[i].leaf = lon.leaf => brackets[i] = lons
    BY <1>3 DEF lats, lons
  <1> HIDE DEF brackets
  <1>6. ASSUME NEW mark \in {"lat", "lon"}, n = Coordinate(catalogue, mark)
        PROVE  Len(Dims(n)) = 1 /\ DOMAIN Dims(n) = {1} /\ Dims(n)[1].leaf = n.leaf
    <2>1. PICK e \in Range(catalogue) : e.name = n /\ e.mark = mark
      BY <1>1, <1>3, <1>6, CoordinateMarked
    <2>2. Len(e.dims) = 1 /\ e.dims[1].leaf = n.leaf
      BY <1>2, <2>1 DEF CatalogueTrue
    <2>3. DOMAIN e.dims = {1}
      BY <1>1, <2>1, <2>2, DimsAre
    <2> QED
      BY <1>1, <2>1, <2>2, <2>3, DimsAre
  <1>7. CASE n = lat /\ brackets = <<lats>>
    BY <1>3, <1>6, <1>7
  <1>8. CASE n = lon /\ brackets = <<lons>>
    BY <1>3, <1>6, <1>8
  <1>9. CASE /\ n \in DOMAIN row.plan.geometry.dims
             /\ brackets = VarBrackets(row.plan.geometry.dims[n], row.plan.geometry, lats, lons)
    <2>1. PICK e \in Range(catalogue) :
             e.name.leaf = n.leaf /\ row.plan.geometry.dims[n] = e.dims
      BY <1>1, <1>2, <1>9, GridPlan, DimPlanFound
    <2>2. /\ e.dims \in Seq(Dimensions) /\ Len(Dims(n)) = Len(e.dims) /\ DOMAIN Dims(n) = DOMAIN e.dims
          /\ \A i \in DOMAIN e.dims : Dims(n)[i].leaf = e.dims[i].leaf
      BY <1>1, <2>1, DimsAre
    <2>3. /\ Len(brackets) = Len(e.dims)
          /\ \A i \in DOMAIN e.dims :
                /\ e.dims[i].leaf = lat.leaf => brackets[i] = lats
                /\ e.dims[i].leaf = lon.leaf /\ e.dims[i].leaf # lat.leaf => brackets[i] = lons
      BY <1>4, <1>5, <1>9, <2>1, <2>2, BracketOfEach
    <2> QED
      BY <2>2, <2>3
  <1> QED
    BY <1>2, <1>3, <1>7, <1>8, <1>9

\* Where the grid is as UMM-V says, the plan's axes are the granule's.
LEMMA AxesAre ==
    ASSUME RetrievalInv, GridTrue(world), sent.to = "hyrax", row.plan.geometry.lat # None,
           world.shape = "grid", row.bbox \in Boxes
    PROVE  LET lats == IndexRange(row.plan.geometry.lat, row.bbox.south, row.bbox.north)
               lons == IndexRange(row.plan.geometry.lon, row.bbox.west, row.bbox.east)
           IN  /\ lons # None /\ row.plan.lat.leaf # row.plan.lon.leaf
               /\ Covers(lons, Touched(world.lons, row.bbox.west, row.bbox.east))
               /\ Ascending(world.lats) =>
                     Covers(lats, Touched(world.lats, row.bbox.south, row.bbox.north))
  <1> DEFINE catalogue == world.catalogue
             lat == Coordinate(catalogue, "lat")
             lon == Coordinate(catalogue, "lon")
             extent == world.extent
  <1>1. catalogue \in Seq(Entries)
    BY WorldTyped DEF RetrievalInv
  <1>2. /\ row.plan.lat = lat /\ row.plan.lon = lon /\ lat # None /\ lon # None
        /\ extent # None /\ extent \in Boxes
        /\ DimensionLength(catalogue, lat) # None /\ DimensionLength(catalogue, lon) # None
        /\ row.plan.geometry.lat = Axis(lat, extent.south, extent.north,
                                        DimensionLength(catalogue, lat))
        /\ row.plan.geometry.lon = Axis(lon, extent.west, extent.east,
                                        DimensionLength(catalogue, lon))
    BY GridPlan
  <1>3. /\ world.width \in Nat \ {0} /\ world.lats \in Seq(Int) /\ world.lons \in Seq(Int)
        /\ Ascending(world.lats) => AxisTrue(world.lats, world.width, extent.south, extent.north)
        /\ AxisTrue(world.lons, world.width, extent.west, extent.east) /\ lat.leaf # lon.leaf
        /\ \A e \in Range(catalogue) : \A i \in DOMAIN e.dims : e.dims[i].size # None =>
              /\ e.dims[i].leaf = lat.leaf => e.dims[i].size = Len(world.lats)
              /\ e.dims[i].leaf = lon.leaf => e.dims[i].size = Len(world.lons)
    BY <1>2 DEF GridTrue
  <1> HIDE DEF lat, lon, catalogue
  <1>4. /\ DimensionLength(catalogue, lat) = Len(world.lats)
        /\ DimensionLength(catalogue, lon) = Len(world.lons)
    BY <1>1, <1>2, <1>3, LengthFound
  <1>5. /\ extent.south \in Int /\ extent.north \in Int
        /\ extent.west \in Int /\ extent.east \in Int
        /\ row.bbox.south \in Int /\ row.bbox.north \in Int
        /\ row.bbox.west \in Int /\ row.bbox.east \in Int
    BY <1>2 DEF Boxes
  <1> DEFINE lats == IndexRange(row.plan.geometry.lat, row.bbox.south, row.bbox.north)
             lons == IndexRange(row.plan.geometry.lon, row.bbox.west, row.bbox.east)
  <1>6. lons \in Seq(Int) /\ Covers(lons, Touched(world.lons, row.bbox.west, row.bbox.east))
    <2>1. row.plan.geometry.lon = Axis(lon, extent.west, extent.east, Len(world.lons))
      BY <1>2, <1>4
    <2> QED
      BY <1>3, <1>5, <2>1, AxisCovered
  <1>7. Ascending(world.lats) =>
           Covers(lats, Touched(world.lats, row.bbox.south, row.bbox.north))
    BY <1>2, <1>3, <1>4, <1>5, AxisCovered
  <1> HIDE DEF lats, lons
  <1>8. lons # None
    BY <1>6, CasesAssumption
  <1> QED
    BY <1>2, <1>3, <1>6, <1>7, <1>8 DEF lats, lons

\* What a box makes of a sliced variable of such a grid.
LEMMA SlabsOf ==
    ASSUME RetrievalInv, CatalogueTrue(world), GridTrue(world), NEW n \in Sliced, ~Wraps
    PROVE  /\ Len(sent.names[n]) = Len(Dims(n))
           /\ Ascending(world.lats) =>
                 \A i \in DOMAIN Dims(n) :
                    /\ Dims(n)[i].leaf = row.plan.lat.leaf =>
                          Covers(sent.names[n][i], Touched(world.lats, row.bbox.south, row.bbox.north))
                    /\ Dims(n)[i].leaf = row.plan.lon.leaf =>
                          Covers(sent.names[n][i], Touched(world.lons, row.bbox.west, row.bbox.east))
  <1>1. /\ sent.to = "hyrax" /\ row.plan.geometry.lat # None /\ world.shape = "grid"
        /\ row.bbox \in Boxes
    BY SlicedIs
  <1> QED
    BY <1>1, AxesAre, SlicedEach

\* A constraint that slices a variable of a grid has a bracket for each of its
\* dimensions, whatever the resolutions, the box and the order of the dimensions.
THEOREM BracketsMatch == Spec => [](CatalogueTrue(world) /\ GridTrue(world) => BracketPerDimension)
  <1>1. RetrievalInv => (CatalogueTrue(world) /\ GridTrue(world) => BracketPerDimension)
    BY SlabsOf DEF BracketPerDimension
  <1> QED
    BY <1>1, RetrievalInvAlways, PTL

\* The brackets leave out no cell the box touches: the planner rounds outwards,
\* on axes it has made from the published extent and size alone.
THEOREM SlabsCoverTheBox == Spec => [](CatalogueTrue(world) /\ GridTrue(world) => SlabsCover)
  <1>1. RetrievalInv => (CatalogueTrue(world) /\ GridTrue(world) => SlabsCover)
    BY SlabsOf DEF SlabsCover
  <1> QED
    BY <1>1, RetrievalInvAlways, PTL
=============================================================================
