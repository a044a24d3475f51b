------------------------------ MODULE Retrieval ------------------------------
(***************************************************************************)
(* One retrieval, from the tool call to its stored result: the plan made   *)
(* of what CMR, Harmony and a granule's own metadata say, the durable row, *)
(* and the worker that rebuilds everything from that row at each task,     *)
(* with capabilities fetched afresh and the caller's credential decrypted  *)
(* afresh.  What the plan saw may have changed by then.                    *)
(*                                                                         *)
(* The row's states, queue and crashes are JobLifecycle's; here a task     *)
(* runs in one step, except the OPeNDAP fetch, which is GranuleFetch.      *)
(***************************************************************************)
EXTENDS Planning, GranuleFetch

CONSTANTS
    Cases,     \* the retrievals: a request and the collection it is about
    Service,   \* the server's own identity
    MaxPolls   \* bound: polls that find the provider's job neither ended nor lost

Boxes == [west: Int, south: Int, east: Int, north: Int]

ASSUME CasesAssumption ==
    /\ None \notin STRING \cup {"harmony", "appeears", "opendap", "hyrax"} \cup Seq(Int)
    /\ Service \in STRING /\ MaxPolls \in Nat
    /\ \A c \in Cases :
          /\ c.request.tool \in {"data", "subset", "timeseries"}
          /\ c.request.variables \subseteq VariableNames
          /\ c.request.tool = "data" => c.request.variables = {}
          /\ c.request.bbox \in Boxes \cup {None} /\ c.world.extent \in Boxes \cup {None}
          /\ {c.world.services} \cup c.world.later \subseteq Seq(ServiceRecords)
          /\ {c.world.catalogue, c.world.dmr, c.world.granule} \subseteq Seq(Entries)

VARIABLES
    request,   \* the tool call
    world,     \* the collection: its metadata and granules
    services,  \* Harmony's capability answer, empty when there is none
    expired,   \* the caller's token has expired
    flagged,   \* collection_access: a EULA refusal was seen
    stage,     \* where the retrieval is
    row,       \* jobs.request_spec, with the routing trace, the signature and
               \* the capabilities it was planned from
    cred,      \* jobs.credential_encrypted
    undone,    \* a cancel came between a task's read of the row and its write
    sent,      \* the last request to a provider that makes a job
    upstream,  \* the status of the provider's job at the row's URL
    polls,     \* how much of MaxPolls is spent
    calls,     \* the tool's and the tasks' NASA calls: where, as whom, and
               \* whether refused
    made,      \* what the stored result was made by and of
    record     \* jobs.materialization

context == <<request, world>>
credVars == <<cred, undone>>
upVars == <<upstream, polls>>
jobVars == <<stage, row, credVars, sent, upVars, calls, made, record>>
vars == <<context, services, expired, flagged, jobVars, fetchVars>>

-----------------------------------------------------------------------------
(* The request *)

\* The needs of retrieve_data, retrieve_subset and retrieve_timeseries.
Needs(r) ==
    CASE r.tool = "data"       -> {"bbox", "temporal"}
      [] r.tool = "subset"     -> {"bbox", "variable", "temporal"}
      [] r.tool = "timeseries" -> {"variable", "temporal"} \cup
                                  (IF r.bbox # None /\ ~r.point THEN {"bbox"} ELSE {})

Format(r) == CASE r.format # None               -> r.format
               [] r.format = None /\ r.point    -> "parquet"
               [] r.format = None /\ ~r.point   -> "netcdf"

PlanOf(r) == [needs |-> Needs(r), format |-> Format(r)]

Caller(r) == IF r.token = None THEN Service ELSE r.token

\* A mutant of ReuseScope: only CMR's word counts.
ReuseScopeCMR(r) == IF world.restricted = FALSE THEN None ELSE Caller(r)

\* Results are shared between identities only if CMR says the collection is
\* unrestricted and no EULA refusal was ever seen.
ReuseScope(r) ==
    IF world.restricted = FALSE /\ ~flagged THEN None ELSE Caller(r)

Signature(r) == [bbox |-> r.bbox, variables |-> r.variables,
                 format |-> Format(r), scope |-> ReuseScope(r)]

-----------------------------------------------------------------------------
(* The state *)

NoRow == [provider |-> None]
NoOrder == [to |-> None]
NoResult == [by |-> None, of |-> None]

Terminal == {"ready", "failed", "cancelled"}

\* "submitted" is also "running".
Stages == {"planning", "rejected", "pending", "submitted", "materializing",
           "fetching"} \cup Terminal

\* What a poll may find of the provider's job.  "expired" is AppEEARS's alone.
UpstreamEnded == {"done", "failed", "deleted", "expired"}

Destinations == {"cmr", "harmony", "appeears", "hyrax"}

TypeOK ==
    /\ \E c \in Cases : request = c.request /\ world = c.world
    /\ services \in {world.services} \cup world.later
    /\ expired \in BOOLEAN /\ flagged \in BOOLEAN
    /\ stage \in Stages
    /\ row.provider \in {"harmony", "appeears", "opendap", None}
    /\ row.provider = None <=> stage \in {"planning", "rejected"}
    /\ cred \in {None, request.token} /\ undone \in BOOLEAN
    /\ sent.to \in {"harmony", "appeears", "hyrax", None}
    /\ upstream \in {"none", "running"} \cup UpstreamEnded /\ polls \in 0..MaxPolls
    /\ calls \in Seq([to: Destinations, as: {Service, Caller(request)}, refused: BOOLEAN])
    /\ (made = NoResult) = (stage # "ready") /\ (record = NoResult) = (stage # "ready")
    /\ FetchTypeOK

Init ==
    /\ \E c \in Cases : request = c.request /\ world = c.world
    /\ services = world.services /\ expired = FALSE /\ flagged = FALSE
    /\ stage = "planning" /\ row = NoRow /\ cred = None /\ undone = FALSE
    /\ sent = NoOrder /\ upstream = "none" /\ polls = 0 /\ calls = <<>>
    /\ made = NoResult /\ record = NoResult
    /\ FetchInit

-----------------------------------------------------------------------------
(* Calls to NASA *)

Call(to, who, refused) == [to |-> to, as |-> who, refused |-> refused]

\* What a refusal is classified as, and what else a request may come to.
Refusals == {"credential", "eula"}

Outcomes == {"ok", "invalid", "error"}

\* What a request comes to once it is answered, and the calls it took.
Answers(before, to, who) ==
    {[by |-> before \o << Call(to, who, FALSE) >>, verdict |-> v] : v \in Outcomes}
    \cup {[by |-> before \o << Call(to, who, TRUE) >>, verdict |-> v] : v \in Refusals}

\* A request as an identity.  The server's own AppEEARS session, and no other, is
\* renewed once when it is refused, and the request repeated: it is answered as any
\* request is, or the login itself fails and it is not repeated.
Asks(to, who) ==
    LET refused == << Call(to, who, TRUE) >> IN
    Answers(<<>>, to, who)
    \cup (IF to = "appeears" /\ who = Service
          THEN Answers(refused, to, who) \cup {[by |-> refused, verdict |-> "error"]}
          ELSE {})

\* The identity of a task: the row's stored credential, and without one the
\* server's own.
Identity == IF cred = None THEN Service ELSE cred

\* The capabilities are fetched, as whoever plans or runs.
Capabilities(who) == << Call("cmr", who, FALSE) >>

-----------------------------------------------------------------------------
(* Planning *)

\* OPeNDAP is planned for whenever there is a box.
Subset ==
    IF request.point \/ request.bbox = None THEN NoSubset(request.variables)
    ELSE PlanSubset(world, request.variables)

\* parse_edl_token refuses it.
BadToken == request.token = "malformed" \/ expired

\* AppEEARS serves a part of NASA's products only.
Unlisted == request.point /\ world.layers = {}

\* The plan cannot be made of a name, or UMM-V does not have it.
BadName ==
    /\ ~request.point /\ request.bbox # None /\ world.urls # <<>>
    /\ \/ PlanRaises(world, request.variables)
       \/ /\ "variable" \in Needs(request)
          /\ \E n \in request.variables : Unknown(world.catalogue, n)

\* The request is refused before a handle or a row exists.
Rejected == BadToken \/ Unlisted \/ BadName

Route ==
    IF request.point
    THEN [path |-> "appeears", pinned |-> None, unmet |-> <<>>]
    ELSE ServiceTrace(services, PlanOf(request))

\* What of the plan and the decision is kept; each task rebuilds its plan from it.
RequestSpec ==
    [provider |-> Route.path, service |-> Route.pinned, bbox |-> request.bbox,
     needs |-> Needs(request), format |-> Format(request), plan |-> Subset,
     trace |-> Route, seen |-> services,
     signature |-> IF request.tool = "subset" THEN Signature(request) ELSE None]

\* A mutant of CreateJob: the row is stored without the caller's credential.
CreateJobUnowned ==
    /\ stage' = "pending" /\ row' = RequestSpec /\ cred' = None

CreateJob ==
    /\ stage' = "pending" /\ row' = RequestSpec /\ cred' = request.token

\* A point's product is looked up in AppEEARS before the job is created.
Plan ==
    /\ stage = "planning"
    /\ IF Rejected THEN stage' = "rejected" /\ UNCHANGED <<row, cred, calls>>
       ELSE IF request.point
       THEN \E ask \in Asks("appeears", Caller(request)) :
               /\ calls' = Capabilities(Caller(request)) \o ask.by
               /\ IF ask.verdict = "ok" THEN CreateJob
                  ELSE stage' = "rejected" /\ UNCHANGED <<row, cred>>
       ELSE CreateJob /\ calls' = Capabilities(Caller(request))
    /\ UNCHANGED <<context, services, expired, flagged, undone, sent, upVars, made, record,
                   fetchVars>>

-----------------------------------------------------------------------------
(* What changes around the job *)

\* A service is registered, withdrawn or changed, or the capabilities cannot be
\* fetched.  Bound: once, before the job is submitted.
ServicesChange ==
    /\ services = world.services /\ stage = "pending"
    /\ services' \in world.later
    /\ UNCHANGED <<context, expired, flagged, jobVars, fetchVars>>

TokenExpires ==
    /\ request.token \notin {None, "malformed"} /\ ~expired
    /\ stage \in {"planning", "pending", "submitted", "materializing"}
    /\ expired' = TRUE
    /\ UNCHANGED <<context, services, flagged, jobVars, fetchVars>>

\* Another job of the collection is refused for its licence.  This job reads the
\* flag only when it is planned, so any later time is as good as the end.
OtherIsRefused ==
    /\ stage \in {"planning", "ready"} /\ ~flagged
    /\ flagged' = TRUE
    /\ UNCHANGED <<context, services, expired, jobVars, fetchVars>>

-----------------------------------------------------------------------------
(* The row's transitions *)

\* set_state: a terminal state erases the credential.
SetState(to) ==
    /\ stage' = to
    /\ cred' = IF to \in Terminal THEN None ELSE cred

Fail(verdict) ==
    /\ SetState("failed")
    /\ flagged' = (flagged \/ verdict = "eula")

\* cancel_retrieval, before a download.  What it then asks of the provider is
\* JobLifecycle's CancelUpstream.
CancelJob ==
    /\ stage \in {"pending", "submitted"}
    /\ SetState("cancelled")
    /\ UNCHANGED <<context, services, expired, flagged, row, undone, sent, upVars, calls,
                   made, record, fetchVars>>

\* A cancel that committed between a task's read of the row and its write: the
\* write, of the state alone, takes the row back to where the task leaves it, and
\* the credential stays erased (JobLifecycle's run "identity").  A row without one
\* goes on as before.
CancelUndone ==
    /\ stage \in {"submitted", "materializing"} /\ cred # None
    /\ cred' = None /\ undone' = TRUE
    /\ UNCHANGED <<context, services, expired, flagged, stage, row, sent, upVars, calls,
                   made, record, fetchVars>>

-----------------------------------------------------------------------------
(* The worker *)

\* A task ends at once if the stored credential has expired.
CredentialExpired == cred # None /\ expired

TaskExpires ==
    /\ stage \in {"pending", "submitted", "materializing"} /\ CredentialExpired
    /\ SetState("failed")
    /\ UNCHANGED <<context, services, expired, flagged, row, undone, sent, upVars, calls,
                   made, record, fetchVars>>

\* A mutant of PinnedService: the stored service is not checked again.
PinnedServiceStored == row.service

\* The matched service, checked against fresh capabilities; the stored one only
\* if there are none.
PinnedService ==
    IF services = <<>> THEN row.service ELSE FindService(services, row)

\* No other provider is tried for a bad request or a refused credential.
SubmitHarmony ==
    /\ stage = "pending" /\ row.provider = "harmony" /\ ~CredentialExpired
    /\ \E ask \in Asks("harmony", Identity) :
          /\ calls' = calls \o Capabilities(Identity) \o ask.by
          /\ sent' = [to |-> "harmony", service |-> PinnedService, seen |-> services]
          /\ \/ /\ ask.verdict = "ok"
                /\ SetState("submitted") /\ upstream' = "running"
                /\ UNCHANGED <<flagged, row>>
             \/ /\ ask.verdict = "error" /\ row.plan.urls # <<>>
                /\ row' = [row EXCEPT !.provider = "opendap"]
                /\ UNCHANGED <<flagged, stage, cred, upstream>>
             \/ /\ ask.verdict # "ok" /\ (ask.verdict = "error" => row.plan.urls = <<>>)
                /\ Fail(ask.verdict) /\ UNCHANGED <<row, upstream>>
    /\ UNCHANGED <<context, services, expired, undone, polls, made, record, fetchVars>>

Layer(n) == <<n.group, n.leaf>>

\* The product's layers are fetched, then the task is posted.
SubmitAppEEARS ==
    /\ stage = "pending" /\ row.provider = "appeears" /\ ~CredentialExpired
    /\ \E look, post \in Asks("appeears", Identity) :
          LET found == look.verdict = "ok"
                       /\ \A n \in row.plan.variables : Layer(n) \in world.layers
          IN  /\ calls' = calls \o Capabilities(Identity) \o look.by
                               \o (IF found THEN post.by ELSE <<>>)
              /\ sent' = IF found THEN [to |-> "appeears", layers |-> {Layer(n) : n \in row.plan.variables}]
                         ELSE sent
              /\ CASE found /\ post.verdict = "ok" ->
                         SetState("submitted") /\ upstream' = "running" /\ UNCHANGED flagged
                   [] found /\ post.verdict # "ok" -> Fail(post.verdict) /\ UNCHANGED upstream
                   [] ~found -> Fail(look.verdict) /\ UNCHANGED upstream
    /\ UNCHANGED <<context, services, expired, row, undone, polls, made, record, fetchVars>>

CanHandle ==
    /\ row.plan.urls # <<>> /\ world.shape \in {"grid", "swath"}
    /\ row.needs \cap {"variable", "bbox", "temporal"} # {}
    /\ row.format = "netcdf"

\* The constraint is built from the stored plan, and nothing is sent yet.
SubmitOPeNDAP ==
    /\ stage = "pending" /\ row.provider = "opendap" /\ ~CredentialExpired
    /\ calls' = calls \o Capabilities(Identity)
    /\ IF CanHandle
       THEN /\ SetState("submitted")
            /\ sent' = [to |-> "hyrax",
                        names |-> Projection(world.shape, row.needs, row.bbox, row.plan.variables,
                                             row.plan.lat, row.plan.lon, row.plan.time,
                                             row.plan.geometry, row.plan.coords)]
       ELSE SetState("failed") /\ UNCHANGED sent
    /\ UNCHANGED <<context, services, expired, flagged, row, undone, upVars, made, record, fetchVars>>

\* The provider's job ends, or AppEEARS has dropped it.
UpstreamEnds ==
    /\ stage = "submitted" /\ upstream = "running"
    /\ upstream' \in UpstreamEnded
    /\ upstream' = "expired" => row.provider = "appeears"
    /\ UNCHANGED <<context, services, expired, flagged, stage, row, credVars, sent, polls,
                   calls, made, record, fetchVars>>

\* OPeNDAP has no job, its result is always ready.
PollOPeNDAP ==
    /\ stage = "submitted" /\ row.provider = "opendap" /\ ~CredentialExpired
    /\ SetState("materializing")
    /\ calls' = calls \o Capabilities(Identity)
    /\ UNCHANGED <<context, services, expired, flagged, row, undone, sent, upVars, made, record,
                   fetchVars>>

\* Where a status of the provider's job takes the row.  An expired one is none of
\* these: it is polled on like a running one.
StageAfter == [done |-> "materializing", failed |-> "failed", deleted |-> "cancelled"]

Polls(ask) ==
    /\ stage = "submitted" /\ row.provider # "opendap" /\ ~CredentialExpired
    /\ ask \in Asks(row.provider, Identity)
    /\ calls' = calls \o Capabilities(Identity) \o ask.by
    /\ UNCHANGED <<context, services, expired, row, undone, sent, upstream, made, record, fetchVars>>

\* The poll is answered with a status that moves the row.
PollMoves == \E ask \in Asks(row.provider, Identity) :
    /\ Polls(ask) /\ ask.verdict = "ok" /\ upstream \in DOMAIN StageAfter
    /\ SetState(StageAfter[upstream]) /\ UNCHANGED <<flagged, polls>>

\* The poll is refused, or fails for good.
PollFails == \E ask \in Asks(row.provider, Identity) :
    Polls(ask) /\ ask.verdict # "ok" /\ Fail(ask.verdict) /\ UNCHANGED polls

\* The poll finds the job running or expired, or the provider is out of reach: the
\* row is polled again.
PollAgain == \E ask \in Asks(row.provider, Identity) :
    /\ polls < MaxPolls /\ polls' = polls + 1
    /\ Polls(ask)
    /\ ask.verdict = "error" \/ (ask.verdict = "ok" /\ upstream \notin DOMAIN StageAfter)
    /\ UNCHANGED <<stage, cred, flagged>>

\* A mutant of RecordOf: the provider the job was planned for.
RecordOfPlanned(granules) == [by |-> row.trace.path, of |-> granules]

\* MaterializationRecord.from_result.
RecordOf(granules) == [by |-> row.provider, of |-> granules]

\* Harmony's and AppEEARS's results are downloaded and stored; AppEEARS names no
\* granules.
Download ==
    /\ stage = "materializing" /\ row.provider # "opendap" /\ ~CredentialExpired
    /\ LET granules == IF row.provider = "harmony" THEN {"output"} ELSE None IN
       \E ask \in Asks(row.provider, Identity) :
          /\ calls' = calls \o Capabilities(Identity) \o ask.by
          /\ IF ask.verdict = "ok"
             THEN /\ SetState("ready") /\ UNCHANGED flagged
                  /\ made' = [by |-> sent.to, of |-> granules]
                  /\ record' = RecordOf(granules)
             ELSE Fail(ask.verdict) /\ UNCHANGED <<made, record>>
    /\ UNCHANGED <<context, services, expired, row, undone, sent, upVars, fetchVars>>

Fetch ==
    /\ stage = "materializing" /\ row.provider = "opendap" /\ ~CredentialExpired
    /\ SetState("fetching")
    /\ calls' = calls \o Capabilities(Identity) \o << Call("hyrax", Identity, FALSE) >>
    /\ FetchStart(row.plan.urls)
    /\ UNCHANGED <<context, services, expired, flagged, row, undone, sent, upVars, made, record>>

\* The fetch has answered.  A refusal for a licence is not told from any other:
\* the body of a streamed refusal was never read.
FetchEnds ==
    /\ stage = "fetching" /\ phase \in {"stored", "failed"}
    /\ IF phase = "stored"
       THEN /\ SetState("ready") /\ UNCHANGED flagged
            /\ made' = [by |-> "opendap", of |-> {m.of : m \in Range(blob.members)}]
            /\ record' = RecordOf(Range(row.plan.urls))
       ELSE Fail(errors[1]) /\ UNCHANGED <<made, record>>
    /\ UNCHANGED <<context, services, expired, row, undone, sent, upVars, calls, fetchVars>>

\* The copying thread outlives the call.
InFetch(A) ==
    /\ A /\ (stage = "fetching" \/ copying)
    /\ UNCHANGED <<context, services, expired, flagged, jobVars>>

-----------------------------------------------------------------------------
Work == \/ TaskExpires \/ SubmitHarmony \/ SubmitAppEEARS \/ SubmitOPeNDAP
        \/ PollOPeNDAP \/ PollMoves \/ Download \/ Fetch \/ FetchEnds

Next == \/ Plan \/ ServicesChange \/ TokenExpires \/ OtherIsRefused \/ UpstreamEnds
        \/ CancelJob \/ CancelUndone \/ Work \/ PollFails \/ PollAgain
        \/ InFetch(FetchStep)

\* The worker runs what is queued and is told of a job that has ended, the provider
\* ends its jobs one way or another, the event loop runs what can run, and the
\* bucket refills.  No poll is promised to fail.
Spec == /\ Init /\ [][Next]_vars
        /\ WF_vars(Work) /\ WF_vars(UpstreamEnds)
        /\ WF_vars(InFetch(FetchWork)) /\ WF_vars(InFetch(Refill))

-----------------------------------------------------------------------------
(* Properties *)

Fits(list, name) == \E s \in Range(list) : s.name = name /\ Satisfies(s, row)

\* Harmony is only ever told to use a service that satisfies the whole plan: by
\* the capabilities fetched for that submit, or by those of the plan if that fetch
\* gave none (HarmonyProvider.submit, however services changed in between).
PinnedServiceSuffices ==
    sent.to = "harmony" /\ sent.service # None =>
        Fits(IF sent.seen = <<>> THEN row.seen ELSE sent.seen, sent.service)

\* The recorded trace explains the route: it names a service that satisfies the
\* plan, or a need of the plan for every service, which that service indeed lacks
\* (_first_unmet_need against find_service, two implementations of one gate).
TraceExplains ==
    row.provider # None /\ row.trace.path = "harmony" =>
        IF row.trace.pinned # None THEN Fits(row.seen, row.trace.pinned)
        ELSE \A i \in DOMAIN row.seen :
               LET need == row.trace.unmet[i] IN
               \/ need \in row.needs \ row.seen[i].can
               \/ need = "output_format" /\ row.format \notin row.seen[i].formats

\* The data variables of the constraint, and the rest of it.
ProjectedData == IF sent.to = "hyrax" THEN DOMAIN sent.names \cap row.plan.variables ELSE {}

ProjectedRest == IF sent.to = "hyrax" THEN DOMAIN sent.names \ row.plan.variables ELSE {}

\* A coordinate in the constraint is one that the catalogue or the granule's own
\* metadata marked as such, never a customary name, also after the plan went
\* through the database and a fallback.
NeverGuesses ==
    \A n \in ProjectedRest :
        \E e \in Range(world.catalogue) \cup Range(world.dmr) :
            e.name = n /\ e.mark \in {"lat", "lon", "time"}

\* A data variable in the constraint is one the granule has, when its metadata
\* could be read and it has one variable of that leaf.
ProjectsReal ==
    \A n \in ProjectedData :
        world.dmr # <<>> /\ Cardinality(WithLeaf(world.granule, n.leaf)) = 1 =>
            Fqn(n) \in Names(world.granule)

\* The data variables a box has sliced.
Sliced == {n \in ProjectedData : sent.names[n] # <<>>}

Dims(n) == LET e == CHOOSE e \in Range(world.granule) : e.name.leaf = n.leaf IN e.dims

Wraps == row.bbox.west > row.bbox.east

\* Hyrax takes a bracket for every dimension of a variable or none: a sliced
\* variable has them all.  A box across the antimeridian has none for longitude
\* and is left out.
BracketPerDimension ==
    \A n \in Sliced : ~Wraps => Len(sent.names[n]) = Len(Dims(n))

\* The cells of one of the granule's axes that a window of degrees touches.
Touched(values, low, high) ==
    {i \in DOMAIN values : /\ 2 * low <= 2 * values[i] + world.width
                           /\ 2 * high >= 2 * values[i] - world.width}

Covers(bracket, cells) == \A i \in cells : i - 1 >= bracket[1] /\ i - 1 <= bracket[2]

Ascending(values) == \A i, j \in DOMAIN values : i < j => values[i] < values[j]

\* A sliced variable keeps every cell the box touches, judged by the granule's own
\* coordinate arrays, which the planner never reads.  A grid stored north to
\* south is left out: the published extent tells no direction.
SlabsCover ==
    \A n \in Sliced : ~Wraps /\ Ascending(world.lats) /\ Ascending(world.lons) =>
        \A i \in DOMAIN Dims(n) :
            LET leaf == Dims(n)[i].leaf IN
            /\ leaf = row.plan.lat.leaf =>
                 Covers(sent.names[n][i], Touched(world.lats, row.bbox.south, row.bbox.north))
            /\ leaf = row.plan.lon.leaf =>
                 Covers(sent.names[n][i], Touched(world.lons, row.bbox.west, row.bbox.east))

\* Each task takes its identity from the row as it finds it, and yet every call is
\* made as the caller, through fallbacks, re-polls and expiry, unless a cancel was
\* undone and took the credential with it.  A refused credential is the last thing
\* that is tried; only the server's own AppEEARS session is renewed.
RunsAsCaller ==
    \A i \in DOMAIN calls :
        /\ calls[i].as = Caller(request) \/ (undone /\ calls[i].as = Service)
        /\ calls[i].refused /\ i < Len(calls) =>
             calls[i].to = "appeears" /\ calls[i].as = Service

\* The stored record describes the stored result, by provider and granules, also
\* when the job fell back to another provider than the one it was planned for.
RecordTrue == record = made

\* The requests the instance makes of the same collection.
Others == {c.request : c \in {d \in Cases : d.world = world}}

\* Two requests with one signature, the second whenever it comes, fetch the same
\* thing, and in a collection known to be restricted they are one identity's.
SignatureDecides ==
    row.provider # None /\ row.signature # None =>
        \A r \in Others :
            r.tool = "subset" /\ Signature(r) = row.signature =>
                /\ r.bbox = row.bbox /\ Format(r) = row.format
                /\ world.restricted # FALSE \/ flagged => Caller(r) = Caller(request)

\* A job that was created ends, whatever its provider, its fetch, its token or a
\* cancel do, unless AppEEARS reports it expired: that row is polled for ever
\* (JobLifecycle's run "expired").
Answered == stage = "pending" ~> stage \in Terminal \/ upstream = "expired"

-----------------------------------------------------------------------------
(* What the metadata must be for the planner to be right by it *)

\* The metadata read is the granule's, its paths start at the root, and what UMM-V
\* names at the root is there: "only a group-qualified name can be flattened".
NamesTrue(w) ==
    /\ w.dmr \in {<<>>, w.granule}
    /\ \A g \in Names(w.granule) : g.rooted
    /\ \A m \in Names(w.catalogue) : Bare(m) => Fqn(m) \in Names(w.granule)

\* What UMM-V says of a variable's dimensions is so in the granule, and a
\* coordinate of a grid is an axis: it has one dimension, of its own name.
CatalogueTrue(w) ==
    /\ \A e \in Range(w.catalogue) :
          /\ \E g \in Range(w.granule) : g.name.leaf = e.name.leaf
          /\ \A g \in Range(w.granule) : g.name.leaf = e.name.leaf =>
                /\ DOMAIN g.dims = DOMAIN e.dims
                /\ \A i \in DOMAIN e.dims : g.dims[i].leaf = e.dims[i].leaf
          /\ w.shape = "grid" /\ e.mark \in {"lat", "lon"} =>
                Len(e.dims) = 1 /\ e.dims[1].leaf = e.name.leaf

\* An axis as the planner takes it to be: its cells, all of one width, fill the
\* published extent from low to high.
AxisTrue(values, width, low, high) ==
    /\ Len(values) > 0 /\ high - low = width * Len(values)
    /\ \A i \in DOMAIN values : values[i] = low + width \div 2 + (i - 1) * width

\* The granule's axes are such, of the sizes UMM-V gives: the longitudes always,
\* the latitudes unless they are stored north to south.
GridTrue(w) ==
    LET lat == Coordinate(w.catalogue, "lat")
        lon == Coordinate(w.catalogue, "lon")
    IN  w.shape = "grid" /\ w.extent # None /\ None \notin {lat, lon} =>
        /\ w.width \in Nat \ {0} /\ w.lats \in Seq(Int) /\ w.lons \in Seq(Int)
        /\ Ascending(w.lats) =>
              AxisTrue(w.lats, w.width, w.extent.south, w.extent.north)
        /\ AxisTrue(w.lons, w.width, w.extent.west, w.extent.east)
        /\ lat.leaf # lon.leaf
        /\ \A e \in Range(w.catalogue) : \A i \in DOMAIN e.dims : e.dims[i].size # None =>
              /\ e.dims[i].leaf = lat.leaf => e.dims[i].size = Len(w.lats)
              /\ e.dims[i].leaf = lon.leaf => e.dims[i].size = Len(w.lons)
=============================================================================
