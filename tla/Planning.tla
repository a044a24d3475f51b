------------------------------ MODULE Planning ------------------------------
(***************************************************************************)
(* What a retrieval is planned from, as pure operators: which Harmony      *)
(* service satisfies a plan, which variables and coordinates a collection  *)
(* really has, and the DAP4 constraint that selects them.                  *)
(*                                                                         *)
(* A variable's name is its group ("" at the root; groups do not nest      *)
(* here), its leaf in lower case, and whether it starts with a slash.  A   *)
(* catalogue (UMM-V) and a granule's tree (DMR) are sequences of           *)
(* [name, mark, dims]: the mark is what a standard name or a canonical     *)
(* leaf makes of the variable, and a dimension has a leaf and a size.      *)
(* Degrees are integers, and so are a step and its half.                   *)
(***************************************************************************)
EXTENDS Integers, Sequences, FiniteSets, FiniteSetsExt, Functions

CONSTANT None   \* Python's None

-----------------------------------------------------------------------------
(* Services: a plan has needs and a format *)

ServiceRecords == [name: STRING, can: SUBSET STRING, formats: SUBSET STRING]

\* find_service's order.
NeedOrder == <<"bbox", "variable", "temporal", "shape", "dimension", "reproject">>

Satisfies(service, plan) ==
    plan.needs \subseteq service.can /\ plan.format \in service.formats

\* A single service must satisfy the whole plan: the first that does.
FindService(services, plan) ==
    LET fit == {i \in DOMAIN services : Satisfies(services[i], plan)}
    IN  IF fit = {} THEN None ELSE services[Min(fit)].name

\* A mutant of FirstUnmetNeed: the format is not narrated.
FirstUnmetNeedButFormat(service, plan) ==
    LET unmet == {i \in DOMAIN NeedOrder : NeedOrder[i] \in plan.needs \ service.can}
    IN  IF unmet # {} THEN NeedOrder[Min(unmet)] ELSE None

FirstUnmetNeed(service, plan) ==
    LET unmet == {i \in DOMAIN NeedOrder : NeedOrder[i] \in plan.needs \ service.can}
    IN  CASE unmet # {}                                         -> NeedOrder[Min(unmet)]
          [] unmet = {} /\ plan.format \notin service.formats  -> "output_format"
          [] OTHER                                              -> None

\* The routing trace: the service pinned, or what each service lacks.
ServiceTrace(services, plan) ==
    LET found == FindService(services, plan)
    IN  [path |-> "harmony", pinned |-> found,
         unmet |-> IF found # None THEN <<>>
                   ELSE [i \in DOMAIN services |-> FirstUnmetNeed(services[i], plan)]]

-----------------------------------------------------------------------------
(* Names *)

VariableNames == [group: STRING, leaf: STRING, rooted: BOOLEAN]

\* A size that is missing or 0 is None: the code takes the two alike.
Dimensions == [leaf: STRING, size: (Nat \ {0}) \cup {None}]

Entries == [name: VariableNames, mark: STRING, dims: Seq(Dimensions)]

Fqn(n) == [n EXCEPT !.rooted = TRUE]

Bare(n) == ~n.rooted /\ n.group = ""

Names(entries) == {entries[i].name : i \in DOMAIN entries}

WithLeaf(entries, leaf) == {n \in Names(entries) : n.leaf = leaf}

\* The entries marked as a coordinate.
Marked(entries, mark) == {i \in DOMAIN entries : entries[i].mark = mark}

-----------------------------------------------------------------------------
(* UMM-V *)

\* A mutant of Coordinate: an unmarked coordinate gets its usual name.
CoordinateGuessed(catalogue, mark) ==
    LET marked == Marked(catalogue, mark)
    IN  IF marked = {} THEN [group |-> "", leaf |-> mark, rooted |-> FALSE]
        ELSE catalogue[Max(marked)].name

\* The catalogue's coordinate: the last one marked, and no guess without one.
Coordinate(catalogue, mark) ==
    LET marked == Marked(catalogue, mark)
    IN  IF marked = {} THEN None ELSE catalogue[Max(marked)].name

\* A bare name that several of the catalogue's variables end in.
Ambiguous(catalogue, n) == Bare(n) /\ Cardinality(WithLeaf(catalogue, n.leaf)) > 1

ResolveFromCMR(catalogue, n) ==
    IF Bare(n) /\ WithLeaf(catalogue, n.leaf) # {}
    THEN CHOOSE m \in WithLeaf(catalogue, n.leaf) : TRUE
    ELSE n

\* validate_variables: an empty catalogue blocks nothing.
Unknown(catalogue, n) ==
    /\ catalogue # <<>>
    /\ n \notin Names(catalogue)
    /\ ~(n.group = "" /\ WithLeaf(catalogue, n.leaf) # {})

\* The first entry with the leaf of n, whatever its group.
FindCMRVar(catalogue, n) ==
    LET same == {i \in DOMAIN catalogue : catalogue[i].name.leaf = n.leaf}
    IN  IF same = {} THEN None ELSE catalogue[Min(same)]

\* The size of a coordinate's own dimension; None if UMM-V does not say.
DimensionLength(catalogue, coord) ==
    LET var == FindCMRVar(catalogue, coord)
        own == IF var = None THEN {}
               ELSE {i \in DOMAIN var.dims : var.dims[i].leaf = coord.leaf}
    IN  IF own = {} THEN None ELSE var.dims[Min(own)].size

\* A mutant of VariableDimPlan: the dimensions that are not spatial are skipped.
VariableDimPlanSpatial(catalogue, n, lat, lon) ==
    LET var == FindCMRVar(catalogue, n)
    IN  IF var = None \/ ~({lat, lon} \subseteq {d.leaf : d \in Range(var.dims)})
        THEN None
        ELSE SelectSeq(var.dims, LAMBDA d : d.leaf \in {lat, lon})

\* A variable's dimensions in order.  One that is not spatial needs its size, or
\* there is no plan for the variable.
VariableDimPlan(catalogue, n, lat, lon) ==
    LET var == FindCMRVar(catalogue, n)
    IN  IF \/ var = None
           \/ ~({lat, lon} \subseteq {d.leaf : d \in Range(var.dims)})
           \/ \E d \in Range(var.dims) : d.leaf \notin {lat, lon} /\ d.size = None
        THEN None
        ELSE var.dims

\* A regular axis from its outer edges: its first value is half a step inside.
Axis(name, low, high, length) ==
    LET step == (high - low) \div length
    IN  [name |-> name, origin |-> low + step \div 2, step |-> step, length |-> length]

NoGeometry == [lat |-> None, lon |-> None, dims |-> <<>>]

\* Axes of a grid, and the dimensions of those variables that have a plan.
DiscoverGridGeometry(catalogue, extent, variables, lat, lon) ==
    IF extent = None \/ lat = None \/ lon = None THEN NoGeometry
    ELSE LET lats == DimensionLength(catalogue, lat)
             lons == DimensionLength(catalogue, lon)
             Plan(n) == VariableDimPlan(catalogue, n, lat.leaf, lon.leaf)
         IN  IF lats = None \/ lons = None THEN NoGeometry
             ELSE IF extent.north = extent.south \/ extent.east = extent.west THEN NoGeometry
             ELSE [lat |-> Axis(lat, extent.south, extent.north, lats),
                   lon |-> Axis(lon, extent.west, extent.east, lons),
                   dims |-> [n \in {v \in variables : Plan(v) # None} |-> Plan(n)]]

-----------------------------------------------------------------------------
(* The granule's own tree *)

\* A name the tree does not have: a bare one by its leaf, any other verbatim.
Unresolvable(tree, n) ==
    IF Bare(n) THEN WithLeaf(tree, n.leaf) = {} ELSE Fqn(n) \notin Names(tree)

\* A bare name stands for every variable with its leaf.
ResolveFromDMR(tree, variables) ==
    UNION {IF Bare(n) THEN WithLeaf(tree, n.leaf) ELSE {Fqn(n)} : n \in variables}

ChildCoordinate(tree, group, mark) ==
    LET marked == {i \in Marked(tree, mark) : tree[i].name.group = group}
    IN  IF marked = {} THEN None ELSE tree[Min(marked)].name

\* The nearest group, from the variable's own to the root, with both coordinates.
GroupGeolocation(tree, n) ==
    LET Pair(group) == <<ChildCoordinate(tree, group, "lat"),
                         ChildCoordinate(tree, group, "lon")>>
        Both(group) == None \notin Range(Pair(group))
    IN  CASE Both(n.group) -> Pair(n.group)
          [] ~Both(n.group) /\ Both("") -> Pair("")
          [] OTHER -> None

\* A mutant of Reconcile: the catalogue's path is trusted.
ReconcileNot(tree, n) == n

\* A catalogue's path the endpoint flattened is replaced by its only candidate.
Reconcile(tree, n) ==
    IF Fqn(n) \notin Names(tree) /\ Cardinality(WithLeaf(tree, n.leaf)) = 1
    THEN CHOOSE m \in WithLeaf(tree, n.leaf) : TRUE
    ELSE n

-----------------------------------------------------------------------------
(* plan_subset *)

\* A name that makes plan_subset raise.  A tree that cannot be read is empty.
PlanRaises(world, variables) ==
    \/ \E n \in variables : Ambiguous(world.catalogue, n)
    \/ /\ world.catalogue = <<>> /\ world.dmr # <<>>
       /\ \E n \in variables : Unresolvable(world.dmr, n)

\* No endpoint was found: the literal names are never stored.
NoSubset(variables) ==
    [urls |-> <<>>, lat |-> None, lon |-> None, time |-> None, geometry |-> NoGeometry,
     coords |-> <<>>, variables |-> variables]

ResolvedVariables(world, variables) ==
    LET resolved == {ResolveFromCMR(world.catalogue, n) : n \in variables}
    IN  CASE world.dmr = <<>> -> resolved
          [] world.dmr # <<>> /\ world.catalogue = <<>> -> ResolveFromDMR(world.dmr, resolved)
          [] world.dmr # <<>> /\ world.catalogue # <<>> ->
                IF \E n \in resolved : n.group # "" \/ n.rooted
                THEN {Reconcile(world.dmr, n) : n \in resolved}
                ELSE resolved

\* Coordinates of each variable, when only the granule's tree tells them.
GroupCoordinates(world, variables) ==
    IF world.catalogue # <<>> THEN <<>>
    ELSE [n \in {v \in variables : v \in Names(world.dmr) /\ GroupGeolocation(world.dmr, v) # None}
            |-> GroupGeolocation(world.dmr, n)]

PlanSubset(world, variables) ==
    LET lat == Coordinate(world.catalogue, "lat")
        lon == Coordinate(world.catalogue, "lon")
        resolved == ResolvedVariables(world, variables)
    IN  IF world.urls = <<>> THEN NoSubset(variables)
        ELSE [urls |-> world.urls, lat |-> lat, lon |-> lon,
              time |-> Coordinate(world.catalogue, "time"),
              geometry |-> IF world.shape = "grid"
                           THEN DiscoverGridGeometry(world.catalogue, world.extent, resolved, lat, lon)
                           ELSE NoGeometry,
              coords |-> GroupCoordinates(world, resolved),
              variables |-> resolved]

-----------------------------------------------------------------------------
(* The DAP4 constraint: a function from names to their brackets *)

Clamp(i, length) == Max({0, Min({i, length - 1})})

\* A mutant of IndexRange: the ends are rounded inwards.
IndexRangeInward(axis, low, high) ==
    LET first == Clamp(-((axis.origin - low) \div axis.step), axis.length)
        last  == Clamp((high - axis.origin) \div axis.step, axis.length)
    IN  <<first, Max({first, last})>>

\* The cells of an axis for a window of degrees: floor below, ceiling above.
IndexRange(axis, low, high) ==
    LET width == Max({axis.step, -axis.step})
        Offset(x) == IF axis.step > 0 THEN x - axis.origin ELSE axis.origin - x
        near == IF axis.step > 0 THEN low ELSE high
        far  == IF axis.step > 0 THEN high ELSE low
        first == Clamp(Offset(near) \div width, axis.length)
        last  == Clamp(-((-Offset(far)) \div width), axis.length)
    IN  <<first, Max({first, last})>>

\* One bracket per dimension, in the variable's order; across the antimeridian
\* there is none for longitude.
VarBrackets(dims, axes, lats, lons) ==
    LET Lat(d) == d.leaf = axes.lat.name.leaf
        Lon(d) == ~Lat(d) /\ d.leaf = axes.lon.name.leaf
        kept   == IF lons = None THEN SelectSeq(dims, LAMBDA d : ~Lon(d)) ELSE dims
    IN  [i \in DOMAIN kept |-> CASE Lat(kept[i]) -> lats
                                [] Lon(kept[i]) -> lons
                                [] OTHER        -> <<0, kept[i].size - 1>>]

\* The names projected with their brackets, none of which stands for the whole
\* array; the first mention of a name is kept: coordinates that a box slices,
\* time, data, a group's own coordinates.  No names ask for the whole file.
Projection(shape, needs, bbox, variables, lat, lon, time, geometry, coords) ==
    LET sliced == "bbox" \in needs /\ bbox # None /\ shape = "grid" /\ geometry.lat # None
        lats == IF sliced THEN IndexRange(geometry.lat, bbox.south, bbox.north) ELSE None
        lons == IF sliced /\ bbox.west <= bbox.east
                THEN IndexRange(geometry.lon, bbox.west, bbox.east) ELSE None
        axes == IF "bbox" \in needs THEN {lat, lon} ELSE {}
        own  == UNION {Range(coords[v]) : v \in variables \cap DOMAIN coords}
        Bracket(range) == IF range = None THEN <<>> ELSE <<range>>
        Brackets(n) ==
            CASE n \in axes /\ n = lat             -> Bracket(lats)
              [] n \in axes /\ n # lat             -> Bracket(lons)
              [] /\ n \notin axes \cup {time}
                 /\ sliced /\ n \in variables \cap DOMAIN geometry.dims
                                                   -> VarBrackets(geometry.dims[n], geometry, lats, lons)
              [] OTHER                             -> <<>>
    IN  IF variables = {} THEN <<>>
        ELSE [n \in (axes \cup {time} \cup variables \cup own) \ {None} |-> Brackets(n)]
=============================================================================
