--------------------------- MODULE PlanningProofs ---------------------------
(***************************************************************************)
(* What the planner's operators do, for any capabilities, catalogue, tree, *)
(* axis and box: the lemmas of RetrievalProofs.                            *)
(***************************************************************************)
EXTENDS Planning, LeastElement

-----------------------------------------------------------------------------
(* Services *)

LEMMA FoundFits ==
    ASSUME NEW list \in Seq(ServiceRecords), NEW plan, FindService(list, plan) # None
    PROVE  \E s \in Range(list) : s.name = FindService(list, plan) /\ Satisfies(s, plan)
  <1> DEFINE fit == {i \in DOMAIN list : Satisfies(list[i], plan)}
  <1>1. fit \in SUBSET Nat
    OBVIOUS
  <1>2. fit # {} /\ FindService(list, plan) = list[Min(fit)].name
    BY DEF FindService
  <1>3. Min(fit) \in fit
    BY <1>1, <1>2, MinIn
  <1> QED
    BY <1>2, <1>3 DEF Range

LEMMA NothingFits ==
    ASSUME NEW list \in Seq(ServiceRecords), NEW plan, None \notin STRING,
           FindService(list, plan) = None
    PROVE  \A i \in DOMAIN list : ~Satisfies(list[i], plan)
  <1> DEFINE fit == {i \in DOMAIN list : Satisfies(list[i], plan)}
  <1>1. fit \in SUBSET Nat
    OBVIOUS
  <1>2. ASSUME fit # {} PROVE FALSE
    <2>1. Min(fit) \in fit
      BY <1>1, <1>2, MinIn
    <2>2. list[Min(fit)] \in ServiceRecords
      BY <2>1
    <2>3. list[Min(fit)].name \in STRING
      BY <2>2 DEF ServiceRecords
    <2> QED
      BY <1>2, <2>3 DEF FindService
  <1> QED
    BY <1>2

LEMMA NarratedNeed ==
    ASSUME NEW service, NEW plan, plan.needs \subseteq Range(NeedOrder),
           ~Satisfies(service, plan)
    PROVE  LET need == FirstUnmetNeed(service, plan) IN
           \/ need \in plan.needs \ service.can
           \/ need = "output_format" /\ plan.format \notin service.formats
  <1> DEFINE unmet == {i \in DOMAIN NeedOrder : NeedOrder[i] \in plan.needs \ service.can}
  <1>1. CASE unmet # {}
    <2>1. unmet \in SUBSET Nat
      BY DEF NeedOrder
    <2>2. Min(unmet) \in unmet
      BY <1>1, <2>1, MinIn
    <2>3. FirstUnmetNeed(service, plan) = NeedOrder[Min(unmet)]
      BY <1>1 DEF FirstUnmetNeed
    <2> QED
      BY <2>2, <2>3
  <1>2. CASE unmet = {}
    <2>1. plan.needs \subseteq service.can
      BY <1>2 DEF Range
    <2>2. plan.format \notin service.formats
      BY <2>1 DEF Satisfies
    <2> QED
      BY <1>2, <2>2 DEF FirstUnmetNeed
  <1> QED
    BY <1>1, <1>2

-----------------------------------------------------------------------------
(* Coordinates *)

LEMMA CoordinateMarked ==
    ASSUME NEW catalogue \in Seq(Entries), NEW mark, Coordinate(catalogue, mark) # None
    PROVE  \E e \in Range(catalogue) : e.name = Coordinate(catalogue, mark) /\ e.mark = mark
  <1>1. Marked(catalogue, mark) \in SUBSET (1..Len(catalogue)) /\ Len(catalogue) \in Nat
    BY DEF Marked
  <1>2. /\ Marked(catalogue, mark) # {}
        /\ Coordinate(catalogue, mark) = catalogue[Max(Marked(catalogue, mark))].name
    BY DEF Coordinate
  <1>3. Max(Marked(catalogue, mark)) \in Marked(catalogue, mark)
    BY <1>1, <1>2, MaxIn
  <1> QED
    BY <1>2, <1>3 DEF Marked, Range

LEMMA ChildMarked ==
    ASSUME NEW tree \in Seq(Entries), NEW group, NEW mark,
           ChildCoordinate(tree, group, mark) # None
    PROVE  \E e \in Range(tree) : e.name = ChildCoordinate(tree, group, mark) /\ e.mark = mark
  <1> DEFINE marked == {i \in Marked(tree, mark) : tree[i].name.group = group}
  <1>1. marked \in SUBSET Nat /\ marked \subseteq DOMAIN tree
    BY DEF Marked
  <1>2. marked # {} /\ ChildCoordinate(tree, group, mark) = tree[Min(marked)].name
    BY DEF ChildCoordinate
  <1>3. Min(marked) \in marked
    BY <1>1, <1>2, MinIn
  <1> QED
    BY <1>1, <1>2, <1>3 DEF Marked, Range

\* A variable's own coordinates are marked as such in the granule's tree.
LEMMA GeolocationMarked ==
    ASSUME NEW tree \in Seq(Entries), NEW v, GroupGeolocation(tree, v) # None,
           NEW n \in Range(GroupGeolocation(tree, v))
    PROVE  \E e \in Range(tree) : e.name = n /\ e.mark \in {"lat", "lon"}
  <1> DEFINE Pair(group) == <<ChildCoordinate(tree, group, "lat"),
                              ChildCoordinate(tree, group, "lon")>>
  <1>1. PICK group : GroupGeolocation(tree, v) = Pair(group) /\ None \notin Range(Pair(group))
    BY DEF GroupGeolocation
  <1>2. Range(Pair(group)) = {ChildCoordinate(tree, group, "lat"), ChildCoordinate(tree, group, "lon")}
    BY DEF Range
  <1> QED
    BY <1>1, <1>2, ChildMarked

\* Beside the variables a constraint holds the plan's coordinates only.
LEMMA ProjectionNames ==
    ASSUME NEW shape, NEW needs, NEW bbox, NEW variables, NEW lat, NEW lon, NEW time,
           NEW geometry, NEW coords,
           NEW n \in DOMAIN Projection(shape, needs, bbox, variables, lat, lon, time, geometry, coords)
    PROVE  \/ n \in variables
           \/ n \in {lat, lon, time} \ {None}
           \/ \E v \in DOMAIN coords : n \in Range(coords[v])
  <1>1. variables # {}
    <2>1. DOMAIN <<>> = {}
      OBVIOUS
    <2> QED
      BY <2>1 DEF Projection
  <1> DEFINE own == UNION {Range(coords[v]) : v \in variables \cap DOMAIN coords}
             axes == IF "bbox" \in needs THEN {lat, lon} ELSE {}
  <1>2. n \in (axes \cup {time} \cup variables \cup own) \ {None}
    BY <1>1 DEF Projection
  <1> QED
    BY <1>2

-----------------------------------------------------------------------------
(* The cells of an axis *)

LEMMA Floor ==
    ASSUME NEW a \in Int, NEW w \in Nat \ {0}
    PROVE  a \div w \in Int /\ w * (a \div w) <= a /\ a < w * (a \div w) + w
  OBVIOUS

LEMMA ScaleOrder ==
    ASSUME NEW w \in Nat \ {0}, NEW i \in Int, NEW j \in Int, i <= j
    PROVE  w * i <= w * j
  OBVIOUS

\* A cell that starts at most half a cell after x is not before x's own, and one
\* that ends at most half a cell before x is not after x's next.
LEMMA CellRounding ==
    ASSUME NEW w \in Nat \ {0}, NEW x \in Int, NEW k \in Int
    PROVE  /\ 2 * x <= 2 * (w * k) + w => x \div w <= k
           /\ 2 * x >= 2 * (w * k) - w => -((-x) \div w) >= k
  <1>1. ASSUME 2 * x <= 2 * (w * k) + w, x \div w >= k + 1 PROVE FALSE
    <2>1. w * (k + 1) <= x
      BY <1>1, Floor, ScaleOrder
    <2>2. w * (k + 1) = w * k + w
      OBVIOUS
    <2> QED
      BY <1>1, <2>1, <2>2
  <1>2. ASSUME 2 * x >= 2 * (w * k) - w, (-x) \div w >= 1 - k PROVE FALSE
    <2>1. w * (1 - k) <= -x
      BY <1>2, Floor, ScaleOrder
    <2>2. w * (1 - k) = w - w * k
      OBVIOUS
    <2> QED
      BY <1>2, <2>1, <2>2
  <1> QED
    BY <1>1, <1>2, Floor

LEMMA Clamped ==
    ASSUME NEW i \in Int, NEW length \in Nat \ {0}
    PROVE  /\ Clamp(i, length) \in 0..(length - 1)
           /\ \A k \in 0..(length - 1) : (i <= k => Clamp(i, length) <= k)
                                         /\ (i >= k => Clamp(i, length) >= k)
  BY MinPair, MaxPair DEF Clamp

\* Cell k of a regular axis, from zero, is touched by a window.
CellTouched(axis, k, low, high) ==
    LET width == IF axis.step > 0 THEN axis.step ELSE -axis.step
        value == axis.origin + k * axis.step
    IN  2 * low <= 2 * value + width /\ 2 * high >= 2 * value - width

\* For an axis in either direction, of any resolution, and any window, the range
\* of indices has no cell the window touches outside it.
LEMMA IndexRangeCovers ==
    ASSUME NEW axis, axis.step \in Int \ {0}, axis.origin \in Int, axis.length \in Nat \ {0},
           NEW low \in Int, NEW high \in Int, NEW k \in 0..(axis.length - 1),
           CellTouched(axis, k, low, high)
    PROVE  LET range == IndexRange(axis, low, high) IN range[1] <= k /\ k <= range[2]
  <1> DEFINE up == axis.step > 0
             width == IF up THEN axis.step ELSE -axis.step
             x == IF up THEN low - axis.origin ELSE axis.origin - high
             y == IF up THEN high - axis.origin ELSE axis.origin - low
             first == Clamp(x \div width, axis.length)
             last == Clamp(-((-y) \div width), axis.length)
  <1>1. /\ axis.step \in Int \ {0} /\ axis.origin \in Int /\ axis.length \in Nat \ {0}
        /\ width \in Nat \ {0} /\ x \in Int /\ y \in Int
    OBVIOUS
  <1>2. Max({axis.step, -axis.step}) = width
    BY <1>1, MaxPair
  <1>3. IndexRange(axis, low, high) = <<first, Max({first, last})>>
    BY <1>2 DEF IndexRange
  <1>4. 2 * x <= 2 * (width * k) + width /\ 2 * y >= 2 * (width * k) - width
    <2>1. CASE up
      BY <1>1, <2>1 DEF CellTouched
    <2>2. CASE ~up
      <3>1. k * axis.step = -(width * k)
        BY <1>1, <2>2
      <3> QED
        BY <1>1, <2>2, <3>1 DEF CellTouched
    <2> QED
      BY <2>1, <2>2
  <1> HIDE DEF up, width, x, y
  <1>5. x \div width <= k /\ -((-y) \div width) >= k
    BY <1>1, <1>4, CellRounding
  <1>6. x \div width \in Int /\ -((-y) \div width) \in Int
    BY <1>1, Floor
  <1>7. /\ first \in Int /\ last \in Int /\ first <= k /\ last >= k
    BY <1>1, <1>5, <1>6, Clamped
  <1> HIDE DEF first, last
  <1> QED
    BY <1>3, <1>7, MaxPair

-----------------------------------------------------------------------------
(* The brackets of a variable *)

\* What a box makes of a variable: a coordinate gets the bracket of its own axis,
\* any other variable one for each dimension the plan has of it.
LEMMA SlicedBrackets ==
    ASSUME NEW needs, NEW bbox, NEW variables, NEW lat, NEW lon, NEW time, NEW geometry,
           NEW coords, NEW n \in variables, bbox.west <= bbox.east,
           NEW shape,
           n \in DOMAIN Projection(shape, needs, bbox, variables, lat, lon, time, geometry, coords),
           Projection(shape, needs, bbox, variables, lat, lon, time, geometry, coords)[n] # <<>>
    PROVE  LET lats == IndexRange(geometry.lat, bbox.south, bbox.north)
               lons == IndexRange(geometry.lon, bbox.west, bbox.east)
               here == Projection(shape, needs, bbox, variables, lat, lon, time, geometry, coords)[n]
           IN  /\ geometry.lat # None /\ shape = "grid"
               /\ \/ n = lat /\ here = <<lats>>
                  \/ n = lon /\ n # lat /\ here = <<lons>>
                  \/ /\ n \notin {lat, lon} /\ n \in DOMAIN geometry.dims
                     /\ here = VarBrackets(geometry.dims[n], geometry, lats, lons)
  <1> DEFINE sliced == "bbox" \in needs /\ bbox # None /\ shape = "grid" /\ geometry.lat # None
             lats == IF sliced THEN IndexRange(geometry.lat, bbox.south, bbox.north) ELSE None
             lons == IF sliced /\ bbox.west <= bbox.east
                     THEN IndexRange(geometry.lon, bbox.west, bbox.east) ELSE None
             axes == IF "bbox" \in needs THEN {lat, lon} ELSE {}
             Bracket(range) == IF range = None THEN <<>> ELSE <<range>>
             here == Projection(shape, needs, bbox, variables, lat, lon, time, geometry, coords)[n]
  <1>1. here = CASE n \in axes /\ n = lat             -> Bracket(lats)
                 [] n \in axes /\ n # lat             -> Bracket(lons)
                 [] /\ n \notin axes \cup {time}
                    /\ sliced /\ n \in variables \cap DOMAIN geometry.dims
                                                      -> VarBrackets(geometry.dims[n], geometry, lats, lons)
                 [] OTHER                             -> <<>>
    BY DEF Projection
  <1> QED
    BY <1>1

LEMMA IndexRangeType ==
    ASSUME NEW axis, axis.step \in Int \ {0}, axis.origin \in Int, axis.length \in Nat \ {0},
           NEW low \in Int, NEW high \in Int
    PROVE  LET range == IndexRange(axis, low, high) IN
           range \in Seq(Int) /\ range[1] \in Int /\ range[2] \in Int
  <1> DEFINE up == axis.step > 0
             width == IF up THEN axis.step ELSE -axis.step
             x == IF up THEN low - axis.origin ELSE axis.origin - high
             y == IF up THEN high - axis.origin ELSE axis.origin - low
             first == Clamp(x \div width, axis.length)
             last == Clamp(-((-y) \div width), axis.length)
  <1>1. width \in Nat \ {0} /\ x \in Int /\ y \in Int /\ axis.length \in Nat \ {0}
    OBVIOUS
  <1>2. Max({axis.step, -axis.step}) = width
    BY MaxPair
  <1>3. IndexRange(axis, low, high) = <<first, Max({first, last})>>
    BY <1>2 DEF IndexRange
  <1> HIDE DEF up, width, x, y
  <1>4. x \div width \in Int /\ -((-y) \div width) \in Int
    BY <1>1, Floor
  <1>5. first \in Int /\ last \in Int
    BY <1>1, <1>4, Clamped
  <1> HIDE DEF first, last
  <1> QED
    BY <1>3, <1>5, MaxPair

\* Without a box across the antimeridian a variable keeps all its dimensions.
LEMMA BracketOfEach ==
    ASSUME NEW D, NEW dims \in Seq(D), NEW axes, NEW lats, NEW lons, lons # None
    PROVE  LET brackets == VarBrackets(dims, axes, lats, lons) IN
           /\ Len(brackets) = Len(dims)
           /\ \A i \in DOMAIN dims :
                 /\ dims[i].leaf = axes.lat.name.leaf => brackets[i] = lats
                 /\ dims[i].leaf = axes.lon.name.leaf /\ dims[i].leaf # axes.lat.name.leaf =>
                       brackets[i] = lons
  BY DEF VarBrackets

\* The dimensions planned for a variable are those of an entry with its leaf.
LEMMA DimPlanFound ==
    ASSUME NEW catalogue \in Seq(Entries), NEW n, NEW lat, NEW lon,
           VariableDimPlan(catalogue, n, lat, lon) # None
    PROVE  \E e \in Range(catalogue) :
              e.name.leaf = n.leaf /\ VariableDimPlan(catalogue, n, lat, lon) = e.dims
  <1> DEFINE same == {i \in DOMAIN catalogue : catalogue[i].name.leaf = n.leaf}
  <1>1. /\ FindCMRVar(catalogue, n) # None
        /\ VariableDimPlan(catalogue, n, lat, lon) = FindCMRVar(catalogue, n).dims
    BY DEF VariableDimPlan
  <1>2. same # {} /\ FindCMRVar(catalogue, n) = catalogue[Min(same)]
    BY <1>1 DEF FindCMRVar
  <1>3. Min(same) \in same
    <2>1. same \in SUBSET Nat
      OBVIOUS
    <2> QED
      BY <1>2, <2>1, MinIn
  <1> QED
    BY <1>1, <1>2, <1>3 DEF Range

\* The length of an axis is the size an entry with its leaf gives its dimension.
LEMMA LengthFound ==
    ASSUME NEW catalogue \in Seq(Entries), NEW coord, DimensionLength(catalogue, coord) # None
    PROVE  \E e \in Range(catalogue) : \E i \in DOMAIN e.dims :
              /\ e.name.leaf = coord.leaf /\ e.dims[i].leaf = coord.leaf
              /\ DimensionLength(catalogue, coord) = e.dims[i].size
  <1> DEFINE same == {i \in DOMAIN catalogue : catalogue[i].name.leaf = coord.leaf}
             var == FindCMRVar(catalogue, coord)
             own == IF var = None THEN {}
                    ELSE {i \in DOMAIN var.dims : var.dims[i].leaf = coord.leaf}
  <1>1. own # {} /\ DimensionLength(catalogue, coord) = var.dims[Min(own)].size
    BY DEF DimensionLength
  <1>2. var # None
    BY <1>1
  <1>3. same # {} /\ var = catalogue[Min(same)]
    BY <1>2 DEF FindCMRVar
  <1>4. Min(same) \in same
    <2>1. same \in SUBSET Nat
      OBVIOUS
    <2> QED
      BY <1>3, <2>1, MinIn
  <1>5. var \in Range(catalogue) /\ var.name.leaf = coord.leaf /\ var \in Entries
    <2>1. PICK i \in DOMAIN catalogue : catalogue[i].name.leaf = coord.leaf /\ var = catalogue[i]
      BY <1>3, <1>4
    <2> HIDE DEF var
    <2> QED
      BY <2>1 DEF Range
  <1> HIDE DEF var, same
  <1>6. Min(own) \in own
    <2>1. own \in SUBSET Nat
      BY <1>5 DEF Entries
    <2> QED
      BY <1>1, <2>1, MinIn
  <1> QED
    BY <1>1, <1>2, <1>5, <1>6
=============================================================================
