---------------------------- MODULE MCRetrieval ----------------------------
(***************************************************************************)
(* Retrieval for TLC: the collection archetypes of the repository's own    *)
(* tests and quirk ledger, each with the requests that bring out its case. *)
(***************************************************************************)
EXTENDS Retrieval

Root(leaf) == [group |-> "", leaf |-> leaf, rooted |-> FALSE]
In(group, leaf) == [group |-> group, leaf |-> leaf, rooted |-> FALSE]

Entry(name, mark, dims) == [name |-> name, mark |-> mark, dims |-> dims]
Dim(leaf, size) == [leaf |-> leaf, size |-> size]

\* The granule's tree of a catalogue the endpoint serves as it is.
AsServed(catalogue) == [i \in DOMAIN catalogue |-> [catalogue[i] EXCEPT !.name = Fqn(@)]]

Lat6 == Dim("lat", 6)
Lon6 == Dim("lon", 6)
Globe == [west |-> 0, south |-> 0, east |-> 24, north |-> 24]
Centres == <<2, 6, 10, 14, 18, 22>>

\* A flat grid whose data have a time dimension beside the spatial ones, and one
\* variable of a size UMM-V does not give.
GridVars == << Entry(Root("lat"), "lat", <<Lat6>>), Entry(Root("lon"), "lon", <<Lon6>>),
               Entry(Root("time"), "time", <<Dim("time", 1)>>),
               Entry(Root("soil"), "none", <<Dim("time", 1), Lat6, Lon6>>),
               Entry(Root("depth"), "none", <<Dim("layer", None), Lat6, Lon6>>) >>

\* Archive paths that an aggregating endpoint flattens.
NestedVars == << Entry(In("grids", "lat"), "lat", <<Lat6>>), Entry(In("grids", "lon"), "lon", <<Lon6>>),
                 Entry(In("grids", "no2"), "none", <<Lat6, Lon6>>) >>
FlatTree == << Entry(Fqn(Root("lat")), "lat", <<Lat6>>), Entry(Fqn(Root("lon")), "lon", <<Lon6>>),
               Entry(Fqn(Root("no2")), "none", <<Lat6, Lon6>>) >>

\* Groups with a leaf in common.
SwathVars == << Entry(In("geo", "lat"), "lat", <<>>), Entry(In("geo", "lon"), "lon", <<>>),
                Entry(In("product", "no2"), "none", <<>>), Entry(In("support", "no2"), "none", <<>>),
                Entry(In("product", "hcho"), "none", <<>>) >>

\* Beams, the second without geolocation of its own; the root has one.
BeamTree == << Entry(Fqn(In("gt1", "lat")), "lat", <<>>), Entry(Fqn(In("gt1", "lon")), "lon", <<>>),
               Entry(Fqn(In("gt1", "height")), "none", <<>>), Entry(Fqn(In("gt2", "height")), "none", <<>>),
               Entry(Fqn(Root("lat")), "lat", <<>>), Entry(Fqn(Root("lon")), "lon", <<>>) >>

Srv(name, can, formats) == [name |-> name, can |-> can, formats |-> formats]
NoBox == Srv("nobox", {"variable", "temporal"}, {"netcdf", "png"})
NetCDFOnly == Srv("netcdfonly", {"bbox", "variable", "temporal"}, {"netcdf"})
Every == Srv("every", {"bbox", "variable", "temporal"}, {"netcdf", "png"})

\* Two granules with one file name.
MCUrls == {"a/g.nc4", "b/g.nc4", "a/h.nc4"}
MCFileName == [u \in MCUrls |-> IF u = "a/h.nc4" THEN "h.nc4" ELSE "g.nc4"]

Grid == [shape |-> "grid", urls |-> <<"a/g.nc4", "b/g.nc4", "a/h.nc4">>, extent |-> Globe,
         catalogue |-> GridVars, dmr |-> AsServed(GridVars), granule |-> AsServed(GridVars),
         lats |-> Centres, lons |-> Centres, width |-> 4, layers |-> {<<"", "soil">>},
         services |-> <<NoBox, NetCDFOnly>>, later |-> {}, restricted |-> FALSE]

GridOne == [Grid EXCEPT !.urls = <<"a/g.nc4">>, !.services = <<NoBox, Every>>,
                        !.later = {<<>>, <<NoBox>>, <<NetCDFOnly, NoBox>>}]
NorthToSouth == [GridOne EXCEPT !.lats = <<22, 18, 14, 10, 6, 2>>, !.later = {}]
Unserved == [GridOne EXCEPT !.urls = <<>>, !.services = <<>>, !.later = {}]
Flattened == [GridOne EXCEPT !.catalogue = NestedVars, !.dmr = FlatTree, !.granule = FlatTree,
                             !.services = <<>>, !.later = {}]
Swath == [GridOne EXCEPT !.shape = "swath", !.catalogue = SwathVars, !.dmr = AsServed(SwathVars),
                         !.granule = AsServed(SwathVars), !.restricted = None, !.later = {}]
Beams == [Swath EXCEPT !.catalogue = <<>>, !.dmr = BeamTree, !.granule = BeamTree, !.restricted = TRUE]
Unread == [Beams EXCEPT !.dmr = <<>>]

Box == [west |-> 5, south |-> 7, east |-> 13, north |-> 15]
Northern == [Box EXCEPT !.south = 14, !.north = 21]
Wrapping == [Box EXCEPT !.west = 20, !.east = 3]

Get(tool, variables, bbox) ==
    [tool |-> tool, variables |-> variables, bbox |-> bbox, point |-> FALSE,
     format |-> None, token |-> "alice"]
As(r, token) == [r EXCEPT !.token = token]
Png(r) == [r EXCEPT !.format = "png"]
Point(r) == [r EXCEPT !.point = TRUE]

Soil == Get("subset", {Root("soil")}, Box)

Of(w, requests) == {[world |-> w, request |-> r] : r \in requests}

MCCases ==
    Of(Grid, {As(Soil, None), As(Png(Soil), "bob")})
    \cup Of(GridOne, {Soil, As(Soil, None), As(Soil, "malformed"), Png(Soil),
                      Get("subset", {Root("soil"), Root("depth"), Fqn(Root("lat"))}, Wrapping),
                      Get("subset", {Root("sol")}, Box),
                      Get("data", {}, Box),
                      Get("timeseries", {Root("soil")}, None),
                      Point(Get("timeseries", {Root("soil")}, Box)),
                      As(Point(Get("timeseries", {Root("soil")}, Box)), None),
                      Point(Get("timeseries", {Root("depth")}, Box))})
    \cup Of(NorthToSouth, {Get("subset", {Root("soil")}, Northern)})
    \cup Of(Unserved, {Soil})
    \cup Of(Flattened, {Get("subset", {Root("no2")}, Box),
                        Get("subset", {In("grids", "no2")}, Box)})
    \cup Of(Swath, {Get("subset", {Root("no2")}, Box), Get("subset", {Root("hcho")}, Box),
                    As(Get("subset", {Root("hcho")}, Box), "bob")})
    \cup Of(Beams, {Get("subset", {Root("height")}, Box), Get("subset", {Root("speed")}, Box)})
    \cup Of(Unread, {Get("subset", {Root("height")}, Box)})

\* What some theorems of RetrievalProofs suppose of a world is so of every one here.
ASSUME WorldsAreTrue ==
    \A c \in MCCases : NamesTrue(c.world) /\ CatalogueTrue(c.world) /\ GridTrue(c.world)
=============================================================================
