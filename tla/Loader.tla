------------------------------- MODULE Loader -------------------------------
(***************************************************************************)
(* How objects get into an index: the loading and inserting calls of       *)
(* src/src/urbis.c, on the parser, the geometry library and the            *)
(* identifiers of the index.                                               *)
(*                                                                         *)
(* A call parses or copies its argument, then inserts the objects one by   *)
(* one; an insertion may fail, when no page can be had.  The index is the  *)
(* sequence of objects inserted; the pages they lie on are in              *)
(* SpatialIndex.  A document is a text with what it says, so that the      *)
(* properties can ask for it: wanted is the sequence of its features that  *)
(* are valid, with their identifiers (0: none) and shapes.                 *)
(***************************************************************************)
EXTENDS Wkt

CONSTANTS
  Documents,      \* GeoJSON documents: [text, wanted]
  WktTexts,       \* texts of one geometry: [text, wanted]
  Shapes,         \* what the caller inserts itself: [by, id, shape]
  LoneDocuments,  \* likewise, in the only call that is made
  LoneShapes,
  Texts,          \* texts given to geojson_validate
  MaxCalls,       \* bound: calls
  MaxFailures,    \* bound: insertions that fail
  Null

ASSUME LoaderAssumption == {MaxCalls, MaxFailures} \subseteq Nat

VARIABLES
  index,           \* the objects stored, in the order they came
  next_object_id,
  call,            \* the call in progress, or Null
  log,             \* the calls that returned
  validated,       \* the last text given to geojson_validate and its parse, or Null
  budget,          \* calls left
  failures

vars == <<index, next_object_id, call, log, validated, budget, failures>>

Entry(via, wanted, status, from, loaded) ==
  [via |-> via, wanted |-> wanted, status |-> status, from |-> from, loaded |-> loaded]

TypeOK ==
  /\ \A i \in DOMAIN index : index[i].shape \in Shape /\ index[i].id \in Nat \ {0} /\ index[i].mbr \in MBR
  /\ next_object_id \in Nat \ {0}
  /\ call # Null => call.loaded = Len(index) - call.from + Len(call.left)
  /\ budget \in 0..MaxCalls /\ failures \in 0..MaxFailures

Init ==
  /\ index = <<>> /\ next_object_id = 1
  /\ call = Null /\ log = <<>> /\ validated = Null
  /\ budget = MaxCalls /\ failures = 0

Ready == call = Null /\ budget > 0

-----------------------------------------------------------------------------
\* The calls, up to the first insertion.

Refuse(via, wanted, status) ==
  /\ log' = Append(log, Entry(via, wanted, status, Len(index), 0))
  /\ UNCHANGED <<index, next_object_id, call, validated, failures>>

Start(via, wanted, objects) ==
  /\ call' = [via |-> via, wanted |-> wanted, left |-> objects, from |-> Len(index), loaded |-> Len(objects)]
  /\ UNCHANGED <<index, next_object_id, log, validated, failures>>

\* urbis_index_load_geojson_string; urbis_index_load_geojson reads the text first.
LoadGeojson(doc) ==
  LET fc == geojson_parse_string(doc.text)
  IN /\ Ready
     /\ IF fc.err # "PARSE_OK" THEN Refuse("geojson", doc.wanted, "URBIS_ERR_PARSE")
        ELSE Start("geojson", doc.wanted, fc.features)

LoadWkt(doc) ==
  LET parsed == wkt_parse(doc.text)
  IN /\ Ready
     /\ IF parsed.err # "PARSE_OK" THEN Refuse("wkt", doc.wanted, "URBIS_ERR_PARSE")
        ELSE Start("wkt", doc.wanted, <<parsed.object>>)

\* by = "vertices": insert_point, insert_linestring, insert_polygon.
\* by = "object": insert_object, which copies an object of the caller with
\* its identifier and holes.
Insert(given) ==
  LET fewest == IF given.shape.type = "GEOM_POLYGON" THEN 3 ELSE 1
      object == [Derive(given.shape) EXCEPT !.id = given.id]
  IN /\ Ready
     /\ IF given.by = "vertices" /\ Len(given.shape.points) < fewest
        THEN Refuse("insert", <<>>, "URBIS_ERR_NULL")
        ELSE Start("insert", <<given>>, <<object>>)

\* geojson_validate, with the value it parses.
Validate(text) ==
  /\ Ready
  /\ validated' = [text |-> text, valid |-> geojson_validate(text), parsed |-> parse_value(text, 1)]
  /\ UNCHANGED <<index, next_object_id, call, log, failures>>

-----------------------------------------------------------------------------
\* spatial_index_insert, and what the call does with its result.

\* Mutant: the counter stays where it is.
Identified_NotCounted(object) ==
  IF object.id # 0 THEN [object |-> object, next |-> next_object_id]
  ELSE [object |-> [object EXCEPT !.id = next_object_id], next |-> next_object_id]

\* "Assign ID if not set": also when the insertion then fails.
Identified(object) ==
  IF object.id # 0 THEN [object |-> object, next |-> next_object_id]
  ELSE [object |-> [object EXCEPT !.id = next_object_id], next |-> next_object_id + 1]

Return(status) ==
  /\ log' = Append(log, Entry(call.via, call.wanted, status, call.from, call.loaded))
  /\ call' = Null

InsertNext ==
  LET inserted == Identified(Head(call.left))
  IN /\ call # Null /\ call.left # <<>>
     /\ next_object_id' = inserted.next
     /\ index' = Append(index, inserted.object)
     /\ call' = [call EXCEPT !.left = Tail(@)]
     /\ UNCHANGED <<log, validated, budget, failures>>

\* Mutant: the load goes on after a feature that could not be inserted.
InsertFails_GoesOn ==
  /\ call # Null /\ call.left # <<>> /\ failures < MaxFailures
  /\ next_object_id' = Identified(Head(call.left)).next
  /\ failures' = failures + 1
  /\ call' = [call EXCEPT !.left = Tail(@)]
  /\ UNCHANGED <<index, log, validated, budget>>

\* SI_ERR_ALLOC: the features already inserted stay.
InsertFails ==
  /\ call # Null /\ call.left # <<>> /\ failures < MaxFailures
  /\ next_object_id' = Identified(Head(call.left)).next
  /\ failures' = failures + 1
  /\ Return("URBIS_ERR_ALLOC")
  /\ UNCHANGED <<index, validated, budget>>

Finish ==
  /\ call # Null /\ call.left = <<>>
  /\ Return("URBIS_OK")
  /\ UNCHANGED <<index, next_object_id, validated, budget, failures>>

Next ==
  \/ InsertNext \/ InsertFails \/ Finish
  \/ /\ budget' = budget - 1
     /\ \/ \E doc \in Documents : LoadGeojson(doc)
        \/ \E doc \in WktTexts : LoadWkt(doc)
        \/ \E given \in Shapes : Insert(given)
  \/ /\ budget = MaxCalls /\ budget' = 0
     /\ \/ \E doc \in LoneDocuments : LoadGeojson(doc)
        \/ \E given \in LoneShapes : Insert(given)
        \/ \E text \in Texts : Validate(text)

Spec == Init /\ [][Next]_vars

-----------------------------------------------------------------------------
\* Properties.

(***************************************************************************)
(* An object is read exactly when the text begins with one, every value of *)
(* it as it stands in the text; geojson_validate accepts no other text.    *)
(* Exact up to number tokens: what strtod reads counts as a number.        *)
(* Strings with escapes are cut short by parse_string and are left out     *)
(* (parse_value and what it calls).                                        *)
(***************************************************************************)
ParseExact ==
  validated # Null =>
    LET text == validated.text
        parsed == validated.parsed
        read == SubSeq(text, 1, parsed.pos - 1)
        isObject(s) == Enclosed(Trim(s), "{", "}") /\ IsValue(s)
    IN IF parsed.err = "PARSE_OK" /\ parsed.value.type = "JSON_OBJECT"
       THEN Denotes(read, parsed.value)
       ELSE ~ validated.valid /\ \A n \in DOMAIN text : ~ isObject(SubSeq(text, 1, n))

\* The objects a call left in the index.
After(c) == IF c = Len(log) THEN IF call = Null THEN Len(index) ELSE call.from ELSE log[c + 1].from
Stored(c) == SubSeq(index, log[c].from + 1, After(c))

IsWktPolygon(entry) ==
  entry.via = "wkt" /\ entry.wanted # <<>> /\ entry.wanted[1].shape.type = "GEOM_POLYGON"

Keeps(object, wanted) ==
  object.shape = wanted.shape /\ (wanted.id # 0 => object.id = wanted.id)

(***************************************************************************)
(* A call that returns OK has stored every feature it was given, in order, *)
(* with its vertices, holes and identifier, and says how many; one that    *)
(* fails has stored those before the failure and no other.  Nothing that   *)
(* holds a feature is taken for a syntax error.  Polygons from WKT are     *)
(* left out (urbis_index_load_geojson, load_wkt, insert_*,                 *)
(* parse_geojson_geometry).                                                *)
(***************************************************************************)
LoadKeepsFeatures ==
  \A c \in DOMAIN log :
    LET entry == log[c]
    IN /\ entry.status = "URBIS_ERR_PARSE" => entry.wanted = <<>>
       /\ Len(Stored(c)) <= Len(entry.wanted)
       /\ IsWktPolygon(entry) \/ \A i \in DOMAIN Stored(c) : Keeps(Stored(c)[i], entry.wanted[i])
       /\ entry.status = "URBIS_OK" => Len(Stored(c)) = Len(entry.wanted) /\ entry.loaded = Len(entry.wanted)
       /\ entry.status = "URBIS_ERR_ALLOC" => Len(Stored(c)) < Len(entry.wanted)

\* The positions of the objects that came without an identifier.
Unnamed ==
  UNION {{i \in (log[c].from + 1)..After(c) : log[c].wanted[i - log[c].from].id = 0} : c \in DOMAIN log}

(***************************************************************************)
(* The index never gives the same identifier twice, across calls, objects  *)
(* that bring their own and insertions that fail half-way; it may give one *)
(* that an object brought along (spatial_index_insert).                    *)
(* The types hold with it.                                                 *)
(***************************************************************************)
FreshIdsDistinct ==
  /\ TypeOK
  /\ \A i, j \in Unnamed : index[i].id = index[j].id => i = j

HoleArea(hole) == IF IsSimple(hole) THEN PickArea(hole) ELSE 0

RingRight(object) ==
  LET ring == object.shape.points
      closed == Append(ring, ring[1])
  IN IsSimple(ring) =>
       /\ Abs(ring_signed_area(ring)) = PickArea(ring)
       /\ polygon_is_clockwise(ring) = ~ polygon_is_clockwise(Reverse(ring))
       /\ polygon_area(ring, object.shape.holes)
            = PickArea(ring) - SumOver(LAMBDA h : HoleArea(object.shape.holes[h]), Len(object.shape.holes))
       /\ SameFraction(object.centroid, FanCentroid(ring)) /\ Inside(object.centroid, object.mbr)
       /\ SameFraction(object.centroid, ring_centroid(closed))

(***************************************************************************)
(* What the index is built on is right for every stored object: the area   *)
(* of a simple ring is Pick's, less the holes, its sign the orientation,   *)
(* its centroid the weighted mean of triangles and inside the rectangle,   *)
(* closing the ring changes nothing; a linestring's centroid lies in its   *)
(* rectangle and is that of the reversed line; the rectangle holds every   *)
(* vertex, or is empty where there is no centroid (geometry.c).            *)
(***************************************************************************)
MeasuredRight ==
  \A i \in DOMAIN index :
    LET object == index[i]
        points == object.shape.points
    IN IF HasNoCentroid(object.shape) THEN mbr_is_empty(object.mbr)
       ELSE /\ \A k \in DOMAIN points :
                 mbr_contains_mbr(object.mbr, mbr_create(points[k].x, points[k].y, points[k].x, points[k].y))
            /\ object.shape.type = "GEOM_POLYGON" => RingRight(object)
            /\ object.shape.type # "GEOM_POLYGON" =>
                 /\ Inside(object.centroid, object.mbr)
                 /\ SameFraction(object.centroid, linestring_centroid(Reverse(points)))
=============================================================================
