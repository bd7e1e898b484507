------------------------------ MODULE GeoJson ------------------------------
(***************************************************************************)
(* GeoJSON of src/src/parser.c: from a JSON value to features, and back to *)
(* a text.  The failure of malloc is left out; reading the file or stream  *)
(* into one text is left out too.                                          *)
(***************************************************************************)
EXTENDS JsonParser, Shapes

NullPtr == [type |-> "NULL"]

\* json_object_get: the first of several equal keys.
json_object_get(obj, key) ==
  LET hits == IF obj.type # "JSON_OBJECT" THEN {} ELSE {i \in DOMAIN obj.keys : obj.keys[i] = <<key>>}
  IN IF hits = {} THEN NullPtr ELSE obj.values[Min(hits)]

IsNamed(value, name) == value.type = "JSON_STRING" /\ value.string = <<name>>

-----------------------------------------------------------------------------
\* Geometries.

Good(c) ==
  /\ c.type = "JSON_ARRAY" /\ Len(c.items) >= 2
  /\ c.items[1].type = "JSON_NUMBER" /\ c.items[2].type = "JSON_NUMBER"

\* parse_coordinates_point, of a Good position; further numbers are ignored.
PointOf(c) == [x |-> c.items[1].number, y |-> c.items[2].number]

PointsOf(positions) == [i \in DOMAIN positions |-> PointOf(positions[i])]

\* A linestring or ring: every position must be Good.
IsLine(value) == value.type = "JSON_ARRAY" /\ \A i \in DOMAIN value.items : Good(value.items[i])

\* The rings after the first.  One that is not an array makes no hole; the
\* Good positions of ring h go to hole h - 1, if it has been made by then.
HolesOf(rings) ==
  LET made == SelectSeq([h \in 1..(Len(rings) - 1) |-> h], LAMBDA h : rings[h + 1].type = "JSON_ARRAY")
  IN [k \in DOMAIN made |->
        LET ring == rings[k + 1]
        IN IF made[k] # k THEN <<>> ELSE PointsOf(SelectSeq(ring.items, Good))]

Built(shape) == [err |-> "PARSE_OK", object |-> Derive(shape)]
GeometryError(e) == [err |-> e]

parse_geojson_geometry(geom) ==
  LET type == json_object_get(geom, "type")
      coords == json_object_get(geom, "coordinates")
      invalid == GeometryError("PARSE_ERR_INVALID_GEOM")
  IN IF type.type # "JSON_STRING" \/ coords = NullPtr THEN invalid
     ELSE CASE type.string = <<"Point">> ->
                 IF Good(coords) THEN Built(PointShape(PointOf(coords))) ELSE invalid
            [] type.string = <<"LineString">> ->
                 IF IsLine(coords) THEN Built(LineShape(PointsOf(coords.items))) ELSE invalid
            [] type.string = <<"Polygon">> ->
                 IF coords.type = "JSON_ARRAY" /\ coords.items # <<>> /\ IsLine(coords.items[1])
                 THEN Built(PolygonShape(PointsOf(coords.items[1].items), HolesOf(coords.items)))
                 ELSE invalid
            [] OTHER -> GeometryError("PARSE_ERR_UNSUPPORTED")

-----------------------------------------------------------------------------
\* Features and collections.

\* A number becomes the object's identifier, cast to uint64_t; a string is
\* kept beside the object and not used.
parse_geojson_feature(feature) ==
  LET geometry == json_object_get(feature, "geometry")
      parsed == parse_geojson_geometry(geometry)
      id == json_object_get(feature, "id")
  IN IF geometry = NullPtr THEN GeometryError("PARSE_ERR_INVALID_GEOM")
     ELSE IF parsed.err # "PARSE_OK" \/ id.type # "JSON_NUMBER" THEN parsed
     ELSE [parsed EXCEPT !.object.id = id.number]

IsParsed(feature) == feature.err = "PARSE_OK"

\* feature_collection_add for each feature that was parsed; the others are
\* skipped without a word.
Collect(features) ==
  LET parsed == SelectSeq(features, IsParsed) IN [i \in DOMAIN parsed |-> parsed[i].object]

ParseError == [err |-> "PARSE_ERR_SYNTAX"]

\* The bounds of the collection are left out: nothing reads them.
Collection(objects) == [err |-> "PARSE_OK", features |-> objects]

\* What follows the root value is not looked at.
geojson_parse_string(text) ==
  LET parsed == parse_value(text, 1)
      root == parsed.value
      type == json_object_get(root, "type")
      features == json_object_get(root, "features")
  IN IF parsed.err # "PARSE_OK" \/ type.type # "JSON_STRING" THEN ParseError
     ELSE CASE IsNamed(type, "FeatureCollection") ->
                 IF features.type # "JSON_ARRAY" THEN ParseError
                 ELSE Collection(Collect([i \in DOMAIN features.items |->
                                            parse_geojson_feature(features.items[i])]))
            [] IsNamed(type, "Feature") -> Collection(Collect(<<parse_geojson_feature(root)>>))
            [] OTHER -> Collection(Collect(<<parse_geojson_geometry(root)>>))

geojson_validate(text) == geojson_parse_string(text).err = "PARSE_OK"

-----------------------------------------------------------------------------
\* The text of a value, and the export of objects.

RECURSIVE TextOf(_)

Joined(texts) ==
  IF texts = <<>> THEN <<>>
  ELSE FoldLeft(LAMBDA done, next : done \o <<",">> \o next, Head(texts), Tail(texts))

Quoted(string) == <<"\"">> \o string \o <<"\"">>

TextOf(v) ==
  CASE v.type = "JSON_STRING" -> Quoted(v.string)
    [] v.type = "JSON_NUMBER" -> <<CHOOSE n \in NumberSymbols : NumberOf[n] = v.number>>
    [] v.type = "JSON_ARRAY" ->
         <<"[">> \o Joined([i \in DOMAIN v.items |-> TextOf(v.items[i])]) \o <<"]">>
    [] v.type = "JSON_OBJECT" ->
         <<"{">> \o Joined([i \in DOMAIN v.keys |-> Quoted(v.keys[i]) \o <<":">> \o TextOf(v.values[i])])
         \o <<"}">>
    [] OTHER -> <<CHOOSE l \in DOMAIN Literals : Literals[l] = v>>

String(name) == [type |-> "JSON_STRING", string |-> <<name>>]
Number(n) == [type |-> "JSON_NUMBER", number |-> n]
Record(members) == Object([i \in DOMAIN members |-> <<members[i][1]>>], [i \in DOMAIN members |-> members[i][2]])

Position(p) == Array(<<Number(p.x), Number(p.y)>>)
Positions(points) == Array([i \in DOMAIN points |-> Position(points[i])])

\* geojson_export into a buffer that is large enough: holes are left out.  "%.6f"
\* keeps integers as they are.
geojson_export(shape) ==
  TextOf(CASE shape.type = "GEOM_POINT" ->
                Record(<<<<"type", String("Point")>>, <<"coordinates", Position(shape.points[1])>>>>)
           [] shape.type = "GEOM_LINESTRING" ->
                Record(<<<<"type", String("LineString")>>, <<"coordinates", Positions(shape.points)>>>>)
           [] OTHER ->
                Record(<<<<"type", String("Polygon")>>, <<"coordinates", Array(<<Positions(shape.points)>>)>>>>))
=============================================================================
