----------------------------- MODULE MC_Loader -----------------------------
(***************************************************************************)
(* TLC instance of the loader: rings and lines on a 3 x 3 grid, documents  *)
(* made of valid and invalid features, and texts that are not JSON.        *)
(***************************************************************************)
EXTENDS Loader, TLC

MCNumberOf == "0" :> 0 @@ "1" :> 1 @@ "2" :> 2

P(x, y) == [x |-> x, y |-> y]
Grid == {P(x, y) : x, y \in 0..2}

Triangle == <<P(0, 0), P(2, 0), P(0, 2)>>
Square == <<P(0, 0), P(2, 0), P(2, 2), P(0, 2)>>
Corner == <<P(0, 0), P(1, 0), P(0, 1)>>
Bend == <<P(0, 0), P(2, 0), P(2, 1)>>

\* Features: the identifier as written, the geometry, and what it holds.
Feature(id, geometry, shapes) ==
  [value |-> Record(<<<<"type", String("Feature")>>, <<"id", id>>, <<"geometry", geometry>>>>),
   wanted |-> [i \in DOMAIN shapes |->
                 [id |-> IF id.type = "JSON_NUMBER" THEN id.number ELSE 0, shape |-> shapes[i]]]]

Geo(type, coordinates) == Record(<<<<"type", String(type)>>, <<"coordinates", coordinates>>>>)

Bad == Array(<<Number(1)>>)
NoId == Literals["null"]

\* The third number of a position is an altitude.
MCFeatures == {
  Feature(NoId, Geo("Point", Array(<<Number(1), Number(2), Number(0)>>)), <<PointShape(P(1, 2))>>),
  Feature(Number(1), Geo("LineString", Positions(Bend)), <<LineShape(Bend)>>),
  Feature(String("a"), Geo("Polygon", Array(<<Positions(Square), Positions(Corner)>>)),
          <<PolygonShape(Square, <<Corner>>)>>),
  Feature(NoId, Geo("Polygon", Array(<<Positions(Triangle), Array(<<Bad, Position(P(1, 1))>>)>>)),
          <<PolygonShape(Triangle, <<<<P(1, 1)>>>>)>>),
  Feature(NoId, Geo("LineString", Array(<<Position(P(1, 1)), Bad>>)), <<>>),
  Feature(NoId, Geo("Polygon", Array(<<Array(<<Bad>>)>>)), <<>>),
  Feature(NoId, Geo("MultiPoint", Array(<<>>)), <<>>),
  Feature(NoId, Literals["null"], <<>>),
  [value |-> Literals["true"], wanted |-> <<>>]}

Collected(fs) ==
  [text |-> TextOf(Record(<<<<"type", String("FeatureCollection")>>,
                            <<"features", Array([i \in DOMAIN fs |-> fs[i].value])>>>>)),
   wanted |-> FlattenSeq([i \in DOMAIN fs |-> fs[i].wanted])]

\* Collections of up to three features, exported shapes, single features.
Exported(shape) == [text |-> geojson_export(shape), wanted |-> <<[id |-> 0, shape |-> shape]>>]

MCDocuments ==
  {[text |-> TextOf(f.value), wanted |-> f.wanted] : f \in {g \in MCFeatures : g.wanted # <<>>}}
  \cup {[text |-> <<"[", "1", "]">>, wanted |-> <<>>], Collected(<<>>), Exported(LineShape(Bend)), Exported(PolygonShape(Triangle, <<>>))}

MCLoneDocuments ==
  {Collected(fs) : fs \in UNION {[1..n -> MCFeatures] : n \in 1..3}}
  \cup {Exported(PointShape(P(2, 1))), Exported(LineShape(<<>>)), Exported(PolygonShape(Square, <<>>))}

WktOf(shape) == [text |-> wkt_export(shape), wanted |-> <<[id |-> 0, shape |-> shape]>>]

MCWktTexts ==
  {WktOf(s) : s \in {PointShape(P(2, 1)), LineShape(Bend), LineShape(<<P(1, 1)>>), PolygonShape(Triangle, <<>>)}}
  \cup {[text |-> <<" ", "POINT", "(", " ", "0", " ", " ", "1", ")">>,
         wanted |-> <<[id |-> 0, shape |-> PointShape(P(0, 1))]>>],
        [text |-> <<"POINT", " ", "(", "1", ")">>, wanted |-> <<>>]}

Given(by, id, shape) == [by |-> by, id |-> id, shape |-> shape]
MCShapes == {
  Given("vertices", 0, PointShape(P(0, 2))), Given("vertices", 0, PolygonShape(<<P(0, 0), P(1, 1)>>, <<>>)),
  Given("object", 2, PolygonShape(Square, <<Corner>>)), Given("object", 0, PolygonShape(<<P(0, 0), P(1, 1)>>, <<>>))}

\* Every ring of three and four corners, and axis-parallel lines.
Axis(line) == \A i \in 1..(Len(line) - 1) : line[i].x = line[i + 1].x \/ line[i].y = line[i + 1].y
MCLoneShapes ==
  {Given("vertices", 0, PolygonShape(ring, <<>>)) : ring \in {r \in [1..3 -> Grid] \cup [1..4 -> Grid] : IsInjective(r)}}
  \cup {Given("vertices", 0, LineShape(line)) : line \in {l \in UNION {[1..n -> Grid] : n \in 0..3} : Axis(l)}}

-----------------------------------------------------------------------------
\* Texts: the short ones, and longer ones with up to two symbols changed.
Alphabet == {"{", "}", "[", "]", ":", ",", "\"", "\\", "a", "1", " "}

Seeds == {
  <<"{", "\"", "a", "\"", ":", "[", "1", ",", "{", "}", "]", ",", "\"", "a", "\"", ":", "\"", "\"", "}">>,
  <<" ", "{", "\"", "type", "\"", " ", ":", "\"", "a", "\"", ",", "\"", "\"", ":", "[", " ", "]", " ", "}">>,
  <<"{", "\"", "a", "\\", "\"", "\"", ":", "null", ",", "\"", "a", "\"", ":", "\"", "\\", "\\", "\"", "}">>}

Changed(s) ==
  {[s EXCEPT ![i] = c] : i \in DOMAIN s, c \in Alphabet}
  \cup {RemoveAt(s, i) : i \in DOMAIN s} \cup {InsertAt(s, i, c) : i \in DOMAIN s, c \in Alphabet}

ShortSeed == <<"{", "\"", "a", "\"", ":", "[", "1", "]", "}">>

MCTexts ==
  UNION {[1..n -> Alphabet] : n \in 0..4}
  \cup UNION {Changed(s) : s \in Changed(ShortSeed)}
  \cup Seeds \cup UNION {Changed(s) : s \in Seeds} \cup {d.text : d \in MCDocuments}

=============================================================================
