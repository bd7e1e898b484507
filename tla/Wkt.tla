-------------------------------- MODULE Wkt --------------------------------
(***************************************************************************)
(* wkt_parse and wkt_export of src/src/parser.c.                           *)
(*                                                                         *)
(* A text is a sequence of symbols as in JsonParser: a keyword in any case *)
(* of letters, a parenthesis, a comma, a number or white space.  Two       *)
(* numbers are never next to each other.                                   *)
(***************************************************************************)
EXTENDS GeoJson

\* The loops `while (*wkt && ...) wkt++'.
RECURSIVE SkipWhile(_, _, _)
SkipWhile(text, pos, set) ==
  IF pos <= Len(text) /\ text[pos] \in set THEN SkipWhile(text, pos + 1, set) ELSE pos

RECURSIVE SkipTo(_, _, _)
SkipTo(text, pos, set) ==
  IF pos <= Len(text) /\ text[pos] \notin set THEN SkipTo(text, pos + 1, set) ELSE pos

\* sscanf(wkt, "%lf %lf", &x, &y): the points it reads, one or none.
Scan(text, pos) ==
  LET x == SkipWhile(text, pos, {" "})
      y == SkipWhile(text, x + 1, {" "})
  IN IF peek(text, x) \in NumberSymbols /\ peek(text, y) \in NumberSymbols
     THEN <<[x |-> NumberOf[text[x]], y |-> NumberOf[text[y]]]>>
     ELSE <<>>

\* The loop over the coordinates up to a closing parenthesis or the end.
RECURSIVE ScanPoints(_, _)
ScanPoints(text, pos) ==
  LET stop == SkipTo(text, pos, {",", ")"})
      next == SkipWhile(text, IF peek(text, stop) = "," THEN stop + 1 ELSE stop, {" "})
  IN IF peek(text, pos) \in {NUL, ")"} THEN <<>>
     ELSE Scan(text, pos) \o ScanPoints(text, next)

Opening == {" ", "("}

\* The vertices of a linestring.
LineFrom(text) == ScanPoints(text, SkipWhile(text, 1, Opening))

\* The vertices of a polygon: "Skip to first ring" comes after a loop that
\* has already skipped every opening parenthesis.
RingFrom(text) ==
  LET ring == SkipTo(text, SkipWhile(text, 1, Opening), {"("})
  IN ScanPoints(text, IF peek(text, ring) = "(" THEN ring + 1 ELSE ring)

wkt_parse(wkt) ==
  LET start == SkipWhile(wkt, 1, {" "})
      keyword == peek(wkt, start)
      rest == SubSeq(wkt, start + 1, Len(wkt))
      point == Scan(rest, SkipWhile(rest, 1, Opening))
  IN CASE keyword = "POINT" ->
            IF point = <<>> THEN GeometryError("PARSE_ERR_SYNTAX") ELSE Built(PointShape(point[1]))
       [] keyword = "LINESTRING" -> Built(LineShape(LineFrom(rest)))
       [] keyword = "POLYGON" -> Built(PolygonShape(RingFrom(rest), <<>>))
       [] OTHER -> GeometryError("PARSE_ERR_UNSUPPORTED")

\* wkt_export, white space after commas included; holes are left out.
wkt_export(shape) ==
  LET number(n) == CHOOSE s \in NumberSymbols : NumberOf[s] = n
      pair(p) == <<number(p.x), " ", number(p.y)>>
      list == FoldLeft(LAMBDA done, p : done \o (IF done = <<>> THEN <<>> ELSE <<",", " ">>) \o pair(p),
                       <<>>, shape.points)
  IN CASE shape.type = "GEOM_POINT" -> <<"POINT", " ", "(">> \o list \o <<")">>
       [] shape.type = "GEOM_LINESTRING" -> <<"LINESTRING", " ", "(">> \o list \o <<")">>
       [] OTHER -> <<"POLYGON", " ", "(", "(">> \o list \o <<")", ")">>
=============================================================================
