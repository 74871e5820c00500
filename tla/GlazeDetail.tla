---------------------------- MODULE GlazeDetail ----------------------------
(***************************************************************************)
(* Reading a parsed JSON tree: the getters of nws::detail, which answer    *)
(* with a default where a key is missing or its value has another kind.    *)
(* A text is a sequence of characters or words, a number a whole number of *)
(* 1/Scale.                                                                *)
(***************************************************************************)
EXTENDS Units, SequencesExt

CONSTANTS
    INT32_MAX,      \* std::numeric_limits<std::int32_t>::max()
    Missing         \* nullptr

INT32_MIN == -INT32_MAX - 1

ASSUME Int32Assumption == INT32_MAX \in Nat

(* The nodes of a tree, each with its kind.                                *)
Null == [kind |-> "null"]
Bool(b) == [kind |-> "bool", bool |-> b]
Num(n) == [kind |-> "num", num |-> n]
Str(s) == [kind |-> "str", str |-> s]
Arr(a) == [kind |-> "arr", arr |-> a]
Obj(o) == [kind |-> "obj", obj |-> o]

Is(node, kind) == node # Missing /\ node.kind = kind
-----------------------------------------------------------------------------
lookup(obj, key) ==
    IF Is(obj, "obj") /\ key \in DOMAIN obj.obj THEN obj.obj[key] ELSE Missing

\* The value under key when it has that kind.
find(obj, key, kind) == IF Is(lookup(obj, key), kind) THEN lookup(obj, key) ELSE Missing

find_object(obj, key) == find(obj, key, "obj")
find_array(obj, key) == find(obj, key, "arr")

get_string(obj, key) ==
    LET v == find(obj, key, "str") IN IF v = Missing THEN <<>> ELSE v.str

get_optional_string(obj, key) ==
    LET v == find(obj, key, "str") IN IF v = Missing THEN None ELSE v.str

get_optional_double(obj, key) ==
    LET v == find(obj, key, "num") IN IF v = Missing THEN None ELSE v.num

get_bool(obj, key, def) ==
    LET v == find(obj, key, "bool") IN IF v = Missing THEN def ELSE v.bool

\* Mutant of InRange: the least integer is refused.
InRangeOpen(n) == INT32_MIN * Scale < n /\ n <= INT32_MAX * Scale

\* A double that an int32_t can hold, and the one it becomes.
InRange(n) == INT32_MIN * Scale <= n /\ n <= INT32_MAX * Scale
Truncated(n) == IF n < 0 THEN -((-n) \div Scale) ELSE n \div Scale

get_int(obj, key) ==
    LET v == find(obj, key, "num")
    IN  IF v = Missing \/ ~InRange(v.num) THEN 0 ELSE Truncated(v.num)

StringsOf(nodes) ==
    LET strings == SelectSeq(nodes, LAMBDA n : n.kind = "str")
    IN  [i \in DOMAIN strings |-> strings[i].str]

get_string_array(obj, key) ==
    LET v == find_array(obj, key) IN IF v = Missing THEN <<>> ELSE StringsOf(v.arr)
-----------------------------------------------------------------------------
(* Quantities and places.                                                  *)

QuantitativeValue ==
    [value |-> None, unit_code |-> <<>>, unit |-> "Unknown", max_value |-> None,
     min_value |-> None, quality_control |-> None]

parse_quantitative_value(node, qv) ==
    IF ~Is(node, "obj") THEN qv
    ELSE [unit_code |-> get_string(node, "unitCode"),
          unit |-> parse_unit_code(get_string(node, "unitCode")),
          value |-> get_optional_double(node, "value"),
          max_value |-> get_optional_double(node, "maxValue"),
          min_value |-> get_optional_double(node, "minValue"),
          quality_control |-> get_optional_string(node, "qualityControl")]

\* A Geometry holds a point, a polygon or nothing.
NoGeometry == [holds |-> "nullptr"]
GeoPoint(lon, lat) == [holds |-> "GeoPoint", longitude |-> lon, latitude |-> lat]
GeoPolygon(rings) == [holds |-> "GeoPolygon", coordinates |-> rings]

\* The node is a list that begins with two numbers: a longitude, a latitude.
IsPosition(node) ==
    /\ Is(node, "arr")
    /\ Len(node.arr) >= 2
    /\ node.arr[1].kind = "num"
    /\ node.arr[2].kind = "num"

Position(node) == GeoPoint(node.arr[1].num, node.arr[2].num)

\* The object form and the bare list.
parse_geopoint(node) ==
    LET list == IF Is(node, "obj") THEN find_array(node, "coordinates") ELSE node
    IN  IF IsPosition(list) THEN Position(list) ELSE NoGeometry

Ring(node) ==
    LET points == SelectSeq(node.arr, IsPosition)
    IN  [i \in DOMAIN points |-> Position(points[i])]

Polygon(node) ==
    LET outer == find_array(node, "coordinates")
        rings == IF outer = Missing THEN <<>>
                 ELSE SelectSeq(outer.arr, LAMBDA r : r.kind = "arr")
    IN  GeoPolygon([i \in DOMAIN rings |-> Ring(rings[i])])

parse_geometry(node) ==
    CASE get_string(node, "type") = <<"Point">> -> parse_geopoint(node)
      [] get_string(node, "type") = <<"Polygon">> -> Polygon(node)
      [] OTHER -> NoGeometry
=============================================================================
