---------------------------- MODULE Geolocation ----------------------------
(***************************************************************************)
(* Geolocation: a GeoJSON point with checked coordinates, a public object  *)
(* of further members, and the conversions from and to JSON.  A caller     *)
(* holds one point and one document.  A number that cannot be converted,   *)
(* a wrong shape, a coordinate out of range: the call throws, and what the *)
(* caller holds stays.                                                     *)
(*                                                                         *)
(* A JSON value is a function from the names of its members, and one that  *)
(* is no object has none of a point; its coordinates are a record that     *)
(* tells arrays from everything else.                                      *)
(***************************************************************************)
EXTENDS Integers, Sequences, Functions

CONSTANTS
    GeoNumbers,  \* the coordinates a caller may pass in, less NaN
    Altitudes,   \* the altitudes
    NaN,         \* not a number
    Text,        \* a JSON value that is not a number
    NoAltitude,  \* an empty std::optional
    Extras,      \* what a caller may assign to the public member extra
    NotObject,   \* a JSON value that is not an object
    Documents    \* JSON values that come from elsewhere

IsValue(j) == j = [k \in DOMAIN j |-> j[k]]

Coordinates == [array : BOOLEAN, items : Seq(Int \cup {NaN, Text})]

ASSUME GeolocationAssumption ==
    /\ GeoNumbers \subseteq Int /\ Altitudes \subseteq Int
    /\ {NaN, Text, NoAltitude} \cap Int = {} /\ NoAltitude \notin {NaN, Text}
    /\ "type" \notin DOMAIN NotObject
    /\ \A e \in Extras : IsValue(e)
    /\ \A j \in Documents :
          IsValue(j) /\ ("coordinates" \in DOMAIN j => j["coordinates"] \in Coordinates)

VARIABLES
    geo,  \* the point
    doc   \* the document that was written or received last

geoVars == <<geo, doc>>

GeoDoubles == GeoNumbers \cup {NaN}
-----------------------------------------------------------------------------
validate_latitude(x)  == x # NaN /\ x \in -90..90
validate_longitude(x) == x # NaN /\ x \in -180..180

Point(lat, lon, alt, extra) ==
    [latitude |-> lat, longitude |-> lon, altitude |-> alt, extra |-> extra]

EmptyObject == <<>>
Array(items) == [array |-> TRUE, items |-> items]
Core == {"type", "coordinates"}

(* The members of a, and those of b that a does not have. *)
Over(a, b) == [k \in DOMAIN a \cup DOMAIN b |-> IF k \in DOMAIN a THEN a[k] ELSE b[k]]

coords(g) ==
    <<g.longitude, g.latitude>> \o (IF g.altitude = NoAltitude THEN <<>> ELSE <<g.altitude>>)

core_members(g) == [k \in Core |-> IF k = "type" THEN "Point" ELSE Array(coords(g))]

(* Fault: the members of extra are written last. *)
to_json_ExtraLast(g) == Over(g.extra, core_members(g))

(* Core members take the place of members of extra with their names.       *)
to_json(g) == Over(core_members(g), g.extra)

(* What from_json tests itself, before the setters.                        *)
well_formed(j) ==
    /\ j # NotObject
    /\ Core \subseteq DOMAIN j /\ j["type"] = "Point"
    /\ j["coordinates"].array /\ Len(j["coordinates"].items) \in 2..3
    /\ \A n \in DOMAIN j["coordinates"].items : j["coordinates"].items[n] # Text

accepted(j) ==
    /\ well_formed(j)
    /\ validate_longitude(j["coordinates"].items[1]) /\ validate_latitude(j["coordinates"].items[2])
    /\ Len(j["coordinates"].items) = 3 => j["coordinates"].items[3] # NaN

(* Fault: latitude first. *)
from_json_LatitudeFirst(j) ==
    LET c == j["coordinates"].items
    IN  Point(c[1], c[2], IF Len(c) = 3 THEN c[3] ELSE NoAltitude, Restrict(j, DOMAIN j \ Core))

from_json(j) ==
    LET c == j["coordinates"].items
    IN  Point(c[2], c[1], IF Len(c) = 3 THEN c[3] ELSE NoAltitude, Restrict(j, DOMAIN j \ Core))
-----------------------------------------------------------------------------
GeoInit == geo = Point(0, 0, NoAltitude, EmptyObject) /\ doc \in Documents

ConstructPoint ==
    \E lat, lon \in GeoDoubles, alt \in Altitudes \cup {NaN, NoAltitude} :
        /\ validate_latitude(lat) /\ validate_longitude(lon) /\ alt # NaN
        /\ geo' = Point(lat, lon, alt, EmptyObject) /\ UNCHANGED doc

set_latitude ==
    \E x \in GeoDoubles :
        validate_latitude(x) /\ geo' = [geo EXCEPT !.latitude = x] /\ UNCHANGED doc

set_longitude ==
    \E x \in GeoDoubles :
        validate_longitude(x) /\ geo' = [geo EXCEPT !.longitude = x] /\ UNCHANGED doc

set_altitude ==
    \E x \in Altitudes \cup {NaN} : x # NaN /\ geo' = [geo EXCEPT !.altitude = x] /\ UNCHANGED doc

clear_altitude == geo' = [geo EXCEPT !.altitude = NoAltitude] /\ UNCHANGED doc

AssignExtra == \E e \in Extras : geo' = [geo EXCEPT !.extra = e] /\ UNCHANGED doc

(* operator[] throws on a value that is not an object. *)
Write == geo.extra # NotObject /\ doc' = to_json(geo) /\ UNCHANGED geo

Receive == \E j \in Documents : doc' = j /\ UNCHANGED geo

Read == accepted(doc) /\ geo' = from_json(doc) /\ UNCHANGED doc

GeoNext ==
    \/ ConstructPoint \/ set_latitude \/ set_longitude \/ set_altitude \/ clear_altitude
    \/ AssignExtra \/ Write \/ Receive \/ Read

GeoSpec == GeoInit /\ [][GeoNext]_geoVars
-----------------------------------------------------------------------------
(* Any point can be written and read back, whatever its setters were given *)
(* and whatever extra holds: the numbers return to their own fields, and   *)
(* of extra only members with the names of core members are lost.          *)
PointsComeBack ==
    geo.extra # NotObject =>
        /\ accepted(to_json(geo))
        /\ from_json(to_json(geo)) =
               [geo EXCEPT !.extra = Restrict(@, DOMAIN @ \ Core)]

(* The comment in from_json: round-tripping does not lose user data.  What *)
(* is read is written again member by member, those unknown included.      *)
DocumentsComeBack == accepted(doc) => to_json(from_json(doc)) = doc
=============================================================================
