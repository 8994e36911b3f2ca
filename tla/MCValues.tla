------------------------------ MODULE MCValues ------------------------------
(***************************************************************************)
(* An instance for TLC of the modules of single values.  They share no     *)
(* state, so each behaviour is of one of them, chosen at the start, and    *)
(* the states of the others stay initial.                                  *)
(***************************************************************************)
EXTENDS JsonObject, FieldChecks, SampleTypes, Datetime, HexValues, Geolocation
-----------------------------------------------------------------------------
(* JsonObject: a required key whose setter validates and one whose setter  *)
(* does not, a key with a default and a fallback, and an object with a     *)
(* member.                                                                 *)
GlobalKeys == {"datatype", "version", "num_channels", "ext", "a", "b"}

GlobalGood == [k \in {"datatype", "version", "num_channels"} |->
                  CASE k = "datatype" -> {"cf32_le"}
                    [] k = "version" -> {"2"}
                    [] k = "num_channels" -> {"1", "2"}]

GlobalDefaults ==
    [p \in { <<>>, <<"datatype">>, <<"version">>, <<"num_channels">> } |->
        CASE p = <<>> -> Object [] p = <<"num_channels">> -> "1" [] p = <<"version">> -> "2" [] OTHER -> "cf32_le"]

GlobalFallbacks ==
    [k \in {"datatype", "version", "num_channels"} |-> IF k = "num_channels" THEN "1" ELSE Unusable]

AllPointers == { <<>>, <<"ext", "a">> }

(* An object with one member, or with a member in a member. *)
Member(k, x) == [p \in { <<>>, <<k>> } |-> IF p = <<>> THEN Object ELSE x]
Nested(k, l, x) ==
    [p \in { <<>>, <<k>>, <<k, l>> } |-> IF p = <<k, l>> THEN x ELSE Object]

AllValues ==
    { Scalar(Object), Scalar(Null), Scalar("2"), Member("datatype", Null),
      Member("num_channels", Null), Nested("ext", "b", "2"), Nested("ext", "a", Null) }
-----------------------------------------------------------------------------
(* FieldChecks: numbers at and beside each bound, with ten for a trillion. *)
BoundaryNumbers == {-11, -10, -1, 0, 1, 10, 11}
-----------------------------------------------------------------------------
(* SampleTypes: all names made of a known or unknown prefix, type, suffix. *)
AnyName ==
    [prefix : {"r", "c", "x"}, type : Primitives \cup ByteTypes \cup {"f16", ""},
     suffix : {"", "_le", "_be", "_me"}]
-----------------------------------------------------------------------------
(* Datetime: dates at the ends of months and years, in and out of range;   *)
(* times at the ends of minutes and days; fractions shorter and longer     *)
(* than what is kept.                                                      *)
Dates == { <<1969, 12, 31>>, <<2016, 2, 29>>, <<2016, 12, 31>>, <<2017, 1, 1>>,
           <<2017, 2, 29>>, <<2300, 1, 1>> }

Times == { <<0, 0, 0>>, <<12, 30, 60>>, <<23, 58, 59>>, <<23, 59, 59>>, <<23, 59, 60>>, <<24, 0, 0>> }

Fractions == { <<>>, <<5>>, <<0, 5>>, <<5, 0, 9>> }

SomeDatetimes ==
    { [ matches |-> m, year |-> d[1], month |-> d[2], day |-> d[3], hour |-> t[1],
        minute |-> t[2], second |-> t[3], digits |-> f ] :
      m \in BOOLEAN, d \in Dates, t \in Times, f \in Fractions }

SomeGarbage == { [day |-> 0, second |-> 0, frac |-> 0], [day |-> -93000, second |-> 1, frac |-> 7] }
-----------------------------------------------------------------------------
(* HexValues: a digit at either end of each range or the character beside  *)
(* one, and a second that is a number or a letter in either case; UUIDs    *)
(* and hashes of a byte.                                                   *)
FirstChars  == {Code.zero, Code.nine, Code.A, Code.F, Code.a, Code.f, Code.F + 1}
SecondChars == {Code.zero, Code.A, Code.a}

SomeHex ==
    { [shaped |-> s, chars |-> <<c, d>>] : s \in BOOLEAN, c \in FirstChars, d \in SecondChars }
-----------------------------------------------------------------------------
(* Geolocation: numbers at and beyond each bound, so that a longitude may  *)
(* be too large for a latitude; extras and documents that collide with     *)
(* core members.                                                           *)
SomeCoordinates == {-180, -90, 0, 90, 180, 181}

(* What stands for any JSON value that is no object. *)
SomeScalar == [k \in {"scalar"} |-> Text]

Named(label) == [k \in {"label"} |-> label]
Colliding == [k \in {"type", "label"} |-> IF k = "type" THEN "Circle" ELSE "here"]

SomeExtras == { EmptyObject, Named("here"), Colliding, NotObject }

PointDocument(type, coordinates) ==
    [k \in {"type", "coordinates", "label"} |->
        IF k = "type" THEN type ELSE IF k = "label" THEN "there" ELSE coordinates]

SomeDocuments ==
    { NotObject, Named("there"),
      PointDocument("Point", [array |-> FALSE, items |-> <<>>]),
      PointDocument("Circle", Array(<<0, 0>>)),
      PointDocument("Point", Array(<<0>>)),
      PointDocument("Point", Array(<<0, 0, 0, 0>>)),
      PointDocument("Point", Array(<<0, Text>>)),
      PointDocument("Point", Array(<<180, 90>>)),
      PointDocument("Point", Array(<<91, -90, 181>>)),
      PointDocument("Point", Array(<<-90, -180>>)) }
-----------------------------------------------------------------------------
AnySample == [prefix |-> "r", type |-> "u8", suffix |-> ""]

VARIABLE class  \* the module that takes the steps

values == <<vars, fieldVars, sampleVars, objects, hexVars, geoVars, class>>

MCInit ==
    /\ Init /\ FieldInit /\ SampleInit /\ DatetimeInit /\ HexInit /\ GeoInit
    /\ class \in {"object", "fields", "sample", "datetime", "hex", "point"}
    /\ class # "sample" => name = AnySample /\ machine = "LITTLE" /\ wanted = "real"
    /\ class # "point"  => doc = NotObject

MCNext ==
    /\ UNCHANGED class
    /\ \/ class = "object" /\ Next
          /\ UNCHANGED <<fieldVars, sampleVars, objects, hexVars, geoVars>>
       \/ class = "fields" /\ FieldNext
          /\ UNCHANGED <<vars, sampleVars, objects, hexVars, geoVars>>
       \/ class = "sample" /\ SampleNext
          /\ UNCHANGED <<vars, fieldVars, objects, hexVars, geoVars>>
       \/ class = "datetime" /\ ConstructDatetime
          /\ UNCHANGED <<vars, fieldVars, sampleVars, hexVars, geoVars>>
       \/ class = "hex" /\ HexNext
          /\ UNCHANGED <<vars, fieldVars, sampleVars, objects, geoVars>>
       \/ class = "point" /\ GeoNext
          /\ UNCHANGED <<vars, fieldVars, sampleVars, objects, hexVars>>

MCSpec == MCInit /\ [][MCNext]_values
=============================================================================
