---------------------------- MODULE FieldChecks ----------------------------
(***************************************************************************)
(* The bounds of the per-field checks, beside the bounds of the schema.    *)
(* The same limits are written twice, in C++ and in sigmf-schema.json: the *)
(* first decide what a STRICT setter or constructor takes, the second what *)
(* save() writes.  A key stands for all keys whose check is the same.      *)
(***************************************************************************)
EXTENDS Integers, Sequences, Functions

CONSTANTS
    FieldNumbers, \* the numbers that are passed in
    NotANumber,   \* the double that is not a number
    Trillion,     \* 1'000'000'000'000
    Nothing       \* no call was refused yet

DoubleFields == {"core:sample_rate", "core:freq_lower_edge"}
CountFields == {"core:num_channels", "core:sample_count"}
Fields == DoubleFields \cup CountFields

ASSUME FieldAssumption ==
    /\ FieldNumbers \subseteq Int /\ NotANumber \notin Int
    /\ Trillion \in Nat

VARIABLES
    fields,       \* the fields of the object that are set
    last_refused  \* the field and the value that the last setter threw on

fieldVars == <<fields, last_refused>>
-----------------------------------------------------------------------------
(* Comparisons of doubles are false of NaN. *)
Below(x, y)  == NotANumber \notin {x, y} /\ x < y
AtMost(x, y) == NotANumber \notin {x, y} /\ x <= y

check_sample_rate(x) == ~(AtMost(x, 0) \/ Below(Trillion, x))

(* Fault: the bound itself is refused. *)
check_frequency_Strict(x) == ~(AtMost(x, -Trillion) \/ AtMost(Trillion, x))

(* check_freq_lower_edge, check_freq_upper_edge and check_frequency        *)
check_frequency(x) == ~(Below(x, -Trillion) \/ Below(Trillion, x))

check_num_channels(x) == x >= 1

(* Fault: off by one. *)
check_not_negative_MinusOne(x) == x >= -1

(* check_offset, check_trailing_bytes, check_sample_start,                 *)
(* check_global_index, check_header_bytes, check_sample_count              *)
check_not_negative(x) == x >= 0

check_number(f, x) ==
    CASE f = "core:sample_rate"     -> check_sample_rate(x)
      [] f = "core:freq_lower_edge" -> check_frequency(x)
      [] f = "core:num_channels"    -> check_num_channels(x)
      [] f = "core:sample_count"    -> check_not_negative(x)
-----------------------------------------------------------------------------
(* minimum, exclusiveMinimum and maximum in sigmf-schema.json.             *)
schema_number(f, x) ==
    CASE f = "core:sample_rate"     -> x > 0 /\ x <= Trillion
      [] f = "core:freq_lower_edge" -> -Trillion <= x /\ x <= Trillion
      [] f = "core:num_channels"    -> 1 <= x
      [] f = "core:sample_count"    -> 0 <= x
-----------------------------------------------------------------------------
Arguments(f) == FieldNumbers \cup (IF f \in DoubleFields THEN {NotANumber} ELSE {})

Put(f, x) == [g \in DOMAIN fields \cup {f} |-> IF g = f THEN x ELSE fields[g]]

FieldInit == fields = <<>> /\ last_refused = Nothing

(* The typed setters under STRICT. *)
SetNumber(f, x) ==
    IF check_number(f, x)
    THEN fields' = Put(f, x) /\ last_refused' = Nothing
    ELSE last_refused' = [field |-> f, value |-> x] /\ UNCHANGED fields

FieldNext == \E f \in Fields : \E x \in Arguments(f) : SetNumber(f, x)

FieldSpec == FieldInit /\ [][FieldNext]_fieldVars
-----------------------------------------------------------------------------
(* What setters took save() does not refuse: the bounds in the code are    *)
(* within those of the schema.  What the schema says of NaN is jsoncons'.  *)
AcceptedMeetsSchema ==
    \A f \in DOMAIN fields : fields[f] # NotANumber => schema_number(f, fields[f])

(* And a number that a setter refused is one that the schema refuses: what *)
(* save() wrote at LAZY is not refused at load for the sake of a bound.    *)
RefusedFailsSchema ==
    last_refused # Nothing =>
        last_refused.value # NotANumber /\ ~schema_number(last_refused.field, last_refused.value)

(* The message of check_sample_rate: a rate must be greater than zero and  *)
(* at most a trillion.  NaN, which no comparison finds out, is neither.    *)
RatesArePositive ==
    "core:sample_rate" \in DOMAIN fields =>
        Below(0, fields["core:sample_rate"]) /\ AtMost(fields["core:sample_rate"], Trillion)
=============================================================================
