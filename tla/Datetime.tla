------------------------------ MODULE Datetime ------------------------------
(***************************************************************************)
(* Datetime: core:datetime parsed into a time point that counts            *)
(* nanoseconds from 1970 in an int64_t, its accessors and its order.       *)
(*                                                                         *)
(* A text is a record: whether it matches the pattern, its numbers and the *)
(* digits of its fraction.  A time point is a day, a second of the day and *)
(* a fraction, which is what the accessors split it into.                  *)
(***************************************************************************)
EXTENDS Integers, Sequences

CONSTANTS
    DatetimeTexts, \* the strings that are parsed
    Digits,        \* decimals of a second that are kept (9 in the code)
    MaxDay,        \* whole days from 1970 that an int64_t of nanoseconds spans (106751)
    Garbage,       \* the time points that an overflow may leave
    MaxDatetimes   \* bounds the objects

Digit        == 0..9
TwoDigits    == 0..99
FourDigits   == 0..9999
SecondsOfDay == 0..86399

TextType ==
    [ matches : BOOLEAN, year : FourDigits, month : TwoDigits, day : TwoDigits,
      hour : TwoDigits, minute : TwoDigits, second : TwoDigits, digits : Seq(Digit) ]

ASSUME DatetimeAssumption ==
    /\ DatetimeTexts \subseteq TextType
    /\ Digits \in Nat \ {0} /\ MaxDay \in Nat /\ MaxDatetimes \in Nat
    /\ Garbage \subseteq [day : Int, second : SecondsOfDay, frac : Nat]

VARIABLE objects  \* the Datetimes that were constructed
-----------------------------------------------------------------------------
IsLeapYear(y) == y % 4 = 0 /\ (y % 100 # 0 \/ y % 400 = 0)

DaysIn(y, m) ==
    CASE m = 2 -> IF IsLeapYear(y) THEN 29 ELSE 28
      [] m \in {4, 6, 9, 11} -> 30
      [] OTHER -> 31

(* year_month_day::ok *)
DateExists(t) == t.month \in 1..12 /\ t.day \in 1..DaysIn(t.year, t.month)

DaysBeforeYear(y) == 365 * y + (y - 1) \div 4 - (y - 1) \div 100 + (y - 1) \div 400

DaysBeforeMonth(y, m) ==
    LET days[n \in 1..12] == IF n = 1 THEN 0 ELSE days[n - 1] + DaysIn(y, n - 1)
    IN  days[m]

(* sys_days: the days from 1970. *)
sys_days(t) ==
    DaysBeforeYear(t.year) - DaysBeforeYear(1970) + DaysBeforeMonth(t.year, t.month) + t.day - 1
-----------------------------------------------------------------------------
is_leap_second(t) == t.second = 60

refused_text(text) ==
    \/ ~text.matches \/ ~DateExists(text)
    \/ text.hour > 23 \/ text.minute > 59 \/ text.second > 60
    \/ is_leap_second(text) /\ ~(text.hour = 23 /\ text.minute = 59)

(* The digits are filled up with zeros, or cut off, to a fixed number.     *)
digit(digits, k) == IF k <= Len(digits) THEN digits[k] ELSE 0

fraction(digits) ==
    LET n[k \in 0..Digits] == IF k = 0 THEN 0 ELSE 10 * n[k - 1] + digit(digits, k)
    IN  n[Digits]

(* Fault: a leap second is counted on. *)
representable_second_Counted(t) == t.second

(* A leap second is taken for the second before it. *)
representable_second(t) == IF is_leap_second(t) THEN 59 ELSE t.second

(* The instant in true arithmetic. *)
instant(t) ==
    LET s == t.hour * 3600 + t.minute * 60 + representable_second(t)
    IN  [day |-> sys_days(t) + s \div 86400, second |-> s % 86400, frac |-> fraction(t.digits)]

Representable(t) == instant(t).day \in (-MaxDay)..(MaxDay - 1)

(* The sum of parse_and_validate overflows far from 1970; the day that is  *)
(* representable in part counts as out of range.                           *)
time_points(t) == IF Representable(t) THEN {instant(t)} ELSE Garbage

Parsed(t) == [raw : {t}, is_leap_second : {is_leap_second(t)}, time_point : time_points(t)]
-----------------------------------------------------------------------------
DatetimeInit == objects = <<>>

(* A constructor that throws leaves no object. *)
ConstructDatetime ==
    \E text \in DatetimeTexts :
        \/ refused_text(text) /\ UNCHANGED objects
        \/ /\ ~refused_text(text) /\ Len(objects) < MaxDatetimes
           /\ \E object \in Parsed(text) : objects' = Append(objects, object)

DatetimeSpec == DatetimeInit /\ [][ConstructDatetime]_objects
-----------------------------------------------------------------------------
time_before(p, q) ==
    \/ p.day < q.day
    \/ p.day = q.day /\ p.second < q.second
    \/ p.day = q.day /\ p.second = q.second /\ p.frac < q.frac

(* Fault: only time points are compared. *)
less_NoTie(a, b) == time_before(a.time_point, b.time_point)

(* operator<=> *)
less(a, b) ==
    \/ time_before(a.time_point, b.time_point)
    \/ a.time_point = b.time_point /\ ~a.is_leap_second /\ b.is_leap_second

hour(a)   == a.time_point.second \div 3600
minute(a) == (a.time_point.second \div 60) % 60
second(a) == IF a.is_leap_second THEN 60 ELSE a.time_point.second % 60
-----------------------------------------------------------------------------
InRange(a) == Representable(a.raw)

(* Ten to the power of each number of decimals. *)
PowersOfTen == LET p[n \in 0..Digits] == IF n = 0 THEN 1 ELSE 10 * p[n - 1] IN p

(* What each accessor returns is what the text says, in a leap second too, *)
(* which is not counted into the next day; of the fraction, what was kept. *)
FieldsReadBack ==
    \A n \in DOMAIN objects :
        LET a == objects[n]
        IN  InRange(a) =>
              /\ a.time_point.day = sys_days(a.raw)
              /\ hour(a) = a.raw.hour /\ minute(a) = a.raw.minute /\ second(a) = a.raw.second
              /\ \A k \in 1..Digits :
                    (a.time_point.frac \div PowersOfTen[Digits - k]) % 10 = digit(a.raw.digits, k)

(* The numbers of a text, most significant first, with as many decimals as *)
(* are kept: timestamps are in order when these are, left to right.        *)
text_numbers(t) ==
    <<t.year, t.month, t.day, t.hour, t.minute, t.second>>
    \o [k \in 1..Digits |-> digit(t.digits, k)]

Precedes(p, q) ==
    \E n \in 1..Len(p) : p[n] < q[n] /\ \A m \in 1..(n - 1) : p[m] = q[m]

(* A leap second and a time in its minute with another fraction. *)
SameMinute(a, b) ==
    LET p == text_numbers(a.raw)
        q == text_numbers(b.raw)
    IN  /\ a.is_leap_second # b.is_leap_second
        /\ SubSeq(p, 1, 5) = SubSeq(q, 1, 5) /\ SubSeq(p, 7, Len(p)) # SubSeq(q, 7, Len(q))

(* <=> gives the order of the texts, and none of two equal ones, across    *)
(* the ends of months and years and before 1970, with fractions of any     *)
(* length.  A leap second follows the time it is clamped to and precedes   *)
(* the next day; in between its order is not stated here.                  *)
OrderIsChronological ==
    \A m, n \in DOMAIN objects :
        InRange(objects[m]) /\ InRange(objects[n]) /\ ~SameMinute(objects[m], objects[n]) =>
            (less(objects[m], objects[n])
             <=> Precedes(text_numbers(objects[m].raw), text_numbers(objects[n].raw)))

(* The comment at operator<=>: ordering is by instant.  A leap second with *)
(* a small fraction sorts before the second it follows.                    *)
OrderIsByInstant ==
    \A m, n \in DOMAIN objects :
        InRange(objects[m]) /\ InRange(objects[n])
        /\ Precedes(text_numbers(objects[m].raw), text_numbers(objects[n].raw))
        => less(objects[m], objects[n])

(* The comment at time_point(): it corresponds to the date and time.       *)
TimePointCorresponds ==
    \A n \in DOMAIN objects : objects[n].time_point = instant(objects[n].raw)
=============================================================================
