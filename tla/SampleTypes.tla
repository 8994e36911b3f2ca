---------------------------- MODULE SampleTypes -----------------------------
(***************************************************************************)
(* How one sample gets from the file to the caller: core:datatype is       *)
(* parsed, get_samples picks the C++ type of a sample from it, the bytes   *)
(* are read as that type, swapped if the file's byte order is not that of  *)
(* the machine, and converted to the type the caller asked for.            *)
(*                                                                         *)
(* A datatype's name is a record of its three parts.  A number is the      *)
(* function from the significance of a byte (0 is least) to the byte; a    *)
(* sample is a sequence of numbers: one, or I and Q.                       *)
(***************************************************************************)
EXTENDS Integers, Sequences, SequencesExt

CONSTANTS
    Names,    \* the strings that core:datatype may hold
    Machines  \* the byte orders of the machines it runs on

Primitives == {"f32", "f64", "i16", "i32", "u16", "u32"}
ByteTypes  == {"i8", "u8"}

ASSUME SampleTypesAssumption ==
    /\ Names \subseteq [prefix : STRING, type : STRING, suffix : STRING]
    /\ Machines \subseteq {"LITTLE", "BIG"}

VARIABLES
    name,      \* core:datatype
    machine,   \* system_endianness
    wanted,    \* the shape of OutputT, "real" or "complex"
    pc,        \* "parse", "load", "convert", "returned" or "threw"
    datatype,  \* what the constructor of Datatype made of the name
    disk,      \* the bytes of the sample in the file
    sample     \* the sample as it was loaded, then as it was converted

sampleVars == <<name, machine, wanted, pc, datatype, disk, sample>>
-----------------------------------------------------------------------------
(* The pattern of core:datatype in the schema, which has no end anchor:    *)
(* ^(c|r)(f32|f64|i32|i16|u32|u16|i8|u8)(_le|_be)?                         *)
matches_schema(n) == n.prefix \in {"c", "r"} /\ n.type \in Primitives \cup ByteTypes

primitive_byte_count(type) ==
    CASE type \in ByteTypes            -> 1
      [] type \in {"i16", "u16"}        -> 2
      [] type \in {"f32", "i32", "u32"} -> 4
      [] type = "f64"                   -> 8

(* Fault: anything but r means complex. *)
refused_name_AnyPrefix(n) ==
    IF n.type \in ByteTypes
    THEN n.suffix # ""
    ELSE n.suffix \notin {"_le", "_be"} \/ n.type \notin Primitives

(* A byte type has no suffix, any other has to have one. *)
refused_name(n) ==
    \/ n.prefix \notin {"r", "c"}
    \/ IF n.type \in ByteTypes
       THEN n.suffix # ""
       ELSE n.suffix \notin {"_le", "_be"} \/ n.type \notin Primitives

parsed(n) ==
    [ sample_format        |-> IF n.prefix = "c" THEN "COMPLEX" ELSE "REAL",
      sampletype           |-> n.type,
      endianness           |-> IF n.suffix = "_be" THEN "BIG" ELSE "LITTLE",
      primitive_byte_count |-> primitive_byte_count(n.type) ]

primitives_per_sample(d) == IF d.sample_format = "COMPLEX" THEN 2 ELSE 1

bytes_per_sample(d) == d.primitive_byte_count * primitives_per_sample(d)

(* Fault: int16_t is taken for both 16 and 32 bits. *)
loaded_as_Narrow(d) ==
    [ size    |-> CASE d.sampletype = "f64" -> 8 [] d.sampletype = "f32" -> 4
                    [] d.sampletype \in {"i32", "u32", "i16", "u16"} -> 2
                    [] d.sampletype \in ByteTypes -> 1,
      numbers |-> IF d.sample_format = "COMPLEX" THEN 2 ELSE 1 ]

(* The type T that the switch of get_samples instantiates load_samples     *)
(* with: std::complex<float>, float, std::complex<double>, ...             *)
loaded_as(d) ==
    [ size    |-> CASE d.sampletype = "f64" -> 8
                    [] d.sampletype \in {"f32", "i32", "u32"} -> 4
                    [] d.sampletype \in {"i16", "u16"} -> 2
                    [] d.sampletype \in ByteTypes -> 1,
      numbers |-> IF d.sample_format = "COMPLEX" THEN 2 ELSE 1 ]
-----------------------------------------------------------------------------
(* The place of the byte of significance s in a number of w bytes. *)
Place(order, s, w) == IF order = "LITTLE" THEN s + 1 ELSE w - s

(* value_at: the bytes at the pointer, one sequence for each number of T.  *)
value_at(bytes, t) == [k \in 1..t.numbers |-> SubSeq(bytes, (k - 1) * t.size + 1, k * t.size)]

(* Fault: the bytes of the whole sample are reversed, I and Q change places. *)
byte_swap_Whole(value) == Reverse([k \in DOMAIN value |-> Reverse(value[k])])

(* The bytes of each number are reversed, I and Q stay where they are.     *)
byte_swap(value) == [k \in DOMAIN value |-> Reverse(value[k])]

(* What the machine takes such bytes for. *)
as_numbers(value, t) ==
    [k \in DOMAIN value |-> [s \in 0..(t.size - 1) |-> value[k][Place(machine, s, t.size)]]]

Zero == "zero"
-----------------------------------------------------------------------------
(* A file that holds whatever a program on another machine wrote: byte s   *)
(* of number k is <<k, s>>.                                                *)
Written(d) ==
    [k \in 1..primitives_per_sample(d) |-> [s \in 0..(d.primitive_byte_count - 1) |-> <<k, s>>]]

FileBytes(d) ==
    FlattenSeq([k \in 1..primitives_per_sample(d) |->
        [p \in 1..d.primitive_byte_count |->
            <<k, CHOOSE s \in 0..(d.primitive_byte_count - 1) :
                     Place(d.endianness, s, d.primitive_byte_count) = p>>]])

SampleInit ==
    /\ name \in Names
    /\ machine \in Machines
    /\ wanted \in {"real", "complex"}
    /\ pc = "parse"
    /\ datatype = "none" /\ disk = <<>> /\ sample = <<>>

Parse ==
    /\ pc = "parse"
    /\ IF refused_name(name)
       THEN pc' = "threw" /\ UNCHANGED <<datatype, disk>>
       ELSE /\ pc' = "load"
            /\ datatype' = parsed(name)
            /\ disk' = FileBytes(parsed(name))
    /\ UNCHANGED <<name, machine, wanted, sample>>

(* check_bounds_or_throw, the read and the swap of load_samples. *)
Load ==
    LET t == loaded_as(datatype)
        value == value_at(disk, t)
    IN  /\ pc = "load"
        /\ IF t.size * t.numbers > Len(disk)
           THEN pc' = "threw" /\ UNCHANGED sample
           ELSE /\ pc' = "convert"
                /\ sample' = as_numbers(IF datatype.endianness # machine THEN byte_swap(value) ELSE value, t)
        /\ UNCHANGED <<name, machine, wanted, datatype, disk>>

(* A real sample becomes I with Q = 0; a complex one has no real value.    *)
Convert ==
    /\ pc = "convert"
    /\ IF Len(sample) = 2 /\ wanted = "real"
       THEN pc' = "threw" /\ UNCHANGED sample
       ELSE /\ pc' = "returned"
            /\ sample' = IF Len(sample) = 1 /\ wanted = "complex" THEN Append(sample, Zero) ELSE sample
    /\ UNCHANGED <<name, machine, wanted, datatype, disk>>

SampleNext == Parse \/ Load \/ Convert

SampleSpec == SampleInit /\ [][SampleNext]_sampleVars
-----------------------------------------------------------------------------
(* Three tables depend on the sample type: the parser's byte counts, the   *)
(* types that get_samples reads and what is on disk.  Whatever datatype    *)
(* the parser accepts, on a machine of either byte order, the numbers that *)
(* come out are those that were written, in place and byte for byte.       *)
DecodesWhatWasWritten ==
    /\ pc = "convert" => sample = Written(datatype)
    /\ pc = "returned" =>
         /\ Len(sample) = IF wanted = "complex" THEN 2 ELSE 1
         /\ SubSeq(sample, 1, primitives_per_sample(datatype)) = Written(datatype)

(* The bounds check of load_samples uses the size of T, its steps and      *)
(* size() use bytes_per_sample(): they are the same number, so the one     *)
(* never lets through what the other counts as beyond the end.             *)
SizesAgree ==
    pc \in {"load", "convert", "returned"} =>
        /\ loaded_as(datatype).size * loaded_as(datatype).numbers = bytes_per_sample(datatype)
        /\ bytes_per_sample(datatype) = Len(disk)

(* Whatever a checked setter or load accepts as core:datatype, the schema  *)
(* accepts when the document is saved.                                     *)
ParserWithinSchema == pc \notin {"parse", "threw"} => matches_schema(name)
=============================================================================
