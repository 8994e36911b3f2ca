# sigmf_io in TLA+

TLA+ models, TLC model checks and TLAPS proofs for `sigmf_io`, a C++ library that reads and writes
recordings in the SigMF format: a `.sigmf-meta` JSON document with a `global` object, a list of
`captures` and a list of `annotations`, and a `.sigmf-data` file of interleaved samples. All paths below
are relative to the repository; `metadata.cpp` and the like stand in `src/sigmf_io/`, headers in
`include/sigmf_io/`.

## The system

The library is single-threaded and has no locks, callbacks or messages. What is hard about it is mostly
not concurrency but long sequences of legal calls, calls that throw half way, three validation levels that
defer, skip or duplicate checks, two different notions of "valid", and index arithmetic over files whose
samples are interrupted by headers. The one place where processes meet is the disk: two programs may save
to one path, and any program may be killed while it saves.

| component | state | operations | talks to |
|---|---|---|---|
| **Metadata** (`metadata.*`) | public `global`, `captures_`, `annotations_`, `validation_context_`, `meta_path_` | construct from parts, JSON or file; `add_*`, `remove_*`, `update_*`; `set_validation_context`; `save`; queries by sample range; `data_path`, `is_ncd` | owns Global, Captures, Annotations; calls SpecValidator; reads and writes files |
| **Global, Capture, Annotation** (`global.*`, `capture.*`, `annotation.*`, `*_traits.h`) | one JSON object, a validation context of its own | typed getters and setters, some checked under STRICT | derive from JSONBase; built from JSON by jsoncons traits under the *default* context |
| **JSONBase** (`json_base.*`) | `data_`, `validation_context_` | defaults merged with overrides; `set`, `merge`, `merge_patch`, `operator[]` (none validates) | jsoncons |
| **SpecValidator** (`spec_validator_*`, `v1_2_6/`) | the compiled JSON schema | per-field checks; `check_global/capture/annotation` (per field), `check_metadata` (schema) | Datatype, Datetime, UUID, SHA512, Version parsers |
| **ValidationContext** | level STRICT, LAZY or NONE and a shared validator | default is (v1.2.6, STRICT) | copied into every object |
| **Dataset** (`dataset.*`) | a memory map; copies of datatype, channels, offset, trailing bytes | `get_samples`, `load_samples`, `size`, `read_header_bytes` | is passed the captures at every call |
| **Recording** (`recording.*`) | a Metadata and a Dataset, both public | samples by range, capture or annotation; capture sizes | composes Metadata and Dataset |
| **Datatype, Datetime, UUID, SHA512, Version** | the parsed string | parse, format | used by validators and Dataset |
| **Geolocation** (`geolocation.*`) | latitude, longitude, altitude, a public `extra` object | checked setters, `to_json`, `from_json` | nobody yet: every use of it in Global, Capture and the validator is commented out |

What makes each correct:

- *Metadata*: the lists are sorted after every call, thrown or not; a throwing call under STRICT changes
  nothing; what `save` writes is valid at the level in force and, if it loads, loads back to the same lists
  and a Global that reads the same.
- *Global, Capture, Annotation, JSONBase*: defaults and overrides combine as a merge patch; the context
  used is the one last set, on that object.
- *SpecValidator*: the per-field checks accept no value the schema refuses and the reverse - this fails,
  and the failure shows as files that save but do not load.
- *Dataset*: a request that the guards accept returns precisely the samples asked for, from files with
  headers, trailing bytes, several channels and an incomplete last frame.
- *Recording*: captures partition the samples; an annotation's samples are those of its range.
- *Datatype, Datetime, UUID, SHA512, Geolocation*: what was parsed reads, orders, converts and is written as
  the text said.

The hard behaviours are listed, each at its line, in `PROJECT.json` under `hazards`.

## Modules

| module | what | with |
|---|---|---|
| `Metadata` | the Metadata object with its Global and lists, and the `.sigmf-meta` files | |
| `MetadataSave` | the steps of `save()` in several programs, with lost writes and kills | maps its steps to `Metadata`'s `Save` (`INSTANCE`) |
| `DatasetLayout` | the arithmetic of `Dataset`: sizes, guards, whose headers precede a sample | |
| `DatasetRead` | one `get_samples` call as a loop over captures and samples | extends `DatasetLayout`, implements `ReadSamples` |
| `ReadSamples` | abstract: the same call as one atomic read | extends `DatasetLayout` |
| `SampleAddress` | the same guards and the address in `int64_t`, and the queries by sample range | |
| `Recording` | a recording: the steps of `Metadata`, an open `Dataset`, and the queries that combine them | extends `Metadata`, `DatasetLayout` |
| `JsonDocument` | JSON values, and what jsoncons does to them | |
| `JsonObject` | JSONBase and Global: one document, edited and read | extends `JsonDocument` |
| `FieldChecks` | the numeric bounds of the checks beside those of the schema | |
| `SampleTypes` | Datatype, and the bytes of one sample from the file to the caller | |
| `Datetime`, `HexValues`, `Geolocation` | the value classes of these names (`HexValues`: UUID and SHA512) | |

`MC*` modules and `.cfg` files are their instances for TLC; `MCValues` has the last six rows in one.
`MetadataProofs`, `MetadataSaveProofs`, `DatasetLayoutProofs`, `DatasetReadProofs`, `SampleAddressProofs`,
`RecordingProofs`, `JsonObjectProofs` and `ValuesProofs` (for the last three rows) hold the proofs.

### Metadata

| state | code |
|---|---|
| `global`, `glevel` | `Metadata::global` and the level of its own context |
| `lists[k]` | `captures_` and `annotations_`, `k` in `Kinds` |
| `level` | `validation_context_.level` |
| `path` | `meta_path_` |
| `files` | the disk: nothing, a torn file, or a document with the level it was saved at |
| `last` | an observation: the last call and whether it returned; no action reads it |

One action is one public call with everything it does before it returns or throws: `ConstructFrom`,
`Load`, `AddItem`, `RemoveItem`, `UpdateItem`, `SetValidationContext`, `SetChecked`, `SetUnchecked`,
`ReplaceGlobal`, `Save`. The twin functions for captures and annotations are one action with the list as
parameter. An exception before any change is `Rejected`; `UpdateItem` is the one call that may throw after
a change.

Data is reduced to what the checks tell apart. An entry is a start (or none), a tag that makes equal
entries distinguishable, and one of four qualities, the combinations of two independent verdicts: "passes
the per-field checks" and "passes the schema". Both combinations of disagreement are real: the schema's
patterns admit strings that the Datatype, Version and UUID parsers refuse, and fields without a per-field
check (label, author, ...) are only seen by the schema. Global has three such keys. `checked` is required and
has a setter that validates under STRICT (`core:datatype`); `unchecked` has one that does not (`core:version`, which
`check_global` requires and checks all the same, `core:author`, ...); `defaulted` is optional with a default
(`core:num_channels`, `core:offset`, `core:extensions`). The raw accessors reach all of them. A key may be absent, in
foreign files or after an override by null. Without a required key both checks fail; without a defaulted one both
pass, because the getter returns the default (`ValueOrDefault`) and the schema does not ask for it. A load fills in
either (`GlobalWithDefaults`), so a Global may have keys after a reload that the file had not. `"default"` is the value
that `default_data` puts and `value_or` returns.

`std::stable_sort` and `std::lower_bound` are modelled by their contracts, as the set of results they
may return; that this set has one element when the list is sorted is not assumed. jsoncons is external:
the schema's verdict is an input.

### DatasetRead

`ds` is the dataset and the captures passed to the call; `sums` in it are prefix sums of the captures'
header bytes, which the code accumulates in a loop (`size`) and the model states as a constraint on the
input. `pc` is the place in `load_samples`: the first loop over captures (`headers`), the loop at a
capture boundary (`cross`), the bounds check and read (`read`), or the end of the call. `byte_ptr`,
`capture_idx`, `i` and `out` are the code's variables, `out` holding the offsets read. `Call` is the guards
of `get_samples` with `Dataset::size` inlined, as operators of `DatasetLayout`. `SkipHeader` is the body both capture loops
share.

Pointers are unbounded integers here (the code's products are `int64_t`; see `SampleAddress`), and captures
have a sample start and non-negative header bytes, as `check_capture` demands.

`ReadSamples` says what the call promises without its loops: it is refused unless all samples asked for are
`Present` in the file, and otherwise answered in one step with the `Location` of each. It is not translated from
code; it is the specification that the code is shown to implement. Its `state` is "running" while the loops run,
`wanted` is the range of the request and `got` the offsets read, once the call has returned (`Atomic ==
INSTANCE ReadSamples WITH ...` in `DatasetRead`).

### SampleAddress

The same call once more, operation by operation in integers of bounded width (`INT64_MAX` is a constant): the sum of
header bytes in `size()`, the guards, the products of `load_samples` and its sum of headers. The metadata may hold
whatever checked setters, load and the schema admit, which is any number up to `INT64_MAX`. An operation whose result
does not fit is undefined in C++, so it yields any value (`Outcomes`), and `overflowed` records it. `FindAnnotation`
and `FindCapture` are the sums in Metadata's queries by range.

### MetadataSave

Each of `Savers` is a program with one Metadata object, in or between calls of `save(file_path, overwrite)`. `pc` is
the place in the function: `exists` (`metadata.cpp:316`), `check` (`:324`), `open` (`:327`), `write` (`:331`). Opening
truncates; the document then reaches the file block by block, each stream at a position of its own (`WrittenAt`), as
two programs' streams on one file do. `LoseRest` is a write that fails: the stream goes bad, nobody asks it, `save()`
returns. `Kill` ends a program anywhere in `save()`, `Restart` starts it anew with another object. `before` and
`alone` are history: what was there at the opening, and whether anybody else had the file open since.

### Recording

`data` is the open `Dataset` (its parameters and the size of its file), or `NoFile` before there is one. A
step is a step of `Metadata` that leaves `data` alone - `Recording::meta` is public, and every edit is legal
while the file is open - or one of the two constructors, which may throw for want of a file name, a file or
valid parameters. An entry's tag now carries what the queries read: a capture's header bytes and an
annotation's sample count, if it has one.

The queries change nothing and are operators on the current state, with the names of the functions:
`get_captures_in_range`, `find_capture_containing`, `get_annotations_in_range`, `get_capture_size`. A read is
the request it hands to `Dataset::get_samples` (`capture_request`, `annotation_request`), which the guards
refuse (`refused`) or which reads `samples`. `header_ptr` and `sample_ptr` are the addresses that
`read_header_bytes` and `load_samples` compute; the latter is what `DatasetRead` shows its loop to walk
through (`PointerAtSample`).

That the Dataset's parameters are those Global held at the opening is left out: any of the instance's data files
may be opened.

### JsonDocument and JsonObject

A JSON value is a function from the paths that exist in it to a scalar or `Object`; arrays count as scalars.
`JsonDocument` has what the code takes from jsoncons, modelled from its use as external code: a JSON pointer resolved
with creation of what is missing, `merge`, `apply_merge_patch`. `JsonObject` has `data_` and `level` of a JSONBase and one action per operation: construction
(defaults patched with the overrides, then the checks), `set`, `merge`, `merge_patch`, `operator[]`, the typed
setters, the context. A key stands for all keys whose setter and getter have its shape: `check_global` may look at it
or not (`CheckedKeys`), its getter may throw or fall back when it is missing (`RequiredKeys`, `Fallbacks`), and its
setter may validate or not (`UncheckedKeys`). The last is independent of the first: `core:version` is checked and
required, and `set_version` stores whatever it is given (`global.cpp:253`). `vetted` is history: the checked keys that
have been through a check, of a STRICT construction or setter, since they were last edited without one. What
`operator[]` inserts for a missing key is left open between an object and a null: no getter converts either.

### The value classes

`FieldChecks`: every bound is written in C++ (`spec_validator.cpp`) and in `sigmf-schema.json`; a setter under STRICT
takes or refuses a number, and both outcomes are compared with the schema. A key stands for all keys with its check.

`SampleTypes`: `core:datatype` parsed, the C++ type picked by the switch in `get_samples`, the bytes loaded, swapped and
converted. A number is the function from the significance of a byte to the byte, so that a byte in the wrong place
shows. The machine's byte order is a variable.

`Datetime`: a text is a record of its numbers and the digits of its fraction; the calendar of `std::chrono` is modelled by
its definition, a time point is a day, a second and a fraction, and an overflow of the nanoseconds leaves any time
point. `HexValues`: UUIDs and hashes are constructed from texts in either case, compared as text or as bytes.
`Geolocation`: one point and one document that setters, `to_json` and `from_json` turn into each other.

## Runs

| run | instance | what it shows |
|---|---|---|
| `metadata_lists` | one list, 7 entries (ties, no start, negative start, each kind of invalid), up to 4 in the list | `TypeOK`, `ListsOrdered`, `StrictCallsAreAtomic`, `StrictKeepsLoadable` |
| `metadata_files` | one path, a foreign document that is unsorted and lacks required and optional keys, 3 entries, a Global with every key and one that only the schema accepts and that lacks an optional key | `SavedFilesConform`, `ReloadRestores` |
| `metadata_save` | two programs, documents of 1 and 3 blocks, one path; or one program, a third object that is refused, two paths | `TypeOK`, `SoleWriterPrefix`, `SoloSavesAtomically` |
| `dataset_read` | 123 files: 5 capture lists, 1 or 2 channels, 1 or 2 bytes a sample, complete and incomplete last frames, trailing bytes, torn samples, one malformed, some with an offset; channels, positions and counts in and around their bounds | `TypeOK`, `PointerAtSample`, `ReturnsRequestedSamples`, `NoThrowAfterGuards`, `ReadsAtomically`, `CallEnds` |
| `sample_address` | integers of 4 bits: 216 files, every start, counts at the bounds, annotations and samples up to the limit | `TypeOK`, `AcceptedNeverOverflows`, `AcceptedInRange` |
| `recording` | up to 3 captures and 1 annotation from 5 entries (a tie, headers of 0, 1 and 2 bytes, a start beyond the shorter files), an unsorted foreign document, 4 data files of 1 and 2 channels | `CapturesPartition`, `HeadersBetweenSamples`, `AnnotationReadsRest` |
| `values` | `JsonObject`: 6 keys (required, with a setter that validates and with one that does not; with a default and a fallback; an object with members), nulls, 7 arguments at 2 pointers | `TypeOK`, `VettedKeysPass`, `ReloadReadsTheSame` |
| | `FieldChecks`: numbers at and beside every bound, NaN | `AcceptedMeetsSchema`, `RefusedFailsSchema` |
| | `SampleTypes`: every prefix, type and suffix, known or not; both byte orders; real and complex callers | `DecodesWhatWasWritten`, `SizesAgree`, `ParserWithinSchema` |
| | `Datetime`: pairs of texts at the ends of minutes, days, months and years, out of range too; leap seconds; fractions of 0 to 3 digits where 2 are kept | `FieldsReadBack`, `OrderIsChronological` |
| | `HexValues`: pairs of texts of one byte, digits at the ends of each range and beside one | `HashesCompareAsDigests`, `UUIDsCompareAsText` |
| | `Geolocation`: coordinates at and beyond the bounds, colliding extra members, 10 documents | `PointsComeBack`, `DocumentsComeBack` |
| `metadata_update_loses` | both lists | violates `UpdateReplaces`: an update that throws has erased the entry |
| `metadata_not_reloadable` | both lists | violates `SavedFilesReload`: STRICT saves what STRICT cannot load |
| `metadata_save_lost` | as `metadata_save` | violates `ReturnedSaveIsWritten`: `save()` returns with half a document on disk |
| `dataset_read_offset` | one file with `core:offset` = 2 | violates `ReadsActualLocation` |
| `recording_channels` | as `recording`, up to 2 captures | violates `AnnotationReadsRestOnAnyChannel` |

The six parts of `values` share no state. Each behaviour is of one of them (`class`, chosen at the start); the others
stay in an initial state, so that the run has the sum of their states and not the product.

**Bounds.** `MaxLen` bounds only the lists that `AddItem` may extend: with four entries an insertion can go
before, between and after entries with equal and with different starts, and every removal and update
position that matters exists. Starts 0, 1, 2 suffice for less, equal and greater. `metadata_lists` has no
path that `save` accepts and `metadata_files` few entries, so that each question meets the state it needs;
the proofs cover their combination. In `dataset_read` the capture lists hold a boundary inside the data,
two captures at one start, one without header, and one that starts after the data; five samples on two
channels leave an incomplete frame. In `recording` three captures give one before, at and behind the capture
a query is about; every entry has a start and valid fields, because the questions are about positions and
`Metadata`'s own runs ask about the rest. `CONSTRAINT Small` stops behaviours at a level other than STRICT, at a
second annotation and after a save: neither the queries nor the lists' order depend on the level when all
entries are valid, each annotation is read by itself, and a reload gives back the lists that were saved
(`ReloadRestores`).

In `metadata_save` (`solo` chosen at the start) a document of 3 blocks over or under one of 1 leaves a tail to be
wrongly kept, and a writer can be stopped before, between and after blocks; two programs are enough for one to
truncate or overwrite what the other has written. With one program alone all three outcomes of the final check occur.
In `sample_address` a sum of two numbers, or a product of three, can leave 4 bits by little and by much; no file in the
run needs more, and the proof holds for any width. `MaxDatetimes` and `MaxValues` are 2 because the properties compare two
objects; two digits of a fraction are kept so that some are cut off. One byte of a UUID or hash has every kind of digit
at both places of the pair; longer values repeat it. `Trillion` is 10: only what lies at the bound, beside it and
beyond it matters.

**VIEW.** The two passing Metadata runs and those of Recording identify states that differ only in `last`. No action reads
`last`, so such states have the same successors; the invariants checked under the view speak of `last`
at most in that `last.ok` is a Boolean, and TLC evaluates action properties on every transition, not only on
those to new states.

**Fairness.** `CallEnds` and the liveness part of `ReadsAtomically` hold under weak fairness of the loop's step:
code that runs keeps running. Nothing else has fairness: `save()` is straight-line code that ends or is killed, and
there is no liveness to state about it. `CHECK_DEADLOCK FALSE` in `dataset_read`, `sample_address` and `values`
because those models are of one call (in `values`, of the decoding of one sample), and stop when it is over. Metadata's calls are the caller's choice: no fairness is
justified and none is stated.

**Mutants.** For each property of a passing run the modules hold a definition with a plausible fault
(`..._Dropped`, `..._EraseFirst`, ...); replacing the definition by it makes TLC report that property
violated. The faults are comments to the properties: what they would catch.

## Findings

Each is the violation that a run expects.

1. `update_capture` and `update_annotation` lose the element if the comparator throws (`metadata.cpp:164`,
   `:181`; header comment `metadata.h:61`). Needs an element without `core:sample_start`, so LAZY or NONE.
2. A STRICT Metadata can save a file that it cannot load (`metadata.cpp:324`;
   `test_metadata.cpp:119`), because save checks the schema and load the fields as well.
3. `save()` returns though the document was not written (`metadata.cpp:331`; `test_metadata.cpp:119`): nobody asks for
   the state of the stream, and the old document is gone.
4. With `core:offset` set, a capture's start is compared with a sample index from which the offset was not
   taken (`dataset.h:175`, `:190`; `docs/SigMFDataset.md:17`): headers of later captures are skipped.
5. An annotation without a count cannot be read on a channel that the incomplete last frame leaves one sample
   shorter (`recording.h:79`; comment `recording.h:71`): the size of its capture is that on channel 1.

The modules also state what other comments say and the code does not do. No run expects these; given to TLC as
the property of the run in brackets, each is refuted.

| definition | what happens instead |
|---|---|
| `EditKeepsPlace` (`metadata_lists`) | an entry copied out and passed back to `update_*` moves before others with its start (`metadata.h:62`, `:105`) |
| `NoneEnforcesNothing` (`metadata_update_loses`) | a load at NONE throws on an entry that STRICT refuses: entries are built under the default context (`capture_traits.h:24`, `TODO.md:125`) |
| `OverwritesOnlyWhenTold` (`metadata_save`) | a file that appears between the test for existence and the opening is truncated (`metadata.cpp:315`, `:327`) |
| `LastCaptureEndsWithFile` (`recording` with `OffsetFiles`) | with an offset the last capture's size is too small by it (`recording.cpp:43`, `:49`) |
| `OverlappingAnnotationsFound` (`recording`) | an annotation without a count is in no range of samples, though it is read to the end of its capture (`metadata.cpp:196`, `:204`) |
| `MalformedRefused` (`sample_address` with `LargeHeaders`) | the header bytes overflow their sum and metadata that claims more than the file has is accepted (`dataset.cpp:143`, `:152`) |
| `GuardsNeverOverflow` (`sample_address`) | the message of the guard computes the sum that the guard avoids (`dataset.h:297`, `:300`) |
| `OverlapsFound` (`sample_address`) | the end of an annotation overflows (`metadata.cpp:204`) |
| `LastCaptureEndless` (`sample_address`) | sample `INT64_MAX` is in no capture (`metadata.cpp:189`, `:222`) |
| `EagerSettersThrow` (`values`) | `set_version` stores under STRICT what the check of a load refuses (`global.cpp:253`, `spec_validator.cpp:177`, `TODO.md:123`) |
| `MissingTakesValue` (`values`) | `merge_patch` of a scalar where nothing is throws, and leaves an empty object there (`json_base.cpp:58`, `:60`) |
| `RatesArePositive` (`values`) | NaN is taken as a sample rate (`spec_validator.cpp:37`) |
| `OrderIsByInstant` (`values`) | 23:59:60.05 sorts before 23:59:59.5 (`datetime.h:40`, `:44`) |
| `TimePointCorresponds` (`values`) | years that the parser accepts lie outside of what 64 bits of nanoseconds hold (`datetime.cpp:64`) |

## Proofs

Proved for every value of the constants, from the modules' assumptions only (`MetadataAssumption`: types
of the constants; `DatasetAssumption`: every dataset has the shape `Dataset`'s constructor and
`check_capture` enforce, and captures are sorted).

`MetadataProofs`. The inductive invariant `IInv` is `TypeOK /\ ListsOrdered`, and `TypeOK` is needed in it:
that sorting and inserting keep order is a fact about sequences of items. The argument for the lists:
`SortOrdered` (a stable permutation is sorted when starts are comparable), `InsertSortedOrdered` (an item
inserted at a lower bound keeps the order), `RemoveAtOrdered`; one lemma per action; an update that
throws leaves the list without the entry, which is still sorted. `SavedFilesAlwaysConform` follows since
`OnlySaveWrites` and `save` copies sorted lists that it checked. `StrictCallsRollBack` rests on
`CheckedEntryInserts`: an update erases before it compares, but under STRICT its check has made sure by then that
the new entry has a start, and by `ListsOrdered` what is left of a list with two or more entries has starts too,
so the comparator cannot throw. `add` may still throw (a list may hold one entry without a start that LAZY
let in), but it compares before it inserts and has nothing to undo. `ReloadAlwaysRestores` needs that a stable sort of
a sorted list is the identity (`SortIdentity`): its permutation goes up strictly, so there is no first place that gets
an earlier entry and no last one that gets a later one. About Global it needs `DefaultsUnseen`: a document that meets
the schema lacks none but defaulted keys, and those read as what the load puts there. `StrictAlwaysKeepsLoadable` follows `AllLoad`, what a later
load asks of each entry, through insertion, removal, sorting and the defaults.

`DatasetLayoutProofs` has the arithmetic that `DatasetReadProofs` and `RecordingProofs` share: `SampleCounted` (the
sample at index n < channel size is among the total, in the incomplete frame too), `SamplesFit` (the counted
samples, all headers and the trailing bytes fit in the file), `SampleBeforeFrame` and `SampleAfterFrame` (the samples
of all channels of a frame lie between its start and that of the next). `DatasetShape` is its only assumption.

`DatasetReadProofs`. `PointerAtSample` is not inductive: between two reads the pointer is ahead of the
headers it has to skip. `IInv` follows it through both loops: the pointer is the address that the headers
skipped *so far* give, those all lie before the sample, the guards' result still holds. `AddressSteps` says how
the address moves by a header and by a frame; `HeadersAfter` uses sortedness: where one capture starts
later, all that follow do. `NeverThrowsAfterGuards` adds the arithmetic of `size()`, by `SampleCounted` and
`SamplesFit`.

Its second half is the refinement. `Spec => Atomic!Spec`: the loops implement the atomic read, for every dataset, offset and
request. `GuardsAdmit` shows that the guards, which count samples, refuse what `ReadSamples` refuses, which asks
where frames lie; `LocationIsAddress` that the pointer at a read is the closed-form location; `OutInv`, added to
`IInv`, that what was read so far are the first locations. Call and Return map to the two abstract steps, every other
step to a stutter. `AlwaysReturnsRequestedSamples` follows with `FileAssumption`, which says what the data files are:
without an offset, sample *n* of channel *c* lies at its location. TLC evaluates that assumption on files that a
writer lays out byte by byte. `EveryStepOfReadCounts` is `CallEnds` up to fairness: `StepsLeft`, the headers not yet
skipped and twice the samples not yet read, falls with every step, because `capture_idx` and `i` stay in their bounds.

`SampleAddressProofs`. `IInv` says that while the metadata is sane (headers and trailing bytes are in the file, the
offset in bytes fits an `int64_t`) every variable holds the value of true arithmetic (`ComputesTruly`). That `size()`
computes truly makes the guards sound, what the guards accept lies in the file, and `AddressFits` concludes that
neither the products nor the sums of an accepted request leave the range, whatever the width.

`MetadataSaveProofs`. A saver that counts as alone is the only one with its file open (`NobodyElse`): whoever opens it
later takes that away. With it, blocks that others write go elsewhere, and the next block extends the prefix
(`NextBlock`); truncation starts it. `ApartSavesAtomically` is the refinement of Metadata's `Save`, for a program whose
path nobody else is saving to (`Apart`), whatever the others do at other paths: `TestsHold` says that what the call
tested is still so when it opens the file, `OtherSteps` that nobody else can change that, and `MetaFileOf` that a
beginning of a document that is not the whole of it is none. Without `Apart` it is false, as `OverwritesOnlyWhenTold`
shows. `SoloAlwaysSavesAtomically` is the property that the run checks, where the others are idle (`OthersStayIdle`);
`AloneSavesAtomically` is the case of a single program.

`RecordingProofs`. `CapturesPartition` for any number of captures and any edits. The sums of headers are defined
recursively and the prover has no induction, so facts about them come from the well-foundedness of `<` on the
naturals: a smallest counterexample would have one before it (`LeastNatural`, `SumsExist`, `SumsGrow`). `OneCapture`
uses that the list is sorted (from `MetadataProofs`): the last capture that starts at or before a sample is the only
one whose range has it. `DatasetShaped` makes the captures that a recording hands to `Dataset`, after any edits, a
dataset to which the lemmas of `DatasetLayoutProofs` apply. `HeadersBetweenSamples` compares a sum up to an index with
one up to a sample: `HeadersCounted` says that the captures that start at a sample or before are the first so many,
and the products are compared frame by frame. `AnnotationReadsRest` follows from `OneCapture`, which finds the
annotation's capture, and `RequestRead`, which says what a request within the channel reads.

`JsonObjectProofs`. `TypeOK` holds a document of any depth together: each operation of `JsonDocument` makes a document
of documents (`CreatedDocument`, `GraftDocument`, `MergedDocument`, `PatchedDocument`), from lemmas about prefixes of
paths. `VettedKeysPass` is about what edits leave alone. The check of a key looks at the key's own member
(`SameCheck`), and an edit at a pointer, with the members it creates on the way and whatever a merge or a patch makes
of the rest, touches only the member that the pointer starts with (`CreatedElsewhere`, `GraftElsewhere`,
`EditElsewhere`), also when the call throws after the creation. Such a member leaves `vetted`, the others still pass
(`StillVetted`). `ReloadAlwaysReadsTheSame` looks at each key by itself (`PatchedKey`): what a patch leaves at a
key depends on the default and the document at that key alone, so a second load finds there what the first one
left, or the default that the first one put (`SecondLoad`). It needs that `default_data` and `value_or` agree on a key
that has both and is not required (see the assumptions below).

`ValuesProofs` has a part for each module of single values; they share no state, and each has an invariant of its own.

- *FieldChecks*. The two tables of bounds admit the same integers (`BoundsAgree`), NaN aside, which passes both checks of
  a double; a field holds what its setter took.
- *SampleTypes*. The invariant ties each stage to the one before: the datatype to the name, the file to the datatype, the
  numbers to what was written. A file is one block of bytes or two (`FileBlocks`), so that each byte is found where it
  was put, or at the mirrored place on a machine of the other order (`ByteInBlock`, `ByteInSwapped`, `LoadDecodes`).
- *Datetime*. `YearOrder` and `MonthOrder` show that the days of a later year or month begin after those of an earlier one
  end, leap years included, so that `sys_days` orders dates (`DateOrder`); `ClockOrder` and `FractionOrder` do the same
  for the clock and the decimals. `TextPrecedes` takes the order of texts apart into the same three, and `ObjectOrder`
  joins them: the only pairs left over are a leap second and a time in its minute with another fraction, which is
  what `SameMinute` excludes. `DecimalsReadBack` divides the fraction by a power of ten to get each digit.
  The recursive functions (the days before a month, the fraction, the powers of ten) exist because recurrences have a
  solution (`RecurrenceExists`), again from the least counterexample.
- *HexValues*. Lowered digits are in the order of their nibbles (`NibbleOrder`), pairs in the order of their bytes
  (`ByteOrder`), so the first difference of two texts is in the pair where the first difference of their bytes is
  (`SameOrder`). Any length of the values.
- *Geolocation*. The point is in range and the document has numbers where it has coordinates; what `to_json` writes is what
  `from_json` accepts (`WrittenIsAccepted`), member by member.

**Assumptions** are those of the modules and `FileAssumption` above; TLC evaluates each of them in a passing run. Most say
only of which type a constant is. Those that say more, and why the code justifies them:

- `DatasetAssumption`, `FileAssumption`: above.
- `ObjectAssumption`: where a key that is not required has a default and a fallback, they are equal: `core:num_channels`
  and `core:offset` are 1 and 0 in `Global::default_data` (`global.cpp:29`) and in `value_or` (`:177`, `:192`). Of the
  other defaults, `core:version`, `core:datatype` and `core:sample_start` are of required keys, and `core:extensions`
  has no getter. Were the two tables to differ, `ReloadReadsTheSame` would fail for a document with a null there.
- `DatetimeAssumption`: a text has a year of four digits and other numbers of two, as the pattern of the parser
  demands; at least one decimal is kept (nine in the code).
- `GeolocationAssumption`: `extra` is an object or one value that is none; a document's coordinates, if it has them, are a
  list or a value that is none. What else is wrong with either is free.

Every invariant and every action property of a passing run is proved. Model-checked only: liveness (`CallEnds`, the
fairness of `ReadsAtomically`), of which `EveryStepOfReadCounts` has the measure but not that the steps are made,
because the prover does not reason about `ENABLED`; and the violations.

## Not modelled

- `Version` (a pattern and three conversions of digits, without order or state) and the factory that maps its one
  known string to a class.
- The text of error messages, and that a check collects several before it throws.
- `core:datatype`'s pattern in the schema has no anchor at its end, so it admits names the parser refuses
  (`ParserWithinSchema` is the other direction); the patterns of the other texts, which are jsoncons' to match.
- That a Dataset's parameters are copies of what Global held when the recording was opened, and `meta_path_` after a
  save to another path, which leaves it as it was: no document says what either should be after an edit.
- Rounding when a sample is cast to the caller's type, and unaligned reads of a sample, which are well defined on the
  machines the project is built for.
- JSON arrays inside a document, which none of the merges looks into, and jsoncons' parser and schema validator.
- `is_ncd`, which changes nothing and nothing calls; the build, and the embedding of the schema.
