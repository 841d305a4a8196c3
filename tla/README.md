# Formal models of zero_copy_rosidl

TLA+ models of the XCDR message type support of this repository
(`src/code/rosidl_typesupport_xcdr`) and of the orchestration of its benchmark
(`src/code/constrained_pubsub_benchmark`), checked by TLC on small instances,
with theorems checked by TLAPS for all values of the constants.

Short names used below: `writer.cpp`, `writer.hpp`, `reader.hpp`, `layout*.cpp`,
`layout_builder.cpp`, `layout_parser.cpp` and the accessors are those of
`xcdr_buffers`; *the template* is `msg__type_support.cpp.em`; *the C++ support*
is `message_type_support.cpp` of
`rosidl_typesupport_xcdr_cpp`; `message_type_support.{c,h}` is that of
`rosidl_typesupport_xcdr_c`; *the orchestrator* is `inter_proc_benchmark.py`; *the
driver* is `run_matrix.sh`.
`PROJECT.json` maps every definition to its lines.

- [1. The system](#1-the-system)
- [2. Modules](#2-modules)
- [3. Runs](#3-runs)
- [4. Bounds](#4-bounds)
- [5. Fairness](#5-fairness)
- [6. Proofs](#6-proofs)
- [7. Disagreements between code and documents](#7-disagreements-between-code-and-documents)
- [8. What is not modelled](#8-what-is-not-modelled)
- [9. Plan](#9-plan)

## 1. The system

A message travels on one of two paths. On the **copying path** it is serialized
into storage of the caller and deserialized out of it. On the **zero-copy path**
a middleware lends a block of its memory, a message whose fields are *views* into
the block is constructed there, the application fills it, and the block is
*compacted in place* and sent; the receiver *casts* a view onto the bytes it got.
The zero-copy path exists for types whose strings and sequences are bounded by
*constraints*, which a *constrained handle* carries along with the layout they
lead to.

```
   application ── message pointer ──┐
                                    v
   client (middleware) ──> message_type_support.c   trampolines, validation policy
     owns the blocks               │ callbacks
                                   v
                            C++ support             constrained handles, cached layout
                                   │ callbacks
                                   v
                            generated code (template)
             ┌──────────────┬──────┴───────┬──────────────────┐
             v              v              v                  v
         XCDR writer    XCDR reader   layout builder ->   layout parser
        write and skip                 layouts, apply()   + accessors
             └──────────────┴──────┬───────┴──────────────────┘
                                   v
                          alignment, byte order
```

### Components, their state, and what makes each correct

**XCDR writer** (`writer.cpp`, `writer.hpp`). State: span or growing buffer,
position, error flag, header flag, context stack. Operations: writes of every
kind, a skip for each write (advance, store nothing), begin/end of structs, arrays
and sequences, `reset`, `flush`, in three construction modes (growing, span, span
at an offset). Hard: partial failure inside one call, sums of `size_t`,
`begin` calls that fail while their `end` is still called. Correct when it never
leaves the caller's span, exposes no byte it did not write, keeps contexts
balanced, and stays put after an error; and when skipping leads exactly where
writing does.

**XCDR reader** (`reader.hpp`). State: position, error, context stack, over bytes
of somebody else. Correct when no length prefix moves it out of its buffer, and
when it reads each field where the writer put it.

**Layouts, layout builder, layout parser, accessors**. The builder computes
offsets from bounds, `apply()` stores the length prefixes of the bounds in a
block, the parser rebuilds a layout from prefixes in received bytes, accessors
find fields by layout. Four pieces of code place the same fields: builder, writer,
reader and parser. Correct when they agree. The builder keeps a stack of open
contexts, and where it puts a field depends on what is open; elements that share one
description are placed by arithmetic of their own, once in the layout and once in
each accessor. Correct when no two fields of a finished layout share a byte and
every one lies in the size the layout asks for.

**Generated copying path** (template): `compute_serialized_size`,
`serialize_fields`, `deserialize_fields`. Correct when the size suffices, an intact
message is read back, and a damaged one is refused.

**Generated zero-copy path** (template): `build_layout`, `construct_message_at`,
`cast_message_at`, `compact_message`, `release_message`. Compaction traverses the
message with a writer over the very block the fields are read from: it skips as
long as fields are at their bounds and starts to write at the first that is not.
Hard: every store may destroy a field that is still to be read. Correct when the
receiver finds what the application wrote, by cast or by copy.

**C++ support and C trampolines**: the life cycle of constrained handles,
validation, comparison of constraints, and who owns which message and block.
Correct when a client that goes by return values loses nothing and uses nothing
twice, and when what two ends agreed on is accepted.

**Benchmark step** (orchestrator, `inter_proc_cpp_publisher.cpp`,
`inter_proc_cpp_subscriber.cpp`): three processes
and one reader thread per pipe; marker lines on stderr, rows on stdout, a
go-signal on stdin, timeouts on every wait. Hard: asymmetric discovery, full pipes,
crashes, hangs, death of the orchestrator, races of timeouts with late answers.
Correct when no sample is published before the barrier, no child survives the
step, no row is wrong and nobody waits for ever.

**Matrix driver** (`run_matrix.sh`, `run_pilot.sh`, `run_sweep()` of the
orchestrator): a sweep per case into a temporary file, a rename when it succeeded, a
marker behind the rename, and a skip where there is a marker. State: the files of the
results directory, which outlive the process. Hard: an interruption between any two
of these steps, failures in the middle of a sweep that goes on, and everything a
second run finds of the first. Correct when a file under a result name is a complete
result at any moment, a marked result stays, and running again is enough.

**Without a model**: service type support, the code generator, configuration and
analysis, container and import tools; section 8 says why.

`PROJECT.json` lists the hazards line by line, with the properties that would
catch each going wrong.

## 2. Modules

| Module | Models | State and actions |
|---|---|---|
| `XcdrAlign` | wire constants, alignment arithmetic (`endianness.hpp`, `types.hpp`) | pure |
| `LengthPrefix` | the number a 32-bit length prefix keeps of a `size_t` (`static_cast<uint32_t>`) | pure |
| `XcdrWriterOps` | every public and private step of the writer | a record; a call is a function from the record before to the record after. Positions are natural numbers up to `SizeMax`, sums wrap as `size_t` does. `stored` is the set of offsets written this session: byte values and byte order are abstracted away |
| `XcdrWriter` | a client calling one writer in any order | `w`, `start`, `skipped`, and `open`, the client's own count of open contexts; `Write`, `SkipCall`, `BeginCall`, `EndCall`, `ResetCall` |
| `UnitLoops` | the loops of the wide string calls, unit by unit | an assumption that compares them with the closed form of `XcdrWriterOps`, evaluated by the `codec` run |
| `SkipMirror` | two writers taking the same calls, one writing all, one writing or skipping each, and a reader that follows the first | `full`, `mixed`, `reader`; `strayed` remembers that the reader aligned where the writer had not |
| `XcdrReaderOps` | every call of the reader | a record; length prefixes come from a `wire` function, everything else that is read as a prefix is *noise* |
| `GeneratedCodec` | sizing, serializing and deserializing a message | folds over a sequence of members |
| `MessageCodec` | the copying path end to end, with loss of the last bytes | `phase`, `message`, `size`, `written`, `cut`, `read`; one action per entry point |
| `LayoutOps`, `LayoutParserOps` | layouts, builder, `apply()`, parser | records and functions, as for the writer |
| `ZeroCopyPath` | the zero-copy path end to end | `memory` maps offsets of the block to cells that name the field they belong to, so that an overwritten byte is lost; compaction is one action per leaf (`CompactLeaf`, `RefuseLeaf`) between `CompactMessageInPlace` and `FinishCompaction` |
| `LayoutAccess` | a client of builder, `apply()` and accessors without generated code | `builder`, then `layout`, `buffer` (offsets to what was stored there last) and the paths `assigned`; one action per builder call, `Wrap`, `Assign` |
| `LoanLifecycle` | handles, messages and blocks, and the client that owns the blocks | `handle`, `object`, `block` are the program; `loan`, `available`, `verdict` are what the client believes, updated only from what calls return |
| `BenchmarkStep` | the three processes and the reader threads of one step | one action per step of the orchestrator, of either child and of each collector, and one per failure |
| `StartBarrier` | the abstract start barrier | parties report, a release follows all reports, publications follow the release |
| `BenchmarkMatrix` | the driver, the sweep it runs, its files, interruptions and repetitions | `tmp`, `csv`, `failed`, `done` survive the driver; `driver`, `at`, `failures` are its own; one action per line of `run_one()` that changes a file |
| `ResultLedger` | the abstract promise of a resumable matrix | a case is open until a complete result is accepted, and keeps it until it is withdrawn |

A module `XProofs` holds the theorems of `X` (section 6). `CodecOpsProofs` holds the
lemmas about alignment, folds, the writer, the reader and the generated code that the
others cite.

Composition: `XcdrWriterOps` is shared by `XcdrWriter`, `SkipMirror` and, with
`XcdrReaderOps`, by `GeneratedCodec`. `MessageCodec` and `ZeroCopyPath` both run
the generated code over the same writer and reader definitions, and `ZeroCopyPath`
adds builder and parser, so that what one run establishes of the writer is
established of the definitions the others use; `LayoutAccess` and `ZeroCopyPath`
share the builder. `BenchmarkStep` instantiates `StartBarrier`, `BenchmarkMatrix`
instantiates `ResultLedger`, each with a refinement mapping. A step of a sweep in
`BenchmarkMatrix` is a whole behaviour of `BenchmarkStep`, of which only the outcome
counts: rows, and an error row if it failed.

`LoanLifecycle` is deliberately independent of field placement. Its type has one
string, whose prefix, view and bound are all that the ownership and agreement
properties can tell apart; `ZeroCopyPath` is about types with several members.

Definitions named `...` with a comment beginning `Mutant:` are not part of any
specification. Each is a plausible slip in the definition next to it, kept to show
that the property named for it in `PROJECT.json` notices.

Modelling decisions that matter:

- A member of a message is a record of kind, sizes and bounds; messages are all
  sequences of members from a small set. One level of nesting stands for any.
- An application may assign a view more than the view holds. The text then lives
  elsewhere (the view type copies), and compaction has to refuse it.
- `memcpy` on overlapping ranges, which compaction reaches, is taken as `memmove`;
  its outcome in C++ is undefined.
- A client lends a block to one message at a time, as the API asks; `LoanLifecycle`
  then checks that it can know from return values when the block is free again.
- `LoanLifecycle` has no bound of 0 (section 7 says what 0 does).
- A client of the builder is *misled* when it begins an array, a sequence or a
  struct, or allocates a primitive array or sequence, while another context is open
  (the code places these relative to the outer builder, or makes them members where
  an element was meant), or gives a sequence more than one element description but
  fewer than elements. `LayoutAccess` follows a client up to such a call and promises
  it nothing; section 7 says what happens there.
- The number stored as a prefix is the length modulo `NumberMax + 1`, as in the code,
  which does not look at what it cuts off. Properties that speak of a reader or parser
  rest on lengths that fit; each such module states that as an assumption (section 6).
- A prefix is abstracted to whose length it is. Elements of a sequence of strings
  have none of their own: `apply()` stores none.
- Of a result file `BenchmarkMatrix` keeps the number of steps it covers, how many
  failed, and which sweep wrote it.
- In `BenchmarkStep` time is not modelled. A timer may expire at any moment, so
  what holds does so for any duration; rows of a child that throws may be cut
  short anywhere. A sample is published before its row is emitted; an exception between the
  two is an action (`PublishAndThrow`), a crash or a hang there is not, because it loses
  all rows not yet written anyway.
- A child counts as gone when the orchestrator has sent it SIGKILL, which it does not
  `wait()` for.

## 3. Runs

Passing runs:

| Run | Question | Properties, type invariants aside |
|---|---|---|
| `writer` | May a client call a writer in any order? | `StaysInSpan`, `NoGapBehindCursor`, `ContextsMatchClient`, `ErrorFreezesOutput` |
| `skip_mirror` | May compaction switch from skipping to writing at any field, and does a reader find what was written in whatever form it reads? | `Mirrors`, `StoresNoMore`, `ReaderFollows` |
| `codec` | Does the copying path deliver, and notice what it does not? | `RoundTrip`, `ReaderStaysInBuffer`, `FlatLossIsNoticed`, `FlatSizeSuffices` |
| `zero_copy` | Does compaction in the block that is read from deliver? | `Delivers` (by cast and by copy), `RewriteSparesTheRest`, `CompactsAsSerialized` |
| `layouts` | Does the zero-copy interface without generated code keep fields apart, in whatever order a layout was built? | `NeverRefused`, `KeepsApart` |
| `loans` | Can a client keep the ownership contract, and do agreement and validation mean what they say? | `BooksAgree`, `SentAsAssigned`, `AgreedIsAccepted`, `ValidatedGoesThrough` |
| `benchmark_step` | Does a step keep its barrier and come to an end, whatever fails? | `NoSampleUnreleased`, `NobodyLeftBehind`, `RowsFaithful`, `SuccessIsGenuine`, `ImplementsBarrier`, `StepEnds`, `ChildrenEnd`, `EndsUnaided` |
| `sweep` | Is re-running the driver safe wherever it was interrupted, and enough? | `VisibleResultsComplete`, `ImplementsLedger`, `AnnouncedTruly`, `EveryCaseDone` |

Some of the passing properties carry a precondition that names where the code
does not deliver. `RoundTrip` and `FlatLossIsNoticed` exclude messages with an
empty sequence of 8-byte elements. `ReaderFollows` excludes readers that
went past one in bulk. `FlatSizeSuffices` excludes wide strings and nested members.
`NeverRefused` and `KeepsApart` exclude misled clients. The zero-copy properties are about *plain* types
(`ZeroCopyPath!Plain`): no sequence of elements wider than its prefix, no sequence
of strings, nested messages that begin with their widest field and keep their
bounds. Part of what is outside is the subject of the runs that end in a violation,
the rest is in section 7:

| Run | What it shows |
|---|---|
| `codec_empty_sequence` | The reader aligns behind the prefix of an empty sequence, the writer does not: the rest of an intact message can be unreadable. |
| `codec_nested_loss` | The return code of nested `deserialize_fields` is dropped: a message cut inside its nested member is reported as deserialized. |
| `codec_nested_size` | Nested members are sized as if at offset 0: `get_message_size()` can be too small for `serialize_message_into()`. |
| `zero_copy_string_elements` | A sequence of strings at its bound with shorter strings is released untouched, without prefixes of its strings. |

`PROJECT.json` quotes for each the line of the repository that says otherwise.

## 4. Bounds

- `SizeMax` is far above every position the runs reach, except where wrap-around
  is the question; there the theorems of section 6 hold for every `SizeMax`.
  `writer` has a `SkipCounts` close to `SizeMax`, which makes a *growing* buffer of
  18 bytes or more shrink, because `skip_advance()` adds to `size_t` without a check
  (section 7); what is cut off is lost (`Resize`). A span that wraps is left to the
  theorems.
- `NumberMax` is the largest number of the run's prefixes or a little more, so that the
  assumptions on lengths hold, and not by a wide margin: 4 (`codec`), 6 (`skip_mirror`), 12 (`loans`,
  the size of a block), 60 (`zero_copy`, the noise value). What wraps is outside these runs; section 7 says
  what the code does then.
- `writer`, `skip_mirror`: capacities end inside the header, inside a prefix,
  inside the padding and behind a whole field (`skip_mirror`: inside the header, right behind it, and inside
  the second or third field); start offsets are aligned, unaligned
  and beyond the span; sizes 1, 2 and 8 give every relation of padding to prefix;
  two nested contexts; growing buffers up to 20 bytes. A call depends on position
  modulo 8, room left and the flags only, and all combinations of these occur.
- `codec`: up to three of eleven members. Three is enough for a field whose
  alignment is disturbed by the field before it and disturbs the one after it.
  Every length of cut, two kinds of noise (0, for a missing terminator, and 3).
- `zero_copy`: up to three of twelve members, at, below and above their bounds, so
  that the switch to writing occurs before, inside and behind every kind of field;
  the noise value 60 is larger than any block.
- `layouts`: five calls to the builder, which is a nested struct or a sequence or
  array of strings with a field before or behind it; primitives of 8 bytes, so that
  everything behind a string is misaligned; counts 0 and 2; two assignments, as the
  properties relate two paths.
- `loans`: one handle that is destroyed and created with bound 1 or 3, two
  messages, two blocks, texts of 1, 2 and 3 characters, blocks of 12 bytes. Two of
  each suffice for every property, as each relates one sender to one receiver or two
  messages to one block; handles with different constraints exist one after the
  other, while the blocks and messages of the earlier one live on. 12 bytes are
  just what the wide bound asks for; a view cast from the tight bound lies in 10, so
  that a compaction through the wide handle is refused for size as well.
  Symmetry on messages and blocks is sound: no liveness is checked there.
- `benchmark_step`: two samples, pipes for one row. Two samples make order, loss
  and duplication visible; a pipe of one row makes every child wait.
- `sweep`: two cases, sweeps of two steps, two kinds of measurements to tell a result
  from its repetition, and three mishaps, which is enough for a failed repetition of a
  case whose marker was deleted after an interrupted one.

Deadlock is not checked where a behaviour has a natural end (`codec`, `zero_copy`:
the message has been received, or its serialization has failed). `benchmark_step` has
an explicit `Done` step, so deadlock there means a process that waits for ever.

## 5. Fairness

`BenchmarkStep` and `BenchmarkMatrix` have liveness. In the first, weak fairness is assumed of each process and of
each reader thread (the operating system runs what can run), and of discovery once
both ends have their endpoints and live, which is what DDS discovery provides. Nothing
is assumed of timers, exceptions, crashes or hangs. `StepEnds` needs timers and
says so (`WF_vars(Timeout) => ...`); `EndsUnaided` is about behaviours in which
nothing fails and no timeout fires, and shows that the protocol does not rely on
its timeouts.

In `BenchmarkMatrix` a driver that runs comes to its end (`WF_vars(Proceed)`: every
sweep ends, as the timers of its steps see to), and somebody runs it again, for real
every now and then (`SF_vars(StartDriver(FALSE))`, strong because a listing with
`DRY_RUN` or an interruption may come in between). Nothing is assumed of mishaps but
that there are finitely many. `EveryCaseDone` is then that resuming needs no help:
whatever state an interruption leaves, a further run ends with every case done.

## 6. Proofs

All theorems hold for every value of the constants under the named assumptions.
TLC checked each invariant, the strengthened ones included, before it was proved.

**Writer** (`XcdrWriterProofs`; assumptions `SizeMaxAssumption`,
`WriterAssumption`, `MemoryAssumption`). `WriterTypeCorrect` and
`WriterStaysInSpan`: no store and no cursor leaves the caller's span, for every
span, offset, nesting and sequence of calls, with sums modulo `SizeMax + 1`. The
inductive invariant `WriterInv` adds to the two where the span came from, so that
`MemoryAssumption` speaks of it. Each operation gets a lemma that it takes a valid
writer to a valid one of the same span (`ValidAfter`), which composes along the private
steps just as the code does; these lemmas are in `CodecOpsProofs`, shared with the
skip mirror. `MemoryAssumption` is that the data of a write is in memory along
with its target; skips have no data, and no assumption is made of their counts: a
wrapped sum moves the cursor back, not out. The arithmetic rests on
the lemmas on alignment there (padding is less than the alignment).
`WriterLeavesNoGap`, `WriterContextsMatch` and `WriterErrorIsFinal` are about a whole
session. They share the invariant `SessionInv`: the writer is valid, its contexts are those
the client has open as long as there is no error, and what was stored covers everything
below the cursor unless a sum wrapped. An error is final because each private step
begins by looking at it.

**Skip mirror** (`SkipMirrorProofs`; assumptions `SizeMaxAssumption`, `NumberAssumption`,
`MirrorAssumption`, `MirrorMemoryAssumption`, `MirrorNumberAssumption`). `SkipsMirrorWrites` and
`SkipsStoreNoMore`, for every span, start offset, sequence of calls and choice of what
is skipped. The invariant is that the two writers are `Twins`: both valid, over the
same span, at the same position with the same flags, the second having stored no
more. Contexts are equal only while there is no error, because a failed
write of a sequence still pops and a failed skip does not. The `Outcome` of a step says what it makes of a writer over a span: whether it fails, where it ends, what
it stores. Each private step has one as a write and one as a skip, which differ in the
bytes only, and `OutcomesKeepTwins` does the rest; what is left to the public calls is
the header, the wrap of sums (`MirrorMemoryAssumption` rules it out, and with it the
guard of `skip_array()`), and the contexts around bulk writes.
`ReaderAlwaysFollows` is about the third actor, a reader of what was written, field by
field or in bulk. `FollowInv` says that it stands where the writer's data goes on
(`DataPlace`: behind the header, even when no header is there yet), in as many contexts,
and has no error. A read that takes elements one by one is a chain of steps, followed by
induction over the elements already taken (`SetInduction` in `CodecOpsProofs`).
Only this theorem needs `MirrorNumberAssumption`, that every length and count fits its
prefix: where the writer stores what is left of a larger one, the reader does not follow.

**Benchmark** (`BenchmarkStepProofs`; assumption `StepAssumption`).
`NoSampleEverUnreleased` and `StepImplementsBarrier`. `BarrierInv` says what the
orchestrator must have seen at each of its waits and that a child that publishes has
got the go-signal. Without the first, `ReleasePublisher` would not be known to
follow both reports; the marker read by a collector never disappears, which is what
makes reports of `StartBarrier` permanent. The refinement proof takes the steps one
by one: reading a match marker is `Report`, `ReleasePublisher` is `Release`, a
publication is `Publish`, everything else stutters.
`NobodyEverLeftBehind` and `SuccessAlwaysGenuine` are about how a step ends, and rest on
a second invariant, `EndInv`: which children can still exist at each wait, so that
whoever gives up kills all of them, and that before the return a child that was killed
has an exit code of 1, so that a kill can never pass for a success.
`RowsAlwaysFaithful` follows each row from the child's variables through its buffer and the
pipe to the reader thread. `RowsInv` adds to `EndInv` that what a child has emitted, which is
the rows taken from it, then those in its pipe, then those it still buffers, is what it
sent or received, in order and once (`ChildRows`), and that what the
step returned was collected in this way (`Returned`). A publisher that throws may have sent
one sample more than it has rows for. `StepTypeCorrect` is what the rest
needs of types.

**Loans** (`LoanLifecycleProofs`; assumptions `LoanAssumption`, `NumberAssumption`,
`BlockAssumption`). `LoanTypeCorrect`
(with the bounds: a view lies in its block) and `BooksAlwaysAgree`, for any number
of handles, messages and blocks. The invariant `LoanInv` joins the two with
`PrefixesStored`: what was sent, and whatever a view lies in, has a prefix that
counts its terminator. None of the three is inductive alone: a cast takes the view
from the prefix of a block, the prefix is trustworthy only if no other message
still writes there, and that is what the books say. `LendingKeepsBooks`,
`EndingKeepsBooks` and `BooksIgnoreContent` are the three ways an operation can treat
the books; each operation's lemma cites one of them.
`SentAlwaysAsAssigned`, `AgreedAlwaysAccepted` and `ValidatedAlwaysGoesThrough` are about
what the blocks contain. They need `ContentInv` on top of `LoanInv`: a verdict is about the
text the message still has (`VerdictsHold`); as long as the text is in its view the
block has the prefix of the view, and a block whose text has outgrown its view no longer counts as sent
(`ViewsHold`); what was sent under a handle that covers the view has the prefix of its text,
fits, and is as claimed (`SentHolds`). The second part is what keeps a refused compaction,
which has rewritten the prefix of a block, from spoiling the third.
`BlockAssumption` says that no block is larger than a prefix can count. Constraints are not
limited by it, but a bound beyond it finds no block to be constructed in, and a text beyond it is in none.

**Matrix** (`BenchmarkMatrixProofs`; assumptions `MatrixAssumption`,
`AbsentAssumption`). `VisibleResultsAlwaysComplete`, `DriverAnnouncesTruly` and
`MatrixImplementsLedger`, for any number of cases, steps and mishaps. None is
inductive: that a result is complete rests on the exit status, that on the sweep's
count of failures, and that on its agreement with the error rows in the temporary file
of the current case (`CaseInv`). `MarkersMean` says that a marker has a result behind
it, which an interruption between rename and marker does not disturb, and `Walked`
that the cases the loops have passed are done, failed or were only listed.
`MatrixInv` joins them. In the refinement `StoreMarker` is the acceptance of a result,
`DeleteMarker` its withdrawal, and `MoveIntoPlace` stutters, because it only ever
touches a case that has no marker.

**Copying path** (`MessageCodecProofs`; assumptions `SizeMaxAssumption`,
`NumberAssumption`, `CodecAssumption`, `CodecMemoryAssumption`, `CodecNumberAssumption`). `CopiesStayInBuffer`, for every message type,
every count and length found on the wire, right or wrong, and every cut;
`FlatSizeAlwaysSuffices`, for every message without nested members and wide strings;
`CopiesRoundTrip`, for every message without an empty sequence of wide elements, nested
members included; and `FlatLossAlwaysNoticed`, for those of them without nested members.
Messages and their strings and elements are folds. The library's induction theorems
take operators, which the provers cannot instantiate, so a fold is turned into a *trace*, a
function `g` with `g[0]` the start and `g[k]` the step applied to `g[k-1]`; if a step
does not leave a set, every `g[k]` lies in it, by induction over a set of indices
(`SetInduction`). The set says what there is to say of one step: for the first theorem
`Arrived(N)`, readers of a buffer of `N` bytes; for the second, writers that have
`Room`: the writer is never further behind the header than the size calculated so far,
and has no error. Alignment is monotonic, so a field keeps the first
relation (`CopyInv` and `FlatInv` carry the results through the phases).

The other two follow the writer's trace and the reader's together. The writer is
append-only (`Written`): the prefixes in front of its data's end stay as they are,
so what one field stored is what the reader finds when all are written (`Holds`). The
reader of `N` bytes is `Along` at field `k` if it is `InStep` (same place, same contexts,
same fields so far) or refused, and refused only if the writer's place lies behind `N`;
each kind of field keeps that. Whole messages have no place behind `N`; and one that lost bytes
ends behind `N`, where an in-step reader cannot be. Nested members drop
the error of a field inside, so they stay along only where all of the message arrived:
`FlatLossIsNoticed` excludes them, as `LossIsNoticed` shows it must. `RoundInv` says that
what was written and read are these two folds, and that a message has members; a nested
type has at least one, because rosidl adds one to an empty type.
`CodecAssumption` says what members there are (`MemberType`), and `CodecMemoryAssumption`
that storage is less than half of what `size_t` counts, so that no sum wraps; TLC evaluates
both for the members of the run. `CodecNumberAssumption` is that the number of every string and sequence fits its prefix;
the two theorems about what is read need it, those about buffer and size do not.
What does not depend on the state is in `CodecOpsProofs`:
the zero-copy proofs use it for messages of their own.

**Zero-copy path** (`ZeroCopyPathProofs`; assumptions `SizeMaxAssumption`,
`NumberAssumption`, `PathAssumption`, `MemoryAssumption`, `LengthAssumption`). `PathTypeCorrect` for every set of constrained
members, and for plain types `RewriteSparesAhead`, `CompactionIsSerialization` and
`ZeroCopyDelivers`; messages may have any number of members, of any sizes, counts and bounds.

- *Geometry.* The fields of a message, nested ones included, lie in a row. `Ends` folds
  alignments and widths into the offset behind each: with the widths a layout reserves
  (`Widths`) it gives the ends in the loan, with those actually used (`Useds`) the ends
  on the wire. That the builder, whose offsets are relative to structs and to their
  alignment, arrives at the first is `MessagePlaced`, and that the accessor looks there is
  `PlacesOfLayout`; both need a nested message to begin with its widest field
  (section 7). Alignment is monotonic, so as long as no field exceeds its
  bound a field never ends, nor begins, later on the wire than in the loan
  (`SlotsCompared`).
- *Types.* `PathInv` is inductive for all members. It adds to `TypeOK` that the block is that of
  the layout, where the writer's span lies, and what phases say of the rest. A skipped
  or written field keeps the writer in the span or gives it the error flag, nothing else.
- *The traversal.* Neither `RewriteSparesTheRest` nor that the right
  bytes are sent is inductive: a store is harmless only if it lies in room that its own or
  an earlier field has, and that is so only if the cursor is where the wire puts it.
  `TraversalInv` says all of it together. Fields ahead are intact at their places of the loan (`Ahead`);
  fields behind have their prefix and bytes at their places of the wire (`Behind`); the
  writer stands at the end of the last of them, with no error; and as
  long as nothing was written, no field so far was undersized (`Full`), so that
  the two places are one and the prefixes `apply()` stored are right. `LeafMoves` is the step that
  rewrites, `LeafStays` the one that skips.
- *Serialization.* That the region is what `serialize_message_into()` would have made follows
  the trace of its fold (`WroteUpTo`), which meets the same ends.
- *Receivers.* `CellsInv` types the bytes of the block, so that what a receiver takes for prefixes
  are numbers, and `ReceivedInv` says what receivers found: every field at its place of the wire. For a
  receiver that copies, the reader is followed along the writer that would have
  serialized the message, as on the copying path. For one that casts, there is no
  writer: `MessageParsed` shows that the parser, whatever the
  bytes that are no prefixes hold, rebuilds exactly the layout that
  the builder makes of the same message with each bound replaced by the actual size
  (`Exacted`), whose ends in the loan are the ends on the wire (`ExactedLayout`). So
  what was proved of the builder applies to the view of the receiver.

`PathAssumption` says what constrained members there are (`ConstrainedMember`: a type of
rosidl has at least one field, an array one element). `MemoryAssumption` is that a block and
the bytes that one field has elsewhere exist in memory at the same time,
so that together they are far below what `size_t` counts: without it a sum could
wrap. `LengthAssumption` is that the actual length of every string and sequence fits its prefix; `ZeroCopyDelivers`
needs it. TLC evaluates them for the members of the run. `CellsInv`, `ReceivedInv` and
what `TraversalInv` says were invariants TLC found to hold on the run's instance before they were proved.

Model-checked only:

- The liveness of `BenchmarkStep` (`StepEnds`, `ChildrenEnd`, `EndsUnaided`) and of
  `BenchmarkMatrix` (`EveryCaseDone`), and whatever needs ENABLED: out of the prover's reach.
- `NeverRefused` and `KeepsApart` of `LayoutAccess`. Its client calls the builder in any order,
  contexts left open or closed out of turn included, so an invariant would have to describe every
  layout that can come of it, not only those of the generated code; these are covered by
  `ZeroCopyPathProofs` (`MessagePlaced` and `PlacesOfLayout`) as far as the zero-copy path uses them.
- `UnitLoopsAgree`: recursive operators are out of the prover's reach.
- What happens to types that are not plain, beyond `PathTypeCorrect`: some of them are
  not delivered (sections 3 and 7).

## 7. Disagreements between code and documents

Besides those the violating runs show, modelling met the following. None breaks a
checked property; the models do what the code does.

Writer and layouts

- A length that does not fit 32 bits is cut without an error (`writer.cpp:145`, 189 and 269,
  `layout.cpp:286`, 293 and 300), and no document limits lengths to that. A string of 2^32 - 1 characters gets the prefix 0, which
  reader and parser refuse.
- `bytes_written()` of a growing writer stays 0; `writer.hpp:98` says it is the
  buffer size.
- The first skip stores the encapsulation header; `writer.hpp:209` says that skips
  write nothing.
- `skip_advance()` may wrap and move the cursor back without an error
  (`writer.hpp:77` has any overflow end in an error state).
- Wide strings are sized at one byte per character (the template, 773).
- A nested struct is laid out at its largest alignment, while the writer aligns its
  first field (`layout_builder.hpp:36`).
- Arrays and sequences inside an open struct take their offset from the outer builder
  (`layout_builder.hpp:198`), so their bytes can be those of other fields or lie
  behind the buffer; a struct inside an array or sequence becomes a member of the
  outer struct, not the element `layout_builder.hpp:205` speaks of.
- An array of strings is replicated from its first element by size and alignment
  relative to where the array began, aligned or not (`layout_builder.cpp:169`).
- `apply()` stores the length of a wide string in characters, the writer in bytes.
- `slice()` of a nested struct subtracts a header its size does not include
  (`accessor.cpp:511`): the slice ends 4 bytes early, and one of a struct below 4
  bytes throws.
- The README of `xcdr_buffers` assigns `"robot"` to a string of 20 characters;
  assignment throws unless the length is exactly that of the layout
  (`accessor.cpp:424`).

Zero-copy path

- The view of a sequence of 8-byte elements begins right behind its prefix, aligned or
  not (the template, 704), while the rewrite pads to 8 first: the padding destroys the
  first element, and a cast looks for it 4 bytes early.
- Behind an undersized field a nested message is serialized without a look at its
  bounds (the template, 1673), although compaction "returns error if any field
  violates its constraint bound" (1376): an oversized field of it is sent, or written
  over fields not read yet.

- A string or sequence that the IDL type itself bounds is taken to be at its maximum
  (the template, 1401 and 1530: "always at max") and is not compared with its bound. Whether such a
  view can be shorter is decided in `rosidl_runtime_cpp`, outside this repository.

Loans

- A message whose compaction is refused for a bound has been moved in part, though
  the caller keeps it (the template, 1752); one whose rewrite overflows keeps the
  prefix it stored.
- The compacted size includes the header (`message_type_support.h:288`: payload).
- `get_message_size()` of a loaned message is the size of its block (the template,
  1281), not "the actual serialized size" (`message_type_support.h:84`). Validation
  that is not strict then compares a layout with itself and lets through what
  compaction refuses (`message_type_support.h:259`).
- `compare_constraints()` takes a candidate limit of 0, which means none, as within
  any baseline (`message_type_support.c`, 403); the limits on string length and
  total size are compared but never enforced.
- Compaction goes by the layout of the handle it is given (345 of the C++ support).
  With a tighter one a text of exactly its bound is released as it is, with the prefix
  of the larger view. `SentAsAssigned` holds for handles no tighter than the view.
- A bound of 0 is called unlimited (`test_constrained_typesupport.cpp:359`), while
  the layout reserves nothing for it and compaction refuses any text.

Benchmark

- A driver run with `DRY_RUN=1` ends with "all invocations have .done markers"
  (`run_matrix.sh:204`) whatever there is; `AnnouncedTruly` is about runs that measure.
- Rows can be incomplete after a success: the reader threads are not joined before
  rows are taken (`inter_proc_benchmark.py:297`; its docstring at 241 allows
  that of failures only).
- The driver ignores the status of `mv` (`run_matrix.sh:164`) and stores the marker after a
  move that failed, although a file "is moved into place only on success" and the marker
  says that it was (14 to 16).
- `PUB_READY` is printed after 10 s with or without a match, so the go-signal does
  not mean that both ends discovered each other (docstring at 244).

## 8. What is not modelled

- Byte values, byte order and endianness conversion: no property depends on them.
- Sequences and arrays of nested messages and wide strings on the zero-copy path,
  arrays of non-primitives in the parser. Iterators of the accessors count indices for
  `item()`, which is modelled; what an accessor answers to a wrong name, index or type
  is an error without effect.
- Foreign bytes on the cast path: the regions cast are those that
  compaction or serialization produced, and noise where no prefix was stored.
- Two checks that only foreign bytes can fail: the terminator of a string that is read
  (`reader.hpp:370`), and the encapsulation header of a buffer that is wrapped.
- Strings and sequences bounded by the IDL type on the zero-copy path: the models have those that
  constraints bound (section 7).
- Null arguments, foreign type-support identifiers and missing callbacks: each is
  an early return without effect.
- Concurrency inside the type support: the code has no locks and no shared mutable
  state but handles and blocks, and a client calls for one of these at a time.
- A driver that is killed alone, whose sweep then still writes to `name.csv.tmp`
  (`run_matrix.sh:161`) while another driver may run, and `mv` or `touch` that fail.
  `BenchmarkMatrix` takes driver and sweep to stop together, and markers to be
  deleted while no driver runs.
- Service type support (two message handles side by side), the code generator
  (build time; its output is modelled), configuration, analysis and plots, container
  and import scripts: no state to protect, or pure input and output.

## 9. Plan

Written in this order, each step resting on those before it; all but 10 exist.

1. `XcdrAlign`, `XcdrWriterOps`, `XcdrWriter` and `SkipMirror`: everything else
   places fields with the writer. *Done.*
2. `XcdrReaderOps`, `GeneratedCodec`, `MessageCodec`: the copying path. *Done.*
3. `LayoutOps`, `LayoutParserOps`, `ZeroCopyPath`: compaction, the heart of the
   repository. *Done for primitives, their arrays and sequences, strings, sequences
   of strings, nested messages.*
4. `LoanLifecycle`: ownership and agreement. *Done.*
5. `BenchmarkStep` over `StartBarrier`. *Done.*
6. Theorems: writer, skip mirror, the step, loans. *Done.*
7. `LayoutAccess`: the builder's context stack under any order of calls, with
   `apply()` and the accessors. *Done.*
8. `BenchmarkMatrix` over `ResultLedger`, with its proofs. *Done.*
9. The reader in lockstep with the writers of `SkipMirror`, every form of reading.
   *Done.*
10. Arrays and sequences of nested messages and wide strings in `ZeroCopyPath`;
    arrays of non-primitives in the parser; an abstract delivery specification (what
    the application assigned is what a receiver finds or nothing is sent) implemented
    by `ZeroCopyPath` for plain types.
11. Proofs about sessions of the writer, the reader in lockstep, the rows of the benchmark,
    and the copying path by traces of its folds. *Done.*
12. Proofs: `RoundTrip` and `FlatLossIsNoticed` by traces of writer and reader together.
    *Done.*
13. Proofs: the zero-copy path from the layout to both receivers. *Done.*

New questions replace or widen existing runs before they add any: arrays and wide
strings join the members of `zero_copy`, and runs of one violation each that share a
cause may be merged.
