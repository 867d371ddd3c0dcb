# A formal model of libpslog

libpslog is a C logging library. A *logger tree* is a root logger and the
children derived from it with `with()`, `withf()`, `with_level()` and
`with_level_field()`; all of them share one `pslog_shared_state`: the output,
two mutexes, several caches and a reference count. This directory models the
parts of the library in which threads, failures and ownership interact, checks
them with TLC and proves with TLAPS what holds for every size: of the output
path, the logger tree and the memory of `with()`, the kvfmt parser, the three
caches, the sinks, file outputs and their ownership, the environment, and the
objects, calls and options of the Lua binding.

## The system

| part | state | operations | interacts with |
| --- | --- | --- | --- |
| output path (`pslog_buffer_*`, `pslog_write_buffer`, `pslog_write_output_locked`, `pslog_close_shared`) | per call: line buffer, `output_locked`; shared: output mutex, `closed` | append, flush, write, close | called by the emit functions of all threads; calls the sink's callbacks |
| level gate (`pslog_should_log`) | `min_level`, `closed` | decide whether a call emits | every log call |
| logger tree (`pslog_new`, `pslog_clone_with_fields`, `pslog_release_shared`) | `refcount`, `closed`, the handles | new, with*, close, destroy | all handles of a tree, from any thread |
| construction (`pslog_new_from_env`, `pslog_output_init_env_value`, Lua `pslog.new`) | the effective output, who owns it | read the environment, open, tee, replace, fall back | hands outputs to `pslog_new` |
| console prefix cache (`pslog_resolve_console_prefix`) | 256 entries, no lock of its own | look up, fill, append | console log calls (under the output mutex) and `with()` (under none) |
| kvfmt cache (`pslog_resolve_kvfmt_entry`) | 512 layouts, 256 format pointers | look up, parse, fill | `infof()`, `withf()`; resolved under the state mutex, read after it |
| timestamp and double caches (`pslog_append_timestamp`, `pslog_buffer_append_double`) | one stamp, 32 numbers | check, render, store | every emission; the state mutex inside the output mutex |
| sinks (`pslog_tee_write`, `pslog_observed_write`, file and descriptor outputs) | failure counters | write, close | called under the output mutex |
| fields and texts (`pslog_str`, `pslog_trusted_str`, `pslog_copy_field`, the JSON and console escapers) | flags and lengths in each field | measure, copy, render | constructed by the client, copied by `with()`, read by the emit functions |
| lines (`pslog_emit_json.c`, `pslog_emit_console.c`) | literals and prefixes rendered once | emit, in two modes, with and without colours, from fields or a kvfmt | the caches, the escapers, the output path |
| kvfmt parser (`pslog_parse_kvfmt_layout`, `pslog_vlogf_impl`) | a cursor, the saved errno | parse, materialise, report | the kvfmt cache, `log()` |
| derived loggers (`pslog_clone_with_fields`, `pslog_build_field_prefix`, `pslog_buffer_reserve`) | copies of fields, a growing buffer | copy, render, keep, undo | the tree, the emit functions that render the prefix |
| scalars (integers, bytes, durations, times, stamps) | none | pure | the emit functions, the Lua binding |
| environment and palettes (`pslog_new_from_env`, `pslog_palette_by_name`) | the effective configuration | read one variable after the other | construction |
| file and descriptor outputs (`pslog_file_write`, `pslog_fd_write`) | the stream's buffer | open, write, close | the sinks; the C library and the system |
| Lua binding (`pslog_lua.c`, `init.lua`) | logger objects, scratch arrays, callback references, C references | new, log, with, close, gc, ref, unref | the C interface, from one Lua state; runs Lua code inside log calls |

What is hard here: lines that need several writes while other threads log;
closing while a line is half written; sinks that write short or fail; loggers
destroyed in any order while others are being derived; any allocation failing;
caches that are checked in one critical section and filled in another, or with
no lock at all; identities by address; two mutexes; lines put together from
parts rendered at different times by different code; sizes near their limits;
Lua code, garbage collection included, running in the middle of a C function.
`PROJECT.json` lists these hazards at their lines.

## The modules

**PslogLevel** is the level gate as operators.

**PslogOutput** is the core: how threads share the output. One action per step
that touches shared state. `LogCall`/`LogSkipped` are `pslog_log_impl` up to
the emit function (the unlocked read of `closed` is in `ShouldLog`);
`BufferLockOutput` is what console mode does first; `BufferAppend` is appending
up to the point where the line is complete or the buffer full; `FlushLock`,
`FlushClosed`, `FlushOpen`, `FlushReturn` are `pslog_buffer_flush`;
`WriteBuffer`, `WriteBufferReturn` are `pslog_write_buffer`; `OutputWrite` is
one turn of the write loop, in which the sink accepts any part and may report
an error; `EmitReturn` is the end of the emit functions, `Exit` the end of the
process in `fatal` and `panic`; `CloseCall` ... `CloseReturn` are `close`. A
line is abstracted to its length and its bytes to *units*; the buffer of a
thread holds consecutive units, so three counters (`pos`, `len`, `off`)
describe it. `mark`, `faulted` and `finished` are history variables. An output
without a write callback, on which every flush just empties the buffer, is left
out: nothing can be observed of it.

**PslogLineLog** is the abstract specification of the output: an append-only
log to which whole lines are added, each at most once, until it is closed; of a
line the sink refused a part of, the rest, in order. `PslogOutput` implements
it with `log` being what was written up to the last release of the mutex.

**PslogLifecycle** is the life of a tree: handles, the reference count, the
clone in its steps (retain, allocate, copy fields, build prefix), each of which
may fail, close and destroy. A section under a mutex is one step.

**PslogConstruct** follows the streams behind an output through
`pslog_new_from_env`, `pslog_new` and its callers, for every form of
`LOG_OUTPUT` and every failure. `pslog_new` may fail before or after it has made
the shared state; the two ends are told apart, since only the second closes what
is owned. Diagnostics count as reported when they are logged; they are logged at
ERROR, and a minimum level above that filters them.

**PslogConsolePrefix** is the console prefix cache. Entries are written field by
field as in the code, because `with()` uses them without a lock. `Exclusive`
says whether the client keeps `with()` apart from all other calls. It has no
specification of its own: its actions are steps of `PslogConsole`.

**PslogThreads** declares the threads of the two caches that follow.

**PslogKvfmtCache** is the kvfmt layout cache with its pointer cache. The use of
an entry after the unlock is a step of its own.

**PslogRenderCache** is the timestamp and the double cache, with both mutexes:
it also decides in which order they are taken. Time formats with nanoseconds
bypass the cache and are not in it.

**PslogSinks** is what happens below the output mutex: the write loop, the
observed output and the tee.

**PslogText** follows a text of the caller (message, key or string value) into a
line: the constructor measures it (`pslog_str`, `pslog_trusted_str`, `withf()`),
`with()` copies bytes and flags, and the emitter either copies the bytes unread
or escapes them. Texts are sequences of bytes, since what happens to single
bytes is the question. The second half of the module is the reference: UTF-8 as
an encoding of code points, and readers for JSON strings and console values,
written from the formats. The byte table `escape_kind` also escapes `[` and
leaves DEL alone; both are correct JSON, so trusted and escaped renderings of a
text may differ as bytes, and the property compares what a reader gets. Console
keys are rendered as provided, as `pslog.h` says. Keys of kvfmt formats are the
program's literals and not in the model.

**PslogConsole** puts the prefix cache and the output path together: console
calls with several fields, whose buffer is flushed in between. The actions of
the cache are those of `PslogConsolePrefix`; `Flush` and `WriteBuffer` are
`pslog_buffer_flush` and `pslog_write_buffer` with the mutex they keep, take or
release, `Close` is `pslog_close_shared`.

**PslogLine** is what a call writes: the emit functions of both modes with all
their routes (literals that fit or do not, coloured fragments, prefixes of
children, layouts prepared for a kvfmt, the dynamic fallbacks), as functions
from a logger and a call to a sequence of tokens. Strings are one token each,
their escaping being the business of `PslogText`; a palette is the lengths of
its escape sequences, which decide what fits into a literal. A second, short
definition says which JSON members a line has.

**PslogDerive** is the memory of `with()` and of the literals `pslog_new`
renders: each block allocated, in the code's order, with every failure; a buffer
that doubles within a `size_t`, one doubling a step; the text appended piece by
piece.

**PslogKvfmt** is one `logf()` or `withf()` call: the gate, the parser as a
cursor that moves over a NUL-terminated string, errno, which other steps change,
and the diagnostic of a malformed kvfmt. The grammar it is compared with is
stated separately, over the positions at which the words of the string begin and
end, without a cursor.

**PslogFile** is the bottom of the output path: a stdio stream or a descriptor,
the block that holds the descriptor, and the loop above them. The C library and
the system are external and may take a part, fail with or without setting errno,
or be interrupted.

**PslogEnv** reads all environment variables into the configuration, with the
parsers of levels, modes, switches, file modes, palettes and outputs. A value is
a sequence of tokens, so that blanks, case and length matter as in the code.

**PslogScalar** is how integers, bytes, durations, times and the stamps of lines
become digits, with Lua's normalisation before it, in a word and a second that
are scaled down. The reference readers turn digits back into values.

**PslogLuaObject** is the life of the binding's objects: creation, close,
finalizer, references of C code (`pslog_lua_*`), and output callbacks, in which
arbitrary Lua code runs while the tree's mutex is held. One OS thread.

**PslogLuaCall** is the collection of the fields of a call from a table or from
pairs into the scratch array of the logger object, with the Lua stack that keeps
strings alive and the `tostring` metamethods that run on the way. A metamethod
may log through another object, and an error may end any number of nested calls,
up to whichever of them Lua code has made protected.

**PslogLuaConfig** is how a table of options becomes a configuration: `init.lua`,
the options in the order `pslua_parse_config` reads them, each of which may
raise an error, the output, and what Lua's collector may do to it later. `held`
is what the constructors have opened or registered, each under the number of its
constructor; `lost` numbers those that Lua had no memory to finish once the
output was there (`luaL_ref` in `pslua_parse_output`, `lua_newuserdatauv` in
`pslua_push_logger`).

The `MC*` modules and `.cfg` files give the constants values. In the modules,
definitions marked *Mutant* are wrong variants of the definition after them;
putting one in its place violates the property `PROJECT.json` names, which
shows that the property notices that bug. What a module assumes of its constants
is an `ASSUME` in it, which TLC evaluates in the run that extends the module. It
is a definition where a run uses the module with several sets of constants or
only as an instance; the MC module then assumes it for each of them
(`ParserAssumption`, `OutputsAssumption`, `ValuesAssumption`). The `*Proofs`
modules hold the theorems; the parts of the inductive invariants they use are at
the end of the module they are about, so that TLC can check them.

## The runs

Components that share no state in the model are checked together in groups.
The MC module of such a run extends the components that theorems are about and has
instances of the others; a variable `part`, chosen at the start, says whose
behaviour it is, and the others stay in an initial state. Nothing is lost or added by that: the
behaviours are those of the components, one after the other. A property of the
run is a property of a module, or the conjunction of several stated and
explained there. Whatever a theorem is about is extended, so that the run and
the theorem speak of the same definition; where two extended modules would use
one name, the names in the second carry its subject (`FileNext`, `RenderNext`).

| run | components | checks |
| --- | --- | --- |
| `output` | PslogOutput, PslogLineLog | `TypeOK`, `MutexDiscipline`, `Contiguous`, `InOrder`, `Delivered`, `QuietAfterClose`, `ImplementsLineLog` |
| `output_live` | PslogOutput | `CallsReturn` |
| `loggers` | PslogLifecycle, PslogDerive, PslogKvfmt | `CountsReferences`, `NoUseAfterFree`, `NothingLeft`, `OnlyRootCloses`, `DerivedWhole`, `ParserInBounds`, `GrammarAgrees`, `CallAsMade`, `CallsEnd` |
| `console` | PslogConsole, PslogConsolePrefix | `WrittenOwnKey`, `CachesWhole` |
| `outputs` | PslogSinks, PslogConstruct, PslogFile, PslogEnv | `SinksInStep`, `OwnedClosedOnce`, `FileInOrder`, `NoDescriptorLeft`, `EnvAsWritten`, `PaletteFound` |
| `values` | PslogKvfmtCache, PslogRenderCache, PslogScalar, PslogText (twice), PslogLine | `LayoutOfCall`, `EntriesStable`, `OwnValues`, `LockOrder`, `NumbersReadBack`, `TimesReadBack`, `JsonReadsBack`, `ConsoleReadsBack`, `JsonIsObject`, `ColorsAside`, `RoutesAgree` |
| `lua` | PslogLuaObject, PslogLuaCall, PslogLuaConfig | `ObjectsLive`, `FinalizerNeverBlocks`, `CallsKeepFields`, `ConfigAsWritten` |
| `console_race` | PslogConsole, `with()` not kept apart | `WrittenOwnKey`, violated |
| `construct_lua` | PslogConstruct | `ClosedAtMostOnce`, violated |
| `lua_time` | PslogScalar | `LuaTimeReadsBack`, violated |
| `lua_file` | PslogLuaConfig | `FileNotCollected`, violated |
| `lua_options` | PslogLuaConfig | `InvalidRefused`, violated |

The bounds, and why they are enough:

* PslogOutput: 2 threads (a root and a child), 2 calls each, lines of 3 units,
  a buffer of 2: every line needs a flush, every write can be short, and every
  second line meets the leftovers of a first. For `CallsReturn` 3 threads, 1 call
  each, a buffer of 1: three waiters for one mutex.
* PslogLifecycle: 3 threads, the root and 2 children, an owned output.
* PslogDerive: a 4-bit `size_t`, an inline buffer of 3 bytes, texts of up to 14
  bytes: doubling reaches and passes the largest size.
* PslogKvfmt: all strings of up to 4 chunks, a chunk being a character the parser
  tells apart or a piece such as `k=%s`, at most 2 fields; then one string of each
  kind at all levels and minimum levels, with 2 values of errno.
* PslogConsole: 2 threads, 2 calls or derivations of up to 3 fields, a buffer of
  1 field, 3 keys (one too long) at 2 addresses, 1 entry: each line is flushed
  twice, a close fits between, addresses are reused and the window is full.
* PslogKvfmtCache: 2 threads, 5 formats (one malformed) for 3 slots, 2 format
  pointers in one pointer slot. PslogRenderCache: 2 threads, 2 seconds in any
  order, 3 numbers in one entry.
* PslogSinks: 2 buffers of up to 3 bytes in chunks of up to 2. PslogFile: 3
  buffers: bytes held back from one meet the next two.
* PslogConstruct: all inputs. PslogEnv: several seeds; the variables that work
  together (colours; file mode and output) in all combinations, the others one
  or two at a time, recognised, unrecognised, padded and too long.
* PslogScalar: a word of 4096 values, all of them; a second of 1000 ns and units
  of 10, so that every carry occurs; nanoseconds of both signs for times, as Lua
  makes them; 3 time zones, with and without daylight saving time.
* PslogText: all texts of up to 3 bytes over 14 bytes, one of each class the code
  tells apart, on 7 routes, in both modes, with one copy; and all of up to 4
  bytes (the longest sequence) over 21 bytes, the ends of the ranges the UTF-8
  checks compare with.
* PslogLine: 6 palettes (all parts fit, empty parts, and for each kind of literal
  and fragment one part too long), field lists with every type and with keyless
  fields, 2 derivations, all four emit functions, an enabled and a DISABLED
  threshold, calls that are logged anyway (`fatal`) or not.
* PslogLuaObject: 3 objects of 2 trees, 1 C reference, callbacks 2 deep, 1 failed
  allocation. PslogLuaCall: 2 logger objects, up to 3 entries, a first capacity
  of 2, so that the array grows under a nested call. PslogLuaConfig: 185 tables
  (the colour options in all combinations, every other option with each kind of
  value and each output), 2 constructors with one table.

Symmetry is used for threads and addresses in `console` and `values` and for
objects and trees in `lua`; no run with a liveness property uses it.

Deadlock is checked except in the runs of MCPslogLua, where the last state is
the end of Lua and a callback that logs to its own tree waits for ever, as it
does in the program; `FinalizerNeverBlocks` says which waits are allowed there. Elsewhere the next-state relations say where a system may come to
its end; in `loggers` the single calls of PslogDerive and PslogKvfmt may.

*Fairness* is assumed in two runs. In `output_live` a thread inside a call
takes another step if it can keep doing so (weak fairness per thread): a
preemptive scheduler and sinks whose callbacks return give that. Nothing is
assumed of the mutex; a waiter gets it because the others make finitely many
calls. `CallsEnd` in `loggers` is about loops within one call of one thread: weak
fairness of the steps of the call says that a running function runs on.

## What the violated properties show

`console_race`: `pslog_resolve_console_prefix` takes no lock. A console
log call on one thread and `with()` on another can use the same entry at once,
and the line then carries the key of the other field. `pslog.h` says that
logging through shared trees is serialised internally. In JSON mode the cache
is not used; with `with()` kept apart from other calls (`console`) the cache is
correct.

`construct_lua`: when `pslog_new` fails after it has taken the output, or when
`pslog_new_from_env` has already replaced it, an owned output has been closed;
the Lua binding then destroys it again. The NULL it gets does not tell.

`lua_time`: the Lua module normalises a time before the epoch to negative
nanoseconds, and the C side prints their absolute value behind the second.

`lua_file`: a logger over a Lua file handle keeps its `FILE *`, not the
handle. Once nothing else refers to the handle, as after
`pslog.new(io.open(...))`, Lua collects it and closes the stream.

`lua_options`: a palette of an unknown name makes a logger with the default
palette, and an integer that is no level makes one with that minimum level,
although the Lua README says that invalid values fail and nothing is coerced.
`ConfigAsWritten` says of the twelve settings what they become, with these two
as they are.

Further limits of the code show in the models, which state their properties
around them:

* After a close, a flush releases the mutex the console emit function relies on,
  and two calls that began before the close can fill one cache entry at once.
  `EntriesWhole` therefore speaks of open outputs, and `WrittenOwnKey` shows that
  nothing of it is ever written.
* `pslog_json_level_slot` answers with the slot of INFO for DISABLED, so that a
  `fatal` line of a disabled logger has `"loglevel":"info"` in coloured JSON.
  `NamedThresholds` makes this the one exception to `JsonIsObject`,
  `ColorOnlyDecorates` and `RoutesAgree`.
* On the console nothing resets the colour of the timestamp. It is on below the
  level's own colour at the label, and runs on over the message when the fragment
  of the level has no colour and no reset, because the level has none or one too
  long. `NoColorLeak` says that it reaches no further. That the fragment of 64
  bytes drops a colour is in both lines `RoutesAgree` compares: the property is
  about the literals of 128 bytes and the routes, `ColorsAside` about the
  fragment.
* When `pslog_new` fails before it has made the shared state, the file that
  `LOG_OUTPUT` had opened stays open, and what was replaced for it has been
  closed; `AllClosedOnce` says for that end, which streams exactly are closed.
* A Lua constructor that runs out of memory behind its output leaves the output
  open and nobody to close it: `lost` in PslogLuaConfig, `leaked` in
  PslogLuaObject.
* A prefix buffer that cannot grow drops what is appended, and the child is
  returned with a truncated prefix; `KeptUnlessFailed` excepts failed
  allocations.
* A `tostring` metamethod that logs through the object that is collecting fields
  overwrites the array of the outer call; the constant `Reentrant` of
  PslogLuaCall allows it, `lua` does not.
* A callback output keeps the `lua_State` that created it, which may be a
  coroutine nothing keeps alive (`coroutine` in PslogLuaObject).
* With a C library that takes `tm_isdst` at its word, the offset in a stamp is
  the one of winter, and its local time with it: `StampReadsBack` asks for the
  instant and for an offset of the zone, in daylight saving time for either.
* A time field with negative nanoseconds is printed with their absolute value.
  `TimeReadsBack` asks for its offset only; `lua_time` shows the instant wrong.
* An environment value that was cut at the end of its buffer may be valid where
  the whole one is not: a file mode of 28 zeros and 7777, or a long name of a
  palette. The properties of PslogEnv exclude it for levels, modes and switches,
  and read the others as they were cut.
* From Lua, a negative capacity is accepted, as the `size_t` it becomes.

## The proofs

Every theorem holds for all values of the constants that satisfy the named
assumption: any number of threads, handles, formats, keys, buffers, calls and
objects, any size of tables, buffers and chunks, any text.

| module | theorem | states |
| --- | --- | --- |
| PslogOutputProofs | `TypeCorrect` | `[]TypeOK`, which includes `len <= Capacity` |
| | `MutexHeld` | `[]MutexDiscipline` |
| | `Quiet` | `QuietAfterClose`, an action property |
| | `LinesContiguous` | `[]Contiguous` |
| | `LinesInOrder` | `[]InOrder` |
| | `LinesDelivered` | `[]Delivered` |
| | `Refinement` | `ImplementsLineLog`: PslogOutput implements PslogLineLog |
| PslogLifecycleProofs | `TypeCorrect` | `[]TypeOK` |
| | `ReferencesCounted` | `[]CountsReferences` |
| | `SharedOutlivesUses` | `[]NoUseAfterFree` |
| | `NothingLeaks` | `[]NothingLeft` |
| | `RootCloses` | `OnlyRootCloses`, an action property |
| PslogCallsProofs | `DerivationsWhole` | `[]DerivedWhole` |
| | `ParserStaysInBounds` | `[]ParserInBounds` |
| | `CallsAsMade` | `[]CallAsMade` |
| | `ParserMeetsGrammar` | `[]GrammarAgrees` |
| PslogCacheProofs | `CallsReadTheirLayout` | `[]LayoutOfCall` |
| | `LayoutsStay` | `EntriesStable`, an action property |
| | `LinesShowTheirValues` | `[]OwnValues` |
| | `OutputBeforeState` | `[]LockOrder` |
| PslogConsoleProofs | `FieldsBehindTheirKeys` | `[]WrittenOwnKey`, assuming `Exclusive` |
| | `CacheWhole` | `[]CachesWhole`, assuming `Exclusive` |
| PslogOutputsProofs | `SinksStayInStep` | `[]SinksInStep` |
| | `BytesReachTheFile` | `[]FileInOrder` |
| | `DescriptorsClosed` | `[]NoDescriptorLeft` |
| | `OutputsOwned` | `[]OwnedClosedOnce` |
| PslogEnvProofs | `EnvironmentObeyed` | `[]EnvAsWritten` |
| PslogLuaProofs | `LuaObjectsLive` | `[]ObjectsLive` |
| | `FinalizersDoNotWait` | `[]FinalizerNeverBlocks` |
| | `CallsKeepTheirFields` | `[]CallsKeepFields`, assuming `~Reentrant` |
| | `LoggersAsWritten` | `[]ConfigAsWritten` |

None of the invariants is inductive by itself. The arguments, component by
component:

*PslogOutput*, from `OutputAssumption`. The *state invariant* is `TypeOK`,
`BufferInv` (the counters of a buffer agree with where its thread is) and
`LockInv` (who has the mutex, and that nobody is writing once the output is
closed); it gives the first three theorems. The *order invariant* adds
`TailInv`: everything behind `mark`, the length of the output when the mutex was
last released, belongs to the line its owner is emitting, and nothing of a line
that is still being emitted lies before `mark`. From that, a write extends only
the last run of units (`ContiguousWrite`) and comes after everything the thread
wrote before (`InOrderWrite`); the other actions leave the output alone. On top
of it, `WrittenInv` says that of a line nothing is in the output that its call
has not sent (`NothingSent`), that what was sent and not refused is there
(`SentWritten`), and that a call past its last write leaves a whole line or a
closed output (`ReleaseSettled`). `Delivered` follows, and the refinement: `log`
is the output up to `mark`, `open` is `~closed`, `refused` is `faulted`. A
release of the mutex maps to adding what lies behind `mark`, which `TailInv` and
`Contiguous` make one line; a close maps to a close; all else stutters.

*PslogLifecycle*, from `LifecycleAssumption`, which says that there are
finitely many threads and handles: the count is a cardinality. `LifeInv` adds to
`CountsReferences` which handles operations hold (`HandlesInv`), that
construction, the last release and the end of the tree are the business of one
thread (`AloneInv`), that the shared state exists exactly while something needs
it (`SharedInv`), and that an owned output is closed before the memory is freed
(`CloseInv`). The lemmas about cardinalities say how a step that adds or removes
one handle or one operation changes the count.

*PslogDerive*, from `DeriveAssumption`: the largest `size_t` is odd, and the
default capacity leaves room below it. `BufferInv`: the buffer is in bounds,
neither its block nor the capacity under way wraps, and `data` is the text so far
unless an allocation failed or the capacity can no longer be doubled.
`MemoryInv`: which blocks and references a derivation has at each step.
`OutcomeInv`: only a call about to end keeps a text. The modulus appears in one
lemma, `Doubling`: a capacity whose double is a `size_t` is doubled without
wrapping, and is then below the largest `size_t`, so that the NUL has a place.

*PslogKvfmt*, from `KvfmtAssumption`. `KvfmtInv` has the bounds of cursor and
specs (`ParserInv`) and that the saved errno is the one of the call (`CallInv`);
it gives `ParserStaysInBounds` and `CallsAsMade`. `GrammarInv` says what the
parser has found so far: between two fields the entries are the fields of the
words that begin before the cursor (`FieldsInv`); in a key nothing before the
cursor ends the key (`KeyInv`), so that the `=%` it stops at is the first; behind
it the word has the `l` or not that `long` says (`VerbInv`); and at the end all
words are settled or the string is malformed (`EndInv`). The grammar itself is
not recursive, and the induction over the string is the one over the parser's
steps. That a word added before the cursor adds one to the count of words is a
lemma about cardinalities.

*PslogKvfmtCache*, from its `KvfmtAssumption`. `TableInv`: an entry is empty,
ready, or being parsed by the one thread that has taken it, under the mutex
(`MutexInv`, `EntryInv`); a text is nowhere but where its probes look
(`WindowInv`) and nowhere twice (`NoDuplicates`). The pointer cache may lie
about the address but is compared with the text before it is believed.

*PslogRenderCache*, from `RenderAssumption`. `RenderInv`: what is cached is
the text of what it is found by (`CacheInv`), which the critical sections keep
although check and store are two of them; what a thread renders stays on its
stack (`TmpInv`); the state mutex is held exactly inside the sections
(`StateMutexInv`), in which no step waits.

*PslogConsole*, from `PrefixAssumption`, `HomeAssumption`, `ConsoleAssumption` and
`Exclusive`, that is: the client keeps `with()` apart from other calls, without
which `console_race` shows the property violated. While the output is open, a
thread past the lock has the mutex or is alone (`AloneInv`), so that the entry it
fills or appends from is its own (`FillInv`) and lines carry what is due
(`LineInv`). After a close this no longer holds, but then nothing is written any
more: `ConsoleInv` has `closed \/ OpenInv`.

*PslogSinks*, from `SinksAssumption`. `FrontInv`: what a sink has of the buffer is
a prefix of it and the last it got, `Taken` saying how long it is at each step;
`ReportInv`: a short or failed write has been reported before the loop gives up.

*PslogFile*, from `FileAssumption`. `DescriptorInv`: until the end
the stream or descriptor is open, and a stream has no state to free, so that the
steps of the close decide what is left. `BoundInv`: no byte in the file or the
stream's buffer lies behind what was handed over (`Handed`), so that a new chunk
only ever extends an increasing sequence; `ChunkInv`: where the bytes of the
current chunk and of the chunks before it are, unless a call failed.

*PslogConstruct* has no constants. `ConstructInv`: until `LOG_OUTPUT` has been
followed only its file may be open (`EnvInv`); from then on every stream that was
owned or opened is in the output or has been closed once (`OutputInv`), which
each replacement, tee and failure keeps; of the two ends of a `pslog_new` that
fails, the early one leaves it at that, the late one closes the output too. The run checks all inputs; the theorem
adds that this needs no bound on anything.

*PslogEnv*, from `EnvAssumption`, for every environment and every starting
configuration. Two of the statements compare an environment with another that
must come to the same, its *twins*: one without a value that is not recognised,
and one spelt in lower case without blanks. `TwinsInv`: they agree variable by
variable, so that the induction over the variables is the one over the steps
that read them. The lemmas behind it say what a parser sees of a value: trimming
and copying into a buffer of the code change nothing about a value that fits, and
a name that is found is the whole value, not one that was cut.

*PslogLuaObject*, from `LuaObjectAssumption`. `CountInv`: the count of a tree is
the number of live objects, of loggers derived for references of C code, and of
loggers Lua had no memory to make an object for; `HolderInv`: what a reference
anchors and what a running method was called on is live. A finalizer inside a
callback never waits, because the object whose method is running is a second
logger of the tree: the one collected is not the last, and only the last closes
the output.

*PslogLuaCall*, from `LuaCallAssumption` and `~Reentrant`, that is: a `tostring`
metamethod does not log through an object that is collecting fields, without
which `CallsKeepFields` is violated. `NestingInv`: every call in progress has an
object of its own, so that only its own steps touch its array, and all but the
innermost wait for a metamethod. For each call, `ArrayInv`: the pointer it holds
is the object's array, which has room for the entry in hand and holds the fields
so far; `StackInv`: the strings it must keep alive are the `Kept` lowest slots
of its stack, with what the iteration needs above them, which `Inserted` and
`EntryConverted` show of the `lua_insert` calls for each kind of key and value.

*PslogLuaConfig*, from `LuaConfigAssumption`. `TableInv`: the table in work is the
caller's, with the mode and output of the constructor, the caller's own is as
written, and a constructor under way or a logger in use is not lost. `ReadInv`:
no field has a value that is refused, each of the twelve is its default or, once
its option has been read, what that option says (`FieldBefore`, `ColorBefore`),
and what is held is held by the constructor under way. Behind the last option
that is what the caller asked for (`AllRead`).

The inductive invariants were checked with TLC on the instances of the runs
before they were proved. Those of PslogDerive, of the bounds in PslogKvfmt and of
PslogLuaConfig stand before their proofs, the others in the modules they are
about.

Only model-checked:

* `CallsReturn` and `CallsEnd`: liveness under fairness is out of the prover's
  reach.
* What recursive functions over data compute: the readings of numbers, times and
  texts (`NumbersReadBack`, `TimesReadBack`, `JsonReadsBack`, `ConsoleReadsBack`),
  the lines (`JsonIsObject`, `ColorsAside`, `RoutesAgree`) and the comparison of
  palette names (`PaletteFound`, which speaks of the words of a name through
  `SelectSeq`). No step of a system does the induction there, as one does in
  PslogKvfmt and PslogEnv, and the provers cannot instantiate an induction
  principle.

## Not modelled

The public C wrappers (`pslog_info()` and its like), which call through a
function pointer of the logger; benchmarks, fuzzers, examples, packaging. The
benchmark data set `bench_production_dataset.c` alone is 20569 generated lines,
three fifths of all C, C++ and Lua lines that are not tests; of the library and
the binding themselves about two thirds are mapped, the rest being declarations,
documentation comments, test hooks, tables of escape sequences and wrappers.

Abstracted within the modules: the digits of doubles and pointers (`snprintf`),
the client's time formats (`strftime`), the texts of palettes (as lengths).
Inputs outside the models: durations from C whose nanoseconds exceed a second,
NUL bytes within Lua strings, keys of a kvfmt with bytes from 0x80 on, tables
changed by a metamethod while they are collected, paths of 512 bytes and more,
environment prefixes too long for the key buffer, and a configured output that
is itself stdout while `LOG_OUTPUT` names stdout (in PslogConstruct they are two
streams). The code takes what Lua's stack offers without `luaL_checkstack`;
`StackNeed` bounds what a call leaves there, but is not compared with
`LUA_MINSTACK`. A tree whose mutex an error of `lua_pushlstring` has left locked
is in PslogLuaObject, and excepted from `FinalizerNeverBlocks`. An output without
a write callback writes nothing.

## Plan

The order was: the output path and its refinement, the logger tree, the caches,
the sinks, construction, the rendering of fields and lines, the Lua binding; then
the proofs in the same order, those of the calls, the environment and the Lua
binding last. The components of the library and the binding are modelled, the
timestamp and double caches and the palettes in part, the public wrappers not;
every safety property of a passing run is proved except those listed above as
only model-checked.

What changes of the code would let it say more: a scratch array per call in the
binding, after which `~Reentrant` can go from `CallsKeepTheirFields`; a lock in
`pslog_resolve_console_prefix`, after which `Exclusive` can go from PslogConsole
and `console_race` becomes a passing run.
