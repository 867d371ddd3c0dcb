---------------------------- MODULE MCPslogValues ----------------------------
(***************************************************************************)
(* Values and their caches for TLC: the kvfmt layouts (PslogKvfmtCache),   *)
(* stamps and numbers (PslogRenderCache) that threads share, what numbers, *)
(* times and durations become (PslogScalar), texts (PslogText), and whole  *)
(* lines (PslogLine). A behaviour is one of one component, part; the       *)
(* others stay as they began.                                              *)
(***************************************************************************)
EXTENDS PslogKvfmtCache, PslogRenderCache, TLC

\* Layouts: five texts, one malformed, for three slots, one pointer slot.
CONSTANTS f1, f2, f3, f4, bad

MCTexts == {f1, f2, f3, f4, bad}
MCHome(f) == IF f = f3 THEN 1 ELSE 0
MCPtrSlot(a) == 0

\* Stamps and numbers: all numbers share an entry.
CONSTANT number

MCDoubleSlot(v) == number

\* Threads and addresses are interchangeable.
MCSymmetry == Permutations(Threads) \cup Permutations(Addresses)

\* Scalars: a second of 1000 nanoseconds, so that a unit is ten of the next smaller one;
\* seconds around zero and around one and two minutes; nanoseconds of both
\* signs, and for Lua beyond a second; three time zones, with and without
\* daylight saving time.
MCBytes == {<<>>} \cup {<<a, b>> : a \in {0, 15, 16, 127, 128, 255}, b \in 0..255}

Digits == {0, 1, 4, 5, 6, 9, 10}
MCDigitTexts == UNION {[1..n -> Digits] : n \in 0..5}

MCDurations ==
  {<<s, n>> : s \in {-121, -61, -60, -59, -2, -1, 0, 1, 2, 59, 60, 61, 119},
              n \in -999..999}

MCLuaPairs ==
  {<<s, n>> : s \in {-61, -2, -1, 0, 1, 2, 60}, n \in {k * 49 : k \in -62..62} \cup
                                               {-2000, -1000, -1, 1, 999, 1000, 2000}}

MCTotals == {k * 37 : k \in -2000..2000} \cup {k * 1000 : k \in -61..61}

MCInstants ==
  {<<s, n>> : s \in {-86400, -1, 0, 1, 3599, 3600, 86399},
              n \in {-500, -1, 0, 1, 10, 99, 100, 120, 500, 999}}

MCOffsets == {-570, -90, -30, -1, 0, 1, 45, 60, 330, 840}

MCClock == -100000..200000

MCZones == {[std |-> s, dst |-> d, on |-> b] : s \in {-300, 0, 60}, d \in {-240, 0, 120},
                                               b \in BOOLEAN}

\* Two alphabets for texts: one byte of every class the escapers tell apart, with
\* one lead byte and its continuation; and the ends of the ranges the UTF-8 checks
\* compare with.

\* SOH, TAB, LF, CR, ESC, space, quote, '=', '[', backslash, 'n', DEL, U+00A9
EscapeBytes == {1, 9, 10, 13, 27, 32, 34, 61, 91, 92, 110, 127, 194, 169}

\* 'A'; 80, 8F, 90, 9F, A0, BF; C1, C2, DF; E0, E1, EC, ED, EE, EF; F0, F1, F3,
\* F4, F5
Utf8Bytes == {65, 128, 143, 144, 159, 160, 191, 193, 194, 223,
              224, 225, 236, 237, 238, 239, 240, 241, 243, 244, 245}

\* Lines: palettes whose texts fit everywhere, are missing, or are too long for one
\* of the literals or fragments; field lists with every type, every non-finite
\* double and an empty key; kvfmt layouts with every argument type.
Colors == {"key", "string", "number", "boolean", "null_value", "timestamp",
           "message_key", "message", "reset", "trace", "debug", "info", "warn",
           "error", "fatal", "panic"}

Usual == [c \in Colors |-> 5]

MCPalettes == {
  Usual,
  [c \in Colors |-> 0],
  [Usual EXCEPT !["key"] = 130, !["timestamp"] = 0],
  [Usual EXCEPT !["message"] = 130, !["fatal"] = 60, !["null_value"] = 0],
  [Usual EXCEPT !["reset"] = 0, !["number"] = 130],
  [Usual EXCEPT !["timestamp"] = 130, !["string"] = 130, !["key"] = 0]}

MCUserKeyLen == [k |-> 1, n |-> 1, long |-> 130]

F(k, t, v) == [key |-> k, type |-> t, val |-> v]
K(k, a, v) == [key |-> k, arg |-> a, val |-> v]

MCFieldLists == {
  <<>>,
  << F("", "STRING", "lost") >>,
  << F("k", "NULL", "null"), F("", "BOOL", "true"), F("n", "STRING", "s"),
     F("k", "SIGNED", "-1"), F("n", "UNSIGNED", "1"), F("k", "DOUBLE", "NaN"),
     F("k", "DOUBLE", "0.5"), F("long", "ERRNO", "EIO"),
     F("k", "BOOL", "false"), F("n", "POINTER", "0x1"), F("k", "BYTES", "00ff"),
     F("n", "TIME", "then"), F("k", "DURATION", "1s"), F("long", "STRING", "") >>}

MCKvLists == {
  <<>>,
  << K("k", "STRING", "NULL"), K("n", "SIGNED_INT", "-1"),
     K("k", "UNSIGNED_LONG", "1"), K("long", "DOUBLE", "+Inf"),
     K("k", "ERRNO", "EIO"), K("n", "STRING", "s"), K("k", "SIGNED_LONG", "1"),
     K("k", "UNSIGNED_INT", "1"), K("k", "DOUBLE", "0.5"),
     K("n", "POINTER", "0x1"), K("k", "BOOL", "true"), K("long", "ERRNO", "EIO") >>}

VARIABLES part, job, result, tmode, route, arg, field, copies, stage, rendering,
          shared, logger, derived, called, written

cacheVars == <<vars, renderVars>>
scalarVars == <<job, result>>
textVars == <<tmode, route, arg, field, copies, stage, rendering>>
lineVars == <<shared, logger, derived, called, written>>
allVars == <<part, cacheVars, scalarVars, textVars, lineVars>>

Scalar == INSTANCE PslogScalar WITH
            Word <- 4096, FracDigits <- 3, Thousand <- 10, Bytes <- MCBytes,
            DigitTexts <- MCDigitTexts, Durations <- MCDurations, LuaPairs <- MCLuaPairs,
            Totals <- MCTotals, Instants <- MCInstants, Offsets <- MCOffsets,
            Clock <- MCClock, Zones <- MCZones, out <- result

Escapes == INSTANCE PslogText WITH
             Bytes <- EscapeBytes, MaxLen <- 3, MaxCopies <- 1, Modes <- {"json", "console"},
             Routes <- {"str", "trusted_str", "withf", "kvfmt", "message", "key", "trusted_key"},
             mode <- tmode, text <- arg, out <- rendering

Utf8 == INSTANCE PslogText WITH
          Bytes <- Utf8Bytes, MaxLen <- 4, MaxCopies <- 0, Modes <- {"json"},
          Routes <- {"trusted_str"}, mode <- tmode, text <- arg, out <- rendering

\* Calls at FATAL, which a disabled logger lets through, and NOLEVEL.
Line == INSTANCE PslogLine WITH
          Modes <- {"json", "console"}, Palettes <- MCPalettes, UserKeyLen <- MCUserKeyLen,
          MinLevels <- {6, 127}, CallLevels <- {4, 6}, Messages <- {"", "m"},
          FieldLists <- MCFieldLists, KvLists <- MCKvLists, MaxWith <- 2,
          LITERAL_CAPACITY <- 128, CONSOLE_LEVEL_FRAGMENT_CAPACITY <- 64,
          call <- called, line <- written

ASSUME ValuesAssumption ==
  /\ KvfmtAssumption /\ RenderAssumption /\ Scalar!ScalarAssumption
  /\ Escapes!TextAssumption /\ Utf8!TextAssumption /\ Line!LineAssumption

MCInit ==
  /\ part \in {"layouts", "render", "scalar", "escapes", "utf8", "line"}
  /\ Init /\ RenderInit /\ Scalar!Init /\ Line!Init
  /\ part # "layouts" => ptrs = None
  /\ part # "render" => mode = "json" /\ second = CHOOSE s \in Seconds : TRUE
  /\ IF part = "escapes" THEN Escapes!Init ELSE Utf8!Init

MCNext ==
  \/ part = "layouts" /\ Next /\ UNCHANGED <<part, renderVars, scalarVars, textVars, lineVars>>
  \/ part = "render" /\ RenderNext /\ UNCHANGED <<part, vars, scalarVars, textVars, lineVars>>
  \/ part = "scalar" /\ Scalar!Next /\ UNCHANGED <<part, cacheVars, textVars, lineVars>>
  \/ part = "escapes" /\ Escapes!Next /\ UNCHANGED <<part, cacheVars, scalarVars, lineVars>>
  \/ part = "utf8" /\ Utf8!Next /\ UNCHANGED <<part, cacheVars, scalarVars, lineVars>>
  \/ part = "line" /\ Line!Next /\ UNCHANGED <<part, cacheVars, scalarVars, textVars>>

MCSpec == MCInit /\ [][MCNext]_allVars

(***************************************************************************)
(* Signed, unsigned and hexadecimal values read back as themselves, the    *)
(* smallest and the largest included, and pslog.u64 of Lua accepts exactly *)
(* the texts of 64-bit numbers.                                            *)
(***************************************************************************)
NumbersReadBack == Scalar!IntegersReadBack /\ Scalar!U64Exact

(***************************************************************************)
(* A duration reads back as the time that was given, with either sign in   *)
(* either part. A time field has the offset it was given and, unless its   *)
(* nanoseconds are negative, names the instant it was given. A stamp names *)
(* the instant of the call, in UTC if the logger asks for it and otherwise *)
(* at an offset of the zone, which may be the one of standard time.        *)
(***************************************************************************)
TimesReadBack == Scalar!DurationReadsBack /\ Scalar!TimeReadsBack /\ Scalar!StampReadsBack

(***************************************************************************)
(* The README of the binding: pslog.time_unix "Builds a typed time field   *)
(* from Unix seconds plus optional nanoseconds". The text names that       *)
(* instant.                                                                *)
(***************************************************************************)
LuaTimeReadsBack == Scalar!LuaTimeReadsBack

(***************************************************************************)
(* Whichever route a text takes into a line, a reader of the JSON string   *)
(* gets the text back, and bytes that are not UTF-8 by their value; the    *)
(* length a field remembers is the one of its text.                        *)
(***************************************************************************)
JsonReadsBack == Escapes!JsonReadsBack /\ Escapes!TypeOK

(***************************************************************************)
(* A console value reads back as its text, quoted or not; no message or    *)
(* value, and in JSON no key, puts a control byte into the line.           *)
(***************************************************************************)
ConsoleReadsBack == Escapes!ConsoleReadsBack /\ Escapes!OneLine

(***************************************************************************)
(* A JSON line, read without its colours, is one object with the members   *)
(* the caller asked for, in their order, whatever mixture of literals,     *)
(* prefixes and dynamic parts it was put together from. The threshold of a *)
(* DISABLED logger may be called "info" in colours.                        *)
(***************************************************************************)
JsonIsObject == Line!JsonIsObject

(***************************************************************************)
(* Colours only decorate: without them the line is byte for byte the plain *)
(* one, but for that DISABLED threshold. Each reaches no further than its  *)
(* part of the line, but for the timestamp's on the console: it is on at   *)
(* the label, and at the message where the level has no colour of its own  *)
(* or one too long for its fragment.                                       *)
(***************************************************************************)
ColorsAside == Line!ColorsAside

(***************************************************************************)
(* All routes to a line look the same: log() or logf(), with() or withf(), *)
(* literals and prefixes rendered once or anew; the threshold of a         *)
(* DISABLED logger in coloured JSON excepted.                              *)
(***************************************************************************)
RoutesAgree == Line!RoutesAgree
=============================================================================
