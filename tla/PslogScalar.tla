----------------------------- MODULE PslogScalar -----------------------------
(***************************************************************************)
(* How integers, bytes, durations and times become text, and what the Lua  *)
(* binding does to them first. A text is modelled by its digits or, for a  *)
(* duration or a time, by the numbers that are printed, with the number of *)
(* digits the format prints.                                               *)
(*                                                                         *)
(* Widths and units are scaled: pslog_uint64 has Word values, a second has *)
(* 10^FracDigits nanoseconds, and a unit is Thousand of the next smaller   *)
(* one, so that three decimals are Thousand parts.                         *)
(***************************************************************************)
EXTENDS Integers, Sequences

CONSTANTS
  Word,          \* 2^64
  FracDigits,    \* 9: decimals of a nanosecond
  Thousand,      \* 1000
  Bytes,         \* byte strings
  DigitTexts,    \* texts for pslog.u64: digits, and 10 for any other
                 \* character
  Durations,     \* <<seconds, nanoseconds>> given to pslog_duration_field
  LuaPairs,      \* <<sec, nsec>> given to pslog.duration and pslog.time_unix
  Totals,        \* nanoseconds given to pslog.duration_ns and its like
  Instants,      \* <<seconds, nanoseconds>> given to pslog_time_field
  Offsets,       \* utc_offset_minutes
  Clock,         \* civil seconds that gmtime can represent
  Zones          \* time zones: offsets in minutes, std, dst and whether it is on

NsPerSecond == 10 ^ FracDigits
Milli == Thousand * Thousand     \* nanoseconds of a millisecond
Micro == Thousand

\* Assumed of the constants.
ScalarAssumption ==
  /\ Word \in Nat /\ Word % 2 = 0 /\ FracDigits \in Nat \ {0}
  /\ Thousand * Thousand * Thousand = NsPerSecond
  /\ \A z \in Zones : z.std \in Int /\ z.dst \in Int /\ z.on \in BOOLEAN

VARIABLES job, out
vars == <<job, out>>

Abs(n) == IF n < 0 THEN -n ELSE n
Idle == [kind |-> "none"]

-----------------------------------------------------------------------------
(* Integers and bytes.                                                     *)

\* Of the mutant below: a pair of digits without its leading 0.
DigitPairsBare[m \in 0..Word] ==
  IF m < 10 THEN <<m>>
  ELSE IF m < 100 THEN <<m \div 10, m % 10>>
  ELSE IF m % 100 < 10 THEN DigitPairsBare[m \div 100] \o <<m % 10>>
  ELSE DigitPairsBare[m \div 100] \o <<(m % 100) \div 10, m % 10>>

\* The loop over pairs of digits, from the last pair to the first.
DigitPairs[m \in 0..Word] ==
  IF m < 10 THEN <<m>>
  ELSE IF m < 100 THEN <<m \div 10, m % 10>>
  ELSE DigitPairs[m \div 100] \o <<(m % 100) \div 10, m % 10>>

AppendUnsigned(v) == [neg |-> FALSE, digits |-> DigitPairs[v]]

\* The magnitude is built without leaving the range of the signed type.
AppendSigned(v) ==
  [neg |-> v < 0,
   digits |-> DigitPairs[IF v < 0 THEN (-(v + 1) + 1) % Word ELSE v]]

AppendBytesHex(data) ==
  [i \in 1..(2 * Len(data)) |->
     IF i % 2 = 1 THEN data[(i + 1) \div 2] \div 16 ELSE data[i \div 2] % 16]

\* Mutant: the last digit may carry the value beyond the largest one.
ParseU64Wraps(text) ==
  LET max == Word - 1
      upTo[i \in 0..Len(text)] ==
        IF i = 0 THEN [ok |-> text # <<>>, value |-> 0]
        ELSE LET r == upTo[i - 1] IN
             IF ~r.ok THEN r
             ELSE IF text[i] = 10 \/ r.value > max \div 10 THEN [r EXCEPT !.ok = FALSE]
             ELSE [r EXCEPT !.value = (@ * 10 + text[i]) % Word]
  IN upTo[Len(text)]

\* pslua_parse_u64_string; the product and the sum wrap.
ParseU64(text) ==
  LET max == Word - 1
      upTo[i \in 0..Len(text)] ==
        IF i = 0 THEN [ok |-> text # <<>>, value |-> 0]
        ELSE LET r == upTo[i - 1] IN
             IF ~r.ok THEN r
             ELSE IF \/ text[i] = 10
                     \/ r.value > max \div 10
                     \/ r.value = max \div 10 /\ text[i] > max % 10
             THEN [r EXCEPT !.ok = FALSE]
             ELSE [r EXCEPT !.value = (@ * 10 + text[i]) % Word]
  IN upTo[Len(text)]

-----------------------------------------------------------------------------
(* Durations.                                                              *)

\* The sign, and seconds and nanoseconds of one sign.
SignedParts(s, n) ==
  IF s < 0 /\ n > 0 THEN [neg |-> TRUE, s |-> Abs(s + 1), n |-> NsPerSecond - n]
  ELSE IF s > 0 /\ n < 0 THEN [neg |-> FALSE, s |-> s - 1, n |-> NsPerSecond + n]
  ELSE [neg |-> s < 0 \/ n < 0, s |-> Abs(s), n |-> Abs(n)]

\* What printing n / unit with all decimals of the next smaller unit but one
\* can give: the nearest multiple, either one if there are two.
Rounded(n, unit) ==
  {r \in {n \div unit, n \div unit + 1} : 2 * Abs(n - r * unit) <= unit}

\* pslog_buffer_append_duration: the unit, whole minutes, and the rest in parts
\* of the size given.
AppendDuration(s, n) ==
  LET p == SignedParts(s, n)
      text(form, m, parts, size) ==
        [neg |-> p.neg, form |-> form, minutes |-> m, parts |-> parts, size |-> size]
  IN IF p.s = 0 /\ p.n < Micro THEN {text("ns", 0, p.n, 1)}
     ELSE IF p.s = 0 /\ p.n < Milli THEN {text("us", 0, p.n, 1)}
     ELSE IF p.s = 0 /\ p.n < NsPerSecond
     THEN {text("ms", 0, r, Micro) : r \in Rounded(p.n, Micro)}
     ELSE IF p.s < 60
     THEN {text("s", 0, r, Milli) : r \in Rounded(p.s * NsPerSecond + p.n, Milli)}
     ELSE {text("m", p.s \div 60, (p.s % 60) * Thousand + p.n \div Milli, Milli)}

\* normalize_sec_nsec of init.lua; the carry is rounded down.
NormalizeSecNsec(sec, nsec) ==
  LET carry == IF nsec >= NsPerSecond \/ nsec <= -NsPerSecond
               THEN nsec \div NsPerSecond ELSE 0
      s == sec + carry
      n == nsec - carry * NsPerSecond
  IN IF s > 0 /\ n < 0 THEN <<s - 1, n + NsPerSecond>>
     ELSE IF s < 0 /\ n > 0 THEN <<s + 1, n - NsPerSecond>>
     ELSE <<s, n>>

\* split_scaled of init.lua: the quotient is rounded towards zero.
SplitScaled(total) ==
  LET sec == IF total >= 0 THEN total \div NsPerSecond ELSE -((-total) \div NsPerSecond)
  IN NormalizeSecNsec(sec, total - sec * NsPerSecond)

-----------------------------------------------------------------------------
(* Times.                                                                  *)

\* The decimals: FracDigits of them, without the zeros at the end but one.
Fraction(n) ==
  LET all == [i \in 1..FracDigits |-> (n \div 10 ^ (FracDigits - i)) % 10]
      last == CHOOSE k \in 1..FracDigits :
                /\ k = 1 \/ all[k] # 0
                /\ \A i \in (k + 1)..FracDigits : all[i] = 0
  IN IF n = 0 THEN <<>> ELSE SubSeq(all, 1, last)

OffsetText(offset) ==
  IF offset = 0 THEN [sign |-> "Z", h |-> 0, m |-> 0]
  ELSE [sign |-> IF offset < 0 THEN "-" ELSE "+",
        h |-> Abs(offset) \div 60, m |-> Abs(offset) % 60]

Empty == [clock |-> 0, frac |-> <<>>, offset |-> [sign |-> "none", h |-> 0, m |-> 0]]

\* pslog_buffer_append_time: the civil time at the offset, or nothing if gmtime
\* has none.
AppendTime(seconds, nanoseconds, offset) ==
  LET base == seconds + offset * 60
  IN IF base \notin Clock THEN Empty
     ELSE [clock |-> base, frac |-> Fraction(Abs(nanoseconds)), offset |-> OffsetText(offset)]

\* The offset of local time, in minutes.
WallOffset(z) == IF z.on THEN z.dst ELSE z.std

(***************************************************************************)
(* pslog_local_offset_minutes: the local and the UTC fields of an instant, *)
(* both read as local time by mktime. localtime sets tm_isdst to what is   *)
(* in effect and gmtime to 0: a C library may take the 0 for standard time *)
(* or find out itself. mktime reports errors as -1.                        *)
(***************************************************************************)
LocalOffsetMinutes(now, z) ==
  LET gmEpoch == {now - 60 * o : o \in {z.std, WallOffset(z)}}
  IN {IF now = -1 \/ gm = -1 THEN 0 ELSE (now - gm) \div 60 : gm \in gmEpoch}

\* Mutant: the offset of local time is printed for loggers in UTC as well.
StampLocal(now, nanoseconds, z, utc, format) ==
  LET n == IF format = "rfc3339nano" THEN nanoseconds ELSE 0
  IN {AppendTime(now, n, o) : o \in LocalOffsetMinutes(now, z)}

\* pslog_render_timestamp_value for the formats that are RFC 3339: the default
\* of JSON loggers, with seconds, and with nanoseconds.
Stamp(now, nanoseconds, z, utc, format) ==
  LET offsets == IF utc THEN {0} ELSE LocalOffsetMinutes(now, z)
      n == IF format = "rfc3339nano" THEN nanoseconds ELSE 0
  IN {AppendTime(now, n, o) : o \in offsets}

-----------------------------------------------------------------------------
(* One value is rendered at a time.                                        *)

Init == job = Idle /\ out = Idle

Call(j, results) == job' = j /\ out' \in results

Signed ==
  \E v \in -(Word \div 2)..(Word \div 2 - 1) :
    Call([kind |-> "int", value |-> v], {AppendSigned(v)})

Unsigned ==
  \E v \in 0..(Word - 1) : Call([kind |-> "int", value |-> v], {AppendUnsigned(v)})

Hex ==
  \E b \in Bytes : Call([kind |-> "hex", value |-> b], {AppendBytesHex(b)})

U64 ==
  \E t \in DigitTexts : Call([kind |-> "u64", value |-> t], {ParseU64(t)})

Duration ==
  \E d \in Durations :
    Call([kind |-> "duration", value |-> d[1] * NsPerSecond + d[2]],
         AppendDuration(d[1], d[2]))

LuaDuration ==
  \E d \in LuaPairs :
    LET p == NormalizeSecNsec(d[1], d[2])
    IN Call([kind |-> "duration", value |-> d[1] * NsPerSecond + d[2]],
            AppendDuration(p[1], p[2]))

LuaScaled ==
  \E t \in Totals :
    LET p == SplitScaled(t)
    IN Call([kind |-> "duration", value |-> t], AppendDuration(p[1], p[2]))

Time ==
  \E i \in Instants, o \in Offsets :
    Call([kind |-> "time", value |-> i[1] * NsPerSecond + i[2], nanos |-> i[2], offset |-> o],
         {AppendTime(i[1], i[2], o)})

LuaTime ==
  \E d \in LuaPairs, o \in Offsets :
    LET p == NormalizeSecNsec(d[1], d[2])
    IN Call([kind |-> "luatime", value |-> d[1] * NsPerSecond + d[2]],
            {AppendTime(p[1], p[2], o)})

\* The clock counts nanoseconds from 0.
Timestamp ==
  \E i \in {n \in Instants : n[2] >= 0}, z \in Zones, utc \in BOOLEAN, f \in {"default", "rfc3339", "rfc3339nano"} :
    Call([kind |-> "stamp", now |-> i[1], nano |-> f = "rfc3339nano",
          value |-> i[1] * NsPerSecond + i[2], zone |-> z, utc |-> utc],
         Stamp(i[1], i[2], z, utc, f))

Return == job # Idle /\ job' = Idle /\ out' = Idle

Next ==
  \/ /\ job = Idle
     /\ \/ Signed \/ Unsigned \/ Hex \/ U64
        \/ Duration \/ LuaDuration \/ LuaScaled
        \/ Time \/ LuaTime \/ Timestamp
  \/ Return

Spec == Init /\ [][Next]_vars

-----------------------------------------------------------------------------
(* Reading the texts.                                                      *)

Number(digits, base) ==
  LET upTo[i \in 0..Len(digits)] ==
        IF i = 0 THEN 0 ELSE upTo[i - 1] * base + digits[i]
  IN upTo[Len(digits)]

DurationOf(t) ==
  LET a == t.minutes * 60 * NsPerSecond + t.parts * t.size
  IN IF t.neg THEN -a ELSE a

OffsetOf(t) ==
  LET minutes == t.offset.h * 60 + t.offset.m
  IN IF t.offset.sign = "-" THEN -minutes ELSE minutes

InstantOf(t) ==
  (t.clock - OffsetOf(t) * 60) * NsPerSecond
    + Number(t.frac, 10) * 10 ^ (FracDigits - Len(t.frac))

-----------------------------------------------------------------------------
(* Properties.                                                             *)

(***************************************************************************)
(* Integers of the whole range, both ends included, and bytes read back    *)
(* from their digits, which have no superfluous zeros.                     *)
(***************************************************************************)
IntegersReadBack ==
  /\ job.kind = "int" =>
       /\ Number(out.digits, 10) = Abs(job.value) /\ out.neg = (job.value < 0)
       /\ out.digits[1] = 0 => Len(out.digits) = 1
  /\ job.kind = "hex" =>
       \A i \in DOMAIN job.value :
         Number(SubSeq(out, 2 * i - 1, 2 * i), 16) = job.value[i]

(***************************************************************************)
(* pslog.u64 takes a text exactly if it is a decimal number within the     *)
(* range, and has its value: neither the multiplication nor the last digit *)
(* wraps around unnoticed.                                                 *)
(***************************************************************************)
U64Exact ==
  job.kind = "u64" =>
    LET decimal == job.value # <<>> /\ \A i \in DOMAIN job.value : job.value[i] # 10
    IN /\ out.ok <=> decimal /\ Number(job.value, 10) < Word
       /\ out.ok => out.value = Number(job.value, 10)

(***************************************************************************)
(* A duration reads back with its sign and within half of the last decimal *)
(* of its unit, and one of a minute or more is cut to that decimal: for    *)
(* any signs of seconds and nanoseconds less than a second, and from Lua   *)
(* for any number of nanoseconds.                                          *)
(***************************************************************************)
DurationReadsBack ==
  job.kind = "duration" =>
    /\ out.neg = (job.value < 0)
    /\ IF out.form = "m"
       THEN Abs(job.value) - Abs(DurationOf(out)) \in 0..(out.size - 1)
       ELSE 2 * Abs(DurationOf(out) - job.value) <= out.size

(***************************************************************************)
(* The text of a time field has the offset the field was given, and names  *)
(* the instant it was given: at every offset, unless the nanoseconds are   *)
(* negative, of which pslog_buffer_append_time prints the absolute value.  *)
(***************************************************************************)
TimeReadsBack ==
  job.kind = "time" /\ out # Empty =>
    /\ OffsetOf(out) = job.offset
    /\ job.nanos >= 0 => InstantOf(out) = job.value

(***************************************************************************)
(* A timestamp names the instant of the call, to the precision of the      *)
(* format, whatever the time zone, daylight saving time and the C          *)
(* library's mktime make of the local offset. Its offset is 0 for loggers  *)
(* in UTC and otherwise one of the zone: the one in effect or, where       *)
(* mktime reads the fields of gmtime as standard time, the one of standard *)
(* time; or 0 in the second for which mktime's result looks like an error. *)
(***************************************************************************)
StampReadsBack ==
  job.kind = "stamp" /\ out # Empty =>
    LET offsets == IF job.utc THEN {0} ELSE {job.zone.std, WallOffset(job.zone)}
        looksFailed == ~job.utc /\ (job.now = -1 \/ \E o \in offsets : job.now - 60 * o = -1)
    IN /\ InstantOf(out) = IF job.nano THEN job.value ELSE job.now * NsPerSecond
       /\ OffsetOf(out) \in offsets \/ (looksFailed /\ OffsetOf(out) = 0)

(***************************************************************************)
(* The README of the binding: pslog.time_unix "Builds a typed time field   *)
(* from Unix seconds plus optional nanoseconds". The text names that       *)
(* instant.                                                                *)
(***************************************************************************)
LuaTimeReadsBack ==
  job.kind = "luatime" /\ out # Empty => InstantOf(out) = job.value
=============================================================================
