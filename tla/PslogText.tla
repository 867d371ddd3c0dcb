------------------------------ MODULE PslogText ------------------------------
(***************************************************************************)
(* How a text of the caller reaches a log line: the trust flags and cached *)
(* lengths a field constructor computes, the copies with() makes of them,  *)
(* and the two renderings (JSON and console), each with a fast path that   *)
(* copies bytes unread and a slow path that escapes them.                  *)
(*                                                                         *)
(* A text is a sequence of bytes without NUL, as strlen delimits it; the   *)
(* constructors turn a NULL value into the empty text. Raw runs between    *)
(* two escapes are appended in chunks by the code and byte by byte here.   *)
(***************************************************************************)
EXTENDS Integers, Sequences, SequencesExt

CONSTANTS
  Bytes,      \* the bytes texts are made of
  MaxLen,     \* bound: length of a text
  Routes,     \* the ways a text enters the logger, a subset of AllRoutes
  Modes,      \* the modes of the logger, a subset of {"json", "console"}
  MaxCopies   \* bound: how often with() copies a field

AllRoutes == {"str", "trusted_str", "withf", "kvfmt", "message",
              "key", "trusted_key"}

\* Assumed of the constants.
TextAssumption ==
  /\ Bytes \subseteq 1..255 /\ MaxLen \in Nat /\ MaxCopies \in Nat
  /\ Routes \subseteq AllRoutes /\ Modes \subseteq {"json", "console"}

VARIABLES
  mode,     \* shared->mode
  route,    \* how the text entered
  text,     \* the text of the caller
  field,    \* the pslog_field, or the bare argument, that holds it
  copies,   \* copies with() has made of it
  stage,    \* "start", "built" or "emitted"
  out       \* the bytes of the last rendering

vars == <<mode, route, text, field, copies, stage, out>>

-----------------------------------------------------------------------------
(* Character classes and measuring.                                        *)

Quote == 34
Backslash == 92
Continuation == 128..191

Width(ch) == CASE ch < 128 -> 1
               [] ch \in 194..223 -> 2
               [] ch \in 224..239 -> 3
               [] ch \in 240..244 -> 4
               [] OTHER -> 0

\* Mutant: the sequences of surrogates are accepted.
SecondByteSurrogates(ch) == CASE ch = 224 -> 160..191
                              [] ch = 240 -> 144..191
                              [] ch = 244 -> 128..143
                              [] OTHER -> Continuation

SecondByte(ch) == CASE ch = 224 -> 160..191
                    [] ch = 237 -> 128..159
                    [] ch = 240 -> 144..191
                    [] ch = 244 -> 128..143
                    [] OTHER -> Continuation

\* The bytes of b from i are a sequence of width w.
WellFormedAt(b, i, w) ==
  /\ w > 0
  /\ w > 1 => b[i + 1] \in SecondByte(b[i])
  /\ \A k \in 2..(w - 1) : b[i + k] \in Continuation

\* Width of the sequence at i of the first n bytes of t, 0 if ill-formed.
utf8_sequence_len_n(t, i, n) ==
  LET w == Width(t[i])
  IN IF n - i + 1 >= w /\ WellFormedAt(t, i, w) THEN w ELSE 0

NeedsJsonCare(ch) == ch < 32 \/ ch = 127 \/ ch \in {Quote, Backslash}

string_is_ascii_trusted_measure(t) ==
  [trusted |-> \A i \in DOMAIN t : t[i] < 128 /\ ~NeedsJsonCare(t[i]),
   len |-> Len(t)]

\* The scan stops at the first ill-formed sequence and adds what is left. Each
\* byte behind the lead is compared with the terminating NUL before the next one
\* is read: NULs behind the text stand for what is not read.
string_is_trusted_measure(t) ==
  LET b == t \o <<0, 0, 0>>
      scan[i \in 1..(Len(t) + 1)] ==
        IF i > Len(t) THEN [trusted |-> TRUE, len |-> 0]
        ELSE LET w == Width(t[i])
                 rest == scan[i + w]
             IN IF ~WellFormedAt(b, i, w)
                THEN [trusted |-> FALSE, len |-> Len(t) - i + 1]
                ELSE [trusted |-> ~NeedsJsonCare(t[i]) /\ rest.trusted,
                      len |-> w + rest.len]
  IN scan[1]

IsSpace(ch) == ch \in 9..13 \/ ch = 32

NeedsConsoleQuotes(ch) ==
  IsSpace(ch) \/ ch \in {61, Quote, Backslash} \/ ch < 32 \/ ch = 127

\* Mutant: the flag is taken from the measurement for JSON.
ConsoleSimpleFromJson(t) == string_is_ascii_trusted_measure(t).trusted

string_is_console_simple_measure(t) ==
  t # <<>> /\ \A i \in DOMAIN t : ~NeedsConsoleQuotes(t[i])

-----------------------------------------------------------------------------
(* The appenders.                                                          *)

Hex(d) == IF d < 10 THEN 48 + d ELSE 87 + d
HexByte(ch) == <<Hex(ch \div 16), Hex(ch % 16)>>
Quoted(bytes) == <<Quote>> \o bytes \o <<Quote>>

\* "\u00" and two digits
UnicodeEscape(ch) == <<Backslash, 117, 48, 48>> \o HexByte(ch)

\* The table escape_kind: '[' is in it, DEL is not.
JsonEscape(ch) ==
  CASE ch \in {Quote, Backslash} -> <<Backslash, ch>>
    [] ch = 13 -> <<Backslash, 114>>
    [] ch = 10 -> <<Backslash, 110>>
    [] ch = 9 -> <<Backslash, 116>>
    [] ch \in ({91} \cup 1..31) \ {9, 10, 13} -> UnicodeEscape(ch)
    [] OTHER -> <<ch>>

append_json_string_n(t, n) ==
  LET enc[i \in 1..(n + 1)] ==
        IF i > n THEN <<>>
        ELSE IF t[i] < 128 THEN JsonEscape(t[i]) \o enc[i + 1]
        ELSE LET w == utf8_sequence_len_n(t, i, n) IN
             IF w = 0 THEN UnicodeEscape(t[i]) \o enc[i + 1]
             ELSE SubSeq(t, i, i + w - 1) \o enc[i + w]
  IN Quoted(enc[1])

append_json_trusted_string_n(t, n) == Quoted(SubSeq(t, 1, n))

append_json_string_maybe_trusted(t) ==
  LET ascii == string_is_ascii_trusted_measure(t)
      full == string_is_trusted_measure(t)
  IN IF ascii.trusted THEN append_json_trusted_string_n(t, ascii.len)
     ELSE IF full.trusted THEN append_json_trusted_string_n(t, full.len)
     ELSE append_json_string_n(t, Len(t))

\* "\x" and two digits for the controls without a letter of their own
ControlEscape(ch) ==
  CASE ch = 10 -> <<Backslash, 110>>
    [] ch = 13 -> <<Backslash, 114>>
    [] ch = 9 -> <<Backslash, 116>>
    [] ch \in ({127} \cup 1..31) \ {9, 10, 13} -> <<Backslash, 120>> \o HexByte(ch)
    [] OTHER -> <<ch>>

append_console_string(t) ==
  LET escape(ch) == IF ch \in {Quote, Backslash} THEN <<Backslash, ch>>
                    ELSE ControlEscape(ch)
  IN IF \A i \in DOMAIN t : ~NeedsConsoleQuotes(t[i]) THEN t
     ELSE Quoted(FlattenSeq([i \in DOMAIN t |-> escape(t[i])]))

append_console_message(t) == FlattenSeq([i \in DOMAIN t |-> ControlEscape(t[i])])

-----------------------------------------------------------------------------
(* Fields.                                                                 *)

IsKey(r) == r \in {"key", "trusted_key"}

MeasuredField(t, m, simple) ==
  [value |-> t, len |-> m.len, trusted |-> m.trusted, simple |-> simple]

pslog_str(t) == MeasuredField(t, string_is_ascii_trusted_measure(t), FALSE)

\* Every constructor but pslog_trusted_str measures its key in this way; the
\* payloads that are not texts are stored as passed.
KeyField(t) == MeasuredField(t, string_is_ascii_trusted_measure(t), FALSE)

pslog_trusted_str(t) == MeasuredField(t, string_is_trusted_measure(t), FALSE)

materialize_kvfmt_string(t) ==
  MeasuredField(t, string_is_ascii_trusted_measure(t),
                mode = "console" /\ string_is_console_simple_measure(t))

\* A private copy of the first len bytes; the flags are copied with it.
copy_field(f) == [f EXCEPT !.value = SubSeq(f.value, 1, f.len)]

\* A message, or an argument the emitter reads from the va_list: no flags.
BareArgument(t) == MeasuredField(t, [trusted |-> FALSE, len |-> Len(t)], FALSE)

\* A field without a key is not rendered at all; keys that are not trusted are
\* measured again.
RenderJson(r, f) ==
  CASE r \in {"message", "kvfmt"} -> append_json_string_maybe_trusted(f.value)
    [] IsKey(r) /\ f.value = <<>> -> <<>>
    [] OTHER -> IF f.trusted THEN append_json_trusted_string_n(f.value, f.len)
                ELSE append_json_string_n(f.value, IF IsKey(r) THEN Len(f.value) ELSE f.len)

\* Keys are rendered as provided.
RenderConsole(r, f) ==
  CASE r = "message" -> append_console_message(f.value)
    [] IsKey(r) \/ f.simple -> SubSeq(f.value, 1, f.len)
    [] OTHER -> append_console_string(f.value)

-----------------------------------------------------------------------------
Strings == UNION {[1..n -> Bytes] : n \in 0..MaxLen}

Init ==
  /\ mode \in Modes
  /\ route = "none" /\ text = <<>> /\ field = pslog_str(<<>>)
  /\ copies = 0 /\ stage = "start" /\ out = <<>>

\* A constructor measures the text; withf() also copies it into the child.
Construct(r, t) ==
  /\ route' = r /\ text' = t /\ stage' = "built"
  /\ field' = CASE r = "str" -> pslog_str(t)
                [] r = "key" -> KeyField(t)
                [] r \in {"trusted_str", "trusted_key"} -> pslog_trusted_str(t)
                [] r = "withf" -> copy_field(materialize_kvfmt_string(t))
                [] OTHER -> BareArgument(t)
  /\ UNCHANGED <<mode, copies, out>>

\* with(): the field, or the child that holds it, is copied into a child.
With ==
  /\ stage = "built" /\ route \notin {"kvfmt", "message"} /\ copies < MaxCopies
  /\ field' = copy_field(field) /\ copies' = copies + 1
  /\ UNCHANGED <<mode, route, text, stage, out>>

\* A prepared field may be rendered again and again.
Emit ==
  /\ stage \in {"built", "emitted"}
  /\ out' = IF mode = "json" THEN RenderJson(route, field)
            ELSE RenderConsole(route, field)
  /\ stage' = "emitted"
  /\ UNCHANGED <<mode, route, text, field, copies>>

Next ==
  \/ stage = "start" /\ \E r \in Routes, t \in Strings : Construct(r, t)
  \/ With
  \/ Emit

Spec == Init /\ [][Next]_vars

-----------------------------------------------------------------------------
(* The readers: what a consumer of the log makes of the bytes, written     *)
(* from the formats and not from the code.                                 *)

\* UTF-8 as an encoding of code points.
Encode(c) ==
  LET tail(k) == 128 + ((c \div k) % 64)
  IN CASE c < 128 -> <<c>>
       [] c \in 128..2047 -> <<192 + (c \div 64), tail(1)>>
       [] c \in 2048..65535 -> <<224 + (c \div 4096), tail(64), tail(1)>>
       [] OTHER -> <<240 + (c \div 262144), tail(4096), tail(64), tail(1)>>

Scalar(c) == c \in 0..1114111 /\ c \notin 55296..57343

\* The payload bits of w bytes at i, put together.
Payload(t, i, w) ==
  LET low(k) == t[i + k] % 64
  IN CASE w = 1 -> t[i]
       [] w = 2 -> (t[i] % 32) * 64 + low(1)
       [] w = 3 -> (t[i] % 16) * 4096 + low(1) * 64 + low(2)
       [] OTHER -> (t[i] % 8) * 262144 + low(1) * 4096 + low(2) * 64 + low(3)

\* The widths at which the bytes at i are the encoding of a scalar value.
ScalarWidths(t, i) ==
  {w \in 1..4 : /\ i + w - 1 <= Len(t)
                /\ Scalar(Payload(t, i, w))
                /\ Encode(Payload(t, i, w)) = SubSeq(t, i, i + w - 1)}

Broken == <<-1>>

\* What a text means: its code points, a byte that starts none standing for
\* the code point of its own value.
Meaning(t) ==
  LET read[i \in 1..(Len(t) + 1)] ==
        IF i > Len(t) THEN <<>>
        ELSE IF ScalarWidths(t, i) = {} THEN <<t[i]>> \o read[i + 1]
        ELSE LET w == CHOOSE w \in ScalarWidths(t, i) : TRUE
             IN <<Payload(t, i, w)>> \o read[i + w]
  IN read[1]

Digit(ch) == CASE ch \in 48..57 -> ch - 48
               [] ch \in 97..102 -> ch - 87
               [] OTHER -> -1

HexValue(ds) ==
  LET value[i \in 0..Len(ds)] ==
        IF i = 0 THEN 0 ELSE 16 * value[i - 1] + Digit(ds[i])
  IN IF \E i \in DOMAIN ds : Digit(ds[i]) < 0 THEN -1 ELSE value[Len(ds)]

\* The letters that stand for one code point behind a backslash.
JsonLetter == (34 :> 34) @@ (92 :> 92) @@ (110 :> 10) @@ (114 :> 13) @@ (116 :> 9)

\* The body of a quoted string, read from i; Broken is part of the result
\* where the bytes are not a string of the format.
JsonBody(b) ==
  LET n == Len(b)
      read[i \in 1..(n + 1)] ==
        CASE i > n -> <<>>
          [] i <= n /\ (b[i] < 32 \/ b[i] = Quote) -> Broken
          [] i < n /\ b[i] = Backslash /\ b[i + 1] \in DOMAIN JsonLetter ->
               <<JsonLetter[b[i + 1]]>> \o read[i + 2]
          [] i + 5 <= n /\ b[i] = Backslash /\ b[i + 1] = 117 ->
               <<HexValue(SubSeq(b, i + 2, i + 5))>> \o read[i + 6]
          [] i <= n /\ b[i] # Backslash /\ ScalarWidths(b, i) # {} ->
               LET w == CHOOSE w \in ScalarWidths(b, i) : TRUE
               IN <<Payload(b, i, w)>> \o read[i + w]
          [] OTHER -> Broken
  IN read[1]

IsQuoted(b) == Len(b) >= 2 /\ b[1] = Quote /\ b[Len(b)] = Quote

JsonRead(b) == IF IsQuoted(b) THEN JsonBody(SubSeq(b, 2, Len(b) - 1)) ELSE Broken

ConsoleBody(b) ==
  LET n == Len(b)
      read[i \in 1..(n + 1)] ==
        CASE i > n -> <<>>
          [] i <= n /\ b[i] = Quote -> Broken
          [] i <= n /\ b[i] \notin {Quote, Backslash} -> <<b[i]>> \o read[i + 1]
          [] i < n /\ b[i] = Backslash /\ b[i + 1] \in DOMAIN JsonLetter ->
               <<JsonLetter[b[i + 1]]>> \o read[i + 2]
          [] i + 3 <= n /\ b[i] = Backslash /\ b[i + 1] = 120 ->
               <<HexValue(SubSeq(b, i + 2, i + 3))>> \o read[i + 4]
          [] OTHER -> Broken
  IN read[1]

\* A value ends at the first space unless it is quoted.
ConsoleRead(b) ==
  CASE IsQuoted(b) -> ConsoleBody(SubSeq(b, 2, Len(b) - 1))
    [] ~IsQuoted(b) /\ \E i \in DOMAIN b : b[i] \in {32, 61, Quote} -> Broken
    [] OTHER -> b

-----------------------------------------------------------------------------
(***************************************************************************)
(* The state is well typed; a cached length is the length of the text it   *)
(* was measured from.                                                      *)
(***************************************************************************)
TypeOK ==
  /\ mode \in Modes /\ route \in Routes \cup {"none"}
  /\ stage \in {"start", "built", "emitted"} /\ copies \in 0..MaxCopies
  /\ field.trusted \in BOOLEAN /\ field.simple \in BOOLEAN
  /\ field.len = Len(text)
  /\ \A i \in DOMAIN out : out[i] \in 1..255

(***************************************************************************)
(* Whatever way a text takes into a JSON line, with or without a trust     *)
(* flag, copied into children or not, a JSON reader gets it back: well-    *)
(* formed UTF-8 as its code points, every other byte as the code point of  *)
(* its value (pslog_buffer_append_json_string_n, the trusted fast paths).  *)
(* A field whose key is empty leaves no bytes at all.                      *)
(***************************************************************************)
JsonReadsBack ==
  (stage = "emitted" /\ mode = "json") =>
    IF IsKey(route) /\ text = <<>> THEN out = <<>>
    ELSE JsonRead(out) = Meaning(text)

(***************************************************************************)
(* A console reader that splits values at spaces and honours quotes gets   *)
(* back the bytes of every field value, whether it was rendered raw        *)
(* (console_simple_value) or escaped (pslog_buffer_append_console_string). *)
(***************************************************************************)
ConsoleReadsBack ==
  (stage = "emitted" /\ mode = "console" /\ route # "message" /\ ~IsKey(route)) =>
    ConsoleRead(out) = text

(***************************************************************************)
(* Nothing a caller passes as a message or as a value, and in JSON as a    *)
(* key, puts a control byte into the line, so that one record stays one    *)
(* line and no terminal sequence gets through; on the console DEL is       *)
(* escaped too.                                                            *)
(***************************************************************************)
OneLine ==
  (stage = "emitted" /\ (mode = "console" => ~IsKey(route))) =>
    \A i \in DOMAIN out : out[i] >= 32 /\ (mode = "console" => out[i] # 127)

=============================================================================
