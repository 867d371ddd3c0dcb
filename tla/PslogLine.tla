------------------------------ MODULE PslogLine ------------------------------
(***************************************************************************)
(* What a call writes: the JSON and console renderings of a whole line,    *)
(* with and without colours, from fields and from a kvfmt, with the        *)
(* literals pslog_new renders once, the prefix with() renders for a child  *)
(* and the layouts prepared for a kvfmt.                                   *)
(*                                                                         *)
(* A line is a sequence of tokens <<kind, text>>. Escaping within a JSON   *)
(* or console string is PslogText; here <<"jstr", v>> is the JSON string   *)
(* literal of v, <<"cstr", v>> the console form of v, <<"raw", v>> bytes   *)
(* that need no escape (a stamp, a level, digits, hex). A colour is a      *)
(* palette entry and appears only if its text is not empty.                *)
(***************************************************************************)
EXTENDS Integers, Sequences, FiniteSets, SequencesExt, TLC, PslogLevel

CONSTANTS
  Modes,         \* a subset of {"json", "console"}
  Palettes,      \* palettes: the length of the text of every colour
  UserKeyLen,    \* the length of every key of the caller
  MinLevels,     \* minimum levels of loggers
  CallLevels,    \* levels of calls
  Messages,      \* messages; "" stands for NULL and for the empty string
  FieldLists,    \* arguments of with() and log()
  KvLists,       \* kvfmt layouts with their arguments, for withf() and logf()
  MaxWith,       \* bound: derivations from the root logger
  LITERAL_CAPACITY,                \* of literals and prefixes: four macros,
                                   \* one value
  CONSOLE_LEVEL_FRAGMENT_CAPACITY

FieldTypes == {"NULL", "STRING", "SIGNED", "UNSIGNED", "DOUBLE", "BOOL",
               "POINTER", "BYTES", "TIME", "DURATION", "ERRNO"}
ArgTypes == {"STRING", "SIGNED_INT", "SIGNED_LONG", "UNSIGNED_INT",
             "UNSIGNED_LONG", "DOUBLE", "POINTER", "BOOL", "ERRNO"}

\* Assumed of the constants.
LineAssumption ==
  /\ Modes \subseteq {"json", "console"}
  /\ \A fs \in FieldLists : \A i \in DOMAIN fs : fs[i].type \in FieldTypes
  /\ \A ks \in KvLists : \A i \in DOMAIN ks :
       ks[i].arg \in ArgTypes /\ ks[i].key # ""
  /\ MinLevels \subseteq Level /\ CallLevels \subseteq Level /\ MaxWith \in Nat

VARIABLES
  shared,   \* the shared state: settings, palette, literals
  logger,   \* the logger in use: fields, field_prefix, min_level, ...
  derived,  \* derivations so far
  call,     \* the call that wrote the line
  line      \* the line it wrote; <<>> before the first

vars == <<shared, logger, derived, call, line>>

Null == [at |-> "none"]

-----------------------------------------------------------------------------
(* Tokens.                                                                 *)

\* The parts of a line, one after the other.
Join(parts) ==
  LET upTo[i \in 0..Len(parts)] ==
        IF i = 0 THEN <<>> ELSE upTo[i - 1] \o parts[i]
  IN upTo[Len(parts)]

Punct(c) == << <<"punct", c>> >>
Raw(v)   == << <<"raw", v>> >>
JStr(v)  == << <<"jstr", v>> >>
CStr(v)  == << <<"cstr", v>> >>
Lit(v)   == << <<"lit", v>> >>
Num(v)   == << <<"num", v>> >>
JKey(k)  == << <<"key", k>> >> \o Punct(":")
Quoted(v) == Punct("\"") \o Raw(v) \o Punct("\"")
Newline  == Punct("\n")

\* PSLOG_APPLY_COLOR_FAST and the bare appends of a colour: nothing if it is
\* empty.
Color(s, c) == IF s.palette[c] > 0 THEN << <<"color", c>> >> ELSE <<>>

\* The colour of the console, applied only if colours are enabled.
ConsoleColor(s, c) == IF s.color THEN Color(s, c) ELSE <<>>

KeyLen(k) ==
  CASE k \in DOMAIN UserKeyLen -> UserKeyLen[k]
    [] k = "ts" -> 2
    [] k \in {"lvl", "msg"} -> 3
    [] k = "time" -> 4
    [] k = "level" -> 5
    [] k = "message" -> 7
    [] k = "loglevel" -> 8

\* The bytes of a token that may be part of a literal.
TokenLen(s, t) ==
  CASE t[1] = "color" -> s.palette[t[2]]
    [] t[1] = "key"   -> KeyLen(t[2]) + 2
    [] t[1] = "ckey"  -> KeyLen(t[2])
    [] t[1] = "punct" -> 1
    [] t[1] = "raw"   -> 7      \* a level name: "nolevel" at most

BufferLen(s, ts) ==
  LET upTo[i \in 0..Len(ts)] ==
        IF i = 0 THEN 0 ELSE upTo[i - 1] + TokenLen(s, ts[i])
  IN upTo[Len(ts)]

\* pslog_store_json_color_literal, and the tests after a kvfmt prefix: a text
\* that does not fit with its NUL is not kept, and the reader renders it anew.
Store(s, ts) == IF BufferLen(s, ts) + 1 > s.capacity THEN <<>> ELSE ts

-----------------------------------------------------------------------------
(* Levels.                                                                 *)

LevelString(l) ==
  CASE l = TRACE -> "trace" [] l = DEBUG -> "debug" [] l = WARN -> "warn"
    [] l = ERROR -> "error" [] l = FATAL -> "fatal" [] l = PANIC -> "panic"
    [] l = NOLEVEL -> "nolevel" [] l = DISABLED -> "disabled"
    [] OTHER -> "info"

ConsoleLabel(l) ==
  CASE l = TRACE -> "TRC" [] l = DEBUG -> "DBG" [] l = WARN -> "WRN"
    [] l = ERROR -> "ERR" [] l = FATAL -> "FTL" [] l = PANIC -> "PNC"
    [] l = NOLEVEL -> "---" [] OTHER -> "INF"

LevelColor(l) ==
  CASE l = NOLEVEL -> "null_value" [] l = DISABLED -> "info"
    [] OTHER -> LevelString(l)

\* The level whose literal a slot of the tables holds: the slots are the
\* levels that calls have, any other level takes the slot of INFO.
Slot(l) == IF l = DISABLED THEN INFO ELSE l

Slots == Level \ {DISABLED}

-----------------------------------------------------------------------------
(* The literals pslog_new renders.                                         *)

TimeKey(s)  == IF s.verbose THEN "time" ELSE "ts"
LevelKey(s) == IF s.verbose THEN "level" ELSE "lvl"
MsgKey(s)   == IF s.verbose THEN "message" ELSE "msg"

\* A level member in colours: the literal and the dynamic form append the same
\* parts in the same order.
ColorLevelMember(s, key, l) ==
  Color(s, "key") \o JKey(key) \o Color(s, LevelColor(l))
  \o Quoted(LevelString(l)) \o Color(s, "reset")

JsonColorLiterals(s) ==
  [level |-> [l \in Slots |-> Store(s, ColorLevelMember(s, LevelKey(s), l))],
   minLevel |-> [l \in Slots |-> Store(s, ColorLevelMember(s, "loglevel", l))],
   message |-> Store(s, Color(s, "message_key") \o JKey(MsgKey(s))
                          \o Color(s, "message")),
   tsPrefix |-> Store(s, Color(s, "key") \o JKey(TimeKey(s)) \o Color(s, "reset")
                           \o Color(s, "timestamp") \o Punct("\"")),
   tsSuffix |-> Store(s, Punct("\"") \o Color(s, "reset"))]

\* Mutant: the colour of a label is not ended.
LevelFragmentNoReset(s, l) ==
  LET c == LevelColor(l)
      fits == s.palette[c] + s.palette["reset"] + 3
                < CONSOLE_LEVEL_FRAGMENT_CAPACITY
  IN IF s.color /\ s.palette[c] > 0 /\ fits
     THEN Color(s, c) \o Raw(ConsoleLabel(l))
     ELSE Raw(ConsoleLabel(l))

\* A label that does not fit with its colour and the reset loses both.
LevelFragment(s, l) ==
  LET c == LevelColor(l)
      fits == s.palette[c] + s.palette["reset"] + 3
                < CONSOLE_LEVEL_FRAGMENT_CAPACITY
  IN IF s.color /\ s.palette[c] > 0 /\ fits
     THEN Color(s, c) \o Raw(ConsoleLabel(l)) \o Color(s, "reset")
     ELSE Raw(ConsoleLabel(l))

ConsoleMessagePrefix(s) == Punct(" ") \o ConsoleColor(s, "message")

Literals(s) ==
  [json |-> IF s.color THEN JsonColorLiterals(s) ELSE Null,
   fragment |-> [l \in Slots |-> LevelFragment(s, l)],
   conMessage |-> Store(s, ConsoleMessagePrefix(s))]

\* pslog_new: the settings and the literals rendered from them.
NewShared(settings) == [lits |-> Literals(settings)] @@ settings

-----------------------------------------------------------------------------
(* JSON: values, fields, lines.                                            *)

NonFinite == {"NaN", "+Inf", "-Inf"}

JsonDouble(s, v) ==
  IF v \notin NonFinite THEN Num(v)
  ELSE IF s.asNull THEN Lit("null") ELSE JStr(v)

JsonDoubleColor(s, v) ==
  IF v \notin NonFinite THEN "number"
  ELSE IF s.asNull THEN "null_value" ELSE "string"

JsonValuePlain(s, f) ==
  CASE f.type = "NULL" -> Lit("null")
    [] f.type \in {"STRING", "ERRNO"} -> JStr(f.val)
    [] f.type \in {"SIGNED", "UNSIGNED"} -> Num(f.val)
    [] f.type = "DOUBLE" -> JsonDouble(s, f.val)
    [] f.type = "BOOL" -> Lit(f.val)
    [] f.type \in {"POINTER", "BYTES", "TIME", "DURATION"} -> Quoted(f.val)

JsonValueColorOf(s, f) ==
  CASE f.type = "NULL" -> "null_value"
    [] f.type \in {"STRING", "POINTER", "BYTES", "DURATION"} -> "string"
    [] f.type \in {"SIGNED", "UNSIGNED"} -> "number"
    [] f.type = "DOUBLE" -> JsonDoubleColor(s, f.val)
    [] f.type = "BOOL" -> "boolean"
    [] f.type = "TIME" -> "timestamp"
    [] f.type = "ERRNO" -> "error"

JsonValueColor(s, f) ==
  Color(s, JsonValueColorOf(s, f)) \o JsonValuePlain(s, f) \o Color(s, "reset")

Comma(first) == IF first THEN <<>> ELSE Punct(",")

\* Mutant: a field without a key still writes its comma.
JsonFieldStrayComma(s, f, first) ==
  IF f.key = "" THEN Comma(first)
  ELSE Comma(first) \o (IF s.color THEN Color(s, "key") \o JKey(f.key)
                                        \o JsonValueColor(s, f)
                                   ELSE JKey(f.key) \o JsonValuePlain(s, f))

\* pslog_append_json_field_plain and _color: a field without a key is skipped.
JsonField(s, f, first) ==
  IF f.key = "" THEN <<>>
  ELSE Comma(first) \o (IF s.color THEN Color(s, "key") \o JKey(f.key)
                                        \o JsonValueColor(s, f)
                                   ELSE JKey(f.key) \o JsonValuePlain(s, f))

\* Every member but the first one follows the level, so first_field is 0.
JsonFields(s, fs) ==
  Join([i \in DOMAIN fs |-> JsonField(s, fs[i], FALSE)])

JsonTimestamp(s) ==
  IF ~s.color THEN JKey(TimeKey(s)) \o Quoted("now")
  ELSE LET c == s.lits.json IN
       IF c.tsPrefix # <<>> /\ c.tsSuffix # <<>>
       THEN c.tsPrefix \o Raw("now") \o c.tsSuffix
       ELSE Color(s, "key") \o JKey(TimeKey(s)) \o Color(s, "reset")
            \o Color(s, "timestamp") \o Quoted("now") \o Color(s, "reset")

\* The member of the call's level. A plain line takes it from a table.
JsonLevel(s, l) ==
  IF ~s.color THEN JKey(LevelKey(s)) \o Quoted(LevelString(Slot(l)))
  ELSE IF s.lits.json.level[Slot(l)] # <<>> THEN s.lits.json.level[Slot(l)]
  ELSE ColorLevelMember(s, LevelKey(s), l)

\* The member of the logger's minimum level. A plain line renders it as a field.
JsonMinLevel(s, l) ==
  IF ~s.color THEN JKey("loglevel") \o Quoted(LevelString(l))
  ELSE IF s.lits.json.minLevel[Slot(l)] # <<>>
       THEN s.lits.json.minLevel[Slot(l)]
  ELSE ColorLevelMember(s, "loglevel", l)

JsonMessage(s, msg) ==
  IF ~s.color THEN JKey(MsgKey(s)) \o JStr(msg)
  ELSE (IF s.lits.json.message # <<>> THEN s.lits.json.message
        ELSE Color(s, "message_key") \o JKey(MsgKey(s)) \o Color(s, "message"))
       \o JStr(msg) \o Color(s, "reset")

\* pslog_emit_json and pslog_emit_json_kvfmt; members are the call's own fields.
JsonLine(s, lg, level, msg, members) ==
  Punct("{")
  \o (IF s.timestamps THEN JsonTimestamp(s) ELSE <<>>)
  \o Comma(~s.timestamps) \o JsonLevel(s, level)
  \o (IF msg # "" THEN Comma(FALSE) \o JsonMessage(s, msg) ELSE <<>>)
  \o (IF lg.prefix # <<>> THEN lg.prefix ELSE JsonFields(s, lg.fields))
  \o members
  \o (IF lg.levelField THEN Comma(FALSE) \o JsonMinLevel(s, lg.min) ELSE <<>>)
  \o Punct("}") \o Newline

-----------------------------------------------------------------------------
(* JSON from a kvfmt: a spec is a key and an argument type, k.val the      *)
(* argument; a NULL string argument is "NULL".                             *)

KvString(v) == IF v = "NULL" THEN "" ELSE v

\* The key as pslog_prepare_kvfmt_cache_entry rendered it, or rendered now.
JsonKvKey(s, k) ==
  LET key == (IF s.color THEN Color(s, "key") ELSE <<>>) \o JKey(k.key)
      json_color_prefix == Store(s, key)
  IN IF json_color_prefix # <<>> THEN json_color_prefix ELSE key

JsonKvValuePlain(s, k) ==
  CASE k.arg = "STRING" -> JStr(KvString(k.val))
    [] k.arg \in {"SIGNED_INT", "SIGNED_LONG", "UNSIGNED_INT", "UNSIGNED_LONG"}
         -> Num(k.val)
    [] k.arg = "DOUBLE" -> JsonDouble(s, k.val)
    [] k.arg = "POINTER" -> Quoted(k.val)
    [] k.arg = "BOOL" -> Lit(k.val)
    [] k.arg = "ERRNO" -> JStr(k.val)

JsonKvColorOf(s, k) ==
  CASE k.arg \in {"STRING", "POINTER"} -> "string"
    [] k.arg = "DOUBLE" -> JsonDoubleColor(s, k.val)
    [] k.arg = "BOOL" -> "boolean"
    [] k.arg = "ERRNO" -> "error"
    [] OTHER -> "number"

JsonKvValue(s, k) ==
  IF s.color THEN Color(s, JsonKvColorOf(s, k)) \o JsonKvValuePlain(s, k)
                  \o Color(s, "reset")
             ELSE JsonKvValuePlain(s, k)

JsonKvFields(s, ks) ==
  Join([i \in DOMAIN ks |-> Comma(FALSE) \o JsonKvKey(s, ks[i])
                            \o JsonKvValue(s, ks[i])])

-----------------------------------------------------------------------------
(* Console: fields, lines, kvfmt.                                          *)

CKey(k) == << <<"ckey", k>> >> \o Punct("=")

ConsoleValueRaw(f) ==
  CASE f.type = "NULL" -> Lit("null")
    [] f.type \in {"STRING", "ERRNO"} -> CStr(f.val)
    [] f.type \in {"SIGNED", "UNSIGNED", "DOUBLE"} -> Num(f.val)
    [] f.type = "BOOL" -> Lit(f.val)
    [] f.type = "BYTES" -> Quoted(f.val)
    [] f.type \in {"POINTER", "TIME", "DURATION"} -> Raw(f.val)

ConsoleValueColor(type) ==
  CASE type = "NULL" -> "null_value"
    [] type \in {"STRING", "BYTES", "DURATION"} -> "string"
    [] type \in {"SIGNED", "UNSIGNED", "DOUBLE", "POINTER"} -> "number"
    [] type = "BOOL" -> "boolean"
    [] type = "TIME" -> "timestamp"
    [] type = "ERRNO" -> "error"

\* The field whose prefix does not fit the cache.
ConsoleFieldFallback(s, f) ==
  Punct(" ") \o ConsoleColor(s, "reset") \o ConsoleColor(s, "key") \o CKey(f.key)
  \o ConsoleColor(s, "reset")
  \o ConsoleColor(s, ConsoleValueColor(f.type)) \o ConsoleValueRaw(f)

\* The text of a prefix of the console prefix cache.
ConsolePrefix(s, f) ==
  ConsoleColor(s, "reset") \o Punct(" ") \o ConsoleColor(s, "key") \o CKey(f.key)
  \o ConsoleColor(s, "reset") \o ConsoleColor(s, ConsoleValueColor(f.type))

ConsoleField(s, f) ==
  LET prefix == Store(s, ConsolePrefix(s, f))
  IN IF f.key = "" THEN <<>>
     ELSE IF prefix # <<>> THEN prefix \o ConsoleValueRaw(f)
     ELSE ConsoleFieldFallback(s, f)

ConsoleFields(s, fs) ==
  Join([i \in DOMAIN fs |-> ConsoleField(s, fs[i])])

\* Mutant: the layout prepared for a kvfmt takes every value for a string.
KvColorString(arg) == IF arg = "ERRNO" THEN "" ELSE "string"

\* The colour a prepared layout carries; the value of an errno brings its own.
KvColor(arg) ==
  CASE arg = "STRING" -> "string"
    [] arg = "BOOL" -> "boolean"
    [] arg = "ERRNO" -> ""
    [] OTHER -> "number"

ConsoleKvHead(s, k) ==
  ConsoleColor(s, "reset") \o Punct(" ") \o ConsoleColor(s, "key") \o CKey(k.key)
  \o ConsoleColor(s, "reset")

ConsoleKvPrefix(s, k) ==
  LET prepared == Store(s, ConsoleKvHead(s, k)
                             \o IF KvColor(k.arg) = "" THEN <<>>
                                ELSE ConsoleColor(s, KvColor(k.arg)))
      color == IF k.arg = "ERRNO" THEN "error" ELSE KvColor(k.arg)
  IN IF prepared # <<>> THEN prepared
     ELSE ConsoleKvHead(s, k) \o ConsoleColor(s, color)

ConsoleKvValue(s, k) ==
  CASE k.arg = "STRING" -> CStr(KvString(k.val))
    [] k.arg = "POINTER" -> Raw(k.val)
    [] k.arg = "BOOL" -> Lit(k.val)
    [] k.arg = "ERRNO" -> ConsoleColor(s, "error") \o CStr(k.val)
    [] OTHER -> Num(k.val)

ConsoleKvFields(s, ks) ==
  Join([i \in DOMAIN ks |-> ConsoleKvPrefix(s, ks[i])
                            \o ConsoleKvValue(s, ks[i])])

MinLevelField(l) == [key |-> "loglevel", type |-> "STRING", val |-> LevelString(l)]

\* pslog_emit_console and pslog_emit_console_kvfmt.
ConsoleLine(s, lg, level, msg, members) ==
  (IF s.timestamps THEN ConsoleColor(s, "timestamp") \o Raw("now") \o Punct(" ")
                   ELSE <<>>)
  \o s.lits.fragment[Slot(level)]
  \o (IF msg = "" THEN <<>>
      ELSE (IF s.lits.conMessage # <<>> THEN s.lits.conMessage
                                        ELSE ConsoleMessagePrefix(s))
           \o CStr(msg))
  \o (IF lg.prefix # <<>> THEN lg.prefix ELSE ConsoleFields(s, lg.fields))
  \o members
  \o (IF lg.levelField THEN ConsoleField(s, MinLevelField(lg.min)) ELSE <<>>)
  \o ConsoleColor(s, "reset") \o Newline

-----------------------------------------------------------------------------
(* Loggers and calls.                                                      *)

\* pslog_build_field_prefix: what every line of a child repeats.
FieldPrefix(s, fs) ==
  IF s.mode = "json" THEN JsonFields(s, fs) ELSE ConsoleFields(s, fs)

\* pslog_materialize_kvfmt_fields: the fields a layout and its arguments stand
\* for.
FieldOfSpec(k) ==
  [key |-> k.key,
   type |-> CASE k.arg \in {"SIGNED_INT", "SIGNED_LONG"} -> "SIGNED"
              [] k.arg \in {"UNSIGNED_INT", "UNSIGNED_LONG"} -> "UNSIGNED"
              [] OTHER -> k.arg,
   val |-> IF k.arg = "STRING" THEN KvString(k.val) ELSE k.val]

Materialize(ks) == [i \in DOMAIN ks |-> FieldOfSpec(ks[i])]

Emit(s, lg, level, msg, fs) ==
  IF s.mode = "json" THEN JsonLine(s, lg, level, msg, JsonFields(s, fs))
                     ELSE ConsoleLine(s, lg, level, msg, ConsoleFields(s, fs))

EmitKvfmt(s, lg, level, msg, ks) ==
  IF s.mode = "json" THEN JsonLine(s, lg, level, msg, JsonKvFields(s, ks))
                     ELSE ConsoleLine(s, lg, level, msg, ConsoleKvFields(s, ks))

Settings ==
  [mode : Modes, color : BOOLEAN, timestamps : BOOLEAN, verbose : BOOLEAN,
   asNull : BOOLEAN, palette : Palettes, capacity : {LITERAL_CAPACITY}]

\* A plain logger takes no notice of its palette, and a console logger none of
\* the field names and the policy for doubles: one value stands for all. The names
\* and the policy are about different members and change together.
Distinct(st) ==
  /\ ~st.color => st.palette = CHOOSE p \in Palettes : TRUE
  /\ st.mode = "console" => ~st.verbose
  /\ st.asNull = st.verbose

Init ==
  /\ shared = Null /\ logger = Null /\ call = Null
  /\ derived = 0 /\ line = <<>>

New ==
  /\ shared = Null
  /\ \E st \in Settings, min \in MinLevels, levelField \in BOOLEAN :
       /\ Distinct(st)
       /\ shared' = NewShared(st)
       /\ logger' = [fields |-> <<>>, prefix |-> <<>>, min |-> min,
                     levelField |-> levelField]
  /\ UNCHANGED <<derived, call, line>>

\* pslog_clone_with_fields: all fields, those of the parent first.
Clone(lg, fs) ==
  LET all == lg.fields \o fs
  IN [lg EXCEPT !.fields = all, !.prefix = FieldPrefix(shared, all)]

Derive ==
  /\ shared # Null /\ derived < MaxWith /\ line = <<>>
  /\ derived' = derived + 1
  /\ \/ \E fs \in FieldLists : logger' = Clone(logger, fs)
     \/ \E ks \in KvLists : logger' = Clone(logger, Materialize(ks))
     \/ \E min \in MinLevels : logger' = [Clone(logger, <<>>) EXCEPT !.min = min]
     \/ logger' = [Clone(logger, <<>>) EXCEPT !.levelField = TRUE]
  /\ UNCHANGED <<shared, call, line>>

\* pslog_log_impl
Log(level, msg, fs) ==
  /\ LevelEnabled(logger.min, level)
  /\ call' = [at |-> "log", level |-> level, msg |-> msg, fields |-> fs]
  /\ line' = Emit(shared, logger, level, msg, fs)
  /\ UNCHANGED <<shared, logger, derived>>

\* pslog_vlogf_impl with a kvfmt that parses
Logf(level, msg, ks) ==
  /\ LevelEnabled(logger.min, level)
  /\ call' = [at |-> "logf", level |-> level, msg |-> msg,
              fields |-> Materialize(ks)]
  /\ line' = EmitKvfmt(shared, logger, level, msg, ks)
  /\ UNCHANGED <<shared, logger, derived>>

Call ==
  /\ shared # Null /\ line = <<>>
  /\ \E level \in CallLevels, msg \in Messages :
       \/ \E fs \in FieldLists : Log(level, msg, fs)
       \/ \E ks \in KvLists : Logf(level, msg, ks)

LineDone == line # <<>> /\ UNCHANGED vars

Next == New \/ Derive \/ Call \/ LineDone

Spec == Init /\ [][Next]_vars

-----------------------------------------------------------------------------
(* How a line is read.                                                     *)

\* The line without its colours.
Strip(ts) == SelectSeq(ts, LAMBDA t : t[1] # "color")

\* A member of a JSON object: a key and a value, which is one token or the bytes
\* between two quotes.
IsMember(m) ==
  /\ Len(m) \in {3, 5} /\ m[1][1] = "key" /\ m[2] = <<"punct", ":">>
  /\ IF Len(m) = 3 THEN m[3][1] \in {"jstr", "lit", "num"}
     ELSE m[3] = <<"punct", "\"">> /\ m[4][1] = "raw" /\ m[5] = <<"punct", "\"">>

\* Reads a line as a JSON object, the commas in which separate the members.
ReadJson(ts) ==
  LET text == Strip(ts)
      n == Len(text)
      between(i) == i \in 2..(n - 2) /\ text[i] = <<"punct", ",">>
      ends == <<1>> \o SelectSeq([i \in 1..n |-> i], between) \o <<n - 1>>
      parts == IF n = 3 THEN <<>>
               ELSE [k \in 1..(Len(ends) - 1) |-> SubSeq(text, ends[k] + 1, ends[k + 1] - 1)]
      object == /\ n >= 3 /\ text[1] = <<"punct", "{">>
                /\ text[n - 1] = <<"punct", "}">> /\ text[n] = <<"punct", "\n">>
                /\ \A k \in DOMAIN parts : IsMember(parts[k])
  IN [object |-> object,
      members |-> IF object
                  THEN [k \in DOMAIN parts |-> <<parts[k][1][2],
                                                 parts[k][IF Len(parts[k]) = 3 THEN 3 ELSE 4][2]>>]
                  ELSE <<>>]

\* What is seen: every token with the colours in force since the last reset; a
\* space shows none.
Look(ts) ==
  LET on[i \in 1..(Len(ts) + 1)] ==
        IF i = 1 \/ ts[i - 1] = <<"color", "reset">> THEN {}
        ELSE IF ts[i - 1][1] = "color" THEN on[i - 1] \cup {ts[i - 1][2]} ELSE on[i - 1]
      at == SelectSeq([i \in DOMAIN ts |-> i], LAMBDA i : ts[i][1] # "color")
      plain == Len(at) = Len(ts)
  IN [on |-> IF plain THEN {} ELSE on[Len(ts) + 1],
      seen |-> [k \in DOMAIN at |->
                  <<ts[at[k]], IF plain \/ ts[at[k]][2] = " " THEN {} ELSE on[at[k]]>>]]

-----------------------------------------------------------------------------
(* Properties.                                                             *)

JsonValueText(f) ==
  CASE f.type = "NULL" -> "null"
    [] f.type = "DOUBLE" /\ f.val \in NonFinite /\ shared.asNull -> "null"
    [] OTHER -> f.val

(***************************************************************************)
(* The thresholds a line may name as the logger's own. The slots of the    *)
(* coloured literals have none for DISABLED, so that coloured JSON names   *)
(* INFO for it where the literal fits (pslog_json_level_slot): the one     *)
(* member that is not what the logger has, and an exception to the         *)
(* properties below.                                                       *)
(***************************************************************************)
NamedThresholds ==
  {logger.min} \cup
    (IF shared.mode = "json" /\ shared.color /\ logger.min = DISABLED
     THEN {INFO} ELSE {})

\* The members the caller asked for, in order, with the threshold named.
Members(threshold) ==
  LET own == SelectSeq(logger.fields \o call.fields, LAMBDA f : f.key # "")
  IN (IF shared.timestamps THEN << <<TimeKey(shared), "now">> >> ELSE <<>>)
     \o << <<LevelKey(shared), LevelString(call.level)>> >>
     \o (IF call.msg # "" THEN << <<MsgKey(shared), call.msg>> >> ELSE <<>>)
     \o [i \in DOMAIN own |-> <<own[i].key, JsonValueText(own[i])>>]
     \o (IF logger.levelField
         THEN << <<"loglevel", LevelString(threshold)>> >> ELSE <<>>)

(***************************************************************************)
(* A JSON line, read without its colours, is one object whose members are  *)
(* the timestamp, the level, the message, the fields of the logger and of  *)
(* the call that have keys, and the threshold (NamedThresholds: INFO may   *)
(* stand for DISABLED in colours), in this order, whatever mixture of      *)
(* literals, prefixes and dynamic parts it was put together from           *)
(* (pslog_emit_json, pslog_emit_json_kvfmt).                               *)
(***************************************************************************)
JsonIsObject ==
  line # <<>> /\ shared.mode = "json" =>
    LET r == ReadJson(line)
    IN r.object /\ \E min \in NamedThresholds : r.members = Members(min)

(***************************************************************************)
(* Colours only decorate: without them the line is, byte for byte, the     *)
(* line the same logger would have written with colours disabled, but for  *)
(* a threshold of DISABLED that coloured JSON calls INFO.                  *)
(***************************************************************************)
ColorOnlyDecorates ==
  line # <<>> /\ shared.color =>
    LET plain == NewShared([x \in DOMAIN shared \ {"lits"} |->
                              IF x = "color" THEN FALSE ELSE shared[x]])
        lg == [logger EXCEPT !.prefix = FieldPrefix(plain, logger.fields)]
    IN \E min \in NamedThresholds :
         Strip(line) = Emit(plain, [lg EXCEPT !.min = min],
                            call.level, call.msg, call.fields)

(***************************************************************************)
(* All routes to a line look the same: log() or logf(), with() or withf(), *)
(* parts rendered once or anew. The reference is a logger with no prefix   *)
(* and no room for a literal, given the fields as such; the fragments of   *)
(* the levels are the same in both. Of a DISABLED threshold a literal may  *)
(* say INFO.                                                               *)
(***************************************************************************)
RoutesAgree ==
  line # <<>> =>
    LET anew == NewShared([x \in DOMAIN shared \ {"lits"} |->
                             IF x = "capacity" THEN 0 ELSE shared[x]])
    IN \E min \in NamedThresholds :
         Look(line) = Look(Emit(anew, [logger EXCEPT !.prefix = <<>>, !.min = min],
                                call.level, call.msg, call.fields))

(***************************************************************************)
(* How far a colour reaches, if the palette has a reset at all. None is    *)
(* left on at the end of a line, at the punctuation between two JSON       *)
(* members or at a key, and a console value shows one colour, none of them *)
(* of a key or the message. On the console the colour of the timestamp is  *)
(* not reset behind it (pslog_emit_console): it is on, below the level's   *)
(* own, at the label, and reaches no further than the label if the         *)
(* fragment of the level has a colour and so a reset; otherwise, because   *)
(* the level has no colour or one too long for the fragment, it is on at   *)
(* the message too, and no further.                                        *)
(***************************************************************************)
NoColorLeak ==
  line # <<>> /\ shared.palette["reset"] > 0 =>
    LET seen == Look(line).seen
        console == shared.mode = "console"
        label == IF shared.timestamps THEN 3 ELSE 1
        own == LevelColor(call.level)
        stamp == IF shared.timestamps THEN {"timestamp"} ELSE {}
        resets == shared.palette[own] \in
                    1..(CONSOLE_LEVEL_FRAGMENT_CAPACITY - shared.palette["reset"] - 4)
        values == {"string", "number", "boolean", "null_value", "timestamp", "error"}
    IN /\ \A i \in DOMAIN seen :
            LET t == seen[i][1] on == seen[i][2]
            IN /\ t \in {<<"punct", "\n">>, <<"punct", ",">>, <<"punct", "{">>,
                         <<"punct", "}">>} => on = {}
               /\ t[1] = "key" => on \subseteq {"key", "message_key"}
               /\ t[1] = "ckey" => on \subseteq {"key"}
               /\ i > 1 /\ seen[i - 1][1] = <<"punct", "=">> =>
                    on \subseteq values /\ Cardinality(on) <= 1
       /\ console =>
            /\ seen[label][1] = <<"raw", ConsoleLabel(call.level)>>
            /\ seen[label][2] \subseteq {own} \cup stamp
       /\ console /\ call.msg # "" =>
            /\ seen[label + 2][1] = <<"cstr", call.msg>>
            /\ seen[label + 2][2] \subseteq
                 {"message"} \cup (IF resets THEN {} ELSE stamp)

(***************************************************************************)
(* Colours only decorate: without them the line is byte for byte the plain *)
(* one, but for a DISABLED threshold in JSON, and each reaches no further  *)
(* than its part of the line, but for the timestamp's on the console.      *)
(***************************************************************************)
ColorsAside == ColorOnlyDecorates /\ NoColorLeak
=============================================================================
