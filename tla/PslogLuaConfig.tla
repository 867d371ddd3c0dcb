---------------------------- MODULE PslogLuaConfig ----------------------------
(***************************************************************************)
(* How the Lua binding makes a logger of a table of options: pslog.new,    *)
(* new_json and from_env, the options one after the other, each of which   *)
(* may raise an error, the output last, and what becomes of the output     *)
(* afterwards, also when Lua has no memory for the object of the logger.   *)
(* The environment is taken to be empty: PslogEnv.                         *)
(*                                                                         *)
(* Values are strings: "nil", "true", "false", "bad" (of a type the option *)
(* does not take), and the texts and numbers the code tells apart.         *)
(***************************************************************************)
EXTENDS Naturals, Sequences

CONSTANTS
  Tables,    \* tables of options: a value for every option
  Outputs,   \* first arguments of pslog.new, "nil" included
  MaxCalls   \* bound: constructors called

\* Mutant: the output is opened before the other options are looked at.
OptionsOutputFirst ==
  <<"output", "mode", "color", "no_color", "force_color", "disable_timestamp", "utc",
    "with_level_field", "verbose_fields", "time_format",
    "line_buffer_capacity", "min_level", "palette",
    "non_finite_float_policy">>

\* The order in which pslua_parse_config reads them.
Options ==
  <<"mode", "color", "no_color", "force_color", "disable_timestamp", "utc",
    "with_level_field", "verbose_fields", "time_format",
    "line_buffer_capacity", "min_level", "palette",
    "non_finite_float_policy", "output">>

Names == {Options[i] : i \in DOMAIN Options}

ASSUME LuaConfigAssumption ==
  /\ MaxCalls \in Nat /\ "nil" \in Outputs
  /\ \A t \in Tables : t = [n \in Names |-> t[n]]   \* a value for every option

VARIABLES
  written,  \* the table as the caller wrote it
  opts,     \* the caller's table
  kind,     \* the constructor in progress or called last
  arg,      \* its first argument
  at,       \* the option to be read next; 0 outside a call
  table,    \* the table the constructor reads
  config,   \* pslog_config
  held,     \* what the binding has opened or registered: the constructor that did,
            \* by its number, and the output
  handle,   \* the caller's Lua file: its state, and whether a variable has it
  logger,   \* none, open, closed
  calls,    \* constructors called
  lost      \* history: the constructors for which Lua ran out of memory with their
            \* output open

configVars == <<written, opts, kind, arg, at, table, config, held, handle, logger, calls, lost>>

\* pslog_default_config
DefaultConfig ==
  [mode |-> "CONSOLE", color |-> "AUTO", timestamps |-> TRUE, utc |-> FALSE,
   with_level_field |-> FALSE, verbose_fields |-> FALSE, time_format |-> "nil",
   line_buffer_capacity |-> "default", min_level |-> "debug", palette |-> "default",
   policy |-> "STRING", output |-> "stdout"]

NoTable == [o \in Names |-> "nil"]

ConfigInit ==
  /\ written \in Tables /\ opts = written
  /\ kind = "none" /\ arg = "nil" /\ at = 0 /\ table = NoTable
  /\ config = DefaultConfig /\ held = {}
  /\ handle = [state |-> "open", var |-> TRUE]
  /\ logger = "none" /\ calls = 0 /\ lost = {}

-----------------------------------------------------------------------------
(* init.lua.                                                               *)

\* normalize_options, of a copy of the caller's table, and the mode new_json
\* then sets; from_env passes the table on.
NormalizeOptions(o, k) ==
  [caller |-> opts,
   read |-> [opts EXCEPT !["output"] = IF o = "nil" THEN @ ELSE o,
                         !["mode"] = IF k = "new_json" THEN "json" ELSE @]]

Construct(k, o) ==
  /\ at = 0 /\ logger = "none" /\ calls < MaxCalls
  /\ o = "file" => handle.var
  /\ kind' = k /\ arg' = o /\ at' = 1 /\ calls' = calls + 1
  /\ opts' = NormalizeOptions(o, k).caller
  /\ table' = NormalizeOptions(o, k).read
  /\ config' = DefaultConfig
  /\ UNCHANGED <<written, held, handle, logger, lost>>

-----------------------------------------------------------------------------
(* pslua_parse_config.                                                     *)

Truthy(v) == v # "false"

Mode(v) ==
  CASE v = "console" -> "CONSOLE" [] v \in {"json", "structured"} -> "JSON"
    [] OTHER -> "error"

ColorMode(v) ==
  CASE v = "auto" -> "AUTO" [] v \in {"never", "off", "false text"} -> "NEVER"
    [] v \in {"always", "on", "true text"} -> "ALWAYS" [] OTHER -> "error"

Policy(v) == CASE v = "string" -> "STRING" [] v = "null" -> "NULL" [] OTHER -> "error"

\* An integer is taken as it is, a text has to name a level.
LevelArg(v) == IF v \in {"warn", "1", "99"} THEN v ELSE "error"

\* pslog_palette_by_name: the default for a name it does not know.
Palette(v) == CASE v = "bad" -> "error" [] v = "nord" -> "nord" [] OTHER -> "default"

Set(name, v) == [config EXCEPT ![name] = v]

\* The configuration with an option that is not nil; some field is "error" if
\* it is refused.
Parsed(o, v) ==
  CASE o = "mode" -> Set("mode", Mode(v))
    [] o = "color" -> Set("color", ColorMode(v))
    [] o = "no_color" -> IF Truthy(v) THEN Set("color", "NEVER") ELSE config
    [] o = "force_color" -> IF Truthy(v) THEN Set("color", "ALWAYS") ELSE config
    [] o = "disable_timestamp" -> Set("timestamps", ~Truthy(v))
    [] o \in {"utc", "with_level_field", "verbose_fields"} -> Set(o, Truthy(v))
    [] o \in {"time_format", "line_buffer_capacity"} ->
         Set(o, IF v = "bad" THEN "error" ELSE v)
    [] o = "min_level" -> Set("min_level", LevelArg(v))
    [] o = "palette" -> Set("palette", Palette(v))
    [] o = "non_finite_float_policy" -> Set("policy", Policy(v))

Refused(c) ==
  "error" \in {c.mode, c.color, c.time_format, c.line_buffer_capacity, c.min_level,
               c.palette, c.policy}

\* A Lua error ends the constructor.
Raise == at' = 0 /\ kind' = "raised"

Option ==
  /\ at \in DOMAIN Options /\ Options[at] # "output"
  /\ LET o == Options[at]
         c == IF table[o] = "nil" THEN config ELSE Parsed(o, table[o])
     IN IF Refused(c) THEN Raise /\ UNCHANGED config
        ELSE config' = c /\ at' = at + 1 /\ UNCHANGED kind
  /\ UNCHANGED <<written, opts, arg, table, held, handle, logger, calls, lost>>

\* What the constructor in progress has opened, or the logger in use has.
Own == <<calls, config.output>>

\* pslua_parse_output: opening a path and allocating for a function may fail, a
\* closed file is refused; a file stays the caller's. Lua may have no memory to
\* register the function, when its pslua_callback_output has been allocated.
ParseOutput ==
  /\ at \in DOMAIN Options /\ Options[at] = "output"
  /\ LET v == table["output"]
     IN \/ /\ v \in {"nil", "stdout", "default", "stderr"} \/ (v = "file" /\ handle.state = "open")
           /\ config' = Set("output", IF v \in {"nil", "default"} THEN "stdout" ELSE v)
           /\ at' = at + 1
           /\ UNCHANGED <<kind, held, lost>>
        \/ /\ v \in {"path", "function"}
           /\ config' = Set("output", v) /\ held' = held \cup {<<calls, v>>}
           /\ at' = at + 1
           /\ UNCHANGED <<kind, lost>>
        \/ /\ v \in {"path", "function", "bad"} \/ (v = "file" /\ handle.state # "open")
           /\ Raise /\ UNCHANGED <<config, held, lost>>
        \/ /\ v = "function"
           /\ held' = held \cup {<<calls, v>>} /\ lost' = lost \cup {calls}
           /\ Raise /\ UNCHANGED config
  /\ UNCHANGED <<written, opts, arg, table, handle, logger, calls>>

(***************************************************************************)
(* pslua_new_logger and pslua_new_logger_from_env: pslog_new refuses a     *)
(* capacity of the largest size_t and may run out of memory. Its owned     *)
(* output is destroyed then (once more than it should be, see              *)
(* PslogConstruct). If it succeeds, pslua_push_logger may find that Lua    *)
(* has no memory for the object (lua_newuserdatauv raises): nobody has the *)
(* logger then, and its output stays open.                                 *)
(***************************************************************************)
MakeLogger ==
  /\ at > Len(Options)
  /\ \/ /\ config.line_buffer_capacity # "max"
        /\ logger' = "open" /\ at' = 0
        /\ UNCHANGED <<kind, held, lost>>
     \/ /\ held' = held \ {Own}
        /\ Raise /\ UNCHANGED <<logger, lost>>
     \/ /\ config.line_buffer_capacity # "max"
        /\ lost' = lost \cup {calls}
        /\ Raise /\ UNCHANGED <<logger, held>>
  /\ UNCHANGED <<written, opts, arg, table, config, handle, calls>>

-----------------------------------------------------------------------------
(* Afterwards.                                                             *)

CloseLogger ==
  /\ logger = "open"
  /\ logger' = "closed" /\ held' = held \ {Own}
  /\ UNCHANGED <<written, opts, kind, arg, at, table, config, handle, calls, lost>>

CollectLogger ==
  /\ at = 0 /\ logger # "none"
  /\ logger' = "none" /\ held' = held \ {Own}
  /\ UNCHANGED <<written, opts, kind, arg, at, table, config, handle, calls, lost>>

\* The caller's variable for the file is gone; a table may still have it.
DropFile ==
  /\ handle.var /\ handle' = [handle EXCEPT !.var = FALSE]
  /\ UNCHANGED <<written, opts, kind, arg, at, table, config, held, logger, calls, lost>>

\* Lua closes a file nothing refers to: no variable, not the caller's table, and
\* no constructor that has its table or argument on the stack.
CollectFile ==
  /\ handle = [state |-> "open", var |-> FALSE]
  /\ opts["output"] # "file" /\ ~(at # 0 /\ table["output"] = "file")
  /\ handle' = [handle EXCEPT !.state = "collected"]
  /\ UNCHANGED <<written, opts, kind, arg, at, table, config, held, logger, calls, lost>>

ConfigNext ==
  \/ \E k \in {"new", "new_json"}, o \in Outputs : Construct(k, o)
  \/ Construct("from_env", "nil")
  \/ Option \/ ParseOutput \/ MakeLogger
  \/ CloseLogger \/ CollectLogger \/ DropFile \/ CollectFile

ConfigSpec == ConfigInit /\ [][ConfigNext]_configVars

-----------------------------------------------------------------------------
(* Properties.                                                             *)

\* A switch that the caller has set.
Given(o) == written[o] # "nil" /\ Truthy(written[o])

\* The value of an option, or the default for it.
Otherwise(o, default) == IF written[o] = "nil" THEN default ELSE written[o]

\* What the caller has asked for. A palette that is not built in is the default one.
Asked ==
  [mode |-> IF kind = "new_json" \/ written["mode"] \in {"json", "structured"}
            THEN "JSON" ELSE "CONSOLE",
   color |-> IF Given("force_color") THEN "ALWAYS"
             ELSE IF Given("no_color") THEN "NEVER"
             ELSE IF written["color"] = "nil" THEN "AUTO"
             ELSE ColorMode(written["color"]),
   timestamps |-> ~Given("disable_timestamp"),
   utc |-> Given("utc"),
   with_level_field |-> Given("with_level_field"),
   verbose_fields |-> Given("verbose_fields"),
   time_format |-> written["time_format"],
   line_buffer_capacity |-> Otherwise("line_buffer_capacity", "default"),
   min_level |-> Otherwise("min_level", "debug"),
   palette |-> IF written["palette"] = "nord" THEN "nord" ELSE "default",
   policy |-> IF written["non_finite_float_policy"] = "null" THEN "NULL" ELSE "STRING",
   output |-> LET o == IF arg # "nil" THEN arg ELSE written["output"]
              IN IF o \in {"nil", "default"} THEN "stdout" ELSE o]

(***************************************************************************)
(* A logger has the settings, all twelve of them, that the table says as   *)
(* its caller wrote it, however often the table has been used: the mode    *)
(* and the output that new_json and the first argument set are those of    *)
(* one logger only, and force_color goes before no_color and color. A      *)
(* palette of an unknown name is the default one, and an integer is a      *)
(* level whatever it is: InvalidRefused.                                   *)
(***************************************************************************)
TableObeyed == logger # "none" => config = Asked

\* What is held for a logger that an object of Lua has.
Known == {h \in held : h[1] \notin lost}

(***************************************************************************)
(* What the binding has opened or registered belongs to the logger that    *)
(* writes to it: none is left when a constructor has raised an error, for  *)
(* whatever option, or when the logger is closed or gone, and a logger     *)
(* that is open has its own. The exception is a constructor that Lua had   *)
(* no memory to finish behind its output, in lost.                         *)
(***************************************************************************)
NothingHeld ==
  /\ at = 0 /\ logger # "open" => Known = {}
  /\ logger = "open" => Known = {h \in {Own} : config.output \in {"path", "function"}}

(***************************************************************************)
(* Options: a logger has the configuration its table says, also the second *)
(* one made of the table, and nothing opened or registered for a logger    *)
(* outlives it or a construction that failed, unless it failed because Lua *)
(* was out of memory once the output was there.                            *)
(***************************************************************************)
ConfigAsWritten == TableObeyed /\ NothingHeld

(***************************************************************************)
(* The Lua README of the options: "Invalid option values fail immediately  *)
(* with Lua errors. The binding does not silently coerce unknown strings   *)
(* or ignore malformed configuration." So no logger is made of a table     *)
(* with a palette that is not built in or a level that is none.            *)
(***************************************************************************)
InvalidRefused ==
  logger # "none" =>
    /\ written["palette"] \in {"nil", "nord"}
    /\ written["min_level"] \in {"nil", "warn", "1"}

(***************************************************************************)
(* The stream of a logger that can write is open: the Lua README allows    *)
(* for an output "a Lua file handle such as `io.stdout`, `io.stderr`, or   *)
(* `io.open(...)`".                                                        *)
(***************************************************************************)
FileNotCollected ==
  logger = "open" /\ config.output = "file" => handle.state = "open"
=============================================================================
