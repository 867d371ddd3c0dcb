----------------------------- MODULE MCPslogLua -----------------------------
(***************************************************************************)
(* The Lua binding for TLC: logger objects, references and callbacks       *)
(* (PslogLuaObject), the fields of a call (PslogLuaCall) and the options   *)
(* of a constructor (PslogLuaConfig). A behaviour is one of one component, *)
(* part; the others stay as they began.                                    *)
(***************************************************************************)
EXTENDS PslogLuaObject, PslogLuaCall, PslogLuaConfig, TLC

\* Two trees, so that a callback can log to the other one; three objects, so that
\* one of a tree can be collected while another one writes.
Symmetry == Permutations(Objects) \cup Permutations(Trees)

\* Calls: every combination of up to three entries with strings or objects in
\* both forms, so that the capacity doubles once; inner calls of up to two scalar
\* entries.
EntrySet(keys, values) == [key : keys, value : values]

UpTo(S, n) == UNION {[1..k -> S] : k \in 0..n}

AllCalls ==
  [form : {"table", "pairs"}, entries : UpTo(EntrySet({"str", "num"}, {"string", "object"}), 3)
                                        \cup UpTo(EntrySet({"str", "num"},
                                                      {"scalar", "string", "wrapper", "object"}), 1)]
  \cup [form : {"table", "pairs", "odd"},
        entries : {<<[key |-> "str", value |-> "object"], [key |-> "bad", value |-> "string"]>>}]

SmallCalls ==
  [form : {"table", "pairs"}, entries : UpTo(EntrySet({"str"}, {"scalar"}), 2)]

\* Options: those that work on the same setting together, and every other value of
\* every option together with every output.
NoOptions ==
  [n \in {"mode", "color", "no_color", "force_color", "disable_timestamp", "utc",
          "with_level_field", "verbose_fields", "time_format", "line_buffer_capacity",
          "min_level", "palette", "non_finite_float_policy", "output"} |-> "nil"]

AllOutputs == {"nil", "default", "stderr", "path", "function", "file", "bad"}

MCTables ==
  {[NoOptions EXCEPT !["color"] = c, !["no_color"] = n, !["force_color"] = f, !["output"] = "path"] :
     c \in {"nil", "auto", "off", "on", "bad"}, n, f \in {"nil", "true", "false"}}
  \cup {[NoOptions EXCEPT ![e[1]] = e[2], !["output"] = o] :
          e \in {<<"mode", "json">>, <<"mode", "console">>, <<"mode", "bad">>,
                 <<"disable_timestamp", "true">>, <<"utc", "true">>,
                 <<"with_level_field", "false">>, <<"verbose_fields", "true">>,
                 <<"time_format", "text">>, <<"time_format", "bad">>,
                 <<"line_buffer_capacity", "64">>, <<"line_buffer_capacity", "max">>,
                 <<"line_buffer_capacity", "bad">>, <<"min_level", "warn">>,
                 <<"min_level", "99">>, <<"min_level", "bad">>, <<"palette", "nord">>,
                 <<"palette", "unknown">>, <<"palette", "bad">>,
                 <<"non_finite_float_policy", "null">>,
                 <<"non_finite_float_policy", "bad">>},
          o \in AllOutputs}

VARIABLE part

allVars == <<part, vars, callVars, configVars>>

\* A component that does not move starts in one of its initial states.
MCInit ==
  /\ part \in {"object", "call", "config"}
  /\ Init /\ CallInit
  /\ part # "config" => written = CHOOSE t \in MCTables : TRUE
  /\ ConfigInit

MCNext ==
  \/ part = "object" /\ Next /\ UNCHANGED <<part, callVars, configVars>>
  \/ part = "call" /\ CallNext /\ UNCHANGED <<part, vars, configVars>>
  \/ part = "config" /\ ConfigNext /\ UNCHANGED <<part, vars, callVars>>

MCSpec == MCInit /\ [][MCNext]_allVars
=============================================================================
