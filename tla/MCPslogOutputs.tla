---------------------------- MODULE MCPslogOutputs ----------------------------
(***************************************************************************)
(* Outputs for TLC: the write loop over tee and observed sinks             *)
(* (PslogSinks), streams and descriptors (PslogFile), what the environment *)
(* selects (PslogEnv) and who closes what (PslogConstruct). A behaviour is *)
(* one of one component, part; the others stay as they began.              *)
(***************************************************************************)
EXTENDS PslogSinks, PslogFile, PslogConstruct, PslogEnv

\* Environments. The switches that work together, NO_COLOR, FORCE_COLOR and the
\* seed, OUTPUT_FILE_MODE and OUTPUT, take all their values together; the others
\* one at a time.
Case == [ON |-> "on", INFO |-> "info", JSON |-> "json", STDOUT |-> "stdout",
         DEFAULT |-> "default", NORD |-> "nord", ONE |-> "one", PALETTE |-> "palette",
         O |-> "o"]

NotSet == <<"not set">>

InitialSeeds ==
  [min_level : {"WARN"}, mode : {"CONSOLE", "JSON"}, time_format : {<<>>},
   timestamps : {TRUE}, verbose_fields : {FALSE, TRUE}, utc : {FALSE},
   color : {"AUTO", "NEVER", "ALWAYS"}, palette : {<<"seed">>},
   file_mode : {6 * 64 + 4 * 8 + 4}, mode_err : {FALSE},
   output : {[stream |-> "base", path |-> <<>>]}]

FirstSeed == CHOOSE c \in InitialSeeds : TRUE

Switches == {<<"on">>, <<" ", "ON", " ">>, <<"off">>, <<"x">>, <<>>, <<"on", "x", "x">>}

Blanked(S) == UNION {{s, <<" ">> \o s \o <<" ">>, <<" ">> \o s} : s \in S}

LevelValues == Blanked({<<"info">>, <<"INFO">>, <<"off">>, <<"json">>, <<"x">>,
                        <<"info", " ", "x">>, <<>>})
ModeValues == Blanked({<<"json">>, <<"JSON">>, <<"console">>, <<"on">>, <<>>})
FileModes == Blanked({<<"7", "1", "0">>, <<"0", "o", "7">>, <<"0", "O", "7">>, <<"x">>,
                      <<"7", "7", "7", "7">>, <<"0", "o">>, <<>>})
Outputs == Blanked({<<"stdout">>, <<"DEFAULT">>, <<"p">>, <<"p", "p">>, <<"stdout", "+", "p">>,
                    <<"DEFAULT", "+", " ", "p", "q">>, <<"default", "+">>, <<"p", "+", "q">>,
                    <<"p", "p", "q", "q", "p", "p", "q">>, <<>>})
Palettes ==
  {p \o s : p \in {<<>>, <<"palette">>, <<"PALETTE", "-">>},
            s \in {<<"nord">>, <<"NORD", "_">>, <<"one", "-", "dark">>,
                   <<"ONE", "_", " ", "dark">>, <<"onedark">>, <<"x">>, <<" ">>, <<>>}}

None == [v \in {"LEVEL", "MODE", "TIME_FORMAT", "DISABLE_TIMESTAMP", "VERBOSE_FIELDS", "UTC",
                "NO_COLOR", "FORCE_COLOR", "PALETTE", "OUTPUT_FILE_MODE", "OUTPUT"} |-> NotSet]

AllEnvs ==
  {None}
  \cup {[None EXCEPT !["NO_COLOR"] = a, !["FORCE_COLOR"] = b] :
          a, b \in Switches \cup {NotSet}}
  \cup {[None EXCEPT !["OUTPUT_FILE_MODE"] = a, !["OUTPUT"] = b] :
          a \in FileModes \cup {NotSet}, b \in Outputs \cup {NotSet}}
  \cup {[None EXCEPT ![v] = a] :
          v \in {"DISABLE_TIMESTAMP", "VERBOSE_FIELDS", "UTC", "TIME_FORMAT"},
          a \in Switches}
  \cup {[None EXCEPT !["LEVEL"] = a, !["MODE"] = b] :
          a \in LevelValues \cup {NotSet}, b \in ModeValues}
  \cup {[None EXCEPT !["PALETTE"] = a] : a \in Palettes}

AllTokens ==
  DOMAIN Case \cup Range(Case)
  \cup (UNION {Range(e[v]) : e \in AllEnvs, v \in DOMAIN None} \ Range(NotSet))

ASSUME OutputsAssumption == FileAssumption

VARIABLE part

allVars == <<part, vars, constructVars, fileVars, envVars>>

\* A component that does not move starts in one of its initial states.
MCInit ==
  /\ part \in {"sinks", "construct", "file", "env"}
  /\ part # "sinks" => sides = Sides
  /\ Init
  /\ IF part = "env" THEN EnvInit
     ELSE seed = FirstSeed /\ env = None /\ at = 1 /\ effective = seed
  /\ part # "file" => kind = "fd" /\ owned = FALSE
  /\ FileInit
  /\ part # "construct" =>
       caller = "c" /\ fromEnv = FALSE /\ variable = "unset" /\ fileMode = FALSE
         /\ seedOwned = FALSE
  /\ ConstructInit

MCNext ==
  \/ part = "sinks" /\ Next /\ UNCHANGED <<part, constructVars, fileVars, envVars>>
  \/ part = "construct" /\ ConstructNext /\ UNCHANGED <<part, vars, fileVars, envVars>>
  \/ part = "file" /\ FileNext /\ UNCHANGED <<part, vars, constructVars, envVars>>
  \/ part = "env" /\ EnvNext /\ UNCHANGED <<part, vars, constructVars, fileVars>>

MCSpec == MCInit /\ [][MCNext]_allVars
=============================================================================
