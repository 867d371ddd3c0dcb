----------------------------- MODULE PslogConstruct -----------------------------
(***************************************************************************)
(* Who closes what when a logger is constructed: pslog_new and             *)
(* pslog_new_from_env, called from C or by the Lua binding with an output  *)
(* in the configuration that may be owned.  LOG_OUTPUT may replace that    *)
(* output, keep it, or tee another one to it; every open and every         *)
(* allocation may fail.                                                    *)
(*                                                                         *)
(* An output is abstracted to the set of streams it writes to: the one of  *)
(* the configuration ("base"), the file LOG_OUTPUT names ("file"), and     *)
(* stdout or stderr ("std"), which nobody closes.                          *)
(***************************************************************************)
EXTENDS Integers

VARIABLES
  cpc,
  caller,        \* "c" or "lua"
  fromEnv,       \* pslog_new_from_env rather than pslog_new
  variable,      \* the value of LOG_OUTPUT
  fileMode,      \* whether LOG_OUTPUT_FILE_MODE is valid
  seedOwned,     \* config->output.owned
  output,        \* effective.output, the output pslog_new gets
  opened,        \* whether the file has been opened
  outputErr,     \* has_output_err
  closes,        \* how often each stream has been closed
  told           \* the diagnostics logged by pslog_new_from_env

inputs == <<caller, fromEnv, variable, fileMode, seedOwned>>
constructVars == <<inputs, cpc, output, opened, outputErr, closes, told>>

Streams == {"base", "file", "std"}

\* LOG_OUTPUT unset, and the forms pslog_output_init_env_value tells apart.
EnvValues == {"unset", "default", "std", "path", "std+path", "default+path"}

ConstructInit ==
  /\ cpc = "start"
  /\ caller \in {"c", "lua"}
  /\ fromEnv \in BOOLEAN
  /\ variable \in EnvValues
  /\ fileMode \in BOOLEAN
  /\ seedOwned \in BOOLEAN
  /\ output = {"base"}
  /\ opened = FALSE
  /\ outputErr = FALSE
  /\ closes = [s \in Streams |-> 0]
  /\ told = {}

--------------------------------------------------------------------------------

\* The streams of an output that are closed with it.
OwnedOf(o) == {s \in o : s = "file" \/ (s = "base" /\ seedOwned)}

(***************************************************************************)
(* The close of an output, by pslog_output_destroy or by the shared state: *)
(* a tee closes both of its sides.                                         *)
(***************************************************************************)
CloseOutput(o) ==
  closes' = [s \in Streams |-> closes[s] + IF s \in OwnedOf(o) THEN 1 ELSE 0]

(***************************************************************************)
(* pslog_new_from_env after a successful pslog_output_init_env_value: the  *)
(* output of the configuration is destroyed unless the new one contains    *)
(* it.                                                                     *)
(***************************************************************************)
Adopt(o) ==
  /\ output' = o
  /\ IF "base" \in o THEN UNCHANGED closes ELSE CloseOutput({"base"})

Start ==
  /\ cpc = "start"
  /\ cpc' = IF fromEnv /\ variable # "unset" THEN "env" ELSE "new"
  /\ UNCHANGED <<inputs, output, opened, outputErr, closes, told>>

\* The values that open nothing.
EnvStream ==
  /\ cpc = "env"
  /\ variable \in {"default", "std"}
  /\ Adopt(IF variable = "default" THEN {"base"} ELSE {"std"})
  /\ cpc' = "new"
  /\ UNCHANGED <<inputs, opened, outputErr, told>>

EnvOpen ==
  /\ cpc = "env"
  /\ variable \in {"path", "std+path", "default+path"}
  /\ opened' = TRUE
  /\ IF variable = "path"
     THEN Adopt({"file"}) /\ cpc' = "new"
     ELSE UNCHANGED <<output, closes>> /\ cpc' = "tee"
  /\ UNCHANGED <<inputs, outputErr, told>>

EnvOpenFails ==
  /\ cpc = "env"
  /\ variable \in {"path", "std+path", "default+path"}
  /\ outputErr' = TRUE
  /\ cpc' = "new"
  /\ UNCHANGED <<inputs, output, opened, closes, told>>

EnvTee ==
  /\ cpc = "tee"
  /\ Adopt(IF variable = "std+path" THEN {"std", "file"} ELSE {"base", "file"})
  /\ cpc' = "new"
  /\ UNCHANGED <<inputs, opened, outputErr, told>>

\* Mutant: the file of a tee that could not be made stays open.
EnvTeeFailsOpen ==
  /\ cpc = "tee"
  /\ outputErr' = TRUE
  /\ cpc' = "new"
  /\ UNCHANGED <<inputs, output, opened, closes, told>>

EnvTeeFails ==
  /\ cpc = "tee"
  /\ CloseOutput({"file"})
  /\ outputErr' = TRUE
  /\ cpc' = "new"
  /\ UNCHANGED <<inputs, output, opened, told>>

--------------------------------------------------------------------------------
(* pslog_new, and the two ways in which it returns NULL.                   *)

(***************************************************************************)
(* Before the shared state has taken the output, nothing is closed: the    *)
(* stream of the configuration stays with the caller, a file LOG_OUTPUT    *)
(* opened stays open with nobody to close it.                              *)
(***************************************************************************)
NewFailsEarly ==
  /\ cpc = "new"
  /\ cpc' = "early"
  /\ UNCHANGED <<inputs, output, opened, outputErr, closes, told>>

\* Afterwards pslog_release_shared closes the output.
NewFailsLate ==
  /\ cpc = "new"
  /\ CloseOutput(output)
  /\ cpc' = "late"
  /\ UNCHANGED <<inputs, output, opened, outputErr, told>>

NewSucceeds ==
  /\ cpc = "new"
  /\ cpc' = IF fromEnv THEN "report" ELSE "live"
  /\ UNCHANGED <<inputs, output, opened, outputErr, closes, told>>

Report ==
  /\ cpc = "report"
  /\ told' = (IF fileMode THEN {} ELSE {"file_mode.invalid"})
                   \cup (IF outputErr THEN {"open.failed"} ELSE {})
  /\ cpc' = "live"
  /\ UNCHANGED <<inputs, output, opened, outputErr, closes>>

LoggerDestroy ==
  /\ cpc = "live"
  /\ CloseOutput(output)
  /\ cpc' = "destroyed"
  /\ UNCHANGED <<inputs, output, opened, outputErr, told>>

--------------------------------------------------------------------------------
(* The callers.                                                            *)

(***************************************************************************)
(* pslua_new_logger and pslua_new_logger_from_env: if there is no logger,  *)
(* the output of the configuration is destroyed.                           *)
(***************************************************************************)
LuaNewFails ==
  /\ cpc \in {"early", "late"}
  /\ caller = "lua"
  /\ CloseOutput({"base"})
  /\ cpc' = "failed"
  /\ UNCHANGED <<inputs, output, opened, outputErr, told>>

ConstructDone == (cpc \in {"early", "late"} /\ caller = "c") \/ cpc \in {"destroyed", "failed"}

ConstructNext ==
  \/ Start
  \/ EnvStream \/ EnvOpen \/ EnvOpenFails \/ EnvTee \/ EnvTeeFails
  \/ NewFailsEarly \/ NewFailsLate \/ NewSucceeds \/ Report
  \/ LoggerDestroy
  \/ LuaNewFails
  \/ ConstructDone /\ UNCHANGED constructVars

ConstructSpec == ConstructInit /\ [][ConstructNext]_constructVars

--------------------------------------------------------------------------------

(***************************************************************************)
(* No output of a logger that is in use has been closed: not the replaced  *)
(* one that is still a side of a tee, nor the default that came back after *)
(* a failure.                                                              *)
(***************************************************************************)
InUseIsOpen ==
  cpc \in {"new", "report", "live"} => \A s \in output : closes[s] = 0

(***************************************************************************)
(* What has been closed in each end. When the logger is destroyed, or      *)
(* pslog_new fails with the shared state made: every stream that was owned *)
(* or opened on the way, exactly once, and no other. When pslog_new fails  *)
(* before that: the same of the streams no longer in the output, and none  *)
(* of the output; so a file that LOG_OUTPUT opened is left open for good,  *)
(* which is what the code does at pslog.c:1643-1646. The binding closes an *)
(* owned output of its own in both cases, once or (ClosedAtMostOnce) once  *)
(* too often.                                                              *)
(***************************************************************************)
AllClosedOnce ==
  /\ cpc \in {"destroyed", "late"} =>
       /\ closes["base"] = IF seedOwned THEN 1 ELSE 0
       /\ closes["file"] = IF opened THEN 1 ELSE 0
       /\ closes["std"] = 0
  /\ cpc = "early" =>
       /\ closes["base"] = IF seedOwned /\ "base" \notin output THEN 1 ELSE 0
       /\ closes["file"] = IF opened /\ "file" \notin output THEN 1 ELSE 0
       /\ closes["std"] = 0
  /\ cpc = "failed" =>
       /\ IF seedOwned THEN closes["base"] \in 1..2 ELSE closes["base"] = 0
       /\ closes["file"] <= 1 /\ closes["std"] = 0

(***************************************************************************)
(* A logger that came up on the default output because LOG_OUTPUT failed   *)
(* says so, and only then.                                                 *)
(***************************************************************************)
FallbackReported ==
  cpc = "live" =>
    ("open.failed" \in told
       <=> fromEnv /\ variable \notin {"unset", "default"} /\ output = {"base"})

(***************************************************************************)
(* An owned output is closed once ("destruction also closes that output    *)
(* once"), also when its owner is the Lua binding and construction fails.  *)
(***************************************************************************)
ClosedAtMostOnce == \A s \in Streams : closes[s] <= 1

(***************************************************************************)
(* pslog_new and pslog_new_from_env: the output of a live logger is open,  *)
(* every owned stream is closed once when the logger is destroyed or fails *)
(* late, and an early failure closes exactly what LOG_OUTPUT had replaced  *)
(* or could not tee; falling back to the output of the configuration is    *)
(* reported, and for a caller in C no stream is ever closed twice.         *)
(***************************************************************************)
OwnedClosedOnce ==
  /\ InUseIsOpen /\ AllClosedOnce /\ FallbackReported
  /\ caller = "c" => ClosedAtMostOnce

--------------------------------------------------------------------------------
(* The inductive invariant.                                                *)

ConstructTypeOK ==
  /\ cpc \in {"start", "env", "tee", "new", "early", "late", "report", "live", "destroyed", "failed"}
  /\ caller \in {"c", "lua"}
  /\ variable \in EnvValues
  /\ fromEnv \in BOOLEAN /\ fileMode \in BOOLEAN /\ seedOwned \in BOOLEAN
  /\ opened \in BOOLEAN /\ outputErr \in BOOLEAN
  /\ output \in {{"base"}, {"std"}, {"file"}, {"std", "file"}, {"base", "file"}}
  /\ closes \in [Streams -> Nat]

\* Until LOG_OUTPUT has been followed, only its file may have been opened.
EnvInv ==
  cpc \in {"start", "env", "tee"} =>
    /\ output = {"base"} /\ outputErr = FALSE /\ told = {}
    /\ closes = [s \in Streams |-> 0]
    /\ opened <=> cpc = "tee"
    /\ cpc # "start" => fromEnv /\ variable # "unset"
    /\ cpc = "tee" => variable \in {"std+path", "default+path"}

\* Then the streams that were owned or opened are closed once, or are in the output.
OutputInv ==
  cpc \in {"new", "report", "live"} =>
    /\ closes["base"] = IF seedOwned /\ "base" \notin output THEN 1 ELSE 0
    /\ closes["file"] = IF opened /\ "file" \notin output THEN 1 ELSE 0
    /\ closes["std"] = 0
    /\ "file" \in output => opened
    /\ outputErr <=> fromEnv /\ variable \notin {"unset", "default"} /\ output = {"base"}
    /\ cpc = "new" => told = {}

ConstructInv ==
  /\ ConstructTypeOK /\ EnvInv /\ OutputInv /\ OwnedClosedOnce
  /\ cpc # "failed" => ClosedAtMostOnce

================================================================================
