------------------------------- MODULE PslogEnv -------------------------------
(***************************************************************************)
(* pslog_new_from_env: the configuration of a logger out of a seed and the *)
(* environment, one variable after the other, and the look-up of a palette *)
(* by name. The value of a variable is a sequence of tokens: blanks, names *)
(* in lower and upper case, digits, "+" and the parts of a path; a buffer  *)
(* of the code holds so many tokens less one. Opening and closing of the   *)
(* outputs is PslogConstruct.                                              *)
(***************************************************************************)
EXTENDS Integers, Sequences, SequencesExt

CONSTANTS
  Tokens,      \* what a value is put together of
  Seeds,       \* configurations to start from
  Envs,        \* environments: a function from variables to values
  Unset,       \* the value of a variable that is not set
  Upper,       \* tokens in upper case, and the lower case of each
  NameSize,    \* size of normalized[] and trimmed[] for a name (16, 32)
  OutputSize   \* size of output_value[] (512)

\* The variables in the order they are read.
Variables ==
  <<"LEVEL", "MODE", "TIME_FORMAT", "DISABLE_TIMESTAMP", "VERBOSE_FIELDS", "UTC",
    "NO_COLOR", "FORCE_COLOR", "PALETTE", "OUTPUT_FILE_MODE", "OUTPUT">>

\* The members of a configuration.
ConfigFields ==
  {"min_level", "mode", "time_format", "timestamps", "verbose_fields", "utc", "color",
   "palette", "file_mode", "mode_err", "output"}

OctalDigits == {"0", "1", "7"}
Blank == " "
Separators == {"-", "_", Blank}

\* A token in upper case has one lower case, in tolower; blanks, digits, separators
\* and "+" have no case.
ASSUME EnvAssumption ==
  /\ NameSize \in Nat /\ NameSize > 2 /\ OutputSize \in Nat /\ OutputSize > 2
  /\ Unset \notin Seq(Tokens)
  /\ \A e \in Envs :
       /\ e = [v \in Range(Variables) |-> e[v]]
       /\ \A v \in Range(Variables) : e[v] = Unset \/ e[v] \in Seq(Tokens)
  /\ \A c \in Seeds : c = [f \in ConfigFields |-> c[f]] /\ c.timestamps \in BOOLEAN
  /\ DOMAIN Upper \subseteq Tokens
  /\ \A t \in DOMAIN Upper :
       /\ Upper[t] \in Tokens \ DOMAIN Upper
       /\ {t, Upper[t]} \cap (OctalDigits \cup Separators \cup {"+"}) = {}

VARIABLES seed, env, at, effective
envVars == <<seed, env, at, effective>>

-----------------------------------------------------------------------------
(* Reading a value.                                                        *)

Lower(t) == IF t \in DOMAIN Upper THEN Upper[t] ELSE t
LowerAll(s) == [i \in DOMAIN s |-> Lower(s[i])]

\* The value without the blanks around it.
Stripped(s) ==
  LET ink == {i \in DOMAIN s : s[i] # Blank}
  IN IF ink = {} THEN <<>> ELSE SubSeq(s, Min(ink), Max(ink))

\* Mutant: the copy gives up its last token to the NUL.
TrimCopyShort(s, size) ==
  LET t == Stripped(s)
  IN IF Len(t) >= size - 1 THEN SubSeq(t, 1, size - 2) ELSE t

\* pslog_trim_copy: what does not fit is cut off.
TrimCopy(s, size) ==
  LET t == Stripped(s)
  IN IF Len(t) >= size THEN SubSeq(t, 1, size - 1) ELSE t

\* A name, whatever its case: pslog_parse_level, _bool_value and _mode_value
\* compare this with the names they know.
NameOf(s) ==
  LET t == LowerAll(TrimCopy(s, NameSize))
  IN IF Len(t) = 1 THEN t[1] ELSE "unnamed"

Levels ==
  [trace |-> "TRACE", debug |-> "DEBUG", info |-> "INFO", warn |-> "WARN",
   warning |-> "WARN", error |-> "ERROR", fatal |-> "FATAL", panic |-> "PANIC",
   no |-> "NOLEVEL", none |-> "NOLEVEL", nolevel |-> "NOLEVEL",
   disabled |-> "DISABLED", off |-> "DISABLED"]

True == {"1", "true", "yes", "on"}
False == {"0", "false", "no", "off"}

Modes == [json |-> "JSON", structured |-> "JSON", console |-> "CONSOLE"]

\* pslog_parse_file_mode: octal digits behind an optional 0o, up to 0777.
DigitValue == [d \in OctalDigits |-> IF d = "0" THEN 0 ELSE IF d = "1" THEN 1 ELSE 7]
DefaultFileMode == 6 * 64 + 4 * 8 + 4

Octal(s) ==
  LET upTo[i \in 0..Len(s)] == IF i = 0 THEN 0 ELSE upTo[i - 1] * 8 + DigitValue[s[i]]
  IN upTo[Len(s)]

FileModeDigits(s) ==
  LET t == TrimCopy(s, NameSize)
  IN IF Len(t) >= 2 /\ t[1] = "0" /\ Lower(t[2]) = "o" THEN SubSeq(t, 3, Len(t)) ELSE t

FileModeValid(s) ==
  LET d == FileModeDigits(s)
  IN d # <<>> /\ (\A i \in DOMAIN d : d[i] \in OctalDigits) /\ Octal(d) <= 511

-----------------------------------------------------------------------------
(* Palettes (pslog_palette.c).                                             *)

\* The built-in palettes, one with a name of one word and one of two, and their
\* aliases; what is found under no name is the default.
PaletteEntries == {<<"nord">>, <<"one", "-", "dark">>}
PaletteAliases == [a \in {<<"onedark">>, <<"doom", "-", "nord">>} |->
                     IF a = <<"onedark">> THEN <<"one", "-", "dark">> ELSE <<"nord">>]

\* normalize_name: lower case, one '-' for a run of separators, none at the end,
\* and without the word "palette" in front.
LowerDashed(s) == [i \in DOMAIN s |-> IF s[i] \in Separators THEN "-" ELSE Lower(s[i])]

Normalize(ch) ==
  LET upTo[i \in 0..Len(ch)] ==
        IF i = 0 THEN <<>>
        ELSE LET so == upTo[i - 1]
             IN IF Len(so) + 1 >= OutputSize THEN so
                ELSE IF ch[i] = "-" /\ so # <<>> /\ Last(so) = "-" THEN so
                ELSE Append(so, ch[i])
      all == upTo[Len(ch)]
      cut == IF all # <<>> /\ Last(all) = "-" THEN Front(all) ELSE all
  IN IF cut # <<>> /\ Head(cut) = "palette"
     THEN IF Len(cut) > 1 /\ cut[2] = "-" THEN SubSeq(cut, 3, Len(cut)) ELSE Tail(cut)
     ELSE cut

NormalizeName(s) == Normalize(LowerDashed(s))

\* pslog_palette_by_name.
PaletteByName(s) ==
  LET n == NormalizeName(s)
      c == IF n \in DOMAIN PaletteAliases THEN PaletteAliases[n] ELSE n
  IN IF c \in PaletteEntries THEN c ELSE <<"default">>

-----------------------------------------------------------------------------
(* The output.                                                             *)

\* pslog_output_init_env_value: a stream, a file, or a stream and a file.
OutputOf(value) ==
  LET t == TrimCopy(value, OutputSize)
      name == LowerAll(t)
      stream(n) == IF n = "default" THEN "base" ELSE n
      streams == {"default", "stdout", "stderr"}
  IN IF Len(name) = 1 /\ name[1] \in streams
     THEN [stream |-> stream(name[1]), path |-> <<>>]
     ELSE IF Len(name) >= 2 /\ name[1] \in streams /\ name[2] = "+"
     THEN [stream |-> stream(name[1]),
           path |-> TrimCopy(SubSeq(t, 3, Len(t)), OutputSize)]
     ELSE [stream |-> "none", path |-> t]

-----------------------------------------------------------------------------
(* The variables.                                                          *)

\* Mutant: FORCE_COLOR is taken at its word.
ColorOfForced(c, v, value) ==
  IF NameOf(value) \notin True THEN c
  ELSE IF v = "NO_COLOR" THEN "NEVER"
  ELSE "ALWAYS"

\* NO_COLOR and FORCE_COLOR.
ColorOf(c, v, value) ==
  IF NameOf(value) \notin True THEN c
  ELSE IF v = "NO_COLOR" THEN "NEVER"
  ELSE IF c = "NEVER" THEN c ELSE "ALWAYS"

BoolOf(b, value) ==
  IF NameOf(value) \in True THEN TRUE
  ELSE IF NameOf(value) \in False THEN FALSE ELSE b

LevelOf(l, value) ==
  IF NameOf(value) \in DOMAIN Levels THEN Levels[NameOf(value)] ELSE l

\* The effective configuration once variable v has been read.
Apply(c, v, value) ==
  IF value = Unset THEN c
  ELSE CASE v = "LEVEL" -> [c EXCEPT !.min_level = LevelOf(@, value)]
         [] v = "MODE" -> [c EXCEPT !.mode = IF NameOf(value) \in DOMAIN Modes
                                             THEN Modes[NameOf(value)] ELSE @]
         [] v = "TIME_FORMAT" -> [c EXCEPT !.time_format = IF value = <<>> THEN @ ELSE value]
         [] v = "DISABLE_TIMESTAMP" -> [c EXCEPT !.timestamps = ~BoolOf(~@, value)]
         [] v = "VERBOSE_FIELDS" -> [c EXCEPT !.verbose_fields = BoolOf(@, value)]
         [] v = "UTC" -> [c EXCEPT !.utc = BoolOf(@, value)]
         [] v \in {"NO_COLOR", "FORCE_COLOR"} -> [c EXCEPT !.color = ColorOf(@, v, value)]
         [] v = "PALETTE" -> [c EXCEPT !.palette = IF value = <<>> THEN @
                                ELSE PaletteByName(TrimCopy(value, OutputSize))]
         [] v = "OUTPUT_FILE_MODE" ->
              LET given == TrimCopy(value, NameSize) # <<>>
              IN [c EXCEPT !.file_mode = IF given /\ FileModeValid(value)
                                         THEN Octal(FileModeDigits(value))
                                         ELSE DefaultFileMode,
                           !.mode_err = given /\ ~FileModeValid(value)]
         [] v = "OUTPUT" ->
              IF TrimCopy(value, OutputSize) = <<>> THEN c
              ELSE [c EXCEPT !.output = OutputOf(TrimCopy(value, OutputSize))]

EnvInit ==
  /\ seed \in Seeds /\ env \in Envs
  /\ at = 1 /\ effective = seed

\* The next variable is read.
Read ==
  /\ at <= Len(Variables)
  /\ effective' = Apply(effective, Variables[at], env[Variables[at]])
  /\ at' = at + 1
  /\ UNCHANGED <<seed, env>>

\* pslog_new gets the effective configuration.
EnvDone == at > Len(Variables) /\ UNCHANGED envVars

EnvNext == Read \/ EnvDone

EnvSpec == EnvInit /\ [][EnvNext]_envVars

-----------------------------------------------------------------------------
(* Properties.                                                             *)

\* What comes of another environment, variable by variable.
EffectiveUpTo(c, e) ==
  LET upTo[i \in 0..Len(Variables)] ==
        IF i = 0 THEN c ELSE Apply(upTo[i - 1], Variables[i], e[Variables[i]])
  IN upTo

EffectiveOf(e) == EffectiveUpTo(seed, e)[Len(Variables)]

Finished == at > Len(Variables)

\* The variables with a name for a value.
Named == {"LEVEL", "MODE", "DISABLE_TIMESTAMP", "VERBOSE_FIELDS", "UTC", "NO_COLOR", "FORCE_COLOR"}

Without(v) == [env EXCEPT ![v] = Unset]

\* Whether the value of v is one that the code knows what to do with.
Recognised(v, value) ==
  LET name == LowerAll(Stripped(value))
      known == CASE v = "LEVEL" -> DOMAIN Levels
                 [] v = "MODE" -> DOMAIN Modes
                 [] OTHER -> True \cup False
  IN Len(name) = 1 /\ name[1] \in known

(***************************************************************************)
(* A value of LEVEL, MODE or a switch that is not recognised leaves the    *)
(* configuration as if the variable were not set: neither a name that was  *)
(* cut to fit nor one of another variable takes effect.                    *)
(***************************************************************************)
UnrecognisedIgnored ==
  Finished =>
    \A v \in Named :
      env[v] # Unset /\ ~Recognised(v, env[v]) => effective = EffectiveOf(Without(v))

\* The environment with its values in lower case and without blanks around them.
Respelt ==
  [v \in DOMAIN env |->
     IF env[v] = Unset \/ v = "TIME_FORMAT" THEN env[v]
     ELSE IF v = "PALETTE" /\ Stripped(env[v]) = <<>> THEN env[v]
     ELSE IF v = "OUTPUT" THEN Stripped(env[v])
     ELSE LowerAll(Stripped(env[v]))]

(***************************************************************************)
(* Case and blanks around a value make no difference, except in a time     *)
(* format and in a path.                                                   *)
(***************************************************************************)
SpellingIrrelevant == Finished => effective = EffectiveOf(Respelt)

(***************************************************************************)
(* No colour wins: whoever asks for none, the seed or NO_COLOR, gets none, *)
(* although FORCE_COLOR is read last.                                      *)
(***************************************************************************)
NoColorWins ==
  Finished =>
    (seed.color = "NEVER" \/ (env["NO_COLOR"] # Unset /\ NameOf(env["NO_COLOR"]) \in True)
       => effective.color = "NEVER")

(***************************************************************************)
(* The file that is opened is the one OUTPUT names, alone or behind a      *)
(* stream, if the value fits into the buffer of the code. (A longer one is *)
(* cut, and another file is opened.)                                       *)
(***************************************************************************)
OpensNamedFile ==
  LET value == env["OUTPUT"]
      t == Stripped(value)
      plus == {i \in DOMAIN t : t[i] = "+"}
  IN Finished /\ value # Unset /\ t # <<>> /\ Len(t) < OutputSize =>
       IF plus = {} /\ Len(t) = 1 /\ Lower(t[1]) \in {"default", "stdout", "stderr"}
       THEN effective.output.path = <<>>
       ELSE IF 2 \in plus /\ Lower(t[1]) \in {"default", "stdout", "stderr"}
       THEN effective.output.path = Stripped(SubSeq(t, 3, Len(t)))
       ELSE effective.output = [stream |-> "none", path |-> t]

(***************************************************************************)
(* The environment: a value that is not recognised is ignored, also when   *)
(* it was cut to fit; no colour wins over FORCE_COLOR; case and blanks     *)
(* make no difference; and the file opened is the one LOG_OUTPUT names.    *)
(***************************************************************************)
EnvAsWritten ==
  UnrecognisedIgnored /\ NoColorWins /\ SpellingIrrelevant /\ OpensNamedFile

\* The words of a palette's name, in lower case and without separators.
Words(s) == LET w == SelectSeq(LowerAll(s), LAMBDA t : t \notin Separators)
            IN IF w # <<>> /\ Head(w) = "palette" THEN Tail(w) ELSE w

(***************************************************************************)
(* A palette is found under every spelling of its name: any separators, as *)
(* many as there are, behind the words, and any case.                      *)
(***************************************************************************)
PaletteFound ==
  Finished /\ env["PALETTE"] # Unset /\ env["PALETTE"] # <<>> =>
    LET s == Stripped(env["PALETTE"])
    IN s # <<>> /\ Head(s) \notin Separators /\ Len(s) < OutputSize =>
         /\ Words(s) = <<"nord">> => effective.palette = <<"nord">>
         /\ Words(s) = <<"one", "dark">>
            /\ (\E i \in 2..(Len(s) - 1) : s[i] \in Separators
                  /\ Lower(s[i + 1]) = "dark" /\ \E j \in 1..(i - 1) : Lower(s[j]) = "one")
              => effective.palette = <<"one", "-", "dark">>

-----------------------------------------------------------------------------
(* The inductive invariant of EnvAsWritten.                                *)

IsConfig(c) == c = [f \in ConfigFields |-> c[f]] /\ c.timestamps \in BOOLEAN

\* The environments that must come to the same.
Twins ==
  {Without(v) : v \in {w \in Named : env[w] # Unset /\ ~Recognised(w, env[w])}} \cup {Respelt}

EnvTypeOK ==
  /\ seed \in Seeds /\ env \in Envs /\ at \in 1..Len(Variables) + 1
  /\ IsConfig(effective)

\* They come to the same variable by variable.
TwinsInv == \A e \in Twins : effective = EffectiveUpTo(seed, e)[at - 1]

ColorInv ==
  (\/ seed.color = "NEVER"
   \/ at > 7 /\ env["NO_COLOR"] # Unset /\ NameOf(env["NO_COLOR"]) \in True)
  => effective.color = "NEVER"

OutputReadInv ==
  at > 11 /\ env["OUTPUT"] # Unset /\ TrimCopy(env["OUTPUT"], OutputSize) # <<>> =>
    effective.output = OutputOf(TrimCopy(env["OUTPUT"], OutputSize))

EffectiveInv == EnvTypeOK /\ TwinsInv /\ ColorInv /\ OutputReadInv
=============================================================================
