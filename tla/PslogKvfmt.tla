------------------------------ MODULE PslogKvfmt ------------------------------
(***************************************************************************)
(* One logf() or withf() call: the level gate, the parser of the kvfmt     *)
(* string, the fields its arguments make and what becomes of a malformed   *)
(* kvfmt. The parser walks a NUL-terminated string with a cursor; here the *)
(* string is a sequence of characters and its NUL is one position behind   *)
(* it. How parsed layouts are cached is PslogKvfmtCache, how the fields    *)
(* are rendered PslogLine.                                                 *)
(***************************************************************************)
EXTENDS Integers, Sequences, FiniteSets, PslogLevel

CONSTANTS
  Texts,       \* kvfmt strings, sequences of characters
  Levels,      \* levels of calls
  MinLevels,   \* minimum levels of the logger
  Errnos,      \* values of errno
  MaxFields    \* PSLOG_KVFMT_MAX_FIELDS

NUL == "NUL"
Space == " "

\* Characters no key may contain: below 0x21, quote, backslash, DEL.
Banned == {Space, "\t", "\n", "\"", "\\", "DEL"}

\* The type of argument a verb takes, with and without the l before it.
VerbType ==
  [s |-> "STRING", f |-> "DOUBLE", p |-> "POINTER", b |-> "BOOL",
   d |-> "SIGNED_INT", u |-> "UNSIGNED_INT", m |-> "ERRNO"]

Verbs == DOMAIN VerbType

ASSUME KvfmtAssumption ==
  /\ MaxFields \in Nat
  /\ \A t \in Texts : t \in Seq(STRING) /\ \A i \in DOMAIN t : t[i] # NUL
  /\ Levels \subseteq Level /\ MinLevels \subseteq Level

VARIABLES
  op,        \* the operation: logf or withf
  level, min,
  text,      \* the kvfmt
  kpc,
  cursor,    \* 1 for the first character
  keyLen,
  long,      \* long_flag
  entry,     \* the specs parsed so far: key and arg_type
  errno,     \* the variable of the C library
  saved,     \* saved_errno
  atCall,    \* errno when the call was made
  result     \* what the call did

kvfmtVars == <<op, level, min, text, kpc, cursor, keyLen, long, entry, errno, saved, atCall,
               result>>
callVars == <<op, level, min, text, atCall>>

NoResult == [did |-> "nothing"]

KvfmtInit ==
  /\ op = "none" /\ level = INFO /\ min = INFO /\ text = <<>>
  /\ kpc = "idle" /\ cursor = 1 /\ keyLen = 0 /\ long = FALSE /\ entry = <<>>
  /\ errno \in Errnos /\ saved = errno /\ atCall = errno
  /\ result = NoResult

\* The character k places behind the cursor.
Char(k) == IF cursor + k <= Len(text) THEN text[cursor + k] ELSE NUL

-----------------------------------------------------------------------------
(* The calls. kvfmt is not NULL; a NULL kvfmt is a call without fields.    *)

\* pslog_vlogf_impl: errno is saved before anything else.
Logf(l, m, t) ==
  /\ kpc = "idle" /\ op = "none"
  /\ op' = "logf" /\ level' = l /\ min' = m /\ text' = t
  /\ saved' = errno /\ atCall' = errno
  /\ kpc' = IF LevelEnabled(m, l) THEN "resolve" ELSE "done"
  /\ UNCHANGED <<cursor, keyLen, long, entry, errno, result>>

\* pslog_vwithf_impl: no gate.
Withf(m, t) ==
  /\ kpc = "idle" /\ op = "none"
  /\ op' = "withf" /\ min' = m /\ text' = t
  /\ saved' = errno /\ atCall' = errno
  /\ kpc' = "resolve"
  /\ UNCHANGED <<level, cursor, keyLen, long, entry, errno, result>>

\* Mutant: errno is saved once the layout has been looked up.
ResolveSavesErrno ==
  /\ kpc = "resolve"
  /\ \E e \in Errnos : errno' = e /\ saved' = e
  /\ \/ kpc' = "fields"
     \/ kpc' = "nomemory"
  /\ UNCHANGED <<callVars, cursor, keyLen, long, entry, result>>

\* The lock and the copy of the kvfmt come before the parser: they may change
\* errno, and the copy may fail, which ends like a malformed kvfmt.
Resolve ==
  /\ kpc = "resolve"
  /\ \E e \in Errnos : errno' = e
  /\ \/ kpc' = "fields"
     \/ kpc' = "nomemory"
  /\ UNCHANGED <<callVars, cursor, keyLen, long, entry, saved, result>>

-----------------------------------------------------------------------------
(* pslog_parse_kvfmt_layout.                                               *)

\* Mutant: one field more than there are specs for.
FieldPastLast ==
  /\ kpc = "fields"
  /\ \/ /\ Char(0) = Space
        /\ cursor' = cursor + 1
        /\ UNCHANGED <<kpc, keyLen>>
     \/ /\ Char(0) = NUL
        /\ kpc' = "parsed"
        /\ UNCHANGED <<cursor, keyLen>>
     \/ /\ Char(0) \notin {Space, NUL}
        /\ keyLen' = 0
        /\ kpc' = IF Len(entry) > MaxFields THEN "malformed" ELSE "key"
        /\ UNCHANGED cursor
  /\ UNCHANGED <<callVars, long, entry, errno, saved, result>>

\* Between two fields: spaces, the end, or the start of a key.
Field ==
  /\ kpc = "fields"
  /\ \/ /\ Char(0) = Space
        /\ cursor' = cursor + 1
        /\ UNCHANGED <<kpc, keyLen>>
     \/ /\ Char(0) = NUL
        /\ kpc' = "parsed"
        /\ UNCHANGED <<cursor, keyLen>>
     \/ /\ Char(0) \notin {Space, NUL}
        /\ keyLen' = 0
        /\ kpc' = IF Len(entry) >= MaxFields THEN "malformed" ELSE "key"
        /\ UNCHANGED cursor
  /\ UNCHANGED <<callVars, long, entry, errno, saved, result>>

\* The end of a key.
AtVerb == Char(0) = "=" /\ Char(1) = "%"

\* Mutant: the key loop gives up only at the end of the string, and does not
\* move over a character no key may contain.
KeyStuck ==
  /\ kpc = "key"
  /\ \/ /\ Char(0) # NUL /\ Char(1) # NUL /\ ~AtVerb
        /\ IF Char(0) \in Banned
           THEN UNCHANGED <<kpc, cursor, keyLen>>
           ELSE /\ cursor' = cursor + 1 /\ keyLen' = keyLen + 1
                /\ UNCHANGED kpc
        /\ UNCHANGED <<long, entry>>
     \/ /\ Char(0) = NUL \/ Char(1) = NUL \/ AtVerb
        /\ IF keyLen = 0 \/ ~AtVerb
           THEN kpc' = "malformed" /\ UNCHANGED <<cursor, long, entry>>
           ELSE /\ LET l == Char(2) = "l"
                   IN /\ long' = l
                      /\ cursor' = IF l THEN cursor + 3 ELSE cursor + 2
                /\ entry' = Append(entry,
                     [key |-> SubSeq(text, cursor - keyLen, cursor - 1),
                      arg |-> "none"])
                /\ kpc' = "verb"
        /\ UNCHANGED keyLen
  /\ UNCHANGED <<callVars, errno, saved, result>>

Key ==
  /\ kpc = "key"
  /\ \/ /\ Char(0) # NUL /\ Char(1) # NUL /\ ~AtVerb
        /\ IF Char(0) \in Banned
           THEN kpc' = "malformed" /\ UNCHANGED <<cursor, keyLen>>
           ELSE /\ cursor' = cursor + 1 /\ keyLen' = keyLen + 1
                /\ UNCHANGED kpc
        /\ UNCHANGED <<long, entry>>
     \/ /\ Char(0) = NUL \/ Char(1) = NUL \/ AtVerb
        /\ IF keyLen = 0 \/ ~AtVerb
           THEN kpc' = "malformed" /\ UNCHANGED <<cursor, long, entry>>
           ELSE /\ LET l == Char(2) = "l"
                   IN /\ long' = l
                      /\ cursor' = IF l THEN cursor + 3 ELSE cursor + 2
                /\ entry' = Append(entry,
                     [key |-> SubSeq(text, cursor - keyLen, cursor - 1),
                      arg |-> "none"])
                /\ kpc' = "verb"
        /\ UNCHANGED keyLen
  /\ UNCHANGED <<callVars, errno, saved, result>>

\* Mutant: the l before a verb makes no difference.
ArgTypeShort(verb, l) == VerbType[verb]

ArgType(verb, l) ==
  CASE verb = "d" /\ l -> "SIGNED_LONG"
    [] verb = "u" /\ l -> "UNSIGNED_LONG"
    [] OTHER -> VerbType[verb]

\* The verb, and the space or end that has to follow.
Verb ==
  /\ kpc = "verb"
  /\ IF Char(0) \notin Verbs \/ (Char(0) = "m" /\ long)
     THEN kpc' = "malformed" /\ UNCHANGED <<cursor, entry>>
     ELSE /\ entry' = [entry EXCEPT ![Len(entry)].arg = ArgType(Char(0), long)]
          /\ cursor' = cursor + 1
          /\ kpc' = IF Char(1) \in {NUL, Space} THEN "fields" ELSE "malformed"
  /\ UNCHANGED <<callVars, keyLen, long, errno, saved, result>>

-----------------------------------------------------------------------------
(* The end of the call.                                                    *)

\* The value of an argument: errno for %m, the argument itself otherwise.
Value(spec) == IF spec.arg = "ERRNO" THEN saved ELSE "argument"

\* The fields are rendered, or copied to the child.
Parsed ==
  /\ kpc = "parsed"
  /\ result' = [did |-> IF op = "logf" THEN "line" ELSE "child",
                level |-> level,
                fields |-> [i \in DOMAIN entry |->
                              <<entry[i].key, entry[i].arg, Value(entry[i])>>]]
  /\ kpc' = "done"
  /\ UNCHANGED <<callVars, cursor, keyLen, long, entry, errno, saved>>

DiagnosticLevel(l) == IF l \in {FATAL, PANIC} THEN l ELSE ERROR

\* The entry is reset. logf() says so in a line of its own, which passes the
\* gate like any other; withf() returns NULL.
Rejected ==
  /\ kpc \in {"malformed", "nomemory"}
  /\ entry' = <<>>
  /\ result' =
       IF op = "withf" THEN [did |-> "null"]
       ELSE IF LevelEnabled(min, DiagnosticLevel(level))
       THEN [did |-> "diagnostic", level |-> DiagnosticLevel(level)]
       ELSE NoResult
  /\ kpc' = "done"
  /\ UNCHANGED <<callVars, cursor, keyLen, long, errno, saved>>

KvfmtCall ==
  /\ kpc = "idle"
  /\ \E m \in MinLevels, t \in Texts :
       \/ \E l \in Levels : Logf(l, m, t)
       \/ Withf(m, t)

KvfmtStep == Resolve \/ Field \/ Key \/ Verb \/ Parsed \/ Rejected

KvfmtNext == KvfmtCall \/ KvfmtStep

KvfmtSpec == KvfmtInit /\ [][KvfmtNext]_kvfmtVars /\ WF_kvfmtVars(KvfmtStep)

-----------------------------------------------------------------------------
(* The grammar: words separated by spaces, each a key, "=%" and a verb.    *)

\* The words of a string, as pairs of their first and last position.
Words(t) ==
  {w \in (DOMAIN t) \X (DOMAIN t) :
     /\ w[1] <= w[2] /\ \A i \in w[1]..w[2] : t[i] # Space
     /\ w[1] = 1 \/ t[w[1] - 1] = Space
     /\ w[2] = Len(t) \/ t[w[2] + 1] = Space}

\* The words that begin before a position, and the number of a word.
Before(t, p) == {w \in Words(t) : w[1] < p}
Index(t, w) == Cardinality(Before(t, w[1] + 1))

\* The "=%" at position k ends the key that begins at first.
KeyEnds(t, first, k) ==
  /\ t[k] = "=" /\ t[k + 1] = "%"
  /\ \A i \in first..(k - 2) : ~(t[i] = "=" /\ t[i + 1] = "%")
  /\ \A i \in first..(k - 1) : t[i] \notin Banned

\* The types a verb between two positions stands for: none, or one.
VerbTypes(t, first, last) ==
  CASE first = last /\ t[last] \in Verbs -> {VerbType[t[last]]}
    [] first + 1 = last /\ t[first] = "l" /\ t[last] \in {"s", "f", "p", "b"} ->
         {VerbType[t[last]]}
    [] first + 1 = last /\ t[first] = "l" /\ t[last] = "d" -> {"SIGNED_LONG"}
    [] first + 1 = last /\ t[first] = "l" /\ t[last] = "u" -> {"UNSIGNED_LONG"}
    [] OTHER -> {}

\* The specs a word can stand for.
Specs(t, w) ==
  UNION {{[key |-> SubSeq(t, w[1], k - 1), arg |-> a] : a \in VerbTypes(t, k + 2, w[2])} :
           k \in {j \in (w[1] + 1)..(w[2] - 1) : KeyEnds(t, w[1], j)}}

Valid(t) ==
  Cardinality(Words(t)) <= MaxFields /\ \A w \in Words(t) : Specs(t, w) # {}

-----------------------------------------------------------------------------
(* Properties.                                                             *)

(***************************************************************************)
(* A kvfmt is accepted exactly if the grammar has it, and the fields have  *)
(* the keys and argument types the grammar gives them, in order: a         *)
(* mistaken type would read the arguments wrongly from there on.           *)
(***************************************************************************)
GrammarAgrees ==
  /\ kpc = "parsed" =>
       /\ Valid(text) /\ Len(entry) = Cardinality(Words(text))
       /\ \A w \in Words(text) : Specs(text, w) = {entry[Index(text, w)]}
  /\ kpc = "malformed" => ~Valid(text)

(***************************************************************************)
(* The parser never reads behind the NUL of the kvfmt and never writes a   *)
(* spec behind the last one.                                               *)
(***************************************************************************)
ParserInBounds ==
  cursor <= Len(text) + 1 /\ Len(entry) <= MaxFields

(***************************************************************************)
(* A %m field shows the errno of the moment of the call, whatever locking  *)
(* and allocating have done to errno since.                                *)
(***************************************************************************)
ErrnoOfCall ==
  result.did \in {"line", "child"} =>
    \A i \in DOMAIN result.fields :
      result.fields[i][2] = "ERRNO" => result.fields[i][3] = atCall

(***************************************************************************)
(* A logf() call that passes the gate leaves a line, its own or the        *)
(* diagnostic; a fatal or panic one leaves it at its own level. Only a     *)
(* NOLEVEL call on a logger above ERROR can lose its diagnostic.           *)
(***************************************************************************)
MalformedIsReported ==
  kpc = "done" /\ op = "logf" /\ LevelEnabled(min, level) =>
    \/ result.did \in {"line", "diagnostic"}
       /\ Terminates(level) => result.level = level
    \/ level = NOLEVEL /\ min > ERROR

(***************************************************************************)
(* logf() and withf(): %m shows the errno of the moment of the call, and a *)
(* call that passes the gate leaves its line or the diagnostic of its      *)
(* kvfmt, a fatal one at its own level.                                    *)
(***************************************************************************)
CallAsMade == ErrnoOfCall /\ MalformedIsReported

(***************************************************************************)
(* The parser comes to an end on every string.                             *)
(***************************************************************************)
CallEnds == (kpc # "idle") ~> (kpc = "done")
-----------------------------------------------------------------------------
(* What the parser has found so far, as an inductive invariant.            *)

\* The entries e are the fields of the words of t that begin before p.
Settled(t, e, p) ==
  /\ Len(e) = Cardinality(Before(t, p))
  /\ \A w \in Before(t, p) : Specs(t, w) = {e[Index(t, w)]}

WordBegins(t, p) == p \in DOMAIN t /\ t[p] # Space /\ (p = 1 \/ t[p - 1] = Space)

\* The characters of a key up to and without position k.
KeyBefore(t, first, k) ==
  \A i \in first..(k - 1) : t[i] \notin Banned /\ ~(t[i] = "=" /\ t[i + 1] = "%")

FieldsInv ==
  kpc = "fields" =>
    /\ cursor = 1 \/ text[cursor - 1] = Space \/ Char(0) \in {NUL, Space}
    /\ Settled(text, entry, cursor)

KeyInv ==
  kpc = "key" =>
    LET first == cursor - keyLen
    IN /\ cursor <= Len(text) /\ WordBegins(text, first)
       /\ KeyBefore(text, first, cursor)
       /\ Settled(text, entry, first)

VerbInv ==
  kpc = "verb" =>
    LET k == IF long THEN cursor - 3 ELSE cursor - 2
        first == k - keyLen
        done == SubSeq(entry, 1, Len(entry) - 1)
    IN /\ keyLen > 0 /\ WordBegins(text, first) /\ KeyBefore(text, first, k)
       /\ k + 1 <= Len(text) /\ text[k] = "=" /\ text[k + 1] = "%"
       /\ long <=> (k + 2 <= Len(text) /\ text[k + 2] = "l")
       /\ Settled(text, done, first)
       /\ entry = Append(done, [key |-> SubSeq(text, first, k - 1), arg |-> "none"])

EndInv ==
  /\ kpc \in {"idle", "resolve"} => cursor = 1 /\ entry = <<>>
  /\ kpc = "parsed" => Settled(text, entry, Len(text) + 1)
  /\ kpc = "malformed" => ~Valid(text)

GrammarInv == FieldsInv /\ KeyInv /\ VerbInv /\ EndInv
=============================================================================
