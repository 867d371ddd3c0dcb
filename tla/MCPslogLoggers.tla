---------------------------- MODULE MCPslogLoggers ----------------------------
(***************************************************************************)
(* The life of loggers for TLC: the tree with its reference count          *)
(* (PslogLifecycle), the memory of one derivation (PslogDerive) and the    *)
(* kvfmt of logf and withf (PslogKvfmt). A behaviour is one of one         *)
(* component, part; the others stay as they began.                         *)
(***************************************************************************)
EXTENDS PslogLifecycle, PslogDerive, PslogKvfmt

\* One derivation: a four-bit size_t, an inline buffer of three bytes and texts
\* of up to 14 bytes: buffers that are inline, on the heap, grown once or twice,
\* and at the largest capacity size_t allows.
MCPieceLists == {<<>>, <<2>>, <<1, 2>>, <<3, 1>>, <<1, 5, 1>>, <<4, 1, 1, 3>>,
                 <<9, 1, 4>>, <<12, 2>>}

MCEstimates == {0, 1, 2, 3, 4, 7, 8, 14, 15}

MCFieldLists == {<<>>, <<"SIGNED">>, <<"STRING", "BYTES">>,
                 <<"SIGNED", "STRING", "STRING">>}

\* The parser: every string of up to four chunks, a chunk being a character the
\* parser tells apart, "=%", or a whole field. With two fields allowed, four
\* chunks reach one field too many, keys that contain '=', and every way a field
\* can be cut short.
Chunks == {<<"k">>, <<"=">>, <<"%">>, <<" ">>, <<"=", "%">>, <<"s">>, <<"l">>,
           <<"d">>, <<"m">>, <<"\"">>, <<"k", "=", "%", "s">>,
           <<"k", "=", "%", "l", "u", " ">>}

AllTexts == {a \o b \o c \o d : a, b, c, d \in Chunks \cup {<<>>}}

\* The calls: one string of each kind, at every level.
SomeTexts ==
  {<<>>, <<" ">>, <<"k">>, <<"k", "=", "%", "m">>, <<"k", "=", "%", "s">>,
   <<"k", "=", "%", "s", " ", "k", "=", "%", "m">>, <<"k", "=", "%", "l", "m">>,
   <<"k", " ", "=", "%", "s">>}

AllErrnos == {0, 4}

\* The parser reads a kvfmt the same way at every level.
Parser == INSTANCE PslogKvfmt WITH
            Texts <- AllTexts, Levels <- {1}, MinLevels <- {1}, Errnos <- {0}

ASSUME ParserAssumption == Parser!KvfmtAssumption

VARIABLE part

treeVars == vars
allVars == <<part, treeVars, deriveVars, kvfmtVars>>

MCInit ==
  /\ part \in {"tree", "derive", "parser", "calls"}
  /\ Init /\ DeriveInit
  /\ IF part = "calls" THEN KvfmtInit ELSE Parser!KvfmtInit

DeriveMoves == part = "derive" /\ DeriveStep /\ UNCHANGED <<part, treeVars, kvfmtVars>>
DestroyMoves ==
  /\ part = "derive" /\ dpc = "destroy"
  /\ DestroyChild /\ UNCHANGED <<part, treeVars, kvfmtVars>>
ParserMoves == part = "parser" /\ Parser!KvfmtStep /\ UNCHANGED <<part, treeVars, deriveVars>>
CallMoves == part = "calls" /\ KvfmtStep /\ UNCHANGED <<part, treeVars, deriveVars>>

MCNext ==
  \/ part = "tree" /\ Next /\ UNCHANGED <<part, deriveVars, kvfmtVars>>
  \/ part = "derive" /\ DeriveNext /\ UNCHANGED <<part, treeVars, kvfmtVars>>
  \/ part = "parser" /\ Parser!KvfmtNext /\ UNCHANGED <<part, treeVars, deriveVars>>
  \/ part = "calls" /\ KvfmtNext /\ UNCHANGED <<part, treeVars, deriveVars>>
  \/ part # "tree" /\ UNCHANGED allVars

\* A call runs to its end; clients may do without calls.
MCSpec ==
  /\ MCInit /\ [][MCNext]_allVars
  /\ WF_allVars(DeriveMoves) /\ WF_allVars(DestroyMoves)
  /\ WF_allVars(ParserMoves) /\ WF_allVars(CallMoves)

(***************************************************************************)
(* with() and destroy() return whichever allocation fails, and the kvfmt   *)
(* parser comes to an end on every string.                                 *)
(***************************************************************************)
CallsEnd == Returns /\ CallEnds
=============================================================================
