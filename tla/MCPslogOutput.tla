---------------------------- MODULE MCPslogOutput ----------------------------
(***************************************************************************)
(* PslogOutput for TLC.                                                    *)
(***************************************************************************)
EXTENDS PslogOutput, TLC

MCMinLevel == INFO

\* One level the logger emits and one that ends the process.
MCCallLevels == {INFO, FATAL}

\* One level the logger filters and one it emits.
MCLiveLevels == {DEBUG, INFO}

==============================================================================
