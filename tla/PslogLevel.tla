------------------------------ MODULE PslogLevel ------------------------------
(***************************************************************************)
(* Severity levels and the level gate of libpslog.  The values are those   *)
(* of enum pslog_level; a logger call carries a level, a logger carries a  *)
(* minimum level, and pslog_should_log decides whether the call emits.     *)
(***************************************************************************)
EXTENDS Integers

TRACE    == -1
DEBUG    == 0
INFO     == 1
WARN     == 2
ERROR    == 3
FATAL    == 4
PANIC    == 5
NOLEVEL  == 6
DISABLED == 127

Level == {TRACE, DEBUG, INFO, WARN, ERROR, FATAL, PANIC, NOLEVEL, DISABLED}

(***************************************************************************)
(* The threshold a minimum level stands for: NOLEVEL filters like INFO.    *)
(***************************************************************************)
Threshold(min) == IF min = NOLEVEL THEN INFO ELSE min

(***************************************************************************)
(* The level part of pslog_should_log: DISABLED calls never emit, FATAL    *)
(* and PANIC calls always do, a DISABLED logger emits nothing else, and    *)
(* any other call needs a level at or above the threshold.                 *)
(***************************************************************************)
LevelEnabled(min, level) ==
  /\ level # DISABLED
  /\ \/ level \in {FATAL, PANIC}
     \/ min # DISABLED /\ level >= Threshold(min)

(***************************************************************************)
(* Calls that end the process once their line has been emitted: fatal      *)
(* exits and panic aborts.                                                 *)
(***************************************************************************)
Terminates(level) == level \in {FATAL, PANIC}

===============================================================================
