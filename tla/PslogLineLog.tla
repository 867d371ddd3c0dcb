----------------------------- MODULE PslogLineLog -----------------------------
(***************************************************************************)
(* What a logger tree promises of its output: an append-only log to which  *)
(* whole lines are added one at a time, each at most once, until the       *)
(* output is closed.  If the sink refuses a part of a line, the log holds  *)
(* the rest of that line, in order.                                        *)
(***************************************************************************)
EXTENDS Integers, Sequences

CONSTANT Lines          \* records with a field size, the length of the line

VARIABLES
  log,                  \* the units of the lines in the log
  open,                 \* whether the output is open
  refused               \* the lines the sink refused a part of

vars == <<log, open, refused>>

Init == log = <<>> /\ open = TRUE /\ refused = {}

\* The positions new has beyond old.
Added(old, new) == (Len(old) + 1)..Len(new)

(***************************************************************************)
(* new is old with a line l behind it: all of l, or what is left of it in  *)
(* order if the sink refused a part.                                       *)
(***************************************************************************)
Appends(old, new, l, lossy) ==
  /\ Len(new) > Len(old)
  /\ \A i \in 1..Len(old) : new[i] = old[i] /\ old[i].line # l
  /\ \A i \in Added(old, new) : new[i].line = l /\ new[i].idx \in 1..l.size
  /\ \A i, j \in Added(old, new) : i < j => new[i].idx < new[j].idx
  /\ ~lossy => Len(new) = Len(old) + l.size

AppendLine(l) ==
  /\ open
  /\ Appends(log, log', l, l \in refused)
  /\ UNCHANGED <<open, refused>>

Refuse(l) ==
  /\ open
  /\ refused' = refused \cup {l}
  /\ UNCHANGED <<log, open>>

Close ==
  /\ open
  /\ open' = FALSE
  /\ UNCHANGED <<log, refused>>

Next ==
  \/ \E l \in Lines : AppendLine(l)
  \/ \E l \in Lines : Refuse(l)
  \/ Close

Spec == Init /\ [][Next]_vars

===============================================================================
