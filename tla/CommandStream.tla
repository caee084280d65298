--------------------------- MODULE CommandStream ---------------------------
(***************************************************************************)
(* What the daemon promises its users: the commands it takes reach the     *)
(* panel in the order they were given, each at most once and none that was *)
(* not given.  One can be lost on the way, and is then not made up for.    *)
(***************************************************************************)
EXTENDS Naturals, Sequences

CONSTANT Orders    \* what a command means to the panel

VARIABLES
  pending,         \* commands given that have not reached the panel
  reached,         \* what the panel was told, in that order
  lost             \* how many commands were lost

vars == <<pending, reached, lost>>

Give ==
  /\ \E o \in Orders : pending' = Append(pending, o)
  /\ UNCHANGED <<reached, lost>>

Reach ==
  /\ pending # << >>
  /\ reached' = Append(reached, Head(pending))
  /\ pending' = Tail(pending)
  /\ UNCHANGED lost

Lose ==
  /\ \E i \in 1..Len(pending) :
       pending' = SubSeq(pending, 1, i - 1) \o SubSeq(pending, i + 1, Len(pending))
  /\ lost' = lost + 1
  /\ UNCHANGED reached

Init == pending = << >> /\ reached = << >> /\ lost = 0
Next == Give \/ Reach \/ Lose
Spec == Init /\ [][Next]_vars

=============================================================================
