------------------------------- MODULE Mirror -------------------------------
(***************************************************************************)
(* What the MQTT thread promises of every topic: it shows the reports in   *)
(* the order they were made.  Some may never be shown; one that is shown   *)
(* is never replaced by an older one, and none is invented.                *)
(***************************************************************************)
EXTENDS Naturals

CONSTANT Topics

VARIABLES
  reported,    \* for each topic, how many reports of it were made
  shown        \* for each topic, the report that it shows; 0 is none

vars == <<reported, shown>>

Report ==
  /\ \E T \in (SUBSET Topics) \ {{}} :
       reported' = [t \in Topics |-> IF t \in T THEN reported[t] + 1
                                                ELSE reported[t]]
  /\ UNCHANGED shown

Show ==
  /\ \E t \in Topics : \E n \in shown[t] + 1..reported[t] :
       shown' = [shown EXCEPT ![t] = n]
  /\ UNCHANGED reported

Init ==
  /\ reported = [t \in Topics |-> 0]
  /\ shown = [t \in Topics |-> 0]

Next == Report \/ Show

Spec == Init /\ [][Next]_vars

=============================================================================
