----------------------------- MODULE LineStream -----------------------------
(***************************************************************************)
(* What the serial thread promises the panel manager: the lines the PRT3   *)
(* sends arrive whole, each one once, in the order they were sent,         *)
(* however the bytes are cut up on their way.                              *)
(***************************************************************************)
EXTENDS Sequences

CONSTANT Lines     \* the lines the PRT3 sends

VARIABLES
  pending,         \* lines sent and not yet published
  published        \* lines published and not yet taken

vars == <<pending, published>>

Send ==
  /\ \E l \in Lines : pending' = Append(pending, l)
  /\ UNCHANGED published

Publish ==
  /\ pending # << >>
  /\ published' = Append(published, Head(pending))
  /\ pending' = Tail(pending)

Take ==
  /\ published # << >>
  /\ published' = Tail(published)
  /\ UNCHANGED pending

Init == pending = << >> /\ published = << >>
Next == Send \/ Publish \/ Take
Spec == Init /\ [][Next]_vars

=============================================================================
