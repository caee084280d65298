----------------------------- MODULE MCRequests -----------------------------
(***************************************************************************)
(* An instance of Requests for TLC: an area and a zone behind entries that *)
(* were not configured, a user code, every command for that area, one for  *)
(* an area the daemon was not given, and a utility key.                    *)
(***************************************************************************)
EXTENDS Requests

Away(n)   == [command |-> "ARM_AWAY", num |-> n]
Home(n)   == [command |-> "ARM_HOME", num |-> n]
Disarm(n) == [command |-> "DISARM", num |-> n]
Key(n)    == [command |-> UTILITY_KEY, num |-> n]

OneArea == {2}
LastArea == {MaxAreas}
OneZone == {2}
SomeCommands == {Away(2), Home(2), Disarm(2), Away(1), Key(1)}

=============================================================================
