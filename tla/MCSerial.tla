------------------------------ MODULE MCSerial ------------------------------
(***************************************************************************)
(* Instances of Serial for TLC.  Lines of two bytes fill an input buffer   *)
(* of four: its last two bytes are the one that is too many and the 0.     *)
(***************************************************************************)
EXTENDS Serial

\* Lines that fit, of different lengths.
ShortLines == {<<"a">>, <<"b", "c">>}

\* One line that is too long, and one that fits.
AnyLines == {<<"a">>, <<"b", "c", "d">>}

=============================================================================
