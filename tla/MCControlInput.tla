------------------------- MODULE MCControlInput -------------------------
(* Instances of ControlInput for TLC: see README.md for the bounds. *)
EXTENDS ControlInput
MCLetters == {"a", "b"}
MCOptions == {"b"}
MCCommands ==
  {[verb |-> <<"a">>, args |-> <<>>], [verb |-> <<"b", "b">>, args |-> <<"a">>],
   [verb |-> <<"a", "b", "a", "b", "b">>, args |-> <<>>]}
=============================================================================
