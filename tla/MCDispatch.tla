----------------------------- MODULE MCDispatch -----------------------------
(* The instance of CSODispatch that TLC checks.  One path is that of a     *)
(* built-in handler (which takes "s"); with types "s" it collides with the *)
(* second as soon as the separator is left out of the key, and with types  *)
(* ";s" it has the key of the third with "s".  "b" is a tag that           *)
(* lua_push_lo_type does not know.                                         *)
EXTENDS CSODispatch, TLC

MCTokens == {"s", ";", "/eval"}
MCPaths == {<<"/eval">>, <<"/eval", "s">>, <<"/eval", ";">>}
MCTags == {"s", "b"}
MCTypes == {<<>>, <<"s">>, <<"b", "b">>}
MCMapTypes == MCTypes \cup {<<";", "s">>}
MCSupported == {"s"}
\* The names of the functions are interchangeable.
MCSymmetry == Permutations(Methods)
=============================================================================
