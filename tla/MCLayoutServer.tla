--------------------------- MODULE MCLayoutServer ---------------------------
(* The instances of LayoutServer that TLC checks: paths of every shape     *)
(* that is treated on its own, with escapes that end a name and with names  *)
(* too long; ranges with and without an end, of the first byte, at the edge *)
(* of the file and upside down.  To see the server hang, two paths and no   *)
(* range are enough.                                                        *)
EXTENDS LayoutServer

MCUris == {<<"/">>, <<"/", ".">>, <<"/", "%2e", "x">>, <<".", "?">>,
           <<"/", "?", ".">>, <<"/", "%zz">>, <<".", "%zz">>,
           <<"/", "%2e", "?", "long">>, <<"/", ".", "%zz", "long">>}
MCTwoUris == {<<"/">>, <<"/", "x">>}

MCRanges == {<<0, 0>>, <<0, 1>>, <<2, 1>>}
MCNoRanges == {}
=============================================================================
