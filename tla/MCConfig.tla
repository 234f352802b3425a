------------------------------ MODULE MCConfig ------------------------------
(* The instance of CSOConfig that TLC checks: tables of up to two entries,  *)
(* which give the port, the timer, both or neither, and load up to two      *)
(* libraries, or are numbers; and short scripts for Base64.                 *)
EXTENDS CSOConfig, TLC

Give(port, timer, libs) ==
  [set |-> ("osc_server_port" :> port) @@ ("timer1_interval_ms" :> timer)
           @@ ("osc_debug" :> None),
   loadlibs |-> libs]

CONSTANTS script, lib1, lib2, other, user, system

MCDirs == {user, system}
MCSearches == {<<>>, <<[dir |-> system, readable |-> TRUE]>>,
               <<[dir |-> user, readable |-> FALSE], [dir |-> system, readable |-> TRUE]>>}
MCFiles == {script, lib1, lib2}
MCValues == {Default, other}
MCEntries == {Scalar, Give(other, Default, <<lib1, lib2>>), Give(None, other, <<lib2>>),
              Give(Default, None, <<>>)}
MCTables == {<<e>> : e \in MCEntries} \cup {<<e, f>> : e \in MCEntries, f \in MCEntries}

\* Scripts of up to four bytes, with the first bit, the last bit, or none set.
MCScripts == UNION {[1 .. n -> {0, 1, 77, 128, 255}] : n \in 0 .. 4}
=============================================================================
