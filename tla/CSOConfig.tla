------------------------------ MODULE CSOConfig ------------------------------
(***************************************************************************)
(* How a new CSO is configured (CSO::lua_init): a start.lua is looked for  *)
(* on the search path for scripts, and the other scripts next to it; they  *)
(* are loaded one after the other into one namespace, where each may       *)
(* define, replace or remove the functions the C++ side calls by name; the *)
(* table cso_params returns sets the parameters of the surface, and names  *)
(* libraries that are loaded while the table is being read; cso_init tells *)
(* the Lua side which port was configured.                                 *)
(*                                                                         *)
(* A file that is missing, or raises an error half way, is one that defines*)
(* less: LuaState::do_file reports it and lua_init goes on.  The functions *)
(* called by name are not protected: an error in one of them ends the      *)
(* program.  Scripts are assumed to leave self_tx to cso_init.             *)
(***************************************************************************)
EXTENDS Base64

CONSTANTS
  Files,    \* custom scripts and libraries
  Dirs,     \* directories "cso" on the search path
  Searches, \* what the search may find: the places of a start.lua, in order
  Values,   \* of parameters
  Default,  \* the value of a parameter that nobody sets
  None,     \* no value, no file
  Scalar,   \* an entry that cannot be indexed: a number or a boolean
  Entries,  \* what a table returned by cso_params may hold
  Tables,   \* what cso_params may return, in the order of the iteration
  Scripts   \* scripts that may be built into the program, as cso.lua is

Params == {"osc_server_port", "osc_debug", "timer1_interval_ms"}
Entry == [set : [Params -> Values \cup {None}], loadlibs : Seq(Files)]

TmpCso == "/tmp/cso"
Homes == Dirs \cup {TmpCso}

\* A start.lua that was found, and whether it can be opened.
Place == [dir : Dirs, readable : BOOLEAN]

ASSUME ConfigAssumption ==
  /\ Searches \subseteq Seq(Place)
  /\ Default \in Values
  /\ None \notin Values \cup Files \cup {"cso.lua", "start.lua", "null.lua"}
  /\ Files \cap {"cso.lua", "start.lua", "null.lua"} = {}
  /\ Scalar \notin Entry
  /\ Entries \subseteq Entry \cup {Scalar}
  /\ Tables \subseteq Seq(Entries)
  /\ Scripts \subseteq Seq(Byte)

VARIABLES
  pc,        \* what lua_init does next
  owner,     \* function called by name |-> the file that defined it last, or None
  cso_home_path,
  cso_custom_script_uri, \* a directory and a name
  params,    \* the table cso_params returned
  it, i,     \* the iterators over params and over the loadlibs of an entry
  settings,  \* parameter |-> its value on the C++ side
  self_port, \* the port self_tx sends to
  loaded,    \* history: the libraries loaded, as places in params
  evaluated, \* history: the scripts evaluated, each with its directory
  crashed

scriptVars == <<owner, cso_home_path, cso_custom_script_uri, evaluated>>
vars == <<pc, scriptVars, params, it, i, settings, self_port, loaded, crashed>>

Hooks == {"cso_custom_script_uri", "cso_params", "cso_init"}

\* What evaluating a file does to the functions called by name.
Effects == [Hooks -> {"keep", "define", "remove"}]
Evaluated(file, effect) ==
  [h \in Hooks |-> IF effect[h] = "keep" THEN owner[h]
                   ELSE IF effect[h] = "define" THEN file ELSE None]

Null == <<TmpCso, "null.lua">>

\* The constructor, up to and including cso.lua, which is decoded and loaded.
Init ==
  /\ pc = "find"
  /\ owner = [h \in Hooks |-> IF h = "cso_custom_script_uri" THEN None ELSE "cso.lua"]
  /\ cso_home_path = TmpCso /\ cso_custom_script_uri = Null /\ evaluated = {}
  /\ params = <<>> /\ it = 1 /\ i = 1
  /\ settings = [p \in Params |-> Default]
  /\ self_port = Default
  /\ loaded = <<>> /\ crashed = FALSE

-----------------------------------------------------------------------------
(* The surface's script.                                                   *)

\* set_script_uri_and_path: the first start.lua found is the only one tried;
\* if it cannot be opened, or there is none, the one in /tmp/cso is.
HomeFound(places) ==
  IF places # <<>> /\ Head(places).readable THEN Head(places).dir ELSE TmpCso

FindStart ==
  /\ pc = "find"
  /\ \E places \in Searches : cso_home_path' = HomeFound(places)
  /\ pc' = "start"
  /\ UNCHANGED <<owner, cso_custom_script_uri, evaluated, params, it, i, settings,
                 self_port, loaded, crashed>>

\* Mutant: scripts that are not start.lua stay in /tmp/cso.
InTmp(file) == <<TmpCso, file>>

InHome(file) == <<cso_home_path, file>>

LoadStart(effect) ==
  /\ pc = "start"
  /\ owner' = Evaluated("start.lua", effect)
  /\ evaluated' = evaluated \cup {<<cso_home_path, "start.lua">>}
  /\ pc' = "uri"
  /\ UNCHANGED <<cso_home_path, cso_custom_script_uri, params, it, i, settings, self_port, loaded, crashed>>

\* The first uri_relative of the table counts; without one it stays the null.lua
\* in /tmp/cso, wherever start.lua is.
CallUri ==
  /\ pc = "uri"
  /\ \/ UNCHANGED <<cso_custom_script_uri, crashed>>
     \/ /\ owner["cso_custom_script_uri"] # None
        /\ \/ (\E f \in Files : cso_custom_script_uri' = InHome(f)) /\ UNCHANGED crashed
           \/ crashed' = TRUE /\ UNCHANGED cso_custom_script_uri
  /\ pc' = "custom"
  /\ UNCHANGED <<owner, cso_home_path, evaluated, params, it, i, settings, self_port, loaded>>

LoadCustom(effect) ==
  /\ pc = "custom"
  /\ owner' = Evaluated(cso_custom_script_uri[2], effect)
  /\ evaluated' = evaluated \cup {cso_custom_script_uri}
  /\ pc' = "params"
  /\ UNCHANGED <<cso_home_path, cso_custom_script_uri, params, it, i, settings, self_port, loaded, crashed>>

-----------------------------------------------------------------------------
(* The parameters.  (That of cso.lua returns one entry; the model lets it  *)
(* return any table.)                                                      *)

CallParams ==
  /\ pc = "params"
  /\ \/ UNCHANGED <<params, crashed>>
     \/ /\ owner["cso_params"] # None
        /\ \/ params' \in Tables /\ UNCHANGED crashed
           \/ crashed' = TRUE /\ UNCHANGED params
  /\ pc' = "entry"
  /\ UNCHANGED <<scriptVars, it, i, settings, self_port, loaded>>

\* Mutant: a parameter keeps the first value given.
WithEntryFirst(e) ==
  [p \in Params |-> IF e.set[p] = None \/ settings[p] # Default
                    THEN settings[p] ELSE e.set[p]]

\* The parameters an entry gives with the right type.
WithEntry(e) ==
  [p \in Params |-> IF e.set[p] = None THEN settings[p] ELSE e.set[p]]

ReadEntry ==
  /\ pc = "entry"
  /\ it <= Len(params)
  /\ IF params[it] = Scalar
     THEN crashed' = TRUE /\ UNCHANGED <<pc, i, settings>>
     ELSE /\ settings' = WithEntry(params[it])
          /\ i' = 1
          /\ pc' = "libs"
          /\ UNCHANGED crashed
  /\ UNCHANGED <<scriptVars, params, it, self_port, loaded>>

LoadLib(effect) ==
  /\ pc = "libs"
  /\ i <= Len(params[it].loadlibs)
  /\ owner' = Evaluated(params[it].loadlibs[i], effect)
  /\ evaluated' = evaluated \cup {InHome(params[it].loadlibs[i])}
  /\ loaded' = Append(loaded, <<it, i>>)
  /\ i' = i + 1
  /\ UNCHANGED <<pc, cso_home_path, cso_custom_script_uri, params, it, settings, self_port, crashed>>

\* Mutant: only the first entry is read, as for uri_relative.
AfterEntryBreak == Len(params) + 1

\* Mutant: the iterator is moved on twice.
AfterEntryTwice == it + 2

AfterEntry == it + 1

NextEntry ==
  /\ pc = "libs"
  /\ i > Len(params[it].loadlibs)
  /\ it' = AfterEntry
  /\ pc' = "entry"
  /\ UNCHANGED <<scriptVars, params, i, settings, self_port, loaded, crashed>>

\* Mutant: cso.lua's cso_init keeps the address it was loaded with.
InitPortStays == self_port

\* cso_init of cso.lua: self_tx follows the port it is given.
InitPort == settings["osc_server_port"]

CallInit ==
  /\ pc = "entry"
  /\ it > Len(params)
  /\ \/ owner["cso_init"] = None /\ UNCHANGED <<self_port, crashed>>
     \/ owner["cso_init"] = "cso.lua" /\ self_port' = InitPort /\ UNCHANGED crashed
     \/ /\ owner["cso_init"] \notin {None, "cso.lua"}
        /\ \/ self_port' \in Values /\ UNCHANGED crashed
           \/ crashed' = TRUE /\ UNCHANGED self_port
  /\ pc' = "ready"
  /\ UNCHANGED <<scriptVars, params, it, i, settings, loaded>>

-----------------------------------------------------------------------------
Next ==
  /\ ~crashed
  /\ \/ \E effect \in Effects : LoadStart(effect) \/ LoadCustom(effect) \/ LoadLib(effect)
     \/ FindStart \/ CallUri \/ CallParams \/ ReadEntry \/ NextEntry \/ CallInit

Spec == Init /\ [][Next]_vars

-----------------------------------------------------------------------------
(* Properties.                                                             *)

\* The state has its type.
TypeOK ==
  /\ pc \in {"find", "start", "uri", "custom", "params", "entry", "libs", "ready"}
  /\ owner \in [Hooks -> Files \cup {"cso.lua", "start.lua", "null.lua", None}]
  /\ cso_home_path \in Homes
  /\ cso_custom_script_uri \in Homes \X (Files \cup {"null.lua"})
  /\ evaluated \subseteq Homes \X (Files \cup {"start.lua", "null.lua"})
  /\ params \in Tables \cup {<<>>}
  /\ it \in 1 .. Len(params) + 1
  /\ i \in Nat \ {0}
  /\ settings \in [Params -> Values]
  /\ self_port \in Values
  /\ loaded \in Seq((Nat \ {0}) \X (Nat \ {0}))
  /\ crashed \in BOOLEAN

\* When the constructor is done, what Lua sends to itself (cso_map_add) goes to
\* the port start() will open the server on, whichever scripts were loaded and
\* whatever they set; unless one of them brought a cso_init of its own, or
\* took it away.
SelfReachesServer ==
  pc = "ready" /\ owner["cso_init"] = "cso.lua" =>
    self_port = settings["osc_server_port"]

\* The scripts of a surface come from one directory, the one its start.lua was
\* found in: never one of another surface, or an older one that was left in
\* /tmp/cso; except for the null.lua of /tmp/cso.
ScriptsTogether ==
  \A s \in evaluated : s[1] = cso_home_path \/ s = Null

\* Entries that have been read.
Read == {n \in 1 .. Len(params) : n < it \/ (n = it /\ pc = "libs")}

\* Each parameter has the value given last, or the constructor's default when
\* the cso_params in force does not give it: what the one of cso.lua would
\* have given counts for nothing.
SettingsLastGiven ==
  \A p \in Params :
    LET Giving == {n \in Read : params[n] # Scalar /\ params[n].set[p] # None} IN
    /\ Giving = {} => settings[p] = Default
    /\ \A n \in Giving : (\A k \in Giving : k <= n) => settings[p] = params[n].set[p]

\* When cso_init is called, every library of every entry has been loaded once,
\* in the order of the table, whatever the others did: one that fails, or
\* replaces cso_params meanwhile, keeps none of them out.
LibsAllLoaded ==
  pc = "ready" =>
    /\ \A e \in {n \in DOMAIN params : params[n] # Scalar} :
         \A l \in DOMAIN params[e].loadlibs : \E n \in DOMAIN loaded : loaded[n] = <<e, l>>
    /\ \A m, n \in DOMAIN loaded : m < n =>
         \/ loaded[m][1] < loaded[n][1]
         \/ loaded[m][1] = loaded[n][1] /\ loaded[m][2] < loaded[n][2]

\* A script that was built into the program is what was encoded when lua_init
\* decodes it.  (A constant formula: once, where lua_init begins, is enough.)
ScriptSurvives == pc = "find" => \A data \in Scripts : Survives(data)
=============================================================================
