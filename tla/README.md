# TLA+ models of the Control Surface Object (CSO) for Ardour

CSO is a control surface module of the Ardour DAW.  It opens an OSC server,
binds OSC messages to Lua functions, calls Lua functions of fixed names on
signals of the session and on a timer, and is shaped by Lua scripts: a start
script, a custom script, libraries.  One of these scripts turns a tablet
running TouchOSC into a transport panel; a small HTTP server, `tosrv`, delivers
the layout to the tablet.

This directory holds models of these parts, the TLC configurations that check
them, and TLAPS proofs about eight of them.  Paths below are relative to the
root of the repository (`src/`).

Contents: 1 Inventory, 2 Modules, 3 Runs and bounds, 4 Fairness, 5 Proofs,
6 Findings, 7 What is assumed of external code, 8 What is not modelled,
9 Observations, 10 Plan.

## 1. Inventory

### 1.1 Threads and processes

| who | runs |
|---|---|
| host thread (GUI) | `new CSO` (and with it `lua_init`), `set_active`, `start`, `cso_start`, the destructor, which is `stop` |
| event loop thread of the surface | the socket's handler (every OSC handler, hence most Lua), the timer's callback, the requests left by signals |
| other threads of Ardour | emit the session's signals; the process thread carries out what scripts request of the session |
| `tosrv` | one process with one thread for one connection |

There is one Lua state for each surface and no lock around it.

### 1.2 Components

**OSC dispatch and mappings** (`libs/surfaces/cso/cso.cc` 295-430, 532-640).
State: `osc_map`, a `std::map` from the string `path;types` to `OSCMapping`; the
Lua functions; the Lua stack.  Operations: `/eval`, `/map/add`, `/map/remove`,
`/map/clear`, `/map/dump`, and the catch-all handler that pushes the arguments
of a message and calls the mapped function with `lua_pcall`.
Hard: the key is a concatenation, and the types in it are whatever string the
request holds; arguments are read by the mapping's types, not the message's;
unsupported type tags push nothing but are counted; nothing pops the message of
a failed call.
Correct when: a function is entered with exactly the arguments of its message;
each address is bound to the function asked for last, and what other requests
can do to it is known; failures stay inside the protected call, or it is known
which do not; the stack loses a bounded amount.

**Settings, feedback and hooks** (`cso.cc` 433-530, 932-1095; `cso.lua`).
State: three output flags, `feedback_address`, `print_address`, and in Lua
`surface_tx`.  Operations: `/connect`, `/debug`, `/print/...`, and all functions
called by name without protection.
Hard: two copies of the feedback address, joined by a hook scripts may replace;
an address owned by a message that is freed.
Correct when: both copies agree until a script interferes; `print()` has an
address to send to; an absent hook is harmless.

**Life cycle and threads** (`cso.cc` 57-293, `interface.cc`).
State: `osc_server`, the main loop and its sources, the timer, connections to
signals, buffers.  Operations: construction, `set_active`, `start`, `stop`,
`thread_init`, the loop, `osc_input_handler`, `cb_timer1`, `do_request`.
Hard: two threads in one Lua state; a server that is freed while it is a source
of a loop; activation that fails and is tried again; signals that arrive during
destruction; a thread that stops itself, before or after the host wants it to.
Correct when: nothing is used after it is freed unless a Quit request is carried
out during deletion, callbacks come after `cso_start`, an active surface really
serves, deletion ends.

**Configuration** (`cso.cc` 645-930; `cso.lua`, `start.lua`, `null.lua`).
State: the home of the scripts, the namespace of Lua functions, the parameters.
Operations: the search for `start.lua` and the steps of `lua_init` from there on.
Hard: a home that is found after defaults for another one were set, files that
replace functions which are about to be called, libraries loaded while the table
naming them is being read.
Correct when: all scripts come from one directory, C++ and Lua agree on the
port, the setting given last counts, every library is loaded once.

**Base64 helpers** (`cso_b64.h`, `cso_script.h`).
Stateless: `cso.lua` is compiled into the program as Base64, decoded by Lua code
that works on strings of binary digits.
Hard: the last group, which may be short, and its padding.
Correct when: what is decoded is what was encoded, for every length.

**TouchOSC model** (`scripts/cso/touchosc.lua`, `cso.lua`).
State: the tables of tabs and widgets with random names; mappings that
travel through the surface's own UDP socket.
Hard: sent before defined, by one thread for another, through a socket that may
drop them; names that are not unique.
Correct when: every widget is answered by its own function in the end, or what
keeps it from it is known.

**Transport surface** (`scripts/cso/touchosc1/transport.lua`).
State: `transport_was_rolling`, the active tab, the lights, the encoder's mode,
the heartbeat counter; in the session speed, position, recording, loop.
Hard: the session is asked for its state, requests are made afterwards, and are
carried out later still, while other threads change it in between; a button's
release has to undo what its press did.
Correct when: shuttling ends with the release, the transport goes on as before,
nothing is decided against a recording that goes on, and the lights show the
session.

**Layout server** (`tools/touchosc_layout_server/tosrv.c`).
State: the reader's buffer and pointer, the buffer of a line, the request, what
is left to write, the connection.  Operations: `open_listenfd`, `rio_read`,
`rio_readlineb`, `parse_request`, `url_decode`, `process`, `writen`,
`serve_static`.
Hard: `read()` and `write()` that do a part of what they were asked for, a client
that hangs up anywhere, paths that are decoded after being cut, escapes that
decode to the end of the name, names longer than their buffer, ranges whose end
is counted up in place, uninitialized memory.
Correct when: lines come out as they were sent; only the layout, to whoever asks
for it, only the bytes asked for, and an end.

Not modelled: the other surface scripts, the library of Ardour actions, the JSON
and XML libraries, the conversion tools and build scripts (section 8).

### 1.3 Interactions

* An OSC client reaches `lo_server`, which tries the built-in handlers in order
  of registration and the catch-all handler last.  A mapped Lua function may
  call the session (`request_...`), change the namespace, or send OSC.
* `cso_map_add` in Lua sends `/map/add` to the surface's own server, through the
  socket the event loop thread reads.  It relies on `self_tx`, which relies on
  the port `lua_init` configured and `cso_init` passed on.
* Signals of the session are turned by AbstractUI into requests in a buffer of
  the event loop; their handlers call Lua functions by name, which the transport
  script defines.

## 2. Modules

| module | models | what matters in it |
|---|---|---|
| `OscMap` | abstract specification of the mappings | an address is bound to at most one function; calls go to bound functions with exact arguments |
| `CSODispatch` | dispatch | one action per handler; strings are sequences of tokens, so that keys can and do collide; the Lua stack is a number of slots |
| `CSOFeedback` | settings, addresses, hooks | one action per handler; who owns an address; what each hook does |
| `CSOLifecycle` | threads and lifetime | one program counter per thread; every statement of `start`/`stop` another thread can see is a step |
| `CSOConfig` | `lua_init` | one action per statement that looks for a script, runs one or calls a function by name |
| `Base64` | `cso_b64.h` | operators on sequences of bytes and digits, by the place of each binary digit; a reference definition by arithmetic |
| `SurfaceStart` | mapping the widgets during `cso_start` | host thread, socket, event loop |
| `Transport` | `transport.lua` and the session | for each button a step that asks and one for each request it makes; requests in a queue |
| `LayoutServer` | `tosrv.c` and its client | one action per line read, answer, piece written, delivery |
| `LineReader` | abstract specification of reading lines | what is unread is cut at newlines, at the limit, or where the connection ends |
| `Rio` | `rio_read`, `rio_readlineb` | byte by byte; one action per refill, copied byte, interruption, error |
| `MCDispatch`, `MCFeedback`, `MCLifecycle`, `MCConfig`, `MCTransport`, `MCLayoutServer`, `MCRio` | | the instances TLC checks |
| `CSODispatchProofs`, `CSOFeedbackProofs`, `CSOLifecycleProofs`, `CSOConfigProofs`, `SurfaceStartProofs`, `TransportProofs`, `LayoutServerProofs`, `RioProofs` | | theorems and proofs |

Two refinements tie the tables of mappings together: `CSODispatch` implements
`OscMap` with its map of strings and its Lua stack, and so does `SurfaceStart`
with the mappings a surface script sends itself.  `Rio` implements `LineReader`,
whose lines are what `LayoutServer` reads.

State and actions keep the names of the code.  In short:

* `CSODispatch`: `Key` is the concatenation at `cso.cc:385`, `MapAdd` its erase
  and insert, `Catchall` is `cb_osc_catchall`; `TakenByBuiltin` is the order of
  registration.  `lastCall` and `asked` are history.  The types of a message are
  tags (liblo sees to that); those of a mapping (`MapTypes`) are any string, so a
  mapping may hold the separator, stand under the key of another address, and be
  found for a message with fewer arguments.  `Misread` are the positions at which
  `argv` is then read past its end.  `CallWrongSlot` is what `lua_pcall` does when
  it is told of more arguments than were pushed: it takes a lower slot for the
  function.  With fewer slots than that, or after a misread, the outcome is
  undefined, a choice of `crashed'`.
* `CSOFeedback`: `SetFeedbackAddress` is both branches of `cb_osc_connect` and the
  hook; `RegisteredFor` are the types a handler is registered with.
* `CSOLifecycle`: `Activate ... ConnectSignals` are the statements of `start` and
  `set_active`, `Delete ... DestroyCP` those of `stop` and of the destructors of
  the bases; `Poll`, `Dispatch...` are an iteration of the loop; `evPc` in
  `osc`, `timer`, `slot` means that thread is in Lua.  Two threads in Lua are a
  data race, a choice of `crashed'`.  A Quit request makes the loop thread run
  `stop`: `QuitSelf` when the loop still runs (it then joins itself),
  `StopUnderLoop` when the host has told it to quit before: the server is freed
  and the thread returns to its loop, where `DispatchIOFreed` uses it.  `stopped`
  remembers that a Quit request was carried out.
* `CSOConfig`: `FindStart` is `set_script_uri_and_path`.  `owner` says which file
  defined a function last; a file does anything to it (`Effects`).  The histories
  are `evaluated`, scripts with their directories, and `loaded`, libraries.
* `SurfaceStart`: `MapNext`/`Load` are the two halves of one round of the loop in
  `tosc_create_osc_mappings_from_model`; `random` are the names of
  `string.random`, equal ones included.  The model allows any order of `pairs()`.
* `Transport`: a button is three kinds of steps, since other threads go on
  meanwhile: `Decide` runs its function up to what it makes of
  `rec_going_on()` and the rest it reads, `Ask` makes one of the requests decided
  on (`todo`), `LightRoll` is the light that is set last.  `pending` is what was
  requested and not carried out, `Process` the process thread, `Host` all other
  users of the session.  `held`, `before`, `meddled`, `crossed`, `misled` and
  `stale` (how many requests, made or decided on, are older than the recording)
  are history.
* `LayoutServer`: a line is abstracted to its kind, a path to tokens.  `ReadLine`
  leaves the buffer alone at the end of the connection, as `rio_readlineb` does.
  `FileName` is the rest of `parse_request` with `url_decode`, in which the token
  `%zz` ends the name; `EndOf` what every line that begins with `Ran` does to
  the end of the range.  A name with the token `long` goes over `offset` and `end`
  (`Overlong`), which then may be anything.  `StatusFor` is `process`, `Write` one
  call of `write()` in `writen`, which has `nleft` to go; an empty `uri` is
  uninitialized memory.
* `Rio`: `Refill` is a `read()` that delivers one byte or more, `CopyByte` a round
  of the loop in `rio_readlineb`, for which `rio_read` is called with 1.

Operators whose comment begins with "Mutant:" are not part of a model.  Each is
a plausible mistake in the definition below it; putting it in place makes a
property of a run fail, which shows that the property depends on that code.

## 3. Runs and bounds

Times are for two workers.

| run | module / cfg | distinct states | result |
|---|---|---|---|
| `dispatch` | `MCDispatch` / `Dispatch` | 96,600 (45 s) | holds |
| `builtin_paths` | `MCDispatch` / `DispatchReserved` | stops at the violation | finding 1 |
| `feedback` | `MCFeedback` / `Feedback` | 46,944 | holds |
| `lifecycle` | `MCLifecycle` / `Lifecycle` | 21,554, with liveness | holds |
| `shuttle` | `MCTransport` / `TransportShuttle` | 2.9 million (45 s) | holds |
| `lights` | `MCTransport` / `TransportLights` | 2.2 million (30 s) | holds |
| `transport_roll` | `MCTransport` / `TransportRoll` | stops at the violation | finding 2 |
| `surface_start` | `SurfaceStart` | 362,535, with liveness | holds |
| `layout_server` | `MCLayoutServer` / `LayoutServer` | 2.6 million (65 s), with liveness | holds |
| `layout_quits` | `MCLayoutServer` / `LayoutServerQuits` | stops at the violation | finding 3 |
| `rio` | `MCRio` / `Rio` | 91,684, with liveness | holds |
| `config` | `MCConfig` / `Config` | 84,331 | holds |

**dispatch** checks that a function is entered with the arguments of its message
and no others (`ExactArguments`), that every address is bound to what was asked
for it last, where a request with a separator in its types may unbind another
address and do nothing else to it (`LatestRequestWins`, `ImplementsOscMap`), that
the stack loses at most a slot per failure (`StackLeakBounded`), and that only
mappings with two unsupported tags or with a separator take the host down
(`CallErrorsContained`).  *Bounds.*  Three paths, three type lists of messages,
one more for mappings, `;s`, and two functions.  The paths are `/eval`, which a
built-in handler takes for some types only; `/eval` followed by a token that is
also a tag, so that keys without their separator would collide; and `/eval`
followed by the separator, whose key with `s` is that of `/eval` with `;s`: the
collision of the code.  Type lists have zero, one and two unsupported tags, the
cases that lead to no, a callable and an undefined slot.  `MaxMappings` (mappings
at once) and `MaxFailures` (failing calls) are 2: a second mapping can meet the
first under its key, and after one failure two unsupported tags find their slot,
without one they do not.  The proofs need none of these bounds.

**feedback**: three peers, one signal hook (all are called alike).  It checks
that the two copies of the feedback address agree until a script interferes
(`FeedbackAgrees`) and that only a hook which raises an error ends the program
(`OnlyRaisingHooksCrash`).  All values are finite; no bound.

**lifecycle**: `MaxInbox`, `MaxRequests` = 2 are capacities and not bounds on
behaviour: a full buffer drops, as in the code.  `MaxSignals` = 3 bounds signals
emitted in the life of an object, one more than the buffer holds.
Datagrams are not bounded.  A surface may be created, activated (also
unsuccessfully), deactivated and deleted again and again; its socket may fail;
a Quit request may make the event loop thread run `stop()` itself, at any
moment, before or after the host has told the loop to quit.  What that breaks is
stated and no more is: the server may be freed under the loop only then, and only
by the loop thread while the host waits for it (`LoopOnLiveServer`); without a
Quit request the host is lost only to the Lua state both threads share, at the
two ends of the surface's life (`LostOnlyInRaces`).  The run also checks that
activation and deletion complete, unless the host is lost, also with Quit requests
(`HostReturns`), and that socket and requests drain (`QueuesDrain`), unless the
loop thread stopped itself.

**shuttle** runs every button that has to do with the transport against two
pending requests, recording and other users.  It checks that shuttling ends
(`ShuttleEnds`), that one press of a button leaves the transport as it was
(`RollRestored`), and that a recording is disturbed only by requests which were
made, or decided on, when it began (`RecordingUndisturbed`): between
`rec_going_on()` and the request another thread may begin to record, and the
request is made all the same.  `MaxPending` = 2 is the least with
which `fast_forward` at position 0 can make its two requests, and with it a press
can find the stop of the last release still pending.  **lights** runs buttons
that change each light with both tabs and the timer (`LightsTrue`);
`HeartbeatEvery` = 2 has intervals with and without a heartbeat.  The two
questions have runs of their own, since each needs what the other's state space
cannot afford.

**surface_start**: three widgets (a tab is one of them), three names, so that
all, two or none of them share a name, and a socket of two messages, so that a
mapping may be dropped.  Presses are not bounded.

**layout_server** checks that the layout goes to those who ask for it, and to
nobody else but those whose path an escape cuts to a dot (`LayoutOnRequest`); that
a client which sends one range gets nothing outside of it, with the exceptions of
the code spelled out (`RangeHonoured`); and that a client which stays gets the
whole answer's head and an end (`CompleteRequestEnds`).  `FileSize` = 3 has room
for ranges inside, across and past the end; `Ranges` has the first byte alone,
which the code takes for all of the file, the first two, and one upside down, each
also without its end; `MaxLines` = 4 for a request line, two headers that override
or count up each other and the blank line; `AnswerSize` = 2 for a head that goes
out in two pieces.  `Uris` has paths of every shape that is treated on its own,
with and without the leading `/`, with a query, an encoded dot, an escape that
ends the name, text that is too long where it counts and where it is cut off, and
those in which the order of cutting and decoding shows.

**rio** checks the refinement of `LineReader`, its fairness included: lines are
cut at the right places, whole, in order and without waiting for more than they
need.  `RIO_BUFSIZE` = 2 lets a line span refills and a refill span lines;
`MAXLINE` = 4 lets the limit cut lines of three bytes; `MaxBytes` = 5 is a full
line and its rest, or two lines with a newline inside the internal buffer.

**config**: tables with up to two entries, which set the port, the timer, both or
neither, load no or two libraries or one, or are numbers; searches that find no
`start.lua`, one, or an unreadable one before a good one.  `ScriptSurvives`
evaluates `Base64` for `Scripts`: those of up to four bytes in which no bit, the
first, the last, some or all are set, with every length of the last group, also
after a full one.  `CSOConfig` has what may be built in as a constant so that the
proof can speak of all scripts.

Deadlock is not checked where the program really may stop: a crashed host, a
full bound of signals, an exited server, a finished constructor.  `SurfaceStart`
and `Transport` check it.

## 4. Fairness

* `CSOLifecycle`: weak fairness of the host thread inside `start` and `stop`
  (`HostRuns`) and of the event loop thread (`EventRuns`): the operating system
  schedules both, and Lua functions return.  Nobody has to create, activate or
  delete a surface, send it anything or break its socket.  In particular it is not
  assumed that a *specific* source is dispatched: that the loop gets to each
  follows from its iterations, since glib dispatches all that was ready.  Signals
  are finite (`MaxSignals`); with an endless stream of them the drain of requests
  would not be a matter of the loop alone.
* `SurfaceStart`: weak fairness of the loop in `cso_start` and of the event loop
  thread, for the same reason.  The surface's user need not press anything.
* `Rio`: weak fairness of the reader: `read()` returns when there is something to
  read, or the connection has ended.  Interruptions are not limited, the client
  need not send.  `LineReader` requires of its implementations that a complete
  line is returned.
* `LayoutServer`: weak fairness of the server.  `FairSpec`, used for finding 3
  only, adds that a client does not stay silent for good: TCP tells when it is
  gone.
* The other specifications state safety only and assume nothing.

## 5. Proofs

Every theorem is checked by TLAPS for all values of the constants that satisfy
the named assumptions: any sets of paths, types, functions, peers, widgets,
files, bytes, ranges, any capacities, buffer sizes and bounds.

**Dispatch** (`CSODispatchProofs`).  The base is `KeysShared`: `path;types` determines
path and types as long as the types hold no separator, and a request whose types
do hold one reaches the key of a message only if they are longer than the
message's.  Paths may contain the separator and types of messages cannot
(`TypesAssumption`), so the last separator is *the* separator of a message's key;
the proof compares where it stands in two equal keys.  From it follows
`MappingsKeyed`: what is found under the key of a message is its own mapping or
one with a separator in its types.  The latter is not entered, since the separator
is a tag nothing is pushed for: hence `ArgumentsExact`, for messages of any
address.  `Implements`, whose steps are one lemma per handler, and
`RequestsTakeEffect` say what the collision does to the table, `ErrorsContained`
what it does to the host.  `LeakBounded` and `BuiltinsKept` stand beside them.

**Feedback** (`CSOFeedbackProofs`).  `FeedbackAgrees` is not inductive: it needs
`HookIntact`, that an untouched hook is still the one of `cso.lua`.
`PrintAddressSafe`, that `print()` has an address to send to and never a freed
one, is proved only: a single handler sets that address.

**Life cycle** (`CSOLifecycleProofs`), with and without Quit requests.  The
properties speak of single places of one thread; the invariant `HostPhase` says
for each place of the host's program counter what has been set up (`NotStarted`,
`Serving`, `Wired`, ...), `IterationInv` that what the loop still has to dispatch
was ready when it was polled and still is, and that whoever is in `stop()` on the
loop's thread has carried out a Quit request, and `LateInv` where late signals
come from.  A loop thread that stopped the surface before the host did waits for
its own end (`Stuck`), and with it the server stays open; one that does so after
the host told the loop to quit may have freed it (`MayBeFreed`), which is possible
at one place of the host only, the join.  Six properties follow: `LoopOnLiveServer`,
`CallbacksAfterStart`, `LostOnlyInRaces`, `ActiveMeansServing`, `NoLateSessionSignal`
and the type invariant, which includes that no message is read from an empty
socket.  `LostAtEdges` goes through every step that can set `crashed`: the races
are what is left once the uses of a freed server, the second free and the thread
without its loop are shown to need `stopped`.

**Configuration** (`CSOConfigProofs`).  `IteratorInv` says where the iterators stand,
`LoadedPassed` that exactly the libraries before them have been loaded,
`LoadedInOrder` in which order.  `SettingsLastGiven` is inductive with them, and
`SelfReachesServer` follows from `settings` not changing after the table is read,
and `OneHome` from the home being fixed before the first script is evaluated.

**Base64** (`CSOConfigProofs`, second half).  `AnyScriptSurvives` holds for data of every
length.  The binary digits of the encoder are the data's, and four zeros
(`EncodedBits`); writing them as digits of six keeps all but those of a group that
is not full (`DigitsWritten`), and reading them in groups of eight gives the data
back and drops what is left of the zeros (`BytesRead`).  That the digits are those of
the standard goes block by block (`SameDigits`), and that the padding fills up the
last one by the rest of the length modulo 3 (`Lengths`, `TextOf`).  `DigitsOf` is the
one recursive definition: a text with its digits counted from place to place
(`Counts`) has the digits so counted, else there were a first place where it does
not (`DigitsFound`).  For a text cut in its padding, or broken, the count is
written down.  `ScriptSurvives` follows for the scripts built in.

**Mapping the widgets** (`SurfaceStartProofs`).  `Accounted` needs `SentOnce`: a mapping
is in the socket at most once, and not both there and lost or to come.
`RightEvent` needs `OwnNames`: a function is called by a name its widget was
given.  `DeafOnlyInWindow` needs `Defined`: past the loop, only the current widget
lacks its function.  `Implements` maps the table to `OscMap`: a mapping that
arrives binds the name its widget was given (`OwnNames`), a press enters a
function only if its widget was mapped (`FiredMapped`), and all else is a stutter.

**Transport** (`TransportProofs`).  The queue may hold any number of requests and
the process thread carry them out any time later, and a function may still have
requests to make; what is pending and what is to be requested, one after the
other, is `Ahead`, and each invariant looks at its last element.  `Settles` says that with no button held it is a stop
or speed 1, which makes `ShuttleEnds` true when the queue is empty.  `Restores`
follows one press from `transport_was_rolling`, where the state is remembered,
over the last request, which will bring it back, to the transport itself; from it
`RollRestored`.  `RecordingUndisturbed` is inductive on its own, by counting:
when recording begins `stale` is the length of `Ahead`, it goes down with each
request carried out, a request that is made moves from one part of `Ahead` to
the other, and what is decided on while recording does not disturb.  For `LightsTrue` the invariant `LightsFollow` names the
reason for each wrong light of the visible tab: its signal is on the way, or, for
the roll light, a shuttle speed is still pending.  Neither survives an empty queue
without signals.

**Layout server** (`LayoutServerProofs`).  The properties relate what went out at the
end to what the client had sent, several phases earlier; `IInv` carries this
through.  `Untouched`: nothing is known before the first line is read.  `PathRead`:
from there on `uri` is the path of the first line sent, or nothing was sent and
the client is gone, the case in which `buf` is uninitialized.  `StatusOfPath`: the
status is the one for that path.  `InOrder`: what was sent is what was read, with
the last line in `buf`, followed by what is on the wire.  `RangeRead`: if one range
was read its start is in force, and its end too, made exclusive, unless a line
beginning with `Ran` was read since (`RanSince`); after a hang-up the same line is
found again for ever (finding 3), which moves the end on, but then nothing is
delivered.  `Overwritten` is the state after a name that was too long.  `HasRequest`
is why the exemption of long names can be read off the request line: a client
that sent headers began with a request.  A client that resets its connection may
lose lines from the wire, so all of that holds `Gone` excepted, a client that
will get nothing.  That a path is taken for the layout's exactly if it stands for
it or is cut to it is decided by `FileName`, which cuts at the first query sign and
at the first escape that ends the name (`BeforeCuts`, `DecodesToDot`); that there is
a first one is `SmallestOf`, by well-foundedness of the numbers.

**Reader** (`RioProofs`).  `TypeCorrect` is that neither buffer is overrun.
`ReadsLinesSafely` is the refinement of `LineReader` without its fairness: `Unread`,
the line so far, the internal buffer and the wire, is what the abstract reader has
not returned.  Each lemma `...Step` shows what an action does to it: a byte that
arrives is appended, a refill, an interruption and a copied byte inside a line
leave it alone though all three parts may change, a byte that ends a line cuts it.
The invariant `Unended` (the line so far holds no newline) is needed for the line
returned to be the *shortest* one, as `NextLine` asks, and for an error to be
reported only when there is no complete line.

TLC has checked the invariants of these two modules too, on the instances of
section 3.

**Only model-checked**: liveness under fairness, which the prover does not handle
(`HostReturns`, `QueuesDrain`, `EventuallyMapped`, `CompleteRequestEnds`, and in
`ReadsLines` that a complete line is returned).  No safety property of a passing run
is left to TLC alone.

## 6. Findings

1. **Built-in paths can be redefined** (`builtin_paths`).  The comment at
   `cso.cc:335` and the README say that the paths of built-in handlers cannot be
   re-defined in Lua.  A handler takes only the types it is registered with, so
   `/eval` with other types than `s` falls through to the catch-all handler and
   enters a mapped function.  What does hold is proved as `BuiltinsKept`: a
   *message* that a built-in handler takes never enters one.
2. **Roll status after shuttling** (`transport_roll`).  `transport_was_rolling`
   (`transport.lua:42`, "used to set roll status correctly") is overwritten by
   every press.  Press rewind and, while it shuttles, fast forward: the transport
   rolls on after both are released though it stood still before.  What does hold
   is proved as `RollRestored`: one press, when nothing is under way, restores it.
3. **tosrv does not always quit** (`layout_quits`).  "tosrv will quit after one
   process cycle (no matter if it was successful or not)" (`tosrv.c:18`).  The
   loop over header lines looks at the buffer and not at the result of reading;
   when the client goes away before the blank line it never ends.

## 7. What is assumed of external code

* liblo tries methods in order of registration, exact path and types, and stops
  at a handler that returns 0.  Coercion of types and patterns in paths do not
  occur.  It rejects messages with unknown type tags, so `;` is not in the types of a
  message; the strings in its arguments it takes as they are.
  It frees a message and the address of its source when the handler is done.
  That `lo_server_recv` blocks when a datagram is discarded between readiness and
  reading is not modelled.
* `LuaState::do_command` leaves nothing on the stack on success and nothing or the
  message on an error; `do_file` reports an error and goes on.  Should it keep the
  results of a script that returns some (`/eval` with `return 1`), the stack would
  also grow by those, which `StackLeakBounded` does not count.
* `BaseUI::run` returns when the loop runs.  `BaseUI::quit` does nothing when it
  does not run, and otherwise tells it to quit and joins its thread.  A thread
  that joins itself hangs or aborts.
* An iteration of a glib main loop collects the ready sources and dispatches all.
* Emission of a PBD signal is atomic with respect to dropping its connections.
  Signals the event loop thread emits itself are called directly, in Lua already;
  they are not modelled.
* Ardour carries out requests in order, some time later; every change of its
  transport or recording state is signalled.  Signals of a kind coalesce in the
  model, since their handlers read the present state.
* `string.random` may return any name, also one given before.
* `sendfile` may deliver less than it is asked for, and what is then missing is
  never sent: the properties promise no length.  `read()` and `write()` may do a
  part, be interrupted or fail.  A client that stays reads.

## 8. What is not modelled

* `signals.lua` (prints in every hook), `basic.lua` (a demonstration), the
  generated `gen.lua` files: no state, or calls only.
* `ardour_actions.lua`: 825 lines of one-line wrappers.
* `json.lua`, `xmlSimple.lua`: third-party, used by nothing here.
* `touchosc_to_lua` (offline XSLT), build and installation scripts.
* Of the modelled parts: formatting (`/map/dump`, debug output, clock and marker
  texts), the list of Lua bindings made by `lua_init` and the functions of `io` and
  `os` it removes (static), setters of single widgets,
  zoom, bytes of HTTP headers.
* Memory: the `OSCMapping` objects that are never deleted change no behaviour.

Simplifications that bound what the results say:

* `CSODispatch` handles one message at a time and knows nothing of other
  threads; `CSOLifecycle` knows that a message is handled and nothing of which.
  They are joined by the fact that all handlers run on the event loop thread.
* `CSOConfig` lets every `cso_params` return any table, that of `cso.lua` too, and
  assumes that scripts leave `self_tx` to `cso_init`.
* `Transport` knows of the playhead only whether it is at 0.
* In `LayoutServer` a client's line that fills the buffer exactly is a kind of its
  own; longer ones behave as several lines, the rest of which are ignored.  What
  `url_decode` copies from behind a path whose last escape is cut short comes after
  the zero that ends the name, and is left out.  A name may be longer than its
  512 bytes, but not than the whole record: what lies behind that is outside the
  model.
* `Base64` has characters as numbers, and the patterns of Lua as what they match.

## 9. Observations

Met while translating.  Those on mappings, Quit requests, recording and the layout
server are in the models, as exceptions their properties name; no property
states the others.

* `/map/add` takes the types argument as it comes (`cso.cc:382`): with `;i` for path
  `/a` the mapping stands under the key of the message `/a;` with `i`, replaces its
  mapping, and makes the catch-all read `argv[1]` of a message with one argument
  (`cso.cc:600`).  `/map/remove` with `;i` removes that mapping.  The properties of
  the dispatch say how far this goes.
* A Quit request carried out while the host deletes the surface, after it told the
  loop to quit: `stop` on the loop thread finds no loop to wait for, frees the
  server and returns to the loop, which goes on using it; then the host frees it
  again (`cso.cc:202`).
* Between `rec_going_on()` and the request (`transport.lua:206`, also 191, 219, 266)
  another thread may begin to record; the playhead then moves all the same.
* `url_decode` makes a zero byte of `%00`, of an escape without hex digits and of one
  cut short (`tosrv.c:201`): `/.%zz` and the like get the layout.
* `bytes=0-0` gets the whole file, since 0 stands for no end at all
  (`tosrv.c:226`, `:321`); each further line that begins with `Ran` moves the end of a
  range on by one byte.
* `filename` has 512 bytes and `url_decode` is told it has 1024 (`tosrv.c:55`, `:244`):
  a long name goes over `offset` and `end`, a longer one leaves the record.
* `transport.lua:170` calls `CSO:toggle_rec()`, which `lua_init` does not bind; the
  rec button raises an error before it does anything.
* `transport.lua:293` and `:299` call the table `m.tab1.encoder` as a function.
* `basic.lua:115` calls `rotary1.set(f)` without `self`.
* An entry of `cso_params` that is a number, as in a table with single braces,
  cannot be indexed at `cso.cc:881`: the constructor ends with an exception.
* The check of `start.lua` returns false at the first file it cannot open
  (`cso.cc:661`), also when a later directory of the search path has a good one.
* Without a `uri_relative`, the custom script is `/tmp/cso/null/null.lua` even if
  `start.lua` was found elsewhere (`cso.cc:66`).
* The text in `cso_script.h`, decoded, is `cso.lua` of this commit exactly.
* A path such as `/?x` is not the layout: its name is empty once the query is cut
  off, while that of `/` is replaced by a dot (`tosrv.c:240`).
* `serve_static` calls `sendfile` once and ignores how much went out
  (`tosrv.c:281`); `rio_readlineb` returns a count that is one too high when a line
  ends at the limit or with the connection, which nobody looks at.
* `Exported` is connected to `*this` and not to `session_connections`
  (`cso.cc:269`): it is still connected when the event loop is destroyed.

## 10. Plan

Order of work: what every message passes through first, then threads, then
configuration, then the scripts on top.

Done: all modules of section 2 and their runs; proofs of every safety property the
passing runs check.

Next:

1. A playhead with positions, so that two quick impulses of the encoder, which
   read the same `transport_frame()`, can be seen to lose a step.
2. Composition of dispatch and life cycle: `/eval` replacing a hook between
   `cso_start` and a signal.
