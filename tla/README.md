# Verification of the UCAS computer-network labs

This directory holds TLA+ models of the programs of this repository, the TLC
runs that check them on small instances, and proofs, checked by TLAPS, of the
properties that matter most for every instance.

The repository holds five labs. Three of them contain programs of their own (a
spanning tree daemon, a hub, a learning switch and an HTTP/HTTPS file server);
the other two are scripts that run experiments (bufferbloat) or measure sites.
All of the programs are modelled; statistics and plots are not.

## 1. Inventory

### Spanning tree protocol (`P4 生成树/stp`)

*State.* One process per switch: `stp_t` (the root it believes in, the cost,
its root port, whether its hello timer runs) and, per port, the best Config
known there (`stp_port_t`). *Operations.* `stp_init`, the hello timer thread,
`stp_handle_config_packet` on a received frame, `stp_update_state`, and the
signal handler that dumps the state and exits. *Interaction.* Frames on cables
and hubs; two threads of a process share `stp->lock`, which both hold for all
they do. *Hard.* Configs are sent once, after a change; a switch stops its
hellos when it sees a better root; nothing times out. So the order of frames,
of starts and of restarts decides what a switch knows. *Correct when* the
fields of a switch fit together, every cost is the length of a real path, every
neighbour is told what it needs before the hellos stop, and the switches end up
with one tree of shortest paths.

### Learning switch (`P3 Hub Switch/switch`)

*State.* A hash table of lists of `(mac, iface, visited)` behind one mutex, and
the sockets of the ports. *Operations.* `insert_mac_port`, `lookup_port`, the
sweeping thread that wakes up every second; `ustack_run`, which polls, takes
one frame from every ready port and calls `handle_packet`. *Interaction.* The
receive loop and the sweeper share the table; the sockets also capture what the
switch itself sends. *Hard.* Both threads read the clock before they wait for
the mutex; the sweeper deletes while it walks; the result of a lookup is used
after the unlock; ports are served in the order of their numbers, not of
arrival. *Correct when* no address has two entries, an entry is removed when
and only when it has aged, what is known about a host that stays is true, its
frames reach it, and after a move the table does not keep the old port.

### File server (`P2 Socket/02-socket/http-server.c`)

*State.* `main` and two listener threads share an `SSL_CTX`; a detached worker
per client has a socket, a TLS session, a request buffer and an open file.
*Operations.* Accepting; reading requests out of a byte stream; redirecting on
port 80; parsing the target and the Range header and sending a file on port
443; releasing everything. *Interaction.* The client sends, stops reading,
closes or resets at any time; files change; descriptors run out. *Hard.* Message
framing over a stream that is cut anywhere, keep-alive, timeouts below TLS,
error paths at every step, numbers at the boundary. *Correct when* responses
come in the order of the requests and with the length they promise, nothing is
left allocated, nobody waits for ever for the server, and no path or range
leaves what the client may see.

### Hub (`P3 Hub Switch/hub`)

*State.* One single-threaded process per station with a raw socket per
interface; nothing is remembered of a frame. *Operations.* Opening the
interfaces one after the other (`device_internal.c`), polling, sending a frame
out of all interfaces but one. *Interaction.* The sockets also capture what the
station's own kernel sends and, until they are bound, what comes in anywhere.
*Hard.* `ring_topo.py` connects three hubs in a ring; hubs start late, fail to
open an interface or end; buffers fill. *Correct when* no hub multiplies or
swallows a copy, a host gets each frame once where the hubs form a tree, and a
frame is never sent back to where it came from.

### Experiment scripts (`P5 数据包队列管理/bufferbloat`)

*State.* `run_experiments.py` runs a list of scripts; a script has monitor
processes with stop events, an iperf server, a network, and one directory of
results. The rtt monitor has a ping of its own. *Operations.* Starting,
measuring, and the clean-up in `finally`. *Interaction.* Processes, exit codes,
`multiprocessing.Event`, signals, files that outlive a run. *Hard.* A command
may raise at any step, a monitor may end too early, never, or be terminated, and
Ctrl-C reaches some of the processes in the middle of the clean-up. *Correct
when* results are never overwritten, what is analysed is complete and
undisturbed, nothing runs on after a script, and every script ends.

### Site selection and measurement (`P1 .../传输性能测量`)

`filter_sites.py` walks through a list of sites with limits for the name lookup,
for curl and for the subprocess; `measure.py` measures what was saved, over
https or else http. Both are sequential and are modelled as functions of how
names and servers behave. *Correct when* the first sites that answer are saved,
a test is over in time, and what was saved can be measured.

### The rest

* `device_internal.c` has three copies with the same code. `Hub` and
  `LearningSwitch` have its steps; `STP` begins with all interfaces open.
* Of the Mininet scripts, `ring_topo.py`, `three_nodes_bw.py` and
  `stp_hub_topo.py` are topologies of `MCHub` and `MCSTP`.
* The analysis and the plots of P5 and `geo.py` and `plot.py` of P1 are formulas
  over tables; the course templates (`04-stp`, `03-hub+switch`,
  `02-socket-example`, `05-bufferbloat`), reports and captures are not programs
  that are run. They are left out.

## 2. Modules

| module | models | built on |
|---|---|---|
| `STP` | `stp.c`, `stp_timer.c`: all switches of a network | |
| `Election` | what the election promises (abstract) | |
| `STPProofs` | theorems about the state of `STP`, what it implements, what the switches tell each other and where they come to rest | `STP`, `Election` |
| `MacTable` | `mac.c`: the table and its two threads | |
| `ForwardingTable` | what the table promises (abstract) | |
| `LearningSwitch` | `main.c`, `broadcast.c`, `device_internal.c` and the hosts | extends `MacTable` |
| `LearningSwitchProofs` | theorems about `MacTable`, then about `LearningSwitch` | `LearningSwitch`, `ForwardingTable` |
| `ByteRange` | `parse_range_header` | |
| `ByteRangeProofs` | theorems about `ByteRange` | `ByteRange` |
| `TargetPath` | `target_to_file_path` | |
| `HttpConnection` | `client_worker`, for one connection of either port | extends `ByteRange` |
| `HttpConnectionProofs` | theorems about `HttpConnection` | `HttpConnection`, `ByteRangeProofs` |
| `HttpServer` | `main`, `listener_worker`, the workers' resources | |
| `HttpServerProofs` | theorems about `HttpServer` | `HttpServer` |
| `Hub` | `hub/main.c`, `broadcast.c`, `device_internal.c`: all stations of a network | |
| `HubProofs` | theorems about `Hub` | `Hub` |
| `Bufferbloat` | `run_experiments.py`, the two scripts, the processes of `utils.py` | |
| `BufferbloatProofs` | theorems about `Bufferbloat` | `Bufferbloat` |
| `Sites` | `filter_sites.py`, `measure.py`, as functions | |
| `FunctionsProofs` | theorems about `TargetPath` and `Sites`, and the invariants of `MCFunctions` | `MCFunctions`, `ByteRangeProofs` |
| `MC...` | instances for TLC | each extends one (`MCFunctions`: `ByteRange`, `TargetPath` and `Sites`) |

Mutants (definitions whose comment begins with "Mutant of") are variants of the
definition after them that contain a plausible bug; each property of a passing
run has one that breaks it.

### STP and the code

| code | model |
|---|---|
| `stp->designated_root`, `root_path_cost`, `root_port`, `hello_timer` | the functions of the same names |
| `stp_port_t.designated_*` | `config[p]`, a Config |
| `stp_config_compare` | `Better` |
| `stp_root_port_compare` | `BetterRootPort`, with `Through` for the cost of the port |
| `stp_update_state` | `UpdateState`, with `RootPorts`, `HelloTimer`, `Claim` |
| `stp_handle_config_packet` | `HandleSuperior`, `HandleInferior`, `HandleKnown` |
| `stp_handle_hello_timeout` | `Hello` |
| `stp_init`, signal handler | `Start`, `Stop` |
| frames on the way | `wire[<<q, p>>]`, sent by q and not yet read by p |

Both threads of a process hold `stp->lock` for the whole of a handler, so a
handler is one action. `Expires` is the test of the timer thread, `Deliver` a
round of `ustack_run` for one frame, and what it calls is `HandlePacket`.
Sending reaches every peer that runs; a frame may be lost (`Lose`). A process that exits loses what it knows and what its sockets
held.

### The switch and the code

`MacTable` keeps no absolute time. An entry holds its age (`time(NULL) -
visited`), a thread the time since it read the clock (`lag`); `Tick` lets all of
them grow. A critical section of the caller is one action; the sweeper's is one
action per list entry, because it walks a list that changes under its own hands
(`list_for_each_entry_safe` is the position that does not advance after a
removal). `LearningSwitch` extends `MacTable`. It begins with `init_ustack`: port
after port, `CreateSocket` and `BindSocket` are the two calls of `open_device`
between which a socket captures the frames of every port (`Listening`), and
`OpenFails` is any of its calls failing, after which the port is neither polled
nor sent on (`Sendable`) and the process goes on. `StartLoop` starts the sweeper
and the loop: `Poll` takes the set of ready
ports, `Receive` and `Drop` serve the smallest of them, `LooksUp` and `Forward`
are the rest of `handle_packet`, and the steps of the table interleave with the
hosts in between. `Forward` puts copies of what it sends into the sockets of the
output ports when they capture outgoing frames.

### The file server and the code

In `HttpConnection` the stream is a sequence of tokens: the number of a request,
CRLF, BODY. `BlankLines` is the search for `\r\n\r\n`, `TakeRequest` the move of
the rest to the front of the buffer, `TooLarge` the 431, `Read` any part of what
has arrived, `ReadTimesOut` what `SO_RCVTIMEO` does to `recv` and to `SSL_read`.
`Process` is `process_http_request` with `send_file_response` up to the header;
`WriteHeader`, `WriteText`, `ReadFile`, `WriteFile` are the sending, with the
file changing in between; `WriteFails` and `WriteTimesOut` its failures. `held`
is the set of what has to be released (socket, arguments, TLS session, request,
file); being a set, it shows what is not released, not what is released twice. `HttpServer` counts descriptors and follows each allocation between
`accept` and the end of the worker, and the reference of `main` to the
`SSL_CTX`; OpenSSL counts references, so a session keeps a freed context alive.
`ByteRange` describes a number of a header by its sign, its digits and what
follows them, because `strtoull` accepts signs and wraps; the width is the
constant `ULLONG`.

### The hub and the code

An interface is a pair of the two ends of its cable, so that a record in a
socket can say where it came in. `fd[i]` is the descriptor of `open_device`:
`CreateSocket` and `BindSocket` are its two calls that matter, `OpenFails` any
of them failing, after which `init_all_ifaces` goes on with the next interface.
A socket that is created and not bound hears the whole station (`Listening`),
and `bind` does not empty it. `Broadcast` is a read with `handle_packet` and
`broadcast_packet`, `DropOutgoing` the test for `PACKET_OUTGOING`; a send and
the captures at the other ends are one step. The loop of `ustack_run` over the
ready interfaces is an action per interface, since a process keeps nothing
between two reads and every order of them can come about.

`CopiesAreConserved` is about networks in which the cables between stations form
rings: `Rounds` are the ways to go round (each station's next one), and a
direction is the set of interfaces at which a frame comes in that goes that way.
In a network without rings it says nothing; there `DeliversOnce` holds, as long
as the interfaces that have ever been open make a forest (`IsForest`).

### The experiment scripts and the code

`pc` is the place in the script of the scenario that is run: `Configure`,
`Record`, `StartMonitor`, `StartIperf`, `Measure` are the body of `main`, each
with the outcome that a command raised; `SetStop`, `JoinEnded`, `JoinTimeout`
are the three steps of `_stop_monitor` for the monitor at place `at`,
`StopIperf` and `NetStop` the two `finally` blocks, `Exit` the end of the
interpreter, which joins the monitors that are left, with what the suite does of
the exit code. `stop` are the events that are set, and `deadSleeper` the events
somebody died waiting for, which `Event.set()` waits for: `SetStop` is disabled
there. `Interrupt` is Ctrl-C at any of these places (`AfterInterrupt`: where the
exception goes), `Kill` what `subprocess.run` does to its child a moment later.
`metadata` counts the writes of `metadata.json`; a scenario is `spoilt` when a
monitor of it failed.

### The site scripts and the code

`curl` is what the two limits `--connect-timeout` and `--max-time` make of a
server; `MaxTime` is the rounding of what is left of the time of a site,
`CanAccess` the loop over the schemes, which returns in its first pass.
`Saved` and `Results` are the loops of the two programs. Times are counted in
half seconds (`TICKS`), so that rounding shows.

## 3. Runs

| run | question | shows |
|---|---|---|
| `STP_hub` | three switches, a segment and a cable, one restart and one lost frame at any moment | costs are walks, the state is consistent, everyone is told, at rest only in the tree unless a frame was lost; implements `Election`; the tree is reached |
| `STP_max_age` | is a root that is gone forgotten? | **no** (finding) |
| `mac_table` | three addresses, two in one bucket, both threads | buckets sound, mutex, ages bounded, implements `ForwardingTable` |
| `switch_forwarding` | two hosts, two ports that are opened while they send, one move with frames unread | what is known is true, frames reach their host, the table settles after the move and after what was captured too early |
| `hub_ring` | `ring_topo.py` with a late hub, a failing opening or an ending process | copies are conserved, an open ring delivers once and falls silent, a closed one never does |
| `hub_startup` | is a frame ever sent back? | **yes** (finding) |
| `functions` | every small Range header, target and list of sites | ranges in the file, as asked or refused, no path outside; the sites saved answer in time, in order, and can be measured |
| `http_connection` | two of eight requests, either port, all failures | order, framing, close, release, answers in the end, lost clients noticed |
| `https_silent_client` | does the timeout free a worker on TLS? | **no** (finding) |
| `http_server` | four clients, room for two beside the listeners | no leak, server stays up, context alive, queue served |
| `bufferbloat` | two scripts in a suite or alone, started three times, with failures and Ctrl-C | results kept, analysis of whole results, clean-up, scripts end |
| `bufferbloat_failed_monitor` | does the clean-up end when a monitor failed? | **no** (finding) |

`functions` has three questions in one run because its modules are pure: its
state is one input at a time and no part of it sees the others.

### What the findings say

* *A root that is gone is never forgotten* (`STP_max_age`). Every Config carries
  a `max_age`, "timeout for received data"; the code fills the field in and
  never reads it. A switch that is terminated for good stays everybody's root.
* *A hub sends frames back* (`hub_startup`). `broadcast.c` says that a frame
  goes out of every interface but the receiving one. While `open_device` is
  between `socket` and `bind`, the new socket captures the frames of all
  interfaces; the loop takes them for frames of its own. The switch and the
  spanning tree program open their sockets in the same way.
* *The clean-up hangs on a failed monitor* (`bufferbloat_failed_monitor`). The
  thread of the rtt monitor sleeps in `stop.wait()`. If the monitor ends early,
  `stop.set()` waits for a sleeper that is gone, before the join, its timeout
  and the check of the exit code. The report says that the stop events end the
  monitors.
* *A silent TLS client keeps its worker* (`https_silent_client`). The comments
  say the ten-second timeouts keep a client from occupying a thread for ever.
  On TLS, `SSL_ERROR_WANT_READ` after a timeout becomes `EINTR`, which the
  callers repeat without a limit. On port 80 the timeout works, which
  `LostClientIsLeft` states and the passing run checks, together with clients of
  either port whose connection ends.

Seen while modelling, and not a run: with two ports on one hub a root hears
itself and makes one of them its root port (hence the hypothesis `NoSelfLoop`
of the theorems); `bytes=+1-2` and `bytes=--3` are accepted; `open` that fails
for want of a descriptor is answered with 404; when one listener cannot be
created, `main` frees the context while the other one runs, just before the
process ends (the exception in `ContextIsThere`). A Config is sent once: if the
one frame that tells a neighbour is lost, both ends of a cable can stay
designated, a loop (`EveryoneIsTold` and what follows from it hold while nothing
was lost); `stp_proto.h` names a hello time, but only a root sends hellos.
`pthread_create` is not checked in `mac.c`.

Of the scripts: when `_stop_monitor` raises, the monitors after it and iperf are
not stopped, and the interpreter waits for them (`NothingIsLeft` and
`ScriptsEnd` leave these runs out). A ping that ends early makes its monitor end
with code 0, so that a truncated record passes for a whole one. `filter_sites.py`
never tries http, though its docstring (line 30) says so: a site that answers
over http alone is passed over, in lists of the run `functions` too. No property
asks for such a site to be saved (`FirstSitesAreSaved` forbids passing over only
those that are quick over https), and none relies on its being passed over. A
test may take up to a second more than the limit of line 79, and the name lookup
is not limited at all, because `gethostbyname` does not know
`socket.setdefaulttimeout`. A name is looked up again by curl and by
`measure.py`: the address that is recorded need not be that of the server that
was measured.

### Bounds

* **STP.** `MaxUnread` keeps hellos from filling a queue: a hello waits until
  the frames its switch sent before have been read and fewer than `MaxUnread`
  frames are unread in all. Hellos are periodic and identical, so more of them
  unread add no new content. `MaxStop` and `MaxLoss` count faults. The topology
  has what the repository's have between them: a segment with three ports, of
  which one is designated, a cycle, where a port has to be blocked and where
  news travels two ways, and two equally short ways while a switch is down.
* **MacTable.** Three addresses with two in one bucket and one in the other:
  a list of two, so that the sweeper removes the first, the last or both, and an
  address that does not collide. The timeout is 1 instead of 30. `MaxDelay` is the longest any
  thread waits, holds the mutex or sleeps, a timing assumption: without one no
  bound on the age of an entry could hold.
* **LearningSwitch.** Two unread frames in all are what it takes to have one on
  the old and one on the new port of a host. Two ports make a flood differ from
  nothing and let a host move to a port that is served before or after its old
  one; one of them may fail to open. More ports multiply the orders in which they
  open: the invariants hold with three as well, but the liveness check takes too
  long there, and the proofs hold for any number. The timeout is 0, so that an
  entry is old as soon as time passes.
* **Hub.** The ring has three stations, its smallest size, and two hosts. Two
  frames, one of a host and one of a station's kernel, and a buffer of one make
  frames collide in full buffers; one trouble (a failing opening or the end of a
  process) besides the hub that starts late. That its network is a ring (`IsRing`),
  the hypothesis of a proof, is an assumption of `MCHub`, which TLC evaluates.
* **Bufferbloat.** One script with three monitors and one with rtt alone; three
  starts let a suite meet the remains of two earlier attempts; two monitors may
  end of themselves, so that the second meets the clean-up after the first.
* **HttpConnection.** Two requests make one follow another in the buffer. The
  buffer has four tokens: a request of three fits with a part of the next, the
  huge one does not. Files have up to two units and are read up to two at a
  time, so a read may be complete, short or the first of two. One client, since
  workers share nothing but what `HttpServer` models.
* **HttpServer.** Four descriptors, two for the listeners: two clients fill
  the process, the third waits in the backlog of one, the fourth outside.
* **Functions.** `unsigned long long` has 8 values and numbers go up to 9,
  files up to 4: below, at and above the size and the width. Targets of five
  pieces hold `/..` at the start and the end, coded and plain; `PATH_MAX` is 6
  so that long ones are refused. Sites come in lists of three, of which two are
  wanted; servers and lookups take times on either side of every limit.

### Fairness

* **STP** (`RunningFairly`, `AllStart`): a running process takes its hello timer
  and its frames in the end (two threads and a fair mutex), and the topology
  scripts start the program everywhere. Nothing is assumed of loss and
  termination, which are bounded.
* **LearningSwitch**: weak fairness of what a thread does when it can, strong
  fairness of taking the mutex, because the other thread leaves it free again
  and again (the sweeper sleeps), and weak fairness of time. A port that is opened
  succeeds or fails in the end. Hosts need not send.
* **Hub**: weak fairness of opening interfaces and of reading each of them (the
  loop serves every interface `poll` reports). Hubs need not start, hosts need
  not send.
* **Bufferbloat**: weak fairness of the script alone. Monitors may ignore their
  stop event for ever, which is why `join` has a timeout.
* **HttpConnection**: weak fairness of the worker as a whole: a thread that can
  go on does. A client is never obliged to do anything, and which outcome a
  system call has is left open.
* **HttpServer**: strong fairness of `Accept` (it retries in a loop and finds a
  descriptor free again and again) and of the end of a worker, which is what
  `HttpConnection` shows of clients that go; a silent TLS client is the case
  where that fails, and is the finding above.

## 4. Proofs

Proved by TLAPS for every value of the constants:

* `TypeCorrect`: `Spec => []TypeOK` of `STP`, for any network and bounds.
* `StateIsConsistent`, and with it `RootPortStaysBest` and
  `DesignatedStaysCurrent`: `RootConsistency`, `RootPortIsBest` and
  `DesignatedIsCurrent` hold for ever in every network in which no switch hears
  itself (`NoSelfLoop`). The inductive invariant is `IInv == TypeOK /\
  FramesAreGenuine /\ Consistent`. The three parts of `Consistent` need each
  other: the root port is chosen from the ports that are not designated, a port
  is designated by comparison with what the switch believes, and the hello timer
  follows the root port. `FramesAreGenuine` (a frame names its sender and a root
  that is no larger than it) is needed because a Config of an arbitrary frame could name
  the receiver itself and make it a root with a root port. The core is
  `UpdateAfterSuperior`: what `stp_update_state` makes of a consistent switch
  one port of which has just got better information.
* `CostIsAlwaysAWalk`: every cost believed, stored or on the way is the length
  of a walk from the root it names. The invariant `WalkInv` adds that every port
  has the Config of its own switch or of a neighbour, so that one hop is what
  `Through` has to add. It needs no hypothesis on the network.
* `ProgramElects`: under `NoSelfLoop` the program implements `Election`; every
  step is a `Join`, `Leave` or `Adopt` of one switch or leaves the belief alone.
  This rests on both invariants: `Consistent` says that a new belief improves
  on the old one, `WalkInv` that it is true.
* `EveryoneIsAlwaysTold`: under `NoSelfLoop`, `EveryoneIsTold` holds for ever. It
  is not inductive: the hello timer of a peer p that promises a word from p
  stops when p reads a frame. The invariant `ToldInv` says it more sharply
  (`IsTold`): that p will speak only counts while nothing waits to be read at p
  (`WillSpeak`), because a frame that makes p give up the segment comes from
  there, and is the frame that tells p or that q has yet to answer; and nothing
  waits for a process that does not run. The steps that need work are
  `HandleSuperior`, where the own Config of a switch changes and is sent on all
  ports on which it is still designated, and `HandleInferior`, whose answer is
  what the frame of the peer was waiting for.
* `RestIsInTheTree`: `RestIsConverged` in every network that hangs together
  (`Connected`) and where no switch hears itself, with any number of switches,
  cables and hubs, restarts included. At rest nothing is on the way and no
  hello would be news, so `EveryoneIsTold` makes what a designated port stands
  for known on its whole segment (`DesignatedIsKnown`); what is known there
  comes from a port of the segment (`SendersAreNamed`), and the best of them is
  designated (`BestIsDesignated`), even when a Config of an earlier life of a
  switch is still around. Then every switch that is n hops from `MinRoot` has it
  as root at cost n or less (`EveryoneFinds`): a counterexample with the fewest
  hops has a neighbour that is not one, and has been told. Costs are walks
  (`CostIsAWalk`), so they are the shortest ones, and `RestConverges` puts the
  tree together from the designated ports and root ports. The hypotheses are
  evaluated by TLC for the networks of the runs (`NetworkAssumption` of `MCSTP`).
* `PortsOnlyImprove`, an action property: while a switch runs on, each step
  leaves what a port of it knows or replaces it by something better, though
  messages come late, in the wrong order or not at all. `ImprovementEnds`: that
  happens finitely often. `Better` goes by four numbers one after the other,
  and cannot go down for ever (`WellFoundedInduction`). Together they are the
  part of `Convergence` that needs no fairness.
* Of the functions, what the run `functions` checks on small inputs, for inputs of
  every size:
  * `AnsweredRangeIsInFile`, `WellFormedRangeIsAnswered`: for every width, number
    and file size. A well-formed header with a number that does not fit is
    refused (`TooLargeIsRefused`), any other gets its positions
    (`FittingIsAnswered`).
  * `PathsLeadInside`: for every target and every `PATH_MAX`. A path leads above its
    directory only behind a segment `..`; the first such segment would be one of
    what was decoded, since `index.html` adds none, and those are refused
    (`ParentSegment`, `NoParentInFilePath`).
  * `CodingNeverMatters`: the name ends at the same place of a target however the
    characters before it are written, and the decoded one is the same.
  * `TestsTakeNoLonger`: from the rounding of each limit (`MaxTimeIsClose`).
  * `FirstSitesGetSaved`: the loop of `main` is a recursive function, which the
    prover does not unfold for every length. `ReadingExists` shows by induction
    on the lines (`SetInduction`, a set of numbers with 0 and all successors is
    all of them) that a function with the recursive equation exists, so that
    `CHOOSE` gives one (`SavedIsRead`); `SavedInv` is then the loop invariant:
    after n lines what is saved has passed its test, and nothing quick is passed
    over among the first n (`ReadOneMore`). A site that has passed answers in time
    (`PassedAnswers`): what a test allows, with its roundings, is less than a
    second more than `SITE_TIMEOUT`.
  * `SavedGetMeasured`: from `LimitAssumption`, that the limits of `measure.py` are
    not narrower than those of `filter_sites.py` (8 and 3 seconds, and 20 and 10), and
    for servers that take time to answer: curl gives one that takes none a total
    of 0, which `measure.py` discards.
  * The seven invariants of the run follow from `FunctionsInv`: what is parsed or
    resolved is what the functions make of what they are given, and that is
    among what the theorems are about (`SmallIsGeneral`).

* Of `MacTable`, for all sets of addresses and ports, all hash functions,
  timeouts and delays:
  * `TypeCorrect` and `MutexHeldExactlyInside` are inductive as they stand.
  * `BucketsStaySound`: `BucketsAreSound` is inductive with the types. An insert
    is a replacement at the first place of its address or an addition where
    there is none (`InsertResult`); a removal shifts the places behind it
    (`RemoveAtProperties`, `SweepEntryResult`).
  * `NothingGetsTooOld`: the bound on the age is not inductive. What is
    (`AgesStayBounded`) follows the sweeper round: what a sweep has passed was
    young enough when it began (`VisitedIsFresh`); nobody inserts while it lasts,
    which is where the mutex is needed; so at its end every entry is at most
    `MAC_PORT_TIMEOUT + MaxDelay` old, and the sleep and the next sweep add a
    delay each (`AgesAreBounded`). `Timely` says that the time since a thread
    read the clock is within `MaxDelay`.
  * `TableIsForwardingTable`: `MacTable` implements `ForwardingTable`, step by
    step. The mapping chooses the first place of an address; soundness of the
    buckets makes the set of entries for it (`EntriesIn`) empty or a singleton,
    so that an insert is `Learn`, a removal `Forget`, a lookup `Ask` and
    everything else a stutter; the bound on the ages gives the guard of `Tick`.

* Of `LearningSwitch`, for all sets of hosts and ports and any number of frames
  and moves: `SwitchTypeCorrect`, `StillHostsStayKnown`, `StillHostsAreReached`.
  The invariant has three layers. `LoopInv` adds to the types that a port
  reported by poll still has its frame (`ReadyInv`), and that none is reported
  before the loop runs. `KnownInv` says where the
  port of a host can be: in the table, in a call of `insert_mac_port` that is
  under way, and in the frames still to be read, of which those the switch has
  sent do not count, because `main.c` drops them; with `CameIn` true of every
  frame the step `Receive` cannot be proved. A host that the socket of another
  port captured before `bind` is not among those it speaks of (`Still`): the
  table can have the wrong port for it until the entry ages. `AnswerInv` follows `handle_packet`
  through the table, to an answer that is right or none. What the table does in
  between comes from the lemmas about `MacTable` (`EntryOrigin`: a port in the
  table was there before or is the one inserted), and `TableStaysSound` carries
  its soundness and the use of the mutex over to the whole switch.
  `WrongPortsOnlyAge`, an action property: once the switch has heard a host that
  stays where it is, no step brings a wrong port for it into the table, and the
  entry that may still have one only grows older: `insert_mac_port` alone makes it
  young again, and is no longer called with a wrong port.
  `SwitchForgetsInTime`: no entry of the switch outlives the limit. Together they
  are the part of `TableSettles` that needs no fairness.
* Of `HttpServer`, for every finite set of clients and every limit: `TypeCorrect`,
  `ServerStaysUpHolds`, `NothingLeaksHolds`, `ContextIsThereHolds`. The inductive
  invariant has three layers. `ThreadInv` ties the place of `main` to the
  listeners and the context. `QueueInv` says who waits where: a queue names a
  client once and only of its own port, and a client that is not new has a
  listener with a socket; without it `Accept` could take a client that has
  already got a descriptor. `HeldInv` counts: each step that opens or closes adds
  or removes one element of one of the three sets of holders (`CountStep`). That
  the context is there follows from the first two: it is gone only when `main`
  returns, and then two created listeners have ended, but a client in service
  proves that its listener has not.
* Of `HttpConnection`, for every set of requests, every file and all sizes of the
  buffers: `TypeCorrect`, `NothingLeaksHolds`, `StreamStaysFramedHolds`,
  `CloseIsHonouredHolds`, `AnswersInOrderHolds`. Six layers, each
  inductive with the ones before it:
  * `StreamInv`: what is on its way or in the buffer is about a request that was
    sent, so that `sent[request]` in `Process` is there.
  * `HeldInv`: what the worker holds at each place of its program (`Holds`).
  * `ReplyInv`: a response that is about to be sent has a length that is not
    negative and keeps the connection only if its request allows it. This is
    where `AnsweredRangeIsInFile` is needed: a range that ended before it began
    would promise a negative length.
  * `FrameInv`: every response but the last is complete, and the place of the
    worker tells how much of the last one is sent (`ProgressInv`): at `write` what
    is left of the part read is within what remains of the response, and from
    `file` the worker goes on to another request only with nothing remaining.
    The file may change at every step; only what has been read counts.
  * `CloseInv`: the responses sent stay as they were decided, and so does what
    the client had asked for, while it sends more. `Honoured` says of a response
    that keeps the connection that it is for a GET with a version of HTTP.
  * `OrderInv`: what lies ahead, in the buffer and then in the stream, are the
    texts of the requests after the nth, in order and without a gap; only the
    end of the last may be missing once the client stops (`InOrder`). The place
    of the worker tells which n. So the first blank line ends the header of
    request n + 1 and of no other (`FirstBlankLine`). That nothing of a request
    is left in front of the next one needs `Honoured`: a connection that is kept
    had a GET, which has no body (`OrderWhenTaken`).
* Of `Hub`, for every network, with any number of stations and rings, all sizes of
  the buffers and any number of failures:
  * `TypeCorrect`.
  * `CopiesAreConservedHolds`. The invariant `CopyInv` says it of places, not of
    numbers: what waits behind the interfaces of a direction and those of hosts
    is at most one copy, and one of a frame that is intact. `WayOn` is the reason:
    whichever interface a frame came in through, `broadcast_packet` sends one copy
    on that stays in the direction, and none if it goes the other way. That takes
    away what was read (`CopyIsRead`) and adds one copy (`CopyComesIn`), while
    other frames only move up in the queues (`OtherIsRead`, `OthersComeIn`).
    `IntactInv` adds that frames are intact only while all hubs are up, so that
    the one interface is open.
  * `ForestDeliversOnce`: no host is given a frame twice where the interfaces
    that have ever been open make a forest (`IsForest`: behind every wire lies a
    set of nodes, and the wires that lead on share it out). `SpreadInv`: what lies
    ahead of two copies is apart, and no host ahead of a copy has the frame.
  * `OpenRingsDeliverOnce`: `OpenRingDeliversOnce` in every ring (`IsRing`). Cut at
    an interface it is a line (`Line`), and a wire of a line leads to one side
    of a station (`AheadOnLine`), so that it is a forest (`OpenRingIsForest`).
  * `OnlyStrayFramesAreSentBack`: `broadcast_packet` does send back what a socket
    captured before `bind` (the finding), and nothing else, since any other
    record names the interface it came in through (`HeardInv`).
  * `NoHubHandlesTwice`, an action property: in a forest, what lies ahead of the
    copies of a frame never grows, and a station that handles the frame is no
    longer part of it. So a frame is handled once by each station at most: the
    part of `OpenRingFallsSilent` that needs no fairness, and open rings are
    forests (`OpenRingIsForest`). Frames captured before `bind` are excluded:
    they do come back.
* Of `Bufferbloat`, for every suite, every choice of monitors and every bound:
  `TypeCorrect`, `ResultsAreNeverOverwritten`, `AnalysisIsOfWholeResults`,
  `ScriptsCleanUp`, from six layers that are inductive one above the other:
  `ScriptInv` (the control: which places go with which exceptions and lists),
  `MonitorInv` (the monitors are a part of those of the scenario, in their order,
  and one that failed has spoilt it), `ResultInv` (`metadata.json` is written
  once, before the first monitor), `LeftInv` (iperf runs from its start to
  `stop_iperf`), `CleanInv` (while nothing is raised, the monitors the stopping
  loop has passed have ended well) and `SuiteInv` (the scenarios a suite has done
  are whole: the exit codes carry that from the monitors through the script to
  the suite). Two more give the part of `ScriptsEnd` that needs no fairness:
  `ExitWaitsForNobody` (what the clean-up has passed has ended, `EndInv`, so that
  the interpreter finds no monitor to wait for) and `ScriptsGoForward` (a number
  that grows with each step of a script, bounded by its monitors; only Ctrl-C
  takes it back, a bounded number of times).

The assumptions are those named in the modules: identities are numbers, a port
is a pair of a switch and a number from 1, bounds are numbers; there is at least
one bucket and `Hash` gives one of them; delays are at least one second.

The invariants `TypeOK` of `STP`, `MacTable`, `HttpConnection`, `HttpServer`, `Hub`
and `Bufferbloat`, and `SwitchTypeOK`, are theorems, so no run repeats them.

Every invariant that a passing run checks is stated by a theorem, and so are
the two refinements. Only model-checked, because TLAPS reaches neither
fairness nor `ENABLED`: the temporal properties `Convergence`, `TableSettles`,
`RequestsAreAnswered`, `LostClientIsLeft`, `QueuedClientIsTaken`, `StormNeverEnds`,
`OpenRingFallsSilent` and `ScriptsEnd`. Of `Convergence`, `TableSettles`,
`OpenRingFallsSilent` and `ScriptsEnd` the part that is safety is proved, as said
above: each step goes towards the end and none back. What is left to TLC is that the
steps are taken. The runs that expect a violation show a counterexample, and
there is nothing to prove.

## 5. Not modelled, and why

* Content behind the decisions: payloads, header texts, content types, log lines.
* Partial writes of a header, which are complete or fail; a failure in the
  middle is seen as no header.
* Requests with NUL bytes, and GET requests with a body, whose bytes the server
  takes for the next request.
* A wall clock that is set back; `destroy_mac_port_table` and
  `dump_mac_port_table`, which nobody calls; `stp_destroy`, which runs only when
  the process ends; TCN frames, which are only logged.
* Frames that arrive between `socket` and `bind` of a spanning tree process
  (`Hub` and `LearningSwitch` show what they do); `malloc` that fails in the hub.
* What the experiments measure and write, the values given to tc and ethtool,
  the iperf client, two scripts run at once.
* What follows a failing `poll` of the switch, which leaves its loop; the error
  `_stop_monitor` raises when even `terminate` leaves a process without exit code;
  a network that an interrupted script leaves behind in Mininet.
* A target of more than 4095 characters on TLS, which would make `sscanf` miss the
  version (400 instead of 404); no header that long fits the buffer of the run.
* Ping and the split of the total in `measure.py`, redirects that curl follows.
* White space in Range headers, which `strtoull` and the parser skip.

## 6. Plan

Done in this order, the most important behaviour first: `STP` with `Election`
and its proofs; `MacTable` with `ForwardingTable`, then `LearningSwitch`;
`ByteRange`, `TargetPath`, `HttpConnection`, `HttpServer`; `Hub`; `Bufferbloat`
with its proofs; `Sites`; the proofs of `HttpServer`, `HttpConnection` and `LearningSwitch`.

After that, what the switches of `STP` tell each other and the tree they end in,
and the opening of the ports in `LearningSwitch`.

Then the order of the answers of `HttpConnection`, and the proofs about `Hub`.

Last, the proofs about the functions (`FunctionsProofs`), and that what the
ports of `STP` know improves to an end, that frames in open rings, wrong ports in
tables and scripts do not go on for ever. What is left is out of the prover's
reach: the liveness properties and the runs that find a violation.
