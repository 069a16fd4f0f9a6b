---------------------------- MODULE Bufferbloat ----------------------------
(***************************************************************************)
(* The experiment scripts of "P5 数据包队列管理/bufferbloat" as supervisors *)
(* of processes.  run_experiments.py runs one script per scenario and then *)
(* the analysis.  A script (reproduce_bufferbloat.py with three monitors,  *)
(* mitigate_bufferbloat.py with one) starts monitors, an iperf server and  *)
(* an iperf client, measures, and stops what it started in a finally       *)
(* block.  The rtt monitor has a ping of its own.                          *)
(*                                                                         *)
(* A monitor is told to end by its stop event, a multiprocessing.Event.    *)
(* set() of such an event waits until every sleeper in wait() has woken:   *)
(* it does not return when a process died in wait(), as the rtt monitor    *)
(* does, whose thread sleeps there for the whole run.                      *)
(***************************************************************************)
EXTENDS Integers, Sequences, FiniteSets, SequencesExt

CONSTANTS
  Scenarios,     \* the scenarios of a suite, in their order
  MonitorsOf,    \* the monitors of every scenario, in the order of starting
  MaxStarts,     \* how many times the user starts a suite or a script
  MaxFaults,     \* how many monitors end of themselves
  MaxInterrupts  \* how many times the user presses Ctrl-C

Scenario == ToSet(Scenarios)
Monitor == UNION {ToSet(MonitorsOf[s]) : s \in Scenario}

ASSUME ScenarioAssumption ==
  /\ Scenarios \in Seq(Scenario) /\ IsInjective(Scenarios)
  /\ MonitorsOf \in [Scenario -> Seq(Monitor) \ {<<>>}]
  /\ \A s \in Scenario : IsInjective(MonitorsOf[s])

ASSUME BoundAssumption == {MaxStarts, MaxFaults, MaxInterrupts} \subseteq Nat

VARIABLES
  starts,      \* how many times the user has started something
  suite,       \* whether that is run_experiments.py or one of the scripts
  todo,        \* the scenarios it has still to finish
  analysed,    \* whether a suite got as far as analyze_results.py
  metadata,    \* how often metadata.json was written, for every scenario
  spoilt,      \* the scenarios in which a monitor failed
  pc,          \* where the script of Head(todo) is, or "none"
  raised,      \* what goes through the script: "nothing", "error", "interrupt"
  monitors,    \* the monitors the script has started, in that order
  at,          \* the place in monitors of the stopping loop
  monitor,     \* of every monitor: "none", "runs", "exit 0", "exit 1", "exit -15"
  stop,        \* the monitors whose stop event is set
  deadSleeper, \* the monitors that died in wait() on their stop event
  ping,        \* "none", "runs", or "orphan" when its monitor is gone
  iperf,       \* whether the iperf server runs
  faults,      \* how many monitors have ended of themselves
  interrupts,  \* how many times Ctrl-C was pressed
  left         \* what runs on after the script that started it

userVars == <<starts, suite, faults, interrupts>>
resultVars == <<analysed, metadata, spoilt>>
processVars == <<monitor, stop, deadSleeper, ping, iperf>>
scriptVars == <<pc, raised, monitors, at>>
vars == <<userVars, todo, resultVars, scriptVars, processVars, left>>

Current == Head(todo)

-----------------------------------------------------------------------------
(***************************************************************************)
(* run_experiments.py, or one script run by hand.                          *)
(***************************************************************************)

StartSuite ==
  /\ todo = <<>>
  /\ starts < MaxStarts
  /\ starts' = starts + 1
  /\ suite' = TRUE
  /\ todo' = IF \E s \in Scenario : metadata[s] > 0 THEN <<>> ELSE Scenarios
  /\ UNCHANGED <<faults, interrupts, resultVars, scriptVars, processVars, left>>

StartAlone(s) ==
  /\ todo = <<>>
  /\ starts < MaxStarts
  /\ starts' = starts + 1
  /\ suite' = FALSE
  /\ todo' = <<s>>
  /\ UNCHANGED <<faults, interrupts, resultVars, scriptVars, processVars, left>>

\* prepare_directory refuses a directory with results: the script ends, and
\* the suite with it.
Refuse ==
  /\ pc = "none" /\ todo # <<>>
  /\ metadata[Current] > 0
  /\ todo' = <<>>
  /\ UNCHANGED <<userVars, resultVars, scriptVars, processVars, left>>

\* Mutant of StartScript: an old result is not noticed.
StartAnyway ==
  /\ pc = "none" /\ todo # <<>>
  /\ pc' = "configure"
  /\ raised' = "nothing"
  /\ monitor' = [m \in Monitor |-> "none"]
  /\ stop' = {} /\ deadSleeper' = {} /\ ping' = "none" /\ iperf' = FALSE
  /\ monitors' = <<>> /\ at' = 1
  /\ UNCHANGED <<userVars, todo, resultVars, left>>

StartScript ==
  /\ pc = "none" /\ todo # <<>>
  /\ metadata[Current] = 0
  /\ pc' = "configure"
  /\ raised' = "nothing"
  /\ monitor' = [m \in Monitor |-> "none"]
  /\ stop' = {} /\ deadSleeper' = {} /\ ping' = "none" /\ iperf' = FALSE
  /\ monitors' = <<>> /\ at' = 1
  /\ UNCHANGED <<userVars, todo, resultVars, left>>

\* The interpreter joins the monitors that still run and exits; a suite goes
\* on only after exit code 0, and after its last script with the analysis.
Exit ==
  /\ pc = "exit"
  /\ \A m \in Monitor : monitor[m] # "runs"
  /\ pc' = "none"
  /\ todo' = IF raised = "nothing" THEN Tail(todo) ELSE <<>>
  /\ analysed' = (analysed \/ (suite /\ raised = "nothing" /\ Len(todo) = 1))
  /\ left' = left \cup (IF iperf THEN {"iperf"} ELSE {})
                  \cup (IF ping = "orphan" THEN {"ping"} ELSE {})
  /\ UNCHANGED <<userVars, metadata, spoilt, raised, monitors, at, processVars>>

-----------------------------------------------------------------------------
(***************************************************************************)
(* The script up to the end of the measurement.  A command that fails or   *)
(* takes too long raises an exception; where it is raised decides what is  *)
(* still cleaned up.                                                       *)
(***************************************************************************)

\* Mininet, config_ip and, in mitigate_bufferbloat.py, set_qdisc_algo.  The
\* interfaces of a network nobody stopped are in the way of the next one,
\* which is built outside the try statement.
Configure ==
  /\ pc = "configure"
  /\ \/ "network" \notin left /\ pc' = "record" /\ UNCHANGED raised
     \/ "network" \notin left /\ pc' = "net.stop" /\ raised' = "error"
     \/ "network" \in left /\ pc' = "exit" /\ raised' = "error"
  /\ UNCHANGED <<userVars, todo, resultVars, monitors, at, processVars, left>>

\* metadata.json is written before save_qdisc, which may fail.
Record ==
  /\ pc = "record"
  /\ metadata' = [metadata EXCEPT ![Current] = @ + 1]
  /\ \/ pc' = "monitors" /\ UNCHANGED raised
     \/ pc' = "net.stop" /\ raised' = "error"
  /\ UNCHANGED <<userVars, todo, analysed, spoilt, monitors, at, processVars, left>>

StartMonitor ==
  LET m == MonitorsOf[Current][Len(monitors) + 1]
  IN  /\ pc = "monitors"
      /\ monitors' = Append(monitors, m)
      /\ monitor' = [monitor EXCEPT ![m] = "runs"]
      /\ ping' = IF m = "rtt" THEN "runs" ELSE ping
      /\ pc' = IF Len(monitors') = Len(MonitorsOf[Current]) THEN "iperf" ELSE pc
      /\ UNCHANGED <<userVars, todo, resultVars, raised, at, stop, deadSleeper, iperf, left>>

\* start_iperf raises when the server is gone after 0.3 seconds.
StartIperf ==
  /\ pc = "iperf"
  /\ \/ pc' = "measure" /\ iperf' = TRUE /\ UNCHANGED raised
     \/ pc' = "stopping" /\ raised' = "error" /\ UNCHANGED iperf
  /\ UNCHANGED <<userVars, todo, resultVars, monitors, at, monitor, stop, deadSleeper, ping,
                 left>>

\* The time of the experiment passes, with dynamic_bw in a scenario of
\* mitigate_bufferbloat.py, and save_qdisc is called once more.
Measure ==
  /\ pc = "measure"
  /\ pc' = "stopping"
  /\ raised' \in {"nothing", "error"}
  /\ UNCHANGED <<userVars, todo, resultVars, monitors, at, processVars, left>>

-----------------------------------------------------------------------------
(***************************************************************************)
(* Cleaning up: _stop_monitor for every monitor, stop_iperf, net.stop.     *)
(***************************************************************************)

\* The monitor the loop over the started ones is at.
Stopping == monitors[at]

\* The loop goes on with the next monitor, or is through.
NextMonitor == IF at < Len(monitors) THEN pc' = "stopping" /\ at' = at + 1
                                    ELSE pc' = "stop iperf" /\ UNCHANGED at

\* stop.set() returns unless the event has a dead sleeper.
SetStop ==
  /\ pc = "stopping" /\ at <= Len(monitors)
  /\ Stopping \notin deadSleeper
  /\ stop' = stop \cup {Stopping}
  /\ pc' = "joining"
  /\ UNCHANGED <<userVars, todo, resultVars, raised, monitors, at, monitor, deadSleeper,
                 ping, iperf, left>>

\* An interrupt came before any monitor was started.
NothingToStop ==
  /\ pc = "stopping" /\ monitors = <<>>
  /\ pc' = "stop iperf"
  /\ UNCHANGED <<userVars, todo, resultVars, raised, monitors, at, processVars, left>>

\* Mutant of JoinEnded: the exit code is not looked at.
JoinAny ==
  /\ pc = "joining"
  /\ monitor[Stopping] # "runs"
  /\ NextMonitor
  /\ UNCHANGED <<userVars, todo, resultVars, raised, monitors, processVars, left>>

\* The monitor has ended: with any exit code but 0 an exception leaves the
\* finally block, so that neither the other monitors nor iperf are stopped.
JoinEnded ==
  /\ pc = "joining"
  /\ monitor[Stopping] # "runs"
  /\ IF monitor[Stopping] \in {"exit 0", "exit -15"}
       THEN NextMonitor /\ UNCHANGED raised
       ELSE /\ pc' = "net.stop"
            /\ raised' = IF raised = "interrupt" THEN raised ELSE "error"
            /\ UNCHANGED at
  /\ UNCHANGED <<userVars, todo, resultVars, monitors, processVars, left>>

\* Mutant of JoinTimeout: join without a timeout.
JoinForEver == FALSE /\ UNCHANGED vars

\* After five seconds a monitor that still runs is terminated, which counts as
\* a good end; the ping of the rtt monitor is not told.
JoinTimeout ==
  /\ pc = "joining"
  /\ monitor[Stopping] = "runs"
  /\ monitor' = [monitor EXCEPT ![Stopping] = "exit -15"]
  /\ ping' = IF Stopping = "rtt" /\ ping = "runs" THEN "orphan" ELSE ping
  /\ NextMonitor
  /\ UNCHANGED <<userVars, todo, resultVars, raised, monitors, stop, deadSleeper, iperf, left>>

\* Mutant of StopIperf: the client alone is stopped.
StopClient ==
  /\ pc = "stop iperf"
  /\ pc' = "net.stop"
  /\ UNCHANGED <<userVars, todo, resultVars, raised, monitors, at, processVars, left>>

StopIperf ==
  /\ pc = "stop iperf"
  /\ iperf' = FALSE
  /\ pc' = "net.stop"
  /\ UNCHANGED <<userVars, todo, resultVars, raised, monitors, at, monitor, stop,
                 deadSleeper, ping, left>>

NetStop ==
  /\ pc = "net.stop"
  /\ pc' = "exit"
  /\ UNCHANGED <<userVars, todo, resultVars, raised, monitors, at, processVars, left>>

-----------------------------------------------------------------------------
(***************************************************************************)
(* The monitors.                                                           *)
(***************************************************************************)

PingGone(m) == IF m = "rtt" THEN "none" ELSE ping

\* The thread of the rtt monitor dies in wait() unless it was woken before, or
\* had not got there yet.
Sleepers(m) == IF m = "rtt" /\ m \notin stop THEN {{}, {m}} ELSE {{}}

\* The stop event is set: the loop ends; rtt's thread terminates the ping,
\* whose output ends.
MonitorStops(m) ==
  /\ monitor[m] = "runs" /\ m \in stop
  /\ monitor' = [monitor EXCEPT ![m] = "exit 0"]
  /\ ping' = PingGone(m)
  /\ UNCHANGED <<userVars, todo, resultVars, scriptVars, stop, deadSleeper, iperf, left>>

\* An exception ends the monitor, as when its file cannot be written.
MonitorFails(m) ==
  /\ monitor[m] = "runs"
  /\ faults < MaxFaults
  /\ faults' = faults + 1
  /\ monitor' = [monitor EXCEPT ![m] = "exit 1"]
  /\ spoilt' = spoilt \cup {Current}
  /\ ping' = PingGone(m)
  /\ \E d \in Sleepers(m) : deadSleeper' = deadSleeper \cup d
  /\ UNCHANGED <<starts, suite, interrupts, todo, analysed, metadata, scriptVars,
                 stop, iperf, left>>

\* The ping ends of itself, and the rtt monitor with it.
PingEnds ==
  /\ ping = "runs"
  /\ faults < MaxFaults
  /\ faults' = faults + 1
  /\ ping' = "none"
  /\ monitor' = [monitor EXCEPT !["rtt"] = "exit 0"]
  /\ \E d \in Sleepers("rtt") : deadSleeper' = deadSleeper \cup d
  /\ UNCHANGED <<starts, suite, interrupts, todo, resultVars, scriptVars, stop, iperf,
                 left>>

\* A ping nobody reads ends when it has something to write.
OrphanEnds ==
  /\ \/ ping = "orphan" /\ ping' = "none" /\ UNCHANGED left
     \/ "ping" \in left /\ left' = left \ {"ping"} /\ UNCHANGED ping
  /\ UNCHANGED <<userVars, todo, resultVars, scriptVars, monitor, stop, deadSleeper, iperf>>

-----------------------------------------------------------------------------
(***************************************************************************)
(* Ctrl-C reaches the script and its monitors, not iperf, which mnexec     *)
(* starts in a session of its own.                                         *)
(***************************************************************************)

Running == {m \in Monitor : monitor[m] = "runs"}

\* Where the exception goes: the measurement is cleaned up after, the clean-up
\* itself is cut short; Mininet() stands outside the try statement.
AfterInterrupt ==
  CASE pc \in {"monitors", "iperf", "measure"} -> {"stopping"}
    [] pc \in {"net.stop", "exit"} -> {"exit"}
    [] pc = "configure" -> {"net.stop", "exit"}
    [] OTHER -> {"net.stop"}

Interrupt ==
  /\ pc # "none"
  /\ interrupts < MaxInterrupts
  /\ interrupts' = interrupts + 1
  /\ raised' = "interrupt"
  /\ pc' \in AfterInterrupt
  /\ at' = 1
  /\ left' = IF pc \in {"configure", "net.stop"} /\ pc' = "exit" THEN left \cup {"network"}
                                                               ELSE left
  /\ monitor' = [m \in Monitor |-> IF m \in Running THEN "exit 1" ELSE monitor[m]]
  /\ spoilt' = IF Running = {} THEN spoilt ELSE spoilt \cup {Current}
  /\ ping' = IF "rtt" \in Running THEN "none" ELSE ping
  /\ \E d \in Sleepers("rtt") :
       deadSleeper' = IF "rtt" \in Running THEN deadSleeper \cup d ELSE deadSleeper
  /\ UNCHANGED <<starts, suite, faults, todo, analysed, metadata, monitors, stop, iperf>>

\* subprocess.run kills the script a quarter of a second after Ctrl-C, and
\* run_experiments.py ends; what the script had not stopped yet runs on.
Kill ==
  /\ pc # "none" /\ suite /\ raised = "interrupt"
  /\ pc' = "none"
  /\ todo' = <<>>
  /\ left' = left \cup (IF iperf THEN {"iperf"} ELSE {})
                  \cup (IF ping = "orphan" THEN {"ping"} ELSE {})
                  \cup (IF pc = "exit" THEN {} ELSE {"network"})
  /\ UNCHANGED <<userVars, resultVars, raised, monitors, at, processVars>>

-----------------------------------------------------------------------------
Init ==
  /\ starts = 0
  /\ suite = FALSE
  /\ todo = <<>>
  /\ analysed = FALSE
  /\ metadata = [s \in Scenario |-> 0]
  /\ spoilt = {}
  /\ pc = "none"
  /\ raised = "nothing"
  /\ monitors = <<>>
  /\ at = 1
  /\ monitor = [m \in Monitor |-> "none"]
  /\ stop = {}
  /\ deadSleeper = {}
  /\ ping = "none"
  /\ iperf = FALSE
  /\ faults = 0
  /\ interrupts = 0
  /\ left = {}

Script ==
  \/ Refuse \/ StartScript \/ Configure \/ Record \/ StartMonitor \/ StartIperf \/ Measure
  \/ SetStop \/ NothingToStop \/ JoinEnded \/ JoinTimeout \/ StopIperf \/ NetStop \/ Exit

Next ==
  \/ StartSuite \/ Script \/ PingEnds \/ OrphanEnds \/ Interrupt \/ Kill
  \/ \E s \in Scenario : StartAlone(s)
  \/ \E m \in Monitor : MonitorStops(m) \/ MonitorFails(m)

Spec == Init /\ [][Next]_vars

\* The script goes on where it can.  Nothing is asked of the monitors: they may
\* ignore their stop event for ever.
FairSpec == Spec /\ WF_vars(Script)

-----------------------------------------------------------------------------
(***************************************************************************)
(* Safety.                                                                 *)
(***************************************************************************)

\* The variables keep their types; the loops stay inside their lists.
TypeOK ==
  /\ starts \in 0..MaxStarts /\ faults \in 0..MaxFaults /\ interrupts \in 0..MaxInterrupts
  /\ suite \in BOOLEAN /\ analysed \in BOOLEAN /\ iperf \in BOOLEAN
  /\ todo \in Seq(Scenario)
  /\ metadata \in [Scenario -> Nat] /\ spoilt \subseteq Scenario
  /\ pc \in {"none", "configure", "record", "monitors", "iperf", "measure", "stopping",
             "joining", "stop iperf", "net.stop", "exit"}
  /\ pc # "none" => todo # <<>>
  /\ monitors \in Seq(Monitor)
  /\ pc = "monitors" => Len(monitors) < Len(MonitorsOf[Current])
  /\ at = 1 \/ at \in DOMAIN monitors
  /\ raised \in {"nothing", "error", "interrupt"}
  /\ monitor \in [Monitor -> {"none", "runs", "exit 0", "exit 1", "exit -15"}]
  /\ stop \subseteq Monitor /\ deadSleeper \subseteq Monitor
  /\ ping \in {"none", "runs", "orphan"}
  /\ left \subseteq {"iperf", "ping", "network"}

\* README.md:22: results are never overwritten, however often and in whatever
\* order suites and single scripts are run, and wherever they were cut short.
ResultsAreKept == \A s \in Scenario : metadata[s] <= 1

\* What is analysed is whole: every scenario has its results, and in none did a
\* monitor fail, neither in this suite nor in an earlier one (the exit codes
\* of the monitors, of the scripts and the refusal of old results together).
AnalysedIsWhole ==
  analysed => \A s \in Scenario : metadata[s] = 1 /\ s \notin spoilt

\* Whatever else fails, the scripts stop what they started: unless a monitor
\* failed or the user interrupted, nothing runs on but the ping of an rtt
\* monitor that had to be terminated.
NothingIsLeft ==
  spoilt = {} /\ interrupts = 0 => left \subseteq {"ping"}

(***************************************************************************)
(* Liveness.                                                               *)
(***************************************************************************)

\* As long as no monitor ends before it is told to, every script ends, also
\* when commands fail and when monitors do not react to their stop event.
ScriptsEnd ==
  [](spoilt = {} /\ deadSleeper = {}) => []<>(pc = "none")

-----------------------------------------------------------------------------
(***************************************************************************)
(* What the sources say of the scripts and they do not do.                 *)
(***************************************************************************)

\* report.md:136: by their stop events the monitors end normally.  When the
\* clean-up has begun, there is an end to it and no monitor is left running.
MonitorsAreStopped == pc = "stopping" ~> pc = "none"
=============================================================================
