------------------------- MODULE BufferbloatProofs -------------------------
(***************************************************************************)
(* Proofs about the experiment scripts, for every suite, every choice of   *)
(* monitors and every bound.  The inductive invariant is built in layers,  *)
(* each of which is proved with the help of those before it.               *)
(***************************************************************************)
EXTENDS Bufferbloat, SequenceTheorems, TLAPS

USE DEF userVars, resultVars, scriptVars, processVars

-----------------------------------------------------------------------------
(***************************************************************************)
(* Types, and what is known from the place of the script alone.            *)
(***************************************************************************)

\* The places before the clean-up.
Before == {"configure", "record", "monitors", "iperf", "measure"}

\* All the places of a script.
Place == {"none", "configure", "record", "monitors", "iperf", "measure", "stopping",
          "joining", "stop iperf", "net.stop", "exit"}

\* Where the script is tells what it has: nothing is raised before the
\* clean-up, and no monitor started before Record.
ControlInv ==
  /\ pc \in Place
  /\ raised \in {"nothing", "error", "interrupt"}
  /\ pc # "none" => todo # <<>>
  /\ monitors \in Seq(Monitor)
  /\ pc = "monitors" => Len(monitors) < Len(MonitorsOf[Current])
  /\ at = 1 \/ at \in DOMAIN monitors
  /\ pc \in Before => at = 1 /\ raised = "nothing"
  /\ pc \in {"configure", "record"} => monitors = <<>>
  /\ pc = "joining" => at \in DOMAIN monitors

\* No monitor survives a script or Ctrl-C, and the ping ends with its monitor.
RunningInv ==
  /\ pc = "none" \/ raised = "interrupt" => Running = {}
  /\ ping = "runs" => "rtt" \in Running

\* The first layer.
ScriptInv ==
  /\ TypeOK
  /\ ControlInv
  /\ RunningInv
  /\ raised = "interrupt" => interrupts > 0

\* The counters stay in their bounds, and Ctrl-C is never taken back.
LEMMA CounterTypes ==
  ASSUME TypeOK, Next
  PROVE  /\ starts' \in 0..MaxStarts
         /\ faults' \in 0..MaxFaults
         /\ interrupts' \in 0..MaxInterrupts
         /\ interrupts \in Nat /\ interrupts' \in Nat /\ interrupts' >= interrupts
<1>1. MaxStarts \in Nat /\ MaxFaults \in Nat /\ MaxInterrupts \in Nat
  BY BoundAssumption
<1>2. /\ starts \in 0..MaxStarts
      /\ faults \in 0..MaxFaults
      /\ interrupts \in 0..MaxInterrupts
  BY DEF TypeOK
<1>3. CASE StartSuite \/ \E s \in Scenario : StartAlone(s)
  <2>1. starts < MaxStarts /\ starts' = starts + 1 /\ UNCHANGED <<faults, interrupts>>
    BY <1>3 DEF StartSuite, StartAlone
  <2>. QED  BY <1>1, <1>2, <2>1
<1>4. CASE PingEnds \/ \E m \in Monitor : MonitorFails(m)
  <2>1. faults < MaxFaults /\ faults' = faults + 1 /\ UNCHANGED <<starts, interrupts>>
    BY <1>4 DEF PingEnds, MonitorFails
  <2>. QED  BY <1>1, <1>2, <2>1
<1>5. CASE Interrupt
  <2>1. /\ interrupts < MaxInterrupts /\ interrupts' = interrupts + 1
        /\ UNCHANGED <<starts, faults>>
    BY <1>5 DEF Interrupt
  <2>. QED  BY <1>1, <1>2, <2>1
<1>6. CASE Script \/ OrphanEnds \/ Kill \/ \E m \in Monitor : MonitorStops(m)
  <2>1. UNCHANGED <<starts, faults, interrupts>>
    BY <1>6 DEF Script, Refuse, StartScript, Configure, Record, StartMonitor,
                StartIperf, Measure, SetStop, NothingToStop, JoinEnded, JoinTimeout,
                StopIperf, NetStop, Exit, OrphanEnds, Kill, MonitorStops
  <2>. QED  BY <1>1, <1>2, <2>1
<1>. QED
  BY <1>3, <1>4, <1>5, <1>6 DEF Next

\* The flags stay Boolean.
LEMMA FlagTypes ==
  ASSUME TypeOK, Next
  PROVE  suite' \in BOOLEAN /\ analysed' \in BOOLEAN /\ iperf' \in BOOLEAN
<1>1. suite \in BOOLEAN /\ analysed \in BOOLEAN /\ iperf \in BOOLEAN
  BY DEF TypeOK
<1>2. suite' \in {TRUE, FALSE, suite}
  BY Zenon DEF Next, StartSuite, StartAlone, Script, Refuse, StartScript, Configure,
     Record, StartMonitor, StartIperf, Measure, SetStop, NothingToStop, JoinEnded,
     JoinTimeout, StopIperf, NetStop, Exit, PingEnds, OrphanEnds, Interrupt, Kill,
     MonitorStops, MonitorFails
<1>3. analysed' = analysed \/ analysed' \in BOOLEAN
  BY Zenon DEF Next, StartSuite, StartAlone, Script, Refuse, StartScript, Configure,
     Record, StartMonitor, StartIperf, Measure, SetStop, NothingToStop, JoinEnded,
     JoinTimeout, StopIperf, NetStop, Exit, PingEnds, OrphanEnds, Interrupt, Kill,
     MonitorStops, MonitorFails
<1>4. iperf' \in {TRUE, FALSE, iperf}
  BY Zenon DEF Next, StartSuite, StartAlone, Script, Refuse, StartScript, Configure,
     Record, StartMonitor, StartIperf, Measure, SetStop, NothingToStop, JoinEnded,
     JoinTimeout, StopIperf, NetStop, Exit, PingEnds, OrphanEnds, Interrupt, Kill,
     MonitorStops, MonitorFails
<1>. QED
  BY <1>1, <1>2, <1>3, <1>4, Zenon

\* What is left to do is a list of scenarios.
LEMMA TodoType ==
  ASSUME TypeOK, Next
  PROVE  todo' \in Seq(Scenario)
<1>1. todo \in Seq(Scenario)
  BY DEF TypeOK
<1>2. CASE StartSuite
  BY <1>2, EmptySeq, ScenarioAssumption DEF StartSuite
<1>3. ASSUME NEW s \in Scenario, StartAlone(s)
      PROVE  todo' \in Seq(Scenario)
  BY <1>3 DEF StartAlone
<1>4. CASE Refuse \/ Kill
  BY <1>4, EmptySeq DEF Refuse, Kill
<1>5. CASE Exit
  BY <1>1, <1>5, EmptySeq, HeadTailProperties DEF Exit, TypeOK
<1>6. CASE (Script \/ PingEnds \/ OrphanEnds \/ Interrupt) /\ ~Refuse /\ ~Exit
  BY <1>1, <1>6 DEF Script, StartScript, Configure, Record, StartMonitor, StartIperf,
     Measure, SetStop, NothingToStop, JoinEnded, JoinTimeout, StopIperf, NetStop,
     PingEnds, OrphanEnds, Interrupt
<1>7. ASSUME NEW m \in Monitor, MonitorStops(m) \/ MonitorFails(m)
      PROVE  todo' \in Seq(Scenario)
  BY <1>1, <1>7 DEF MonitorStops, MonitorFails
<1>. QED
  BY <1>2, <1>3, <1>4, <1>5, <1>6, <1>7 DEF Next, Script

\* A script that runs has a scenario.
LEMMA CurrentType ==
  ASSUME TypeOK, pc # "none"
  PROVE  Current \in Scenario
  BY HeadTailProperties DEF TypeOK, Current

\* The monitors of a scenario are a list that is not empty.
LEMMA MonitorListType ==
  ASSUME NEW s \in Scenario
  PROVE  MonitorsOf[s] \in Seq(Monitor) /\ Len(MonitorsOf[s]) > 0
<1>1. MonitorsOf[s] \in Seq(Monitor) /\ MonitorsOf[s] # <<>>
  BY ScenarioAssumption
<1>. QED  BY <1>1, EmptySeq

\* Results belong to scenarios.
LEMMA ResultTypes ==
  ASSUME ScriptInv, Next
  PROVE  metadata' \in [Scenario -> Nat] /\ spoilt' \subseteq Scenario
<1>1. /\ metadata \in [Scenario -> Nat] /\ spoilt \subseteq Scenario
      /\ pc # "none" => Current \in Scenario
  BY CurrentType DEF ScriptInv, TypeOK
<1>2. CASE Record
  <2>1. /\ pc # "none" /\ UNCHANGED spoilt
        /\ metadata' = [metadata EXCEPT ![Current] = @ + 1]
    BY <1>2 DEF Record
  <2>. QED  BY <1>1, <1>2, <2>1
<1>3. CASE Interrupt
  BY <1>1, <1>3 DEF Interrupt
<1>4. ASSUME NEW m \in Monitor, MonitorFails(m)
      PROVE  UNCHANGED metadata /\ spoilt' \subseteq Scenario
  <2>1. pc # "none"
    BY <1>4 DEF MonitorFails, ScriptInv, RunningInv, Running
  <2>. QED  BY <1>1, <1>4, <2>1 DEF MonitorFails
<1>5. CASE \/ StartSuite \/ (Script /\ ~Record) \/ PingEnds \/ OrphanEnds \/ Kill
           \/ (\E s \in Scenario : StartAlone(s)) \/ \E m \in Monitor : MonitorStops(m)
  <2>1. UNCHANGED <<metadata, spoilt>>
    BY <1>5 DEF StartSuite, StartAlone, Script, Refuse, StartScript, Configure,
       StartMonitor, StartIperf, Measure, SetStop, NothingToStop, JoinEnded, JoinTimeout,
       StopIperf, NetStop, Exit, PingEnds, OrphanEnds, Kill, MonitorStops
  <2>. QED  BY <1>1, <2>1
<1>. QED
  BY <1>1, <1>2, <1>3, <1>4, <1>5 DEF Next, Script

\* The loop over the monitors goes on, or is through.
LEMMA NextMonitorStep ==
  ASSUME NextMonitor, Len(monitors) \in Nat, at \in 1..Len(monitors)
  PROVE  /\ at' \in 1..Len(monitors)
         /\ pc' \in {"stopping", "stop iperf"}
         /\ pc' = "stopping" => at' = at + 1
         /\ pc' = "stop iperf" => at = Len(monitors)
<1>1. CASE at < Len(monitors)
  <2>1. pc' = "stopping" /\ at' = at + 1
    BY <1>1 DEF NextMonitor
  <2>2. at' \in 1..Len(monitors)
    BY <1>1, <2>1
  <2>. QED  BY <2>1, <2>2
<1>2. CASE ~(at < Len(monitors))
  <2>1. pc' = "stop iperf" /\ at' = at
    BY <1>2 DEF NextMonitor
  <2>2. at = Len(monitors)
    BY <1>2
  <2>. QED  BY <2>1, <2>2
<1>. QED  BY <1>1, <1>2

\* Every step leaves the script where it can go on.
LEMMA ControlStep ==
  ASSUME ScriptInv, Next
  PROVE  ControlInv'
<1>0. TypeOK /\ ControlInv
  BY DEF ScriptInv
<1>. USE DEF ControlInv, Before, Place
<1>1. ControlInv /\ (pc # "none" => Current \in Scenario)
  BY <1>0, CurrentType
<1>2. DOMAIN monitors = 1..Len(monitors) /\ Len(monitors) \in Nat
  <2>1. monitors \in Seq(Monitor)
    BY <1>1
  <2>. QED  BY <2>1, LenProperties
<1>3. CASE StartSuite \/ \E s \in Scenario : StartAlone(s)
  BY <1>1, <1>3 DEF StartSuite, StartAlone
<1>4. CASE Refuse
  BY <1>1, <1>4 DEF Refuse
<1>5. CASE StartScript
  BY <1>1, <1>5, EmptySeq DEF StartScript
<1>6. CASE Configure
  BY <1>1, <1>6 DEF Configure
<1>7. CASE Record
  <2>1. Len(MonitorsOf[Current]) > 0
    BY <1>1, <1>7, MonitorListType DEF Record
  <2>. QED  BY <1>1, <1>7, <2>1 DEF Record, Current
<1>8. CASE StartMonitor
  <2>1. MonitorsOf[Current] \in Seq(Monitor)
    BY <1>1, <1>8, MonitorListType DEF StartMonitor
  <2> DEFINE m == MonitorsOf[Current][Len(monitors) + 1]
  <2>2. /\ pc = "monitors" /\ monitors' = Append(monitors, m)
        /\ pc' = IF Len(monitors') = Len(MonitorsOf[Current]) THEN "iperf" ELSE pc
        /\ UNCHANGED <<todo, raised, at>>
    BY <1>8 DEF StartMonitor
  <2>3. m \in Monitor
    BY <1>1, <1>2, <2>1, <2>2
  <2>4. monitors' \in Seq(Monitor) /\ Len(monitors') = Len(monitors) + 1
    BY <1>1, <2>2, <2>3, AppendProperties
  <2>. QED  BY <1>1, <1>2, <2>1, <2>2, <2>4 DEF Current
<1>9. CASE StartIperf
  BY <1>1, <1>9 DEF StartIperf
<1>10. CASE Measure
  BY <1>1, <1>10 DEF Measure
<1>11. CASE SetStop
  BY <1>1, <1>11 DEF SetStop
<1>12. CASE NothingToStop
  BY <1>1, <1>12 DEF NothingToStop
<1>13. CASE JoinEnded
  <2>1. pc = "joining" /\ raised' \in {raised, "error"} /\ UNCHANGED <<monitors, todo>>
    BY <1>13 DEF JoinEnded
  <2>2. NextMonitor \/ (pc' = "net.stop" /\ at' = at)
    BY <1>13 DEF JoinEnded
  <2>3. at \in 1..Len(monitors)
    BY <1>1, <1>2, <2>1
  <2>4. at' \in 1..Len(monitors) /\ pc' \in {"stopping", "stop iperf", "net.stop"}
    BY <1>2, <2>2, <2>3, NextMonitorStep
  <2>. QED  BY <1>1, <1>2, <2>1, <2>4
<1>14. CASE JoinTimeout
  <2>1. pc = "joining" /\ NextMonitor /\ UNCHANGED <<raised, monitors, todo>>
    BY <1>14 DEF JoinTimeout
  <2>2. at \in 1..Len(monitors)
    BY <1>1, <1>2, <2>1
  <2>3. at' \in 1..Len(monitors) /\ pc' \in {"stopping", "stop iperf"}
    BY <1>2, <2>1, <2>2, NextMonitorStep
  <2>. QED  BY <1>1, <1>2, <2>1, <2>3
<1>15. CASE StopIperf
  BY <1>1, <1>15 DEF StopIperf
<1>16. CASE NetStop
  BY <1>1, <1>16 DEF NetStop
<1>17. CASE Exit
  BY <1>1, <1>17 DEF Exit
<1>18. CASE Interrupt
  <2>1. pc' \in {"stopping", "net.stop", "exit"}
    BY <1>18 DEF Interrupt, AfterInterrupt
  <2>2. /\ pc # "none" /\ raised' = "interrupt" /\ at' = 1
        /\ UNCHANGED <<monitors, todo>>
    BY <1>18 DEF Interrupt
  <2>. QED  BY <1>1, <2>1, <2>2
<1>19. CASE Kill
  BY <1>1, <1>19 DEF Kill
<1>20. CASE \/ PingEnds \/ OrphanEnds
            \/ \E m \in Monitor : MonitorStops(m) \/ MonitorFails(m)
  <2>1. UNCHANGED <<pc, raised, monitors, at, todo>>
    BY <1>20 DEF PingEnds, OrphanEnds, MonitorStops, MonitorFails
  <2>2. Current' = Current
    BY <2>1 DEF Current
  <2>. QED  BY <1>1, <2>1, <2>2
<1>. QED
  BY <1>3, <1>4, <1>5, <1>6, <1>7, <1>8, <1>9, <1>10, <1>11, <1>12, <1>13, <1>14,
     <1>15, <1>16, <1>17, <1>18, <1>19, <1>20 DEF Next, Script

\* What becomes of a monitor.
State == {"none", "runs", "exit 0", "exit 1", "exit -15"}

\* The processes keep their types.
LEMMA ProcessTypes ==
  ASSUME ScriptInv, Next
  PROVE  /\ monitor' \in [Monitor -> State]
         /\ stop' \subseteq Monitor /\ deadSleeper' \subseteq Monitor
         /\ ping' \in {"none", "runs", "orphan"}
         /\ left' \subseteq {"iperf", "ping", "network"}
<1>1. /\ monitor \in [Monitor -> State]
      /\ stop \subseteq Monitor /\ deadSleeper \subseteq Monitor
      /\ ping \in {"none", "runs", "orphan"}
      /\ left \subseteq {"iperf", "ping", "network"}
  BY DEF ScriptInv, TypeOK, State
<1>2. ControlInv /\ RunningInv
  BY DEF ScriptInv
<1>3. CASE StartScript
  BY <1>1, <1>3 DEF StartScript, State
<1>4. CASE StartMonitor
  BY <1>1, <1>4 DEF StartMonitor, State
<1>5. CASE SetStop
  <2>1. Stopping \in Monitor
    <3>1. at \in DOMAIN monitors
      BY <1>2, <1>5 DEF ControlInv, SetStop
    <3>. QED  BY <1>2, <3>1 DEF ControlInv, Stopping
  <2>. QED  BY <1>1, <1>5, <2>1 DEF SetStop
<1>6. CASE JoinTimeout
  BY <1>1, <1>6 DEF JoinTimeout, State
<1>7. CASE Exit \/ OrphanEnds \/ Kill
  BY <1>1, <1>7 DEF Exit, OrphanEnds, Kill
<1>8. CASE PingEnds
  BY <1>1, <1>2, <1>8 DEF PingEnds, Sleepers, State, RunningInv, Running
<1>9. CASE Interrupt
  <2>1. monitor' \in [Monitor -> State] /\ UNCHANGED stop /\ ping' \in {"none", ping}
    BY <1>1, <1>9 DEF Interrupt, State
  <2>2. deadSleeper' \subseteq Monitor
    BY <1>1, <1>9 DEF Interrupt, Sleepers, Running
  <2>3. left' \subseteq {"iperf", "ping", "network"}
    BY <1>1, <1>9 DEF Interrupt
  <2>. QED  BY <1>1, <2>1, <2>2, <2>3
<1>10. ASSUME NEW m \in Monitor, MonitorStops(m) \/ MonitorFails(m)
       PROVE  /\ monitor' \in [Monitor -> State] /\ deadSleeper' \subseteq Monitor
              /\ ping' \in {"none", "runs", "orphan"} /\ UNCHANGED <<stop, left>>
  BY <1>1, <1>10, ZenonT(30) DEF MonitorStops, MonitorFails, PingGone, Sleepers, State
<1>11. CASE \/ StartSuite \/ Refuse \/ Configure \/ Record \/ StartIperf \/ Measure
            \/ NothingToStop \/ JoinEnded \/ StopIperf \/ NetStop
            \/ \E s \in Scenario : StartAlone(s)
  <2>1. UNCHANGED <<monitor, stop, deadSleeper, ping, left>>
    BY <1>11 DEF StartSuite, StartAlone, Refuse, Configure, Record, StartIperf, Measure,
       NothingToStop, JoinEnded, StopIperf, NetStop
  <2>. QED  BY <1>1, <2>1
<1>. QED
  BY <1>1, <1>3, <1>4, <1>5, <1>6, <1>7, <1>8, <1>9, <1>10, <1>11 DEF Next, Script

\* Ctrl-C and the exit of the script leave no monitor, and a monitor its ping.
LEMMA RunningStep ==
  ASSUME ScriptInv, Next
  PROVE  RunningInv'
<1>. USE DEF RunningInv, Running
<1>1. /\ ControlInv /\ RunningInv
      /\ monitor \in [Monitor -> State]
  BY DEF ScriptInv, TypeOK, State
<1>2. CASE StartScript
  BY <1>1, <1>2 DEF StartScript
<1>3. CASE StartMonitor
  <2> DEFINE m == MonitorsOf[Current][Len(monitors) + 1]
  <2>1. /\ pc' # "none" /\ raised' = "nothing"
        /\ monitor' = [monitor EXCEPT ![m] = "runs"]
        /\ ping' = IF m = "rtt" THEN "runs" ELSE ping
    BY <1>1, <1>3 DEF StartMonitor, ControlInv, Before
  <2>2. m \in Monitor
    <3>1. Len(monitors) + 1 \in 1..Len(MonitorsOf[Current])
      BY <1>1, <1>3 DEF StartMonitor, ControlInv
    <3>. QED  BY <1>3, <3>1, CurrentType, MonitorListType DEF StartMonitor, ScriptInv
  <2>. QED  BY <1>1, <2>1, <2>2
<1>4. CASE Exit
  BY <1>1, <1>4 DEF Exit
<1>5. CASE Kill
  BY <1>1, <1>5 DEF Kill
<1>6. CASE JoinTimeout
  BY <1>1, <1>6 DEF JoinTimeout, NextMonitor
<1>7. CASE PingEnds
  BY <1>1, <1>7 DEF PingEnds
<1>8. CASE Interrupt
  <2>1. monitor' = [m \in Monitor |-> IF m \in Running THEN "exit 1" ELSE monitor[m]]
    BY <1>8 DEF Interrupt
  <2>2. Running' = {}
    BY <1>1, <2>1
  <2>3. ping' # "runs"
    BY <1>1, <1>8 DEF Interrupt
  <2>. QED  BY <2>2, <2>3
<1>9. ASSUME NEW m \in Monitor, MonitorStops(m) \/ MonitorFails(m)
      PROVE  RunningInv'
  BY <1>1, <1>9 DEF MonitorStops, MonitorFails, PingGone
<1>10. CASE \/ Configure \/ Record \/ StartIperf \/ Measure
            \/ SetStop \/ NothingToStop \/ JoinEnded \/ StopIperf \/ NetStop
  <2>1. /\ pc' # "none"
        /\ raised' = "interrupt" => raised = "interrupt"
        /\ UNCHANGED <<monitor, ping>>
    BY <1>10 DEF Configure, Record, StartIperf, Measure, SetStop, NothingToStop,
       JoinEnded, NextMonitor, StopIperf, NetStop
  <2>. QED  BY <1>1, <2>1
<1>11. CASE StartSuite \/ Refuse \/ OrphanEnds \/ \E s \in Scenario : StartAlone(s)
  <2>1. UNCHANGED <<pc, raised, monitor>> /\ (ping' = "runs" => ping = "runs")
    BY <1>11 DEF StartSuite, StartAlone, Refuse, OrphanEnds
  <2>. QED  BY <1>1, <2>1
<1>. QED
  BY <1>2, <1>3, <1>4, <1>5, <1>6, <1>7, <1>8, <1>9, <1>10, <1>11 DEF Next, Script

\* The first layer is inductive.
LEMMA ScriptStep ==
  ASSUME ScriptInv, [Next]_vars
  PROVE  ScriptInv'
<1>1. CASE Next
  <2>1. raised' = "interrupt" => interrupts' > 0
    <3>1. \/ raised' = raised \/ raised' # "interrupt"
          \/ interrupts \in Nat /\ interrupts' = interrupts + 1
      BY <1>1, CounterTypes DEF ScriptInv, Next, StartSuite, StartAlone, Script, Refuse,
         StartScript, Configure, Record, StartMonitor, StartIperf, Measure, SetStop,
         NothingToStop, JoinEnded, JoinTimeout, StopIperf, NetStop, Exit, PingEnds,
         OrphanEnds, Interrupt, Kill, MonitorStops, MonitorFails
    <3>2. interrupts \in Nat /\ interrupts' \in Nat /\ interrupts' >= interrupts
      BY <1>1, CounterTypes DEF ScriptInv
    <3>3. raised = "interrupt" => interrupts > 0
      BY DEF ScriptInv
    <3>. QED  BY <3>1, <3>2, <3>3
  <2>2. TypeOK'
    BY <1>1, CounterTypes, FlagTypes, TodoType, ResultTypes, ControlStep, ProcessTypes
       DEF ScriptInv, TypeOK, ControlInv, Place, State
  <2>. QED  BY <1>1, <2>1, <2>2, ControlStep, RunningStep DEF ScriptInv
<1>2. CASE UNCHANGED vars
  <2>1. TypeOK'
    BY <1>2, ZenonT(30) DEF vars, ScriptInv, TypeOK, Current
  <2>2. ControlInv'
    BY <1>2 DEF vars, ScriptInv, ControlInv, Current
  <2>3. RunningInv' /\ (raised' = "interrupt" => interrupts' > 0)
    BY <1>2 DEF vars, ScriptInv, RunningInv, Running
  <2>. QED  BY <2>1, <2>2, <2>3 DEF ScriptInv
<1>. QED  BY <1>1, <1>2

\* It holds in the beginning.
LEMMA ScriptInit ==
  ASSUME Init
  PROVE  ScriptInv
<1>1. ControlInv
  BY EmptySeq DEF Init, ControlInv, Place, Before
<1>2. RunningInv /\ raised # "interrupt"
  BY DEF Init, RunningInv, Running
<1>3. starts \in 0..MaxStarts /\ faults \in 0..MaxFaults /\ interrupts \in 0..MaxInterrupts
  BY BoundAssumption DEF Init
<1>4. TypeOK
  BY <1>1, <1>3, EmptySeq DEF Init, TypeOK, ControlInv, Place
<1>. QED  BY <1>1, <1>2, <1>4 DEF ScriptInv

\* The variables keep their types.
THEOREM TypeCorrect == Spec => []TypeOK
<1>1. Init => ScriptInv
  BY ScriptInit
<1>2. ScriptInv => TypeOK
  BY DEF ScriptInv
<1>. QED  BY <1>1, <1>2, ScriptStep, PTL DEF Spec

-----------------------------------------------------------------------------
(***************************************************************************)
(* The monitors and their list.                                            *)
(***************************************************************************)

\* The monitors started are those of the script's scenario, in their order,
\* and one that failed has spoilt it.
MonitorInv ==
  /\ \A m \in Monitor : monitor[m] # "none" <=> \E j \in DOMAIN monitors : monitors[j] = m
  /\ pc # "none" => /\ Len(monitors) <= Len(MonitorsOf[Current])
                    /\ \A j \in DOMAIN monitors : monitors[j] = MonitorsOf[Current][j]
  /\ (\E m \in Monitor : monitor[m] = "exit 1") => spoilt # {}

\* Only a monitor that runs changes, and one that fails leaves its mark.
MonitorsEnd ==
  /\ UNCHANGED monitors
  /\ \A m \in Monitor :
       \/ monitor'[m] = monitor[m]
       \/ /\ monitor[m] = "runs"
          /\ \/ monitor'[m] \in {"exit 0", "exit -15"}
             \/ monitor'[m] = "exit 1" /\ Current \in spoilt'

\* Whatever starts no monitor only ends some.
LEMMA MonitorChange ==
  ASSUME ScriptInv, Next
  PROVE  StartScript \/ StartMonitor \/ MonitorsEnd
<1>. USE DEF MonitorsEnd
<1>1. monitor \in [Monitor -> State] /\ RunningInv /\ ControlInv
  BY DEF ScriptInv, TypeOK, State
<1>2. CASE JoinTimeout
  BY <1>1, <1>2 DEF JoinTimeout
<1>3. CASE PingEnds
  BY <1>1, <1>3 DEF PingEnds, RunningInv, Running
<1>4. CASE Interrupt
  BY <1>1, <1>4 DEF Interrupt, Running
<1>5. ASSUME NEW m \in Monitor, MonitorStops(m) \/ MonitorFails(m)
      PROVE  MonitorsEnd
  BY <1>1, <1>5 DEF MonitorStops, MonitorFails
<1>6. CASE \/ StartSuite \/ Refuse \/ Configure \/ Record \/ StartIperf \/ Measure
           \/ SetStop \/ NothingToStop \/ JoinEnded \/ StopIperf \/ NetStop \/ Exit
           \/ OrphanEnds \/ Kill \/ \E s \in Scenario : StartAlone(s)
  BY <1>6 DEF StartSuite, StartAlone, Refuse, Configure, Record, StartIperf, Measure,
     SetStop, NothingToStop, JoinEnded, StopIperf, NetStop, Exit, OrphanEnds, Kill
<1>. QED  BY <1>2, <1>3, <1>4, <1>5, <1>6 DEF Next, Script

\* While a script runs, it works on the same scenario.
LEMMA CurrentStays ==
  ASSUME ScriptInv, Next, pc' # "none"
  PROVE  UNCHANGED todo /\ UNCHANGED Current /\ (pc # "none" \/ StartScript)
<1>1. ControlInv
  BY DEF ScriptInv
<1>2. ~StartSuite /\ ~Refuse /\ ~Exit /\ ~Kill /\ \A s \in Scenario : ~StartAlone(s)
  BY <1>1 DEF ControlInv, StartSuite, Refuse, Exit, Kill, StartAlone
<1>3. UNCHANGED todo
  BY <1>2 DEF Next, Script, StartScript, Configure, Record, StartMonitor, StartIperf,
     Measure, SetStop, NothingToStop, JoinEnded, JoinTimeout, StopIperf, NetStop,
     PingEnds, OrphanEnds, Interrupt, MonitorStops, MonitorFails
<1>4. pc # "none" \/ StartScript
  BY <1>2 DEF Next, Script, Configure, Record, StartMonitor, StartIperf,
     Measure, SetStop, NothingToStop, JoinEnded, JoinTimeout, StopIperf, NetStop,
     PingEnds, OrphanEnds, Interrupt, MonitorStops, MonitorFails
<1>. QED  BY <1>3, <1>4 DEF Current

\* A scenario that was spoilt stays so.
LEMMA SpoiltStays ==
  ASSUME ScriptInv, Next
  PROVE  spoilt \subseteq spoilt'
  BY DEF Next, StartSuite, StartAlone, Script, Refuse, StartScript, Configure,
     Record, StartMonitor, StartIperf, Measure, SetStop, NothingToStop, JoinEnded,
     JoinTimeout, StopIperf, NetStop, Exit, PingEnds, OrphanEnds, Interrupt, Kill,
     MonitorStops, MonitorFails

\* The second layer is inductive.
LEMMA MonitorStep ==
  ASSUME ScriptInv, MonitorInv, [Next]_vars
  PROVE  MonitorInv'
<1>1. ControlInv /\ RunningInv /\ monitor \in [Monitor -> State] /\ spoilt \subseteq Scenario
  BY DEF ScriptInv, TypeOK, State
<1>2. CASE StartScript
  <2>1. monitors' = <<>> /\ (\A m \in Monitor : monitor'[m] = "none") /\ UNCHANGED todo
    BY <1>2 DEF StartScript
  <2>2. Current' \in Scenario
    BY <1>1, <1>2, <2>1, HeadTailProperties DEF StartScript, Current, ScriptInv, TypeOK
  <2>3. Len(MonitorsOf[Current']) > 0
    BY <2>2, MonitorListType
  <2>4. DOMAIN monitors' = {} /\ Len(monitors') = 0
    BY <2>1
  <2>5. MonitorsOf[Current'] \in Seq(Monitor)
    BY <2>2, MonitorListType
  <2>6. Len(monitors') <= Len(MonitorsOf[Current'])
    BY <2>3, <2>4, <2>5
  <2>7. \A m \in Monitor : monitor'[m] # "none" <=> \E j \in DOMAIN monitors' : monitors'[j] = m
    BY <2>1, <2>4
  <2>. QED  BY <2>1, <2>4, <2>6, <2>7 DEF MonitorInv
<1>3. CASE StartMonitor
  <2> DEFINE m == MonitorsOf[Current][Len(monitors) + 1]
  <2>1. /\ pc = "monitors" /\ pc' # "none" /\ UNCHANGED <<todo, spoilt>>
        /\ monitors' = Append(monitors, m)
        /\ monitor' = [monitor EXCEPT ![m] = "runs"]
    BY <1>3 DEF StartMonitor
  <2>2. /\ MonitorsOf[Current] \in Seq(Monitor) /\ IsInjective(MonitorsOf[Current])
        /\ monitors \in Seq(Monitor) /\ Len(monitors) < Len(MonitorsOf[Current])
    BY <1>1, <2>1, CurrentType, MonitorListType, ScenarioAssumption DEF ScriptInv, ControlInv
  <2>3. /\ Len(monitors) + 1 \in 1..Len(MonitorsOf[Current]) /\ m \in Monitor
        /\ DOMAIN monitors = 1..Len(monitors) /\ DOMAIN MonitorsOf[Current] = 1..Len(MonitorsOf[Current])
    BY <2>2
  <2>4. /\ Len(monitors') = Len(monitors) + 1 /\ DOMAIN monitors' = 1..(Len(monitors) + 1)
        /\ \A j \in DOMAIN monitors : monitors'[j] = monitors[j]
        /\ monitors'[Len(monitors) + 1] = m
    BY <2>1, <2>2, <2>3, AppendProperties
  <2>5. UNCHANGED Current
    BY <2>1 DEF Current
  <2>6. \A j \in DOMAIN monitors' : monitors'[j] = MonitorsOf[Current][j]
    <3>1. \A j \in DOMAIN monitors : monitors[j] = MonitorsOf[Current][j]
      BY <2>1 DEF MonitorInv
    <3>2. DOMAIN monitors' = DOMAIN monitors \cup {Len(monitors) + 1}
      BY <2>2, <2>3, <2>4
    <3>. QED  BY <2>4, <3>1, <3>2
  <2>7. Len(monitors') <= Len(MonitorsOf[Current])
    BY <2>2, <2>3, <2>4
  <2>8. \A n \in Monitor : monitor'[n] # "none" <=> \E j \in DOMAIN monitors' : monitors'[j] = n
    <3>1. \A n \in Monitor : monitor[n] # "none" <=> \E j \in DOMAIN monitors : monitors[j] = n
      BY DEF MonitorInv
    <3>2. monitor'[m] = "runs" /\ \A n \in Monitor : n # m => monitor'[n] = monitor[n]
      BY <1>1, <2>1, <2>3
    <3>3. DOMAIN monitors' = DOMAIN monitors \cup {Len(monitors) + 1}
      BY <2>2, <2>3, <2>4
    <3>. QED  BY <2>3, <2>4, <3>1, <3>2, <3>3
  <2>9. (\E n \in Monitor : monitor'[n] = "exit 1") => spoilt' # {}
    BY <1>1, <2>1, <2>3 DEF MonitorInv
  <2>. QED  BY <2>5, <2>6, <2>7, <2>8, <2>9 DEF MonitorInv
<1>4. CASE Next /\ MonitorsEnd
  <2>1. \A m \in Monitor : monitor'[m] # "none" <=> \E j \in DOMAIN monitors' : monitors'[j] = m
    BY <1>4 DEF MonitorsEnd, MonitorInv
  <2>2. (\E m \in Monitor : monitor'[m] = "exit 1") => spoilt' # {}
    BY <1>4, SpoiltStays DEF MonitorsEnd, MonitorInv
  <2>3. pc' # "none" => /\ Len(monitors') <= Len(MonitorsOf[Current'])
                       /\ \A j \in DOMAIN monitors' : monitors'[j] = MonitorsOf[Current'][j]
    BY <1>2, <1>4, CurrentStays DEF MonitorsEnd, MonitorInv
  <2>. QED  BY <2>1, <2>2, <2>3 DEF MonitorInv
<1>5. CASE UNCHANGED vars
  BY <1>5 DEF vars, MonitorInv, Current
<1>. QED  BY <1>2, <1>3, <1>4, <1>5, MonitorChange

-----------------------------------------------------------------------------
(***************************************************************************)
(* The results.                                                            *)
(***************************************************************************)

\* metadata.json is written once, before the first monitor is started, and only
\* scenarios that have it can be spoilt.
ResultInv ==
  /\ ResultsAreKept
  /\ pc \in {"configure", "record"} => metadata[Current] = 0
  /\ pc \notin {"none", "configure", "record"} /\ (monitors # <<>> \/ raised = "nothing") =>
       metadata[Current] = 1
  /\ \A s \in spoilt : metadata[s] = 1

\* Only Record writes metadata.json.
LEMMA OnlyRecordWrites ==
  ASSUME Next
  PROVE  Record \/ UNCHANGED metadata
  BY DEF Next, StartSuite, StartAlone, Script, Refuse, StartScript, Configure, StartMonitor,
     StartIperf, Measure, SetStop, NothingToStop, JoinEnded, JoinTimeout, StopIperf,
     NetStop, Exit, PingEnds, OrphanEnds, Interrupt, Kill, MonitorStops, MonitorFails

\* The scripts that fail before Record have started no monitor.
LEMMA OnlyRecordLeads ==
  ASSUME ScriptInv, Next, pc' \notin {"none", "configure", "record"},
         monitors' # <<>> \/ raised' = "nothing"
  PROVE  \/ Record
         \/ /\ pc \notin {"none", "configure", "record"}
            /\ monitors # <<>> \/ raised = "nothing"
<1>1. ControlInv
  BY DEF ScriptInv
<1>2. CASE StartScript
  BY <1>2 DEF StartScript
<1>3. CASE Configure
  BY <1>1, <1>3 DEF Configure, ControlInv
<1>4. CASE StartMonitor \/ StartIperf \/ Measure
  BY <1>1, <1>4 DEF StartMonitor, StartIperf, Measure, ControlInv, Before
<1>5. CASE Interrupt
  BY <1>1, <1>5 DEF Interrupt, ControlInv
<1>6. CASE \/ SetStop \/ NothingToStop \/ JoinEnded \/ JoinTimeout \/ StopIperf \/ NetStop
  BY <1>6 DEF SetStop, NothingToStop, JoinEnded, JoinTimeout, StopIperf, NetStop
<1>7. CASE \/ StartSuite \/ PingEnds \/ OrphanEnds \/ (\E s \in Scenario : StartAlone(s))
           \/ \E m \in Monitor : MonitorStops(m) \/ MonitorFails(m)
  BY <1>7 DEF StartSuite, StartAlone, PingEnds, OrphanEnds, MonitorStops, MonitorFails
<1>8. ~Refuse /\ ~Exit /\ ~Kill
  BY DEF Refuse, Exit, Kill
<1>. QED  BY <1>2, <1>3, <1>4, <1>5, <1>6, <1>7, <1>8 DEF Next, Script

\* A monitor that fails was started, after Record.
LEMMA OnlyRunningSpoil ==
  ASSUME ScriptInv, MonitorInv, Next, spoilt' # spoilt
  PROVE  /\ spoilt' = spoilt \cup {Current}
         /\ pc \notin {"none", "configure", "record"} /\ monitors # <<>>
<1>1. PICK m \in Monitor : monitor[m] = "runs" /\ spoilt' = spoilt \cup {Current}
  BY DEF Next, StartSuite, StartAlone, Script, Refuse, StartScript, Configure,
     Record, StartMonitor, StartIperf, Measure, SetStop, NothingToStop, JoinEnded,
     JoinTimeout, StopIperf, NetStop, Exit, PingEnds, OrphanEnds, Interrupt, Kill,
     MonitorStops, MonitorFails, Running
<1>2. pc # "none"
  BY <1>1 DEF ScriptInv, RunningInv, Running
<1>3. monitors # <<>>
  <2>1. PICK j \in DOMAIN monitors : monitors[j] = m
    BY <1>1 DEF MonitorInv
  <2>. QED  BY <2>1
<1>. QED  BY <1>1, <1>2, <1>3 DEF ScriptInv, ControlInv

\* The third layer is inductive.
LEMMA ResultStep ==
  ASSUME ScriptInv, MonitorInv, ResultInv, [Next]_vars
  PROVE  ResultInv'
<1>1. CASE Record
  <2>1. /\ pc = "record" /\ pc' \in {"monitors", "net.stop"} /\ UNCHANGED <<todo, spoilt>>
        /\ metadata' = [metadata EXCEPT ![Current] = @ + 1]
    BY <1>1 DEF Record
  <2>2. /\ metadata \in [Scenario -> Nat] /\ Current \in Scenario /\ spoilt \subseteq Scenario
    BY <2>1, CurrentType DEF ScriptInv, TypeOK
  <2>3. metadata[Current] = 0 /\ UNCHANGED Current
    BY <2>1 DEF ResultInv, Current
  <2>4. metadata'[Current] = 1 /\ \A s \in Scenario : s # Current => metadata'[s] = metadata[s]
    BY <2>1, <2>2, <2>3
  <2>. QED  BY <2>1, <2>2, <2>3, <2>4 DEF ResultInv, ResultsAreKept
<1>2. CASE Next /\ ~Record
  <2>1. UNCHANGED metadata
    BY <1>2, OnlyRecordWrites
  <2>2. ResultsAreKept'
    BY <2>1 DEF ResultInv, ResultsAreKept
  <2>3. ASSUME pc' \in {"configure", "record"}
        PROVE  metadata'[Current'] = 0
    <3>1. CASE StartScript
      BY <3>1, <2>1 DEF StartScript, Current
    <3>2. CASE ~StartScript
      <4>1. pc \in {"configure", "record"}
        BY <1>2, <2>3, <3>2 DEF Next, StartSuite, StartAlone, Script, Refuse, Configure,
           Record, StartMonitor, StartIperf, Measure, SetStop, NothingToStop, JoinEnded,
           JoinTimeout, NextMonitor, StopIperf, NetStop, Exit, PingEnds, OrphanEnds,
           Interrupt, AfterInterrupt, Kill, MonitorStops, MonitorFails
      <4>2. UNCHANGED Current
        BY <1>2, <2>3, CurrentStays
      <4>. QED  BY <2>1, <4>1, <4>2 DEF ResultInv
    <3>. QED  BY <3>1, <3>2
  <2>4. ASSUME pc' \notin {"none", "configure", "record"}, monitors' # <<>> \/ raised' = "nothing"
        PROVE  metadata'[Current'] = 1
    BY <1>2, <2>1, <2>4, CurrentStays, OnlyRecordLeads DEF ResultInv
  <2>5. \A s \in spoilt' : metadata'[s] = 1
    BY <1>2, <2>1, OnlyRunningSpoil DEF ResultInv
  <2>. QED  BY <2>2, <2>3, <2>4, <2>5 DEF ResultInv
<1>3. CASE UNCHANGED vars
  BY <1>3 DEF vars, ResultInv, ResultsAreKept, Current
<1>. QED  BY <1>1, <1>2, <1>3

-----------------------------------------------------------------------------
(***************************************************************************)
(* What is left behind.                                                    *)
(***************************************************************************)

\* iperf runs from its start to stop_iperf, unless something was raised that
\* skips stop_iperf.
LeftInv ==
  /\ NothingIsLeft
  /\ spoilt = {} /\ interrupts = 0 /\ iperf =>
       pc \in {"measure", "stopping", "joining", "stop iperf"}

\* The exit codes that _stop_monitor accepts.
Good == {"exit 0", "exit -15"}

\* The monitor that is joined has been started.
LEMMA JoinsStarted ==
  ASSUME ScriptInv, MonitorInv, pc = "joining"
  PROVE  /\ Stopping \in Monitor /\ monitor[Stopping] \in State \ {"none"}
         /\ Len(monitors) \in Nat /\ at \in 1..Len(monitors)
         /\ DOMAIN monitors = 1..Len(monitors)
<1>1. /\ monitors \in Seq(Monitor) /\ at \in DOMAIN monitors
      /\ monitor \in [Monitor -> State]
  BY DEF ScriptInv, ControlInv, TypeOK, State
<1>2. /\ Len(monitors) \in Nat /\ DOMAIN monitors = 1..Len(monitors)
      /\ Stopping \in Monitor
  BY <1>1 DEF Stopping
<1>3. monitor[Stopping] # "none"
  BY <1>1, <1>2 DEF MonitorInv, Stopping
<1>. QED  BY <1>1, <1>2, <1>3

\* The fourth layer is inductive.
LEMMA LeftStep ==
  ASSUME ScriptInv, MonitorInv, LeftInv, [Next]_vars
  PROVE  LeftInv'
<1>1. CASE Next
  <2>. SUFFICES ASSUME spoilt' = {}, interrupts' = 0
                PROVE  /\ left' \subseteq {"ping"}
                       /\ iperf' => pc' \in {"measure", "stopping", "joining", "stop iperf"}
    BY DEF LeftInv, NothingIsLeft
  <2>1. /\ spoilt = {} /\ interrupts = 0 /\ raised # "interrupt"
        /\ left \subseteq {"ping"}
        /\ iperf => pc \in {"measure", "stopping", "joining", "stop iperf"}
    <3>1. interrupts = 0 /\ spoilt = {}
      BY <1>1, CounterTypes, SpoiltStays DEF ScriptInv
    <3>2. raised # "interrupt"
      BY <3>1 DEF ScriptInv
    <3>. QED  BY <3>1, <3>2 DEF LeftInv, NothingIsLeft
  <2>2. CASE StartScript
    BY <2>1, <2>2 DEF StartScript
  <2>3. CASE StartIperf \/ Measure
    BY <2>1, <2>3 DEF StartIperf, Measure
  <2>4. CASE SetStop \/ NothingToStop
    BY <2>1, <2>4 DEF SetStop, NothingToStop
  <2>5. CASE JoinEnded
    <3>1. pc = "joining" /\ monitor[Stopping] # "runs" /\ UNCHANGED <<iperf, left>>
      BY <2>5 DEF JoinEnded
    <3>2. monitor[Stopping] \in Good
      BY <2>1, <3>1, JoinsStarted DEF MonitorInv, Good, State
    <3>3. NextMonitor
      BY <2>5, <3>2 DEF JoinEnded, Good
    <3>. QED  BY <2>1, <3>1, <3>3 DEF NextMonitor
  <2>6. CASE JoinTimeout
    <3>1. NextMonitor /\ UNCHANGED <<iperf, left>>
      BY <2>6 DEF JoinTimeout
    <3>. QED  BY <2>1, <3>1 DEF NextMonitor
  <2>7. CASE StopIperf
    BY <2>1, <2>7 DEF StopIperf
  <2>8. CASE Exit
    BY <2>1, <2>8 DEF Exit
  <2>9. CASE \/ Configure \/ Record \/ StartMonitor \/ NetStop \/ StartSuite \/ Refuse
             \/ PingEnds \/ (\E s \in Scenario : StartAlone(s))
             \/ \E m \in Monitor : MonitorStops(m) \/ MonitorFails(m)
    <3>1. /\ UNCHANGED <<iperf, left>>
          /\ pc' = pc \/ pc \notin {"measure", "stopping", "joining", "stop iperf"}
      BY <2>9 DEF Configure, Record, StartMonitor, NetStop, StartSuite, Refuse, PingEnds,
         StartAlone, MonitorStops, MonitorFails
    <3>. QED  BY <2>1, <3>1
  <2>10. CASE OrphanEnds
    BY <2>1, <2>10 DEF OrphanEnds
  <2>11. ~Interrupt /\ ~Kill
    <3>1. ~Interrupt
      <4>1. Interrupt => interrupts' = interrupts + 1
        BY DEF Interrupt
      <4>2. interrupts = 0 /\ interrupts' = 0
        BY <2>1
      <4>. QED  BY <4>1, <4>2
    <3>2. ~Kill
      BY <2>1 DEF Kill
    <3>. QED  BY <3>1, <3>2
  <2>. QED
    BY <1>1, <2>2, <2>3, <2>4, <2>5, <2>6, <2>7, <2>8, <2>9, <2>10, <2>11 DEF Next, Script
<1>2. CASE UNCHANGED vars
  BY <1>2 DEF vars, LeftInv, NothingIsLeft
<1>. QED  BY <1>1, <1>2

-----------------------------------------------------------------------------
(***************************************************************************)
(* A script that ends without an error has had no failed monitor.          *)
(***************************************************************************)

\* As long as nothing is raised, a spoilt scenario has a failed monitor, and the
\* monitors the loop has passed have ended well.
CleanInv ==
  pc # "none" /\ raised = "nothing" =>
    /\ Current \in spoilt => \E m \in Monitor : monitor[m] = "exit 1"
    /\ pc \in {"stopping", "joining"} =>
         \A j \in DOMAIN monitors : j < at => monitor[monitors[j]] \in Good
    /\ pc \in {"stop iperf", "net.stop", "exit"} =>
         \A m \in Monitor : monitor[m] \in Good \cup {"none"}

\* An error does not go away.
LEMMA RaisedStays ==
  ASSUME ScriptInv, Next, pc' # "none", raised' = "nothing"
  PROVE  (pc # "none" /\ raised = "nothing") \/ StartScript
<1>1. ControlInv
  BY DEF ScriptInv
<1>2. CASE Measure
  BY <1>1, <1>2 DEF Measure, ControlInv, Before
<1>3. CASE ~Measure /\ ~StartScript
  <2>1. raised' = raised \/ raised' # "nothing"
    BY <1>3 DEF Next, StartSuite, StartAlone, Script, Refuse, Configure,
       Record, StartMonitor, StartIperf, SetStop, NothingToStop, JoinEnded,
       JoinTimeout, StopIperf, NetStop, Exit, PingEnds, OrphanEnds, Interrupt, Kill,
       MonitorStops, MonitorFails
  <2>. QED  BY <1>3, <2>1, CurrentStays
<1>. QED  BY <1>2, <1>3

\* The fifth layer is inductive.
LEMMA CleanStep ==
  ASSUME ScriptInv, MonitorInv, ResultInv, CleanInv, [Next]_vars
  PROVE  CleanInv'
<1>1. CASE Next /\ pc' # "none" /\ raised' = "nothing" /\ StartScript
  <2>1. pc' = "configure" /\ metadata[Current] = 0 /\ UNCHANGED <<todo, spoilt>>
    BY <1>1 DEF StartScript
  <2>2. Current' \notin spoilt'
    BY <2>1 DEF ResultInv, Current
  <2>. QED  BY <2>1, <2>2 DEF CleanInv
<1>2. CASE Next /\ pc' # "none" /\ raised' = "nothing" /\ ~StartScript
  <2>1. pc # "none" /\ raised = "nothing" /\ UNCHANGED Current
    BY <1>2, RaisedStays, CurrentStays
  <2>2. ControlInv /\ monitor \in [Monitor -> State] /\ monitors \in Seq(Monitor)
    BY DEF ScriptInv, TypeOK, State, ControlInv
  <2>3. CASE StartMonitor
    <3> DEFINE m == MonitorsOf[Current][Len(monitors) + 1]
    <3>1. /\ pc = "monitors" /\ pc' \in {"monitors", "iperf"} /\ UNCHANGED spoilt
          /\ monitor' = [monitor EXCEPT ![m] = "runs"]
      BY <2>3 DEF StartMonitor
    <3>2. /\ IsInjective(MonitorsOf[Current]) /\ MonitorsOf[Current] \in Seq(Monitor)
          /\ Len(monitors) < Len(MonitorsOf[Current])
      BY <2>2, <3>1, CurrentType, MonitorListType, ScenarioAssumption DEF ScriptInv, ControlInv
    <3>3. /\ Len(monitors) + 1 \in DOMAIN MonitorsOf[Current] /\ m \in Monitor
          /\ \A j \in DOMAIN monitors : j \in DOMAIN MonitorsOf[Current] /\ j # Len(monitors) + 1
      BY <2>2, <3>2
    <3>4. \A j \in DOMAIN monitors : monitors[j] # m
      BY <2>1, <3>2, <3>3 DEF MonitorInv, IsInjective
    <3>5. monitor[m] = "none"
      BY <3>3, <3>4 DEF MonitorInv
    <3>6. \A n \in Monitor : monitor[n] = "exit 1" => monitor'[n] = "exit 1"
      BY <2>2, <3>1, <3>5
    <3>. QED  BY <2>1, <3>1, <3>6 DEF CleanInv
  <2>4. CASE MonitorsEnd
    <3>1. \A m \in Monitor : monitor[m] # "runs" => monitor'[m] = monitor[m]
      BY <2>4 DEF MonitorsEnd
    <3>2. \A j \in DOMAIN monitors : monitors[j] \in Monitor
      BY <2>2
    <3>3. Current \in spoilt' => \E m \in Monitor : monitor'[m] = "exit 1"
      <4>1. CASE \E m \in Monitor : MonitorFails(m)
        BY <2>2, <4>1 DEF MonitorFails
      <4>2. CASE ~ \E m \in Monitor : MonitorFails(m)
        <5>1. UNCHANGED spoilt
          BY <1>2, <4>2 DEF Next, StartSuite, StartAlone, Script, Refuse, StartScript,
             Configure, Record, StartMonitor, StartIperf, Measure, SetStop, NothingToStop,
             JoinEnded, JoinTimeout, StopIperf, NetStop, Exit, PingEnds, OrphanEnds,
             Interrupt, Kill, MonitorStops
        <5>. QED  BY <2>1, <3>1, <5>1 DEF CleanInv
      <4>. QED  BY <4>1, <4>2
    <3>4. ASSUME pc' \in {"stopping", "joining"}, NEW j \in DOMAIN monitors, j < at'
          PROVE  monitor'[monitors[j]] \in Good
      <4>1. CASE StartIperf \/ Measure
        BY <2>2, <3>4, <4>1 DEF StartIperf, Measure, ControlInv, Before
      <4>2. CASE JoinEnded \/ JoinTimeout
        <5>1. pc = "joining" /\ NextMonitor /\ monitor'[Stopping] \in Good
          BY <1>2, <2>1, <2>2, <3>4, <4>2, JoinsStarted DEF JoinEnded, JoinTimeout, Good
        <5>2. at' = at + 1 /\ at \in 1..Len(monitors) /\ j \in 1..Len(monitors)
          BY <3>4, <5>1, JoinsStarted, NextMonitorStep
        <5>3. j < at \/ j = at
          BY <3>4, <5>2
        <5>. QED  BY <2>1, <3>1, <3>2, <5>1, <5>3 DEF CleanInv, Good, Stopping
      <4>3. CASE ~StartIperf /\ ~Measure /\ ~JoinEnded /\ ~JoinTimeout
        <5>1. pc \in {"stopping", "joining"} /\ at' = at
          BY <1>2, <3>4, <4>3 DEF Next, StartSuite, StartAlone, Script, Refuse,
             Configure, Record, StartMonitor, SetStop, NothingToStop, StopIperf, NetStop,
             Exit, PingEnds, OrphanEnds, Interrupt, Kill, MonitorStops, MonitorFails
        <5>. QED  BY <2>1, <3>1, <3>2, <3>4, <5>1 DEF CleanInv, Good
      <4>. QED  BY <4>1, <4>2, <4>3
    <3>5. ASSUME pc' \in {"stop iperf", "net.stop", "exit"}, NEW m \in Monitor
          PROVE  monitor'[m] \in Good \cup {"none"}
      <4>1. CASE NothingToStop
        <5>1. monitors = <<>> /\ UNCHANGED monitor
          BY <4>1 DEF NothingToStop
        <5>2. monitor[m] = "none"
          <6>1. DOMAIN monitors = {}
            BY <5>1
          <6>. QED  BY <6>1 DEF MonitorInv
        <5>. QED  BY <5>1, <5>2
      <4>2. CASE JoinEnded \/ JoinTimeout
        <5>1. pc = "joining" /\ NextMonitor /\ monitor'[Stopping] \in Good
          BY <1>2, <2>1, <2>2, <3>5, <4>2, JoinsStarted DEF JoinEnded, JoinTimeout, Good
        <5>2. at = Len(monitors) /\ DOMAIN monitors = 1..Len(monitors) /\ Len(monitors) \in Nat
          BY <3>5, <5>1, JoinsStarted, NextMonitorStep
        <5>3. ASSUME NEW j \in DOMAIN monitors
              PROVE  monitor'[monitors[j]] \in Good
          <6>1. j < at \/ j = at
            BY <5>2
          <6>. QED  BY <2>1, <3>1, <3>2, <5>1, <6>1 DEF CleanInv, Good, Stopping
        <5>. QED  BY <3>1, <5>3 DEF MonitorInv
      <4>3. CASE ~NothingToStop /\ ~JoinEnded /\ ~JoinTimeout
        <5>1. pc \in {"stop iperf", "net.stop", "exit"}
          BY <1>2, <3>5, <4>3 DEF Next, StartSuite, StartAlone, Script, Refuse, StartScript,
             Configure, Record, StartMonitor, StartIperf, Measure, SetStop, StopIperf,
             NetStop, Exit, PingEnds, OrphanEnds, Interrupt, Kill, MonitorStops, MonitorFails
        <5>. QED  BY <2>1, <3>1, <5>1 DEF CleanInv, Good
      <4>. QED  BY <4>1, <4>2, <4>3
    <3>. QED  BY <2>1, <2>4, <3>3, <3>4, <3>5 DEF CleanInv, MonitorsEnd
  <2>. QED  BY <1>2, <2>3, <2>4, MonitorChange
<1>3. CASE UNCHANGED vars
  BY <1>3 DEF vars, CleanInv, Current
<1>. QED  BY <1>1, <1>2, <1>3 DEF CleanInv

-----------------------------------------------------------------------------
(***************************************************************************)
(* The suite.                                                              *)
(***************************************************************************)

\* How many scenarios of the suite are done.
Done == Len(Scenarios) - Len(todo)

\* A scenario whose results are complete and undisturbed.
Whole(s) == metadata[s] = 1 /\ s \notin spoilt

\* A suite works through its list; the scenarios it has done are whole.
SuiteInv ==
  /\ suite /\ todo # <<>> =>
       /\ Done \in Nat
       /\ \A k \in 1..Len(todo) : todo[k] = Scenarios[Done + k]
       /\ \A k \in 1..Done : Whole(Scenarios[k])
  /\ AnalysedIsWhole
  /\ analysed => pc = "none"

\* A scenario stays whole unless the script is at work on it.
LEMMA WholeStays ==
  ASSUME ScriptInv, MonitorInv, ResultInv, Next,
         NEW s \in Scenario, Whole(s), pc = "none" \/ s # Current
  PROVE  Whole(s)'
<1>1. CASE Record
  <2>1. pc = "record" /\ UNCHANGED spoilt /\ metadata' = [metadata EXCEPT ![Current] = @ + 1]
    BY <1>1 DEF Record
  <2>. QED  BY <2>1 DEF Whole, ScriptInv, TypeOK
<1>2. CASE ~Record
  BY <1>2, OnlyRecordWrites, OnlyRunningSpoil DEF Whole
<1>. QED  BY <1>1, <1>2

\* Exit code 0 says that the scenario is whole.
LEMMA ExitCode ==
  ASSUME ScriptInv, MonitorInv, ResultInv, CleanInv, pc = "exit", raised = "nothing"
  PROVE  Whole(Current)
<1>1. \A m \in Monitor : monitor[m] # "exit 1"
  BY DEF CleanInv, Good
<1>. QED  BY <1>1 DEF CleanInv, ResultInv, Whole

\* The last layer is inductive.
LEMMA SuiteStep ==
  ASSUME ScriptInv, MonitorInv, ResultInv, CleanInv, SuiteInv, [Next]_vars
  PROVE  SuiteInv'
<1>0. /\ todo \in Seq(Scenario) /\ (pc # "none" => todo # <<>> /\ Current \in Scenario)
      /\ Scenarios \in Seq(Scenario) /\ IsInjective(Scenarios)
      /\ Scenario = {Scenarios[k] : k \in 1..Len(Scenarios)}
  <2>1. Scenarios \in Seq(Scenario) /\ IsInjective(Scenarios)
    BY ScenarioAssumption
  <2>2. DOMAIN Scenarios = 1..Len(Scenarios)
    BY <2>1
  <2>3. Scenario = {Scenarios[k] : k \in 1..Len(Scenarios)}
    BY <2>2 DEF Scenario, ToSet
  <2>4. todo \in Seq(Scenario) /\ (pc # "none" => todo # <<>> /\ Current \in Scenario)
    BY CurrentType DEF ScriptInv, TypeOK
  <2>. QED  BY <2>1, <2>3, <2>4
<1>1. CASE StartSuite
  <2>1. /\ todo = <<>> /\ UNCHANGED <<analysed, metadata, spoilt, pc>>
        /\ todo' \in {<<>>, Scenarios}
    BY <1>1 DEF StartSuite
  <2>2. AnalysedIsWhole' /\ (analysed' => pc' = "none")
    BY <2>1 DEF SuiteInv, AnalysedIsWhole
  <2>3. ASSUME todo' # <<>>
        PROVE  /\ Done' = 0
               /\ \A k \in 1..Len(todo') : todo'[k] = Scenarios[Done' + k]
               /\ 1..Done' = {}
    <3>1. todo' = Scenarios /\ Len(Scenarios) \in Nat
      BY <1>0, <2>1, <2>3
    <3>2. Done' = 0
      BY <3>1 DEF Done
    <3>. QED  BY <3>1, <3>2
  <2>. QED  BY <2>2, <2>3 DEF SuiteInv
<1>2. CASE Exit
  <2>1. pc = "exit" /\ pc' = "none" /\ UNCHANGED <<suite, metadata, spoilt>>
        /\ todo' = (IF raised = "nothing" THEN Tail(todo) ELSE <<>>)
        /\ analysed' = (analysed \/ (suite /\ raised = "nothing" /\ Len(todo) = 1))
    BY <1>2 DEF Exit
  <2>2. analysed = FALSE
    BY <2>1 DEF SuiteInv, ScriptInv, TypeOK
  <2>3. ASSUME suite, raised = "nothing"
        PROVE  /\ Done \in Nat /\ Len(todo) \in Nat \ {0}
               /\ Len(Scenarios) = Done + Len(todo)
               /\ \A k \in 1..Len(todo) : todo[k] = Scenarios[Done + k]
               /\ \A k \in 1..(Done + 1) : Whole(Scenarios[k])
    <3>1. /\ Done \in Nat /\ \A k \in 1..Len(todo) : todo[k] = Scenarios[Done + k]
          /\ \A k \in 1..Done : Whole(Scenarios[k])
      BY <1>0, <2>1, <2>3 DEF SuiteInv
    <3>2. Len(todo) \in Nat \ {0}
      BY <1>0, <2>1, EmptySeq
    <3>3. Len(Scenarios) = Done + Len(todo)
      BY <1>0, <3>2 DEF Done
    <3>4. Current = Scenarios[Done + 1]
      <4>1. todo[1] = Scenarios[Done + 1]
        BY <3>1, <3>2
      <4>2. Current = todo[1]
        BY <1>0, <2>1 DEF Current
      <4>. QED  BY <4>1, <4>2
    <3>5. Whole(Scenarios[Done + 1])
      BY <2>1, <2>3, <3>4, ExitCode
    <3>. QED  BY <3>1, <3>2, <3>3, <3>5
  <2>4. ASSUME analysed'
        PROVE  \A s \in Scenario : Whole(s)
    <3>1. suite /\ raised = "nothing" /\ Len(todo) = 1
      BY <2>1, <2>2, <2>4
    <3>2. 1..Len(Scenarios) = 1..(Done + 1)
      BY <2>3, <3>1
    <3>. QED  BY <1>0, <2>3, <3>1, <3>2
  <2>5. ASSUME suite', todo' # <<>>
        PROVE  /\ Done' \in Nat
               /\ \A k \in 1..Len(todo') : todo'[k] = Scenarios[Done' + k]
               /\ \A k \in 1..Done' : Whole(Scenarios[k])
    <3>1. suite /\ raised = "nothing" /\ todo' = Tail(todo)
      BY <2>1, <2>5
    <3>2. /\ Len(todo') = Len(todo) - 1
          /\ \A k \in 1..Len(todo') : todo'[k] = todo[k + 1]
      BY <1>0, <2>1, <3>1, HeadTailProperties
    <3>3. Done' = Done + 1
      BY <1>0, <2>3, <3>1, <3>2 DEF Done
    <3>4. \A k \in 1..Len(todo') : todo'[k] = Scenarios[Done' + k]
      <4>. TAKE k \in 1..Len(todo')
      <4>1. k + 1 \in 1..Len(todo) /\ Done + (k + 1) = Done' + k
        BY <2>3, <3>1, <3>2, <3>3
      <4>. QED  BY <2>3, <3>1, <3>2, <4>1
    <3>5. Done \in Nat /\ \A k \in 1..(Done + 1) : Whole(Scenarios[k])
      BY <2>3, <3>1
    <3>6. Done' \in Nat
      BY <3>3, <3>5
    <3>7. \A k \in 1..Done' : Whole(Scenarios[k])
      BY <3>3, <3>5
    <3>. QED  BY <3>4, <3>6, <3>7
  <2>6. \A s : Whole(s)' <=> Whole(s)
    BY <2>1 DEF Whole
  <2>. QED  BY <2>1, <2>4, <2>5, <2>6 DEF SuiteInv, AnalysedIsWhole, Whole
<1>3. CASE Refuse \/ Kill \/ \E s \in Scenario : StartAlone(s)
  <2>1. /\ UNCHANGED <<analysed, metadata, spoilt>> /\ pc' \in {pc, "none"}
        /\ todo' = <<>> \/ suite' = FALSE
    BY <1>3 DEF Refuse, Kill, StartAlone
  <2>. QED  BY <2>1 DEF SuiteInv, AnalysedIsWhole
<1>4. CASE Next /\ ~StartSuite /\ ~Exit /\ ~Refuse /\ ~Kill /\ \A s \in Scenario : ~StartAlone(s)
  <2>1. UNCHANGED <<suite, todo, analysed>>
    BY <1>4 DEF Next, Script, StartScript, Configure, Record, StartMonitor, StartIperf,
       Measure, SetStop, NothingToStop, JoinEnded, JoinTimeout, StopIperf, NetStop,
       PingEnds, OrphanEnds, Interrupt, MonitorStops, MonitorFails
  <2>2. Done' = Done
    BY <2>1 DEF Done
  <2>3. ASSUME suite, todo # <<>>, NEW k \in 1..Done
        PROVE  Whole(Scenarios[k])'
    <3>1. Whole(Scenarios[k])
      BY <2>3 DEF SuiteInv
    <3>2. /\ Len(todo) \in Nat \ {0} /\ Done \in Nat /\ Len(Scenarios) = Done + Len(todo)
          /\ todo[1] = Scenarios[Done + 1]
      <4>1. Len(todo) \in Nat \ {0}
        BY <1>0, <2>3, EmptySeq
      <4>2. Done \in Nat /\ todo[1] = Scenarios[Done + 1]
        BY <2>3, <4>1 DEF SuiteInv
      <4>. QED  BY <1>0, <4>1, <4>2 DEF Done
    <3>3. k \in DOMAIN Scenarios /\ Done + 1 \in DOMAIN Scenarios /\ k # Done + 1
      BY <1>0, <3>2
    <3>4. Scenarios[k] # Current
      <4>1. Scenarios[k] # Scenarios[Done + 1]
        BY <1>0, <3>3 DEF IsInjective
      <4>2. Current = todo[1]
        BY <1>0, <2>3 DEF Current
      <4>. QED  BY <3>2, <4>1, <4>2
    <3>5. Scenarios[k] \in Scenario
      BY <1>0, <3>3
    <3>. QED  BY <1>4, <3>1, <3>4, <3>5, WholeStays
  <2>4. ASSUME analysed
        PROVE  pc' = "none" /\ \A s \in Scenario : Whole(s)'
    <3>1. pc = "none" /\ \A s \in Scenario : Whole(s)
      BY <2>4 DEF SuiteInv, AnalysedIsWhole, Whole
    <3>2. ~StartScript
      BY <1>0, <3>1, HeadTailProperties, SMTT(30) DEF StartScript, Current, Whole
    <3>3. pc' = "none"
      BY <1>4, <3>1, <3>2, CurrentStays
    <3>. QED  BY <1>4, <3>1, <3>3, WholeStays
  <2>. QED  BY <2>1, <2>2, <2>3, <2>4 DEF SuiteInv, AnalysedIsWhole, Whole
<1>5. CASE UNCHANGED vars
  BY <1>5 DEF vars, SuiteInv, AnalysedIsWhole, Done, Whole
<1>. QED  BY <1>1, <1>2, <1>3, <1>4, <1>5

-----------------------------------------------------------------------------
(***************************************************************************)
(* The theorems.                                                           *)
(***************************************************************************)

\* The inductive invariant.
Inv ==
  ScriptInv /\ MonitorInv /\ ResultInv /\ LeftInv /\ CleanInv /\ SuiteInv

\* All layers hold in every state.
THEOREM InvHolds == Spec => []Inv
<1>1. Init => Inv
  <2>. SUFFICES ASSUME Init PROVE Inv
    OBVIOUS
  <2>1. MonitorInv /\ ResultInv
    BY DEF Init, MonitorInv, ResultInv, ResultsAreKept
  <2>2. LeftInv /\ CleanInv
    BY DEF Init, LeftInv, NothingIsLeft, CleanInv
  <2>3. SuiteInv
    BY DEF Init, SuiteInv, AnalysedIsWhole
  <2>. QED  BY <2>1, <2>2, <2>3, ScriptInit DEF Inv
<1>2. Inv /\ [Next]_vars => Inv'
  BY ScriptStep, MonitorStep, ResultStep, LeftStep, CleanStep, SuiteStep DEF Inv
<1>. QED  BY <1>1, <1>2, PTL DEF Spec

\* README.md:22: no result is ever overwritten.
THEOREM ResultsAreNeverOverwritten == Spec => []ResultsAreKept
<1>1. Inv => ResultsAreKept
  BY DEF Inv, ResultInv
<1>. QED  BY <1>1, InvHolds, PTL

\* What analyze_results.py is started on is complete and undisturbed.
THEOREM AnalysisIsOfWholeResults == Spec => []AnalysedIsWhole
<1>1. Inv => AnalysedIsWhole
  BY DEF Inv, SuiteInv
<1>. QED  BY <1>1, InvHolds, PTL

\* Without a failed monitor and without Ctrl-C the scripts stop all they
\* started, whatever else fails, but for the ping of a terminated monitor.
THEOREM ScriptsCleanUp == Spec => []NothingIsLeft
<1>1. Inv => NothingIsLeft
  BY DEF Inv, LeftInv
<1>. QED  BY <1>1, InvHolds, PTL

-----------------------------------------------------------------------------
(***************************************************************************)
(* What lets a script come to its end: it goes through its places in one   *)
(* direction, and the last of them waits for no monitor.                   *)
(***************************************************************************)

\* What the clean-up has passed no longer runs, unless a monitor failed.
EndInv ==
  pc # "none" =>
    /\ \A m \in Monitor : monitor[m] = "exit 1" => Current \in spoilt
    /\ pc \in {"stopping", "joining"} =>
         \A j \in DOMAIN monitors : j < at => monitor[monitors[j]] # "runs"
    /\ pc = "stop iperf" => Running = {}
    /\ pc \in {"net.stop", "exit"} => Running = {} \/ Current \in spoilt

\* A step that starts no monitor keeps the part of EndInv about failures, and
\* what does not run stays so.
LEMMA FailuresStaySpoilt ==
  ASSUME ScriptInv, EndInv, Next, MonitorsEnd, pc # "none", pc' # "none"
  PROVE  /\ \A m \in Monitor : monitor'[m] = "exit 1" => Current' \in spoilt'
         /\ \A m \in Monitor : monitor[m] # "runs" => monitor'[m] # "runs"
         /\ Running = {} => Running' = {}
         /\ Current \in spoilt => Current' \in spoilt'
<1>1. UNCHANGED Current /\ spoilt \subseteq spoilt'
  BY CurrentStays, SpoiltStays
<1>2. \A m \in Monitor : monitor[m] # "runs" => monitor'[m] # "runs"
  BY DEF MonitorsEnd
<1>3. \A m \in Monitor : monitor'[m] = "exit 1" => Current' \in spoilt'
  BY <1>1 DEF MonitorsEnd, EndInv
<1>. QED  BY <1>1, <1>2, <1>3 DEF Running

\* A loop that is through has seen every monitor end.
LEMMA JoinPasses ==
  ASSUME ScriptInv, MonitorInv, EndInv, Next, JoinTimeout \/ (JoinEnded /\ NextMonitor)
  PROVE  EndInv'
<1>1. /\ pc = "joining" /\ NextMonitor /\ monitor'[Stopping] # "runs"
      /\ ~StartScript /\ ~StartMonitor
  <2>1. CASE JoinTimeout
    <3>1. /\ pc = "joining" /\ NextMonitor
          /\ monitor' = [monitor EXCEPT ![Stopping] = "exit -15"]
      BY <2>1 DEF JoinTimeout
    <3>2. monitor \in [Monitor -> State]
      BY DEF ScriptInv, TypeOK, State
    <3>. QED  BY <3>1, <3>2, JoinsStarted DEF StartScript, StartMonitor
  <2>2. CASE JoinEnded /\ NextMonitor
    BY <2>2 DEF JoinEnded, StartScript, StartMonitor
  <2>. QED  BY <2>1, <2>2
<1>2. MonitorsEnd
  BY <1>1, MonitorChange
<1>3. /\ pc' \in {"stopping", "stop iperf"}
      /\ pc' = "stopping" => at' = at + 1
      /\ pc' = "stop iperf" => at = Len(monitors)
  BY <1>1, JoinsStarted, NextMonitorStep
<1>4. /\ monitors' = monitors /\ DOMAIN monitors = 1..Len(monitors)
      /\ Len(monitors) \in Nat /\ at \in 1..Len(monitors)
      /\ \A j \in DOMAIN monitors : monitors[j] \in Monitor
  <2>1. monitors \in Seq(Monitor)
    BY DEF ScriptInv, TypeOK
  <2>2. \A j \in DOMAIN monitors : monitors[j] \in Monitor
    BY <2>1
  <2>. QED  BY <1>1, <1>2, <2>2, JoinsStarted DEF MonitorsEnd
<1>5. ASSUME NEW j \in DOMAIN monitors, j <= at
      PROVE  monitor'[monitors[j]] # "runs"
  <2>1. j < at \/ j = at
    BY <1>4, <1>5
  <2>2. CASE j = at
    BY <1>1, <2>2 DEF Stopping
  <2>3. CASE j < at
    <3>1. monitor[monitors[j]] # "runs"
      BY <1>1, <2>3 DEF EndInv
    <3>. QED  BY <1>2, <1>4, <3>1 DEF MonitorsEnd
  <2>. QED  BY <2>1, <2>2, <2>3
<1>6. pc' = "stopping" => \A j \in DOMAIN monitors' : j < at' => monitor'[monitors'[j]] # "runs"
  BY <1>3, <1>4, <1>5
<1>7. \A j \in DOMAIN monitors : j <= Len(monitors)
  BY <1>4
<1>8. pc' = "stop iperf" => Running' = {}
  <2>. SUFFICES ASSUME pc' = "stop iperf", NEW m \in Monitor
                PROVE  monitor'[m] # "runs"
    BY DEF Running
  <2>1. CASE monitor[m] = "none"
    BY <1>2, <2>1 DEF MonitorsEnd
  <2>2. CASE monitor[m] # "none"
    <3>1. PICK j \in DOMAIN monitors : monitors[j] = m
      BY <2>2 DEF MonitorInv
    <3>2. j <= at
      <4>1. at = Len(monitors)
        BY <1>3
      <4>. QED  BY <1>7, <3>1, <4>1, Zenon
    <3>. QED  BY <1>5, <3>1, <3>2
  <2>. QED  BY <2>1, <2>2
<1>9. \A m \in Monitor : monitor'[m] = "exit 1" => Current' \in spoilt'
  BY <1>1, <1>2, <1>3, FailuresStaySpoilt
<1>. QED  BY <1>3, <1>6, <1>8, <1>9 DEF EndInv

\* The clean-up is inductive.
LEMMA EndStep ==
  ASSUME ScriptInv, MonitorInv, EndInv, [Next]_vars
  PROVE  EndInv'
<1>0. /\ ControlInv /\ RunningInv /\ monitor \in [Monitor -> State]
      /\ monitors \in Seq(Monitor)
  BY DEF ScriptInv, TypeOK, State, ControlInv
<1>1. CASE Next /\ pc' # "none" /\ StartScript
  <2>1. pc' = "configure" /\ \A m \in Monitor : monitor'[m] = "none"
    BY <1>1 DEF StartScript
  <2>. QED  BY <2>1 DEF EndInv
<1>2. CASE Next /\ pc' # "none" /\ StartMonitor
  <2> DEFINE m == MonitorsOf[Current][Len(monitors) + 1]
  <2>1. /\ pc # "none" /\ pc' \in {"monitors", "iperf"}
        /\ monitor' = [monitor EXCEPT ![m] = "runs"]
    BY <1>2 DEF StartMonitor
  <2>2. UNCHANGED Current /\ spoilt \subseteq spoilt'
    BY <1>2, CurrentStays, SpoiltStays
  <2>3. \A n \in Monitor : monitor'[n] = "exit 1" => monitor[n] = "exit 1"
    BY <1>0, <2>1
  <2>. QED  BY <2>1, <2>2, <2>3 DEF EndInv
<1>3. CASE Next /\ pc' # "none" /\ MonitorsEnd /\ ~StartScript /\ ~StartMonitor
  <2>1. pc # "none"
    BY <1>3, CurrentStays
  <2>2. /\ \A m \in Monitor : monitor'[m] = "exit 1" => Current' \in spoilt'
        /\ \A m \in Monitor : monitor[m] # "runs" => monitor'[m] # "runs"
        /\ Running = {} => Running' = {}
        /\ Current \in spoilt => Current' \in spoilt'
    BY <1>3, <2>1, FailuresStaySpoilt
  <2>3. monitors' = monitors /\ \A j \in DOMAIN monitors : monitors[j] \in Monitor
    <3>1. \A j \in DOMAIN monitors : monitors[j] \in Monitor
      BY <1>0
    <3>. QED  BY <1>3, <3>1 DEF MonitorsEnd
  <2>4. monitors = <<>> => Running = {}
    <3>1. monitors = <<>> => DOMAIN monitors = {}
      OBVIOUS
    <3>2. \A m \in Monitor : monitor[m] = "runs" => \E j \in DOMAIN monitors : monitors[j] = m
      BY DEF MonitorInv
    <3>. QED  BY <3>1, <3>2 DEF Running
  <2>5. CASE Configure \/ Record
    <3>1. monitors = <<>> /\ pc' \in {"record", "monitors", "net.stop", "exit"}
      BY <1>0, <2>5 DEF Configure, Record, ControlInv
    <3>. QED  BY <2>2, <2>4, <3>1 DEF EndInv
  <2>6. CASE StartIperf \/ Measure
    <3>1. pc' \in {"measure", "stopping"} /\ at' = 1
      BY <1>0, <2>6 DEF StartIperf, Measure, ControlInv, Before
    <3>2. \A j \in DOMAIN monitors' : ~(j < at')
      BY <1>0, <2>3, <3>1
    <3>. QED  BY <2>2, <3>1, <3>2 DEF EndInv
  <2>7. CASE NothingToStop
    <3>1. monitors = <<>> /\ pc' = "stop iperf"
      BY <2>7 DEF NothingToStop
    <3>. QED  BY <2>2, <2>4, <3>1 DEF EndInv
  <2>8. CASE JoinEnded /\ monitor[Stopping] \notin Good
    <3>1. /\ pc = "joining" /\ pc' = "net.stop" /\ monitor[Stopping] # "runs"
      BY <2>8 DEF JoinEnded, Good
    <3>2. monitor[Stopping] = "exit 1"
      BY <2>8, <3>1, JoinsStarted DEF State, Good
    <3>3. Current \in spoilt
      BY <3>1, <3>2, JoinsStarted DEF EndInv
    <3>. QED  BY <2>2, <3>1, <3>3 DEF EndInv
  <2>9. CASE JoinTimeout \/ (JoinEnded /\ monitor[Stopping] \in Good)
    <3>1. JoinTimeout \/ (JoinEnded /\ NextMonitor)
      BY <2>9 DEF JoinEnded, Good
    <3>. QED  BY <1>3, <3>1, JoinPasses
  <2>10. CASE Interrupt
    <3>1. Running' = {} /\ at' = 1
      BY <2>10 DEF Interrupt, Running
    <3>2. \A j \in DOMAIN monitors' : ~(j < at')
      BY <1>0, <2>3, <3>1
    <3>. QED  BY <2>2, <3>1, <3>2 DEF EndInv
  <2>11. CASE StopIperf \/ NetStop
    <3>1. pc' \in {"net.stop", "exit"} /\ pc \in {"stop iperf", "net.stop"}
      BY <2>11 DEF StopIperf, NetStop
    <3>. QED  BY <2>1, <2>2, <3>1 DEF EndInv
  <2>12. CASE SetStop \/ PingEnds \/ OrphanEnds
              \/ \E m \in Monitor : MonitorStops(m) \/ MonitorFails(m)
    <3>1. /\ at' = at
          /\ pc' = pc \/ (pc = "stopping" /\ pc' = "joining")
      BY <2>12 DEF SetStop, PingEnds, OrphanEnds, MonitorStops, MonitorFails
    <3>2. pc' \in {"stopping", "joining"} => pc \in {"stopping", "joining"}
      BY <3>1
    <3>3. ASSUME pc' \in {"stopping", "joining"}, NEW j \in DOMAIN monitors', j < at'
          PROVE  monitor'[monitors'[j]] # "runs"
      BY <2>1, <2>2, <2>3, <3>1, <3>2, <3>3 DEF EndInv
    <3>4. /\ pc' = "stop iperf" => Running' = {}
          /\ pc' \in {"net.stop", "exit"} => Running' = {} \/ Current' \in spoilt'
      BY <2>1, <2>2, <3>1 DEF EndInv
    <3>. QED  BY <2>2, <3>3, <3>4 DEF EndInv
  <2>13. ~StartSuite /\ ~Refuse /\ ~Exit /\ ~Kill /\ \A s \in Scenario : ~StartAlone(s)
    BY <1>0, <1>3, <2>1 DEF ControlInv, StartSuite, Refuse, Exit, Kill, StartAlone
  <2>. QED
    BY <1>3, <2>5, <2>6, <2>7, <2>8, <2>9, <2>10, <2>11, <2>12, <2>13 DEF Next, Script
<1>4. CASE Next /\ pc' = "none"
  BY <1>4 DEF EndInv
<1>5. CASE UNCHANGED vars
  BY <1>5 DEF vars, EndInv, Running, Current
<1>. QED  BY <1>1, <1>2, <1>3, <1>4, <1>5, MonitorChange

\* The interpreter, which joins the monitors before it exits, waits for none,
\* unless one of the monitors of this scenario has failed: also after errors,
\* timeouts and Ctrl-C (experiment.py ends every monitor it started).
THEOREM ExitWaitsForNobody ==
  Spec => [](pc = "exit" /\ Current \notin spoilt => Running = {})
<1>1. Init => EndInv
  BY DEF Init, EndInv
<1>2. Inv /\ EndInv /\ [Next]_vars => EndInv'
  BY EndStep DEF Inv
<1>3. EndInv => (pc = "exit" /\ Current \notin spoilt => Running = {})
  BY DEF EndInv
<1>. QED  BY <1>1, <1>2, <1>3, InvHolds, PTL DEF Spec

\* How many monitors the scenario has.
Most == Len(MonitorsOf[Current])

\* How far the script has got.
Way ==
  CASE pc = "configure"  -> 0
    [] pc = "record"     -> 1
    [] pc = "monitors"   -> 2 + Len(monitors)
    [] pc = "iperf"      -> 2 + Most
    [] pc = "measure"    -> 3 + Most
    [] pc = "stopping"   -> 4 + Most + 2 * at
    [] pc = "joining"    -> 5 + Most + 2 * at
    [] pc = "stop iperf" -> 7 + 3 * Most
    [] pc = "net.stop"   -> 8 + 3 * Most
    [] OTHER             -> 9 + 3 * Most

\* The way of a script has an end.
WayEnds == pc # "none" => Way \in 0 .. (9 + 3 * Most)

\* What the numbers are.
LEMMA WayTypes ==
  ASSUME ScriptInv, MonitorInv, pc # "none"
  PROVE  /\ Most \in Nat \ {0} /\ Len(monitors) \in Nat /\ Len(monitors) <= Most
         /\ at \in Nat \ {0} /\ (at = 1 \/ at <= Len(monitors)) /\ at <= Most
         /\ pc = "joining" => at \in 1..Len(monitors)
         /\ pc = "monitors" => Len(monitors) < Most
<1>1. /\ MonitorsOf[Current] \in Seq(Monitor) /\ Len(MonitorsOf[Current]) > 0
  BY CurrentType, MonitorListType DEF ScriptInv
<1>2. /\ monitors \in Seq(Monitor) /\ (at = 1 \/ at \in DOMAIN monitors)
      /\ pc = "joining" => at \in DOMAIN monitors
      /\ pc = "monitors" => Len(monitors) < Most
  BY DEF ScriptInv, ControlInv, Most
<1>3. Len(monitors) <= Most
  BY DEF MonitorInv, Most
<1>4. Most \in Nat \ {0} /\ Len(monitors) \in Nat /\ DOMAIN monitors = 1..Len(monitors)
  BY <1>1, <1>2 DEF Most
<1>. QED  BY <1>2, <1>3, <1>4

\* A script that goes on has more of its way behind it.
LEMMA WayGrows ==
  ASSUME ScriptInv, MonitorInv, Next, Script, pc # "none", pc' # "none"
  PROVE  Way' > Way
<1>1. UNCHANGED Current
  BY CurrentStays
<1>2. Most' = Most
  BY <1>1 DEF Most
<1>3. /\ Most \in Nat \ {0} /\ Len(monitors) \in Nat /\ Len(monitors) <= Most
      /\ at \in Nat \ {0} /\ at <= Most
      /\ pc = "joining" => at \in 1..Len(monitors)
      /\ pc = "monitors" => Len(monitors) < Most
  BY WayTypes
<1>4. CASE Configure
  <2>1. pc = "configure" /\ pc' \in {"record", "net.stop", "exit"}
    BY <1>4 DEF Configure
  <2>2. Way = 0 /\ Way' \in {1, 8 + 3 * Most, 9 + 3 * Most}
    BY <1>2, <2>1 DEF Way
  <2>. QED  BY <1>3, <2>2
<1>5. CASE Record
  <2>1. pc = "record" /\ pc' \in {"monitors", "net.stop"} /\ UNCHANGED monitors
    BY <1>5 DEF Record
  <2>2. Way = 1 /\ Way' \in {2 + Len(monitors), 8 + 3 * Most}
    BY <1>2, <2>1 DEF Way
  <2>. QED  BY <1>3, <2>2
<1>6. CASE StartMonitor
  <2>1. /\ pc = "monitors"
        /\ monitors' = Append(monitors, MonitorsOf[Current][Len(monitors) + 1])
        /\ pc' = IF Len(monitors') = Most THEN "iperf" ELSE pc
    BY <1>6 DEF StartMonitor, Most
  <2>2. Len(monitors') = Len(monitors) + 1
    <3>1. monitors \in Seq(Monitor) /\ MonitorsOf[Current] \in Seq(Monitor)
      BY <2>1, CurrentType, MonitorListType DEF ScriptInv, TypeOK
    <3>2. MonitorsOf[Current][Len(monitors) + 1] \in Monitor
      BY <1>3, <2>1, <3>1 DEF Most
    <3>. QED  BY <2>1, <3>1, <3>2, AppendProperties
  <2>3. Way = 2 + Len(monitors) /\ Way' = 2 + Len(monitors')
    BY <1>2, <2>1 DEF Way
  <2>. QED  BY <1>3, <2>2, <2>3
<1>7. CASE StartIperf \/ Measure
  <2>1. /\ pc \in {"iperf", "measure"} /\ pc' \in {"measure", "stopping"} /\ pc' # pc
        /\ at' = at
    BY <1>7 DEF StartIperf, Measure
  <2>2. /\ Way = 2 + Most \/ (Way = 3 + Most /\ pc' = "stopping")
        /\ Way' = 4 + Most + 2 * at \/ (Way' = 3 + Most /\ pc' = "measure")
    BY <1>2, <2>1 DEF Way
  <2>. QED  BY <1>3, <2>2
<1>8. CASE SetStop
  <2>1. pc = "stopping" /\ pc' = "joining" /\ at' = at
    BY <1>8 DEF SetStop
  <2>2. Way = 4 + Most + 2 * at /\ Way' = 5 + Most + 2 * at
    BY <1>2, <2>1 DEF Way
  <2>. QED  BY <1>3, <2>2
<1>9. CASE NothingToStop
  <2>1. pc = "stopping" /\ pc' = "stop iperf"
    BY <1>9 DEF NothingToStop
  <2>2. Way = 4 + Most + 2 * at /\ Way' = 7 + 3 * Most
    BY <1>2, <2>1 DEF Way
  <2>. QED  BY <1>3, <2>2
<1>10. CASE JoinEnded \/ JoinTimeout
  <2>1. pc = "joining" /\ (pc' = "net.stop" \/ NextMonitor)
    BY <1>10 DEF JoinEnded, JoinTimeout
  <2>2. Way = 5 + Most + 2 * at
    BY <2>1 DEF Way
  <2>3. CASE pc' = "net.stop"
    <3>1. Way' = 8 + 3 * Most
      BY <1>2, <2>3 DEF Way
    <3>. QED  BY <1>3, <2>2, <3>1
  <2>4. CASE NextMonitor
    <3>1. /\ pc' \in {"stopping", "stop iperf"}
          /\ pc' = "stopping" => at' = at + 1
      BY <1>3, <2>1, <2>4, NextMonitorStep
    <3>2. Way' = 7 + 3 * Most \/ (Way' = 4 + Most + 2 * at' /\ at' = at + 1)
      BY <1>2, <3>1 DEF Way
    <3>. QED  BY <1>3, <2>2, <3>2
  <2>. QED  BY <2>1, <2>3, <2>4
<1>11. CASE StopIperf \/ NetStop
  <2>1. \/ pc = "stop iperf" /\ pc' = "net.stop"
        \/ pc = "net.stop" /\ pc' = "exit"
    BY <1>11 DEF StopIperf, NetStop
  <2>2. \/ Way = 7 + 3 * Most /\ Way' = 8 + 3 * Most
        \/ Way = 8 + 3 * Most /\ Way' = 9 + 3 * Most
    BY <1>2, <2>1 DEF Way
  <2>. QED  BY <1>3, <2>2
<1>12. ~Refuse /\ ~StartScript /\ ~Exit
  BY DEF Refuse, StartScript, Exit
<1>. QED
  BY <1>4, <1>5, <1>6, <1>7, <1>8, <1>9, <1>10, <1>11, <1>12 DEF Script

\* The script goes its way in one direction, and there is an end to it: only
\* Ctrl-C can set it back, MaxInterrupts times at most.  What the monitors, the
\* pings and the user do otherwise leaves it where it is.
THEOREM ScriptsGoForward ==
  Spec => /\ []WayEnds
          /\ [][pc # "none" /\ pc' # "none" =>
                  IF Script THEN Way' > Way ELSE Way' = Way \/ interrupts' > interrupts]_vars
<1> DEFINE Forward ==
  pc # "none" /\ pc' # "none" =>
    IF Script THEN Way' > Way ELSE Way' = Way \/ interrupts' > interrupts
<1>1. Inv => WayEnds
  <2>. SUFFICES ASSUME Inv, pc # "none" PROVE Way \in 0 .. (9 + 3 * Most)
    BY DEF WayEnds
  <2>1. /\ Most \in Nat \ {0} /\ Len(monitors) \in Nat /\ Len(monitors) <= Most
        /\ at \in Nat \ {0} /\ at <= Most
    BY WayTypes DEF Inv
  <2>2. Way \in {0, 1, 2 + Len(monitors), 2 + Most, 3 + Most, 4 + Most + 2 * at,
                 5 + Most + 2 * at, 7 + 3 * Most, 8 + 3 * Most, 9 + 3 * Most}
    BY DEF Way
  <2>. QED  BY <2>1, <2>2
<1>2. ASSUME Inv, Next, pc # "none", pc' # "none"
      PROVE  IF Script THEN Way' > Way ELSE Way' = Way \/ interrupts' > interrupts
  <2>1. CASE Next /\ Script
    BY <1>2, <2>1, WayGrows DEF Inv
  <2>2. CASE Next /\ ~Script
    <3>1. UNCHANGED Current
      BY <1>2, <2>2, CurrentStays DEF Inv
    <3>2. ~StartSuite /\ ~Kill /\ \A s \in Scenario : ~StartAlone(s)
      BY <1>2 DEF Inv, ScriptInv, ControlInv, StartSuite, Kill, StartAlone
    <3>3. CASE Interrupt
      <4>1. interrupts \in Nat /\ interrupts' = interrupts + 1
        BY <1>2, <2>2, <3>3, CounterTypes DEF Inv, ScriptInv, Interrupt
      <4>. QED  BY <2>2, <4>1
    <3>4. CASE ~Interrupt
      <4>1. UNCHANGED <<pc, monitors, at>>
        BY <2>2, <3>2, <3>4 DEF Next, PingEnds, OrphanEnds, MonitorStops, MonitorFails
      <4>2. Way' = Way
        BY <3>1, <4>1 DEF Way, Most
      <4>. QED  BY <2>2, <4>2
    <3>. QED  BY <3>3, <3>4
  <2>. QED  BY <1>2, <2>1, <2>2
<1>3. Inv /\ [Next]_vars => [Forward]_vars
  BY <1>2
<1> HIDE DEF Forward
<1>4. Spec => [][Forward]_vars
  BY <1>3, InvHolds, PTL DEF Spec
<1>5. Spec => []WayEnds
  BY <1>1, InvHolds, PTL
<1>. QED  BY <1>4, <1>5 DEF Forward
=============================================================================
