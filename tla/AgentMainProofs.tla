--------------------------- MODULE AgentMainProofs ---------------------------
(***************************************************************************)
(* Proofs about the life of the agent's process (AgentMain), for every set *)
(* of configuration files and clients and any number of starts.            *)
(***************************************************************************)
EXTENDS AgentMain, TLAPS

LEMMA SettingsInRange ==
  ASSUME NEW p \in Nat \ {0}, NEW q \in Nat \ {0}, NEW m \in BOOLEAN,
         NEW a \in {"plain", "odd"}, NEW j \in BOOLEAN, NEW u \in Nat \ {0}
  PROVE  [port |-> p, metricsPort |-> q, metrics |-> m, bridgeIP |-> a, useJailer |-> j,
          jailUID |-> u] \in Configs
  BY DEF Configs

(* The settings in force are what the rest of the agent relies on.         *)
LEMMA LoadSound == ASSUME NEW f \in Files PROVE Load(f) \in Configs
<1> DEFINE p == OrDefault(f.port, 0, 50051)
           q == OrDefault(f.metricsPort, 0, 9090)
           a == OrDefault(f.bridgeIP, Unset, "plain")
           j == OrDefault(f.useJailer, Unset, TRUE)
           u == OrDefault(f.jailUID, 0, 1000)
<1>1. /\ f.port \in Nat /\ f.metricsPort \in Nat /\ f.jailUID \in Nat
      /\ f.bridgeIP \in {Unset, "plain", "odd"}
      /\ f.useJailer \in BOOLEAN \cup {Unset}
  BY DEF Files
<1>2. f.metrics \in BOOLEAN
  BY DEF Files
<1>3. j \in BOOLEAN
  <2>1. CASE f.useJailer = Unset
    BY <2>1, Zenon DEF OrDefault
  <2>2. CASE f.useJailer # Unset
    BY <1>1, <2>2, Zenon DEF OrDefault
  <2> QED
    BY <2>1, <2>2
<1>4. /\ p \in Nat \ {0} /\ q \in Nat \ {0} /\ u \in Nat \ {0}
      /\ a \in {"plain", "odd"}
  BY <1>1 DEF OrDefault
<1>5. Load(f) = [port |-> p, metricsPort |-> q, metrics |-> f.metrics, bridgeIP |-> a,
                 useJailer |-> j, jailUID |-> u]
  BY DEF Load
<1> HIDE DEF p, q, a, j, u
<1>6. [port |-> p, metricsPort |-> q, metrics |-> f.metrics, bridgeIP |-> a,
       useJailer |-> j, jailUID |-> u] \in Configs
  BY <1>2, <1>3, <1>4, SettingsInRange
<1> QED
  BY <1>5, <1>6, Zenon

----------------------------------------------------------------------------
(* What EnsureBridgeExists and EnsureVMsDir have achieved at each step.    *)
AfterMkdir == {"metrics", "listen"} \cup Listening
AfterAddr == {"mkdir"} \cup AfterMkdir
AfterUp == {"showAddr", "addAddr"} \cup AfterAddr

StartInv ==
  /\ pc \in AfterUp => bridge = "up"
  /\ pc \in AfterAddr => "ours" \in addrs \/ unread \/ "lookalike" \in addrs
  /\ pc \in AfterMkdir => vmsDir

(* GracefulStop has waited for every call, and none comes after it.        *)
DrainInv == stopper = "done" => NoCalls

MainInv == TypeOK /\ StartInv /\ DrainInv

LEMMA InitMain == ASSUME Init PROVE MainInv
<1>1. /\ faulty \in BOOLEAN /\ unread \in BOOLEAN /\ sig \in BOOLEAN
  BY Zenon DEF Init
<1>2. TypeOK
  BY <1>1, StartsAssumption DEF Init, NetInit, TypeOK
<1>3. StartInv
  BY DEF Init, StartInv, AfterUp, AfterAddr, AfterMkdir, Listening
<1>4. DrainInv
  BY DEF Init, DrainInv
<1> QED
  BY <1>2, <1>3, <1>4 DEF MainInv

(* A process that has ended satisfies the invariant.                       *)
LEMMA EndKeeps ==
  ASSUME MainInv, NEW s \in {"ok", "error", "signal", "crash"}, End(s) PROVE MainInv'
<1>1. TypeOK'
  BY DEF End, MainInv, TypeOK, NetTypeOK, hostVars, netVars
<1>2. StartInv'
  BY DEF End, StartInv, AfterUp, AfterAddr, AfterMkdir, Listening
<1>3. DrainInv'
  BY DEF End, DrainInv
<1> QED
  BY <1>1, <1>2, <1>3 DEF MainInv

(* The steps of the start.                                                 *)
LEMMA StartKeeps ==
  ASSUME MainInv,
         \/ Start \/ StartFails \/ LoadConfig \/ ShowBridge \/ AddBridge \/ UpBridge
         \/ ShowAddr \/ AddAddr \/ MakeVMsDir \/ StartMetrics \/ Listen \/ GoServe \/ Notify
  PROVE MainInv'
<1> USE DEF MainInv, TypeOK, NetTypeOK, StartInv, DrainInv, NoCalls, Goto, AfterUp, AfterAddr,
            AfterMkdir, Listening, StartSteps, hostVars, netVars, runVars, goVars
<1>1. CASE Start
  BY <1>1, StartsAssumption DEF Start
<1>2. CASE StartFails
  BY <1>2, EndKeeps DEF StartFails
<1>3. CASE LoadConfig
  <2>1. conf' \in Configs
    BY <1>3, LoadSound, ConfigFilesAssumption DEF LoadConfig
  <2> QED
    BY <1>3, <2>1 DEF LoadConfig
<1>4. CASE ShowBridge
  BY <1>4 DEF ShowBridge
<1>5. CASE AddBridge
  BY <1>5 DEF AddBridge, LinkAdd
<1>6. CASE UpBridge
  BY <1>6 DEF UpBridge, LinkSetUp
<1>7. CASE ShowAddr
  <2>1. CASE UNCHANGED unread
    BY <1>7, <2>1 DEF ShowAddr, AddrFound
  <2>2. CASE unread' = TRUE /\ pc' = "mkdir"
    <3>1. unread' /\ unread' \in BOOLEAN
      BY <2>2, Zenon
    <3>2. /\ pc = "showAddr"
          /\ UNCHANGED <<bridge, addrs, vmsDir, file, faulty, conf, exit, metrics, serve,
                        stopper, timer, starts, sig, call>>
      BY <1>7 DEF ShowAddr
    <3>3. TypeOK'
      BY <2>2, <3>1, <3>2
    <3>4. StartInv' /\ DrainInv'
      BY <2>2, <3>1, <3>2
    <3> QED
      BY <3>3, <3>4
  <2> QED
    BY <1>7, <2>1, <2>2 DEF ShowAddr
<1>8. CASE AddAddr
  <2>1. "ours" \in addrs' /\ addrs' \in SUBSET {"ours", "lookalike"}
    BY <1>8 DEF AddAddr, AddrAdd, AddrExists
  <2> QED
    BY <1>8, <2>1 DEF AddAddr, AddrAdd
<1>9. CASE MakeVMsDir
  BY <1>9 DEF MakeVMsDir
<1>10. CASE StartMetrics
  BY <1>10 DEF StartMetrics
<1>11. CASE Listen
  <2>1. CASE SamePort /\ metrics = "listening"
    BY <1>11, <2>1, EndKeeps DEF Listen
  <2>2. CASE ~(SamePort /\ metrics = "listening")
    <3>1. /\ pc = "listen" /\ pc' = "serve"
          /\ UNCHANGED <<bridge, addrs, vmsDir, file, faulty, conf, exit, unread, metrics,
                        serve, stopper, timer, starts, sig, call>>
      BY <1>11, <2>2, Zenon DEF Listen, Goto, goVars, netVars
    <3>2. TypeOK'
      BY <3>1
    <3>3. StartInv' /\ DrainInv'
      BY <3>1
    <3> QED
      BY <3>2, <3>3
  <2> QED
    BY <2>1, <2>2
<1>12. CASE GoServe
  BY <1>12 DEF GoServe
<1>13. CASE Notify
  BY <1>13 DEF Notify
<1> QED
  BY <1>1, <1>2, <1>3, <1>4, <1>5, <1>6, <1>7, <1>8, <1>9, <1>10, <1>11, <1>12, <1>13

(* Serving and the end.                                                    *)
LEMMA ServeKeeps ==
  ASSUME MainInv,
         \/ TakeError \/ TakeSignal \/ Drained \/ ForceStop \/ MetricsListen \/ GracefulStop
         \/ TimerExpires \/ ServeFails \/ Signal \/ Crash \/ Heal
         \/ \E c \in Clients : CallEnds(c) \/ \E kind \in {"unary", "watch"} : Accept(c, kind)
  PROVE MainInv'
<1> USE DEF MainInv, TypeOK, NetTypeOK, StartInv, DrainInv, NoCalls, AfterUp, AfterAddr,
            AfterMkdir, Listening, StartSteps, hostVars, netVars, runVars, goVars
<1>1. CASE TakeError
  BY <1>1, EndKeeps DEF TakeError
<1>2. CASE TakeSignal
  BY <1>2 DEF TakeSignal
<1>3. CASE Drained
  BY <1>3, EndKeeps DEF Drained
<1>4. CASE ForceStop
  BY <1>4, EndKeeps DEF ForceStop
<1>5. CASE MetricsListen
  BY <1>5 DEF MetricsListen
<1>6. CASE GracefulStop
  BY <1>6 DEF GracefulStop
<1>7. CASE TimerExpires
  BY <1>7 DEF TimerExpires
<1>8. CASE ServeFails
  BY <1>8 DEF ServeFails
<1>9. CASE Signal
  <2>1. CASE pc \in StartSteps
    BY <1>9, <2>1, EndKeeps DEF Signal
  <2>2. CASE pc \notin StartSteps
    <3>1. sig' = TRUE /\ UNCHANGED <<hostVars, runVars, pc, starts, goVars, call>>
      BY <1>9, <2>2, Zenon DEF Signal
    <3>2. sig' \in BOOLEAN
      BY <3>1, Zenon
    <3>3. UNCHANGED <<bridge, addrs, vmsDir, file, faulty, conf, exit, unread, metrics, serve,
                      stopper, timer, pc, starts, call>>
      BY <3>1
    <3> QED
      BY <3>2, <3>3
  <2> QED
    BY <2>1, <2>2
<1>10. CASE Crash
  BY <1>10, EndKeeps DEF Crash
<1>11. CASE Heal
  <2>1. faulty' \in BOOLEAN
    BY <1>11, Zenon DEF Heal
  <2> QED
    BY <1>11, <2>1 DEF Heal
<1>12. ASSUME NEW c \in Clients, CallEnds(c) PROVE MainInv'
  BY <1>12 DEF CallEnds
<1>13. ASSUME NEW c \in Clients, NEW kind \in {"unary", "watch"}, Accept(c, kind)
       PROVE MainInv'
  BY <1>13 DEF Accept
<1> QED
  BY <1>1, <1>2, <1>3, <1>4, <1>5, <1>6, <1>7, <1>8, <1>9, <1>10, <1>11, <1>12, <1>13

(* The invariant of the process: types, what the start has done so far,    *)
(* and that GracefulStop is done only when no call is under way.           *)
THEOREM MainInvariant == Spec => []MainInv
<1>1. Init => MainInv
  BY InitMain
<1>2. MainInv /\ [Next]_vars => MainInv'
  <2>1. ASSUME MainInv, Next PROVE MainInv'
    BY <2>1, StartKeeps, ServeKeeps DEF Next, Run
  <2>2. ASSUME MainInv, UNCHANGED vars PROVE MainInv'
    BY <2>2 DEF MainInv, TypeOK, NetTypeOK, StartInv, DrainInv, NoCalls, vars, hostVars,
                netVars, runVars, goVars
  <2> QED
    BY <2>1, <2>2
<1> QED
  BY <1>1, <1>2, PTL DEF Spec

(* Every variable keeps its type; the configuration in force always has    *)
(* its defaults (config.go).                                               *)
THEOREM MainTypes == Spec => []TypeOK
<1>1. MainInv => TypeOK
  BY DEF MainInv
<1> QED
  BY <1>1, MainInvariant, PTL

(* An agent that listens has its directory (EnsureVMsDir) and a bridge     *)
(* that is up, after any history of starts.  The bridge has the address as *)
(* well, but in the two cases in which EnsureBridgeExists adds none: it    *)
(* could not read the addresses (unread), or one that is there contains    *)
(* ours as text (lookalike).                                               *)
THEOREM HostIsReady == Spec => []HostReady
<1>1. MainInv => HostReady
  BY DEF MainInv, StartInv, HostReady, AfterUp, AfterAddr, AfterMkdir
<1> QED
  BY <1>1, MainInvariant, PTL

(* Between the signal and the end of run() calls are cut by the timeout or *)
(* a crash alone (the select of main.go).                                  *)
THEOREM CallsCutOnlyAfterTimeout == Spec => CutOnlyAfterTimeout
<1>1. ASSUME MainInv, Next,
             pc = "drain", pc' = "down", ~NoCalls, exit' # "crash"
      PROVE timer = "expired"
  <2> USE <1>1
  <2>1. ~Drained
    BY DEF MainInv, DrainInv, Drained
  <2>2. CASE ForceStop
    BY <2>2 DEF ForceStop
  <2>3. ~Crash
    BY DEF Crash, End
  <2>4. ~(\/ Start \/ StartFails \/ LoadConfig \/ ShowBridge \/ AddBridge \/ UpBridge
          \/ ShowAddr \/ AddAddr \/ MakeVMsDir \/ StartMetrics \/ Listen \/ GoServe \/ Notify
          \/ TakeError \/ TakeSignal \/ Signal)
    BY DEF Start, StartFails, LoadConfig, ShowBridge, AddBridge, UpBridge, ShowAddr, AddAddr,
           MakeVMsDir, StartMetrics, Listen, GoServe, Notify, TakeError, TakeSignal, Signal,
           StartSteps
  <2>5. ~(\/ MetricsListen \/ GracefulStop \/ TimerExpires \/ ServeFails \/ Heal
          \/ \E c \in Clients : CallEnds(c) \/ \E kind \in {"unary", "watch"} : Accept(c, kind))
    BY DEF MetricsListen, GracefulStop, TimerExpires, ServeFails, Heal, CallEnds, Accept
  <2> QED
    BY <2>1, <2>2, <2>3, <2>4, <2>5 DEF Next, Run
<1>2. MainInv /\ [Next]_vars =>
        [pc = "drain" /\ pc' = "down" /\ ~NoCalls /\ exit' # "crash" => timer = "expired"]_vars
  BY <1>1 DEF vars
<1> QED
  BY <1>2, MainInvariant, PTL DEF Spec, CutOnlyAfterTimeout
=============================================================================
