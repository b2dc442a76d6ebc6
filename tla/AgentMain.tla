------------------------------ MODULE AgentMain ------------------------------
(***************************************************************************)
(* The life of the agent's process: run() of src/cmd/fc-agent/main.go with *)
(* NewServer, NewManager and the metrics server, started again and again   *)
(* by the service manager or an administrator on a host where commands may *)
(* fail, and stopped by signals while calls are under way.                 *)
(*                                                                         *)
(*  load -> showBridge [-> addBridge] -> upBridge -> showAddr [-> addAddr] *)
(*       -> mkdir -> metrics -> listen -> serve -> notify -> select        *)
(*       -> drain -> down                                                  *)
(*                                                                         *)
(* Beside run() there are the goroutines of Serve, of the metrics server   *)
(* and of GracefulStop.  A call is a unary request or a stream that        *)
(* watches events: either ends when it likes.                              *)
(***************************************************************************)
EXTENDS AgentConfig, HostNetwork

CONSTANTS ConfigFiles, \* the files an administrator may have written
          Clients,     \* each has one call under way at a time
          MaxStarts    \* bound on the starts of the process

ASSUME ConfigFilesAssumption == ConfigFiles \subseteq Files
ASSUME StartsAssumption == MaxStarts \in Nat

VARIABLES
  faulty,    \* commands, files and ports of the host may still fail
  vmsDir,    \* the directory of the VMs exists
  file, conf,
  pc, starts,
  exit,      \* how the last process ended; "none" while one runs
  metrics,   \* the metrics goroutine
  serve,     \* the Serve goroutine; "failed": its error is in errChan
  sig,       \* a signal is in sigChan
  stopper,   \* the GracefulStop goroutine
  timer,     \* the 30 seconds
  call,      \* per client
  unread     \* this process could not read the addresses of the bridge

hostVars == <<netVars, vmsDir, file, faulty>>
runVars == <<conf, exit, unread>>
goVars == <<metrics, serve, stopper, timer>>
vars == <<hostVars, runVars, pc, starts, goVars, sig, call>>

StartSteps == {"load", "showBridge", "addBridge", "upBridge", "showAddr", "addAddr",
               "mkdir", "metrics", "listen", "serve", "notify"}
Listening == {"serve", "notify", "select", "drain"}

TypeOK ==
  /\ NetTypeOK
  /\ vmsDir \in BOOLEAN /\ file \in ConfigFiles /\ faulty \in BOOLEAN
  /\ pc \in StartSteps \cup {"select", "drain", "down"}
  /\ IF pc \in {"load", "down"} THEN conf = Unset ELSE conf \in Configs
  /\ exit \in {"none", "ok", "error", "signal", "crash"} /\ unread \in BOOLEAN
  /\ (exit = "none") <=> (pc # "down")
  /\ starts \in 0 .. MaxStarts
  /\ metrics \in {"none", "starting", "listening", "failed"}
  /\ serve \in {"none", "serving", "failed"}
  /\ stopper \in {"none", "starting", "waiting", "done"}
  /\ timer \in {"off", "running", "expired"}
  /\ sig \in BOOLEAN /\ call \in [Clients -> {"none", "unary", "watch"}]

Init ==
  /\ NetInit
  /\ vmsDir \in BOOLEAN /\ file \in ConfigFiles /\ faulty = TRUE
  /\ conf = Unset /\ pc = "down" /\ starts = 0 /\ exit = "ok" /\ unread = FALSE
  /\ metrics = "none" /\ serve = "none" /\ stopper = "none" /\ timer = "off"
  /\ sig = FALSE /\ call = [c \in Clients |-> "none"]

NoCalls == \A c \in Clients : call[c] = "none"

(* The process ends, and every goroutine and call with it.                 *)
End(status) ==
  /\ conf' = Unset /\ pc' = "down" /\ exit' = status /\ unread' = FALSE
  /\ metrics' = "none" /\ serve' = "none" /\ stopper' = "none" /\ timer' = "off"
  /\ sig' = FALSE /\ call' = [c \in Clients |-> "none"]
  /\ UNCHANGED <<hostVars, starts>>

Goto(label) ==
  /\ pc' = label
  /\ UNCHANGED <<starts, exit, goVars, sig, call, vmsDir, file, faulty>>

----------------------------------------------------------------------------
(* The start.                                                              *)

(* The service manager restarts a process that failed; an administrator    *)
(* starts it after any end (external).                                     *)
Start ==
  /\ pc = "down"
  /\ starts < MaxStarts
  /\ pc' = "load" /\ starts' = starts + 1 /\ exit' = "none"
  /\ UNCHANGED <<hostVars, conf, unread, goVars, sig, call>>

(* A step of the start that fails ends the process with an error, but for  *)
(* the two "show" commands, which fail in ShowBridge and ShowAddr.         *)
StartFails ==
  /\ \/ faulty /\ pc \in {"load", "addBridge", "upBridge", "addAddr", "mkdir", "listen"}
     \/ pc = "addBridge" /\ bridge # "absent"     \* ShowBridge failed
  /\ End("error")

LoadConfig ==
  /\ pc = "load"
  /\ conf' = Load(file)
  /\ Goto("showBridge")
  /\ UNCHANGED <<netVars, unread>>

(* Deviation: a bridge that exists is taken to be ready.                   *)
ShowBridgeOnly ==
  /\ pc = "showBridge"
  /\ \/ bridge # "absent" /\ Goto("mkdir")
     \/ (bridge = "absent" \/ faulty) /\ Goto("addBridge")
  /\ UNCHANGED <<netVars, conf, unread>>

ShowBridge ==
  /\ pc = "showBridge"
  /\ \/ bridge # "absent" /\ Goto("upBridge")
     \/ (bridge = "absent" \/ faulty) /\ Goto("addBridge")
  /\ UNCHANGED <<netVars, conf, unread>>

AddBridge == pc = "addBridge" /\ LinkAdd /\ Goto("upBridge") /\ UNCHANGED <<conf, unread>>

UpBridge == pc = "upBridge" /\ LinkSetUp /\ Goto("showAddr") /\ UNCHANGED <<conf, unread>>

(* When the addresses cannot be read, none is added.                       *)
ShowAddr ==
  /\ pc = "showAddr"
  /\ \/ Goto(IF AddrFound(conf.bridgeIP) THEN "mkdir" ELSE "addAddr") /\ UNCHANGED unread
     \/ faulty /\ Goto("mkdir") /\ unread' = TRUE
  /\ UNCHANGED <<netVars, conf>>

(* Deviation: an address that is there already is an error.                *)
AddAddrStrict ==
  /\ pc = "addAddr"
  /\ \/ AddrAdd /\ Goto("mkdir") /\ UNCHANGED <<conf, unread>>
     \/ AddrExists /\ End("error")

AddAddr ==
  /\ pc = "addAddr"
  /\ AddrAdd \/ (AddrExists /\ UNCHANGED netVars)
  /\ Goto("mkdir")
  /\ UNCHANGED <<conf, unread>>

MakeVMsDir ==
  /\ pc = "mkdir"
  /\ vmsDir' = TRUE
  /\ pc' = "metrics"
  /\ UNCHANGED <<netVars, file, faulty, runVars, starts, goVars, sig, call>>

StartMetrics ==
  /\ pc = "metrics"
  /\ metrics' = IF conf.metrics THEN "starting" ELSE "none"
  /\ pc' = "listen"
  /\ UNCHANGED <<hostVars, runVars, starts, serve, stopper, timer, sig, call>>

SamePort == conf.port = conf.metricsPort

(* The metrics goroutine: an error is only logged.                         *)
MetricsListen ==
  /\ metrics = "starting"
  /\ \/ ~(SamePort /\ pc \in Listening) /\ metrics' = "listening"
     \/ (faulty \/ (SamePort /\ pc \in Listening)) /\ metrics' = "failed"
  /\ UNCHANGED <<hostVars, runVars, pc, starts, serve, stopper, timer, sig, call>>

Listen ==
  /\ pc = "listen"
  /\ IF SamePort /\ metrics = "listening"
       THEN End("error")
       ELSE Goto("serve") /\ UNCHANGED <<netVars, conf, unread>>

GoServe ==
  /\ pc = "serve"
  /\ serve' = "serving"
  /\ pc' = "notify"
  /\ UNCHANGED <<hostVars, runVars, starts, metrics, stopper, timer, sig, call>>

Notify == pc = "notify" /\ Goto("select") /\ UNCHANGED <<netVars, conf, unread>>

----------------------------------------------------------------------------
(* Serving, and the end.                                                   *)

(* Clients and the gRPC server (external).  The listener is closed by      *)
(* GracefulStop, not by the signal.                                        *)
Accept(c, kind) ==
  /\ serve = "serving" /\ stopper \in {"none", "starting"}
  /\ call[c] = "none"
  /\ call' = [call EXCEPT ![c] = kind]
  /\ UNCHANGED <<hostVars, runVars, pc, starts, goVars, sig>>

CallEnds(c) ==
  /\ call[c] # "none"
  /\ call' = [call EXCEPT ![c] = "none"]
  /\ UNCHANGED <<hostVars, runVars, pc, starts, goVars, sig>>

(* Serve returns an error: it cannot accept connections any more.          *)
ServeFails ==
  /\ serve = "serving" /\ stopper = "none" /\ faulty
  /\ serve' = "failed"
  /\ UNCHANGED <<hostVars, runVars, pc, starts, metrics, stopper, timer, sig, call>>

(* SIGTERM or SIGINT kills a process that has not called signal.Notify;    *)
(* sigChan keeps one signal and drops more (external).                     *)
Signal ==
  /\ pc # "down"
  /\ IF pc \in StartSteps
       THEN End("signal")
       ELSE sig' = TRUE /\ UNCHANGED <<hostVars, runVars, pc, starts, goVars, call>>

TakeError == pc = "select" /\ serve = "failed" /\ End("error")

TakeSignal ==
  /\ pc = "select"
  /\ sig
  /\ sig' = FALSE /\ pc' = "drain" /\ stopper' = "starting" /\ timer' = "running"
  /\ UNCHANGED <<hostVars, runVars, starts, metrics, serve, call>>

(* GracefulStop stops accepting calls, then waits for those under way.     *)
GracefulStop ==
  /\ \/ stopper = "starting" /\ stopper' = "waiting"
     \/ stopper = "waiting" /\ NoCalls /\ stopper' = "done"
  /\ UNCHANGED <<hostVars, runVars, pc, starts, metrics, serve, timer, sig, call>>

TimerExpires ==
  /\ timer = "running"
  /\ timer' = "expired"
  /\ UNCHANGED <<hostVars, runVars, pc, starts, metrics, serve, stopper, sig, call>>

(* Deviation: run() does not wait for GracefulStop.                        *)
DrainedEarly == pc = "drain" /\ stopper \in {"waiting", "done"} /\ End("ok")

Drained == pc = "drain" /\ stopper = "done" /\ End("ok")

(* Deviation: run() waits for GracefulStop alone.                          *)
ForceStopNever == FALSE /\ UNCHANGED vars

ForceStop == pc = "drain" /\ timer = "expired" /\ End("ok")

(* A panic, or the process is killed (external).                           *)
Crash == pc # "down" /\ End("crash")

(* Whatever was wrong with the host is put right (external).               *)
Heal ==
  /\ faulty
  /\ faulty' = FALSE
  /\ UNCHANGED <<netVars, vmsDir, file, runVars, pc, starts, goVars, sig, call>>

Run ==
  \/ StartFails \/ LoadConfig \/ ShowBridge \/ AddBridge \/ UpBridge \/ ShowAddr \/ AddAddr
  \/ MakeVMsDir \/ StartMetrics \/ Listen \/ GoServe \/ Notify
  \/ TakeError \/ TakeSignal \/ Drained \/ ForceStop

Next ==
  \/ Start \/ Run \/ MetricsListen \/ GracefulStop \/ TimerExpires
  \/ ServeFails \/ Signal \/ Crash \/ Heal
  \/ \E c \in Clients : CallEnds(c) \/ \E kind \in {"unary", "watch"} : Accept(c, kind)

Spec == Init /\ [][Next]_vars

(* run() and the stop goroutine are scheduled, and time passes.  Nothing   *)
(* makes a call end, a client go, a host heal or anybody start the agent.  *)
Fairness == WF_vars(Run) /\ WF_vars(GracefulStop) /\ WF_vars(TimerExpires)

FairSpec == Spec /\ Fairness

----------------------------------------------------------------------------
(* An agent that listens has its directory and a bridge that is up and has *)
(* the address, whatever earlier starts left half done: but for addresses  *)
(* it could not read, or took for its own.                                 *)
HostReady ==
  pc \in Listening =>
    /\ vmsDir
    /\ bridge = "up"
    /\ "ours" \in addrs \/ unread \/ "lookalike" \in addrs

(* Once a signal has been taken, calls are cut only by the timeout or by a *)
(* crash; in particular a call accepted after the signal is waited for.    *)
CutOnlyAfterTimeout ==
  [][pc = "drain" /\ pc' = "down" /\ ~NoCalls /\ exit' # "crash" => timer = "expired"]_vars

(* A signal that the agent takes ends it, though a client watches for ever *)
(* or CreateVM does not return.                                            *)
ShutdownEnds == pc = "select" /\ sig ~> pc = "down"

(* On a host where nothing fails a start comes to serve, wherever earlier  *)
(* ones failed or died: unless it is told to stop or dies again.  One that *)
(* has been given one port for two servers may also end with an error; it  *)
(* does not stay half-way.                                                 *)
StartSucceeds ==
  pc = "load" /\ ~faulty ~>
    \/ pc = "select"
    \/ exit \in {"signal", "crash"}
    \/ exit = "error" /\ Load(file).port = Load(file).metricsPort
=============================================================================
