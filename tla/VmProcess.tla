------------------------------ MODULE VmProcess ------------------------------
(***************************************************************************)
(* The Firecracker processes the agent starts, one per incarnation of a VM *)
(* (src/internal/firecracker/process.go and jailer.go), and the API socket *)
(* file each of them binds.                                                *)
(*                                                                         *)
(* An incarnation stands for one VMProcess value: the VM id fixes the      *)
(* directory of its socket file, so two incarnations of one VM share the   *)
(* file's path and never the process.  A process is                        *)
(*   none      not started,                                                *)
(*   starting  cmd.Start returned, the API socket is not bound yet,        *)
(*   running   listening on the socket file it bound,                      *)
(*   killed    SIGKILL sent: it runs no more code but has not exited,      *)
(*   zombie    exited, cmd.Wait has not returned,                          *)
(*   reaped    cmd.Wait returned: every later Signal call is an error.     *)
(***************************************************************************)
EXTENDS VmIdentity

VARIABLES vmOf,       \* incarnation -> the VM id it was created for, or None
          proc,       \* incarnation -> state of its process
          sock,       \* directory -> the incarnation that bound the socket file in it
          logOpen     \* incarnations whose VMProcess.LogFile is open

processVars == <<vmOf, proc, sock, logOpen>>

ProcStates == {"none", "starting", "running", "killed", "zombie", "reaped"}
Alive == {"starting", "running"}

ProcessTypeOK ==
  /\ vmOf \in [Incs -> VmIds \cup {None}]
  /\ proc \in [Incs -> ProcStates]
  /\ sock \in [Paths -> Incs \cup {None}]
  /\ logOpen \in SUBSET Incs

ProcessInit ==
  /\ vmOf = [i \in Incs |-> None]
  /\ proc = [i \in Incs |-> "none"]
  /\ sock = [p \in Paths |-> None]
  /\ logOpen = {}

(* What Process.Signal(0) answers: a zombie still accepts the signal, only *)
(* a process that cmd.Wait has reaped does not.                            *)
SignalSucceeds(i) == proc[i] \in {"starting", "running", "killed", "zombie"}
IsRunning(i) == SignalSucceeds(i)

----------------------------------------------------------------------------
(* Starting.  A socket file left at the path is removed before the process *)
(* is started; a failure is met before that removal or after it.           *)
(* StartJailedProcess closes its log file before it returns, so only the   *)
(* direct mode hands an open one to the VMProcess.                         *)
StartProcess(i) ==
  /\ proc' = [proc EXCEPT ![i] = "starting"]
  /\ sock' = [sock EXCEPT ![SockPath(vmOf[i])] = None]
  /\ logOpen' = IF UseJailer THEN logOpen ELSE logOpen \cup {i}

StartProcessFails(i) ==
  /\ \/ sock' = sock
     \/ sock' = [sock EXCEPT ![SockPath(vmOf[i])] = None]
  /\ UNCHANGED <<proc, logOpen>>

(* waitForSocket looks for any file at the path.                           *)
SocketExists(i) == sock[SockPath(vmOf[i])] # None

(* Deviation: the process is left to itself.                               *)
AbandonStartNoKill(i) ==
  /\ logOpen' = logOpen \ {i}
  /\ UNCHANGED <<proc, sock>>

(* Deviation: the log file stays open.                                     *)
AbandonStartKeepsLog(i) ==
  /\ proc' = [proc EXCEPT ![i] = IF @ \in Alive THEN "killed" ELSE @]
  /\ UNCHANGED <<logOpen, sock>>

(* Giving up on the socket: the process is killed and the log closed, the  *)
(* file stays.                                                             *)
AbandonStart(i) ==
  /\ proc' = [proc EXCEPT ![i] = IF @ \in Alive THEN "killed" ELSE @]
  /\ logOpen' = logOpen \ {i}
  /\ UNCHANGED sock

----------------------------------------------------------------------------
(* The process itself (external): bind fails on a path that exists, an     *)
(* exit can come at any time, and leaves the socket file behind.           *)
BindSocket(i) ==
  /\ proc[i] = "starting"
  /\ sock[SockPath(vmOf[i])] = None
  /\ proc' = [proc EXCEPT ![i] = "running"]
  /\ sock' = [sock EXCEPT ![SockPath(vmOf[i])] = i]
  /\ UNCHANGED logOpen

ExitProcess(i) ==
  /\ proc[i] \in Alive \cup {"killed"}
  /\ proc' = [proc EXCEPT ![i] = "zombie"]
  /\ UNCHANGED <<sock, logOpen>>

(* The goroutine that waits for the process.                               *)
ReapProcess(i) ==
  /\ proc[i] = "zombie"
  /\ proc' = [proc EXCEPT ![i] = "reaped"]
  /\ UNCHANGED <<sock, logOpen>>

----------------------------------------------------------------------------
(* Signalling.  Process.Kill fails on a reaped process and on no other.    *)
SigKill(i) ==
  /\ proc' = [proc EXCEPT ![i] = IF @ \in Alive THEN "killed" ELSE @]
  /\ UNCHANGED <<sock, logOpen>>

(* The tail of Kill and of Stop: close the log, remove whatever file is at *)
(* the socket path.                                                        *)
CloseAndRemove(i) ==
  /\ logOpen' = logOpen \ {i}
  /\ sock' = [sock EXCEPT ![SockPath(vmOf[i])] = None]
  /\ UNCHANGED proc
=============================================================================
