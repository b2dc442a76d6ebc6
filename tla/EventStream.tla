----------------------------- MODULE EventStream -----------------------------
(***************************************************************************)
(* The event stream of the agent (EventStream of                           *)
(* src/internal/agent/server.go, WatchVMEvents of handlers.go): watchers   *)
(* subscribe under an id made from the clock, publishers broadcast into    *)
(* their bounded channels.                                                 *)
(*                                                                         *)
(* A watcher is a client's slot for a stream; each stream it opens makes a *)
(* channel, named by the watcher too.  An event is known by its VM id, and *)
(* None is what a receive from a closed channel gives.  The read lock is   *)
(* held over the whole of Broadcast, by the publishers in "sending"; what  *)
(* is done under the write lock is one step.  As in sync.RWMutex, a writer *)
(* that waits holds up later readers.                                      *)
(***************************************************************************)
EXTENDS Naturals, Sequences

CONSTANTS Watchers, Publishers, VmIds, None,
          AllVms,     \* the filter of a watcher that names no VM
          Stamps,     \* subscriber ids, one per reading of the clock
          Cap         \* capacity of a channel (100)

ASSUME NoneAssumption == None \notin VmIds \cup Watchers \cup Stamps /\ AllVms \notin VmIds
ASSUME CapAssumption == Cap \in Nat \ {0}

VARIABLES
  subscribers,          \* id -> the watcher whose channel it names, or None
  buf, closed,          \* per channel: its content; the closed ones
  wpc, sid, filter, ev, \* per watcher: where it is, its id, filter, event in hand
  gone,                 \* watchers whose client has disconnected
  ppc, cur, tried,      \* per publisher: where it is, its event, channels tried
  due,                  \* watchers subscribed when its broadcast began
  crashed,              \* a goroutine panicked: the agent is gone
  collided              \* history: a stream got the id of one still open

chanVars == <<subscribers, buf, closed>>
watcherVars == <<wpc, sid, filter, ev, gone>>
publisherVars == <<ppc, cur, tried, due>>
vars == <<chanVars, watcherVars, publisherVars, crashed, collided>>

EventTypeOK ==
  /\ subscribers \in [Stamps -> Watchers \cup {None}]
  /\ buf \in [Watchers -> Seq(VmIds)]
  /\ \A w \in Watchers : Len(buf[w]) <= Cap
  /\ closed \in SUBSET Watchers
  /\ wpc \in [Watchers -> {"idle", "start", "subLock", "loop", "send", "leave", "unsubLock"}]
  /\ sid \in [Watchers -> Stamps \cup {None}]
  /\ filter \in [Watchers -> VmIds \cup {AllVms}]
  /\ ev \in [Watchers -> VmIds \cup {None}]
  /\ gone \in SUBSET Watchers
  /\ ppc \in [Publishers -> {"idle", "sending"}]
  /\ cur \in [Publishers -> VmIds \cup {None}]
  /\ tried \in [Publishers -> SUBSET Watchers]
  /\ due \in [Publishers -> SUBSET Watchers]
  /\ crashed \in BOOLEAN
  /\ collided \in BOOLEAN

Init ==
  /\ subscribers = [s \in Stamps |-> None]
  /\ buf = [w \in Watchers |-> <<>>]
  /\ closed = {}
  /\ wpc = [w \in Watchers |-> "idle"]
  /\ sid = [w \in Watchers |-> None]
  /\ filter = [w \in Watchers |-> AllVms]
  /\ ev = [w \in Watchers |-> None]
  /\ gone = {}
  /\ ppc = [p \in Publishers |-> "idle"]
  /\ cur = [p \in Publishers |-> None]
  /\ tried = [p \in Publishers |-> {}]
  /\ due = [p \in Publishers |-> {}]
  /\ crashed = FALSE
  /\ collided = FALSE

NoReader == \A p \in Publishers : ppc[p] = "idle"
NoWriterWaits == \A w \in Watchers : wpc[w] \notin {"subLock", "unsubLock"}
Subscribed == {w \in Watchers : wpc[w] \in {"loop", "send", "leave", "unsubLock"}}

----------------------------------------------------------------------------
(* WatchVMEvents.                                                          *)

(* The id is the time, which two streams may read the same.                *)
StartWatch(w, s, f) ==
  /\ wpc[w] = "idle"
  /\ wpc' = [wpc EXCEPT ![w] = "start"]
  /\ sid' = [sid EXCEPT ![w] = s]
  /\ filter' = [filter EXCEPT ![w] = f]
  /\ collided' = (collided \/ \E u \in Watchers : sid[u] = s)
  /\ UNCHANGED <<chanVars, ev, gone, publisherVars, crashed>>

(* es.mu.Lock() is called; the caller then waits for the readers.          *)
AwaitLock(w) ==
  /\ \/ wpc[w] = "start" /\ wpc' = [wpc EXCEPT ![w] = "subLock"]
     \/ wpc[w] = "leave" /\ wpc' = [wpc EXCEPT ![w] = "unsubLock"]
  /\ UNCHANGED <<chanVars, sid, filter, ev, gone, publisherVars, crashed, collided>>

(* A new channel, under an id whatever it named before.                    *)
Subscribe(w) ==
  /\ wpc[w] = "subLock"
  /\ NoReader
  /\ subscribers' = [subscribers EXCEPT ![sid[w]] = w]
  /\ buf' = [buf EXCEPT ![w] = <<>>]
  /\ closed' = closed \ {w}
  /\ wpc' = [wpc EXCEPT ![w] = "loop"]
  /\ UNCHANGED <<sid, filter, ev, gone, publisherVars, crashed, collided>>

(* An event of another VM is skipped.                                      *)
Receive(w) ==
  /\ wpc[w] = "loop"
  /\ buf[w] # <<>>
  /\ buf' = [buf EXCEPT ![w] = Tail(@)]
  /\ IF filter[w] \in {AllVms, Head(buf[w])}
       THEN /\ wpc' = [wpc EXCEPT ![w] = "send"]
            /\ ev' = [ev EXCEPT ![w] = Head(buf[w])]
       ELSE UNCHANGED <<wpc, ev>>
  /\ UNCHANGED <<subscribers, closed, sid, filter, gone, publisherVars, crashed, collided>>

(* A closed channel gives a nil event; the filter reads its VmId.          *)
ReceiveNil(w) ==
  /\ wpc[w] = "loop"
  /\ w \in closed
  /\ buf[w] = <<>>
  /\ IF filter[w] = AllVms
       THEN wpc' = [wpc EXCEPT ![w] = "send"] /\ UNCHANGED crashed
       ELSE crashed' = TRUE /\ UNCHANGED wpc
  /\ UNCHANGED <<chanVars, sid, filter, ev, gone, publisherVars, collided>>

(* stream.Send returns, with an error only when the stream has ended.      *)
SendReturns(w) ==
  /\ wpc[w] = "send"
  /\ \/ wpc' = [wpc EXCEPT ![w] = "loop"]
     \/ w \in gone /\ wpc' = [wpc EXCEPT ![w] = "leave"]
  /\ ev' = [ev EXCEPT ![w] = None]
  /\ UNCHANGED <<chanVars, sid, filter, gone, publisherVars, crashed, collided>>

(* Deviation: the loop does not look at the context.                       *)
SeeDoneNever(w) == FALSE /\ UNCHANGED vars

SeeDone(w) ==
  /\ wpc[w] = "loop"
  /\ w \in gone
  /\ wpc' = [wpc EXCEPT ![w] = "leave"]
  /\ UNCHANGED <<chanVars, sid, filter, ev, gone, publisherVars, crashed, collided>>

(* The stream ends: the client goes or is cut off (external).              *)
Disconnect(w) ==
  /\ wpc[w] \in {"start", "subLock", "loop", "send"}
  /\ gone' = gone \cup {w}
  /\ UNCHANGED <<chanVars, wpc, sid, filter, ev, publisherVars, crashed, collided>>

(* The stream ends, nothing refers to its channel any more.                *)
Depart(w) ==
  /\ wpc' = [wpc EXCEPT ![w] = "idle"]
  /\ sid' = [sid EXCEPT ![w] = None]
  /\ filter' = [filter EXCEPT ![w] = AllVms]
  /\ gone' = gone \ {w}
  /\ buf' = [buf EXCEPT ![w] = <<>>]

(* Deviation: the entry stays in the map.                                  *)
UnsubscribeKeepsEntry(w) ==
  /\ wpc[w] = "unsubLock"
  /\ NoReader
  /\ closed' = closed \cup ({subscribers[sid[w]]} \ {None})
  /\ Depart(w)
  /\ UNCHANGED <<subscribers, ev, publisherVars, crashed, collided>>

(* Deviation: only the read lock is taken.                                 *)
UnsubscribeReadLocked(w) ==
  /\ wpc[w] = "unsubLock"
  /\ closed' = closed \cup ({subscribers[sid[w]]} \ {None})
  /\ subscribers' = [subscribers EXCEPT ![sid[w]] = None]
  /\ Depart(w)
  /\ UNCHANGED <<ev, publisherVars, crashed, collided>>

(* Whatever channel the id names now is closed.                            *)
Unsubscribe(w) ==
  /\ wpc[w] = "unsubLock"
  /\ NoReader
  /\ closed' = closed \cup ({subscribers[sid[w]]} \ {None})
  /\ subscribers' = [subscribers EXCEPT ![sid[w]] = None]
  /\ Depart(w)
  /\ UNCHANGED <<ev, publisherVars, crashed, collided>>

----------------------------------------------------------------------------
(* Broadcast.                                                              *)
BroadcastBegin(p, v) ==
  /\ ppc[p] = "idle"
  /\ NoWriterWaits
  /\ ppc' = [ppc EXCEPT ![p] = "sending"]
  /\ cur' = [cur EXCEPT ![p] = v]
  /\ due' = [due EXCEPT ![p] = Subscribed]
  /\ UNCHANGED <<chanVars, watcherVars, tried, crashed, collided>>

(* The channels the loop has still to visit, in any order.                 *)
ToTry(p) == {w \in Watchers \ tried[p] : \E s \in Stamps : subscribers[s] = w}

(* Deviation: no default case, the send waits for room.                    *)
BroadcastSendBlocking(p, w) ==
  /\ ppc[p] = "sending"
  /\ w \in ToTry(p)
  /\ Len(buf[w]) < Cap
  /\ buf' = [buf EXCEPT ![w] = Append(@, cur[p])]
  /\ tried' = [tried EXCEPT ![p] = @ \cup {w}]
  /\ UNCHANGED <<subscribers, closed, watcherVars, ppc, cur, due, crashed, collided>>

(* Deviation: a watcher whose channel is full is dropped.                  *)
BroadcastSendEvicts(p, w) ==
  /\ ppc[p] = "sending"
  /\ w \in ToTry(p)
  /\ IF Len(buf[w]) < Cap
       THEN buf' = [buf EXCEPT ![w] = Append(@, cur[p])] /\ UNCHANGED <<subscribers, closed>>
       ELSE /\ subscribers' = [subscribers EXCEPT ![sid[w]] = None]
            /\ closed' = closed \cup {w}
            /\ UNCHANGED buf
  /\ tried' = [tried EXCEPT ![p] = @ \cup {w}]
  /\ UNCHANGED <<watcherVars, ppc, cur, due, crashed, collided>>

(* A full channel loses the event, a closed one would panic.               *)
BroadcastSend(p, w) ==
  /\ ppc[p] = "sending"
  /\ w \in ToTry(p)
  /\ crashed' = (w \in closed)
  /\ buf' = IF w \notin closed /\ Len(buf[w]) < Cap
              THEN [buf EXCEPT ![w] = Append(@, cur[p])] ELSE buf
  /\ tried' = [tried EXCEPT ![p] = @ \cup {w}]
  /\ UNCHANGED <<subscribers, closed, watcherVars, ppc, cur, due, collided>>

BroadcastEnd(p) ==
  /\ ppc[p] = "sending"
  /\ ToTry(p) = {}
  /\ ppc' = [ppc EXCEPT ![p] = "idle"]
  /\ cur' = [cur EXCEPT ![p] = None]
  /\ tried' = [tried EXCEPT ![p] = {}]
  /\ due' = [due EXCEPT ![p] = {}]
  /\ UNCHANGED <<chanVars, watcherVars, crashed, collided>>

Broadcasting(p) == BroadcastEnd(p) \/ \E w \in Watchers : BroadcastSend(p, w)

(* After a panic nothing runs any more.                                    *)
Dead == crashed /\ UNCHANGED vars

Running ==
  /\ ~crashed
  /\ \/ \E w \in Watchers :
          \/ \E s \in Stamps, f \in VmIds \cup {AllVms} : StartWatch(w, s, f)
          \/ AwaitLock(w) \/ Subscribe(w) \/ Receive(w) \/ ReceiveNil(w)
          \/ SendReturns(w) \/ SeeDone(w) \/ Disconnect(w) \/ Unsubscribe(w)
     \/ \E p \in Publishers :
          \/ \E v \in VmIds : BroadcastBegin(p, v)
          \/ Broadcasting(p)

Next == Running \/ Dead

Spec == Init /\ [][Next]_vars

(* The scheduler runs every goroutine; the lock goes to its waiters in     *)
(* turn; select takes each ready case now and then; a Send on the stream   *)
(* of a client that is gone returns.  A Send to a client that only reads   *)
(* slowly may never return, and nobody has to watch or broadcast.          *)
Fairness ==
  /\ \A p \in Publishers : WF_vars(Broadcasting(p))
  /\ \A w \in Watchers :
       /\ WF_vars(AwaitLock(w))
       /\ SF_vars(Subscribe(w)) /\ SF_vars(Unsubscribe(w)) /\ SF_vars(SeeDone(w))
       /\ WF_vars(w \in gone /\ SendReturns(w))

FairSpec == Spec /\ Fairness

----------------------------------------------------------------------------
(* A channel that can be broadcast to is open, even when two streams have  *)
(* read one time: Unsubscribe closes a channel and drops its only entry.   *)
ChannelsOpen == \A s \in Stamps : subscribers[s] \notin closed

(* Between Subscribe and Unsubscribe the subscriber id of a stream names   *)
(* its own channel, which is open: no other stream's coming or going takes *)
(* the subscription away, unless two open streams once had one id.         *)
SubscriptionKept ==
  collided \/ \A w \in Subscribed : subscribers[sid[w]] = w /\ w \notin closed

(* No broadcast meets a closed channel, and no watcher reads the nil event *)
(* of one, until two open streams have had one id: either panics, and      *)
(* nothing recovers it.                                                    *)
PanicsOnlyAfterCollision == crashed => collided

(* A Broadcast tries the channel of every stream that was subscribed when  *)
(* it took the lock: watchers that come and go do not disturb its loop.    *)
EveryoneTried ==
  [][\A p \in Publishers : BroadcastEnd(p) => collided \/ due[p] \subseteq tried[p]]_vars

(* Broadcast returns even if a watcher never takes another event; only a   *)
(* panic after a collision keeps it from returning.                        *)
BroadcastReturns == \A p \in Publishers : ppc[p] = "sending" ~> (ppc[p] = "idle" \/ crashed)

(* The subscription of a client that disconnects is removed.               *)
GoneIsUnsubscribed ==
  \A w \in Watchers : w \in gone ~> (crashed \/ \A s \in Stamps : subscribers[s] # w)
=============================================================================
