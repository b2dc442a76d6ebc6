-------------------------- MODULE EventStreamProofs --------------------------
(***************************************************************************)
(* Proofs about EventStream, for any watchers, publishers, ids and channel *)
(* capacity.                                                               *)
(***************************************************************************)
EXTENDS EventStream, TLAPS

USE NoneAssumption, CapAssumption

WatcherPcs == {"idle", "start", "subLock", "loop", "send", "leave", "unsubLock"}

(* What the proofs need of the types.                                      *)
MapTyped ==
  /\ subscribers \in [Stamps -> Watchers \cup {None}]
  /\ closed \in SUBSET Watchers
  /\ wpc \in [Watchers -> WatcherPcs]
  /\ sid \in [Watchers -> Stamps \cup {None}]
  /\ ppc \in [Publishers -> {"idle", "sending"}]
  /\ cur \in [Publishers -> VmIds \cup {None}]
  /\ \A p \in Publishers : ppc[p] = "sending" => cur[p] \in VmIds
  /\ tried \in [Publishers -> SUBSET Watchers]
  /\ due \in [Publishers -> SUBSET Watchers]

(* An entry of the map is the open channel of a stream that uses that id.  *)
EntryInv ==
  /\ \A w \in Watchers : wpc[w] = "idle" <=> sid[w] = None
  /\ \A s \in Stamps : subscribers[s] # None =>
       /\ subscribers[s] \in Subscribed
       /\ sid[subscribers[s]] = s
       /\ subscribers[s] \notin closed

(* Until two open streams have one id, entries stay.                       *)
OwnIdInv ==
  /\ \A w, u \in Watchers : sid[w] # None /\ sid[w] = sid[u] => w = u
  /\ \A w \in Subscribed : subscribers[sid[w]] = w /\ w \notin closed

(* Nor does anybody leave during a broadcast, and none has panicked.       *)
LoopInv ==
  /\ \A p \in Publishers : ppc[p] = "sending" => due[p] \subseteq Subscribed
  /\ ~crashed

MapInv == MapTyped /\ EntryInv
StreamInv == collided \in BOOLEAN /\ (collided \/ (OwnIdInv /\ LoopInv))

----------------------------------------------------------------------------
(* The steps of a stream, one by one, and everything else.                 *)
LEMMA StreamSteps ==
  ASSUME [Next]_vars
  PROVE  \/ \E w \in Watchers :
              \/ \E s \in Stamps, f \in VmIds \cup {AllVms} : StartWatch(w, s, f)
              \/ AwaitLock(w) \/ Subscribe(w) \/ Receive(w) \/ ReceiveNil(w)
              \/ SendReturns(w) \/ SeeDone(w) \/ Disconnect(w) \/ Unsubscribe(w)
         \/ \E p \in Publishers :
              \/ \E v \in VmIds : BroadcastBegin(p, v)
              \/ \E w \in Watchers : BroadcastSend(p, w)
              \/ BroadcastEnd(p)
         \/ UNCHANGED vars
  BY DEF Next, Running, Dead, Broadcasting

LEMMA InitMapInv == Init => MapInv
  BY DEF Init, MapInv, MapTyped, EntryInv, WatcherPcs

LEMMA NextMapInv == MapInv /\ [Next]_vars => MapInv'
<1> SUFFICES ASSUME MapInv, [Next]_vars
             PROVE  MapInv'
    OBVIOUS
<1> USE DEF MapInv, MapTyped, EntryInv, WatcherPcs, Subscribed
<1>1. ASSUME NEW w \in Watchers, NEW s \in Stamps, NEW f \in VmIds \cup {AllVms},
             StartWatch(w, s, f)
      PROVE  MapInv'
      BY <1>1 DEF StartWatch, chanVars, publisherVars
<1>2. ASSUME NEW w \in Watchers, AwaitLock(w) PROVE MapInv'
      BY <1>2 DEF AwaitLock, chanVars, publisherVars
<1>3. ASSUME NEW w \in Watchers, Subscribe(w) PROVE MapInv'
      BY <1>3 DEF Subscribe, publisherVars
<1>4. ASSUME NEW w \in Watchers, Receive(w) PROVE MapInv'
      BY <1>4 DEF Receive, publisherVars
<1>5. ASSUME NEW w \in Watchers, ReceiveNil(w) PROVE MapInv'
      BY <1>5 DEF ReceiveNil, chanVars, publisherVars
<1>6. ASSUME NEW w \in Watchers, SendReturns(w) PROVE MapInv'
      BY <1>6 DEF SendReturns, chanVars, publisherVars
<1>7. ASSUME NEW w \in Watchers, SeeDone(w) PROVE MapInv'
      BY <1>7 DEF SeeDone, chanVars, publisherVars
<1>8. ASSUME NEW w \in Watchers, Disconnect(w) PROVE MapInv'
      BY <1>8 DEF Disconnect, chanVars, publisherVars
<1>9. ASSUME NEW w \in Watchers, Unsubscribe(w) PROVE MapInv'
      BY <1>9 DEF Unsubscribe, Depart, publisherVars
<1>10. ASSUME NEW p \in Publishers, NEW v \in VmIds, BroadcastBegin(p, v) PROVE MapInv'
      BY <1>10 DEF BroadcastBegin, chanVars, watcherVars
<1>11. ASSUME NEW p \in Publishers, NEW w \in Watchers, BroadcastSend(p, w) PROVE MapInv'
      BY <1>11 DEF BroadcastSend, watcherVars
<1>12. ASSUME NEW p \in Publishers, BroadcastEnd(p) PROVE MapInv'
      BY <1>12 DEF BroadcastEnd, chanVars, watcherVars
<1>13. CASE UNCHANGED vars
      BY <1>13 DEF vars, chanVars, watcherVars, publisherVars
<1> QED
    BY StreamSteps, <1>1, <1>2, <1>3, <1>4, <1>5, <1>6, <1>7, <1>8, <1>9, <1>10, <1>11,
       <1>12, <1>13

LEMMA MapInvariant == Spec => []MapInv
  BY InitMapInv, NextMapInv, PTL DEF Spec

(* No broadcast sends on a closed channel, however the clock reads: the    *)
(* close and the deletion of the entry in Unsubscribe are one for it.      *)
THEOREM SendsGoToOpenChannels == Spec => []ChannelsOpen
<1>1. MapInv => ChannelsOpen
      BY DEF MapInv, MapTyped, EntryInv, ChannelsOpen
<1> QED
    BY <1>1, MapInvariant, PTL

----------------------------------------------------------------------------
(* Types, and the bound on what waits in a channel.                        *)

(* A step that leaves channels and publishers alone need only keep the     *)
(* types of the watchers' variables.                                       *)
LEMMA WatcherStepType ==
  ASSUME EventTypeOK, UNCHANGED <<chanVars, publisherVars>>,
         wpc' \in [Watchers -> WatcherPcs],
         sid' \in [Watchers -> Stamps \cup {None}],
         filter' \in [Watchers -> VmIds \cup {AllVms}],
         ev' \in [Watchers -> VmIds \cup {None}],
         gone' \in SUBSET Watchers,
         crashed' \in BOOLEAN,
         collided' \in BOOLEAN
  PROVE  EventTypeOK'
<1>1. /\ buf' = buf /\ subscribers' = subscribers /\ closed' = closed
      /\ ppc' = ppc /\ cur' = cur /\ tried' = tried /\ due' = due
      BY DEF chanVars, publisherVars
<1> QED
    BY <1>1 DEF EventTypeOK, WatcherPcs

LEMMA NextEventType == EventTypeOK /\ MapInv /\ [Next]_vars => EventTypeOK'
<1> SUFFICES ASSUME EventTypeOK, MapInv, [Next]_vars
             PROVE  EventTypeOK'
    OBVIOUS
<1> USE DEF EventTypeOK
<1>1. ASSUME NEW w \in Watchers, NEW s \in Stamps, NEW f \in VmIds \cup {AllVms},
             StartWatch(w, s, f)
      PROVE  EventTypeOK'
      <2>1. UNCHANGED <<chanVars, publisherVars>>
            BY <1>1 DEF StartWatch
      <2>2. /\ wpc' \in [Watchers -> WatcherPcs]
            /\ sid' \in [Watchers -> Stamps \cup {None}]
            /\ filter' \in [Watchers -> VmIds \cup {AllVms}]
            BY <1>1 DEF StartWatch, WatcherPcs
      <2>3. /\ ev' \in [Watchers -> VmIds \cup {None}]
            /\ gone' \in SUBSET Watchers
            /\ crashed' \in BOOLEAN
            /\ collided' \in BOOLEAN
            BY <1>1 DEF StartWatch
      <2> QED
          BY <2>1, <2>2, <2>3, WatcherStepType
<1>2. ASSUME NEW w \in Watchers, AwaitLock(w) PROVE EventTypeOK'
      <2>1. UNCHANGED <<chanVars, publisherVars>>
            BY <1>2 DEF AwaitLock
      <2>2. /\ wpc' \in [Watchers -> WatcherPcs]
            /\ sid' \in [Watchers -> Stamps \cup {None}]
            /\ filter' \in [Watchers -> VmIds \cup {AllVms}]
            BY <1>2 DEF AwaitLock, WatcherPcs
      <2>3. /\ ev' \in [Watchers -> VmIds \cup {None}]
            /\ gone' \in SUBSET Watchers
            /\ crashed' \in BOOLEAN
            /\ collided' \in BOOLEAN
            BY <1>2 DEF AwaitLock
      <2> QED
          BY <2>1, <2>2, <2>3, WatcherStepType
<1>3. ASSUME NEW w \in Watchers, Subscribe(w) PROVE EventTypeOK'
      BY <1>3 DEF Subscribe, MapInv, MapTyped, EntryInv, publisherVars
<1>4. ASSUME NEW w \in Watchers, Receive(w) PROVE EventTypeOK'
      <2>1. /\ buf[w] \in Seq(VmIds) /\ buf[w] # <<>>
            /\ buf' = [buf EXCEPT ![w] = Tail(buf[w])]
            BY <1>4 DEF Receive
      <2>2. Head(buf[w]) \in VmIds /\ Tail(buf[w]) \in Seq(VmIds)
            BY <2>1
      <2>3. Len(Tail(buf[w])) <= Cap
            BY <2>1
      <2>4. buf' \in [Watchers -> Seq(VmIds)] /\ \A u \in Watchers : Len(buf'[u]) <= Cap
            BY <2>1, <2>2, <2>3
      <2>5. PICK e \in VmIds : \/ UNCHANGED <<wpc, ev>>
                               \/ /\ wpc' = [wpc EXCEPT ![w] = "send"]
                                  /\ ev' = [ev EXCEPT ![w] = e]
            BY <1>4, <2>2 DEF Receive
      <2>6. UNCHANGED <<subscribers, closed, sid, filter, gone, publisherVars, crashed, collided>>
            BY <1>4 DEF Receive
      <2>7. ev' \in [Watchers -> VmIds \cup {None}]
            BY <2>5
      <2>8. wpc' \in [Watchers -> {"idle", "start", "subLock", "loop", "send", "leave",
                                   "unsubLock"}]
            BY <2>5
      <2> QED
          BY <2>4, <2>6, <2>7, <2>8 DEF publisherVars
<1>5. ASSUME NEW w \in Watchers, ReceiveNil(w) PROVE EventTypeOK'
      <2>1. UNCHANGED <<chanVars, publisherVars>>
            BY <1>5 DEF ReceiveNil
      <2>2. /\ wpc' \in [Watchers -> WatcherPcs]
            /\ sid' \in [Watchers -> Stamps \cup {None}]
            /\ filter' \in [Watchers -> VmIds \cup {AllVms}]
            BY <1>5 DEF ReceiveNil, WatcherPcs
      <2>3. /\ ev' \in [Watchers -> VmIds \cup {None}]
            /\ gone' \in SUBSET Watchers
            /\ crashed' \in BOOLEAN
            /\ collided' \in BOOLEAN
            BY <1>5 DEF ReceiveNil
      <2> QED
          BY <2>1, <2>2, <2>3, WatcherStepType
<1>6. ASSUME NEW w \in Watchers, SendReturns(w) PROVE EventTypeOK'
      <2>1. UNCHANGED <<chanVars, publisherVars>>
            BY <1>6 DEF SendReturns
      <2>2. /\ wpc' \in [Watchers -> WatcherPcs]
            /\ sid' \in [Watchers -> Stamps \cup {None}]
            /\ filter' \in [Watchers -> VmIds \cup {AllVms}]
            <3>1. PICK l \in WatcherPcs : wpc' = [wpc EXCEPT ![w] = l]
                  BY <1>6 DEF SendReturns, WatcherPcs
            <3>2. wpc' \in [Watchers -> WatcherPcs]
                  BY <3>1 DEF WatcherPcs
            <3> QED
                BY <1>6, <3>2 DEF SendReturns
      <2>3. /\ ev' \in [Watchers -> VmIds \cup {None}]
            /\ gone' \in SUBSET Watchers
            /\ crashed' \in BOOLEAN
            /\ collided' \in BOOLEAN
            BY <1>6 DEF SendReturns
      <2> QED
          BY <2>1, <2>2, <2>3, WatcherStepType
<1>7. ASSUME NEW w \in Watchers, SeeDone(w) PROVE EventTypeOK'
      <2>1. UNCHANGED <<chanVars, publisherVars>>
            BY <1>7 DEF SeeDone
      <2>2. /\ wpc' \in [Watchers -> WatcherPcs]
            /\ sid' \in [Watchers -> Stamps \cup {None}]
            /\ filter' \in [Watchers -> VmIds \cup {AllVms}]
            BY <1>7 DEF SeeDone, WatcherPcs
      <2>3. /\ ev' \in [Watchers -> VmIds \cup {None}]
            /\ gone' \in SUBSET Watchers
            /\ crashed' \in BOOLEAN
            /\ collided' \in BOOLEAN
            BY <1>7 DEF SeeDone
      <2> QED
          BY <2>1, <2>2, <2>3, WatcherStepType
<1>8. ASSUME NEW w \in Watchers, Disconnect(w) PROVE EventTypeOK'
      <2>1. UNCHANGED <<chanVars, publisherVars>>
            BY <1>8 DEF Disconnect
      <2>2. /\ wpc' \in [Watchers -> WatcherPcs]
            /\ sid' \in [Watchers -> Stamps \cup {None}]
            /\ filter' \in [Watchers -> VmIds \cup {AllVms}]
            BY <1>8 DEF Disconnect, WatcherPcs
      <2>3. /\ ev' \in [Watchers -> VmIds \cup {None}]
            /\ gone' \in SUBSET Watchers
            /\ crashed' \in BOOLEAN
            /\ collided' \in BOOLEAN
            BY <1>8 DEF Disconnect
      <2> QED
          BY <2>1, <2>2, <2>3, WatcherStepType
<1>9. ASSUME NEW w \in Watchers, Unsubscribe(w) PROVE EventTypeOK'
      BY <1>9 DEF Unsubscribe, Depart, MapInv, MapTyped, EntryInv,
         publisherVars
<1>10. ASSUME NEW p \in Publishers, NEW v \in VmIds, BroadcastBegin(p, v) PROVE EventTypeOK'
      BY <1>10 DEF BroadcastBegin, Subscribed, chanVars, watcherVars
<1>11. ASSUME NEW p \in Publishers, NEW w \in Watchers, BroadcastSend(p, w) PROVE EventTypeOK'
      <2>1. CASE buf' = buf
            BY <1>11, <2>1 DEF BroadcastSend, watcherVars
      <2>2. CASE Len(buf[w]) < Cap /\ buf' = [buf EXCEPT ![w] = Append(buf[w], cur[p])]
            <3>1. buf[w] \in Seq(VmIds) /\ cur[p] \in VmIds /\ Len(buf[w]) \in Nat
                  BY <1>11 DEF BroadcastSend, MapInv, MapTyped
            <3>2. /\ Append(buf[w], cur[p]) \in Seq(VmIds)
                  /\ Len(Append(buf[w], cur[p])) = Len(buf[w]) + 1
                  BY <3>1
            <3>3. buf' \in [Watchers -> Seq(VmIds)] /\ \A u \in Watchers : Len(buf'[u]) <= Cap
                  BY <2>2, <3>1, <3>2
            <3> QED
                BY <1>11, <3>3 DEF BroadcastSend, watcherVars
      <2> QED
          BY <1>11, <2>1, <2>2 DEF BroadcastSend
<1>12. ASSUME NEW p \in Publishers, BroadcastEnd(p) PROVE EventTypeOK'
      BY <1>12 DEF BroadcastEnd, chanVars, watcherVars
<1>13. CASE UNCHANGED vars
      BY <1>13 DEF vars, chanVars, watcherVars, publisherVars
<1> QED
    BY StreamSteps, <1>1, <1>2, <1>3, <1>4, <1>5, <1>6, <1>7, <1>8, <1>9, <1>10, <1>11,
       <1>12, <1>13

(* No channel holds more events than its capacity, and every variable      *)
(* keeps its type.                                                         *)
THEOREM EventTypes == Spec => []EventTypeOK
<1>1. Init => EventTypeOK
      <2> SUFFICES ASSUME Init
                   PROVE  EventTypeOK
          OBVIOUS
      <2>1. \A w \in Watchers : buf[w] = <<>> /\ Len(buf[w]) = 0
            BY DEF Init
      <2>2. buf \in [Watchers -> Seq(VmIds)] /\ \A w \in Watchers : Len(buf[w]) <= Cap
            BY <2>1 DEF Init
      <2> QED
          BY <2>2 DEF Init, EventTypeOK
<1> QED
    BY <1>1, NextEventType, MapInvariant, PTL DEF Spec

----------------------------------------------------------------------------
(* Until two open streams have had one id.                                 *)

LEMMA InitStreamInv == Init => StreamInv
  BY DEF Init, StreamInv, OwnIdInv, LoopInv, Subscribed

LEMMA NextStreamInv ==
  ASSUME MapInv, StreamInv, [Next]_vars
  PROVE  StreamInv'
<1> USE DEF MapInv, MapTyped, EntryInv, StreamInv, OwnIdInv, LoopInv,
            WatcherPcs, Subscribed
<1>1. ASSUME NEW w \in Watchers, NEW s \in Stamps, NEW f \in VmIds \cup {AllVms},
             StartWatch(w, s, f)
      PROVE  StreamInv'
      <2>1. collided' \in BOOLEAN
            BY <1>1 DEF StartWatch
      <2>2. CASE collided'
            BY <2>1, <2>2
      <2>3. CASE ~collided'
            <3>1. ~collided /\ \A u \in Watchers : sid[u] # s
                  BY <1>1, <2>3 DEF StartWatch
            <3>2. OwnIdInv' /\ LoopInv'
                  BY <1>1, <3>1 DEF StartWatch, chanVars, publisherVars
            <3> QED
                BY <2>1, <3>2
      <2> QED
          BY <2>1, <2>2, <2>3
<1>2. ASSUME NEW w \in Watchers, AwaitLock(w) PROVE StreamInv'
      BY <1>2 DEF AwaitLock, chanVars, publisherVars
<1>3. ASSUME NEW w \in Watchers, Subscribe(w) PROVE StreamInv'
      BY <1>3 DEF Subscribe, publisherVars
<1>4. ASSUME NEW w \in Watchers, Receive(w) PROVE StreamInv'
      BY <1>4 DEF Receive, publisherVars
<1>5. ASSUME NEW w \in Watchers, ReceiveNil(w) PROVE StreamInv'
      BY <1>5 DEF ReceiveNil, chanVars, publisherVars
<1>6. ASSUME NEW w \in Watchers, SendReturns(w) PROVE StreamInv'
      BY <1>6 DEF SendReturns, chanVars, publisherVars
<1>7. ASSUME NEW w \in Watchers, SeeDone(w) PROVE StreamInv'
      BY <1>7 DEF SeeDone, chanVars, publisherVars
<1>8. ASSUME NEW w \in Watchers, Disconnect(w) PROVE StreamInv'
      BY <1>8 DEF Disconnect, chanVars, publisherVars
<1>9. ASSUME NEW w \in Watchers, Unsubscribe(w) PROVE StreamInv'
      BY <1>9 DEF Unsubscribe, Depart, NoReader, publisherVars
<1>10. ASSUME NEW p \in Publishers, NEW v \in VmIds, BroadcastBegin(p, v) PROVE StreamInv'
      BY <1>10 DEF BroadcastBegin, chanVars, watcherVars
<1>11. ASSUME NEW p \in Publishers, NEW w \in Watchers, BroadcastSend(p, w) PROVE StreamInv'
      BY <1>11 DEF BroadcastSend, ToTry, watcherVars
<1>12. ASSUME NEW p \in Publishers, BroadcastEnd(p) PROVE StreamInv'
      BY <1>12 DEF BroadcastEnd, chanVars, watcherVars
<1>13. CASE UNCHANGED vars
      BY <1>13 DEF vars, chanVars, watcherVars, publisherVars
<1> QED
    BY StreamSteps, <1>1, <1>2, <1>3, <1>4, <1>5, <1>6, <1>7, <1>8, <1>9, <1>10, <1>11,
       <1>12, <1>13

LEMMA StreamInvariant == Spec => []StreamInv
<1>1. MapInv /\ StreamInv /\ [Next]_vars => StreamInv'
      BY NextStreamInv
<1> QED
    BY <1>1, InitStreamInv, MapInvariant, PTL DEF Spec

(* Until two open streams have had one id, each keeps its own subscription *)
(* until it leaves, whoever else comes and goes.                           *)
THEOREM SubscriptionsKept == Spec => []SubscriptionKept
<1>1. StreamInv => SubscriptionKept
      BY DEF StreamInv, OwnIdInv, SubscriptionKept
<1> QED
    BY <1>1, StreamInvariant, PTL

(* ... and neither a broadcast nor a watcher panics.                       *)
THEOREM NoPanic == Spec => []PanicsOnlyAfterCollision
<1>1. StreamInv => PanicsOnlyAfterCollision
      BY DEF StreamInv, LoopInv, PanicsOnlyAfterCollision
<1> QED
    BY <1>1, StreamInvariant, PTL

(* ... and a Broadcast tries the channel of every stream that was there    *)
(* when it began.                                                          *)
THEOREM BroadcastsReachAll == Spec => EveryoneTried
<1>1. ASSUME MapInv, StreamInv
      PROVE  \A p \in Publishers : BroadcastEnd(p) => collided \/ due[p] \subseteq tried[p]
      <2> SUFFICES ASSUME NEW p \in Publishers, BroadcastEnd(p), ~collided, NEW w \in due[p]
                   PROVE  w \in tried[p]
          OBVIOUS
      <2>1. w \in Subscribed
            BY <1>1 DEF BroadcastEnd, StreamInv, LoopInv
      <2>2. w \in Watchers /\ sid[w] \in Stamps /\ subscribers[sid[w]] = w
            BY <1>1, <2>1 DEF Subscribed, StreamInv, OwnIdInv, MapInv, MapTyped,
               EntryInv
      <2> QED
          BY <2>2 DEF BroadcastEnd, ToTry
<1> QED
    BY <1>1, StreamInvariant, MapInvariant, PTL DEF Spec, EveryoneTried
=============================================================================
