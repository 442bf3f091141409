---------------------------- MODULE HealthProofs ----------------------------
(***************************************************************************)
(* Theorems about `Health` for any services, setters and watchers: its type*)
(* invariant and that watchers which have caught up agree; and, where one  *)
(* task sets the statuses, that no watcher is sent an older status after a *)
(* newer one and that one which has caught up has the last status set.     *)
(***************************************************************************)
EXTENDS Health, TLAPS, SequenceTheorems

(* A watcher is subscribed to a channel, and the channels are never taken  *)
(* away: what a watcher is sent is a status.                               *)
Subscribed == \A w \in Watcher : Open(w) => channel[watch[w].service] # NoChannel

IInv ==
    /\ TypeOK
    /\ Subscribed
    /\ WatchersAgree
-----------------------------------------------------------------------------
LEMMA InitInv == Init => IInv
<1> SUFFICES ASSUME Init PROVE IInv
  OBVIOUS
<1>1. 0 \in Stamp
  BY MaxSetsAssumption DEF Stamp
<1>2. TypeOK
  <2>1. watch \in [Watcher -> WatchState]
    BY <1>1 DEF Init, WatchState
  <2> QED
    BY <1>1, <2>1 DEF Init, TypeOK, SetterState
<1>3. \A w \in Watcher : ~Open(w)
  BY DEF Init, Open
<1> QED
  BY <1>2, <1>3 DEF IInv, Subscribed, WatchersAgree, CaughtUp

LEMMA SetStatusStep ==
    ASSUME IInv, NEW p \in Setter, NEW s \in Service, SetStatus(p, s)
    PROVE  IInv'
<1>1. /\ sets < MaxSets /\ sets' = sets + 1
      /\ statuses' = [statuses EXCEPT ![s] = sets + 1]
      /\ setter' = [setter EXCEPT ![p] = Notifying(s, sets + 1)]
      /\ UNCHANGED <<channel, watch, pending, got, dropped>>
  BY DEF SetStatus
<1>2. sets + 1 \in Stamp
  BY <1>1, MaxSetsAssumption DEF Stamp, IInv, TypeOK
<1>3. Notifying(s, sets + 1) \in SetterState
  BY <1>2 DEF Notifying, SetterState
<1>4. TypeOK'
  BY <1>1, <1>2, <1>3 DEF IInv, TypeOK
<1>5. Subscribed' /\ WatchersAgree'
  BY <1>1 DEF IInv, Subscribed, WatchersAgree, CaughtUp, Open
<1> QED
  BY <1>4, <1>5 DEF IInv

(* After a send every receiver of the channel has something to read, so    *)
(* only watchers of other services count as caught up.                     *)
LEMMA NotifyStep ==
    ASSUME IInv, NEW p \in Setter, Notify(p)
    PROVE  IInv'
<1> DEFINE s == setter[p].service
           n == setter[p].status
<1>1. s \in Service /\ n \in Stamp
  BY DEF Notify, IInv, TypeOK, SetterState, Idle
<1>2. /\ channel' = IF Receivers(s) = {} THEN channel ELSE [channel EXCEPT ![s] = n]
      /\ pending' = [w \in Watcher |-> IF w \in Receivers(s) THEN "yes" ELSE pending[w]]
      /\ setter' = [setter EXCEPT ![p] = Idle]
      /\ UNCHANGED <<sets, statuses, watch, got, dropped>>
  BY DEF Notify, Send
<1>3. /\ channel \in [Service -> Stamp \cup {NoChannel}]
      /\ setter \in [Setter -> SetterState]
      /\ pending \in [Watcher -> {"yes", "no"}]
      /\ watch \in [Watcher -> WatchState]
  BY DEF IInv, TypeOK
<1> HIDE DEF s, n
<1>4. TypeOK'
  <2>1. channel' \in [Service -> Stamp \cup {NoChannel}]
    BY <1>1, <1>2, <1>3
  <2>2. pending' \in [Watcher -> {"yes", "no"}]
    BY <1>2, <1>3
  <2>3. setter' \in [Setter -> SetterState]
    BY <1>2, <1>3 DEF SetterState
  <2> QED
    BY <1>2, <2>1, <2>2, <2>3 DEF IInv, TypeOK
<1>5. Subscribed'
  <2> SUFFICES ASSUME NEW w \in Watcher, Open(w)'
               PROVE  channel'[watch[w].service] # NoChannel
    BY <1>2 DEF Subscribed
  <2>1. channel[watch[w].service] # NoChannel /\ watch[w].service \in Service
    BY <1>2, <1>3 DEF IInv, Subscribed, Open, WatchState
  <2>2. n # NoChannel
    BY <1>1, MaxSetsAssumption DEF Stamp
  <2> QED
    BY <1>1, <1>2, <1>3, <2>1, <2>2
<1>6. WatchersAgree'
  <2> SUFFICES ASSUME NEW w \in Watcher, CaughtUp(w)'
               PROVE  got[w] # <<>> /\ Last(got[w]) = channel'[watch[w].service]
    BY <1>2 DEF WatchersAgree
  <2>1. Open(w) /\ pending'[w] = "no"
    BY <1>2 DEF CaughtUp, Open
  <2>2. w \notin Receivers(s)
    BY <1>2, <2>1
  <2>3. watch[w].service # s /\ watch[w].service \in Service
    BY <1>3, <2>1, <2>2 DEF Receivers, WatchState
  <2>4. pending[w] = "no"
    BY <1>2, <2>1, <2>2
  <2>5. channel'[watch[w].service] = channel[watch[w].service]
    BY <1>1, <1>2, <1>3, <2>3
  <2> QED
    BY <2>1, <2>4, <2>5 DEF IInv, WatchersAgree, CaughtUp
<1> QED
  BY <1>4, <1>5, <1>6 DEF IInv

LEMMA AbandonStep ==
    ASSUME IInv, NEW p \in Setter, Abandon(p)
    PROVE  IInv'
<1>1. /\ setter' = [setter EXCEPT ![p] = Idle]
      /\ dropped' = dropped \cup {setter[p].status}
      /\ UNCHANGED <<sets, statuses, channel, watch, pending, got>>
  BY DEF Abandon
<1>2. setter[p].status \in Stamp
  BY DEF Abandon, IInv, TypeOK, SetterState, Idle
<1>3. setter' \in [Setter -> SetterState]
  BY <1>1 DEF IInv, TypeOK, SetterState
<1>4. TypeOK'
  BY <1>1, <1>2, <1>3 DEF IInv, TypeOK
<1>5. Subscribed' /\ WatchersAgree'
  BY <1>1 DEF IInv, Subscribed, WatchersAgree, CaughtUp, Open
<1> QED
  BY <1>4, <1>5 DEF IInv

LEMMA CallWatchStep ==
    ASSUME IInv, NEW w \in Watcher, CallWatch(w)
    PROVE  IInv'
<1>1. /\ watch' = [watch EXCEPT ![w] =
                     [@ EXCEPT !.at = "subscribe", !.initial = statuses[watch[w].service]]]
      /\ UNCHANGED <<sets, statuses, channel, setter, pending, got, dropped>>
  BY DEF CallWatch, IInv, TypeOK, WatchState
<1>2. /\ watch \in [Watcher -> WatchState]
      /\ statuses \in [Service -> Stamp]
      /\ watch[w] \in WatchState
  BY DEF IInv, TypeOK
<1>3. statuses[watch[w].service] \in Stamp
  BY <1>2 DEF WatchState
<1>4. [watch[w] EXCEPT !.at = "subscribe", !.initial = statuses[watch[w].service]]
        \in WatchState
  BY <1>2, <1>3 DEF WatchState
<1>5. TypeOK'
  BY <1>1, <1>2, <1>4 DEF IInv, TypeOK
<1>6. ASSUME NEW v \in Watcher, Open(v)'
      PROVE  v # w /\ Open(v) /\ watch'[v] = watch[v]
  BY <1>1, <1>2, <1>6 DEF Open, WatchState
<1>7. Subscribed'
  BY <1>1, <1>6 DEF IInv, Subscribed
<1>8. WatchersAgree'
  BY <1>1, <1>6 DEF IInv, WatchersAgree, CaughtUp
<1> QED
  BY <1>5, <1>7, <1>8 DEF IInv

(* Whoever creates the channel, it is there for the watcher that joins;    *)
(* one that exists keeps its value, so watchers that had caught up still   *)
(* have.                                                                   *)
LEMMA SubscribeStep ==
    ASSUME IInv, NEW w \in Watcher, Subscribe(w)
    PROVE  IInv'
<1> DEFINE s == watch[w].service
<1>1. /\ watch[w].at = "subscribe"
      /\ channel' = [channel EXCEPT ![s] = IF channel[s] = NoChannel
                                           THEN watch[w].initial ELSE channel[s]]
      /\ watch' = [watch EXCEPT ![w] = [@ EXCEPT !.at = "open", !.mark = sets]]
      /\ pending' = [pending EXCEPT ![w] = "yes"]
      /\ UNCHANGED <<sets, statuses, setter, got, dropped>>
  BY DEF Subscribe, IInv, TypeOK, WatchState
<1>2. /\ watch \in [Watcher -> WatchState]
      /\ channel \in [Service -> Stamp \cup {NoChannel}]
      /\ pending \in [Watcher -> {"yes", "no"}]
      /\ watch[w] \in WatchState /\ sets \in Stamp
  BY DEF IInv, TypeOK
<1>3. s \in Service /\ watch[w].initial \in Stamp
  BY <1>2 DEF WatchState
<1>4. [watch[w] EXCEPT !.at = "open", !.mark = sets] \in WatchState
  BY <1>2 DEF WatchState
<1>5. \A v \in Watcher : watch'[v].service = watch[v].service
  BY <1>1, <1>2 DEF WatchState
<1> HIDE DEF s
<1>6. TypeOK'
  <2>1. channel' \in [Service -> Stamp \cup {NoChannel}]
    BY <1>1, <1>2, <1>3
  <2>2. watch' \in [Watcher -> WatchState]
    BY <1>1, <1>2, <1>4
  <2>3. pending' \in [Watcher -> {"yes", "no"}]
    BY <1>1, <1>2
  <2> QED
    BY <1>1, <2>1, <2>2, <2>3 DEF IInv, TypeOK
<1>7. /\ channel'[s] # NoChannel
      /\ \A t \in Service : channel[t] # NoChannel => channel'[t] = channel[t]
  BY <1>1, <1>2, <1>3, MaxSetsAssumption DEF Stamp
<1>8. ASSUME NEW v \in Watcher, v # w
      PROVE  watch'[v] = watch[v] /\ pending'[v] = pending[v]
  BY <1>1, <1>2, <1>8
<1>9. ASSUME NEW v \in Watcher, v # w, Open(v)'
      PROVE  /\ Open(v) /\ watch[v].service \in Service
             /\ channel[watch[v].service] # NoChannel
             /\ channel'[watch[v].service] = channel[watch[v].service]
  <2>1. Open(v)
    BY <1>8, <1>9 DEF Open
  <2>2. watch[v].service \in Service
    BY <1>2 DEF WatchState
  <2>3. channel[watch[v].service] # NoChannel
    BY <2>1 DEF IInv, Subscribed
  <2> QED
    BY <1>7, <2>1, <2>2, <2>3
<1>10. Subscribed'
  <2> SUFFICES ASSUME NEW v \in Watcher, Open(v)'
               PROVE  channel'[watch'[v].service] # NoChannel
    BY DEF Subscribed
  <2>1. CASE v = w
    BY <1>5, <1>7, <2>1 DEF s
  <2>2. CASE v # w
    BY <1>5, <1>9, <2>2
  <2> QED
    BY <2>1, <2>2
<1>11. WatchersAgree'
  <2> SUFFICES ASSUME NEW v \in Watcher, CaughtUp(v)'
               PROVE  got[v] # <<>> /\ Last(got[v]) = channel'[watch'[v].service]
    BY <1>1 DEF WatchersAgree
  <2>1. Open(v)' /\ pending'[v] = "no"
    BY DEF CaughtUp
  <2>2. v # w
    BY <1>1, <1>2, <2>1
  <2>3. CaughtUp(v)
    BY <1>8, <1>9, <2>1, <2>2 DEF CaughtUp
  <2> QED
    BY <1>5, <1>9, <2>1, <2>2, <2>3 DEF IInv, WatchersAgree
<1> QED
  BY <1>6, <1>10, <1>11 DEF IInv

(* What a watcher has just been sent is what its channel holds.            *)
LEMMA DeliverStep ==
    ASSUME IInv, NEW w \in Watcher, Deliver(w)
    PROVE  IInv'
<1> DEFINE value == channel[watch[w].service]
<1>1. /\ Open(w)
      /\ got' = [got EXCEPT ![w] = Append(got[w], value)]
      /\ pending' = [pending EXCEPT ![w] = "no"]
      /\ UNCHANGED <<sets, statuses, channel, setter, watch, dropped>>
  BY DEF Deliver
<1>2. /\ got \in [Watcher -> Seq(Stamp)]
      /\ pending \in [Watcher -> {"yes", "no"}]
  BY DEF IInv, TypeOK
<1>3. value \in Stamp
  <2>1. watch[w].service \in Service
    BY DEF IInv, TypeOK, WatchState
  <2> QED
    BY <1>1, <2>1 DEF IInv, TypeOK, Subscribed
<1> HIDE DEF value
<1>4. Append(got[w], value) \in Seq(Stamp)
  BY <1>2, <1>3
<1>5. TypeOK'
  BY <1>1, <1>2, <1>4 DEF IInv, TypeOK
<1>6. Subscribed'
  BY <1>1 DEF IInv, Subscribed, Open
<1>7. WatchersAgree'
  <2> SUFFICES ASSUME NEW v \in Watcher, CaughtUp(v)'
               PROVE  got'[v] # <<>> /\ Last(got'[v]) = channel[watch[v].service]
    BY <1>1 DEF WatchersAgree
  <2>1. CASE v = w
    <3>1. got'[w] = Append(got[w], value) /\ got[w] \in Seq(Stamp)
      BY <1>1, <1>2
    <3>2. /\ Len(got'[w]) = Len(got[w]) + 1
          /\ got'[w][Len(got[w]) + 1] = value
      BY <1>3, <3>1
    <3>3. got'[w] # <<>> /\ Last(got'[w]) = value
      BY <3>1, <3>2 DEF Last
    <3> QED
      BY <2>1, <3>3 DEF value
  <2>2. CASE v # w
    <3>1. CaughtUp(v) /\ got'[v] = got[v]
      BY <1>1, <1>2, <2>2 DEF CaughtUp, Open
    <3> QED
      BY <3>1 DEF IInv, WatchersAgree
  <2> QED
    BY <2>1, <2>2
<1> QED
  BY <1>5, <1>6, <1>7 DEF IInv

LEMMA LeaveStep ==
    ASSUME IInv, NEW w \in Watcher, Leave(w)
    PROVE  IInv'
<1>1. /\ watch' = [watch EXCEPT ![w] = [@ EXCEPT !.at = "gone"]]
      /\ UNCHANGED <<sets, statuses, channel, setter, pending, got, dropped>>
  BY DEF Leave
<1>2. watch \in [Watcher -> WatchState] /\ watch[w] \in WatchState
  BY DEF IInv, TypeOK
<1>3. [watch[w] EXCEPT !.at = "gone"] \in WatchState
  BY <1>2 DEF WatchState
<1>4. TypeOK'
  BY <1>1, <1>2, <1>3 DEF IInv, TypeOK
<1>5. ASSUME NEW v \in Watcher, Open(v)'
      PROVE  v # w /\ Open(v) /\ watch'[v] = watch[v]
  BY <1>1, <1>2, <1>5 DEF Open, WatchState
<1>6. Subscribed'
  BY <1>1, <1>5 DEF IInv, Subscribed
<1>7. WatchersAgree'
  BY <1>1, <1>5 DEF IInv, WatchersAgree, CaughtUp
<1> QED
  BY <1>4, <1>6, <1>7 DEF IInv

LEMMA StepInv == IInv /\ [Next]_vars => IInv'
<1> SUFFICES ASSUME IInv, [Next]_vars PROVE IInv'
  OBVIOUS
<1>1. CASE \E p \in Setter : Set(p)
  BY <1>1, SetStatusStep, NotifyStep, AbandonStep DEF Set
<1>2. CASE \E w \in Watcher : Watch(w)
  BY <1>2, CallWatchStep, SubscribeStep, DeliverStep, LeaveStep DEF Watch
<1>3. CASE UNCHANGED vars
  BY <1>3 DEF vars, IInv, TypeOK, Subscribed, WatchersAgree, CaughtUp, Open
<1> QED
  BY <1>1, <1>2, <1>3 DEF Next

LEMMA Invariance == Spec => []IInv
BY InitInv, StepInv, PTL DEF Spec

(* The health service's state is always well formed; in particular a       *)
(* watcher is never sent the value of a channel that does not exist.       *)
THEOREM TypeCorrect == Spec => []TypeOK
<1>1. IInv => TypeOK
  BY DEF IInv
<1> QED
  BY <1>1, Invariance, PTL

(* Watchers of one service that have caught up have been sent the same     *)
(* status, however many tasks set it and whoever created the channel       *)
(* (grpc-health/src/lib.rs:183-193).                                       *)
THEOREM WatchersAlwaysAgree == Spec => []WatchersAgree
<1>1. IInv => WatchersAgree
  BY DEF IInv
<1> QED
  BY <1>1, Invariance, PTL
-----------------------------------------------------------------------------
ServiceOf(w) == watch[w].service

(* A channel is never ahead of what Check reports, nor is a status that    *)
(* Watch has read.                                                         *)
StampsOrdered ==
    \A s \in Service :
        /\ statuses[s] <= sets
        /\ channel[s] # NoChannel => channel[s] <= statuses[s]
InitialsOrdered ==
    \A w \in Watcher :
        watch[w].at = "subscribe" => watch[w].initial <= statuses[ServiceOf(w)]

(* The only setter announces what it has just stored.                      *)
NotifiesLatest(p) ==
    setter[p].at = "notify" => setter[p].status = statuses[setter[p].service]

(* What a watcher was sent is in order, and its channel is not behind.     *)
GotOrdered ==
    \A w \in Watcher : \A i \in DOMAIN got[w] :
        /\ channel[ServiceOf(w)] # NoChannel
        /\ got[w][i] <= channel[ServiceOf(w)]
        /\ \A j \in DOMAIN got[w] : i < j => got[w][i] <= got[w][j]

(* The channel of an open watcher has the status set since, if any, unless *)
(* the setter is still to announce it or was dropped.                      *)
ChannelLatest ==
    \A w \in Watcher :
        Open(w) /\ SetSince(w) /\ Quiet(ServiceOf(w)) =>
            channel[ServiceOf(w)] = statuses[ServiceOf(w)]

Ordered(p) ==
    /\ StampsOrdered
    /\ InitialsOrdered
    /\ NotifiesLatest(p)
    /\ GotOrdered
    /\ ChannelLatest
-----------------------------------------------------------------------------
LEMMA Types ==
    ASSUME TypeOK
    PROVE  /\ sets \in Nat /\ Stamp \subseteq Nat /\ NoChannel \notin Stamp
           /\ \A s \in Service : /\ statuses[s] \in Nat
                                 /\ channel[s] # NoChannel => channel[s] \in Nat
           /\ \A w \in Watcher :
                  /\ ServiceOf(w) \in Service
                  /\ watch[w].initial \in Nat /\ watch[w].mark \in Nat
                  /\ got[w] \in Seq(Nat)
<1>1. Stamp \subseteq Nat /\ NoChannel \notin Stamp
  BY MaxSetsAssumption DEF Stamp
<1>2. \A w \in Watcher : watch[w] \in WatchState /\ got[w] \in Seq(Stamp)
  BY DEF TypeOK
<1>3. \A w \in Watcher : got[w] \in Seq(Nat)
  BY <1>1, <1>2, SeqMonotonic
<1>4. \A w \in Watcher : /\ ServiceOf(w) \in Service
                         /\ watch[w].initial \in Nat /\ watch[w].mark \in Nat
  BY <1>1, <1>2 DEF WatchState, ServiceOf
<1> QED
  BY <1>1, <1>3, <1>4 DEF TypeOK

LEMMA OrderedInit ==
    ASSUME NEW p \in Setter
    PROVE  Init => Ordered(p)
<1> SUFFICES ASSUME Init PROVE Ordered(p)
  OBVIOUS
<1>1. StampsOrdered
  BY DEF Init, StampsOrdered
<1>2. \A w \in Watcher : watch[w].at = "uncalled" /\ got[w] = <<>>
  BY DEF Init
<1>3. InitialsOrdered /\ GotOrdered /\ ChannelLatest
  BY <1>2 DEF InitialsOrdered, GotOrdered, ChannelLatest, Open
<1>4. NotifiesLatest(p)
  BY DEF Init, NotifiesLatest, Idle
<1> QED
  BY <1>1, <1>3, <1>4 DEF Ordered

LEMMA OrderedSetStatus ==
    ASSUME NEW p, Setter = {p}, IInv, Ordered(p), NEW s \in Service, SetStatus(p, s)
    PROVE  Ordered(p)'
<1>1. /\ sets' = sets + 1
      /\ statuses' = [statuses EXCEPT ![s] = sets + 1]
      /\ setter' = [setter EXCEPT ![p] = Notifying(s, sets + 1)]
      /\ UNCHANGED <<channel, watch, pending, got, dropped>>
  BY DEF SetStatus
<1>2. /\ statuses \in [Service -> Stamp] /\ setter \in [Setter -> SetterState]
      /\ TypeOK
  BY DEF IInv, TypeOK
<1>3. \A t \in Service : /\ statuses'[t] = IF t = s THEN sets + 1 ELSE statuses[t]
                         /\ statuses[t] <= statuses'[t] /\ statuses'[t] <= sets + 1
                         /\ statuses[t] \in Nat /\ statuses'[t] \in Nat
  BY <1>1, <1>2, Types DEF Ordered, StampsOrdered
<1>4. StampsOrdered'
  BY <1>1, <1>2, <1>3, Types DEF Ordered, StampsOrdered
<1>5. InitialsOrdered'
  BY <1>1, <1>2, <1>3, Types DEF Ordered, InitialsOrdered, ServiceOf
<1>6. setter'[p] = Notifying(s, sets + 1)
  BY <1>1, <1>2
<1>7. NotifiesLatest(p)'
  BY <1>3, <1>6 DEF NotifiesLatest, Notifying
<1>8. GotOrdered'
  BY <1>1 DEF Ordered, GotOrdered, ServiceOf
<1>9. ChannelLatest'
  <2> SUFFICES ASSUME NEW w \in Watcher, Open(w)', SetSince(w)', Quiet(ServiceOf(w))'
               PROVE  channel[ServiceOf(w)] = statuses'[ServiceOf(w)]
    BY <1>1 DEF ChannelLatest, ServiceOf
  <2>1. ServiceOf(w)' = ServiceOf(w) /\ ServiceOf(w) \in Service
    BY <1>1, <1>2, Types DEF ServiceOf
  <2>2. ServiceOf(w) # s
    BY <1>6, <2>1 DEF Quiet, Notifying, ServiceOf
  <2>3. Quiet(ServiceOf(w))
    <3>1. setter[p].at # "notify"
      BY DEF SetStatus, Idle
    <3> QED
      BY <3>1 DEF Quiet
  <2>4. Open(w) /\ SetSince(w) /\ statuses'[ServiceOf(w)] = statuses[ServiceOf(w)]
    BY <1>1, <1>3, <2>1, <2>2 DEF Open, SetSince, Check, ServiceOf
  <2> QED
    BY <2>3, <2>4 DEF Ordered, ChannelLatest
<1> QED
  BY <1>4, <1>5, <1>7, <1>8, <1>9 DEF Ordered

LEMMA OrderedNotify ==
    ASSUME NEW p, Setter = {p}, IInv, Ordered(p), Notify(p)
    PROVE  Ordered(p)'
<1> DEFINE s == setter[p].service
           n == setter[p].status
<1>1. /\ setter[p].at = "notify" /\ n = statuses[s]
      /\ channel' = IF Receivers(s) = {} THEN channel ELSE [channel EXCEPT ![s] = n]
      /\ setter' = [setter EXCEPT ![p] = Idle]
      /\ UNCHANGED <<sets, statuses, watch, got, dropped>>
  BY DEF Notify, Send, Ordered, NotifiesLatest
<1>2. /\ channel \in [Service -> Stamp \cup {NoChannel}]
      /\ setter \in [Setter -> SetterState]
      /\ TypeOK
  BY DEF IInv, TypeOK
<1>3. s \in Service /\ n \in Stamp
  BY <1>1, <1>2 DEF SetterState, Idle
<1> HIDE DEF s, n
<1>4. \A t \in Service :
          /\ channel[t] # NoChannel => channel'[t] # NoChannel /\ channel[t] <= channel'[t]
          /\ channel'[t] # NoChannel => channel'[t] <= statuses[t]
          /\ t # s => channel'[t] = channel[t]
          /\ channel'[t] \in Stamp \cup {NoChannel}
  <2> SUFFICES ASSUME NEW t \in Service
               PROVE  /\ channel[t] # NoChannel =>
                             channel'[t] # NoChannel /\ channel[t] <= channel'[t]
                      /\ channel'[t] # NoChannel => channel'[t] <= statuses[t]
                      /\ t # s => channel'[t] = channel[t]
                      /\ channel'[t] \in Stamp \cup {NoChannel}
    OBVIOUS
  <2>1. /\ channel[t] # NoChannel => channel[t] \in Nat /\ channel[t] <= statuses[t]
        /\ n \in Nat /\ n # NoChannel /\ statuses[t] \in Nat
    BY <1>2, <1>3, Types DEF Ordered, StampsOrdered
  <2>2. CASE channel' = channel
    BY <1>2, <2>1, <2>2
  <2>3. CASE channel' = [channel EXCEPT ![s] = n]
    BY <1>1, <1>2, <1>3, <2>1, <2>3
  <2> QED
    BY <1>1, <2>2, <2>3
<1>5. StampsOrdered' /\ InitialsOrdered'
  BY <1>1, <1>4 DEF Ordered, StampsOrdered, InitialsOrdered, ServiceOf
<1>6. NotifiesLatest(p)' /\ \A t : Quiet(t)'
  BY <1>1, <1>2 DEF NotifiesLatest, Quiet, Idle
<1>7. GotOrdered'
  <2> SUFFICES ASSUME NEW w \in Watcher, NEW i \in DOMAIN got[w]
               PROVE  /\ channel'[ServiceOf(w)] # NoChannel
                      /\ got[w][i] <= channel'[ServiceOf(w)]
                      /\ \A j \in DOMAIN got[w] : i < j => got[w][i] <= got[w][j]
    BY <1>1 DEF GotOrdered, ServiceOf
  <2>1. ServiceOf(w) \in Service /\ got[w][i] \in Nat
    BY <1>2, Types
  <2>2. /\ channel[ServiceOf(w)] # NoChannel
        /\ got[w][i] <= channel[ServiceOf(w)]
        /\ \A j \in DOMAIN got[w] : i < j => got[w][i] <= got[w][j]
    BY DEF Ordered, GotOrdered
  <2>3. /\ channel'[ServiceOf(w)] # NoChannel
        /\ channel[ServiceOf(w)] <= channel'[ServiceOf(w)]
        /\ channel[ServiceOf(w)] \in Nat /\ channel'[ServiceOf(w)] \in Nat
    BY <1>2, <1>4, <2>1, <2>2, Types
  <2> QED
    BY <2>1, <2>2, <2>3
<1>8. ChannelLatest'
  <2> SUFFICES ASSUME NEW w \in Watcher, Open(w), SetSince(w)
               PROVE  channel'[ServiceOf(w)] = statuses[ServiceOf(w)]
    BY <1>1 DEF ChannelLatest, Open, SetSince, Check, ServiceOf
  <2>1. CASE ServiceOf(w) = s
    <3>1. Receivers(s) # {}
      BY <2>1 DEF Receivers, ServiceOf
    <3> QED
      BY <1>1, <1>2, <1>3, <2>1, <3>1
  <2>2. CASE ServiceOf(w) # s
    <3>1. Quiet(ServiceOf(w)) /\ ServiceOf(w) \in Service
      BY <1>2, <2>2, Types DEF Quiet, s
    <3> QED
      BY <1>4, <2>2, <3>1 DEF Ordered, ChannelLatest
  <2> QED
    BY <2>1, <2>2
<1> QED
  BY <1>5, <1>6, <1>7, <1>8 DEF Ordered

LEMMA OrderedAbandon ==
    ASSUME NEW p, Setter = {p}, IInv, Ordered(p), Abandon(p)
    PROVE  Ordered(p)'
<1>1. /\ setter[p].at = "notify"
      /\ setter[p].status = statuses[setter[p].service]
      /\ setter' = [setter EXCEPT ![p] = Idle]
      /\ dropped' = dropped \cup {setter[p].status}
      /\ UNCHANGED <<sets, statuses, channel, watch, pending, got>>
  BY DEF Abandon, Ordered, NotifiesLatest
<1>2. StampsOrdered' /\ InitialsOrdered' /\ GotOrdered'
  BY <1>1 DEF Ordered, StampsOrdered, InitialsOrdered, GotOrdered, ServiceOf
<1>3. NotifiesLatest(p)'
  <2>1. setter'[p] = Idle
    BY <1>1 DEF IInv, TypeOK
  <2> QED
    BY <2>1 DEF NotifiesLatest, Idle
<1>4. ChannelLatest'
  <2> SUFFICES ASSUME NEW w \in Watcher, Open(w), SetSince(w)'
               PROVE  channel[ServiceOf(w)] = statuses[ServiceOf(w)]
    BY <1>1 DEF ChannelLatest, Open, ServiceOf
  <2>1. SetSince(w) /\ statuses[ServiceOf(w)] # setter[p].status
    BY <1>1 DEF SetSince, Check, ServiceOf
  <2>2. Quiet(ServiceOf(w))
    BY <1>1, <2>1 DEF Quiet
  <2> QED
    BY <2>1, <2>2 DEF Ordered, ChannelLatest
<1> QED
  BY <1>2, <1>3, <1>4 DEF Ordered

LEMMA OrderedCallWatch ==
    ASSUME NEW p, Setter = {p}, IInv, Ordered(p), NEW w \in Watcher, CallWatch(w)
    PROVE  Ordered(p)'
<1>1. /\ watch' = [watch EXCEPT ![w] =
                     [@ EXCEPT !.at = "subscribe", !.initial = statuses[watch[w].service]]]
      /\ UNCHANGED <<sets, statuses, channel, setter, pending, got, dropped>>
  BY DEF CallWatch, IInv, TypeOK, WatchState
<1>2. watch \in [Watcher -> WatchState] /\ TypeOK
  BY DEF IInv, TypeOK
<1>3. \A v \in Watcher : /\ watch'[v].service = watch[v].service
                         /\ watch'[v].mark = watch[v].mark
                         /\ v # w => watch'[v] = watch[v]
  BY <1>1, <1>2 DEF WatchState
<1>4. watch'[w].initial = statuses[ServiceOf(w)] /\ watch'[w].at = "subscribe"
  BY <1>1, <1>2 DEF WatchState, ServiceOf
<1>5. StampsOrdered' /\ NotifiesLatest(p)'
  BY <1>1 DEF Ordered, StampsOrdered, NotifiesLatest
<1>6. InitialsOrdered'
  <2> SUFFICES ASSUME NEW v \in Watcher, watch'[v].at = "subscribe"
               PROVE  watch'[v].initial <= statuses[watch'[v].service]
    BY <1>1 DEF InitialsOrdered, ServiceOf
  <2>1. CASE v = w
    <3>1. statuses[ServiceOf(w)] \in Nat
      BY <1>2, Types
    <3> QED
      BY <1>3, <1>4, <2>1, <3>1 DEF ServiceOf
  <2>2. CASE v # w
    BY <1>3, <2>2 DEF Ordered, InitialsOrdered, ServiceOf
  <2> QED
    BY <2>1, <2>2
<1>7. GotOrdered'
  BY <1>1, <1>3 DEF Ordered, GotOrdered, ServiceOf
<1>8. ChannelLatest'
  <2> SUFFICES ASSUME NEW v \in Watcher, Open(v)', SetSince(v)', Quiet(ServiceOf(v))'
               PROVE  channel[ServiceOf(v)'] = statuses[ServiceOf(v)']
    BY <1>1 DEF ChannelLatest
  <2>1. v # w
    BY <1>4 DEF Open
  <2>2. Open(v) /\ SetSince(v) /\ Quiet(ServiceOf(v)) /\ ServiceOf(v)' = ServiceOf(v)
    BY <1>1, <1>3, <2>1 DEF Open, SetSince, Check, Quiet, ServiceOf
  <2> QED
    BY <2>2 DEF Ordered, ChannelLatest
<1> QED
  BY <1>5, <1>6, <1>7, <1>8 DEF Ordered

LEMMA OrderedLeave ==
    ASSUME NEW p, Setter = {p}, IInv, Ordered(p), NEW w \in Watcher, Leave(w)
    PROVE  Ordered(p)'
<1>1. /\ watch' = [watch EXCEPT ![w] = [@ EXCEPT !.at = "gone"]]
      /\ UNCHANGED <<sets, statuses, channel, setter, pending, got, dropped>>
  BY DEF Leave
<1>2. watch \in [Watcher -> WatchState] /\ TypeOK
  BY DEF IInv, TypeOK
<1>3. \A v \in Watcher : /\ watch'[v].service = watch[v].service
                         /\ v # w => watch'[v] = watch[v]
  BY <1>1, <1>2 DEF WatchState
<1>4. watch'[w].at = "gone"
  BY <1>1, <1>2 DEF WatchState
<1>5. StampsOrdered' /\ NotifiesLatest(p)'
  BY <1>1 DEF Ordered, StampsOrdered, NotifiesLatest
<1>6. InitialsOrdered'
  <2> SUFFICES ASSUME NEW v \in Watcher, watch'[v].at = "subscribe"
               PROVE  watch'[v].initial <= statuses[watch'[v].service]
    BY <1>1 DEF InitialsOrdered, ServiceOf
  <2> QED
    BY <1>3, <1>4 DEF Ordered, InitialsOrdered, ServiceOf
<1>7. GotOrdered'
  BY <1>1, <1>3 DEF Ordered, GotOrdered, ServiceOf
<1>8. ChannelLatest'
  <2> SUFFICES ASSUME NEW v \in Watcher, Open(v)', SetSince(v)', Quiet(ServiceOf(v))'
               PROVE  channel[ServiceOf(v)'] = statuses[ServiceOf(v)']
    BY <1>1 DEF ChannelLatest
  <2>1. v # w
    BY <1>4 DEF Open
  <2>2. Open(v) /\ SetSince(v) /\ Quiet(ServiceOf(v)) /\ ServiceOf(v)' = ServiceOf(v)
    BY <1>1, <1>3, <2>1 DEF Open, SetSince, Check, Quiet, ServiceOf
  <2> QED
    BY <2>2 DEF Ordered, ChannelLatest
<1> QED
  BY <1>5, <1>6, <1>7, <1>8 DEF Ordered

(* A channel that is created begins with a status that is not ahead; one   *)
(* that exists stays as it is.  No status has been set since.              *)
LEMMA OrderedSubscribe ==
    ASSUME NEW p, Setter = {p}, IInv, Ordered(p), NEW w \in Watcher, Subscribe(w)
    PROVE  Ordered(p)'
<1> DEFINE s == watch[w].service
<1>1. /\ watch[w].at = "subscribe"
      /\ channel' = [channel EXCEPT ![s] = IF channel[s] = NoChannel
                                           THEN watch[w].initial ELSE channel[s]]
      /\ watch' = [watch EXCEPT ![w] = [@ EXCEPT !.at = "open", !.mark = sets]]
      /\ pending' = [pending EXCEPT ![w] = "yes"]
      /\ UNCHANGED <<sets, statuses, setter, got, dropped>>
  BY DEF Subscribe, IInv, TypeOK, WatchState
<1>2. /\ watch \in [Watcher -> WatchState]
      /\ channel \in [Service -> Stamp \cup {NoChannel}]
      /\ TypeOK
  BY DEF IInv, TypeOK
<1>3. s \in Service /\ watch[w].initial \in Nat /\ watch[w].initial <= statuses[s]
  BY <1>1, <1>2, Types DEF Ordered, InitialsOrdered, ServiceOf
<1>4. \A v \in Watcher : /\ watch'[v].service = watch[v].service
                         /\ v # w => watch'[v] = watch[v]
  BY <1>1, <1>2 DEF WatchState
<1>5. watch'[w].at = "open" /\ watch'[w].mark = sets
  BY <1>1, <1>2 DEF WatchState
<1> HIDE DEF s
<1>6. \A t \in Service :
          /\ channel[t] # NoChannel => channel'[t] = channel[t]
          /\ channel'[t] # NoChannel => channel'[t] <= statuses[t]
  <2> SUFFICES ASSUME NEW t \in Service
               PROVE  /\ channel[t] # NoChannel => channel'[t] = channel[t]
                      /\ channel'[t] # NoChannel => channel'[t] <= statuses[t]
    OBVIOUS
  <2>1. channel[t] # NoChannel => channel[t] <= statuses[t]
    BY DEF Ordered, StampsOrdered
  <2> QED
    BY <1>1, <1>2, <1>3, <2>1
<1>7. StampsOrdered' /\ NotifiesLatest(p)'
  BY <1>1, <1>6 DEF Ordered, StampsOrdered, NotifiesLatest
<1>8. InitialsOrdered'
  <2> SUFFICES ASSUME NEW v \in Watcher, watch'[v].at = "subscribe"
               PROVE  watch'[v].initial <= statuses[watch'[v].service]
    BY <1>1 DEF InitialsOrdered, ServiceOf
  <2> QED
    BY <1>4, <1>5 DEF Ordered, InitialsOrdered, ServiceOf
<1>9. GotOrdered'
  <2> SUFFICES ASSUME NEW v \in Watcher, NEW i \in DOMAIN got[v]
               PROVE  /\ channel'[ServiceOf(v)] # NoChannel
                      /\ got[v][i] <= channel'[ServiceOf(v)]
                      /\ \A j \in DOMAIN got[v] : i < j => got[v][i] <= got[v][j]
    BY <1>1, <1>4 DEF GotOrdered, ServiceOf
  <2>1. ServiceOf(v) \in Service
    BY <1>2, Types
  <2>2. /\ channel[ServiceOf(v)] # NoChannel
        /\ got[v][i] <= channel[ServiceOf(v)]
        /\ \A j \in DOMAIN got[v] : i < j => got[v][i] <= got[v][j]
    BY DEF Ordered, GotOrdered
  <2> QED
    BY <1>6, <2>1, <2>2
<1>10. ChannelLatest'
  <2> SUFFICES ASSUME NEW v \in Watcher, Open(v)', SetSince(v)', Quiet(ServiceOf(v))'
               PROVE  channel'[ServiceOf(v)] = statuses[ServiceOf(v)]
    BY <1>1, <1>4 DEF ChannelLatest, ServiceOf
  <2>1. ServiceOf(v) \in Service /\ statuses[ServiceOf(v)] <= sets
        /\ sets \in Nat /\ statuses[ServiceOf(v)] \in Nat
    BY <1>2, Types DEF Ordered, StampsOrdered
  <2>2. v # w
    BY <1>1, <1>4, <1>5, <2>1 DEF SetSince, Check, ServiceOf
  <2>3. Open(v) /\ SetSince(v) /\ Quiet(ServiceOf(v))
    BY <1>1, <1>4, <2>2 DEF Open, SetSince, Check, Quiet, ServiceOf
  <2>4. channel[ServiceOf(v)] # NoChannel
    BY <2>3 DEF IInv, Subscribed, ServiceOf
  <2> QED
    BY <1>6, <2>1, <2>3, <2>4 DEF Ordered, ChannelLatest
<1> QED
  BY <1>7, <1>8, <1>9, <1>10 DEF Ordered

LEMMA OrderedDeliver ==
    ASSUME NEW p, Setter = {p}, IInv, Ordered(p), NEW w \in Watcher, Deliver(w)
    PROVE  Ordered(p)'
<1> DEFINE value == channel[ServiceOf(w)]
<1>1. /\ Open(w)
      /\ got' = [got EXCEPT ![w] = Append(got[w], value)]
      /\ UNCHANGED <<sets, statuses, channel, setter, watch, dropped>>
  BY DEF Deliver, ServiceOf
<1>2. got \in [Watcher -> Seq(Stamp)] /\ TypeOK
  BY DEF IInv, TypeOK
<1>3. value # NoChannel /\ value \in Nat /\ ServiceOf(w) \in Service
  BY <1>1, <1>2, Types DEF IInv, Subscribed, ServiceOf
<1>4. StampsOrdered' /\ InitialsOrdered' /\ NotifiesLatest(p)' /\ ChannelLatest'
  BY <1>1
    DEF Ordered, StampsOrdered, InitialsOrdered, NotifiesLatest, ChannelLatest, Open,
        SetSince, Check, Quiet, ServiceOf
<1>5. GotOrdered'
  <2> SUFFICES ASSUME NEW v \in Watcher, NEW i \in DOMAIN got'[v]
               PROVE  /\ channel[ServiceOf(v)] # NoChannel
                      /\ got'[v][i] <= channel[ServiceOf(v)]
                      /\ \A j \in DOMAIN got'[v] : i < j => got'[v][i] <= got'[v][j]
    BY <1>1 DEF GotOrdered, ServiceOf
  <2>1. CASE v # w
    <3>1. got'[v] = got[v]
      BY <1>1, <1>2, <2>1
    <3> QED
      BY <3>1 DEF Ordered, GotOrdered
  <2>2. CASE v = w
    <3> DEFINE old == got[w]
               new == got'[w]
    <3>1. old \in Seq(Nat) /\ new = Append(old, value)
      BY <1>1, <1>2, Types
    <3>2. \A k \in DOMAIN old :
              /\ old[k] <= value
              /\ \A j \in DOMAIN old : k < j => old[k] <= old[j]
      BY DEF Ordered, GotOrdered
    <3> HIDE DEF old, value
    <3>3. /\ Len(old) \in Nat /\ DOMAIN old = 1..Len(old)
          /\ DOMAIN new = 1..(Len(old) + 1)
          /\ new[Len(old) + 1] = value
          /\ \A k \in 1..Len(old) : new[k] = old[k] /\ old[k] \in Nat
      BY <1>3, <3>1
    <3> HIDE DEF new
    <3>4. \A k \in DOMAIN new :
              /\ new[k] <= value
              /\ \A j \in DOMAIN new : k < j => new[k] <= new[j]
      <4> SUFFICES ASSUME NEW k \in 1..(Len(old) + 1)
                   PROVE  /\ new[k] <= value
                          /\ \A j \in 1..(Len(old) + 1) : k < j => new[k] <= new[j]
        BY <3>3
      <4>1. \A j \in 1..(Len(old) + 1) : j \in 1..Len(old) \/ j = Len(old) + 1
        BY <3>3
      <4>2. new[k] <= value
        BY <1>3, <3>2, <3>3, <4>1
      <4>3. ASSUME NEW j \in 1..(Len(old) + 1), k < j
            PROVE  new[k] <= new[j]
        <5>1. k \in 1..Len(old)
          BY <3>3, <4>3
        <5>2. CASE j = Len(old) + 1
          BY <3>3, <4>2, <5>2
        <5>3. CASE j \in 1..Len(old)
          BY <3>2, <3>3, <4>3, <5>1, <5>3
        <5> QED
          BY <4>1, <5>2, <5>3
      <4> QED
        BY <4>2, <4>3
    <3> QED
      BY <1>3, <2>2, <3>4 DEF new, value
  <2> QED
    BY <2>1, <2>2
<1> QED
  BY <1>4, <1>5 DEF Ordered

LEMMA OrderedStep ==
    ASSUME NEW p, Setter = {p}, IInv, Ordered(p), [Next]_vars
    PROVE  Ordered(p)'
<1>1. CASE \E q \in Setter : Set(q)
  BY <1>1, OrderedSetStatus, OrderedNotify, OrderedAbandon DEF Set
<1>2. CASE \E w \in Watcher : Watch(w)
  BY <1>2, OrderedCallWatch, OrderedSubscribe, OrderedDeliver, OrderedLeave DEF Watch
<1>3. CASE UNCHANGED vars
  BY <1>3
    DEF vars, Ordered, StampsOrdered, InitialsOrdered, NotifiesLatest, GotOrdered,
        ChannelLatest, Open, SetSince, Check, Quiet, ServiceOf
<1> QED
  BY <1>1, <1>2, <1>3 DEF Next

LEMMA OrderedInvariance ==
    ASSUME NEW CONSTANT p, Setter = {p}
    PROVE  Spec => [](IInv /\ Ordered(p))
<1>1. Init => IInv /\ Ordered(p)
  BY InitInv, OrderedInit
<1>2. IInv /\ Ordered(p) /\ [Next]_vars => (IInv /\ Ordered(p))'
  BY StepInv, OrderedStep
<1> QED
  BY <1>1, <1>2, PTL DEF Spec
-----------------------------------------------------------------------------
(* Where one task sets the statuses, no watcher is sent an older one after *)
(* a newer one, and none is ahead of Check, for any services and watchers  *)
(* (lib.rs:85-87, 145-150, 187-192).                                       *)
THEOREM NoWatcherGoesBack ==
    ASSUME NEW CONSTANT p, Setter = {p}
    PROVE  Spec => []NeverGoesBack
<1>1. ASSUME IInv, Ordered(p) PROVE NeverGoesBack
  <2> SUFFICES ASSUME NEW w \in Watcher, NEW i \in DOMAIN got[w]
               PROVE  /\ got[w][i] <= Check(watch[w].service)
                      /\ \A j \in DOMAIN got[w] : i < j => got[w][i] <= got[w][j]
    BY DEF NeverGoesBack
  <2>1. /\ channel[ServiceOf(w)] # NoChannel
        /\ got[w][i] <= channel[ServiceOf(w)]
        /\ \A j \in DOMAIN got[w] : i < j => got[w][i] <= got[w][j]
    BY <1>1 DEF Ordered, GotOrdered
  <2>2. TypeOK
    BY <1>1 DEF IInv
  <2>3. /\ ServiceOf(w) \in Service /\ got[w][i] \in Nat
        /\ channel[ServiceOf(w)] \in Nat /\ statuses[ServiceOf(w)] \in Nat
    BY <2>1, <2>2, Types
  <2>4. channel[ServiceOf(w)] <= statuses[ServiceOf(w)]
    BY <1>1, <2>1, <2>3 DEF Ordered, StampsOrdered
  <2> QED
    BY <2>1, <2>3, <2>4 DEF Check, ServiceOf
<1> QED
  BY <1>1, OrderedInvariance, PTL

(* Where one task sets the statuses, a watcher that has caught up has the  *)
(* last one set since it subscribed, unless its set_status was dropped     *)
(* half-way, for any services and watchers (lib.rs:76-91, 145-150).        *)
THEOREM LastAlwaysSeen ==
    ASSUME NEW CONSTANT p, Setter = {p}
    PROVE  Spec => []LastSetSeen
<1>1. ASSUME IInv, Ordered(p) PROVE LastSetSeen
  <2> SUFFICES ASSUME NEW w \in Watcher, CaughtUp(w), SetSince(w), Quiet(watch[w].service)
               PROVE  Last(got[w]) = Check(watch[w].service)
    BY DEF LastSetSeen
  <2>1. Last(got[w]) = channel[ServiceOf(w)]
    BY <1>1 DEF IInv, WatchersAgree, ServiceOf
  <2>2. channel[ServiceOf(w)] = statuses[ServiceOf(w)]
    BY <1>1 DEF Ordered, ChannelLatest, CaughtUp, ServiceOf
  <2> QED
    BY <2>1, <2>2 DEF Check, ServiceOf
<1> QED
  BY <1>1, OrderedInvariance, PTL
=============================================================================
