------------------------------- MODULE Health -------------------------------
(***************************************************************************)
(* The health service (grpc-health/src/lib.rs): `statuses`, which Check    *)
(* reads, and `watchers`, one watch channel for each service somebody has  *)
(* watched.  Each map has a lock of its own, held for one access, so that  *)
(* `set_status` and `Watch` are two atomic steps each, and steps of other  *)
(* tasks come between them.                                                *)
(*                                                                         *)
(* A status is the number of the set_status call that set it, and 0 what a *)
(* service has before any (Serving for "", ServiceUnknown for the others), *)
(* so that it is visible which of two statuses is the newer one.           *)
(***************************************************************************)
EXTENDS Integers, SequencesExt

CONSTANTS
    Service,        \* service names
    Setter,         \* the tasks that call HealthHandle::set_status
    Watcher,        \* the Watch calls, each made once
    MaxSets,        \* bound: how many times set_status is called
    NoChannel       \* nobody has watched the service yet

ASSUME MaxSetsAssumption == MaxSets \in Nat /\ NoChannel \notin 0..MaxSets

VARIABLES
    sets,       \* history: how many calls of set_status there have been
    statuses,   \* HealthState::statuses
    channel,    \* HealthState::watchers: the value each channel holds
    setter,     \* what each setter's set_status has left to do
    watch,      \* where each Watch call is
    pending,    \* has the watcher's channel a value it has not seen?
    got,        \* history: the statuses each watcher has been sent
    dropped     \* history: the statuses whose set_status was dropped half-way

vars == <<sets, statuses, channel, setter, watch, pending, got, dropped>>

Stamp == 0..MaxSets

Idle == [at |-> "idle"]
Notifying(s, n) == [at |-> "notify", service |-> s, status |-> n]
SetterState == {Idle} \cup
    [at : {"notify"}, service : Service, status : Stamp]

(* `initial` is the status Watch has read; `mark` is history, the number   *)
(* of calls of set_status when the watcher subscribed.                     *)
WatchState == [at : {"uncalled", "subscribe", "open", "gone"},
               service : Service, initial : Stamp, mark : Stamp]

TypeOK ==
    /\ sets \in Stamp
    /\ statuses \in [Service -> Stamp]
    /\ channel \in [Service -> Stamp \cup {NoChannel}]
    /\ setter \in [Setter -> SetterState]
    /\ watch \in [Watcher -> WatchState]
    /\ pending \in [Watcher -> {"yes", "no"}]
    /\ got \in [Watcher -> Seq(Stamp)]
    /\ dropped \subseteq Stamp

(* A Watch call names its service.                                         *)
Init ==
    /\ sets = 0
    /\ statuses = [s \in Service |-> 0]
    /\ channel = [s \in Service |-> NoChannel]
    /\ setter = [p \in Setter |-> Idle]
    /\ watch \in [Watcher -> [at : {"uncalled"}, service : Service,
                              initial : {0}, mark : {0}]]
    /\ pending = [w \in Watcher |-> "no"]
    /\ got = [w \in Watcher |-> <<>>]
    /\ dropped = {}

Open(w) == watch[w].at = "open"
Receivers(s) == { w \in Watcher : Open(w) /\ watch[w].service = s }
-----------------------------------------------------------------------------
(* set_status, under the lock of `statuses`.                               *)
SetStatus(p, s) ==
    /\ setter[p] = Idle
    /\ sets < MaxSets
    /\ sets' = sets + 1
    /\ statuses' = [statuses EXCEPT ![s] = sets + 1]
    /\ setter' = [setter EXCEPT ![p] = Notifying(s, sets + 1)]
    /\ UNCHANGED <<channel, watch, pending, got, dropped>>

(* watch::Sender::send (external): without a receiver it fails and the     *)
(* channel keeps its old value.                                            *)
Send(s, n) ==
    /\ channel' = IF Receivers(s) = {} THEN channel ELSE [channel EXCEPT ![s] = n]
    /\ pending' = [w \in Watcher |-> IF w \in Receivers(s) THEN "yes" ELSE pending[w]]

(* Mutant of Notify: a lock that is busy is not waited for.                *)
NotifyTry(p) ==
    /\ setter[p].at = "notify"
    /\ \/ Send(setter[p].service, setter[p].status)
       \/ UNCHANGED <<channel, pending, dropped>>
    /\ setter' = [setter EXCEPT ![p] = Idle]
    /\ UNCHANGED <<sets, statuses, watch, got, dropped>>

(* set_status, under the lock of `watchers`.  That there is no channel and *)
(* that it has no receivers come to the same.                              *)
Notify(p) ==
    /\ setter[p].at = "notify"
    /\ Send(setter[p].service, setter[p].status)
    /\ setter' = [setter EXCEPT ![p] = Idle]
    /\ UNCHANGED <<sets, statuses, watch, got, dropped>>

(* The application drops the future of set_status while it waits for the   *)
(* lock of `watchers`: nobody is notified.                                 *)
Abandon(p) ==
    /\ setter[p].at = "notify"
    /\ setter' = [setter EXCEPT ![p] = Idle]
    /\ dropped' = dropped \cup {setter[p].status}
    /\ UNCHANGED <<sets, statuses, channel, watch, pending, got>>
-----------------------------------------------------------------------------
(* Check reads what is stored, under the lock of `statuses`.               *)
Check(s) == statuses[s]

(* Watch reads the status the channel will start with, should it have to   *)
(* create one.                                                             *)
CallWatch(w) ==
    /\ watch[w].at = "uncalled"
    /\ watch' = [watch EXCEPT ![w].at = "subscribe",
                              ![w].initial = statuses[watch[w].service]]
    /\ UNCHANGED <<sets, statuses, channel, setter, pending, got, dropped>>

(* Mutant of Subscribe: the channel is created anew although another watch *)
(* has created it since.                                                   *)
SubscribeReplaces(w) ==
    /\ watch[w].at = "subscribe"
    /\ channel' = [channel EXCEPT ![watch[w].service] = watch[w].initial]
    /\ watch' = [watch EXCEPT ![w].at = "open", ![w].mark = sets]
    /\ pending' = [pending EXCEPT ![w] = "yes"]
    /\ UNCHANGED <<sets, statuses, setter, got, dropped>>

(* Mutant of Subscribe: the status read earlier is sent to all watchers.   *)
SubscribeRefreshes(w) ==
    LET s == watch[w].service
    IN  /\ watch[w].at = "subscribe"
        /\ channel' = [channel EXCEPT ![s] = watch[w].initial]
        /\ watch' = [watch EXCEPT ![w].at = "open", ![w].mark = sets]
        /\ pending' = [v \in Watcher |->
                          IF v = w \/ v \in Receivers(s) THEN "yes" ELSE pending[v]]
        /\ UNCHANGED <<sets, statuses, setter, got, dropped>>

(* Watch, under the lock of `watchers`: a channel that exists is joined as *)
(* it is; otherwise it is created with the status read before.             *)
Subscribe(w) ==
    LET s == watch[w].service
    IN  /\ watch[w].at = "subscribe"
        /\ channel' = [channel EXCEPT
                          ![s] = IF @ = NoChannel THEN watch[w].initial ELSE @]
        /\ watch' = [watch EXCEPT ![w].at = "open", ![w].mark = sets]
        /\ pending' = [pending EXCEPT ![w] = "yes"]
        /\ UNCHANGED <<sets, statuses, setter, got, dropped>>

(* WatchStream (external) yields the value the channel holds, at first and *)
(* whenever there is one it has not seen.  What came in between is lost.   *)
Deliver(w) ==
    /\ Open(w)
    /\ pending[w] = "yes"
    /\ got' = [got EXCEPT ![w] = Append(@, channel[watch[w].service])]
    /\ pending' = [pending EXCEPT ![w] = "no"]
    /\ UNCHANGED <<sets, statuses, channel, setter, watch, dropped>>

(* The client goes away and the call's future or stream is dropped; the    *)
(* channel stays.                                                          *)
Leave(w) ==
    /\ watch[w].at \in {"subscribe", "open"}
    /\ watch' = [watch EXCEPT ![w].at = "gone"]
    /\ UNCHANGED <<sets, statuses, channel, setter, pending, got, dropped>>

Set(p) == Notify(p) \/ Abandon(p) \/ \E s \in Service : SetStatus(p, s)
Watch(w) == CallWatch(w) \/ Subscribe(w) \/ Deliver(w) \/ Leave(w)
Next == (\E p \in Setter : Set(p)) \/ (\E w \in Watcher : Watch(w))

Spec == Init /\ [][Next]_vars

(* Tasks are polled when a lock is free or a channel has changed.          *)
FairSpec ==
    /\ Spec
    /\ \A p \in Setter : WF_vars(Notify(p))
    /\ \A w \in Watcher : WF_vars(Subscribe(w)) /\ WF_vars(Deliver(w))
-----------------------------------------------------------------------------
Quiet(s) == \A p \in Setter : setter[p].at = "notify" => setter[p].service # s
CaughtUp(w) == Open(w) /\ pending[w] = "no"

(* A status was set after the watcher subscribed, and its set_status was   *)
(* not dropped half-way.                                                   *)
SetSince(w) ==
    /\ Check(watch[w].service) > watch[w].mark
    /\ Check(watch[w].service) \notin dropped

(***************************************************************************)
(* A watcher that has caught up was last sent what its service's channel   *)
(* holds: no two watchers of a service are left with different statuses,   *)
(* whoever created the channel (lib.rs:183-193).                           *)
(***************************************************************************)
WatchersAgree ==
    \A w \in Watcher : CaughtUp(w) =>
        got[w] # <<>> /\ Last(got[w]) = channel[watch[w].service]

(***************************************************************************)
(* Where one task sets the statuses, a watcher that has caught up with a   *)
(* status set after it subscribed has the one that Check reports, also     *)
(* after an earlier set_status was dropped half-way (lib.rs:76-91,         *)
(* 145-150).                                                               *)
(***************************************************************************)
LastSetSeen ==
    \A w \in Watcher :
        CaughtUp(w) /\ SetSince(w) /\ Quiet(watch[w].service) =>
            Last(got[w]) = Check(watch[w].service)

(***************************************************************************)
(* Where one task sets the statuses, no watcher is sent an older one after *)
(* a newer one, and none is ahead of Check (lib.rs:85-87, 145-150,         *)
(* 187-192).                                                               *)
(***************************************************************************)
NeverGoesBack ==
    \A w \in Watcher : \A i \in DOMAIN got[w] :
        /\ got[w][i] <= Check(watch[w].service)
        /\ \A j \in DOMAIN got[w] : i < j => got[w][i] <= got[w][j]

(***************************************************************************)
(* Where one task sets the statuses, a status set after the watcher has    *)
(* subscribed reaches it, unless a newer one does, its set_status is       *)
(* dropped half-way or the watcher leaves (lib.rs:86-87).                  *)
(***************************************************************************)
LatestArrives ==
    \A w \in Watcher :
        Open(w) /\ SetSince(w) ~>
            \/ ~Open(w) \/ ~SetSince(w)
            \/ got[w] # <<>> /\ Last(got[w]) = Check(watch[w].service)
=============================================================================
