----------------------------- MODULE MqttSession -----------------------------
(***************************************************************************)
(* The MQTT subscriptions of one service: its topic wake-ups, the fanout   *)
(* that shares a topic between them (topic_wakeup.py), and the record of   *)
(* every subscription that outlives a node's restart and a refused SUBACK  *)
(* (subscriptions.py).                                                     *)
(*                                                                         *)
(* A wake-up is used by the thread of its consumer.  Between the fanout's  *)
(* lock and the broker calls made outside it, and between the lock of      *)
(* Subscriptions and the client's subscribe, every other thread may run:   *)
(* those of other wake-ups, the network thread with its reconnects and     *)
(* SUBACKs, and the timer of a refused subscription.  The bells that ring  *)
(* after a rebind, a reconnect and a message are StreamConsumer's.         *)
(***************************************************************************)
EXTENDS Naturals, Sequences, FiniteSets

CONSTANTS
  Wakeups,      \* the wake-ups wake_on() handed out, one consumer thread each
  Topics,       \* topics a consumer may read
  Net,          \* paho's network thread
  Keeps,        \* whether a lost link may return with its session
  MaxRebinds,   \* bound: changed sets of topics
  MaxDrops,     \* bound: lost links
  MaxRefusals   \* bound: SUBSCRIBEs the broker refuses

ASSUME SessionAssumption ==
  /\ Net \notin Wakeups \cup Topics
  /\ Wakeups \cap Topics = {} /\ IsFiniteSet(Wakeups) /\ IsFiniteSet(Topics)
  /\ Keeps \in BOOLEAN
  /\ {MaxRebinds, MaxDrops, MaxRefusals} \subseteq Nat

VARIABLES
  wanted,     \* wakeup -> TopicWakeup._topics
  closed,     \* the wake-ups with _closed
  adds,       \* wakeup -> topics this call has still to add to the fanout
  removes,    \* wakeup -> topics it has then to remove
  holders,    \* topic -> TopicFanout._wanted
  callback,   \* topics with a message callback on the client
  held,       \* Subscriptions._held
  pending,    \* Subscriptions._pending: <<mid, topic>> still to be answered
  timers,     \* Subscriptions._timers
  doing,      \* thread -> the step of a broker call it is in, outside the locks
  up,         \* whether the link to the broker stands
  connect,    \* what on_connect still has to do: "no", "fresh", "restoring", "kept"
  restoring,  \* topics restore() has still to renew
  out,        \* packets on their way to the broker
  acks,       \* SUBACKs on their way back
  subs,       \* the broker's subscriptions of this session
  missed,     \* <<topic, why>>: a step the code does not make good (see Missed)
  rebinds, drops, refusals

threads == <<wanted, closed, adds, removes>>
fanout == <<holders, callback>>
record == <<held, pending, timers>>
wire == <<up, out, acks, subs>>
network == <<connect, restoring>>
counters == <<rebinds, drops, refusals>>
sessionVars == <<threads, fanout, record, doing, wire, network, missed, counters>>

\* A timer runs in a thread of its own, named by its topic.
Actors == Wakeups \cup {Net} \cup Topics
Idle == [at |-> "idle"]
At(a, step, t) == [at |-> step, topic |-> t]
Is(a, step) == doing[a].at = step
Then(a, what) == doing' = [doing EXCEPT ![a] = what]

\* More message ids than can be in use.
Mids == 1 .. Len(out) + Len(acks) + Cardinality(Actors) + 1
InFlight(m) == \E i \in 1 .. Len(out) : out[i].op = "sub" /\ out[i].mid = m
Answered(m) == \E i \in 1 .. Len(acks) : acks[i].mid = m
FreeMids == {m \in Mids : /\ ~InFlight(m) /\ ~Answered(m)
                          /\ \A a \in Actors : Is(a, "register") => doing[a].mid # m}
NewMid == CHOOSE m \in FreeMids : TRUE

SessionInit ==
  /\ wanted = [w \in Wakeups |-> {}] /\ closed = {}
  /\ adds = [w \in Wakeups |-> {}] /\ removes = [w \in Wakeups |-> {}]
  /\ holders = [t \in Topics |-> {}] /\ callback = {}
  /\ held = {} /\ pending = {} /\ timers = {} /\ doing = [a \in Actors |-> Idle]
  /\ up = TRUE /\ connect = "no" /\ restoring = {} /\ out = <<>> /\ acks = <<>> /\ subs = {}
  /\ missed = {} /\ rebinds = 0 /\ drops = 0 /\ refusals = 0

(***************************************************************************)
(* What the code does not make good: a topic let go while another wake-up  *)
(* takes it ("overlap"), a packet lost with the link when the session      *)
(* survives it ("link"), a refusal that arrives before its SUBSCRIBE is    *)
(* recorded ("suback"), and a renewal overtaken by an unsubscribe          *)
(* ("renew").  A new session makes "link" and "suback" good; taking the    *)
(* topic anew makes any of them good.                                      *)
(***************************************************************************)
MissIf(bad, t, why) == missed' = IF bad THEN missed \cup {<<t, why>>} ELSE missed
Missed == {pair[1] : pair \in missed}
-----------------------------------------------------------------------------
(***************************************************************************)
(* A wake-up's thread                                                      *)
(***************************************************************************)
Returned(w) == adds[w] = {} /\ removes[w] = {} /\ Is(w, "idle")

\* TopicWakeup.rebind and close: the sets change under the wake-up's lock.
Rebind(w, topics) ==
  /\ Returned(w) /\ w \notin closed /\ topics # wanted[w] /\ rebinds < MaxRebinds
  /\ rebinds' = rebinds + 1
  /\ wanted' = [wanted EXCEPT ![w] = topics]
  /\ adds' = [adds EXCEPT ![w] = topics \ wanted[w]]
  /\ removes' = [removes EXCEPT ![w] = wanted[w] \ topics]
  /\ UNCHANGED <<closed, fanout, record, doing, wire, network, missed, drops, refusals>>

Close(w) ==
  /\ Returned(w) /\ w \notin closed /\ rebinds < MaxRebinds
  /\ rebinds' = rebinds + 1
  /\ closed' = closed \cup {w}
  /\ wanted' = [wanted EXCEPT ![w] = {}]
  /\ removes' = [removes EXCEPT ![w] = wanted[w]]
  /\ UNCHANGED <<adds, fanout, record, doing, wire, network, missed, drops, refusals>>

\* A thread that let the last hold on t go has still to tell the broker.
LettingGo(t) ==
  \E a \in Actors : doing[a].at \in {"uncall", "let", "unsubscribe"} /\ doing[a].topic = t

\* TopicFanout.add: the first holder of a topic subscribes it, after the lock.
FanoutAdd(w, t) ==
  /\ Is(w, "idle") /\ t \in adds[w]
  /\ adds' = [adds EXCEPT ![w] = @ \ {t}]
  /\ holders' = [holders EXCEPT ![t] = @ \cup {w}]
  /\ IF holders[t] = {}
       THEN /\ Then(w, At(w, "callback", t))
            /\ missed' = {pair \in missed : pair[1] # t} \cup
                         IF LettingGo(t) THEN {<<t, "overlap">>} ELSE {}
       ELSE UNCHANGED <<doing, missed>>
  /\ UNCHANGED <<wanted, closed, removes, callback, record, wire, network, counters>>

\* A plausible slip: whoever lets a topic go unsubscribes it.
RemoveForAll(w, t) ==
  /\ Is(w, "idle") /\ adds[w] = {} /\ t \in removes[w]
  /\ removes' = [removes EXCEPT ![w] = @ \ {t}]
  /\ holders' = [holders EXCEPT ![t] = @ \ {w}]
  /\ Then(w, At(w, "uncall", t))
  /\ UNCHANGED <<wanted, closed, adds, callback, record, wire, network, missed, counters>>

\* TopicFanout.remove: the last holder unsubscribes it, after the lock.
FanoutRemove(w, t) ==
  /\ Is(w, "idle") /\ adds[w] = {} /\ t \in removes[w]
  /\ removes' = [removes EXCEPT ![w] = @ \ {t}]
  /\ holders' = [holders EXCEPT ![t] = @ \ {w}]
  /\ IF holders[t] = {w} THEN Then(w, At(w, "uncall", t)) ELSE UNCHANGED doing
  /\ UNCHANGED <<wanted, closed, adds, callback, record, wire, network, missed, counters>>

-----------------------------------------------------------------------------
(***************************************************************************)
(* The steps of a subscribe and of an unsubscribe, in whichever thread     *)
(***************************************************************************)
CallbackAdd(a) ==
  /\ Is(a, "callback")
  /\ callback' = callback \cup {doing[a].topic}
  /\ Then(a, At(a, "hold", doing[a].topic))
  /\ UNCHANGED <<threads, holders, record, wire, network, missed, counters>>

\* tracked_subscribe: the topic is held, under the lock.
Hold(a) ==
  /\ Is(a, "hold")
  /\ held' = held \cup {doing[a].topic}
  /\ MissIf(a \notin Wakeups /\ doing[a].topic \notin held, doing[a].topic, "renew")
  /\ Then(a, At(a, "send", doing[a].topic))
  /\ UNCHANGED <<threads, fanout, pending, timers, wire, network, counters>>

\* client.subscribe: without a link paho sends nothing and returns no mid.
SendSubscribe(a) ==
  LET t == doing[a].topic IN
  /\ Is(a, "send")
  /\ missed' = missed \cup (IF a \notin Wakeups /\ t \notin held THEN {<<t, "renew">>} ELSE {})
                      \cup (IF up THEN {} ELSE {<<t, "link">>})
  /\ IF up THEN /\ out' = Append(out, [op |-> "sub", topic |-> t, mid |-> NewMid])
                /\ Then(a, [at |-> "register", topic |-> t, mid |-> NewMid])
           ELSE Then(a, Idle) /\ UNCHANGED out
  /\ UNCHANGED <<threads, fanout, record, up, acks, subs, network, counters>>

\* _sent: the mid is recorded once subscribe returned.  One nobody will answer
\* any more, because its SUBACK came first or was lost, is left out: its entry
\* is read by no one.
Register(a) ==
  LET m == doing[a].mid IN
  /\ Is(a, "register")
  /\ pending' = IF InFlight(m) \/ Answered(m) THEN pending \cup {<<m, doing[a].topic>>} ELSE pending
  /\ Then(a, Idle)
  /\ UNCHANGED <<threads, fanout, held, timers, wire, network, missed, counters>>

CallbackRemove(a) ==
  LET t == doing[a].topic IN
  /\ Is(a, "uncall")
  /\ callback' = callback \ {t}
  /\ Then(a, At(a, "let", t))
  /\ UNCHANGED <<threads, holders, record, wire, network, missed, counters>>

\* A plausible slip: the retry of a refused SUBSCRIBE is not cancelled.
LetGoOnly(a) ==
  LET t == doing[a].topic IN
  /\ Is(a, "let")
  /\ held' = held \ {t}
  /\ Then(a, At(a, "unsubscribe", t))
  /\ UNCHANGED <<threads, fanout, pending, timers, wire, network, missed, counters>>

\* tracked_unsubscribe: the topic and its retry are dropped, under the lock.
LetGo(a) ==
  LET t == doing[a].topic IN
  /\ Is(a, "let")
  /\ held' = held \ {t}
  /\ timers' = timers \ {t}
  /\ Then(a, At(a, "unsubscribe", t))
  /\ UNCHANGED <<threads, fanout, pending, wire, network, missed, counters>>

SendUnsubscribe(a) ==
  LET t == doing[a].topic IN
  /\ Is(a, "unsubscribe")
  /\ MissIf(~up, t, "link")
  /\ out' = IF up THEN Append(out, [op |-> "unsub", topic |-> t]) ELSE out
  /\ Then(a, Idle)
  /\ UNCHANGED <<threads, fanout, record, up, acks, subs, network, counters>>

\* renew: looks under the lock whether the topic is held, subscribes after it.
Renew(a) ==
  LET t == doing[a].topic IN
  /\ Is(a, "renew")
  /\ timers' = timers \ {t}
  /\ IF t \in held THEN Then(a, At(a, "hold", t)) ELSE Then(a, Idle)
  /\ UNCHANGED <<threads, fanout, held, pending, wire, network, missed, counters>>

\* The timer of a refused subscription fires.
TimerFires(t) ==
  /\ t \in timers /\ Is(t, "idle")
  /\ Then(t, At(t, "renew", t))
  /\ UNCHANGED <<threads, fanout, record, wire, network, missed, counters>>
-----------------------------------------------------------------------------
(***************************************************************************)
(* The broker and the network thread                                       *)
(***************************************************************************)
Unanswered == {t \in Topics : \/ \E i \in 1 .. Len(out) : out[i].topic = t
                              \/ \E i \in 1 .. Len(acks) : acks[i].topic = t /\ acks[i].refused}

LinkDrops ==
  /\ up /\ drops < MaxDrops
  /\ drops' = drops + 1
  /\ up' = FALSE /\ out' = <<>> /\ acks' = <<>> /\ pending' = {}
  /\ missed' = missed \cup (Unanswered \X {"link"})
  /\ UNCHANGED <<threads, fanout, held, timers, doing, subs, network, rebinds, refusals>>

\* CONNACK.  A node that restarted has forgotten the session.
LinkReturns(kept) ==
  /\ ~up /\ connect = "no" /\ Is(Net, "idle")
  /\ kept => Keeps
  /\ up' = TRUE
  /\ connect' = IF kept THEN "kept" ELSE "fresh"
  /\ subs' = IF kept THEN subs ELSE {}
  /\ missed' = IF kept THEN missed ELSE {pair \in missed : pair[2] \notin {"link", "suback"}}
  /\ UNCHANGED <<threads, fanout, record, doing, out, acks, restoring, counters>>

\* A plausible slip: a new session is taken for the old one.
RestoreNothing ==
  /\ connect = "fresh"
  /\ connect' = "restoring"
  /\ UNCHANGED <<threads, fanout, record, doing, restoring, wire, missed, counters>>

\* restore: every held topic is renewed, one after the other.
Restore ==
  /\ connect = "fresh"
  /\ connect' = "restoring"
  /\ restoring' = held
  /\ UNCHANGED <<threads, fanout, record, doing, wire, missed, counters>>

RestoreNext(t) ==
  /\ connect = "restoring" /\ Is(Net, "idle") /\ t \in restoring
  /\ restoring' = restoring \ {t}
  /\ Then(Net, At(Net, "renew", t))
  /\ UNCHANGED <<threads, fanout, record, wire, connect, missed, counters>>

\* The rest of on_connect.
Reconnected ==
  /\ connect \in {"restoring", "kept"} /\ Is(Net, "idle") /\ restoring = {}
  /\ connect' = "no"
  /\ UNCHANGED <<threads, fanout, record, doing, wire, restoring, missed, counters>>

\* mochi refuses a SUBSCRIBE whose mid is one of its own deliveries in flight.
Broker(refused) ==
  /\ up /\ out # <<>>
  /\ out' = Tail(out)
  /\ IF Head(out).op = "unsub"
       THEN ~refused /\ subs' = subs \ {Head(out).topic} /\ UNCHANGED <<acks, refusals>>
       ELSE /\ refused => refusals < MaxRefusals
            /\ refusals' = IF refused THEN refusals + 1 ELSE refusals
            /\ subs' = IF refused THEN subs ELSE subs \cup {Head(out).topic}
            /\ acks' = Append(acks, [topic |-> Head(out).topic, mid |-> Head(out).mid, refused |-> refused])
  /\ UNCHANGED <<threads, fanout, record, doing, up, network, missed, rebinds, drops>>

\* _on_subscribe: an accepted topic needs no timer, a refused one gets one.
ReadSuback ==
  LET ack == Head(acks)
      known == <<ack.mid, ack.topic>> \in pending
  IN
  /\ acks # <<>> /\ connect = "no"
  /\ acks' = Tail(acks)
  /\ pending' = pending \ {<<ack.mid, ack.topic>>}
  /\ timers' = IF ~known \/ ack.topic \notin held THEN timers
               ELSE IF ack.refused THEN timers \cup {ack.topic} ELSE timers \ {ack.topic}
  /\ MissIf(ack.refused /\ ~known, ack.topic, "suback")
  /\ UNCHANGED <<threads, fanout, held, doing, up, out, subs, network, counters>>

-----------------------------------------------------------------------------
Call(a) == \/ CallbackAdd(a) \/ Hold(a) \/ SendSubscribe(a) \/ Register(a)
           \/ CallbackRemove(a) \/ LetGo(a) \/ SendUnsubscribe(a) \/ Renew(a)

Consumer(w) == \E t \in Topics : FanoutAdd(w, t) \/ FanoutRemove(w, t)

Network == Restore \/ (\E t \in Topics : RestoreNext(t)) \/ Reconnected \/ ReadSuback

SessionNext ==
  \/ \E w \in Wakeups, topics \in SUBSET Topics : Rebind(w, topics)
  \/ \E w \in Wakeups : Close(w) \/ Consumer(w)
  \/ \E a \in Actors : Call(a)
  \/ \E t \in Topics : TimerFires(t)
  \/ \E b \in BOOLEAN : LinkReturns(b) \/ Broker(b)
  \/ LinkDrops
  \/ Network

SessionSpec == SessionInit /\ [][SessionNext]_sessionVars

\* Threads that can go on do, timers fire, and the broker answers and comes back.
SessionFairness ==
  /\ \A w \in Wakeups : WF_sessionVars(Consumer(w))
  /\ \A a \in Actors : WF_sessionVars(Call(a))
  /\ \A t \in Topics : WF_sessionVars(TimerFires(t))
  /\ WF_sessionVars(Network)
  /\ WF_sessionVars(\E b \in BOOLEAN : Broker(b))
  /\ WF_sessionVars(\E b \in BOOLEAN : LinkReturns(b))

SessionFairSpec == SessionSpec /\ SessionFairness
-----------------------------------------------------------------------------
\* The wake-ups and the fanout.
ThreadsOK ==
  /\ wanted \in [Wakeups -> SUBSET Topics] /\ closed \subseteq Wakeups
  /\ adds \in [Wakeups -> SUBSET Topics] /\ removes \in [Wakeups -> SUBSET Topics]
  /\ holders \in [Topics -> SUBSET Wakeups] /\ callback \subseteq Topics
  /\ missed \subseteq Topics \X {"overlap", "link", "suback", "renew"}

\* The broker calls; only a wake-up's thread starts with the callback.
Steps == {"callback", "hold", "send", "uncall", "let", "unsubscribe", "renew"}

Calls == {Idle} \cup [at : Steps, topic : Topics]
                \cup [at : {"register"}, topic : Topics, mid : Nat \ {0}]

CallsOK ==
  /\ doing \in [Actors -> Calls]
  /\ \A w \in Wakeups : ~Is(w, "renew")
  /\ \A a \in Actors \ Wakeups : doing[a].at \in {"idle", "renew", "hold", "send", "register"}

\* The record of the subscriptions.
RecordOK ==
  /\ held \subseteq Topics /\ pending \subseteq (Nat \ {0}) \X Topics
  /\ timers \subseteq held

\* The wire: nothing is on it while the link is down.
WireOK ==
  /\ up \in BOOLEAN /\ connect \in {"no", "fresh", "restoring", "kept"}
  /\ restoring \subseteq Topics /\ subs \subseteq Topics
  /\ restoring # {} => connect = "restoring"
  /\ out \in Seq([op : {"sub"}, topic : Topics, mid : Nat \ {0}] \cup [op : {"unsub"}, topic : Topics])
  /\ acks \in Seq([topic : Topics, mid : Nat \ {0}, refused : BOOLEAN])
  /\ up \/ (out = <<>> /\ acks = <<>>)
  /\ {rebinds, drops, refusals} \subseteq Nat

\* The variables have their types, and a retry waits only for a topic the
\* service still holds (subscriptions.py, tracked_unsubscribe).
SessionTypeOK == ThreadsOK /\ CallsOK /\ RecordOK /\ WireOK

\* Nothing is under way for a topic: no call, packet, SUBACK, retry or restore.
Resting(t) ==
  /\ up /\ connect = "no" /\ t \notin timers
  /\ \A a \in Actors : Is(a, "idle") \/ doing[a].topic # t
  /\ \A i \in 1 .. Len(out) : out[i].topic # t
  /\ \A i \in 1 .. Len(acks) : acks[i].topic # t

\* What the service holds is what its wake-ups want: once nothing is under way
\* for a topic, it has a callback, is recorded and is subscribed at the broker
\* exactly if a wake-up wants it, whatever was refused, lost, restored or
\* retried meanwhile.  The four ways to miss it are the ones Missed names.
Settled ==
  \A t \in Topics : Resting(t) /\ t \notin Missed =>
    /\ t \in callback <=> holders[t] # {}
    /\ t \in held <=> holders[t] # {}
    /\ t \in subs <=> holders[t] # {}

\* A topic that is wanted is heard in the end: a refused SUBSCRIBE is retried
\* until it is accepted, and a new session gets every topic again
\* (subscriptions.py, _on_subscribe and restore).
WantedIsHeard ==
  \A t \in Topics : holders[t] # {} ~>
    \/ t \in callback \cap subs
    \/ holders[t] = {}
    \/ t \in Missed

=============================================================================
