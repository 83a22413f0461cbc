------------------------------ MODULE AdvRelay ------------------------------
(***************************************************************************)
(* What the advertisement table promises the relaying tasks, without its   *)
(* elements and lists: the table remembers the latest accepted report of   *)
(* at most MAX_ADVS_TABLE sensors, and for every relaying target the set   *)
(* of sensors whose latest report that target has not read.  A read gets   *)
(* exactly those reports, each sensor once, each in its latest version.    *)
(***************************************************************************)
EXTENDS Integers, FiniteSets

CONSTANTS MAX_ADVS_TABLE, Mac, Data, ExtData, NoData, Target, MqttTarget

VARIABLES
    cached,  \* cached[m]: latest accepted report of m, or NoData
    due,     \* due[t]: sensors target t has to read
    batch    \* the reports the latest call handed to a target

rvars == <<cached, due, batch>>

RelayTypeOK ==
    /\ cached \in [Mac -> Data \cup {NoData}]
    /\ due \in [Target -> SUBSET Mac]
    /\ batch \subseteq [mac : Mac, data : Data]

RelayInit ==
    /\ cached = [m \in Mac |-> NoData]
    /\ due = [t \in Target |-> {}]
    /\ batch = {}

Known == {m \in Mac : cached[m] # NoData}

Stale(new, prev) == prev = new \/ (prev \in ExtData /\ new \notin ExtData)

(* A new report of m; v is the sensor that loses its place, m itself when  *)
(* no other has to go.                                                     *)
Accept(m, d, v) ==
    /\ ~Stale(d, cached[m])
    /\ v # m => cached[m] = NoData /\ Cardinality(Known) = MAX_ADVS_TABLE /\ v \in Known
    /\ v = m => m \in Known \/ Cardinality(Known) < MAX_ADVS_TABLE
    /\ cached' = [x \in Mac |-> IF x = m THEN d ELSE IF x = v THEN NoData ELSE cached[x]]
    /\ due' = [t \in Target |-> (due[t] \ {v}) \cup {m}]
    /\ batch' = {}

Repeat(m, d) ==
    /\ Stale(d, cached[m])
    /\ batch' = {}
    /\ UNCHANGED <<cached, due>>

Batch(S) == {[mac |-> m, data |-> cached[m]] : m \in S}

Deliver(t, S) ==
    /\ S \subseteq due[t]
    /\ batch' = Batch(S)
    /\ due' = [due EXCEPT ![t] = @ \ S]
    /\ UNCHANGED cached

DeliverAll(t) == Deliver(t, due[t])
DeliverOne == \E m \in due[MqttTarget] : Deliver(MqttTarget, {m})

Forget ==
    /\ cached' = [m \in Mac |-> NoData]
    /\ due' = [t \in Target |-> {}]
    /\ batch' = {}

(* Statistics and history reads hand nothing to a target.                  *)
Query == batch' = {} /\ UNCHANGED <<cached, due>>

RelayNext ==
    \/ \E m, v \in Mac, d \in Data : Accept(m, d, v)
    \/ \E m \in Mac, d \in Data : Repeat(m, d)
    \/ \E t \in Target : DeliverAll(t)
    \/ DeliverOne
    \/ Forget
    \/ Query

RelaySpec == RelayInit /\ [][RelayNext]_rvars

(* What this means for a target.  Only known sensors are due, and no more  *)
(* of them are known than the table has room for.                          *)
DueAreKnown ==
    /\ \A t \in Target : due[t] \subseteq Known
    /\ Cardinality(Known) <= MAX_ADVS_TABLE

(* A sensor is due until its latest report is handed over: only losing its *)
(* place in the table takes it from a target before that.                  *)
LosesNothing ==
    \A t \in Target, m \in Mac :
        m \in due[t] /\ m \notin due'[t] =>
          [mac |-> m, data |-> cached[m]] \in batch' \/ cached'[m] = NoData

NothingLost == [][LosesNothing]_rvars

(* What is handed over is the latest report of a sensor that was due for   *)
(* the target and no longer is: no target gets a report twice.             *)
HandsOverDue ==
    \A r \in batch' :
        /\ r.data = cached[r.mac]
        /\ \E t \in Target : r.mac \in due[t] /\ r.mac \notin due'[t]

HandedOnce == [][HandsOverDue]_rvars

(* A new report of a sensor makes it due for every target.                 *)
MakesDue ==
    \A t \in Target, m \in Mac : cached'[m] \notin {cached[m], NoData} => m \in due'[t]

NewsIsDue == [][MakesDue]_rvars
=============================================================================
