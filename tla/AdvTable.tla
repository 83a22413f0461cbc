------------------------------ MODULE AdvTable ------------------------------
(***************************************************************************)
(* The table of received BLE advertisements (src/main/adv_table.c).        *)
(*                                                                         *)
(* A fixed array of elements holds the latest report of each sensor.  The  *)
(* same elements are threaded through four kinds of intrusive lists:       *)
(*   - the hash table, which finds the element of a MAC address;           *)
(*   - the retransmission lists, one per relaying target (1: Ruuvi cloud   *)
(*     over HTTP, 2: custom HTTP server, 3: MQTT), of elements whose       *)
(*     latest report has not been handed to that target yet;               *)
(*   - the history list, of ALL elements, most recently updated first.     *)
(* Every public function holds gp_adv_reports_mutex from its first line to *)
(* its last, so each is one atomic action here.  Callers are the UART      *)
(* receive task (put), the adv_post and adv_mqtt tasks (retransmission     *)
(* reads, statistics, clear) and the HTTP server task (history).           *)
(***************************************************************************)
EXTENDS Integers, Sequences, FiniteSets

CONSTANTS
    MAX_ADVS_TABLE,  \* number of elements of g_arr_of_adv_reports
    Mac,             \* sensor addresses
    NoMac,           \* the all-zero tag_mac of an element never used
    Data,            \* advertisement payloads (data_len together with data_buf)
    ExtData,         \* those longer than BLE_MAX_REGULAR_ADV_DATA_LEN
    NoData,          \* data_len = 0: the element is free
    Target,          \* the retransmission lists
    MqttTarget,      \* the list whose head adv_mqtt reads one by one
    Bucket,          \* indices of g_adv_hash_table
    Hash,            \* adv_report_calc_hash(mac) % ADV_TABLE_HASH_SIZE
    MaxTime,         \* bound: last value of the timestamp source
    MaxSamples       \* bound: reports of one sensor between two statistics

ASSUME TableAssumption == MAX_ADVS_TABLE \in Nat \ {0}
ASSUME DataAssumption ==
    /\ ExtData \subseteq Data
    /\ NoData \notin Data
    /\ NoMac \notin Mac
ASSUME TargetAssumption == MqttTarget \in Target
ASSUME HashAssumption == Hash \in [Mac -> Bucket]
ASSUME BoundAssumption == MaxTime \in Nat /\ MaxSamples \in Nat

Elem == 1 .. MAX_ADVS_TABLE

VARIABLES
    tag_mac,          \* tag_mac[e]: address in the report of element e
    timestamp,        \* timestamp[e]
    samples_counter,  \* samples_counter[e]
    data_buf,         \* data_buf[e], or NoData when data_len = 0
    is_in_hash_table, \* the element's own flag
    hash_table,       \* hash_table[b]: elements chained in bucket b
    is_in_list,       \* is_in_list[t][e]: is_in_retransmission_list<t>
    list,             \* list[t]: g_adv_reports_retransmission_list<t>
    hist_list,        \* g_adv_reports_hist_list, head first
    clock,            \* source of timestamps: time() or the counter of advs
    out               \* what the latest call returned

report == <<tag_mac, timestamp, samples_counter, data_buf>>
hash   == <<is_in_hash_table, hash_table>>
lists  == <<is_in_list, list>>
vars   == <<report, hash, lists, hist_list, clock, out>>

TypeOK ==
    /\ tag_mac \in [Elem -> Mac \cup {NoMac}]
    /\ timestamp \in [Elem -> Nat]
    /\ samples_counter \in [Elem -> Nat]
    /\ data_buf \in [Elem -> Data \cup {NoData}]
    /\ is_in_hash_table \in [Elem -> BOOLEAN]
    /\ hash_table \in [Bucket -> SUBSET Elem]
    /\ is_in_list \in [Target -> [Elem -> BOOLEAN]]
    /\ list \in [Target -> Seq(Elem)]
    /\ hist_list \in [Elem -> Elem]
    /\ clock \in Nat

(***************************************************************************)
(* adv_table_init: memset of the array, every element free and chained in  *)
(* the history list in array order.                                        *)
(***************************************************************************)
Init ==
    /\ tag_mac = [e \in Elem |-> NoMac]
    /\ timestamp = [e \in Elem |-> 0]
    /\ samples_counter = [e \in Elem |-> 0]
    /\ data_buf = [e \in Elem |-> NoData]
    /\ is_in_hash_table = [e \in Elem |-> FALSE]
    /\ hash_table = [b \in Bucket |-> {}]
    /\ is_in_list = [t \in Target |-> [e \in Elem |-> FALSE]]
    /\ list = [t \in Target |-> << >>]
    /\ hist_list = [i \in Elem |-> i]
    /\ clock = 0
    /\ out = [op |-> "init"]

-----------------------------------------------------------------------------
(* Helpers of adv_table_put_unsafe.                                        *)

(* adv_hash_table_search: the elements of m's bucket with address m; the   *)
(* code returns the first one and HashUnique says there is at most one.    *)
adv_hash_table_search(m) == {e \in hash_table[Hash[m]] : tag_mac[e] = m}

(* Mutant: the reused element stays chained under its old address.         *)
NoHashRemove(e) == hash_table

(* adv_hash_table_remove, from the bucket of the address the element still *)
(* holds; a no-op for an element that is not chained.                      *)
adv_hash_table_remove(e) ==
    IF is_in_hash_table[e]
    THEN [hash_table EXCEPT ![Hash[tag_mac[e]]] = @ \ {e}]
    ELSE hash_table

(* adv_hash_table_add, after the report of e was overwritten with m's.     *)
adv_hash_table_add(table, e, m) == [table EXCEPT ![Hash[m]] = @ \cup {e}]

(* adv_table_check_if_adv_must_be_discarded: the same payload again, or a  *)
(* regular advertisement after an extended one.                            *)
adv_must_be_discarded(new, prev) ==
    \/ prev = new
    \/ prev \in ExtData /\ new \notin ExtData

(* Mutant: the element before position i is skipped by the move.           *)
MoveToHeadOffByOne(s, i) ==
    [k \in Elem |-> IF k = 1 THEN s[i] ELSE IF k < i THEN s[k - 1] ELSE s[k]]

(* TAILQ_REMOVE and TAILQ_INSERT_HEAD of the element at position i.        *)
MoveToHead(s, i) ==
    [k \in Elem |-> IF k = 1 THEN s[i] ELSE IF k <= i THEN s[k - 1] ELSE s[k]]

PositionOf(e) == CHOOSE i \in Elem : hist_list[i] = e

(* Mutant: only an element that was free moves to the head.                *)
MarkUpdatedMovesNewOnly(e) ==
    /\ list' = [t \in Target |-> IF is_in_list[t][e] THEN list[t]
                                                     ELSE Append(list[t], e)]
    /\ is_in_list' = [t \in Target |-> [is_in_list[t] EXCEPT ![e] = TRUE]]
    /\ hist_list' = IF data_buf[e] = NoData
                       THEN MoveToHead(hist_list, PositionOf(e))
                       ELSE hist_list

(* The tail of adv_table_put_unsafe for an updated element: append it to   *)
(* every list it is not in, and make it the head of the history.           *)
MarkUpdated(e) ==
    /\ list' = [t \in Target |-> IF is_in_list[t][e] THEN list[t]
                                                     ELSE Append(list[t], e)]
    /\ is_in_list' = [t \in Target |-> [is_in_list[t] EXCEPT ![e] = TRUE]]
    /\ hist_list' = MoveToHead(hist_list, PositionOf(e))

(* *p_elem = *p_adv, the parsed report carrying samples_counter n.         *)
WriteReport(e, m, d, n) ==
    /\ tag_mac' = [tag_mac EXCEPT ![e] = m]
    /\ timestamp' = [timestamp EXCEPT ![e] = clock]
    /\ samples_counter' = [samples_counter EXCEPT ![e] = n]
    /\ data_buf' = [data_buf EXCEPT ![e] = d]

-----------------------------------------------------------------------------
(* adv_table_put, one action per branch.                                   *)

(* Mutant: the most recently updated element is reused.                    *)
PutNewReusesHead(m, d) ==
    LET e == hist_list[1]
    IN  /\ adv_hash_table_search(m) = {}
        /\ hash_table' = adv_hash_table_add(adv_hash_table_remove(e), e, m)
        /\ is_in_hash_table' = [is_in_hash_table EXCEPT ![e] = TRUE]
        /\ WriteReport(e, m, d, 0)
        /\ MarkUpdated(e)
        /\ out' = [op |-> "put", updated |-> TRUE]
        /\ UNCHANGED clock

(* The address is unknown: reuse the least recently updated element.       *)
PutNew(m, d) ==
    LET e == hist_list[MAX_ADVS_TABLE]
    IN  /\ adv_hash_table_search(m) = {}
        /\ hash_table' = adv_hash_table_add(adv_hash_table_remove(e), e, m)
        /\ is_in_hash_table' = [is_in_hash_table EXCEPT ![e] = TRUE]
        /\ WriteReport(e, m, d, 0)
        /\ MarkUpdated(e)
        /\ out' = [op |-> "put", updated |-> TRUE]
        /\ UNCHANGED clock

(* Mutant: copying the report loses the counter kept in the element.       *)
PutUpdateLosesCounter(m, d) ==
    \E e \in adv_hash_table_search(m) :
        /\ ~adv_must_be_discarded(d, data_buf[e])
        /\ WriteReport(e, m, d, 0)
        /\ MarkUpdated(e)
        /\ out' = [op |-> "put", updated |-> TRUE]
        /\ UNCHANGED <<hash, clock>>

(* The address is known and the report is not discarded.                   *)
PutUpdate(m, d) ==
    \E e \in adv_hash_table_search(m) :
        /\ ~adv_must_be_discarded(d, data_buf[e])
        /\ samples_counter[e] < MaxSamples
        /\ WriteReport(e, m, d, samples_counter[e] + 1)
        /\ MarkUpdated(e)
        /\ out' = [op |-> "put", updated |-> TRUE]
        /\ UNCHANGED <<hash, clock>>

(* Mutant: a discarded report refreshes the time but not the history.      *)
PutDiscardStamps(m, d) ==
    \E e \in adv_hash_table_search(m) :
        /\ adv_must_be_discarded(d, data_buf[e])
        /\ samples_counter[e] < MaxSamples
        /\ samples_counter' = [samples_counter EXCEPT ![e] = @ + 1]
        /\ timestamp' = [timestamp EXCEPT ![e] = clock]
        /\ out' = [op |-> "put", updated |-> FALSE]
        /\ UNCHANGED <<tag_mac, data_buf, hash, lists, hist_list, clock>>

(* Mutant: a discarded report is counted down.                             *)
PutDiscardCountsDown(m, d) ==
    \E e \in adv_hash_table_search(m) :
        /\ adv_must_be_discarded(d, data_buf[e])
        /\ samples_counter' = [samples_counter EXCEPT ![e] = @ - 1]
        /\ out' = [op |-> "put", updated |-> FALSE]
        /\ UNCHANGED <<tag_mac, timestamp, data_buf, hash, lists, hist_list,
                       clock>>

(* The address is known and the report is discarded: only counted.         *)
PutDiscard(m, d) ==
    \E e \in adv_hash_table_search(m) :
        /\ adv_must_be_discarded(d, data_buf[e])
        /\ samples_counter[e] < MaxSamples
        /\ samples_counter' = [samples_counter EXCEPT ![e] = @ + 1]
        /\ out' = [op |-> "put", updated |-> FALSE]
        /\ UNCHANGED <<tag_mac, timestamp, data_buf, hash, lists, hist_list,
                       clock>>

-----------------------------------------------------------------------------
(* Readers.                                                                *)

Adv(e) == [mac |-> tag_mac[e], data |-> data_buf[e]]

(* What the loop of adv_table_read_retransmission_list<t>_and_clear takes  *)
(* off the list: everything, except that it stops after dropping one       *)
(* element more than the caller's table can hold.                          *)
NumRemoved(t) ==
    IF Len(list[t]) <= MAX_ADVS_TABLE THEN Len(list[t]) ELSE MAX_ADVS_TABLE + 1

NumRead(t) ==
    IF Len(list[t]) <= MAX_ADVS_TABLE THEN Len(list[t]) ELSE MAX_ADVS_TABLE

ReadListAndClear(t) ==
    /\ out' = [op   |-> "list",
               target |-> t,
               advs |-> [i \in 1 .. NumRead(t) |-> Adv(list[t][i])]]
    /\ list' = [list EXCEPT ![t] = SubSeq(@, NumRemoved(t) + 1, Len(@))]
    /\ is_in_list' =
          [is_in_list EXCEPT
             ![t] = [e \in Elem |->
                       @[e] /\ \A i \in 1 .. NumRemoved(t) : list[t][i] # e]]
    /\ UNCHANGED <<report, hash, hist_list, clock>>

(* Mutant: the element leaves the list but keeps its flag.                 *)
ReadListHeadKeepsFlag ==
    /\ list[MqttTarget] # << >>
    /\ out' = [op |-> "list", target |-> MqttTarget,
               advs |-> <<Adv(Head(list[MqttTarget]))>>]
    /\ list' = [list EXCEPT ![MqttTarget] = Tail(@)]
    /\ UNCHANGED <<report, hash, is_in_list, hist_list, clock>>

(* adv_table_read_retransmission_list3_head.                               *)
ReadListHead ==
    /\ list[MqttTarget] # << >>
    /\ LET e == Head(list[MqttTarget])
       IN  /\ out' = [op |-> "list", target |-> MqttTarget, advs |-> <<Adv(e)>>]
           /\ is_in_list' = [is_in_list EXCEPT ![MqttTarget][e] = FALSE]
    /\ list' = [list EXCEPT ![MqttTarget] = Tail(@)]
    /\ UNCHANGED <<report, hash, hist_list, clock>>

(* A walk of the history list from its head that stops at the first        *)
(* element outside S: the number of elements visited.                      *)
WalkLen(S) ==
    CHOOSE n \in 0 .. MAX_ADVS_TABLE :
        /\ \A i \in 1 .. n : hist_list[i] \in S
        /\ n < MAX_ADVS_TABLE => hist_list[n + 1] \notin S

Walk(S) == {hist_list[i] : i \in 1 .. WalkLen(S)}

(* The loop conditions of adv_table_read_history_unsafe: occupied, and     *)
(* inside the filter, which is an age in seconds when reports carry        *)
(* timestamps and otherwise the counter value the client has seen.         *)
Occupied == {e \in Elem : data_buf[e] # NoData}
Recent(f) == {e \in Elem : clock - timestamp[e] <= f}
Newer(f)  == {e \in Elem : timestamp[e] - f > 0}

InWindow(use_timestamps, f) ==
    Occupied \cap (IF use_timestamps THEN Recent(f) ELSE Newer(f))

HistoryRead(use_timestamps, use_filter, f) ==
    LET S == IF use_filter THEN InWindow(use_timestamps, f) ELSE Occupied
    IN  /\ out' = [op   |-> "history",
                   advs |-> [i \in 1 .. WalkLen(S) |-> Adv(hist_list[i])]]
        /\ UNCHANGED <<report, hash, lists, hist_list, clock>>

(* adv_table_read_statistics_unsafe stops at a zero timestamp.             *)
Stamped == {e \in Elem : timestamp[e] # 0}

StatisticsRead ==
    /\ out' = [op   |-> "statistics",
               advs |-> [i \in 1 .. WalkLen(Stamped) |->
                           [mac |-> tag_mac[hist_list[i]],
                            cnt |-> samples_counter[hist_list[i]]]]]
    /\ samples_counter' =
          [e \in Elem |-> IF e \in Walk(Stamped) THEN 0 ELSE samples_counter[e]]
    /\ UNCHANGED <<tag_mac, timestamp, data_buf, hash, lists, hist_list, clock>>

(* Mutant: the elements are freed while still chained for retransmission.  *)
ClearKeepsLists ==
    /\ timestamp' = [e \in Elem |-> 0]
    /\ samples_counter' = [e \in Elem |-> 0]
    /\ data_buf' = [e \in Elem |-> NoData]
    /\ out' = [op |-> "clear"]
    /\ UNCHANGED <<tag_mac, lists, hash, hist_list, clock>>

(* adv_table_clear: the lists are emptied and every element is freed, but  *)
(* stays in the hash table under its address.                              *)
Clear ==
    /\ list' = [t \in Target |-> << >>]
    /\ is_in_list' = [t \in Target |->
                        [e \in Elem |->
                           is_in_list[t][e]
                             /\ \A i \in 1 .. Len(list[t]) : list[t][i] # e]]
    /\ timestamp' = [e \in Elem |-> 0]
    /\ samples_counter' = [e \in Elem |-> 0]
    /\ data_buf' = [e \in Elem |-> NoData]
    /\ out' = [op |-> "clear"]
    /\ UNCHANGED <<tag_mac, hash, hist_list, clock>>

(* External: the source of timestamps advances.                            *)
Tick ==
    /\ clock < MaxTime
    /\ clock' = clock + 1
    /\ UNCHANGED <<report, hash, lists, hist_list, out>>

Put(m, d) == PutNew(m, d) \/ PutUpdate(m, d) \/ PutDiscard(m, d)

Next ==
    \/ \E m \in Mac, d \in Data : Put(m, d)
    \/ \E t \in Target : ReadListAndClear(t)
    \/ ReadListHead
    \/ \E use_timestamps, use_filter \in BOOLEAN, f \in 0 .. MaxTime :
          HistoryRead(use_timestamps, use_filter, f)
    \/ StatisticsRead
    \/ Clear
    \/ Tick

Spec == Init /\ [][Next]_vars

-----------------------------------------------------------------------------
(* Correctness.                                                            *)

(* No element of g_arr_of_adv_reports ever leaves the history list or is   *)
(* chained in it twice, whatever sequence of puts moves elements to the    *)
(* head: a lost element would shrink the table for good.                   *)
HistIsPermutation ==
    /\ \A i, j \in Elem : hist_list[i] = hist_list[j] => i = j
    /\ \A e \in Elem : \E i \in Elem : hist_list[i] = e

(* Free elements are all at the end of the history list, so that a put of  *)
(* an unknown sensor never evicts a live report while a free element       *)
(* exists, and a history read that stops at data_len = 0 misses nothing.   *)
FreeElementsLast ==
    \A i, j \in Elem :
        i < j /\ data_buf[hist_list[j]] # NoData => data_buf[hist_list[i]] # NoData

(* The history list is sorted by timestamp, newest first: the early exit   *)
(* of adv_table_read_history_unsafe at the first old report relies on it.  *)
HistIsSorted ==
    \A i, j \in Elem : i < j => timestamp[hist_list[i]] >= timestamp[hist_list[j]]

(* Each is_in_retransmission_list flag says whether the element is chained *)
(* in that list, no list holds an element twice (an STAILQ would become    *)
(* cyclic), and every chained element holds a report.                      *)
ListsConsistent ==
    \A t \in Target :
        /\ \A e \in Elem : is_in_list[t][e] <=> \E i \in 1 .. Len(list[t]) : list[t][i] = e
        /\ \A i, j \in 1 .. Len(list[t]) : list[t][i] = list[t][j] => i = j
        /\ \A i \in 1 .. Len(list[t]) : data_buf[list[t][i]] # NoData

(* An element is chained in the bucket of the address it holds and in no   *)
(* other, exactly when its flag says so; two chained elements never hold   *)
(* the same address; a live report can always be found by its address.     *)
HashConsistent ==
    /\ \A b \in Bucket : \A e \in hash_table[b] :
          is_in_hash_table[e] /\ tag_mac[e] \in Mac /\ Hash[tag_mac[e]] = b
    /\ \A e \in Elem : is_in_hash_table[e] =>
          tag_mac[e] \in Mac /\ e \in hash_table[Hash[tag_mac[e]]]
    /\ \A e1, e2 \in Elem :
          is_in_hash_table[e1] /\ is_in_hash_table[e2] /\ tag_mac[e1] = tag_mac[e2]
            => e1 = e2
    /\ \A e \in Occupied : is_in_hash_table[e]

(* No report lies in the future of the timestamp source, and a free        *)
(* element has no timestamp (statistics stop at timestamp 0, history at    *)
(* data_len 0: the two ends of the live part must agree).                  *)
TimestampsSane ==
    \A e \in Elem :
        /\ timestamp[e] <= clock
        /\ data_buf[e] = NoData => timestamp[e] = 0 /\ samples_counter[e] = 0

(* The history list holds every element once, newest report first, free    *)
(* elements last and without a time: the eviction of the last element, the *)
(* early exits of the history and statistics reads and the "not found"     *)
(* path of a put all rely on it, after any sequence of puts and clears.    *)
HistoryConsistent ==
    /\ HistIsPermutation
    /\ FreeElementsLast
    /\ HistIsSorted
    /\ TimestampsSane

Inv ==
    /\ TypeOK
    /\ HistIsPermutation
    /\ FreeElementsLast
    /\ HistIsSorted
    /\ ListsConsistent
    /\ HashConsistent
    /\ TimestampsSane

(* A history read returns every live report inside the requested window,   *)
(* not only those before the first one outside it.                         *)
HistoryExact ==
    /\ Walk(Occupied) = Occupied
    /\ \A use_timestamps \in BOOLEAN, f \in 0 .. MaxTime :
          Walk(InWindow(use_timestamps, f)) = InWindow(use_timestamps, f)

(* A statistics read covers every live report that has a timestamp, so no  *)
(* sample counter is left out by the early exit.                           *)
StatisticsExact == Walk(Stamped) = Stamped

(* A samples counter only goes down when it has just been reported, when   *)
(* the sensor is evicted or when the table is cleared.                     *)
SamplesReported ==
    [][\A e \in Elem :
          tag_mac'[e] = tag_mac[e] /\ samples_counter'[e] < samples_counter[e] =>
             \/ out'.op = "clear"
             \/ /\ out'.op = "statistics"
                /\ \E i \in DOMAIN out'.advs :
                      out'.advs[i] = [mac |-> tag_mac[e], cnt |-> samples_counter[e]]
      ]_vars

(* A sensor is evicted only when every element is live, and the one that   *)
(* is evicted has the oldest report.                                       *)
EvictsOldestOnly ==
    [][\A e \in Occupied :
          tag_mac'[e] # tag_mac[e] =>
             /\ Occupied = Elem
             /\ \A x \in Elem : timestamp[e] <= timestamp[x]]_vars

(***************************************************************************)
(* The table implements AdvRelay.  A sensor is cached when some occupied   *)
(* element chained in the hash table holds its address.                    *)
(***************************************************************************)
HolderOf(m) == {e \in Occupied : is_in_hash_table[e] /\ tag_mac[e] = m}

CachedReport ==
    [m \in Mac |-> IF HolderOf(m) = {} THEN NoData
                   ELSE data_buf[CHOOSE e \in HolderOf(m) : TRUE]]

DueSensors ==
    [t \in Target |-> {tag_mac[list[t][i]] : i \in 1 .. Len(list[t])}]

HandedOver == IF out.op = "list" THEN {out.advs[i] : i \in DOMAIN out.advs} ELSE {}

Relay == INSTANCE AdvRelay
            WITH cached <- CachedReport, due <- DueSensors, batch <- HandedOver

(* Whatever the interleaving of puts, reads, evictions and clears, every   *)
(* accepted report is handed to each target exactly once in its latest     *)
(* version, unless the table is full of newer ones or is cleared.          *)
ImplementsRelay == Relay!RelaySpec

=============================================================================
