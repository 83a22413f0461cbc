--------------------------- MODULE AdvRelayProofs ---------------------------
(***************************************************************************)
(* The table of adv_table.c implements AdvRelay, for every table size,     *)
(* every set of sensors and payloads, every hash function and any targets: *)
(* the elements, chains, flags and lists make no difference to its readers.*)
(***************************************************************************)
EXTENDS AdvTableProofs, FiniteSetTheorems

(* The refinement mapping as a function of the arrays behind it: D is      *)
(* data_buf, T is tag_mac, H is is_in_hash_table, F is is_in_list.         *)
Holders(D, T, H, m) == {e \in {x \in Elem : D[x] # NoData} : H[e] /\ T[e] = m}

CachedBy(D, T, H) ==
    [m \in Mac |-> IF Holders(D, T, H, m) = {} THEN NoData
                   ELSE D[CHOOSE e \in Holders(D, T, H, m) : TRUE]]

DueBy(T, F) == [t \in Target |-> {T[e] : e \in {x \in Elem : F[t][x]}}]

(* Live elements are in the hash table, with addresses of their own.       *)
Unique(D, T, H) ==
    /\ \A e \in Elem : D[e] # NoData => H[e] /\ T[e] \in Mac
    /\ \A e, x \in Elem : D[e] # NoData /\ D[x] # NoData /\ T[e] = T[x] => e = x

(* A sensor's report is that of the one live element with its address.     *)
LEMMA CachedFacts ==
    ASSUME NEW D, NEW T, NEW H, Unique(D, T, H)
    PROVE  /\ \A e \in Elem : D[e] # NoData => CachedBy(D, T, H)[T[e]] = D[e]
           /\ \A m \in Mac : (\A e \in Elem : D[e] # NoData => T[e] # m)
                                => CachedBy(D, T, H)[m] = NoData
  <1>1. ASSUME NEW e \in Elem, D[e] # NoData
        PROVE  CachedBy(D, T, H)[T[e]] = D[e]
    <2>1. Holders(D, T, H, T[e]) = {e} /\ T[e] \in Mac
      BY <1>1 DEF Unique, Holders
    <2> QED BY <2>1 DEF CachedBy
  <1>2. ASSUME NEW m \in Mac, \A e \in Elem : D[e] # NoData => T[e] # m
        PROVE  CachedBy(D, T, H)[m] = NoData
    <2>1. Holders(D, T, H, m) = {}
      BY <1>2 DEF Holders
    <2> QED BY <2>1 DEF CachedBy
  <1> QED BY <1>1, <1>2

(* The mapping, before and after a step.                                   *)
LEMMA Mapping ==
    /\ CachedReport = CachedBy(data_buf, tag_mac, is_in_hash_table)
    /\ CachedReport' = CachedBy(data_buf', tag_mac', is_in_hash_table')
  BY DEF CachedReport, CachedBy, HolderOf, Holders, Occupied

(* The sensors of a list are those of the elements with its flag.          *)
LEMMA DueFacts ==
    ASSUME NEW T, NEW F, NEW L \in [Target -> Seq(Elem)], NEW t \in Target,
           \A e \in Elem : F[t][e] <=> \E i \in 1 .. Len(L[t]) : L[t][i] = e
    PROVE  {T[L[t][i]] : i \in 1 .. Len(L[t])} = {T[e] : e \in {x \in Elem : F[t][x]}}
  <1>1. \A i \in 1 .. Len(L[t]) : L[t][i] \in Elem
    OBVIOUS
  <1> QED BY <1>1

(* Both halves of the mapping of the lists, under the invariant.           *)
LEMMA DueMapping ==
    /\ Inv => DueSensors = DueBy(tag_mac, is_in_list)
    /\ Inv' => DueSensors' = DueBy(tag_mac', is_in_list')
  <1>1. ASSUME Inv PROVE DueSensors = DueBy(tag_mac, is_in_list)
    <2>1. list \in [Target -> Seq(Elem)]
      BY <1>1 DEF Inv, TypeOK
    <2>2. \A t \in Target : \A e \in Elem :
            is_in_list[t][e] <=> \E i \in 1 .. Len(list[t]) : list[t][i] = e
      BY <1>1 DEF Inv, ListsConsistent
    <2> QED BY <2>1, <2>2, DueFacts DEF DueSensors, DueBy
  <1>2. ASSUME Inv' PROVE DueSensors' = DueBy(tag_mac', is_in_list')
    <2>1. list' \in [Target -> Seq(Elem)]
      BY <1>2 DEF Inv, TypeOK
    <2>2. \A t \in Target : \A e \in Elem :
            is_in_list'[t][e] <=> \E i \in 1 .. Len(list'[t]) : list'[t][i] = e
      BY <1>2 DEF Inv, ListsConsistent
    <2> QED BY <2>1, <2>2, DueFacts DEF DueSensors, DueBy
  <1> QED BY <1>1, <1>2

(* What the invariant says of live elements.                               *)
LEMMA LiveFacts ==
    ASSUME Inv
    PROVE  /\ Unique(data_buf, tag_mac, is_in_hash_table)
           /\ \A t \in Target, e \in Elem : is_in_list[t][e] => data_buf[e] # NoData
  <1>1. Unique(data_buf, tag_mac, is_in_hash_table)
    BY DEF Inv, HashConsistent, Occupied, Unique
  <1>2. \A t \in Target, e \in Elem : is_in_list[t][e] => data_buf[e] # NoData
    BY DEF Inv, ListsConsistent
  <1> QED BY <1>1, <1>2

(* The same after a step.                                                  *)
LEMMA LiveFactsNext ==
    ASSUME Inv'
    PROVE  Unique(data_buf', tag_mac', is_in_hash_table')
  BY DEF Inv, HashConsistent, Occupied, Unique

(* The reports of the sensors after a step.                                *)
LEMMA CachedNext ==
    ASSUME Inv'
    PROVE  /\ \A x \in Elem :
                 data_buf'[x] # NoData => CachedReport'[tag_mac'[x]] = data_buf'[x]
           /\ \A y \in Mac : (\A x \in Elem : data_buf'[x] # NoData => tag_mac'[x] # y)
                                => CachedReport'[y] = NoData
  <1>1. Unique(data_buf', tag_mac', is_in_hash_table')
    BY LiveFactsNext
  <1>2. CachedReport' = CachedBy(data_buf', tag_mac', is_in_hash_table')
    BY Mapping
  <1>3. \A D, T, H : Unique(D, T, H) =>
           /\ \A e \in Elem : D[e] # NoData => CachedBy(D, T, H)[T[e]] = D[e]
           /\ \A m \in Mac : (\A e \in Elem : D[e] # NoData => T[e] # m)
                                => CachedBy(D, T, H)[m] = NoData
    BY CachedFacts
  <1> QED BY <1>1, <1>2, <1>3

(* A sensor is known exactly if a live element holds its address.          *)
LEMMA KnownFacts ==
    ASSUME Inv
    PROVE  Relay!Known = {tag_mac[e] : e \in Occupied}
  <1>1. Relay!Known = {m \in Mac : CachedReport[m] # NoData}
    BY DEF Relay!Known
  <1>2. ASSUME NEW e \in Occupied
        PROVE  tag_mac[e] \in Mac /\ CachedReport[tag_mac[e]] # NoData
    BY Mapping, LiveFacts, CachedFacts DEF Occupied, Unique
  <1>3. ASSUME NEW m \in Mac, CachedReport[m] # NoData
        PROVE  \E e \in Occupied : tag_mac[e] = m
    BY <1>3, Mapping, LiveFacts, CachedFacts DEF Occupied
  <1> QED BY <1>1, <1>2, <1>3

(* The module AdvRelay counts as this one does.                            *)
LEMMA SameCardinality ==
    ASSUME NEW S
    PROVE  Relay!Cardinality(S) = Cardinality(S)
  BY DEF Relay!Cardinality, Cardinality

(* As many sensors are known as elements are occupied.                     *)
LEMMA KnownCount ==
    ASSUME Inv
    PROVE  /\ Occupied = Elem => Cardinality(Relay!Known) = MAX_ADVS_TABLE
           /\ Occupied # Elem => Cardinality(Relay!Known) < MAX_ADVS_TABLE
           /\ Cardinality(Relay!Known) \in Nat
  <1>1. IsFiniteSet(Elem) /\ Cardinality(Elem) = MAX_ADVS_TABLE
    BY TableAssumption, FS_Interval DEF Elem
  <1>2. Occupied \in SUBSET Elem
    BY DEF Occupied
  <1>3. /\ IsFiniteSet(Occupied) /\ Cardinality(Occupied) <= MAX_ADVS_TABLE
        /\ Occupied # Elem => Cardinality(Occupied) # MAX_ADVS_TABLE
    BY <1>1, <1>2, FS_Subset
  <1> DEFINE f == [e \in Occupied |-> tag_mac[e]]
  <1>4. f \in Bijection(Occupied, Relay!Known)
    <2>1. Relay!Known = {tag_mac[e] : e \in Occupied}
      BY KnownFacts
    <2>2. f \in Surjection(Occupied, Relay!Known)
      BY <2>1 DEF Surjection
    <2>3. f \in Injection(Occupied, Relay!Known)
      BY <2>1, LiveFacts DEF Injection, IsInjective, Occupied, Unique
    <2> QED BY <2>2, <2>3 DEF Bijection
  <1>5. Cardinality(Relay!Known) = Cardinality(Occupied)
    BY <1>3, <1>4, FS_Bijection DEF ExistsBijection
  <1>6. Cardinality(Occupied) \in Nat
    BY <1>3, FS_CardinalityType
  <1> QED BY <1>1, <1>3, <1>5, <1>6, TableAssumption

(* No list is longer than the array that a reader offers for it.           *)
LEMMA ListFits ==
    ASSUME Inv, NEW t \in Target
    PROVE  Len(list[t]) \in Nat /\ Len(list[t]) <= MAX_ADVS_TABLE
  <1> DEFINE L == list[t]
             S == 1 .. Len(L)
  <1>1. L \in Seq(Elem) /\ Len(L) \in Nat
    BY DEF Inv, TypeOK
  <1>2. L \in [S -> Elem]
    BY <1>1
  <1>3. \A i, j \in S : L[i] = L[j] => i = j
    BY DEF Inv, ListsConsistent
  <1>4. IsFiniteSet(S) /\ Cardinality(S) = Len(L)
    BY <1>1, FS_Interval
  <1>5. IsFiniteSet(Elem) /\ Cardinality(Elem) = MAX_ADVS_TABLE
    BY TableAssumption, FS_Interval DEF Elem
  <1> HIDE DEF L, S
  <1>6. ASSUME MAX_ADVS_TABLE < Len(L) PROVE FALSE
    <2>1. Cardinality(Elem) < Cardinality(S)
      BY <1>4, <1>5, <1>6
    <2>2. IsFiniteSet(S) /\ IsFiniteSet(Elem)
      BY <1>4, <1>5
    <2>3. \E x, y \in S : x # y /\ L[x] = L[y]
      BY <1>2, <2>1, <2>2, FS_PigeonHole, Zenon
    <2> QED BY <1>3, <2>3
  <1> QED BY <1>1, <1>6, TableAssumption DEF L

-----------------------------------------------------------------------------
(* The sensor that loses its place when element e is given to m.           *)
Evicted(e, m) == IF data_buf[e] # NoData THEN tag_mac[e] ELSE m

(* Storing a report of m in an element e is an accepted report, if no      *)
(* other live element holds the address of m.                              *)
LEMMA UpdateIsAccept ==
    ASSUME Inv, Inv', NEW e \in Elem, NEW m \in Mac, NEW d \in Data,
           tag_mac' = [tag_mac EXCEPT ![e] = m],
           data_buf' = [data_buf EXCEPT ![e] = d],
           is_in_list' = [t \in Target |-> [is_in_list[t] EXCEPT ![e] = TRUE]],
           out' = [op |-> "put", updated |-> TRUE],
           \A x \in Elem \ {e} : data_buf[x] # NoData => tag_mac[x] # m,
           data_buf[e] # NoData /\ tag_mac[e] # m => Occupied = Elem,
           data_buf[e] # NoData /\ tag_mac[e] = m => ~adv_must_be_discarded(d, data_buf[e])
    PROVE  Relay!Accept(m, d, Evicted(e, m)) /\ Evicted(e, m) \in Mac
  <1> DEFINE v == Evicted(e, m)
  <1>1. /\ tag_mac \in [Elem -> Mac \cup {NoMac}]
        /\ data_buf \in [Elem -> Data \cup {NoData}]
        /\ is_in_list \in [Target -> [Elem -> BOOLEAN]]
    BY DEF Inv, TypeOK
  <1>2. /\ tag_mac'[e] = m /\ \A x \in Elem \ {e} : tag_mac'[x] = tag_mac[x]
        /\ data_buf'[e] = d /\ \A x \in Elem \ {e} : data_buf'[x] = data_buf[x]
        /\ d # NoData
    BY <1>1, DataAssumption
  <1>3. /\ Unique(data_buf, tag_mac, is_in_hash_table)
        /\ Unique(data_buf', tag_mac', is_in_hash_table')
    BY LiveFacts, LiveFactsNext
  <1>4. v \in Mac /\ (v # m => data_buf[e] # NoData /\ v = tag_mac[e])
    BY <1>3 DEF Evicted, Unique
  <1>5. /\ \A x \in Elem : data_buf[x] # NoData => CachedReport[tag_mac[x]] = data_buf[x]
        /\ \A y \in Mac : (\A x \in Elem : data_buf[x] # NoData => tag_mac[x] # y)
                             => CachedReport[y] = NoData
    BY <1>3, Mapping, CachedFacts
  <1>6. /\ \A x \in Elem :
              data_buf'[x] # NoData => CachedReport'[tag_mac'[x]] = data_buf'[x]
        /\ \A y \in Mac : (\A x \in Elem : data_buf'[x] # NoData => tag_mac'[x] # y)
                             => CachedReport'[y] = NoData
    BY CachedNext
  <1>7. CachedReport' = [y \in Mac |-> IF y = m THEN d ELSE IF y = v THEN NoData
                                      ELSE CachedReport[y]]
    <2>1. ASSUME NEW y \in Mac
          PROVE  CachedReport'[y] = IF y = m THEN d ELSE IF y = v THEN NoData
                                    ELSE CachedReport[y]
      <3>1. CASE y = m
        BY <1>2, <1>6, <3>1
      <3>2. CASE y # m /\ y = v
        <4>1. \A x \in Elem : data_buf'[x] # NoData => tag_mac'[x] # y
          BY <1>2, <1>3, <1>4, <3>2 DEF Unique
        <4> QED BY <1>6, <3>2, <4>1
      <3>3. CASE y # m /\ y # v
        <4>1. data_buf[e] # NoData => tag_mac[e] # y
          BY <3>3 DEF Evicted
        <4>2. CASE \E x \in Elem : data_buf[x] # NoData /\ tag_mac[x] = y
          <5>1. PICK x \in Elem : data_buf[x] # NoData /\ tag_mac[x] = y
            BY <4>2
          <5>2. x # e
            BY <4>1, <5>1
          <5> QED BY <1>2, <1>5, <1>6, <3>3, <5>1, <5>2
        <4>3. CASE \A x \in Elem : data_buf[x] # NoData => tag_mac[x] # y
          <5>1. \A x \in Elem : data_buf'[x] # NoData => tag_mac'[x] # y
            BY <1>2, <3>3, <4>3
          <5> QED BY <1>5, <1>6, <3>3, <4>3, <5>1
        <4> QED BY <4>2, <4>3
      <3> QED BY <3>1, <3>2, <3>3
    <2>2. CachedReport' = [y \in Mac |-> CachedReport'[y]]
      BY Mapping DEF CachedBy
    <2> QED BY <2>1, <2>2
  <1>8. DueSensors' = [t \in Target |-> (DueSensors[t] \ {v}) \cup {m}]
    <2>1. DueSensors' = DueBy(tag_mac', is_in_list') /\ DueSensors = DueBy(tag_mac, is_in_list)
      BY DueMapping
    <2>2. ASSUME NEW t \in Target
          PROVE  {tag_mac'[x] : x \in {z \in Elem : is_in_list'[t][z]}}
                   = ({tag_mac[x] : x \in {z \in Elem : is_in_list[t][z]}} \ {v}) \cup {m}
      <3>1. \A x \in Elem : is_in_list'[t][x] <=> x = e \/ is_in_list[t][x]
        BY <1>1
      <3>2. ASSUME NEW x \in Elem \ {e}, is_in_list[t][x]
            PROVE  tag_mac[x] # m /\ tag_mac[x] # v
        <4>1. data_buf[x] # NoData
          BY <3>2, LiveFacts
        <4>2. tag_mac[x] # m
          BY <3>2, <4>1
        <4> QED BY <1>3, <1>4, <3>2, <4>1, <4>2 DEF Unique
      <3>3. is_in_list[t][e] => tag_mac[e] = v
        BY LiveFacts DEF Evicted
      <3> QED BY <1>2, <3>1, <3>2, <3>3
    <2> QED BY <2>1, <2>2 DEF DueBy
  <1>9. HandedOver' = {}
    BY DEF HandedOver
  <1>10. v # m => CachedReport[m] = NoData /\ Occupied = Elem /\ v \in Relay!Known
    <2> SUFFICES ASSUME v # m
                 PROVE  CachedReport[m] = NoData /\ Occupied = Elem /\ v \in Relay!Known
      OBVIOUS
    <2>1. data_buf[e] # NoData /\ v = tag_mac[e]
      BY <1>4
    <2>2. CachedReport[m] = NoData
      BY <1>5, <2>1
    <2>3. v \in Relay!Known
      BY <2>1, KnownFacts DEF Occupied
    <2> QED BY <2>1, <2>2, <2>3
  <1>11. v = m => m \in Relay!Known \/ Occupied # Elem
    BY KnownFacts DEF Evicted, Occupied
  <1>12. ~Relay!Stale(d, CachedReport[m])
    <2>1. CASE data_buf[e] # NoData /\ tag_mac[e] = m
      <3>1. CachedReport[m] = data_buf[e]
        BY <1>5, <2>1
      <3> QED BY <2>1, <3>1 DEF Relay!Stale, adv_must_be_discarded
    <2>2. CASE ~(data_buf[e] # NoData /\ tag_mac[e] = m)
      <3>1. CachedReport[m] = NoData
        BY <1>5, <2>2
      <3> QED BY <3>1, DataAssumption DEF Relay!Stale
    <2> QED BY <2>1, <2>2
  <1>13. /\ v # m => Cardinality(Relay!Known) = MAX_ADVS_TABLE
         /\ v = m => m \in Relay!Known \/ Cardinality(Relay!Known) < MAX_ADVS_TABLE
    BY <1>10, <1>11, KnownCount
  <1> HIDE DEF v
  <1>14. Relay!Accept(m, d, v)
    BY <1>7, <1>8, <1>9, <1>10, <1>12, <1>13, SameCardinality DEF Relay!Accept
  <1> QED BY <1>4, <1>14 DEF v

(* A report of an unknown sensor, or of one whose element was reused.      *)
LEMMA PutNewStep ==
    ASSUME Inv, Inv', NEW m \in Mac, NEW d \in Data, PutNew(m, d)
    PROVE  \E v \in Mac : Relay!Accept(m, d, v)
  <1> DEFINE e == hist_list[MAX_ADVS_TABLE]
  <1>1. e \in Elem /\ MAX_ADVS_TABLE \in Elem
    BY TableAssumption DEF Inv, TypeOK, Elem
  <1>2. /\ tag_mac' = [tag_mac EXCEPT ![e] = m]
        /\ data_buf' = [data_buf EXCEPT ![e] = d]
        /\ is_in_list' = [t \in Target |-> [is_in_list[t] EXCEPT ![e] = TRUE]]
        /\ out' = [op |-> "put", updated |-> TRUE]
        /\ adv_hash_table_search(m) = {}
    BY DEF PutNew, WriteReport, MarkUpdated
  <1>3. \A x \in Elem : data_buf[x] # NoData => tag_mac[x] # m
    BY <1>2 DEF Inv, HashConsistent, Occupied, adv_hash_table_search
  <1>4. data_buf[e] # NoData => Occupied = Elem
    <2> SUFFICES ASSUME data_buf[e] # NoData, NEW x \in Elem
                 PROVE  data_buf[x] # NoData
      BY DEF Occupied
    <2>1. PICK i \in Elem : hist_list[i] = x
      BY DEF Inv, HistIsPermutation
    <2>2. i = MAX_ADVS_TABLE \/ i < MAX_ADVS_TABLE
      BY TableAssumption DEF Elem
    <2> QED BY <1>1, <2>1, <2>2 DEF Inv, FreeElementsLast
  <1> HIDE DEF e
  <1> QED BY <1>1, <1>2, <1>3, <1>4, UpdateIsAccept

(* What a search of the hash table finds.                                  *)
LEMMA SearchFacts ==
    ASSUME Inv, NEW m \in Mac, NEW e \in adv_hash_table_search(m)
    PROVE  /\ e \in Elem /\ tag_mac[e] = m
           /\ \A x \in Elem \ {e} : data_buf[x] # NoData => tag_mac[x] # m
  <1>1. Hash[m] \in Bucket
    BY HashAssumption
  <1>2. e \in Elem /\ tag_mac[e] = m /\ is_in_hash_table[e]
    BY <1>1 DEF Inv, TypeOK, HashConsistent, adv_hash_table_search
  <1> QED BY <1>2 DEF Inv, HashConsistent, Occupied

(* A report of a sensor whose element is found.                            *)
LEMMA PutUpdateStep ==
    ASSUME Inv, Inv', NEW m \in Mac, NEW d \in Data, PutUpdate(m, d)
    PROVE  \E v \in Mac : Relay!Accept(m, d, v)
  <1>1. PICK e \in adv_hash_table_search(m) :
          /\ tag_mac' = [tag_mac EXCEPT ![e] = m]
          /\ data_buf' = [data_buf EXCEPT ![e] = d]
          /\ is_in_list' = [t \in Target |-> [is_in_list[t] EXCEPT ![e] = TRUE]]
          /\ out' = [op |-> "put", updated |-> TRUE]
          /\ ~adv_must_be_discarded(d, data_buf[e])
    BY DEF PutUpdate, WriteReport, MarkUpdated
  <1>2. /\ e \in Elem /\ tag_mac[e] = m
        /\ \A x \in Elem \ {e} : data_buf[x] # NoData => tag_mac[x] # m
    BY SearchFacts
  <1> QED BY <1>1, <1>2, UpdateIsAccept

(* Where neither the mapped arrays nor the lists change, nothing does.     *)
LEMMA SameMapping ==
    ASSUME UNCHANGED <<tag_mac, data_buf, is_in_hash_table, list>>
    PROVE  CachedReport' = CachedReport /\ DueSensors' = DueSensors
  <1>1. CachedReport' = CachedReport
    BY DEF CachedReport, HolderOf, Occupied
  <1>2. DueSensors' = DueSensors
    BY DEF DueSensors
  <1> QED BY <1>1, <1>2

(* A report that is discarded repeats what is cached.                      *)
LEMMA PutDiscardStep ==
    ASSUME Inv, NEW m \in Mac, NEW d \in Data, PutDiscard(m, d)
    PROVE  Relay!Repeat(m, d)
  <1>1. PICK e \in adv_hash_table_search(m) : adv_must_be_discarded(d, data_buf[e])
    BY DEF PutDiscard
  <1>2. /\ UNCHANGED <<tag_mac, data_buf, is_in_hash_table, list>>
        /\ out' = [op |-> "put", updated |-> FALSE]
    BY DEF PutDiscard, hash, lists
  <1>3. e \in Elem /\ tag_mac[e] = m
    BY SearchFacts
  <1>4. data_buf[e] # NoData
    BY <1>1, DataAssumption DEF adv_must_be_discarded
  <1>5. CachedReport[m] = data_buf[e]
    BY <1>3, <1>4, LiveFacts, Mapping, CachedFacts
  <1>6. HandedOver' = {}
    BY <1>2 DEF HandedOver
  <1>7. CachedReport' = CachedReport /\ DueSensors' = DueSensors
    BY <1>2, SameMapping
  <1> QED BY <1>1, <1>5, <1>6, <1>7 DEF Relay!Repeat, Relay!Stale, adv_must_be_discarded

-----------------------------------------------------------------------------
(* The elements of a list are live and hold the reports of its sensors.    *)
LEMMA ListReports ==
    ASSUME Inv, NEW t \in Target
    PROVE  /\ list[t] \in Seq(Elem)
           /\ \A i \in 1 .. Len(list[t]) :
                 /\ list[t][i] \in Elem
                 /\ CachedReport[tag_mac[list[t][i]]] = data_buf[list[t][i]]
                 /\ \A j \in 1 .. Len(list[t]) :
                       tag_mac[list[t][i]] = tag_mac[list[t][j]] => i = j
  <1>1. list[t] \in Seq(Elem)
    BY DEF Inv, TypeOK
  <1>2. \A i \in 1 .. Len(list[t]) : list[t][i] \in Elem
    BY <1>1
  <1>3. /\ \A i \in 1 .. Len(list[t]) : data_buf[list[t][i]] # NoData
        /\ \A i, j \in 1 .. Len(list[t]) : list[t][i] = list[t][j] => i = j
    BY DEF Inv, ListsConsistent
  <1>4. /\ \A x \in Elem : data_buf[x] # NoData => CachedReport[tag_mac[x]] = data_buf[x]
        /\ Unique(data_buf, tag_mac, is_in_hash_table)
    BY LiveFacts, Mapping, CachedFacts
  <1> QED BY <1>1, <1>2, <1>3, <1>4 DEF Unique

(* A reader that empties list t gets all that is due to target t.          *)
LEMMA ReadAllStep ==
    ASSUME Inv, NEW t \in Target, ReadListAndClear(t)
    PROVE  Relay!DeliverAll(t)
  <1> DEFINE L == list[t]
  <1>1. NumRead(t) = Len(L) /\ NumRemoved(t) = Len(L) /\ Len(L) \in Nat
    BY ListFits DEF NumRead, NumRemoved
  <1>2. L \in Seq(Elem)
    BY ListReports
  <1>3. SubSeq(L, Len(L) + 1, Len(L)) = << >>
    BY <1>1, <1>2
  <1>4. /\ list' = [list EXCEPT ![t] = << >>]
        /\ out' = [op |-> "list", target |-> t, advs |-> [i \in 1 .. Len(L) |-> Adv(L[i])]]
        /\ UNCHANGED <<tag_mac, data_buf, is_in_hash_table>>
    BY <1>1, <1>3 DEF ReadListAndClear, report, hash
  <1>5. CachedReport' = CachedReport
    BY <1>4 DEF CachedReport, HolderOf, Occupied
  <1>6. DueSensors' = [DueSensors EXCEPT ![t] = @ \ DueSensors[t]]
    <2>1. list \in [Target -> Seq(Elem)]
      BY DEF Inv, TypeOK
    <2>2. list'[t] = << >> /\ \A u \in Target \ {t} : list'[u] = list[u]
      BY <1>4, <2>1
    <2>3. DueSensors' = [u \in Target |-> {tag_mac[list'[u][i]] : i \in 1 .. Len(list'[u])}]
      BY <1>4 DEF DueSensors
    <2>4. DueSensors'[t] = {}
      BY <2>2, <2>3
    <2>5. ASSUME NEW u \in Target \ {t}
          PROVE  DueSensors'[u] = DueSensors[u]
      <3>1. DueSensors'[u] = {tag_mac[list'[u][i]] : i \in 1 .. Len(list'[u])}
        BY <2>3
      <3>2. DueSensors[u] = {tag_mac[list[u][i]] : i \in 1 .. Len(list[u])}
        BY DEF DueSensors
      <3> QED BY <2>2, <3>1, <3>2
    <2> QED BY <2>3, <2>4, <2>5 DEF DueSensors
  <1>7. HandedOver' = Relay!Batch(DueSensors[t])
    <2>1. HandedOver' = {Adv(L[i]) : i \in 1 .. Len(L)}
      BY <1>4 DEF HandedOver
    <2>2. DueSensors[t] = {tag_mac[L[i]] : i \in 1 .. Len(L)}
      BY DEF DueSensors
    <2>3. \A i \in 1 .. Len(L) :
             Adv(L[i]) = [mac |-> tag_mac[L[i]], data |-> CachedReport[tag_mac[L[i]]]]
      BY ListReports DEF Adv
    <2>4. Relay!Batch(DueSensors[t])
             = {[mac |-> y, data |-> CachedReport[y]] : y \in DueSensors[t]}
      BY DEF Relay!Batch
    <2> DEFINE R(y) == [mac |-> y, data |-> CachedReport[y]]
    <2>5. {R(y) : y \in DueSensors[t]} = {R(tag_mac[L[i]]) : i \in 1 .. Len(L)}
      <3> HIDE DEF R, L
      <3> QED BY <2>2
    <2>6. {R(tag_mac[L[i]]) : i \in 1 .. Len(L)} = {Adv(L[i]) : i \in 1 .. Len(L)}
      <3> HIDE DEF L
      <3> QED BY <2>3
    <2> QED BY <2>1, <2>4, <2>5, <2>6
  <1> QED BY <1>5, <1>6, <1>7 DEF Relay!DeliverAll, Relay!Deliver

(* The reader of the head of the MQTT list gets one report that is due.    *)
LEMMA ReadHeadStep ==
    ASSUME Inv, ReadListHead
    PROVE  Relay!DeliverOne
  <1> DEFINE L == list[MqttTarget]
             e == L[1]
             m == tag_mac[e]
  <1>1. MqttTarget \in Target /\ L \in Seq(Elem) /\ L # << >>
    BY TargetAssumption, ListReports DEF ReadListHead
  <1>2. Len(L) \in Nat /\ 1 \in 1 .. Len(L) /\ Head(L) = e
    BY <1>1
  <1>3. /\ list' = [list EXCEPT ![MqttTarget] = Tail(L)]
        /\ out' = [op |-> "list", target |-> MqttTarget, advs |-> <<Adv(e)>>]
        /\ UNCHANGED <<tag_mac, data_buf, is_in_hash_table>>
    BY <1>2 DEF ReadListHead, report, hash
  <1>4. CachedReport' = CachedReport
    BY <1>3 DEF CachedReport, HolderOf, Occupied
  <1>5. m \in DueSensors[MqttTarget]
    BY <1>1, <1>2 DEF DueSensors
  <1>6. DueSensors' = [DueSensors EXCEPT ![MqttTarget] = @ \ {m}]
    <2>1. list \in [Target -> Seq(Elem)]
      BY DEF Inv, TypeOK
    <2>2. list'[MqttTarget] = Tail(L) /\ \A u \in Target \ {MqttTarget} : list'[u] = list[u]
      BY <1>1, <1>3, <2>1
    <2>3. DueSensors' = [u \in Target |-> {tag_mac[list'[u][i]] : i \in 1 .. Len(list'[u])}]
      BY <1>3 DEF DueSensors
    <2>4. DueSensors'[MqttTarget] = DueSensors[MqttTarget] \ {m}
      <3>1. Len(Tail(L)) = Len(L) - 1 /\ \A i \in 1 .. Len(L) - 1 : Tail(L)[i] = L[i + 1]
        BY <1>1
      <3>2. DueSensors'[MqttTarget] = {tag_mac[Tail(L)[i]] : i \in 1 .. Len(Tail(L))}
        BY <1>1, <2>2, <2>3
      <3>3. DueSensors[MqttTarget] = {tag_mac[L[i]] : i \in 1 .. Len(L)}
        BY <1>1 DEF DueSensors
      <3>4. \A i \in 1 .. Len(L) : tag_mac[L[i]] = m => i = 1
        BY <1>1, <1>2, ListReports
      <3> HIDE DEF L, m
      <3>5. ASSUME NEW i \in 1 .. Len(L) - 1
            PROVE  tag_mac[Tail(L)[i]] \in DueSensors[MqttTarget] \ {m}
        <4>1. i + 1 \in 1 .. Len(L) /\ i + 1 # 1 /\ Tail(L)[i] = L[i + 1]
          BY <1>2, <3>1
        <4> QED BY <3>3, <3>4, <4>1
      <3>6. ASSUME NEW i \in 1 .. Len(L), tag_mac[L[i]] # m
            PROVE  tag_mac[L[i]] \in DueSensors'[MqttTarget]
        <4>1. i # 1
          BY <3>6 DEF m
        <4>2. i - 1 \in 1 .. Len(L) - 1 /\ Tail(L)[i - 1] = L[i]
          BY <1>2, <3>1, <4>1
        <4> QED BY <3>1, <3>2, <4>2
      <3> QED BY <3>1, <3>2, <3>3, <3>5, <3>6
    <2>5. ASSUME NEW u \in Target \ {MqttTarget}
          PROVE  DueSensors'[u] = DueSensors[u]
      <3>1. DueSensors'[u] = {tag_mac[list'[u][i]] : i \in 1 .. Len(list'[u])}
        BY <2>3
      <3>2. DueSensors[u] = {tag_mac[list[u][i]] : i \in 1 .. Len(list[u])}
        BY DEF DueSensors
      <3> QED BY <2>2, <3>1, <3>2
    <2> HIDE DEF m
    <2> QED BY <2>3, <2>4, <2>5 DEF DueSensors
  <1>7. HandedOver' = Relay!Batch({m})
    <2>1. HandedOver' = {Adv(e)}
      BY <1>3 DEF HandedOver
    <2>2. Adv(e) = [mac |-> m, data |-> CachedReport[m]]
      BY <1>1, <1>2, ListReports DEF Adv
    <2> HIDE DEF m, e
    <2> QED BY <2>1, <2>2 DEF Relay!Batch
  <1> HIDE DEF m
  <1> QED BY <1>4, <1>5, <1>6, <1>7 DEF Relay!DeliverOne, Relay!Deliver

(* Reads of the history and of the statistics hand nothing to a target.    *)
LEMMA QueryStep ==
    ASSUME \/ \E a, b \in BOOLEAN, f \in 0 .. MaxTime : HistoryRead(a, b, f)
           \/ StatisticsRead
    PROVE  Relay!Query
  <1>1. UNCHANGED <<tag_mac, data_buf, is_in_hash_table, list>>
    BY DEF HistoryRead, StatisticsRead, report, hash, lists
  <1>2. out'.op \in {"history", "statistics"}
    BY DEF HistoryRead, StatisticsRead
  <1>3. HandedOver' = {}
    BY <1>2 DEF HandedOver
  <1> QED BY <1>1, <1>3, SameMapping DEF Relay!Query

(* A table without reports and with empty lists maps to an empty relay.    *)
LEMMA EmptyTable ==
    ASSUME NEW T, NEW H
    PROVE  CachedBy([e \in Elem |-> NoData], T, H) = [m \in Mac |-> NoData]
  <1> DEFINE D == [e \in Elem |-> NoData]
  <1>1. \A m \in Mac : Holders(D, T, H, m) = {}
    BY DEF Holders
  <1> HIDE DEF D
  <1>2. CachedBy(D, T, H) = [m \in Mac |-> NoData]
    BY <1>1 DEF CachedBy
  <1> QED BY <1>2 DEF D

(* adv_table_clear forgets every sensor and all that was due.              *)
LEMMA ClearStep ==
    ASSUME Clear
    PROVE  Relay!Forget
  <1>1. CachedReport' = [m \in Mac |-> NoData]
    <2>1. data_buf' = [e \in Elem |-> NoData]
      BY DEF Clear
    <2> QED BY <2>1, Mapping, EmptyTable
  <1>2. DueSensors' = [t \in Target |-> {}]
    <2>1. \A t \in Target : list'[t] = << >>
      BY DEF Clear
    <2>2. \A t \in Target : {tag_mac'[list'[t][i]] : i \in 1 .. Len(list'[t])} = {}
      BY <2>1
    <2> QED BY <2>2 DEF DueSensors
  <1>3. HandedOver' = {}
    BY DEF Clear, HandedOver
  <1> QED BY <1>1, <1>2, <1>3 DEF Relay!Forget

(* The timestamp source and a stuttering step are invisible to the relay.  *)
LEMMA InvisibleStep ==
    ASSUME Tick \/ UNCHANGED vars
    PROVE  UNCHANGED Relay!rvars
  <1>1. UNCHANGED <<tag_mac, data_buf, is_in_hash_table, list, out>>
    BY DEF Tick, vars, report, hash, lists
  <1>2. HandedOver' = HandedOver
    BY <1>1 DEF HandedOver
  <1> QED BY <1>1, <1>2, SameMapping DEF Relay!rvars

-----------------------------------------------------------------------------
(* adv_table_init leaves a table that maps to the relay's initial state.   *)
LEMMA InitMaps == Init => Relay!RelayInit
  <1> SUFFICES ASSUME Init PROVE Relay!RelayInit
    OBVIOUS
  <1>1. CachedReport = [m \in Mac |-> NoData]
    <2>1. data_buf = [e \in Elem |-> NoData]
      BY DEF Init
    <2> QED BY <2>1, Mapping, EmptyTable
  <1>2. DueSensors = [t \in Target |-> {}]
    <2>1. \A t \in Target : list[t] = << >>
      BY DEF Init
    <2>2. \A t \in Target : {tag_mac[list[t][i]] : i \in 1 .. Len(list[t])} = {}
      BY <2>1
    <2> QED BY <2>2 DEF DueSensors
  <1>3. HandedOver = {}
    BY DEF Init, HandedOver
  <1> QED BY <1>1, <1>2, <1>3 DEF Relay!RelayInit

(* Every step of the table maps to a step of the relay or to a stutter.    *)
LEMMA StepMaps == Inv /\ Inv' /\ [Next]_vars => [Relay!RelayNext]_Relay!rvars
  <1> SUFFICES ASSUME Inv, Inv', [Next]_vars
               PROVE  Relay!RelayNext \/ UNCHANGED Relay!rvars
    OBVIOUS
  <1>1. ASSUME NEW m \in Mac, NEW d \in Data, Put(m, d) PROVE Relay!RelayNext
    <2>1. CASE PutNew(m, d)
      BY <2>1, PutNewStep DEF Relay!RelayNext
    <2>2. CASE PutUpdate(m, d)
      BY <2>2, PutUpdateStep DEF Relay!RelayNext
    <2>3. CASE PutDiscard(m, d)
      BY <2>3, PutDiscardStep DEF Relay!RelayNext
    <2> QED BY <1>1, <2>1, <2>2, <2>3 DEF Put
  <1>2. ASSUME NEW t \in Target, ReadListAndClear(t) PROVE Relay!RelayNext
    BY <1>2, ReadAllStep DEF Relay!RelayNext
  <1>3. CASE ReadListHead
    BY <1>3, ReadHeadStep DEF Relay!RelayNext
  <1>4. CASE \/ \E a, b \in BOOLEAN, f \in 0 .. MaxTime : HistoryRead(a, b, f)
             \/ StatisticsRead
    BY <1>4, QueryStep DEF Relay!RelayNext
  <1>5. CASE Clear
    BY <1>5, ClearStep DEF Relay!RelayNext
  <1>6. CASE Tick \/ UNCHANGED vars
    BY <1>6, InvisibleStep
  <1> QED BY <1>1, <1>2, <1>3, <1>4, <1>5, <1>6 DEF Next

(* Whatever puts, reads, evictions and clears follow one another, the      *)
(* table of adv_table.c hands every accepted report to each target exactly *)
(* once in its latest version, unless the sensor lost its place or the     *)
(* table was cleared: it behaves as AdvRelay for every value of the        *)
(* constants.                                                              *)
THEOREM TableImplementsRelay == Spec => ImplementsRelay
  BY TableIsConsistent, InitMaps, StepMaps, PTL DEF Spec, ImplementsRelay, Relay!RelaySpec

-----------------------------------------------------------------------------
(* What the readers get from that.                                         *)

(* The mapping has the types of AdvRelay.                                  *)
LEMMA MappedTypes ==
    ASSUME Inv
    PROVE  /\ DOMAIN CachedReport = Mac /\ DOMAIN DueSensors = Target
           /\ \A t \in Target : DueSensors[t] \subseteq Relay!Known
  <1>1. DueSensors = DueBy(tag_mac, is_in_list)
    BY DueMapping
  <1>2. Relay!Known = {tag_mac[e] : e \in Occupied}
    BY KnownFacts
  <1>3. ASSUME NEW t \in Target, NEW m \in DueSensors[t]
        PROVE  m \in Relay!Known
    <2>1. PICK e \in Elem : is_in_list[t][e] /\ m = tag_mac[e]
      BY <1>1 DEF DueBy
    <2> QED BY <1>2, <2>1, LiveFacts DEF Occupied
  <1> QED BY <1>3 DEF CachedReport, DueSensors

(* Each step of the relay loses nothing, hands over only what is due, and  *)
(* makes a new report due.                                                 *)
Promised == Relay!LosesNothing /\ Relay!HandsOverDue /\ Relay!MakesDue

(* By cases on the step.                                                   *)
LEMMA RelayStep == Inv /\ Relay!RelayNext => Promised
  <1> SUFFICES ASSUME Inv, Relay!RelayNext
               PROVE  Promised
    OBVIOUS
  <1> USE DEF Promised, Relay!LosesNothing, Relay!HandsOverDue, Relay!MakesDue
  <1>1. DOMAIN CachedReport = Mac /\ DOMAIN DueSensors = Target
        /\ DueSensors = [t \in Target |-> DueSensors[t]]
    BY MappedTypes DEF DueSensors
  <1>2. ASSUME NEW m \in Mac, NEW v \in Mac, NEW d \in Data, Relay!Accept(m, d, v)
        PROVE  Promised
    <2>1. /\ HandedOver' = {}
          /\ \A t \in Target : DueSensors'[t] = (DueSensors[t] \ {v}) \cup {m}
          /\ \A x \in Mac : CachedReport'[x] = IF x = m THEN d ELSE IF x = v THEN NoData
                                                ELSE CachedReport[x]
      BY <1>2 DEF Relay!Accept
    <2> QED BY <2>1
  <1>3. ASSUME NEW t \in Target, NEW S, Relay!Deliver(t, S)
        PROVE  Promised
    <2>1. /\ S \subseteq DueSensors[t]
          /\ HandedOver' = {[mac |-> m, data |-> CachedReport[m]] : m \in S}
          /\ DueSensors'[t] = DueSensors[t] \ S
          /\ \A x \in Target \ {t} : DueSensors'[x] = DueSensors[x]
          /\ CachedReport' = CachedReport
      BY <1>1, <1>3 DEF Relay!Deliver, Relay!Batch
    <2> QED BY <2>1
  <1>4. CASE Relay!Forget
    BY <1>4 DEF Relay!Forget
  <1>5. CASE Relay!Query \/ \E m \in Mac, d \in Data : Relay!Repeat(m, d)
    BY <1>5 DEF Relay!Query, Relay!Repeat
  <1>6. ASSUME NEW t \in Target, Relay!DeliverAll(t)
        PROVE  Promised
    BY <1>3, <1>6 DEF Relay!DeliverAll
  <1>7. CASE Relay!DeliverOne
    BY <1>3, <1>7, TargetAssumption DEF Relay!DeliverOne
  <1> QED BY <1>2, <1>4, <1>5, <1>6, <1>7 DEF Relay!RelayNext

(* What adv_table.c means for adv_post and adv_mqtt, whatever their order, *)
(* for every table size, any sensors, payloads, hash and targets: a new    *)
(* report makes its sensor due for every target; the sensor stays due      *)
(* until its latest report is handed to the target, once, unless it is     *)
(* evicted or the table is cleared.                                        *)
THEOREM RelayedExactlyOnce ==
    Spec => Relay!NothingLost /\ Relay!HandedOnce /\ Relay!NewsIsDue
  <1>1. Inv /\ Inv' /\ [Next]_vars => [Promised]_Relay!rvars
    BY StepMaps, RelayStep
  <1>2. Promised => Relay!LosesNothing /\ Relay!HandsOverDue /\ Relay!MakesDue
    BY DEF Promised
  <1>3. /\ Inv /\ Inv' /\ [Next]_vars => [Relay!LosesNothing]_Relay!rvars
        /\ Inv /\ Inv' /\ [Next]_vars => [Relay!HandsOverDue]_Relay!rvars
        /\ Inv /\ Inv' /\ [Next]_vars => [Relay!MakesDue]_Relay!rvars
    BY <1>1, <1>2
  <1> QED BY <1>3, TableIsConsistent, PTL
          DEF Spec, Relay!NothingLost, Relay!HandedOnce, Relay!NewsIsDue

(* Only sensors in the table are due, never more than it has room for.     *)
THEOREM TableBoundsRelay == Spec => []Relay!DueAreKnown
  <1>1. Inv => Relay!DueAreKnown
    <2> SUFFICES ASSUME Inv PROVE Relay!DueAreKnown
      OBVIOUS
    <2>1. Cardinality(Relay!Known) <= MAX_ADVS_TABLE
      BY KnownCount, TableAssumption
    <2> QED BY <2>1, MappedTypes, SameCardinality DEF Relay!DueAreKnown
  <1> QED BY <1>1, TableIsConsistent, PTL
=============================================================================
