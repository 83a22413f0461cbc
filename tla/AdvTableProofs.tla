--------------------------- MODULE AdvTableProofs ---------------------------
(***************************************************************************)
(* Proofs about AdvTable, for every table size, every set of sensors and   *)
(* payloads and every hash function.                                       *)
(***************************************************************************)
EXTENDS AdvTable, WellFoundedInduction, TLAPS

(* Indices of the history list and the element count.                      *)
LEMMA ElemFacts ==
    /\ MAX_ADVS_TABLE \in Elem
    /\ 1 \in Elem
    /\ Elem \subseteq Nat
    /\ \A i \in Elem : 1 <= i /\ i <= MAX_ADVS_TABLE
  BY TableAssumption DEF Elem

(* What TAILQ_REMOVE followed by TAILQ_INSERT_HEAD does to the positions.  *)
LEMMA MoveToHeadFacts ==
    ASSUME NEW s \in [Elem -> Elem], NEW p \in Elem
    PROVE  /\ MoveToHead(s, p) \in [Elem -> Elem]
           /\ MoveToHead(s, p)[1] = s[p]
           /\ \A k \in Elem : k > 1 /\ k <= p =>
                 k - 1 \in Elem /\ MoveToHead(s, p)[k] = s[k - 1]
           /\ \A k \in Elem : k > p => MoveToHead(s, p)[k] = s[k]
  <1>1. ASSUME NEW k \in Elem, k > 1, k <= p
        PROVE  k - 1 \in Elem
    BY <1>1, TableAssumption DEF Elem
  <1>2. ASSUME NEW k \in Elem
        PROVE  (IF k = 1 THEN s[p] ELSE IF k <= p THEN s[k - 1] ELSE s[k]) \in Elem
    <2>1. CASE k = 1
      BY <2>1
    <2>2. CASE k # 1 /\ k <= p
      <3>1. k > 1
        BY <2>2, ElemFacts
      <3> QED BY <2>2, <3>1, <1>1
    <2>3. CASE k # 1 /\ ~(k <= p)
      BY <2>3
    <2> QED BY <2>1, <2>2, <2>3
  <1>3. MoveToHead(s, p) \in [Elem -> Elem]
    BY <1>2 DEF MoveToHead
  <1>4. \A k \in Elem : MoveToHead(s, p)[k] =
           IF k = 1 THEN s[p] ELSE IF k <= p THEN s[k - 1] ELSE s[k]
    BY DEF MoveToHead
  <1> QED BY <1>1, <1>3, <1>4, ElemFacts

(* Where the element at position k > 1 of the new order was in the old.    *)
OldPos(k, p) == IF k <= p THEN k - 1 ELSE k

(* Behind the head, every position of the new order holds the element of   *)
(* an old position other than p.                                           *)
LEMMA OldPosFacts ==
    ASSUME NEW s \in [Elem -> Elem], NEW p \in Elem, NEW k \in Elem, 1 < k
    PROVE  /\ OldPos(k, p) \in Elem /\ OldPos(k, p) # p
           /\ MoveToHead(s, p)[k] = s[OldPos(k, p)]
  <1>1. OldPos(k, p) \in Elem /\ OldPos(k, p) # p
    BY TableAssumption DEF OldPos, Elem
  <1>2. MoveToHead(s, p)[k] = s[OldPos(k, p)]
    BY ElemFacts DEF OldPos, MoveToHead
  <1> QED BY <1>1, <1>2

(* Moving one element to the head keeps the order of all the others.       *)
LEMMA OldPosOrder ==
    ASSUME NEW p \in Elem, NEW i \in Elem, NEW j \in Elem, 1 < i, i < j
    PROVE  OldPos(i, p) < OldPos(j, p)
  BY ElemFacts DEF OldPos

(* The order after a move is again a permutation.                          *)
LEMMA MoveToHeadPermutation ==
    ASSUME NEW s \in [Elem -> Elem], NEW p \in Elem,
           \A i, j \in Elem : s[i] = s[j] => i = j,
           \A e \in Elem : \E i \in Elem : s[i] = e
    PROVE  /\ \A i, j \in Elem : MoveToHead(s, p)[i] = MoveToHead(s, p)[j] => i = j
           /\ \A e \in Elem : \E i \in Elem : MoveToHead(s, p)[i] = e
  <1> DEFINE m == MoveToHead(s, p)
  <1>1. ASSUME NEW i \in Elem, NEW j \in Elem, i < j
        PROVE  m[i] # m[j]
    <2>0. 1 < j
      BY <1>1, ElemFacts
    <2>1. CASE 1 < i
      <3>1. OldPos(i, p) \in Elem /\ OldPos(j, p) \in Elem
        BY <2>0, <2>1, OldPosFacts
      <3>2. OldPos(i, p) < OldPos(j, p)
        BY <1>1, <2>1, OldPosOrder
      <3>3. m[i] = s[OldPos(i, p)] /\ m[j] = s[OldPos(j, p)]
        BY <2>0, <2>1, OldPosFacts
      <3>4. OldPos(i, p) # OldPos(j, p)
        <4>1. \A a, b \in Elem : a < b => a # b
          BY ElemFacts
        <4> QED BY <3>1, <3>2, <4>1, Zenon
      <3> QED BY <3>1, <3>3, <3>4
    <2>2. CASE i = 1
      <3>1. m[i] = s[p]
        BY <2>2, MoveToHeadFacts
      <3>2. m[j] = s[OldPos(j, p)] /\ OldPos(j, p) \in Elem /\ OldPos(j, p) # p
        BY <2>0, OldPosFacts
      <3> QED BY <3>1, <3>2
    <2> QED BY <2>1, <2>2, ElemFacts
  <1>2. ASSUME NEW e \in Elem PROVE \E i \in Elem : m[i] = e
    <2>1. PICK k \in Elem : s[k] = e
      OBVIOUS
    <2>2. CASE k = p
      BY <2>1, <2>2, MoveToHeadFacts, ElemFacts
    <2>3. CASE k < p
      <3>1. k + 1 \in Elem /\ k + 1 > 1 /\ k + 1 <= p /\ (k + 1) - 1 = k
        BY <2>3, TableAssumption DEF Elem
      <3> QED BY <3>1, <2>1, MoveToHeadFacts
    <2>4. CASE k > p
      BY <2>1, <2>4, MoveToHeadFacts
    <2> QED BY <2>2, <2>3, <2>4, TableAssumption DEF Elem
  <1>3. \A i, j \in Elem : m[i] = m[j] => i = j
    <2> SUFFICES ASSUME NEW i \in Elem, NEW j \in Elem, m[i] = m[j]
                 PROVE  i = j
      OBVIOUS
    <2>1. i < j \/ j < i \/ i = j
      BY ElemFacts
    <2> QED BY <2>1, <1>1
  <1> QED BY <1>2, <1>3

(* The place adv_table_put_unsafe unlinks the updated element from.        *)
LEMMA PositionFacts ==
    ASSUME HistIsPermutation, NEW e \in Elem
    PROVE  PositionOf(e) \in Elem /\ hist_list[PositionOf(e)] = e
  BY DEF PositionOf, HistIsPermutation

-----------------------------------------------------------------------------
(* An update of element e: the part common to both branches of             *)
(* adv_table_put_unsafe that write a report.                               *)
Update(e, m, d, n) == WriteReport(e, m, d, n) /\ MarkUpdated(e) /\ UNCHANGED clock

(* Storing a report (adv_table.c:186-226) keeps every variable in its type.*)
LEMMA UpdateTypes ==
    ASSUME TypeOK, HistIsPermutation,
           NEW e \in Elem, NEW m \in Mac, NEW d \in Data, NEW n \in Nat,
           Update(e, m, d, n)
    PROVE  /\ tag_mac' \in [Elem -> Mac \cup {NoMac}]
           /\ timestamp' \in [Elem -> Nat]
           /\ samples_counter' \in [Elem -> Nat]
           /\ data_buf' \in [Elem -> Data \cup {NoData}]
           /\ is_in_list' \in [Target -> [Elem -> BOOLEAN]]
           /\ list' \in [Target -> Seq(Elem)]
           /\ hist_list' \in [Elem -> Elem]
           /\ clock' \in Nat
  <1> USE DEF Update
  <1>1. tag_mac' \in [Elem -> Mac \cup {NoMac}] /\ data_buf' \in [Elem -> Data \cup {NoData}]
    BY DEF TypeOK, WriteReport
  <1>2. timestamp' \in [Elem -> Nat] /\ samples_counter' \in [Elem -> Nat] /\ clock' \in Nat
    BY DEF TypeOK, WriteReport
  <1>3. is_in_list' \in [Target -> [Elem -> BOOLEAN]]
    BY DEF TypeOK, MarkUpdated
  <1>4. list' \in [Target -> Seq(Elem)]
    BY DEF TypeOK, MarkUpdated
  <1>5. hist_list' \in [Elem -> Elem]
    BY PositionFacts, MoveToHeadFacts DEF TypeOK, MarkUpdated
  <1> QED BY <1>1, <1>2, <1>3, <1>4, <1>5

(* Storing a report with the current time and moving its element to the    *)
(* head keeps the history list a sorted permutation, free elements last.   *)
LEMMA UpdateHistory ==
    ASSUME TypeOK, HistIsPermutation, FreeElementsLast, HistIsSorted, TimestampsSane,
           NEW e \in Elem, NEW m \in Mac, NEW d \in Data, NEW n \in Nat,
           Update(e, m, d, n)
    PROVE  HistIsPermutation' /\ FreeElementsLast' /\ HistIsSorted' /\ TimestampsSane'
  <1> DEFINE p == PositionOf(e)
  <1>1. p \in Elem /\ hist_list[p] = e /\ hist_list \in [Elem -> Elem]
    BY PositionFacts DEF TypeOK
  <1>2. hist_list' = MoveToHead(hist_list, p)
    BY DEF Update, MarkUpdated
  <1> HIDE DEF p
  <1>3. /\ data_buf' = [data_buf EXCEPT ![e] = d]
        /\ timestamp' = [timestamp EXCEPT ![e] = clock]
        /\ samples_counter' = [samples_counter EXCEPT ![e] = n]
        /\ clock' = clock /\ clock \in Nat
        /\ data_buf \in [Elem -> Data \cup {NoData}]
        /\ timestamp \in [Elem -> Nat] /\ samples_counter \in [Elem -> Nat]
    BY DEF Update, WriteReport, TypeOK
  <1>4. d # NoData
    BY DataAssumption
  <1>5. HistIsPermutation'
    <2>1. /\ \A i, j \in Elem : hist_list[i] = hist_list[j] => i = j
          /\ \A x \in Elem : \E i \in Elem : hist_list[i] = x
      BY DEF HistIsPermutation
    <2> HIDE DEF HistIsPermutation
    <2>2. /\ \A i, j \in Elem :
                MoveToHead(hist_list, p)[i] = MoveToHead(hist_list, p)[j] => i = j
          /\ \A x \in Elem : \E i \in Elem : MoveToHead(hist_list, p)[i] = x
      BY <1>1, <2>1, MoveToHeadPermutation
    <2> QED BY <1>2, <2>2 DEF HistIsPermutation
  <1>6. hist_list'[1] = e
    BY <1>1, <1>2, MoveToHeadFacts
  <1>7. ASSUME NEW i \in Elem, NEW j \in Elem, 1 < i, i < j
        PROVE  \E a, b \in Elem :
                  /\ a < b
                  /\ hist_list'[i] = hist_list[a] /\ hist_list[a] # e
                  /\ hist_list'[j] = hist_list[b] /\ hist_list[b] # e
    <2> DEFINE a == OldPos(i, p)
               b == OldPos(j, p)
    <2>0. 1 < j
      BY <1>7, ElemFacts
    <2>1. a \in Elem /\ b \in Elem /\ a # p /\ b # p /\ a < b
      BY <1>1, <1>7, <2>0, OldPosFacts, OldPosOrder
    <2>2. hist_list'[i] = hist_list[a] /\ hist_list'[j] = hist_list[b]
      BY <1>1, <1>2, <1>7, <2>0, OldPosFacts
    <2>3. hist_list[a] # e /\ hist_list[b] # e
      BY <2>1, <1>1 DEF HistIsPermutation
    <2> QED BY <2>1, <2>2, <2>3
  <1>8. FreeElementsLast'
    <2> SUFFICES ASSUME NEW i \in Elem, NEW j \in Elem, i < j,
                        data_buf'[hist_list'[j]] # NoData
                 PROVE  data_buf'[hist_list'[i]] # NoData
      BY DEF FreeElementsLast
    <2>1. CASE i = 1
      BY <2>1, <1>3, <1>4, <1>6
    <2>2. CASE 1 < i
      <3>1. PICK a, b \in Elem :
                /\ a < b
                /\ hist_list'[i] = hist_list[a] /\ hist_list[a] # e
                /\ hist_list'[j] = hist_list[b] /\ hist_list[b] # e
        BY <2>2, <1>7
      <3>2. data_buf[hist_list[b]] # NoData
        BY <3>1, <1>3, <1>1
      <3>3. data_buf[hist_list[a]] # NoData
        BY <3>1, <3>2 DEF FreeElementsLast
      <3> QED BY <3>1, <3>3, <1>3, <1>1
    <2> QED BY <2>1, <2>2, ElemFacts
  <1>9. HistIsSorted'
    <2> SUFFICES ASSUME NEW i \in Elem, NEW j \in Elem, i < j
                 PROVE  timestamp'[hist_list'[i]] >= timestamp'[hist_list'[j]]
      BY DEF HistIsSorted
    <2>1. CASE i = 1
      <3>1. timestamp'[hist_list'[i]] = clock
        BY <2>1, <1>3, <1>6
      <3>2. hist_list'[j] \in Elem
        BY <1>1, <1>2, MoveToHeadFacts
      <3>3. timestamp'[hist_list'[j]] <= clock
        BY <3>2, <1>3 DEF TimestampsSane
      <3> QED BY <3>1, <3>2, <3>3, <1>3
    <2>2. CASE 1 < i
      <3>1. PICK a, b \in Elem :
                /\ a < b
                /\ hist_list'[i] = hist_list[a] /\ hist_list[a] # e
                /\ hist_list'[j] = hist_list[b] /\ hist_list[b] # e
        BY <2>2, <1>7
      <3>2. timestamp[hist_list[a]] >= timestamp[hist_list[b]]
        BY <3>1 DEF HistIsSorted
      <3> QED BY <3>1, <3>2, <1>3, <1>1
    <2> QED BY <2>1, <2>2, ElemFacts
  <1>10. TimestampsSane'
    BY <1>3, <1>4 DEF TimestampsSane
  <1> QED BY <1>5, <1>8, <1>9, <1>10

(* Setting the retransmission flags and appending where they were clear    *)
(* keeps lists and flags in agreement, with no element twice in a list.    *)
LEMMA UpdateLists ==
    ASSUME TypeOK, ListsConsistent,
           NEW e \in Elem, NEW m \in Mac, NEW d \in Data, NEW n \in Nat,
           Update(e, m, d, n)
    PROVE  ListsConsistent'
  <1>1. data_buf' = [data_buf EXCEPT ![e] = d] /\ data_buf \in [Elem -> Data \cup {NoData}]
    BY DEF Update, WriteReport, TypeOK
  <1>2. d # NoData
    BY DataAssumption
  <1> SUFFICES ASSUME NEW t \in Target
               PROVE  /\ \A x \in Elem : is_in_list'[t][x] <=>
                             \E i \in 1 .. Len(list'[t]) : list'[t][i] = x
                      /\ \A i, j \in 1 .. Len(list'[t]) : list'[t][i] = list'[t][j] => i = j
                      /\ \A i \in 1 .. Len(list'[t]) : data_buf'[list'[t][i]] # NoData
    BY DEF ListsConsistent
  <1> DEFINE L == list[t]
             F == is_in_list[t]
  <1>3. L \in Seq(Elem) /\ F \in [Elem -> BOOLEAN]
    BY DEF TypeOK
  <1>4. /\ \A x \in Elem : F[x] <=> \E i \in 1 .. Len(L) : L[i] = x
        /\ \A i, j \in 1 .. Len(L) : L[i] = L[j] => i = j
        /\ \A i \in 1 .. Len(L) : data_buf[L[i]] # NoData
    BY DEF ListsConsistent
  <1>5. list'[t] = IF F[e] THEN L ELSE Append(L, e)
    BY DEF Update, MarkUpdated
  <1>6. is_in_list'[t] = [F EXCEPT ![e] = TRUE]
    BY DEF Update, MarkUpdated
  <1> HIDE DEF L, F
  <1>7. CASE F[e]
    <2>1. list'[t] = L
      BY <1>5, <1>7
    <2>2. is_in_list'[t] = F
      BY <1>3, <1>6, <1>7
    <2>3. \A i \in 1 .. Len(L) : L[i] \in Elem
      BY <1>3
    <2>4. \A x \in Elem : data_buf[x] # NoData => data_buf'[x] # NoData
      BY <1>1, <1>2
    <2> QED BY <1>4, <2>1, <2>2, <2>3, <2>4
  <1>8. CASE ~F[e]
    <2>1. /\ list'[t] = Append(L, e) /\ Len(Append(L, e)) = Len(L) + 1
          /\ Append(L, e)[Len(L) + 1] = e /\ Len(L) \in Nat
          /\ \A i \in 1 .. Len(L) : Append(L, e)[i] = L[i] /\ L[i] \in Elem
      BY <1>3, <1>5, <1>8
    <2>2. \A i \in 1 .. Len(L) : L[i] # e
      BY <1>4, <1>8
    <2>3. \A i \in 1 .. Len(L) + 1 : i \in 1 .. Len(L) \/ i = Len(L) + 1
      BY <2>1
    <2>4. \A x \in Elem : is_in_list'[t][x] <=>
             \E i \in 1 .. Len(list'[t]) : list'[t][i] = x
      <3> SUFFICES ASSUME NEW x \in Elem
                   PROVE  is_in_list'[t][x] <=> \E i \in 1 .. Len(L) + 1 : Append(L, e)[i] = x
        BY <2>1
      <3>1. CASE x = e
        <4>1. Len(L) + 1 \in 1 .. Len(L) + 1
          BY <2>1
        <4> QED BY <3>1, <4>1, <2>1, <1>6, <1>3
      <3>2. CASE x # e
        <4>1. is_in_list'[t][x] <=> F[x]
          BY <3>2, <1>3, <1>6
        <4>2. (\E i \in 1 .. Len(L) + 1 : Append(L, e)[i] = x)
                 <=> \E i \in 1 .. Len(L) : L[i] = x
          <5>1. \A i \in 1 .. Len(L) : i \in 1 .. Len(L) + 1
            BY <2>1
          <5> QED BY <3>2, <5>1, <2>1, <2>3
        <4> QED BY <4>1, <4>2, <1>4
      <3> QED BY <3>1, <3>2
    <2>5. \A i, j \in 1 .. Len(list'[t]) : list'[t][i] = list'[t][j] => i = j
      BY <2>1, <2>2, <2>3, <1>4
    <2>6. \A i \in 1 .. Len(list'[t]) : data_buf'[list'[t][i]] # NoData
      BY <2>1, <2>2, <2>3, <1>1, <1>2, <1>4
    <2> QED BY <2>4, <2>5, <2>6
  <1> QED BY <1>7, <1>8

(* Reusing element e for the unknown address m: wherever e was chained     *)
(* before, it ends up in m's bucket only.                                  *)
LEMMA PutNewHash ==
    ASSUME TypeOK, HashConsistent, NEW m \in Mac, NEW d \in Data, PutNew(m, d)
    PROVE  /\ is_in_hash_table' \in [Elem -> BOOLEAN]
           /\ hash_table' \in [Bucket -> SUBSET Elem]
           /\ HashConsistent'
  <1> DEFINE e == hist_list[MAX_ADVS_TABLE]
  <1>1. e \in Elem
    BY ElemFacts DEF TypeOK
  <1>2. /\ tag_mac' = [tag_mac EXCEPT ![e] = m]
        /\ data_buf' = [data_buf EXCEPT ![e] = d]
        /\ is_in_hash_table' = [is_in_hash_table EXCEPT ![e] = TRUE]
        /\ hash_table' = adv_hash_table_add(adv_hash_table_remove(e), e, m)
    BY DEF PutNew, WriteReport
  <1>3. \A x \in hash_table[Hash[m]] : tag_mac[x] # m
    BY DEF PutNew, adv_hash_table_search
  <1> HIDE DEF e
  <1>4. /\ Hash \in [Mac -> Bucket] /\ Hash[m] \in Bucket
        /\ hash_table \in [Bucket -> SUBSET Elem]
        /\ is_in_hash_table \in [Elem -> BOOLEAN]
        /\ tag_mac \in [Elem -> Mac \cup {NoMac}]
        /\ data_buf \in [Elem -> Data \cup {NoData}]
    BY HashAssumption DEF TypeOK
  <1>5. adv_hash_table_remove(e) = [b \in Bucket |-> hash_table[b] \ {e}]
    <2>1. CASE is_in_hash_table[e]
      <3>1. tag_mac[e] \in Mac /\ Hash[tag_mac[e]] \in Bucket
        BY <1>1, <1>4, <2>1 DEF HashConsistent
      <3>2. \A b \in Bucket : b # Hash[tag_mac[e]] => hash_table[b] = hash_table[b] \ {e}
        BY <1>1, <1>4 DEF HashConsistent
      <3> QED BY <1>4, <2>1, <3>1, <3>2 DEF adv_hash_table_remove
    <2>2. CASE ~is_in_hash_table[e]
      <3>1. \A b \in Bucket : hash_table[b] = hash_table[b] \ {e}
        BY <2>2 DEF HashConsistent
      <3> QED BY <1>4, <2>2, <3>1 DEF adv_hash_table_remove
    <2> QED BY <2>1, <2>2
  <1>6. \A b \in Bucket : hash_table'[b] =
           (hash_table[b] \ {e}) \cup (IF b = Hash[m] THEN {e} ELSE {})
    BY <1>2, <1>4, <1>5 DEF adv_hash_table_add
  <1>7. hash_table' \in [Bucket -> SUBSET Elem]
    BY <1>1, <1>2, <1>4, <1>5 DEF adv_hash_table_add
  <1>8. \A b \in Bucket : \A x \in hash_table'[b] :
           is_in_hash_table'[x] /\ tag_mac'[x] \in Mac /\ Hash[tag_mac'[x]] = b
    <2> SUFFICES ASSUME NEW b \in Bucket, NEW x \in hash_table'[b]
                 PROVE  is_in_hash_table'[x] /\ tag_mac'[x] \in Mac /\ Hash[tag_mac'[x]] = b
      OBVIOUS
    <2>1. x \in Elem
      BY <1>7
    <2>2. CASE x = e
      BY <2>2, <1>1, <1>2, <1>4, <1>6
    <2>3. CASE x # e
      <3>1. x \in hash_table[b]
        BY <2>3, <1>6
      <3> QED BY <2>1, <2>3, <3>1, <1>2, <1>4 DEF HashConsistent
    <2> QED BY <2>2, <2>3
  <1>9. ASSUME NEW x \in Elem, is_in_hash_table'[x]
        PROVE  tag_mac'[x] \in Mac /\ x \in hash_table'[Hash[tag_mac'[x]]]
    <2>1. CASE x = e
      <3>1. tag_mac'[x] = m
        BY <2>1, <1>1, <1>2, <1>4
      <3> QED BY <2>1, <3>1, <1>4, <1>6
    <2>2. CASE x # e
      <3>1. is_in_hash_table[x] /\ tag_mac'[x] = tag_mac[x]
        BY <1>9, <2>2, <1>2, <1>4
      <3>2. tag_mac[x] \in Mac /\ x \in hash_table[Hash[tag_mac[x]]]
        BY <3>1 DEF HashConsistent
      <3> QED BY <2>2, <3>1, <3>2, <1>4, <1>6
    <2> QED BY <2>1, <2>2
  <1>10. ASSUME NEW x \in Elem, NEW y \in Elem, is_in_hash_table'[x],
                is_in_hash_table'[y], tag_mac'[x] = tag_mac'[y], x # y
         PROVE  FALSE
    <2>1. ASSUME NEW z \in Elem, z # e, is_in_hash_table'[z] PROVE tag_mac'[z] # m
      <3>1. is_in_hash_table[z] /\ tag_mac'[z] = tag_mac[z]
        BY <2>1, <1>2, <1>4
      <3>2. tag_mac[z] = m => z \in hash_table[Hash[m]]
        BY <3>1 DEF HashConsistent
      <3> QED BY <3>1, <3>2, <1>3
    <2>2. tag_mac'[e] = m
      BY <1>1, <1>2, <1>4
    <2>3. x # e /\ y # e
      BY <1>10, <2>1, <2>2
    <2>4. is_in_hash_table[x] /\ is_in_hash_table[y] /\ tag_mac[x] = tag_mac[y]
      BY <1>10, <2>3, <1>2, <1>4
    <2> QED BY <1>10, <2>4 DEF HashConsistent
  <1>11. \A x \in Elem : data_buf'[x] # NoData => is_in_hash_table'[x]
    BY <1>1, <1>2, <1>4 DEF HashConsistent, Occupied
  <1>12. is_in_hash_table' \in [Elem -> BOOLEAN]
    BY <1>2, <1>4
  <1> QED BY <1>7, <1>8, <1>9, <1>10, <1>11, <1>12 DEF HashConsistent, Occupied

(* An update under the address the element already holds leaves the hash   *)
(* table as it is.                                                         *)
LEMMA PutUpdateHash ==
    ASSUME TypeOK, HashConsistent, NEW m \in Mac, NEW d \in Data,
           NEW e \in adv_hash_table_search(m),
           WriteReport(e, m, d, samples_counter[e] + 1), UNCHANGED hash
    PROVE  e \in Elem /\ HashConsistent'
  <1>1. e \in Elem /\ tag_mac[e] = m /\ is_in_hash_table[e]
    BY HashAssumption DEF adv_hash_table_search, TypeOK, HashConsistent
  <1>2. tag_mac' = tag_mac
    BY <1>1 DEF WriteReport, TypeOK
  <1>3. \A x \in Elem : data_buf'[x] # NoData => x = e \/ data_buf[x] # NoData
    BY <1>1 DEF WriteReport, TypeOK
  <1> QED BY <1>1, <1>2, <1>3 DEF HashConsistent, Occupied, hash

-----------------------------------------------------------------------------
(* A discarded report: the element it is counted on is a live one.         *)
LEMMA PutDiscardInv ==
    ASSUME Inv, NEW m \in Mac, NEW d \in Data, PutDiscard(m, d)
    PROVE  Inv'
  <1>1. PICK e \in adv_hash_table_search(m) :
            /\ adv_must_be_discarded(d, data_buf[e])
            /\ samples_counter' = [samples_counter EXCEPT ![e] = @ + 1]
    BY DEF PutDiscard
  <1>2. UNCHANGED <<tag_mac, timestamp, data_buf, is_in_hash_table, hash_table,
                    is_in_list, list, hist_list, clock>>
    BY DEF PutDiscard, hash, lists
  <1>3. e \in Elem
    BY HashAssumption DEF adv_hash_table_search, Inv, TypeOK
  <1>4. data_buf[e] # NoData
    BY <1>1, DataAssumption DEF adv_must_be_discarded
  <1>5. samples_counter' \in [Elem -> Nat]
    BY <1>1, <1>3 DEF Inv, TypeOK
  <1>6. TypeOK'
    BY <1>2, <1>5 DEF Inv, TypeOK
  <1>7. \A x \in Elem : data_buf[x] = NoData => samples_counter'[x] = samples_counter[x]
    BY <1>1, <1>4 DEF Inv, TypeOK
  <1>8. TimestampsSane'
    BY <1>2, <1>7 DEF Inv, TimestampsSane
  <1>9. HistIsPermutation' /\ FreeElementsLast' /\ HistIsSorted'
    BY <1>2 DEF Inv, HistIsPermutation, FreeElementsLast, HistIsSorted
  <1>10. ListsConsistent' /\ HashConsistent'
    BY <1>2 DEF Inv, ListsConsistent, HashConsistent, Occupied
  <1> QED BY <1>6, <1>8, <1>9, <1>10 DEF Inv

(* Steps that touch no report, hash chain or history position.             *)
LEMMA FrameInv ==
    ASSUME Inv, UNCHANGED <<report, hash, hist_list, clock>>,
           is_in_list' \in [Target -> [Elem -> BOOLEAN]],
           list' \in [Target -> Seq(Elem)],
           ListsConsistent'
    PROVE  Inv'
  <1>1. UNCHANGED <<tag_mac, timestamp, samples_counter, data_buf,
                    is_in_hash_table, hash_table, hist_list, clock>>
    BY DEF report, hash
  <1>2. TypeOK'
    BY <1>1 DEF Inv, TypeOK
  <1>3. HistIsPermutation' /\ FreeElementsLast' /\ HistIsSorted'
    BY <1>1 DEF Inv, HistIsPermutation, FreeElementsLast, HistIsSorted
  <1>4. HashConsistent' /\ TimestampsSane'
    BY <1>1 DEF Inv, HashConsistent, Occupied, TimestampsSane
  <1> QED BY <1>2, <1>3, <1>4 DEF Inv

(* Taking the first r elements off a list and resetting their flags.       *)
LEMMA DropPrefix ==
    ASSUME Inv, NEW t \in Target, NEW r \in Nat, r <= Len(list[t]),
           list' = [list EXCEPT ![t] = SubSeq(list[t], r + 1, Len(list[t]))],
           is_in_list' \in [Target -> [Elem -> BOOLEAN]],
           \A u \in Target \ {t} : is_in_list'[u] = is_in_list[u],
           \A e \in Elem : is_in_list'[t][e] <=>
               is_in_list[t][e] /\ \A i \in 1 .. r : list[t][i] # e,
           data_buf' = data_buf
    PROVE  list' \in [Target -> Seq(Elem)] /\ ListsConsistent'
  <1> DEFINE L == list[t]
             K == SubSeq(L, r + 1, Len(L))
  <1>1. L \in Seq(Elem) /\ Len(L) \in Nat /\ list \in [Target -> Seq(Elem)]
    BY DEF Inv, TypeOK
  <1>2. /\ K \in Seq(Elem) /\ Len(K) = Len(L) - r
        /\ \A i \in 1 .. Len(L) - r : K[i] = L[i + r]
    BY <1>1
  <1>3. list' = [list EXCEPT ![t] = K] /\ list'[t] = K
    BY <1>1
  <1>4. /\ \A x \in Elem : is_in_list[t][x] <=> \E i \in 1 .. Len(L) : L[i] = x
        /\ \A i, j \in 1 .. Len(L) : L[i] = L[j] => i = j
        /\ \A i \in 1 .. Len(L) : data_buf[L[i]] # NoData
    BY DEF Inv, ListsConsistent
  <1> HIDE DEF L, K
  <1>5. list' \in [Target -> Seq(Elem)]
    BY <1>1, <1>2, <1>3
  <1>6. \A i \in 1 .. Len(L) - r : i + r \in 1 .. Len(L) /\ i + r \notin 1 .. r
    BY <1>1
  <1>7. \A i \in 1 .. Len(L) : i \notin 1 .. r =>
            i - r \in 1 .. Len(L) - r /\ (i - r) + r = i
    BY <1>1
  <1>8. \A i \in 1 .. r : i \in 1 .. Len(L)
    BY <1>1 DEF L
  <1>9. ASSUME NEW x \in Elem
        PROVE  is_in_list'[t][x] <=> \E i \in 1 .. Len(K) : K[i] = x
    <2>1. ASSUME is_in_list'[t][x] PROVE \E i \in 1 .. Len(K) : K[i] = x
      <3>1. PICK k \in 1 .. Len(L) : L[k] = x
        BY <2>1, <1>4
      <3>2. k \notin 1 .. r
        BY <2>1, <3>1 DEF L
      <3>3. k - r \in 1 .. Len(K) /\ K[k - r] = L[(k - r) + r] /\ (k - r) + r = k
        BY <3>2, <1>2, <1>7
      <3> QED BY <3>1, <3>3
    <2>2. ASSUME NEW i \in 1 .. Len(K), K[i] = x PROVE is_in_list'[t][x]
      <3>1. i + r \in 1 .. Len(L) /\ i + r \notin 1 .. r /\ L[i + r] = x
        BY <2>2, <1>2, <1>6
      <3>2. is_in_list[t][x]
        BY <3>1, <1>4
      <3>3. \A j \in 1 .. r : L[j] # x
        BY <3>1, <1>4, <1>8
      <3> QED BY <3>2, <3>3 DEF L
    <2> QED BY <2>1, <2>2
  <1>10. \A i, j \in 1 .. Len(K) : K[i] = K[j] => i = j
    <2> SUFFICES ASSUME NEW i \in 1 .. Len(K), NEW j \in 1 .. Len(K), K[i] = K[j]
                 PROVE  i = j
      OBVIOUS
    <2>1. i + r = j + r
      BY <1>2, <1>4, <1>6
    <2> QED BY <2>1
  <1>11. ASSUME NEW i \in 1 .. Len(K) PROVE data_buf'[K[i]] # NoData
    <2>1. i + r \in 1 .. Len(L) /\ K[i] = L[i + r]
      BY <1>2, <1>6
    <2> QED BY <2>1, <1>4
  <1>12. ASSUME NEW u \in Target, u # t
         PROVE  list'[u] = list[u] /\ is_in_list'[u] = is_in_list[u]
    BY <1>12, <1>1, <1>3
  <1>13. ListsConsistent'
    <2> DEFINE OK(l, f, d) == /\ \A x \in Elem : f[x] <=> \E i \in 1 .. Len(l) : l[i] = x
                              /\ \A i, j \in 1 .. Len(l) : l[i] = l[j] => i = j
                              /\ \A i \in 1 .. Len(l) : d[l[i]] # NoData
    <2>1. OK(K, is_in_list'[t], data_buf')
      BY <1>9, <1>10, <1>11
    <2>2. \A u \in Target : OK(list[u], is_in_list[u], data_buf)
      BY DEF Inv, ListsConsistent
    <2>3. ListsConsistent' <=> \A u \in Target : OK(list'[u], is_in_list'[u], data_buf')
      BY DEF ListsConsistent
    <2> HIDE DEF OK
    <2>4. \A u \in Target : OK(list'[u], is_in_list'[u], data_buf')
      BY <1>3, <1>12, <2>1, <2>2
    <2> QED BY <2>3, <2>4
  <1> QED BY <1>5, <1>13

(* Draining a retransmission list preserves the invariant.                 *)
LEMMA ReadListInv ==
    ASSUME Inv, NEW t \in Target, ReadListAndClear(t)
    PROVE  Inv'
  <1> DEFINE r == NumRemoved(t)
  <1>1. list[t] \in Seq(Elem) /\ Len(list[t]) \in Nat
    BY DEF Inv, TypeOK
  <1>2. r \in Nat /\ r <= Len(list[t])
    BY <1>1, TableAssumption DEF NumRemoved
  <1>3. /\ list' = [list EXCEPT ![t] = SubSeq(list[t], r + 1, Len(list[t]))]
        /\ is_in_list' = [is_in_list EXCEPT
                            ![t] = [e \in Elem |->
                               is_in_list[t][e] /\ \A i \in 1 .. r : list[t][i] # e]]
        /\ UNCHANGED <<report, hash, hist_list, clock>>
    BY DEF ReadListAndClear, Inv, TypeOK
  <1> HIDE DEF r
  <1>4. is_in_list \in [Target -> [Elem -> BOOLEAN]]
    BY DEF Inv, TypeOK
  <1>5. is_in_list' \in [Target -> [Elem -> BOOLEAN]]
    BY <1>3, <1>4
  <1>6. \A u \in Target \ {t} : is_in_list'[u] = is_in_list[u]
    BY <1>3, <1>4
  <1>7. \A e \in Elem : is_in_list'[t][e] <=>
           is_in_list[t][e] /\ \A i \in 1 .. r : list[t][i] # e
    BY <1>3, <1>4
  <1>8. data_buf' = data_buf
    BY <1>3 DEF report
  <1>9. list' \in [Target -> Seq(Elem)] /\ ListsConsistent'
    BY <1>2, <1>3, <1>5, <1>6, <1>7, <1>8, DropPrefix
  <1> QED BY <1>3, <1>5, <1>9, FrameInv

(* Taking the head of a retransmission list preserves the invariant.       *)
LEMMA ReadHeadInv ==
    ASSUME Inv, ReadListHead
    PROVE  Inv'
  <1> DEFINE t == MqttTarget
             L == list[t]
  <1>1. t \in Target /\ L \in Seq(Elem) /\ L # << >> /\ Len(L) \in Nat
    BY TargetAssumption DEF Inv, TypeOK, ReadListHead
  <1>2. 1 <= Len(L) /\ Head(L) = L[1] /\ L[1] \in Elem
    BY <1>1
  <1>3. Tail(L) = SubSeq(L, 1 + 1, Len(L))
    BY <1>1, <1>2
  <1>4. /\ list' = [list EXCEPT ![t] = SubSeq(list[t], 1 + 1, Len(list[t]))]
        /\ is_in_list' = [is_in_list EXCEPT ![t][L[1]] = FALSE]
        /\ UNCHANGED <<report, hash, hist_list, clock>>
    BY <1>2, <1>3 DEF ReadListHead, Inv, TypeOK
  <1>5. is_in_list \in [Target -> [Elem -> BOOLEAN]]
    BY DEF Inv, TypeOK
  <1>6. is_in_list' \in [Target -> [Elem -> BOOLEAN]]
    BY <1>4, <1>5
  <1>7. \A u \in Target \ {t} : is_in_list'[u] = is_in_list[u]
    BY <1>4, <1>5
  <1>8. \A e \in Elem : is_in_list'[t][e] <=>
           is_in_list[t][e] /\ \A i \in 1 .. 1 : list[t][i] # e
    BY <1>1, <1>2, <1>4, <1>5
  <1>9. data_buf' = data_buf
    BY <1>4 DEF report
  <1>10. list' \in [Target -> Seq(Elem)] /\ ListsConsistent'
    BY <1>1, <1>2, <1>4, <1>6, <1>7, <1>8, <1>9, DropPrefix
  <1> QED BY <1>4, <1>6, <1>10, FrameInv

(* Reading the statistics, which resets counters, preserves the invariant. *)
LEMMA StatisticsInv ==
    ASSUME Inv, StatisticsRead
    PROVE  Inv'
  <1>1. UNCHANGED <<tag_mac, timestamp, data_buf, is_in_hash_table, hash_table,
                    is_in_list, list, hist_list, clock>>
    BY DEF StatisticsRead, hash, lists
  <1>2. samples_counter' =
          [e \in Elem |-> IF e \in Walk(Stamped) THEN 0 ELSE samples_counter[e]]
    BY DEF StatisticsRead
  <1>3. samples_counter \in [Elem -> Nat]
    BY DEF Inv, TypeOK
  <1>4. samples_counter' \in [Elem -> Nat]
    BY <1>2, <1>3
  <1>5. TypeOK'
    BY <1>1, <1>4 DEF Inv, TypeOK
  <1>6. \A e \in Elem : samples_counter[e] = 0 => samples_counter'[e] = 0
    BY <1>2
  <1>7. TimestampsSane'
    BY <1>1, <1>6 DEF Inv, TimestampsSane
  <1>8. HistIsPermutation' /\ FreeElementsLast' /\ HistIsSorted'
    BY <1>1 DEF Inv, HistIsPermutation, FreeElementsLast, HistIsSorted
  <1>9. ListsConsistent' /\ HashConsistent'
    BY <1>1 DEF Inv, ListsConsistent, HashConsistent, Occupied
  <1> QED BY <1>5, <1>7, <1>8, <1>9 DEF Inv

(* adv_table_clear preserves the invariant although it leaves the hash     *)
(* chains as they are.                                                     *)
LEMMA ClearInv ==
    ASSUME Inv, Clear
    PROVE  Inv'
  <1>1. UNCHANGED <<tag_mac, is_in_hash_table, hash_table, hist_list, clock>>
    BY DEF Clear, hash
  <1>2. /\ list' = [t \in Target |-> << >>]
        /\ is_in_list' = [t \in Target |->
              [e \in Elem |-> is_in_list[t][e] /\ \A i \in 1 .. Len(list[t]) : list[t][i] # e]]
        /\ timestamp' = [e \in Elem |-> 0]
        /\ samples_counter' = [e \in Elem |-> 0]
        /\ data_buf' = [e \in Elem |-> NoData]
    BY DEF Clear
  <1>3. is_in_list' \in [Target -> [Elem -> BOOLEAN]] /\ list' \in [Target -> Seq(Elem)]
    BY <1>2
  <1>4. timestamp' \in [Elem -> Nat] /\ samples_counter' \in [Elem -> Nat]
    BY <1>2
  <1>5. data_buf' \in [Elem -> Data \cup {NoData}]
    BY <1>2
  <1>6. TypeOK'
    BY <1>1, <1>3, <1>4, <1>5 DEF Inv, TypeOK
  <1>7. hist_list \in [Elem -> Elem]
    BY DEF Inv, TypeOK
  <1>8. HistIsPermutation' /\ FreeElementsLast' /\ HistIsSorted'
    BY <1>1, <1>2, <1>7 DEF Inv, HistIsPermutation, FreeElementsLast, HistIsSorted
  <1>9. ListsConsistent'
    <2> SUFFICES ASSUME NEW t \in Target
                 PROVE  list'[t] = << >> /\ \A e \in Elem : ~is_in_list'[t][e]
      BY DEF ListsConsistent
    <2>1. \A e \in Elem : is_in_list[t][e] => \E i \in 1 .. Len(list[t]) : list[t][i] = e
      BY DEF Inv, ListsConsistent
    <2> QED BY <1>2, <2>1
  <1>10. HashConsistent'
    BY <1>1, <1>2 DEF Inv, HashConsistent, Occupied
  <1>11. clock \in Nat
    BY DEF Inv, TypeOK
  <1>12. TimestampsSane'
    BY <1>1, <1>2, <1>11 DEF TimestampsSane
  <1> QED BY <1>6, <1>8, <1>9, <1>10, <1>12 DEF Inv

(* The time source moving forward preserves the invariant.                 *)
LEMMA TickInv ==
    ASSUME Inv, Tick
    PROVE  Inv'
  <1>1. UNCHANGED <<tag_mac, timestamp, samples_counter, data_buf, is_in_hash_table,
                    hash_table, is_in_list, list, hist_list>> /\ clock' = clock + 1
    BY DEF Tick, report, hash, lists
  <1>2. clock \in Nat /\ timestamp \in [Elem -> Nat]
    BY DEF Inv, TypeOK
  <1>3. TypeOK'
    BY <1>1, <1>2 DEF Inv, TypeOK
  <1>4. TimestampsSane'
    BY <1>1, <1>2 DEF Inv, TimestampsSane
  <1>5. HistIsPermutation' /\ FreeElementsLast' /\ HistIsSorted'
    BY <1>1 DEF Inv, HistIsPermutation, FreeElementsLast, HistIsSorted
  <1>6. ListsConsistent' /\ HashConsistent'
    BY <1>1 DEF Inv, ListsConsistent, HashConsistent, Occupied
  <1> QED BY <1>3, <1>4, <1>5, <1>6 DEF Inv

(* A received report, new, updated or discarded, preserves the invariant.  *)
LEMMA PutInv ==
    ASSUME Inv, NEW m \in Mac, NEW d \in Data, PutNew(m, d) \/ PutUpdate(m, d)
    PROVE  Inv'
  <1>1. CASE PutNew(m, d)
    <2> DEFINE e == hist_list[MAX_ADVS_TABLE]
    <2>1. e \in Elem
      BY ElemFacts DEF Inv, TypeOK
    <2>2. Update(e, m, d, 0)
      BY <1>1 DEF PutNew, Update
    <2> HIDE DEF e
    <2>3. HistIsPermutation' /\ FreeElementsLast' /\ HistIsSorted' /\ TimestampsSane'
      BY <2>1, <2>2, UpdateHistory DEF Inv
    <2>4. ListsConsistent'
      BY <2>1, <2>2, UpdateLists DEF Inv
    <2>5. /\ is_in_hash_table' \in [Elem -> BOOLEAN]
          /\ hash_table' \in [Bucket -> SUBSET Elem]
          /\ HashConsistent'
      BY <1>1, PutNewHash DEF Inv
    <2>6. TypeOK'
      BY <2>1, <2>2, <2>5, UpdateTypes DEF Inv, TypeOK
    <2> QED BY <2>3, <2>4, <2>5, <2>6 DEF Inv
  <1>2. CASE PutUpdate(m, d)
    <2>1. PICK e \in adv_hash_table_search(m) :
              /\ WriteReport(e, m, d, samples_counter[e] + 1)
              /\ MarkUpdated(e)
      BY <1>2 DEF PutUpdate
    <2>2. UNCHANGED <<hash, clock>>
      BY <1>2 DEF PutUpdate
    <2>3. e \in Elem /\ HashConsistent'
      BY <2>1, <2>2, PutUpdateHash DEF Inv
    <2>4. samples_counter[e] + 1 \in Nat
      BY <2>3 DEF Inv, TypeOK
    <2>5. Update(e, m, d, samples_counter[e] + 1)
      BY <2>1, <2>2 DEF Update
    <2>6. HistIsPermutation' /\ FreeElementsLast' /\ HistIsSorted' /\ TimestampsSane'
      BY <2>3, <2>4, <2>5, UpdateHistory DEF Inv
    <2>7. ListsConsistent'
      BY <2>3, <2>4, <2>5, UpdateLists DEF Inv
    <2>8. TypeOK'
      BY <2>2, <2>3, <2>4, <2>5, UpdateTypes DEF Inv, TypeOK, hash
    <2> QED BY <2>3, <2>6, <2>7, <2>8 DEF Inv
  <1> QED BY <1>1, <1>2

-----------------------------------------------------------------------------
(* adv_table_init establishes the invariant.                               *)
LEMMA InitInv == Init => Inv
  <1> SUFFICES ASSUME Init PROVE Inv
    OBVIOUS
  <1>1. TypeOK
    BY DEF Init, TypeOK
  <1>2. HistIsPermutation /\ FreeElementsLast /\ HistIsSorted /\ TimestampsSane
    BY DEF Init, HistIsPermutation, FreeElementsLast, HistIsSorted, TimestampsSane
  <1>3. ListsConsistent
    BY DEF Init, ListsConsistent
  <1>4. HashConsistent
    BY DEF Init, HashConsistent, Occupied
  <1> QED BY <1>1, <1>2, <1>3, <1>4 DEF Inv

(* Every call of the table's interface preserves the invariant.            *)
LEMMA NextInv == Inv /\ [Next]_vars => Inv'
  <1> SUFFICES ASSUME Inv, [Next]_vars PROVE Inv'
    OBVIOUS
  <1>1. ASSUME NEW m \in Mac, NEW d \in Data, Put(m, d) PROVE Inv'
    BY <1>1, PutInv, PutDiscardInv DEF Put
  <1>2. ASSUME NEW t \in Target, ReadListAndClear(t) PROVE Inv'
    BY <1>2, ReadListInv
  <1>3. CASE ReadListHead
    BY <1>3, ReadHeadInv
  <1>4. ASSUME UNCHANGED <<report, hash, lists, hist_list, clock>> PROVE Inv'
    <2>1. UNCHANGED <<tag_mac, timestamp, samples_counter, data_buf, is_in_hash_table,
                      hash_table, is_in_list, list, hist_list, clock>>
      BY <1>4 DEF report, hash, lists
    <2>2. TypeOK' /\ TimestampsSane'
      BY <2>1 DEF Inv, TypeOK, TimestampsSane
    <2>3. HistIsPermutation' /\ FreeElementsLast' /\ HistIsSorted'
      BY <2>1 DEF Inv, HistIsPermutation, FreeElementsLast, HistIsSorted
    <2>4. ListsConsistent' /\ HashConsistent'
      BY <2>1 DEF Inv, ListsConsistent, HashConsistent, Occupied
    <2> QED BY <2>2, <2>3, <2>4 DEF Inv
  <1>5. ASSUME NEW a \in BOOLEAN, NEW b \in BOOLEAN, NEW f \in 0 .. MaxTime,
               HistoryRead(a, b, f)
        PROVE  Inv'
    BY <1>4, <1>5 DEF HistoryRead
  <1>6. CASE StatisticsRead
    BY <1>6, StatisticsInv
  <1>7. CASE Clear
    BY <1>7, ClearInv
  <1>8. CASE Tick
    BY <1>8, TickInv
  <1>9. CASE UNCHANGED vars
    BY <1>4, <1>9 DEF vars
  <1> QED BY <1>1, <1>2, <1>3, <1>5, <1>6, <1>7, <1>8, <1>9 DEF Next

(* The structural invariant of adv_table.c: after any sequence of calls by *)
(* any of its tasks the hash chains, the retransmission lists, their flags *)
(* and the history list agree with each other.                             *)
THEOREM TableIsConsistent == Spec => []Inv
  BY InitInv, NextInv, PTL DEF Spec

(* Every variable of the table has its type: flags, counters, positions and*)
(* buckets stay in the ranges the C structure gives them.                  *)
THEOREM TypeCorrect == Spec => []TypeOK
  <1>1. Inv => TypeOK
    BY DEF Inv
  <1> QED BY <1>1, TableIsConsistent, PTL

(* The flag of an element says whether it is in a retransmission list, and *)
(* no list of adv_table.c ever holds an element twice.                     *)
THEOREM ListsAreConsistent == Spec => []ListsConsistent
  <1>1. Inv => ListsConsistent
    BY DEF Inv
  <1> QED BY <1>1, TableIsConsistent, PTL

(* Every live report is found by adv_hash_table_search under its address,  *)
(* in the bucket of that address only, and no two elements share an address.*)
THEOREM HashIsConsistent == Spec => []HashConsistent
  <1>1. Inv => HashConsistent
    BY DEF Inv
  <1> QED BY <1>1, TableIsConsistent, PTL

(* The history list of adv_table.c keeps the shape that eviction and the   *)
(* early exits of the reads rely on.                                       *)
THEOREM HistoryIsConsistent == Spec => []HistoryConsistent
  <1>1. Inv => HistoryConsistent
    BY DEF Inv, HistoryConsistent
  <1> QED BY <1>1, TableIsConsistent, PTL

-----------------------------------------------------------------------------
(* What one step may change under a live element.                          *)
Evicts == \A e \in Occupied :
             tag_mac'[e] # tag_mac[e] =>
                /\ Occupied = Elem
                /\ \A x \in Elem : timestamp[e] <= timestamp[x]

(* Only a put of an unknown sensor changes the address of an element, and  *)
(* it takes the last one of the history list.                              *)
LEMMA EvictionStep == Inv /\ [Next]_vars => Evicts
  <1> SUFFICES ASSUME Inv, [Next]_vars, NEW e \in Occupied, tag_mac'[e] # tag_mac[e]
               PROVE  /\ Occupied = Elem
                      /\ \A x \in Elem : timestamp[e] <= timestamp[x]
    BY DEF Evicts
  <1>1. PICK m \in Mac, d \in Data : PutNew(m, d)
    <2>1. ASSUME NEW m \in Mac, NEW d \in Data, PutUpdate(m, d) PROVE tag_mac' = tag_mac
      <3>1. PICK x \in adv_hash_table_search(m) :
                tag_mac' = [tag_mac EXCEPT ![x] = m]
        BY <2>1 DEF PutUpdate, WriteReport
      <3> QED BY <3>1, HashAssumption DEF adv_hash_table_search, Inv, TypeOK
    <2>2. ASSUME NEW m \in Mac, NEW d \in Data, PutDiscard(m, d) PROVE tag_mac' = tag_mac
      BY <2>2 DEF PutDiscard
    <2>3. ASSUME \/ \E t \in Target : ReadListAndClear(t)
                 \/ ReadListHead
                 \/ \E a, b \in BOOLEAN, f \in 0 .. MaxTime : HistoryRead(a, b, f)
                 \/ Tick
                 \/ UNCHANGED vars
          PROVE  tag_mac' = tag_mac
      BY <2>3 DEF ReadListAndClear, ReadListHead, HistoryRead, Tick, vars, report
    <2>4. ASSUME StatisticsRead \/ Clear PROVE tag_mac' = tag_mac
      BY <2>4 DEF StatisticsRead, Clear
    <2> QED BY <2>1, <2>2, <2>3, <2>4 DEF Next, Put
  <1>2. e = hist_list[MAX_ADVS_TABLE]
    BY <1>1, ElemFacts DEF PutNew, WriteReport, Inv, TypeOK, Occupied
  <1>3. ASSUME NEW x \in Elem
        PROVE  data_buf[x] # NoData /\ timestamp[e] <= timestamp[x]
    <2>1. PICK i \in Elem : hist_list[i] = x
      BY DEF Inv, HistIsPermutation
    <2>2. timestamp \in [Elem -> Nat]
      BY DEF Inv, TypeOK
    <2>3. CASE i = MAX_ADVS_TABLE
      BY <1>2, <2>1, <2>2, <2>3 DEF Occupied
    <2>4. CASE i < MAX_ADVS_TABLE
      <3>1. data_buf[x] # NoData
        BY <1>2, <2>1, <2>4, ElemFacts DEF Inv, FreeElementsLast, Occupied
      <3>2. timestamp[x] >= timestamp[e]
        BY <1>2, <2>1, <2>4, ElemFacts DEF Inv, HistIsSorted
      <3> QED BY <2>2, <3>1, <3>2 DEF Occupied
    <2> QED BY <2>3, <2>4, ElemFacts
  <1> QED BY <1>3 DEF Occupied

(* A put of an unknown sensor never costs a live report while a free       *)
(* element exists, and otherwise costs the oldest one.                     *)
THEOREM EvictionIsLru == Spec => EvictsOldestOnly
  <1>1. Inv /\ [Next]_vars => [Evicts]_vars
    BY EvictionStep
  <1>2. Spec => [][Evicts]_vars
    BY <1>1, TableIsConsistent, PTL DEF Spec
  <1> QED BY <1>2 DEF EvictsOldestOnly, Evicts

-----------------------------------------------------------------------------
(* A nonempty set of natural numbers has a least element.                  *)
LEMMA LeastNumber ==
    ASSUME NEW T \in SUBSET Nat, T # {}
    PROVE  \E n \in T : \A k \in T : n <= k
  <1>1. PICK n \in T : \A k \in T : ~(<<k, n>> \in OpToRel(<, Nat))
    BY NatLessThanWellFounded, WFMin
  <1>2. ASSUME NEW k \in T PROVE n <= k
    <2>1. ~(k < n)
      BY <1>1 DEF OpToRel
    <2> QED BY <2>1
  <1> QED BY <1>2

(* A walk of the history list ends before the first element outside S.     *)
LEMMA WalkFacts ==
    ASSUME NEW S
    PROVE  /\ WalkLen(S) \in 0 .. MAX_ADVS_TABLE
           /\ \A i \in 1 .. WalkLen(S) : hist_list[i] \in S
           /\ WalkLen(S) < MAX_ADVS_TABLE => hist_list[WalkLen(S) + 1] \notin S
  <1> DEFINE Ends(n) == /\ \A i \in 1 .. n : hist_list[i] \in S
                        /\ n < MAX_ADVS_TABLE => hist_list[n + 1] \notin S
             Outside == {i \in Elem : hist_list[i] \notin S}
  <1>1. \E n \in 0 .. MAX_ADVS_TABLE : Ends(n)
    <2>1. CASE Outside = {}
      <3>1. Ends(MAX_ADVS_TABLE)
        BY <2>1, TableAssumption DEF Elem
      <3> QED BY <3>1, TableAssumption
    <2>2. CASE Outside # {}
      <3>1. PICK k \in Outside : \A i \in Outside : k <= i
        BY <2>2, ElemFacts, LeastNumber
      <3>2. k - 1 \in 0 .. MAX_ADVS_TABLE /\ (k - 1) + 1 = k
        BY TableAssumption DEF Elem
      <3>3. ASSUME NEW i \in 1 .. k - 1 PROVE hist_list[i] \in S
        <4>1. i \in Elem /\ ~(k <= i)
          BY TableAssumption DEF Elem
        <4> QED BY <3>1, <4>1
      <3>4. Ends(k - 1)
        BY <3>2, <3>3
      <3> QED BY <3>2, <3>4
    <2> QED BY <2>1, <2>2
  <1>2. WalkLen(S) = CHOOSE n \in 0 .. MAX_ADVS_TABLE : Ends(n)
    BY DEF WalkLen
  <1> QED BY <1>1, <1>2

(* A walk that stops at the first element outside S finds all of S when    *)
(* the elements of S come first in the history list.                       *)
LEMMA WalkIsExact ==
    ASSUME Inv, NEW S \in SUBSET Elem,
           \A i, j \in Elem : i < j /\ hist_list[j] \in S => hist_list[i] \in S
    PROVE  Walk(S) = S
  <1> DEFINE n == WalkLen(S)
  <1>1. /\ n \in 0 .. MAX_ADVS_TABLE
        /\ \A i \in 1 .. n : hist_list[i] \in S
        /\ n < MAX_ADVS_TABLE => hist_list[n + 1] \notin S
    BY WalkFacts
  <1>2. Walk(S) = {hist_list[i] : i \in 1 .. n}
    BY DEF Walk
  <1> HIDE DEF n
  <1>3. ASSUME NEW e \in S PROVE \E i \in 1 .. n : hist_list[i] = e
    <2>1. PICK j \in Elem : hist_list[j] = e
      BY DEF Inv, HistIsPermutation
    <2>2. ASSUME n < j PROVE FALSE
      <3>1. n + 1 \in Elem /\ n < MAX_ADVS_TABLE /\ (n + 1 = j \/ n + 1 < j)
        BY <1>1, <2>2, TableAssumption DEF Elem
      <3> QED BY <1>1, <2>1, <3>1
    <2>3. j \in 1 .. n
      BY <1>1, <2>2, TableAssumption DEF Elem
    <2> QED BY <2>1, <2>3
  <1> QED BY <1>1, <1>2, <1>3

(* Reports that are recent, newer than a counter value, or stamped at all  *)
(* come before the others.                                                 *)
LEMMA TimesComeFirst ==
    ASSUME Inv, NEW i \in Elem, NEW j \in Elem, i < j, NEW f \in Nat
    PROVE  /\ hist_list[j] \in Occupied => hist_list[i] \in Occupied
           /\ hist_list[j] \in Recent(f) => hist_list[i] \in Recent(f)
           /\ hist_list[j] \in Newer(f) => hist_list[i] \in Newer(f)
           /\ hist_list[j] \in Stamped => hist_list[i] \in Stamped
  <1>1. /\ hist_list[i] \in Elem /\ hist_list[j] \in Elem
        /\ timestamp[hist_list[i]] \in Nat /\ timestamp[hist_list[j]] \in Nat
        /\ clock \in Nat
    BY DEF Inv, TypeOK
  <1>2. timestamp[hist_list[i]] >= timestamp[hist_list[j]]
    BY DEF Inv, HistIsSorted
  <1>3. data_buf[hist_list[j]] # NoData => data_buf[hist_list[i]] # NoData
    BY DEF Inv, FreeElementsLast
  <1> QED BY <1>1, <1>2, <1>3 DEF Occupied, Recent, Newer, Stamped

(* adv_table_read_history_unsafe stops at the first element that is free   *)
(* or outside the requested window, and still misses no report.            *)
THEOREM HistoryIsExact == Spec => []HistoryExact
  <1>1. Inv => HistoryExact
    <2> SUFFICES ASSUME Inv PROVE HistoryExact
      OBVIOUS
    <2>1. Walk(Occupied) = Occupied
      <3>1. Occupied \in SUBSET Elem
        BY DEF Occupied
      <3>2. \A i, j \in Elem : i < j /\ hist_list[j] \in Occupied
                                 => hist_list[i] \in Occupied
        BY DEF Inv, TypeOK, FreeElementsLast, Occupied
      <3> QED BY <3>1, <3>2, WalkIsExact
    <2>2. ASSUME NEW use_timestamps \in BOOLEAN, NEW f \in 0 .. MaxTime
          PROVE  Walk(InWindow(use_timestamps, f)) = InWindow(use_timestamps, f)
      <3> DEFINE S == InWindow(use_timestamps, f)
      <3>1. f \in Nat
        BY BoundAssumption
      <3>2. /\ use_timestamps => S = Occupied \cap Recent(f)
            /\ ~use_timestamps => S = Occupied \cap Newer(f)
        BY DEF InWindow
      <3> HIDE DEF S
      <3>3. S \in SUBSET Elem
        BY <3>2 DEF Occupied
      <3>4. \A i, j \in Elem : i < j /\ hist_list[j] \in S => hist_list[i] \in S
        BY <3>1, <3>2, TimesComeFirst
      <3>5. Walk(S) = S
        BY <3>3, <3>4, WalkIsExact
      <3> QED BY <3>5 DEF S
    <2> QED BY <2>1, <2>2 DEF HistoryExact
  <1> QED BY <1>1, TableIsConsistent, PTL

(* A walk over the elements with a time stamp finds all of them.           *)
LEMMA StampedWalk ==
    ASSUME Inv
    PROVE  Walk(Stamped) = Stamped
  <1>1. Stamped \in SUBSET Elem
    BY DEF Stamped
  <1>2. \A i, j \in Elem : i < j /\ hist_list[j] \in Stamped => hist_list[i] \in Stamped
    BY TimesComeFirst
  <1> QED BY <1>1, <1>2, WalkIsExact

(* adv_table_read_statistics_unsafe stops at the first zero time stamp and *)
(* still reports every sensor that has one.                                *)
THEOREM StatisticsAreExact == Spec => []StatisticsExact
  <1>1. Inv => StatisticsExact
    BY StampedWalk DEF StatisticsExact
  <1> QED BY <1>1, TableIsConsistent, PTL

-----------------------------------------------------------------------------
(* What one step may do to the counters.                                   *)
CountersReported ==
    \A e \in Elem :
        tag_mac'[e] = tag_mac[e] /\ samples_counter'[e] < samples_counter[e] =>
           \/ out'.op = "clear"
           \/ /\ out'.op = "statistics"
              /\ \E i \in DOMAIN out'.advs :
                    out'.advs[i] = [mac |-> tag_mac[e], cnt |-> samples_counter[e]]

(* A put counts up, or gives the element to another sensor; the statistics *)
(* reset what they have just reported.                                     *)
LEMMA CountersStep == Inv /\ [Next]_vars => CountersReported
  <1> SUFFICES ASSUME Inv, [Next]_vars, NEW e \in Elem, tag_mac'[e] = tag_mac[e],
                      samples_counter'[e] < samples_counter[e]
               PROVE  \/ out'.op = "clear"
                      \/ /\ out'.op = "statistics"
                         /\ \E i \in DOMAIN out'.advs :
                               out'.advs[i] = [mac |-> tag_mac[e],
                                               cnt |-> samples_counter[e]]
    BY DEF CountersReported
  <1>0. samples_counter \in [Elem -> Nat]
    BY DEF Inv, TypeOK
  <1>1. ASSUME NEW m \in Mac, NEW d \in Data, PutNew(m, d) PROVE FALSE
    <2> DEFINE x == hist_list[MAX_ADVS_TABLE]
    <2>1. /\ samples_counter' = [samples_counter EXCEPT ![x] = 0]
          /\ tag_mac' = [tag_mac EXCEPT ![x] = m] /\ adv_hash_table_search(m) = {}
      BY <1>1 DEF PutNew, WriteReport
    <2> HIDE DEF x
    <2>2. x = e /\ samples_counter[e] # 0
      BY <1>0, <2>1
    <2>3. tag_mac[e] = m
      BY <2>1, <2>2 DEF Inv, TypeOK
    <2>4. is_in_hash_table[e]
      BY <2>2 DEF Inv, TimestampsSane, HashConsistent, Occupied
    <2>5. e \in adv_hash_table_search(m)
      BY <2>3, <2>4 DEF Inv, HashConsistent, adv_hash_table_search
    <2> QED BY <2>1, <2>5
  <1>2. ASSUME NEW m \in Mac, NEW d \in Data, PutUpdate(m, d) \/ PutDiscard(m, d)
        PROVE  FALSE
    <2>1. PICK x : samples_counter' = [samples_counter EXCEPT ![x] = samples_counter[x] + 1]
      BY <1>2 DEF PutUpdate, PutDiscard, WriteReport
    <2> QED BY <1>0, <2>1
  <1>3. CASE StatisticsRead
    <2> DEFINE advs == [i \in 1 .. WalkLen(Stamped) |->
                          [mac |-> tag_mac[hist_list[i]],
                           cnt |-> samples_counter[hist_list[i]]]]
    <2>1. out' = [op |-> "statistics", advs |-> advs]
      BY <1>3 DEF StatisticsRead
    <2>2. e \in Walk(Stamped)
      BY <1>0, <1>3 DEF StatisticsRead
    <2>3. PICK i \in 1 .. WalkLen(Stamped) : hist_list[i] = e
      BY <2>2 DEF Walk
    <2>4. i \in DOMAIN advs /\ advs[i] = [mac |-> tag_mac[e], cnt |-> samples_counter[e]]
      BY <2>3
    <2> QED BY <2>1, <2>4
  <1>4. CASE Clear
    BY <1>4 DEF Clear
  <1>5. ASSUME \/ \E t \in Target : ReadListAndClear(t)
               \/ ReadListHead
               \/ \E a, b \in BOOLEAN, f \in 0 .. MaxTime : HistoryRead(a, b, f)
               \/ Tick
               \/ UNCHANGED vars
        PROVE  FALSE
    <2>1. samples_counter' = samples_counter
      BY <1>5 DEF ReadListAndClear, ReadListHead, HistoryRead, Tick, vars, report
    <2> QED BY <1>0, <2>1
  <1> QED BY <1>1, <1>2, <1>3, <1>4, <1>5 DEF Next, Put

(* No sample that was counted for a sensor is dropped before it has been   *)
(* reported, as long as the sensor keeps its place in the table.           *)
THEOREM SamplesAreReported == Spec => SamplesReported
  <1>1. Inv /\ [Next]_vars => [CountersReported]_vars
    BY CountersStep
  <1>2. Spec => [][CountersReported]_vars
    BY <1>1, TableIsConsistent, PTL DEF Spec
  <1> QED BY <1>2 DEF SamplesReported, CountersReported
=============================================================================
