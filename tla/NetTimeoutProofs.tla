-------------------------- MODULE NetTimeoutProofs --------------------------
(***************************************************************************)
(* The network watchdog measures a silence correctly for every width of    *)
(* the tick count, every timeout and every period that fit into it.        *)
(***************************************************************************)
EXTENDS NetTimeout, TLAPS

(* Unsigned arithmetic with modulus M: incrementing, and the difference of *)
(* two counts that are d < M ticks apart.                                  *)
LEMMA WrapIncrement ==
    ASSUME NEW M \in Nat \ {0}, NEW a \in 0 .. M - 1
    PROVE  (a + 1) % M = IF a + 1 = M THEN 0 ELSE a + 1
  <1>1. CASE a + 1 = M
    BY <1>1
  <1>2. CASE a + 1 # M
    BY <1>2
  <1> QED BY <1>1, <1>2

LEMMA WrapDifference ==
    ASSUME NEW M \in Nat \ {0}, NEW a \in 0 .. M - 1, NEW b \in 0 .. M - 1,
           NEW d \in 0 .. M - 1, a \in {b + d, b + d - M}
    PROVE  (a + M - b) % M = d
  <1>1. CASE a = b + d
    <2>1. a + M - b = d + M
      BY <1>1
    <2>2. (d + M) % M = d
      OBVIOUS
    <2> QED BY <2>1, <2>2
  <1>2. CASE a = b + d - M
    <2>1. a + M - b = d
      BY <1>2
    <2> QED BY <2>1
  <1> QED BY <1>1, <1>2

-----------------------------------------------------------------------------
LEMMA WdInitInv == WdInit => WdInv
  <1> DEFINE M == 2 ^ W
  <1>1. M \in Nat \ {0} /\ Timeout \in Nat /\ Period \in Nat \ {0}
    BY WatchdogAssumption
  <1>2. SUFFICES ASSUME WdInit
                 PROVE  /\ tick \in 0 .. M - 1 /\ last \in 0 .. M - 1
                        /\ untilCheck \in 0 .. Period
                        /\ restarted = FALSE /\ silence = 0
                        /\ tick \in {last + silence, last + silence - M}
                        /\ silence + untilCheck <= Timeout + Period
                        /\ silence <= Timeout + Period
    BY DEF WdInv, WdTypeOK, RestartsOnSilence
  <1> HIDE DEF M
  <1> QED BY <1>1, <1>2 DEF WdInit

LEMMA WdNextInv == WdInv /\ [WdNext]_wdVars => WdInv'
  <1> DEFINE M == 2 ^ W
  <1> SUFFICES ASSUME WdInv, [WdNext]_wdVars
               PROVE  WdInv'
    OBVIOUS
  <1>m. /\ M \in Nat \ {0} /\ Timeout \in Nat /\ Period \in Nat \ {0}
        /\ Timeout + Period < M
    BY WatchdogAssumption
  <1>i. /\ tick \in 0 .. M - 1 /\ last \in 0 .. M - 1 /\ untilCheck \in 0 .. Period
        /\ restarted \in BOOLEAN /\ silence \in Nat
        /\ tick \in {last + silence, last + silence - M}
        /\ ~restarted => silence + untilCheck <= Timeout + Period
        /\ restarted => silence > Timeout
        /\ silence <= Timeout + Period
    BY DEF WdInv, WdTypeOK, RestartsOnSilence
  <1>g. SUFFICES
           /\ tick' \in 0 .. M - 1 /\ last' \in 0 .. M - 1 /\ untilCheck' \in 0 .. Period
           /\ restarted' \in BOOLEAN /\ silence' \in Nat
           /\ tick' \in {last' + silence', last' + silence' - M}
           /\ ~restarted' => silence' + untilCheck' <= Timeout + Period
           /\ restarted' => silence' > Timeout
           /\ silence' <= Timeout + Period
    BY DEF WdInv, WdTypeOK, RestartsOnSilence
  <1> HIDE DEF M
  <1>1. CASE Tick
    <2>1. tick' = IF tick + 1 = M THEN 0 ELSE tick + 1
      BY <1>1, <1>m, <1>i, WrapIncrement DEF Tick, M
    <2> QED BY <1>1, <2>1, <1>m, <1>i DEF Tick
  <1>2. CASE UpdateTimestamp
    BY <1>2, <1>m, <1>i DEF UpdateTimestamp
  <1>3. CASE NetworkWatchdog
    <2>1. silence \in 0 .. M - 1
      BY <1>m, <1>i
    <2>2. (tick + M - last) % M = silence
      BY <2>1, <1>m, <1>i, WrapDifference
    <2>3. restarted' = (silence > Timeout)
      BY <1>3, <2>2 DEF NetworkWatchdog, TimeoutCheck, M
    <2>4. UNCHANGED <<tick, last, silence>> /\ untilCheck' = Period
      BY <1>3 DEF NetworkWatchdog
    <2>5. CASE silence > Timeout
      <3>1. restarted' = TRUE
        BY <2>3, <2>5
      <3>2. restarted' \in BOOLEAN
        BY <3>1, Zenon
      <3> QED BY <3>1, <3>2, <2>4, <2>5, <1>m, <1>i
    <2>6. CASE ~(silence > Timeout)
      <3>0. (silence > Timeout) = FALSE
        BY <2>6
      <3>1. restarted' = FALSE
        BY <2>3, <3>0, Zenon
      <3>2. restarted' \in BOOLEAN
        BY <3>1, Zenon
      <3> QED BY <3>1, <3>2, <2>4, <2>6, <1>m, <1>i
    <2> QED BY <2>5, <2>6
  <1>4. CASE WdRestart
    <2>1. /\ tick' = 0 /\ last' = 0 /\ untilCheck' = Period
          /\ restarted' = FALSE /\ silence' = 0
      BY <1>4 DEF WdRestart
    <2>2. restarted' \in BOOLEAN
      BY <2>1, Zenon
    <2> QED BY <2>1, <2>2, <1>m
  <1>5. CASE UNCHANGED wdVars
    BY <1>5, <1>i DEF wdVars
  <1> QED BY <1>1, <1>2, <1>3, <1>4, <1>5 DEF WdNext

(* network_timeout_check restarts the gateway after a silence longer than  *)
(* the timeout and never before, and no silence outlasts the timeout by    *)
(* more than one period of the timer, whatever the width of TickType_t.    *)
THEOREM WatchdogMeasuresSilence == WdSpec => []RestartsOnSilence
  <1>1. WdInv => RestartsOnSilence
    BY DEF WdInv
  <1> QED BY <1>1, WdInitInv, WdNextInv, PTL DEF WdSpec
=============================================================================
