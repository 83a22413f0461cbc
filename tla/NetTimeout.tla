----------------------------- MODULE NetTimeout -----------------------------
(***************************************************************************)
(* The network watchdog (network_timeout.c): every success of networking   *)
(* records the tick count, and a timer of adv_post compares the ticks      *)
(* since then with the timeout and restarts the gateway.  A success is an  *)
(* HTTP response, a published report, a request from the user interface, a *)
(* change of mode or the start of a firmware update.                       *)
(*                                                                         *)
(* TickType_t is an unsigned integer of W bits (32 in the build, with 1000 *)
(* ticks a second, it wraps after 49 days; the timeout is an hour).  The   *)
(* model starts when adv_post starts the timer, which records the tick     *)
(* count; the timer is never stopped.                                      *)
(***************************************************************************)
EXTENDS Naturals

CONSTANTS
    W,          \* width of TickType_t
    Timeout,    \* RUUVI_NETWORK_WATCHDOG_TIMEOUT_SECONDS, in ticks
    Period      \* ticks between two checks (RUUVI_NETWORK_WATCHDOG_PERIOD_SECONDS)

ASSUME WatchdogAssumption ==
    /\ W \in Nat /\ Timeout \in Nat /\ Period \in Nat \ {0}
    /\ 2 ^ W \in Nat
    /\ Timeout + Period < 2 ^ W     \* a check comes before the difference wraps

VARIABLES
    tick,       \* xTaskGetTickCount()
    last,       \* g_network_timeout_last_successful_timestamp
    untilCheck, \* ticks until the timer sends the next NETWORK_WATCHDOG signal
    restarted,  \* gateway_restart("Network watchdog") was called
    silence     \* ticks since the last success, counted without wrapping;
                \* of the model only

wdVars == <<tick, last, untilCheck, restarted, silence>>

WdInit ==
    /\ tick = 0 /\ last = 0
    /\ untilCheck = Period
    /\ restarted = FALSE
    /\ silence = 0

Tick ==
    /\ ~restarted /\ untilCheck > 0
    /\ tick' = (tick + 1) % 2 ^ W
    /\ untilCheck' = untilCheck - 1
    /\ silence' = silence + 1
    /\ UNCHANGED <<last, restarted>>

\* network_timeout_update_timestamp.
UpdateTimestamp ==
    /\ ~restarted
    /\ last' = tick
    /\ silence' = 0
    /\ UNCHANGED <<tick, untilCheck, restarted>>

\* Mutant: compares points in time, which wrap, instead of a difference.
TimeoutCheckPoints == tick > last + Timeout

\* network_timeout_check: the difference of unsigned integers of W bits.
TimeoutCheck == (tick + 2 ^ W - last) % 2 ^ W > Timeout

\* adv_post_handle_sig_network_watchdog.
NetworkWatchdog ==
    /\ ~restarted /\ untilCheck = 0
    /\ restarted' = TimeoutCheck
    /\ untilCheck' = Period
    /\ UNCHANGED <<tick, last, silence>>

\* gateway_restart resets the gateway, and the watchdog starts again.
WdRestart ==
    /\ restarted
    /\ tick' = 0 /\ last' = 0
    /\ untilCheck' = Period
    /\ restarted' = FALSE
    /\ silence' = 0

WdNext == Tick \/ UpdateTimestamp \/ NetworkWatchdog \/ WdRestart

WdSpec == WdInit /\ [][WdNext]_wdVars

(* The watchdog restarts the gateway only after a silence longer than the  *)
(* timeout, and no silence lasts longer than the timeout and one period,   *)
(* also when the tick count has wrapped in between: network_timeout_check  *)
(* subtracts tick counts modulo 2^W.                                       *)
RestartsOnSilence ==
    /\ restarted => silence > Timeout
    /\ silence <= Timeout + Period

-----------------------------------------------------------------------------
(* Why it holds: the inductive invariant.                                  *)

WdTypeOK ==
    /\ tick \in 0 .. 2 ^ W - 1
    /\ last \in 0 .. 2 ^ W - 1
    /\ untilCheck \in 0 .. Period
    /\ restarted \in BOOLEAN
    /\ silence \in Nat

(* The tick count is the one of the last success plus the silence, wrapped *)
(* at most once; and the next check comes before the silence can exceed    *)
(* the timeout by more than a period.                                      *)
WdInv ==
    /\ WdTypeOK
    /\ tick \in {last + silence, last + silence - 2 ^ W}
    /\ ~restarted => silence + untilCheck <= Timeout + Period
    /\ RestartsOnSilence
=============================================================================
