----------------------------- MODULE MCAdvTable -----------------------------
(***************************************************************************)
(* Instances of AdvTable for TLC.                                          *)
(***************************************************************************)
EXTENDS AdvTable, TLC

CONSTANTS s1, s2

(* Two buckets: s1 and s2 collide, every other sensor hashes elsewhere.    *)
MCBucket == {0, 1}
MCHash == [m \in Mac |-> IF m \in {s1, s2} THEN 0 ELSE 1]

(* One bucket: all sensors collide, and are interchangeable.               *)
OneBucket == {0}
OneHash == [m \in Mac |-> 0]
SensorSymmetry == Permutations(Mac)
=============================================================================
