------------------------------ MODULE Samples ------------------------------
(***************************************************************************)
(* sample_t of declarations.h, which keeps the last measurements with their*)
(* minimum and maximum, and the small helpers of helpers.h.                *)
(***************************************************************************)
EXTENDS Integers

CONSTANT MAX_SAMPLE_VALS

ASSUME SampleConstants == MAX_SAMPLE_VALS \in Nat \ {0}

Max2(a, b) == IF a > b THEN a ELSE b
Min2(a, b) == IF a < b THEN a ELSE b
Clamp(x, low, high) == IF x > high THEN high ELSE IF x < low THEN low ELSE x

Sample == [1..MAX_SAMPLE_VALS -> Int]
SampleOf(v) == [i \in 1..MAX_SAMPLE_VALS |-> v]
update_sample(s, v) == [i \in 1..MAX_SAMPLE_VALS |-> IF i = 1 THEN v ELSE s[i - 1]]

Largest(s)  == CHOOSE v \in {s[i] : i \in DOMAIN s} : \A i \in DOMAIN s : s[i] <= v
Smallest(s) == CHOOSE v \in {s[i] : i \in DOMAIN s} : \A i \in DOMAIN s : s[i] >= v
=============================================================================
