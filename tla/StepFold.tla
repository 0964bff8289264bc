------------------------------ MODULE StepFold ------------------------------
(***************************************************************************)
(* A loop over data: a value goes through steps that are functions.        *)
(***************************************************************************)
EXTENDS Integers, Sequences

\* What start has become after the first n steps.
After(steps, start, n) ==
    LET value[i \in 0..n] == IF i = 0 THEN start ELSE steps[i][value[i - 1]]
    IN  value[n]

\* What sizes add up to, from a start.
Total(start, sizes) ==
    After([i \in DOMAIN sizes |-> [n \in Nat |-> n + sizes[i]]], start, Len(sizes))
=============================================================================
