------------------------------ MODULE MCEventBus ------------------------------
(* Instances of EventBus for TLC.                                          *)
EXTENDS EventBus, TLC

CONSTANTS s1, s2, k1, k2, k3

\* One subscriber asks for a size below 1, the other for a buffer of two.
MCBufSize == s1 :> 0 @@ s2 :> 2

\* Two calls of the unsub of s1, one of the unsub of s2.
MCHandle == k1 :> s1 @@ k2 :> s1 @@ k3 :> s2

=============================================================================
