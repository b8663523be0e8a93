----------------------------- MODULE GatewayClock -----------------------------
(***************************************************************************)
(* What the gateway's components share: the public keys, the capabilities, *)
(* and the system clock in seconds.                                        *)
(***************************************************************************)
EXTENDS Integers, Sequences, FiniteSets

CONSTANTS
  Agent,       \* public keys of agents
  Capability,  \* capabilities; an intent of that name is the capability
  MaxTime      \* bound: the clock stops here

ASSUME ClockAssumption == MaxTime \in Nat

VARIABLE now

ClockOK == now \in 0 .. MaxTime

Tick == now < MaxTime /\ now' = now + 1

AtMost(a, b) == IF a < b THEN a ELSE b
=============================================================================
