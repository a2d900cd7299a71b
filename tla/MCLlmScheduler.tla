--------------------------- MODULE MCLlmScheduler ---------------------------
(***************************************************************************)
(* TLC instances of LlmScheduler.                                          *)
(***************************************************************************)
EXTENDS LlmScheduler, TLC

CONSTANTS a, b, c, m1, key, bulk    \* model values

OneGroup == {1}
TwoGroups == {1, 2}
OneSlot == 1 :> 1 @@ 2 :> 1
TwoSlots == 1 :> 2
HalfShare == bulk :> 50
NoShares == [s \in {} |-> 100]

\* One group of two slots: a top-class caller and one whose wait can be escalated
\* use a model without a background prober, so that a live request is the probe;
\* the third has no health key.  The last two sit in a share of one slot.
PumpCallers == {a, b, c}
PumpGroupOf == [x \in PumpCallers |-> 1]
PumpModelOf == [x \in PumpCallers |-> IF x = c THEN None ELSE m1]
PumpKeyOf == [x \in PumpCallers |-> IF x = b THEN key ELSE None]
PumpShareOf == [x \in PumpCallers |-> IF x = a THEN None ELSE bulk]
PumpClassOf == a :> 3 @@ b :> 0 @@ c :> 1

\* One model used from two groups of one slot each, with a background prober.
ProberCallers == {a, b, c}
ProberGroupOf == a :> 1 @@ b :> 1 @@ c :> 2
ProberModelOf == [x \in ProberCallers |-> m1]
ProberKeyOf == [x \in ProberCallers |-> None]
ProberShareOf == [x \in ProberCallers |-> None]
ProberClassOf == a :> 3 @@ b :> 1 @@ c :> 1
=============================================================================
