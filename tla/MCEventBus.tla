----------------------------- MODULE MCEventBus -----------------------------
(* Instances of EventBus for TLC. *)
EXTENDS EventBus, TLC

CONSTANTS r1, r2, r3, g1, g2, k1, k2

\* Two requests and an emit, the emit of a kind only the fallback may handle.
ThreeRequests == {r1, r2, r3}
OneEmit == {r3}
TwoKinds == {k1, k2}
KindsOfRequests == (r1 :> k1) @@ (r2 :> k1) @@ (r3 :> k2)

\* Two calls of bus.on: for one kind, or one of them the fallback.
TwoRegs == {g1, g2}
SameKey == (g1 :> k1) @@ (g2 :> k1)
KindAndAny == (g1 :> k1) @@ (g2 :> AnyKey)

NoHostKeys == {}
FallbackHost == {AnyKey}
=============================================================================
