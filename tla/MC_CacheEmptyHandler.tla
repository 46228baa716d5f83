------------------------ MODULE MC_CacheEmptyHandler ------------------------
(* Model-checking instance of CacheEmptyHandler: three goroutines, one     *)
(* HTTP proxy and one nil entry in the registry, as in the package tests.  *)
EXTENDS CacheEmptyHandler, TLC

CONSTANTS c1, c2, c3, chA, chB, nilProxy

MCCallers == {c1, c2, c3}
MCChannels1 == {chA}
MCChannels2 == {chA, chB}
\* "test" is the proxy of the tests; "broken" a nil entry that is skipped
MCProxies == [n \in {"test", "broken"} |-> IF n = "test" THEN "http" ELSE nilProxy]
\* only a nil entry: no backend is configured
MCNilOnly == [n \in {"broken"} |-> nilProxy]
\* a gRPC proxy and an HTTP proxy both registered
MCTwoProxies == [n \in {"p1", "p2"} |-> IF n = "p1" THEN "grpc" ELSE "http"]

MCCallers2 == {c1, c2}

MCSymmetry == Permutations(MCCallers)

=============================================================================
