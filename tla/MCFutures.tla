----------------------------- MODULE MCFutures -----------------------------
(* Instances of Futures for TLC. *)
EXTENDS Futures, TLC

Steps == {"map", "asTry", "mapOk", "andThen", "orElse"}
Chains == {<<a>> : a \in Steps} \union {<<a, b>> : a, b \in Steps}

\* Every combinator with every consumer, and one Map.
Lifetimes ==
  [comb : Combs, early : BOOLEAN, box : BOOLEAN, via : {"none", "pool", "inline"}, chain : {<<"map">>},
   ok : {TRUE}, userOk : {TRUE}, end : {"get", "detach"}]

\* Every chain of one or two steps, with every outcome.
Results ==
  [comb : Combs \ {"start", "first"}, early : BOOLEAN, box : {FALSE}, via : {"none", "pool"},
   chain : Chains, ok : BOOLEAN, userOk : BOOLEAN, end : {"get"}]

MCGraphs == {g \in Lifetimes \union Results : WellTyped(g)}

=============================================================================
