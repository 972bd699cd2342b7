----------------------------- MODULE MCGateway -----------------------------
(* The pipeline with two handlers and the bodies each run calls for.       *)
EXTENDS Gateway, TLC

CONSTANTS h1, h2, a1, anthropic, openai,
          plain, other, stream, grows, null, garbled,
          none, nokey, nocall, nostats, norequest, noreply, noresponse

MCHandlers == {h1, h2}
MCOneAgent == {a1}
MCOneEndpoint == {anthropic}
MCTwoEndpoints == {anthropic, openai}

MCOneBody == {plain}
MCCacheableOrNot == {plain, other, stream}
MCGrowing == {grows}
MCAllBodies == {plain, stream, grows, null, garbled}

MCShape == [b \in Bodies |->
  [parses    |-> b # garbled,
   null      |-> b = null,
   streaming |-> b = stream,
   original  |-> CASE b = null -> 0 [] b = grows -> 1 [] OTHER -> 2,
   optimized |-> CASE b = null -> 0 [] b = grows -> 2 [] OTHER -> 1]]

MCMemory == {[enabled |-> TRUE, backend |-> "memory"]}
MCEveryCache == MCMemory \cup {[enabled |-> TRUE, backend |-> "redis"],
                              [enabled |-> FALSE, backend |-> "memory"]}

MCSymmetry == Permutations(Handlers)

=============================================================================
