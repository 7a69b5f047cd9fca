----------------------------- MODULE MCCollect -----------------------------
(***************************************************************************)
(* Collect on small bodies: every source under every adapter, and pairs of *)
(* adapters over the sources whose outcome depends on both.                *)
(***************************************************************************)
EXTENDS Collect

True == [honest |-> TRUE]
Claim(lower, upper, trailers) ==
  [honest |-> FALSE, hint |-> [lower |-> lower, upper |-> upper], trailers |-> trailers]

Scripts ==
  {<<<<"data", 1>>, <<"data", 2>>>>,
   <<<<"data", 2>>, <<"trailers">>>>,
   <<<<"data", 1>>, <<"error">>, <<"data", 1>>>>,
   <<<<"data", 0>>, <<"end">>, <<"data", 1>>>>,
   <<<<"trailers">>, <<"trailers">>>>,
   <<<<"trailers">>, <<"data", 1>>>>,
   <<<<"trailers">>, <<"error">>>>}

Sources ==
  {Empty(1), Full(1, 2)}
  \cup {StreamBody(1, script) : script \in Scripts}
  \cup {Custom(1, script, claim) : script \in Scripts,
          claim \in {True, Claim(1, 1, "mayHave"), Claim(0, NoUpper, "none")}}
  \cup {ReaderBody(1, 2), FileBody(1, 2, 1), FileBody(1, 3, 2)}

Layers ==
  {Limited(1), Limited(2), ExactLength(2, "mayHave"), ExactLength(3, "none"),
   MapData, MapFrame, WithTrailers, Either("left"), MapError, Forwarding}

MCStacks ==
  {<<s>> : s \in Sources}
  \cup {<<l, s>> : l \in Layers, s \in Sources}
  \cup {<<k, l, s>> : k \in Layers, l \in {Limited(2), ExactLength(2, "mayHave"), MapData, WithTrailers, Either("left")},
                      s \in {x \in Sources : x.kind \in {"stream", "custom", "file"}}}

MCConsumers ==
  [mode : {"collect"}, max : {0, 2, 3}] \cup [mode : {"frames", "data", "direct"}, max : {0}]
=============================================================================
