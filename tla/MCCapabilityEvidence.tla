------------------------ MODULE MCCapabilityEvidence ------------------------
(* Bounds for TLC: artifacts that suggest one capability, every answer of  *)
(* up to two embeddings over three indices and three dimensions of which   *)
(* one at most is the longest, and parameters at either side of each limit *)

EXTENDS CapabilityEvidence, TLC

Symmetry == Permutations(Instances) \cup Permutations(Callers)

MCMetadata == {[chat_template |-> TRUE, bert |-> TRUE, embedding_length |-> FALSE]}

MCParameters ==
  [temperature : {{}} \cup {{t} : t \in [finite : BOOLEAN, value : -1..0]},
   max_output_tokens : {{}, {0}, {1}},
   stop : {<<>>, <<0>>, <<1>>, <<2>>, <<1, 1>>}]

Embeddings == [index : 0..2, dimension : 0..2, finite : BOOLEAN]

MCEmbedResponses ==
  {e \in UNION {[1..n -> Embeddings] : n \in 0..2} :
     Cardinality({k \in DOMAIN e : e[k].dimension = 2}) <= 1}

MCCompletions ==
  {<<>>} \cup {<<r>> : r \in [text : 0..1, output_tokens : {{}, {0}, {1}}]}
=============================================================================
