----------------------------- MODULE Inference -----------------------------
(***************************************************************************)
(* What a request may ask for and what a result must be to be believed     *)
(* (inference.rs), over the data that the judgements look at.              *)
(*                                                                         *)
(* An option is a set of at most one element.  A text is its length.  A    *)
(* vector is its dimension and whether all its components are finite.      *)
(***************************************************************************)
EXTENDS Integers, Sequences, FiniteSets

CONSTANTS MAX_STOP_SEQUENCES, MAX_STOP_SEQUENCE_BYTES

-----------------------------------------------------------------------------
(* Requests.                                                               *)

(* GenerationParameters::validate.  A temperature is its value and whether *)
(* it is finite; stop is the sequence of the lengths of the stops.         *)
Honourable(parameters) ==
  /\ \A t \in parameters.temperature : t.finite /\ t.value >= 0
  /\ 0 \notin parameters.max_output_tokens
  /\ Len(parameters.stop) <= MAX_STOP_SEQUENCES
  /\ \A k \in DOMAIN parameters.stop :
       parameters.stop[k] \in 1..MAX_STOP_SEQUENCE_BYTES

-----------------------------------------------------------------------------
(* Results: embeddings, each [index, dimension, finite].                   *)

(* EmbeddingResult::dimension: none if there is no vector, or they differ. *)
Dimension(embeddings) ==
  {d \in {embeddings[k].dimension : k \in DOMAIN embeddings} :
     \A k \in DOMAIN embeddings : embeddings[k].dimension = d}

(* An index that was asked for, and was not seen before. *)
Attributable(inputs, embeddings, k) ==
  /\ embeddings[k].index < inputs
  /\ \A j \in 1..(k - 1) : embeddings[j].index # embeddings[k].index

(* A bug: a second vector for the same input is not noticed. *)
ValidEmbeddingsTwice(inputs, embeddings) ==
  /\ Len(embeddings) = inputs
  /\ \A k \in DOMAIN embeddings :
       /\ embeddings[k].index < inputs
       /\ embeddings[k].dimension > 0
       /\ embeddings[k].finite
  /\ Dimension(embeddings) # {}

(* validate: structurally usable as the answer to this many inputs.        *)
ValidEmbeddings(inputs, embeddings) ==
  /\ Len(embeddings) = inputs
  /\ \A k \in DOMAIN embeddings :
       /\ Attributable(inputs, embeddings, k)
       /\ embeddings[k].dimension > 0
       /\ embeddings[k].finite
  /\ Dimension(embeddings) # {}

(* EmbeddingResult::for_input: the positions it may find, of which it      *)
(* takes the first.                                                        *)
ForInput(embeddings, index) ==
  {k \in DOMAIN embeddings : embeddings[k].index = index}

-----------------------------------------------------------------------------
(* Results: a generation, [text, output_tokens].                           *)

(* validate_generation *)
ValidGeneration(result) == result.text > 0 /\ 0 \notin result.output_tokens
=============================================================================
