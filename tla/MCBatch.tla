---------------------------- MODULE MCBatch ----------------------------
(* Batch for TLC: empty, even and odd batches, one with an id used twice. *)
EXTENDS Batch

MCBatches == { <<>>, <<"a", "b">>, <<"a", "b", "a">> }
=============================================================================
