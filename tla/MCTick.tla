------------------------------- MODULE MCTick -------------------------------
(* Small instances of TickPipeline. *)
EXTENDS TickPipeline

(* A coarse bucket is two fine ones; a time stands for a fine bucket.         *)
OneAndTwo == <<1, 2>>
=============================================================================
