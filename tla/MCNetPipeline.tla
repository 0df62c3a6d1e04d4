---------------------------- MODULE MCNetPipeline ----------------------------
(* An operation of three chunks and one of a single chunk whose sequence    *)
(* numbers start at 3, in windows of two.                                   *)
EXTENDS NetPipeline

Steps31 == <<3, 1>>
Bases03 == <<0, 3>>

=============================================================================
