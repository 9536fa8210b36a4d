-------------------------- MODULE MCSegmentReader --------------------------
(* An instance of SegmentReader for TLC: a marker shaped like a start code,  *)
(* two equal bytes and a third that ends them.                              *)
EXTENDS SegmentReader, TLC

MCMarker == <<0, 0, 1>>
=============================================================================
