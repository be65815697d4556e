--------------------------- MODULE MCThrowDetector ---------------------------
(* ThrowDetector with thresholds of two ticks and up to five frames.       *)
EXTENDS ThrowDetector
=============================================================================
