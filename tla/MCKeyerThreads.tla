--------------------------- MODULE MCKeyerThreads ---------------------------
(* Ticks of one sample, envelopes of two samples or three, for TLC.        *)
EXTENDS KeyerThreads
=============================================================================
