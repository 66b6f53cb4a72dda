---------------------------- MODULE MCKeyerLogic ----------------------------
(* The settings of main and three others that klogic takes, for TLC.       *)
EXTENDS KeyerLogic

Keyer(mode, midelem, mem, khar, word) ==
  [mode |-> mode, midelem |-> midelem, mem |-> [e \in Elements |-> mem],
   khar |-> khar, word |-> word]

AsMain == Keyer("B", TRUE, TRUE, FALSE, FALSE)
AllFlags ==
  {AsMain, Keyer("A", FALSE, TRUE, FALSE, FALSE),
   Keyer("B", FALSE, TRUE, TRUE, TRUE), Keyer("B", TRUE, FALSE, TRUE, FALSE)}
MainOnly == {AsMain}
=============================================================================
