----------------------------- MODULE MCReceiver -----------------------------
(* Small blocks and rings, and a choice of settings, for TLC.              *)
EXTENDS Receiver

Plain == [mode |-> "SSB", nb |-> FALSE, agc |-> 3, anr |-> FALSE, banr |-> FALSE,
          anf |-> FALSE, banf |-> FALSE, bin |-> FALSE, eq |-> FALSE, early |-> 1]

MCFreshRx == [Plain EXCEPT !.mode = "AM"]
MCReceptions ==
  {[Plain EXCEPT !.nb = TRUE, !.anr = TRUE, !.anf = TRUE, !.eq = TRUE],
   [Plain EXCEPT !.agc = 0, !.anr = TRUE, !.banr = TRUE, !.anf = TRUE, !.banf = TRUE,
                 !.bin = TRUE, !.eq = TRUE, !.early = 2],
   [Plain EXCEPT !.mode = "SPEC", !.agc = 1, !.nb = TRUE]}

MCFreshTx == [mode |-> "AM", eq |-> FALSE, early |-> 1, leveler |-> 3]
MCTransmissions ==
  {[MCFreshTx EXCEPT !.eq = TRUE, !.mode = "SSB"],
   [MCFreshTx EXCEPT !.eq = TRUE, !.early = 2]}
=============================================================================
