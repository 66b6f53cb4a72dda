------------------------------ MODULE MCPieces ------------------------------
(* The parts that share nothing with one another, in one run: one of them  *)
(* moves in a behaviour, the others stay as they were set up.              *)
EXTENDS RingBuffer, RunState, FilterDesign, Resampler, SpotTone, Shaping, Meters, Startup

VARIABLE moving   \* the part that moves

ShortEnvelopes == {<<0, 0, 0>>, <<1, 2, 1>>, <<3, 1, 2>>, <<2, 0, 3>>}
EdgesAround0   == {-6, -1, 0, 2, 4, 5, 6}
SomeRatios     == {<<1, 2>>, <<2, 1>>, <<2, 3>>, <<3, 2>>, <<1, 1>>}

PiecesInit ==
  /\ moving \in {"ring", "state", "filter", "resampler", "spot", "shaping", "meters", "startup"}
  /\ Init /\ RunInit /\ DesignInit /\ ResamplerInit /\ SpotInit /\ ShapingInit /\ MetersInit
  /\ StartupInit
  /\ moving # "startup" => environ = {} /\ jackRate = Default
  /\ moving # "resampler" => r = newPolyPhaseFIR(1, 2)
  /\ moving # "spot" => st.rise = 1

MoveRing ==
  /\ moving = "ring" /\ Next
  /\ UNCHANGED <<moving, runVars, designVars, resamplerVars, spotVars, shapingVars, meterVars, startupVars>>

MoveState ==
  /\ moving = "state" /\ RunNext
  /\ UNCHANGED <<moving, vars, designVars, resamplerVars, spotVars, shapingVars, meterVars, startupVars>>

MoveFilter ==
  /\ moving = "filter" /\ DesignNext
  /\ UNCHANGED <<moving, vars, runVars, resamplerVars, spotVars, shapingVars, meterVars, startupVars>>

MoveResampler ==
  /\ moving = "resampler" /\ ResamplerNext
  /\ UNCHANGED <<moving, vars, runVars, designVars, spotVars, shapingVars, meterVars, startupVars>>

MoveSpot ==
  /\ moving = "spot" /\ SpotNext
  /\ UNCHANGED <<moving, vars, runVars, designVars, resamplerVars, shapingVars, meterVars, startupVars>>

MoveShaping ==
  /\ moving = "shaping" /\ ShapingNext
  /\ UNCHANGED <<moving, vars, runVars, designVars, resamplerVars, spotVars, meterVars, startupVars>>

MoveMeters ==
  /\ moving = "meters" /\ MetersNext
  /\ UNCHANGED <<moving, vars, runVars, designVars, resamplerVars, spotVars, shapingVars, startupVars>>

MoveStartup ==
  /\ moving = "startup" /\ StartupNext
  /\ UNCHANGED <<moving, vars, runVars, designVars, resamplerVars, spotVars, shapingVars, meterVars>>

PiecesNext ==
  \/ MoveRing \/ MoveState \/ MoveFilter \/ MoveResampler
  \/ MoveSpot \/ MoveShaping \/ MoveMeters \/ MoveStartup

pieces == <<moving, vars, runVars, designVars, resamplerVars, spotVars, shapingVars, meterVars, startupVars>>

(* The fairness of RingBuffer and of RunState.                             *)
PiecesSpec == PiecesInit /\ [][PiecesNext]_pieces /\ Fairness /\ WF_runVars(SwitchSample)
=============================================================================
