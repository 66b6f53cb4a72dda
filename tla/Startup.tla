------------------------------ MODULE Startup -------------------------------
(***************************************************************************)
(* What the radio is set up with: setup of sdr-main.c (built-in defaults,  *)
(* the environment, the command line) and setNewBuflen, which sets it up   *)
(* again while it runs.                                                    *)
(*                                                                         *)
(* A value is where it came from: a place, and its position on the command *)
(* line or the number of the setNewBuflen that gave it.                    *)
(***************************************************************************)
EXTENDS Integers, Sequences, SequencesExt

CONSTANTS
  Options,    \* the fields of loc that a behaviour looks at
  MaxArgs,    \* bound: arguments on the command line
  MaxResets   \* bound: setNewBuflen in a behaviour

(* The fields that getenv is asked for, and those with a long option.      *)
InEnvironment == {"mode", "rate", "size", "ring", "offs", "meter_port", "parm_port",
                  "spec_port", "name", "rcfile", "replay", "wisdom"}
OnLine        == {"mode", "size", "ring", "offs", "meter_port", "parm_port", "spec_port",
                  "name", "rcfile", "replay", "wisdom", "echo"}
NoSource      == {"comp", "nrx", "spec"}
Flags         == {"verbose", "spectrum", "metering"}

Default     == <<"default", 0>>
Environment == <<"environment", 0>>
Unset       == <<"unset", 0>>

ASSUME StartupAssumption ==
  /\ Options \subseteq InEnvironment \cup OnLine \cup NoSource
  /\ {"rate", "size", "comp"} \subseteq Options
  /\ MaxArgs \in Nat /\ MaxResets \in Nat

VARIABLES
  stage,     \* "defaults", "line", "running" or "exited"
  environ,       \* fields whose variable is in the environment
  jackRate,  \* where a rate would have to come from to be that of jackd
  loc,       \* the values collected
  flags,     \* verbose, spec.flag and meter.flag
  line,      \* the command line so far
  resets,    \* setNewBuflen so far
  used       \* the values the radio works with

startupVars == <<stage, environ, jackRate, loc, flags, line, resets, used>>

StartupInit ==
  /\ stage = "defaults"
  /\ environ \in SUBSET (Options \cap InEnvironment)
  /\ jackRate \in {Default, Environment}
  /\ loc = [o \in Options |-> Unset]
  /\ flags = {} /\ line = <<>> /\ resets = 0
  /\ used = [o \in Options |-> Unset]

(* setup_defaults: hard defaults, then environment.                        *)
SetupDefaults ==
  /\ stage = "defaults" /\ stage' = "line"
  /\ loc' = [o \in Options |-> IF o \in environ THEN Environment ELSE Default]
  /\ UNCHANGED <<environ, jackRate, flags, line, resets, used>>

(* setup_from_commandline, one option per step; usage exits.               *)
Argument(o) ==
  /\ stage = "line" /\ Len(line) < MaxArgs
  /\ line' = Append(line, o)
  /\ loc' = IF o \in OnLine THEN [loc EXCEPT ![o] = <<"line", Len(line')>>] ELSE loc
  /\ flags' = flags \cup ({o} \cap Flags)
  /\ stage' = IF o = "help" THEN "exited" ELSE stage
  /\ UNCHANGED <<environ, jackRate, resets, used>>

(* setup_workspace and setup_local_audio read these, ...                   *)
OfWorkspace == {"rate", "size", "mode", "wisdom", "spec", "nrx", "comp", "offs"}

(* ... and setup_updates and setup_system_audio these, some for a flag.    *)
Wanted(o) ==
  CASE o = "meter_port" -> "metering" \in flags
    [] o = "spec_port"  -> "spectrum" \in flags
    [] o = "echo"       -> "verbose" \in flags
    [] OTHER            -> TRUE

(* The rest of setup; a rate that is not that of jackd ends the program.   *)
Setup ==
  /\ stage = "line"
  /\ stage' = IF loc["rate"] = jackRate THEN "running" ELSE "exited"
  /\ used' = [o \in Options |-> IF Wanted(o) THEN loc[o] ELSE Unset]
  /\ UNCHANGED <<environ, jackRate, loc, flags, line, resets>>

(* Mutant: the new length is not kept.                                     *)
MutResetForBuflen ==
  /\ stage = "running" /\ resets < MaxResets
  /\ resets' = resets + 1
  /\ loc' = loc
  /\ used' = [o \in Options |-> IF o = "comp" THEN loc'["size"]
                                ELSE IF o \in OfWorkspace THEN loc'[o] ELSE used[o]]
  /\ UNCHANGED <<stage, environ, jackRate, flags, line>>

(* reset_for_buflen with a power of two (any other is refused before       *)
(* anything is changed).  The rings, ports and files stay as they are; the *)
(* companders get as many entries as a block has samples, where setup gave *)
(* them loc.def.comp.                                                      *)
ResetForBuflen ==
  /\ stage = "running" /\ resets < MaxResets
  /\ resets' = resets + 1
  /\ loc' = [loc EXCEPT !["size"] = <<"setNewBuflen", resets'>>]
  /\ used' = [o \in Options |-> IF o = "comp" THEN loc'["size"]
                                ELSE IF o \in OfWorkspace THEN loc'[o] ELSE used[o]]
  /\ UNCHANGED <<stage, environ, jackRate, flags, line>>

StartupNext ==
  \/ SetupDefaults
  \/ \E o \in (Options \cap OnLine) \cup Flags \cup {"help"} : Argument(o)
  \/ Setup
  \/ ResetForBuflen

StartupSpec == StartupInit /\ [][StartupNext]_startupVars

-----------------------------------------------------------------------------
(* What the operator meant by o: the latest setNewBuflen, the last such    *)
(* option on the command line, the environment, the built-in default.      *)
Meant(o) ==
  IF o = "size" /\ resets > 0 THEN <<"setNewBuflen", resets>>
  ELSE IF Contains(line, o) THEN <<"line", SelectLastInSeq(line, LAMBDA x : x = o)>>
  ELSE IF o \in environ THEN Environment ELSE Default

(* A radio that runs works with what its operator meant, also after its    *)
(* buffers were given new lengths, and at the rate of the audio server;    *)
(* the one exception is the length of the companders' tables.              *)
InForce ==
  stage = "running" =>
    /\ used["rate"] = jackRate
    /\ \A o \in Options : Wanted(o) /\ (o = "comp" => resets = 0) => used[o] = Meant(o)
=============================================================================
