----------------------------- MODULE KeyerLogic -----------------------------
(***************************************************************************)
(* The keyer logic of iambic-keyer.c: klogic turns the positions of two    *)
(* paddles, read at every tick of the clock, into dits and dahs.           *)
(*                                                                         *)
(* An element is scheduled with three times to run: beep, the sounding     *)
(* part; midl, up to its middle; elem, with the space that follows it.     *)
(* All times are in the clock's unit; the code's are doubles in ms.        *)
(***************************************************************************)
EXTENDS Integers

CONSTANTS
  DitLens,    \* 1200 / wpm, for the speeds in use
  Weight,     \* 15 -> 85%: the sounding part of a dit
  TickLens,   \* what timed_delay may return: 1, or more when ticks were missed
  MaxTick,    \* bound: the longest of them
  Flags,      \* the settings of KeyerState in use
  MaxSilence  \* bound: silence is counted up to here

Modes    == {"A", "B"}
Elements == {"dit", "dah"}
Other(e) == IF e = "dah" THEN "dit" ELSE "dah"

(* mode, mdlmdB, memory.dit, memory.dah, autospace.khar, autospace.word.   *)
FlagSet == [mode : Modes, midelem : BOOLEAN, mem : [Elements -> BOOLEAN],
            khar : BOOLEAN, word : BOOLEAN]

(* ditlen * weight / 50, rounded up to the unit.                           *)
DitBeep(d) == (d * Weight + 49) \div 50
Beep(e, d) == DitBeep(d) + (IF e = "dah" THEN 2 * d ELSE 0)
Elem(e, d) == IF e = "dah" THEN 4 * d ELSE 2 * d
Space(d)   == 2 * d - DitBeep(d)

(* A tick is no longer than the space between two dits.                    *)
ASSUME KeyerAssumption ==
  /\ DitLens \subseteq Nat /\ Weight \in Nat
  /\ TickLens \subseteq 1 .. MaxTick /\ MaxTick \in Nat \ {0}
  /\ \A d \in DitLens : DitBeep(d) \in 1 .. 2 * d - MaxTick
  /\ Flags \subseteq FlagSet /\ MaxSilence \in Nat

VARIABLES
  flag,     \* ks->flag and ks->mode
  ditlen,   \* 1200 / ks->wpm
  kl,       \* the KeyerLogic structure
  keydown,  \* what klogic returned last
  now,      \* history: the element that sounds, or sounded last
  sounded,  \* history: for how long it has
  silent,   \* history: for how long the key has been up since
  asked,    \* history: paddles pressed since curr was scheduled
  squeezed, \* history: both were closed since: "no", "early" or "late"
  extra     \* history: elements scheduled since a paddle was last closed

vars == <<flag, ditlen, kl, keydown, now, sounded, silent, asked, squeezed,
          extra>>

Times == {x \in Int : x > -MaxTick}

(* KeyerLogicInfo, without element.last, which only klogic's own next      *)
(* lines read, and with the two delays named: inter character, inter word. *)
Structure ==
  [init : BOOLEAN, prev : [Elements -> BOOLEAN], altrn : BOOLEAN,
   psqam : BOOLEAN, iamb : {"none", "squeezed", "released"},
   curr : Elements \cup {"none"}, beep : Times, midl : Times, elem : Times,
   dlay : Times, space : {"none", "char", "word"}, unit : DitLens \cup {0}]

NoElement == [kind |-> "none", unit |-> 0]

Init ==
  /\ flag \in Flags /\ ditlen \in DitLens
  /\ kl = [init |-> FALSE, prev |-> [e \in Elements |-> FALSE],
           altrn |-> FALSE, psqam |-> FALSE, iamb |-> "none",
           curr |-> "none", beep |-> 0, midl |-> 0, elem |-> 0,
           dlay |-> 0, space |-> "none", unit |-> 0]
  /\ keydown = FALSE /\ now = NoElement /\ sounded = 0 /\ silent = MaxSilence
  /\ asked = {} /\ squeezed = "no" /\ extra = 0

-----------------------------------------------------------------------------
(* The parts of klogic, in its order, as functions of the structure. p is  *)
(* the set of paddles that are closed.                                     *)

(* The first call notes the paddles, so that a paddle held since before    *)
(* the start is not taken for a press.                                     *)
Prepare(k, p) ==
  IF k.init THEN k
  ELSE [k EXCEPT !.init = TRUE, !.prev = [e \in Elements |-> e \in p]]

Less(x, t) == IF x > 0 THEN x - t ELSE x

(* Decrement the time_lefts: first the delay, and the others only when it  *)
(* is over.                                                                *)
CountDown(k, f, d, t) ==
  LET dlay == Less(k.dlay, t) IN
  IF dlay > 0 THEN [k EXCEPT !.dlay = dlay]
  ELSE IF k.elem <= 0 /\ k.space = "char" /\ f.word
  THEN [k EXCEPT !.dlay = 4 * d, !.space = "word"]
  ELSE [k EXCEPT !.dlay = dlay, !.space = "none", !.midl = Less(@, t),
                 !.beep = Less(@, t), !.elem = Less(@, t)]

(* Are both paddles squeezed?                                              *)
NoteSqueeze(k, p) ==
  IF p = Elements
  THEN [k EXCEPT !.iamb = "squeezed", !.psqam = @ \/ k.midl <= 0]
  ELSE IF p = {} /\ k.iamb = "squeezed" THEN [k EXCEPT !.iamb = "released"]
  ELSE k

(* set_which_ele_time_left, and the switch at the end that acts on it.     *)
(* unit is not in the code: it records the speed the element was given.    *)
Schedule(k, e, d) ==
  [k EXCEPT !.curr = e, !.unit = d, !.beep = Beep(e, d),
            !.midl = (Beep(e, d) + 1) \div 2, !.elem = Elem(e, d)]

(* Should we insert an alternate element?                                  *)
Alternate(k, f, p) ==
  \/ p = Elements
  \/ k.altrn /\ k.iamb # "released"
  \/ k.iamb = "released" /\ f.mode = "B" /\ (f.midelem => k.psqam)

(* Mutant: the squeeze that has been answered is not forgotten.            *)
MutFinish(k, f, d, p) ==
  LET done == [k EXCEPT !.altrn = FALSE] IN
  IF k.elem > 0 \/ k.curr = "none" THEN k
  ELSE IF Alternate(k, f, p) THEN Schedule(done, Other(k.curr), d)
  ELSE IF f.khar /\ p = {}
  THEN [done EXCEPT !.curr = "none", !.dlay = 2 * d, !.space = "char"]
  ELSE [done EXCEPT !.curr = "none"]

(* Is the current element finished?                                        *)
Finish(k, f, d, p) ==
  LET done == [k EXCEPT !.altrn = FALSE, !.iamb = "none", !.psqam = FALSE] IN
  IF k.elem > 0 \/ k.curr = "none" THEN k
  ELSE IF Alternate(k, f, p) THEN Schedule(done, Other(k.curr), d)
  ELSE IF f.khar /\ p = {}
  THEN [done EXCEPT !.curr = "none", !.dlay = 2 * d, !.space = "char"]
  ELSE [done EXCEPT !.curr = "none"]

(* Mutant: the next element need not wait for the space after this one.    *)
MutPick(k, d, p) ==
  IF (k.curr # "none" /\ k.beep > 0) \/ p = {} THEN k
  ELSE Schedule(k, IF "dah" \in p THEN "dah" ELSE "dit", d)

(* Is an element not currently being played?  The dah paddle goes first.   *)
Pick(k, d, p) ==
  IF k.curr # "none" \/ p = {} THEN k
  ELSE Schedule(k, IF "dah" \in p THEN "dah" ELSE "dit", d)

(* Mutant: a press in the space after the element is not remembered.       *)
MutRemember(k, f, p) ==
  LET e == Other(k.curr) IN
  IF k.curr # "none" /\ k.beep > 0 /\ ~k.prev[e] /\ e \in p /\ f.mem[e]
  THEN [k EXCEPT !.altrn = TRUE] ELSE k

(* A press of the other paddle during an element asks for an alternate.    *)
Remember(k, f, p) ==
  LET e == Other(k.curr) IN
  IF k.curr # "none" /\ ~k.prev[e] /\ e \in p /\ f.mem[e]
  THEN [k EXCEPT !.altrn = TRUE] ELSE k

(* Mutant: an element that is already playing may be forgotten too.        *)
MutForget(k, f, p) ==
  IF p = {} /\ k.curr # "none" /\ ~f.mem[k.curr]
  THEN [k EXCEPT !.curr = "none", !.beep = 0, !.midl = 0, !.elem = 0]
  ELSE k

(* Forget an element that waits for the end of a delay.                    *)
Forget(k, f, p) ==
  IF k.dlay > 0 /\ p = {} /\ k.curr # "none" /\ ~f.mem[k.curr]
  THEN [k EXCEPT !.curr = "none", !.beep = 0, !.midl = 0, !.elem = 0]
  ELSE k

NotePaddles(k, p) == [k EXCEPT !.prev = [e \in Elements |-> e \in p]]

(* One call of klogic.                                                     *)
Logic(k, f, d, p, t) ==
  LET ready   == NoteSqueeze(CountDown(Prepare(k, p), f, d, t), p)
      element == Pick(Finish(ready, f, d, p), d, p)
  IN NotePaddles(Forget(Remember(element, f, p), f, p), p)

KeyDown(k) == k.beep > 0 /\ k.dlay <= 0

-----------------------------------------------------------------------------
(* What the properties need to know of the past.                           *)
Scheduled == kl'.elem > kl.elem
AtMost(x, m) == IF x > m THEN m ELSE x

History(p, t) ==
  /\ now' = IF ~keydown /\ keydown' THEN [kind |-> kl'.curr, unit |-> kl'.unit]
            ELSE now
  /\ sounded' = IF keydown THEN sounded + t
                ELSE IF keydown' THEN 0 ELSE sounded
  /\ silent' = IF keydown THEN 0 ELSE AtMost(silent + t, MaxSilence)
  /\ asked' = {e \in Elements : kl.init /\ ~kl.prev[e] /\ e \in p}
                \cup (IF Scheduled THEN {} ELSE asked)
  /\ squeezed' = IF Scheduled THEN (IF p = Elements THEN "early" ELSE "no")
                 ELSE IF p # Elements THEN squeezed
                 ELSE IF kl'.midl <= 0 THEN "late"
                 ELSE IF squeezed = "late" THEN "late" ELSE "early"
  /\ extra' = IF p # {} THEN 0 ELSE IF Scheduled THEN extra + 1 ELSE extra

(* A tick of the clock: read_iambic_key calls klogic.                      *)
Klogic(p, t) ==
  /\ kl' = Logic(kl, flag, ditlen, p, t)
  /\ keydown' = KeyDown(kl')
  /\ History(p, t)
  /\ UNCHANGED <<flag, ditlen>>

(* update_thread: <wpm xxx>.                                               *)
SetWpm ==
  /\ ditlen' \in DitLens
  /\ UNCHANGED <<flag, kl, keydown, now, sounded, silent, asked, squeezed,
                 extra>>

Next == SetWpm \/ \E p \in SUBSET Elements, t \in TickLens : Klogic(p, t)

Spec == Init /\ [][Next]_vars

-----------------------------------------------------------------------------
TypeOK ==
  /\ flag \in Flags /\ ditlen \in DitLens
  /\ kl \in Structure
  /\ keydown \in BOOLEAN
  /\ now \in [kind : Elements \cup {"none"}, unit : DitLens \cup {0}]
  /\ sounded \in Nat /\ silent \in 0 .. MaxSilence
  /\ asked \subseteq Elements /\ squeezed \in {"no", "early", "late"}
  /\ extra \in Nat

(* An element that has begun sounds for its whole length, whatever the     *)
(* paddles and the speed do meanwhile: less than a tick longer, and shorter  *)
(* only by the tick in which a delay before it ran out.                    *)
WholeElements ==
  [][keydown /\ ~keydown' =>
       LET due == Beep(now.kind, now.unit) IN
       /\ sounded' >= due - (IF flag.khar THEN MaxTick ELSE 0)
       /\ sounded' < due + MaxTick]_vars

(* Elements do not run together: after each one the key stays up for the   *)
(* space that belongs to it, less a tick.                                  *)
SpaceKept ==
  [][~keydown /\ keydown' /\ now # NoElement =>
       AtMost(Space(now.unit), MaxSilence) < silent' + MaxTick]_vars

(* With both paddles open the keyer sends at most one more element.        *)
NothingUnasked == extra <= 1

(* The call that ends an element, or what would have followed it.          *)
Ends == kl.curr # "none" /\ (Scheduled \/ kl'.curr = "none")

(* A paddle pressed during the other one's element has its turn next, if   *)
(* its memory is on and the two were not squeezed meanwhile.               *)
RemembersTap ==
  [][Ends /\ flag.mem[Other(kl.curr)] /\ Other(kl.curr) \in asked
        /\ squeezed = "no"
       => kl'.curr = Other(kl.curr)]_vars

(* iambic-keyer.c, KeyerLogic: "psqam; // paddles squeezed after           *)
(* mid-element".  A squeeze that was over before the middle of an element  *)
(* does not ask for another.                                               *)
MidElement ==
  [][Ends /\ flag.midelem /\ squeezed = "early" /\ kl'.prev = [e \in Elements |-> FALSE]
       => kl'.curr = "none"]_vars
=============================================================================
