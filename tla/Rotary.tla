------------------------------- MODULE Rotary -------------------------------
(***************************************************************************)
(* The rotary encoder of picow/: rotary.py and rotary_irq_rp2.py.          *)
(*                                                                         *)
(* The shaft moves by phases; four phases make a detent, and the two pins  *)
(* show the phase in Gray code (11 at a detent).  An edge of a pin does    *)
(* not run the handler: pin.irq() without hard=True queues a call of it,   *)
(* and the queue may be full.  The handler reads the pins when it runs, so *)
(* that it may see the shaft one or more phases later than the edge that   *)
(* called it.  `edges' counts the phases since the pins were last read.    *)
(***************************************************************************)
EXTENDS Integers, Sequences

CONSTANTS Confs,       \* the arguments the constructor is called with
          SetValues,   \* the values that set() is called with
          MaxPhase,    \* bound: how far the shaft turns, either way
          MaxLag,      \* bound: phases that pass before a handler runs
          MaxValue,    \* bound: the shaft stops when the value is beyond
          RotaryDepth  \* calls that the scheduler's queue holds

ASSUME RotaryAssumption ==
    /\ Confs \subseteq [half_step : BOOLEAN, reverse : BOOLEAN,
                        range_mode : {"unbounded", "wrap", "bounded"},
                        incr : Nat \ {0}, min_val : Int, max_val : Int]
    /\ \A c \in Confs : c.min_val < c.max_val
    /\ SetValues \subseteq Int
    /\ MaxPhase \in Nat /\ MaxLag \in Nat \ {0} /\ RotaryDepth \in Nat \ {0}
    /\ MaxValue \in Nat

VARIABLES conf,     \* what the object was constructed with
          phase,    \* the shaft
          calls,    \* queued calls of _process_rotary_pins
          state,    \* self._state: the low bits the state, 16 or 32 a count
          value,    \* self._value
          edges,    \* phases since the pins were last read
          heading,  \* the direction of the shaft's last phase
          home,     \* phase and value that counting started from
          exact     \* no phase was skipped since then

rotaryVars ==
    <<conf, phase, calls, state, value, edges, heading, home, exact>>

Start == 0
Cw1 == 1
Cw2 == 2
Cw3 == 3
Ccw1 == 4
Ccw2 == 5
Ccw3 == 6
DirCw == 16
DirCcw == 32
-----------------------------------------------------------------------------
(***************************************************************************)
(* Row: the current state.  Column: the pins CLK/DT, 00 01 10 11.          *)
(***************************************************************************)
TransitionTable ==
    << << Start, Ccw1,  Cw1,   Start >>,
       << Cw2,   Start, Cw1,   Start >>,
       << Cw2,   Cw3,   Cw1,   Start >>,
       << Cw2,   Cw3,   Start, Start + DirCw >>,
       << Ccw2,  Ccw1,  Start, Start >>,
       << Ccw2,  Ccw1,  Ccw3,  Start >>,
       << Ccw2,  Start, Ccw3,  Start + DirCcw >>,
       << Start, Start, Start, Start >> >>

TransitionTableHalfStep ==
    << << Cw3,          Cw2,   Cw1,   Start >>,
       << Cw3 + DirCcw, Start, Cw1,   Start >>,
       << Cw3 + DirCw,  Cw2,   Start, Start >>,
       << Cw3,          Ccw2,  Ccw1,  Start >>,
       << Cw3,          Cw2,   Ccw1,  Start + DirCw >>,
       << Cw3,          Ccw2,  Cw3,   Start + DirCcw >>,
       << Start,        Start, Start, Start >>,
       << Start,        Start, Start, Start >> >>

\* Mutant of NextState: the jump from 01 to 11 counts from any state.
NextStateEager(s, pins) ==
    IF pins = 3 /\ s % 8 # Start THEN Start + DirCw
    ELSE (IF conf.half_step THEN TransitionTableHalfStep
                            ELSE TransitionTable)[(s % 8) + 1][pins + 1]

NextState(s, pins) ==
    LET table == IF conf.half_step THEN TransitionTableHalfStep
                                   ELSE TransitionTable
    IN  table[(s % 8) + 1][pins + 1]

Direction(s) == IF s >= DirCcw THEN -1 ELSE IF s >= DirCw THEN 1 ELSE 0

Wrap(v, inc, lower, upper) ==
    LET range == upper - lower + 1
        moved == v + inc
        lifted == IF moved < lower
                  THEN moved + range * ((lower - moved) \div range + 1)
                  ELSE moved
    IN  lower + ((lifted - lower) % range)

Bound(v, inc, lower, upper) ==
    LET atLeast == IF v + inc < lower THEN lower ELSE v + inc
    IN  IF atLeast > upper THEN upper ELSE atLeast

Moved(v, inc) ==
    CASE conf.range_mode = "wrap" ->
             Wrap(v, inc, conf.min_val, conf.max_val)
      [] conf.range_mode = "bounded" ->
             Bound(v, inc, conf.min_val, conf.max_val)
      [] OTHER -> v + inc

\* The pins at phase p: with the table's names, 11 10 00 01 is clockwise.
Pins(p) == <<3, 2, 0, 1>>[(p % 4) + 1]

Sign == IF conf.reverse THEN -1 ELSE 1

\* A count is due every four phases, or every two with half_step.
DetentPhases == IF conf.half_step THEN 2 ELSE 4
AtDetent(p) == p % DetentPhases = 0

\* What the half-step table calls clockwise is the other direction.
TableSign == IF conf.half_step THEN -1 ELSE 1
-----------------------------------------------------------------------------
ConstructedWith(c) ==
    /\ conf = c
    /\ phase = 0 /\ calls = 0 /\ edges = 0 /\ heading = 0
    /\ state = Start
    /\ value = c.min_val
    /\ home = [phase |-> 0, value |-> c.min_val]
    /\ exact = TRUE

RotaryInit == \E c \in Confs : ConstructedWith(c)

(***************************************************************************)
(* The shaft turns by one phase: an edge on one pin, whose interrupt       *)
(* queues a call unless the queue is full.                                 *)
(***************************************************************************)
TurnShaft(d) ==
    /\ phase + d \in -MaxPhase .. MaxPhase
    /\ edges < MaxLag
    /\ value \in -MaxValue .. MaxValue
    /\ phase' = phase + d
    /\ edges' = edges + 1
    /\ calls' = IF calls < RotaryDepth THEN calls + 1 ELSE calls
    /\ heading' = d
    /\ exact' = (exact /\ edges = 0)
    /\ UNCHANGED <<conf, state, value, home>>

TurnCw == TurnShaft(1)
TurnCcw == TurnShaft(-1)

\* _process_rotary_pins: read the pins, follow the table, move the value.
ProcessRotaryPins ==
    /\ calls > 0
    /\ LET s == NextState(state, Pins(phase))
       IN  /\ state' = s
           /\ value' = Moved(value, Direction(s) * conf.incr * Sign)
    /\ calls' = calls - 1
    /\ edges' = 0
    /\ UNCHANGED <<conf, phase, heading, home, exact>>

(***************************************************************************)
(* set(): the pins' interrupts are off while it runs, but a call that is   *)
(* already queued stays queued.  Counting starts again from here, and is   *)
(* exact if the state Start is the right one: the pins show 11.            *)
(***************************************************************************)
Set(v) ==
    /\ value' = v
    /\ state' = Start
    /\ home' = [phase |-> phase, value |-> v]
    /\ exact' = (Pins(phase) = 3 /\ edges = 0)
    /\ UNCHANGED <<conf, phase, calls, edges, heading>>

SetAny == \E v \in SetValues : Set(v)

\* reset(): the value alone.
Reset ==
    /\ value' = 0
    /\ home' = [phase |-> phase, value |-> 0]
    /\ exact' = (exact /\ AtDetent(phase) /\ edges = 0)
    /\ UNCHANGED <<conf, phase, calls, state, edges, heading>>

RotaryNext == TurnCw \/ TurnCcw \/ ProcessRotaryPins \/ SetAny \/ Reset

RotarySpec == RotaryInit /\ [][RotaryNext]_rotaryVars
-----------------------------------------------------------------------------
\* Every variable has its type, and the table never leads to a state
\* without a row of its own.
RotaryTypeOK ==
    /\ conf \in Confs
    /\ phase \in -MaxPhase .. MaxPhase
    /\ calls \in 0 .. RotaryDepth /\ edges \in 0 .. MaxLag
    /\ state \in {s + d : s \in Start .. Ccw3, d \in {0, DirCw, DirCcw}}
    /\ value \in Int /\ home.value \in Int
    /\ exact \in BOOLEAN

\* While the handler keeps up with the edges (rotary.py:129-173), bounces
\* included, a shaft at rest has been counted exactly: one count for every
\* detent between the place where counting began and here.
CountsDetents ==
    exact /\ AtDetent(phase) /\ edges = 0
          /\ conf.range_mode = "unbounded"
        => value = home.value + TableSign * Sign * conf.incr
                                * ((phase - home.phase) \div DetentPhases)

\* The rows of the table send a phase that is not next to the last one to
\* the start (rotary.py:28-38): the handler counts only at a detent, however
\* many edges it misses, and never against the shaft's last movement if it
\* misses one at most.  (Three phases one way show the pins of one phase the
\* other way: a handler that misses two edges may count backwards.)
CountFollowsShaft ==
    [][ ProcessRotaryPins /\ Direction(state') # 0 =>
            /\ AtDetent(phase)
            /\ edges <= 2 => Direction(state') = TableSign * heading
      ]_rotaryVars

\* _wrap and _bound (rotary.py:55-69): whatever set() and reset() left in
\* the value, the next handler brings it into the range, and wrapping loses
\* no count: modulo the range, the value moved by the increment.
CountStaysInRange ==
    [][ ProcessRotaryPins /\ conf.range_mode # "unbounded" =>
          /\ value' \in conf.min_val .. conf.max_val
          /\ conf.range_mode = "wrap" =>
               (value' - value - Direction(state') * conf.incr * Sign)
                   % (conf.max_val - conf.min_val + 1) = 0 ]_rotaryVars

\* What is counted is what was turned (rotary.py:55-69, 129-173): exactly
\* while the handler keeps up, never against the shaft when it does not,
\* and within the range.
CountsTurns == /\ [](RotaryTypeOK /\ CountsDetents)
               /\ CountFollowsShaft /\ CountStaysInRange
=============================================================================
