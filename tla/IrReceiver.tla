----------------------------- MODULE IrReceiver -----------------------------
(***************************************************************************)
(* The infrared receiver of picow/ir_rx: the base class IR_RX with the     *)
(* decoders NEC_ABC and IR_GET.                                            *)
(*                                                                         *)
(* The first edge of a burst starts a one-shot timer, every edge stores    *)
(* its time, and the timer's callback decodes what was stored.  Neither    *)
(* callback runs in its interrupt: pin.irq() and machine.Timer put a call  *)
(* into the scheduler's queue, and when the queue is full the call is      *)
(* lost (mp_sched_schedule's result is not looked at).  Of the times only  *)
(* the widths of the first two pulses matter here, and how many of them    *)
(* this burst has stored: the array keeps those of the burst before.       *)
(***************************************************************************)
EXTENDS Integers, Sequences

CONSTANTS NEdges,      \* edges of a whole block (68)
          RepEdges,    \* edges of a repeat code (4)
          IrDepth      \* MICROPY_SCHEDULER_DEPTH

ASSUME IrAssumption ==
    /\ NEdges \in Nat /\ RepEdges \in Nat /\ IrDepth \in Nat
    /\ 2 < RepEdges /\ RepEdges < NEdges /\ IrDepth > 1

VARIABLES decoder,  \* "nec", "get", or "quiet": IR_GET with display=False
          edge,     \* self.edge
          widths,   \* classes of the first two pulse widths in _times
          timer,    \* the one-shot timer is running
          queue,    \* the scheduler's queue, as far as it matters
          irq,      \* the pin's interrupt has its handler
          report,   \* what the last do_callback() was called with
          data,     \* IR_GET.data is set
          deaf      \* a burst has ended without do_callback()

irVars == <<decoder, edge, widths, timer, queue, irq, report, data, deaf>>

\* Widths as decode() tells them apart: more than 10 ms, the 9 ms mark, the
\* 4.5 ms space of data, the 2.25 ms space of a repeat code, anything shorter.
Widths == {"gap", "mark", "data", "repeat", "short"}

Results == {"none", "cmd", "repeat", "error"}
-----------------------------------------------------------------------------
IrInit == /\ decoder \in {"nec", "get", "quiet"}
          /\ edge = 0 /\ timer = FALSE /\ queue = <<>> /\ irq = TRUE
          /\ widths = <<"short", "short">>
          /\ report = [result |-> "none", used |-> 0, edges |-> 0]
          /\ data = FALSE /\ deaf = FALSE

\* mp_sched_schedule, with its result ignored.
Schedule(call) ==
    queue' = IF Len(queue) < IrDepth THEN Append(queue, call) ELSE queue

\* An edge of the pin.
Edge ==
    /\ irq
    /\ Schedule("pin")
    /\ UNCHANGED <<decoder, edge, widths, timer, irq, report, data, deaf>>

\* The one-shot timer expires.
Alarm ==
    /\ timer
    /\ timer' = FALSE
    /\ Schedule("decode")
    /\ deaf' = (deaf \/ Len(queue) = IrDepth)
    /\ UNCHANGED <<decoder, edge, widths, irq, report, data>>

\* Another user of the scheduler.
Other ==
    /\ Schedule("other")
    /\ UNCHANGED <<decoder, edge, widths, timer, irq, report, data, deaf>>

RunOther ==
    /\ queue # <<>> /\ Head(queue) = "other"
    /\ queue' = Tail(queue)
    /\ UNCHANGED <<decoder, edge, widths, timer, irq, report, data, deaf>>

\* Mutant of CbPin: the timer is started with the second edge.
CbPinSecond(w) ==
    IF edge <= NEdges
    THEN /\ timer' = (timer \/ edge = 1)
         /\ widths' = IF edge \in 1 .. 2 THEN [widths EXCEPT ![edge] = w]
                                         ELSE widths
         /\ edge' = edge + 1
    ELSE UNCHANGED <<timer, widths, edge>>

\* _cb_pin: w is the width of the pulse that this edge ends.
CbPin(w) ==
    IF edge <= NEdges
    THEN /\ timer' = (timer \/ edge = 0)
         /\ widths' = IF edge \in 1 .. 2 THEN [widths EXCEPT ![edge] = w]
                                         ELSE widths
         /\ edge' = edge + 1
    ELSE UNCHANGED <<timer, widths, edge>>

RunPin ==
    /\ queue # <<>> /\ Head(queue) = "pin"
    /\ queue' = Tail(queue)
    /\ \E w \in Widths : CbPin(w)
    /\ UNCHANGED <<decoder, irq, report, data, deaf>>

(***************************************************************************)
(* ticks_diff(times[i], times[i - 1]).  If this burst has not stored       *)
(* times[i], one of the two is of an earlier burst, or both are: the       *)
(* difference may be anything, for it also wraps.                          *)
(***************************************************************************)
Width(i) == IF i < edge THEN {widths[i]} ELSE Widths

(***************************************************************************)
(* NEC_ABC.decode: `good' says whether the address and the command agree   *)
(* with their complements.  `used' is how many of the times it rests on.   *)
(***************************************************************************)
NecResult(w1, w2, good) ==
    LET is(r, n) == [result |-> r, used |-> n, edges |-> edge]
    IN  IF edge > NEdges \/ w1 \notin {"gap", "mark"}    \* < 4000 us
          THEN is("error", 0)              \* OVERRUN, BADSTART
        ELSE IF w2 \in {"gap", "mark", "data"}           \* > 3000 us
          THEN IF edge < NEdges \/ ~good THEN is("error", 0)
                                           \* BADBLOCK, BADDATA, BADADDR
               ELSE is("cmd", NEdges)
        ELSE IF w2 = "repeat" /\ edge = RepEdges
          THEN is("repeat", RepEdges)
        ELSE is("error", 0)                \* BADREP, BADSTART

\* decode() of NEC_ABC; do_callback() makes ready for the next burst.
NecDecode ==
    /\ \E w1 \in Width(1), w2 \in Width(2), good \in BOOLEAN :
           report' = NecResult(w1, w2, good)
    /\ edge' = 0
    /\ UNCHANGED <<data, deaf>>

\* After the first pulse the burst ends at a gap (line 30): if the second
\* pulse is one, a single pulse is left, and displaying it raises at
\* burst[1] (line 82, if not before).  The scheduler prints the exception.
DisplayRaises == decoder = "get" /\ widths[2] = "gap"

\* decode() of IR_GET: fewer than four edges are noise (line 26).
GetDecode ==
    IF edge - 1 < 3 \/ DisplayRaises
    THEN deaf' = TRUE /\ UNCHANGED <<edge, report, data>>
    ELSE /\ data' = TRUE
         /\ report' = [result |-> "cmd", used |-> edge, edges |-> edge]
         /\ edge' = 0
         /\ UNCHANGED deaf

RunDecode ==
    /\ queue # <<>> /\ Head(queue) = "decode"
    /\ queue' = Tail(queue)
    /\ IF decoder = "nec" THEN NecDecode ELSE GetDecode
    /\ UNCHANGED <<decoder, widths, timer, irq>>

\* close(): acquire() of IR_GET calls it once it has data.
Close ==
    /\ decoder # "nec" => data
    /\ irq
    /\ irq' = FALSE /\ timer' = FALSE
    /\ UNCHANGED <<decoder, edge, widths, queue, report, data, deaf>>

\* The receiver is closed and all calls have run.
Closed == ~irq /\ queue = <<>> /\ UNCHANGED irVars

IrNext == \/ Edge \/ Alarm \/ Other \/ RunOther \/ RunPin \/ RunDecode
          \/ Close \/ Closed

(***************************************************************************)
(* The main thread runs what is in the queue and a timer expires.  Nothing *)
(* makes edges come or the receiver close.                                 *)
(***************************************************************************)
IrFairness == /\ WF_irVars(RunPin) /\ WF_irVars(RunDecode)
              /\ WF_irVars(RunOther) /\ WF_irVars(Alarm)

IrSpec == IrInit /\ [][IrNext]_irVars /\ IrFairness
-----------------------------------------------------------------------------
\* Every variable has its type; no edge is stored beyond the array
\* `_times', which has one place more than a block has edges.
IrTypeOK ==
    /\ decoder \in {"nec", "get", "quiet"} /\ deaf \in BOOLEAN
    /\ edge \in 0 .. NEdges + 1
    /\ widths \in [1 .. 2 -> Widths]
    /\ timer \in BOOLEAN /\ irq \in BOOLEAN /\ data \in BOOLEAN
    /\ queue \in Seq({"pin", "decode", "other"}) /\ Len(queue) <= IrDepth
    /\ report \in [result : Results, used : Nat, edges : Nat]

\* decode() looks at times[1] and times[2] before it knows that they are
\* of this burst (nec.py:23-41).  Still, a command or a repeat is never
\* reported from the times of an earlier burst.
ResultFromThisBurst ==
    report.result \in {"cmd", "repeat"} => report.used <= report.edges

\* "On 1st edge start a block timer.  While the timer is running, record
\* the time of each edge.  When the timer times out decode the data."
\* (ir_rx/__init__.py:16-18): while edges are stored, their decoding is on
\* its way.  There are three exceptions, after which the receiver is deaf:
\* the timer finds the scheduler's queue full; IR_GET takes a burst for
\* noise; IR_GET displays a burst of one pulse and raises.
StoredEdgesAreDecoded ==
    irq /\ edge > 0 => \/ timer \/ deaf
                       \/ \E i \in DOMAIN queue : queue[i] = "decode"

\* The same as progress: a receiver that is neither closed nor deaf is
\* always ready for a new burst again.
ReadyAgain == irq /\ edge > 0 ~> edge = 0 \/ ~irq \/ deaf

\* "When the timer times out decode the data" (ir_rx/__init__.py:16-18):
\* what is reported is one burst, whole, what is stored is decoded, and the
\* receiver gets ready for the next burst.
BurstsAreDecoded ==
    /\ [](IrTypeOK /\ ResultFromThisBurst /\ StoredEdgesAreDecoded)
    /\ ReadyAgain
=============================================================================
