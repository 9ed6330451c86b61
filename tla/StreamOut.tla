------------------------------ MODULE StreamOut ------------------------------
(***************************************************************************)
(* The output of a Stream of extmod/asyncio/stream.py: write() and         *)
(* drain(), on a non-blocking socket that takes some bytes, or none.       *)
(*                                                                         *)
(* Bytes are numbered in the order of the write() calls.  A task gives way *)
(* only in drain(); drain() takes a view of out_buf when it begins, and    *)
(* clears out_buf when all of its view has been sent.                      *)
(***************************************************************************)
EXTENDS Naturals, Sequences, SequencesExt

CONSTANTS Writers,     \* tasks that write to the stream
          MaxBytes,    \* bound: bytes that are written in all
          Cancels      \* bound: how many drain() calls are cancelled

ASSUME StreamAssumption == MaxBytes \in Nat /\ Cancels \in Nat

VARIABLES out_buf,     \* self.out_buf
          view, off,   \* mv and off of each task's drain()
          pc,          \* "idle", "yield" (nothing to send) or "drain"
          wrote,       \* the number of bytes given to write()
          sent,        \* what the socket has taken
          cancels,     \* the number of cancelled drains
          shared       \* a task used the stream during another's drain()

streamVars == <<out_buf, view, off, pc, wrote, sent, cancels, shared>>

StreamInit == /\ out_buf = <<>> /\ wrote = 0 /\ sent = <<>> /\ cancels = 0
              /\ view = [w \in Writers |-> <<>>] /\ off = [w \in Writers |-> 0]
              /\ pc = [w \in Writers |-> "idle"]
              /\ shared = FALSE
-----------------------------------------------------------------------------
\* The task w uses the stream.
Uses(w) == shared' = (shared \/ \E v \in Writers \ {w} : pc[v] = "drain")

\* The next n bytes.
Fresh(n) == [i \in 1 .. n |-> wrote + i]

\* write(): if nothing is buffered the socket is tried, and takes ret bytes.
Write(w, n, ret) ==
    /\ pc[w] = "idle" /\ wrote + n <= MaxBytes
    /\ ret <= IF out_buf = <<>> THEN n ELSE 0
    /\ sent' = sent \o SubSeq(Fresh(n), 1, ret)
    /\ out_buf' = out_buf \o SubSeq(Fresh(n), ret + 1, n)
    /\ wrote' = wrote + n
    /\ Uses(w)
    /\ UNCHANGED <<view, off, pc, cancels>>

\* drain() begins: with nothing buffered it only gives way.
DrainBegins(w) ==
    /\ pc[w] = "idle"
    /\ view' = [view EXCEPT ![w] = out_buf] /\ off' = [off EXCEPT ![w] = 0]
    /\ pc' = [pc EXCEPT ![w] = IF out_buf = <<>> THEN "yield" ELSE "drain"]
    /\ Uses(w)
    /\ UNCHANGED <<out_buf, wrote, sent, cancels>>

DrainYielded(w) ==
    /\ pc[w] = "yield"
    /\ pc' = [pc EXCEPT ![w] = "idle"]
    /\ UNCHANGED <<out_buf, view, off, wrote, sent, cancels, shared>>

\* Mutant of DrainWrites: a socket that takes no byte ends the loop.
DrainWritesOnce(w, ret) ==
    /\ pc[w] = "drain" /\ ret <= Len(view[w]) - off[w]
    /\ sent' = sent \o SubSeq(view[w], off[w] + 1, off[w] + ret)
    /\ out_buf' = <<>>
    /\ pc' = [pc EXCEPT ![w] = "idle"]
    /\ UNCHANGED <<view, off, wrote, cancels, shared>>

\* The socket is writable and takes ret bytes of what is left of the view.
DrainWrites(w, ret) ==
    /\ pc[w] = "drain" /\ ret <= Len(view[w]) - off[w]
    /\ sent' = sent \o SubSeq(view[w], off[w] + 1, off[w] + ret)
    /\ off' = [off EXCEPT ![w] = @ + ret]
    /\ IF off'[w] = Len(view[w])
       THEN out_buf' = <<>> /\ pc' = [pc EXCEPT ![w] = "idle"]
       ELSE UNCHANGED <<out_buf, pc>>
    /\ UNCHANGED <<view, wrote, cancels, shared>>

\* The task is cancelled where it waits, by wait_for for example, and goes
\* on without the drain.
Cancelled(w) ==
    /\ cancels < Cancels /\ pc[w] # "idle"
    /\ cancels' = cancels + 1
    /\ pc' = [pc EXCEPT ![w] = "idle"]
    /\ UNCHANGED <<out_buf, view, off, wrote, sent, shared>>

Writes == \E w \in Writers, n \in 1 .. 2, ret \in 0 .. 2 : Write(w, n, ret)
Drains == \E w \in Writers, ret \in 0 .. MaxBytes : DrainWrites(w, ret)
DrainStarts == \E w \in Writers : DrainBegins(w)
Yields == \E w \in Writers : DrainYielded(w)
CancelSteps == \E w \in Writers : Cancelled(w)

StreamNext == Writes \/ DrainStarts \/ Yields \/ Drains \/ CancelSteps

StreamSpec == StreamInit /\ [][StreamNext]_streamVars
-----------------------------------------------------------------------------
\* The stream is what was written, in order, each byte once, however few
\* bytes the socket takes at a time (stream.py:66-88), as long as no drain
\* is cancelled (the next one would send again what was sent) and no task
\* uses the stream while another drains it.
StreamIsWhole ==
    cancels = 0 /\ ~shared => IsPrefix(sent, [i \in 1 .. wrote |-> i])

\* "Drain (write) all buffered output data out to the stream."
\* (docs/library/asyncio.rst:287): a byte leaves the buffer only by being
\* sent (stream.py:79-88), even if drains are cancelled; but what a task
\* writes while another drains is cleared with the rest.
NothingDropped ==
    ~shared => \A i \in 1 .. wrote : Contains(sent, i) \/ Contains(out_buf, i)

\* What is written to a stream goes out once, whole and in order, however
\* the socket splits it (stream.py:56-88).
SentOnceInOrder == StreamIsWhole /\ NothingDropped
=============================================================================
