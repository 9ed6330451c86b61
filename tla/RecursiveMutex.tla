--------------------------- MODULE RecursiveMutex ---------------------------
(***************************************************************************)
(* The recursive mutexes of the rp2 port (ports/rp2/mutex_extra.c), which  *)
(* belong to a core: pendsv_mutex and atomic_mutex.                        *)
(***************************************************************************)
EXTENDS Integers

Cores == {0, 1}
Free == 2

Unowned == [owner |-> Free, count |-> 0]

\* A core that is the owner may enter again.
MayEnter(m, c) == m.owner \in {Free, c}
Entered(m, c) == [owner |-> c, count |-> m.count + 1]

Exited(m) == [owner |-> IF m.count = 1 THEN Free ELSE m.owner,
              count |-> m.count - 1]
=============================================================================
