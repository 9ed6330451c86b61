------------------------------- MODULE Mutex -------------------------------
(***************************************************************************)
(* What a user of uasyncio.Lock may rely on: one holder at a time, granted *)
(* in the order of the requests; a request can be withdrawn.               *)
(***************************************************************************)
EXTENDS Naturals, Sequences

CONSTANT Users

VARIABLES
    holders,    \* the users inside the critical section
    requests    \* the users that wait for it, in the order they asked

vars == << holders, requests >>

Init == holders = {} /\ requests = << >>

\* Asking for the mutex, and getting it at once if nobody has or wants it.
Request(u) ==
    /\ u \notin holders
    /\ \A i \in 1..Len(requests) : requests[i] # u
    /\ IF holders = {} /\ requests = << >>
       THEN holders' = {u} /\ UNCHANGED requests
       ELSE requests' = Append(requests, u) /\ UNCHANGED holders

\* The oldest request is granted once nobody is inside.
Grant(u) ==
    /\ holders = {}
    /\ requests # << >>
    /\ u = Head(requests)
    /\ holders' = {u}
    /\ requests' = Tail(requests)

\* The request at position i is withdrawn; the others keep their order.
Withdraw(i) ==
    /\ i \in 1..Len(requests)
    /\ requests' = [j \in 1..(Len(requests) - 1) |->
                      IF j < i THEN requests[j] ELSE requests[j + 1]]
    /\ UNCHANGED holders

Leave(u) ==
    /\ u \in holders
    /\ holders' = holders \ {u}
    /\ UNCHANGED requests

Next ==
    \/ \E u \in Users : Request(u) \/ Grant(u) \/ Leave(u)
    \/ \E i \in 1..Len(requests) : Withdraw(i)

Spec == Init /\ [][Next]_vars
=============================================================================
