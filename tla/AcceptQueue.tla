----------------------------- MODULE AcceptQueue ----------------------------
(***************************************************************************)
(* The connections that wait for accept() on a listening socket of         *)
(* extmod/modlwip.c, the socket under asyncio.start_server.                *)
(*                                                                         *)
(* lwIP calls _lwip_tcp_accept and _lwip_tcp_err_unaccepted in an          *)
(* interrupt (PendSV), whenever the thread does not hold the lwIP lock;    *)
(* they share the ring `incoming.connection' with the thread's accept()    *)
(* and close().  A connection that is reset while it waits is taken out    *)
(* of the middle of the ring.                                              *)
(***************************************************************************)
EXTENDS Integers, SequencesExt

CONSTANTS Conns,     \* the connections (struct tcp_pcb)
          NULL,
          Backlog    \* the argument of listen()

ASSUME AcceptAssumption == NULL \notin Conns /\ Backlog \in Nat

\* connection.alloc, and the number of slots: without an array the one
\* place `tcp.item' is used.
alloc == IF Backlog <= 1 THEN 0 ELSE Backlog
NSlots == IF alloc = 0 THEN 1 ELSE alloc
Slots == 0 .. NSlots - 1

VARIABLES array, iget, iput,  \* incoming.connection
          open,               \* the socket has not been closed
          conn,                \* what has become of a connection
          at,                 \* the slot that accept() waits for, or -1
          order               \* the waiting connections as they came

acceptVars == <<array, iget, iput, open, conn, at, order>>
ring == <<array, iget, iput>>

AcceptInit == /\ array = [i \in Slots |-> NULL] /\ iget = 0 /\ iput = 0
              /\ open = TRUE /\ at = -1 /\ order = <<>>
              /\ conn = [p \in Conns |-> "new"]

\* The index after i.
Up(i) == IF i + 1 >= alloc THEN 0 ELSE i + 1
-----------------------------------------------------------------------------
\* _lwip_tcp_accept; lwIP drops the connection if there is no room.
Incoming(p) ==
    /\ open /\ conn[p] = "new"
    /\ IF array[iput] = NULL
       THEN /\ array' = [array EXCEPT ![iput] = p]
            /\ iput' = Up(iput)
            /\ conn' = [conn EXCEPT ![p] = "waiting"]
            /\ order' = Append(order, p)
       ELSE /\ conn' = [conn EXCEPT ![p] = "gone"]
            /\ UNCHANGED <<array, iput, order>>
    /\ UNCHANGED <<iget, open, at>>

\* Mutant of Removed: the index to write at stays.
RemovedKeepsIput(a, put, p) ==
    LET count == IF put = iget THEN NSlots ELSE (put - iget) % NSlots
        slot(j) == (iget + j) % NSlots
        found == {j \in 0 .. count - 1 : a[slot(j)] = p}
        new == [i \in Slots |->
                  LET j == (i - iget) % NSlots IN
                  IF j >= count \/ \A f \in found : j < f THEN a[i]
                  ELSE IF j = count - 1 THEN NULL ELSE a[slot(j + 1)]]
    IN  IF found = {} THEN [array |-> a, iput |-> put]
        ELSE [array |-> new, iput |-> put]

(***************************************************************************)
(* _lwip_tcp_err_unaccepted on the array a, to be written at `put': from   *)
(* iget on, up to `put' or all around, everything after p is shifted down. *)
(***************************************************************************)
Removed(a, put, p) ==
    LET count == IF put = iget THEN NSlots ELSE (put - iget) % NSlots
        slot(j) == (iget + j) % NSlots
        found == {j \in 0 .. count - 1 : a[slot(j)] = p}
        new == [i \in Slots |->
                  LET j == (i - iget) % NSlots IN
                  IF j >= count \/ \A f \in found : j < f THEN a[i]
                  ELSE IF j = count - 1 THEN NULL ELSE a[slot(j + 1)]]
    IN  IF found = {} THEN [array |-> a, iput |-> put]
        ELSE [array |-> new, iput |-> slot(count - 1)]

\* A waiting connection is reset by its peer or times out.
Dropped(p) ==
    /\ conn[p] = "waiting"
    /\ array' = Removed(array, iput, p).array
    /\ iput' = Removed(array, iput, p).iput
    /\ conn' = [conn EXCEPT ![p] = "gone"]
    /\ order' = RemoveFirst(order, p)
    /\ UNCHANGED <<iget, open, at>>
-----------------------------------------------------------------------------
\* The end of lwip_socket_accept: the connection in slot i gets a socket.
Take(i) ==
    /\ conn' = [conn EXCEPT ![array[i]] = "accepted"]
    /\ iget' = Up(iget)
    /\ array' = [array EXCEPT ![i] = NULL]
    /\ order' = RemoveFirst(order, array[i])

\* lwip_socket_accept; an empty slot is looked at again after a while.
Accept ==
    /\ open /\ at = -1
    /\ IF array[iget] # NULL THEN Take(iget) /\ UNCHANGED at
       ELSE at' = iget /\ UNCHANGED <<conn, iget, array, order>>
    /\ UNCHANGED <<iput, open>>

AcceptAgain ==
    /\ at # -1 /\ array[at] # NULL
    /\ Take(at) /\ at' = -1
    /\ UNCHANGED <<iput, open>>

\* EAGAIN or ETIMEDOUT
AcceptTimesOut ==
    /\ at # -1 /\ array[at] = NULL
    /\ at' = -1
    /\ UNCHANGED <<ring, open, conn, order>>

\* tcp_abort of lwIP calls the connection's error callback, here still
\* _lwip_tcp_err_unaccepted; close() deregisters its own one because of
\* that (modlwip.c:1595-1597).
TcpAbort(a, put, p) == Removed(a, put, p)

\* lwip_socket_free_incoming of a listener, up to slot i: the connection is
\* aborted, then its slot is cleared.
Freed[i \in 0 .. alloc] ==
    IF i = 0 THEN [array |-> array, iput |-> iput, gone |-> {}]
    ELSE LET f == Freed[i - 1]
             p == f.array[i - 1]
             r == TcpAbort(f.array, f.iput, p)
         IN  IF p = NULL THEN f
             ELSE [array |-> [r.array EXCEPT ![i - 1] = NULL],
                   iput |-> r.iput, gone |-> f.gone \cup {p}]

\* MP_STREAM_CLOSE
CloseListener ==
    /\ open /\ at = -1
    /\ open' = FALSE
    /\ array' = Freed[alloc].array /\ iput' = Freed[alloc].iput
    /\ conn' = [p \in Conns |-> IF p \in Freed[alloc].gone THEN "gone"
                               ELSE conn[p]]
    /\ order' = SelectSeq(order, LAMBDA p : p \notin Freed[alloc].gone)
    /\ UNCHANGED <<iget, at>>

\* The socket is closed; what lwIP does then is not followed.
Closed == ~open /\ UNCHANGED acceptVars

Arrives == \E p \in Conns : Incoming(p)
Drops == \E p \in Conns : Dropped(p)

AcceptNext == \/ Arrives \/ Drops \/ Accept \/ AcceptAgain
              \/ AcceptTimesOut \/ CloseListener \/ Closed

\* The server's task calls accept() again and again (Server._serve).
AcceptSpec == /\ AcceptInit /\ [][AcceptNext]_acceptVars
              /\ WF_acceptVars(Accept) /\ WF_acceptVars(AcceptAgain)
              /\ WF_acceptVars(AcceptTimesOut)
-----------------------------------------------------------------------------
\* The ring holds the waiting connections, oldest first from `iget' on, and
\* nothing else: what the interrupt stores, takes out of the middle and
\* wraps round is what accept() finds, in the order of arrival, and a free
\* slot is never taken for a full one (modlwip.c:472-551, 1045-1073).
RingHoldsWaiting ==
    open => [i \in Slots |-> LET j == ((i - iget) % NSlots) + 1 IN
                IF j \in DOMAIN order THEN order[j] ELSE NULL] = array

\* No connection that was accepted or has gone stays in the ring, and none
\* that waits is missing from it: the interrupt frees or hands over each pcb
\* exactly once.
RingIsTheWaiting ==
    open => {array[i] : i \in Slots} \ {NULL}
            = {p \in Conns : conn[p] = "waiting"}

\* As long as the server accepts, a connection that waits is accepted,
\* unless it is dropped first.
ServedInTheEnd ==
    \A p \in Conns : conn[p] = "waiting" ~> conn[p] # "waiting" \/ ~open

\* The ring is the connections that wait, in order, through resets in its
\* middle and wraps of its ends, and accept() gets to each of them
\* (modlwip.c:472-551, 1045-1073).
WaitingAreServed ==
    [](RingHoldsWaiting /\ RingIsTheWaiting) /\ ServedInTheEnd
=============================================================================
