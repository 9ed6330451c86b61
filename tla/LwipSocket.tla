----------------------------- MODULE LwipSocket -----------------------------
(***************************************************************************)
(* A TCP socket of extmod/modlwip.c: connect(), recv() and read(), send()  *)
(* and write(), and close(), against the callbacks of lwIP.                *)
(*                                                                         *)
(* The callbacks run in an interrupt (PendSV) that the lwIP lock keeps     *)
(* off.  Each action of the thread is what it does in one piece under the  *)
(* lock, or one look at the socket without it, so a callback may run       *)
(* between any two of them.  `state' is not volatile: where the code       *)
(* looks at it twice with no call in between, the compiler looks once.     *)
(*                                                                         *)
(* Received bytes are numbered; a pbuf is the sequence of its bytes.       *)
(***************************************************************************)
EXTENDS Integers, SequencesExt

CONSTANTS MinRoom,    \* a waiting send needs this much room (16 bytes)
          MaxRoom,    \* TCP_SND_BUF
          Retries,    \* how often tcp_write is tried (200)
          MaxIn,      \* bound: bytes the peer sends
          MaxOut      \* bound: bytes the program sends

ASSUME LwipAssumption ==
    /\ MinRoom \in Nat /\ MaxRoom \in Nat /\ MinRoom <= MaxRoom
    /\ Retries \in Nat \ {0} /\ MaxIn \in Nat /\ MaxOut \in Nat

VARIABLES timeout,        \* "forever", "some" or "zero" (non-blocking)
          state,          \* socket->state
          pcb,            \* socket->pcb.tcp is not NULL
          pbufs,          \* socket->incoming.pbuf, a chain
          recv_offset,
          room,           \* tcp_sndbuf
          caller,             \* where the thread is
          tries,          \* the loop counter of the write
          result,         \* what the last call returned or raised
          in, got,        \* bytes that have come, and that were read
          out, reported   \* bytes given to lwIP, and reported as sent

sock == <<timeout, state, pcb, pbufs, recv_offset, room>>
flow == <<in, got, out, reported>>
socketVars == <<sock, caller, tries, result, flow>>

\* STATE_CONNECTED is below STATE_PEER_CLOSED; errors are negative.
HasFailed == state \in {"error", "badf"}
Open == state \in {"connected", "peer_closed"}

\* A socket of socket(), or one that accept() has returned.
SocketInit == /\ state \in {"new", "connected"}
              /\ timeout \in {"forever", "some", "zero"}
              /\ pcb = TRUE /\ pbufs = <<>> /\ recv_offset = 0
              /\ room = MaxRoom
              /\ caller = "idle" /\ tries = 0 /\ result = "none"
              /\ in = 0 /\ got = 0 /\ out = 0 /\ reported = 0
-----------------------------------------------------------------------------
\* The callbacks.  _lwip_tcp_recv with a pbuf ...
Data(n) ==
    /\ pcb /\ state = "connected" /\ in + n <= MaxIn
    /\ pbufs' = Append(pbufs, [i \in 1 .. n |-> in + i])
    /\ in' = in + n
    /\ UNCHANGED <<timeout, state, pcb, recv_offset, room, caller, tries,
                   result, got, out, reported>>

\* ... and without one.
PeerCloses ==
    /\ pcb /\ state = "connected"
    /\ state' = "peer_closed"
    /\ UNCHANGED <<timeout, pcb, pbufs, recv_offset, room, caller, tries,
                   result, flow>>

\* _lwip_tcp_connected
Connected ==
    /\ pcb /\ state = "connecting"
    /\ state' = "connected"
    /\ UNCHANGED <<timeout, pcb, pbufs, recv_offset, room, caller, tries,
                   result, flow>>

\* _lwip_tcp_error
Error ==
    /\ pcb /\ state # "new"
    /\ state' = "error" /\ pcb' = FALSE /\ pbufs' = <<>>
    /\ UNCHANGED <<timeout, recv_offset, room, caller, tries, result, flow>>

\* The peer acknowledges data.
Acked ==
    /\ pcb /\ room < MaxRoom
    /\ room' = room + 1
    /\ UNCHANGED <<timeout, state, pcb, pbufs, recv_offset, caller, tries,
                   result, flow>>
-----------------------------------------------------------------------------
GoesTo(l) == caller' = l /\ UNCHANGED result
Return(r) == caller' = "idle" /\ result' = r

\* The thread uses a NULL pointer; what follows is not defined.
Faults == caller' = "crashed" /\ UNCHANGED result

\* lwip_socket_connect; when tcp_connect fails, the socket is new again.
ConnectSocket ==
    /\ caller = "idle" /\ state = "new"
    /\ \/ state' = "connecting" /\ GoesTo("connect")
       \/ Return("error") /\ UNCHANGED state
    /\ UNCHANGED <<timeout, pcb, pbufs, recv_offset, room, tries, flow>>

\* ... waits, and raises the error that the state names: "index" if the
\* state is not an error and error_lookup_table[-err] is outside the table.
ConnectEnds ==
    /\ caller = "connect" /\ state # "connecting"
    /\ Return(CASE state = "connected" -> "connected"
                [] HasFailed -> "error"
                [] OTHER -> "index")
    /\ UNCHANGED <<sock, tries, flow>>

ConnectTimesOut ==
    /\ caller = "connect" /\ state = "connecting" /\ timeout # "forever"
    /\ Return("timeout")
    /\ UNCHANGED <<sock, tries, flow>>
-----------------------------------------------------------------------------
\* lwip_tcp_receive looks for an error; recv(), not read(), has marked a
\* failed socket as bad before.
RecvChecks ==
    /\ caller = "idle" /\ state \notin {"new", "connecting"}
    /\ IF HasFailed THEN /\ Return("error")
                      /\ state' \in {state, "badf"}
       ELSE GoesTo("recv_test") /\ UNCHANGED state
    /\ UNCHANGED <<timeout, pcb, pbufs, recv_offset, room, tries, flow>>

RecvTests ==
    /\ caller = "recv_test"
    /\ GoesTo(IF pbufs # <<>> THEN "recv_copy"
            ELSE IF timeout = "zero" THEN "recv_now" ELSE "recv_wait")
    /\ UNCHANGED <<sock, tries, flow>>

\* A non-blocking socket without data.
RecvNow ==
    /\ caller = "recv_now"
    /\ Return(IF state = "peer_closed" THEN "eof" ELSE "again")
    /\ UNCHANGED <<sock, tries, flow>>

\* A blocking one waits.
RecvWaits ==
    /\ caller = "recv_wait" /\ (state # "connected" \/ pbufs # <<>>)
    /\ GoesTo("recv_end")
    /\ UNCHANGED <<sock, tries, flow>>

RecvTimesOut ==
    /\ caller = "recv_wait" /\ state = "connected" /\ pbufs = <<>>
    /\ timeout = "some"
    /\ Return("timeout")
    /\ UNCHANGED <<sock, tries, flow>>

\* Mutant of RecvEnds: the end of the stream is reported at once.
RecvEndsEarly ==
    /\ caller = "recv_end"
    /\ \/ state = "peer_closed" /\ Return("eof")
       \/ state \notin {"connected", "peer_closed"} /\ Return("error")
       \/ state = "connected" /\ GoesTo("recv_copy")
    /\ UNCHANGED <<sock, tries, flow>>

RecvEnds ==
    /\ caller = "recv_end"
    /\ \/ state = "peer_closed" /\ pbufs = <<>> /\ Return("eof")
       \/ state \notin {"connected", "peer_closed"} /\ Return("error")
       \/ /\ state = "connected" \/ (state = "peer_closed" /\ pbufs # <<>>)
          /\ GoesTo("recv_copy")
    /\ UNCHANGED <<sock, tries, flow>>

\* Under the lock: up to len bytes of the first pbuf.
RecvCopies(len) ==
    /\ caller = "recv_copy"
    /\ IF pcb /\ pbufs # <<>>
       THEN LET left == Len(pbufs[1]) - recv_offset
                n == IF len > left THEN left ELSE len
            IN  /\ got' = got + n
                /\ IF n = left THEN pbufs' = Tail(pbufs) /\ recv_offset' = 0
                   ELSE recv_offset' = recv_offset + n /\ UNCHANGED pbufs
                /\ Return("data") 
       ELSE Faults /\ UNCHANGED <<got, pbufs, recv_offset>>
    /\ UNCHANGED <<timeout, state, pcb, room, tries, in, out, reported>>
-----------------------------------------------------------------------------
\* lwip_tcp_send, of one byte.
SendChecks ==
    /\ caller = "idle" /\ state # "new" /\ reported < MaxOut /\ out < MaxOut
    /\ IF HasFailed THEN /\ Return("error")
                      /\ state' \in {state, "badf"}
       ELSE GoesTo("send_room") /\ UNCHANGED state
    /\ tries' = 0
    /\ UNCHANGED <<timeout, pcb, pbufs, recv_offset, room, flow>>

\* The first look for room under the lock.
SendLooks ==
    /\ caller = "send_room"
    /\ IF state # "connecting" /\ ~pcb THEN Faults
       ELSE 
            /\ IF state # "connecting" /\ room > 0 THEN GoesTo("send_write")
               ELSE IF timeout = "zero" THEN Return("again")
               ELSE GoesTo("send_wait")
    /\ UNCHANGED <<sock, tries, flow>>

MustWait == state = "connecting" \/ (Open /\ room < MinRoom)

SendWaits ==
    /\ caller = "send_wait" /\ ~MustWait
    /\ IF HasFailed THEN Return("error") ELSE GoesTo("send_write")
    /\ UNCHANGED <<sock, tries, flow>>

SendTimesOut ==
    /\ caller = "send_wait" /\ MustWait /\ timeout = "some"
    /\ Return("timeout")
    /\ UNCHANGED <<sock, tries, flow>>

(***************************************************************************)
(* tcp_write, or tcp_write without memory followed by a tcp_output and a   *)
(* delay without the lock.  After the last try err is what tcp_output has  *)
(* returned, ERR_OK, and the length is returned.  Any other error of the   *)
(* two ends the call; if it is that of the tcp_output after a tcp_write    *)
(* that succeeded, the byte is sent all the same.  (From "send_room" and   *)
(* "send_wait" the lock is still held: no callback comes in between.)      *)
(***************************************************************************)
SendWrites ==
    /\ caller \in {"send_write", "send_retry"}
    /\ IF ~pcb THEN Faults /\ UNCHANGED <<room, out, reported, tries>>
       ELSE \/ /\ out' = out + 1 /\ room' = room - 1 /\ UNCHANGED tries
               /\ \/ Return("sent") /\ reported' = reported + 1
                  \/ Return("error") /\ UNCHANGED reported
            \/ Return("error") /\ UNCHANGED <<room, out, reported, tries>>
            \/ /\ tries + 1 < Retries /\ tries' = tries + 1
               /\ GoesTo("send_retry")
               /\ UNCHANGED <<room, out, reported>>
            \/ /\ tries + 1 = Retries /\ reported' = reported + 1
               /\ Return("sent")
               /\ UNCHANGED <<room, out, tries>>
    /\ UNCHANGED <<timeout, state, pcb, pbufs, recv_offset, in, got>>

\* MP_STREAM_CLOSE: the callbacks are deregistered.
Close ==
    /\ caller = "idle" /\ pcb
    /\ pcb' = FALSE /\ state' = "badf" /\ pbufs' = <<>>
    /\ UNCHANGED <<timeout, recv_offset, room, caller, tries, result, flow>>

\* The program does something else.
Other == caller \in {"idle", "crashed", "connect", "recv_wait", "send_wait"}
         /\ UNCHANGED socketVars

Receives == \E n \in 1 .. 2 : Data(n)
Copies == \E len \in 1 .. 2 : RecvCopies(len)
Callbacks == /\ caller # "send_write"
             /\ Receives \/ PeerCloses \/ Connected \/ Error \/ Acked
Connecting == ConnectSocket \/ ConnectEnds \/ ConnectTimesOut
Receiving == \/ RecvTests \/ RecvNow \/ RecvWaits \/ RecvTimesOut
             \/ RecvEnds \/ Copies
Sending == SendLooks \/ SendWaits \/ SendTimesOut \/ SendWrites

SocketNext ==
    \/ Callbacks \/ Connecting \/ RecvChecks \/ Receiving \/ SendChecks
    \/ Sending \/ Close \/ Other

\* A call goes on; nothing makes the program call or the network deliver.
SocketSpec ==
    /\ SocketInit /\ [][SocketNext]_socketVars
    /\ WF_socketVars(ConnectEnds) /\ WF_socketVars(Receiving)
    /\ WF_socketVars(Sending)
-----------------------------------------------------------------------------
\* The bytes that wait are those after the ones that were read, in order:
\* whatever lengths come and are asked for, no byte is lost or read twice
\* (modlwip.c:565-573, 822-842).
StreamInOrder ==
    pcb => LET rest == FlattenSeq(pbufs)
           IN  SubSeq(rest, recv_offset + 1, Len(rest))
               = [i \in 1 .. in - got |-> got + i]

\* "socket closed and no data left in buffer" (modlwip.c:805): a blocking
\* read that reports the end of the stream has read all of it.  (A
\* non-blocking one looks for data before it looks at the state, and does
\* not look for data again.)
EofAfterData ==
    [][ result' = "eof" /\ caller' # caller /\ timeout # "zero"
            => pbufs = <<>> ]_socketVars

\* A call that waits returns once there is something to return: data, the
\* end of the stream, or an error that frees what it was waiting for
\* (modlwip.c:725-737, 795-815).
WaitEnds ==
    /\ caller = "recv_wait" /\ (pbufs # <<>> \/ state # "connected")
         ~> caller # "recv_wait"
    /\ caller = "send_wait" /\ HasFailed ~> caller # "send_wait"

\* The stream arrives once and in order, its end comes after its data, and a
\* call that waits for it returns (modlwip.c:565-842), whenever the callbacks
\* come.
StreamIsDelivered == []StreamInOrder /\ EofAfterData /\ WaitEnds
=============================================================================
