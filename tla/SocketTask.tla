----------------------------- MODULE SocketTask -----------------------------
(* A TCP driver: Drv/Ip with the TcpClient or the TcpServer component.  The*)
(* read task opens the connection, reads it, and opens it again when it was*)
(* lost; the (guarded) send port writes to it on another thread, and its   *)
(* owner stops the task and shuts the server down.  A critical section of  *)
(* m_lock never blocks and is a step; m_fd is read outside the lock too.   *)
(*                                                                         *)
(* A socket is the state of its connection.  The argument of a call on m_fd*)
(* is read when the call is made; a number that was closed and given to    *)
(* another socket in between is left out.                                  *)
EXTENDS Naturals

CONSTANT Pieces  \* calls of ::send that a message may take

SocketAssumption == Pieces \in Nat \ {0}

VARIABLES
    server,           \* TcpServerSocket, or TcpClientSocket
    m_reconnect, m_stop,
    listening,        \* m_base_fd is a listening socket
    m_fd, m_open,     \* "none" (-1), "up", or "gone": the peer has left
    task, fd, status, \* the read task, and its locals
    snd, left,        \* the thread in send, and what is left of its message
    owner,
    halted            \* what ended the process

taskVars == <<task, fd, status>>
sendVars == <<snd, left>>
rest     == <<server, m_reconnect>>
socketVars     == <<rest, m_stop, listening, m_fd, m_open, taskVars, sendVars, owner, halted>>

SocketInit ==
    /\ server \in BOOLEAN /\ m_reconnect \in BOOLEAN /\ listening \in {FALSE, server}
    /\ m_stop = FALSE /\ m_fd = "none" /\ m_open = FALSE
    /\ task = "top" /\ fd = "none" /\ status = "ok"
    /\ snd = "idle" /\ left = 0
    /\ owner = "idle" /\ halted = "none"

-----------------------------------------------------------------------------
(* IpSocket::close.  A thread that waits in ::send for room is woken.      *)
CloseFd == m_fd' = "none" /\ m_open' = FALSE
Woken   == IF snd = "blocked" THEN "cut" ELSE snd
Close   == CloseFd /\ snd' = Woken /\ UNCHANGED left

-----------------------------------------------------------------------------
(* The read task.                                                          *)
Task(from, to) ==
    /\ halted = "none" /\ task = from /\ task' = to
    /\ UNCHANGED <<rest, m_stop, listening, owner>>

(* Nothing but the task's own thread.                                      *)
Alone(from, to) == Task(from, to) /\ UNCHANGED <<m_fd, m_open, sendVars, halted>>

(* open asserts that there is no connection, see SocketIsKept.             *)
TaskTop ==
    /\ Alone("top", IF ~m_open /\ ~m_stop THEN "opening" ELSE "check")
    /\ UNCHANGED <<fd, status>>

(* connect or accept, and the options of the socket.                       *)
OpenFails == Alone("opening", "check") /\ status' = "error" /\ UNCHANGED fd

Opens ==
    /\ Alone("opening", "publish") /\ (server => listening)
    /\ fd' = "up" /\ UNCHANGED status

Publish ==
    /\ Task("publish", "check")
    /\ m_fd' = fd /\ m_open' = TRUE /\ status' = "ok" /\ fd' = "none"
    /\ UNCHANGED <<sendVars, halted>>

TaskCheck ==
    /\ Alone("check", IF m_open /\ ~m_stop THEN "recv" ELSE "loop")
    /\ UNCHANGED <<fd, status>>

RecvCheck ==
    /\ Alone("recv", IF m_fd = "none" THEN "received" ELSE "reading")
    /\ status' = IF m_fd = "none" THEN "disconnected" ELSE status
    /\ UNCHANGED fd

(* A peer that left may have sent more before; the task gives up after     *)
(* SOCKET_MAX_ITERATIONS interrupted calls.                                *)
Reads ==
    /\ m_fd # "none" /\ Alone("reading", "received")
    /\ status' \in {"ok", "interrupted"} /\ UNCHANGED fd

(* No byte, ECONNRESET, or EBADF when m_fd was closed meanwhile; or another*)
(* error, which leaves the connection to the caller.                       *)
ReadFails ==
    /\ m_fd # "up"
    /\ \/ Alone("reading", "hangup") /\ UNCHANGED status
       \/ m_fd = "gone" /\ Alone("reading", "received") /\ status' = "error"
    /\ UNCHANGED fd

RecvHangup ==
    /\ Task("hangup", "received") /\ Close
    /\ status' = "disconnected" /\ UNCHANGED <<fd, halted>>

(* An interrupted read is taken for a lost connection.                     *)
MutantReceived ==
    /\ Task("received", "loop")
    /\ \/ status # "ok" /\ Close /\ UNCHANGED halted
       \/ status = "ok" /\ UNCHANGED <<m_fd, m_open, sendVars, halted>>
    /\ UNCHANGED <<fd, status>>

(* The buffer goes out and, in a topology with a Deframer, back to static  *)
(* memory.  After an interrupted read its size is -1, as U32 beyond the    *)
(* region that StaticMemoryComponentImpl asserts it to lie in.             *)
Received ==
    /\ Task("received", "loop")
    /\ \/ status \in {"disconnected", "error"} /\ Close /\ UNCHANGED halted
       \/ status = "ok" /\ UNCHANGED <<m_fd, m_open, sendVars, halted>>
       \/ status = "interrupted" /\ halted' = "assertion" /\ UNCHANGED <<m_fd, m_open, sendVars>>
    /\ UNCHANGED <<fd, status>>

TaskLoop ==
    /\ Alone("loop", IF ~m_stop /\ (status \in {"ok", "interrupted"} \/ m_reconnect)
                     THEN "top" ELSE "final")
    /\ UNCHANGED <<fd, status>>

(* Without the last close.                                                 *)
MutantTaskEnd == Alone("final", "ended") /\ UNCHANGED <<fd, status>>

TaskEnd == Task("final", "ended") /\ Close /\ UNCHANGED <<fd, status, halted>>

-----------------------------------------------------------------------------
(* send: a message in pieces, each to what m_fd is then.                   *)
Sending(from, to) ==
    /\ halted = "none" /\ snd = from /\ snd' = to
    /\ UNCHANGED <<rest, m_stop, listening, taskVars, owner>>

SendStart ==
    /\ m_fd # "none" /\ Sending("idle", "send")
    /\ left' = Pieces /\ UNCHANGED <<m_fd, m_open, halted>>

SendCall ==
    /\ Sending("send", IF m_fd = "none" THEN "reset" ELSE "blocked")
    /\ UNCHANGED <<left, m_fd, m_open, halted>>

SendPiece ==
    /\ Sending("blocked", IF left = 1 THEN "idle" ELSE "send")
    /\ left' = left - 1 /\ UNCHANGED <<m_fd, m_open, halted>>

(* Interrupted or timed out: again, or given up.                           *)
SendRetry ==
    /\ Sending("blocked", "send") \/ Sending("blocked", "idle")
    /\ left' = (IF snd' = "idle" THEN 0 ELSE left) /\ UNCHANGED <<m_fd, m_open, halted>>

(* ECONNRESET, or another error; SOCKET_IP_SEND_FLAGS is 0, so that the    *)
(* next write to a connection that is gone raises SIGPIPE.                 *)
SendFails ==
    /\ m_fd = "gone" /\ UNCHANGED <<m_fd, m_open>>
    /\ \/ Sending("blocked", "reset") /\ UNCHANGED <<left, halted>>
       \/ Sending("blocked", "idle") /\ left' = 0 /\ UNCHANGED halted
       \/ Sending("blocked", "idle") /\ left' = 0 /\ halted' = "SIGPIPE"

(* The connection was closed under the call: SIGPIPE, unless a part of the *)
(* piece had been taken.                                                   *)
SendCut ==
    /\ UNCHANGED <<m_fd, m_open>>
    /\ \/ Sending("cut", "idle") /\ left' = 0 /\ halted' = "SIGPIPE"
       \/ Sending("cut", "send") /\ UNCHANGED <<left, halted>>

(* The connection closed is the present one, whichever it was that failed. *)
SendReset ==
    /\ Sending("reset", "idle") /\ CloseFd
    /\ left' = 0 /\ UNCHANGED halted

-----------------------------------------------------------------------------
(* The owner; starting a task that was stopped is an assertion.            *)
Owner(from, to) ==
    /\ halted = "none" /\ owner = from /\ owner' = to
    /\ UNCHANGED <<rest, taskVars, halted>>

SetStop ==
    /\ Owner("idle", "stopping")
    /\ m_stop' = TRUE /\ UNCHANGED <<listening, m_fd, m_open, sendVars>>

(* Nothing wakes the receive.                                              *)
MutantStopClose ==
    /\ Owner("stopping", "stopped")
    /\ UNCHANGED <<m_stop, listening, m_fd, m_open, sendVars>>

StopClose == Owner("stopping", "stopped") /\ Close /\ UNCHANGED <<m_stop, listening>>

CloseCall == Owner("idle", "idle") /\ Close /\ UNCHANGED <<m_stop, listening>>

(* The listening socket is closed first, the connection then.              *)
Shutdown ==
    /\ listening /\ Owner("idle", "shutting")
    /\ listening' = FALSE /\ UNCHANGED <<m_stop, m_fd, m_open, sendVars>>

ShutdownClose == Owner("shutting", "idle") /\ Close /\ UNCHANGED <<m_stop, listening>>

(* The peer leaves the connection in use, or the one not published yet.    *)
PeerGone ==
    /\ halted = "none"
    /\ \/ m_fd = "up" /\ m_fd' = "gone" /\ UNCHANGED fd
       \/ fd = "up" /\ fd' = "gone" /\ UNCHANGED m_fd
    /\ UNCHANGED <<rest, m_stop, listening, m_open, task, status, sendVars, owner, halted>>

-----------------------------------------------------------------------------
ReadTask == TaskTop \/ Publish \/ TaskCheck \/ RecvCheck \/ RecvHangup \/ Received
                \/ TaskLoop \/ TaskEnd

SocketNext ==
    \/ ReadTask \/ OpenFails \/ Opens \/ Reads \/ ReadFails
    \/ SendStart \/ SendCall \/ SendPiece \/ SendRetry \/ SendFails \/ SendCut \/ SendReset
    \/ SetStop \/ StopClose \/ CloseCall \/ Shutdown \/ ShutdownClose \/ PeerGone

SocketSpec == SocketInit /\ [][SocketNext]_socketVars

(* The task runs on; a connect comes back, an accept only when there is no *)
(* listening socket any more; what a peer sent before it left comes to an  *)
(* end; an owner that begins to stop the task goes on.  Where a connection *)
(* can be had again and again, one is had.  Nobody has to send, to leave or*)
(* to stop.                                                                *)
SocketFairness ==
    /\ WF_socketVars(ReadTask) /\ SF_socketVars(ReadFails)
    /\ WF_socketVars(~(server /\ listening) /\ (OpenFails \/ Opens)) /\ SF_socketVars(Opens)
    /\ WF_socketVars(StopClose) /\ WF_socketVars(ShutdownClose)

SocketFairSpec == SocketSpec /\ SocketFairness

-----------------------------------------------------------------------------
SocketTypeOK ==
    /\ server \in BOOLEAN /\ m_reconnect \in BOOLEAN
    /\ m_stop \in BOOLEAN /\ listening \in BOOLEAN
    /\ m_fd \in {"none", "up", "gone"} /\ m_open \in BOOLEAN /\ fd \in {"none", "up", "gone"}
    /\ task \in {"top", "opening", "publish", "check", "recv", "reading", "hangup", "received",
                 "loop", "final", "ended"}
    /\ status \in {"ok", "interrupted", "disconnected", "error"}
    /\ snd \in {"idle", "send", "blocked", "cut", "reset"} /\ left \in 0 .. Pieces
    /\ owner \in {"idle", "stopping", "stopped", "shutting"}
    /\ halted \in {"none", "SIGPIPE", "assertion"}

(* The flag and the descriptor agree; a connection is opened only when     *)
(* there is none (the assertions of open); once the task has ended nothing *)
(* is left open, not even what a connect that was under way at the stop    *)
(* brought.                                                                *)
SocketIsKept ==
    /\ SocketTypeOK
    /\ m_open <=> m_fd # "none"
    /\ fd # "none" <=> task = "publish"
    /\ task \in {"opening", "publish", "ended"} => m_fd = "none"
    /\ snd = "blocked" => m_fd # "none"

(* However sends, closes and peers interleave with it, the read task closes*)
(* no connection whose peer is there, unless it was told to stop.          *)
TaskClosesTheDead == [][m_fd = "up" /\ m_fd' = "none" /\ task' # task => m_stop]_socketVars

(* A task that is stopped ends, whatever it was doing; a server's also     *)
(* needs its shutdown, since nothing else wakes accept.                    *)
StopEnds == (m_stop /\ ~listening) ~> (task = "ended" \/ halted # "none")

(* With m_reconnect a connection that the peer has left is replaced.       *)
Reconnects ==
    (m_reconnect /\ m_fd = "gone") ~>
        (fd = "up" \/ m_stop \/ (server /\ ~listening) \/ halted # "none")

(* Wherever sends, closes and peers cut in, the read task comes to its end *)
(* when it is stopped and to a new connection when it is not.              *)
TaskGoesOn == StopEnds /\ Reconnects
=============================================================================
