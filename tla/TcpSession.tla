------------------------------ MODULE TcpSession -------------------------------
(* TcpClient used as tcp_client.h asks: an owner connects, starts the read loop *)
(* "after successful connect()", may connect again after a loss (as the         *)
(* reconnection thread does) or on a live connection, and disconnects.  The two *)
(* callbacks do nothing here, so what this module shows is the client's own.    *)
EXTENDS TcpClient

OwnerLabels == {"off", "idle", "tcp_connect", "tcp_dial", "tcp_handshake", "tcp_ok",
                "tcp_failed", "tcp_start", "tcp_spawn", "tcp_stop", "tcp_join", "tcp_close"}
ReaderLabels == {"none", "check", "recv", "feed", "exit", "lost", "done"}
SenderLabels == {"idle", "send_check", "send_lock", "sending"}

Live(r) == pc[r] \notin {"none", "done"}

PcOK ==
  /\ pc \in [Threads -> OwnerLabels \cup ReaderLabels \cup SenderLabels]
  /\ \A o \in Owners : pc[o] \in OwnerLabels
  /\ \A r \in Readers : pc[r] \in ReaderLabels
  /\ \A t \in Senders : pc[t] \in SenderLabels

ClientOK ==
  /\ ret \in [Owners -> {"off", "idle", "tcp_dial"}]
  /\ sret \in [Owners -> {"tcp_close"}]
  /\ at \in [Readers \cup Senders -> Sockets \cup {NoFd}]
  /\ fd \in Sockets \cup {NoFd}
  /\ sock \in [Sockets -> {"free", "up", "dead"}]
  /\ useTls \in BOOLEAN /\ connected \in BOOLEAN /\ loopRunning \in BOOLEAN /\ aborted \in BOOLEAN
  /\ readThread \in Readers \cup {NoThread}

TypeOK == PcOK /\ ClientOK

Init ==
  /\ pc = [t \in Threads |-> IF t \in Owners THEN "off"
                             ELSE IF t \in Readers THEN "none" ELSE "idle"]
  /\ ret = [o \in Owners |-> "off"] /\ sret = [o \in Owners |-> "tcp_close"]
  /\ at = [t \in Readers \cup Senders |-> NoFd]
  /\ SharedInit

Open(o)  == pc[o] \in {"off", "idle"} /\ CallConnect(o)
Start(o) == pc[o] = "tcp_ok" /\ CallStartReadLoop(o, "idle")
Fail(o)  == pc[o] = "tcp_failed" /\ Goto(o, "idle") /\ UNCHANGED <<ret, sret, at, shared>>
Close(o) == pc[o] = "idle" /\ CallDisconnect(o, "off")

DataCallback(r) == pc[r] = "feed" /\ Goto(r, "check") /\ UNCHANGED <<ret, sret, at, shared>>
DisconnectCallback(r) == pc[r] = "lost" /\ Goto(r, "done") /\ UNCHANGED <<ret, sret, at, shared>>

Reader(r) == ReaderStep(r) \/ DataCallback(r) \/ DisconnectCallback(r)

Next ==
  /\ ~aborted
  /\ \/ \E o \in Owners : OwnerStep(o) \/ Open(o) \/ Start(o) \/ Fail(o) \/ Close(o)
     \/ \E r \in Readers : Reader(r)
     \/ \E t \in Senders : SenderStep(t)
     \/ \E s \in Sockets : PeerLost(s)

\* The scheduler runs every thread that can run, and the connect poll() has a
\* timeout.  Nothing bounds SSL_connect(): the handshake steps are not fair.  Data
\* from the peer, the owner's next call and a loss may never come.
Progress(o) ==
  \/ ConnectCheck(o) \/ Established(o) \/ DialFailed(o) \/ StartReadLoop(o) \/ SpawnReader(o)
  \/ StopReadLoop(o) \/ JoinReader(o) \/ CloseSocket(o) \/ Start(o) \/ Fail(o)

Fairness ==
  /\ \A o \in Owners : WF_vars(~aborted /\ Progress(o))
  /\ \A r \in Readers : WF_vars(~aborted /\ Runnable(r) /\ Reader(r))

Spec == Init /\ [][Next]_vars /\ Fairness

--------------------------------------------------------------------------------
(* Properties                                                                   *)

\* A descriptor is never closed while a read thread is blocked in recv() on it:
\* closeSocket() runs only after stopReadLoop() has joined the thread, and the
\* number could otherwise be handed to another socket under the reader.
CloseAfterJoin ==
  \A r \in Readers : pc[r] = "recv" /\ at[r] # NoFd => sock[at[r]] # "free"

\* Besides, no call sequence of one owner reaches std::terminate: startReadLoop() never
\* assigns to a joinable std::thread, whatever losses and reconnections came before.
ClientIsSafe == ~aborted /\ CloseAfterJoin

\* When disconnect() has returned, nothing of the session is left: no descriptor
\* in m_fd, no read thread that could still run a callback, none left to join.
OffMeansOff ==
  \A o \in Owners : pc[o] = "off" =>
    /\ fd = NoFd /\ ~connected /\ readThread = NoThread
    /\ \A r \in Readers : pc[r] = "none"

\* Calls return, with or without TLS, even when the stream is lost at the same time:
\* stopReadLoop() joins a thread that is woken from its recv() and ends; connect() gets
\* past the teardown of an old connection to its end, or to the TLS handshake ("Blocks
\* until connected or timeout", tcp_client.h:44; nothing bounds the handshake).
CallsReturn ==
  \A o \in Owners :
    /\ (pc[o] = "tcp_join") ~> (pc[o] # "tcp_join")
    /\ (pc[o] = "tcp_connect") ~> (pc[o] \in {"tcp_ok", "tcp_failed", "tcp_handshake"})

\* Without TLS, a read thread that waits on a stream that has ended gives
\* m_connected up.  With TLS it need not (ReadTlsError).
LossNoticed ==
  \A r \in Readers :
    (pc[r] = "recv" /\ AtEnd(r) /\ ~useTls) ~> ~connected

\* Between calls, a connection that m_connected reports has a read thread, as the
\* startReadLoop() that followed its connect() was asked for (tcp_client.h:92-93).
ConnectedHasReader ==
  \A o \in Owners : pc[o] = "idle" /\ connected => \E r \in Readers : Live(r)
================================================================================
