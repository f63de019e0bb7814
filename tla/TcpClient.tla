------------------------------- MODULE TcpClient -------------------------------
(* core/src/network/tcp_client.cpp: the socket to the radio.  Owners call       *)
(* connect(), startReadLoop(), stopReadLoop() and disconnect(); startReadLoop() *)
(* creates a read thread that blocks in recv(); senders call send().  A thread  *)
(* is where its pc says it is: an action runs from one point where the thread   *)
(* can block, or where another thread can change what it reads, to the next.    *)
(*                                                                              *)
(* The bytes and the keepalive options are left out.  A socket is a member of   *)
(* Sockets, the descriptors the process may have open; an OpenSSL session lives *)
(* and dies with its socket.  The client's callbacks are the points "feed" (the *)
(* data callback is about to run) and "lost" (the disconnect callback is about  *)
(* to run) of a read thread, which the module that owns the client completes.   *)
CONSTANTS Owners,   \* threads that connect and disconnect
          Readers,  \* identities of read threads, one per std::thread that runs
          Senders,  \* threads that call send()
          Sockets,  \* descriptors the process can open
          TlsModes, \* whether connect() may be given use_tls with a key, and without
          NoThread, NoFd

ASSUME DistinctIds ==
  /\ Owners \cap Readers = {} /\ Owners \cap Senders = {} /\ Readers \cap Senders = {}
  /\ NoThread \notin Readers /\ NoFd \notin Sockets
  /\ TlsModes \subseteq BOOLEAN /\ TlsModes # {}

VARIABLES
  pc,           \* where each thread is
  ret,          \* where connect()'s inner disconnect(), disconnect() and startReadLoop() return to
  sret,         \* where stopReadLoop() returns to
  at,           \* the descriptor a blocked recv() or send() was called with
  fd,           \* m_fd
  useTls,       \* m_useTls
  sock,         \* the kernel's view: "free", "up", or "dead" (end of stream is readable)
  connected,    \* m_connected
  loopRunning,  \* m_readLoopRunning
  readThread,   \* m_readThread: the joinable thread, or NoThread
  aborted       \* the C++ runtime has called std::terminate

shared == <<fd, useTls, sock, connected, loopRunning, readThread, aborted>>
vars   == <<pc, ret, sret, at, shared>>

Threads == Owners \cup Readers \cup Senders

Goto(t, label) == pc' = [pc EXCEPT ![t] = label]

--------------------------------------------------------------------------------
(* Calls: how a thread enters a method of the client.                           *)

CallConnect(t) == Goto(t, "tcp_connect") /\ UNCHANGED <<ret, sret, at, shared>>

CallStartReadLoop(t, back) ==
  /\ Goto(t, "tcp_start")
  /\ ret' = [ret EXCEPT ![t] = back]
  /\ UNCHANGED <<sret, at, shared>>

\* disconnect() begins with stopReadLoop() and goes on to close the socket.
EnterDisconnect(t, back) ==
  /\ Goto(t, "tcp_stop")
  /\ sret' = [sret EXCEPT ![t] = "tcp_close"]
  /\ ret' = [ret EXCEPT ![t] = back]

CallDisconnect(t, back) == EnterDisconnect(t, back) /\ UNCHANGED <<at, shared>>

\* A stopReadLoop() of its own, as Engine::disconnect() and shutdown() make it.
CallStopReadLoop(t, back) ==
  /\ Goto(t, "tcp_stop")
  /\ sret' = [sret EXCEPT ![t] = back]
  /\ UNCHANGED <<ret, at, shared>>

--------------------------------------------------------------------------------
(* connect()                                                                    *)

\* An old connection is torn down only when m_connected still says it is there.
ConnectCheck(t) ==
  /\ pc[t] = "tcp_connect"
  /\ IF connected THEN EnterDisconnect(t, "tcp_dial")
                  ELSE Goto(t, "tcp_dial") /\ UNCHANGED <<ret, sret>>
  /\ UNCHANGED <<at, shared>>

\* connectPlain() got a socket: m_fd is overwritten, whatever it held.
Established(t) ==
  /\ pc[t] = "tcp_dial"
  /\ \E s \in Sockets :
       /\ sock[s] = "free"
       /\ sock' = [sock EXCEPT ![s] = "up"]
       /\ fd' = s
  /\ useTls' \in TlsModes
  /\ IF useTls' THEN Goto(t, "tcp_handshake") /\ UNCHANGED connected
                ELSE Goto(t, "tcp_ok") /\ connected' = TRUE
  /\ UNCHANGED <<ret, sret, at, loopRunning, readThread, aborted>>

\* No address, a refusal, the 10 s poll() timeout, or no descriptor left.
DialFailed(t) ==
  /\ pc[t] = "tcp_dial"
  /\ useTls' \in TlsModes
  /\ Goto(t, "tcp_failed")
  /\ UNCHANGED <<ret, sret, at, fd, sock, connected, loopRunning, readThread, aborted>>

HandshakeOk(t) ==
  /\ pc[t] = "tcp_handshake"
  /\ connected' = TRUE
  /\ Goto(t, "tcp_ok")
  /\ UNCHANGED <<ret, sret, at, useTls, fd, sock, loopRunning, readThread, aborted>>

\* A wrong variant: m_fd keeps the number of the closed descriptor.
ReleaseKeepingFd ==
  /\ sock' = [s \in Sockets |-> IF s = fd THEN "free" ELSE sock[s]]
  /\ UNCHANGED fd

\* closeSocket(): the session and the descriptor in m_fd are released.
Release ==
  /\ sock' = [s \in Sockets |-> IF s = fd THEN "free" ELSE sock[s]]
  /\ fd' = NoFd

HandshakeFailed(t) ==
  /\ pc[t] = "tcp_handshake"
  /\ Release
  /\ Goto(t, "tcp_failed")
  /\ UNCHANGED <<ret, sret, at, useTls, connected, loopRunning, readThread, aborted>>

--------------------------------------------------------------------------------
(* startReadLoop(), stopReadLoop(), disconnect()                                *)

StartReadLoop(t) ==
  /\ pc[t] = "tcp_start"
  /\ loopRunning' = TRUE
  /\ Goto(t, IF loopRunning THEN ret[t] ELSE "tcp_spawn")
  /\ UNCHANGED <<ret, sret, at, useTls, fd, sock, connected, readThread, aborted>>

\* m_readThread = std::thread(...): assigning to a joinable thread terminates.
SpawnReader(t) ==
  /\ pc[t] = "tcp_spawn"
  /\ IF readThread # NoThread
       THEN aborted' = TRUE /\ UNCHANGED <<pc, readThread>>
       ELSE /\ \E r \in Readers :
                 /\ pc[r] = "none"
                 /\ readThread' = r
                 /\ pc' = [pc EXCEPT ![r] = "check", ![t] = ret[t]]
            /\ UNCHANGED aborted
  /\ UNCHANGED <<ret, sret, at, useTls, fd, sock, connected, loopRunning>>

\* shutdown(m_fd, SHUT_RD) makes a blocked recv() return end of stream.
ShutdownRead ==
  sock' = [s \in Sockets |-> IF s = fd /\ sock[s] = "up" THEN "dead" ELSE sock[s]]

\* A wrong variant: the thread is asked to stop and not waited for.
StopReadLoopNoJoin(t) ==
  /\ pc[t] = "tcp_stop"
  /\ loopRunning' = FALSE
  /\ ShutdownRead
  /\ Goto(t, sret[t])
  /\ UNCHANGED <<ret, sret, at, useTls, fd, connected, readThread, aborted>>

\* A wrong variant: the blocked recv() is not interrupted.
StopReadLoopNoShutdown(t) ==
  /\ pc[t] = "tcp_stop"
  /\ loopRunning' = FALSE
  /\ Goto(t, IF readThread = NoThread THEN sret[t] ELSE "tcp_join")
  /\ UNCHANGED <<ret, sret, at, useTls, fd, sock, connected, readThread, aborted>>

StopReadLoop(t) ==
  /\ pc[t] = "tcp_stop"
  /\ loopRunning' = FALSE
  /\ IF readThread = NoThread
       THEN Goto(t, sret[t]) /\ UNCHANGED sock
       ELSE Goto(t, "tcp_join") /\ ShutdownRead
  /\ UNCHANGED <<ret, sret, at, useTls, fd, connected, readThread, aborted>>

\* join() returns when the thread function has; a second join() of a thread that
\* another caller has joined meanwhile throws std::system_error, caught nowhere.
JoinReader(t) ==
  /\ pc[t] = "tcp_join"
  /\ IF readThread = NoThread
       THEN aborted' = TRUE /\ UNCHANGED <<pc, readThread>>
       ELSE /\ pc[readThread] = "done"
            /\ readThread' = NoThread
            /\ pc' = [pc EXCEPT ![readThread] = "none", ![t] = sret[t]]
            /\ UNCHANGED aborted
  /\ UNCHANGED <<ret, sret, at, useTls, fd, sock, connected, loopRunning>>

CloseSocket(t) ==
  /\ pc[t] = "tcp_close"
  /\ connected' = FALSE
  /\ Release
  /\ Goto(t, ret[t])
  /\ UNCHANGED <<ret, sret, at, useTls, loopRunning, readThread, aborted>>

--------------------------------------------------------------------------------
(* readLoopFunc()                                                               *)

\* The loop test; recv() is then called with whatever m_fd holds.
ReadCheck(r) ==
  /\ pc[r] = "check"
  /\ IF loopRunning THEN Goto(r, "recv") /\ at' = [at EXCEPT ![r] = fd]
                    ELSE Goto(r, "exit") /\ UNCHANGED at
  /\ UNCHANGED <<ret, sret, shared>>

ReadData(r) ==
  /\ pc[r] = "recv" /\ at[r] # NoFd
  /\ sock[at[r]] = "up"
  /\ Goto(r, "feed")
  /\ UNCHANGED <<ret, sret, at, shared>>

\* recv() on a descriptor that is closed, or whose stream has ended.
AtEnd(r) == at[r] # NoFd => sock[at[r]] # "up"

\* A wrong variant: any error of recv() is retried.
ReadEofRetried(r) ==
  /\ pc[r] = "recv" /\ AtEnd(r)
  /\ Goto(r, "check")
  /\ UNCHANGED <<ret, sret, at, shared>>

ReadEof(r) ==
  /\ pc[r] = "recv" /\ AtEnd(r)
  /\ Goto(r, "exit")
  /\ UNCHANGED <<ret, sret, at, shared>>

\* SSL_read() reports anything but ZERO_RETURN and SYSCALL (a truncated stream is
\* SSL_ERROR_SSL since OpenSSL 3): the loop goes on.
ReadTlsError(r) ==
  /\ useTls
  /\ pc[r] = "recv" /\ AtEnd(r)
  /\ Goto(r, "check")
  /\ UNCHANGED <<ret, sret, at, shared>>

\* A wrong variant: m_readLoopRunning is cleared as well, so that the next
\* startReadLoop() finds the old thread still joinable.
ReadExitClearingFlag(r) ==
  /\ pc[r] = "exit"
  /\ connected' = FALSE /\ loopRunning' = FALSE
  /\ Goto(r, "lost")
  /\ UNCHANGED <<ret, sret, at, useTls, fd, sock, readThread, aborted>>

\* The loop is left: m_connected is cleared, m_readLoopRunning is not, and the
\* disconnect callback runs whether or not the connection was closed on purpose.
ReadExit(r) ==
  /\ pc[r] = "exit"
  /\ connected' = FALSE
  /\ Goto(r, "lost")
  /\ UNCHANGED <<ret, sret, at, useTls, fd, sock, loopRunning, readThread, aborted>>

--------------------------------------------------------------------------------
(* send()                                                                       *)

CallSend(t) ==
  /\ pc[t] = "idle"
  /\ Goto(t, "send_check")
  /\ UNCHANGED <<ret, sret, at, shared>>

\* m_connected is tested before the mutex is taken.
SendCheck(t) ==
  /\ pc[t] = "send_check"
  /\ Goto(t, IF connected THEN "send_lock" ELSE "idle")
  /\ UNCHANGED <<ret, sret, at, shared>>

\* m_sendMutex is free; SSL_write(m_ssl) or send(m_fd) begins.
SendBegin(t) ==
  /\ pc[t] = "send_lock"
  /\ \A o \in Senders : pc[o] # "sending"
  /\ at' = [at EXCEPT ![t] = fd]
  /\ Goto(t, "sending")
  /\ UNCHANGED <<ret, sret, shared>>

\* All bytes written, or an error: send() returns either way.
SendEnd(t) ==
  /\ pc[t] = "sending"
  /\ Goto(t, "idle")
  /\ UNCHANGED <<ret, sret, at, shared>>

--------------------------------------------------------------------------------
(* The environment, and the steps grouped by the thread that takes them.        *)

\* The peer, or the network, ends the stream.
PeerLost(s) ==
  /\ sock[s] = "up"
  /\ sock' = [sock EXCEPT ![s] = "dead"]
  /\ UNCHANGED <<pc, ret, sret, at, useTls, fd, connected, loopRunning, readThread, aborted>>

OwnerStep(t) ==
  \/ ConnectCheck(t) \/ Established(t) \/ DialFailed(t)
  \/ HandshakeOk(t) \/ HandshakeFailed(t)
  \/ StartReadLoop(t) \/ SpawnReader(t)
  \/ StopReadLoop(t) \/ JoinReader(t) \/ CloseSocket(t)

ReaderStep(r) ==
  ReadCheck(r) \/ ReadData(r) \/ ReadEof(r) \/ ReadTlsError(r) \/ ReadExit(r)

\* A read thread that the scheduler can run: recv() blocks until the stream ends,
\* unless the peer sends, which it need not.
Runnable(r) == pc[r] = "recv" => AtEnd(r)

SenderStep(t) == CallSend(t) \/ SendCheck(t) \/ SendBegin(t) \/ SendEnd(t)

SharedInit ==
  /\ fd = NoFd /\ useTls = FALSE /\ sock = [s \in Sockets |-> "free"]
  /\ connected = FALSE /\ loopRunning = FALSE
  /\ readThread = NoThread /\ aborted = FALSE
================================================================================
