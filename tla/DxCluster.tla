------------------------------- MODULE DxCluster -------------------------------
(* core/src/network/dx_cluster_client.cpp: the client of a DX cluster.  One     *)
(* thread (Owner) calls connect() and disconnect(); a read thread cuts the      *)
(* stream into lines and hands the spots to a callback; callbacks are set at    *)
(* any time and run under m_cbMutex.                                            *)
(*                                                                              *)
(* m_lineBuffer is counted in reads: what it holds of an unfinished line, and   *)
(* how many complete lines are left to take out.  What a line says is left out, *)
(* but for its being a spot or not.  The rest of the process opens and closes   *)
(* descriptors at any time.  The read thread reads m_fd without a lock: between *)
(* close() and the assignment of -1 it may receive from whatever has taken the  *)
(* number.                                                                      *)
EXTENDS Naturals, FiniteSets

CONSTANTS Fds,          \* descriptor numbers the process may have open
          Listeners,    \* callbacks that may be registered
          MaxReads,     \* MAX_BUFFER_SIZE, in reads
          MaxLines,     \* complete lines that one read brings at most
          Careful,      \* after a loss, disconnect() is called before connect()
          Owner, Reader, Nobody, NoFd

ASSUME ClusterThreads ==
  /\ Owner # Reader /\ Nobody \notin Listeners \cup {Reader}
  /\ Fds \subseteq Nat /\ NoFd \notin Fds
  /\ MaxReads \in Nat \ {0} /\ MaxLines \in Nat /\ Careful \in BOOLEAN

VARIABLES
  pc,         \* where the owner and the read thread are
  ret,        \* where disconnect() returns to
  running,    \* m_running
  connected,  \* m_connected
  fd,         \* m_fd
  own,        \* per number: "free", "ours" or "foreign"
  up,         \* the connection of m_fd: neither end has closed it or shut it down
  reads,      \* reads that the unfinished line in m_lineBuffer is made of
  lines,      \* complete lines in m_lineBuffer
  mutex,      \* who holds m_cbMutex
  cb,         \* the callbacks, "spot" and "end"
  using,      \* the callback that runs
  untold,     \* connections that were made and whose end has not been notified
  aborted     \* std::terminate was called

buffer == <<reads, lines>>
calls  == <<mutex, cb, using, untold>>
vars   == <<pc, ret, running, connected, fd, own, up, buffer, calls, aborted>>

Goto(t, label) == pc' = [pc EXCEPT ![t] = label]

Free == {f \in Fds : own[f] = "free"}
Lowest == CHOOSE f \in Free : \A g \in Free : f <= g

Init ==
  /\ pc = [t \in {Owner, Reader} |-> IF t = Owner THEN "idle" ELSE "none"]
  /\ ret = "idle" /\ running = FALSE /\ connected = FALSE
  /\ fd = NoFd /\ own = [f \in Fds |-> "free"] /\ up = FALSE
  /\ reads = 0 /\ lines = 0
  /\ mutex = Nobody /\ cb = [k \in {"spot", "end"} |-> Nobody] /\ using = Nobody
  /\ untold = 0 /\ aborted = FALSE

--------------------------------------------------------------------------------
(* disconnect()                                                                 *)

Enter(next) ==
  /\ running' = FALSE /\ connected' = FALSE
  /\ ret' = next
  /\ Goto(Owner, IF fd = NoFd THEN "join" ELSE "shut")

Disconnect ==
  /\ pc[Owner] = "idle"
  /\ Enter("idle")
  /\ UNCHANGED <<fd, own, up, buffer, calls, aborted>>

ShutDown ==
  /\ pc[Owner] = "shut"
  /\ up' = FALSE
  /\ Goto(Owner, "close")
  /\ UNCHANGED <<ret, running, connected, fd, own, buffer, calls, aborted>>

Close ==
  /\ pc[Owner] = "close"
  /\ own' = [own EXCEPT ![fd] = "free"]
  /\ Goto(Owner, "clear")
  /\ UNCHANGED <<ret, running, connected, fd, up, buffer, calls, aborted>>

\* A wrong variant: m_fd keeps the number.
ClearNothing ==
  /\ pc[Owner] = "clear"
  /\ Goto(Owner, "join")
  /\ UNCHANGED <<ret, running, connected, fd, own, up, buffer, calls, aborted>>

ClearFd ==
  /\ pc[Owner] = "clear"
  /\ fd' = NoFd
  /\ Goto(Owner, "join")
  /\ UNCHANGED <<ret, running, connected, own, up, buffer, calls, aborted>>

\* A wrong variant: what the buffer holds stays.
JoinKeepingBuffer ==
  /\ pc[Owner] = "join" /\ pc[Reader] \in {"none", "done"}
  /\ pc' = [pc EXCEPT ![Reader] = "none", ![Owner] = ret]
  /\ UNCHANGED <<ret, running, connected, fd, own, up, buffer, calls, aborted>>

\* The read thread is joined, then m_lineBuffer is cleared.
Join ==
  /\ pc[Owner] = "join" /\ pc[Reader] \in {"none", "done"}
  /\ pc' = [pc EXCEPT ![Reader] = "none", ![Owner] = ret]
  /\ reads' = 0 /\ lines' = 0
  /\ UNCHANGED <<ret, running, connected, fd, own, up, calls, aborted>>

--------------------------------------------------------------------------------
(* connect()                                                                    *)

\* m_connected alone decides whether an old connection is torn down, and the loss of
\* that connection clears it: then its read thread is still to be joined.
Connect ==
  /\ pc[Owner] = "idle"
  /\ Careful => connected \/ pc[Reader] = "none"
  /\ IF connected
       THEN Enter("dial")
       ELSE Goto(Owner, "dial") /\ UNCHANGED <<ret, running, connected>>
  /\ UNCHANGED <<fd, own, up, buffer, calls, aborted>>

\* The name is not resolved, or no address answers in time.
DialFailed ==
  /\ pc[Owner] = "dial"
  /\ fd' \in {fd, NoFd}
  /\ Goto(Owner, "idle")
  /\ UNCHANGED <<ret, running, connected, own, up, buffer, calls, aborted>>

Dial ==
  /\ pc[Owner] = "dial" /\ Free # {}
  /\ fd' = Lowest /\ own' = [own EXCEPT ![Lowest] = "ours"] /\ up' = TRUE
  /\ connected' = TRUE /\ running' = TRUE
  /\ Goto(Owner, "spawn")
  /\ UNCHANGED <<ret, buffer, calls, aborted>>

\* Assigning to a thread that is joinable terminates the process.
Spawn ==
  /\ pc[Owner] = "spawn"
  /\ IF pc[Reader] = "none"
       THEN /\ pc' = [pc EXCEPT ![Reader] = "check", ![Owner] = "idle"]
            /\ untold' = untold + 1 /\ UNCHANGED aborted
       ELSE aborted' = TRUE /\ UNCHANGED <<pc, untold>>
  /\ UNCHANGED <<ret, running, connected, fd, own, up, buffer, mutex, cb, using>>

--------------------------------------------------------------------------------
(* readLoop()                                                                   *)

Check ==
  /\ pc[Reader] = "check"
  /\ Goto(Reader, IF running THEN "call" ELSE "exit")
  /\ UNCHANGED <<ret, running, connected, fd, own, up, buffer, calls, aborted>>

\* recv() of m_fd as it is now: the client's connection, a descriptor of others that has
\* taken its number, or an error if the number is closed, or -1.
CallRecv ==
  /\ pc[Reader] = "call"
  /\ Goto(Reader, [free |-> "exit", ours |-> "recv", foreign |-> "recv_other"]
                    [IF fd = NoFd THEN "free" ELSE own[fd]])
  /\ UNCHANGED <<ret, running, connected, fd, own, up, buffer, calls, aborted>>

\* A wrong variant: the end of the stream is taken for no data.
RecvEndRetried ==
  /\ pc[Reader] = "recv" /\ ~up
  /\ Goto(Reader, "check")
  /\ UNCHANGED <<ret, running, connected, fd, own, up, buffer, calls, aborted>>

RecvEnd ==
  /\ pc[Reader] = "recv" /\ ~up
  /\ Goto(Reader, "exit")
  /\ UNCHANGED <<ret, running, connected, fd, own, up, buffer, calls, aborted>>

\* What others have opened fails, if it ever does that.
RecvOtherFails ==
  /\ pc[Reader] = "recv_other"
  /\ Goto(Reader, "exit")
  /\ UNCHANGED <<ret, running, connected, fd, own, up, buffer, calls, aborted>>

\* There are bytes for recv() to return.
HasData == (pc[Reader] = "recv" /\ up) \/ pc[Reader] = "recv_other"

\* A wrong variant: the line buffer grows past its limit by one read.
RecvDataUncapped ==
  /\ HasData
  /\ \/ reads' = reads + 1 /\ lines' = 0
     \/ reads' \in {0, 1} /\ lines' \in 1..MaxLines
  /\ Goto(Reader, "lines")
  /\ UNCHANGED <<ret, running, connected, fd, own, up, calls, aborted>>

\* Data that fits goes on to the unfinished line, or ends it and leaves at most a
\* part of itself after its last line.
RecvData ==
  /\ HasData /\ reads < MaxReads
  /\ \/ reads' = reads + 1 /\ lines' = 0
     \/ reads' \in {0, 1} /\ lines' \in 1..MaxLines
  /\ Goto(Reader, "lines")
  /\ UNCHANGED <<ret, running, connected, fd, own, up, calls, aborted>>

\* Data that does not fit: the buffer is cleared and the thread ends, with the socket
\* open and m_running set.
Overflow ==
  /\ HasData /\ reads = MaxReads
  /\ reads' = 0 /\ lines' = 0
  /\ connected' = FALSE
  /\ Goto(Reader, "end")
  /\ UNCHANGED <<ret, running, fd, own, up, calls, aborted>>

\* The next line: a spot, or anything else.
TakeLine ==
  /\ pc[Reader] = "lines"
  /\ IF lines = 0
       THEN Goto(Reader, "check") /\ UNCHANGED lines
       ELSE /\ lines' = lines - 1
            /\ \E next \in {"spot", "lines"} : Goto(Reader, next)
  /\ UNCHANGED <<ret, running, connected, fd, own, up, reads, calls, aborted>>

Exit ==
  /\ pc[Reader] = "exit"
  /\ connected' = FALSE
  /\ Goto(Reader, "end")
  /\ UNCHANGED <<ret, running, fd, own, up, buffer, calls, aborted>>

--------------------------------------------------------------------------------
(* The callbacks, under m_cbMutex                                               *)

\* A wrong variant: the callback is copied under the lock and runs without it.
CallBackCopy(k) ==
  /\ pc[Reader] = k /\ mutex = Nobody
  /\ using' = cb[k]
  /\ untold' = IF k = "end" THEN untold - 1 ELSE untold
  /\ Goto(Reader, IF k = "end" THEN "in_end" ELSE "in_spot")
  /\ UNCHANGED <<ret, running, connected, fd, own, up, buffer, mutex, cb, aborted>>

CallBack(k) ==
  /\ pc[Reader] = k /\ mutex = Nobody
  /\ mutex' = Reader /\ using' = cb[k]
  /\ untold' = IF k = "end" THEN untold - 1 ELSE untold
  /\ Goto(Reader, IF k = "end" THEN "in_end" ELSE "in_spot")
  /\ UNCHANGED <<ret, running, connected, fd, own, up, buffer, cb, aborted>>

Return ==
  /\ pc[Reader] \in {"in_spot", "in_end"}
  /\ mutex' = Nobody /\ using' = Nobody
  /\ Goto(Reader, IF pc[Reader] = "in_end" THEN "done" ELSE "lines")
  /\ UNCHANGED <<ret, running, connected, fd, own, up, buffer, cb, untold, aborted>>

\* setSpotCallback() and setDisconnectCallback(), of any thread.
SetCallback(k, c) ==
  /\ mutex = Nobody
  /\ cb' = [cb EXCEPT ![k] = c]
  /\ UNCHANGED <<pc, ret, running, connected, fd, own, up, buffer, mutex, using, untold, aborted>>

--------------------------------------------------------------------------------
(* The cluster and the rest of the process                                      *)

PeerLost ==
  /\ up /\ up' = FALSE
  /\ UNCHANGED <<pc, ret, running, connected, fd, own, buffer, calls, aborted>>

ForeignOpens ==
  /\ Free # {} /\ own' = [own EXCEPT ![Lowest] = "foreign"]
  /\ UNCHANGED <<pc, ret, running, connected, fd, up, buffer, calls, aborted>>

ForeignCloses ==
  /\ \E f \in Fds : own[f] = "foreign" /\ own' = [own EXCEPT ![f] = "free"]
  /\ UNCHANGED <<pc, ret, running, connected, fd, up, buffer, calls, aborted>>

Calling == ShutDown \/ Close \/ ClearFd \/ Join \/ DialFailed \/ Dial \/ Spawn
Reading == Check \/ CallRecv \/ RecvEnd \/ TakeLine \/ Exit \/ Return
             \/ \E k \in {"spot", "end"} : CallBack(k)

Next ==
  /\ ~aborted
  /\ \/ Connect \/ Disconnect \/ Calling \/ Reading \/ RecvData \/ Overflow
     \/ \E k \in {"spot", "end"}, c \in Listeners \cup {Nobody} : SetCallback(k, c)
     \/ RecvOtherFails \/ PeerLost \/ ForeignOpens \/ ForeignCloses

\* Threads are scheduled, poll() has a timeout and callbacks return.  m_cbMutex is held
\* by the reader or for one assignment: whoever waits for it gets it.  Nothing is
\* certain to end a recv() from a descriptor of others.
Fairness == WF_vars(Calling) /\ WF_vars(Reading)

Spec == Init /\ [][Next]_vars /\ Fairness

--------------------------------------------------------------------------------
(* Properties                                                                   *)

\* Types, and the limit of the line buffer.
TypeOK ==
  /\ pc[Owner] \in {"idle", "shut", "close", "clear", "join", "dial", "spawn"}
  /\ pc[Reader] \in {"none", "check", "call", "recv", "recv_other", "lines", "spot",
                     "in_spot", "exit", "end", "in_end", "done"}
  /\ ret \in {"idle", "dial"} /\ {running, connected, up, aborted} \subseteq BOOLEAN
  /\ fd \in Fds \cup {NoFd} /\ own \in [Fds -> {"free", "ours", "foreign"}]
  /\ reads \in 0..MaxReads /\ lines \in 0..MaxLines
  /\ mutex \in {Nobody, Reader}
  /\ cb \in [{"spot", "end"} -> Listeners \cup {Nobody}]
  /\ using \in Listeners \cup {Nobody} /\ untold \in Nat

\* What a listener may rely on: a callback that runs is the one that is registered, so
\* that setSpotCallback() returns when the old one is done with; every connection,
\* lost, overflowed or closed, ends in one notification, at the latest when
\* disconnect() returns.
ListenersInformed ==
  /\ pc[Reader] = "in_spot" => using = cb["spot"]
  /\ pc[Reader] = "in_end" => using = cb["end"]
  /\ untold = IF pc[Reader] \in {"none", "in_end", "done"} THEN 0 ELSE 1

\* A connection starts from nothing of the one before: no thread that is joinable, no
\* half of a line, and m_fd a descriptor of its own, the only one of the client.
StartsAfresh ==
  /\ ~aborted
  /\ pc[Owner] = "spawn" =>
       /\ pc[Reader] = "none" /\ reads = 0 /\ lines = 0
       /\ \A f \in Fds : own[f] = "ours" <=> f = fd

\* disconnect(), also of a client that is disconnected already, closes no descriptor
\* that others have opened meanwhile.
ClosesItsOwn ==
  [][\A f \in Fds : own[f] = "foreign" /\ own'[f] # "foreign" => ForeignCloses]_vars

\* Nothing hangs: connect() and disconnect() return, and the end of a stream is noticed
\* and notified, unless the read thread has got hold of a descriptor of others, which
\* disconnect() does not shut down.
NothingHangs ==
  /\ pc[Owner] # "idle" ~> pc[Owner] = "idle" \/ pc[Reader] = "recv_other"
  /\ pc[Reader] # "none" /\ ~up ~> untold = 0 \/ pc[Reader] = "recv_other"
================================================================================
