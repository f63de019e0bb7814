--------------------------- MODULE TcpSessionProofs ----------------------------
(* What holds of TcpSession for every set of readers, senders and descriptors.  *)
EXTENDS TcpSession, TLAPS

\* A read thread that may still touch the socket or m_connected.
Active(r) == pc[r] \in {"check", "recv", "feed", "exit"}

\* The owner's view of the read thread.  The last two parts are the heart of it:
\* a false m_readLoopRunning means no thread is left to join, and a false
\* m_connected means that no read thread will use m_fd again.
HandleInv ==
  \A r \in Readers : pc[r] # "none" <=> readThread = r

OwnerInv(o) ==
  /\ pc[o] = "tcp_spawn" => readThread = NoThread /\ loopRunning
  /\ pc[o] = "tcp_join" => readThread # NoThread
  /\ pc[o] = "tcp_close" => readThread = NoThread
  /\ pc[o] \in {"tcp_start", "tcp_spawn"} => ret[o] = "idle"
  /\ pc[o] \in {"tcp_dial", "tcp_handshake", "tcp_ok", "tcp_start", "tcp_spawn"} =>
       \A r \in Readers : ~Active(r)
  /\ pc[o] \in {"tcp_ok", "tcp_start", "tcp_spawn"} => connected
  /\ pc[o] \in {"tcp_dial", "tcp_handshake"} => ~connected
  /\ ~loopRunning /\ pc[o] # "tcp_join" => readThread = NoThread
  /\ pc[o] = "off" => fd = NoFd /\ ~connected /\ readThread = NoThread

SocketInv ==
  /\ fd # NoFd => sock[fd] # "free"
  /\ \A r \in Readers : Active(r) => connected
  /\ CloseAfterJoin

IInv == ~aborted /\ HandleInv /\ SocketInv /\ \A o \in Owners : OwnerInv(o)

--------------------------------------------------------------------------------
\* The steps of one owner, of one reader and of one sender, as one set of actions.
OwnerNext(o) == OwnerStep(o) \/ Open(o) \/ Start(o) \/ Fail(o) \/ Close(o)

LEMMA NextCases ==
  ASSUME Next
  PROVE  \/ \E o \in Owners : OwnerNext(o)
         \/ \E r \in Readers : Reader(r)
         \/ \E t \in Senders : SenderStep(t)
         \/ \E s \in Sockets : PeerLost(s)
  BY DEF Next, OwnerNext

\* Where a thread goes is where a thread of its kind may be.
LEMMA GotoOwner ==
  ASSUME PcOK, NEW o \in Owners, NEW l \in OwnerLabels, Goto(o, l)
  PROVE  PcOK'
  BY DistinctIds DEF PcOK, Goto, Threads

LEMMA GotoReader ==
  ASSUME PcOK, NEW r \in Readers, NEW l \in ReaderLabels, Goto(r, l)
  PROVE  PcOK'
  BY DistinctIds DEF PcOK, Goto, Threads

LEMMA GotoSender ==
  ASSUME PcOK, NEW t \in Senders, NEW l \in SenderLabels, Goto(t, l)
  PROVE  PcOK'
  BY DistinctIds DEF PcOK, Goto, Threads

\* An owner and a read thread move together when one creates or joins the other.
LEMMA GotoBoth ==
  ASSUME PcOK, NEW o \in Owners, NEW l \in OwnerLabels,
         NEW r \in Readers, NEW m \in ReaderLabels,
         pc' = [pc EXCEPT ![r] = m, ![o] = l]
  PROVE  PcOK'
  BY DistinctIds DEF PcOK, Threads

LEMMA PcStay == PcOK /\ UNCHANGED pc => PcOK'
  BY DEF PcOK

\* A return address is a place an owner may be.
LEMMA ReturnLabels ==
  ASSUME ClientOK, NEW o \in Owners
  PROVE  ret[o] \in OwnerLabels /\ sret[o] \in OwnerLabels
  BY DEF ClientOK, OwnerLabels

\* Every step of an owner keeps every variable in its type.
LEMMA OwnerType ==
  ASSUME TypeOK, NEW o \in Owners, OwnerNext(o)
  PROVE  TypeOK'
<1>1. PcOK /\ ClientOK
  BY DEF TypeOK
<1>2. OwnerLabels = {"off", "idle", "tcp_connect", "tcp_dial", "tcp_handshake", "tcp_ok",
        "tcp_failed", "tcp_start", "tcp_spawn", "tcp_stop", "tcp_join", "tcp_close"}
  BY DEF OwnerLabels
<1>3. ret[o] \in OwnerLabels /\ sret[o] \in OwnerLabels
  BY <1>1, ReturnLabels
<1>pc. PcOK'
  <2>1. CASE ConnectCheck(o)
    BY <1>1, <1>2, <2>1, GotoOwner DEF ConnectCheck, EnterDisconnect
  <2>2. CASE Established(o)   BY <1>1, <1>2, <2>2, GotoOwner DEF Established
  <2>3. CASE DialFailed(o)    BY <1>1, <1>2, <2>3, GotoOwner DEF DialFailed
  <2>4. CASE HandshakeOk(o)   BY <1>1, <1>2, <2>4, GotoOwner DEF HandshakeOk
  <2>5. CASE HandshakeFailed(o) BY <1>1, <1>2, <2>5, GotoOwner DEF HandshakeFailed
  <2>6. CASE StartReadLoop(o) BY <1>1, <1>2, <1>3, <2>6, GotoOwner DEF StartReadLoop
  <2>7. CASE SpawnReader(o)
    <3>1. CASE readThread # NoThread  BY <1>1, <2>7, <3>1, PcStay DEF SpawnReader
    <3>2. CASE readThread = NoThread
      BY <1>1, <1>3, <2>7, <3>2, GotoBoth DEF SpawnReader, ReaderLabels
    <3> QED BY <3>1, <3>2
  <2>8. CASE StopReadLoop(o)  BY <1>1, <1>2, <1>3, <2>8, GotoOwner DEF StopReadLoop
  <2>9. CASE JoinReader(o)
    <3>1. CASE readThread = NoThread  BY <1>1, <2>9, <3>1, PcStay DEF JoinReader
    <3>2. CASE readThread # NoThread
      <4>1. readThread \in Readers  BY <1>1, <3>2 DEF ClientOK
      <4>2. "none" \in ReaderLabels BY DEF ReaderLabels
      <4> QED BY <1>1, <1>3, <2>9, <3>2, <4>1, <4>2, GotoBoth DEF JoinReader
    <3> QED BY <3>1, <3>2
  <2>10. CASE CloseSocket(o)  BY <1>1, <1>3, <2>10, GotoOwner DEF CloseSocket
  <2>11. CASE Open(o)   BY <1>1, <1>2, <2>11, GotoOwner DEF Open, CallConnect
  <2>12. CASE Start(o)  BY <1>1, <1>2, <2>12, GotoOwner DEF Start, CallStartReadLoop
  <2>13. CASE Fail(o)   BY <1>1, <1>2, <2>13, GotoOwner DEF Fail
  <2>14. CASE Close(o)
    BY <1>1, <1>2, <2>14, GotoOwner DEF Close, CallDisconnect, EnterDisconnect
  <2> QED BY <2>1, <2>2, <2>3, <2>4, <2>5, <2>6, <2>7, <2>8, <2>9, <2>10,
             <2>11, <2>12, <2>13, <2>14 DEF OwnerNext, OwnerStep
<1>data. ClientOK'
  <2> USE <1>1 DEF ClientOK, shared
  <2>1. CASE ConnectCheck(o)  BY <2>1 DEF ConnectCheck, EnterDisconnect
  <2>2. CASE Established(o)
    <3>1. useTls' \in BOOLEAN  BY <2>2, DistinctIds DEF Established
    <3> QED BY <2>2, <3>1 DEF Established
  <2>3. CASE DialFailed(o)    BY <2>3, DistinctIds DEF DialFailed
  <2>4. CASE HandshakeOk(o)   BY <2>4 DEF HandshakeOk
  <2>5. CASE HandshakeFailed(o) BY <2>5 DEF HandshakeFailed, Release
  <2>6. CASE StartReadLoop(o) BY <2>6 DEF StartReadLoop
  <2>7. CASE SpawnReader(o)   BY <2>7 DEF SpawnReader
  <2>8. CASE StopReadLoop(o)  BY <2>8 DEF StopReadLoop, ShutdownRead
  <2>9. CASE JoinReader(o)    BY <2>9 DEF JoinReader
  <2>10. CASE CloseSocket(o)  BY <2>10 DEF CloseSocket, Release
  <2>11. CASE Open(o)   BY <2>11 DEF Open, CallConnect
  <2>12. CASE Start(o)  BY <2>12 DEF Start, CallStartReadLoop
  <2>13. CASE Fail(o)   BY <2>13 DEF Fail
  <2>14. CASE Close(o)  BY <2>14 DEF Close, CallDisconnect, EnterDisconnect
  <2> QED BY <2>1, <2>2, <2>3, <2>4, <2>5, <2>6, <2>7, <2>8, <2>9, <2>10,
             <2>11, <2>12, <2>13, <2>14 DEF OwnerNext, OwnerStep
<1> QED BY <1>pc, <1>data DEF TypeOK

LEMMA TypeStep == TypeOK /\ [Next]_vars => TypeOK'
<1> SUFFICES ASSUME TypeOK, [Next]_vars PROVE TypeOK'
  OBVIOUS
<1>0. PcOK /\ ClientOK
  BY DEF TypeOK
<1>1. ASSUME NEW o \in Owners, OwnerNext(o) PROVE TypeOK'
  BY <1>1, OwnerType
<1>2. ASSUME NEW r \in Readers, Reader(r) PROVE TypeOK'
  <2>1. PcOK'
    BY <1>0, <1>2, GotoReader DEF Reader, ReaderStep, ReadCheck, ReadData, ReadEof,
       ReadTlsError, ReadExit, DataCallback, DisconnectCallback, ReaderLabels
  <2>2. ClientOK'
    BY <1>0, <1>2 DEF ClientOK, shared, Reader, ReaderStep, ReadCheck, ReadData, ReadEof,
       ReadTlsError, ReadExit, DataCallback, DisconnectCallback
  <2> QED BY <2>1, <2>2 DEF TypeOK
<1>3. ASSUME NEW t \in Senders, SenderStep(t) PROVE TypeOK'
  <2>1. PcOK'
    BY <1>0, <1>3, GotoSender
       DEF SenderStep, CallSend, SendCheck, SendBegin, SendEnd, SenderLabels
  <2>2. ClientOK'
    BY <1>0, <1>3 DEF ClientOK, shared, SenderStep, CallSend, SendCheck, SendBegin, SendEnd
  <2> QED BY <2>1, <2>2 DEF TypeOK
<1>4. ASSUME NEW s \in Sockets, PeerLost(s) PROVE TypeOK'
  BY <1>4 DEF PeerLost, TypeOK, PcOK, ClientOK
<1>5. CASE UNCHANGED vars
  BY <1>5 DEF vars, shared, TypeOK, PcOK, ClientOK
<1> QED BY <1>1, <1>2, <1>3, <1>4, <1>5, NextCases

\* TcpClient keeps every variable in its type, for any number of owners that
\* follow the header's call order.
THEOREM TypeCorrect == Spec => []TypeOK
<1>1. Init => TypeOK
  <2> SUFFICES ASSUME Init PROVE PcOK /\ ClientOK
    BY DEF TypeOK
  <2>1. /\ \A o \in Owners : pc[o] = "off"
        /\ \A r \in Readers : pc[r] = "none"
        /\ \A t \in Senders : pc[t] = "idle"
    BY DistinctIds DEF Init, Threads
  <2>2. pc \in [Threads -> {"off", "none", "idle"}]
    BY DEF Init
  <2>3. PcOK
    BY <2>1, <2>2 DEF PcOK, OwnerLabels, ReaderLabels, SenderLabels
  <2>4. ClientOK
    BY DEF Init, SharedInit, ClientOK
  <2> QED BY <2>3, <2>4
<1>2. QED BY <1>1, TypeStep, PTL DEF Spec
--------------------------------------------------------------------------------
\* With one owner, every step keeps the inductive invariant.
LEMMA SafetyStep ==
  ASSUME NEW o \in Owners, Owners = {o}, TypeOK, IInv, [Next]_vars
  PROVE  IInv'
<1> USE DistinctIds
<1>0. PcOK /\ ClientOK /\ OwnerInv(o)
  BY DEF TypeOK, IInv
<1>a. ASSUME ~aborted', HandleInv', SocketInv', OwnerInv(o)' PROVE IInv'
  BY <1>a DEF IInv
<1>1. ASSUME ConnectCheck(o) PROVE IInv'
  <2> USE <1>0, <1>1 DEF IInv, ConnectCheck, EnterDisconnect, Goto, shared, Threads
  <2>1. ~aborted'  BY DEF OwnerInv
  <2>2. HandleInv' BY DEF HandleInv, OwnerInv, PcOK, ClientOK
  <2>3. SocketInv' BY DEF SocketInv, CloseAfterJoin, Active, HandleInv, OwnerInv, PcOK, ClientOK
  <2>4. OwnerInv(o)' BY DEF OwnerInv, HandleInv, SocketInv, Active, PcOK, ClientOK
  <2> QED BY <1>a, <2>1, <2>2, <2>3, <2>4
<1>2. ASSUME Established(o) PROVE IInv'
  <2> USE <1>0, <1>2 DEF IInv, Established, Goto, shared, Threads
  <2>1. ~aborted'  BY DEF OwnerInv
  <2>2. HandleInv' BY DEF HandleInv, OwnerInv, PcOK, ClientOK
  <2>3. SocketInv' BY DEF SocketInv, CloseAfterJoin, Active, HandleInv, OwnerInv, PcOK, ClientOK
  <2>4. OwnerInv(o)' BY DEF OwnerInv, HandleInv, SocketInv, Active, PcOK, ClientOK
  <2> QED BY <1>a, <2>1, <2>2, <2>3, <2>4
<1>3. ASSUME DialFailed(o) PROVE IInv'
  <2> USE <1>0, <1>3 DEF IInv, DialFailed, Goto, shared, Threads
  <2>1. ~aborted'  BY DEF OwnerInv
  <2>2. HandleInv' BY DEF HandleInv, OwnerInv, PcOK, ClientOK
  <2>3. SocketInv' BY DEF SocketInv, CloseAfterJoin, Active, HandleInv, OwnerInv, PcOK, ClientOK
  <2>4. OwnerInv(o)' BY DEF OwnerInv, HandleInv, SocketInv, Active, PcOK, ClientOK
  <2> QED BY <1>a, <2>1, <2>2, <2>3, <2>4
<1>4. ASSUME HandshakeOk(o) PROVE IInv'
  <2> USE <1>0, <1>4 DEF IInv, HandshakeOk, Goto, shared, Threads
  <2>1. ~aborted'  BY DEF OwnerInv
  <2>2. HandleInv' BY DEF HandleInv, OwnerInv, PcOK, ClientOK
  <2>3. SocketInv' BY DEF SocketInv, CloseAfterJoin, Active, HandleInv, OwnerInv, PcOK, ClientOK
  <2>4. OwnerInv(o)' BY DEF OwnerInv, HandleInv, SocketInv, Active, PcOK, ClientOK
  <2> QED BY <1>a, <2>1, <2>2, <2>3, <2>4
<1>5. ASSUME HandshakeFailed(o) PROVE IInv'
  <2> USE <1>0, <1>5 DEF IInv, HandshakeFailed, Release, Goto, shared, Threads
  <2>1. ~aborted'  BY DEF OwnerInv
  <2>2. HandleInv' BY DEF HandleInv, OwnerInv, PcOK, ClientOK
  <2>3. SocketInv' BY DEF SocketInv, CloseAfterJoin, Active, HandleInv, OwnerInv, PcOK, ClientOK
  <2>4. OwnerInv(o)' BY DEF OwnerInv, HandleInv, SocketInv, Active, PcOK, ClientOK
  <2> QED BY <1>a, <2>1, <2>2, <2>3, <2>4
<1>6. ASSUME StartReadLoop(o) PROVE IInv'
  <2> USE <1>0, <1>6 DEF IInv, StartReadLoop, Goto, shared, Threads
  <2>1. ~aborted'  BY DEF OwnerInv
  <2>2. HandleInv' BY DEF HandleInv, OwnerInv, PcOK, ClientOK
  <2>3. SocketInv' BY DEF SocketInv, CloseAfterJoin, Active, HandleInv, OwnerInv, PcOK, ClientOK
  <2>4. OwnerInv(o)' BY DEF OwnerInv, HandleInv, SocketInv, Active, PcOK, ClientOK
  <2> QED BY <1>a, <2>1, <2>2, <2>3, <2>4
<1>7. ASSUME SpawnReader(o) PROVE IInv'
  <2> USE <1>0, <1>7 DEF IInv, SpawnReader, Goto, shared, Threads
  <2>1. ~aborted'  BY DEF OwnerInv
  <2>2. HandleInv' BY DEF HandleInv, OwnerInv, PcOK, ClientOK
  <2>3. SocketInv'
    <3>1. connected /\ connected' /\ UNCHANGED <<fd, sock, at>>
      BY DEF OwnerInv
    <3>2. PICK q \in Readers : pc' = [pc EXCEPT ![q] = "check", ![o] = ret[o]]
      BY DEF OwnerInv
    <3>3. \A r \in Readers : pc'[r] = "recv" => pc[r] = "recv"
      BY <3>2 DEF PcOK
    <3> QED BY <3>1, <3>3 DEF SocketInv, CloseAfterJoin
  <2>4. OwnerInv(o)' BY DEF OwnerInv, HandleInv, SocketInv, Active, PcOK, ClientOK
  <2> QED BY <1>a, <2>1, <2>2, <2>3, <2>4
<1>8. ASSUME StopReadLoop(o) PROVE IInv'
  <2> USE <1>0, <1>8 DEF IInv, StopReadLoop, ShutdownRead, Goto, shared, Threads
  <2>1. ~aborted'  BY DEF OwnerInv
  <2>2. HandleInv' BY DEF HandleInv, OwnerInv, PcOK, ClientOK
  <2>3. SocketInv' BY DEF SocketInv, CloseAfterJoin, Active, HandleInv, OwnerInv, PcOK, ClientOK
  <2>4. OwnerInv(o)' BY DEF OwnerInv, HandleInv, SocketInv, Active, PcOK, ClientOK
  <2> QED BY <1>a, <2>1, <2>2, <2>3, <2>4
<1>9. ASSUME JoinReader(o) PROVE IInv'
  <2> USE <1>0, <1>9 DEF IInv, JoinReader, Goto, shared, Threads
  <2>1. ~aborted'  BY DEF OwnerInv
  <2>2. HandleInv' BY DEF HandleInv, OwnerInv, PcOK, ClientOK
  <2>3. SocketInv' BY DEF SocketInv, CloseAfterJoin, Active, HandleInv, OwnerInv, PcOK, ClientOK
  <2>4. OwnerInv(o)' BY DEF OwnerInv, HandleInv, SocketInv, Active, PcOK, ClientOK
  <2> QED BY <1>a, <2>1, <2>2, <2>3, <2>4
<1>10. ASSUME CloseSocket(o) PROVE IInv'
  <2> USE <1>0, <1>10 DEF IInv, CloseSocket, Release, Goto, shared, Threads
  <2>1. ~aborted'  BY DEF OwnerInv
  <2>2. HandleInv' BY DEF HandleInv, OwnerInv, PcOK, ClientOK
  <2>3. SocketInv' BY DEF SocketInv, CloseAfterJoin, Active, HandleInv, OwnerInv, PcOK, ClientOK
  <2>4. OwnerInv(o)' BY DEF OwnerInv, HandleInv, SocketInv, Active, PcOK, ClientOK
  <2> QED BY <1>a, <2>1, <2>2, <2>3, <2>4
<1>11. ASSUME Open(o) PROVE IInv'
  <2> USE <1>0, <1>11 DEF IInv, Open, CallConnect, Goto, shared, Threads
  <2>1. ~aborted'  BY DEF OwnerInv
  <2>2. HandleInv' BY DEF HandleInv, OwnerInv, PcOK, ClientOK
  <2>3. SocketInv' BY DEF SocketInv, CloseAfterJoin, Active, HandleInv, OwnerInv, PcOK, ClientOK
  <2>4. OwnerInv(o)' BY DEF OwnerInv, HandleInv, SocketInv, Active, PcOK, ClientOK
  <2> QED BY <1>a, <2>1, <2>2, <2>3, <2>4
<1>12. ASSUME Start(o) PROVE IInv'
  <2> USE <1>0, <1>12 DEF IInv, Start, CallStartReadLoop, Goto, shared, Threads
  <2>1. ~aborted'  BY DEF OwnerInv
  <2>2. HandleInv' BY DEF HandleInv, OwnerInv, PcOK, ClientOK
  <2>3. SocketInv' BY DEF SocketInv, CloseAfterJoin, Active, HandleInv, OwnerInv, PcOK, ClientOK
  <2>4. OwnerInv(o)' BY DEF OwnerInv, HandleInv, SocketInv, Active, PcOK, ClientOK
  <2> QED BY <1>a, <2>1, <2>2, <2>3, <2>4
<1>13. ASSUME Fail(o) PROVE IInv'
  <2> USE <1>0, <1>13 DEF IInv, Fail, Goto, shared, Threads
  <2>1. ~aborted'  BY DEF OwnerInv
  <2>2. HandleInv' BY DEF HandleInv, OwnerInv, PcOK, ClientOK
  <2>3. SocketInv' BY DEF SocketInv, CloseAfterJoin, Active, HandleInv, OwnerInv, PcOK, ClientOK
  <2>4. OwnerInv(o)' BY DEF OwnerInv, HandleInv, SocketInv, Active, PcOK, ClientOK
  <2> QED BY <1>a, <2>1, <2>2, <2>3, <2>4
<1>14. ASSUME Close(o) PROVE IInv'
  <2> USE <1>0, <1>14 DEF IInv, Close, CallDisconnect, EnterDisconnect, Goto, shared, Threads
  <2>1. ~aborted'  BY DEF OwnerInv
  <2>2. HandleInv' BY DEF HandleInv, OwnerInv, PcOK, ClientOK
  <2>3. SocketInv' BY DEF SocketInv, CloseAfterJoin, Active, HandleInv, OwnerInv, PcOK, ClientOK
  <2>4. OwnerInv(o)' BY DEF OwnerInv, HandleInv, SocketInv, Active, PcOK, ClientOK
  <2> QED BY <1>a, <2>1, <2>2, <2>3, <2>4
<1>15. ASSUME NEW r \in Readers, ReadCheck(r) PROVE IInv'
  <2> USE <1>0, <1>15 DEF IInv, ReadCheck, Goto, shared, Threads
  <2>1. ~aborted'  BY DEF OwnerInv
  <2>2. HandleInv' BY DEF HandleInv, OwnerInv, PcOK, ClientOK
  <2>3. SocketInv' BY DEF SocketInv, CloseAfterJoin, Active, HandleInv, OwnerInv, PcOK, ClientOK
  <2>4. OwnerInv(o)' BY DEF OwnerInv, HandleInv, SocketInv, Active, PcOK, ClientOK
  <2> QED BY <1>a, <2>1, <2>2, <2>3, <2>4
<1>16. ASSUME NEW r \in Readers, ReadData(r) PROVE IInv'
  <2> USE <1>0, <1>16 DEF IInv, ReadData, Goto, shared, Threads
  <2>1. ~aborted'  BY DEF OwnerInv
  <2>2. HandleInv' BY DEF HandleInv, OwnerInv, PcOK, ClientOK
  <2>3. SocketInv' BY DEF SocketInv, CloseAfterJoin, Active, HandleInv, OwnerInv, PcOK, ClientOK
  <2>4. OwnerInv(o)' BY DEF OwnerInv, HandleInv, SocketInv, Active, PcOK, ClientOK
  <2> QED BY <1>a, <2>1, <2>2, <2>3, <2>4
<1>17. ASSUME NEW r \in Readers, ReadEof(r) PROVE IInv'
  <2> USE <1>0, <1>17 DEF IInv, ReadEof, Goto, shared, Threads
  <2>1. ~aborted'  BY DEF OwnerInv
  <2>2. HandleInv' BY DEF HandleInv, OwnerInv, PcOK, ClientOK
  <2>3. SocketInv' BY DEF SocketInv, CloseAfterJoin, Active, HandleInv, OwnerInv, PcOK, ClientOK
  <2>4. OwnerInv(o)' BY DEF OwnerInv, HandleInv, SocketInv, Active, PcOK, ClientOK
  <2> QED BY <1>a, <2>1, <2>2, <2>3, <2>4
<1>18. ASSUME NEW r \in Readers, ReadTlsError(r) PROVE IInv'
  <2> USE <1>0, <1>18 DEF IInv, ReadTlsError, Goto, shared, Threads
  <2>1. ~aborted'  BY DEF OwnerInv
  <2>2. HandleInv' BY DEF HandleInv, OwnerInv, PcOK, ClientOK
  <2>3. SocketInv' BY DEF SocketInv, CloseAfterJoin, Active, HandleInv, OwnerInv, PcOK, ClientOK
  <2>4. OwnerInv(o)' BY DEF OwnerInv, HandleInv, SocketInv, Active, PcOK, ClientOK
  <2> QED BY <1>a, <2>1, <2>2, <2>3, <2>4
<1>19. ASSUME NEW r \in Readers, ReadExit(r) PROVE IInv'
  <2> USE <1>0, <1>19 DEF IInv, ReadExit, Goto, shared, Threads
  <2>1. ~aborted'  BY DEF OwnerInv
  <2>2. HandleInv' BY DEF HandleInv, OwnerInv, PcOK, ClientOK
  <2>3. SocketInv' BY DEF SocketInv, CloseAfterJoin, Active, HandleInv, OwnerInv, PcOK, ClientOK
  <2>4. OwnerInv(o)' BY DEF OwnerInv, HandleInv, SocketInv, Active, PcOK, ClientOK
  <2> QED BY <1>a, <2>1, <2>2, <2>3, <2>4
<1>20. ASSUME NEW r \in Readers, DataCallback(r) PROVE IInv'
  <2> USE <1>0, <1>20 DEF IInv, DataCallback, Goto, shared, Threads
  <2>1. ~aborted'  BY DEF OwnerInv
  <2>2. HandleInv' BY DEF HandleInv, OwnerInv, PcOK, ClientOK
  <2>3. SocketInv' BY DEF SocketInv, CloseAfterJoin, Active, HandleInv, OwnerInv, PcOK, ClientOK
  <2>4. OwnerInv(o)' BY DEF OwnerInv, HandleInv, SocketInv, Active, PcOK, ClientOK
  <2> QED BY <1>a, <2>1, <2>2, <2>3, <2>4
<1>21. ASSUME NEW r \in Readers, DisconnectCallback(r) PROVE IInv'
  <2> USE <1>0, <1>21 DEF IInv, DisconnectCallback, Goto, shared, Threads
  <2>1. ~aborted'  BY DEF OwnerInv
  <2>2. HandleInv' BY DEF HandleInv, OwnerInv, PcOK, ClientOK
  <2>3. SocketInv' BY DEF SocketInv, CloseAfterJoin, Active, HandleInv, OwnerInv, PcOK, ClientOK
  <2>4. OwnerInv(o)' BY DEF OwnerInv, HandleInv, SocketInv, Active, PcOK, ClientOK
  <2> QED BY <1>a, <2>1, <2>2, <2>3, <2>4
<1>22. ASSUME NEW t \in Senders, SenderStep(t) PROVE IInv'
  <2> USE <1>0, <1>22 DEF IInv, SenderStep, CallSend, SendCheck, SendBegin, SendEnd, Goto, shared, Threads
  <2>1. ~aborted'  BY DEF OwnerInv
  <2>2. HandleInv' BY DEF HandleInv, OwnerInv, PcOK, ClientOK
  <2>3. SocketInv' BY DEF SocketInv, CloseAfterJoin, Active, HandleInv, OwnerInv, PcOK, ClientOK
  <2>4. OwnerInv(o)' BY DEF OwnerInv, HandleInv, SocketInv, Active, PcOK, ClientOK
  <2> QED BY <1>a, <2>1, <2>2, <2>3, <2>4
<1>23. ASSUME NEW s \in Sockets, PeerLost(s) PROVE IInv'
  <2> USE <1>0, <1>23 DEF IInv, PeerLost, Goto, shared, Threads
  <2>1. ~aborted'  BY DEF OwnerInv
  <2>2. HandleInv' BY DEF HandleInv, OwnerInv, PcOK, ClientOK
  <2>3. SocketInv' BY DEF SocketInv, CloseAfterJoin, Active, HandleInv, OwnerInv, PcOK, ClientOK
  <2>4. OwnerInv(o)' BY DEF OwnerInv, HandleInv, SocketInv, Active, PcOK, ClientOK
  <2> QED BY <1>a, <2>1, <2>2, <2>3, <2>4
<1>24. CASE UNCHANGED vars
  BY <1>24 DEF vars, shared, IInv, HandleInv, SocketInv, CloseAfterJoin, Active, OwnerInv
<1> QED
  BY NextCases, <1>1, <1>2, <1>3, <1>4, <1>5, <1>6, <1>7, <1>8, <1>9, <1>10, <1>11, <1>12, <1>13, <1>14, <1>15, <1>16, <1>17, <1>18, <1>19, <1>20, <1>21, <1>22, <1>23, <1>24
     DEF OwnerNext, OwnerStep, Reader, ReaderStep

\* The safety of a session with one owner: no terminate, no descriptor closed
\* under a blocked recv(), and nothing left over once disconnect() has returned.
THEOREM SessionSafety ==
  ASSUME NEW o \in Owners, Owners = {o}
  PROVE  Spec => [](ClientIsSafe /\ OffMeansOff)
<1>1. Init => IInv
  <2> SUFFICES ASSUME Init PROVE IInv
    OBVIOUS
  <2>1. /\ pc[o] = "off"
        /\ \A r \in Readers : pc[r] = "none"
    BY DistinctIds DEF Init, Threads
  <2> QED BY <2>1, DistinctIds DEF Init, SharedInit, IInv, HandleInv, SocketInv,
             CloseAfterJoin, Active, OwnerInv
<1>2. TypeOK /\ IInv /\ [Next]_vars => IInv'
  BY SafetyStep
<1>3. IInv => ClientIsSafe /\ OffMeansOff
  BY DistinctIds DEF IInv, HandleInv, SocketInv, OwnerInv, ClientIsSafe, OffMeansOff
<1> QED BY <1>1, <1>2, <1>3, TypeCorrect, PTL DEF Spec

\* With one owner, nothing is left of a session once disconnect() has returned.
THEOREM OffMeansOffAlways ==
  ASSUME NEW o \in Owners, Owners = {o}
  PROVE  Spec => []OffMeansOff
BY SessionSafety, PTL
================================================================================
