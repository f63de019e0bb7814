------------------------ MODULE EngineConnectionProofs ------------------------
(* Any number of callers, threads and sockets.  With callers that call at any   *)
(* moment: types, and that only connect() starts to dial.  With patient ones:   *)
(* all safety properties, the error callback's too, and the delays that are     *)
(* slept.  For every two delays: how the policy backs off.                      *)
EXTENDS EngineConnection, TLAPS, WellFoundedInduction

Labels == CallerLabels \cup ReadLabels \cup ReconnectLabels

\* Where a thread is, and where it returns to; a caller that closes the socket has come
\* there through disconnect(), which has set both of its returns.
LabelInv ==
  /\ pc \in [Threads -> Labels]
  /\ ret \in [Owners -> {"idle", "none", "tcp_dial", "d_done", "x_done"}]
  /\ sret \in [Owners -> {"tcp_close", "d_close", "x_close"}]
  /\ \A o \in Owners : pc[o] = "tcp_close" => sret[o] = "tcp_close"

--------------------------------------------------------------------------------
LEMMA InitLabels == Init => LabelInv
BY EngineThreads DEF Init, LabelInv, Labels, CallerLabels, ReadLabels, TcpLabels,
    ReconnectLabels, Threads

\* Threads of the three kinds are distinct.
LEMMA Kinds ==
  /\ \A u \in Callers : u \in Owners /\ u \in Threads /\ u \notin Readers /\ u \notin Reconnectors
  /\ \A k \in Reconnectors : k \in Owners /\ k \in Threads /\ k \notin Readers /\ k \notin Callers
  /\ \A r \in Readers : r \in Threads /\ r \notin Owners
  /\ Owners = Callers \cup Reconnectors
BY EngineThreads, DistinctIds DEF Threads

\* A thread that goes to a label, and nothing that it returns to changes.
LEMMA Goes ==
  ASSUME LabelInv, NEW t \in Threads, NEW label \in Labels, Goto(t, label),
         UNCHANGED <<ret, sret>>,
         label = "tcp_close" /\ t \in Owners => sret[t] = "tcp_close"
  PROVE  LabelInv'
BY Kinds DEF LabelInv, Goto

\* A step of TcpClient by a thread that uses it.
LEMMA OwnerLabels ==
  ASSUME LabelInv, NEW t \in Owners, OwnerStep(t)
  PROVE  LabelInv'
<1> USE Kinds DEF LabelInv, Labels, CallerLabels, ReadLabels, ReconnectLabels, TcpLabels
<1>1. CASE ConnectCheck(t)
  BY <1>1 DEF ConnectCheck, EnterDisconnect, Goto
<1>2. CASE Established(t)
  BY <1>2 DEF Established, Goto
<1>3. CASE DialFailed(t)
  BY <1>3 DEF DialFailed, Goto
<1>4. CASE HandshakeOk(t)
  BY <1>4 DEF HandshakeOk, Goto
<1>5. CASE HandshakeFailed(t)
  BY <1>5 DEF HandshakeFailed, Goto
<1>6. CASE StartReadLoop(t)
  BY <1>6 DEF StartReadLoop, Goto
<1>7. CASE SpawnReader(t)
  BY <1>7 DEF SpawnReader
<1>8. CASE StopReadLoop(t)
  BY <1>8 DEF StopReadLoop, Goto
<1>9. CASE JoinReader(t)
  BY <1>9 DEF JoinReader
<1>10. CASE CloseSocket(t)
  BY <1>10 DEF CloseSocket, Goto
<1> QED BY <1>1, <1>2, <1>3, <1>4, <1>5, <1>6, <1>7, <1>8, <1>9, <1>10 DEF OwnerStep

LEMMA NotifyLabels ==
  ASSUME LabelInv, NEW t \in Threads, Notify(t)
  PROVE  LabelInv'
<1>1. Notifications[pc[t]].next \in
        {"c_reset", "idle", "c_run", "l_detach", "k_start", "k_loop", "k_giveup", "e_failed",
         "e_gaveup"}
  BY DEF Notify, Notifications
<1> QED BY <1>1, Goes DEF Notify, Labels, CallerLabels, ReadLabels, ReconnectLabels, TcpLabels

\* One step of any thread.
LEMMA LabelStep == LabelInv /\ [Next]_allVars => LabelInv'
<1> SUFFICES ASSUME LabelInv, [Next]_allVars PROVE LabelInv'
  OBVIOUS
<1> USE Kinds DEF Labels, CallerLabels, ReadLabels, ReconnectLabels, TcpLabels
<1>1. ASSUME NEW u \in Callers, Connect(u) PROVE LabelInv'
  BY <1>1, Goes DEF Connect, SetState
<1>2. ASSUME NEW u \in Callers, Disconnect(u) PROVE LabelInv'
  BY <1>2 DEF Disconnect, CallStopReadLoop, Goto, LabelInv
<1>3. ASSUME NEW u \in Callers, Destroy(u) PROVE LabelInv'
  BY <1>3 DEF Destroy, CallStopReadLoop, Goto, LabelInv
<1>4. ASSUME NEW u \in Callers, ConnectReset(u) PROVE LabelInv'
  BY <1>4, Goes DEF ConnectReset, CallConnect
<1>5. ASSUME NEW u \in Callers, ConnectFailed(u) PROVE LabelInv'
  BY <1>5, Goes DEF ConnectFailed, SetState
<1>6. ASSUME NEW u \in Callers, ConnectOk(u) PROVE LabelInv'
  BY <1>6, Goes DEF ConnectOk, SetState
<1>7. ASSUME NEW u \in Callers, ConnectRun(u) PROVE LabelInv'
  BY <1>7 DEF ConnectRun, CallStartReadLoop, Goto, LabelInv
<1>8. ASSUME NEW u \in Callers, DisconnectClose(u) PROVE LabelInv'
  BY <1>8 DEF DisconnectClose, CallDisconnect, EnterDisconnect, Goto, LabelInv
<1>9. ASSUME NEW u \in Callers, DisconnectDone(u) PROVE LabelInv'
  BY <1>9, Goes DEF DisconnectDone, SetState
<1>10. ASSUME NEW u \in Callers, DestroyClose(u) PROVE LabelInv'
  BY <1>10 DEF DestroyClose, CallDisconnect, EnterDisconnect, Goto, LabelInv
<1>11. ASSUME NEW u \in Callers, DestroyDone(u) PROVE LabelInv'
  BY <1>11, Goes DEF DestroyDone
<1>12. ASSUME NEW r \in Readers, ReaderStep(r) PROVE LabelInv'
  BY <1>12, Goes DEF ReaderStep, ReadCheck, ReadData, ReadEof, ReadTlsError, ReadExit
<1>13. ASSUME NEW r \in Readers, Feed(r) PROVE LabelInv'
  BY <1>13, Goes DEF Feed
<1>14. ASSUME NEW r \in Readers, Lost(r) PROVE LabelInv'
  BY <1>14, Goes DEF Lost, SetState
<1>15. ASSUME NEW r \in Readers, Detach(r) PROVE LabelInv'
  BY <1>15 DEF Detach, LabelInv
<1>16. ASSUME NEW k \in Reconnectors, LoopTest(k) PROVE LabelInv'
  BY <1>16, Goes DEF LoopTest
<1>17. ASSUME NEW k \in Reconnectors, Wake(k) PROVE LabelInv'
  BY <1>17, Goes DEF Wake
<1>18. ASSUME NEW k \in Reconnectors, Redial(k) PROVE LabelInv'
  BY <1>18, Goes DEF Redial, CallConnect
<1>19. ASSUME NEW k \in Reconnectors, Redialled(k) PROVE LabelInv'
  BY <1>19, Goes DEF Redialled, SetState
<1>20. ASSUME NEW k \in Reconnectors, RedialStart(k) PROVE LabelInv'
  BY <1>20 DEF RedialStart, CallStartReadLoop, Goto, LabelInv
<1>21. ASSUME NEW k \in Reconnectors, RedialFailed(k) PROVE LabelInv'
  BY <1>21, Goes DEF RedialFailed
<1>22. ASSUME NEW k \in Reconnectors, GiveUp(k) PROVE LabelInv'
  BY <1>22, Goes DEF GiveUp, SetState
<1>23. ASSUME NEW t \in Owners, TcpStep(t) PROVE LabelInv'
  BY <1>23, OwnerLabels DEF TcpStep
<1>24. ASSUME NEW t \in Threads, Notify(t) PROVE LabelInv'
  BY <1>24, NotifyLabels
<1>25. ASSUME NEW d \in Sockets, PeerLost(d) PROVE LabelInv'
  BY <1>25 DEF PeerLost, LabelInv
<1>27. ASSUME NEW t \in Threads, NotifyError(t) PROVE LabelInv'
  BY <1>27, Goes DEF NotifyError
<1>28. ASSUME NEW t \in Threads, NotifyBlocks(t) PROVE LabelInv'
  BY <1>28 DEF NotifyBlocks, vars, LabelInv
<1>26. CASE UNCHANGED allVars
  BY <1>26 DEF allVars, vars, LabelInv
<1> QED BY <1>1, <1>2, <1>3, <1>4, <1>5, <1>6, <1>7, <1>8, <1>9, <1>10, <1>11, <1>12, <1>13,
    <1>14, <1>15, <1>16, <1>17, <1>18, <1>19, <1>20, <1>21, <1>22, <1>23, <1>24, <1>25, <1>26, <1>27, <1>28
  DEF Next, Calling, Working, Call, ReadThread, ReconnectThread

--------------------------------------------------------------------------------
(* The quiet                                                                    *)

ConnectLabels == {"n_connecting", "c_reset", "tcp_connect", "tcp_dial", "tcp_handshake",
                  "tcp_ok", "n_connected", "c_run", "tcp_start", "tcp_spawn"}
StopLabels == {"tcp_stop", "tcp_join", "tcp_close"}

\* A step that takes one thread to a label outside connect() keeps the quiet.
LEMMA QuietGoes ==
  ASSUME LabelInv, Quiet, NEW t \in Threads, NEW label \in Labels, Goto(t, label),
         ~running', UNCHANGED <<ret, sret>>,
         t \in Callers => label \notin ConnectLabels
                          /\ (label \in StopLabels => pc[t] \in StopLabels),
         t \in Reconnectors => label \in {"none", "k_loop", "k_sleep"}
  PROVE  Quiet'
BY Kinds DEF LabelInv, Goto, Quiet, Connecting, Dialling, ConnectLabels, StopLabels

\* No thread that may dial takes a step of TcpClient; what callers do in it is to stop.
LEMMA QuietOwner ==
  ASSUME LabelInv, Quiet, NEW t \in Owners, OwnerStep(t), UNCHANGED running
  PROVE  Quiet'
<1> USE Kinds DEF Quiet, Connecting, Dialling
<1>1. t \in Callers /\ pc[t] \in StopLabels
  BY DEF StopLabels, OwnerStep, ConnectCheck, Established, DialFailed, HandshakeOk,
         HandshakeFailed, StartReadLoop, SpawnReader, StopReadLoop, JoinReader, CloseSocket
<1>2. CASE StopReadLoop(t)
  BY <1>1, <1>2 DEF StopReadLoop, Goto, LabelInv
<1>3. CASE JoinReader(t)
  BY <1>1, <1>3 DEF JoinReader, LabelInv
<1>4. CASE CloseSocket(t)
  BY <1>1, <1>4 DEF CloseSocket, Goto, LabelInv
<1> QED
  BY <1>1, <1>2, <1>3, <1>4
  DEF StopLabels, OwnerStep, ConnectCheck, Established, DialFailed, HandshakeOk,
      HandshakeFailed, StartReadLoop, SpawnReader

LEMMA QuietNotify ==
  ASSUME LabelInv, Quiet, NEW t \in Threads, Notify(t)
  PROVE  Quiet'
<1>1. \/ pc[t] \in DOMAIN Notifications /\ pc[t] \notin {"n_connecting", "n_connected"}
      \/ t \notin Callers
  BY DEF Notify, Quiet, Connecting
<1>2. t \notin Reconnectors
  BY DEF Notify, Notifications, Quiet, Dialling
<1>3. Notifications[pc[t]].next \in Labels
      /\ (t \in Callers => Notifications[pc[t]].next \notin ConnectLabels \cup StopLabels)
  BY <1>1 DEF Notify, Notifications, ConnectLabels, StopLabels, Labels, CallerLabels,
              ReadLabels, ReconnectLabels
<1> QED BY <1>2, <1>3, QuietGoes DEF Notify, Quiet

\* One step of any thread.
LEMMA QuietStep == LabelInv /\ Quiet /\ [Next]_allVars => Quiet' \/ \E u \in Callers : Connect(u)
<1> SUFFICES ASSUME LabelInv, Quiet, [Next]_allVars, \A u \in Callers : ~Connect(u)
             PROVE  Quiet'
  OBVIOUS
<1> USE Kinds
<1>1. ASSUME NEW u \in Callers, Disconnect(u) PROVE Quiet'
  BY <1>1 DEF Disconnect, CallStopReadLoop, Goto, LabelInv, Quiet, Connecting, Dialling
<1>2. ASSUME NEW u \in Callers, Destroy(u) PROVE Quiet'
  BY <1>2 DEF Destroy, CallStopReadLoop, Goto, LabelInv, Quiet, Connecting, Dialling
<1>3. ASSUME NEW u \in Callers, ConnectReset(u) PROVE FALSE
  BY <1>3 DEF ConnectReset, Quiet, Connecting, Dialling
<1>4. ASSUME NEW u \in Callers, ConnectFailed(u) PROVE Quiet'
  BY <1>4, QuietGoes DEF ConnectFailed, SetState, Quiet, ConnectLabels, StopLabels, Labels,
      CallerLabels, ReadLabels, ReconnectLabels, TcpLabels
<1>5. ASSUME NEW u \in Callers, ConnectOk(u) PROVE FALSE
  BY <1>5 DEF ConnectOk, Quiet, Connecting, Dialling
<1>6. ASSUME NEW u \in Callers, ConnectRun(u) PROVE FALSE
  BY <1>6 DEF ConnectRun, Quiet, Connecting, Dialling
<1>7. ASSUME NEW u \in Callers, DisconnectClose(u) PROVE Quiet'
  BY <1>7 DEF DisconnectClose, CallDisconnect, EnterDisconnect, Goto, LabelInv, engine,
      Quiet, Connecting, Dialling
<1>8. ASSUME NEW u \in Callers, DisconnectDone(u) PROVE Quiet'
  BY <1>8, QuietGoes DEF DisconnectDone, SetState, Quiet, ConnectLabels, StopLabels, Labels,
      CallerLabels, ReadLabels, ReconnectLabels, TcpLabels
<1>9. ASSUME NEW u \in Callers, DestroyClose(u) PROVE Quiet'
  BY <1>9 DEF DestroyClose, CallDisconnect, EnterDisconnect, Goto, LabelInv, engine, Quiet,
      Connecting, Dialling
<1>10. ASSUME NEW u \in Callers, DestroyDone(u) PROVE Quiet'
  BY <1>10, QuietGoes DEF DestroyDone, Quiet, ConnectLabels, StopLabels, Labels,
      CallerLabels, ReadLabels, ReconnectLabels, TcpLabels
<1>11. ASSUME NEW r \in Readers, ReaderStep(r), UNCHANGED engine PROVE Quiet'
  BY <1>11, QuietGoes DEF ReaderStep, ReadCheck, ReadData, ReadEof, ReadTlsError, ReadExit,
      shared, engine, Quiet, ConnectLabels, StopLabels, Labels, CallerLabels, ReadLabels,
      ReconnectLabels, TcpLabels
<1>12. ASSUME NEW r \in Readers, Feed(r) PROVE Quiet'
  BY <1>12, QuietGoes DEF Feed, Quiet, ConnectLabels, StopLabels, Labels, CallerLabels,
      ReadLabels, ReconnectLabels, TcpLabels
<1>13. ASSUME NEW r \in Readers, Lost(r) PROVE Quiet'
  BY <1>13, QuietGoes DEF Lost, SetState, Quiet, ConnectLabels, StopLabels, Labels,
      CallerLabels, ReadLabels, ReconnectLabels, TcpLabels
<1>14. ASSUME NEW r \in Readers, Detach(r) PROVE Quiet'
  BY <1>14 DEF Detach, LabelInv, Quiet, Connecting, Dialling
<1>15. ASSUME NEW k \in Reconnectors, LoopTest(k) PROVE Quiet'
  BY <1>15, QuietGoes DEF LoopTest, engine, Quiet, ConnectLabels, StopLabels, Labels,
      CallerLabels, ReadLabels, ReconnectLabels, TcpLabels
<1>16. ASSUME NEW k \in Reconnectors, Wake(k) PROVE Quiet'
  BY <1>16, QuietGoes DEF Wake, engine, Quiet, ConnectLabels, StopLabels, Labels,
      CallerLabels, ReadLabels, ReconnectLabels, TcpLabels
<1>17. ASSUME NEW k \in Reconnectors, Redial(k) PROVE FALSE
  BY <1>17 DEF Redial, Quiet, Connecting, Dialling
<1>18. ASSUME NEW k \in Reconnectors, Redialled(k) PROVE FALSE
  BY <1>18 DEF Redialled, Quiet, Connecting, Dialling
<1>19. ASSUME NEW k \in Reconnectors, RedialStart(k) PROVE FALSE
  BY <1>19 DEF RedialStart, Quiet, Connecting, Dialling
<1>20. ASSUME NEW k \in Reconnectors, RedialFailed(k) PROVE FALSE
  BY <1>20 DEF RedialFailed, Quiet, Connecting, Dialling
<1>21. ASSUME NEW k \in Reconnectors, GiveUp(k) PROVE FALSE
  BY <1>21 DEF GiveUp, Quiet, Connecting, Dialling
<1>22. ASSUME NEW t \in Owners, TcpStep(t) PROVE Quiet'
  BY <1>22, QuietOwner DEF TcpStep
<1>23. ASSUME NEW t \in Threads, Notify(t) PROVE Quiet'
  BY <1>23, QuietNotify
<1>24. ASSUME NEW d \in Sockets, PeerLost(d), UNCHANGED engine PROVE Quiet'
  BY <1>24 DEF PeerLost, engine, Quiet, Connecting, Dialling
<1>26. ASSUME NEW t \in Threads, NotifyError(t) PROVE Quiet'
  <2>1. t \notin Reconnectors \/ pc[t] = "e_failed"
    BY <1>26 DEF NotifyError, Quiet, Dialling
  <2>2. t \notin Reconnectors
    BY <1>26, <2>1 DEF NotifyError, Quiet, Dialling
  <2> QED BY <1>26, <2>2, QuietGoes DEF NotifyError, engine, Quiet, ConnectLabels, StopLabels,
        Labels, CallerLabels, ReadLabels, ReconnectLabels, TcpLabels
<1>27. ASSUME NEW t \in Threads, NotifyBlocks(t) PROVE Quiet'
  BY <1>27 DEF NotifyBlocks, vars, Quiet, Connecting, Dialling
<1>25. CASE UNCHANGED allVars
  BY <1>25 DEF allVars, vars, engine, Quiet, Connecting, Dialling
<1> QED BY <1>1, <1>2, <1>3, <1>4, <1>5, <1>6, <1>7, <1>8, <1>9, <1>10, <1>11, <1>12, <1>13,
    <1>14, <1>15, <1>16, <1>17, <1>18, <1>19, <1>20, <1>21, <1>22, <1>23, <1>24, <1>25, <1>26, <1>27
  DEF Next, Calling, Working, Call, ReadThread, ReconnectThread

\* Callers that call at any moment, losses and reconnect threads, any number of each: once
\* m_running is clear and nobody is dialling, nothing but a call of connect() starts to
\* dial again.  (An attempt that is under way is not quiet: EngineDisconnect.)
THEOREM OnlyConnectDialsAlways == Spec => OnlyConnectDials
<1>1. LabelInv /\ [Next]_allVars => (Quiet => Quiet' \/ \E u \in Callers : Connect(u))
  BY QuietStep
<1> QED BY <1>1, InitLabels, LabelStep, PTL DEF Spec, OnlyConnectDials

--------------------------------------------------------------------------------
(* Type correctness                                                             *)

\* Each kind of thread has labels of its own, and returns to them.
KindInv ==
  /\ \A u \in Callers : pc[u] \in CallerLabels /\ ret[u] # "none"
  /\ \A r \in Readers : pc[r] \in ReadLabels
  /\ \A k \in Reconnectors :
       /\ pc[k] \in ReconnectLabels
       /\ pc[k] \in {"tcp_start", "tcp_spawn"} => ret[k] = "none"
       /\ pc[k] \in {"tcp_stop", "tcp_join", "tcp_close"} =>
            ret[k] = "tcp_dial" /\ sret[k] = "tcp_close"

DataOK ==
  /\ at \in [Readers -> Sockets \cup {NoFd}]
  /\ fd \in Sockets \cup {NoFd} /\ sock \in [Sockets -> {"free", "up", "dead"}]
  /\ readThread \in Readers \cup {NoThread}
  /\ {useTls, connected, loopRunning, aborted, running, destroyed} \subseteq BOOLEAN
  /\ connState \in ConnStates /\ shown \in ConnStates
  /\ policy \in Policies
  /\ parser \in {"clean", "partial", "stale", "mixed"}
  /\ stuck \in Threads \cup {NoThread}
  /\ dials \in Nat /\ errors \in Nat

TypeInv == LabelInv /\ KindInv /\ DataOK

\* The labels of a thread that goes on and changes nothing that it returns to.
LEMMA KindGoes ==
  ASSUME LabelInv, KindInv, NEW t \in Threads, NEW label, Goto(t, label), UNCHANGED <<ret, sret>>,
         t \in Callers => label \in CallerLabels,
         t \in Readers => label \in ReadLabels,
         t \in Reconnectors =>
           /\ label \in ReconnectLabels
           /\ label \notin {"tcp_start", "tcp_stop", "tcp_join", "tcp_close"}
           /\ label = "tcp_spawn" => pc[t] = "tcp_start"
  PROVE  KindInv'
<1> USE Kinds DEF LabelInv, Goto
<1>1. \A s \in Threads : pc'[s] = IF s = t THEN label ELSE pc[s]
  OBVIOUS
<1>2. \A u \in Callers : (pc[u] \in CallerLabels /\ ret[u] # "none")'
  BY <1>1 DEF KindInv
<1>3. \A r \in Readers : (pc[r] \in ReadLabels)'
  BY <1>1 DEF KindInv
<1>4. ASSUME NEW k \in Reconnectors
      PROVE  /\ pc'[k] \in ReconnectLabels
             /\ pc'[k] \in {"tcp_start", "tcp_spawn"} => ret'[k] = "none"
             /\ pc'[k] \in {"tcp_stop", "tcp_join", "tcp_close"} =>
                  ret'[k] = "tcp_dial" /\ sret'[k] = "tcp_close"
  BY <1>1 DEF KindInv
<1> QED BY <1>2, <1>3, <1>4 DEF KindInv

\* A step of TcpClient by a thread that uses it.
LEMMA OwnerKinds ==
  ASSUME LabelInv, KindInv, readThread \in Readers \cup {NoThread}, NEW t \in Owners, OwnerStep(t)
  PROVE  KindInv'
<1> USE Kinds DEF CallerLabels, ReadLabels, ReconnectLabels, TcpLabels
<1>1. CASE ConnectCheck(t)
  <2>1. CASE connected
    BY <1>1, <2>1 DEF ConnectCheck, EnterDisconnect, Goto, LabelInv, KindInv
  <2>2. CASE ~connected
    BY <1>1, <2>2, KindGoes DEF ConnectCheck
  <2> QED BY <2>1, <2>2
<1>2. CASE Established(t)
  BY <1>2, KindGoes DEF Established
<1>3. CASE DialFailed(t)
  BY <1>3, KindGoes DEF DialFailed
<1>4. CASE HandshakeOk(t)
  BY <1>4, KindGoes DEF HandshakeOk
<1>5. CASE HandshakeFailed(t)
  BY <1>5, KindGoes DEF HandshakeFailed
<1>6. CASE StartReadLoop(t)
  BY <1>6 DEF StartReadLoop, Goto, LabelInv, KindInv
<1>7. CASE SpawnReader(t)
  BY <1>7 DEF SpawnReader, LabelInv, KindInv
<1>8. CASE StopReadLoop(t)
  BY <1>8 DEF StopReadLoop, Goto, LabelInv, KindInv
<1>9. CASE JoinReader(t)
  BY <1>9 DEF JoinReader, LabelInv, KindInv
<1>10. CASE CloseSocket(t)
  BY <1>10 DEF CloseSocket, Goto, LabelInv, KindInv
<1> QED BY <1>1, <1>2, <1>3, <1>4, <1>5, <1>6, <1>7, <1>8, <1>9, <1>10 DEF OwnerStep

LEMMA NotifyKinds ==
  ASSUME LabelInv, KindInv, NEW t \in Threads, Notify(t)
  PROVE  KindInv'
<1>1. t \in Callers => Notifications[pc[t]].next \in {"c_reset", "idle", "e_failed", "c_run"}
  BY DEF Notify, Notifications, KindInv, CallerLabels, TcpLabels
<1>2. t \in Readers => Notifications[pc[t]].next = "l_detach"
  BY DEF Notify, Notifications, KindInv, ReadLabels
<1>3. t \in Reconnectors => Notifications[pc[t]].next \in {"k_start", "k_loop", "k_giveup", "e_gaveup"}
  BY DEF Notify, Notifications, KindInv, ReconnectLabels, TcpLabels
<1> QED BY <1>1, <1>2, <1>3, KindGoes DEF Notify, CallerLabels, ReadLabels, ReconnectLabels

\* One step of any thread.
LEMMA KindStep == TypeInv /\ [Next]_allVars => KindInv'
<1> SUFFICES ASSUME LabelInv, KindInv, DataOK, [Next]_allVars PROVE KindInv'
  BY DEF TypeInv
<1> USE Kinds DEF CallerLabels, ReadLabels, ReconnectLabels, TcpLabels
<1>1. ASSUME NEW u \in Callers, Connect(u) PROVE KindInv'
  BY <1>1, KindGoes DEF Connect, SetState
<1>2. ASSUME NEW u \in Callers, Disconnect(u) PROVE KindInv'
  BY <1>2 DEF Disconnect, CallStopReadLoop, Goto, LabelInv, KindInv
<1>3. ASSUME NEW u \in Callers, Destroy(u) PROVE KindInv'
  BY <1>3 DEF Destroy, CallStopReadLoop, Goto, LabelInv, KindInv
<1>4. ASSUME NEW u \in Callers, ConnectReset(u) PROVE KindInv'
  BY <1>4, KindGoes DEF ConnectReset, CallConnect
<1>5. ASSUME NEW u \in Callers, ConnectFailed(u) PROVE KindInv'
  BY <1>5, KindGoes DEF ConnectFailed, SetState
<1>6. ASSUME NEW u \in Callers, ConnectOk(u) PROVE KindInv'
  BY <1>6, KindGoes DEF ConnectOk, SetState
<1>7. ASSUME NEW u \in Callers, ConnectRun(u) PROVE KindInv'
  BY <1>7 DEF ConnectRun, CallStartReadLoop, Goto, LabelInv, KindInv
<1>8. ASSUME NEW u \in Callers, DisconnectClose(u) PROVE KindInv'
  BY <1>8 DEF DisconnectClose, CallDisconnect, EnterDisconnect, Goto, LabelInv, KindInv
<1>9. ASSUME NEW u \in Callers, DisconnectDone(u) PROVE KindInv'
  BY <1>9, KindGoes DEF DisconnectDone, SetState
<1>10. ASSUME NEW u \in Callers, DestroyClose(u) PROVE KindInv'
  BY <1>10 DEF DestroyClose, CallDisconnect, EnterDisconnect, Goto, LabelInv, KindInv
<1>11. ASSUME NEW u \in Callers, DestroyDone(u) PROVE KindInv'
  BY <1>11, KindGoes DEF DestroyDone
<1>12. ASSUME NEW r \in Readers, ReaderStep(r) PROVE KindInv'
  BY <1>12, KindGoes DEF ReaderStep, ReadCheck, ReadData, ReadEof, ReadTlsError, ReadExit
<1>13. ASSUME NEW r \in Readers, Feed(r) PROVE KindInv'
  BY <1>13, KindGoes DEF Feed
<1>14. ASSUME NEW r \in Readers, Lost(r) PROVE KindInv'
  BY <1>14, KindGoes DEF Lost, SetState
<1>15. ASSUME NEW r \in Readers, Detach(r) PROVE KindInv'
  BY <1>15 DEF Detach, LabelInv, KindInv
<1>16. ASSUME NEW k \in Reconnectors, LoopTest(k) PROVE KindInv'
  BY <1>16, KindGoes DEF LoopTest
<1>17. ASSUME NEW k \in Reconnectors, Wake(k) PROVE KindInv'
  BY <1>17, KindGoes DEF Wake
<1>18. ASSUME NEW k \in Reconnectors, Redial(k) PROVE KindInv'
  BY <1>18, KindGoes DEF Redial, CallConnect
<1>19. ASSUME NEW k \in Reconnectors, Redialled(k) PROVE KindInv'
  BY <1>19, KindGoes DEF Redialled, SetState
<1>20. ASSUME NEW k \in Reconnectors, RedialStart(k) PROVE KindInv'
  BY <1>20 DEF RedialStart, CallStartReadLoop, Goto, LabelInv, KindInv
<1>21. ASSUME NEW k \in Reconnectors, RedialFailed(k) PROVE KindInv'
  BY <1>21, KindGoes DEF RedialFailed
<1>22. ASSUME NEW k \in Reconnectors, GiveUp(k) PROVE KindInv'
  BY <1>22, KindGoes DEF GiveUp, SetState
<1>23. ASSUME NEW t \in Owners, TcpStep(t) PROVE KindInv'
  BY <1>23, OwnerKinds DEF TcpStep, DataOK
<1>24. ASSUME NEW t \in Threads, Notify(t) PROVE KindInv'
  BY <1>24, NotifyKinds
<1>25. ASSUME NEW d \in Sockets, PeerLost(d) PROVE KindInv'
  BY <1>25 DEF PeerLost, KindInv
<1>27. ASSUME NEW t \in Threads, NotifyError(t) PROVE KindInv'
  BY <1>27, KindGoes DEF NotifyError, KindInv
<1>28. ASSUME NEW t \in Threads, NotifyBlocks(t) PROVE KindInv'
  BY <1>28 DEF NotifyBlocks, vars, KindInv
<1>26. CASE UNCHANGED allVars
  BY <1>26 DEF allVars, vars, KindInv
<1> QED BY <1>1, <1>2, <1>3, <1>4, <1>5, <1>6, <1>7, <1>8, <1>9, <1>10, <1>11, <1>12,
    <1>13, <1>14, <1>15, <1>16, <1>17, <1>18, <1>19, <1>20, <1>21, <1>22, <1>23, <1>24,
    <1>25, <1>26, <1>27, <1>28
  DEF Next, Calling, Working, Call, ReadThread, ReconnectThread

\* What a step of TcpClient leaves in the data.
LEMMA OwnerData ==
  ASSUME DataOK, NEW t \in Owners, OwnerStep(t)
  PROVE  /\ at' \in [Readers -> Sockets \cup {NoFd}]
         /\ fd' \in Sockets \cup {NoFd} /\ sock' \in [Sockets -> {"free", "up", "dead"}]
         /\ readThread' \in Readers \cup {NoThread}
         /\ {useTls', connected', loopRunning', aborted'} \subseteq BOOLEAN
<1> USE DEF DataOK, shared
<1>1. CASE ConnectCheck(t)
  BY <1>1 DEF ConnectCheck
<1>2. CASE Established(t)
  <2>1. useTls' \in BOOLEAN
    BY <1>2, DistinctIds DEF Established
  <2> QED BY <1>2, <2>1 DEF Established
<1>3. CASE DialFailed(t)
  <2>1. useTls' \in BOOLEAN
    BY <1>3, DistinctIds DEF DialFailed
  <2> QED BY <1>3, <2>1 DEF DialFailed
<1>4. CASE HandshakeOk(t)
  BY <1>4 DEF HandshakeOk
<1>5. CASE HandshakeFailed(t)
  BY <1>5 DEF HandshakeFailed, Release
<1>6. CASE StartReadLoop(t)
  BY <1>6 DEF StartReadLoop
<1>7. CASE SpawnReader(t)
  BY <1>7 DEF SpawnReader
<1>8. CASE StopReadLoop(t)
  BY <1>8 DEF StopReadLoop, ShutdownRead
<1>9. CASE JoinReader(t)
  BY <1>9 DEF JoinReader
<1>10. CASE CloseSocket(t)
  BY <1>10 DEF CloseSocket, Release
<1> QED BY <1>1, <1>2, <1>3, <1>4, <1>5, <1>6, <1>7, <1>8, <1>9, <1>10 DEF OwnerStep

\* An operation of the policy gives a policy.
LEMMA PolicyTypes ==
  ASSUME NEW p \in Policies
  PROVE  /\ Reset(p) \in Policies /\ OnConnected(p) \in Policies
         /\ OnDisconnected(p) \in Policies /\ OnAttemptFailed(p) \in Policies
BY DEF Policies, Reset, OnConnected, OnDisconnected, OnAttemptFailed

LEMMA DataStep == TypeInv /\ [Next]_allVars => DataOK'
<1> SUFFICES ASSUME LabelInv, KindInv, DataOK, [Next]_allVars PROVE DataOK'
  BY DEF TypeInv
<1>d. dials' \in Nat /\ errors' \in Nat /\ stuck' \in Threads \cup {NoThread}
  <2>1. CASE Calling /\ UNCHANGED stuck
    BY <2>1 DEF Calling, DataOK
  <2>2. CASE Counting /\ UNCHANGED stuck
    BY <2>2 DEF Counting, DataOK
  <2>3. CASE (\E t \in Threads : NotifyBlocks(t)) /\ UNCHANGED <<calls, dials, errors>>
    BY <2>3 DEF NotifyBlocks, DataOK
  <2> QED BY <2>1, <2>2, <2>3 DEF Next, DataOK, allVars
<1> USE <1>d, PolicyTypes DEF DataOK, shared, ConnStates
<1>1. ASSUME NEW u \in Callers, Connect(u) PROVE DataOK'
  BY <1>1 DEF Connect, SetState
<1>2. ASSUME NEW u \in Callers, Disconnect(u) PROVE DataOK'
  BY <1>2 DEF Disconnect, CallStopReadLoop
<1>3. ASSUME NEW u \in Callers, Destroy(u) PROVE DataOK'
  BY <1>3 DEF Destroy, CallStopReadLoop
<1>4. ASSUME NEW u \in Callers, ConnectReset(u) PROVE DataOK'
  BY <1>4 DEF ConnectReset, CallConnect
<1>5. ASSUME NEW u \in Callers, ConnectFailed(u) PROVE DataOK'
  BY <1>5 DEF ConnectFailed, SetState
<1>6. ASSUME NEW u \in Callers, ConnectOk(u) PROVE DataOK'
  BY <1>6 DEF ConnectOk, SetState
<1>7. ASSUME NEW u \in Callers, ConnectRun(u) PROVE DataOK'
  BY <1>7 DEF ConnectRun, CallStartReadLoop
<1>8. ASSUME NEW u \in Callers, DisconnectClose(u) PROVE DataOK'
  BY <1>8 DEF DisconnectClose, CallDisconnect, EnterDisconnect, engine
<1>9. ASSUME NEW u \in Callers, DisconnectDone(u) PROVE DataOK'
  BY <1>9 DEF DisconnectDone, SetState
<1>10. ASSUME NEW u \in Callers, DestroyClose(u) PROVE DataOK'
  BY <1>10 DEF DestroyClose, CallDisconnect, EnterDisconnect, engine
<1>11. ASSUME NEW u \in Callers, DestroyDone(u) PROVE DataOK'
  BY <1>11 DEF DestroyDone
<1>12. ASSUME NEW r \in Readers, ReaderStep(r), UNCHANGED engine PROVE DataOK'
  BY <1>12 DEF ReaderStep, ReadCheck, ReadData, ReadEof, ReadTlsError, ReadExit, engine
<1>13. ASSUME NEW r \in Readers, Feed(r) PROVE DataOK'
  BY <1>13 DEF Feed
<1>14. ASSUME NEW r \in Readers, Lost(r) PROVE DataOK'
  BY <1>14 DEF Lost, SetState
<1>15. ASSUME NEW r \in Readers, Detach(r) PROVE DataOK'
  BY <1>15 DEF Detach
<1>16. ASSUME NEW k \in Reconnectors, LoopTest(k) PROVE DataOK'
  BY <1>16 DEF LoopTest, engine
<1>17. ASSUME NEW k \in Reconnectors, Wake(k) PROVE DataOK'
  BY <1>17 DEF Wake, engine
<1>18. ASSUME NEW k \in Reconnectors, Redial(k) PROVE DataOK'
  BY <1>18 DEF Redial, CallConnect
<1>19. ASSUME NEW k \in Reconnectors, Redialled(k) PROVE DataOK'
  BY <1>19 DEF Redialled, SetState
<1>20. ASSUME NEW k \in Reconnectors, RedialStart(k) PROVE DataOK'
  BY <1>20 DEF RedialStart, CallStartReadLoop, engine
<1>21. ASSUME NEW k \in Reconnectors, RedialFailed(k) PROVE DataOK'
  BY <1>21 DEF RedialFailed
<1>22. ASSUME NEW k \in Reconnectors, GiveUp(k) PROVE DataOK'
  BY <1>22 DEF GiveUp, SetState
<1>23. ASSUME NEW t \in Owners, TcpStep(t) PROVE DataOK'
  <2>1. OwnerStep(t) /\ UNCHANGED <<connState, shown, running, policy, destroyed>>
        /\ parser' \in {"clean", "partial", "stale", "mixed"}
    BY <1>23 DEF TcpStep
  <2>2. /\ at' \in [Readers -> Sockets \cup {NoFd}]
        /\ fd' \in Sockets \cup {NoFd} /\ sock' \in [Sockets -> {"free", "up", "dead"}]
        /\ readThread' \in Readers \cup {NoThread}
        /\ {useTls', connected', loopRunning', aborted'} \subseteq BOOLEAN
    BY <2>1, OwnerData
  <2>3. {useTls', connected', loopRunning', aborted', running', destroyed'} \subseteq BOOLEAN
    BY <2>1, <2>2
  <2>4. connState' \in ConnStates /\ shown' \in ConnStates /\ policy' \in Policies
    BY <2>1
  <2> QED BY <2>1, <2>2, <2>3, <2>4
<1>24. ASSUME NEW t \in Threads, Notify(t) PROVE DataOK'
  <2>1. Notifications[pc[t]].state \in ConnStates
    BY <1>24 DEF Notify, Notifications
  <2> QED BY <1>24, <2>1 DEF Notify
<1>25. ASSUME NEW d \in Sockets, PeerLost(d), UNCHANGED engine PROVE DataOK'
  BY <1>25 DEF PeerLost, engine
<1>27. ASSUME NEW t \in Threads, NotifyError(t) PROVE DataOK'
  BY <1>27 DEF NotifyError, engine
<1>28. ASSUME NEW t \in Threads, NotifyBlocks(t) PROVE DataOK'
  <2>1. Notifications[pc[t]].state \in ConnStates
    BY <1>28 DEF NotifyBlocks, Notifications
  <2> QED BY <1>28, <2>1 DEF NotifyBlocks, vars
<1>26. CASE UNCHANGED allVars
  BY <1>26 DEF allVars, vars, engine
<1> HIDE <1>d, PolicyTypes DEF DataOK, shared, ConnStates
<1> QED BY Kinds, <1>1, <1>2, <1>3, <1>4, <1>5, <1>6, <1>7, <1>8, <1>9, <1>10, <1>11, <1>12,
    <1>13, <1>14, <1>15, <1>16, <1>17, <1>18, <1>19, <1>20, <1>21, <1>22, <1>23, <1>24,
    <1>25, <1>26, <1>27, <1>28
  DEF Next, Calling, Working, Call, ReadThread, ReconnectThread

LEMMA InitTyped == Init => TypeInv
<1> SUFFICES ASSUME Init PROVE TypeInv
  OBVIOUS
<1>1. LabelInv
  BY InitLabels
<1>2. KindInv
  BY Kinds DEF Init, KindInv, CallerLabels, ReadLabels, ReconnectLabels, TcpLabels
<1>3. DataOK
  BY DEF Init, SharedInit, DataOK, ConnStates, Policies
<1> QED BY <1>1, <1>2, <1>3 DEF TypeInv

LEMMA TypeStep == TypeInv /\ [Next]_allVars => TypeInv'
BY LabelStep, KindStep, DataStep DEF TypeInv

\* Callers that call at any moment, any number of them: every variable keeps its type,
\* and every thread is at one of the labels of its kind.
THEOREM EngineTypeCorrect == Spec => []TypeOK
<1>1. TypeInv => TypeOK
  BY DEF TypeInv, LabelInv, KindInv, DataOK, Labels, TypeOK
<1> QED BY <1>1, InitTyped, TypeStep, PTL DEF Spec

--------------------------------------------------------------------------------
(* The patient caller                                                           *)

DialStage == {"n_connecting", "c_reset", "tcp_connect", "tcp_dial", "tcp_handshake",
              "tcp_ok", "tcp_failed", "n_failed", "e_failed", "n_connected", "c_run",
              "tcp_start", "tcp_spawn"}
StopStage == {"tcp_stop", "tcp_join", "d_close", "tcp_close", "d_done", "n_disconnected",
              "x_close", "x_done"}

Live(r)    == pc[r] \notin {"none", "done"}
Active(r)  == pc[r] \in {"check", "recv", "feed", "exit"}
Waiting(k) == pc[k] \in {"k_loop", "k_sleep"}

\* The caller is giving the handle up, not only the connection.
Destroying(u) ==
  \/ pc[u] \in {"x_close", "x_done"}
  \/ pc[u] \in {"tcp_stop", "tcp_join"} /\ sret[u] = "x_close"
  \/ pc[u] \in {"tcp_stop", "tcp_close"} /\ sret[u] = "tcp_close" /\ ret[u] = "x_done"

Stopped == readThread = NoThread /\ ~loopRunning

\* One thread at most works on the connection: a caller, or a reconnect thread.
Alone ==
  /\ \A u, v \in Callers : pc[u] # "idle" /\ pc[v] # "idle" => u = v
  /\ \A j, k \in Reconnectors : pc[j] # "none" /\ pc[k] # "none" => j = k
  /\ \A k \in Reconnectors : pc[k] # "none" => \A r \in Readers : ~Live(r)

\* Only the thread in m_readThread exists, and a clear m_readLoopRunning means that it
\* has been joined, or is just being.
HandleInv ==
  /\ \A r \in Readers : pc[r] # "none" <=> readThread = r
  /\ ~loopRunning => readThread = NoThread \/ \E u \in Callers : pc[u] = "tcp_join"

ReadInv(r) ==
  /\ Active(r) => connected
  /\ Active(r) \/ pc[r] = "lost" => connState = "CONNECTED"
  /\ pc[r] \in {"n_lost", "l_detach"} => connState = "RECONNECTING"
  /\ pc[r] \in {"lost", "n_lost", "l_detach"} => ~connected
  /\ pc[r] = "recv" => at[r] = fd
  /\ Live(r) => ~policy.reconnecting

DialInv(u) ==
  /\ pc[u] \in DialStage => (\A r \in Readers : ~Live(r)) /\ (\A k \in Reconnectors : pc[k] = "none")
  /\ pc[u] \in {"n_connecting", "c_reset", "tcp_connect", "tcp_dial", "tcp_handshake",
                "tcp_failed", "n_failed", "e_failed"} => ~connected
  /\ pc[u] \in {"n_connecting", "c_reset", "tcp_connect", "tcp_dial", "tcp_failed", "n_failed",
                "e_failed"} => (~running => fd = NoFd)
  /\ pc[u] \in DialStage => (~running => Stopped)
  /\ pc[u] \in {"n_connecting", "c_reset", "tcp_connect", "tcp_dial", "tcp_handshake", "tcp_ok",
                "tcp_failed"} => connState = "CONNECTING"
  /\ pc[u] \in {"tcp_ok", "n_connected", "c_run", "tcp_start", "tcp_spawn"} => connected
  /\ pc[u] \in {"n_connected", "c_run", "tcp_start", "tcp_spawn"} => connState = "CONNECTED"
  /\ pc[u] \in {"n_failed", "e_failed"} => connState = "DISCONNECTED"
  /\ pc[u] \in {"tcp_connect", "tcp_dial"} => parser = "clean"
  /\ pc[u] \in {"tcp_connect", "tcp_dial", "tcp_handshake", "tcp_ok", "n_connected", "c_run",
                "tcp_start", "tcp_spawn"} => ~policy.reconnecting
  /\ pc[u] \in {"tcp_start", "tcp_spawn"} => running /\ ret[u] = "idle"
  /\ pc[u] = "tcp_spawn" => readThread = NoThread /\ loopRunning

StopInv(u) ==
  /\ pc[u] \in StopStage => ~running /\ (\A k \in Reconnectors : pc[k] = "none" \/ Waiting(k))
  /\ pc[u] = "tcp_stop" =>
       \/ sret[u] \in {"d_close", "x_close"}
       \/ sret[u] = "tcp_close" /\ ret[u] \in {"d_done", "x_done"} /\ Stopped
  /\ pc[u] = "tcp_join" => sret[u] \in {"d_close", "x_close"} /\ readThread # NoThread /\ ~loopRunning
  /\ pc[u] \in {"d_close", "x_close", "tcp_close", "d_done", "x_done", "n_disconnected"} => Stopped
  /\ pc[u] = "tcp_close" => sret[u] = "tcp_close" /\ ret[u] \in {"d_done", "x_done"}
  /\ pc[u] \in {"d_done", "x_done", "n_disconnected"} => ~connected /\ fd = NoFd
  /\ pc[u] = "n_disconnected" => connState = "DISCONNECTED"
  /\ Destroying(u) => /\ connState = "DISCONNECTED" /\ shown = "DISCONNECTED"
                      /\ \A r \in Readers : ~Live(r)
                      /\ \A k \in Reconnectors : pc[k] = "none"

\* The counter of the policy and the attempts made since the loss go together.
ReconnectInv(k) ==
  /\ pc[k] \in ReconnectLabels \ {"tcp_spawn", "tcp_stop", "tcp_join", "tcp_close"}
  /\ Dialling(k) => running /\ (\A u \in Callers : pc[u] = "idle")
  /\ Dialling(k) \/ (Waiting(k) /\ running) => loopRunning
  /\ (Waiting(k) /\ running) \/ pc[k] \in {"k_dial", "tcp_connect", "tcp_dial", "tcp_handshake",
       "tcp_ok", "tcp_failed", "n_retry", "n_last", "k_giveup"} => connState = "RECONNECTING"
  /\ (Waiting(k) /\ running) \/ pc[k] \in {"k_dial", "tcp_connect", "tcp_dial", "tcp_handshake",
       "tcp_failed", "n_retry", "n_last", "k_giveup", "n_gaveup",
       "e_gaveup"} => ~connected
  /\ pc[k] \in {"n_redialled", "k_start", "tcp_start"} => connState = "CONNECTED"
  /\ pc[k] \in {"n_gaveup", "e_gaveup"} => connState = "DISCONNECTED"
  /\ pc[k] = "tcp_start" => ret[k] = "none"
  /\ pc[k] \in {"tcp_connect", "tcp_dial"} => parser = "clean"
  /\ (Waiting(k) /\ running) \/ pc[k] \in {"k_dial", "n_retry"} =>
       policy.reconnecting /\ policy.attempt = dials /\ dials < MaxAttempts
  /\ pc[k] \in {"tcp_connect", "tcp_dial", "tcp_handshake", "tcp_failed"} =>
       policy.reconnecting /\ policy.attempt + 1 = dials /\ dials <= MaxAttempts
  /\ pc[k] \in {"n_last", "k_giveup"} => dials = MaxAttempts

\* Between calls.
RestInv ==
  /\ (\A u \in Callers : pc[u] = "idle") =>
       /\ ~running => connState = "DISCONNECTED" /\ ~connected /\ fd = NoFd /\ Stopped
       /\ connState = "DISCONNECTED" => ~connected
  /\ (\A u \in Callers : pc[u] \notin DialStage) =>
       connState # "CONNECTING" /\ shown # "CONNECTING"

\* A state that is stored and not shown is one that a thread is about to show.
ShownInv == (\A t \in Threads : pc[t] \notin DOMAIN Notifications) => shown = connState

DataInv ==
  /\ ~aborted
  /\ parser \in {"clean", "partial"}
  /\ dials <= MaxAttempts
  /\ fd # NoFd => sock[fd] # "free"

PatientInv ==
  /\ Alone /\ HandleInv /\ RestInv /\ ShownInv /\ DataInv
  /\ \A r \in Readers : ReadInv(r)
  /\ \A u \in Callers : DialInv(u) /\ StopInv(u)
  /\ \A k \in Reconnectors : ReconnectInv(k)

\* Every thread is idle, or in one of the stages of its kind.
LEMMA Stages ==
  ASSUME TypeInv
  PROVE  /\ \A u \in Callers : pc[u] \in {"idle"} \cup DialStage \cup StopStage
         /\ \A r \in Readers : Live(r) => Active(r) \/ pc[r] \in {"lost", "n_lost", "l_detach"}
BY DEF TypeInv, KindInv, CallerLabels, ReadLabels, TcpLabels, DialStage, StopStage, Live, Active

\* Who else may be about, when a caller connects, a caller disconnects, a reconnect
\* thread dials, and a read thread lives.
LEMMA WhileDialling ==
  ASSUME PatientInv, NEW u \in Callers, pc[u] \in DialStage
  PROVE  /\ \A v \in Callers : v # u => pc[v] = "idle"
         /\ \A r \in Readers : ~Live(r)
         /\ \A k \in Reconnectors : pc[k] = "none"
BY DEF PatientInv, Alone, DialInv, DialStage

LEMMA WhileStopping ==
  ASSUME PatientInv, NEW u \in Callers, pc[u] \in StopStage
  PROVE  /\ \A v \in Callers : v # u => pc[v] = "idle"
         /\ ~running
         /\ \A k \in Reconnectors : pc[k] = "none" \/ Waiting(k)
BY DEF PatientInv, Alone, StopInv, StopStage

LEMMA WhileReconnecting ==
  ASSUME TypeInv, PatientInv, NEW k \in Reconnectors, pc[k] # "none"
  PROVE  /\ \A j \in Reconnectors : j # k => pc[j] = "none"
         /\ \A r \in Readers : ~Live(r)
         /\ running => \A u \in Callers : pc[u] = "idle"
<1>1. \A u \in Callers : pc[u] \notin DialStage
  BY DEF PatientInv, DialInv
<1>2. \A u \in Callers : pc[u] \in StopStage => ~running
  BY DEF PatientInv, StopInv
<1> QED BY <1>1, <1>2, Stages DEF PatientInv, Alone

LEMMA WhileReading ==
  ASSUME TypeInv, PatientInv, NEW r \in Readers, Live(r)
  PROVE  /\ readThread = r /\ readThread # NoThread
         /\ \A q \in Readers : q # r => pc[q] = "none"
         /\ \A k \in Reconnectors : pc[k] = "none"
         /\ \A u \in Callers : pc[u] \in {"idle", "tcp_stop", "tcp_join"} /\ ~Destroying(u)
         /\ \A u \in Callers : pc[u] = "tcp_stop" => sret[u] \in {"d_close", "x_close"}
         /\ (\A u \in Callers : pc[u] = "idle") => running /\ loopRunning
<1>1. readThread = r /\ \A q \in Readers : q # r => pc[q] = "none"
  BY DEF PatientInv, HandleInv, Live
<1>2. readThread # NoThread
  BY <1>1, DistinctIds
<1>3. \A k \in Reconnectors : pc[k] = "none"
  BY DEF PatientInv, Alone
<1>4. ASSUME NEW u \in Callers
      PROVE  /\ pc[u] \in {"idle", "tcp_stop", "tcp_join"} /\ ~Destroying(u)
             /\ pc[u] = "tcp_stop" => sret[u] \in {"d_close", "x_close"}
  <2>1. pc[u] \notin DialStage
    BY DEF PatientInv, DialInv
  <2>2. ~Destroying(u)
    BY DEF PatientInv, StopInv
  <2>3. pc[u] \in StopStage => pc[u] \in {"tcp_stop", "tcp_join"}
    BY <1>2 DEF PatientInv, StopInv, Stopped, StopStage
  <2>4. pc[u] = "tcp_stop" => sret[u] \in {"d_close", "x_close"}
    BY <1>2 DEF PatientInv, StopInv, Stopped
  <2> QED BY <2>1, <2>2, <2>3, <2>4, Stages
<1>5. ASSUME \A u \in Callers : pc[u] = "idle" PROVE running /\ loopRunning
  BY <1>2, <1>5 DEF PatientInv, RestInv, HandleInv, Stopped
<1> QED BY <1>1, <1>2, <1>3, <1>4, <1>5

\* The patient caller finds the engine at rest.
LEMMA WhenConnecting ==
  ASSUME Patient, TypeInv, PatientInv, MayConnect
  PROVE  /\ \A u \in Callers : pc[u] = "idle"
         /\ \A r \in Readers : ~Live(r)
         /\ \A k \in Reconnectors : pc[k] = "none"
         /\ connState = "DISCONNECTED" /\ shown = "DISCONNECTED" /\ ~connected
         /\ ~running => fd = NoFd /\ Stopped
<1>1. /\ \A u \in Callers : pc[u] = "idle"
      /\ \A k \in Reconnectors : pc[k] = "none"
      /\ connState = "DISCONNECTED"
  BY DEF MayConnect
<1>2. \A r \in Readers : ~Live(r)
  BY <1>1, Stages DEF PatientInv, ReadInv
<1>3. ~connected /\ (~running => fd = NoFd /\ Stopped)
  BY <1>1 DEF PatientInv, RestInv
<1>4. \A t \in Threads : pc[t] \notin DOMAIN Notifications
  <2>1. \A r \in Readers : pc[r] \in {"none", "done"}
    BY <1>2 DEF Live
  <2> QED BY <1>1, <2>1, EngineThreads DEF Threads, Notifications
<1>5. shown = "DISCONNECTED"
  BY <1>1, <1>4 DEF PatientInv, ShownInv
<1> QED BY <1>1, <1>2, <1>3, <1>5

\* A caller takes a step of connect(), or returns from a call, and nobody else is about.
\* What it has to show for it concerns itself and the engine.
LEMMA DialFrame ==
  ASSUME TypeInv, NEW u \in Callers, NEW label \in DialStage \cup {"idle"},
         pc' = [pc EXCEPT ![u] = label],
         \A v \in Callers : v # u => pc[v] = "idle",
         \A r \in Readers : ~Live(r),
         \A k \in Reconnectors : pc[k] = "none",
         HandleInv, ~loopRunning' => readThread' = NoThread, readThread' = readThread,
         DialInv(u)', DataInv',
         label \notin DOMAIN Notifications => shown' = connState',
         label = "idle" => /\ connState' # "CONNECTING"
                           /\ connState' = "DISCONNECTED" => ~connected'
                           /\ ~running' => /\ connState' = "DISCONNECTED"
                                           /\ fd' = NoFd /\ Stopped'
  PROVE  PatientInv'
<1> USE Kinds
<1>1. \A t \in Threads : pc'[t] = IF t = u THEN label ELSE pc[t]
  BY DEF TypeInv, LabelInv
<1>2. /\ \A v \in Callers : v # u => pc'[v] = "idle"
      /\ \A r \in Readers : pc'[r] = pc[r] /\ pc'[r] \in {"none", "done"}
      /\ \A k \in Reconnectors : pc'[k] = "none"
      /\ pc'[u] = label
  BY <1>1 DEF Live
<1>3. Alone'
  BY <1>2 DEF Alone, Live
<1>4. HandleInv'
  BY <1>2 DEF HandleInv
<1>5. ASSUME NEW r \in Readers PROVE ReadInv(r)'
  BY <1>2 DEF ReadInv, Active, Live
<1>6. ASSUME NEW v \in Callers PROVE DialInv(v)' /\ StopInv(v)'
  <2>1. CASE v = u
    <3>1. pc'[v] \notin StopStage /\ ~Destroying(v)'
      BY <1>2, <2>1 DEF Destroying, DialStage, StopStage
    <3> QED BY <2>1, <3>1 DEF StopInv, StopStage
  <2>2. CASE v # u
    BY <1>2, <2>2 DEF DialInv, StopInv, Destroying, DialStage, StopStage
  <2> QED BY <2>1, <2>2
<1>7. ASSUME NEW k \in Reconnectors PROVE ReconnectInv(k)'
  BY <1>2, <1>7 DEF ReconnectInv, Waiting, Dialling, ReconnectLabels, TcpLabels
<1>8. RestInv'
  <2>1. CASE label = "idle"
    <3>1. shown' # "CONNECTING"
      BY <2>1 DEF Notifications
    <3> QED BY <2>1, <3>1 DEF RestInv
  <2>2. CASE label \in DialStage
    BY <1>2, <2>2 DEF RestInv, DialStage
  <2> QED BY <2>1, <2>2
<1>9. ShownInv'
  <2>1. label \in DOMAIN Notifications => pc'[u] \in DOMAIN Notifications
    BY <1>2
  <2> QED BY <2>1 DEF ShownInv, Notifications
<1> QED BY <1>3, <1>4, <1>5, <1>6, <1>7, <1>8, <1>9 DEF PatientInv

\* A caller takes a step of disconnect() or qk4_destroy().  A read thread that is still
\* alive, or a reconnect thread that sleeps, is left alone.
LEMMA StopFrame ==
  ASSUME TypeInv, PatientInv, NEW u \in Callers, NEW label \in StopStage,
         pc' = [pc EXCEPT ![u] = label],
         \A v \in Callers : v # u => pc[v] = "idle",
         \A k \in Reconnectors : pc[k] = "none" \/ Waiting(k),
         ~running', readThread' = readThread, UNCHANGED at,
         ~loopRunning' => readThread' = NoThread \/ label = "tcp_join",
         \/ \A r \in Readers : ~Live(r)
         \/ /\ UNCHANGED <<fd, connected, connState, shown>>
            /\ policy'.reconnecting => policy.reconnecting,
         StopInv(u)', DataInv',
         connState' # "CONNECTING" /\ shown' # "CONNECTING",
         label # "n_disconnected" => UNCHANGED <<connState, shown>> /\ pc[u] \notin DOMAIN Notifications
  PROVE  PatientInv'
<1> USE Kinds
<1>1. \A t \in Threads : pc'[t] = IF t = u THEN label ELSE pc[t]
  BY DEF TypeInv, LabelInv
<1>2. /\ \A v \in Callers : v # u => pc'[v] = "idle"
      /\ \A r \in Readers : pc'[r] = pc[r]
      /\ \A k \in Reconnectors : pc'[k] = pc[k]
      /\ pc'[u] = label
  BY <1>1
<1>3. Alone'
  BY <1>2 DEF PatientInv, Alone, Live
<1>4. HandleInv'
  BY <1>2 DEF PatientInv, HandleInv
<1>5. ASSUME NEW r \in Readers PROVE ReadInv(r)'
  <2>1. CASE ~Live(r)
    BY <1>2, <2>1 DEF ReadInv, Active, Live
  <2>2. CASE Live(r)
    BY <1>2, <2>2 DEF PatientInv, ReadInv, Active, Live
  <2> QED BY <2>1, <2>2
<1>6. ASSUME NEW v \in Callers PROVE DialInv(v)' /\ StopInv(v)'
  <2>1. CASE v = u
    BY <1>2, <2>1 DEF DialInv, DialStage, StopStage
  <2>2. CASE v # u
    BY <1>2, <2>2 DEF DialInv, StopInv, Destroying, DialStage, StopStage
  <2> QED BY <2>1, <2>2
<1>7. ASSUME NEW k \in Reconnectors PROVE ReconnectInv(k)'
  <2>1. pc'[k] \in {"none", "k_loop", "k_sleep"}
    BY <1>2 DEF Waiting
  <2> QED BY <2>1 DEF ReconnectInv, Waiting, Dialling, ReconnectLabels, TcpLabels
<1>8. RestInv'
  BY <1>2 DEF RestInv, StopStage
<1>9. ShownInv'
  <2>1. CASE label = "n_disconnected"
    BY <1>2, <2>1 DEF ShownInv, Notifications
  <2>2. CASE label # "n_disconnected"
    <3>1. label \notin DOMAIN Notifications
      BY <2>2 DEF StopStage, Notifications
    <3>2. (\A t \in Threads : pc'[t] \notin DOMAIN Notifications) =>
            \A t \in Threads : pc[t] \notin DOMAIN Notifications
      BY <1>1, <2>2
    <3> QED BY <2>2, <3>2 DEF PatientInv, ShownInv, Notifications
  <2> QED BY <2>1, <2>2
<1> QED BY <1>3, <1>4, <1>5, <1>6, <1>7, <1>8, <1>9 DEF PatientInv

\* A read thread goes on.
LEMMA ReadFrame ==
  ASSUME TypeInv, PatientInv, NEW r \in Readers, Live(r), NEW label \in ReadLabels \ {"none", "done"},
         pc' = [pc EXCEPT ![r] = label],
         UNCHANGED <<ret, sret, running, readThread, loopRunning, fd>>,
         ReadInv(r)', DataInv',
         connState' \notin {"CONNECTING", "DISCONNECTED"}, shown' # "CONNECTING",
         label \notin DOMAIN Notifications => shown' = connState'
  PROVE  PatientInv'
<1> USE Kinds
<1>1. \A t \in Threads : pc'[t] = IF t = r THEN label ELSE pc[t]
  BY DEF TypeInv, LabelInv
<1>2. /\ readThread = r
      /\ \A q \in Readers : q # r => pc'[q] = "none"
      /\ \A k \in Reconnectors : pc'[k] = "none"
      /\ \A u \in Callers : pc'[u] = pc[u] /\ pc[u] \in {"idle", "tcp_stop", "tcp_join"} /\ ~Destroying(u)
      /\ \A u \in Callers : pc[u] = "tcp_stop" => sret[u] \in {"d_close", "x_close"}
      /\ (\A u \in Callers : pc[u] = "idle") => running /\ loopRunning
      /\ pc'[r] = label
  BY <1>1, WhileReading
<1>3. Alone'
  BY <1>2 DEF PatientInv, Alone, Live
<1>4. HandleInv'
  BY <1>2 DEF PatientInv, HandleInv
<1>5. ASSUME NEW q \in Readers PROVE ReadInv(q)'
  BY <1>2 DEF ReadInv, Active, Live
<1>6. ASSUME NEW u \in Callers PROVE DialInv(u)' /\ StopInv(u)'
  <2>1. DialInv(u)'
    BY <1>2 DEF DialInv, DialStage
  <2>2. StopInv(u)'
    <3>1. StopInv(u) /\ ~Destroying(u)'
      BY <1>2 DEF PatientInv, Destroying
    <3> QED BY <1>2, <3>1 DEF StopInv, StopStage
  <2> QED BY <2>1, <2>2
<1>7. ASSUME NEW k \in Reconnectors PROVE ReconnectInv(k)'
  BY <1>2, <1>7 DEF ReconnectInv, Waiting, Dialling, ReconnectLabels, TcpLabels
<1>8. RestInv'
  BY <1>2 DEF RestInv
<1>9. ShownInv'
  <2>1. label \in DOMAIN Notifications => pc'[r] \in DOMAIN Notifications
    BY <1>2
  <2> QED BY <2>1 DEF ShownInv, Notifications
<1> QED BY <1>3, <1>4, <1>5, <1>6, <1>7, <1>8, <1>9 DEF PatientInv

\* A reconnect thread goes on, in a session that is not being stopped.
LEMMA ReconnectFrame ==
  ASSUME TypeInv, PatientInv, NEW k \in Reconnectors, pc[k] # "none", running, running',
         NEW label \in ReconnectLabels,
         pc' = [pc EXCEPT ![k] = label],
         UNCHANGED readThread, loopRunning' => loopRunning, loopRunning => loopRunning',
         ReconnectInv(k)', DataInv',
         connState' # "CONNECTING", shown' # "CONNECTING",
         connState' = "DISCONNECTED" => ~connected',
         label \notin DOMAIN Notifications => shown' = connState'
  PROVE  PatientInv'
<1> USE Kinds
<1>1. \A t \in Threads : pc'[t] = IF t = k THEN label ELSE pc[t]
  BY DEF TypeInv, LabelInv
<1>2. /\ \A j \in Reconnectors : j # k => pc'[j] = "none"
      /\ \A r \in Readers : pc'[r] = pc[r] /\ ~Live(r)
      /\ \A u \in Callers : pc'[u] = pc[u] /\ pc[u] = "idle"
      /\ pc'[k] = label
  BY <1>1, WhileReconnecting
<1>3. Alone'
  BY <1>2 DEF Alone, Live
<1>4. HandleInv'
  BY <1>2 DEF PatientInv, HandleInv
<1>5. ASSUME NEW r \in Readers PROVE ReadInv(r)'
  BY <1>2 DEF ReadInv, Active, Live
<1>6. ASSUME NEW u \in Callers PROVE DialInv(u)' /\ StopInv(u)'
  BY <1>2 DEF DialInv, DialStage, StopInv, StopStage, Destroying
<1>7. ASSUME NEW j \in Reconnectors PROVE ReconnectInv(j)'
  BY <1>2, <1>7 DEF ReconnectInv, Waiting, Dialling, ReconnectLabels, TcpLabels
<1>8. RestInv'
  BY <1>2 DEF RestInv
<1>9. ShownInv'
  <2>1. label \in DOMAIN Notifications => pc'[k] \in DOMAIN Notifications
    BY <1>2
  <2> QED BY <2>1 DEF ShownInv, Notifications
<1> QED BY <1>3, <1>4, <1>5, <1>6, <1>7, <1>8, <1>9 DEF PatientInv

--------------------------------------------------------------------------------
(* The steps of connect()                                                       *)

\* A caller is in connect(), and its step changes none of the handles.
LEMMA DialStep ==
  ASSUME TypeInv, PatientInv, NEW u \in Callers, pc[u] \in DialStage,
         NEW label \in DialStage \cup {"idle"}, Goto(u, label),
         UNCHANGED readThread, loopRunning => loopRunning',
         DialInv(u)', DataInv',
         label \notin DOMAIN Notifications => shown' = connState',
         label = "idle" => /\ connState' # "CONNECTING"
                           /\ connState' = "DISCONNECTED" => ~connected'
                           /\ ~running' => /\ connState' = "DISCONNECTED"
                                           /\ fd' = NoFd /\ Stopped'
  PROVE  PatientInv'
<1>1. ~loopRunning => readThread = NoThread
  <2>1. \A v \in Callers : pc[v] # "tcp_join"
    BY WhileDialling DEF DialStage
  <2> QED BY <2>1 DEF PatientInv, HandleInv
<1>2. HandleInv
  BY DEF PatientInv
<1> QED BY <1>1, <1>2, WhileDialling, DialFrame DEF Goto

\* What the invariant says of the others while a caller is in connect().
LEMMA DialFacts ==
  ASSUME TypeInv, PatientInv, NEW u \in Callers, pc[u] \in DialStage,
         NEW label \in Labels, Goto(u, label)
  PROVE  /\ pc'[u] = label
         /\ \A r \in Readers : ~Live(r)'
         /\ \A k \in Reconnectors : pc'[k] = "none"
         /\ DialInv(u) /\ DataInv
         /\ pc[u] \notin DOMAIN Notifications => shown = connState
<1> USE Kinds
<1>1. \A t \in Threads : pc'[t] = IF t = u THEN label ELSE pc[t]
  BY DEF TypeInv, LabelInv, Goto
<1>2. /\ \A v \in Callers : v # u => pc[v] = "idle"
      /\ \A r \in Readers : pc[r] \in {"none", "done"}
      /\ \A k \in Reconnectors : pc[k] = "none"
  BY WhileDialling DEF Live
<1>3. pc[u] \notin DOMAIN Notifications => shown = connState
  <2>1. ASSUME pc[u] \notin DOMAIN Notifications, NEW t \in Threads
        PROVE  pc[t] \notin DOMAIN Notifications
    <3>1. t \in Callers \/ t \in Readers \/ t \in Reconnectors
      BY EngineThreads DEF Threads
    <3>2. pc[t] \in {"idle", "none", "done"} \/ t = u
      BY <1>2, <3>1
    <3> QED BY <2>1, <3>2 DEF Notifications
  <2> QED BY <2>1 DEF PatientInv, ShownInv
<1> QED BY <1>1, <1>2, <1>3 DEF Live, PatientInv

LEMMA ConnectSafe ==
  ASSUME Patient, TypeInv, PatientInv, NEW u \in Callers, Connect(u), UNCHANGED dials
  PROVE  PatientInv'
<1> USE Kinds
<1>1. /\ pc' = [pc EXCEPT ![u] = "n_connecting"] /\ pc'[u] = "n_connecting"
      /\ connState' = "CONNECTING"
      /\ UNCHANGED <<shared, shown, running, policy, parser>>
  BY DEF Connect, SetState, Goto, TypeInv, LabelInv
<1>2. /\ \A v \in Callers : pc[v] = "idle"
      /\ \A r \in Readers : ~Live(r)
      /\ \A k \in Reconnectors : pc[k] = "none"
      /\ shown = "DISCONNECTED" /\ ~connected
      /\ ~running => fd = NoFd /\ Stopped
  BY WhenConnecting DEF Connect
<1>3. \A t \in Threads : t # u => pc'[t] = pc[t]
  BY <1>1 DEF TypeInv, LabelInv
<1>4. DialInv(u)'
  BY <1>1, <1>2, <1>3 DEF DialInv, DialStage, Live, Stopped, shared
<1>5. DataInv'
  BY <1>1 DEF PatientInv, DataInv, shared
<1>6. HandleInv /\ (~loopRunning' => readThread' = NoThread) /\ readThread' = readThread
  BY <1>1, <1>2 DEF PatientInv, HandleInv, shared
<1> QED BY <1>1, <1>2, <1>4, <1>5, <1>6, DialFrame DEF DialStage, Notifications

LEMMA ConnectStepSafe ==
  ASSUME TypeInv, PatientInv, NEW u \in Callers, UNCHANGED dials,
         ConnectReset(u) \/ ConnectFailed(u) \/ ConnectOk(u)
  PROVE  PatientInv'
<1> USE DEF DialStage, Notifications, Labels, CallerLabels, TcpLabels
<1>1. CASE ConnectReset(u)
  <2>1. pc[u] = "c_reset" /\ Goto(u, "tcp_connect") /\ UNCHANGED <<shared, connState, shown, running>>
        /\ parser' = "clean" /\ ~policy'.reconnecting
    BY <1>1 DEF ConnectReset, CallConnect, Reset
  <2>2. DialInv(u)'
    BY <2>1, DialFacts DEF DialInv, shared, Stopped
  <2>3. DataInv'
    BY <2>1, DialFacts DEF DataInv, shared
  <2> QED BY <2>1, <2>2, <2>3, DialStep, DialFacts DEF shared
<1>2. CASE ConnectFailed(u)
  <2>1. pc[u] = "tcp_failed" /\ Goto(u, "n_failed") /\ connState' = "DISCONNECTED"
        /\ UNCHANGED <<ret, shared, shown, running, policy, parser>>
    BY <1>2 DEF ConnectFailed, SetState
  <2>2. DialInv(u)'
    BY <2>1, DialFacts DEF DialInv, shared, Stopped
  <2>3. DataInv'
    BY <2>1, DialFacts DEF DataInv, shared
  <2> QED BY <2>1, <2>2, <2>3, DialStep DEF shared
<1>3. CASE ConnectOk(u)
  <2>1. pc[u] = "tcp_ok" /\ Goto(u, "n_connected") /\ connState' = "CONNECTED"
        /\ UNCHANGED <<ret, shared, shown, running, policy, parser>>
    BY <1>3 DEF ConnectOk, SetState
  <2>2. DialInv(u)'
    BY <2>1, DialFacts DEF DialInv, shared, Stopped
  <2>3. DataInv'
    BY <2>1, DialFacts DEF DataInv, shared
  <2> QED BY <2>1, <2>2, <2>3, DialStep DEF shared
<1> QED BY <1>1, <1>2, <1>3

LEMMA ConnectRunSafe ==
  ASSUME TypeInv, PatientInv, NEW u \in Callers, UNCHANGED dials, ConnectRun(u)
  PROVE  PatientInv'
<1> USE DEF DialStage, Notifications, Labels, CallerLabels, TcpLabels
<1>1. pc[u] = "c_run" /\ Goto(u, "tcp_start") /\ running'
      /\ ret' = [ret EXCEPT ![u] = "idle"]
      /\ UNCHANGED <<shared, connState, shown, policy, parser>>
  BY DEF ConnectRun, CallStartReadLoop
<1>2. ret'[u] = "idle"
  BY <1>1, Kinds DEF TypeInv, LabelInv
<1>3. DialInv(u)'
  BY <1>1, <1>2, DialFacts DEF DialInv, shared
<1>4. DataInv'
  BY <1>1, DialFacts DEF DataInv, shared
<1> QED BY <1>1, <1>3, <1>4, DialStep, DialFacts DEF shared

\* TcpClient::connect() and startReadLoop(), called by connect().
LEMMA DialTcpSafe ==
  ASSUME TypeInv, PatientInv, NEW u \in Callers, pc[u] \in DialStage, UNCHANGED dials, TcpStep(u),
         \/ ConnectCheck(u) \/ Established(u) \/ DialFailed(u)
         \/ HandshakeOk(u) \/ HandshakeFailed(u) \/ StartReadLoop(u)
  PROVE  PatientInv'
<1> USE DEF DialStage, Notifications, Labels, CallerLabels, TcpLabels
<1>p. parser' = IF pc[u] = "tcp_dial" /\ fd' # fd /\ parser = "partial" THEN "stale" ELSE parser
  BY DEF TcpStep
<1>e. UNCHANGED <<connState, shown, running, policy>>
  BY DEF TcpStep
<1>1. CASE ConnectCheck(u)
  <2>1. pc[u] = "tcp_connect" /\ Goto(u, "tcp_dial") /\ UNCHANGED shared
    BY <1>1 DEF ConnectCheck, PatientInv, DialInv
  <2>2. DialInv(u)'
    BY <1>p, <1>e, <2>1, DialFacts DEF DialInv, shared, Stopped
  <2>3. DataInv'
    BY <1>p, <2>1, DialFacts DEF DataInv, shared
  <2> QED BY <1>e, <2>1, <2>2, <2>3, DialStep, DialFacts DEF shared
<1>2. CASE Established(u)
  <2>1. PICK label \in {"tcp_handshake", "tcp_ok"} :
          /\ pc[u] = "tcp_dial" /\ Goto(u, label)
          /\ label = "tcp_handshake" => UNCHANGED connected
          /\ label = "tcp_ok" => connected'
          /\ UNCHANGED <<loopRunning, readThread, aborted>>
          /\ fd' \in Sockets /\ sock'[fd'] = "up"
    BY <1>2 DEF Established, TypeInv, DataOK
  <2>2. DialInv(u)'
    BY <1>p, <1>e, <2>1, DialFacts DEF DialInv, Stopped
  <2>3. DataInv'
    BY <1>p, <2>1, DialFacts DEF DataInv, DialInv
  <2> QED BY <1>e, <2>1, <2>2, <2>3, DialStep, DialFacts
<1>3. CASE DialFailed(u)
  <2>1. pc[u] = "tcp_dial" /\ Goto(u, "tcp_failed")
        /\ UNCHANGED <<ret, fd, sock, connected, loopRunning, readThread, aborted>>
    BY <1>3 DEF DialFailed
  <2>2. DialInv(u)'
    BY <1>p, <1>e, <2>1, DialFacts DEF DialInv, Stopped
  <2>3. DataInv'
    BY <1>p, <2>1, DialFacts DEF DataInv
  <2> QED BY <1>e, <2>1, <2>2, <2>3, DialStep, DialFacts
<1>4. CASE HandshakeOk(u)
  <2>1. pc[u] = "tcp_handshake" /\ Goto(u, "tcp_ok") /\ connected'
        /\ UNCHANGED <<ret, fd, sock, loopRunning, readThread, aborted>>
    BY <1>4 DEF HandshakeOk
  <2>2. DialInv(u)'
    BY <1>p, <1>e, <2>1, DialFacts DEF DialInv, Stopped
  <2>3. DataInv'
    BY <1>p, <2>1, DialFacts DEF DataInv
  <2> QED BY <1>e, <2>1, <2>2, <2>3, DialStep, DialFacts
<1>5. CASE HandshakeFailed(u)
  <2>1. pc[u] = "tcp_handshake" /\ Goto(u, "tcp_failed") /\ fd' = NoFd
        /\ UNCHANGED <<ret, connected, loopRunning, readThread, aborted>>
    BY <1>5 DEF HandshakeFailed, Release
  <2>2. DialInv(u)'
    BY <1>p, <1>e, <2>1, DialFacts DEF DialInv, Stopped
  <2>3. DataInv'
    BY <1>p, <2>1, DialFacts DEF DataInv
  <2> QED BY <1>e, <2>1, <2>2, <2>3, DialStep, DialFacts
<1>6. CASE StartReadLoop(u)
  <2>1. pc[u] = "tcp_start" /\ Goto(u, IF loopRunning THEN ret[u] ELSE "tcp_spawn") /\ loopRunning'
        /\ UNCHANGED <<ret, fd, sock, connected, readThread, aborted>>
    BY <1>6 DEF StartReadLoop
  <2>2. running /\ ret[u] = "idle" /\ connState = "CONNECTED" /\ connected
    BY <2>1 DEF PatientInv, DialInv
  <2>3. ~loopRunning => readThread = NoThread
    <3>1. \A v \in Callers : pc[v] # "tcp_join"
      BY <2>1, WhileDialling
    <3> QED BY <3>1 DEF PatientInv, HandleInv
  <2>4. PICK label \in {"idle", "tcp_spawn"} :
          Goto(u, label) /\ (label = "tcp_spawn" => readThread = NoThread)
    BY <2>1, <2>2, <2>3
  <2>5. DialInv(u)'
    BY <1>p, <1>e, <2>1, <2>2, <2>4, DialFacts DEF DialInv, Stopped
  <2>6. DataInv'
    BY <1>p, <2>1, <2>4, DialFacts DEF DataInv
  <2>7. shown' = connState'
    BY <1>e, <2>1, <2>4, DialFacts
  <2> QED BY <1>e, <2>1, <2>2, <2>4, <2>5, <2>6, <2>7, DialStep
<1> QED BY <1>1, <1>2, <1>3, <1>4, <1>5, <1>6

\* The notifications of connect(), and the error with which one that failed returns.
LEMMA DialNotifySafe ==
  ASSUME TypeInv, PatientInv, NEW u \in Callers, pc[u] \in DialStage, UNCHANGED dials, Notify(u)
  PROVE  PatientInv'
<1> USE DEF DialStage, Notifications, Labels, CallerLabels, TcpLabels
<1>1. UNCHANGED <<ret, shared, connState, running, policy, parser>>
  BY DEF Notify
<1>2. CASE pc[u] = "n_connecting"
  <2>1. Goto(u, "c_reset") /\ shown' = "CONNECTING"
    BY <1>2 DEF Notify
  <2>2. DialInv(u)' /\ DataInv'
    BY <1>1, <1>2, <2>1, DialFacts DEF DialInv, DataInv, shared, Stopped
  <2>3. connState' = "CONNECTING"
    BY <1>1, <1>2 DEF PatientInv, DialInv
  <2> QED BY <1>1, <2>1, <2>2, <2>3, DialStep DEF shared
<1>3. CASE pc[u] = "n_failed"
  <2>1. Goto(u, "e_failed") /\ shown' = "DISCONNECTED"
    BY <1>3 DEF Notify
  <2>2. DialInv(u)' /\ DataInv'
    BY <1>1, <1>3, <2>1, DialFacts DEF DialInv, DataInv, shared, Stopped
  <2>3. connState' = "DISCONNECTED"
    BY <1>1, <1>3 DEF PatientInv, DialInv
  <2> QED BY <1>1, <2>1, <2>2, <2>3, DialStep DEF shared
<1>4. CASE pc[u] = "n_connected"
  <2>1. Goto(u, "c_run") /\ shown' = "CONNECTED"
    BY <1>4 DEF Notify
  <2>2. DialInv(u)' /\ DataInv'
    BY <1>1, <1>4, <2>1, DialFacts DEF DialInv, DataInv, shared, Stopped
  <2>3. connState' = "CONNECTED"
    BY <1>1, <1>4 DEF PatientInv, DialInv
  <2> QED BY <1>1, <2>1, <2>2, <2>3, DialStep DEF shared
<1> QED BY <1>2, <1>3, <1>4 DEF Notify

LEMMA DialErrorSafe ==
  ASSUME TypeInv, PatientInv, NEW u \in Callers, UNCHANGED dials, NotifyError(u)
  PROVE  PatientInv'
<1> USE DEF DialStage, Notifications, Labels, CallerLabels, TcpLabels
<1>1. UNCHANGED <<ret, shared, connState, shown, running, policy, parser>>
  BY DEF NotifyError, engine
<1>2. pc[u] = "e_failed" /\ Goto(u, "idle")
  BY DEF NotifyError, TypeInv, KindInv
<1>3. DialInv(u)' /\ DataInv'
  BY <1>1, <1>2, DialFacts DEF DialInv, DataInv, shared, Stopped
<1>4. connState' = "DISCONNECTED" /\ ~connected' /\ (~running' => fd' = NoFd /\ Stopped')
  BY <1>1, <1>2 DEF PatientInv, DialInv, shared, Stopped
<1>5. shown' = connState'
  BY <1>1, <1>2, DialFacts
<1> QED BY <1>1, <1>2, <1>3, <1>4, <1>5, DialStep DEF shared

\* connect() returns, and its read thread runs.
LEMMA DialSpawnSafe ==
  ASSUME TypeInv, PatientInv, NEW u \in Callers, UNCHANGED dials, TcpStep(u), SpawnReader(u)
  PROVE  PatientInv'
<1> USE Kinds
<1>1. pc[u] = "tcp_spawn" /\ pc[u] \in DialStage
  BY DEF SpawnReader, DialStage
<1>2. /\ \A v \in Callers : v # u => pc[v] = "idle"
      /\ \A k \in Reconnectors : pc[k] = "none"
      /\ DialInv(u) /\ DataInv /\ HandleInv
  BY <1>1, WhileDialling DEF PatientInv
<1>3. /\ readThread = NoThread /\ loopRunning /\ running /\ ret[u] = "idle"
      /\ connected /\ connState = "CONNECTED" /\ ~policy.reconnecting
  BY <1>1, <1>2 DEF DialInv
<1>4. \A q \in Readers : pc[q] = "none"
  BY <1>2, <1>3, DistinctIds DEF HandleInv
<1>5. PICK r \in Readers : /\ readThread' = r
                           /\ pc' = [pc EXCEPT ![r] = "check", ![u] = "idle"]
  BY <1>3 DEF SpawnReader
<1>6. /\ UNCHANGED <<aborted, ret, sret, at, fd, sock, connected, loopRunning>>
      /\ UNCHANGED <<connState, shown, running, policy, parser>>
  BY <1>1, <1>3 DEF SpawnReader, TcpStep
<1>7. /\ \A v \in Callers : pc'[v] = "idle"
      /\ \A k \in Reconnectors : pc'[k] = "none"
      /\ \A q \in Readers : pc'[q] = IF q = r THEN "check" ELSE "none"
  <2>1. \A t \in Threads : pc'[t] = IF t = u THEN "idle" ELSE IF t = r THEN "check" ELSE pc[t]
    BY <1>5 DEF TypeInv, LabelInv
  <2> QED BY <1>2, <1>4, <2>1
<1>8. shown = connState
  <2>1. ASSUME NEW t \in Threads PROVE pc[t] \notin DOMAIN Notifications
    <3>1. t \in Callers \/ t \in Readers \/ t \in Reconnectors
      BY EngineThreads DEF Threads
    <3>2. pc[t] \in {"idle", "none", "tcp_spawn"}
      BY <1>1, <1>2, <1>4, <3>1
    <3> QED BY <3>2 DEF Notifications
  <2> QED BY <2>1 DEF PatientInv, ShownInv
<1>9. Alone' /\ HandleInv'
  <2>1. Alone'
    BY <1>7 DEF Alone
  <2>2. ASSUME NEW q \in Readers PROVE pc'[q] # "none" <=> readThread' = q
    <3>1. readThread' = r
      BY <1>5
    <3>2. pc'[q] = IF q = r THEN "check" ELSE "none"
      BY <1>7
    <3> QED BY <3>1, <3>2
  <2>3. loopRunning'
    BY <1>3, <1>6
  <2> QED BY <2>1, <2>2, <2>3 DEF HandleInv
<1>10. RestInv' /\ ShownInv'
  BY <1>3, <1>6, <1>7, <1>8 DEF RestInv, ShownInv
<1>11. DataInv'
  BY <1>2, <1>6 DEF DataInv
<1>12. ASSUME NEW q \in Readers PROVE ReadInv(q)'
  BY <1>3, <1>6, <1>7 DEF ReadInv, Active, Live
<1>13. ASSUME NEW v \in Callers PROVE DialInv(v)' /\ StopInv(v)'
  BY <1>7 DEF DialInv, StopInv, Destroying, DialStage, StopStage
<1>14. ASSUME NEW k \in Reconnectors PROVE ReconnectInv(k)'
  BY <1>7 DEF ReconnectInv, Waiting, Dialling, ReconnectLabels, TcpLabels
<1> QED BY <1>9, <1>10, <1>11, <1>12, <1>13, <1>14 DEF PatientInv

--------------------------------------------------------------------------------
(* The steps of disconnect() and qk4_destroy()                                  *)

\* A patient caller disconnects while no thread dials.
LEMMA WhenDisconnecting ==
  ASSUME Patient, TypeInv, PatientInv, MayDisconnect
  PROVE  /\ \A u \in Callers : pc[u] = "idle"
         /\ \A k \in Reconnectors : pc[k] = "none" \/ Waiting(k)
         /\ connState # "CONNECTING" /\ shown # "CONNECTING"
<1>1. \A u \in Callers : pc[u] = "idle"
  BY DEF MayDisconnect
<1>2. \A k \in Reconnectors : pc[k] = "none" \/ Waiting(k)
  BY DEF MayDisconnect, Dialling, Waiting
<1>3. connState # "CONNECTING" /\ shown # "CONNECTING"
  BY <1>1 DEF PatientInv, RestInv, DialStage
<1> QED BY <1>1, <1>2, <1>3

LEMMA DisconnectSafe ==
  ASSUME Patient, TypeInv, PatientInv, NEW u \in Callers, Disconnect(u), UNCHANGED dials
  PROVE  PatientInv'
<1> USE Kinds DEF DialStage, StopStage, Notifications
<1>1. /\ pc[u] = "idle" /\ pc' = [pc EXCEPT ![u] = "tcp_stop"] /\ pc'[u] = "tcp_stop"
      /\ sret'[u] = "d_close" /\ ~running' /\ ~policy'.reconnecting
      /\ UNCHANGED <<at, shared, connState, shown, parser>>
  BY DEF Disconnect, CallStopReadLoop, Goto, TypeInv, LabelInv, Reset
<1>2. /\ \A v \in Callers : pc[v] = "idle"
      /\ \A k \in Reconnectors : pc[k] = "none" \/ Waiting(k)
      /\ connState # "CONNECTING" /\ shown # "CONNECTING"
  BY WhenDisconnecting DEF Disconnect
<1>3. \A k \in Reconnectors : (pc[k] = "none" \/ Waiting(k))'
  <2>1. \A k \in Reconnectors : pc'[k] = pc[k]
    BY <1>1 DEF TypeInv, LabelInv
  <2> QED BY <1>2, <2>1 DEF Waiting
<1>4. StopInv(u)'
  BY <1>1, <1>3 DEF StopInv, Destroying
<1>5. DataInv'
  BY <1>1 DEF PatientInv, DataInv, shared
<1>6. ~loopRunning => readThread = NoThread
  BY <1>2 DEF PatientInv, HandleInv
<1> QED BY <1>1, <1>2, <1>4, <1>5, <1>6, StopFrame DEF shared

LEMMA DestroySafe ==
  ASSUME Patient, TypeInv, PatientInv, NEW u \in Callers, Destroy(u), UNCHANGED dials
  PROVE  PatientInv'
<1> USE Kinds DEF DialStage, StopStage, Notifications
<1>1. /\ pc[u] = "idle" /\ pc' = [pc EXCEPT ![u] = "tcp_stop"] /\ pc'[u] = "tcp_stop"
      /\ sret'[u] = "x_close" /\ ~running'
      /\ UNCHANGED <<at, shared, connState, shown, parser>>
  BY DEF Destroy, CallStopReadLoop, Goto, TypeInv, LabelInv
<1>2. /\ \A v \in Callers : pc[v] = "idle"
      /\ \A r \in Readers : ~Live(r)
      /\ \A k \in Reconnectors : pc[k] = "none"
      /\ connState = "DISCONNECTED" /\ shown = "DISCONNECTED"
  BY WhenConnecting DEF Destroy
<1>3. /\ \A k \in Reconnectors : pc'[k] = "none"
      /\ \A r \in Readers : ~Live(r)'
  <2>1. \A t \in Threads : t # u => pc'[t] = pc[t]
    BY <1>1 DEF TypeInv, LabelInv
  <2> QED BY <1>2, <2>1 DEF Live
<1>4. StopInv(u)'
  BY <1>1, <1>2, <1>3 DEF StopInv, Destroying
<1>5. DataInv'
  BY <1>1 DEF PatientInv, DataInv, shared
<1>6. ~loopRunning => readThread = NoThread
  BY <1>2 DEF PatientInv, HandleInv
<1> QED BY <1>1, <1>2, <1>4, <1>5, <1>6, StopFrame DEF shared

\* What the invariant says of the others while a caller is stopping.
LEMMA StopFacts ==
  ASSUME TypeInv, PatientInv, NEW u \in Callers, pc[u] \in StopStage,
         NEW label \in Labels, Goto(u, label)
  PROVE  /\ pc' = [pc EXCEPT ![u] = label] /\ pc'[u] = label
         /\ \A v \in Callers : v # u => pc[v] = "idle"
         /\ \A k \in Reconnectors : (pc[k] = "none" \/ Waiting(k)) /\ (pc[k] = "none" \/ Waiting(k))'
         /\ \A k \in Reconnectors : pc'[k] = pc[k]
         /\ \A r \in Readers : pc'[r] = pc[r]
         /\ Stopped => \A r \in Readers : ~Live(r)
         /\ connState # "CONNECTING" /\ shown # "CONNECTING"
         /\ ~running /\ StopInv(u) /\ DataInv
<1> USE Kinds
<1>1. \A t \in Threads : pc'[t] = IF t = u THEN label ELSE pc[t]
  BY DEF TypeInv, LabelInv, Goto
<1>2. /\ \A v \in Callers : v # u => pc[v] = "idle"
      /\ \A k \in Reconnectors : pc[k] = "none" \/ Waiting(k)
      /\ ~running
  BY WhileStopping
<1>3. connState # "CONNECTING" /\ shown # "CONNECTING"
  <2>1. \A v \in Callers : pc[v] \notin DialStage
    BY <1>2 DEF DialStage, StopStage
  <2> QED BY <2>1 DEF PatientInv, RestInv
<1>4. Stopped => \A r \in Readers : ~Live(r)
  BY DistinctIds DEF PatientInv, HandleInv, Live, Stopped
<1>5. /\ \A k \in Reconnectors : pc'[k] = pc[k]
      /\ \A r \in Readers : pc'[r] = pc[r]
      /\ pc' = [pc EXCEPT ![u] = label] /\ pc'[u] = label
  BY <1>1 DEF Goto
<1>6. \A k \in Reconnectors : (pc[k] = "none" \/ Waiting(k))'
  BY <1>2, <1>5 DEF Waiting
<1> QED BY <1>2, <1>3, <1>4, <1>5, <1>6 DEF PatientInv

\* Once the read loop has stopped, what is left concerns the caller and the engine.
LEMMA StopStep ==
  ASSUME TypeInv, PatientInv, NEW u \in Callers, pc[u] \in StopStage, Stopped,
         NEW label \in StopStage \ {"tcp_join"}, Goto(u, label),
         UNCHANGED <<at, readThread, running>>,
         StopInv(u)', DataInv',
         connState' # "CONNECTING" /\ shown' # "CONNECTING",
         label # "n_disconnected" => UNCHANGED <<connState, shown>> /\ pc[u] # "n_disconnected"
  PROVE  PatientInv'
<1>1. label \in Labels
  BY DEF Labels, CallerLabels, TcpLabels, StopStage
<1>2. readThread' = NoThread
  BY DEF Stopped
<1>3. pc[u] # "n_disconnected" => pc[u] \notin DOMAIN Notifications
  BY DEF StopStage, Notifications
<1>4. ~running'
  BY <1>1, StopFacts
<1>5. /\ pc' = [pc EXCEPT ![u] = label]
      /\ \A v \in Callers : v # u => pc[v] = "idle"
      /\ \A k \in Reconnectors : pc[k] = "none" \/ Waiting(k)
      /\ \A r \in Readers : ~Live(r)
  BY <1>1, StopFacts
<1> QED BY <1>2, <1>3, <1>4, <1>5, StopFrame

\* disconnect() and qk4_destroy() call TcpClient::disconnect(), and end.
LEMMA StopCallSafe ==
  ASSUME TypeInv, PatientInv, NEW u \in Callers, UNCHANGED dials,
         DisconnectClose(u) \/ DisconnectDone(u) \/ DestroyClose(u)
  PROVE  PatientInv'
<1> USE Kinds DEF StopStage, Labels, CallerLabels, TcpLabels
<1>1. CASE DisconnectClose(u)
  <2>1. /\ pc[u] = "d_close" /\ Goto(u, "tcp_stop")
        /\ sret'[u] = "tcp_close" /\ ret'[u] = "d_done"
        /\ UNCHANGED <<at, shared, connState, shown, running, policy, parser>>
    BY <1>1 DEF DisconnectClose, CallDisconnect, EnterDisconnect, engine, TypeInv, LabelInv
  <2>2. Stopped /\ DataInv'
    BY <2>1 DEF PatientInv, StopInv, DataInv, shared
  <2>3. StopInv(u)'
    BY <2>1, <2>2, StopFacts DEF StopInv, Destroying, shared, Stopped
  <2> QED BY <2>1, <2>2, <2>3, StopStep, StopFacts DEF shared
<1>2. CASE DisconnectDone(u)
  <2>1. /\ pc[u] = "d_done" /\ Goto(u, "n_disconnected") /\ connState' = "DISCONNECTED"
        /\ UNCHANGED <<at, shared, shown, running, policy, parser>>
    BY <1>2 DEF DisconnectDone, SetState
  <2>2. Stopped /\ DataInv'
    BY <2>1 DEF PatientInv, StopInv, DataInv, shared
  <2>3. StopInv(u)'
    BY <2>1, <2>2, StopFacts DEF StopInv, Destroying, shared, Stopped
  <2> QED BY <2>1, <2>2, <2>3, StopStep, StopFacts DEF shared
<1>3. CASE DestroyClose(u)
  <2>1. /\ pc[u] = "x_close" /\ Goto(u, "tcp_stop")
        /\ sret'[u] = "tcp_close" /\ ret'[u] = "x_done"
        /\ UNCHANGED <<at, shared, connState, shown, running, policy, parser>>
    BY <1>3 DEF DestroyClose, CallDisconnect, EnterDisconnect, engine, TypeInv, LabelInv
  <2>2. Stopped /\ DataInv' /\ Destroying(u)
    BY <2>1 DEF PatientInv, StopInv, DataInv, shared, Destroying
  <2>3. StopInv(u)'
    <3>1. /\ connState' = "DISCONNECTED" /\ shown' = "DISCONNECTED"
          /\ \A r \in Readers : ~Live(r)'
          /\ \A k \in Reconnectors : pc'[k] = "none"
      BY <2>1, <2>2, StopFacts DEF StopInv, Live
    <3> QED BY <2>1, <2>2, <3>1, StopFacts DEF StopInv, shared, Stopped
  <2> QED BY <2>1, <2>2, <2>3, StopStep, StopFacts DEF shared
<1> QED BY <1>1, <1>2, <1>3

\* disconnect() shows its state and returns; so does qk4_destroy().
LEMMA StopReturnSafe ==
  ASSUME TypeInv, PatientInv, NEW u \in Callers, UNCHANGED dials, pc[u] \in StopStage,
         DestroyDone(u) \/ Notify(u)
  PROVE  PatientInv'
<1> USE Kinds DEF StopStage, Labels, CallerLabels, TcpLabels
<1>1. /\ pc[u] \in {"x_done", "n_disconnected"} /\ Goto(u, "idle")
      /\ shown' = connState /\ connState = "DISCONNECTED"
      /\ UNCHANGED <<shared, connState, running, policy, parser>>
  <2>1. CASE DestroyDone(u)
    BY <2>1 DEF DestroyDone, PatientInv, StopInv, Destroying
  <2>2. CASE Notify(u)
    BY <2>2 DEF Notify, Notifications, PatientInv, StopInv
  <2> QED BY <2>1, <2>2
<1>2. Stopped /\ ~connected /\ fd = NoFd
  BY <1>1 DEF PatientInv, StopInv
<1>3. /\ \A v \in Callers : pc'[v] = "idle"
      /\ \A k \in Reconnectors : pc'[k] = pc[k] /\ pc[k] \in {"none", "k_loop", "k_sleep"}
      /\ \A r \in Readers : pc'[r] = pc[r] /\ pc[r] \in {"none", "done"}
      /\ ~running
  BY <1>1, <1>2, StopFacts DEF Waiting, Live, TypeInv, LabelInv
<1>4. Alone'
  BY <1>3 DEF PatientInv, Alone, Live
<1>5. HandleInv'
  BY <1>1, <1>2, <1>3 DEF PatientInv, HandleInv, Stopped, shared
<1>6. RestInv' /\ ShownInv' /\ DataInv'
  BY <1>1, <1>2 DEF PatientInv, RestInv, ShownInv, DataInv, Stopped, shared
<1>7. ASSUME NEW r \in Readers PROVE ReadInv(r)'
  BY <1>3 DEF ReadInv, Active, Live
<1>8. ASSUME NEW v \in Callers PROVE DialInv(v)' /\ StopInv(v)'
  BY <1>3 DEF DialInv, StopInv, Destroying, DialStage, StopStage
<1>9. ASSUME NEW k \in Reconnectors PROVE ReconnectInv(k)'
  BY <1>1, <1>3, <1>9 DEF ReconnectInv, Waiting, Dialling, ReconnectLabels, TcpLabels
<1> QED BY <1>4, <1>5, <1>6, <1>7, <1>8, <1>9 DEF PatientInv

\* stopReadLoop(): the thread is asked to stop and waited for, or there is none.
LEMMA StopLoopSafe ==
  ASSUME TypeInv, PatientInv, NEW u \in Callers, pc[u] \in StopStage, UNCHANGED dials,
         TcpStep(u), StopReadLoop(u)
  PROVE  PatientInv'
<1> USE Kinds DEF StopStage, Labels, CallerLabels, TcpLabels
<1>1. /\ pc[u] = "tcp_stop" /\ Goto(u, IF readThread = NoThread THEN sret[u] ELSE "tcp_join")
      /\ ~loopRunning'
      /\ UNCHANGED <<ret, sret, at, fd, connected, readThread, aborted>>
      /\ UNCHANGED <<connState, shown, running, policy, parser>>
  BY DEF StopReadLoop, TcpStep
<1>2. \/ sret[u] \in {"d_close", "x_close"}
      \/ sret[u] = "tcp_close" /\ ret[u] \in {"d_done", "x_done"} /\ Stopped
  BY <1>1 DEF PatientInv, StopInv
<1>3. fd # NoFd => sock'[fd] # "free"
  BY DEF StopReadLoop, ShutdownRead, PatientInv, DataInv, TypeInv, DataOK
<1>4. DataInv'
  BY <1>1, <1>3 DEF PatientInv, DataInv
<1>5. CASE readThread = NoThread
  <2>1. PICK label \in {"d_close", "x_close", "tcp_close"} :
          label = sret[u] /\ Goto(u, label)
    BY <1>1, <1>2, <1>5
  <2>2. Stopped'
    BY <1>1, <1>5 DEF Stopped
  <2>3. Destroying(u)' => Destroying(u)
    BY <1>1, <1>2, <2>1, StopFacts DEF Destroying
  <2>4. StopInv(u)'
    BY <1>1, <1>2, <2>1, <2>2, <2>3, StopFacts DEF StopInv, Live
  <2>5. readThread' = NoThread /\ label \notin DOMAIN Notifications
        /\ pc[u] \notin DOMAIN Notifications
    BY <1>1, <1>5, <2>1 DEF Notifications
  <2> QED BY <1>1, <1>4, <2>1, <2>4, <2>5, StopFacts, StopFrame
<1>6. CASE readThread # NoThread
  <2>1. Goto(u, "tcp_join") /\ sret[u] \in {"d_close", "x_close"}
    BY <1>1, <1>2, <1>6 DEF Stopped
  <2>2. Destroying(u)' => Destroying(u)
    BY <1>1, <2>1, StopFacts DEF Destroying
  <2>3. StopInv(u)'
    BY <1>1, <1>6, <2>1, <2>2, StopFacts DEF StopInv, Live
  <2>4. pc[u] \notin DOMAIN Notifications
    BY <1>1 DEF Notifications
  <2> QED BY <1>1, <1>4, <2>1, <2>3, <2>4, StopFacts, StopFrame
<1> QED BY <1>5, <1>6

\* The read thread has ended: it is joined.
LEMMA StopJoinSafe ==
  ASSUME TypeInv, PatientInv, NEW u \in Callers, UNCHANGED dials, TcpStep(u), JoinReader(u)
  PROVE  PatientInv'
<1> USE Kinds DEF StopStage
<1>1. pc[u] = "tcp_join" /\ sret[u] \in {"d_close", "x_close"} /\ readThread # NoThread
      /\ ~loopRunning
  BY DEF JoinReader, PatientInv, StopInv
<1>2. PICK r \in Readers : /\ r = readThread /\ pc[r] = "done" /\ readThread' = NoThread
                           /\ pc' = [pc EXCEPT ![r] = "none", ![u] = sret[u]]
  BY <1>1 DEF JoinReader, TypeInv, DataOK
<1>3. /\ UNCHANGED <<aborted, ret, sret, at, fd, sock, connected, loopRunning>>
      /\ UNCHANGED <<connState, shown, running, policy, parser>>
  BY <1>1 DEF JoinReader, TcpStep
<1>4. /\ \A v \in Callers : v # u => pc[v] = "idle"
      /\ \A k \in Reconnectors : pc[k] \in {"none", "k_loop", "k_sleep"}
      /\ ~running
  BY <1>1, WhileStopping DEF Waiting
<1>5. \A q \in Readers : q # r => pc[q] = "none"
  BY <1>2 DEF PatientInv, HandleInv
<1>6. /\ \A v \in Callers : v # u => pc'[v] = "idle"
      /\ \A k \in Reconnectors : pc'[k] = pc[k]
      /\ \A q \in Readers : pc'[q] = "none"
      /\ pc'[u] = sret[u]
  <2>1. \A t \in Threads : pc'[t] = IF t = u THEN sret[u] ELSE IF t = r THEN "none" ELSE pc[t]
    BY <1>2 DEF TypeInv, LabelInv
  <2> QED BY <1>4, <1>5, <2>1
<1>7. \A t \in Threads : pc[t] \notin DOMAIN Notifications /\ pc'[t] \notin DOMAIN Notifications
  <2>1. ASSUME NEW t \in Threads
        PROVE  pc[t] \notin DOMAIN Notifications /\ pc'[t] \notin DOMAIN Notifications
    <3>1. CASE t \in Callers
      <4>1. pc[t] \in {"idle", "tcp_join"} /\ pc'[t] \in {"idle", "d_close", "x_close"}
        BY <1>1, <1>4, <1>6, <3>1
      <4> QED BY <4>1 DEF Notifications
    <3>2. CASE t \in Readers
      <4>1. pc[t] \in {"none", "done"} /\ pc'[t] = "none"
        BY <1>2, <1>5, <1>6, <3>2
      <4> QED BY <4>1 DEF Notifications
    <3>3. CASE t \in Reconnectors
      <4>1. pc[t] \in {"none", "k_loop", "k_sleep"} /\ pc'[t] = pc[t]
        BY <1>4, <1>6, <3>3
      <4> QED BY <4>1 DEF Notifications
    <3> QED BY <3>1, <3>2, <3>3, EngineThreads DEF Threads
  <2> QED BY <2>1
<1>8. Alone'
  BY <1>4, <1>6 DEF PatientInv, Alone, Live
<1>9. HandleInv'
  BY <1>2, <1>6, DistinctIds DEF HandleInv
<1>10. RestInv'
  <2>1. pc'[u] # "idle" /\ \A v \in Callers : pc[v] \notin DialStage
    BY <1>1, <1>4, <1>6 DEF DialStage
  <2> QED BY <1>3, <2>1 DEF PatientInv, RestInv
<1>11. ShownInv' /\ DataInv'
  BY <1>3, <1>7 DEF PatientInv, ShownInv, DataInv
<1>12. ASSUME NEW q \in Readers PROVE ReadInv(q)'
  BY <1>6 DEF ReadInv, Active, Live
<1>13. ASSUME NEW v \in Callers PROVE DialInv(v)' /\ StopInv(v)'
  <2>1. CASE v # u
    BY <1>6, <2>1 DEF DialInv, StopInv, Destroying, DialStage
  <2>2. CASE v = u
    <3>1. Destroying(u)' => Destroying(u)
      BY <1>1, <1>3, <1>6 DEF Destroying
    <3>2. Destroying(u) => /\ connState = "DISCONNECTED" /\ shown = "DISCONNECTED"
                           /\ \A k \in Reconnectors : pc[k] = "none"
      BY DEF PatientInv, StopInv
    <3>3. Stopped'
      BY <1>1, <1>2, <1>3 DEF Stopped
    <3> QED BY <1>1, <1>3, <1>4, <1>6, <2>2, <3>1, <3>2, <3>3
            DEF DialInv, StopInv, DialStage, Live, Waiting
  <2> QED BY <2>1, <2>2
<1>14. ASSUME NEW k \in Reconnectors PROVE ReconnectInv(k)'
  BY <1>3, <1>4, <1>6 DEF ReconnectInv, Waiting, Dialling, ReconnectLabels, TcpLabels
<1> QED BY <1>8, <1>9, <1>10, <1>11, <1>12, <1>13, <1>14 DEF PatientInv

\* The socket is closed, when nobody reads from it.
LEMMA StopSocketSafe ==
  ASSUME TypeInv, PatientInv, NEW u \in Callers, UNCHANGED dials, TcpStep(u), CloseSocket(u)
  PROVE  PatientInv'
<1> USE DEF StopStage, Labels, CallerLabels, TcpLabels
<1>1. /\ pc[u] = "tcp_close" /\ Goto(u, ret[u]) /\ ~connected' /\ fd' = NoFd
      /\ UNCHANGED <<ret, sret, at, loopRunning, readThread, aborted>>
      /\ UNCHANGED <<connState, shown, running, policy, parser>>
  BY DEF CloseSocket, Release, TcpStep
<1>2. ret[u] \in {"d_done", "x_done"} /\ sret[u] = "tcp_close" /\ Stopped
  BY <1>1 DEF PatientInv, StopInv
<1>3. PICK label \in {"d_done", "x_done"} : label = ret[u] /\ Goto(u, label)
  BY <1>1, <1>2
<1>4. Destroying(u)' => Destroying(u)
  BY <1>1, <1>2, <1>3, StopFacts DEF Destroying
<1>5. StopInv(u)'
  BY <1>1, <1>2, <1>3, <1>4, StopFacts DEF StopInv, Live, Stopped
<1>6. DataInv'
  BY <1>1 DEF PatientInv, DataInv
<1> QED BY <1>1, <1>2, <1>3, <1>5, <1>6, StopStep, StopFacts

--------------------------------------------------------------------------------
(* The steps of a read thread                                                   *)

\* What the invariant says while a read thread lives.
LEMMA ReadFacts ==
  ASSUME TypeInv, PatientInv, NEW r \in Readers, Live(r), NEW label \in ReadLabels, Goto(r, label)
  PROVE  /\ pc' = [pc EXCEPT ![r] = label] /\ pc'[r] = label
         /\ ReadInv(r) /\ DataInv /\ at \in [Readers -> Sockets \cup {NoFd}]
         /\ connState \in {"CONNECTED", "RECONNECTING"} /\ shown # "CONNECTING"
         /\ pc[r] # "n_lost" => shown = connState
<1> USE Kinds
<1>1. connState \in {"CONNECTED", "RECONNECTING"}
  BY Stages DEF PatientInv, ReadInv
<1>2. shown # "CONNECTING"
  <2>1. \A u \in Callers : pc[u] \notin DialStage
    BY WhileReading DEF DialStage
  <2> QED BY <2>1 DEF PatientInv, RestInv
<1>3. ASSUME pc[r] # "n_lost" PROVE shown = connState
  <2>1. ASSUME NEW t \in Threads PROVE pc[t] \notin DOMAIN Notifications
    <3>1. t \in Callers \/ t \in Readers \/ t \in Reconnectors
      BY EngineThreads DEF Threads
    <3>2. pc[t] \in {"idle", "tcp_stop", "tcp_join", "none"} \/ t = r
      BY <3>1, WhileReading
    <3>3. pc[r] \in {"check", "recv", "feed", "exit", "lost", "l_detach"}
      BY <1>3, Stages DEF Active
    <3> QED BY <3>2, <3>3 DEF Notifications
  <2> QED BY <2>1 DEF PatientInv, ShownInv
<1>4. pc' = [pc EXCEPT ![r] = label] /\ pc'[r] = label
  BY DEF Goto, TypeInv, LabelInv
<1> QED BY <1>1, <1>2, <1>3, <1>4 DEF PatientInv, TypeInv, DataOK

LEMMA ReaderSafe ==
  ASSUME TypeInv, PatientInv, NEW r \in Readers, UNCHANGED dials, ReaderStep(r), UNCHANGED engine
  PROVE  PatientInv'
<1> USE DEF ReadLabels, Notifications, Live
<1>1. /\ UNCHANGED <<ret, sret, running, readThread, loopRunning, fd, sock, aborted>>
      /\ UNCHANGED <<connState, shown, parser, policy>>
  BY DEF ReaderStep, ReadCheck, ReadData, ReadEof, ReadTlsError, ReadExit, shared, engine
<1>2. DataInv'
  BY <1>1 DEF PatientInv, DataInv
<1>3. CASE ReadCheck(r)
  <2>1. PICK label \in {"recv", "exit"} :
          /\ pc[r] = "check" /\ Goto(r, label) /\ UNCHANGED connected
          /\ label = "recv" => at' = [at EXCEPT ![r] = fd]
    BY <1>3 DEF ReadCheck, shared
  <2>2. ReadInv(r)'
    BY <1>1, <2>1, ReadFacts DEF ReadInv, Active
  <2> QED BY <1>1, <1>2, <2>1, <2>2, ReadFacts, ReadFrame
<1>4. CASE ReadData(r) \/ ReadEof(r) \/ ReadTlsError(r)
  <2>1. PICK label \in {"feed", "exit", "check"} :
          pc[r] = "recv" /\ Goto(r, label) /\ UNCHANGED <<at, connected>>
    BY <1>4 DEF ReadData, ReadEof, ReadTlsError, shared
  <2>2. ReadInv(r)'
    BY <1>1, <2>1, ReadFacts DEF ReadInv, Active
  <2> QED BY <1>1, <1>2, <2>1, <2>2, ReadFacts, ReadFrame
<1>5. CASE ReadExit(r)
  <2>1. pc[r] = "exit" /\ Goto(r, "lost") /\ UNCHANGED at /\ ~connected'
    BY <1>5 DEF ReadExit
  <2>2. ReadInv(r)'
    BY <1>1, <2>1, ReadFacts DEF ReadInv, Active
  <2> QED BY <1>1, <1>2, <2>1, <2>2, ReadFacts, ReadFrame
<1> QED BY <1>3, <1>4, <1>5 DEF ReaderStep

LEMMA ReadCallbackSafe ==
  ASSUME TypeInv, PatientInv, NEW r \in Readers, UNCHANGED dials, Feed(r) \/ Lost(r) \/ Notify(r)
  PROVE  PatientInv'
<1> USE DEF ReadLabels, Notifications, Live
<1>1. CASE Feed(r)
  <2>1. pc[r] = "feed" /\ Goto(r, "check") /\ parser' \in {"clean", "partial"}
        /\ UNCHANGED <<ret, sret, at, shared, connState, shown, running, policy>>
    BY <1>1 DEF Feed, PatientInv, DataInv
  <2>2. ReadInv(r)' /\ DataInv'
    BY <2>1, ReadFacts DEF ReadInv, Active, DataInv, shared
  <2> QED BY <2>1, <2>2, ReadFacts, ReadFrame DEF shared
<1>2. CASE Lost(r)
  <2>1. pc[r] = "lost" /\ Goto(r, "n_lost") /\ connState' = "RECONNECTING"
        /\ UNCHANGED <<ret, sret, at, shared, shown, running, policy, parser>>
    BY <1>2 DEF Lost, SetState
  <2>2. ReadInv(r)' /\ DataInv'
    BY <2>1, ReadFacts DEF ReadInv, Active, DataInv, shared
  <2> QED BY <2>1, <2>2, ReadFacts, ReadFrame DEF shared
<1>3. CASE Notify(r)
  <2>1. pc[r] \in ReadLabels
    BY DEF TypeInv, KindInv
  <2>2. pc[r] = "n_lost" /\ Goto(r, "l_detach") /\ shown' = "RECONNECTING"
        /\ UNCHANGED <<ret, sret, at, shared, connState, running, policy, parser>>
    BY <1>3, <2>1 DEF Notify
  <2>3. ReadInv(r)' /\ DataInv' /\ connState' = "RECONNECTING"
    BY <2>2, ReadFacts DEF ReadInv, Active, DataInv, shared
  <2> QED BY <2>2, <2>3, ReadFacts, ReadFrame DEF shared
<1> QED BY <1>1, <1>2, <1>3

\* The read thread ends and leaves a reconnect thread behind.
LEMMA DetachSafe ==
  ASSUME TypeInv, PatientInv, NEW r \in Readers, Detach(r), dials' = 0
  PROVE  PatientInv'
<1> USE Kinds
<1>1. pc[r] = "l_detach" /\ Live(r)
  BY DEF Detach, Live
<1>2. PICK k \in Reconnectors :
        pc[k] = "none" /\ pc' = [pc EXCEPT ![k] = "k_loop", ![r] = "done"]
  BY DEF Detach
<1>3. UNCHANGED <<ret, sret, at, shared, connState, shown, running, parser>>
  BY DEF Detach
<1>4. policy' = [attempt |-> 0, reconnecting |-> TRUE]
  BY <1>1 DEF Detach, OnDisconnected, PatientInv, ReadInv
<1>5. connState = "RECONNECTING" /\ ~connected
  BY <1>1 DEF PatientInv, ReadInv
<1>6. /\ readThread = r /\ readThread # NoThread
      /\ \A q \in Readers : q # r => pc[q] = "none"
      /\ \A j \in Reconnectors : pc[j] = "none"
      /\ \A u \in Callers : pc[u] \in {"idle", "tcp_stop", "tcp_join"} /\ ~Destroying(u)
      /\ (\A u \in Callers : pc[u] = "idle") => running /\ loopRunning
  BY <1>1, WhileReading
<1>7. /\ \A u \in Callers : pc'[u] = pc[u]
      /\ \A j \in Reconnectors : pc'[j] = IF j = k THEN "k_loop" ELSE "none"
      /\ \A q \in Readers : pc'[q] = IF q = r THEN "done" ELSE "none"
  <2>1. \A t \in Threads : pc'[t] = IF t = r THEN "done" ELSE IF t = k THEN "k_loop" ELSE pc[t]
    BY <1>2 DEF TypeInv, LabelInv
  <2> QED BY <1>6, <2>1
<1>8. running => \A u \in Callers : pc[u] = "idle"
  BY <1>6 DEF PatientInv, StopInv, StopStage
<1>9. shown = connState /\ shown # "CONNECTING"
  <2>1. ASSUME NEW t \in Threads PROVE pc[t] \notin DOMAIN Notifications
    <3>1. t \in Callers \/ t \in Readers \/ t \in Reconnectors
      BY EngineThreads DEF Threads
    <3>2. pc[t] \in {"idle", "tcp_stop", "tcp_join", "none", "l_detach"}
      BY <1>1, <1>6, <3>1
    <3> QED BY <3>2 DEF Notifications
  <2> QED BY <1>5, <2>1 DEF PatientInv, ShownInv
<1>10. Alone'
  <2>1. \A q \in Readers : ~Live(q)'
    BY <1>7 DEF Live
  <2>2. \A u, v \in Callers : pc'[u] # "idle" /\ pc'[v] # "idle" => u = v
    BY <1>7 DEF PatientInv, Alone
  <2> QED BY <1>7, <2>1, <2>2 DEF Alone
<1>11. HandleInv'
  <2>1. readThread' = r /\ (~loopRunning' => \E u \in Callers : pc'[u] = "tcp_join")
    BY <1>3, <1>6, <1>7 DEF PatientInv, HandleInv, shared
  <2>2. ASSUME NEW q \in Readers PROVE pc'[q] # "none" <=> readThread' = q
    BY <1>7, <2>1
  <2> QED BY <2>1, <2>2 DEF HandleInv
<1>12. RestInv' /\ ShownInv'
  BY <1>3, <1>5, <1>6, <1>7, <1>9 DEF RestInv, ShownInv
<1>13. DataInv'
  BY <1>3, PolicyConfig DEF PatientInv, DataInv, shared
<1>14. ASSUME NEW q \in Readers PROVE ReadInv(q)'
  BY <1>7 DEF ReadInv, Active, Live
<1>15. ASSUME NEW u \in Callers PROVE DialInv(u)' /\ StopInv(u)'
  <2>1. DialInv(u)' /\ ~Destroying(u)'
    BY <1>3, <1>6, <1>7 DEF DialInv, DialStage, Destroying
  <2>2. StopInv(u)
    BY DEF PatientInv
  <2> QED BY <1>3, <1>6, <1>7, <2>1, <2>2 DEF StopInv, StopStage, Stopped, Waiting, shared
<1>16. ASSUME NEW j \in Reconnectors PROVE ReconnectInv(j)'
  BY <1>3, <1>4, <1>5, <1>6, <1>7, <1>8, PolicyConfig
     DEF ReconnectInv, Waiting, Dialling, ReconnectLabels, TcpLabels, shared,
         PatientInv, HandleInv
<1> QED BY <1>10, <1>11, <1>12, <1>13, <1>14, <1>15, <1>16 DEF PatientInv

--------------------------------------------------------------------------------
(* The steps of a reconnect thread                                              *)

\* What the invariant says while a reconnect thread is at work, in a session that is not
\* being stopped.
LEMMA ReconnectFacts ==
  ASSUME TypeInv, PatientInv, NEW k \in Reconnectors, pc[k] # "none", running,
         NEW label \in ReconnectLabels, Goto(k, label)
  PROVE  /\ pc' = [pc EXCEPT ![k] = label] /\ pc'[k] = label
         /\ \A u \in Callers : pc'[u] = "idle"
         /\ ReconnectInv(k) /\ DataInv /\ policy \in Policies
         /\ connState # "CONNECTING" /\ shown # "CONNECTING"
         /\ connState = "DISCONNECTED" => ~connected
         /\ pc[k] \notin DOMAIN Notifications => shown = connState
<1> USE Kinds
<1>1. /\ \A u \in Callers : pc[u] = "idle"
      /\ \A j \in Reconnectors : j # k => pc[j] = "none"
      /\ \A r \in Readers : pc[r] \in {"none", "done"}
  BY WhileReconnecting DEF Live
<1>2. /\ connState # "CONNECTING" /\ shown # "CONNECTING"
      /\ connState = "DISCONNECTED" => ~connected
  BY <1>1 DEF PatientInv, RestInv, DialStage
<1>3. ASSUME pc[k] \notin DOMAIN Notifications PROVE shown = connState
  <2>1. ASSUME NEW t \in Threads PROVE pc[t] \notin DOMAIN Notifications
    <3>1. t \in Callers \/ t \in Readers \/ t \in Reconnectors
      BY EngineThreads DEF Threads
    <3>2. pc[t] \in {"idle", "done", "none"} \/ t = k
      BY <1>1, <3>1
    <3> QED BY <1>3, <3>2 DEF Notifications
  <2> QED BY <2>1 DEF PatientInv, ShownInv
<1>4. \A t \in Threads : pc'[t] = IF t = k THEN label ELSE pc[t]
  BY DEF Goto, TypeInv, LabelInv
<1>5. pc' = [pc EXCEPT ![k] = label] /\ pc'[k] = label /\ \A u \in Callers : pc'[u] = "idle"
  BY <1>1, <1>4 DEF Goto
<1> QED BY <1>2, <1>3, <1>5 DEF PatientInv, TypeInv, DataOK

\* The test of the loop, and of m_running, in a session that is not being stopped.
LEMMA LoopSafe ==
  ASSUME TypeInv, PatientInv, NEW k \in Reconnectors, UNCHANGED dials, running,
         LoopTest(k) \/ Wake(k)
  PROVE  PatientInv'
<1> USE DEF ReconnectLabels, TcpLabels, Notifications
<1>1. UNCHANGED <<ret, shared, connState, shown, running, policy, parser>>
  BY DEF LoopTest, Wake, engine
<1>2. PICK label \in {"k_sleep", "k_dial"} : Waiting(k) /\ Goto(k, label)
  <2>1. Waiting(k)
    BY DEF LoopTest, Wake, Waiting
  <2>2. policy.reconnecting /\ policy.attempt = dials /\ dials < MaxAttempts
    BY <2>1 DEF PatientInv, ReconnectInv
  <2>3. ~IsExhausted(policy)
    BY <2>2, PolicyConfig DEF IsExhausted, TypeInv, DataOK
  <2> QED BY <2>1, <2>2, <2>3 DEF LoopTest, Wake
<1>3. pc[k] # "none" /\ pc[k] \notin DOMAIN Notifications
  BY <1>2 DEF Waiting
<1>4. ReconnectInv(k)' /\ DataInv'
  BY <1>1, <1>2, <1>3, ReconnectFacts DEF ReconnectInv, Waiting, Dialling, DataInv, shared
<1> QED BY <1>1, <1>2, <1>3, <1>4, ReconnectFacts, ReconnectFrame DEF shared

\* The same in a session that has been stopped: the thread ends, or sleeps again.
LEMMA LoopStoppedSafe ==
  ASSUME TypeInv, PatientInv, NEW k \in Reconnectors, UNCHANGED dials, ~running,
         LoopTest(k) \/ Wake(k)
  PROVE  PatientInv'
<1> USE Kinds
<1>1. UNCHANGED <<ret, sret, at, shared, connState, shown, running, policy, parser>>
  BY DEF LoopTest, Wake, engine
<1>2. PICK label \in {"k_sleep", "none"} : pc[k] \in {"k_loop", "k_sleep"} /\ Goto(k, label)
  BY DEF LoopTest, Wake
<1>3. \A t \in Threads : pc'[t] = IF t = k THEN label ELSE pc[t]
  BY <1>2 DEF Goto, TypeInv, LabelInv
<1>4. /\ \A u \in Callers : pc'[u] = pc[u] /\ pc[u] \notin DialStage /\ ~Destroying(u)
      /\ \A r \in Readers : pc'[r] = pc[r] /\ ~Live(r)
      /\ \A j \in Reconnectors : pc'[j] = IF j = k THEN label ELSE "none"
  <2>1. /\ \A j \in Reconnectors : j # k => pc[j] = "none"
        /\ \A r \in Readers : ~Live(r)
    BY <1>2, WhileReconnecting
  <2>2. \A u \in Callers : pc[u] \notin DialStage /\ ~Destroying(u)
    BY <1>2 DEF PatientInv, DialInv, StopInv
  <2> QED BY <1>3, <2>1, <2>2
<1>5. Alone' /\ HandleInv' /\ RestInv' /\ DataInv'
  <2>1. Alone'
    BY <1>4 DEF PatientInv, Alone, Live
  <2>2. HandleInv' /\ DataInv'
    BY <1>1, <1>4 DEF PatientInv, HandleInv, DataInv, shared
  <2>3. RestInv'
    BY <1>1, <1>4 DEF PatientInv, RestInv, Stopped, shared
  <2> QED BY <2>1, <2>2, <2>3
<1>6. ShownInv'
  <2>1. ASSUME \A t \in Threads : pc'[t] \notin DOMAIN Notifications, NEW t \in Threads
        PROVE  pc[t] \notin DOMAIN Notifications
    <3>1. CASE t = k
      BY <1>2, <3>1 DEF Notifications
    <3>2. CASE t # k
      BY <1>3, <2>1, <3>2
    <3> QED BY <3>1, <3>2
  <2> QED BY <1>1, <2>1 DEF PatientInv, ShownInv
<1>7. ASSUME NEW r \in Readers PROVE ReadInv(r)'
  BY <1>4 DEF ReadInv, Active, Live
<1>8. ASSUME NEW u \in Callers PROVE DialInv(u)' /\ StopInv(u)'
  <2>1. DialInv(u)' /\ ~Destroying(u)'
    BY <1>1, <1>4 DEF DialInv, DialStage, Destroying
  <2>2. StopInv(u)
    BY DEF PatientInv
  <2> QED BY <1>1, <1>4, <2>1, <2>2 DEF StopInv, StopStage, Stopped, Waiting, shared
<1>9. ASSUME NEW j \in Reconnectors PROVE ReconnectInv(j)'
  BY <1>1, <1>4 DEF ReconnectInv, Waiting, Dialling, ReconnectLabels, TcpLabels
<1> QED BY <1>5, <1>6, <1>7, <1>8, <1>9 DEF PatientInv

\* An attempt begins: it is counted.
LEMMA RedialSafe ==
  ASSUME TypeInv, PatientInv, NEW k \in Reconnectors, Redial(k), dials' = dials + 1
  PROVE  PatientInv'
<1> USE DEF ReconnectLabels, TcpLabels, Notifications
<1>1. pc[k] = "k_dial" /\ Goto(k, "tcp_connect") /\ parser' = "clean"
      /\ UNCHANGED <<ret, shared, connState, shown, running, policy>>
  BY DEF Redial, CallConnect
<1>2. running
  BY <1>1 DEF PatientInv, ReconnectInv, Dialling
<1>3. ReconnectInv(k)' /\ DataInv'
  BY <1>1, <1>2, ReconnectFacts, PolicyConfig
     DEF ReconnectInv, Waiting, Dialling, DataInv, shared, Policies, TypeInv, DataOK
<1> QED BY <1>1, <1>2, <1>3, ReconnectFacts, ReconnectFrame DEF shared

\* The end of an attempt, and of the last one.
LEMMA RedialEndSafe ==
  ASSUME TypeInv, PatientInv, NEW k \in Reconnectors, UNCHANGED dials,
         Redialled(k) \/ RedialStart(k) \/ RedialFailed(k) \/ GiveUp(k)
  PROVE  PatientInv'
<1> USE DEF ReconnectLabels, TcpLabels, Notifications
<1>r. running
  BY DEF Redialled, RedialStart, RedialFailed, GiveUp, PatientInv, ReconnectInv, Dialling
<1>1. CASE Redialled(k)
  <2>1. pc[k] = "tcp_ok" /\ Goto(k, "n_redialled") /\ connState' = "CONNECTED"
        /\ UNCHANGED <<ret, shared, shown, running, parser>>
    BY <1>1 DEF Redialled, SetState
  <2>2. ReconnectInv(k)' /\ DataInv'
    BY <1>r, <2>1, ReconnectFacts DEF ReconnectInv, Waiting, Dialling, DataInv, shared
  <2> QED BY <1>r, <2>1, <2>2, ReconnectFacts, ReconnectFrame DEF shared
<1>2. CASE RedialStart(k)
  <2>1. pc[k] = "k_start" /\ Goto(k, "tcp_start") /\ ret'[k] = "none"
        /\ UNCHANGED <<shared, connState, shown, running, policy, parser>>
    BY <1>2, Kinds DEF RedialStart, CallStartReadLoop, engine, TypeInv, LabelInv
  <2>2. ReconnectInv(k)' /\ DataInv'
    BY <1>r, <2>1, ReconnectFacts DEF ReconnectInv, Waiting, Dialling, DataInv, shared
  <2> QED BY <1>r, <2>1, <2>2, ReconnectFacts, ReconnectFrame DEF shared
<1>3. CASE RedialFailed(k)
  <2>1. policy'.attempt = policy.attempt + 1 /\ policy'.reconnecting = policy.reconnecting
    BY <1>3 DEF RedialFailed, OnAttemptFailed, TypeInv, DataOK, Policies
  <2>2. PICK label \in {"n_last", "n_retry"} :
          /\ pc[k] = "tcp_failed" /\ Goto(k, label)
          /\ label = "n_last" <=> policy'.attempt >= MaxAttempts
          /\ UNCHANGED <<ret, shared, connState, shown, running, parser>>
    BY <1>3 DEF RedialFailed, IsExhausted
  <2>3. /\ policy.reconnecting /\ policy.attempt + 1 = dials /\ dials <= MaxAttempts
        /\ dials \in Nat
    BY <2>2 DEF PatientInv, ReconnectInv, TypeInv, DataOK
  <2>4. /\ label = "n_last" => dials = MaxAttempts
        /\ label = "n_retry" => dials < MaxAttempts
    BY <2>1, <2>2, <2>3, PolicyConfig
  <2>5. ReconnectInv(k)' /\ DataInv'
    BY <1>r, <2>1, <2>2, <2>3, <2>4, ReconnectFacts
       DEF ReconnectInv, Waiting, Dialling, DataInv, shared
  <2> QED BY <1>r, <2>2, <2>5, ReconnectFacts, ReconnectFrame DEF shared
<1>4. CASE GiveUp(k)
  <2>1. pc[k] = "k_giveup" /\ Goto(k, "n_gaveup") /\ connState' = "DISCONNECTED"
        /\ UNCHANGED <<ret, shared, shown, running, policy, parser>>
    BY <1>4 DEF GiveUp, SetState
  <2>2. ReconnectInv(k)' /\ DataInv'
    BY <1>r, <2>1, ReconnectFacts DEF ReconnectInv, Waiting, Dialling, DataInv, shared
  <2>3. ~connected'
    BY <2>1 DEF PatientInv, ReconnectInv, shared
  <2> QED BY <1>r, <2>1, <2>2, <2>3, ReconnectFacts, ReconnectFrame DEF shared
<1> QED BY <1>1, <1>2, <1>3, <1>4

LEMMA ReconnectNotifySafe ==
  ASSUME TypeInv, PatientInv, NEW k \in Reconnectors, UNCHANGED dials, Notify(k)
  PROVE  PatientInv'
<1> USE DEF ReconnectLabels, TcpLabels
<1>1. UNCHANGED <<ret, shared, connState, running, policy, parser>>
  BY DEF Notify
<1>2. PICK label \in {"k_start", "k_loop", "k_giveup", "e_gaveup"} :
        /\ Goto(k, label)
        /\ \/ pc[k] = "n_redialled" /\ label = "k_start" /\ shown' = "CONNECTED"
           \/ pc[k] = "n_retry" /\ label = "k_loop" /\ shown' = "RECONNECTING"
           \/ pc[k] = "n_last" /\ label = "k_giveup" /\ shown' = "RECONNECTING"
           \/ pc[k] = "n_gaveup" /\ label = "e_gaveup" /\ shown' = "DISCONNECTED"
  <2>1. pc[k] \in ReconnectLabels
    BY DEF TypeInv, KindInv
  <2> QED BY <2>1 DEF Notify, Notifications
<1>3. running /\ pc[k] # "none"
  BY <1>2 DEF PatientInv, ReconnectInv, Dialling
<1>4. shown' = connState'
  BY <1>1, <1>2, <1>3, ReconnectFacts DEF ReconnectInv
<1>5. ReconnectInv(k)' /\ DataInv'
  BY <1>1, <1>2, <1>3, ReconnectFacts DEF ReconnectInv, Waiting, Dialling, DataInv, shared
<1>6. shown' # "CONNECTING"
  BY <1>2
<1> QED BY <1>1, <1>2, <1>3, <1>4, <1>5, <1>6, ReconnectFacts, ReconnectFrame DEF shared

LEMMA ReconnectErrorSafe ==
  ASSUME TypeInv, PatientInv, NEW k \in Reconnectors, UNCHANGED dials, NotifyError(k)
  PROVE  PatientInv'
<1> USE DEF ReconnectLabels, TcpLabels
<1>1. UNCHANGED <<ret, shared, connState, shown, running, policy, parser>>
  BY DEF NotifyError, engine
<1>2. pc[k] = "e_gaveup" /\ Goto(k, "none")
  BY DEF NotifyError, TypeInv, KindInv
<1>3. running /\ connState = "DISCONNECTED" /\ ~connected
  BY <1>2 DEF PatientInv, ReconnectInv, Dialling
<1>4. shown' = connState'
  BY <1>1, <1>2, <1>3, ReconnectFacts DEF Notifications
<1>5. ReconnectInv(k)' /\ DataInv'
  BY <1>1, <1>2, <1>3, ReconnectFacts DEF ReconnectInv, Waiting, Dialling, DataInv, shared
<1> QED BY <1>1, <1>2, <1>3, <1>4, <1>5, ReconnectFacts, ReconnectFrame DEF shared

\* TcpClient::connect() and startReadLoop(), called by a reconnect thread.
LEMMA ReconnectTcpSafe ==
  ASSUME TypeInv, PatientInv, NEW k \in Reconnectors, UNCHANGED dials, TcpStep(k)
  PROVE  PatientInv'
<1> USE DEF ReconnectLabels, TcpLabels, Notifications
<1>p. parser' = IF pc[k] = "tcp_dial" /\ fd' # fd /\ parser = "partial" THEN "stale" ELSE parser
  BY DEF TcpStep
<1>e. UNCHANGED <<connState, shown, running, policy>>
  BY DEF TcpStep
<1>k. pc[k] \in {"tcp_connect", "tcp_dial", "tcp_handshake", "tcp_start"} /\ ReconnectInv(k)
  BY DEF TcpStep, OwnerStep, ConnectCheck, Established, DialFailed, HandshakeOk,
         HandshakeFailed, StartReadLoop, SpawnReader, StopReadLoop, JoinReader, CloseSocket,
         PatientInv, ReconnectInv
<1>r. running
  BY <1>k DEF ReconnectInv, Dialling
<1>1. CASE pc[k] = "tcp_connect"
  <2>1. Goto(k, "tcp_dial") /\ UNCHANGED <<ret, shared>>
    BY <1>1, <1>k DEF TcpStep, OwnerStep, ConnectCheck, Established, DialFailed, HandshakeOk,
         HandshakeFailed, StartReadLoop, SpawnReader, StopReadLoop, JoinReader, CloseSocket,
         ReconnectInv
  <2>2. ReconnectInv(k)' /\ DataInv'
    BY <1>1, <1>p, <1>e, <1>r, <2>1, ReconnectFacts
       DEF ReconnectInv, Waiting, Dialling, DataInv, shared
  <2> QED BY <1>1, <1>e, <1>r, <2>1, <2>2, ReconnectFacts, ReconnectFrame DEF shared
<1>2. CASE pc[k] = "tcp_dial"
  <2>1. PICK label \in {"tcp_handshake", "tcp_ok", "tcp_failed"} :
          /\ Goto(k, label)
          /\ label # "tcp_ok" => UNCHANGED connected
          /\ UNCHANGED <<ret, loopRunning, readThread, aborted>>
          /\ UNCHANGED <<fd, sock>> \/ (fd' \in Sockets /\ sock'[fd'] = "up")
    BY <1>2 DEF TcpStep, OwnerStep, ConnectCheck, Established, DialFailed, HandshakeOk,
         HandshakeFailed, StartReadLoop, SpawnReader, StopReadLoop, JoinReader, CloseSocket,
         TypeInv, DataOK
  <2>2. parser' = "clean"
    BY <1>2, <1>p, <1>k DEF ReconnectInv
  <2>3. ReconnectInv(k)'
    BY <1>2, <1>e, <1>r, <2>1, <2>2, ReconnectFacts DEF ReconnectInv, Waiting, Dialling
  <2>4. DataInv'
    BY <1>2, <1>r, <2>1, <2>2 DEF DataInv, PatientInv
  <2>5. connState' = "RECONNECTING"
    BY <1>2, <1>e, <1>k DEF ReconnectInv
  <2> QED BY <1>2, <1>e, <1>r, <2>1, <2>3, <2>4, <2>5, ReconnectFacts, ReconnectFrame
<1>3. CASE pc[k] = "tcp_handshake"
  <2>1. PICK label \in {"tcp_ok", "tcp_failed"} :
          /\ Goto(k, label)
          /\ label # "tcp_ok" => UNCHANGED connected
          /\ UNCHANGED <<ret, loopRunning, readThread, aborted>>
          /\ UNCHANGED <<fd, sock>> \/ fd' = NoFd
    BY <1>3 DEF TcpStep, OwnerStep, ConnectCheck, Established, DialFailed, HandshakeOk,
         HandshakeFailed, StartReadLoop, SpawnReader, StopReadLoop, JoinReader, CloseSocket,
         Release
  <2>2. ReconnectInv(k)' /\ DataInv'
    BY <1>3, <1>p, <1>e, <1>r, <2>1, ReconnectFacts DEF ReconnectInv, Waiting, Dialling, DataInv
  <2>3. connState' = "RECONNECTING"
    BY <1>3, <1>e, <1>k DEF ReconnectInv
  <2> QED BY <1>3, <1>e, <1>r, <2>1, <2>2, <2>3, ReconnectFacts, ReconnectFrame
<1>4. CASE pc[k] = "tcp_start"
  <2>1. Goto(k, "none") /\ loopRunning' /\ loopRunning
        /\ UNCHANGED <<ret, fd, sock, connected, readThread, aborted>>
    BY <1>4, <1>k DEF TcpStep, OwnerStep, ConnectCheck, Established, DialFailed, HandshakeOk,
         HandshakeFailed, StartReadLoop, SpawnReader, StopReadLoop, JoinReader, CloseSocket,
         ReconnectInv, Dialling
  <2>2. ReconnectInv(k)' /\ DataInv'
    BY <1>4, <1>p, <1>e, <1>r, <2>1, ReconnectFacts DEF ReconnectInv, Waiting, Dialling, DataInv
  <2> QED BY <1>4, <1>e, <1>r, <2>1, <2>2, ReconnectFacts, ReconnectFrame
<1> QED BY <1>k, <1>1, <1>2, <1>3, <1>4

--------------------------------------------------------------------------------
(* What the patient caller gets                                                 *)

\* Only a thread that leaves l_detach or k_dial counts.
LEMMA NotCounted ==
  ASSUME Counting,
         \A r \in Readers : pc[r] = "l_detach" => pc'[r] = "l_detach",
         \A k \in Reconnectors : pc[k] = "k_dial" => pc'[k] = "k_dial"
  PROVE  UNCHANGED dials
BY DEF Counting

\* A thread that is not there goes on, and no other thread leaves its place.
LEMMA NotCountedStep ==
  ASSUME TypeInv, Counting, NEW t \in Threads, pc[t] \notin {"l_detach", "k_dial"},
         \A s \in Threads : s # t /\ pc[s] \in {"l_detach", "k_dial"} => pc'[s] = pc[s]
  PROVE  UNCHANGED dials
BY Kinds, NotCounted

\* A step of TcpClient moves its thread, and one that starts or ends.
LEMMA OwnerMoves ==
  ASSUME TypeInv, NEW t \in Owners, OwnerStep(t)
  PROVE  /\ pc[t] \notin {"l_detach", "k_dial"}
         /\ \A s \in Threads : s # t /\ pc[s] \in {"l_detach", "k_dial"} => pc'[s] = pc[s]
<1> USE Kinds DEF TypeInv, LabelInv
<1>1. CASE SpawnReader(t)
  BY <1>1 DEF SpawnReader
<1>2. CASE JoinReader(t)
  BY <1>2 DEF JoinReader, DataOK
<1>3. CASE ~SpawnReader(t) /\ ~JoinReader(t)
  BY <1>3 DEF OwnerStep, ConnectCheck, Established, DialFailed, HandshakeOk,
         HandshakeFailed, StartReadLoop, StopReadLoop, CloseSocket, EnterDisconnect, Goto
<1> QED BY <1>1, <1>2, <1>3

\* A step of TcpClient moves no other thread that could take one.
LEMMA OthersStay ==
  ASSUME TypeInv, NEW t \in Owners, OwnerStep(t)
  PROVE  \A o \in Owners : o # t => pc'[o] = pc[o]
<1> USE Kinds DEF TypeInv, LabelInv
<1>1. CASE SpawnReader(t)
  BY <1>1 DEF SpawnReader
<1>2. CASE JoinReader(t)
  BY <1>2 DEF JoinReader, DataOK
<1>3. CASE ~SpawnReader(t) /\ ~JoinReader(t)
  BY <1>3 DEF OwnerStep, ConnectCheck, Established, DialFailed, HandshakeOk,
         HandshakeFailed, StartReadLoop, StopReadLoop, CloseSocket, EnterDisconnect, Goto
<1> QED BY <1>1, <1>2, <1>3

\* A step of a call counts nothing and leaves the reconnect threads where they are.
LEMMA CallUndisturbing ==
  ASSUME TypeInv, NEW u \in Callers, Call(u), Counting
  PROVE  UNCHANGED dials /\ \A k \in Reconnectors : pc'[k] = pc[k]
<1> USE Kinds
<1>1. CASE TcpStep(u)
  <2>1. UNCHANGED dials
    BY <1>1, OwnerMoves, NotCountedStep DEF TcpStep
  <2>2. OwnerStep(u)
    BY <1>1 DEF TcpStep
  <2> QED BY <2>1, <2>2, OthersStay
<1>2. CASE ~TcpStep(u)
  <2>1. /\ pc[u] \notin {"l_detach", "k_dial"}
        /\ \A s \in Threads : s # u => pc'[s] = pc[s]
    BY <1>2 DEF Call, ConnectReset, ConnectFailed, ConnectOk, ConnectRun, DisconnectClose,
         DisconnectDone, DestroyClose, DestroyDone, Notify, NotifyError, Notifications, CallConnect,
         CallStartReadLoop, CallDisconnect, EnterDisconnect, SetState, Goto, TypeInv, LabelInv
  <2> QED BY <2>1, NotCountedStep
<1> QED BY <1>1, <1>2

LEMMA CallSafe ==
  ASSUME TypeInv, PatientInv, NEW u \in Callers, Call(u), Counting
  PROVE  PatientInv'
<1> USE Kinds
<1>1. UNCHANGED dials
  BY CallUndisturbing
<1>2. CASE ConnectReset(u) \/ ConnectFailed(u) \/ ConnectOk(u)
  BY <1>1, <1>2, ConnectStepSafe
<1>3. CASE ConnectRun(u)
  BY <1>1, <1>3, ConnectRunSafe
<1>4. CASE DisconnectClose(u) \/ DisconnectDone(u) \/ DestroyClose(u)
  BY <1>1, <1>4, StopCallSafe
<1>5. CASE DestroyDone(u)
  BY <1>1, <1>5, StopReturnSafe DEF DestroyDone, StopStage
<1>6. CASE Notify(u)
  <2>1. pc[u] \in DialStage \/ pc[u] \in StopStage
    BY <1>6, Stages DEF Notify, Notifications
  <2> QED BY <1>1, <1>6, <2>1, DialNotifySafe, StopReturnSafe
<1>7. CASE TcpStep(u)
  <2>1. pc[u] \in DialStage \/ pc[u] \in StopStage
    BY <1>7, Stages DEF TcpStep, OwnerStep, ConnectCheck, Established, DialFailed, HandshakeOk,
         HandshakeFailed, StartReadLoop, SpawnReader, StopReadLoop, JoinReader, CloseSocket
  <2>2. CASE ConnectCheck(u) \/ Established(u) \/ DialFailed(u)
             \/ HandshakeOk(u) \/ HandshakeFailed(u) \/ StartReadLoop(u)
    <3>1. pc[u] \in DialStage
      BY <2>2 DEF DialStage, ConnectCheck, Established, DialFailed, HandshakeOk,
           HandshakeFailed, StartReadLoop
    <3> QED BY <1>1, <1>7, <2>2, <3>1, DialTcpSafe
  <2>3. CASE SpawnReader(u)
    BY <1>1, <1>7, <2>3, DialSpawnSafe
  <2>4. CASE StopReadLoop(u)
    BY <1>1, <1>7, <2>4, StopLoopSafe DEF StopReadLoop, StopStage
  <2>5. CASE JoinReader(u)
    BY <1>1, <1>7, <2>5, StopJoinSafe
  <2>6. CASE CloseSocket(u)
    BY <1>1, <1>7, <2>6, StopSocketSafe
  <2> QED BY <1>7, <2>2, <2>3, <2>4, <2>5, <2>6 DEF TcpStep, OwnerStep
<1>8. CASE NotifyError(u)
  BY <1>1, <1>8, DialErrorSafe
<1> QED BY <1>2, <1>3, <1>4, <1>5, <1>6, <1>7, <1>8 DEF Call

\* Nor does a step of a read thread, but for the one with which it ends.
LEMMA ReadUndisturbing ==
  ASSUME TypeInv, NEW r \in Readers, ReadThread(r), ~Detach(r), Counting
  PROVE  UNCHANGED dials /\ \A k \in Reconnectors : pc'[k] = pc[k]
<1> USE Kinds
<1>1. /\ pc[r] \notin {"l_detach", "k_dial"}
      /\ \A s \in Threads : s # r => pc'[s] = pc[s]
  BY DEF ReadThread, ReaderStep, ReadCheck, ReadData, ReadEof, ReadTlsError, ReadExit,
       Feed, Lost, Notify, Notifications, SetState, Goto, TypeInv, LabelInv
<1> QED BY <1>1, NotCountedStep

LEMMA ReadThreadSafe ==
  ASSUME TypeInv, PatientInv, NEW r \in Readers, ReadThread(r), Counting
  PROVE  PatientInv'
<1> USE Kinds
<1>1. CASE Detach(r)
  <2>1. pc[r] = "l_detach" /\ pc'[r] = "done"
    BY <1>1 DEF Detach, TypeInv, LabelInv
  <2>2. dials' = 0
    BY <2>1 DEF Counting
  <2> QED BY <1>1, <2>2, DetachSafe
<1>2. CASE ~Detach(r)
  <2>1. UNCHANGED dials
    BY <1>2, ReadUndisturbing
  <2> QED BY <1>2, <2>1, ReaderSafe, ReadCallbackSafe DEF ReadThread
<1> QED BY <1>1, <1>2

LEMMA ReconnectThreadSafe ==
  ASSUME TypeInv, PatientInv, NEW k \in Reconnectors, ReconnectThread(k), Counting
  PROVE  PatientInv'
<1> USE Kinds
<1>1. CASE Redial(k)
  <2>1. pc[k] = "k_dial" /\ pc'[k] = "tcp_connect"
    BY <1>1 DEF Redial, CallConnect, Goto, TypeInv, LabelInv
  <2>2. \A r \in Readers : pc[r] # "l_detach"
    BY <2>1, WhileReconnecting DEF Live
  <2>3. dials' = dials + 1
    BY <2>1, <2>2 DEF Counting
  <2> QED BY <1>1, <2>3, RedialSafe
<1>2. CASE ~Redial(k)
  <2>1. UNCHANGED dials
    <3>1. CASE TcpStep(k)
      BY <3>1, OwnerMoves, NotCountedStep DEF TcpStep
    <3>2. CASE ~TcpStep(k)
      <4>1. /\ pc[k] \notin {"l_detach", "k_dial"}
            /\ \A s \in Threads : s # k => pc'[s] = pc[s]
        BY <1>2, <3>2 DEF ReconnectThread, LoopTest, Wake, Redialled, RedialStart, RedialFailed,
             GiveUp, Notify, NotifyError, Notifications, CallStartReadLoop, SetState, Goto,
             TypeInv, LabelInv
      <4> QED BY <4>1, NotCountedStep
    <3> QED BY <3>1, <3>2
  <2>2. CASE LoopTest(k) \/ Wake(k)
    BY <2>1, <2>2, LoopSafe, LoopStoppedSafe
  <2>3. CASE Redialled(k) \/ RedialStart(k) \/ RedialFailed(k) \/ GiveUp(k)
    BY <2>1, <2>3, RedialEndSafe
  <2>4. CASE Notify(k)
    BY <2>1, <2>4, ReconnectNotifySafe
  <2>5. CASE TcpStep(k)
    BY <2>1, <2>5, ReconnectTcpSafe
  <2>6. CASE NotifyError(k)
    BY <2>1, <2>6, ReconnectErrorSafe
  <2> QED BY <1>2, <2>2, <2>3, <2>4, <2>5, <2>6 DEF ReconnectThread
<1> QED BY <1>1, <1>2

\* The peer or the network ends a stream.
LEMMA PeerLostSafe ==
  ASSUME TypeInv, PatientInv, NEW s \in Sockets, PeerLost(s), UNCHANGED engine, Counting
  PROVE  PatientInv'
<1>1. /\ UNCHANGED <<pc, ret, sret, at, fd, connected, loopRunning, readThread, aborted>>
      /\ UNCHANGED <<connState, shown, running, policy, parser>>
  BY DEF PeerLost, engine
<1>2. UNCHANGED dials
  BY <1>1, NotCounted
<1>3. DataInv'
  BY <1>1, <1>2 DEF PeerLost, PatientInv, DataInv, TypeInv, DataOK
<1>4. /\ Alone' /\ HandleInv' /\ RestInv' /\ ShownInv'
      /\ \A r \in Readers : ReadInv(r)'
      /\ \A u \in Callers : DialInv(u)' /\ StopInv(u)'
      /\ \A k \in Reconnectors : ReconnectInv(k)'
  BY <1>1, <1>2 DEF PatientInv, Alone, HandleInv, RestInv, ShownInv, ReadInv, DialInv, StopInv,
       ReconnectInv, Live, Active, Waiting, Destroying, Dialling, Stopped
<1> QED BY <1>3, <1>4 DEF PatientInv

\* A thread that waits for itself has shown its state, and stays where it is.
LEMMA BlocksSafe ==
  ASSUME TypeInv, PatientInv, NEW t \in Threads, NotifyBlocks(t), UNCHANGED dials
  PROVE  PatientInv'
<1> USE Kinds
<1>1. /\ UNCHANGED <<pc, ret, sret, at, fd, sock, connected, loopRunning, readThread, aborted>>
      /\ UNCHANGED <<connState, running, policy, parser>>
      /\ pc[t] \in DOMAIN Notifications
  BY DEF NotifyBlocks, vars, shared
<1>2. ShownInv'
  BY <1>1 DEF ShownInv
<1>3. ASSUME NEW u \in Callers, Destroying(u)
      PROVE  FALSE
  <2>1. pc[u] \in StopStage /\ pc[u] \notin DOMAIN Notifications
    BY <1>3 DEF Destroying, StopStage, Notifications
  <2>2. /\ \A v \in Callers : v # u => pc[v] = "idle"
        /\ \A r \in Readers : ~Live(r)
        /\ \A k \in Reconnectors : pc[k] = "none"
    BY <1>3, <2>1, WhileStopping DEF PatientInv, StopInv
  <2>3. t \in Callers \/ t \in Readers \/ t \in Reconnectors
    BY EngineThreads DEF Threads
  <2>4. pc[t] \in {"idle", "none", "done"} \/ t = u
    BY <2>2, <2>3 DEF Live
  <2> QED BY <1>1, <2>1, <2>4 DEF Notifications
<1>4. RestInv'
  <2>1. ASSUME \A u \in Callers : pc[u] \notin DialStage
        PROVE  shown' # "CONNECTING"
    <3>1. pc[t] # "n_connecting"
      <4>1. t \in Callers \/ t \in Readers \/ t \in Reconnectors
        BY EngineThreads DEF Threads
      <4> QED BY <2>1, <4>1 DEF DialStage, TypeInv, KindInv, ReadLabels, ReconnectLabels, TcpLabels
    <3> QED BY <1>1, <3>1 DEF NotifyBlocks, Notifications
  <2> QED BY <1>1, <2>1 DEF PatientInv, RestInv, Stopped
<1>5. /\ Alone' /\ HandleInv' /\ DataInv'
      /\ \A r \in Readers : ReadInv(r)'
      /\ \A k \in Reconnectors : ReconnectInv(k)'
  BY <1>1 DEF PatientInv, Alone, HandleInv, DataInv, ReadInv, ReconnectInv, Live, Active,
       Waiting, Dialling
<1>6. ASSUME NEW u \in Callers PROVE DialInv(u)' /\ StopInv(u)'
  <2>1. ~Destroying(u)'
    BY <1>1, <1>3 DEF Destroying
  <2> QED BY <1>1, <2>1 DEF PatientInv, DialInv, StopInv, Stopped, Live, Waiting
<1> QED BY <1>2, <1>4, <1>5, <1>6 DEF PatientInv

\* One step of any thread.
LEMMA PatientStep ==
  ASSUME Patient, TypeInv, PatientInv, [Next]_allVars
  PROVE  PatientInv'
<1>1. CASE UNCHANGED allVars
  BY <1>1 DEF allVars, vars, shared, engine, PatientInv, Alone, HandleInv, RestInv, ShownInv,
       DataInv, ReadInv, DialInv, StopInv, ReconnectInv, Live, Active, Waiting, Destroying,
       Dialling, Stopped
<1>2. CASE Calling
  BY <1>2, ConnectSafe, DisconnectSafe, DestroySafe DEF Calling
<1>3. CASE Working /\ Counting
  BY <1>3, CallSafe, ReadThreadSafe, ReconnectThreadSafe, PeerLostSafe DEF Working
<1>4. ASSUME NEW t \in Threads, NotifyBlocks(t), UNCHANGED dials
      PROVE  PatientInv'
  BY <1>4, BlocksSafe
<1> QED BY <1>1, <1>2, <1>3, <1>4 DEF Next

LEMMA InitPatient == Init => PatientInv
<1> SUFFICES ASSUME Init PROVE PatientInv
  OBVIOUS
<1>1. /\ \A u \in Callers : pc[u] = "idle"
      /\ \A r \in Readers : pc[r] = "none"
      /\ \A k \in Reconnectors : pc[k] = "none"
  BY Kinds DEF Init
<1>2. /\ fd = NoFd /\ ~connected /\ ~loopRunning /\ readThread = NoThread /\ ~aborted
      /\ connState = "DISCONNECTED" /\ shown = "DISCONNECTED" /\ ~running
      /\ parser = "clean" /\ dials = 0
  BY DEF Init, SharedInit
<1>3. Alone /\ HandleInv /\ RestInv /\ ShownInv /\ DataInv
  BY <1>1, <1>2, DistinctIds, PolicyConfig
     DEF Alone, HandleInv, RestInv, ShownInv, DataInv, Stopped, Live
<1>4. \A r \in Readers : ReadInv(r)
  BY <1>1 DEF ReadInv, Active, Live
<1>5. \A u \in Callers : DialInv(u) /\ StopInv(u)
  BY <1>1 DEF DialInv, StopInv, Destroying, DialStage, StopStage
<1>6. \A k \in Reconnectors : ReconnectInv(k)
  BY <1>1 DEF ReconnectInv, Waiting, Dialling, ReconnectLabels, TcpLabels
<1> QED BY <1>3, <1>4, <1>5, <1>6 DEF PatientInv

\* One patient caller or many, any number of sessions, losses and reconnections: the
\* inductive invariant.
LEMMA PatientInvariant == ASSUME Patient PROVE Spec => [](TypeInv /\ PatientInv)
<1>1. Init => TypeInv /\ PatientInv
  BY InitPatient, InitTyped
<1>2. TypeInv /\ PatientInv /\ [Next]_allVars => (TypeInv /\ PatientInv)'
  BY PatientStep, TypeStep
<1> QED BY <1>1, <1>2, PTL DEF Spec

\* With a patient caller no two threads start, join or replace the read thread at once, so
\* that std::terminate is not reached, and no descriptor is closed under a blocked recv():
\* for any number of callers, read threads, reconnect threads and descriptors.
THEOREM PatientClientIsSafe == ASSUME Patient PROVE Spec => []ClientIsSafe
<1>1. TypeInv /\ PatientInv => ClientIsSafe
  BY DEF PatientInv, DataInv, ReadInv, ClientIsSafe
<1>2. Spec => [](TypeInv /\ PatientInv)
  BY PatientInvariant
<1> QED BY <1>1, <1>2, PTL

\* At rest, the state a patient user has been shown is the one the engine stores.
THEOREM PatientShownIsCurrent == ASSUME Patient PROVE Spec => []ShownIsCurrent
<1>1. TypeInv /\ PatientInv => ShownIsCurrent
  <2> SUFFICES ASSUME TypeInv, PatientInv, AtRest, NEW t \in Threads
               PROVE  pc[t] \notin DOMAIN Notifications
    BY DEF PatientInv, ShownInv, ShownIsCurrent
  <2>1. CASE t \in Callers
    BY <2>1 DEF AtRest, Notifications
  <2>2. CASE t \in Readers
    BY <2>2 DEF AtRest, Notifications, TypeInv, KindInv, ReadLabels
  <2>3. CASE t \in Reconnectors
    BY <2>3 DEF AtRest, Notifications, Dialling
  <2> QED BY <2>1, <2>2, <2>3, EngineThreads DEF Threads
<1>2. Spec => [](TypeInv /\ PatientInv)
  BY PatientInvariant
<1> QED BY <1>1, <1>2, PTL

\* A patient caller's disconnect() is the last word: the engine is and stays DISCONNECTED,
\* without a socket, whatever the read thread and a sleeping reconnect thread do meanwhile.
THEOREM PatientStopIsFinal == ASSUME Patient PROVE Spec => []StoppedIsDisconnected
<1>1. TypeInv /\ PatientInv => StoppedIsDisconnected
  BY DEF PatientInv, RestInv, AtRest, StoppedIsDisconnected
<1>2. Spec => [](TypeInv /\ PatientInv)
  BY PatientInvariant
<1> QED BY <1>1, <1>2, PTL

\* The parser never goes on with a frame of a connection that is gone.
THEOREM PatientStreamUnmixed == ASSUME Patient PROVE Spec => []NoMixedStream
<1>1. TypeInv /\ PatientInv => NoMixedStream
  BY DEF PatientInv, DataInv, NoMixedStream
<1>2. Spec => [](TypeInv /\ PatientInv)
  BY PatientInvariant
<1> QED BY <1>1, <1>2, PTL

\* For every limit of attempts: a loss is worked on by one reconnect thread, which gives
\* up after exactly that many.
THEOREM PatientReconnection == ASSUME Patient PROVE Spec => []OneReconnection
<1>1. TypeInv /\ PatientInv => OneReconnection
  <2> SUFFICES ASSUME TypeInv, PatientInv PROVE OneReconnection
    OBVIOUS
  <2>1. dials <= MaxAttempts
    BY DEF PatientInv, DataInv
  <2>2. \A j, k \in Reconnectors : Dialling(j) /\ Dialling(k) => j = k
    BY DEF PatientInv, Alone, Dialling
  <2>3. \A k \in Reconnectors : pc[k] = "k_giveup" => dials = MaxAttempts
    BY DEF PatientInv, ReconnectInv
  <2> QED BY <2>1, <2>2, <2>3 DEF OneReconnection
<1>2. Spec => [](TypeInv /\ PatientInv)
  BY PatientInvariant
<1> QED BY <1>1, <1>2, PTL

--------------------------------------------------------------------------------
(* The error callback                                                           *)

\* The thread has a failure to report.
Reports(t) == pc[t] \in {"n_failed", "e_failed", "n_gaveup", "e_gaveup"}

\* An engine that is not DISCONNECTED has nothing to report; one that became so by itself
\* reports it, or has reported it once.
ErrorInv ==
  /\ errors <= 1
  /\ connState # "DISCONNECTED" => errors = 0
  /\ \A t \in Threads : Reports(t) => errors = 0
  /\ running /\ connState = "DISCONNECTED" => errors = 1 \/ \E t \in Threads : Reports(t)

\* A step on which no thread begins or ends to report.
LEMMA ErrorsStay ==
  ASSUME ErrorInv, Counting, UNCHANGED <<connState, running>>,
         \A t \in Threads : Reports(t)' <=> Reports(t),
         \A t \in Threads : pc[t] \in {"e_failed", "e_gaveup"} => pc'[t] = pc[t]
  PROVE  ErrorInv'
<1>1. UNCHANGED errors
  BY DEF Counting
<1> QED BY <1>1 DEF ErrorInv

\* A step of TcpClient.
LEMMA OwnerErrors ==
  ASSUME TypeInv, TypeInv', ErrorInv, Counting, NEW t \in Owners, OwnerStep(t),
         UNCHANGED <<connState, running>>
  PROVE  ErrorInv'
<1> USE Kinds
<1>1. pc[t] \notin {"n_failed", "e_failed", "n_gaveup", "e_gaveup"}
  BY DEF OwnerStep, ConnectCheck, Established, DialFailed, HandshakeOk, HandshakeFailed,
         StartReadLoop, SpawnReader, StopReadLoop, JoinReader, CloseSocket
<1>2. pc'[t] \notin {"n_failed", "e_failed", "n_gaveup", "e_gaveup"}
  BY DEF OwnerStep, ConnectCheck, Established, DialFailed, HandshakeOk, HandshakeFailed,
         StartReadLoop, SpawnReader, StopReadLoop, JoinReader, CloseSocket, EnterDisconnect,
         Goto, TypeInv, LabelInv, DataOK
<1>3. \A o \in Owners : o # t => pc'[o] = pc[o]
  BY OthersStay
<1>4. \A r \in Readers : ~Reports(r) /\ ~Reports(r)'
  BY DEF TypeInv, KindInv, ReadLabels, Reports
<1>5. ASSUME NEW s \in Threads
      PROVE  /\ Reports(s)' <=> Reports(s)
             /\ pc[s] \in {"e_failed", "e_gaveup"} => pc'[s] = pc[s]
  <2>1. CASE s \in Readers
    BY <1>4, <2>1 DEF Reports
  <2>2. CASE s \in Owners
    BY <1>1, <1>2, <1>3, <2>2 DEF Reports
  <2> QED BY <2>1, <2>2, EngineThreads DEF Threads
<1> QED BY <1>5, ErrorsStay

\* A thread goes from one place to another, and no other thread does.
LEMMA GoesErrors ==
  ASSUME TypeInv, ErrorInv, NEW t \in Threads, NEW label, Goto(t, label)
  PROVE  /\ \A s \in Threads : pc'[s] = IF s = t THEN label ELSE pc[s]
         /\ Counting /\ pc[t] \notin {"e_failed", "e_gaveup"} => UNCHANGED errors
         /\ Counting /\ UNCHANGED <<connState, running>> /\ ~Reports(t)
              /\ label \notin {"n_failed", "e_failed", "n_gaveup", "e_gaveup"} => ErrorInv'
<1>1. \A s \in Threads : pc'[s] = IF s = t THEN label ELSE pc[s]
  BY DEF Goto, TypeInv, LabelInv
<1>2. Counting /\ pc[t] \notin {"e_failed", "e_gaveup"} => UNCHANGED errors
  BY <1>1 DEF Counting
<1>3. ASSUME Counting, UNCHANGED <<connState, running>>, ~Reports(t),
             label \notin {"n_failed", "e_failed", "n_gaveup", "e_gaveup"}
      PROVE  ErrorInv'
  BY <1>1, <1>3, ErrorsStay DEF Reports
<1> QED BY <1>1, <1>2, <1>3

\* A thread that has been told off stays so: the notification before the error.
LEMMA NotifyErrors ==
  ASSUME TypeInv, ErrorInv, NEW t \in Threads, Notify(t), Counting
  PROVE  ErrorInv'
<1>1. pc[t] \in DOMAIN Notifications /\ Goto(t, Notifications[pc[t]].next)
      /\ UNCHANGED <<connState, running>>
  BY DEF Notify
<1>2. \/ /\ pc[t] \in {"n_failed", "n_gaveup"}
         /\ Notifications[pc[t]].next \in {"e_failed", "e_gaveup"}
      \/ /\ ~Reports(t) /\ pc[t] \notin {"e_failed", "e_gaveup"}
         /\ Notifications[pc[t]].next \notin {"n_failed", "e_failed", "n_gaveup", "e_gaveup"}
  BY <1>1 DEF Notifications, Reports
<1>3. \A s \in Threads : pc'[s] = IF s = t THEN Notifications[pc[t]].next ELSE pc[s]
  BY <1>1, GoesErrors
<1>4. \A s \in Threads : Reports(s)' <=> Reports(s)
  BY <1>2, <1>3 DEF Reports
<1>5. \A s \in Threads : pc[s] \in {"e_failed", "e_gaveup"} => pc'[s] = pc[s]
  BY <1>2, <1>3
<1> QED BY <1>1, <1>4, <1>5, ErrorsStay

\* The error is reported, and there is no other thread that reports.
LEMMA ReportErrors ==
  ASSUME TypeInv, PatientInv, ErrorInv, NEW t \in Threads, NotifyError(t), Counting
  PROVE  ErrorInv'
<1> USE Kinds
<1>1. pc[t] \in {"e_failed", "e_gaveup"} /\ errors = 0
  BY DEF NotifyError, ErrorInv, Reports
<1>2. t \in Callers \/ t \in Reconnectors
  BY <1>1, EngineThreads DEF Threads, TypeInv, KindInv, ReadLabels
<1>3. connState = "DISCONNECTED" /\ UNCHANGED <<connState, running>>
  BY <1>1, <1>2 DEF NotifyError, engine, PatientInv, DialInv, ReconnectInv, TypeInv, KindInv,
     CallerLabels, ReconnectLabels, TcpLabels
<1>4. \A s \in Threads : s # t => ~Reports(s)
  <2>1. \A r \in Readers : ~Reports(r)
    BY DEF TypeInv, KindInv, ReadLabels, Reports
  <2>2. ASSUME t \in Callers PROVE \A s \in Owners : s # t => pc[s] \in {"idle", "none"}
    <3>1. pc[t] \in DialStage
      BY <1>1, <2>2 DEF DialStage, TypeInv, KindInv, CallerLabels, TcpLabels
    <3> QED BY <2>2, <3>1, WhileDialling, EngineThreads
  <2>3. ASSUME t \in Reconnectors PROVE \A s \in Owners : s # t => pc[s] \in {"idle", "none"}
    <3>1. pc[t] # "none" /\ Dialling(t)
      BY <1>1 DEF Dialling
    <3>2. running
      BY <2>3, <3>1 DEF PatientInv, ReconnectInv
    <3> QED BY <2>3, <3>1, <3>2, WhileReconnecting, EngineThreads
  <2>4. ASSUME NEW s \in Threads, s # t PROVE ~Reports(s)
    <3>1. CASE s \in Readers
      BY <2>1, <3>1
    <3>2. CASE s \in Owners
      <4>1. pc[s] \in {"idle", "none"}
        BY <1>2, <2>2, <2>3, <2>4, <3>2
      <4> QED BY <4>1 DEF Reports
    <3> QED BY <3>1, <3>2, EngineThreads DEF Threads
  <2> QED BY <2>4
<1>5. PICK label \in {"idle", "none"} : Goto(t, label)
  BY <1>1 DEF NotifyError
<1>6. \A s \in Threads : pc'[s] = IF s = t THEN label ELSE pc[s]
  BY <1>5, GoesErrors
<1>7. errors' = 1
  BY <1>1, <1>5, <1>6 DEF Counting
<1>8. \A s \in Threads : ~Reports(s)'
  BY <1>4, <1>5, <1>6 DEF Reports
<1> QED BY <1>3, <1>7, <1>8 DEF ErrorInv

LEMMA CallErrors ==
  ASSUME TypeInv, TypeInv', PatientInv, ErrorInv, NEW u \in Callers, Call(u), Counting
  PROVE  ErrorInv'
<1> USE Kinds
<1>1. CASE ConnectReset(u) \/ DisconnectClose(u) \/ DestroyClose(u) \/ DestroyDone(u)
  <2>1. PICK label \in {"tcp_connect", "idle", "d_done", "x_done", "tcp_stop"} : Goto(u, label)
    BY <1>1 DEF ConnectReset, DisconnectClose, DestroyClose, DestroyDone, CallConnect,
       CallDisconnect, EnterDisconnect
  <2>2. UNCHANGED <<connState, running>> /\ ~Reports(u)
    BY <1>1 DEF ConnectReset, DisconnectClose, DestroyClose, DestroyDone, engine, Reports
  <2> QED BY <2>1, <2>2, GoesErrors
<1>2. CASE ConnectFailed(u)
  <2>1. /\ pc[u] = "tcp_failed" /\ Goto(u, "n_failed")
        /\ connState' = "DISCONNECTED" /\ UNCHANGED running
    BY <1>2 DEF ConnectFailed, SetState
  <2>2. errors = 0
    BY <2>1 DEF PatientInv, DialInv, ErrorInv
  <2>3. UNCHANGED errors /\ Reports(u)'
    BY <2>1, GoesErrors DEF Reports
  <2> QED BY <2>1, <2>2, <2>3 DEF ErrorInv
<1>3. CASE ConnectOk(u)
  <2>1. /\ pc[u] = "tcp_ok" /\ Goto(u, "n_connected") /\ connState' = "CONNECTED"
    BY <1>3 DEF ConnectOk, SetState
  <2>2. errors = 0
    BY <2>1 DEF PatientInv, DialInv, ErrorInv
  <2>3. UNCHANGED errors
    BY <2>1, GoesErrors
  <2> QED BY <2>1, <2>2, <2>3 DEF ErrorInv
<1>4. CASE ConnectRun(u)
  <2>1. pc[u] = "c_run" /\ Goto(u, "tcp_start") /\ UNCHANGED connState
    BY <1>4 DEF ConnectRun, CallStartReadLoop
  <2>2. connState = "CONNECTED" /\ errors = 0
    BY <2>1 DEF PatientInv, DialInv, ErrorInv
  <2>3. UNCHANGED errors
    BY <2>1, GoesErrors
  <2> QED BY <2>1, <2>2, <2>3 DEF ErrorInv
<1>5. CASE DisconnectDone(u)
  <2>1. /\ pc[u] = "d_done" /\ Goto(u, "n_disconnected") /\ connState' = "DISCONNECTED"
        /\ UNCHANGED running
    BY <1>5 DEF DisconnectDone, SetState
  <2>2. ~running
    BY <2>1 DEF PatientInv, StopInv, StopStage
  <2>3. /\ UNCHANGED errors
        /\ \A s \in Threads : pc'[s] = IF s = u THEN "n_disconnected" ELSE pc[s]
    BY <2>1, GoesErrors
  <2> QED BY <2>1, <2>2, <2>3 DEF ErrorInv, Reports
<1>6. CASE Notify(u)
  BY <1>6, NotifyErrors
<1>7. CASE NotifyError(u)
  BY <1>7, ReportErrors
<1>8. CASE TcpStep(u)
  BY <1>8, OwnerErrors DEF TcpStep
<1> QED BY <1>1, <1>2, <1>3, <1>4, <1>5, <1>6, <1>7, <1>8 DEF Call

LEMMA ReadErrors ==
  ASSUME TypeInv, TypeInv', PatientInv, ErrorInv, NEW r \in Readers, ReadThread(r), Counting
  PROVE  ErrorInv'
<1> USE Kinds
<1>1. CASE Detach(r)
  <2>1. /\ UNCHANGED <<connState, running>>
        /\ \A s \in Owners : pc'[s] # pc[s] => pc[s] = "none" /\ pc'[s] = "k_loop"
    BY <1>1 DEF Detach, TypeInv, LabelInv
  <2>2. \A q \in Readers : ~Reports(q) /\ ~Reports(q)'
    BY DEF TypeInv, KindInv, ReadLabels, Reports
  <2>3. ASSUME NEW s \in Threads
        PROVE  /\ Reports(s)' <=> Reports(s)
               /\ pc[s] \in {"e_failed", "e_gaveup"} => pc'[s] = pc[s]
    <3>1. CASE s \in Readers
      BY <2>2, <3>1 DEF Reports
    <3>2. CASE s \in Owners
      BY <2>1, <3>2 DEF Reports
    <3> QED BY <3>1, <3>2, EngineThreads DEF Threads
  <2> QED BY <2>1, <2>3, ErrorsStay
<1>2. CASE Lost(r)
  <2>1. pc[r] = "lost" /\ Goto(r, "n_lost") /\ connState' = "RECONNECTING"
    BY <1>2 DEF Lost, SetState
  <2>2. errors = 0
    BY <2>1 DEF PatientInv, ReadInv, ErrorInv
  <2>3. UNCHANGED errors
    BY <2>1, GoesErrors
  <2> QED BY <2>1, <2>2, <2>3 DEF ErrorInv
<1>3. CASE ReaderStep(r) \/ Feed(r)
  <2>1. PICK label \in {"recv", "check", "exit", "feed", "lost", "done"} : Goto(r, label)
    BY <1>3 DEF ReaderStep, ReadCheck, ReadData, ReadEof, ReadTlsError, ReadExit, Feed
  <2>2. UNCHANGED <<connState, running>> /\ ~Reports(r)
    BY <1>3 DEF ReadThread, Feed, ReaderStep, ReadCheck, ReadData, ReadEof, ReadTlsError,
       ReadExit, engine, Lost, Detach, Notify, Notifications, Reports
  <2> QED BY <2>1, <2>2, GoesErrors
<1>4. CASE Notify(r)
  BY <1>4, NotifyErrors
<1> QED BY <1>1, <1>2, <1>3, <1>4 DEF ReadThread

LEMMA ReconnectErrors ==
  ASSUME TypeInv, TypeInv', PatientInv, ErrorInv, NEW k \in Reconnectors, ReconnectThread(k),
         Counting
  PROVE  ErrorInv'
<1> USE Kinds
<1>1. CASE LoopTest(k) \/ Wake(k) \/ Redial(k) \/ RedialStart(k) \/ RedialFailed(k)
  <2>1. PICK label \in {"k_sleep", "k_dial", "none", "tcp_connect", "tcp_start", "n_last", "n_retry"} :
          Goto(k, label)
    BY <1>1 DEF LoopTest, Wake, Redial, RedialStart, RedialFailed, CallConnect, CallStartReadLoop
  <2>2. UNCHANGED <<connState, running>> /\ ~Reports(k)
    BY <1>1 DEF LoopTest, Wake, Redial, RedialStart, RedialFailed, engine, Reports
  <2> QED BY <2>1, <2>2, GoesErrors
<1>2. CASE Redialled(k)
  <2>1. pc[k] = "tcp_ok" /\ Goto(k, "n_redialled") /\ connState' = "CONNECTED"
    BY <1>2 DEF Redialled, SetState
  <2>2. errors = 0
    BY <2>1 DEF PatientInv, ReconnectInv, ErrorInv
  <2>3. UNCHANGED errors
    BY <2>1, GoesErrors
  <2> QED BY <2>1, <2>2, <2>3 DEF ErrorInv
<1>3. CASE GiveUp(k)
  <2>1. pc[k] = "k_giveup" /\ Goto(k, "n_gaveup") /\ connState' = "DISCONNECTED"
    BY <1>3 DEF GiveUp, SetState
  <2>2. errors = 0
    BY <2>1 DEF PatientInv, ReconnectInv, ErrorInv
  <2>3. UNCHANGED errors /\ Reports(k)'
    BY <2>1, GoesErrors DEF Reports
  <2> QED BY <2>1, <2>2, <2>3 DEF ErrorInv
<1>4. CASE Notify(k)
  BY <1>4, NotifyErrors
<1>5. CASE NotifyError(k)
  BY <1>5, ReportErrors
<1>6. CASE TcpStep(k)
  BY <1>6, OwnerErrors DEF TcpStep
<1> QED BY <1>1, <1>2, <1>3, <1>4, <1>5, <1>6 DEF ReconnectThread

LEMMA ErrorStep ==
  ASSUME Patient, TypeInv, TypeInv', PatientInv, ErrorInv, [Next]_allVars
  PROVE  ErrorInv'
<1> USE Kinds
<1>1. CASE UNCHANGED allVars
  BY <1>1 DEF allVars, vars, engine, ErrorInv, Reports
<1>2. CASE (\E t \in Threads : NotifyBlocks(t)) /\ UNCHANGED <<calls, dials, errors>>
  BY <1>2 DEF NotifyBlocks, vars, ErrorInv, Reports
<1>3. CASE Calling
  <2>1. PICK u \in Callers : Connect(u) \/ Disconnect(u) \/ Destroy(u)
    BY <1>3 DEF Calling
  <2>2. CASE Connect(u)
    <3>1. /\ connState' = "CONNECTING" /\ pc'[u] = "n_connecting"
      BY <2>2 DEF Connect, SetState, Goto, TypeInv, LabelInv
    <3> QED BY <1>3, <3>1 DEF Calling, ErrorInv
  <2>3. CASE Disconnect(u) \/ Destroy(u)
    <3>1. /\ Goto(u, "tcp_stop") /\ \A v \in Callers : pc[v] = "idle"
          /\ ~running' /\ UNCHANGED connState
      BY <2>3 DEF Disconnect, Destroy, MayDisconnect, CallStopReadLoop
    <3>2. \A s \in Threads : pc'[s] = IF s = u THEN "tcp_stop" ELSE pc[s]
      BY <3>1, GoesErrors
    <3>3. UNCHANGED errors
      BY <1>3, <3>1, <3>2 DEF Calling
    <3> QED BY <3>1, <3>2, <3>3 DEF ErrorInv, Reports
  <2> QED BY <2>1, <2>2, <2>3
<1>4. CASE Working /\ Counting
  <2>1. ASSUME NEW s \in Sockets, PeerLost(s), UNCHANGED engine PROVE ErrorInv'
    BY <1>4, <2>1, ErrorsStay DEF PeerLost, engine, Reports
  <2> QED BY <1>4, <2>1, CallErrors, ReadErrors, ReconnectErrors DEF Working
<1> QED BY <1>1, <1>2, <1>3, <1>4 DEF Next

\* Through any number of calls of a patient caller, losses and reconnections: an engine
\* that has become DISCONNECTED by itself has reported one error since the last connect(),
\* and one that is connected, or reconnects, has reported none.
THEOREM PatientFailureIsReported == ASSUME Patient PROVE Spec => []FailureIsReported
<1>1. Init => TypeInv /\ PatientInv /\ ErrorInv
  <2>1. Init => ErrorInv
    BY Kinds DEF Init, ErrorInv, Reports
  <2> QED BY <2>1, InitPatient, InitTyped
<1>2. TypeInv /\ PatientInv /\ ErrorInv /\ [Next]_allVars => (TypeInv /\ PatientInv /\ ErrorInv)'
  BY PatientStep, TypeStep, ErrorStep
<1>3. TypeInv /\ PatientInv /\ ErrorInv => FailureIsReported
  <2> SUFFICES ASSUME TypeInv, ErrorInv, AtRest, NEW t \in Threads PROVE ~Reports(t)
    BY DEF ErrorInv, FailureIsReported
  <2>1. CASE t \in Callers
    BY <2>1 DEF AtRest, Reports
  <2>2. CASE t \in Readers
    BY <2>2 DEF Reports, TypeInv, KindInv, ReadLabels
  <2>3. CASE t \in Reconnectors
    BY <2>3 DEF AtRest, Reports, Dialling
  <2> QED BY <2>1, <2>2, <2>3, EngineThreads DEF Threads
<1> QED BY <1>1, <1>2, <1>3, PTL DEF Spec

--------------------------------------------------------------------------------
(* ReconnectPolicy: the delays                                                  *)

\* A set of numbers has a least one.
LEMMA LeastOf ==
  ASSUME NEW S, S \subseteq Nat, S # {}
  PROVE  \E m \in S : \A n \in S : m <= n
<1>1. \A m, n \in Nat : m < n => <<m, n>> \in OpToRel(<, Nat)
  BY DEF OpToRel
<1>2. PICK m \in S : \A n \in S : ~(<<n, m>> \in OpToRel(<, Nat))
  BY NatLessThanWellFounded, WFMin
<1>3. ASSUME NEW n \in S PROVE m <= n
  <2>1. m \in Nat /\ n \in Nat /\ ~(n < m)
    BY <1>1, <1>2
  <2> QED BY <2>1
<1> QED BY <1>3

\* A recursion that starts with a number and goes on with a step from each value to the
\* next: the values up to the first b are the start.
Iterate(f, n, start, b, step) == IF n <= b THEN start ELSE step[f[n - 1]]

\* Its values up to n.
Iterates(n, start, b, step) ==
  {g \in [0..n -> Nat] : \A m \in 0..n : g[m] = Iterate(g, m, start, b, step)}

\* A function on the numbers below m goes on with any value.
Extensions(g, m, v) == {h \in [0..m -> Nat] : h[m] = v /\ \A i \in 0..(m - 1) : h[i] = g[i]}

LEMMA GoesOn ==
  ASSUME NEW m \in Nat \ {0}, NEW g \in [0..(m - 1) -> Nat], NEW v \in Nat
  PROVE  Extensions(g, m, v) # {}
<1> DEFINE h == [i \in 0..m |-> IF i = m THEN v ELSE g[i]]
<1>1. h \in [0..m -> Nat]
  <2>1. ASSUME NEW i \in 0..m PROVE (IF i = m THEN v ELSE g[i]) \in Nat
    <3>1. i # m => i \in 0..(m - 1)
      OBVIOUS
    <3> QED BY <3>1
  <2> QED BY <2>1
<1>2. h[m] = v
  OBVIOUS
<1>3. \A i \in 0..(m - 1) : h[i] = g[i]
  OBVIOUS
<1> HIDE DEF h
<1>4. h \in Extensions(g, m, v)
  BY <1>1, <1>2, <1>3 DEF Extensions
<1> QED BY <1>4

\* There are such values, for any n ...
LEMMA IteratesExist ==
  ASSUME NEW start \in Nat, NEW b \in Nat, NEW step \in [Nat -> Nat], NEW n \in Nat
  PROVE  Iterates(n, start, b, step) # {}
<1> DEFINE Its(m) == Iterates(m, start, b, step)
           Missing == {m \in Nat : Its(m) = {}}
<1> SUFFICES ASSUME Missing # {} PROVE FALSE
  OBVIOUS
<1>1. PICK m \in Missing : \A k \in Missing : m <= k
  BY LeastOf
<1>2. CASE m = 0
  <2>1. [i \in 0..0 |-> start] \in Its(0)
    BY DEF Iterates, Iterate
  <2> QED BY <1>2, <2>1
<1>3. CASE m # 0
  <2>1. m \in Nat /\ m - 1 \in Nat /\ m - 1 \notin Missing
    BY <1>1, <1>3
  <2>2. PICK g \in Its(m - 1) : TRUE
    BY <2>1
  <2>3. g \in [0..(m - 1) -> Nat] /\ \A i \in 0..(m - 1) : g[i] = Iterate(g, i, start, b, step)
    BY <2>2 DEF Iterates
  <2>4. PICK v \in Nat : v = Iterate(g, m, start, b, step)
    BY <2>1, <2>3 DEF Iterate
  <2>e. PICK h \in Extensions(g, m, v) : TRUE
    <3>1. m \in Nat \ {0} /\ g \in [0..(m - 1) -> Nat]
      BY <2>1, <2>3, <1>3
    <3> QED BY <3>1, GoesOn
  <2>5. h \in [0..m -> Nat] /\ h[m] = v /\ \A i \in 0..(m - 1) : h[i] = g[i]
    BY <2>e DEF Extensions
  <2>6. ASSUME NEW i \in 0..m PROVE h[i] = Iterate(h, i, start, b, step)
    <3>1. i > b => h[i - 1] = g[i - 1]
      BY <2>1, <2>5
    <3>2. h[i] = Iterate(g, i, start, b, step)
      <4>1. i # m => i \in 0..(m - 1)
        BY <2>1
      <4> QED BY <2>3, <2>4, <2>5, <4>1
    <3>3. Iterate(h, i, start, b, step) = Iterate(g, i, start, b, step)
      <4>1. ~(i <= b) => i > b
        OBVIOUS
      <4> QED BY <3>1, <4>1, Zenon DEF Iterate
    <3> QED BY <3>2, <3>3
  <2>7. h \in Its(m)
    BY <2>5, <2>6 DEF Iterates
  <2> QED BY <2>7
<1> QED BY <1>2, <1>3

\* ... and a further one does not change them.
LEMMA IteratesAgree ==
  ASSUME NEW start \in Nat, NEW b \in Nat, NEW step \in [Nat -> Nat], NEW n \in Nat,
         NEW g \in Iterates(n, start, b, step), NEW h \in Iterates(n + 1, start, b, step)
  PROVE  g[n] = h[n]
<1> DEFINE Differ == {i \in 0..n : g[i] # h[i]}
<1> SUFFICES ASSUME Differ # {} PROVE FALSE
  OBVIOUS
<1>1. PICK i \in Differ : \A k \in Differ : i <= k
  <2>1. Differ \subseteq Nat
    OBVIOUS
  <2> QED BY <2>1, LeastOf
<1>2. /\ i \in 0..n
      /\ g[i] = Iterate(g, i, start, b, step) /\ h[i] = Iterate(h, i, start, b, step)
  BY DEF Iterates
<1>3. i > b => g[i - 1] = h[i - 1]
  BY <1>1, <1>2
<1> QED BY <1>2, <1>3 DEF Iterate

\* The recursion has a solution, and its solutions are functions to the numbers.
IsIteration(f, start, b, step) == f = [n \in Nat |-> Iterate(f, n, start, b, step)]

LEMMA IterationIs ==
  ASSUME NEW start \in Nat, NEW b \in Nat, NEW step \in [Nat -> Nat]
  PROVE  /\ \E f : IsIteration(f, start, b, step)
         /\ \A f : IsIteration(f, start, b, step) => f \in [Nat -> Nat]
<1> DEFINE G(n) == CHOOSE g \in Iterates(n, start, b, step) : TRUE
           f == [n \in Nat |-> G(n)[n]]
<1>1. \A n \in Nat : G(n) \in Iterates(n, start, b, step)
  BY IteratesExist
<1>2. ASSUME NEW n \in Nat PROVE f[n] = Iterate(f, n, start, b, step)
  <2>1. G(n)[n] = Iterate(G(n), n, start, b, step)
    <3>1. G(n) \in Iterates(n, start, b, step) /\ n \in 0..n
      BY <1>1
    <3> HIDE DEF G
    <3> QED BY <3>1 DEF Iterates
  <2>2. n > b => G(n)[n - 1] = G(n - 1)[n - 1]
    <3>1. n > b => n - 1 \in Nat /\ (n - 1) + 1 = n
      OBVIOUS
    <3> HIDE DEF G
    <3> QED BY <1>1, <3>1, IteratesAgree
  <2>3. f[n] = G(n)[n] /\ (n > b => f[n - 1] = G(n - 1)[n - 1])
    OBVIOUS
  <2> HIDE DEF f, G
  <2> QED BY <2>1, <2>2, <2>3 DEF Iterate
<1>3. IsIteration(f, start, b, step)
  BY <1>2 DEF IsIteration
<1>4. ASSUME NEW g, IsIteration(g, start, b, step)
      PROVE  g \in [Nat -> Nat]
  <2>1. \A n \in Nat : g[n] = Iterate(g, n, start, b, step)
    BY <1>4 DEF IsIteration
  <2>2. \A n \in Nat : g[n] \in Nat
    <3> DEFINE Other == {m \in Nat : g[m] \notin Nat}
    <3> SUFFICES ASSUME Other # {} PROVE FALSE
      OBVIOUS
    <3>1. PICK m \in Other : \A k \in Other : m <= k
      BY LeastOf
    <3>2. m > b => g[m - 1] \in Nat
      BY <3>1
    <3>3. g[m] = Iterate(g, m, start, b, step)
      BY <2>1
    <3> QED BY <3>2, <3>3 DEF Iterate
  <2> QED BY <1>4, <2>2 DEF IsIteration
<1> HIDE DEF f
<1> QED BY <1>3, <1>4

\* What the loop of getNextDelayMs() does to the delay of the pass before.
Pass(ms) == IF ms < MaxDelayMs THEN 2 * ms ELSE ms

\* Doubled and PowerOfTwo are the functions their definitions describe.
LEMMA DoubledIs ==
  /\ \A n \in Nat : Doubled[n] \in Nat
  /\ \A n \in Nat : Doubled[n] = IF n <= 1 THEN InitialDelayMs ELSE Pass(Doubled[n - 1])
<1> DEFINE step == [x \in Nat |-> Pass(x)]
           Solves(f) ==
             f = [n \in Nat |-> IF n <= 1 THEN InitialDelayMs
                                ELSE IF f[n - 1] < MaxDelayMs THEN 2 * f[n - 1] ELSE f[n - 1]]
<1>1. InitialDelayMs \in Nat /\ 1 \in Nat /\ step \in [Nat -> Nat]
  BY PolicyConfig DEF Pass
<1>2. PICK f : IsIteration(f, InitialDelayMs, 1, step) /\ f \in [Nat -> Nat]
  <2> HIDE DEF step
  <2> QED BY <1>1, IterationIs
<1>4. Solves(f)
  <2>1. ASSUME NEW n \in Nat
        PROVE  Iterate(f, n, InitialDelayMs, 1, step) =
                 IF n <= 1 THEN InitialDelayMs
                 ELSE IF f[n - 1] < MaxDelayMs THEN 2 * f[n - 1] ELSE f[n - 1]
    BY <1>2 DEF Iterate, Pass
  <2> QED BY <1>2, <2>1 DEF IsIteration
<1>5. Solves(Doubled)
  BY <1>4, Zenon DEF Doubled
<1>6. ASSUME NEW n \in Nat
      PROVE  Doubled[n] = IF n <= 1 THEN InitialDelayMs ELSE Pass(Doubled[n - 1])
  BY <1>5 DEF Pass
<1>7. \A n \in Nat : Doubled[n] \in Nat
  <2> DEFINE Other == {m \in Nat : Doubled[m] \notin Nat}
  <2> SUFFICES ASSUME Other # {} PROVE FALSE
    OBVIOUS
  <2>1. PICK m \in Other : \A k \in Other : m <= k
    BY LeastOf
  <2>2. m > 1 => Doubled[m - 1] \in Nat
    BY <2>1
  <2>3. Doubled[m] = IF m <= 1 THEN InitialDelayMs ELSE Pass(Doubled[m - 1])
    BY <1>6
  <2> QED BY <2>2, <2>3, PolicyConfig DEF Pass
<1> QED BY <1>6, <1>7

\* For every number of attempts and every two delays: getNextDelayMs() answers the initial
\* delay before the first two attempts, then the double of what it answered before, up to
\* the greatest delay; never less than the one nor more than the other.
THEOREM DelaysDouble ==
  ASSUME NEW p \in Policies
  PROVE  /\ p.attempt <= 1 => NextDelayMs(p) = InitialDelayMs
         /\ p.attempt >= 1 => NextDelayMs(OnAttemptFailed(p)) = Capped(2 * NextDelayMs(p))
         /\ NextDelayMs(p) \in InitialDelayMs..MaxDelayMs
<1> PICK n \in Nat : n = p.attempt
  BY DEF Policies
<1>1. \A m \in Nat : /\ Doubled[m] = IF m <= 1 THEN InitialDelayMs ELSE Pass(Doubled[m - 1])
                     /\ Doubled[m] \in Nat
  BY DoubledIs
<1>2. InitialDelayMs \in Nat /\ MaxDelayMs \in Nat /\ InitialDelayMs <= MaxDelayMs
  BY PolicyConfig
<1>3. n <= 1 => NextDelayMs(p) = InitialDelayMs
  BY <1>1, <1>2 DEF NextDelayMs, Pass
<1>4. n >= 1 => Doubled[n + 1] = IF Doubled[n] < MaxDelayMs THEN 2 * Doubled[n] ELSE Doubled[n]
  BY <1>1 DEF Pass
<1>5. OnAttemptFailed(p).attempt = n + 1
  BY DEF OnAttemptFailed, Policies
<1>6. n >= 1 => NextDelayMs(OnAttemptFailed(p)) = Capped(2 * NextDelayMs(p))
  BY <1>1, <1>2, <1>4, <1>5 DEF NextDelayMs, Capped
<1>7. InitialDelayMs <= Doubled[n]
  <2> DEFINE Less == {m \in Nat : Doubled[m] < InitialDelayMs}
  <2> SUFFICES ASSUME Less # {} PROVE FALSE
    BY <1>1, <1>2
  <2>1. PICK m \in Less : \A k \in Less : m <= k
    BY LeastOf
  <2>2. m > 1 => ~(Doubled[m - 1] < InitialDelayMs) /\ Doubled[m - 1] \in Nat
    BY <1>1, <2>1
  <2>3. /\ Doubled[m] = IF m <= 1 THEN InitialDelayMs ELSE Pass(Doubled[m - 1])
        /\ Doubled[m] < InitialDelayMs
    BY <1>1
  <2> QED BY <1>2, <2>2, <2>3 DEF Pass
<1> QED BY <1>1, <1>2, <1>3, <1>6, <1>7 DEF NextDelayMs

LEMMA PowerIs ==
  /\ \A n \in Nat : PowerOfTwo[n] \in Nat
  /\ \A n \in Nat : PowerOfTwo[n] = IF n = 0 THEN 1 ELSE 2 * PowerOfTwo[n - 1]
<1> DEFINE step == [x \in Nat |-> 2 * x]
           Solves(f) == f = [n \in Nat |-> IF n = 0 THEN 1 ELSE 2 * f[n - 1]]
<1>1. 1 \in Nat /\ 0 \in Nat /\ step \in [Nat -> Nat]
  OBVIOUS
<1>2. PICK f : IsIteration(f, 1, 0, step) /\ f \in [Nat -> Nat]
  <2> HIDE DEF step
  <2> QED BY <1>1, IterationIs
<1>3. Solves(f)
  <2>1. ASSUME NEW n \in Nat
        PROVE  Iterate(f, n, 1, 0, step) = IF n = 0 THEN 1 ELSE 2 * f[n - 1]
    BY <1>2 DEF Iterate
  <2> QED BY <1>2, <2>1 DEF IsIteration
<1>4. Solves(PowerOfTwo)
  BY <1>3, Zenon DEF PowerOfTwo
<1>5. \A n \in Nat : PowerOfTwo[n] = IF n = 0 THEN 1 ELSE 2 * PowerOfTwo[n - 1]
  BY <1>4
<1>6. \A n \in Nat : PowerOfTwo[n] \in Nat
  <2> DEFINE Other == {m \in Nat : PowerOfTwo[m] \notin Nat}
  <2> SUFFICES ASSUME Other # {} PROVE FALSE
    OBVIOUS
  <2>1. PICK m \in Other : \A k \in Other : m <= k
    BY LeastOf
  <2>2. m # 0 => PowerOfTwo[m - 1] \in Nat
    BY <2>1
  <2>3. PowerOfTwo[m] = IF m = 0 THEN 1 ELSE 2 * PowerOfTwo[m - 1]
    BY <1>5
  <2> QED BY <2>2, <2>3
<1> QED BY <1>5, <1>6

\* The initial delay, doubled n times and never capped.
Uncapped(n) == InitialDelayMs * PowerOfTwo[n]

LEMMA UncappedIs ==
  /\ Uncapped(0) = InitialDelayMs
  /\ \A n \in Nat : Uncapped(n) \in Nat
  /\ \A n \in Nat \ {0} : Uncapped(n) = 2 * Uncapped(n - 1)
<1>1. \A a, b \in Nat : a * b \in Nat /\ a * (2 * b) = 2 * (a * b)
  OBVIOUS
<1>2. InitialDelayMs \in Nat /\ InitialDelayMs * 1 = InitialDelayMs
  BY PolicyConfig
<1>3. PowerOfTwo[0] = 1 /\ \A n \in Nat : PowerOfTwo[n] \in Nat
  BY PowerIs
<1>4. ASSUME NEW n \in Nat \ {0} PROVE Uncapped(n) = 2 * Uncapped(n - 1)
  <2>1. PowerOfTwo[n - 1] \in Nat /\ PowerOfTwo[n] = 2 * PowerOfTwo[n - 1]
    BY PowerIs
  <2> QED BY <1>1, <1>2, <2>1 DEF Uncapped
<1> QED BY <1>1, <1>2, <1>3, <1>4 DEF Uncapped

\* The loop doubles as often as there are passes, until the cap.
LEMMA LoopDoubles ==
  ASSUME NEW n \in Nat, n >= 1
  PROVE  \/ Doubled[n] = Uncapped(n - 1)
         \/ Doubled[n] >= MaxDelayMs /\ Uncapped(n - 1) >= MaxDelayMs
<1> DEFINE Agree(m) == \/ Doubled[m] = Uncapped(m - 1)
                       \/ Doubled[m] >= MaxDelayMs /\ Uncapped(m - 1) >= MaxDelayMs
           Others == {m \in Nat : m >= 1 /\ ~Agree(m)}
<1> SUFFICES ASSUME Others # {} PROVE FALSE
  OBVIOUS
<1>1. PICK m \in Others : \A k \in Others : m <= k
  BY LeastOf
<1>2. m \in Nat /\ m >= 1 /\ MaxDelayMs \in Nat
  BY PolicyConfig
<1>3. Doubled[m] = IF m <= 1 THEN InitialDelayMs ELSE Pass(Doubled[m - 1])
  BY DoubledIs
<1>4. CASE m = 1
  BY <1>3, <1>4, UncappedIs
<1>5. CASE m > 1
  <2>1. m - 1 \in Nat /\ m - 1 >= 1 /\ m - 1 \notin Others
    BY <1>1, <1>2, <1>5
  <2>2. Agree(m - 1)
    BY <2>1
  <2>3. /\ Doubled[m - 1] \in Nat /\ Uncapped((m - 1) - 1) \in Nat
        /\ Uncapped(m - 1) = 2 * Uncapped((m - 1) - 1)
    BY <1>2, <1>5, DoubledIs, UncappedIs
  <2>4. Agree(m)
    BY <1>2, <1>3, <1>5, <2>2, <2>3 DEF Pass
  <2> QED BY <2>4
<1> QED BY <1>2, <1>4, <1>5

\* So that the answer of getNextDelayMs() is a power of two times the initial delay, or the
\* cap.
LEMMA DelayInClosedForm ==
  ASSUME NEW p \in Policies
  PROVE  NextDelayMs(p) = Capped(Uncapped(IF p.attempt = 0 THEN 0 ELSE p.attempt - 1))
<1> PICK n \in Nat : n = p.attempt
  BY DEF Policies
<1>1. InitialDelayMs \in Nat /\ MaxDelayMs \in Nat /\ InitialDelayMs <= MaxDelayMs
  BY PolicyConfig
<1>2. CASE n = 0
  BY <1>1, <1>2, UncappedIs DEF NextDelayMs, Capped
<1>3. CASE n >= 1
  <2>1. Doubled[n] \in Nat /\ Uncapped(n - 1) \in Nat
    BY <1>3, DoubledIs, UncappedIs
  <2> QED BY <1>1, <1>3, <2>1, LoopDoubles DEF NextDelayMs, Capped
<1> QED BY <1>2, <1>3

--------------------------------------------------------------------------------
(* ReconnectPolicy in the engine: the delays that are slept                     *)

\* While the policy is reconnecting, what it counts is what the thread has dialled: in a
\* session that has been stopped, too, where the thread that goes to sleep is one that
\* onDisconnected() has detached after disconnect() had reset the policy.
CountInv ==
  \A k \in Reconnectors : Waiting(k) /\ policy.reconnecting => policy.attempt = dials

LEMMA CountStep ==
  ASSUME Patient, TypeInv, PatientInv, CountInv, [Next]_allVars, PatientInv'
  PROVE  CountInv'
<1> USE Kinds
<1> SUFFICES ASSUME NEW k \in Reconnectors, Waiting(k)', policy'.reconnecting
             PROVE  policy'.attempt = dials'
  BY DEF CountInv
<1>1. CASE running'
  BY <1>1 DEF PatientInv, ReconnectInv, Waiting
<1>2. ASSUME ~running', UNCHANGED <<policy, dials>>, pc'[k] = pc[k]
      PROVE  policy'.attempt = dials'
  BY <1>2 DEF CountInv, Waiting
<1>3. CASE ~running' /\ UNCHANGED allVars
  BY <1>2, <1>3 DEF allVars, vars, engine
<1>4. CASE ~running' /\ Calling
  <2>1. PICK u \in Callers : Connect(u) \/ Disconnect(u) \/ Destroy(u)
    BY <1>4 DEF Calling
  <2>2. UNCHANGED dials
    BY <1>4 DEF Calling
  <2>3. CASE Connect(u)
    <3>1. UNCHANGED policy /\ pc'[k] = pc[k]
      BY <2>3 DEF Connect, SetState, Goto, TypeInv, LabelInv
    <3> QED BY <1>2, <1>4, <2>2, <3>1
  <2>4. CASE Disconnect(u)
    BY <2>4 DEF Disconnect, Reset
  <2>5. CASE Destroy(u)
    <3>1. pc[k] = "none" /\ pc'[k] = pc[k]
      BY <2>5 DEF Destroy, MayConnect, CallStopReadLoop, Goto, TypeInv, LabelInv
    <3> QED BY <3>1 DEF Waiting
  <2> QED BY <2>1, <2>3, <2>4, <2>5
<1>5. ASSUME ~running', NEW u \in Callers, Call(u), Counting
      PROVE  policy'.attempt = dials'
  <2>1. UNCHANGED dials /\ pc'[k] = pc[k]
    BY <1>5, CallUndisturbing
  <2>2. CASE ConnectReset(u)
    BY <2>2 DEF ConnectReset, Reset
  <2>3. CASE ~ConnectReset(u)
    <3>1. UNCHANGED policy
      BY <1>5, <2>3 DEF Call, ConnectFailed, ConnectOk, ConnectRun, DisconnectClose,
           DisconnectDone, DestroyClose, DestroyDone, Notify, NotifyError, TcpStep, engine
    <3> QED BY <1>2, <1>5, <2>1, <3>1
  <2> QED BY <2>2, <2>3
<1>6. ASSUME ~running', NEW r \in Readers, ReadThread(r), Counting
      PROVE  policy'.attempt = dials'
  <2>1. CASE Detach(r)
    <3>1. pc[r] = "l_detach" /\ pc'[r] = "done"
      BY <2>1 DEF Detach, TypeInv, LabelInv
    <3>2. dials' = 0
      BY <1>6, <3>1 DEF Counting
    <3>3. ~policy.reconnecting
      BY <3>1 DEF PatientInv, ReadInv, Live
    <3> QED BY <2>1, <3>2, <3>3 DEF Detach, OnDisconnected
  <2>2. CASE ~Detach(r)
    <3>1. UNCHANGED dials /\ pc'[k] = pc[k]
      BY <1>6, <2>2, ReadUndisturbing
    <3>2. UNCHANGED policy
      BY <1>6, <2>2 DEF ReadThread, Feed, Lost, Notify, engine
    <3> QED BY <1>2, <1>6, <3>1, <3>2
  <2> QED BY <2>1, <2>2
<1>9. CASE ~running' /\ (\E t \in Threads : NotifyBlocks(t)) /\ UNCHANGED dials
  BY <1>2, <1>9 DEF NotifyBlocks, vars
<1>7. ASSUME ~running', NEW j \in Reconnectors, ReconnectThread(j), Counting
      PROVE  policy'.attempt = dials'
  <2>1. ~running
    BY <1>7 DEF ReconnectThread, LoopTest, Wake, Redial, Redialled, RedialStart, RedialFailed,
         GiveUp, Notify, NotifyError, TcpStep, engine
  <2>2. ~Dialling(j)
    BY <2>1 DEF PatientInv, ReconnectInv
  <2>3. CASE LoopTest(j) \/ Wake(j)
    <3>1. /\ UNCHANGED policy /\ pc[j] \in {"k_loop", "k_sleep"}
          /\ \A s \in Threads : s # j => pc'[s] = pc[s]
      BY <2>3 DEF LoopTest, Wake, engine, Goto, TypeInv, LabelInv
    <3>2. UNCHANGED dials
      BY <1>7, <3>1, NotCountedStep
    <3>3. Waiting(k)
      BY <3>1 DEF Waiting
    <3> QED BY <3>1, <3>2, <3>3 DEF CountInv
  <2>4. CASE ~LoopTest(j) /\ ~Wake(j)
    BY <1>7, <2>2, <2>4 DEF ReconnectThread, Redial, Redialled, RedialStart, RedialFailed,
         GiveUp, Notify, NotifyError, Notifications, TcpStep, OwnerStep, ConnectCheck, Established,
         DialFailed, HandshakeOk, HandshakeFailed, StartReadLoop, SpawnReader, StopReadLoop,
         JoinReader, CloseSocket, Dialling
  <2> QED BY <2>3, <2>4
<1>8. ASSUME ~running', NEW s \in Sockets, PeerLost(s), UNCHANGED engine, Counting
      PROVE  policy'.attempt = dials'
  <2>1. UNCHANGED <<pc, policy>>
    BY <1>8 DEF PeerLost, engine
  <2>2. UNCHANGED dials
    BY <1>8, <2>1, NotCounted
  <2> QED BY <1>2, <1>8, <2>1, <2>2
<1> QED BY <1>1, <1>3, <1>4, <1>5, <1>6, <1>7, <1>8, <1>9 DEF Next, Working

\* A reconnect thread goes to sleep only when the policy is reconnecting.
LEMMA SleepsWhenReconnecting ==
  ASSUME TypeInv, [Next]_allVars, NEW k \in Reconnectors, pc[k] = "k_loop", pc'[k] = "k_sleep"
  PROVE  policy.reconnecting
<1> USE Kinds
<1>1. ~UNCHANGED allVars
  BY DEF allVars, vars
<1>2. ~Calling
  BY DEF Calling, Connect, Disconnect, Destroy, SetState, CallStopReadLoop, Goto, TypeInv, LabelInv
<1>3. ASSUME NEW u \in Callers, Call(u), Counting PROVE FALSE
  BY <1>3, CallUndisturbing
<1>4. ASSUME NEW r \in Readers, ReadThread(r), Counting PROVE FALSE
  <2>1. CASE Detach(r)
    BY <2>1 DEF Detach, TypeInv, LabelInv
  <2>2. CASE ~Detach(r)
    BY <1>4, <2>2, ReadUndisturbing
  <2> QED BY <2>1, <2>2
<1>5. ASSUME NEW j \in Reconnectors, ReconnectThread(j), j # k PROVE FALSE
  <2>1. CASE TcpStep(j)
    BY <1>5, <2>1, OthersStay DEF TcpStep
  <2>2. CASE ~TcpStep(j)
    BY <1>5, <2>2 DEF ReconnectThread, LoopTest, Wake, Redial, Redialled, RedialStart,
         RedialFailed, GiveUp, Notify, NotifyError, CallConnect, CallStartReadLoop, SetState, Goto,
         TypeInv, LabelInv
  <2> QED BY <2>1, <2>2
<1>6. ASSUME ReconnectThread(k) PROVE policy.reconnecting
  <2>1. LoopTest(k)
    BY <1>6 DEF ReconnectThread, Wake, Redial, Redialled, RedialStart, RedialFailed, GiveUp,
         Notify, NotifyError, Notifications, TcpStep, OwnerStep, ConnectCheck, Established, DialFailed,
         HandshakeOk, HandshakeFailed, StartReadLoop, SpawnReader, StopReadLoop, JoinReader,
         CloseSocket
  <2> QED BY <2>1 DEF LoopTest, Goto, TypeInv, LabelInv
<1>7. ASSUME NEW s \in Sockets, PeerLost(s) PROVE FALSE
  BY <1>7 DEF PeerLost
<1>8. ASSUME NEW t \in Threads, NotifyBlocks(t) PROVE FALSE
  BY <1>8 DEF NotifyBlocks, vars
<1> QED BY <1>1, <1>2, <1>3, <1>4, <1>5, <1>6, <1>7, <1>8 DEF Next, Working

\* What getNextDelayMs() answers after n failed attempts is what is documented, or half of
\* it, but never less than the initial delay.
LEMMA DelayWithinBackoff ==
  ASSUME NEW p \in Policies
  PROVE  /\ NextDelayMs(p) \in InitialDelayMs..BackoffAfter(p.attempt)
         /\ 2 * NextDelayMs(p) >= BackoffAfter(p.attempt)
<1> PICK n \in Nat : n = p.attempt
  BY DEF Policies
<1>1. InitialDelayMs \in Nat /\ MaxDelayMs \in Nat /\ InitialDelayMs <= MaxDelayMs
  BY PolicyConfig
<1>2. BackoffAfter(n) = Capped(Uncapped(n)) /\ Uncapped(n) \in Nat
  BY UncappedIs DEF BackoffAfter, Uncapped
<1>3. NextDelayMs(p) = Capped(Uncapped(IF n = 0 THEN 0 ELSE n - 1))
  BY DelayInClosedForm
<1>4. NextDelayMs(p) \in InitialDelayMs..MaxDelayMs
  BY DelaysDouble
<1>5. CASE n = 0
  BY <1>1, <1>2, <1>3, <1>4, <1>5 DEF Capped
<1>6. CASE n # 0
  <2>1. Uncapped(n - 1) \in Nat /\ Uncapped(n) = 2 * Uncapped(n - 1)
    BY <1>6, UncappedIs
  <2>2. NextDelayMs(p) = Capped(Uncapped(n - 1))
    BY <1>3, <1>6
  <2> QED BY <1>1, <1>2, <1>4, <2>1, <2>2 DEF Capped
<1> QED BY <1>5, <1>6

\* With a patient caller, through any number of sessions and losses and with any two delays:
\* a reconnect thread never sleeps for longer than is documented for its attempt, nor for less
\* than half of that, nor for less than the initial delay.
THEOREM DelaysWithinBackoffAlways == ASSUME Patient PROVE Spec => DelaysWithinBackoff
<1> DEFINE Backoff ==
      \A k \in Reconnectors :
        pc[k] = "k_loop" /\ pc'[k] = "k_sleep" =>
          /\ NextDelayMs(policy) \in InitialDelayMs..BackoffAfter(dials)
          /\ 2 * NextDelayMs(policy) >= BackoffAfter(dials)
<1>1. Init => TypeInv /\ PatientInv /\ CountInv
  <2>1. ASSUME Init, NEW k \in Reconnectors PROVE ~Waiting(k)
    BY <2>1, Kinds DEF Init, Waiting
  <2> QED BY <2>1, InitPatient, InitTyped DEF CountInv
<1>2. TypeInv /\ PatientInv /\ CountInv /\ [Next]_allVars => (TypeInv /\ PatientInv /\ CountInv)'
  BY PatientStep, TypeStep, CountStep
<1>3. TypeInv /\ PatientInv /\ CountInv /\ [Next]_allVars => Backoff
  <2> SUFFICES ASSUME TypeInv, CountInv, [Next]_allVars, NEW k \in Reconnectors,
                      pc[k] = "k_loop", pc'[k] = "k_sleep"
               PROVE  /\ NextDelayMs(policy) \in InitialDelayMs..BackoffAfter(dials)
                      /\ 2 * NextDelayMs(policy) >= BackoffAfter(dials)
    OBVIOUS
  <2>1. policy.reconnecting
    BY SleepsWhenReconnecting
  <2>2. policy.attempt = dials
    BY <2>1 DEF CountInv, Waiting
  <2>3. policy \in Policies
    BY DEF TypeInv, DataOK
  <2> QED BY <2>2, <2>3, DelayWithinBackoff
<1> QED BY <1>1, <1>2, <1>3, PTL DEF Spec, DelaysWithinBackoff
================================================================================
