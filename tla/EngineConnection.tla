--------------------------- MODULE EngineConnection ----------------------------
(* core/src/engine/qk4_engine.cpp: the life of a connection.  Engine composes   *)
(* TcpClient and ReconnectPolicy.  API callers run connect(), disconnect() and  *)
(* qk4_destroy(); the read thread that loses its stream runs onDisconnected(),  *)
(* which detaches a reconnect thread, which calls TcpClient::connect() itself.  *)
(* All of them share the two components and m_connState, m_running; only a      *)
(* notification takes a lock (m_cbMutex), and that of a state takes it twice.   *)
(*                                                                              *)
(* Time is abstract: a sleeping thread may wake at any moment, and has to; its  *)
(* delay is what the policy answered when it went to sleep.  A step groups the  *)
(* assignments a thread makes between two calls that can block.  The stream is  *)
(* seen only through what the protocol parser still holds of it.                *)
EXTENDS TcpClient, ReconnectPolicy

CONSTANTS Callers,        \* threads that call the C API
          Reconnectors,   \* identities of detached reconnect threads
          Patient,        \* callers wait for the engine to be at rest (see MayConnect)
          MayDestroy,     \* qk4_destroy() is called
          MaxCalls        \* bound on the API calls that are made; 0: no bound

ASSUME EngineThreads ==
  /\ Owners = Callers \cup Reconnectors /\ Callers \cap Reconnectors = {}
  /\ Senders = {} /\ NoThread \notin Threads
  /\ Patient \in BOOLEAN /\ MayDestroy \in BOOLEAN
  /\ MaxCalls \in Nat

VARIABLES
  connState,  \* m_connState
  shown,      \* the last state given to the connection callback and to RadioState
  running,    \* m_running
  policy,     \* *m_reconnect
  parser,     \* m_protocol's buffer: "clean" at a frame boundary, "partial", "stale"
              \* (partial, of a connection that is gone), "mixed" (fed when stale)
  destroyed,  \* the Engine has been deleted
  stuck,      \* the thread that waits for the m_cbMutex it holds itself, or NoThread
  calls,      \* API calls made, when they are bounded
  dials,      \* history: the attempts of reconnection since the last loss
  errors      \* history: calls of the error callback since the last connect()

engine  == <<connState, shown, running, policy, parser, destroyed>>
allVars == <<vars, engine, stuck, calls, dials, errors>>

ConnStates == {"DISCONNECTED", "CONNECTING", "CONNECTED", "RECONNECTING"}

Init ==
  /\ pc = [t \in Threads |-> IF t \in Callers THEN "idle" ELSE "none"]
  /\ ret = [o \in Owners |-> "idle"] /\ sret = [o \in Owners |-> "tcp_close"]
  /\ at = [r \in Readers |-> NoFd]
  /\ SharedInit
  /\ connState = "DISCONNECTED" /\ shown = "DISCONNECTED"
  /\ running = FALSE /\ policy = [attempt |-> 0, reconnecting |-> FALSE]
  /\ parser = "clean" /\ destroyed = FALSE
  /\ stuck = NoThread
  /\ calls = 0 /\ dials = 0 /\ errors = 0

--------------------------------------------------------------------------------
(* notifyConnectionState() and notifyError()                                    *)

\* Every call of notifyConnectionState() by its place: the state it passes, and
\* where its thread goes on.
Notifications ==
  [ n_connecting   |-> [state |-> "CONNECTING",   next |-> "c_reset"],
    n_failed       |-> [state |-> "DISCONNECTED", next |-> "e_failed"],
    n_connected    |-> [state |-> "CONNECTED",    next |-> "c_run"],
    n_disconnected |-> [state |-> "DISCONNECTED", next |-> "idle"],
    n_lost         |-> [state |-> "RECONNECTING", next |-> "l_detach"],
    n_redialled    |-> [state |-> "CONNECTED",    next |-> "k_start"],
    n_retry        |-> [state |-> "RECONNECTING", next |-> "k_loop"],
    n_last         |-> [state |-> "RECONNECTING", next |-> "k_giveup"],
    n_gaveup       |-> [state |-> "DISCONNECTED", next |-> "e_gaveup"] ]

\* Under m_cbMutex the callback runs and RadioState stores the state, and RadioState's
\* change callback locks m_cbMutex once more.  That is undefined; the thread goes on ...
Notify(t) ==
  /\ pc[t] \in DOMAIN Notifications /\ stuck = NoThread
  /\ shown' = Notifications[pc[t]].state
  /\ Goto(t, Notifications[pc[t]].next)
  /\ UNCHANGED <<ret, sret, at, shared, connState, running, policy, parser, destroyed>>

\* ... or it waits for itself, and from then on whoever notifies waits for it.
NotifyBlocks(t) ==
  /\ pc[t] \in DOMAIN Notifications /\ stuck = NoThread
  /\ shown' = Notifications[pc[t]].state
  /\ stuck' = t
  /\ UNCHANGED <<vars, connState, running, policy, parser, destroyed>>

\* notifyError(), the last step of a connect() that failed and of a reconnection that is
\* given up.
NotifyError(t) ==
  /\ pc[t] \in {"e_failed", "e_gaveup"} /\ stuck = NoThread
  /\ Goto(t, IF pc[t] = "e_failed" THEN "idle" ELSE "none")
  /\ UNCHANGED <<ret, sret, at, shared, engine>>

\* m_connState.store(s), then notifyConnectionState(s) from the place n.
SetState(t, s, n) ==
  /\ connState' = s
  /\ Goto(t, n)
  /\ UNCHANGED <<ret, sret, at, shared>>

--------------------------------------------------------------------------------
(* Engine::connect()                                                            *)

\* A reconnect thread that is past its test of m_running and not yet finished.
Dialling(k) == pc[k] \notin {"none", "k_loop", "k_sleep"}

\* Any caller may call at any time.  The patient one connects only when the
\* engine says DISCONNECTED and no reconnect thread is left asleep, and
\* disconnects only while no reconnection attempt is in flight.
MayConnect ==
  Patient => /\ connState = "DISCONNECTED"
             /\ \A u \in Callers : pc[u] = "idle"
             /\ \A k \in Reconnectors : pc[k] = "none"

MayDisconnect ==
  Patient => /\ \A u \in Callers : pc[u] = "idle"
             /\ \A k \in Reconnectors : ~Dialling(k)

Connect(u) ==
  /\ pc[u] = "idle" /\ MayConnect
  /\ SetState(u, "CONNECTING", "n_connecting")
  /\ UNCHANGED <<shown, running, policy, parser, destroyed>>

\* A wrong variant: the parser is not reset.
ConnectResetNoParser(u) ==
  /\ pc[u] = "c_reset"
  /\ policy' = Reset(policy)
  /\ CallConnect(u)
  /\ UNCHANGED <<connState, shown, running, parser, destroyed>>

\* m_protocol->reset() and m_reconnect->reset(), before the old connection, if
\* any, is torn down.
ConnectReset(u) ==
  /\ pc[u] = "c_reset"
  /\ parser' = "clean"
  /\ policy' = Reset(policy)
  /\ CallConnect(u)
  /\ UNCHANGED <<connState, shown, running, destroyed>>

ConnectFailed(u) ==
  /\ pc[u] = "tcp_failed"
  /\ SetState(u, "DISCONNECTED", "n_failed")
  /\ UNCHANGED <<shown, running, policy, parser, destroyed>>

ConnectOk(u) ==
  /\ pc[u] = "tcp_ok"
  /\ SetState(u, "CONNECTED", "n_connected")
  /\ UNCHANGED <<shown, running, policy, parser, destroyed>>

ConnectRun(u) ==
  /\ pc[u] = "c_run"
  /\ running' = TRUE
  /\ CallStartReadLoop(u, "idle")
  /\ UNCHANGED <<connState, shown, policy, parser, destroyed>>

--------------------------------------------------------------------------------
(* Engine::disconnect(), and shutdown() as qk4_destroy() calls it               *)

Disconnect(u) ==
  /\ pc[u] = "idle" /\ MayDisconnect
  /\ policy' = Reset(policy)
  /\ running' = FALSE
  /\ CallStopReadLoop(u, "d_close")
  /\ UNCHANGED <<connState, shown, parser, destroyed>>

DisconnectClose(u) ==
  /\ pc[u] = "d_close"
  /\ CallDisconnect(u, "d_done")
  /\ UNCHANGED engine

DisconnectDone(u) ==
  /\ pc[u] = "d_done"
  /\ SetState(u, "DISCONNECTED", "n_disconnected")
  /\ UNCHANGED <<shown, running, policy, parser, destroyed>>

\* No other call is in progress when the handle is given up; the patient caller has
\* disconnected.
Destroy(u) ==
  /\ MayDestroy /\ MayConnect
  /\ \A v \in Callers : pc[v] = "idle"
  /\ running' = FALSE
  /\ CallStopReadLoop(u, "x_close")
  /\ UNCHANGED <<connState, shown, policy, parser, destroyed>>

DestroyClose(u) ==
  /\ pc[u] = "x_close"
  /\ CallDisconnect(u, "x_done")
  /\ UNCHANGED engine

\* shutdown() runs once more in ~Engine(), on a client that is closed; then the
\* members are gone.
DestroyDone(u) ==
  /\ pc[u] = "x_done"
  /\ destroyed' = TRUE
  /\ Goto(u, "idle")
  /\ UNCHANGED <<ret, sret, at, shared, connState, shown, running, policy, parser>>

--------------------------------------------------------------------------------
(* The read thread's callbacks                                                  *)

\* Protocol::feedData(): what is left over is a frame boundary or part of a frame.
Feed(r) ==
  /\ pc[r] = "feed"
  /\ parser' \in IF parser \in {"stale", "mixed"} THEN {"mixed"} ELSE {"clean", "partial"}
  /\ Goto(r, "check")
  /\ UNCHANGED <<ret, sret, at, shared, connState, shown, running, policy, destroyed>>

\* Engine::onDisconnected() stores its state whoever ended the connection.
Lost(r) ==
  /\ pc[r] = "lost"
  /\ SetState(r, "RECONNECTING", "n_lost")
  /\ UNCHANGED <<shown, running, policy, parser, destroyed>>

Detach(r) ==
  /\ pc[r] = "l_detach"
  /\ policy' = OnDisconnected(policy)
  /\ \E k \in Reconnectors :
       /\ pc[k] = "none"
       /\ pc' = [pc EXCEPT ![k] = "k_loop", ![r] = "done"]
  /\ UNCHANGED <<ret, sret, at, shared, connState, shown, running, parser, destroyed>>

--------------------------------------------------------------------------------
(* The reconnect thread                                                         *)

LoopTest(k) ==
  /\ pc[k] = "k_loop"
  /\ Goto(k, IF policy.reconnecting /\ ~IsExhausted(policy) THEN "k_sleep" ELSE "none")
  /\ UNCHANGED <<ret, sret, at, shared, engine>>

\* A wrong variant: m_running is not tested.
WakeUnchecked(k) ==
  /\ pc[k] = "k_sleep"
  /\ Goto(k, "k_dial")
  /\ UNCHANGED <<ret, sret, at, shared, engine>>

\* m_running is tested once, after the sleep.
Wake(k) ==
  /\ pc[k] = "k_sleep"
  /\ Goto(k, IF running THEN "k_dial" ELSE "none")
  /\ UNCHANGED <<ret, sret, at, shared, engine>>

Redial(k) ==
  /\ pc[k] = "k_dial"
  /\ parser' = "clean"
  /\ CallConnect(k)
  /\ UNCHANGED <<connState, shown, running, policy, destroyed>>

Redialled(k) ==
  /\ pc[k] = "tcp_ok"
  /\ policy' = OnConnected(policy)
  /\ SetState(k, "CONNECTED", "n_redialled")
  /\ UNCHANGED <<shown, running, parser, destroyed>>

RedialStart(k) ==
  /\ pc[k] = "k_start"
  /\ CallStartReadLoop(k, "none")
  /\ UNCHANGED engine

\* A wrong variant: the thread ends without reporting that it gave up.
RedialFailedSilent(k) ==
  /\ pc[k] = "tcp_failed"
  /\ policy' = OnAttemptFailed(policy)
  /\ Goto(k, IF IsExhausted(policy') THEN "none" ELSE "n_retry")
  /\ UNCHANGED <<ret, sret, at, shared, connState, shown, running, parser, destroyed>>

\* m_connState keeps RECONNECTING; the attempt is only notified.
RedialFailed(k) ==
  /\ pc[k] = "tcp_failed"
  /\ policy' = OnAttemptFailed(policy)
  /\ Goto(k, IF IsExhausted(policy') THEN "n_last" ELSE "n_retry")
  /\ UNCHANGED <<ret, sret, at, shared, connState, shown, running, parser, destroyed>>

\* A wrong variant: DISCONNECTED is notified and not stored.
GiveUpUnstored(k) ==
  /\ pc[k] = "k_giveup"
  /\ Goto(k, "n_gaveup")
  /\ UNCHANGED <<ret, sret, at, shared, engine>>

\* A wrong variant: a state the API does not have.
GiveUpFailed(k) ==
  /\ pc[k] = "k_giveup"
  /\ SetState(k, "FAILED", "n_gaveup")
  /\ UNCHANGED <<shown, running, policy, parser, destroyed>>

\* A wrong variant: the user is shown the state and no error.
GiveUpUnreported(k) ==
  /\ pc[k] = "k_giveup"
  /\ connState' = "DISCONNECTED" /\ shown' = "DISCONNECTED"
  /\ Goto(k, "none")
  /\ UNCHANGED <<ret, sret, at, shared, running, policy, parser, destroyed>>

GiveUp(k) ==
  /\ pc[k] = "k_giveup"
  /\ SetState(k, "DISCONNECTED", "n_gaveup")
  /\ UNCHANGED <<shown, running, policy, parser, destroyed>>

--------------------------------------------------------------------------------
(* The composition                                                              *)

\* A step of TcpClient.  A new socket makes what the parser holds belong to a
\* connection that is gone.
TcpStep(t) ==
  /\ OwnerStep(t)
  /\ parser' = IF pc[t] = "tcp_dial" /\ fd' # fd /\ parser = "partial"
                 THEN "stale" ELSE parser
  /\ UNCHANGED <<connState, shown, running, policy, destroyed>>

Call(u) ==
  \/ ConnectReset(u) \/ ConnectFailed(u) \/ ConnectOk(u) \/ ConnectRun(u)
  \/ DisconnectClose(u) \/ DisconnectDone(u) \/ DestroyClose(u) \/ DestroyDone(u)
  \/ Notify(u) \/ NotifyError(u) \/ TcpStep(u)

ReadThread(r) ==
  \/ ReaderStep(r) /\ UNCHANGED engine
  \/ Feed(r) \/ Lost(r) \/ Detach(r) \/ Notify(r)

ReconnectThread(k) ==
  \/ LoopTest(k) \/ Wake(k) \/ Redial(k) \/ Redialled(k) \/ RedialStart(k)
  \/ RedialFailed(k) \/ GiveUp(k) \/ Notify(k) \/ NotifyError(k) \/ TcpStep(k)

Alive == ~aborted /\ ~destroyed

Calling ==
  /\ \E u \in Callers : Connect(u) \/ Disconnect(u) \/ Destroy(u)
  /\ IF MaxCalls = 0 THEN UNCHANGED calls
     ELSE calls < MaxCalls /\ calls' = calls + 1
  /\ errors' = IF \E u \in Callers : pc'[u] = "n_connecting" THEN 0 ELSE errors
  /\ UNCHANGED dials

\* What a step that is no call does to the counters.
Counting ==
  /\ UNCHANGED calls
  /\ dials' = IF \E r \in Readers : pc[r] = "l_detach" /\ pc'[r] # "l_detach" THEN 0
              ELSE IF \E k \in Reconnectors : pc[k] = "k_dial" /\ pc'[k] # "k_dial" THEN dials + 1
              ELSE dials
  /\ errors' = IF \E t \in Threads : pc[t] \in {"e_failed", "e_gaveup"} /\ pc'[t] # pc[t]
                 THEN errors + 1 ELSE errors

Working ==
  \/ \E u \in Callers : Call(u)
  \/ \E r \in Readers : ReadThread(r)
  \/ \E k \in Reconnectors : ReconnectThread(k)
  \/ \E s \in Sockets : PeerLost(s) /\ UNCHANGED engine

Next ==
  /\ Alive
  /\ \/ Calling /\ UNCHANGED stuck
     \/ Working /\ Counting /\ UNCHANGED stuck
     \/ (\E t \in Threads : NotifyBlocks(t)) /\ UNCHANGED <<calls, dials, errors>>

\* Every thread that can run is scheduled, sleeps end and connect's poll() has a
\* timeout; a TLS handshake has none, so that its steps are not fair.  A frame that is
\* fed may have to be notified, which waits for a thread that is stuck.
NoHandshake(t) == pc[t] # "tcp_handshake"

NotHeldUp(r) == Runnable(r) /\ (pc[r] = "feed" => stuck = NoThread)

Scheduled(step) == Alive /\ step /\ Counting /\ UNCHANGED stuck

Fairness ==
  /\ \A u \in Callers : WF_allVars(Scheduled(NoHandshake(u) /\ Call(u)))
  /\ \A r \in Readers : WF_allVars(Scheduled(NotHeldUp(r) /\ ReadThread(r)))
  /\ \A k \in Reconnectors : WF_allVars(Scheduled(NoHandshake(k) /\ ReconnectThread(k)))

Spec == Init /\ [][Next]_allVars /\ Fairness

--------------------------------------------------------------------------------
(* Properties                                                                   *)

TcpLabels == {"tcp_connect", "tcp_dial", "tcp_handshake", "tcp_ok", "tcp_failed",
              "tcp_start", "tcp_spawn", "tcp_stop", "tcp_join", "tcp_close"}
CallerLabels == TcpLabels \cup
  {"idle", "n_connecting", "c_reset", "n_failed", "e_failed", "n_connected", "c_run", "d_close",
   "d_done", "n_disconnected", "x_close", "x_done"}
ReadLabels ==
  {"none", "check", "recv", "feed", "exit", "lost", "n_lost", "l_detach", "done"}
ReconnectLabels == TcpLabels \cup
  {"none", "k_loop", "k_sleep", "k_dial", "k_start", "k_giveup", "n_redialled",
   "n_retry", "n_last", "n_gaveup", "e_gaveup"}

TypeOK ==
  /\ pc \in [Threads -> CallerLabels \cup ReadLabels \cup ReconnectLabels]
  /\ \A u \in Callers : pc[u] \in CallerLabels
  /\ \A r \in Readers : pc[r] \in ReadLabels
  /\ \A k \in Reconnectors : pc[k] \in ReconnectLabels
  /\ ret \in [Owners -> {"idle", "none", "tcp_dial", "d_done", "x_done"}]
  /\ sret \in [Owners -> {"tcp_close", "d_close", "x_close"}]
  /\ at \in [Readers -> Sockets \cup {NoFd}]
  /\ fd \in Sockets \cup {NoFd} /\ sock \in [Sockets -> {"free", "up", "dead"}]
  /\ readThread \in Readers \cup {NoThread}
  /\ {useTls, connected, loopRunning, aborted, running, destroyed} \subseteq BOOLEAN
  /\ connState \in ConnStates /\ shown \in ConnStates
  /\ policy \in Policies
  /\ parser \in {"clean", "partial", "stale", "mixed"}
  /\ stuck \in Threads \cup {NoThread}
  /\ dials \in Nat /\ errors \in Nat

\* No thread is between storing m_connState and having notified it.
AtRest ==
  /\ \A u \in Callers : pc[u] = "idle"
  /\ \A r \in Readers : pc[r] \notin {"lost", "n_lost", "l_detach"}
  /\ \A k \in Reconnectors : ~Dialling(k)

\* The client's own promises, with all these threads on it: of those that start, join
\* and replace the read thread no two do it at once, so that std::terminate is not
\* reached; and none closes a descriptor on which a read thread is blocked.
ClientIsSafe ==
  /\ ~aborted
  /\ \A r \in Readers : pc[r] = "recv" /\ at[r] # NoFd => sock[at[r]] # "free"

\* When no call, callback or attempt is in progress, the state last shown to the
\* user is the one qk4_get_connection_state() returns, though m_connState and the
\* notification are written in two steps by three kinds of threads.
ShownIsCurrent == AtRest => shown = connState

\* A call of disconnect() is the last word: once it has returned, and until the
\* next connect() succeeds, the engine is and stays DISCONNECTED, without a socket.
StoppedIsDisconnected ==
  AtRest /\ ~running => connState = "DISCONNECTED" /\ ~connected /\ fd = NoFd

\* The parser never continues a frame of one connection with bytes of the next:
\* it is reset before a connection, and the old read thread has stopped by then.
NoMixedStream == parser # "mixed"

\* One loss is worked on by one reconnect thread, which makes MaxAttempts attempts and
\* no more, and gives up after the last of them and never before: though the counter is
\* reset by any call of connect() and disconnect() meanwhile.
OneReconnection ==
  /\ dials <= MaxAttempts
  /\ \A j, k \in Reconnectors : Dialling(j) /\ Dialling(k) => j = k
  /\ \A k \in Reconnectors : pc[k] = "k_giveup" => dials = MaxAttempts

Capped(ms) == IF ms < MaxDelayMs THEN ms ELSE MaxDelayMs

PowerOfTwo[n \in Nat] == IF n = 0 THEN 1 ELSE 2 * PowerOfTwo[n - 1]

\* What reconnect_policy.h documents for the attempt that follows n failed ones: the
\* initial delay, doubled n times, up to the greatest delay.
BackoffAfter(n) == Capped(InitialDelayMs * PowerOfTwo[n])

\* A reconnect thread sleeps through every loss as a capped exponential backoff asks: never
\* less than the initial delay, never longer than is documented for its attempt, nor less
\* than half of that.  (The code does not sleep for the documented delay itself: it has the
\* initial one before the first two attempts, and so stays one doubling behind.)
DelaysWithinBackoff ==
  [][\A k \in Reconnectors :
       pc[k] = "k_loop" /\ pc'[k] = "k_sleep" =>
         /\ NextDelayMs(policy) \in InitialDelayMs..BackoffAfter(dials)
         /\ 2 * NextDelayMs(policy) >= BackoffAfter(dials)
    ]_allVars

\* An engine that is DISCONNECTED by itself, after a connect() that failed or a
\* reconnection that it gave up, has called the error callback for it, and has done so
\* once: not for each attempt, and not for a loss that was mended.
FailureIsReported ==
  AtRest => /\ errors <= 1
            /\ connState # "DISCONNECTED" => errors = 0
            /\ running /\ connState = "DISCONNECTED" => errors = 1

\* Nothing but the second lock of m_cbMutex keeps a call of the API from returning: not the
\* teardown of a connection, with read and reconnect threads about.
CallsReturn ==
  \A u \in Callers : (pc[u] # "idle") ~> (pc[u] = "idle" \/ stuck # NoThread)

\* A loss does not leave the user at RECONNECTING for ever: the engine goes on to show
\* CONNECTED, or DISCONNECTED when all attempts have failed or the user disconnects.
LossIsResolved ==
  shown = "RECONNECTING" ~> (shown \in {"CONNECTED", "DISCONNECTED"} \/ stuck # NoThread)

\* The caller is inside connect(), its teardown of an old connection included.
Connecting(u) ==
  \/ pc[u] \in {"n_connecting", "c_reset", "tcp_connect", "tcp_dial", "tcp_handshake",
               "tcp_ok", "n_connected", "c_run", "tcp_start", "tcp_spawn"}
  \/ /\ pc[u] \in {"tcp_stop", "tcp_join", "tcp_close"}
     /\ sret[u] = "tcp_close" /\ ret[u] = "tcp_dial"

\* No thread is about to dial: m_running is clear, no call of connect() is under
\* way and every reconnect thread has yet to test m_running.
Quiet ==
  /\ ~running
  /\ \A u \in Callers : ~Connecting(u)
  /\ \A k \in Reconnectors : ~Dialling(k)

\* Only connect() ends the quiet: no reconnect thread, however many are asleep and
\* whatever else is called meanwhile, starts to dial once m_running is clear.
OnlyConnectDials ==
  [][Quiet => Quiet' \/ \E u \in Callers : Connect(u)]_allVars
================================================================================
