------------------------------- MODULE JniBridge -------------------------------
(* android/.../cpp/jni_bridge.cpp and core/src/qk4_api.cpp: one engine behind   *)
(* global variables.  Any thread of the app calls the bridge.  g_mutex is held  *)
(* by nativeInitialize() and nativeDestroy() only: every other call tests       *)
(* g_initialized and passes g_handle on, without the lock.  Callbacks run on    *)
(* the engine's read thread, and on the thread of a call that is inside the     *)
(* engine, and go through a global reference to the Kotlin object.              *)
(*                                                                              *)
(* Of the engine there is left whether it is alive and has a read thread, which *)
(* qk4_destroy() and qk4_disconnect() join (EngineConnection has the rest, the  *)
(* detached reconnect thread included, which nobody joins).                     *)
EXTENDS FiniteSets

CONSTANTS Callers,    \* threads of the app
          Engines,    \* addresses of engines
          Refs,       \* global references
          Quiet,      \* no call runs beside nativeDestroy() but nativeInitialize()
          ReadThread, Null

ASSUME BridgeThreads ==
  /\ ReadThread \notin Callers /\ Null \notin Engines \cup Refs \cup Callers
  /\ Engines # {} /\ Refs # {} /\ Quiet \in BOOLEAN

VARIABLES
  pc,           \* where each thread is
  kind,         \* the call that a caller is in
  using,        \* the global reference that a thread's callback goes through
  mutex,        \* who holds g_mutex
  handle,       \* g_handle
  initialized,  \* g_initialized
  ref,          \* g_callbackObj
  live,         \* the engines that exist
  valid         \* the global references that exist

globals == <<mutex, handle, initialized, ref, live, valid>>
vars    == <<pc, kind, using, globals>>

Threads == Callers \cup {ReadThread}
Calls == {"connect", "disconnect", "other"}

Goto(t, label) == pc' = [pc EXCEPT ![t] = label]

Init ==
  /\ pc = [t \in Threads |-> IF t \in Callers THEN "idle" ELSE "none"]
  /\ kind = [c \in Callers |-> "other"] /\ using = [t \in Threads |-> Null]
  /\ mutex = Null /\ handle = Null /\ initialized = FALSE /\ ref = Null
  /\ live = {} /\ valid = {}

\* A call that has passed its test of g_initialized and has not returned.
Beside(c) == pc[c] \in {"call", "engine", "callback", "hung"}
Destroying(c) == pc[c] \in {"x_lock", "x_engine", "x_ref", "x_done"}

\* The read thread has been told to end, and is waited for.
Stopping ==
  \E c \in Callers : pc[c] = "x_engine" \/ (pc[c] \in {"engine", "callback"} /\ kind[c] = "disconnect")

--------------------------------------------------------------------------------
(* nativeInitialize()                                                           *)

Initialize(c) ==
  /\ pc[c] = "idle"
  /\ Goto(c, "i_lock")
  /\ UNCHANGED <<kind, using, globals>>

\* A wrong variant: the test is made without the lock, which is taken for what follows.
InitializeLockUntested(c) ==
  /\ pc[c] = "i_lock" /\ mutex = Null
  /\ Goto(c, "i_create") /\ mutex' = c
  /\ UNCHANGED <<kind, using, handle, initialized, ref, live, valid>>

InitializeLock(c) ==
  /\ pc[c] = "i_lock" /\ mutex = Null
  /\ IF initialized
       THEN Goto(c, "idle") /\ UNCHANGED mutex
       ELSE Goto(c, "i_create") /\ mutex' = c
  /\ UNCHANGED <<kind, using, handle, initialized, ref, live, valid>>

\* qk4_create(), which may fail.
InitializeCreate(c) ==
  /\ pc[c] = "i_create"
  /\ \/ \E e \in Engines \ live :
          /\ live' = live \cup {e} /\ handle' = e
          /\ Goto(c, "i_ref") /\ UNCHANGED mutex
     \/ handle' = Null /\ mutex' = Null /\ Goto(c, "idle") /\ UNCHANGED live
  /\ UNCHANGED <<kind, using, initialized, ref, valid>>

\* NewGlobalRef(), then the callbacks are registered.
InitializeRef(c) ==
  /\ pc[c] = "i_ref"
  /\ \E r \in Refs \ valid : valid' = valid \cup {r} /\ ref' = r
  /\ Goto(c, "i_done")
  /\ UNCHANGED <<kind, using, mutex, handle, initialized, live>>

InitializeDone(c) ==
  /\ pc[c] = "i_done"
  /\ initialized' = TRUE /\ mutex' = Null
  /\ Goto(c, "idle")
  /\ UNCHANGED <<kind, using, handle, ref, live, valid>>

--------------------------------------------------------------------------------
(* nativeDestroy()                                                              *)

Destroy(c) ==
  /\ pc[c] = "idle"
  /\ Quiet => \A d \in Callers : ~Beside(d)
  /\ Goto(c, "x_lock")
  /\ UNCHANGED <<kind, using, globals>>

DestroyLock(c) ==
  /\ pc[c] = "x_lock" /\ mutex = Null
  /\ mutex' = c
  /\ Goto(c, IF handle = Null THEN "x_ref" ELSE "x_engine")
  /\ UNCHANGED <<kind, using, handle, initialized, ref, live, valid>>

\* A wrong variant: the read thread is not waited for.
DestroyEngineAtOnce(c) ==
  /\ pc[c] = "x_engine"
  /\ live' = live \ {handle} /\ handle' = Null
  /\ Goto(c, "x_ref")
  /\ UNCHANGED <<kind, using, mutex, initialized, ref, valid>>

\* qk4_destroy() joins the read thread and frees the engine.
DestroyEngine(c) ==
  /\ pc[c] = "x_engine" /\ pc[ReadThread] = "none"
  /\ live' = live \ {handle} /\ handle' = Null
  /\ Goto(c, "x_ref")
  /\ UNCHANGED <<kind, using, mutex, initialized, ref, valid>>

DestroyRef(c) ==
  /\ pc[c] = "x_ref"
  /\ valid' = valid \ {ref} /\ ref' = Null
  /\ Goto(c, "x_done")
  /\ UNCHANGED <<kind, using, mutex, handle, initialized, live>>

DestroyDone(c) ==
  /\ pc[c] = "x_done"
  /\ initialized' = FALSE /\ mutex' = Null
  /\ Goto(c, "idle")
  /\ UNCHANGED <<kind, using, handle, ref, live, valid>>

--------------------------------------------------------------------------------
(* Every other native method                                                    *)

\* Of connecting and disconnecting, the engine bears one at a time (EngineConnection).
\* g_initialized is tested; g_handle is read for itself, later.
Call(c) ==
  /\ pc[c] = "idle" /\ initialized
  /\ Quiet => \A d \in Callers : ~Destroying(d)
  /\ Goto(c, "call")
  /\ \E k \in Calls :
       /\ k # "other" => \A d \in Callers : Beside(d) => kind[d] = "other"
       /\ kind' = [kind EXCEPT ![c] = k]
  /\ UNCHANGED <<using, globals>>

\* VALIDATE_HANDLE: a null handle is refused, and any other is used.
UseHandle(c) ==
  /\ pc[c] = "call"
  /\ Goto(c, IF handle = Null THEN "idle" ELSE "engine")
  /\ UNCHANGED <<kind, using, globals>>

\* qk4_connect() leaves a read thread or, having failed, none; qk4_disconnect() waits
\* for it.
ReturnFromEngine(c) ==
  /\ pc[c] = "engine"
  /\ \/ kind[c] = "other" /\ Goto(c, "idle")
     \/ kind[c] = "disconnect" /\ pc[ReadThread] = "none" /\ Goto(c, "idle")
     \/ /\ kind[c] = "connect"
        /\ \/ Goto(c, "idle")
           \/ /\ pc[ReadThread] = "none"
              /\ pc' = [pc EXCEPT ![c] = "idle", ![ReadThread] = "running"]
  /\ UNCHANGED <<kind, using, globals>>

\* A handshake without an answer does not return, nor does a notification of the state
\* of the connection, which locks m_cbMutex twice (RadioLocks): connect() makes some from
\* its beginning on, disconnect() one at its end, the read thread one when it has lost
\* its stream.  Whoever wants m_cbMutex after that does not go on either.
Hang(t) ==
  /\ pc[t] \in {"engine", "running", "lost"}
  /\ \/ t \in Callers /\ kind[t] = "connect"
     \/ t \in Callers /\ kind[t] = "disconnect" /\ pc[ReadThread] = "none"
     \/ pc[t] = "lost"
     \/ \E s \in Threads : pc[s] = "hung"
  /\ Goto(t, "hung")
  /\ UNCHANGED <<kind, using, globals>>

--------------------------------------------------------------------------------
(* Callbacks                                                                    *)

CallbackFrom == [engine |-> "callback", running |-> "callback", lost |-> "last"]

\* onStateChanged(), onConnectionChanged(), onError(): into the object of g_callbackObj,
\* or, without one, into nothing.
Callback(t) ==
  /\ pc[t] \in DOMAIN CallbackFrom
  /\ using' = [using EXCEPT ![t] = ref]
  /\ Goto(t, CallbackFrom[pc[t]])
  /\ UNCHANGED <<kind, globals>>

\* The listener posts to the main thread and returns.
CallbackEnd(t) ==
  /\ pc[t] \in {"callback", "last"}
  /\ using' = [using EXCEPT ![t] = Null]
  /\ Goto(t, IF t \in Callers THEN "engine" ELSE IF pc[t] = "last" THEN "none" ELSE "running")
  /\ UNCHANGED <<kind, globals>>

\* A wrong variant: it is joined without having been told.
LoseUntold ==
  /\ pc[ReadThread] = "running" /\ ~Stopping
  /\ Goto(ReadThread, "lost")
  /\ UNCHANGED <<kind, using, globals>>

\* Told to end or having lost its stream, the read thread reports that, and ends.
Lose ==
  /\ pc[ReadThread] = "running"
  /\ Goto(ReadThread, "lost")
  /\ UNCHANGED <<kind, using, globals>>

Initializing(c) ==
  InitializeLock(c) \/ InitializeCreate(c) \/ InitializeRef(c) \/ InitializeDone(c)
DestroyStep(c) == DestroyLock(c) \/ DestroyEngine(c) \/ DestroyRef(c) \/ DestroyDone(c)
CallStep(c) == UseHandle(c) \/ ReturnFromEngine(c)

Next ==
  \/ \E c \in Callers : Initialize(c) \/ Destroy(c) \/ Call(c)
  \/ \E c \in Callers : Initializing(c) \/ DestroyStep(c) \/ CallStep(c)
  \/ \E t \in Threads : Callback(t) \/ CallbackEnd(t) \/ Hang(t)
  \/ Lose

\* Threads are scheduled, calls of the engine that do not hang return, callbacks return,
\* and g_mutex is obtained by whoever waits for it.
Fairness ==
  /\ \A c \in Callers : SF_vars(Initializing(c)) /\ SF_vars(DestroyStep(c)) /\ SF_vars(CallStep(c))
  /\ WF_vars(CallbackEnd(ReadThread) \/ (pc[ReadThread] = "lost" /\ Callback(ReadThread)))
  /\ \A c \in Callers : WF_vars(CallbackEnd(c))
  /\ SF_vars(Stopping /\ Lose)

Spec == Init /\ [][Next]_vars /\ Fairness

--------------------------------------------------------------------------------
(* Properties                                                                   *)

\* Whatever initialises and destroys at once, there is at most one engine, the handle
\* is its, and when nobody holds the lock there is one engine with one reference to the
\* Kotlin object, or neither.  With the types of the globals.
OneEngine ==
  /\ mutex \in Callers \cup {Null} /\ initialized \in BOOLEAN
  /\ handle \in Engines \cup {Null} /\ ref \in Refs \cup {Null}
  /\ live = IF handle = Null THEN {} ELSE {handle}
  /\ valid = IF ref = Null THEN {} ELSE {ref}
  /\ mutex = Null => (initialized <=> handle # Null) /\ (initialized <=> ref # Null)

\* A callback never goes through a reference that is deleted, nor does a call go on in
\* an engine that is freed; with Quiet.
NothingDangles ==
  /\ \A t \in Threads : using[t] # Null => using[t] \in valid
  /\ (\E c \in Callers : pc[c] \in {"engine", "callback", "hung"}) => live # {}
  /\ pc[ReadThread] # "none" => live # {}

\* initialize(), destroy() and every other call return, as long as no thread hangs in
\* the engine: no callback waits for what its caller holds, and destroy() and
\* disconnect() wait for a read thread that is told to end and for callbacks that end.
CallsReturn ==
  \A c \in Callers : pc[c] # "idle" ~> pc[c] = "idle" \/ \E t \in Threads : pc[t] = "hung"
================================================================================
