---------------------------- MODULE JniBridgeProofs ----------------------------
(* However many threads initialise, destroy and call at once: one engine.       *)
EXTENDS JniBridge, TLAPS

Critical == {"i_create", "i_ref", "i_done", "x_engine", "x_ref", "x_done"}
Outside  == {"idle", "i_lock", "x_lock", "call", "engine", "callback",
             "none", "running", "lost", "last", "hung"}

\* g_mutex belongs to the one thread that is inside it.
LockInv ==
  /\ pc \in [Threads -> Critical \cup Outside]
  /\ mutex \in Callers \cup {Null}
  /\ \A c \in Callers : pc[c] \in Critical <=> mutex = c

\* What exists is what the globals name.
Named ==
  /\ handle \in Engines \cup {Null} /\ ref \in Refs \cup {Null} /\ initialized \in BOOLEAN
  /\ live = IF handle = Null THEN {} ELSE {handle}
  /\ valid = IF ref = Null THEN {} ELSE {ref}

\* How far the thread inside has come.
Progress ==
  /\ mutex = Null => (initialized <=> handle # Null) /\ (initialized <=> ref # Null)
  /\ \A c \in Callers :
       /\ pc[c] = "i_create" => handle = Null /\ ref = Null /\ ~initialized
       /\ pc[c] = "i_ref" => handle # Null /\ ref = Null /\ ~initialized
       /\ pc[c] = "i_done" => handle # Null /\ ref # Null /\ ~initialized
       /\ pc[c] = "x_engine" => handle # Null /\ ref # Null /\ initialized
       /\ pc[c] = "x_ref" => handle = Null
       /\ pc[c] = "x_done" => handle = Null /\ ref = Null

IInv == LockInv /\ Named /\ Progress

--------------------------------------------------------------------------------
LEMMA InitInv == Init => IInv
<1> SUFFICES ASSUME Init PROVE IInv
  OBVIOUS
<1>1. \A c \in Callers : pc[c] = "idle" /\ mutex # c
  BY BridgeThreads DEF Init, Threads
<1>2. LockInv
  BY <1>1 DEF Init, LockInv, Threads, Critical, Outside
<1>3. Named /\ Progress
  BY <1>1 DEF Init, Named, Progress
<1> QED BY <1>2, <1>3 DEF IInv

\* What leaves the globals alone and goes from one label outside the lock to another
\* preserves the invariant.
LEMMA OutsideStep ==
  ASSUME IInv, NEW t \in Threads, NEW label \in Outside, Goto(t, label), UNCHANGED globals,
         pc[t] \in Outside
  PROVE  IInv'
<1>1. pc' = [pc EXCEPT ![t] = label]
  BY DEF Goto
<1>2. LockInv'
  BY <1>1 DEF IInv, LockInv, globals, Critical, Outside
<1>3. Named'
  BY DEF IInv, Named, globals
<1>4. Progress'
  BY <1>1 DEF IInv, LockInv, Progress, Critical, Outside, globals
<1> QED BY <1>2, <1>3, <1>4 DEF IInv

\* One step of any thread.
LEMMA StepInv == IInv /\ [Next]_vars => IInv'
<1> SUFFICES ASSUME IInv, [Next]_vars PROVE IInv'
  OBVIOUS
<1> USE BridgeThreads
<1>1. ASSUME NEW c \in Callers, Initialize(c) PROVE IInv'
  BY <1>1, OutsideStep DEF Initialize, Threads, Critical, Outside
<1>2. ASSUME NEW c \in Callers, Destroy(c) PROVE IInv'
  BY <1>2, OutsideStep DEF Destroy, Threads, Critical, Outside
<1>3. ASSUME NEW c \in Callers, Call(c) PROVE IInv'
  BY <1>3, OutsideStep DEF Call, Threads, Critical, Outside
<1>4. ASSUME NEW c \in Callers, UseHandle(c) PROVE IInv'
  BY <1>4, OutsideStep DEF UseHandle, Threads, Critical, Outside
<1>5. ASSUME NEW c \in Callers, InitializeLock(c) PROVE IInv'
  <2>1. CASE initialized
    <3>1. Goto(c, "idle") /\ UNCHANGED globals
      BY <1>5, <2>1 DEF InitializeLock, globals
    <3> QED BY <1>5, <3>1, OutsideStep DEF InitializeLock, Threads, Critical, Outside
  <2>2. CASE ~initialized
    <3>1. pc' = [pc EXCEPT ![c] = "i_create"] /\ mutex' = c
      BY <1>5, <2>2 DEF InitializeLock, Goto
    <3>2. LockInv'
      BY <1>5, <3>1 DEF InitializeLock, IInv, LockInv, Threads, Critical, Outside
    <3>3. Named'
      BY <1>5 DEF InitializeLock, IInv, Named
    <3>4. Progress'
      BY <1>5, <2>2, <3>1 DEF InitializeLock, IInv, LockInv, Progress, Threads, Critical, Outside
    <3> QED BY <3>2, <3>3, <3>4 DEF IInv
  <2> QED BY <2>1, <2>2
<1>6. ASSUME NEW c \in Callers, InitializeCreate(c) PROVE IInv'
  <2>1. LockInv'
    BY <1>6 DEF InitializeCreate, Goto, IInv, LockInv, Threads, Critical, Outside
  <2>2. Named'
    BY <1>6 DEF InitializeCreate, IInv, Named, Progress
  <2>3. Progress'
    BY <1>6 DEF InitializeCreate, Goto, IInv, LockInv, Progress, Threads, Critical, Outside
  <2> QED BY <2>1, <2>2, <2>3 DEF IInv
<1>7. ASSUME NEW c \in Callers, InitializeRef(c) PROVE IInv'
  <2>1. LockInv'
    BY <1>7 DEF InitializeRef, Goto, IInv, LockInv, Threads, Critical, Outside
  <2>2. Named'
    BY <1>7 DEF InitializeRef, IInv, Named, Progress
  <2>3. Progress'
    BY <1>7 DEF InitializeRef, Goto, IInv, LockInv, Progress, Threads, Critical, Outside
  <2> QED BY <2>1, <2>2, <2>3 DEF IInv
<1>8. ASSUME NEW c \in Callers, InitializeDone(c) PROVE IInv'
  <2>1. LockInv'
    BY <1>8 DEF InitializeDone, Goto, IInv, LockInv, Threads, Critical, Outside
  <2>2. Named'
    BY <1>8 DEF InitializeDone, IInv, Named
  <2>3. Progress'
    BY <1>8 DEF InitializeDone, Goto, IInv, LockInv, Progress, Threads, Critical, Outside
  <2> QED BY <2>1, <2>2, <2>3 DEF IInv
<1>9. ASSUME NEW c \in Callers, DestroyLock(c) PROVE IInv'
  <2>1. LockInv'
    BY <1>9 DEF DestroyLock, Goto, IInv, LockInv, Threads, Critical, Outside
  <2>2. Named'
    BY <1>9 DEF DestroyLock, IInv, Named
  <2>3. Progress'
    BY <1>9 DEF DestroyLock, Goto, IInv, LockInv, Progress, Threads, Critical, Outside
  <2> QED BY <2>1, <2>2, <2>3 DEF IInv
<1>10. ASSUME NEW c \in Callers, DestroyEngine(c) PROVE IInv'
  <2>1. LockInv'
    BY <1>10 DEF DestroyEngine, Goto, IInv, LockInv, Threads, Critical, Outside
  <2>2. Named'
    BY <1>10 DEF DestroyEngine, IInv, Named, Progress
  <2>3. Progress'
    BY <1>10 DEF DestroyEngine, Goto, IInv, LockInv, Progress, Threads, Critical, Outside
  <2> QED BY <2>1, <2>2, <2>3 DEF IInv
<1>11. ASSUME NEW c \in Callers, DestroyRef(c) PROVE IInv'
  <2>1. LockInv'
    BY <1>11 DEF DestroyRef, Goto, IInv, LockInv, Threads, Critical, Outside
  <2>2. Named'
    BY <1>11 DEF DestroyRef, IInv, Named, Progress
  <2>3. Progress'
    BY <1>11 DEF DestroyRef, Goto, IInv, LockInv, Progress, Threads, Critical, Outside
  <2> QED BY <2>1, <2>2, <2>3 DEF IInv
<1>12. ASSUME NEW c \in Callers, DestroyDone(c) PROVE IInv'
  <2>1. LockInv'
    BY <1>12 DEF DestroyDone, Goto, IInv, LockInv, Threads, Critical, Outside
  <2>2. Named'
    BY <1>12 DEF DestroyDone, IInv, Named
  <2>3. Progress'
    BY <1>12 DEF DestroyDone, Goto, IInv, LockInv, Progress, Threads, Critical, Outside
  <2> QED BY <2>1, <2>2, <2>3 DEF IInv
<1>13. ASSUME NEW c \in Callers, ReturnFromEngine(c) PROVE IInv'
  <2>1. CASE Goto(c, "idle")
    BY <1>13, <2>1, OutsideStep DEF ReturnFromEngine, Threads, Critical, Outside
  <2>2. CASE pc' = [pc EXCEPT ![c] = "idle", ![ReadThread] = "running"]
    <3>1. LockInv'
      BY <1>13, <2>2 DEF ReturnFromEngine, globals, IInv, LockInv, Threads, Critical, Outside
    <3>2. Named'
      BY <1>13 DEF ReturnFromEngine, globals, IInv, Named
    <3>3. Progress'
      BY <1>13, <2>2 DEF ReturnFromEngine, globals, IInv, LockInv, Progress, Threads, Critical, Outside
    <3> QED BY <3>1, <3>2, <3>3 DEF IInv
  <2> QED BY <1>13, <2>1, <2>2 DEF ReturnFromEngine
<1>14. ASSUME NEW t \in Threads, Callback(t) PROVE IInv'
  <2>1. pc[t] \in {"engine", "running", "lost"}
    BY <1>14 DEF Callback, CallbackFrom
  <2>2. CallbackFrom[pc[t]] \in Outside /\ pc[t] \in Outside
    BY <2>1 DEF CallbackFrom, Outside
  <2> QED BY <1>14, <2>2, OutsideStep DEF Callback
<1>15. ASSUME NEW t \in Threads, CallbackEnd(t) PROVE IInv'
  BY <1>15, OutsideStep DEF CallbackEnd, Outside
<1>16. CASE Lose
  BY <1>16, OutsideStep DEF Lose, Threads, Critical, Outside
<1>17. ASSUME NEW t \in Threads, Hang(t) PROVE IInv'
  BY <1>17, OutsideStep DEF Hang, Outside
<1>18. CASE UNCHANGED vars
  BY <1>18 DEF vars, globals, IInv, LockInv, Named, Progress
<1> QED BY <1>1, <1>2, <1>3, <1>4, <1>5, <1>6, <1>7, <1>8, <1>9, <1>10, <1>11, <1>12, <1>13,
           <1>14, <1>15, <1>16, <1>17, <1>18 DEF Next, Initializing, DestroyStep, CallStep

\* Whatever threads initialise, destroy and call at once, without Quiet too: there is at
\* most one engine and one reference to the Kotlin object, and between calls the two and
\* g_initialized go together.
THEOREM OneEngineAlways == Spec => []OneEngine
<1>1. IInv => OneEngine
  BY DEF IInv, LockInv, Named, Progress, OneEngine
<1> QED BY <1>1, InitInv, StepInv, PTL DEF Spec

--------------------------------------------------------------------------------
(* With Quiet, nothing is used after it is freed                                *)

\* Calls and nativeDestroy() keep out of each other's way, and a call, like the read
\* thread, runs only while the bridge is initialised.
Sheltered ==
  /\ \A c \in Callers : pc[c] \notin {"none", "running", "lost", "last"}
  /\ \A c \in Callers : Beside(c) => initialized /\ \A d \in Callers : ~Destroying(d)
  /\ pc[ReadThread] # "none" => initialized /\ handle # Null /\ ref # Null

\* What a callback goes through is the reference of the bridge.
Current == \A t \in Threads : using[t] # Null => pc[t] \in {"callback", "last"} /\ using[t] = ref

ShelterInv == using \in [Threads -> Refs \cup {Null}] /\ Sheltered /\ Current

\* While a call is on its way, nobody is inside the lock: the engine and the reference
\* stay.
LEMMA CallsFindTheEngine ==
  ASSUME IInv, ShelterInv, NEW c \in Callers, Beside(c)
  PROVE  mutex = Null /\ handle # Null /\ ref # Null
<1>1. initialized /\ \A d \in Callers : ~Destroying(d)
  BY DEF ShelterInv, Sheltered
<1>2. ASSUME mutex # Null PROVE FALSE
  <2>1. mutex \in Callers /\ pc[mutex] \in Critical
    BY <1>2 DEF IInv, LockInv
  <2> QED BY <1>1, <2>1 DEF IInv, Progress, Destroying, Critical
<1> QED BY <1>1, <1>2 DEF IInv, Progress

\* Without an engine, or before it is handed over, nobody uses anything.
LEMMA NobodyUses ==
  ASSUME IInv, ShelterInv, ~initialized \/ handle = Null
  PROVE  /\ \A c \in Callers : ~Beside(c)
         /\ pc[ReadThread] = "none"
         /\ \A t \in Threads : using[t] = Null
<1>1. ASSUME NEW c \in Callers PROVE ~Beside(c)
  <2>1. Beside(c) => initialized
    BY DEF ShelterInv, Sheltered
  <2> QED BY <2>1, CallsFindTheEngine
<1>2. pc[ReadThread] = "none"
  BY DEF ShelterInv, Sheltered
<1>3. ASSUME NEW t \in Threads, using[t] # Null PROVE FALSE
  <2>1. pc[t] \in {"callback", "last"}
    BY <1>3 DEF ShelterInv, Current
  <2>2. CASE t = ReadThread
    BY <1>2, <2>1, <2>2
  <2>3. CASE t \in Callers
    BY <1>1, <2>1, <2>3 DEF ShelterInv, Sheltered, Beside
  <2> QED BY <2>2, <2>3 DEF Threads
<1> QED BY <1>1, <1>2, <1>3

\* A caller goes on outside of calls, callbacks and the lock, and nothing else changes
\* that matters here.
LEMMA Elsewhere ==
  ASSUME LockInv, ShelterInv, NEW c \in Callers, NEW label \in Critical \cup {"idle", "i_lock"},
         Goto(c, label), UNCHANGED <<using, initialized, handle, ref>>,
         label \notin {"x_engine", "x_ref", "x_done"} \/ Destroying(c),
         ~Beside(c)
  PROVE  ShelterInv'
<1>1. pc' = [pc EXCEPT ![c] = label] /\ c # ReadThread /\ c \in Threads
  BY BridgeThreads DEF Goto, Threads
<1>2. \A t \in Threads : pc'[t] = IF t = c THEN label ELSE pc[t]
  BY <1>1 DEF LockInv
<1>3. Sheltered'
  BY <1>1, <1>2 DEF ShelterInv, Sheltered, Beside, Destroying, Critical, Threads
<1>4. Current'
  BY <1>1, <1>2 DEF ShelterInv, Sheltered, Current, Beside, Threads
<1> QED BY <1>3, <1>4 DEF ShelterInv

\* A step that changes the globals is made when nobody uses anything.
LEMMA GlobalsStep ==
  ASSUME IInv, ShelterInv, NEW c \in Callers, NEW label \in Critical \cup {"idle"},
         ~initialized \/ handle = Null, ~Beside(c), Goto(c, label), UNCHANGED using,
         initialized' => \A d \in Callers : ~Destroying(d)
  PROVE  ShelterInv'
<1>1. pc' = [pc EXCEPT ![c] = label] /\ c # ReadThread /\ c \in Threads
  BY BridgeThreads DEF Goto, Threads
<1>2. \A t \in Threads : pc'[t] = IF t = c THEN label ELSE pc[t]
  BY <1>1 DEF IInv, LockInv
<1>3. /\ \A d \in Callers : ~Beside(d)
      /\ pc[ReadThread] = "none"
      /\ \A t \in Threads : using[t] = Null
  BY NobodyUses
<1>4. ReadThread \in Threads /\ Callers \subseteq Threads
  BY DEF Threads
<1>5. Sheltered'
  BY <1>1, <1>2, <1>3, <1>4 DEF ShelterInv, Sheltered, Beside, Destroying, Critical
<1>6. Current'
  BY <1>3 DEF Current
<1> QED BY <1>5, <1>6 DEF ShelterInv

\* One step, when no call runs beside nativeDestroy().
LEMMA ShelterStep == Quiet /\ IInv /\ ShelterInv /\ [Next]_vars => ShelterInv'
<1> SUFFICES ASSUME Quiet, IInv, ShelterInv, [Next]_vars PROVE ShelterInv'
  OBVIOUS
<1> USE BridgeThreads
<1>l. LockInv /\ Sheltered /\ Current /\ using \in [Threads -> Refs \cup {Null}]
  BY DEF IInv, ShelterInv
<1>t. Callers \subseteq Threads /\ ReadThread \in Threads /\ ReadThread \notin Callers
  BY DEF Threads
<1>1. ASSUME NEW c \in Callers, Initialize(c) PROVE ShelterInv'
  BY <1>1, <1>l, Elsewhere DEF Initialize, globals, Beside
<1>2. ASSUME NEW c \in Callers, InitializeLock(c) PROVE ShelterInv'
  BY <1>2, <1>l, Elsewhere DEF InitializeLock, Beside, Critical
<1>3. ASSUME NEW c \in Callers, DestroyLock(c) PROVE ShelterInv'
  BY <1>3, <1>l, Elsewhere DEF DestroyLock, Beside, Destroying, Critical
<1>4. ASSUME NEW c \in Callers, InitializeCreate(c) PROVE ShelterInv'
  <2>1. ~initialized /\ ~Beside(c)
    BY <1>4 DEF InitializeCreate, IInv, Progress, Beside
  <2>2. initialized' = initialized /\ using' = using
    BY <1>4 DEF InitializeCreate
  <2>3. \/ Goto(c, "i_ref")
        \/ Goto(c, "idle")
    BY <1>4 DEF InitializeCreate
  <2> QED BY <2>1, <2>2, <2>3, GlobalsStep DEF Critical
<1>5. ASSUME NEW c \in Callers, InitializeRef(c) PROVE ShelterInv'
  <2>1. ~initialized /\ ~Beside(c)
    BY <1>5 DEF InitializeRef, IInv, Progress, Beside
  <2>2. initialized' = initialized /\ using' = using /\ Goto(c, "i_done")
    BY <1>5 DEF InitializeRef
  <2> QED BY <2>1, <2>2, GlobalsStep DEF Critical
<1>6. ASSUME NEW c \in Callers, DestroyRef(c) PROVE ShelterInv'
  <2>1. handle = Null /\ ~Beside(c) /\ Destroying(c)
    BY <1>6 DEF DestroyRef, IInv, Progress, Beside, Destroying
  <2>2. pc' = [pc EXCEPT ![c] = "x_done"] /\ using' = using
    BY <1>6 DEF DestroyRef, Goto
  <2>3. /\ \A d \in Callers : ~Beside(d)
        /\ pc[ReadThread] = "none"
        /\ \A t \in Threads : using[t] = Null
    BY <2>1, NobodyUses
  <2>4. Sheltered'
    BY <1>l, <1>t, <2>2, <2>3 DEF LockInv, Sheltered, Beside
  <2>5. Current'
    BY <2>2, <2>3 DEF Current
  <2> QED BY <1>l, <2>2, <2>4, <2>5 DEF ShelterInv
<1>7. ASSUME NEW c \in Callers, InitializeDone(c) PROVE ShelterInv'
  <2>1. ~initialized
    BY <1>7 DEF InitializeDone, IInv, Progress
  <2>2. pc' = [pc EXCEPT ![c] = "idle"] /\ using' = using
    BY <1>7 DEF InitializeDone, Goto
  <2>3. /\ \A d \in Callers : ~Beside(d)
        /\ pc[ReadThread] = "none"
        /\ \A t \in Threads : using[t] = Null
    BY <2>1, NobodyUses
  <2>4. Sheltered'
    BY <1>l, <1>t, <2>2, <2>3 DEF LockInv, Sheltered, Beside
  <2>5. Current'
    BY <2>2, <2>3 DEF Current
  <2> QED BY <1>l, <2>2, <2>4, <2>5 DEF ShelterInv
<1>8. ASSUME NEW c \in Callers, DestroyDone(c) PROVE ShelterInv'
  <2>1. handle = Null
    BY <1>8 DEF DestroyDone, IInv, Progress
  <2>2. pc' = [pc EXCEPT ![c] = "idle"] /\ using' = using
    BY <1>8 DEF DestroyDone, Goto
  <2>3. /\ \A d \in Callers : ~Beside(d)
        /\ pc[ReadThread] = "none"
        /\ \A t \in Threads : using[t] = Null
    BY <2>1, NobodyUses
  <2>4. Sheltered'
    BY <1>l, <1>t, <2>2, <2>3 DEF LockInv, Sheltered, Beside
  <2>5. Current'
    BY <2>2, <2>3 DEF Current
  <2> QED BY <1>l, <2>2, <2>4, <2>5 DEF ShelterInv
<1>9. ASSUME NEW c \in Callers, DestroyEngine(c) PROVE ShelterInv'
  <2>1. Destroying(c) /\ pc[ReadThread] = "none"
    BY <1>9 DEF DestroyEngine, Destroying
  <2>2. pc' = [pc EXCEPT ![c] = "x_ref"] /\ UNCHANGED <<using, initialized, ref>>
    BY <1>9 DEF DestroyEngine, Goto
  <2>3. \A d \in Callers : ~Beside(d)
    BY <1>l, <2>1 DEF Sheltered
  <2>4. Sheltered'
    BY <1>l, <1>t, <2>1, <2>2, <2>3 DEF LockInv, Sheltered, Beside
  <2>5. Current'
    BY <1>l, <1>t, <2>1, <2>2, <2>3 DEF LockInv, Sheltered, Current, Beside, Threads
  <2> QED BY <1>l, <2>2, <2>4, <2>5 DEF ShelterInv
<1>10. ASSUME NEW c \in Callers, Destroy(c) PROVE ShelterInv'
  <2>1. \A d \in Callers : ~Beside(d)
    BY <1>10 DEF Destroy
  <2>2. pc' = [pc EXCEPT ![c] = "x_lock"] /\ UNCHANGED <<using, globals>> /\ pc[c] = "idle"
    BY <1>10 DEF Destroy, Goto
  <2>3. Sheltered'
    BY <1>l, <1>t, <2>1, <2>2 DEF LockInv, Sheltered, Beside, globals
  <2>4. Current'
    BY <1>l, <1>t, <2>1, <2>2 DEF LockInv, Sheltered, Current, Beside, Threads, globals
  <2> QED BY <1>l, <2>2, <2>3, <2>4 DEF ShelterInv
<1>11. ASSUME NEW c \in Callers, Call(c) PROVE ShelterInv'
  <2>1. initialized /\ \A d \in Callers : ~Destroying(d)
    BY <1>11 DEF Call
  <2>2. pc' = [pc EXCEPT ![c] = "call"] /\ UNCHANGED <<using, globals>> /\ pc[c] = "idle"
    BY <1>11 DEF Call, Goto
  <2>3. Sheltered'
    BY <1>l, <1>t, <2>1, <2>2 DEF LockInv, Sheltered, Beside, Destroying, globals
  <2>4. Current'
    BY <1>l, <1>t, <2>2 DEF LockInv, Current, Threads, globals
  <2> QED BY <1>l, <2>2, <2>3, <2>4 DEF ShelterInv
<1>12. ASSUME NEW c \in Callers, UseHandle(c) PROVE ShelterInv'
  <2>1. PICK label \in {"idle", "engine"} : pc' = [pc EXCEPT ![c] = label]
    BY <1>12 DEF UseHandle, Goto
  <2>2. UNCHANGED <<using, globals>> /\ pc[c] = "call"
    BY <1>12 DEF UseHandle
  <2>3. Sheltered'
    BY <1>l, <1>t, <2>1, <2>2 DEF LockInv, Sheltered, Beside, Destroying, globals
  <2>4. Current'
    BY <1>l, <1>t, <2>1, <2>2 DEF LockInv, Current, Threads, globals
  <2> QED BY <1>l, <2>2, <2>3, <2>4 DEF ShelterInv
<1>13. ASSUME NEW c \in Callers, ReturnFromEngine(c) PROVE ShelterInv'
  <2>1. UNCHANGED <<using, globals>> /\ pc[c] = "engine" /\ Beside(c)
    BY <1>13 DEF ReturnFromEngine, Beside
  <2>2. initialized /\ handle # Null /\ ref # Null
    BY <1>l, <2>1, CallsFindTheEngine DEF Sheltered
  <2>3. CASE pc' = [pc EXCEPT ![c] = "idle"]
    <3>1. Sheltered'
      BY <1>l, <1>t, <2>1, <2>3 DEF LockInv, Sheltered, Beside, Destroying, globals
    <3>2. Current'
      BY <1>l, <1>t, <2>1, <2>3 DEF LockInv, Current, Threads, globals
    <3> QED BY <1>l, <2>1, <3>1, <3>2 DEF ShelterInv
  <2>4. CASE /\ pc[ReadThread] = "none"
             /\ pc' = [pc EXCEPT ![c] = "idle", ![ReadThread] = "running"]
    <3>1. Sheltered'
      BY <1>l, <1>t, <2>1, <2>2, <2>4 DEF LockInv, Sheltered, Beside, Destroying, globals
    <3>2. Current'
      BY <1>l, <1>t, <2>1, <2>4 DEF LockInv, Current, Threads, globals
    <3> QED BY <1>l, <2>1, <3>1, <3>2 DEF ShelterInv
  <2> QED BY <1>13, <2>3, <2>4 DEF ReturnFromEngine, Goto
<1>14. ASSUME NEW t \in Threads, Callback(t) PROVE ShelterInv'
  <2>1. pc[t] \in {"engine", "running", "lost"}
    BY <1>14 DEF Callback, CallbackFrom
  <2>2. PICK label \in {"callback", "last"} :
          pc' = [pc EXCEPT ![t] = label] /\ (t \in Callers => pc[t] = "engine" /\ label = "callback")
    <3>1. CallbackFrom[pc[t]] \in {"callback", "last"}
          /\ (pc[t] = "engine" => CallbackFrom[pc[t]] = "callback")
      BY <2>1 DEF CallbackFrom
    <3>2. pc' = [pc EXCEPT ![t] = CallbackFrom[pc[t]]]
      BY <1>14 DEF Callback, Goto
    <3>3. t \in Callers => pc[t] = "engine"
      BY <1>l, <2>1 DEF Sheltered
    <3> QED BY <3>1, <3>2, <3>3
  <2>3. using' = [using EXCEPT ![t] = ref] /\ UNCHANGED globals
    BY <1>14 DEF Callback
  <2>4. Sheltered'
    BY <1>l, <1>t, <2>1, <2>2, <2>3 DEF LockInv, Sheltered, Beside, Destroying, globals, Threads
  <2>5. Current'
    BY <1>l, <2>2, <2>3 DEF LockInv, Current, globals
  <2>6. ref \in Refs \cup {Null}
    BY DEF IInv, Named
  <2> QED BY <1>l, <2>3, <2>4, <2>5, <2>6 DEF ShelterInv
<1>15. ASSUME NEW t \in Threads, CallbackEnd(t) PROVE ShelterInv'
  <2>1. PICK label \in {"engine", "none", "running"} :
          pc' = [pc EXCEPT ![t] = label] /\ (t \in Callers => label = "engine")
    BY <1>15 DEF CallbackEnd, Goto
  <2>2. pc[t] \in {"callback", "last"}
    BY <1>15 DEF CallbackEnd
  <2>3. using' = [using EXCEPT ![t] = Null] /\ UNCHANGED globals
    BY <1>15 DEF CallbackEnd
  <2>4. Sheltered'
    BY <1>l, <1>t, <2>1, <2>2, <2>3 DEF LockInv, Sheltered, Beside, Destroying, globals, Threads
  <2>5. Current'
    BY <1>l, <2>1, <2>3 DEF LockInv, Current, globals
  <2> QED BY <1>l, <2>3, <2>4, <2>5 DEF ShelterInv
<1>16. CASE Lose
  <2>1. pc' = [pc EXCEPT ![ReadThread] = "lost"] /\ UNCHANGED <<using, globals>>
        /\ pc[ReadThread] = "running"
    BY <1>16 DEF Lose, Goto
  <2>2. Sheltered'
    BY <1>l, <1>t, <2>1 DEF LockInv, Sheltered, Beside, Destroying, globals
  <2>3. Current'
    BY <1>l, <2>1 DEF LockInv, Current, globals
  <2> QED BY <1>l, <2>1, <2>2, <2>3 DEF ShelterInv
<1>17. ASSUME NEW t \in Threads, Hang(t) PROVE ShelterInv'
  <2>1. pc' = [pc EXCEPT ![t] = "hung"] /\ UNCHANGED <<using, globals>>
        /\ pc[t] \in {"engine", "running", "lost"}
    BY <1>17 DEF Hang, Goto
  <2>2. t \in Callers => pc[t] = "engine"
    BY <1>l, <2>1 DEF Sheltered
  <2>3. Sheltered'
    BY <1>l, <1>t, <2>1, <2>2 DEF LockInv, Sheltered, Beside, Destroying, globals, Threads
  <2>4. Current'
    BY <1>l, <2>1 DEF LockInv, Current, globals
  <2> QED BY <1>l, <2>1, <2>3, <2>4 DEF ShelterInv
<1>18. CASE UNCHANGED vars
  BY <1>l, <1>18 DEF vars, globals, ShelterInv, Sheltered, Current, Beside, Destroying
<1> QED BY <1>1, <1>2, <1>3, <1>4, <1>5, <1>6, <1>7, <1>8, <1>9, <1>10, <1>11, <1>12, <1>13,
           <1>14, <1>15, <1>16, <1>17, <1>18 DEF Next, Initializing, DestroyStep, CallStep

\* With Quiet and any number of threads: no callback goes through a deleted reference,
\* and neither a call nor the read thread goes on in a freed engine.
THEOREM NothingDanglesWhenQuiet ==
  ASSUME Quiet
  PROVE  Spec => []NothingDangles
<1>1. Init => ShelterInv
  <2> SUFFICES ASSUME Init PROVE ShelterInv
    OBVIOUS
  <2>1. /\ \A c \in Callers : pc[c] = "idle"
        /\ pc[ReadThread] = "none"
        /\ \A t \in Threads : using[t] = Null
    BY BridgeThreads DEF Init, Threads
  <2>2. using \in [Threads -> Refs \cup {Null}]
    BY DEF Init
  <2> QED BY <2>1, <2>2 DEF ShelterInv, Sheltered, Current, Beside
<1>2. IInv /\ ShelterInv => NothingDangles
  <2> SUFFICES ASSUME IInv, ShelterInv PROVE NothingDangles
    OBVIOUS
  <2>1. ASSUME handle # Null PROVE live # {}
    BY <2>1 DEF IInv, Named
  <2>2. ASSUME NEW t \in Threads, using[t] # Null PROVE using[t] \in valid
    <3>1. using[t] = ref
      BY <2>2 DEF ShelterInv, Current
    <3> QED BY <2>2, <3>1 DEF IInv, Named
  <2>3. ASSUME NEW c \in Callers, pc[c] \in {"engine", "callback", "hung"} PROVE live # {}
    <3>1. Beside(c)
      BY <2>3 DEF Beside
    <3> QED BY <2>1, <3>1, CallsFindTheEngine
  <2>4. pc[ReadThread] # "none" => live # {}
    BY <2>1 DEF ShelterInv, Sheltered
  <2> QED BY <2>2, <2>3, <2>4 DEF NothingDangles
<1>3. IInv /\ ShelterInv /\ [Next]_vars => ShelterInv'
  BY ShelterStep
<1> QED BY <1>1, <1>2, <1>3, InitInv, StepInv, PTL DEF Spec
================================================================================
