---------------------------- MODULE DxClusterProofs ----------------------------
(* Any number of connections, descriptors and listeners, any limit of the line  *)
(* buffer: what listeners may rely on, and whose descriptors are closed.        *)
EXTENDS DxCluster, TLAPS, WellFoundedInduction

OwnerLabels  == {"idle", "shut", "close", "clear", "join", "dial", "spawn"}
ReaderLabels == {"none", "check", "call", "recv", "recv_other", "lines", "spot",
                 "in_spot", "exit", "end", "in_end", "done"}

\* The mutex is the read thread's in a callback, the callback that runs is the one that is
\* registered, and the end of every connection but that of a live thread has been told.
CallbackInv ==
  /\ mutex = IF pc[Reader] \in {"in_spot", "in_end"} THEN Reader ELSE Nobody
  /\ ListenersInformed

\* m_fd is a descriptor of the client, but for the moment between close() and the
\* assignment of -1.
DescriptorInv ==
  /\ fd # NoFd => (own[fd] = "ours" <=> pc[Owner] # "clear")
  /\ pc[Owner] \in {"shut", "close", "clear"} => fd # NoFd

ClusterInv ==
  /\ TypeOK
  /\ pc \in [{Owner, Reader} -> OwnerLabels \cup ReaderLabels]
  /\ CallbackInv /\ DescriptorInv

\* With a careful owner: a connection is made when there is no read thread and none of its
\* predecessor's data, and no descriptor but m_fd is the client's.
FreshInv ==
  /\ ~aborted
  /\ pc[Owner] \in {"dial", "spawn"} => pc[Reader] = "none"
  /\ pc[Reader] = "none" => reads = 0 /\ lines = 0
  /\ pc[Owner] \in {"dial", "join"} => fd = NoFd
  /\ pc[Owner] = "idle" /\ pc[Reader] = "none" => fd = NoFd
  /\ pc[Owner] = "spawn" => fd # NoFd
  /\ \A f \in Fds : own[f] = "ours" => f = fd

--------------------------------------------------------------------------------
\* The least free number is free.
LEMMA LowestIsFree == Free # {} => Lowest \in Free
<1> SUFFICES ASSUME Free # {} PROVE Lowest \in Free
  OBVIOUS
<1>1. Free \subseteq Nat
  BY ClusterThreads DEF Free
<1>2. \A m, n \in Nat : m < n => <<m, n>> \in OpToRel(<, Nat)
  BY DEF OpToRel
<1>3. PICK f \in Free : \A g \in Free : ~(<<g, f>> \in OpToRel(<, Nat))
  BY <1>1, NatLessThanWellFounded, WFMin
<1>4. \A g \in Free : f <= g
  <2> SUFFICES ASSUME NEW g \in Free PROVE ~(g < f)
    BY <1>1
  <2> QED BY <1>1, <1>2, <1>3
<1> QED BY <1>3, <1>4 DEF Lowest

--------------------------------------------------------------------------------
(* Any owner                                                                    *)

LEMMA InitCluster == Init => ClusterInv
<1> SUFFICES ASSUME Init PROVE ClusterInv
  OBVIOUS
<1> USE ClusterThreads DEF Init
<1>1. TypeOK
  <2>1. pc[Owner] = "idle" /\ pc[Reader] = "none"
    OBVIOUS
  <2>2. cb \in [{"spot", "end"} -> Listeners \cup {Nobody}]
    OBVIOUS
  <2>3. own \in [Fds -> {"free", "ours", "foreign"}]
    OBVIOUS
  <2>4. reads \in 0..MaxReads /\ lines \in 0..MaxLines
    OBVIOUS
  <2>5. {running, connected, up, aborted} \subseteq BOOLEAN
    OBVIOUS
  <2> QED BY <2>1, <2>2, <2>3, <2>4, <2>5 DEF TypeOK
<1>2. pc \in [{Owner, Reader} -> OwnerLabels \cup ReaderLabels]
  BY DEF OwnerLabels, ReaderLabels
<1>3. CallbackInv /\ DescriptorInv
  BY DEF CallbackInv, ListenersInformed, DescriptorInv
<1> QED BY <1>1, <1>2, <1>3 DEF ClusterInv

LEMMA TypeStep == ClusterInv /\ [Next]_vars => TypeOK'
<1> SUFFICES ASSUME ClusterInv, [Next]_vars PROVE TypeOK'
  OBVIOUS
<1> USE ClusterThreads DEF ClusterInv, TypeOK, buffer, calls
<1>1. ASSUME Connect PROVE TypeOK'
  BY <1>1 DEF Connect, Enter, Goto
<1>2. ASSUME Disconnect PROVE TypeOK'
  BY <1>2 DEF Disconnect, Enter, Goto
<1>3. ASSUME ShutDown PROVE TypeOK'
  BY <1>3 DEF ShutDown, Goto
<1>4. ASSUME Close PROVE TypeOK'
  BY <1>4 DEF Close, Goto
<1>5. ASSUME ClearFd PROVE TypeOK'
  BY <1>5 DEF ClearFd, Goto
<1>6. ASSUME Join PROVE TypeOK'
  BY <1>6 DEF Join
<1>7. ASSUME DialFailed PROVE TypeOK'
  BY <1>7 DEF DialFailed, Goto
<1>8. ASSUME Dial PROVE TypeOK'
  <2>1. Lowest \in Fds
    BY <1>8, LowestIsFree DEF Dial, Free
  <2>2. {running', connected', up', aborted'} \subseteq BOOLEAN
    BY <1>8 DEF Dial
  <2>3. own' \in [Fds -> {"free", "ours", "foreign"}] /\ fd' \in Fds
    BY <1>8, <2>1 DEF Dial
  <2>4. pc'[Owner] = "spawn" /\ pc'[Reader] = pc[Reader]
    BY <1>8 DEF Dial, Goto
  <2> QED BY <1>8, <2>2, <2>3, <2>4 DEF Dial
<1>9. ASSUME Spawn PROVE TypeOK'
  <2>1. CASE pc[Reader] = "none"
    BY <1>9, <2>1 DEF Spawn
  <2>2. CASE pc[Reader] # "none"
    BY <1>9, <2>2 DEF Spawn
  <2> QED BY <2>1, <2>2
<1>10. ASSUME Check PROVE TypeOK'
  BY <1>10 DEF Check, Goto
<1>11. ASSUME CallRecv PROVE TypeOK'
  BY <1>11 DEF CallRecv, Goto
<1>12. ASSUME RecvEnd PROVE TypeOK'
  BY <1>12 DEF RecvEnd, Goto
<1>13. ASSUME TakeLine PROVE TypeOK'
  BY <1>13 DEF TakeLine, Goto
<1>14. ASSUME Exit PROVE TypeOK'
  BY <1>14 DEF Exit, Goto
<1>15. ASSUME Return PROVE TypeOK'
  BY <1>15 DEF Return, Goto
<1>16. ASSUME NEW k \in {"spot", "end"}, CallBack(k) PROVE TypeOK'
  <2>1. untold' \in Nat
    BY <1>16 DEF CallBack, CallbackInv, ListenersInformed
  <2>2. /\ pc'[Owner] = pc[Owner]
        /\ pc'[Reader] \in {"in_end", "in_spot"}
    BY <1>16 DEF CallBack, Goto
  <2>3. using' \in Listeners \cup {Nobody}
    BY <1>16 DEF CallBack
  <2> QED BY <1>16, <2>1, <2>2, <2>3 DEF CallBack
<1>17. ASSUME RecvData PROVE TypeOK'
  BY <1>17 DEF RecvData, HasData, Goto
<1>18. ASSUME Overflow PROVE TypeOK'
  <2>1. reads' \in 0..MaxReads /\ lines' \in 0..MaxLines
    BY <1>18 DEF Overflow
  <2>2. {running', connected', up', aborted'} \subseteq BOOLEAN
    BY <1>18 DEF Overflow
  <2> QED BY <1>18, <2>1, <2>2 DEF Overflow, HasData, Goto
<1>19. ASSUME NEW k \in {"spot", "end"}, NEW c \in Listeners \cup {Nobody}, SetCallback(k, c) PROVE TypeOK'
  BY <1>19 DEF SetCallback
<1>20. ASSUME PeerLost PROVE TypeOK'
  BY <1>20 DEF PeerLost
<1>21. ASSUME ForeignOpens PROVE TypeOK'
  BY <1>21, LowestIsFree DEF ForeignOpens
<1>22. ASSUME ForeignCloses PROVE TypeOK'
  BY <1>22 DEF ForeignCloses
<1>23. ASSUME UNCHANGED vars PROVE TypeOK'
  BY <1>23 DEF vars
<1>24. ASSUME RecvOtherFails PROVE TypeOK'
  BY <1>24 DEF RecvOtherFails, Goto
<1> QED BY <1>1, <1>2, <1>3, <1>4, <1>5, <1>6, <1>7, <1>8, <1>9, <1>10, <1>11, <1>12, <1>13, <1>14, <1>15, <1>16, <1>17, <1>18, <1>19, <1>20, <1>21, <1>22, <1>23, <1>24
  DEF Next, Calling, Reading

LEMMA LabelsStep == ClusterInv /\ [Next]_vars => (pc \in [{Owner, Reader} -> OwnerLabels \cup ReaderLabels])'
<1> DEFINE Labelled == pc \in [{Owner, Reader} -> OwnerLabels \cup ReaderLabels]
<1> SUFFICES ASSUME ClusterInv, [Next]_vars PROVE Labelled'
  OBVIOUS
<1> USE DEF ClusterInv, TypeOK, OwnerLabels, ReaderLabels, buffer, calls
<1>1. ASSUME Connect PROVE Labelled'
  BY <1>1 DEF Connect, Enter, Goto
<1>2. ASSUME Disconnect PROVE Labelled'
  BY <1>2 DEF Disconnect, Enter, Goto
<1>3. ASSUME ShutDown PROVE Labelled'
  BY <1>3 DEF ShutDown, Goto
<1>4. ASSUME Close PROVE Labelled'
  BY <1>4 DEF Close, Goto
<1>5. ASSUME ClearFd PROVE Labelled'
  BY <1>5 DEF ClearFd, Goto
<1>6. ASSUME Join PROVE Labelled'
  BY <1>6 DEF Join
<1>7. ASSUME DialFailed PROVE Labelled'
  BY <1>7 DEF DialFailed, Goto
<1>8. ASSUME Dial PROVE Labelled'
  BY <1>8 DEF Dial, Goto
<1>9. ASSUME Spawn PROVE Labelled'
  BY <1>9 DEF Spawn
<1>10. ASSUME Check PROVE Labelled'
  BY <1>10 DEF Check, Goto
<1>11. ASSUME CallRecv PROVE Labelled'
  BY <1>11 DEF CallRecv, Goto
<1>12. ASSUME RecvEnd PROVE Labelled'
  BY <1>12 DEF RecvEnd, Goto
<1>13. ASSUME TakeLine PROVE Labelled'
  BY <1>13 DEF TakeLine, Goto
<1>14. ASSUME Exit PROVE Labelled'
  BY <1>14 DEF Exit, Goto
<1>15. ASSUME Return PROVE Labelled'
  BY <1>15 DEF Return, Goto
<1>16. ASSUME NEW k \in {"spot", "end"}, CallBack(k) PROVE Labelled'
  BY <1>16 DEF CallBack, Goto
<1>17. ASSUME RecvData PROVE Labelled'
  BY <1>17 DEF RecvData, HasData, Goto
<1>18. ASSUME Overflow PROVE Labelled'
  BY <1>18 DEF Overflow, HasData, Goto
<1>19. ASSUME NEW k \in {"spot", "end"}, NEW c \in Listeners \cup {Nobody}, SetCallback(k, c) PROVE Labelled'
  BY <1>19 DEF SetCallback
<1>20. ASSUME PeerLost PROVE Labelled'
  BY <1>20 DEF PeerLost
<1>21. ASSUME ForeignOpens PROVE Labelled'
  BY <1>21 DEF ForeignOpens
<1>22. ASSUME ForeignCloses PROVE Labelled'
  BY <1>22 DEF ForeignCloses
<1>23. ASSUME UNCHANGED vars PROVE Labelled'
  BY <1>23 DEF vars
<1>24. ASSUME RecvOtherFails PROVE Labelled'
  BY <1>24 DEF RecvOtherFails, Goto
<1> QED BY <1>1, <1>2, <1>3, <1>4, <1>5, <1>6, <1>7, <1>8, <1>9, <1>10, <1>11, <1>12, <1>13, <1>14, <1>15, <1>16, <1>17, <1>18, <1>19, <1>20, <1>21, <1>22, <1>23, <1>24
  DEF Next, Calling, Reading

LEMMA CallbackStep == ClusterInv /\ [Next]_vars => CallbackInv'
<1> SUFFICES ASSUME ClusterInv, [Next]_vars PROVE CallbackInv'
  OBVIOUS
<1> USE ClusterThreads DEF ClusterInv, TypeOK, CallbackInv, ListenersInformed, buffer, calls
<1>1. ASSUME Connect PROVE CallbackInv'
  BY <1>1 DEF Connect, Enter, Goto
<1>2. ASSUME Disconnect PROVE CallbackInv'
  BY <1>2 DEF Disconnect, Enter, Goto
<1>3. ASSUME ShutDown PROVE CallbackInv'
  BY <1>3 DEF ShutDown, Goto
<1>4. ASSUME Close PROVE CallbackInv'
  BY <1>4 DEF Close, Goto
<1>5. ASSUME ClearFd PROVE CallbackInv'
  BY <1>5 DEF ClearFd, Goto
<1>6. ASSUME Join PROVE CallbackInv'
  BY <1>6 DEF Join
<1>7. ASSUME DialFailed PROVE CallbackInv'
  BY <1>7 DEF DialFailed, Goto
<1>8. ASSUME Dial PROVE CallbackInv'
  BY <1>8 DEF Dial, Goto
<1>9. ASSUME Spawn PROVE CallbackInv'
  BY <1>9 DEF Spawn
<1>10. ASSUME Check PROVE CallbackInv'
  BY <1>10 DEF Check, Goto
<1>11. ASSUME CallRecv PROVE CallbackInv'
  BY <1>11 DEF CallRecv, Goto
<1>12. ASSUME RecvEnd PROVE CallbackInv'
  BY <1>12 DEF RecvEnd, Goto
<1>13. ASSUME TakeLine PROVE CallbackInv'
  BY <1>13 DEF TakeLine, Goto
<1>14. ASSUME Exit PROVE CallbackInv'
  BY <1>14 DEF Exit, Goto
<1>15. ASSUME Return PROVE CallbackInv'
  BY <1>15 DEF Return, Goto
<1>16. ASSUME NEW k \in {"spot", "end"}, CallBack(k) PROVE CallbackInv'
  BY <1>16 DEF CallBack, Goto
<1>17. ASSUME RecvData PROVE CallbackInv'
  BY <1>17 DEF RecvData, HasData, Goto
<1>18. ASSUME Overflow PROVE CallbackInv'
  BY <1>18 DEF Overflow, HasData, Goto
<1>19. ASSUME NEW k \in {"spot", "end"}, NEW c \in Listeners \cup {Nobody}, SetCallback(k, c) PROVE CallbackInv'
  BY <1>19 DEF SetCallback
<1>20. ASSUME PeerLost PROVE CallbackInv'
  BY <1>20 DEF PeerLost
<1>21. ASSUME ForeignOpens PROVE CallbackInv'
  BY <1>21 DEF ForeignOpens
<1>22. ASSUME ForeignCloses PROVE CallbackInv'
  BY <1>22 DEF ForeignCloses
<1>23. ASSUME UNCHANGED vars PROVE CallbackInv'
  BY <1>23 DEF vars
<1>24. ASSUME RecvOtherFails PROVE CallbackInv'
  BY <1>24 DEF RecvOtherFails, Goto
<1> QED BY <1>1, <1>2, <1>3, <1>4, <1>5, <1>6, <1>7, <1>8, <1>9, <1>10, <1>11, <1>12, <1>13, <1>14, <1>15, <1>16, <1>17, <1>18, <1>19, <1>20, <1>21, <1>22, <1>23, <1>24
  DEF Next, Calling, Reading

LEMMA DescriptorStep == ClusterInv /\ [Next]_vars => DescriptorInv'
<1> SUFFICES ASSUME ClusterInv, [Next]_vars PROVE DescriptorInv'
  OBVIOUS
<1> USE ClusterThreads DEF ClusterInv, TypeOK, DescriptorInv, buffer, calls
<1>1. ASSUME Connect PROVE DescriptorInv'
  BY <1>1 DEF Connect, Enter, Goto
<1>2. ASSUME Disconnect PROVE DescriptorInv'
  BY <1>2 DEF Disconnect, Enter, Goto
<1>3. ASSUME ShutDown PROVE DescriptorInv'
  BY <1>3 DEF ShutDown, Goto
<1>4. ASSUME Close PROVE DescriptorInv'
  BY <1>4 DEF Close, Goto
<1>5. ASSUME ClearFd PROVE DescriptorInv'
  BY <1>5 DEF ClearFd, Goto
<1>6. ASSUME Join PROVE DescriptorInv'
  BY <1>6 DEF Join
<1>7. ASSUME DialFailed PROVE DescriptorInv'
  BY <1>7 DEF DialFailed, Goto
<1>8. ASSUME Dial PROVE DescriptorInv'
  BY <1>8, LowestIsFree DEF Free, Dial, Goto
<1>9. ASSUME Spawn PROVE DescriptorInv'
  BY <1>9 DEF Spawn
<1>10. ASSUME Check PROVE DescriptorInv'
  BY <1>10 DEF Check, Goto
<1>11. ASSUME CallRecv PROVE DescriptorInv'
  BY <1>11 DEF CallRecv, Goto
<1>12. ASSUME RecvEnd PROVE DescriptorInv'
  BY <1>12 DEF RecvEnd, Goto
<1>13. ASSUME TakeLine PROVE DescriptorInv'
  BY <1>13 DEF TakeLine, Goto
<1>14. ASSUME Exit PROVE DescriptorInv'
  BY <1>14 DEF Exit, Goto
<1>15. ASSUME Return PROVE DescriptorInv'
  BY <1>15 DEF Return, Goto
<1>16. ASSUME NEW k \in {"spot", "end"}, CallBack(k) PROVE DescriptorInv'
  BY <1>16 DEF CallBack, Goto
<1>17. ASSUME RecvData PROVE DescriptorInv'
  BY <1>17 DEF RecvData, HasData, Goto
<1>18. ASSUME Overflow PROVE DescriptorInv'
  BY <1>18 DEF Overflow, HasData, Goto
<1>19. ASSUME NEW k \in {"spot", "end"}, NEW c \in Listeners \cup {Nobody}, SetCallback(k, c) PROVE DescriptorInv'
  BY <1>19 DEF SetCallback
<1>20. ASSUME PeerLost PROVE DescriptorInv'
  BY <1>20 DEF PeerLost
<1>21. ASSUME ForeignOpens PROVE DescriptorInv'
  BY <1>21, LowestIsFree DEF Free, ForeignOpens
<1>22. ASSUME ForeignCloses PROVE DescriptorInv'
  BY <1>22 DEF ForeignCloses
<1>23. ASSUME UNCHANGED vars PROVE DescriptorInv'
  BY <1>23 DEF vars
<1>24. ASSUME RecvOtherFails PROVE DescriptorInv'
  BY <1>24 DEF RecvOtherFails, Goto
<1> QED BY <1>1, <1>2, <1>3, <1>4, <1>5, <1>6, <1>7, <1>8, <1>9, <1>10, <1>11, <1>12, <1>13, <1>14, <1>15, <1>16, <1>17, <1>18, <1>19, <1>20, <1>21, <1>22, <1>23, <1>24
  DEF Next, Calling, Reading

\* One step of any owner, of the read thread, of a cluster or of the process.
LEMMA ClusterStep == ClusterInv /\ [Next]_vars => ClusterInv'
BY TypeStep, LabelsStep, CallbackStep, DescriptorStep DEF ClusterInv

\* Any number of connections, listeners and descriptors, and an owner that calls as it
\* likes: every variable keeps its type, and the line buffer its limit.
THEOREM ClusterTypeCorrect == Spec => []TypeOK
<1>1. ClusterInv => TypeOK
  BY DEF ClusterInv
<1> QED BY <1>1, InitCluster, ClusterStep, PTL DEF Spec

\* A callback that runs is the one that is registered, though it may be replaced at any time,
\* and every connection ends in one notification.
THEOREM ListenersInformedAlways == Spec => []ListenersInformed
<1>1. ClusterInv => ListenersInformed
  BY DEF ClusterInv, CallbackInv
<1> QED BY <1>1, InitCluster, ClusterStep, PTL DEF Spec

LEMMA ForeignStep ==
  ClusterInv /\ [Next]_vars => \A f \in Fds : own[f] = "foreign" /\ own'[f] # "foreign" => ForeignCloses
<1> DEFINE Safe == \A f \in Fds : own[f] = "foreign" => own'[f] = "foreign"
<1> SUFFICES ASSUME ClusterInv, [Next]_vars, ~ForeignCloses PROVE Safe
  OBVIOUS
<1>1. ASSUME Close PROVE Safe
  BY <1>1 DEF ClusterInv, TypeOK, Close, DescriptorInv
<1>2. ASSUME Dial PROVE Safe
  BY <1>2, LowestIsFree DEF ClusterInv, TypeOK, Dial, Free
<1>3. ASSUME ForeignOpens PROVE Safe
  BY <1>3, LowestIsFree DEF ClusterInv, TypeOK, ForeignOpens, Free
<1>4. ASSUME UNCHANGED own PROVE Safe
  BY <1>4
<1>5. ASSUME Connect \/ Disconnect \/ ShutDown \/ ClearFd \/ Join \/ DialFailed \/ Spawn PROVE Safe
  BY <1>5, <1>4 DEF Connect, Disconnect, Enter, ShutDown, ClearFd, Join, DialFailed, Spawn
<1>6. ASSUME Reading \/ RecvData \/ Overflow \/ RecvOtherFails PROVE Safe
  BY <1>6, <1>4 DEF Reading, Check, CallRecv, RecvEnd, TakeLine, Exit, Return, CallBack,
                    RecvData, Overflow, RecvOtherFails
<1>7. ASSUME NEW k \in {"spot", "end"}, NEW c \in Listeners \cup {Nobody}, SetCallback(k, c) PROVE Safe
  BY <1>7, <1>4 DEF SetCallback
<1>8. ASSUME PeerLost \/ UNCHANGED vars PROVE Safe
  BY <1>8, <1>4 DEF PeerLost, vars
<1> QED BY <1>1, <1>2, <1>3, <1>5, <1>6, <1>7, <1>8 DEF Next, Calling

\* A careless owner's too: disconnect() closes no descriptor that others have opened, as it
\* closes m_fd once, and has forgotten it when it could close it again, though others may have
\* been given the number in between.
THEOREM ClosesItsOwnAlways == Spec => ClosesItsOwn
<1>1. ClusterInv /\ [Next]_vars =>
        \A f \in Fds : own[f] = "foreign" /\ own'[f] # "foreign" => ForeignCloses
  BY ForeignStep
<1> QED BY <1>1, InitCluster, ClusterStep, PTL DEF Spec, ClosesItsOwn

--------------------------------------------------------------------------------
(* A careful owner                                                              *)

LEMMA FreshStep ==
  ASSUME Careful PROVE ClusterInv /\ FreshInv /\ [Next]_vars => FreshInv'
<1> SUFFICES ASSUME ClusterInv, FreshInv, [Next]_vars PROVE FreshInv'
  OBVIOUS
<1> USE ClusterThreads DEF ClusterInv, TypeOK, DescriptorInv, FreshInv, buffer, calls
<1>1. ASSUME Connect PROVE FreshInv'
  BY <1>1 DEF Connect, Enter, Goto
<1>2. ASSUME Disconnect PROVE FreshInv'
  BY <1>2 DEF Disconnect, Enter, Goto
<1>3. ASSUME ShutDown PROVE FreshInv'
  BY <1>3 DEF ShutDown, Goto
<1>4. ASSUME Close PROVE FreshInv'
  BY <1>4 DEF Close, Goto
<1>5. ASSUME ClearFd PROVE FreshInv'
  BY <1>5 DEF ClearFd, Goto
<1>6. ASSUME Join PROVE FreshInv'
  BY <1>6 DEF Join
<1>7. ASSUME DialFailed PROVE FreshInv'
  BY <1>7 DEF DialFailed, Goto
<1>8. ASSUME Dial PROVE FreshInv'
  BY <1>8, LowestIsFree DEF Free, Dial, Goto
<1>9. ASSUME Spawn PROVE FreshInv'
  BY <1>9 DEF Spawn
<1>10. ASSUME Check PROVE FreshInv'
  BY <1>10 DEF Check, Goto
<1>11. ASSUME CallRecv PROVE FreshInv'
  BY <1>11 DEF CallRecv, Goto
<1>12. ASSUME RecvEnd PROVE FreshInv'
  BY <1>12 DEF RecvEnd, Goto
<1>13. ASSUME TakeLine PROVE FreshInv'
  BY <1>13 DEF TakeLine, Goto
<1>14. ASSUME Exit PROVE FreshInv'
  BY <1>14 DEF Exit, Goto
<1>15. ASSUME Return PROVE FreshInv'
  BY <1>15 DEF Return, Goto
<1>16. ASSUME NEW k \in {"spot", "end"}, CallBack(k) PROVE FreshInv'
  BY <1>16 DEF CallBack, Goto
<1>17. ASSUME RecvData PROVE FreshInv'
  BY <1>17 DEF RecvData, HasData, Goto
<1>18. ASSUME Overflow PROVE FreshInv'
  BY <1>18 DEF Overflow, HasData, Goto
<1>19. ASSUME NEW k \in {"spot", "end"}, NEW c \in Listeners \cup {Nobody}, SetCallback(k, c) PROVE FreshInv'
  BY <1>19 DEF SetCallback
<1>20. ASSUME PeerLost PROVE FreshInv'
  BY <1>20 DEF PeerLost
<1>21. ASSUME ForeignOpens PROVE FreshInv'
  BY <1>21, LowestIsFree DEF Free, ForeignOpens
<1>22. ASSUME ForeignCloses PROVE FreshInv'
  BY <1>22 DEF ForeignCloses
<1>23. ASSUME UNCHANGED vars PROVE FreshInv'
  BY <1>23 DEF vars
<1>24. ASSUME RecvOtherFails PROVE FreshInv'
  BY <1>24 DEF RecvOtherFails, Goto
<1> QED BY <1>1, <1>2, <1>3, <1>4, <1>5, <1>6, <1>7, <1>8, <1>9, <1>10, <1>11, <1>12, <1>13, <1>14, <1>15, <1>16, <1>17, <1>18, <1>19, <1>20, <1>21, <1>22, <1>23, <1>24
  DEF Next, Calling, Reading

\* An owner that calls disconnect() after a loss: a connection starts with no joinable thread,
\* no half of a line, and a descriptor of its own, the only one of the client.
THEOREM StartsAfreshAlways == ASSUME Careful PROVE Spec => []StartsAfresh
<1>1. Init => FreshInv
  BY ClusterThreads DEF Init, FreshInv
<1>2. ClusterInv /\ FreshInv /\ [Next]_vars => FreshInv'
  BY FreshStep
<1>3. ClusterInv /\ FreshInv => StartsAfresh
  BY DEF ClusterInv, DescriptorInv, FreshInv, StartsAfresh
<1> QED BY <1>1, <1>2, <1>3, InitCluster, ClusterStep, PTL DEF Spec
================================================================================
