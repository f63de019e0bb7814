----------------------------- MODULE CatServerProofs ---------------------------
(* CatServer with any number of clients and numbers: the list is that of the    *)
(* clients served, and stop() leaves nothing.  CatSession with any client: the  *)
(* buffer stays within its limit, the mode is answered as it was reported, and  *)
(* what a client says is answered or forwarded, however TCP cuts it.            *)
EXTENDS CatServer, CatSession, SequenceTheorems, WellFoundedInduction, TLAPS

\* Places of a handler: in all of them it holds a number, in all but the last the list
\* may have it.
Held == {"check", "call", "recv", "recv_other", "remove", "close"}
MayBeListed == {"check", "call", "recv", "recv_other", "remove"}

\* Until stop() has gone through the list.
Early == pc[Owner] \in {"idle", "listen", "close", "clear", "clients"}

\* A thread has a number exactly while it works on a client.
HoldInv ==
  /\ \A h \in Handlers : IF pc[h] \in Held THEN fdOf[h] \in Fds ELSE fdOf[h] = NoFd
  /\ IF pc[Acceptor] \in {"limit", "spawn"} THEN fdOf[Acceptor] \in Fds ELSE fdOf[Acceptor] = NoFd

\* What a number refers to knows the number.
NumberInv ==
  /\ \A f \in Fds, h \in Handlers : own[f] = h => fdOf[h] = f
  /\ \A f \in Fds : own[f] = "accepted" => fdOf[Acceptor] = f
  /\ \A f \in Fds : own[f] = "listen" => listenFd = f /\ pc[Owner] # "clear"
  /\ \A f \in Fds : listenFd = f /\ pc[Owner] # "clear" => own[f] = "listen"

\* No two threads have the same number.
ApartInv ==
  \A h \in Handlers : pc[h] \in Held =>
    /\ \A g \in Handlers : g # h /\ pc[g] \in Held => fdOf[g] # fdOf[h]
    /\ pc[Acceptor] \in {"limit", "spawn"} => fdOf[Acceptor] # fdOf[h]

\* Every entry of the list is the number of a thread that will remove it.
ListInv ==
  \A f \in Fds : Listed(f) =>
    \/ \E h \in Handlers : pc[h] \in MayBeListed /\ fdOf[h] = f
    \/ pc[Acceptor] = "spawn" /\ fdOf[Acceptor] = f

\* As long as only handlers close the numbers of clients, a number that is held refers to
\* its holder, and the list has it once, from the limit to the removal.
EarlyInv == Early =>
  /\ \A h \in Handlers :
       /\ pc[h] \in Held => own[fdOf[h]] = h
       /\ pc[h] \in MayBeListed => Listed(fdOf[h])
       /\ pc[h] = "close" => ~Listed(fdOf[h])
  /\ pc[Acceptor] \in {"limit", "spawn"} => own[fdOf[Acceptor]] = "accepted"
  /\ pc[Acceptor] = "limit" => ~Listed(fdOf[Acceptor])
  /\ pc[Acceptor] = "spawn" => Listed(fdOf[Acceptor])
  /\ \A i, j \in DOMAIN clientFds : clientFds[i] = clientFds[j] => i = j

\* A number that is held is its holder's, unless stop() has closed it.
LateInv ==
  /\ Early => stale = {}
  /\ \A h \in Handlers : pc[h] \in Held /\ h \notin stale => own[fdOf[h]] = h
  /\ pc[Acceptor] \in {"limit", "spawn"} /\ Acceptor \notin stale =>
       own[fdOf[Acceptor]] = "accepted"

\* The stages of stop().
StageInv ==
  /\ Stopping => ~running
  /\ ~Stopping /\ ~running => listenFd = NoFd /\ \A s \in Servers : pc[s] = "none"
  /\ pc[Owner] \in {"clients", "join_acceptor", "join_handlers"} => listenFd = NoFd
  /\ pc[Owner] = "close" => listenFd # NoFd
  /\ backlog => listenFd # NoFd /\ pc[Owner] \in {"idle", "listen"}
  /\ pc[Owner] = "join_handlers" => pc[Acceptor] = "none"

--------------------------------------------------------------------------------
(* Operators                                                                    *)

\* A set of numbers has a least one.
LEMMA LeastOf ==
  ASSUME NEW S, S \subseteq Nat, S # {}
  PROVE  \E m \in S : \A n \in S : m <= n
<1>1. \A m, n \in Nat : m < n => <<m, n>> \in OpToRel(<, Nat)
  BY DEF OpToRel
<1>2. PICK m \in S : \A n \in S : ~(<<n, m>> \in OpToRel(<, Nat))
  BY NatLessThanWellFounded, WFMin
<1>3. ASSUME NEW n \in S PROVE m <= n
  <2>1. m \in Nat /\ n \in Nat /\ ~(n < m)
    BY <1>1, <1>2
  <2> QED BY <2>1
<1> QED BY <1>3

\* The kernel hands out a number that is free.
LEMMA LowestIsFree ==
  ASSUME Free # {}
  PROVE  Lowest \in Fds /\ own[Lowest] = "free"
<1>1. Free \subseteq Nat
  BY ServerThreads DEF Free
<1>2. PICK f \in Free : \A g \in Free : f <= g
  BY <1>1, LeastOf
<1>3. Lowest \in Free
  BY <1>2 DEF Lowest
<1> QED BY <1>3 DEF Free

LEMMA NoneListed ==
  ASSUME clientFds \in Seq(Fds), \A i \in DOMAIN clientFds : FALSE
  PROVE  clientFds = <<>>
<1> SUFFICES ASSUME clientFds # <<>> PROVE FALSE
  OBVIOUS
<1>1. Len(clientFds) \in Nat \ {0}
  BY EmptySeq
<1>2. 1 \in DOMAIN clientFds
  BY <1>1
<1> QED BY <1>2

\* An entry is added to the list.
LEMMA Listing ==
  ASSUME clientFds \in Seq(Fds), NEW fd \in Fds, clientFds' = Append(clientFds, fd)
  PROVE  /\ clientFds' \in Seq(Fds) /\ Len(clientFds') = Len(clientFds) + 1
         /\ \A f : Listed(f)' <=> Listed(f) \/ f = fd
         /\ ~Listed(fd) /\ (\A i, j \in DOMAIN clientFds : clientFds[i] = clientFds[j] => i = j)
              => \A i, j \in DOMAIN clientFds' : clientFds'[i] = clientFds'[j] => i = j
<1> PICK n \in Nat : n = Len(clientFds)
  OBVIOUS
<1>1. /\ clientFds' \in Seq(Fds) /\ Len(clientFds') = n + 1
      /\ \A i \in 1..n : clientFds'[i] = clientFds[i]
      /\ clientFds'[n + 1] = fd
  BY AppendProperties
<1>2. DOMAIN clientFds' = 1..(n + 1) /\ DOMAIN clientFds = 1..n
  BY <1>1
<1>3. ASSUME NEW f PROVE Listed(f)' <=> Listed(f) \/ f = fd
  <2>1. Listed(f)' <=> \E i \in 1..(n + 1) : clientFds'[i] = f
    BY <1>2 DEF Listed
  <2>2. Listed(f) <=> \E i \in 1..n : clientFds[i] = f
    BY <1>2 DEF Listed
  <2> QED BY <1>1, <2>1, <2>2
<1>4. ASSUME ~Listed(fd), \A i, j \in DOMAIN clientFds : clientFds[i] = clientFds[j] => i = j,
             NEW i \in DOMAIN clientFds', NEW j \in DOMAIN clientFds', clientFds'[i] = clientFds'[j]
      PROVE  i = j
  <2>1. \A k \in 1..n : clientFds[k] # fd
    BY <1>2, <1>4 DEF Listed
  <2> QED BY <1>1, <1>2, <1>4, <2>1
<1> QED BY <1>1, <1>3, <1>4

\* A number is taken from the list.
LEMMA Unlisting ==
  ASSUME clientFds \in Seq(Fds), NEW fd, Unlist(fd)
  PROVE  /\ clientFds' \in Seq(Fds) /\ Len(clientFds') <= Len(clientFds)
         /\ \A f : Listed(f)' <=> Listed(f) /\ f # fd
         /\ (\A i, j \in DOMAIN clientFds : clientFds[i] = clientFds[j] => i = j)
              => \A i, j \in DOMAIN clientFds' : clientFds'[i] = clientFds'[j] => i = j
<1> DEFINE others == {i \in DOMAIN clientFds : clientFds[i] # fd}
<1>1. PICK kept \in UNION {[1..n -> others] : n \in 0..Len(clientFds)} :
        /\ \A k, l \in DOMAIN kept : k < l => kept[k] < kept[l]
        /\ \A i \in others : \E k \in DOMAIN kept : kept[k] = i
        /\ clientFds' = [k \in DOMAIN kept |-> clientFds[kept[k]]]
  BY Zenon DEF Unlist
<1>2. PICK n \in 0..Len(clientFds) : kept \in [1..n -> others]
  BY <1>1
<1>3. DOMAIN kept = 1..n /\ n \in Nat /\ n <= Len(clientFds)
  BY <1>2
<1>4. \A k \in 1..n : kept[k] \in DOMAIN clientFds /\ clientFds[kept[k]] # fd
                       /\ clientFds[kept[k]] \in Fds
  BY <1>2
<1>5. DOMAIN clientFds' = 1..n /\ \A k \in 1..n : clientFds'[k] = clientFds[kept[k]]
  BY <1>1, <1>3
<1>6. clientFds' \in Seq(Fds) /\ Len(clientFds') = n
  <2>1. clientFds' = [k \in 1..n |-> clientFds[kept[k]]]
    BY <1>1, <1>3
  <2> QED BY <1>3, <1>4, <2>1
<1>7. ASSUME NEW f PROVE Listed(f)' <=> Listed(f) /\ f # fd
  <2>1. Listed(f)' <=> \E k \in 1..n : clientFds[kept[k]] = f
    BY <1>5 DEF Listed
  <2>2. ASSUME Listed(f), f # fd PROVE Listed(f)'
    <3>1. PICK i \in DOMAIN clientFds : clientFds[i] = f
      BY <2>2 DEF Listed
    <3>2. i \in others
      BY <2>2, <3>1
    <3>3. PICK k \in DOMAIN kept : kept[k] = i
      BY <1>1, <3>2
    <3> QED BY <1>3, <2>1, <3>1, <3>3
  <2>3. ASSUME Listed(f)' PROVE Listed(f) /\ f # fd
    BY <1>4, <2>1, <2>3 DEF Listed
  <2> QED BY <2>2, <2>3
<1>8. ASSUME \A i, j \in DOMAIN clientFds : clientFds[i] = clientFds[j] => i = j,
             NEW i \in DOMAIN clientFds', NEW j \in DOMAIN clientFds', clientFds'[i] = clientFds'[j]
      PROVE  i = j
  <2>1. i \in 1..n /\ j \in 1..n /\ kept[i] = kept[j]
    BY <1>4, <1>5, <1>8
  <2>2. kept[i] \in Nat
    BY <1>4, <2>1
  <2>3. ~(i < j) /\ ~(j < i)
    BY <1>1, <1>3, <2>1, <2>2
  <2> QED BY <2>1, <2>3
<1> QED BY <1>3, <1>6, <1>7, <1>8

\* The types, one by one.
Typed ==
  /\ pc[Owner] \in {"idle", "listen", "close", "clear", "clients", "join_acceptor", "join_handlers"}
  /\ pc[Acceptor] \in {"none", "check", "poll", "accept", "limit", "spawn", "done"}
  /\ \A h \in Handlers :
       pc[h] \in {"none", "check", "call", "recv", "recv_other", "remove", "close", "done"}
  /\ DOMAIN pc = Threads /\ running \in BOOLEAN /\ backlog \in BOOLEAN
  /\ listenFd \in Fds \cup {NoFd}
  /\ clientFds \in Seq(Fds) /\ Len(clientFds) <= MaxClients
  /\ own \in [Fds -> {"free", "listen", "accepted", "foreign"} \cup Handlers]
  /\ fdOf \in [Servers -> Fds \cup {NoFd}] /\ open \subseteq Servers /\ stale \subseteq Servers

LEMMA Types == TypeOK <=> Typed
BY DEF TypeOK, Typed

\* What the assumptions say, as the steps need it.
LEMMA Apart ==
  /\ Owner # Acceptor /\ Owner \notin Handlers /\ Acceptor \notin Handlers
  /\ NoFd \notin Fds /\ MaxClients \in Nat
  /\ Servers = {Acceptor} \cup Handlers /\ Threads = {Owner, Acceptor} \cup Handlers
  /\ Acceptor \in Servers /\ Handlers \subseteq Servers
  /\ Acceptor \in Threads /\ Owner \in Threads /\ Handlers \subseteq Threads
  /\ "free" \notin Handlers /\ "listen" \notin Handlers
  /\ "accepted" \notin Handlers /\ "foreign" \notin Handlers
<1>1. MaxClients \in Nat
  BY ServerThreads
<1> QED BY <1>1, ServerThreads, Zenon DEF Servers, Threads

\* The inductive invariant.
Parts == Typed /\ HoldInv /\ NumberInv /\ ApartInv /\ ListInv /\ EarlyInv /\ LateInv /\ StageInv

--------------------------------------------------------------------------------
(* A lemma for each action                                                      *)

USE Apart DEF Parts, Typed, Goto, Early, Stopping, Held, MayBeListed

LEMMA StartStep ==
  ASSUME Parts, Start
  PROVE  Parts'
<1> PICK fd \in Fds : fd = Lowest /\ own[fd] = "free"
  BY LowestIsFree DEF Start
<1>0. /\ pc[Owner] = "idle" /\ ~running /\ running' = TRUE
      /\ own' = [own EXCEPT ![fd] = "listen"] /\ listenFd' = fd
      /\ pc' = [pc EXCEPT ![Acceptor] = "check"]
      /\ UNCHANGED <<clientFds, fdOf, open, backlog, stale>>
  BY DEF Start
<1>1. Typed'
  <2>1. /\ running' \in BOOLEAN /\ listenFd' \in Fds \cup {NoFd}
        /\ own' \in [Fds -> {"free", "listen", "accepted", "foreign"} \cup Handlers]
    BY <1>0
  <2> QED BY <1>0, <2>1
<1>2. HoldInv'
  BY <1>0 DEF HoldInv, StageInv
<1>3. NumberInv'
  BY <1>0 DEF NumberInv, StageInv
<1>4. ListInv'
  BY <1>0 DEF ListInv, Listed, StageInv
<1>5. EarlyInv'
  BY <1>0 DEF EarlyInv, Listed, StageInv
<1>6. LateInv'
  BY <1>0 DEF LateInv, StageInv
<1>7. StageInv'
  BY <1>0 DEF StageInv
<1>8. ApartInv'
  BY <1>0 DEF ApartInv, StageInv
<1> QED BY <1>1, <1>2, <1>3, <1>4, <1>5, <1>6, <1>7, <1>8

LEMMA StopStep ==
  ASSUME Parts, Stop
  PROVE  Parts'
<1>1. Typed'
  BY DEF Stop
<1>2. HoldInv'
  BY DEF Stop, HoldInv
<1>3. NumberInv'
  BY DEF Stop, NumberInv
<1>4. ListInv'
  BY DEF Stop, ListInv, Listed
<1>5. EarlyInv'
  BY DEF Stop, EarlyInv, Listed
<1>6. LateInv'
  BY DEF Stop, LateInv
<1>7. StageInv'
  BY DEF Stop, StageInv
<1>8. ApartInv'
  BY DEF Stop, ApartInv
<1> QED BY <1>1, <1>2, <1>3, <1>4, <1>5, <1>6, <1>7, <1>8

LEMMA StopListeningStep ==
  ASSUME Parts, StopListening
  PROVE  Parts'
<1>1. Typed'
  BY DEF StopListening
<1>2. HoldInv'
  BY DEF StopListening, HoldInv
<1>3. NumberInv'
  BY DEF StopListening, NumberInv
<1>4. ListInv'
  BY DEF StopListening, ListInv, Listed
<1>5. EarlyInv'
  BY DEF StopListening, EarlyInv, HoldInv, ListInv, NumberInv, StageInv, Listed
<1>6. LateInv'
  BY DEF StopListening, LateInv
<1>7. StageInv'
  BY DEF StopListening, StageInv
<1>8. ApartInv'
  BY DEF StopListening, ApartInv
<1> QED BY <1>1, <1>2, <1>3, <1>4, <1>5, <1>6, <1>7, <1>8

LEMMA StopCloseStep ==
  ASSUME Parts, StopClose
  PROVE  Parts'
<1>1. Typed'
  BY DEF StopClose
<1>2. HoldInv'
  BY DEF StopClose, HoldInv
<1>3. NumberInv'
  BY DEF StopClose, NumberInv, StageInv
<1>4. ListInv'
  BY DEF StopClose, ListInv, Listed
<1>5. EarlyInv'
  BY DEF StopClose, EarlyInv, HoldInv, ListInv, NumberInv, StageInv, Listed
<1>6. LateInv'
  BY DEF StopClose, LateInv, HoldInv, NumberInv, StageInv
<1>7. StageInv'
  BY DEF StopClose, StageInv
<1>8. ApartInv'
  BY DEF StopClose, ApartInv
<1> QED BY <1>1, <1>2, <1>3, <1>4, <1>5, <1>6, <1>7, <1>8

LEMMA StopClearStep ==
  ASSUME Parts, StopClear
  PROVE  Parts'
<1>1. Typed'
  BY DEF StopClear
<1>2. HoldInv'
  BY DEF StopClear, HoldInv
<1>3. NumberInv'
  BY DEF StopClear, NumberInv, StageInv
<1>4. ListInv'
  BY DEF StopClear, ListInv, Listed
<1>5. EarlyInv'
  BY DEF StopClear, EarlyInv, HoldInv, ListInv, NumberInv, StageInv, Listed
<1>6. LateInv'
  BY DEF StopClear, LateInv, HoldInv, NumberInv, StageInv
<1>7. StageInv'
  BY DEF StopClear, StageInv
<1>8. ApartInv'
  BY DEF StopClear, ApartInv
<1> QED BY <1>1, <1>2, <1>3, <1>4, <1>5, <1>6, <1>7, <1>8

LEMMA StopClientsStep ==
  ASSUME Parts, StopClients
  PROVE  Parts'
<1>1. Typed'
  BY DEF StopClients
<1>2. HoldInv'
  BY DEF StopClients, HoldInv
<1>3. NumberInv'
  BY DEF StopClients, NumberInv, StageInv
<1>4. ListInv'
  BY DEF StopClients, ListInv, Listed
<1>5. EarlyInv'
  BY DEF StopClients, EarlyInv
<1>6. LateInv'
  BY DEF StopClients, LateInv, HoldInv, EarlyInv, ListInv
<1>7. StageInv'
  BY DEF StopClients, StageInv
<1>8. ApartInv'
  BY DEF StopClients, ApartInv
<1> QED BY <1>1, <1>2, <1>3, <1>4, <1>5, <1>6, <1>7, <1>8

LEMMA JoinAcceptorStep ==
  ASSUME Parts, JoinAcceptor
  PROVE  Parts'
<1>1. Typed'
  BY DEF JoinAcceptor
<1>2. HoldInv'
  BY DEF JoinAcceptor, HoldInv
<1>3. NumberInv'
  BY DEF JoinAcceptor, NumberInv
<1>4. ListInv'
  BY DEF JoinAcceptor, ListInv, Listed
<1>5. EarlyInv'
  BY DEF JoinAcceptor, EarlyInv
<1>6. LateInv'
  BY DEF JoinAcceptor, LateInv
<1>7. StageInv'
  BY DEF JoinAcceptor, StageInv
<1>8. ApartInv'
  BY DEF JoinAcceptor, ApartInv
<1> QED BY <1>1, <1>2, <1>3, <1>4, <1>5, <1>6, <1>7, <1>8

LEMMA JoinHandlersStep ==
  ASSUME Parts, JoinHandlers
  PROVE  Parts'
<1>1. Typed'
  BY DEF JoinHandlers
<1>2. HoldInv'
  BY DEF JoinHandlers, HoldInv, StageInv
<1>3. NumberInv'
  BY DEF JoinHandlers, NumberInv
<1>4. ListInv'
  BY DEF JoinHandlers, ListInv, HoldInv, NumberInv, EarlyInv, StageInv, Listed
<1>5. EarlyInv'
  BY DEF JoinHandlers, EarlyInv, HoldInv, ListInv, NumberInv, StageInv, Listed
<1>6. LateInv'
  BY DEF JoinHandlers, LateInv
<1>7. StageInv'
  BY DEF JoinHandlers, StageInv
<1>8. ApartInv'
  BY DEF JoinHandlers, ApartInv
<1> QED BY <1>1, <1>2, <1>3, <1>4, <1>5, <1>6, <1>7, <1>8

LEMMA AcceptCheckStep ==
  ASSUME Parts, AcceptCheck
  PROVE  Parts'
<1>1. Typed'
  BY DEF AcceptCheck
<1>2. HoldInv'
  BY DEF AcceptCheck, HoldInv
<1>3. NumberInv'
  BY DEF AcceptCheck, NumberInv
<1>4. ListInv'
  BY DEF AcceptCheck, ListInv, Listed
<1>5. EarlyInv'
  BY DEF AcceptCheck, EarlyInv, Listed
<1>6. LateInv'
  BY DEF AcceptCheck, LateInv
<1>7. StageInv'
  BY DEF AcceptCheck, StageInv
<1>8. ApartInv'
  BY DEF AcceptCheck, ApartInv
<1> QED BY <1>1, <1>2, <1>3, <1>4, <1>5, <1>6, <1>7, <1>8

LEMMA PollStep ==
  ASSUME Parts, Poll
  PROVE  Parts'
<1>1. Typed'
  BY DEF Poll
<1>2. HoldInv'
  BY DEF Poll, HoldInv
<1>3. NumberInv'
  BY DEF Poll, NumberInv
<1>4. ListInv'
  BY DEF Poll, ListInv, Listed
<1>5. EarlyInv'
  BY DEF Poll, EarlyInv, Listed
<1>6. LateInv'
  BY DEF Poll, LateInv
<1>7. StageInv'
  BY DEF Poll, StageInv
<1>8. ApartInv'
  BY DEF Poll, ApartInv
<1> QED BY <1>1, <1>2, <1>3, <1>4, <1>5, <1>6, <1>7, <1>8

LEMMA AcceptStep ==
  ASSUME Parts, Accept
  PROVE  Parts'
<1>1. CASE backlog /\ Free # {}
  <2> PICK fd \in Fds : fd = Lowest /\ own[fd] = "free"
    BY <1>1, LowestIsFree
  <2>0. /\ pc[Acceptor] = "accept" /\ pc' = [pc EXCEPT ![Acceptor] = "limit"]
        /\ own' = [own EXCEPT ![fd] = "accepted"]
        /\ fdOf' = [fdOf EXCEPT ![Acceptor] = fd]
        /\ open' = open \cup {Acceptor} /\ backlog' = FALSE
        /\ UNCHANGED <<running, listenFd, clientFds, stale>>
    BY <1>1 DEF Accept
  \* The listening socket is still there, so that stop() has not gone through the list.
  <2>1. Early /\ listenFd # NoFd
    BY <1>1 DEF StageInv
  \* The number is in nobody's hands.
  <2>2. (\A h \in Handlers : pc[h] \in Held => fdOf[h] # fd) /\ ~Listed(fd)
    BY <2>0, <2>1 DEF EarlyInv, ListInv
  <2>3. Typed'
    BY <2>0
  <2>4. HoldInv'
    BY <2>0 DEF HoldInv
  <2>5. NumberInv'
    BY <2>0, <2>2 DEF NumberInv, HoldInv
  <2>6. ListInv'
    BY <2>0 DEF ListInv, Listed
  <2>7. EarlyInv'
    BY <2>0, <2>1, <2>2 DEF EarlyInv, Listed, HoldInv
  <2>8. LateInv'
    BY <2>0, <2>1, <2>2 DEF LateInv
  <2>9. StageInv'
    BY <2>0, <2>1 DEF StageInv
  <2>10. ApartInv'
    BY <2>0, <2>2 DEF ApartInv
  <2> QED BY <2>3, <2>4, <2>5, <2>6, <2>7, <2>8, <2>9, <2>10
<1>2. CASE ~(backlog /\ Free # {})
  <2>0. /\ pc[Acceptor] = "accept" /\ pc' = [pc EXCEPT ![Acceptor] = "check"]
        /\ UNCHANGED <<running, listenFd, clientFds, own, fdOf, open, backlog, stale>>
    BY <1>2 DEF Accept
  <2>1. Typed' /\ HoldInv' /\ NumberInv' /\ ApartInv'
    BY <2>0 DEF HoldInv, NumberInv, ApartInv
  <2>2. ListInv'
    BY <2>0 DEF ListInv, Listed
  <2>3. EarlyInv' /\ LateInv'
    BY <2>0 DEF EarlyInv, LateInv, Listed
  <2>4. StageInv'
    BY <2>0 DEF StageInv
  <2> QED BY <2>1, <2>2, <2>3, <2>4
<1> QED BY <1>1, <1>2

LEMMA LimitStep ==
  ASSUME Parts, Limit
  PROVE  Parts'
<1> PICK fd \in Fds : fd = fdOf[Acceptor]
  BY DEF Limit, HoldInv
<1>1. CASE Len(clientFds) >= MaxClients
  <2>0. /\ pc[Acceptor] = "limit" /\ pc' = [pc EXCEPT ![Acceptor] = "check"]
        /\ own' = [own EXCEPT ![fd] = "free"]
        /\ open' = open \ {Acceptor}
        /\ fdOf' = [fdOf EXCEPT ![Acceptor] = NoFd]
        /\ UNCHANGED <<running, listenFd, clientFds, backlog, stale>>
    BY <1>1 DEF Limit
  \* What is closed is the connection that was accepted, and nobody else has its number.
  <2>1. (Early => own[fd] = "accepted") /\ \A h \in Handlers : pc[h] \in Held => fdOf[h] # fd
    BY <2>0 DEF EarlyInv, ApartInv
  <2>2. Typed'
    BY <2>0
  <2>3. HoldInv'
    BY <2>0 DEF HoldInv
  <2>4. NumberInv'
    BY <2>0, <2>1 DEF NumberInv, LateInv, HoldInv, StageInv
  <2>5. ListInv'
    BY <2>0 DEF ListInv, Listed
  <2>6. EarlyInv'
    BY <2>0, <2>1 DEF EarlyInv, Listed
  <2>7. LateInv'
    BY <2>0, <2>1 DEF LateInv
  <2>8. StageInv'
    BY <2>0 DEF StageInv
  <2>9. ApartInv'
    BY <2>0 DEF ApartInv
  <2> QED BY <2>2, <2>3, <2>4, <2>5, <2>6, <2>7, <2>8, <2>9
<1>2. CASE ~(Len(clientFds) >= MaxClients)
  <2>0. /\ pc[Acceptor] = "limit" /\ pc' = [pc EXCEPT ![Acceptor] = "spawn"]
        /\ clientFds' = Append(clientFds, fd)
        /\ UNCHANGED <<running, listenFd, own, open, fdOf, backlog, stale>>
    BY <1>2 DEF Limit
  <2>1. /\ clientFds' \in Seq(Fds) /\ Len(clientFds') = Len(clientFds) + 1
        /\ \A f : Listed(f)' <=> Listed(f) \/ f = fd
    BY <2>0, Listing
  <2>2. Typed'
    <3>1. Len(clientFds') <= MaxClients
      BY <1>2, <2>1
    <3> QED BY <2>0, <2>1, <3>1
  <2>3. HoldInv' /\ NumberInv' /\ ApartInv'
    BY <2>0 DEF HoldInv, NumberInv, ApartInv
  <2>4. ListInv'
    BY <2>0, <2>1 DEF ListInv
  <2>5. EarlyInv'
    <3> SUFFICES ASSUME Early PROVE EarlyInv'
      BY <2>0 DEF EarlyInv
    <3>1. /\ ~Listed(fd) /\ own[fd] = "accepted"
          /\ \A i, j \in DOMAIN clientFds : clientFds[i] = clientFds[j] => i = j
      BY <2>0 DEF EarlyInv
    <3>2. \A i, j \in DOMAIN clientFds' : clientFds'[i] = clientFds'[j] => i = j
      BY <2>0, <3>1, Listing
    <3> QED BY <2>0, <2>1, <3>1, <3>2 DEF EarlyInv
  <2>6. LateInv'
    BY <2>0 DEF LateInv
  <2>7. StageInv'
    BY <2>0 DEF StageInv
  <2> QED BY <2>2, <2>3, <2>4, <2>5, <2>6, <2>7
<1> QED BY <1>1, <1>2

LEMMA SpawnStep ==
  ASSUME Parts, Spawn
  PROVE  Parts'
<1>0. PICK h \in Handlers :
        /\ pc[Acceptor] = "spawn" /\ pc[h] = "none"
        /\ pc' = [pc EXCEPT ![h] = "check", ![Acceptor] = "check"]
        /\ fdOf' = [fdOf EXCEPT ![h] = fdOf[Acceptor], ![Acceptor] = NoFd]
        /\ own' = [f \in Fds |->
                     IF f = fdOf[Acceptor] /\ own[f] = "accepted" THEN h ELSE own[f]]
        /\ open' = Handed(open, h) /\ stale' = Handed(stale, h)
        /\ UNCHANGED <<running, listenFd, clientFds, backlog>>
  BY Zenon DEF Spawn
<1> PICK fd \in Fds : fd = fdOf[Acceptor]
  BY <1>0 DEF HoldInv
<1>1. /\ pc'[h] = "check" /\ pc'[Acceptor] = "check" /\ DOMAIN pc' = Threads
      /\ \A t \in Threads : t # h /\ t # Acceptor => pc'[t] = pc[t]
      /\ fdOf'[h] = fd /\ fdOf'[Acceptor] = NoFd /\ fdOf' \in [Servers -> Fds \cup {NoFd}]
      /\ \A s \in Servers : s # h /\ s # Acceptor => fdOf'[s] = fdOf[s]
  BY <1>0
\* The number was not held by the handler, nor any other.
<1>2. fdOf[h] = NoFd /\ \A f \in Fds : own[f] # h
  BY <1>0 DEF HoldInv, NumberInv
<1>3. /\ own' \in [Fds -> {"free", "listen", "accepted", "foreign"} \cup Handlers]
      /\ \A f \in Fds : own'[f] = IF f = fd /\ own[f] = "accepted" THEN h ELSE own[f]
  BY <1>0
<1>4. Typed'
  <2>1. open' \subseteq Servers /\ stale' \subseteq Servers
    BY <1>0 DEF Handed
  <2> QED BY <1>0, <1>1, <1>3, <2>1
<1>5. HoldInv'
  BY <1>0, <1>1 DEF HoldInv
<1>6. NumberInv'
  BY <1>0, <1>1, <1>2, <1>3 DEF NumberInv, HoldInv
<1>7. ListInv'
  <2>1. \A f \in Fds : Listed(f)' <=> Listed(f)
    BY <1>0 DEF Listed
  <2> QED BY <1>0, <1>1, <2>1 DEF ListInv
<1>8. EarlyInv'
  <2>1. Early => own[fd] = "accepted" /\ Listed(fd)
    BY <1>0 DEF EarlyInv
  <2> QED BY <1>0, <1>1, <1>3, <2>1 DEF EarlyInv, Listed, HoldInv
<1>9. LateInv'
  <2>1. stale = {} => stale' = {}
    BY <1>0 DEF Handed
  <2>2. \A g \in Handlers : g # h /\ g \in stale => g \in stale'
    BY <1>0 DEF Handed
  <2>3. Acceptor \in stale => h \in stale'
    BY <1>0 DEF Handed
  <2> QED BY <1>0, <1>1, <1>3, <2>1, <2>2, <2>3 DEF LateInv, HoldInv
<1>10. StageInv'
  BY <1>0, <1>1 DEF StageInv
<1>11. ApartInv'
  BY <1>0, <1>1 DEF ApartInv, HoldInv
<1> QED BY <1>4, <1>5, <1>6, <1>7, <1>8, <1>9, <1>10, <1>11

LEMMA HandlerCheckStep ==
  ASSUME NEW h \in Handlers, Parts, HandlerCheck(h)
  PROVE  Parts'
<1>1. Typed'
  BY DEF HandlerCheck
<1>2. HoldInv'
  BY DEF HandlerCheck, HoldInv
<1>3. NumberInv'
  BY DEF HandlerCheck, NumberInv
<1>4. ListInv'
  BY DEF HandlerCheck, ListInv, Listed
<1>5. EarlyInv'
  BY DEF HandlerCheck, EarlyInv, Listed
<1>6. LateInv'
  BY DEF HandlerCheck, LateInv
<1>7. StageInv'
  BY DEF HandlerCheck, StageInv
<1>8. ApartInv'
  BY DEF HandlerCheck, ApartInv
<1> QED BY <1>1, <1>2, <1>3, <1>4, <1>5, <1>6, <1>7, <1>8

LEMMA CallRecvStep ==
  ASSUME NEW h \in Handlers, Parts, CallRecv(h)
  PROVE  Parts'
<1>1. Typed'
  BY DEF CallRecv
<1>2. HoldInv'
  BY DEF CallRecv, HoldInv
<1>3. NumberInv'
  BY DEF CallRecv, NumberInv
<1>4. ListInv'
  BY DEF CallRecv, ListInv, Listed
<1>5. EarlyInv'
  BY DEF CallRecv, EarlyInv, Listed
<1>6. LateInv'
  BY DEF CallRecv, LateInv
<1>7. StageInv'
  BY DEF CallRecv, StageInv
<1>8. ApartInv'
  BY DEF CallRecv, ApartInv
<1> QED BY <1>1, <1>2, <1>3, <1>4, <1>5, <1>6, <1>7, <1>8

LEMMA RecvEndStep ==
  ASSUME NEW h \in Handlers, Parts, RecvEnd(h)
  PROVE  Parts'
<1>1. Typed'
  BY DEF RecvEnd
<1>2. HoldInv'
  BY DEF RecvEnd, HoldInv
<1>3. NumberInv'
  BY DEF RecvEnd, NumberInv
<1>4. ListInv'
  BY DEF RecvEnd, ListInv, Listed
<1>5. EarlyInv'
  BY DEF RecvEnd, EarlyInv, Listed
<1>6. LateInv'
  BY DEF RecvEnd, LateInv
<1>7. StageInv'
  BY DEF RecvEnd, StageInv
<1>8. ApartInv'
  BY DEF RecvEnd, ApartInv
<1> QED BY <1>1, <1>2, <1>3, <1>4, <1>5, <1>6, <1>7, <1>8

LEMMA ReceiveStep ==
  ASSUME NEW h \in Handlers, Parts, Receive(h)
  PROVE  Parts'
<1>1. Typed'
  BY DEF Receive
<1>2. HoldInv'
  BY DEF Receive, HoldInv
<1>3. NumberInv'
  BY DEF Receive, NumberInv
<1>4. ListInv'
  BY DEF Receive, ListInv, Listed
<1>5. EarlyInv'
  BY DEF Receive, EarlyInv, Listed
<1>6. LateInv'
  BY DEF Receive, LateInv
<1>7. StageInv'
  BY DEF Receive, StageInv
<1>8. ApartInv'
  BY DEF Receive, ApartInv
<1> QED BY <1>1, <1>2, <1>3, <1>4, <1>5, <1>6, <1>7, <1>8

LEMMA RecvOtherStep ==
  ASSUME NEW h \in Handlers, Parts, RecvOther(h)
  PROVE  Parts'
<1>1. Typed'
  BY DEF RecvOther
<1>2. HoldInv'
  BY DEF RecvOther, HoldInv
<1>3. NumberInv'
  BY DEF RecvOther, NumberInv
<1>4. ListInv'
  BY DEF RecvOther, ListInv, Listed
<1>5. EarlyInv'
  BY DEF RecvOther, EarlyInv, Listed
<1>6. LateInv'
  BY DEF RecvOther, LateInv
<1>7. StageInv'
  BY DEF RecvOther, StageInv
<1>8. ApartInv'
  BY DEF RecvOther, ApartInv
<1> QED BY <1>1, <1>2, <1>3, <1>4, <1>5, <1>6, <1>7, <1>8

LEMMA RemoveClientStep ==
  ASSUME NEW h \in Handlers, Parts, RemoveClient(h)
  PROVE  Parts'
<1>0. /\ pc[h] = "remove" /\ pc' = [pc EXCEPT ![h] = "close"] /\ Unlist(fdOf[h])
      /\ UNCHANGED <<running, listenFd, own, fdOf, open, backlog, stale>>
  BY DEF RemoveClient
<1>1. /\ clientFds' \in Seq(Fds) /\ Len(clientFds') <= Len(clientFds)
      /\ \A f : Listed(f)' <=> Listed(f) /\ f # fdOf[h]
  BY <1>0, Unlisting
<1>2. Typed'
  <2>1. Len(clientFds') \in Nat /\ Len(clientFds) \in Nat /\ Len(clientFds') <= MaxClients
    BY <1>1
  <2> QED BY <1>0, <1>1, <2>1
<1>3. HoldInv' /\ NumberInv' /\ ApartInv'
  BY <1>0 DEF HoldInv, NumberInv, ApartInv
<1>4. ListInv'
  BY <1>0, <1>1 DEF ListInv
<1>5. EarlyInv'
  <2> SUFFICES ASSUME Early PROVE EarlyInv'
    BY <1>0 DEF EarlyInv
  <2>1. \A i, j \in DOMAIN clientFds' : clientFds'[i] = clientFds'[j] => i = j
    BY <1>0, Unlisting DEF EarlyInv
  \* Nobody else has the number.
  <2>2. /\ \A g \in Handlers : g # h /\ pc[g] \in Held => fdOf[g] # fdOf[h]
        /\ pc[Acceptor] \in {"limit", "spawn"} => fdOf[Acceptor] # fdOf[h]
    BY <1>0 DEF EarlyInv
  <2> QED BY <1>0, <1>1, <2>1, <2>2 DEF EarlyInv
<1>6. LateInv'
  BY <1>0 DEF LateInv
<1>7. StageInv'
  BY <1>0 DEF StageInv
<1> QED BY <1>2, <1>3, <1>4, <1>5, <1>6, <1>7

LEMMA CloseStep ==
  ASSUME NEW h \in Handlers, Parts, Close(h)
  PROVE  Parts'
<1>1. Typed'
  BY DEF Close, HoldInv
<1>2. HoldInv'
  BY DEF Close, HoldInv
<1>3. NumberInv'
  BY DEF Close, NumberInv, HoldInv, ListInv, EarlyInv, StageInv, Listed
<1>4. ListInv'
  BY DEF Close, ListInv, Listed
<1>5. EarlyInv'
  BY DEF Close, EarlyInv, Listed
<1>6. LateInv'
  BY DEF Close, LateInv, HoldInv, ApartInv
<1>7. StageInv'
  BY DEF Close, StageInv
<1>8. ApartInv'
  BY DEF Close, ApartInv
<1> QED BY <1>1, <1>2, <1>3, <1>4, <1>5, <1>6, <1>7, <1>8

LEMMA ClientArrivesStep ==
  ASSUME Parts, ClientArrives
  PROVE  Parts'
<1>1. Typed'
  BY DEF ClientArrives
<1>2. HoldInv'
  BY DEF ClientArrives, HoldInv
<1>3. NumberInv'
  BY DEF ClientArrives, NumberInv
<1>4. ListInv'
  BY DEF ClientArrives, ListInv, Listed
<1>5. EarlyInv'
  BY DEF ClientArrives, EarlyInv, Listed
<1>6. LateInv'
  BY DEF ClientArrives, LateInv
<1>7. StageInv'
  BY DEF ClientArrives, StageInv
<1>8. ApartInv'
  BY DEF ClientArrives, ApartInv
<1> QED BY <1>1, <1>2, <1>3, <1>4, <1>5, <1>6, <1>7, <1>8

LEMMA ClientLeavesStep ==
  ASSUME Parts, ClientLeaves
  PROVE  Parts'
<1>1. Typed'
  BY DEF ClientLeaves
<1>2. HoldInv'
  BY DEF ClientLeaves, HoldInv
<1>3. NumberInv'
  BY DEF ClientLeaves, NumberInv
<1>4. ListInv'
  BY DEF ClientLeaves, ListInv, Listed
<1>5. EarlyInv'
  BY DEF ClientLeaves, EarlyInv, Listed
<1>6. LateInv'
  BY DEF ClientLeaves, LateInv
<1>7. StageInv'
  BY DEF ClientLeaves, StageInv
<1>8. ApartInv'
  BY DEF ClientLeaves, ApartInv
<1> QED BY <1>1, <1>2, <1>3, <1>4, <1>5, <1>6, <1>7, <1>8

LEMMA ForeignOpensStep ==
  ASSUME Parts, ForeignOpens
  PROVE  Parts'
<1> PICK fd \in Fds : fd = Lowest /\ own[fd] = "free"
  BY LowestIsFree DEF ForeignOpens
<1>0. /\ own' = [own EXCEPT ![fd] = "foreign"]
      /\ UNCHANGED <<pc, running, listenFd, clientFds, fdOf, open, backlog, stale>>
  BY DEF ForeignOpens
<1>1. Typed'
  BY <1>0
<1>2. HoldInv' /\ ApartInv' /\ ListInv' /\ StageInv'
  BY <1>0 DEF HoldInv, ApartInv, ListInv, Listed, StageInv
<1>3. NumberInv'
  BY <1>0 DEF NumberInv
<1>4. EarlyInv'
  BY <1>0 DEF EarlyInv, Listed, HoldInv
<1>5. LateInv'
  BY <1>0 DEF LateInv, HoldInv
<1> QED BY <1>1, <1>2, <1>3, <1>4, <1>5

LEMMA ForeignClosesStep ==
  ASSUME Parts, ForeignCloses
  PROVE  Parts'
<1>1. Typed'
  BY DEF ForeignCloses
<1>2. HoldInv'
  BY DEF ForeignCloses, HoldInv
<1>3. NumberInv'
  BY DEF ForeignCloses, NumberInv
<1>4. ListInv'
  BY DEF ForeignCloses, ListInv, Listed
<1>5. EarlyInv'
  BY DEF ForeignCloses, EarlyInv, Listed
<1>6. LateInv'
  BY DEF ForeignCloses, LateInv, HoldInv
<1>7. StageInv'
  BY DEF ForeignCloses, StageInv
<1>8. ApartInv'
  BY DEF ForeignCloses, ApartInv
<1> QED BY <1>1, <1>2, <1>3, <1>4, <1>5, <1>6, <1>7, <1>8

--------------------------------------------------------------------------------
LEMMA InitParts == Init => Parts
<1> SUFFICES ASSUME Init PROVE Parts
  OBVIOUS
<1>0. /\ pc[Owner] = "idle" /\ \A s \in Servers : pc[s] = "none" /\ fdOf[s] = NoFd
      /\ DOMAIN pc = Threads /\ running = FALSE /\ backlog = FALSE /\ listenFd = NoFd
      /\ clientFds = <<>> /\ open = {} /\ stale = {} /\ \A f \in Fds : own[f] = "free"
  BY DEF Init
<1>1. Typed
  <2>1. /\ own \in [Fds -> {"free", "listen", "accepted", "foreign"} \cup Handlers]
        /\ fdOf \in [Servers -> Fds \cup {NoFd}]
        /\ clientFds \in Seq(Fds) /\ Len(clientFds) <= MaxClients
    BY <1>0 DEF Init
  <2> QED BY <1>0, <2>1
<1>2. HoldInv /\ NumberInv /\ ApartInv
  BY <1>0 DEF HoldInv, NumberInv, ApartInv
<1>3. ListInv /\ EarlyInv
  BY <1>0 DEF ListInv, EarlyInv, Listed
<1>4. LateInv /\ StageInv
  BY <1>0 DEF LateInv, StageInv
<1> QED BY <1>1, <1>2, <1>3, <1>4

LEMMA NextParts == Parts /\ [Next]_vars => Parts'
<1> SUFFICES ASSUME Parts, [Next]_vars PROVE Parts'
  OBVIOUS
<1> HIDE DEF Parts
<1>1. CASE Start \/ Stop
  BY <1>1, StartStep, StopStep
<1>2. CASE Stops
  BY <1>2, StopListeningStep, StopCloseStep, StopClearStep, StopClientsStep, JoinAcceptorStep, JoinHandlersStep DEF Stops
<1>3. CASE AcceptLoop
  BY <1>3, AcceptCheckStep, PollStep, AcceptStep, LimitStep, SpawnStep DEF AcceptLoop
<1>4. CASE World
  BY <1>4, ClientArrivesStep, ClientLeavesStep, ForeignOpensStep, ForeignClosesStep DEF World
<1>5. ASSUME NEW h \in Handlers, ClientHandler(h) PROVE Parts'
  BY <1>5, HandlerCheckStep, CallRecvStep, RecvEndStep, RecvOtherStep, ReceiveStep, RemoveClientStep, CloseStep
  DEF ClientHandler
<1>6. CASE UNCHANGED vars
  <2>1. Typed'
    BY <1>6 DEF vars, Parts
  <2>2. HoldInv' /\ NumberInv' /\ ApartInv' /\ ListInv'
    BY <1>6 DEF vars, Parts, HoldInv, NumberInv, ApartInv, ListInv, Listed
  <2>3. EarlyInv' /\ LateInv' /\ StageInv'
    BY <1>6 DEF vars, Parts, EarlyInv, LateInv, StageInv, Listed
  <2> QED BY <2>1, <2>2, <2>3 DEF Parts
<1> QED BY <1>1, <1>2, <1>3, <1>4, <1>5, <1>6 DEF Next

LEMMA Always == Spec => []Parts
<1> HIDE DEF Parts
<1> QED BY InitParts, NextParts, PTL DEF Spec

--------------------------------------------------------------------------------
(* Theorems                                                                     *)

\* Types, and the limit of clients.
THEOREM ServerTypeCorrect == Spec => []TypeOK
<1>1. Parts => TypeOK
  BY Types
<1> HIDE DEF Parts
<1> QED BY <1>1, Always, PTL

\* Every client that is served is in the list, once, under a number that is its own,
\* until stop() is called.
THEOREM ServedIsListedAlways == Spec => []ServedIsListed
<1>1. Parts => ServedIsListed
  BY DEF ServedIsListed, EarlyInv
<1> HIDE DEF Parts
<1> QED BY <1>1, Always, PTL

\* Once stop() has returned nothing of the server is left, whatever else in the process
\* opens and closes descriptors.
THEOREM StopLeavesNothingAlways == Spec => []StopLeavesNothing
<1>1. Parts => StopLeavesNothing
  <2> SUFFICES ASSUME Parts, ~running, ~Stopping
               PROVE  /\ \A s \in Servers : pc[s] = "none"
                      /\ clientFds = <<>> /\ \A f \in Fds : own[f] \in {"free", "foreign"}
    BY DEF StopLeavesNothing
  <2>1. listenFd = NoFd /\ \A s \in Servers : pc[s] = "none"
    BY DEF StageInv
  <2>2. \A s \in Servers : fdOf[s] = NoFd
    BY <2>1 DEF HoldInv
  <2>3. \A f \in Fds : own[f] \in {"free", "foreign"}
    BY <2>1, <2>2 DEF NumberInv
  <2>4. clientFds = <<>>
    <3>1. \A i \in DOMAIN clientFds : Listed(clientFds[i]) /\ clientFds[i] \in Fds
      BY DEF Listed
    <3>2. \A i \in DOMAIN clientFds : FALSE
      BY <2>1, <3>1 DEF ListInv
    <3>3. clientFds \in Seq(Fds)
      OBVIOUS
    <3> HIDE DEF Typed, Parts
    <3> QED BY <3>2, <3>3, NoneListed
  <2> QED BY <2>1, <2>3, <2>4
<1> HIDE DEF Parts
<1> QED BY <1>1, Always, PTL

\* Whatever the rest of the process opens and closes, and whenever: what it has opened is
\* closed by the server only when a thread that held a number while stop() closed it
\* closes that number once more.
THEOREM OthersUntouchedAlways == Spec => OthersUntouched
<1> DEFINE Untouched == \A f \in Fds : own[f] = "foreign" /\ own'[f] # "foreign" =>
                          \/ ForeignCloses
                          \/ Stopping /\ \E s \in stale : fdOf[s] = f /\ fdOf'[s] = NoFd
<1>1. Parts /\ [Next]_vars => [Untouched]_vars
  <2> SUFFICES ASSUME Parts, Next, NEW f \in Fds, own[f] = "foreign", own'[f] # "foreign"
               PROVE  \/ ForeignCloses
                      \/ Stopping /\ \E s \in stale : fdOf[s] = f /\ fdOf'[s] = NoFd
    OBVIOUS
  <2> DEFINE Again == Stopping /\ \E s \in stale : fdOf[s] = f /\ fdOf'[s] = NoFd
  <2>1. (Free # {} => own[Lowest] = "free") /\ own' # own
    BY LowestIsFree
  <2>2. ~(Start \/ Stop)
    BY <2>1 DEF Start, Stop
  <2>3. ~Stops
    <3>1. ~StopClose
      BY DEF StopClose, NumberInv, StageInv
    <3>2. ~StopClients
      BY DEF StopClients, ListInv, EarlyInv
    <3> QED BY <2>1, <3>1, <3>2 DEF Stops, StopListening, StopClear, JoinAcceptor, JoinHandlers
  \* A number that was taken from under its holder.
  <2>4. ASSUME NEW s \in Servers, s \in stale, fdOf[s] = f, fdOf'[s] = NoFd PROVE Again
    BY <2>4 DEF LateInv
  <2>5. ASSUME AcceptLoop PROVE Again
    <3>1. ~Accept
      BY <2>1 DEF Accept
    <3>2. ASSUME Limit PROVE Again
      <4>1. fdOf[Acceptor] = f /\ fdOf'[Acceptor] = NoFd /\ Acceptor \in stale
        BY <3>2 DEF Limit, HoldInv, LateInv
      <4> QED BY <2>4, <4>1
    <3>3. ~Spawn
      BY DEF Spawn
    <3> QED BY <2>1, <2>5, <3>1, <3>2, <3>3 DEF AcceptLoop, AcceptCheck, Poll
  <2>6. ASSUME NEW h \in Handlers, ClientHandler(h) PROVE Again
    <3>1. Close(h)
      BY <2>1, <2>6
      DEF ClientHandler, HandlerCheck, CallRecv, RecvEnd, RecvOther, Receive, RemoveClient
    <3>2. fdOf[h] = f /\ fdOf'[h] = NoFd /\ h \in stale
      BY <3>1 DEF Close, HoldInv, LateInv
    <3> QED BY <2>4, <3>2
  <2>7. ~(ClientArrives \/ ClientLeaves \/ ForeignOpens)
    BY <2>1 DEF ClientArrives, ClientLeaves, ForeignOpens
  <2> QED BY <2>2, <2>3, <2>5, <2>6, <2>7 DEF Next, World
<1> HIDE DEF Parts, Untouched
<1>2. Spec => [][Untouched]_vars
  BY <1>1, Always, PTL DEF Spec
<1> QED BY <1>2, PTL DEF OthersUntouched, Untouched

--------------------------------------------------------------------------------
(* CatSession: commands of any length, reads of any length and any number of    *)
(* pieces.                                                                      *)

HIDE Apart DEF Parts, Typed, Goto, Early, Stopping, Held, MayBeListed

\* What the buffer holds between reads, and during one; the mode is the one of the
\* radio's number.
Kept ==
  /\ lineBuffer \in Seq(Chars) /\ wire \in Seq(Chars)
  /\ stage \in {"recv", "lines"}
  /\ Len(lineBuffer) <= 4 * MaxCmd + MaxRead
  /\ stage = "recv" => Len(lineBuffer) <= 4 * MaxCmd
  /\ replies \in Seq(Replies)
  /\ mode \in 0..7 /\ number \in RadioNumbers /\ mode = Mapped[number]

--------------------------------------------------------------------------------
\* The two tables: handleQuery() undoes what parseCatCommand() does.
LEMMA Tables ==
  ASSUME NEW n \in RadioNumbers
  PROVE  Mapped[n] \in 0..7 /\ ModeNumber(Mapped[n]) = n
<1>1. /\ Mapped[1] = 0 /\ Mapped[2] = 1 /\ Mapped[3] = 2 /\ Mapped[4] = 7
      /\ Mapped[5] = 6 /\ Mapped[6] = 4 /\ Mapped[7] = 3 /\ Mapped[9] = 5
  BY DEF Mapped, RadioNumbers
<1>2. /\ ModeNumber(0) = 1 /\ ModeNumber(1) = 2 /\ ModeNumber(2) = 3 /\ ModeNumber(7) = 4
      /\ ModeNumber(6) = 5 /\ ModeNumber(4) = 6 /\ ModeNumber(3) = 7 /\ ModeNumber(5) = 9
  BY DEF ModeNumber
<1> QED BY <1>1, <1>2 DEF RadioNumbers

LEMMA Sizes == MaxBuffer = 4 * MaxCmd /\ MaxCmd \in Nat /\ MaxRead \in Nat
<1>1. MaxCmd \in Nat /\ MaxRead \in Nat
  BY Client
<1> QED BY <1>1 DEF MaxBuffer

\* A part of a text.
LEMMA Cut ==
  ASSUME NEW s \in Seq(Chars), NEW i \in 1..(Len(s) + 1), NEW j \in 0..Len(s), i <= j + 1
  PROVE  SubSeq(s, i, j) \in Seq(Chars) /\ Len(SubSeq(s, i, j)) = j - i + 1
<1>1. \A k \in i..j : s[k] \in Chars
  OBVIOUS
<1> QED BY <1>1, SubSeqProperties

\* A command is answered, or it is not.
LEMMA Answers ==
  ASSUME NEW cmd, Execute(cmd)
  PROVE  replies' = replies \/ \E k \in Queries \cup {"?", "?N"} : replies' = Append(replies, Reply(k))
<1>1. \A k : Tell(k) => replies' = Append(replies, Reply(k))
  BY DEF Tell
<1>2. \/ Tell("?") \/ Tell("?N") \/ (Asks(cmd) \in Queries /\ Tell(Asks(cmd)))
      \/ replies' = replies
  BY DEF Execute
<1> QED BY <1>1, <1>2

LEMMA ReplyType ==
  ASSUME NEW k \in Queries \cup {"?", "?N"}, mode \in 0..7
  PROVE  Reply(k) \in Replies
<1>1. mode + 1 \in 0..9
  OBVIOUS
<1>2. ModeNumber(mode) \in 0..9
  BY DEF ModeNumber
<1> QED BY <1>1, <1>2 DEF Reply, Replies

--------------------------------------------------------------------------------
LEMMA InitKept == SessionInit => Kept
<1> HAVE SessionInit
<1>1. mode \in 0..7 /\ number \in RadioNumbers /\ mode = Mapped[number]
  BY Tables DEF SessionInit, RadioNumbers
<1> QED BY <1>1, Sizes DEF SessionInit, Kept

LEMMA KeptStep == Kept /\ [SessionNext]_sessionVars => Kept'
<1> SUFFICES ASSUME Kept, [SessionNext]_sessionVars PROVE Kept'
  OBVIOUS
<1> USE Sizes DEF Kept
<1>1. ASSUME NEW p \in Pieces, Send(p) PROVE Kept'
  <2>1. p \in Seq(Chars)
    BY Client
  <2>2. wire' \in Seq(Chars)
    BY <1>1, <2>1, ConcatProperties DEF Send
  <2> QED BY <1>1, <2>2 DEF Send, radio
<1>2. ASSUME NEW n \in 1..MaxRead, Read(n) PROVE Kept'
  <2> DEFINE read == SubSeq(wire, 1, n)
  <2>1. read \in Seq(Chars) /\ Len(read) = n
    BY <1>2, Cut DEF Read
  <2>2. SubSeq(wire, n + 1, Len(wire)) \in Seq(Chars)
    BY <1>2, Cut DEF Read
  <2>3. lineBuffer \o read \in Seq(Chars) /\ Len(lineBuffer \o read) = Len(lineBuffer) + n
    BY <2>1, ConcatProperties
  <2>4. /\ wire' = SubSeq(wire, n + 1, Len(wire)) /\ lineBuffer' = lineBuffer \o read
        /\ stage = "recv" /\ stage' = "lines" /\ UNCHANGED <<replies, mode, number>>
    BY <1>2 DEF Read, radio
  <2> HIDE DEF read
  <2> QED BY <2>2, <2>3, <2>4
<1>3. CASE Handle
  <2>1. PICK pos \in Terminators :
          /\ stage = "lines" /\ stage' = stage
          /\ Execute(SubSeq(lineBuffer, 1, pos))
          /\ lineBuffer' = SubSeq(lineBuffer, pos + 1, Len(lineBuffer))
          /\ UNCHANGED <<wire, mode, number>>
    BY <1>3 DEF Handle, client, radio
  <2>2. /\ lineBuffer' \in Seq(Chars)
        /\ Len(lineBuffer') = Len(lineBuffer) - pos /\ pos \in 1..Len(lineBuffer)
    <3>1. pos \in 1..Len(lineBuffer)
      BY DEF Terminators
    <3>2. pos + 1 \in 1..(Len(lineBuffer) + 1) /\ Len(lineBuffer) \in 0..Len(lineBuffer)
          /\ pos + 1 <= Len(lineBuffer) + 1
      BY <3>1
    <3>3. /\ SubSeq(lineBuffer, pos + 1, Len(lineBuffer)) \in Seq(Chars)
          /\ Len(SubSeq(lineBuffer, pos + 1, Len(lineBuffer))) = Len(lineBuffer) - (pos + 1) + 1
      BY <3>2, Cut
    <3> QED BY <2>1, <3>1, <3>3
  <2>3. \/ replies' = replies
        \/ \E k \in Queries \cup {"?", "?N"} : replies' = Append(replies, Reply(k))
    BY <2>1, Answers
  <2>4. replies' \in Seq(Replies)
    <3>1. ASSUME NEW k \in Queries \cup {"?", "?N"} PROVE Append(replies, Reply(k)) \in Seq(Replies)
      BY ReplyType, AppendProperties
    <3> QED BY <2>3, <3>1
  <2> QED BY <2>1, <2>2, <2>4
<1>4. CASE Overflow
  <2>1. /\ lineBuffer' = <<>> \/ (lineBuffer' = lineBuffer /\ Len(lineBuffer) <= 4 * MaxCmd)
        /\ stage' = "recv" /\ UNCHANGED <<wire, replies, mode, number>>
    BY <1>4 DEF Overflow, radio, client
  <2>2. CASE lineBuffer' = <<>>
    <3>1. <<>> \in Seq(Chars) /\ Len(<<>>) = 0
      OBVIOUS
    <3> QED BY <2>1, <2>2, <3>1
  <2> QED BY <2>1, <2>2
<1>5. ASSUME NEW n \in RadioNumbers, ReportMode(n) PROVE Kept'
  BY <1>5, Tables DEF ReportMode, client
<1>6. CASE UNCHANGED sessionVars
  BY <1>6 DEF sessionVars, client, radio
<1> QED BY <1>1, <1>2, <1>3, <1>4, <1>5, <1>6 DEF SessionNext

\* Whatever a client sends and however it is cut, the handler keeps no more than four
\* commands of the greatest length between reads.
THEOREM BufferIsBounded == SessionSpec => [](stage = "recv" => Len(lineBuffer) <= 4 * MaxCmd)
<1>1. Kept => (stage = "recv" => Len(lineBuffer) <= 4 * MaxCmd)
  BY Sizes DEF Kept
<1> QED BY <1>1, InitKept, KeptStep, PTL DEF SessionSpec

\* The rest of the types: what is recorded of the session.
Recorded ==
  /\ received \in Seq(Chars) /\ forwarded \in Seq(Seq(Chars))
  /\ pieces \in 0..MaxPieces /\ attached \in BOOLEAN /\ sink \in BOOLEAN

LEMMA RecordStep == Kept /\ Recorded /\ [SessionNext]_sessionVars => Recorded'
<1> SUFFICES ASSUME Kept, Recorded, [SessionNext]_sessionVars PROVE Recorded'
  OBVIOUS
<1> USE DEF Recorded
<1>1. ASSUME NEW p \in Pieces, Send(p) PROVE Recorded'
  <2>1. MaxPieces \in Nat
    BY Client
  <2>2. /\ pieces' = pieces + 1 /\ pieces < MaxPieces
        /\ UNCHANGED <<received, forwarded, attached, sink>>
    BY <1>1 DEF Send, radio
  <2> QED BY <2>1, <2>2
<1>2. ASSUME NEW n \in 1..MaxRead, Read(n) PROVE Recorded'
  <2>1. SubSeq(wire, 1, n) \in Seq(Chars)
    BY <1>2, Cut DEF Read, Kept
  <2>2. received \o SubSeq(wire, 1, n) \in Seq(Chars)
    BY <2>1, ConcatProperties
  <2> QED BY <1>2, <2>2 DEF Read, radio
<1>3. CASE Handle
  <2>1. PICK pos \in Terminators :
          Execute(SubSeq(lineBuffer, 1, pos))
    BY <1>3 DEF Handle
  <2>2. SubSeq(lineBuffer, 1, pos) \in Seq(Chars)
    <3>1. pos \in 1..Len(lineBuffer)
      BY DEF Terminators, Kept
    <3> QED BY <3>1, Cut DEF Kept
  <2>3. \/ forwarded' = forwarded
        \/ forwarded' = Append(forwarded, SubSeq(lineBuffer, 1, pos))
    BY <2>1 DEF Execute, Tell
  <2>4. forwarded' \in Seq(Seq(Chars))
    <3>1. forwarded \in Seq(Seq(Chars))
      OBVIOUS
    <3>2. ASSUME NEW S, NEW q \in Seq(S), NEW e \in S PROVE Append(q, e) \in Seq(S)
      BY AppendProperties
    <3>3. Append(forwarded, SubSeq(lineBuffer, 1, pos)) \in Seq(Seq(Chars))
      BY <2>2, <3>1, <3>2
    <3> QED BY <2>3, <3>1, <3>3
  <2>5. UNCHANGED <<received, pieces, attached, sink>>
    BY <1>3 DEF Handle, client, radio
  <2>6. forwarded' \in Seq(Seq(Chars)) /\ received' \in Seq(Chars) /\ pieces' \in 0..MaxPieces
    BY <2>4, <2>5
  <2>7. attached' \in BOOLEAN /\ sink' \in BOOLEAN
    BY <2>5
  <2> HIDE DEF Recorded
  <2> QED BY <2>6, <2>7, Zenon DEF Recorded
<1>4. CASE Overflow
  BY <1>4 DEF Overflow, client, radio
<1>5. ASSUME NEW n \in RadioNumbers, ReportMode(n) PROVE Recorded'
  BY <1>5 DEF ReportMode, client
<1>6. CASE UNCHANGED sessionVars
  BY <1>6 DEF sessionVars, client, radio
<1> QED BY <1>1, <1>2, <1>3, <1>4, <1>5, <1>6 DEF SessionNext

LEMMA InitRecorded == SessionInit => Recorded
<1> SUFFICES ASSUME SessionInit PROVE Recorded
  OBVIOUS
<1>1. MaxPieces \in Nat
  BY Client
<1>2. received = <<>> /\ forwarded = <<>> /\ pieces = 0
  BY DEF SessionInit
<1>3. received \in Seq(Chars) /\ forwarded \in Seq(Seq(Chars)) /\ pieces \in 0..MaxPieces
  BY <1>1, <1>2
<1>4. attached \in BOOLEAN /\ sink \in BOOLEAN
  BY DEF SessionInit
<1> QED BY <1>3, <1>4 DEF Recorded

\* Types, and the limit of the line buffer, between reads and during one.
THEOREM SessionTypeCorrect == SessionSpec => []SessionTypeOK
<1>1. SessionInit => Recorded
  BY InitRecorded
<1>2. Kept /\ Recorded => SessionTypeOK
  <2> SUFFICES ASSUME Kept, Recorded PROVE SessionTypeOK
    OBVIOUS
  <2>1. Len(lineBuffer) <= MaxBuffer + IF stage = "recv" THEN 0 ELSE MaxRead
    BY Sizes DEF Kept
  <2>2. {attached, sink} \subseteq BOOLEAN
    BY DEF Recorded
  <2> QED BY <2>1, <2>2 DEF Kept, Recorded, SessionTypeOK
<1> QED BY <1>1, <1>2, InitKept, KeptStep, RecordStep, PTL DEF SessionSpec

\* Of every mode the radio has, a client that asks is told the number that the radio
\* reported it with.
THEOREM ModeAsReportedAlways == SessionSpec => ModeAsReported
<1> DEFINE Told == Answered /\ Last(replies').kind = "MD" => Last(replies').mode = number
<1>1. Kept /\ [SessionNext]_sessionVars => [Told]_sessionVars
  <2> SUFFICES ASSUME Kept, SessionNext PROVE Told
    OBVIOUS
  <2>1. CASE Handle
    <3> SUFFICES ASSUME Answered, Last(replies').kind = "MD" PROVE Last(replies').mode = number
      OBVIOUS
    <3>1. PICK k \in Queries \cup {"?", "?N"} : replies' = Append(replies, Reply(k))
      BY <2>1 DEF Handle, Execute, Tell, Answered
    <3>2. Last(replies') = Reply(k)
      BY <3>1, ReplyType DEF Kept, Last
    <3> QED BY <3>2, Tables DEF Kept, Reply
  <2>2. ~Handle => replies' = replies
    BY DEF SessionNext, Send, Read, Overflow, ReportMode
  <2> QED BY <2>1, <2>2 DEF Answered
<1> QED BY <1>1, InitKept, KeptStep, PTL DEF SessionSpec, ModeAsReported

--------------------------------------------------------------------------------
(* What a client's stream says, read as a whole                                 *)

\* Heard, as the code does it, with a RadioState or none and with a way to the radio or none, taken apart: what
\* one command adds to what is heard after it, and the body of the recursion over h.
Passed(a, k, c) ==
  a /\ k /\ Len(c) \in 3..MaxCmd /\ (Len(c) > 3 \/ c[1] \o c[2] \notin Queries)
Answer(a, c) ==
  IF Len(c) \in 3..MaxCmd /\ ~a THEN "?N"
  ELSE IF a /\ Len(c) = 3 /\ c[1] \o c[2] \in Queries THEN c[1] \o c[2] ELSE "?"
Before(a, k, c, after) ==
  [kept  |-> after.kept,
   radio |-> IF Passed(a, k, c) THEN <<c>> \o after.radio ELSE after.radio,
   told  |-> IF Passed(a, k, c) THEN after.told ELSE <<Answer(a, c)>> \o after.told]
Hear(a, k, h, s) ==
  IF Ends(s) = {} THEN [kept |-> s, radio |-> <<>>, told |-> <<>>]
  ELSE Before(a, k, SubSeq(s, 1, FirstEnd(s)), h[SubSeq(s, FirstEnd(s) + 1, Len(s))])
Solves(a, k, h, n) == \A s \in Seq(Chars) : Len(s) < n => h[s] = Hear(a, k, h, s)
Hearing(a, k) == CHOOSE h : h = [s \in Seq(Chars) |-> Hear(a, k, h, s)]

LEMMA HeardIs == Heard(FALSE) = Hearing(attached, sink)
<1> DEFINE HearOf(h) == [s \in Seq(Chars) |->
      IF Ends(s) = {} THEN [kept |-> s, radio |-> <<>>, told |-> <<>>]
      ELSE LET c     == SubSeq(s, 1, FirstEnd(s))
               after == h[SubSeq(s, FirstEnd(s) + 1, Len(s))]
           IN [kept  |-> after.kept,
               radio |-> IF IsForRadio(FALSE, c) THEN <<c>> \o after.radio ELSE after.radio,
               told  |-> IF IsForRadio(FALSE, c) THEN after.told ELSE <<Kind(c)>> \o after.told]]
           HearAs(h) == [s \in Seq(Chars) |-> Hear(attached, sink, h, s)]
<1>1. ASSUME NEW c PROVE IsForRadio(FALSE, c) = Passed(attached, sink, c) /\ Kind(c) = Answer(attached, c)
  BY Zenon DEF IsForRadio, Passed, Kind, Answer
<1>2. \A h : HearOf(h) = HearAs(h)
  BY <1>1, ZenonT(40) DEF Hear, Before
<1>3. Heard(FALSE) = CHOOSE h : h = HearOf(h)
  BY Zenon DEF Heard
<1>4. Hearing(attached, sink) = CHOOSE h : h = HearAs(h)
  BY Zenon DEF Hearing
<1> HIDE DEF HearOf, HearAs
<1>5. (CHOOSE h : h = HearOf(h)) = (CHOOSE h : h = HearAs(h))
  BY <1>2, Zenon
<1> QED BY <1>3, <1>4, <1>5

Said == [kept : Seq(Chars), radio : Seq(Seq(Chars)), told : Seq(Queries \cup {"?", "?N"})]

\* The first end in a text, and what stands before and behind it.
LEMMA FirstOfEnds ==
  ASSUME NEW s \in Seq(Chars), Ends(s) # {}
  PROVE  /\ FirstEnd(s) \in Ends(s) /\ FirstEnd(s) \in 1..Len(s)
         /\ \A j \in Ends(s) : FirstEnd(s) <= j
<1>1. Ends(s) \subseteq Nat /\ Ends(s) \subseteq 1..Len(s)
  <2>1. DOMAIN s = 1..Len(s) /\ Len(s) \in Nat
    BY LenProperties
  <2>2. Ends(s) \subseteq DOMAIN s
    BY Zenon DEF Ends
  <2> QED BY <2>1, <2>2
<1>2. PICK m \in Ends(s) : \A j \in Ends(s) : m <= j
  BY <1>1, LeastOf
<1>3. FirstEnd(s) \in Ends(s) /\ \A j \in Ends(s) : FirstEnd(s) <= j
  BY <1>2 DEF FirstEnd
<1> QED BY <1>1, <1>3

LEMMA AtFirstEnd ==
  ASSUME NEW s \in Seq(Chars), Ends(s) # {}
  PROVE  /\ SubSeq(s, 1, FirstEnd(s)) \in Seq(Chars)
         /\ SubSeq(s, FirstEnd(s) + 1, Len(s)) \in Seq(Chars)
         /\ Len(SubSeq(s, FirstEnd(s) + 1, Len(s))) \in 0..(Len(s) - 1)
<1> PICK e \in 1..Len(s) : e = FirstEnd(s)
  BY FirstOfEnds
<1>0. Len(s) \in Nat
  OBVIOUS
<1>1. SubSeq(s, 1, e) \in Seq(Chars)
  BY <1>0, Cut
<1>2. e + 1 \in 1..(Len(s) + 1) /\ Len(s) \in 0..Len(s) /\ e + 1 <= Len(s) + 1
  BY <1>0
<1>3. /\ SubSeq(s, e + 1, Len(s)) \in Seq(Chars)
      /\ Len(SubSeq(s, e + 1, Len(s))) = Len(s) - (e + 1) + 1
  BY <1>2, Cut
<1> QED BY <1>0, <1>1, <1>3

\* What one command adds.
LEMMA BeforeType ==
  ASSUME NEW a \in BOOLEAN, NEW k \in BOOLEAN, NEW c \in Seq(Chars), NEW after \in Said
  PROVE  Before(a, k, c, after) \in Said
<1> DEFINE Kinds == Queries \cup {"?", "?N"}
<1>1. after.kept \in Seq(Chars) /\ after.radio \in Seq(Seq(Chars)) /\ after.told \in Seq(Kinds)
  BY DEF Said
<1>2. <<c>> \o after.radio \in Seq(Seq(Chars))
  <2>1. <<c>> \in Seq(Seq(Chars))
    OBVIOUS
  <2> QED BY <1>1, <2>1, ConcatProperties
<1>3. <<Answer(a, c)>> \o after.told \in Seq(Kinds)
  <2>1. Answer(a, c) \in Kinds
    BY DEF Answer
  <2> HIDE DEF Kinds
  <2>2. <<Answer(a, c)>> \in Seq(Kinds)
    BY <2>1
  <2> QED BY <1>1, <2>2, ConcatProperties
<1> HIDE DEF Kinds
<1>4. CASE Passed(a, k, c)
  <2>1. Before(a, k, c, after) = [kept |-> after.kept, radio |-> <<c>> \o after.radio, told |-> after.told]
    BY <1>4 DEF Before
  <2> QED BY <1>1, <1>2, <2>1 DEF Said, Kinds
<1>5. CASE ~Passed(a, k, c)
  <2>1. Before(a, k, c, after) = [kept |-> after.kept, radio |-> after.radio,
                                  told |-> <<Answer(a, c)>> \o after.told]
    BY <1>5 DEF Before
  <2> QED BY <1>1, <1>3, <2>1 DEF Said, Kinds
<1> QED BY <1>4, <1>5

\* What is heard in a text depends on what is heard in shorter ones only.
LEMMA HearsShorter ==
  ASSUME NEW a, NEW k, NEW s \in Seq(Chars), NEW f, NEW g,
         \A r \in Seq(Chars) : Len(r) < Len(s) => f[r] = g[r]
  PROVE  Hear(a, k, f, s) = Hear(a, k, g, s)
<1>1. CASE Ends(s) = {}
  BY <1>1 DEF Hear
<1>2. CASE Ends(s) # {}
  <2> DEFINE r == SubSeq(s, FirstEnd(s) + 1, Len(s))
  <2>1. r \in Seq(Chars) /\ Len(r) < Len(s)
    <3>1. r \in Seq(Chars) /\ Len(r) \in 0..(Len(s) - 1) /\ Len(s) \in Nat
      BY <1>2, AtFirstEnd
    <3> HIDE DEF r
    <3> QED BY <3>1
  <2>2. f[r] = g[r]
    <3> HIDE DEF r
    <3> QED BY <2>1
  <2> QED BY <2>2 DEF Hear
<1> QED BY <1>1, <1>2

\* The recursion has one solution on the texts shorter than n.
LEMMA HearsOneThing ==
  ASSUME NEW a, NEW k, NEW n \in Nat, NEW f, NEW g,
         Solves(a, k, f, n), Solves(a, k, g, n)
  PROVE  \A s \in Seq(Chars) : Len(s) < n => f[s] = g[s]
<1> DEFINE Differ == {m \in Nat : \E s \in Seq(Chars) : Len(s) = m /\ m < n /\ f[s] # g[s]}
<1>1. Differ = {}
  <2> SUFFICES ASSUME Differ # {} PROVE FALSE
    OBVIOUS
  <2>1. PICK m \in Differ : \A j \in Differ : m <= j
    <3>1. Differ \subseteq Nat
      OBVIOUS
    <3> HIDE DEF Differ
    <3> QED BY <3>1, LeastOf
  <2>2. PICK s \in Seq(Chars) : Len(s) = m /\ m < n /\ f[s] # g[s]
    OBVIOUS
  <2>3. ASSUME NEW r \in Seq(Chars), Len(r) < Len(s) PROVE f[r] = g[r]
    <3>1. Len(r) \in Nat /\ Len(s) \in Nat /\ m \in Nat
      OBVIOUS
    <3>2. Len(r) \notin Differ
      <4> HIDE DEF Differ
      <4> QED BY <2>1, <2>2, <2>3, <3>1
    <3> QED BY <2>2, <2>3, <3>1, <3>2
  <2>4. Hear(a, k, f, s) = Hear(a, k, g, s)
    <3> HIDE DEF Differ
    <3> QED BY <2>3, HearsShorter
  <2> QED BY <2>2, <2>4 DEF Solves
<1>2. ASSUME NEW s \in Seq(Chars), Len(s) < n PROVE f[s] = g[s]
  <2>1. Len(s) \in Nat /\ Len(s) \notin Differ
    BY <1>1
  <2> QED BY <1>2, <2>1
<1> QED BY <1>2

\* One that holds for the texts shorter than n is continued to those of n characters.
LEMMA HearsUpTo ==
  ASSUME NEW a \in BOOLEAN, NEW k \in BOOLEAN, NEW n \in Nat
  PROVE  \E h \in [Seq(Chars) -> Said] : Solves(a, k, h, n)
<1> DEFINE Unsolved == {m \in Nat : \A h \in [Seq(Chars) -> Said] : ~Solves(a, k, h, m)}
<1>1. Unsolved = {}
  <2> SUFFICES ASSUME Unsolved # {} PROVE FALSE
    OBVIOUS
  <2>1. PICK m \in Unsolved : \A j \in Unsolved : m <= j
    <3>1. Unsolved \subseteq Nat
      OBVIOUS
    <3> HIDE DEF Unsolved
    <3> QED BY <3>1, LeastOf
  <2>0. m \in Nat /\ \A h \in [Seq(Chars) -> Said] : ~Solves(a, k, h, m)
    <3> QED BY <2>1
  <2>2. CASE m = 0
    <3> DEFINE h == [s \in Seq(Chars) |-> [kept |-> <<>>, radio |-> <<>>, told |-> <<>>]]
    <3>1. h \in [Seq(Chars) -> Said]
      BY DEF Said
    <3>2. Solves(a, k, h, 0)
      <4>1. \A s \in Seq(Chars) : ~(Len(s) < 0)
        BY LenProperties
      <4> HIDE DEF h
      <4> QED BY <4>1 DEF Solves
    <3> HIDE DEF h, Unsolved
    <3> QED BY <2>0, <2>2, <3>1, <3>2
  <2>3. CASE m # 0
    <3>1. m - 1 \in Nat /\ m - 1 \notin Unsolved
      <4>1. m - 1 \in Nat /\ ~(m <= m - 1)
        BY <2>0, <2>3
      <4> HIDE DEF Unsolved
      <4> QED BY <2>1, <4>1
    <3>2. PICK f \in [Seq(Chars) -> Said] : Solves(a, k, f, m - 1)
      <4> QED BY <3>1
    <3>3. ASSUME NEW s \in Seq(Chars) PROVE Hear(a, k, f, s) \in Said
      <4> HIDE DEF Unsolved
      <4>1. CASE Ends(s) = {}
        BY <4>1 DEF Hear, Said
      <4>2. CASE Ends(s) # {}
        <5>1. /\ SubSeq(s, 1, FirstEnd(s)) \in Seq(Chars)
              /\ f[SubSeq(s, FirstEnd(s) + 1, Len(s))] \in Said
          BY <4>2, AtFirstEnd, Zenon
        <5> QED BY <4>2, <5>1, BeforeType DEF Hear
      <4> QED BY <4>1, <4>2
    <3> DEFINE g == [s \in Seq(Chars) |-> Hear(a, k, f, s)]
    <3>4. g \in [Seq(Chars) -> Said] /\ \A s \in Seq(Chars) : g[s] = Hear(a, k, f, s)
      <4> HIDE DEF Unsolved
      <4> QED BY <3>3
    <3> HIDE DEF g
    <3>5. ASSUME NEW s \in Seq(Chars), Len(s) < m PROVE g[s] = Hear(a, k, g, s)
      <4>1. ASSUME NEW r \in Seq(Chars), Len(r) < Len(s) PROVE f[r] = g[r]
        <5>1. Len(r) < m - 1
          <6>1. Len(r) \in Nat /\ Len(s) \in Nat
            OBVIOUS
          <6> QED BY <2>0, <3>5, <4>1, <6>1
        <5> QED BY <3>2, <3>4, <5>1 DEF Solves
      <4>2. Hear(a, k, f, s) = Hear(a, k, g, s)
        <5> HIDE DEF Unsolved
        <5> QED BY <4>1, HearsShorter
      <4> QED BY <3>4, <4>2
    <3>6. Solves(a, k, g, m)
      BY <3>5 DEF Solves
    <3> QED BY <2>0, <3>4, <3>6
  <2> QED BY <2>2, <2>3
<1>2. PICK h \in [Seq(Chars) -> Said] : Solves(a, k, h, n)
  <2> QED BY <1>1
<1> QED BY <1>2

\* What is heard, unfolded.
LEMMA HearingIs ==
  ASSUME NEW a \in BOOLEAN, NEW k \in BOOLEAN
  PROVE  /\ Hearing(a, k) \in [Seq(Chars) -> Said]
         /\ \A s \in Seq(Chars) : Hearing(a, k)[s] = Hear(a, k, Hearing(a, k), s)
<1> DEFINE Short(n) == CHOOSE h \in [Seq(Chars) -> Said] : Solves(a, k, h, n)
           whole == [s \in Seq(Chars) |-> Short(Len(s) + 1)[s]]
<1>1. ASSUME NEW n \in Nat PROVE Short(n) \in [Seq(Chars) -> Said] /\ Solves(a, k, Short(n), n)
  <2>1. \E h \in [Seq(Chars) -> Said] : Solves(a, k, h, n)
    BY HearsUpTo
  <2> QED BY <2>1, Zenon
<1> HIDE DEF Short
<1>2. ASSUME NEW s \in Seq(Chars) PROVE Len(s) + 1 \in Nat
  OBVIOUS
<1>3. /\ whole \in [Seq(Chars) -> Said]
      /\ \A s \in Seq(Chars) : whole[s] = Short(Len(s) + 1)[s]
  <2>1. ASSUME NEW s \in Seq(Chars) PROVE Short(Len(s) + 1)[s] \in Said
    BY <1>1, <1>2
  <2> QED BY <2>1
<1> HIDE DEF whole
<1>4. ASSUME NEW s \in Seq(Chars) PROVE whole[s] = Hear(a, k, whole, s)
  <2> DEFINE f == Short(Len(s) + 1)
  <2>0. Len(s) \in Nat /\ Len(s) + 1 \in Nat
    OBVIOUS
  <2>1. f \in [Seq(Chars) -> Said] /\ Solves(a, k, f, Len(s) + 1)
    <3> QED BY <1>1, <2>0
  <2> HIDE DEF f
  <2>2. ASSUME NEW r \in Seq(Chars), Len(r) < Len(s) PROVE f[r] = whole[r]
    <3> DEFINE g == Short(Len(r) + 1)
    <3>0. Len(r) \in Nat /\ Len(r) + 1 \in Nat /\ Len(r) < Len(r) + 1
      OBVIOUS
    <3>1. Solves(a, k, g, Len(r) + 1)
      <4> QED BY <1>1, <3>0
    <3> HIDE DEF g
    <3>2. Solves(a, k, f, Len(r) + 1)
      <4>1. ASSUME NEW q \in Seq(Chars), Len(q) < Len(r) + 1 PROVE Len(q) < Len(s) + 1
        <5>1. Len(q) \in Nat
          OBVIOUS
        <5> QED BY <2>0, <2>2, <3>0, <4>1, <5>1
      <4> QED BY <2>1, <4>1 DEF Solves
    <3>3. f[r] = g[r]
      BY <3>0, <3>1, <3>2, HearsOneThing
    <3>4. whole[r] = g[r]
      <4> QED BY <1>3 DEF g
    <3> QED BY <3>3, <3>4
  <2>3. Hear(a, k, f, s) = Hear(a, k, whole, s)
    <3> QED BY <2>2, HearsShorter
  <2>4. f[s] = Hear(a, k, f, s)
    BY <2>0, <2>1 DEF Solves
  <2>5. whole[s] = f[s]
    <3> QED BY <1>3 DEF f
  <2> QED BY <2>3, <2>4, <2>5
<1>5. whole = [s \in Seq(Chars) |-> Hear(a, k, whole, s)]
  <2> QED BY <1>3, <1>4
<1>6. Hearing(a, k) = [s \in Seq(Chars) |-> Hear(a, k, Hearing(a, k), s)]
  BY <1>5, Zenon DEF Hearing
<1>7. \A s \in Seq(Chars) : Hearing(a, k)[s] = Hear(a, k, Hearing(a, k), s)
  BY <1>6, Zenon
<1>8. ASSUME NEW s \in Seq(Chars) PROVE Hearing(a, k)[s] = whole[s]
  <2>1. Len(s) \in Nat /\ Len(s) + 1 \in Nat /\ Len(s) < Len(s) + 1
    OBVIOUS
  <2> DEFINE n == Len(s) + 1
  <2>2. n \in Nat /\ Len(s) < n
    BY <2>1
  <2> DEFINE f == Hearing(a, k)
  <2>3. Solves(a, k, f, n)
    BY <1>7 DEF Solves
  <2>4. Solves(a, k, whole, n)
    BY <1>4 DEF Solves
  <2> HIDE DEF n, f
  <2>5. \A r \in Seq(Chars) : Len(r) < n => f[r] = whole[r]
    BY <2>2, <2>3, <2>4, HearsOneThing
  <2> QED BY <2>2, <2>5 DEF f
<1>9. Hearing(a, k) \in [Seq(Chars) -> Said]
  <2>1. Hearing(a, k) = [s \in Seq(Chars) |-> whole[s]]
    BY <1>6, <1>7, <1>8
  <2> QED BY <1>3, <2>1
<1> QED BY <1>7, <1>9

\* The first characters of a text, and the others.
LEMMA Piece ==
  ASSUME NEW s \in Seq(Chars), NEW n \in 0..Len(s)
  PROVE  /\ SubSeq(s, 1, n) \in Seq(Chars) /\ Len(SubSeq(s, 1, n)) = n
         /\ \A i \in 1..n : SubSeq(s, 1, n)[i] = s[i]
<1>1. \A i \in 1..n : s[i] \in Chars
  OBVIOUS
<1> QED BY <1>1, SubSeqProperties

LEMMA Remainder ==
  ASSUME NEW s \in Seq(Chars), NEW n \in 0..Len(s)
  PROVE  /\ SubSeq(s, n + 1, Len(s)) \in Seq(Chars)
         /\ Len(SubSeq(s, n + 1, Len(s))) = Len(s) - n
         /\ \A i \in 1..(Len(s) - n) : SubSeq(s, n + 1, Len(s))[i] = s[n + i]
<1>1. Len(s) \in Nat /\ n \in Nat
  OBVIOUS
<1>2. \A i \in (n + 1)..Len(s) : s[i] \in Chars
  OBVIOUS
<1>3. /\ SubSeq(s, n + 1, Len(s)) \in Seq(Chars)
      /\ Len(SubSeq(s, n + 1, Len(s))) = Len(s) - n
  BY <1>1, <1>2, SubSeqProperties
<1>4. ASSUME NEW i \in 1..(Len(s) - n) PROVE SubSeq(s, n + 1, Len(s))[i] = s[n + i]
  BY <1>1
<1> QED BY <1>3, <1>4

--------------------------------------------------------------------------------
(* The handler hears what the stream says                                       *)

Kinds == Queries \cup {"?", "?N"}
ToldKinds  == [i \in DOMAIN replies |-> replies[i].kind]

\* What is heard after f was forwarded and q was answered.
After(f, q, h) == [kept |-> h.kept, radio |-> f \o h.radio, told |-> q \o h.told]

\* The end of a command, by a name.
Semicolon == ";"

LEMMA EndsAre ==
  ASSUME NEW s, NEW i
  PROVE  i \in Ends(s) <=> i \in DOMAIN s /\ s[i] = Semicolon
BY Zenon DEF Ends, Semicolon

LEMMA EndlessIs ==
  ASSUME NEW s
  PROVE  Endless(s) <=> \E i \in 0..(Len(s) - MaxBuffer - 1) :
                          \A j \in 1..(MaxBuffer + 1) : s[i + j] # Semicolon
BY Zenon DEF Endless, Semicolon

LEMMA CharsTogether ==
  \A x, y, z \in Seq(Chars) : (x \o y) \o z = x \o (y \o z)
BY ConcatAssociative

\* Two texts, put together.
LEMMA Joined ==
  ASSUME NEW s \in Seq(Chars), NEW t \in Seq(Chars)
  PROVE  /\ s \o t \in Seq(Chars) /\ Len(s \o t) = Len(s) + Len(t)
         /\ Len(s) \in Nat /\ Len(t) \in Nat
         /\ \A i \in 1..Len(s) : (s \o t)[i] = s[i]
         /\ \A i \in 1..Len(t) : (s \o t)[Len(s) + i] = t[i]
<1>1. /\ s \o t \in Seq(Chars) /\ Len(s \o t) = Len(s) + Len(t)
      /\ \A i \in 1..(Len(s) + Len(t)) : (s \o t)[i] = IF i <= Len(s) THEN s[i] ELSE t[i - Len(s)]
      /\ Len(s) \in Nat /\ Len(t) \in Nat
  BY ConcatProperties, LenProperties
<1>2. ASSUME NEW i \in 1..Len(t) PROVE (s \o t)[Len(s) + i] = t[i]
  <2>1. Len(s) + i \in 1..(Len(s) + Len(t)) /\ ~(Len(s) + i <= Len(s)) /\ (Len(s) + i) - Len(s) = i
    BY <1>1
  <2> QED BY <1>1, <2>1
<1>3. ASSUME NEW i \in 1..Len(s) PROVE (s \o t)[i] = s[i]
  <2>1. i \in 1..(Len(s) + Len(t)) /\ i <= Len(s)
    BY <1>1
  <2> QED BY <1>1, <2>1
<1> QED BY <1>1, <1>2, <1>3

\* A stream that had too many bytes without an end has them when more has come.
LEMMA EndlessGrows ==
  ASSUME NEW s \in Seq(Chars), NEW t \in Seq(Chars), Endless(s)
  PROVE  Endless(s \o t)
<1>1. MaxBuffer \in Nat
  BY Sizes
<1>2. PICK i \in 0..(Len(s) - MaxBuffer - 1) :
        \A j \in 1..(MaxBuffer + 1) : s[i + j] # Semicolon
  BY EndlessIs
<1>3. Len(s \o t) = Len(s) + Len(t) /\ Len(s) \in Nat /\ Len(t) \in Nat
  BY Joined
<1>4. i \in 0..(Len(s \o t) - MaxBuffer - 1)
  BY <1>1, <1>3
<1>5. ASSUME NEW j \in 1..(MaxBuffer + 1) PROVE (s \o t)[i + j] # Semicolon
  <2>1. i + j \in 1..Len(s)
    BY <1>1, <1>3
  <2>2. (s \o t)[i + j] = s[i + j]
    BY <2>1, Joined
  <2> QED BY <1>2, <2>2
<1> QED BY <1>4, <1>5, EndlessIs

\* A buffer that is dropped held too many.
LEMMA DroppedIsEndless ==
  ASSUME NEW u \in Seq(Chars), NEW b \in Seq(Chars), Ends(b) = {}, Len(b) > MaxBuffer
  PROVE  Endless(u \o b)
<1>1. MaxBuffer \in Nat
  BY Sizes
<1>2. Len(u \o b) = Len(u) + Len(b) /\ Len(u) \in Nat /\ Len(b) \in Nat
  BY Joined
<1>3. Len(u) \in 0..(Len(u \o b) - MaxBuffer - 1)
  BY <1>1, <1>2
<1>4. ASSUME NEW j \in 1..(MaxBuffer + 1) PROVE (u \o b)[Len(u) + j] # Semicolon
  <2>1. j \in 1..Len(b) /\ DOMAIN b = 1..Len(b)
    BY <1>1, <1>2, LenProperties
  <2>2. (u \o b)[Len(u) + j] = b[j]
    BY <2>1, Joined
  <2>3. b[j] # Semicolon
    BY <2>1, EndsAre
  <2> QED BY <2>2, <2>3
<1> QED BY <1>3, <1>4, EndlessIs

\* What comes later does not change the first command in a buffer.
LEMMA FirstStays ==
  ASSUME NEW b \in Seq(Chars), NEW t \in Seq(Chars), NEW e \in Ends(b),
         \A j \in Ends(b) : e <= j
  PROVE  /\ Ends(b \o t) # {} /\ FirstEnd(b \o t) = e /\ e \in 1..Len(b)
         /\ SubSeq(b \o t, 1, e) = SubSeq(b, 1, e)
         /\ SubSeq(b \o t, e + 1, Len(b \o t)) = SubSeq(b, e + 1, Len(b)) \o t
<1> DEFINE c == b \o t
<1>1. /\ c \in Seq(Chars) /\ Len(c) = Len(b) + Len(t) /\ Len(b) \in Nat /\ Len(t) \in Nat
      /\ \A i \in 1..Len(b) : c[i] = b[i]
      /\ \A i \in 1..Len(t) : c[Len(b) + i] = t[i]
  BY Joined
<1> HIDE DEF c
<1>2. DOMAIN b = 1..Len(b) /\ DOMAIN c = 1..Len(c)
  BY <1>1, LenProperties
<1>3. e \in 1..Len(b) /\ e \in 1..Len(c) /\ e \in Nat /\ b[e] = Semicolon
  BY <1>1, <1>2, EndsAre
<1>4. e \in Ends(c)
  <2>1. c[e] = Semicolon
    BY <1>1, <1>3
  <2> QED BY <1>2, <1>3, <2>1, EndsAre
<1>5. FirstEnd(c) = e
  <2> DEFINE f == FirstEnd(c)
  <2>1. f \in Ends(c) /\ f \in 1..Len(c) /\ f <= e
    BY <1>1, <1>4, FirstOfEnds
  <2> HIDE DEF f
  <2>2. f \in 1..Len(b)
    BY <1>1, <1>3, <2>1
  <2>3. c[f] = Semicolon
    BY <2>1, EndsAre
  <2>4. f \in Ends(b)
    BY <1>1, <1>2, <2>2, <2>3, EndsAre
  <2>5. e <= f
    BY <2>4
  <2>6. f = e
    BY <1>3, <2>1, <2>2, <2>5
  <2> QED BY <2>6 DEF f
<1>6. SubSeq(c, 1, e) = SubSeq(b, 1, e)
  <2> DEFINE x == SubSeq(c, 1, e)
             y == SubSeq(b, 1, e)
  <2>0. e \in 0..Len(c) /\ e \in 0..Len(b)
    BY <1>1, <1>3
  <2>1. x \in Seq(Chars) /\ Len(x) = e /\ \A i \in 1..e : x[i] = c[i]
    BY <1>1, <2>0, Piece
  <2>2. y \in Seq(Chars) /\ Len(y) = e /\ \A i \in 1..e : y[i] = b[i]
    BY <2>0, Piece
  <2> HIDE DEF x, y
  <2>3. \A i \in 1..e : x[i] = y[i]
    BY <1>1, <1>3, <2>1, <2>2
  <2>4. x = y
    BY <2>1, <2>2, <2>3, SeqEqual
  <2> QED BY <2>4 DEF x, y
<1>7. SubSeq(c, e + 1, Len(c)) = SubSeq(b, e + 1, Len(b)) \o t
  <2> DEFINE x == SubSeq(c, e + 1, Len(c))
             r == SubSeq(b, e + 1, Len(b))
             y == r \o t
             n == Len(b) - e
  <2>0. e \in 0..Len(c) /\ e \in 0..Len(b) /\ n \in Nat /\ Len(b) = e + n /\ Len(c) = e + n + Len(t)
    BY <1>1, <1>3
  <2>1. x \in Seq(Chars) /\ Len(x) = Len(c) - e /\ \A i \in 1..(Len(c) - e) : x[i] = c[e + i]
    BY <1>1, <2>0, Remainder
  <2>2. r \in Seq(Chars) /\ Len(r) = n /\ \A i \in 1..n : r[i] = b[e + i]
    BY <2>0, Remainder
  <2> HIDE DEF x, r
  <2>3. /\ y \in Seq(Chars) /\ Len(y) = n + Len(t)
        /\ \A i \in 1..n : y[i] = r[i]
        /\ \A i \in 1..Len(t) : y[n + i] = t[i]
    <3> HIDE DEF n
    <3>1. /\ r \o t \in Seq(Chars) /\ Len(r \o t) = Len(r) + Len(t)
          /\ \A i \in 1..Len(r) : (r \o t)[i] = r[i]
          /\ \A i \in 1..Len(t) : (r \o t)[Len(r) + i] = t[i]
      BY <2>2, Joined
    <3> QED BY <2>2, <3>1
  <2> HIDE DEF y, n
  <2>4. ASSUME NEW i \in 1..(n + Len(t)) PROVE x[i] = y[i]
    <3>0. i \in Nat /\ i \in 1..(Len(c) - e) /\ x[i] = c[e + i]
      BY <1>1, <1>3, <2>0, <2>1
    <3>1. CASE i <= n
      <4>1. i \in 1..n /\ e + i \in 1..Len(b)
        BY <1>3, <2>0, <3>0, <3>1
      <4> QED BY <1>1, <2>2, <2>3, <3>0, <4>1
    <3>2. CASE i > n
      <4> PICK m \in 1..Len(t) : i = n + m
        <5>1. i - n \in 1..Len(t) /\ i = n + (i - n)
          BY <1>1, <2>0, <3>0, <3>2
        <5> QED BY <5>1
      <4>1. y[i] = t[m]
        BY <2>3
      <4>2. c[Len(b) + m] = t[m]
        BY <1>1
      <4>3. e + i = Len(b) + m
        BY <1>3, <2>0, <3>0
      <4> QED BY <3>0, <4>1, <4>2, <4>3
    <3>3. i <= n \/ i > n
      BY <2>0, <3>0
    <3> QED BY <3>1, <3>2, <3>3
  <2>5. Len(x) = n + Len(t)
    BY <1>1, <1>3, <2>0, <2>1
  <2>6. x = y
    BY <2>1, <2>3, <2>4, <2>5, SeqEqual
  <2> QED BY <2>6 DEF x, y, r
<1> QED BY <1>3, <1>4, <1>5, <1>6, <1>7 DEF c

\* The first command in a buffer, and what follows it, is heard.
LEMMA TakesFirst ==
  ASSUME NEW a \in BOOLEAN, NEW k \in BOOLEAN,
         NEW b \in Seq(Chars), NEW t \in Seq(Chars), NEW e \in Ends(b),
         \A j \in Ends(b) : e <= j
  PROVE  Hearing(a, k)[b \o t] =
           Before(a, k, SubSeq(b, 1, e), Hearing(a, k)[SubSeq(b, e + 1, Len(b)) \o t])
<1> DEFINE H == Hearing(a, k)
<1>1. H[b \o t] = Hear(a, k, H, b \o t)
  <2>1. b \o t \in Seq(Chars)
    BY Joined
  <2> QED BY <2>1, HearingIs
<1> HIDE DEF H
<1>2. /\ Ends(b \o t) # {} /\ FirstEnd(b \o t) = e
      /\ SubSeq(b \o t, 1, e) = SubSeq(b, 1, e)
      /\ SubSeq(b \o t, e + 1, Len(b \o t)) = SubSeq(b, e + 1, Len(b)) \o t
  BY FirstStays
<1>3. H[b \o t] = Before(a, k, SubSeq(b, 1, e), H[SubSeq(b, e + 1, Len(b)) \o t])
  BY <1>1, <1>2, Zenon DEF Hear
<1> QED BY <1>3 DEF H

\* An element between two sequences belongs to either.
LEMMA Between ==
  ASSUME NEW S, NEW s \in Seq(S), NEW x \in S, NEW r \in Seq(S)
  PROVE  s \o (<<x>> \o r) = Append(s, x) \o r
<1>1. <<x>> \in Seq(S)
  OBVIOUS
<1>2. s \o (<<x>> \o r) = (s \o <<x>>) \o r
  BY <1>1, ConcatAssociative
<1>3. s \o <<x>> = Append(s, x)
  BY AppendIsConcat
<1> QED BY <1>2, <1>3

\* A command that is forwarded or answered before something else is heard.
LEMMA OneMore ==
  ASSUME NEW a \in BOOLEAN, NEW k \in BOOLEAN, NEW c \in Seq(Chars), NEW h \in Said,
         NEW f \in Seq(Seq(Chars)), NEW q \in Seq(Kinds)
  PROVE  After(f, q, Before(a, k, c, h)) =
           IF Passed(a, k, c) THEN After(Append(f, c), q, h)
                              ELSE After(f, Append(q, Answer(a, c)), h)
<1>0. h.radio \in Seq(Seq(Chars)) /\ h.told \in Seq(Kinds)
  BY DEF Said, Kinds
<1>2. CASE Passed(a, k, c)
  <2>1. f \o (<<c>> \o h.radio) = Append(f, c) \o h.radio
    <3> DEFINE S == Seq(Chars)
    <3>1. \A s, r \in Seq(Seq(Chars)) : s \o (<<c>> \o r) = Append(s, c) \o r
      <4> SUFFICES ASSUME NEW s \in Seq(S), NEW r \in Seq(S)
                   PROVE  s \o (<<c>> \o r) = Append(s, c) \o r
        OBVIOUS
      <4>1. c \in S
        OBVIOUS
      <4> HIDE DEF S
      <4> QED BY <4>1, Between
    <3> QED BY <1>0, <3>1, Zenon
  <2>2. Before(a, k, c, h) = [kept |-> h.kept, radio |-> <<c>> \o h.radio, told |-> h.told]
    BY <1>2 DEF Before
  <2>3. After(f, q, Before(a, k, c, h))
        = [kept |-> h.kept, radio |-> f \o (<<c>> \o h.radio), told |-> q \o h.told]
    BY <2>2 DEF After
  <2> QED BY <1>2, <2>1, <2>3 DEF After
<1>3. CASE ~Passed(a, k, c)
  <2>1. q \o (<<Answer(a, c)>> \o h.told) = Append(q, Answer(a, c)) \o h.told
    <3>1. Answer(a, c) \in Kinds
      BY DEF Answer, Kinds
    <3>2. \A s, r \in Seq(Kinds), x \in Kinds : s \o (<<x>> \o r) = Append(s, x) \o r
      <4> SUFFICES ASSUME NEW s \in Seq(Kinds), NEW r \in Seq(Kinds), NEW x \in Kinds
                   PROVE  s \o (<<x>> \o r) = Append(s, x) \o r
        OBVIOUS
      <4> HIDE DEF Kinds
      <4> QED BY Between
    <3> QED BY <1>0, <3>1, <3>2, Zenon
  <2>2. Before(a, k, c, h) = [kept |-> h.kept, radio |-> h.radio,
                              told |-> <<Answer(a, c)>> \o h.told]
    BY <1>3 DEF Before
  <2>3. After(f, q, Before(a, k, c, h))
        = [kept |-> h.kept, radio |-> f \o h.radio, told |-> q \o (<<Answer(a, c)>> \o h.told)]
    BY <2>2 DEF After
  <2> QED BY <1>3, <2>1, <2>3 DEF After
<1> QED BY <1>2, <1>3

\* What was answered, by kind, before and after one more answer.
LEMMA ToldKindsType ==
  ASSUME replies \in Seq(Replies)
  PROVE  ToldKinds \in Seq(Kinds) /\ Len(ToldKinds) = Len(replies)
<1>1. DOMAIN replies = 1..Len(replies) /\ Len(replies) \in Nat
  BY LenProperties
<1>2. ASSUME NEW i \in 1..Len(replies) PROVE replies[i].kind \in Kinds
  <2>1. replies[i] \in Replies
    BY ElementOfSeq
  <2> QED BY <2>1 DEF Replies, Kinds
<1>3. ToldKinds \in [1..Len(replies) -> Kinds]
  BY <1>1, <1>2 DEF ToldKinds
<1>4. ToldKinds \in Seq(Kinds)
  BY <1>1, <1>3, SeqDef
<1> QED BY <1>1, <1>3, <1>4, LenProperties

LEMMA ToldMore ==
  ASSUME replies \in Seq(Replies), NEW kind \in Kinds, mode \in 0..7,
         replies' = Append(replies, Reply(kind))
  PROVE  ToldKinds' = Append(ToldKinds, kind)
<1>1. Reply(kind) \in Replies /\ Reply(kind).kind = kind
  <2>1. Reply(kind) \in Replies
    BY ReplyType DEF Kinds
  <2> QED BY <2>1 DEF Reply
<1> DEFINE n == Len(replies)
<1>2. /\ n \in Nat /\ DOMAIN replies' = 1..(n + 1) /\ replies'[n + 1] = Reply(kind)
      /\ \A i \in 1..n : replies'[i] = replies[i]
  <2>1. /\ replies' \in Seq(Replies) /\ Len(replies') = n + 1
        /\ \A i \in 1..n : replies'[i] = replies[i]
        /\ replies'[n + 1] = Reply(kind)
    BY <1>1, AppendProperties
  <2> QED BY <2>1, LenProperties
<1>3. ToldKinds \in Seq(Kinds) /\ Len(ToldKinds) = n /\ \A i \in 1..n : ToldKinds[i] = replies[i].kind
  <2>1. DOMAIN replies = 1..n
    BY LenProperties
  <2> QED BY <2>1, ToldKindsType DEF ToldKinds
<1> DEFINE x == Append(ToldKinds, kind)
<1>4. /\ x \in Seq(Kinds) /\ Len(x) = n + 1 /\ x[n + 1] = kind
      /\ \A i \in 1..n : x[i] = ToldKinds[i]
  BY <1>3, AppendProperties
<1> HIDE DEF x, n
<1>5. DOMAIN x = 1..(n + 1)
  BY <1>4, LenProperties
<1>6. x = [i \in 1..(n + 1) |-> x[i]]
  <2>1. x \in [1..(n + 1) -> Kinds]
    BY <1>4, LenProperties
  <2> QED BY <2>1
<1>7. ASSUME NEW i \in 1..(n + 1) PROVE replies'[i].kind = x[i]
  <2>1. CASE i = n + 1
    BY <1>1, <1>2, <1>4, <2>1
  <2>2. CASE i # n + 1
    <3>1. i \in 1..n
      BY <1>2, <2>2
    <3> QED BY <1>2, <1>3, <1>4, <3>1
  <2> QED BY <2>1, <2>2
<1>8. ToldKinds' = [i \in 1..(n + 1) |-> replies'[i].kind]
  BY <1>2 DEF ToldKinds
<1>9. ToldKinds' = x
  BY <1>6, <1>7, <1>8
<1> QED BY <1>9 DEF x

\* Three characters are the fewest of a proper command.
LEMMA ProperLength ==
  ASSUME NEW c \in Seq(Chars)
  PROVE  /\ Proper(c) <=> Len(c) \in 3..MaxCmd
         /\ Proper(c) => (Len(c) > 3 <=> Len(c) # 3)
         /\ ~Proper(c) => Len(c) # 3
<1>1. MaxCmd \in Nat \ 0..2
  BY Client, Zenon
<1>2. ASSUME NEW n \in Nat
      PROVE  (n \in 3..MaxCmd => (n > 3 <=> n # 3)) /\ (n \notin 3..MaxCmd => n # 3)
  <2>1. n \in 3..MaxCmd => (n > 3 <=> n # 3)
    BY <1>1
  <2>2. n \notin 3..MaxCmd => n # 3
    BY <1>1
  <2> QED BY <2>1, <2>2
<1>3. Len(c) \in Nat
  BY LenProperties
<1> QED BY <1>2, <1>3, Zenon DEF Proper

\* The handler does with a command what it is for.
LEMMA Executes ==
  ASSUME NEW c \in Seq(Chars), Execute(c), attached \in BOOLEAN, sink \in BOOLEAN,
         replies \in Seq(Replies), mode \in 0..7
  PROVE  IF Passed(attached, sink, c)
         THEN forwarded' = Append(forwarded, c) /\ ToldKinds' = ToldKinds
         ELSE forwarded' = forwarded /\ ToldKinds' = Append(ToldKinds, Answer(attached, c))
<1> DEFINE tells(kind) == forwarded' = forwarded /\ ToldKinds' = Append(ToldKinds, kind)
           asks == Len(c) = 3 /\ c[1] \o c[2] \in Queries
<1>0. /\ Proper(c) <=> Len(c) \in 3..MaxCmd
      /\ Proper(c) => (Len(c) > 3 <=> Len(c) # 3)
      /\ ~Proper(c) => Len(c) # 3
  BY ProperLength
<1>1. ASSUME NEW kind \in Kinds, Tell(kind) PROVE tells(kind)
  BY <1>1, ToldMore DEF Tell
<1>2. asks <=> Asks(c) \in Queries
  BY DEF Asks, Queries
<1>3. asks => Asks(c) = c[1] \o c[2]
  BY DEF Asks
<1>4. "?" \in Kinds /\ "?N" \in Kinds /\ Queries \subseteq Kinds
  BY DEF Kinds
<1>5. UNCHANGED replies => UNCHANGED ToldKinds
  BY DEF ToldKinds
<1>6. Proper(c) => (Len(c) > 3 \/ c[1] \o c[2] \notin Queries <=> ~asks)
  BY <1>0, Zenon
<1>7. CASE ~Proper(c)
  <2>1. tells("?")
    BY <1>1, <1>4, <1>7 DEF Execute
  <2>2. ~Passed(attached, sink, c)
    BY <1>0, <1>7 DEF Passed
  <2>3. Answer(attached, c) = "?"
    BY <1>0, <1>7, Zenon DEF Answer
  <2> QED BY <2>1, <2>2, <2>3
<1>8. CASE Proper(c) /\ ~attached
  <2>1. tells("?N")
    BY <1>1, <1>4, <1>8 DEF Execute
  <2>2. ~Passed(attached, sink, c) /\ Answer(attached, c) = "?N"
    BY <1>0, <1>8 DEF Passed, Answer
  <2> QED BY <2>1, <2>2
<1>9. CASE Proper(c) /\ attached /\ asks
  <2>1. tells(c[1] \o c[2])
    <3>1. Tell(Asks(c)) /\ Asks(c) \in Queries
      BY <1>2, <1>9 DEF Execute
    <3> QED BY <1>1, <1>3, <1>4, <1>9, <3>1
  <2>2. ~Passed(attached, sink, c)
    BY <1>6, <1>9 DEF Passed
  <2>3. Answer(attached, c) = c[1] \o c[2]
    BY <1>9 DEF Answer
  <2> QED BY <2>1, <2>2, <2>3
<1>10. CASE Proper(c) /\ attached /\ ~asks
  <2>1. IF sink THEN forwarded' = Append(forwarded, c) /\ UNCHANGED replies ELSE Tell("?")
    BY <1>2, <1>10 DEF Execute
  <2>2. Passed(attached, sink, c) <=> sink
    BY <1>0, <1>6, <1>10 DEF Passed
  <2>3. Answer(attached, c) = "?"
    BY <1>10 DEF Answer
  <2>4. CASE sink
    BY <1>5, <2>1, <2>2, <2>4
  <2>5. CASE ~sink
    <3>1. tells("?")
      BY <1>1, <1>4, <2>1, <2>5
    <3> QED BY <2>2, <2>3, <2>5, <3>1
  <2> QED BY <2>4, <2>5
<1> QED BY <1>7, <1>8, <1>9, <1>10

\* A text is its first characters and the others.
LEMMA CutInTwo ==
  ASSUME NEW s \in Seq(Chars), NEW n \in 0..Len(s)
  PROVE  s = SubSeq(s, 1, n) \o SubSeq(s, n + 1, Len(s))
<1> DEFINE x == SubSeq(s, 1, n)
           r == SubSeq(s, n + 1, Len(s))
           y == x \o r
<1>1. x \in Seq(Chars) /\ Len(x) = n /\ \A i \in 1..n : x[i] = s[i]
  BY Piece
<1>2. r \in Seq(Chars) /\ Len(r) = Len(s) - n /\ \A i \in 1..(Len(s) - n) : r[i] = s[n + i]
  BY Remainder
<1>3. Len(s) \in Nat /\ n \in Nat
  BY LenProperties
<1> HIDE DEF x, r
<1>4. /\ y \in Seq(Chars) /\ Len(y) = Len(x) + Len(r)
      /\ \A i \in 1..Len(x) : y[i] = x[i]
      /\ \A i \in 1..Len(r) : y[Len(x) + i] = r[i]
  BY <1>1, <1>2, Joined
<1> HIDE DEF y
<1>5. Len(y) = Len(s)
  BY <1>1, <1>2, <1>3, <1>4
<1>6. ASSUME NEW i \in 1..Len(s) PROVE s[i] = y[i]
  <2>1. CASE i <= n
    <3>1. i \in 1..n
      BY <1>3, <2>1
    <3> QED BY <1>1, <1>4, <3>1
  <2>2. CASE i > n
    <3> PICK m \in 1..(Len(s) - n) : i = n + m
      <4>1. i - n \in 1..(Len(s) - n) /\ i = n + (i - n)
        BY <1>3, <2>2
      <4> QED BY <4>1
    <3>1. y[n + m] = r[m]
      BY <1>1, <1>2, <1>4
    <3> QED BY <1>2, <3>1
  <2>3. i <= n \/ i > n
    BY <1>3
  <2> QED BY <2>1, <2>2, <2>3
<1>7. s = y
  BY <1>4, <1>5, <1>6, SeqEqual
<1> QED BY <1>7 DEF x, r, y

\* The buffer holds the last bytes that were read, and no command between reads; what
\* the stream says, whatever follows, is what was forwarded and answered and then what
\* the buffer says.
Latest == \E u \in Seq(Chars) : received = u \o lineBuffer
Begun  == stage = "recv" => Ends(lineBuffer) = {}
Caught ==
  \/ Endless(received)
  \/ \A t \in Seq(Chars) :
       Hearing(attached, sink)[received \o t]
         = After(forwarded, ToldKinds, Hearing(attached, sink)[lineBuffer \o t])

LEMMA CaughtInit == SessionInit => Latest /\ Begun /\ Caught
<1> SUFFICES ASSUME SessionInit PROVE Latest /\ Begun /\ Caught
  OBVIOUS
<1> DEFINE H == Hearing(attached, sink)
<1>1. /\ lineBuffer = <<>> /\ received = <<>> /\ replies = <<>> /\ forwarded = <<>>
      /\ attached \in BOOLEAN /\ sink \in BOOLEAN
  BY DEF SessionInit
<1>2. <<>> \in Seq(Chars) /\ <<>> \o <<>> = <<>>
  OBVIOUS
<1>3. Latest
  BY <1>1, <1>2 DEF Latest
<1>4. Ends(<<>>) = {}
  BY EndsAre
<1>5. ASSUME NEW t \in Seq(Chars) PROVE H[<<>> \o t] = After(<<>>, <<>>, H[<<>> \o t])
  <2> DEFINE h == H[<<>> \o t]
  <2>1. h \in Said
    <3>1. <<>> \o t \in Seq(Chars)
      BY Joined
    <3>2. H \in [Seq(Chars) -> Said]
      BY <1>1, HearingIs
    <3> HIDE DEF H
    <3> QED BY <3>1, <3>2
  <2> HIDE DEF h
  <2>2. h.radio \in Seq(Seq(Chars)) /\ h.told \in Seq(Kinds)
    BY <2>1 DEF Said, Kinds
  <2>3. <<>> \o h.radio = h.radio
    BY <2>2, ConcatEmptySeq
  <2>4. <<>> \o h.told = h.told
    BY <2>2, ConcatEmptySeq
  <2>5. h = [kept |-> h.kept, radio |-> h.radio, told |-> h.told]
    BY <2>1 DEF Said
  <2> QED BY <2>3, <2>4, <2>5 DEF After, h
<1>6. ToldKinds = <<>>
  BY <1>1 DEF ToldKinds
<1> HIDE DEF H
<1>7. \A t \in Seq(Chars) : H[received \o t] = After(forwarded, ToldKinds, H[lineBuffer \o t])
  BY <1>1, <1>5, <1>6
<1> QED BY <1>1, <1>3, <1>4, <1>7 DEF Begun, Caught, H

\* The bytes of a read come to both.
LEMMA CaughtRead ==
  ASSUME Kept, Recorded, Latest, Caught, NEW n \in 1..MaxRead, Read(n)
  PROVE  Latest' /\ Begun' /\ Caught'
<1> DEFINE x == SubSeq(wire, 1, n)
           H == Hearing(attached, sink)
<1>1. lineBuffer \in Seq(Chars) /\ received \in Seq(Chars) /\ x \in Seq(Chars)
  <2>1. n \in 0..Len(wire) /\ wire \in Seq(Chars)
    <3>1. Len(wire) \in Nat /\ wire \in Seq(Chars)
      BY LenProperties DEF Kept
    <3> QED BY <3>1 DEF Read
  <2> QED BY <2>1, Piece DEF Kept, Recorded
<1>2. /\ received' = received \o x /\ lineBuffer' = lineBuffer \o x
      /\ stage' = "lines" /\ UNCHANGED <<replies, forwarded, attached, sink>>
  BY DEF Read, radio
<1>3. ToldKinds' = ToldKinds
  BY <1>2 DEF ToldKinds
<1> HIDE DEF x, H
<1>4. Latest'
  <2>1. PICK u \in Seq(Chars) : received = u \o lineBuffer
    BY DEF Latest
  <2>2. (u \o lineBuffer) \o x = u \o (lineBuffer \o x)
    BY <1>1, CharsTogether, Zenon
  <2> QED BY <1>2, <2>1, <2>2 DEF Latest
<1>5. Begun'
  BY <1>2 DEF Begun
<1>6. Caught'
  <2>1. CASE Endless(received)
    <3>1. Endless(received \o x)
      BY <1>1, <2>1, EndlessGrows
    <3>2. Endless(received')
      BY <1>2, <3>1
    <3>3. Endless(received)'
      BY <3>2 DEF Endless
    <3> QED BY <3>3 DEF Caught
  <2>2. CASE ~Endless(received)
    <3>1. \A t \in Seq(Chars) : H[received \o t] = After(forwarded, ToldKinds, H[lineBuffer \o t])
      BY <2>2 DEF Caught, H
    <3>2. ASSUME NEW t \in Seq(Chars)
          PROVE  H[(received \o x) \o t] = After(forwarded, ToldKinds, H[(lineBuffer \o x) \o t])
      <4>1. x \o t \in Seq(Chars)
        BY <1>1, Joined
      <4>2. (received \o x) \o t = received \o (x \o t)
        BY <1>1, CharsTogether, Zenon
      <4>3. (lineBuffer \o x) \o t = lineBuffer \o (x \o t)
        BY <1>1, CharsTogether, Zenon
      <4>4. H[received \o (x \o t)] = After(forwarded, ToldKinds, H[lineBuffer \o (x \o t)])
        BY <3>1, <4>1
      <4> QED BY <4>2, <4>3, <4>4
    <3>3. H' = H
      BY <1>2 DEF H
    <3>4. \A t \in Seq(Chars) : H'[received' \o t] = After(forwarded', ToldKinds', H'[lineBuffer' \o t])
      BY <1>2, <1>3, <3>2, <3>3, Zenon
    <3> QED BY <3>4, Zenon DEF Caught, H
  <2> QED BY <2>1, <2>2
<1> QED BY <1>4, <1>5, <1>6

\* A command leaves the buffer, and is forwarded or answered.
LEMMA CaughtHandle ==
  ASSUME Kept, Recorded, Latest, Caught, Handle
  PROVE  Latest' /\ Begun' /\ Caught'
<1> DEFINE H == Hearing(attached, sink)
<1>1. PICK pos \in Terminators :
        /\ stage = "lines" /\ stage' = stage
        /\ \A i \in Terminators : pos <= i
        /\ Execute(SubSeq(lineBuffer, 1, pos))
        /\ lineBuffer' = SubSeq(lineBuffer, pos + 1, Len(lineBuffer))
        /\ UNCHANGED <<received, attached, sink>>
  BY DEF Handle, client, radio
<1> DEFINE c == SubSeq(lineBuffer, 1, pos)
           r == SubSeq(lineBuffer, pos + 1, Len(lineBuffer))
<1>2. /\ lineBuffer \in Seq(Chars) /\ received \in Seq(Chars)
      /\ forwarded \in Seq(Seq(Chars)) /\ replies \in Seq(Replies)
      /\ attached \in BOOLEAN /\ sink \in BOOLEAN /\ mode \in 0..7
  BY DEF Kept, Recorded
<1>3. Terminators = Ends(lineBuffer)
  <2>1. DOMAIN lineBuffer = 1..Len(lineBuffer)
    BY <1>2, LenProperties
  <2> QED BY <2>1, Zenon DEF Terminators, Ends
<1>4. pos \in Ends(lineBuffer) /\ \A i \in Ends(lineBuffer) : pos <= i
  BY <1>1, <1>3
<1>5. pos \in 0..Len(lineBuffer)
  <2>1. pos \in 1..Len(lineBuffer)
    BY Zenon DEF Terminators
  <2> QED BY <2>1
<1>6. c \in Seq(Chars) /\ r \in Seq(Chars) /\ lineBuffer = c \o r
  BY <1>2, <1>5, Piece, Remainder, CutInTwo
<1>7. IF Passed(attached, sink, c)
      THEN forwarded' = Append(forwarded, c) /\ ToldKinds' = ToldKinds
      ELSE forwarded' = forwarded /\ ToldKinds' = Append(ToldKinds, Answer(attached, c))
  <2>1. Execute(c)
    BY <1>1
  <2> HIDE DEF c
  <2> QED BY <1>2, <1>6, <2>1, Executes
<1>8. ToldKinds \in Seq(Kinds)
  BY <1>2, ToldKindsType
<1>9. H' = H /\ received' = received /\ lineBuffer' = r /\ stage' = "lines"
  BY <1>1
<1>10. \A t \in Seq(Chars) : H[lineBuffer \o t] = Before(attached, sink, c, H[r \o t])
  BY <1>2, <1>4, TakesFirst
<1>11. H \in [Seq(Chars) -> Said]
  BY <1>2, HearingIs
<1> HIDE DEF c, r, H
<1>12. Latest'
  <2>1. PICK u \in Seq(Chars) : received = u \o lineBuffer
    BY DEF Latest
  <2>2. (u \o c) \o r = u \o (c \o r)
    BY <1>6, CharsTogether, Zenon
  <2>3. u \o c \in Seq(Chars)
    BY <1>6, Joined
  <2>4. received' = (u \o c) \o lineBuffer'
    BY <1>6, <1>9, <2>1, <2>2, Zenon
  <2> QED BY <2>3, <2>4, Zenon DEF Latest
<1>13. Begun'
  BY <1>9 DEF Begun
<1>14. Caught'
  <2>1. CASE Endless(received)
    <3>1. Endless(received)'
      BY <1>9, <2>1 DEF Endless
    <3> QED BY <3>1 DEF Caught
  <2>2. CASE ~Endless(received)
    <3>1. \A t \in Seq(Chars) : H[received \o t] = After(forwarded, ToldKinds, H[lineBuffer \o t])
      BY <2>2 DEF Caught, H
    <3>2. ASSUME NEW t \in Seq(Chars)
          PROVE  H[received \o t] = After(forwarded', ToldKinds', H[r \o t])
      <4> DEFINE h == H[r \o t]
      <4>1. h \in Said
        <5>1. r \o t \in Seq(Chars)
          BY <1>6, Joined
        <5> QED BY <1>11, <5>1
      <4>2. H[received \o t] = After(forwarded, ToldKinds, Before(attached, sink, c, h))
        BY <1>10, <3>1
      <4> HIDE DEF h
      <4>3. After(forwarded, ToldKinds, Before(attached, sink, c, h))
            = IF Passed(attached, sink, c)
              THEN After(Append(forwarded, c), ToldKinds, h)
              ELSE After(forwarded, Append(ToldKinds, Answer(attached, c)), h)
        BY <1>2, <1>6, <1>8, <4>1, OneMore
      <4>4. H[received \o t] = After(forwarded', ToldKinds', h)
        BY <1>7, <4>2, <4>3, Zenon
      <4> QED BY <4>4 DEF h
    <3>3. \A t \in Seq(Chars) : H'[received' \o t] = After(forwarded', ToldKinds', H'[lineBuffer' \o t])
      BY <1>9, <3>2, Zenon
    <3> QED BY <3>3, Zenon DEF Caught, H
  <2> QED BY <2>1, <2>2
<1> QED BY <1>12, <1>13, <1>14

\* A buffer that is kept holds no command, and one that is dropped held too many bytes.
LEMMA CaughtOverflow ==
  ASSUME Kept, Recorded, Latest, Caught, Overflow
  PROVE  Latest' /\ Begun' /\ Caught'
<1>1. /\ lineBuffer \in Seq(Chars) /\ received \in Seq(Chars)
      /\ DOMAIN lineBuffer = 1..Len(lineBuffer) /\ Len(lineBuffer) \in Nat
  BY LenProperties DEF Kept, Recorded
<1>2. /\ Terminators = {} /\ stage' = "recv"
      /\ lineBuffer' = IF Len(lineBuffer) > MaxBuffer THEN <<>> ELSE lineBuffer
      /\ UNCHANGED <<received, replies, forwarded, attached, sink>>
  BY DEF Overflow, client, radio
<1>3. Ends(lineBuffer) = {}
  <2>1. Terminators = Ends(lineBuffer)
    BY <1>1, Zenon DEF Terminators, Ends
  <2> QED BY <1>2, <2>1
<1>4. ToldKinds' = ToldKinds
  BY <1>2 DEF ToldKinds
<1>5. PICK u \in Seq(Chars) : received = u \o lineBuffer
  BY DEF Latest
<1>6. CASE Len(lineBuffer) > MaxBuffer
  <2>1. lineBuffer' = <<>> /\ received' = received
    BY <1>2, <1>6
  <2>2. received' = received' \o <<>>
    BY <1>1, <2>1, ConcatEmptySeq
  <2>3. Latest'
    BY <1>1, <2>1, <2>2 DEF Latest
  <2>4. Begun'
    <3>1. Ends(<<>>) = {}
      BY EndsAre
    <3> QED BY <2>1, <3>1 DEF Begun
  <2>5. Endless(received)
    BY <1>1, <1>3, <1>5, <1>6, DroppedIsEndless
  <2>6. Endless(received)'
    BY <1>2, <2>5 DEF Endless
  <2> QED BY <2>3, <2>4, <2>6 DEF Caught
<1>7. CASE ~(Len(lineBuffer) > MaxBuffer)
  <2>1. lineBuffer' = lineBuffer
    BY <1>2, <1>7
  <2>2. Latest' /\ Begun'
    BY <1>2, <1>3, <2>1 DEF Latest, Begun
  <2>3. Caught'
    BY <1>2, <1>4, <2>1 DEF Caught
  <2> QED BY <2>2, <2>3
<1> QED BY <1>6, <1>7

LEMMA CaughtStep ==
  Kept /\ Recorded /\ Latest /\ Begun /\ Caught /\ [SessionNext]_sessionVars
    => Latest' /\ Begun' /\ Caught'
<1> SUFFICES ASSUME Kept, Recorded, Latest, Begun, Caught, [SessionNext]_sessionVars
             PROVE  Latest' /\ Begun' /\ Caught'
  OBVIOUS
<1> DEFINE Aside == UNCHANGED <<stage, lineBuffer, received, replies, forwarded, attached, sink>>
<1>1. ASSUME Aside PROVE Latest' /\ Begun' /\ Caught'
  <2>1. ToldKinds' = ToldKinds
    BY <1>1 DEF ToldKinds
  <2> QED BY <1>1, <2>1 DEF Latest, Begun, Caught
<1>2. ASSUME NEW p \in Pieces, Send(p) PROVE Aside
  BY <1>2 DEF Send, radio
<1>3. ASSUME NEW n \in RadioNumbers, ReportMode(n) PROVE Aside
  BY <1>3 DEF ReportMode, client
<1>4. CASE UNCHANGED sessionVars
  <2>1. Aside
    BY <1>4 DEF sessionVars, client, radio
  <2> QED BY <1>1, <2>1
<1>5. CASE SessionNext
  <2>1. \/ Aside \/ (\E n \in 1..MaxRead : Read(n)) \/ Handle \/ Overflow
    BY <1>2, <1>3, <1>5, Zenon DEF SessionNext
  <2> HIDE DEF Aside
  <2> QED BY <1>1, <2>1, CaughtRead, CaughtHandle, CaughtOverflow, Zenon
<1> QED BY <1>4, <1>5

\* However TCP cuts the bytes of a client, for any commands, any reads and any number of
\* them: when a read has been worked off, what the client was answered and the radio was
\* given is what the stream, read as a whole, asks for.
THEOREM StreamAnswered == SessionSpec => []AnswersStream
<1>1. Kept /\ Recorded /\ Begun /\ Caught => AnswersStream
  <2> SUFFICES ASSUME Kept, Recorded, Begun, Caught, stage = "recv", ~Endless(received)
               PROVE  Heard(FALSE)[received] = [kept |-> lineBuffer, radio |-> forwarded, told |-> ToldKinds]
    BY Zenon DEF AnswersStream, ToldKinds
  <2> DEFINE H == Hearing(attached, sink)
             none == [kept |-> lineBuffer, radio |-> <<>>, told |-> <<>>]
  <2>1. /\ lineBuffer \in Seq(Chars) /\ received \in Seq(Chars) /\ <<>> \in Seq(Chars)
        /\ forwarded \in Seq(Seq(Chars)) /\ ToldKinds \in Seq(Kinds)
        /\ attached \in BOOLEAN /\ sink \in BOOLEAN
    BY ToldKindsType DEF Kept, Recorded
  <2>2. received \o <<>> = received /\ lineBuffer \o <<>> = lineBuffer
    BY <2>1, ConcatEmptySeq
  <2>3. H[lineBuffer] = none
    <3>1. H[lineBuffer] = Hear(attached, sink, H, lineBuffer)
      BY <2>1, HearingIs
    <3>2. Ends(lineBuffer) = {}
      BY DEF Begun
    <3> QED BY <3>1, <3>2 DEF Hear
  <2>4. H[received] = After(forwarded, ToldKinds, H[lineBuffer])
    <3>1. H[received \o <<>>] = After(forwarded, ToldKinds, H[lineBuffer \o <<>>])
      BY <2>1 DEF Caught
    <3> QED BY <2>2, <3>1
  <2>5. After(forwarded, ToldKinds, none) = [kept |-> lineBuffer, radio |-> forwarded, told |-> ToldKinds]
    <3>1. forwarded \o <<>> = forwarded
      BY <2>1, ConcatEmptySeq
    <3>2. ToldKinds \o <<>> = ToldKinds
      BY <2>1, ConcatEmptySeq
    <3> QED BY <3>1, <3>2 DEF After
  <2>6. Heard(FALSE)[received] = H[received]
    BY HeardIs
  <2> HIDE DEF H, none
  <2> QED BY <2>3, <2>4, <2>5, <2>6
<1> QED BY <1>1, InitRecorded, InitKept, KeptStep, RecordStep, CaughtInit, CaughtStep, PTL DEF SessionSpec
================================================================================
