-------------------------------- MODULE CatServer ------------------------------
(* core/src/network/cat_server.cpp: the CAT server.  The owner calls start()    *)
(* and stop(); an accept thread polls the listening socket and spawns a handler *)
(* thread for each client; handlers read commands, answer or forward them, and  *)
(* close their socket.  m_clientMutex guards the list of descriptors, and every *)
(* region under it is one step here.                                            *)
(*                                                                              *)
(* The kernel reuses the number of a descriptor once it is closed, for a client *)
(* or for anything else in the process (Foreign).  A handler keeps a number, so *)
(* that a connection is told from its number.  What a client says, and is       *)
(* answered, is CatSession's.                                                   *)
EXTENDS Naturals, Sequences, FiniteSets

CONSTANTS Handlers,     \* identities of handler threads: a bound on the clients of a session
          Fds,          \* descriptor numbers the process may have open
          MaxClients,   \* max_clients as start() clamps it
          MaxForeign,   \* bound on the descriptors the rest of the process has open
          Owner, Acceptor, NoFd

ASSUME ServerThreads ==
  /\ Owner # Acceptor /\ {Owner, Acceptor} \cap Handlers = {}
  /\ MaxClients \in 1..4 /\ MaxForeign \in Nat
  /\ Fds \subseteq Nat /\ NoFd \notin Fds
  /\ \A w \in {"free", "listen", "accepted", "foreign"} : w \notin Handlers

VARIABLES
  pc,         \* where each thread is
  running,    \* m_running
  listenFd,   \* m_listenFd
  clientFds,  \* m_clientFds
  own,        \* per number: what it refers to, a handler standing for its connection
  fdOf,       \* clientFd of a handler, and of the accept thread before it spawns one
  open,       \* whose connections are up: neither end has closed or shut them down
  backlog,    \* a client waits to be accepted
  stale       \* history: threads whose number stop() has closed under their hands

vars == <<pc, running, listenFd, clientFds, own, fdOf, open, backlog, stale>>

Threads == {Owner, Acceptor} \cup Handlers
Servers == {Acceptor} \cup Handlers   \* threads that hold a client's descriptor

Goto(t, label) == pc' = [pc EXCEPT ![t] = label]
Stopping == pc[Owner] # "idle"

\* The numbers that are free; the kernel hands out the lowest.
Free == {f \in Fds : own[f] = "free"}
Lowest == CHOOSE f \in Free : \A g \in Free : f <= g

Listed(f) == \E i \in DOMAIN clientFds : clientFds[i] = f

Init ==
  /\ pc = [t \in Threads |-> IF t = Owner THEN "idle" ELSE "none"]
  /\ running = FALSE /\ listenFd = NoFd /\ clientFds = <<>>
  /\ own = [f \in Fds |-> "free"] /\ fdOf = [s \in Servers |-> NoFd]
  /\ open = {} /\ backlog = FALSE /\ stale = {}

--------------------------------------------------------------------------------
(* start() and stop()                                                           *)

\* A call that cannot bind or listen closes its socket and changes nothing.
Start ==
  /\ pc[Owner] = "idle" /\ ~running
  /\ Free # {}
  /\ own' = [own EXCEPT ![Lowest] = "listen"] /\ listenFd' = Lowest
  /\ running' = TRUE
  /\ Goto(Acceptor, "check")
  /\ UNCHANGED <<clientFds, fdOf, open, backlog, stale>>

Stop ==
  /\ pc[Owner] = "idle"
  /\ running' = FALSE
  /\ Goto(Owner, "listen")
  /\ UNCHANGED <<listenFd, clientFds, own, fdOf, open, backlog, stale>>

\* shutdown(), where there is a listening socket: no client is accepted any more.
StopListening ==
  /\ pc[Owner] = "listen"
  /\ backlog' = FALSE
  /\ Goto(Owner, IF listenFd = NoFd THEN "clients" ELSE "close")
  /\ UNCHANGED <<running, listenFd, clientFds, own, fdOf, open, stale>>

StopClose ==
  /\ pc[Owner] = "close"
  /\ own' = [own EXCEPT ![listenFd] = "free"]
  /\ Goto(Owner, "clear")
  /\ UNCHANGED <<running, listenFd, clientFds, fdOf, open, backlog, stale>>

StopClear ==
  /\ pc[Owner] = "clear"
  /\ listenFd' = NoFd
  /\ Goto(Owner, "clients")
  /\ UNCHANGED <<running, clientFds, own, fdOf, open, backlog, stale>>

\* A wrong variant: the sockets are closed without a shutdown, which alone wakes recv().
StopClientsUnwoken ==
  /\ pc[Owner] = "clients"
  /\ own' = [f \in Fds |-> IF Listed(f) THEN "free" ELSE own[f]]
  /\ clientFds' = <<>>
  /\ stale' = {s \in Servers : Listed(fdOf[s])}
  /\ Goto(Owner, "join_acceptor")
  /\ UNCHANGED <<running, listenFd, fdOf, open, backlog>>

\* Under m_clientMutex: shut down and close every descriptor of the list.
StopClients ==
  /\ pc[Owner] = "clients"
  /\ own' = [f \in Fds |-> IF Listed(f) THEN "free" ELSE own[f]]
  /\ open' = {s \in open : ~Listed(fdOf[s])}
  /\ clientFds' = <<>>
  /\ stale' = {s \in Servers : Listed(fdOf[s])}
  /\ Goto(Owner, "join_acceptor")
  /\ UNCHANGED <<running, listenFd, fdOf, backlog>>

JoinAcceptor ==
  /\ pc[Owner] = "join_acceptor" /\ pc[Acceptor] \in {"none", "done"}
  /\ pc' = [pc EXCEPT ![Owner] = "join_handlers", ![Acceptor] = "none"]
  /\ UNCHANGED <<running, listenFd, clientFds, own, fdOf, open, backlog, stale>>

\* A wrong variant: the threads are forgotten, not joined.
JoinHandlersDetached ==
  /\ pc[Owner] = "join_handlers"
  /\ Goto(Owner, "idle")
  /\ stale' = {}
  /\ UNCHANGED <<running, listenFd, clientFds, own, fdOf, open, backlog>>

\* m_clientThreads holds every handler since start(), those that have ended included.
JoinHandlers ==
  /\ pc[Owner] = "join_handlers" /\ \A h \in Handlers : pc[h] \in {"none", "done"}
  /\ pc' = [t \in Threads |-> IF t = Owner THEN "idle" ELSE "none"]
  /\ stale' = {}
  /\ UNCHANGED <<running, listenFd, clientFds, own, fdOf, open, backlog>>

--------------------------------------------------------------------------------
(* acceptLoop()                                                                 *)

AcceptCheck ==
  /\ pc[Acceptor] = "check"
  /\ Goto(Acceptor, IF running THEN "poll" ELSE "done")
  /\ UNCHANGED <<running, listenFd, clientFds, own, fdOf, open, backlog, stale>>

\* poll() times out after a second, or there is something to accept: a client, or the
\* end of the listening socket, or whatever has its number by then.
Poll ==
  /\ pc[Acceptor] = "poll"
  /\ \/ (backlog \/ pc[Owner] \notin {"idle", "listen"}) /\ Goto(Acceptor, "accept")
     \/ ~backlog /\ Goto(Acceptor, "check")
  /\ UNCHANGED <<running, listenFd, clientFds, own, fdOf, open, backlog, stale>>

\* accept() fails when nobody waits any more, no number is left, or the number of the
\* listening socket is closed or another's, which does not listen.
Accept ==
  /\ pc[Acceptor] = "accept"
  /\ IF backlog /\ Free # {}
       THEN /\ own' = [own EXCEPT ![Lowest] = "accepted"]
            /\ fdOf' = [fdOf EXCEPT ![Acceptor] = Lowest]
            /\ open' = open \cup {Acceptor} /\ backlog' = FALSE
            /\ Goto(Acceptor, "limit")
       ELSE Goto(Acceptor, "check") /\ UNCHANGED <<own, fdOf, open, backlog>>
  /\ UNCHANGED <<running, listenFd, clientFds, stale>>

\* A wrong variant: one client too many.
LimitOffByOne ==
  /\ pc[Acceptor] = "limit" /\ Len(clientFds) <= MaxClients
  /\ clientFds' = Append(clientFds, fdOf[Acceptor])
  /\ Goto(Acceptor, "spawn")
  /\ UNCHANGED <<running, listenFd, own, fdOf, open, backlog, stale>>

\* Under m_clientMutex: a client over the limit is closed, any other is listed.
Limit ==
  /\ pc[Acceptor] = "limit"
  /\ IF Len(clientFds) >= MaxClients
       THEN /\ own' = [own EXCEPT ![fdOf[Acceptor]] = "free"]
            /\ open' = open \ {Acceptor}
            /\ fdOf' = [fdOf EXCEPT ![Acceptor] = NoFd]
            /\ Goto(Acceptor, "check") /\ UNCHANGED clientFds
       ELSE /\ clientFds' = Append(clientFds, fdOf[Acceptor])
            /\ Goto(Acceptor, "spawn") /\ UNCHANGED <<own, open, fdOf>>
  /\ UNCHANGED <<running, listenFd, backlog, stale>>

\* What holds for the accept thread holds for the handler from now on.
Handed(S, h) == IF Acceptor \in S THEN (S \ {Acceptor}) \cup {h} ELSE S

\* m_clientThreads.emplace_back(): the connection is the handler's now.
Spawn ==
  /\ pc[Acceptor] = "spawn"
  /\ \E h \in Handlers :
       /\ pc[h] = "none" /\ h = CHOOSE g \in Handlers : pc[g] = "none"
       /\ pc' = [pc EXCEPT ![h] = "check", ![Acceptor] = "check"]
       /\ fdOf' = [fdOf EXCEPT ![h] = fdOf[Acceptor], ![Acceptor] = NoFd]
       /\ own' = [f \in Fds |->
                    IF f = fdOf[Acceptor] /\ own[f] = "accepted" THEN h ELSE own[f]]
       /\ open' = Handed(open, h) /\ stale' = Handed(stale, h)
  /\ UNCHANGED <<running, listenFd, clientFds, backlog>>

--------------------------------------------------------------------------------
(* clientHandler()                                                              *)

HandlerCheck(h) ==
  /\ pc[h] = "check"
  /\ Goto(h, IF running THEN "call" ELSE "remove")
  /\ UNCHANGED <<running, listenFd, clientFds, own, fdOf, open, backlog, stale>>

\* recv() fails at once on a number that is closed, and is otherwise a recv() from what
\* the number refers to now.
CallRecv(h) ==
  /\ pc[h] = "call"
  /\ Goto(h, CASE own[fdOf[h]] = h      -> "recv"
              [] own[fdOf[h]] = "free" -> "remove"
              [] OTHER                 -> "recv_other")
  /\ UNCHANGED <<running, listenFd, clientFds, own, fdOf, open, backlog, stale>>

RecvEnd(h) ==
  /\ pc[h] = "recv" /\ h \notin open
  /\ Goto(h, "remove")
  /\ UNCHANGED <<running, listenFd, clientFds, own, fdOf, open, backlog, stale>>

\* What another part of the process has opened fails or has bytes, if it ever does either.
RecvOther(h) ==
  /\ pc[h] = "recv_other"
  /\ Goto(h, "remove") \/ Goto(h, "check")
  /\ UNCHANGED <<running, listenFd, clientFds, own, fdOf, open, backlog, stale>>

\* Commands are answered or forwarded, which the server keeps nothing of.
Receive(h) ==
  /\ pc[h] = "recv" /\ h \in open
  /\ Goto(h, "check")
  /\ UNCHANGED <<running, listenFd, clientFds, own, fdOf, open, backlog, stale>>

\* A wrong variant: the entry that goes is the oldest one.
RemoveOldest(h) ==
  /\ pc[h] = "remove"
  /\ clientFds' = IF clientFds = <<>> THEN <<>> ELSE Tail(clientFds)
  /\ Goto(h, "close")
  /\ UNCHANGED <<running, listenFd, own, fdOf, open, backlog, stale>>

\* erase() of what remove() moved to the end: the entries with other numbers stay, in
\* their order.
Unlist(fd) ==
  LET others == {i \in DOMAIN clientFds : clientFds[i] # fd} IN
  \E kept \in UNION {[1..n -> others] : n \in 0..Len(clientFds)} :
    /\ \A k, l \in DOMAIN kept : k < l => kept[k] < kept[l]
    /\ \A i \in others : \E k \in DOMAIN kept : kept[k] = i
    /\ clientFds' = [k \in DOMAIN kept |-> clientFds[kept[k]]]

\* A wrong variant: the number is closed here already.
RemoveClosing(h) ==
  /\ pc[h] = "remove"
  /\ Unlist(fdOf[h])
  /\ own' = [own EXCEPT ![fdOf[h]] = "free"]
  /\ Goto(h, "close")
  /\ UNCHANGED <<running, listenFd, fdOf, open, backlog, stale>>

\* removeClient(): every entry with this number goes.
RemoveClient(h) ==
  /\ pc[h] = "remove"
  /\ Unlist(fdOf[h])
  /\ Goto(h, "close")
  /\ UNCHANGED <<running, listenFd, own, fdOf, open, backlog, stale>>

\* close(): of whatever the number refers to now.  stop() may have closed it before.
Close(h) ==
  /\ pc[h] = "close"
  /\ own' = [own EXCEPT ![fdOf[h]] = "free"]
  /\ open' = open \ {h} /\ stale' = stale \ {h}
  /\ fdOf' = [fdOf EXCEPT ![h] = NoFd]
  /\ Goto(h, "done")
  /\ UNCHANGED <<running, listenFd, clientFds, backlog>>

--------------------------------------------------------------------------------
(* Clients and the rest of the process                                          *)

Unused == Cardinality({h \in Handlers : pc[h] = "none"})

\* A client connects, as long as an identity is left for its handler.
ClientArrives ==
  /\ listenFd # NoFd /\ pc[Owner] \in {"idle", "listen"} /\ ~backlog
  /\ Unused > IF fdOf[Acceptor] = NoFd THEN 0 ELSE 1
  /\ backlog' = TRUE
  /\ UNCHANGED <<pc, running, listenFd, clientFds, own, fdOf, open, stale>>

ClientLeaves ==
  /\ \E s \in open : open' = open \ {s}
  /\ UNCHANGED <<pc, running, listenFd, clientFds, own, fdOf, backlog, stale>>

ForeignOpens ==
  /\ Cardinality({f \in Fds : own[f] = "foreign"}) < MaxForeign
  /\ Free # {} /\ own' = [own EXCEPT ![Lowest] = "foreign"]
  /\ UNCHANGED <<pc, running, listenFd, clientFds, fdOf, open, backlog, stale>>

ForeignCloses ==
  /\ \E f \in Fds : own[f] = "foreign" /\ own' = [own EXCEPT ![f] = "free"]
  /\ UNCHANGED <<pc, running, listenFd, clientFds, fdOf, open, backlog, stale>>

Stops == StopListening \/ StopClose \/ StopClear \/ StopClients \/ JoinAcceptor \/ JoinHandlers
AcceptLoop == AcceptCheck \/ Poll \/ Accept \/ Limit \/ Spawn
ClientHandler(h) ==
  HandlerCheck(h) \/ CallRecv(h) \/ RecvEnd(h) \/ RecvOther(h) \/ Receive(h)
    \/ RemoveClient(h) \/ Close(h)
World == ClientArrives \/ ClientLeaves \/ ForeignOpens \/ ForeignCloses

Next ==
  \/ Start \/ Stop \/ Stops \/ AcceptLoop \/ World
  \/ \E h \in Handlers : ClientHandler(h)

\* Threads are scheduled, and poll() has a timeout.  A client need not send, so that
\* only the end of its stream is certain to end a recv() from it, and nothing is certain
\* to end one from another's descriptor.
Fairness ==
  /\ WF_vars(Stops) /\ WF_vars(AcceptLoop)
  /\ \A h \in Handlers :
       WF_vars(HandlerCheck(h) \/ CallRecv(h) \/ RecvEnd(h) \/ RemoveClient(h) \/ Close(h))

Spec == Init /\ [][Next]_vars /\ Fairness

--------------------------------------------------------------------------------
(* Properties                                                                   *)

\* Types, and the limit of clients, which the accept thread tests and handlers undercut.
TypeOK ==
  /\ pc[Owner] \in {"idle", "listen", "close", "clear", "clients", "join_acceptor", "join_handlers"}
  /\ pc[Acceptor] \in {"none", "check", "poll", "accept", "limit", "spawn", "done"}
  /\ \A h \in Handlers :
       pc[h] \in {"none", "check", "call", "recv", "recv_other", "remove", "close", "done"}
  /\ DOMAIN pc = Threads /\ {running, backlog} \subseteq BOOLEAN
  /\ listenFd \in Fds \cup {NoFd}
  /\ clientFds \in Seq(Fds) /\ Len(clientFds) <= MaxClients
  /\ own \in [Fds -> {"free", "listen", "accepted", "foreign"} \cup Handlers]
  /\ fdOf \in [Servers -> Fds \cup {NoFd}] /\ open \cup stale \subseteq Servers

\* Until stop() is called, the list that stop() and the limit go by has every client
\* that is served, once, under a number that is that client's: numbers are reused as
\* soon as they are closed, and removal goes by number.
ServedIsListed ==
  ~Stopping =>
    /\ \A h \in Handlers : pc[h] \in {"check", "call", "recv", "recv_other"} =>
         Listed(fdOf[h]) /\ own[fdOf[h]] = h
    /\ \A i, j \in DOMAIN clientFds : clientFds[i] = clientFds[j] => i = j

\* Numbers are reused, and a handler keeps one that stop() closes, too: still, the server
\* closes what another part of the process has opened in one case only, when a thread
\* that held a number while stop() closed it closes that number once more.  Not in normal
\* service, and not for a client that was not in the list when stop() went through it.
OthersUntouched ==
  [][\A f \in Fds : own[f] = "foreign" /\ own'[f] # "foreign" =>
       \/ ForeignCloses
       \/ Stopping /\ \E s \in stale : fdOf[s] = f /\ fdOf'[s] = NoFd]_vars

\* Once stop() has returned nothing of the server is left: no thread that would still
\* use the RadioState or the callback it was given, and no descriptor.
StopLeavesNothing ==
  ~running /\ ~Stopping =>
    /\ \A s \in Servers : pc[s] = "none"
    /\ clientFds = <<>> /\ \A f \in Fds : own[f] \in {"free", "foreign"}

\* stop() returns, whatever clients do: also from a client accepted while it runs, which
\* is not in the list it goes through.  Unless a handler that was about to read comes to
\* read from another's descriptor, which has got the number stop() has closed.
StopReturns == Stopping ~> ~Stopping \/ \E h \in Handlers : pc[h] = "recv_other"
================================================================================
