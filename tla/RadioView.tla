------------------------------- MODULE RadioView -------------------------------
(* android/.../viewmodel/RadioViewModel.kt: what the user sees of RadioState.   *)
(* Notifications are queued for the main thread, which reads the fields of a    *)
(* VFO back in three calls, each under m_mutex, and then replaces its copy.     *)
EXTENDS RadioControl

VARIABLES
  ui,     \* _uiState: a copy of what is shown, with a tuning rate of its own
  main    \* the main thread: "idle" or the next field to read, of which VFO, and what
          \* it has read of the others

vars == <<controlVars, ui, main>>

\* The fields of RadioUiState that RadioState has, too.
Shown ==
  {Connection} \cup ({"vfo.a", "vfo.b"} \X {"freq", "mode", "smeter", "rate", "active"})
  \cup {<<"vfo.b", "sub_on">>} \cup ({"tx"} \X {"ptt", "tune", "power", "swr"})

\* Those of them that a notification brings up to date.
ReadBack == {Connection} \cup ({"vfo.a", "vfo.b"} \X {"freq", "mode", "smeter"})

AtRest == [at |-> "idle", vfo |-> "vfo.a", freq |-> 0, mode |-> 0]

Init ==
  /\ ControlInit
  /\ ui = [f \in Shown |-> data[f]]
  /\ main = AtRest

--------------------------------------------------------------------------------
(* The main thread                                                              *)

\* The VFO that a key refreshes: "vfo.active" starts with "vfo.a", too, so that
\* refreshActiveVfo() is never called.  That function and refreshTx() are empty.
Refreshes(key) ==
  IF key[1] = "vfo.b" THEN {"vfo.b"}
  ELSE IF key[1] = "vfo.a" \/ key = <<"vfo", "active">> THEN {"vfo.a"}
  ELSE {}

TakePost ==
  /\ main.at = "idle" /\ posts # <<>>
  /\ posts' = Tail(posts)
  /\ LET p == Head(posts) IN
       IF p.kind = "connection"
         THEN ui' = [ui EXCEPT ![Connection] = p.of] /\ UNCHANGED main
         ELSE /\ \/ \E v \in Refreshes(p.of) : main' = [main EXCEPT !.at = "freq", !.vfo = v]
                 \/ Refreshes(p.of) = {} /\ UNCHANGED main
              /\ UNCHANGED ui
  /\ UNCHANGED <<data, todo, at, link, others>>

\* getFrequency(), then getMode(): each locks m_mutex for itself.
ReadField(field, next) ==
  /\ main.at = field /\ ~StateLocked
  /\ main' = [main EXCEPT !.at = next, ![field] = GetVfo(main.vfo, field)]
  /\ UNCHANGED <<controlVars, ui>>

\* getSmeter(), and the copy is replaced.
Refresh ==
  /\ main.at = "smeter" /\ ~StateLocked
  /\ ui' = [ui EXCEPT ![<<main.vfo, "freq">>] = main.freq, ![<<main.vfo, "mode">>] = main.mode,
                      ![<<main.vfo, "smeter">>] = GetVfo(main.vfo, "smeter")]
  /\ main' = AtRest
  /\ UNCHANGED controlVars

MainStep == TakePost \/ ReadField("freq", "mode") \/ ReadField("mode", "smeter") \/ Refresh

\* tuneUp(): one step from the frequency shown; tuneDown() has the other sign.  VFO A
\* is shown as active, since nothing changes that.
TuneUp(u) ==
  /\ main.at = "idle"
  /\ Enter(u, RequestFrequency(0, ui[<<"vfo.a", "freq">>] + ui[<<"vfo.a", "rate">>]))
  /\ UNCHANGED <<ui, main>>

\* cycleTuningRate(): in the user's copy only; TuningRate.next() is nextTuningRate().
CycleTuningRate ==
  /\ main.at = "idle" /\ calls < MaxCalls
  /\ ui' = [ui EXCEPT ![<<"vfo.a", "rate">>] = NextTuningRate(ui[<<"vfo.a", "rate">>])]
  /\ calls' = calls + 1
  /\ UNCHANGED <<state, link, turns, reading, main>>

--------------------------------------------------------------------------------

Working ==
  /\ (\E u \in Callers : ThreadStep(u) \/ Call(u)) \/ ReaderStep \/ Environment
  /\ UNCHANGED <<ui, main>>

Next ==
  \/ Working \/ MainStep \/ CycleTuningRate
  \/ \E u \in Callers : TuneUp(u)

\* Threads are scheduled, and a mutex that is free again and again is obtained.  The
\* radio, the network and the user need do nothing.
Fairness ==
  /\ \A t \in Threads : SF_vars(ThreadStep(t) /\ UNCHANGED <<ui, main>>)
  /\ SF_vars((StoreConnectionState \/ Relock) /\ UNCHANGED <<ui, main>>)
  /\ SF_vars(MainStep)

Spec == Init /\ [][Next]_vars /\ Fairness

--------------------------------------------------------------------------------
(* Properties                                                                   *)

\* Types, and the ranges that the clamps, the parser and the span tiers promise.
TypeOK ==
  /\ DOMAIN data = DOMAIN Constructed
  /\ \A v \in {"vfo.a", "vfo.b"} :
       /\ data[<<v, "mode">>] \in 0..7 /\ data[<<v, "active">>] \in BOOLEAN
       /\ {data[<<v, "freq">>], data[<<v, "smeter">>], data[<<v, "rate">>]} \subseteq Int
  /\ data[<<"vfo.a", "active">>] # data[<<"vfo.b", "active">>]
  /\ {data[<<"audio", "main_vol">>], data[<<"audio", "sub_vol">>]} \subseteq 0..100
  /\ data[<<"audio", "sidetone">>] \in 400..1000
  /\ \A r, a \in {0, 1} : data[<<Nr(r, a), "lvl">>] \in 1..10
  /\ data[<<"cw", "speed">>] \in 5..60 /\ data[<<"spectrum", "span">>] \in SpanTiers
  /\ at \in [Threads -> Places] /\ DOMAIN todo = Threads
  /\ up \in BOOLEAN /\ told \subseteq DOMAIN radio /\ DOMAIN asked \subseteq DOMAIN Constructed
  /\ ui[<<"vfo.a", "mode">>] \in 0..7 /\ ui[<<"vfo.b", "mode">>] \in 0..7
  /\ main.at \in {"idle", "freq", "mode", "smeter"} /\ main.vfo \in {"vfo.a", "vfo.b"}

\* No call or frame is in progress, and no frame is on its way.
Settled == frames = <<>> /\ \A t \in Threads : Idle(t)

AsRadio(setting, value) == IF setting[2] = "mode" THEN Modes[value + 1] ELSE value

\* Once all frames are dispatched, RadioState has of every setting that the radio has
\* reported in this connection the radio's value: nothing else the radio sends, and no
\* numbering of modes, comes between.
MirrorsRadio == Settled => \A s \in told : AsRadio(s, data[s]) = radio[s]

\* Once the radio has taken all commands, every setting is what the last call that
\* concerns it asked for, unless its operator has changed it since.  Left open are the
\* mode after a call for VFO B, whose command names no VFO, and a setting after a call
\* whose number does not fit its text.
RadioObeys == toRadio = <<>> => \A s \in DOMAIN asked : radio[s] = asked[s]

\* Once nothing is in progress, the user is shown the frequencies, modes, meters and
\* connection state that RadioState has, though a VFO is read in three pieces between
\* which everything may change, and though the connection state takes another way than
\* the rest.  Transmitter, active VFO and sub receiver are shown as they were at the
\* start, since refreshTx() and refreshActiveVfo() are empty; they are not part of this.
ViewIsCurrent ==
  Settled /\ posts = <<>> /\ main.at = "idle" => \A f \in ReadBack : ui[f] = data[f]

\* Every call of the API returns, every frame and every connection state is dealt with.
StepsEnd == \A t \in Threads : (todo[t] # <<>>) ~> (todo[t] = <<>>)
================================================================================
