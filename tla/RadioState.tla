------------------------------- MODULE RadioState ------------------------------
(* core/src/models/radio_state.cpp: what the application knows of the radio.    *)
(* Every setter locks m_mutex, clamps, compares, assigns, and calls the change  *)
(* callback with the mutex held.  The callback that Engine installs locks       *)
(* m_cbMutex and hands the key to the application.                              *)
(*                                                                              *)
(* A field is a pair, and its key in the code is the pair with a dot between;   *)
(* vfo and receiver are 0 or 1, as the enumerations of the API have them.       *)
(* Fields that no setter changes are left out.                                  *)
EXTENDS Integers, Sequences

CONSTANTS Threads,      \* threads that call setters or notify a connection state
          NotANumber    \* the value of a command whose text is no number

VARIABLES
  data,   \* m_data: a value for each field
  todo,   \* what the call a thread is in has yet to do, one record for each step
  at,     \* where a thread is in its step, and so which of the two mutexes it holds
  posts   \* what the callbacks gave to the main thread and it has not yet taken

state == <<data, todo, at, posts>>

\* "callback": m_mutex held, m_cbMutex wanted.  "notified": m_cbMutex held, m_mutex
\* wanted.  "relock": both held, m_cbMutex wanted once more.
Places == {"ready", "callback", "notified", "relock"}

StateLocked == \E t \in Threads : at[t] \in {"callback", "relock"}
CbLocked    == \E t \in Threads : at[t] \in {"notified", "relock"}

Vfo(v) == IF v = 0 THEN "vfo.a" ELSE "vfo.b"
Nr(receiver, algorithm) ==
  IF algorithm = 0 THEN IF receiver = 0 THEN "nr.main.lms" ELSE "nr.sub.lms"
                   ELSE IF receiver = 0 THEN "nr.main.ssnr" ELSE "nr.sub.ssnr"

Kpa == <<"kpa", "">>   Connection == <<"connection", "">>
Cat == <<"cat", "">>   DxCluster  == <<"dxcluster", "">>

NrNames == {"nr.main.lms", "nr.main.ssnr", "nr.sub.lms", "nr.sub.ssnr"}

Flags ==
  ({"vfo.a", "vfo.b"} \X {"active"}) \cup ({"vfo.b"} \X {"sub_on"})
  \cup ({"tx"} \X {"ptt", "tune"}) \cup (NrNames \X {"en"}) \cup ({"kpa"} \X {""})

Numbers ==
  ({"vfo.a", "vfo.b"} \X {"freq", "mode", "smeter", "rate"})
  \cup ({"tx"} \X {"power", "swr"}) \cup ({"spectrum"} \X {"span", "center", "ref", "bins"})
  \cup ({"audio"} \X {"main_vol", "sub_vol", "sidetone"})
  \cup (NrNames \X {"lvl"}) \cup ({"cw"} \X {"speed", "iambic"})

Fields == Flags \cup Numbers \cup ({"connection", "cat", "dxcluster"} \X {""})

Flag(f) == f = <<"vfo.a", "active">>

Number(f) ==
  CASE f[2] = "freq"     -> IF f[1] = "vfo.a" THEN 14225000 ELSE 7040000
    [] f[2] = "mode"     -> IF f[1] = "vfo.a" THEN 1 ELSE 2
    [] f[2] = "rate"     -> 100
    [] f[2] \in {"power", "swr"} -> 10
    [] f[2] = "span"     -> 100000
    [] f[2] = "center"   -> 14175000
    [] f[2] = "bins"     -> 480
    [] f[2] \in {"main_vol", "sub_vol"} -> 50
    [] f[2] = "sidetone" -> 600
    [] f[2] = "lvl"      -> 5
    [] f[2] = "speed"    -> 20
    [] OTHER             -> 0

Constructed ==
  [f \in Fields |-> IF f \in Flags THEN Flag(f) ELSE IF f \in Numbers THEN Number(f)
                    ELSE <<IF f = Connection THEN "DISCONNECTED" ELSE FALSE, 0>>]

--------------------------------------------------------------------------------
(* Setters: the fields compared, the fields assigned, the key of the notification *)

Clamp(n, low, high) == IF n < low THEN low ELSE IF n > high THEN high ELSE n

Set(field, value) ==
  [does |-> "set", compares |-> {field}, to |-> [f \in {field} |-> value], key |-> field]

SetFrequency(v, hz)   == Set(<<Vfo(v), "freq">>, hz)
SetSmeter(v, value)   == Set(<<Vfo(v), "smeter">>, value)
SetTuningRate(v, hz)  == Set(<<Vfo(v), "rate">>, hz)
SetSubOn(on)          == Set(<<"vfo.b", "sub_on">>, on)

\* A wrong variant: the key of the other VFO.
SetModeWrongKey(v, mode) ==
  [Set(<<Vfo(v), "mode">>, mode) EXCEPT !.key = <<Vfo(1 - v), "mode">>]
SetMode(v, mode)      == Set(<<Vfo(v), "mode">>, mode)

\* Only the flag of VFO A is compared; both are assigned.
SetActiveVfo(v) ==
  [does |-> "set", compares |-> {<<"vfo.a", "active">>}, key |-> <<"vfo", "active">>,
   to |-> [f \in {"vfo.a", "vfo.b"} \X {"active"} |-> (f[1] = "vfo.a") = (v = 0)]]

SetPtt(on)            == Set(<<"tx", "ptt">>, on)
SetTune(on)           == Set(<<"tx", "tune">>, on)
SetPower(watts)       == Set(<<"tx", "power">>, watts)
SetSwr(x10)           == Set(<<"tx", "swr">>, x10)
SetSpan(hz)           == Set(<<"spectrum", "span">>, hz)
SetCenter(hz)         == Set(<<"spectrum", "center">>, hz)
SetRefLevel(db)       == Set(<<"spectrum", "ref">>, db)
SetBinCount(count)    == Set(<<"spectrum", "bins">>, count)

\* A wrong variant: no clamp.
SetMainVolumeAny(level) == Set(<<"audio", "main_vol">>, level)
SetMainVolume(level)  == Set(<<"audio", "main_vol">>, Clamp(level, 0, 100))
SetSubVolume(level)   == Set(<<"audio", "sub_vol">>, Clamp(level, 0, 100))
SetSidetone(hz)       == Set(<<"audio", "sidetone">>, Clamp(hz, 400, 1000))
SetNrEnabled(r, a, on)    == Set(<<Nr(r, a), "en">>, on)
SetNrLevel(r, a, level)   == Set(<<Nr(r, a), "lvl">>, Clamp(level, 1, 10))
SetCwSpeed(wpm)       == Set(<<"cw", "speed">>, Clamp(wpm, 5, 60))
SetCwIambicMode(mode) == Set(<<"cw", "iambic">>, mode)

\* Aggregates are assigned and notified without comparing.
SetAggregate(field, value) ==
  [does |-> "set", compares |-> {}, to |-> [f \in {field} |-> value], key |-> field]

SetKpaState(connected)               == SetAggregate(Kpa, connected)
SetConnectionState(status, attempts) == SetAggregate(Connection, <<status, attempts>>)
SetCatState(running, clients)        == SetAggregate(Cat, <<running, clients>>)
SetDxClusterState(connected, spots)  == SetAggregate(DxCluster, <<connected, spots>>)

Changes(s) ==
  s.compares = {} \/ \E f \in s.compares : s.to[f] # data[f]

--------------------------------------------------------------------------------
(* parseCatCommand(): the setter that a command of the radio calls, or none.    *)
(* A command is its name, the length of its text, the number in it and, for an  *)
(* S-meter, the VFO.                                                            *)

\* The mode numbers of the radio that the switch maps, and what it makes of them.
ParsedMode ==
  [n \in {1, 2, 3, 4, 5, 6, 7, 9} |-> IF n = 9 THEN 5 ELSE <<0, 1, 2, 7, 6, 4, 3>>[n]]

\* A wrong variant: a frequency of any length is taken.
ParseAnyWidth(c) ==
  IF c.value = NotANumber THEN <<>>
  ELSE IF c.name = "FA" THEN <<SetFrequency(0, c.value)>>
  ELSE IF c.name = "FB" THEN <<SetFrequency(1, c.value)>>
  ELSE IF c.name = "MD" /\ c.value \in DOMAIN ParsedMode THEN <<SetMode(0, ParsedMode[c.value])>>
  ELSE <<>>

Parse(c) ==
  IF c.name = "TQ" THEN IF c.width > 0 THEN <<SetPtt(c.value = 1)>> ELSE <<>>
  ELSE IF c.value = NotANumber THEN <<>>
  ELSE CASE c.name = "FA" /\ c.width >= 11                    -> <<SetFrequency(0, c.value)>>
         [] c.name = "FB" /\ c.width >= 11                    -> <<SetFrequency(1, c.value)>>
         [] c.name = "MD" /\ c.value \in DOMAIN ParsedMode    -> <<SetMode(0, ParsedMode[c.value])>>
         [] c.name = "SM" /\ c.width >= 4 /\ c.vfo \in {0, 1} -> <<SetSmeter(c.vfo, c.value)>>
         [] c.name = "PC"                                     -> <<SetPower(c.value)>>
         [] OTHER                                             -> <<>>

--------------------------------------------------------------------------------
(* Steps of a thread in a setter                                                *)

StateInit(initial) ==
  /\ data = initial
  /\ todo = [t \in Threads |-> <<>>] /\ at = [t \in Threads |-> "ready"]
  /\ posts = <<>>

Move(t, place) == at' = [at EXCEPT ![t] = place]
Finish(t) == todo' = [todo EXCEPT ![t] = Tail(@)]

Assigned(to) == [f \in Fields |-> IF f \in DOMAIN to THEN to[f] ELSE data[f]]

\* Lock m_mutex, compare, assign.  Without a change the lock is released at once.
Apply(t) ==
  /\ at[t] = "ready" /\ todo[t] # <<>> /\ Head(todo[t]).does = "set"
  /\ ~StateLocked
  /\ LET s == Head(todo[t]) IN
       IF Changes(s) THEN data' = Assigned(s.to) /\ Move(t, "callback") /\ UNCHANGED todo
                     ELSE Finish(t) /\ UNCHANGED <<data, at>>
  /\ UNCHANGED posts

\* notify(): the callback locks m_cbMutex; the application queues the key for its
\* main thread; both locks are released.
Callback(t) ==
  /\ at[t] = "callback" /\ ~CbLocked
  /\ posts' = Append(posts, [kind |-> "key", of |-> Head(todo[t]).key])
  /\ Finish(t) /\ Move(t, "ready")
  /\ UNCHANGED data
================================================================================
