------------------------------ MODULE RadioControl -----------------------------
(* core/src/engine/qk4_engine.cpp: the radio commands of Engine, the dispatch   *)
(* of the frames the radio answers with, and the notification of connection     *)
(* states, over RadioState.  The radio is external: it takes commands in order, *)
(* reports every setting that becomes something, and has knobs of its own.      *)
EXTENDS RadioState, RadioUtils

CONSTANTS Callers,        \* threads of the application that call the API
          Reader,         \* the read thread, and the reconnect thread that follows it
          Calls,          \* the calls that are made, as sequences of steps
          Knobs,          \* <<setting, value>> that the radio's operator chooses
          Noise,          \* commands of the radio that should change no setting
          Open,           \* what a caller wants whose setting is left open
          RelockBlocks,   \* locking a std::mutex its thread holds blocks for ever
          MaxCalls, MaxTurns   \* bounds on calls and on what the radio does by itself

ASSUME ControlThreads ==
  /\ Reader \notin Callers /\ Threads = Callers \cup {Reader}
  /\ RelockBlocks \in BOOLEAN
  /\ {MaxCalls, MaxTurns} \subseteq Nat

VARIABLES
  up,        \* TcpClient::isConnected()
  toRadio,   \* commands sent and not yet taken by the radio
  frames,    \* what the radio sent and the read thread has not dispatched
  radio,     \* the radio's settings
  told,      \* the settings the radio has reported since it was connected
  asked,     \* per setting: what the last command sent asks of it
  reading,   \* the read thread lives
  calls, turns

link == <<up, toRadio, frames, radio, told, asked>>
others == <<reading, calls, turns>>
controlVars == <<state, link, others>>

--------------------------------------------------------------------------------
(* Engine's radio commands, each as the steps it takes                          *)

\* qk4_mode_t, by number, and the radio's numbers for the same modes.
Modes == <<"LSB", "USB", "CW", "CW-R", "DATA", "DATA-R", "AM", "FM">>
RadioModes ==
  [n \in DOMAIN ParsedMode |->
     IF n = 9 THEN "DATA-R" ELSE <<"LSB", "USB", "CW", "FM", "AM", "DATA", "CW-R">>[n]]

\* A command, and the setting its caller wants: what the properties compare.
Send(name, value, setting, wanted) ==
  [does |-> "send", name |-> name, value |-> value, setting |-> setting, wanted |-> wanted]

\* A command for something of which RadioState keeps nothing: its text, cut short or not,
\* is compared with nothing.
SendOnly(name, value) == Send(name, value, Connection, value)

\* snprintf() into char[20] and char[12] has room for numbers of 16 and of 8 characters.
\* The text of a longer one is cut short, with no ';' at its end, and no command.
FitsFrequency(hz) == hz \div 100000000 < 100000000 /\ (-hz) \div 100000000 < 10000000
FitsPower(watts) == -10000000 < watts /\ watts < 100000000
SendCut(setting) == Send("cut", 0, setting, Open)

RequestFrequency(v, hz) ==
  <<IF FitsFrequency(hz) THEN Send(IF v = 0 THEN "FA" ELSE "FB", hz, <<Vfo(v), "freq">>, hz)
                         ELSE SendCut(<<Vfo(v), "freq">>)>>

ModeMap == <<1, 2, 3, 7, 6, 9, 5, 4>>

\* A wrong variant: two entries of the table are swapped.
RequestModeSwapped(v, mode) ==
  LET map == [ModeMap EXCEPT ![4] = ModeMap[5], ![5] = ModeMap[4]] IN
  <<Send("MD", map[mode + 1], <<"vfo.a", "mode">>, IF v = 0 THEN Modes[mode + 1] ELSE Open)>>

\* The VFO is not part of the command, and the radio takes it for VFO A: what a call for
\* VFO B should make of the modes is left open.
RequestMode(v, mode) ==
  IF mode \in 0..7
    THEN <<Send("MD", ModeMap[mode + 1], <<"vfo.a", "mode">>,
                IF v = 0 THEN Modes[mode + 1] ELSE Open)>>
    ELSE <<>>

RequestPtt(on) == <<Send(IF on THEN "TX" ELSE "RX", 0, <<"tx", "ptt">>, on)>>
RequestPower(watts) ==
  <<IF FitsPower(watts) THEN Send("PC", watts, <<"tx", "power">>, watts)
                        ELSE SendCut(<<"tx", "power">>)>>

RequestBand(id) ==
  IF id \in BandIds
    THEN RequestFrequency(0, (Lower(id) + Upper(id)) \div 2)
    ELSE <<>>

RequestTune(on) == <<SendOnly("SWH", IF on THEN 16 ELSE 0)>>
RequestAgc(mode) == IF mode \in 0..2 THEN <<SendOnly("GT", <<0, 2, 4>>[mode + 1])>> ELSE <<>>
RequestFilterBw(hz) == <<SendOnly("BW", hz \div 10)>>
RequestNotch(on, hz) == <<SendOnly("NT", IF on THEN hz \div 10 ELSE 0)>>

\* Two setters, each under a lock of its own.
SetNr(v, algorithm, on, level) ==
  <<SetNrEnabled(v, algorithm, on)>>
    \o IF on THEN <<SetNrLevel(v, algorithm, level)>> ELSE <<>>

SetVolume(channel, level) ==
  <<IF channel = 0 THEN SetMainVolume(level) ELSE SetSubVolume(level)>>

\* The radio is sent what the caller gave, not what RadioState made of it.
CwSetSpeed(wpm) == <<SetCwSpeed(wpm), SendOnly("KS", wpm)>>
CwSetIambicMode(mode) == <<SetCwIambicMode(mode)>>

\* A dit or a dah for the radio; the local sidetone, which any element keys, is left out.
CwKey(element) == IF element \in 0..1 THEN <<SendOnly("KY", element)>> ELSE <<>>
SetSidetonePitch(hz) == <<SetSidetone(hz)>>

SetSpectrumSpan(hz) ==
  <<SetSpan(SnapToSpanTier(hz)), SendOnly("#SPN", SnapToSpanTier(hz))>>
SetSpectrumCenter(hz) == <<SetCenter(hz)>>
SetSpectrumRefLevel(db) == <<SetRefLevel(db), SendOnly("#REF", db)>>

\* getFrequency(), getMode(), getSmeter(): a copy of the VFO, taken under m_mutex.
GetVfo(vfo, field) == data[<<vfo, field>>]

--------------------------------------------------------------------------------
(* The radio                                                                    *)

Settings ==
  ({"vfo.a", "vfo.b"} \X {"freq", "smeter"}) \cup ({"vfo.a"} \X {"mode"})
  \cup ({"tx"} \X {"ptt", "power"})

RadioInit == [s \in Settings |-> IF s = <<"vfo.a", "mode">> THEN "USB" ELSE Constructed[s]]

\* What the radio may make of a setting.
IsOfRadio(s, value) ==
  IF s[2] = "mode" THEN \E n \in DOMAIN RadioModes : value = RadioModes[n]
  ELSE IF s[2] = "ptt" THEN value \in BOOLEAN ELSE value \in Int

ASSUME Operator ==
  \A k \in Knobs : k = <<k[1], k[2]>> /\ k[1] \in Settings /\ IsOfRadio(k[1], k[2])

\* Commands too short, without a number, of an unknown mode or VFO, or not of a setting.
ASSUME Nothing ==
  /\ NotANumber \notin Int
  /\ \A c \in Noise :
       /\ c.width \in Nat
       /\ c.name \in {"FA", "FB"} => c.width < 11 \/ c.value = NotANumber
       /\ c.name = "MD" => c.value \notin DOMAIN ParsedMode \/ c.value = NotANumber
       /\ c.name = "SM" => c.width < 4 \/ c.vfo \notin {0, 1} \/ c.value = NotANumber
       /\ c.name = "PC" => c.value = NotANumber
       /\ c.name = "TQ" => c.width = 0
       /\ c.name = "spectrum" => c.value \in Int

Text(name, width, v, value) == [name |-> name, width |-> width, vfo |-> v, value |-> value]

\* How the radio words a setting.
Report(setting, value) ==
  CASE setting = <<"vfo.a", "freq">>   -> Text("FA", 11, 0, value)
    [] setting = <<"vfo.b", "freq">>   -> Text("FB", 11, 0, value)
    [] setting = <<"vfo.a", "mode">>   ->
         Text("MD", 1, 0, CHOOSE n \in DOMAIN RadioModes : RadioModes[n] = value)
    [] setting = <<"vfo.a", "smeter">> -> Text("SM", 5, 0, value)
    [] setting = <<"vfo.b", "smeter">> -> Text("SM", 5, 1, value)
    [] setting = <<"tx", "ptt">>       -> Text("TQ", 1, 0, IF value THEN 1 ELSE 0)
    [] OTHER                           -> Text("PC", 3, 0, value)

\* The setting and the value that a command means to the radio.
Meaning(c) ==
  CASE c.name = "FA" -> << <<"vfo.a", "freq">>, c.value>>
    [] c.name = "FB" -> << <<"vfo.b", "freq">>, c.value>>
    [] c.name = "MD" -> << <<"vfo.a", "mode">>, RadioModes[c.value]>>
    [] c.name = "TX" -> << <<"tx", "ptt">>, TRUE>>
    [] c.name = "RX" -> << <<"tx", "ptt">>, FALSE>>
    [] OTHER         -> << <<"tx", "power">>, c.value>>

Becomes(setting, value) ==
  /\ radio' = [radio EXCEPT ![setting] = value]
  /\ frames' = Append(frames, Report(setting, value))
  /\ told' = told \cup {setting}

RadioTakes ==
  /\ toRadio # <<>>
  /\ toRadio' = Tail(toRadio)
  /\ IF Head(toRadio).name \in {"FA", "FB", "MD", "TX", "RX", "PC"}
       THEN LET meant == Meaning(Head(toRadio)) IN Becomes(meant[1], meant[2])
       ELSE UNCHANGED <<radio, frames, told>>
  /\ UNCHANGED <<state, up, asked, others>>

Turning ==
  /\ up /\ turns < MaxTurns
  /\ turns' = turns + 1
  /\ UNCHANGED <<state, up, toRadio, calls, reading>>

RadioTurns ==
  /\ Turning
  /\ \E k \in Knobs :
       /\ Becomes(k[1], k[2])
       /\ asked' = [s \in DOMAIN asked \ {k[1]} |-> asked[s]]

RadioMumbles ==
  /\ Turning
  /\ \E c \in Noise : frames' = Append(frames, c)
  /\ UNCHANGED <<radio, told, asked>>

--------------------------------------------------------------------------------
(* Calls, frames and connection states                                          *)

Idle(t) == at[t] = "ready" /\ todo[t] = <<>>

\* A caller enters the API with a call.
Enter(u, call) ==
  /\ Idle(u) /\ calls < MaxCalls
  /\ calls' = calls + 1
  /\ todo' = [todo EXCEPT ![u] = call]
  /\ UNCHANGED <<data, at, posts, link, turns, reading>>

Call(u) == \E c \in Calls : Enter(u, c)

\* What is asked of each setting once a command is sent.
Asking(c) ==
  IF c.setting = Connection THEN asked
  ELSE IF c.wanted = Open THEN [s \in DOMAIN asked \ {c.setting} |-> asked[s]]
  ELSE [s \in DOMAIN asked \cup {c.setting} |->
          IF s = c.setting THEN c.wanted ELSE asked[s]]

\* sendCat(), after the test of isConnected().
Transmit(t) ==
  /\ at[t] = "ready" /\ todo[t] # <<>> /\ Head(todo[t]).does = "send"
  /\ Finish(t)
  /\ LET c == Head(todo[t]) IN
       IF up THEN /\ toRadio' = Append(toRadio, [name |-> c.name, value |-> c.value])
                  /\ asked' = Asking(c)
             ELSE UNCHANGED <<toRadio, asked>>
  /\ UNCHANGED <<data, at, posts, up, frames, radio, told, others>>

\* onProtocolFrame(): a CAT response is parsed, a spectrum sets the number of bins (and
\* then takes m_cbMutex for a moment, alone, as audio does).
Dispatch(c) == IF c.name = "spectrum" THEN <<SetBinCount(c.value)>> ELSE Parse(c)

Receive ==
  /\ reading /\ Idle(Reader) /\ up /\ frames # <<>>
  /\ todo' = [todo EXCEPT ![Reader] = Dispatch(Head(frames))]
  /\ frames' = Tail(frames)
  /\ UNCHANGED <<data, at, posts, up, toRadio, radio, told, asked, others>>

\* notifyConnectionState(): lock m_cbMutex, call the connection callback, and go on
\* to RadioState with the lock held.
NotifyConnectionState(status, attempts) ==
  /\ Idle(Reader) /\ ~CbLocked
  /\ posts' = Append(posts, [kind |-> "connection", of |-> <<status, attempts>>])
  /\ todo' = [todo EXCEPT ![Reader] = <<SetConnectionState(status, attempts)>>]
  /\ Move(Reader, "notified")
  /\ UNCHANGED data

StoreConnectionState ==
  /\ at[Reader] = "notified" /\ ~StateLocked
  /\ data' = Assigned(Head(todo[Reader]).to)
  /\ Move(Reader, "relock")
  /\ UNCHANGED <<todo, posts, link, others>>

\* The change callback of the setter locks m_cbMutex, which this thread holds.
Relock ==
  /\ at[Reader] = "relock" /\ ~RelockBlocks
  /\ posts' = Append(posts, [kind |-> "key", of |-> Connection])
  /\ Finish(Reader) /\ Move(Reader, "ready")
  /\ UNCHANGED <<data, link, others>>

\* The stream ends, and the read thread with it; what was on its way is lost.
Lose ==
  /\ reading /\ up
  /\ NotifyConnectionState("RECONNECTING", 0)
  /\ up' = FALSE /\ reading' = FALSE
  /\ toRadio' = <<>> /\ frames' = <<>> /\ told' = {} /\ asked' = <<>>
  /\ UNCHANGED <<radio, calls, turns>>

Retry ==
  /\ ~up /\ data[Connection] = <<"RECONNECTING", 0>>
  /\ NotifyConnectionState("RECONNECTING", 1)
  /\ UNCHANGED <<link, others>>

\* No state is asked of the radio, and startReadLoop() starts no thread: nothing that
\* the radio sends is received any more, and no second loss is noticed.
Redialled ==
  /\ ~up /\ NotifyConnectionState("CONNECTED", 0)
  /\ up' = TRUE
  /\ UNCHANGED <<toRadio, frames, radio, told, asked, others>>

\* The application is connected, and has been told so.
ControlInit ==
  /\ StateInit([Constructed EXCEPT ![Connection] = <<"CONNECTED", 0>>])
  /\ up = TRUE /\ toRadio = <<>> /\ frames = <<>> /\ radio = RadioInit
  /\ told = {} /\ asked = <<>>
  /\ reading = TRUE /\ calls = 0 /\ turns = 0

ThreadStep(t) ==
  \/ (Apply(t) \/ Callback(t)) /\ UNCHANGED <<link, others>>
  \/ Transmit(t)

Environment == RadioTakes \/ RadioTurns \/ RadioMumbles \/ Lose

ReaderStep == ThreadStep(Reader) \/ Receive \/ StoreConnectionState \/ Relock \/ Retry \/ Redialled
================================================================================
