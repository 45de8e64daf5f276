----------------------------- MODULE PilotSwitch -----------------------------
(***************************************************************************)
(* The firmware of the FCCI: who flies, the pilot's receiver or the        *)
(* computer, is decided by the width of a pulse on one input pin.          *)
(*                                                                         *)
(*   pins    the receiver, which drives the input pins; each edge raises   *)
(*           one of two pin change interrupts, which share a time stamp    *)
(*   loop    loop(), which polls the flags of the interrupts, reads the    *)
(*           pins, measures the pulses, and every 20 ms sets the switch    *)
(*                                                                         *)
(* A time is written as its age, the time since then, so that it grows     *)
(* with the clock; it wraps like the code's 16-bit differences do.  The    *)
(* stamp has several bytes, is not protected, and is loaded byte by byte.  *)
(* Of the slow part of loop() the switch is kept, and that the storage of  *)
(* the rudder's channel is given to the heap.  The firmware modelled gets  *)
(* no channels from the computer, which sends none: with channels,         *)
(* firmware.ino:155 would copy 32 bytes into a block of 8, and what lies   *)
(* behind that block, channel_pilot perhaps, is not modelled.              *)
(***************************************************************************)
EXTENDS Integers

CONSTANTS
  Pins,          \* input pins
  Port,          \* Port[p]: the interrupt of a pin, 0 for PCINT1, 1 for PCINT2
  Mode,          \* in_6_mode
  Rudder,        \* in_1_rud, if it is one of the pins
  Pulses,        \* Pulses[p]: the widths of its pulses
  Pause,         \* the least time between two pulses of a pin
  Threshold,     \* 1500
  Interval,      \* 20 ms
  Turn,          \* the longest time a turn of loop() takes
  Byte,          \* values of a byte: 256
  Wrap           \* values of an int: 65536

\* What n torn stamps, made of bytes of two times, put a width off by.
Slack(n) == n * (Byte - 1)

\* What a width may differ by at worst: each edge is seen up to two turns late,
\* and both stamps are torn.
Tolerance == 2 * Turn + Slack(2)

ASSUME PilotAssumption ==
  /\ Port \in [Pins -> {0, 1}]
  /\ Mode \in Pins /\ Mode # Rudder
  /\ Turn \in Nat \ {0} /\ Byte \in Nat \ {0} /\ Wrap \in Nat
  /\ Threshold \in 0 .. Wrap - 1 /\ Interval \in Nat
  /\ Pulses \in [Pins -> SUBSET Nat]
  /\ \A p \in Pins : Pulses[p] # {}
  /\ \A p \in Pins : \A w \in Pulses[p] : Tolerance < w /\ w + Tolerance + Byte < Wrap
  /\ Pause \in Nat /\ 2 * Turn < Pause /\ 2 * Turn + 1 + Byte <= Wrap

VARIABLES
  level,              \* of each pin
  age,                \* the time since its last edge; Pause stands for more
  pulse,              \* history: the width of its last pulse, 0 for none
  current_irq_micros, pc_int,
  place, port, todo, pin,
                      \* where loop() is: the port, the pins still to be
                      \* tested, the pin that is being tested
  seen,               \* the stamp when its load began
  turn,               \* the time this turn of loop() has taken
  active_interrupts, time_in, channel_pilot,
  preMillis0, out_switch,
  torn_in,            \* history: whether time_in is of a torn stamp, 0 or 1
  torn                \* history: how many of the stamps of a width were torn

pinVars   == <<level, age, pulse>>
irqVars   == <<current_irq_micros, pc_int>>
placeVars == <<place, port, todo, pin, turn>>
widthVars == <<active_interrupts, time_in, channel_pilot>>
cycleVars == <<preMillis0, out_switch>>
tornVars  == <<torn_in, torn>>
vars == <<pinVars, irqVars, placeVars, seen, widthVars, cycleVars, tornVars>>

\* Ages of stored times.  One made of bytes of two times may lie ahead.
Ages == 1 - Byte .. Wrap - Byte
Older(a) == IF a = Wrap - Byte THEN 1 - Byte ELSE a + 1

\* The stamp is read only while a flag is set, which is within two turns.
Stale == 2 * Turn + 1
StampOlder(a) == IF a = Stale THEN a ELSE a + 1

On(q) == {p \in Pins : Port[p] = q}
-----------------------------------------------------------------------------
(* Time and the pins. *)

\* A turn of loop() and a pulse do not last for ever.
Tick ==
  /\ turn < Turn
  /\ \A p \in Pins : level[p] = "high" => \E w \in Pulses[p] : age[p] < w
  /\ turn' = turn + 1
  /\ age' = [p \in Pins |-> IF level[p] = "low" /\ age[p] = Pause THEN Pause ELSE age[p] + 1]
  /\ current_irq_micros' = StampOlder(current_irq_micros)
  /\ seen' = IF place \in {"rise", "fall"} THEN StampOlder(seen) ELSE 0
  /\ time_in' = [p \in Pins |-> IF p \in active_interrupts THEN Older(time_in[p]) ELSE 0]
  /\ preMillis0' = IF preMillis0 > Interval THEN preMillis0 ELSE preMillis0 + 1
  /\ UNCHANGED <<level, pulse, pc_int, place, port, todo, pin,
                 active_interrupts, channel_pilot, out_switch, tornVars>>

\* The interrupt routine of the pin's port.
Interrupt(p) ==
  /\ current_irq_micros' = 0
  /\ pc_int' = [pc_int EXCEPT ![Port[p]] = TRUE]

\* The receiver may as well fall silent: no pulse need ever come.
Rise(p) ==
  /\ level[p] = "low" /\ age[p] = Pause
  /\ level' = [level EXCEPT ![p] = "high"]
  /\ age' = [age EXCEPT ![p] = 0]
  /\ Interrupt(p)
  /\ UNCHANGED <<pulse, placeVars, seen, widthVars, cycleVars, tornVars>>

Fall(p) ==
  /\ level[p] = "high" /\ age[p] \in Pulses[p]
  /\ level' = [level EXCEPT ![p] = "low"]
  /\ age' = [age EXCEPT ![p] = 0]
  /\ pulse' = [pulse EXCEPT ![p] = age[p]]
  /\ Interrupt(p)
  /\ UNCHANGED <<placeVars, seen, widthVars, cycleVars, tornVars>>
-----------------------------------------------------------------------------
(* loop(). *)

\* Mutant of Cycle: the switch is never given back to the receiver.
CycleForgets ==
  /\ place = "top" /\ preMillis0 > Interval
  /\ out_switch' = IF Threshold < channel_pilot[Mode] THEN out_switch ELSE "uC"
  /\ preMillis0' = 0
  /\ place' = "flag"
  /\ UNCHANGED <<pinVars, irqVars, port, todo, pin, turn, seen, widthVars, tornVars>>

\* Every 20 ms.  set_channels() takes its argument by value and frees the
\* storage of the original with it: the heap's list then lies in its first
\* channel, the rudder, for which 0 stands.  new_channels() is false.
Cycle ==
  /\ place = "top" /\ preMillis0 > Interval
  /\ out_switch' = IF Threshold < channel_pilot[Mode] THEN "receiver" ELSE "uC"
  /\ preMillis0' = 0
  /\ channel_pilot' = [p \in Pins |-> IF p = Rudder THEN 0 ELSE channel_pilot[p]]
  /\ torn' = [p \in Pins |-> IF p = Rudder THEN 0 ELSE torn[p]]
  /\ place' = "flag"
  /\ UNCHANGED <<pinVars, irqVars, port, todo, pin, turn, seen, active_interrupts, time_in,
                 torn_in>>

NoCycle ==
  /\ place = "top" /\ preMillis0 <= Interval
  /\ place' = "flag"
  /\ UNCHANGED <<pinVars, irqVars, port, todo, pin, turn, seen, widthVars, cycleVars, tornVars>>

\* No pin is being tested; Mode stands for none.
NextPort ==
  /\ pin' = Mode
  /\ IF port = 0
     THEN place' = "flag" /\ port' = 1 /\ turn' = turn
     ELSE place' = "top" /\ port' = 0 /\ turn' = 0

\* if(pc_int0), if(pc_int1)
Flagged ==
  /\ place = "flag" /\ pc_int[port]
  /\ place' = "pins"
  /\ todo' = On(port)
  /\ UNCHANGED <<pinVars, irqVars, port, pin, turn, seen, widthVars, cycleVars, tornVars>>

NotFlagged ==
  /\ place = "flag" /\ ~pc_int[port]
  /\ NextPort
  /\ UNCHANGED <<pinVars, irqVars, todo, seen, widthVars, cycleVars, tornVars>>

\* The first digitalRead() of a pin.  The pins of a port are tested in a fixed
\* order, of which nothing is assumed.
TestHigh(p) ==
  /\ place = "pins" /\ p \in todo
  /\ todo' = todo \ {p}
  /\ pin' = p
  /\ IF level[p] = "high" /\ p \notin active_interrupts
     THEN place' = "rise" /\ seen' = current_irq_micros
     ELSE place' = "low" /\ seen' = seen
  /\ UNCHANGED <<pinVars, irqVars, port, turn, widthVars, cycleVars, tornVars>>

\* The stamp as loaded.  If an interrupt has come meanwhile it is torn: some of
\* its bytes are of the new time.
Near(t) == {a \in Ages : t - Byte < a /\ a < t + Byte}
Tears == IF seen = current_irq_micros THEN 0 ELSE 1
Loaded == IF Tears = 0 THEN {seen} ELSE Near(seen) \union Near(current_irq_micros)

StoreRise ==
  /\ place = "rise"
  /\ \E a \in Loaded : time_in' = [time_in EXCEPT ![pin] = a]
  /\ active_interrupts' = active_interrupts \union {pin}
  /\ torn_in' = [torn_in EXCEPT ![pin] = Tears]
  /\ place' = "low" /\ seen' = 0
  /\ UNCHANGED <<pinVars, irqVars, port, todo, pin, turn, channel_pilot, cycleVars, torn>>

\* The second digitalRead().
TestLow ==
  /\ place = "low"
  /\ IF level[pin] = "low" /\ pin \in active_interrupts
     THEN place' = "fall" /\ seen' = current_irq_micros
     ELSE place' = "pins" /\ seen' = seen
  /\ UNCHANGED <<pinVars, irqVars, port, todo, pin, turn, widthVars, cycleVars, tornVars>>

\* Mutant of Width: the wrong way round, and signed.
WidthReversed(d) == -d

\* A difference of times, as an unsigned int.
Width(d) == IF d < 0 THEN d + Wrap ELSE IF d >= Wrap THEN d - Wrap ELSE d

\* Of a pin that is not active nobody reads time_in: 0 stands for any.
StoreWidth ==
  /\ place = "fall"
  /\ \E a \in Loaded :
       channel_pilot' = [channel_pilot EXCEPT ![pin] = Width(time_in[pin] - a)]
  /\ active_interrupts' = active_interrupts \ {pin}
  /\ time_in' = [time_in EXCEPT ![pin] = 0]
  /\ torn' = [torn EXCEPT ![pin] = torn_in[pin] + Tears]
  /\ torn_in' = [torn_in EXCEPT ![pin] = 0]
  /\ place' = "pins" /\ seen' = 0
  /\ UNCHANGED <<pinVars, irqVars, port, todo, pin, turn, cycleVars>>

\* Mutant of ClearFlag: both blocks clear both flags.
ClearFlags ==
  /\ place = "pins" /\ todo = {}
  /\ pc_int' = [q \in {0, 1} |-> FALSE]
  /\ NextPort
  /\ UNCHANGED <<pinVars, current_irq_micros, todo, seen, widthVars, cycleVars, tornVars>>

\* An edge since its pin has been read is forgotten with this.
ClearFlag ==
  /\ place = "pins" /\ todo = {}
  /\ pc_int' = [pc_int EXCEPT ![port] = FALSE]
  /\ NextPort
  /\ UNCHANGED <<pinVars, current_irq_micros, todo, seen, widthVars, cycleVars, tornVars>>
-----------------------------------------------------------------------------
\* The channels are not initialised.
Init ==
  /\ level = [p \in Pins |-> "low"] /\ age = [p \in Pins |-> Pause]
  /\ pulse = [p \in Pins |-> 0]
  /\ current_irq_micros = 0 /\ pc_int = [q \in {0, 1} |-> FALSE]
  /\ place = "top" /\ port = 0 /\ todo = {} /\ pin = Mode
  /\ seen = 0 /\ turn = 0
  /\ active_interrupts = {} /\ time_in = [p \in Pins |-> 0]
  /\ channel_pilot \in [Pins -> {0, Wrap - 1}]
  /\ preMillis0 = 0 /\ out_switch = "uC"
  /\ torn_in = [p \in Pins |-> 0] /\ torn = [p \in Pins |-> 0]

Edge(p) == Rise(p) \/ Fall(p)

Measure == (\E p \in Pins : TestHigh(p)) \/ StoreRise \/ TestLow \/ StoreWidth

Loop == Cycle \/ NoCycle \/ Flagged \/ NotFlagged \/ Measure \/ ClearFlag

Next == Tick \/ (\E p \in Pins : Edge(p)) \/ Loop

Spec == Init /\ [][Next]_vars

\* Time passes, pulses end, the processor runs.
FairSpec ==
  /\ Spec
  /\ WF_vars(Tick) /\ WF_vars(Loop)
  /\ \A p \in Pins : WF_vars(Fall(p))
-----------------------------------------------------------------------------
TypeOK ==
  /\ level \in [Pins -> {"low", "high"}]
  /\ age \in [Pins -> Nat] /\ pulse \in [Pins -> Nat]
  /\ \A p \in Pins : pulse[p] \in {0} \union Pulses[p]
  /\ \A p \in Pins : IF level[p] = "low" THEN age[p] <= Pause
                                         ELSE \E w \in Pulses[p] : age[p] <= w
  /\ current_irq_micros \in 0 .. Stale /\ seen \in 0 .. Stale
  /\ pc_int \in [{0, 1} -> BOOLEAN]
  /\ place \in {"top", "flag", "pins", "rise", "low", "fall"}
  /\ port \in {0, 1} /\ todo \subseteq Pins /\ pin \in Pins
  /\ turn \in 0 .. Turn
  /\ active_interrupts \subseteq Pins /\ time_in \in [Pins -> Ages]
  /\ channel_pilot \in [Pins -> 0 .. Wrap - 1]
  /\ preMillis0 \in 0 .. Interval + 1
  /\ out_switch \in {"receiver", "uC"}
  /\ torn_in \in [Pins -> 0 .. 1] /\ torn \in [Pins -> 0 .. 2]

\* What the width last measured of a pin may be off by.
Error(p) == 2 * Turn + Slack(torn[p])

Close(p) ==
  /\ channel_pilot[p] - pulse[p] <= Error(p)
  /\ pulse[p] - channel_pilot[p] <= Error(p)

\* The fall of the last pulse has been handled.
Measured(p) == pulse[p] # 0 /\ ~(level[p] = "low" /\ p \in active_interrupts)

Alone(p) == \A r \in Pins : Port[r] = Port[p] => r = p

\* The width measured of a pin that has its interrupt for itself is, but for
\* two turns, that of its last pulse, although the stamp is shared; only an
\* interrupt within the load of a stamp puts it off by more.
WidthIsTrue ==
  \A p \in Pins \ {Rudder} : Alone(p) /\ Measured(p) => Close(p)

\* The same for pins that share an interrupt, once its flag is clear: the
\* comment at firmware.ino:180-181 describes the two steps as if no edge were
\* missed.
EveryWidthIsTrue ==
  \A p \in Pins \ {Rudder} : Measured(p) /\ ~pc_int[Port[p]] => Close(p)

\* No edge of such a pin waits for longer than two turns of loop(), however the
\* other pins keep the loop busy: then active_interrupts knows the level, so
\* that the fall of every pulse is measured before the next pulse begins.
NoEdgeWaits ==
  \A p \in Pins :
    Alone(p) /\ age[p] > 2 * Turn => (level[p] = "high" <=> p \in active_interrupts)

\* Every 20 ms the switch goes where the last pulse of the mode's pin says, and
\* stays there when it is there already: for every pulse further from 1500 than
\* two turns, if neither of its stamps was torn.  A torn stamp is off by up to
\* 255 us, and the switch may then go the wrong way for a pulse of 1900 us.
SwitchObeysPulse ==
  [][Cycle /\ Alone(Mode) /\ Measured(Mode) =>
       /\ pulse[Mode] > Threshold + Error(Mode) => out_switch' = "receiver"
       /\ pulse[Mode] <= Threshold - Error(Mode) => out_switch' = "uC"]_vars

\* The pilot who asks for control by pulses that are long enough gets it and
\* keeps it, whatever the other channels do; also when the receiver falls
\* silent after such a pulse.  Long enough is two turns above 1500, and more
\* only after a torn stamp.
PilotTakesOver ==
  Alone(Mode) /\ <>[](pulse[Mode] > Threshold + Error(Mode)) => <>[](out_switch = "receiver")
=============================================================================
