-------------------------- MODULE PilotSwitchProofs --------------------------
(***************************************************************************)
(* Theorems about PilotSwitch, for any pins, pulses and bounds of time     *)
(* that PilotAssumption allows.                                            *)
(*                                                                         *)
(* The argument is about a pin that has its interrupt for itself.  Its     *)
(* flag is handled by the end of the next turn, sooner than its next edge  *)
(* can come (FlagInv); so no edge is missed, and of each edge the time     *)
(* stored is that of a stamp set since (ValueInv).                         *)
(***************************************************************************)
EXTENDS PilotSwitch, TLAPS

InBlock == place \in {"pins", "rise", "low", "fall"}

LoopInv ==
  /\ place = "top" => port = 0
  /\ InBlock => todo \subseteq On(port)
  /\ place \in {"rise", "low", "fall"} => pin \in On(port) /\ pin \notin todo

\* An edge that active_interrupts does not know of yet.
Pending(p) == (level[p] = "high") # (p \in active_interrupts)

FlagInv(p) ==
  /\ Pending(p) => pc_int[Port[p]]
  /\ pc_int[Port[p]] =>
       /\ age[p] <= turn + (IF port <= Port[p] THEN Turn ELSE 0)
       /\ current_irq_micros <= age[p]
  /\ InBlock /\ port = Port[p] =>
       /\ pc_int[port]
       /\ place = "pins" /\ p \notin todo => ~Pending(p)
       /\ place = "rise" => level[p] = "high" /\ p \notin active_interrupts /\ seen <= age[p]
       /\ place = "low" /\ level[p] = "high" => p \in active_interrupts
       /\ place = "fall" => level[p] = "low" /\ p \in active_interrupts /\ seen <= age[p]

\* The stored time a of an edge that is t old, of n torn stamps.
Stored(a, t, n) == t - 2 * Turn - Slack(n) <= a /\ a <= t + Slack(n)

ValueInv(p) ==
  /\ p \in active_interrupts /\ level[p] = "high" => Stored(time_in[p], age[p], torn_in[p])
  /\ p \in active_interrupts /\ level[p] = "low" =>
       pulse[p] \in Pulses[p] /\ Stored(time_in[p], pulse[p] + age[p], torn_in[p])
  /\ p # Rudder /\ Measured(p) => Close(p)

PilotInv ==
  /\ TypeOK /\ LoopInv
  /\ \A p \in Pins : Alone(p) => FlagInv(p) /\ ValueInv(p)

LEMMA Bounds ==
  /\ Turn \in Nat /\ Turn > 0 /\ Byte \in Nat /\ Byte > 0 /\ Wrap \in Nat
  /\ Pause \in Nat /\ 2 * Turn < Pause /\ 2 * Turn + 1 + Byte <= Wrap
  /\ Slack(0) = 0 /\ Slack(1) = Byte - 1 /\ Slack(2) = 2 * (Byte - 1)
  /\ Tolerance \in Nat /\ Tolerance = 2 * Turn + Slack(2)
  /\ Stale \in Nat /\ Stale = 2 * Turn + 1
  /\ Interval \in Nat /\ Threshold \in Int
  /\ Ages \subseteq Int /\ 0 \in Ages
BY PilotAssumption DEF Slack, Tolerance, Stale, Ages

LEMMA PulseBounds ==
  ASSUME NEW p \in Pins, NEW w \in Pulses[p]
  PROVE  w \in Nat /\ Tolerance < w /\ w + Tolerance + Byte < Wrap
BY PilotAssumption

LEMMA OlderType ==
  ASSUME NEW a \in Ages
  PROVE  Older(a) \in Ages
BY Bounds DEF Ages, Older

LEMMA WidthType ==
  ASSUME NEW a \in Ages, NEW b \in Ages
  PROVE  Width(a - b) \in 0 .. Wrap - 1
<1>1. a \in Int /\ b \in Int /\ a - b < Wrap /\ b - a < Wrap
  BY Bounds DEF Ages
<1> QED BY <1>1, Bounds DEF Width

\* Slack only matters for what it is of 0, 1 and 2.
LEMMA SlackSum ==
  ASSUME NEW m \in 0 .. 1, NEW n \in 0 .. 1
  PROVE  /\ m + n \in 0 .. 2 /\ Slack(m) \in Nat /\ Slack(n) \in Nat
         /\ Slack(m + n) = Slack(m) + Slack(n)
         /\ Slack(m) <= Byte - 1 /\ Slack(m + n) <= Slack(2)
<1>1. (m = 0 \/ m = 1) /\ (n = 0 \/ n = 1)
  OBVIOUS
<1>2. 0 + 0 = 0 /\ 0 + 1 = 1 /\ 1 + 0 = 1 /\ 1 + 1 = 2
  OBVIOUS
<1> QED BY <1>1, <1>2, Bounds

\* What is loaded is an age that the stamp has had, or less than a byte away.
LEMMA LoadedBounds ==
  ASSUME seen \in 0 .. Stale, current_irq_micros \in 0 .. Stale, NEW a \in Loaded
  PROVE  /\ a \in Ages /\ Tears \in 0 .. 1
         /\ \A t \in Nat : seen <= t /\ current_irq_micros <= t =>
              a <= t + Slack(Tears) /\ -Slack(Tears) <= a
<1>1. CASE seen = current_irq_micros
  <2>1. a = seen /\ Tears = 0
    BY <1>1 DEF Loaded, Tears
  <2> QED BY <2>1, Bounds DEF Ages
<1>2. CASE seen # current_irq_micros
  <2>1. Tears = 1
    BY <1>2 DEF Tears
  <2>2. a \in Near(seen) \/ a \in Near(current_irq_micros)
    BY <2>1 DEF Loaded
  <2> QED BY <2>1, <2>2, Bounds DEF Near, Ages
<1> QED BY <1>1, <1>2

LEMMA PilotInit == Init => PilotInv
<1> SUFFICES ASSUME Init PROVE PilotInv
  OBVIOUS
<1>1. TypeOK
  BY Bounds, PilotAssumption DEF Init, TypeOK
<1>2. LoopInv
  BY DEF Init, LoopInv, InBlock
<1>3. ASSUME NEW p \in Pins
      PROVE  FlagInv(p) /\ ValueInv(p)
  <2>1. Port[p] \in {0, 1}
    BY PilotAssumption
  <2> QED BY <2>1 DEF Init, FlagInv, ValueInv, Pending, InBlock, Measured
<1> QED BY <1>1, <1>2, <1>3 DEF PilotInv
-----------------------------------------------------------------------------
(* Types and the loop's place. *)

LEMMA TickType == TypeOK /\ Tick => TypeOK'
<1> SUFFICES ASSUME TypeOK, Tick PROVE TypeOK'
  OBVIOUS
<1>1. age' \in [Pins -> Nat]
  BY Bounds DEF TypeOK, Tick
<1>2. ASSUME NEW p \in Pins
      PROVE  IF level'[p] = "low" THEN age'[p] <= Pause
                                  ELSE \E w \in Pulses[p] : age'[p] <= w
  <2>1. CASE level[p] = "low"
    BY <2>1, Bounds DEF TypeOK, Tick
  <2>2. CASE level[p] # "low"
    <3>1. level[p] = "high" /\ age[p] \in Nat
      BY <2>2 DEF TypeOK
    <3>2. PICK w \in Pulses[p] : age[p] < w
      BY <3>1 DEF Tick
    <3>3. age'[p] = age[p] + 1 /\ level'[p] = "high"
      BY <3>1 DEF Tick
    <3> QED BY <3>1, <3>2, <3>3, PulseBounds
  <2> QED BY <2>1, <2>2
<1>3. time_in' \in [Pins -> Ages]
  BY OlderType, Bounds DEF TypeOK, Tick
<1>4. current_irq_micros' \in 0 .. Stale /\ seen' \in 0 .. Stale
  BY Bounds DEF TypeOK, Tick, StampOlder
<1>5. turn' \in 0 .. Turn /\ preMillis0' \in 0 .. Interval + 1
  BY Bounds DEF TypeOK, Tick
<1>6. UNCHANGED <<level, pulse, pc_int, place, port, todo, pin,
                  active_interrupts, channel_pilot, out_switch, tornVars>>
  BY DEF Tick
<1> QED BY <1>1, <1>2, <1>3, <1>4, <1>5, <1>6 DEF TypeOK, tornVars

LEMMA EdgeType ==
  ASSUME TypeOK, NEW p \in Pins, Edge(p)
  PROVE  TypeOK'
<1>1. Port[p] \in {0, 1}
  BY PilotAssumption
<1>2. CASE Rise(p)
  <2>1. PICK w \in Pulses[p] : w \in Nat
    BY PilotAssumption
  <2>2. age' \in [Pins -> Nat] /\ level' \in [Pins -> {"low", "high"}]
    BY <1>2 DEF Rise, TypeOK
  <2>3. \A r \in Pins : IF level'[r] = "low" THEN age'[r] <= Pause
                                             ELSE \E v \in Pulses[r] : age'[r] <= v
    BY <1>2, <2>1 DEF Rise, TypeOK
  <2> QED BY <1>1, <1>2, <2>2, <2>3, Bounds
        DEF Rise, Interrupt, TypeOK, placeVars, widthVars, cycleVars, tornVars
<1>3. CASE Fall(p)
  <2>1. age' \in [Pins -> Nat] /\ level' \in [Pins -> {"low", "high"}]
    BY <1>3 DEF Fall, TypeOK
  <2>2. \A r \in Pins : IF level'[r] = "low" THEN age'[r] <= Pause
                                             ELSE \E v \in Pulses[r] : age'[r] <= v
    BY <1>3, Bounds DEF Fall, TypeOK
  <2>3. pulse' \in [Pins -> Nat] /\ \A r \in Pins : pulse'[r] \in {0} \union Pulses[r]
    BY <1>3 DEF Fall, TypeOK
  <2> QED BY <1>1, <1>3, <2>1, <2>2, <2>3, Bounds
        DEF Fall, Interrupt, TypeOK, placeVars, widthVars, cycleVars, tornVars
<1> QED BY <1>2, <1>3 DEF Edge

LEMMA LoopType == TypeOK /\ Loop => TypeOK'
<1> SUFFICES ASSUME TypeOK, Loop PROVE TypeOK'
  OBVIOUS
<1> USE DEF TypeOK, pinVars, irqVars, placeVars, widthVars, cycleVars, tornVars
<1>1. CASE Cycle
  BY <1>1, Bounds, PilotAssumption DEF Cycle
<1>2. CASE NoCycle
  BY <1>2 DEF NoCycle
<1>3. CASE Flagged
  BY <1>3 DEF Flagged, On
<1>4. CASE NotFlagged
  BY <1>4, Bounds, PilotAssumption DEF NotFlagged, NextPort
<1>5. ASSUME NEW p \in Pins, TestHigh(p) PROVE TypeOK'
  BY <1>5 DEF TestHigh
<1>6. CASE StoreRise
  <2>1. PICK a \in Loaded : time_in' = [time_in EXCEPT ![pin] = a]
    BY <1>6 DEF StoreRise
  <2>2. time_in' \in [Pins -> Ages]
    BY <2>1, LoadedBounds
  <2>3. torn_in' \in [Pins -> 0 .. 1]
    BY <1>6 DEF StoreRise, Tears
  <2> QED BY <1>6, <2>2, <2>3, Bounds DEF StoreRise
<1>7. CASE TestLow
  BY <1>7 DEF TestLow
<1>8. CASE StoreWidth
  <2>1. PICK a \in Loaded :
          channel_pilot' = [channel_pilot EXCEPT ![pin] = Width(time_in[pin] - a)]
    BY <1>8 DEF StoreWidth
  <2>2. Width(time_in[pin] - a) \in 0 .. Wrap - 1
    BY LoadedBounds, WidthType
  <2>3. channel_pilot' \in [Pins -> 0 .. Wrap - 1]
    BY <2>1, <2>2
  <2>4. time_in' \in [Pins -> Ages]
    BY <1>8, Bounds DEF StoreWidth
  <2>5. torn' \in [Pins -> 0 .. 2] /\ torn_in' \in [Pins -> 0 .. 1]
    <3>1. torn_in[pin] \in 0 .. 1 /\ Tears \in 0 .. 1
      BY DEF Tears
    <3>2. torn_in[pin] + Tears \in 0 .. 2
      BY <3>1
    <3> QED BY <1>8, <3>2 DEF StoreWidth
  <2> QED BY <1>8, <2>3, <2>4, <2>5, Bounds DEF StoreWidth
<1>9. CASE ClearFlag
  BY <1>9, Bounds, PilotAssumption DEF ClearFlag, NextPort
<1> QED BY <1>1, <1>2, <1>3, <1>4, <1>5, <1>6, <1>7, <1>8, <1>9 DEF Loop, Measure

LEMMA LoopInvStep == TypeOK /\ LoopInv /\ [Next]_vars => LoopInv'
<1> SUFFICES ASSUME TypeOK, LoopInv, [Next]_vars PROVE LoopInv'
  OBVIOUS
<1> USE DEF LoopInv, InBlock, placeVars
<1>1. CASE Tick
  BY <1>1 DEF Tick
<1>2. ASSUME NEW p \in Pins, Edge(p) PROVE LoopInv'
  BY <1>2 DEF Edge, Rise, Fall
<1>3. CASE Loop
  <2>1. CASE Cycle
    BY <2>1 DEF Cycle
  <2>2. CASE NoCycle
    BY <2>2 DEF NoCycle
  <2>3. CASE Flagged
    BY <2>3 DEF Flagged
  <2>4. CASE NotFlagged
    BY <2>4 DEF NotFlagged, NextPort
  <2>5. ASSUME NEW p \in Pins, TestHigh(p) PROVE LoopInv'
    BY <2>5 DEF TestHigh
  <2>6. CASE StoreRise
    BY <2>6 DEF StoreRise
  <2>7. CASE TestLow
    BY <2>7 DEF TestLow
  <2>8. CASE StoreWidth
    BY <2>8 DEF StoreWidth
  <2>9. CASE ClearFlag
    BY <2>9 DEF ClearFlag, NextPort
  <2> QED BY <1>3, <2>1, <2>2, <2>3, <2>4, <2>5, <2>6, <2>7, <2>8, <2>9 DEF Loop, Measure
<1>4. CASE UNCHANGED vars
  BY <1>4 DEF vars
<1> QED BY <1>1, <1>2, <1>3, <1>4 DEF Next
-----------------------------------------------------------------------------
(* A pin that has its interrupt for itself. *)

\* While the flag is set the last edge is younger than any pulse or pause.
LEMMA FlagIsYoung ==
  ASSUME TypeOK, NEW p \in Pins, FlagInv(p), pc_int[Port[p]]
  PROVE  /\ age[p] \in Nat /\ age[p] <= 2 * Turn /\ age[p] < Pause
         /\ current_irq_micros <= age[p]
         /\ \A w \in Pulses[p] : age[p] < w
<1>1. age[p] \in Nat /\ age[p] <= 2 * Turn
  BY Bounds DEF FlagInv, TypeOK
<1>2. \A w \in Pulses[p] : w \in Nat /\ 2 * Turn < w
  BY PulseBounds, Bounds
<1> QED BY <1>1, <1>2, Bounds DEF FlagInv

\* So no edge comes while the flag is set, and outside it nothing is pending.
LEMMA NoEdgeIsMissed ==
  ASSUME TypeOK, NEW p \in Pins, FlagInv(p), Edge(p)
  PROVE  ~pc_int[Port[p]] /\ ~Pending(p)
<1>1. CASE pc_int[Port[p]]
  BY <1>1, FlagIsYoung DEF Edge, Rise, Fall
<1>2. CASE ~pc_int[Port[p]]
  BY <1>2 DEF FlagInv
<1> QED BY <1>1, <1>2

LEMMA FlagTick ==
  ASSUME TypeOK, NEW p \in Pins, FlagInv(p), Tick
  PROVE  FlagInv(p)'
<1>1. UNCHANGED <<level, pc_int, place, port, todo, pin, active_interrupts>>
  BY DEF Tick
<1>2. turn \in Nat /\ turn' = turn + 1
  BY Bounds DEF TypeOK, Tick
<1>3. CASE pc_int[Port[p]]
  <2>1. age'[p] = age[p] + 1 /\ age[p] \in Nat /\ age[p] <= 2 * Turn
    BY <1>3, FlagIsYoung, Bounds DEF Tick
  <2>2. current_irq_micros' <= age'[p]
    BY <1>3, <2>1, FlagIsYoung, Bounds DEF Tick, StampOlder, TypeOK
  <2>3. place \in {"rise", "fall"} /\ seen <= age[p] => seen' <= age'[p]
    BY <2>1, Bounds DEF Tick, StampOlder, TypeOK
  <2>4. age'[p] <= turn' + (IF port <= Port[p] THEN Turn ELSE 0)
    BY <1>2, <1>3, <2>1, Bounds DEF FlagInv
  <2> QED BY <1>1, <1>3, <2>2, <2>3, <2>4 DEF FlagInv, Pending, InBlock
<1>4. CASE ~pc_int[Port[p]]
  BY <1>1, <1>4 DEF FlagInv, Pending, InBlock
<1> QED BY <1>3, <1>4

LEMMA FlagEdge ==
  ASSUME TypeOK, NEW p \in Pins, Alone(p), FlagInv(p), NEW r \in Pins, Edge(r)
  PROVE  FlagInv(p)'
<1>1. /\ UNCHANGED <<place, port, todo, pin, turn, seen, active_interrupts>>
      /\ pc_int' = [pc_int EXCEPT ![Port[r]] = TRUE]
      /\ current_irq_micros' = 0
  BY DEF Edge, Rise, Fall, Interrupt, placeVars, widthVars
<1>2. Port[p] \in {0, 1} /\ Port[r] \in {0, 1}
  BY PilotAssumption
<1>3. CASE r = p
  <2>1. ~pc_int[Port[p]]
    BY <1>3, NoEdgeIsMissed
  <2>2. ~(InBlock /\ port = Port[p])
    BY <2>1 DEF FlagInv
  <2>3. age'[p] = 0 /\ pc_int'[Port[p]]
    BY <1>1, <1>2, <1>3 DEF Edge, Rise, Fall, TypeOK
  <2>4. turn \in Nat /\ port \in {0, 1}
    BY Bounds DEF TypeOK
  <2> QED BY <1>1, <1>2, <2>2, <2>3, <2>4, Bounds DEF FlagInv, InBlock
<1>4. CASE r # p
  <2>1. Port[r] # Port[p]
    BY <1>4 DEF Alone
  <2>2. level'[p] = level[p] /\ age'[p] = age[p] /\ pc_int'[Port[p]] = pc_int[Port[p]]
    BY <1>1, <1>2, <1>4, <2>1 DEF Edge, Rise, Fall, TypeOK
  <2>3. age[p] \in Nat /\ current_irq_micros \in Nat
    BY Bounds DEF TypeOK
  <2>4. /\ Pending(p)' <=> Pending(p)
        /\ InBlock' <=> InBlock
        /\ current_irq_micros' <= age'[p]
    BY <1>1, <2>2, <2>3 DEF Pending, InBlock
  <2> QED BY <1>1, <2>2, <2>4 DEF FlagInv
<1> QED BY <1>3, <1>4

\* Of an alone pin the port's block tests this pin and no other.
LEMMA OnlyPin ==
  ASSUME NEW p \in Pins, Alone(p)
  PROVE  \A q : q \in On(Port[p]) <=> q = p
BY DEF Alone, On

LEMMA FlagLoop ==
  ASSUME TypeOK, LoopInv, NEW p \in Pins, Alone(p), FlagInv(p), Loop
  PROVE  FlagInv(p)'
<1> USE DEF FlagInv, Pending, InBlock, pinVars, irqVars, placeVars, widthVars, cycleVars
<1>1. Port[p] \in {0, 1} /\ port \in {0, 1} /\ turn \in Nat /\ turn <= Turn /\ age[p] \in Nat
  BY PilotAssumption, Bounds DEF TypeOK
<1>2. CASE Cycle
  BY <1>2 DEF Cycle
<1>3. CASE NoCycle
  BY <1>3 DEF NoCycle
<1>4. CASE Flagged
  BY <1>4, OnlyPin DEF Flagged
<1>5. CASE NotFlagged
  <2>1. ~pc_int[port] /\ place' \in {"flag", "top"}
        /\ UNCHANGED <<pinVars, irqVars, seen, active_interrupts>>
    BY <1>5 DEF NotFlagged, NextPort
  <2>2. CASE port = 0
    BY <1>1, <1>5, <2>1, <2>2, Bounds DEF NotFlagged, NextPort
  <2>3. CASE port = 1
    BY <1>1, <1>5, <2>1, <2>3, Bounds DEF NotFlagged, NextPort
  <2> QED BY <1>1, <2>2, <2>3
<1>6. ASSUME NEW r \in Pins, TestHigh(r) PROVE FlagInv(p)'
  <2>1. UNCHANGED <<level, age, pc_int, current_irq_micros, port, turn, active_interrupts>>
        /\ place = "pins" /\ r \in todo
    BY <1>6 DEF TestHigh
  <2>2. port = Port[p] => r = p
    BY <2>1, OnlyPin DEF LoopInv
  <2>3. CASE port = Port[p]
    BY <1>6, <2>1, <2>2, <2>3 DEF TestHigh, TypeOK
  <2>4. CASE port # Port[p]
    BY <1>6, <2>1, <2>4 DEF TestHigh
  <2> QED BY <2>3, <2>4
<1>7. CASE StoreRise
  <2>1. port = Port[p] => pin = p
    BY <1>7, OnlyPin DEF StoreRise, LoopInv
  <2>2. port # Port[p] => pin # p
    BY <1>7 DEF StoreRise, LoopInv, On
  <2> QED BY <1>7, <2>1, <2>2 DEF StoreRise
<1>8. CASE TestLow
  <2>1. port = Port[p] => pin = p
    BY <1>8, OnlyPin DEF TestLow, LoopInv
  <2>2. UNCHANGED <<level, age, pc_int, current_irq_micros, port, turn, active_interrupts, todo, pin>>
    BY <1>8 DEF TestLow
  <2>3. CASE port = Port[p]
    BY <1>8, <2>1, <2>2, <2>3 DEF TestLow, TypeOK
  <2>4. CASE port # Port[p]
    BY <1>8, <2>2, <2>4 DEF TestLow
  <2> QED BY <2>3, <2>4
<1>9. CASE StoreWidth
  <2>1. port = Port[p] => pin = p
    BY <1>9, OnlyPin DEF StoreWidth, LoopInv
  <2>2. port # Port[p] => pin # p
    BY <1>9 DEF StoreWidth, LoopInv, On
  <2> QED BY <1>9, <2>1, <2>2 DEF StoreWidth
<1>10. CASE ClearFlag
  <2>1. /\ place' \in {"flag", "top"} /\ todo = {} /\ place = "pins"
        /\ pc_int' = [pc_int EXCEPT ![port] = FALSE]
        /\ UNCHANGED <<pinVars, current_irq_micros, seen, active_interrupts>>
    BY <1>10 DEF ClearFlag, NextPort
  <2>2. CASE port = Port[p]
    BY <1>1, <2>1, <2>2 DEF TypeOK
  <2>3. CASE port # Port[p]
    <3>1. pc_int'[Port[p]] = pc_int[Port[p]]
      BY <1>1, <2>1, <2>3 DEF TypeOK
    <3>2. CASE port = 0
      BY <1>1, <1>10, <2>1, <2>3, <3>1, <3>2, Bounds DEF ClearFlag, NextPort
    <3>3. CASE port = 1
      BY <1>1, <1>10, <2>1, <2>3, <3>1, <3>3, Bounds DEF ClearFlag, NextPort
    <3> QED BY <1>1, <3>2, <3>3
  <2> QED BY <2>2, <2>3
<1> QED BY <1>2, <1>3, <1>4, <1>5, <1>6, <1>7, <1>8, <1>9, <1>10 DEF Loop, Measure
-----------------------------------------------------------------------------
(* The times stored, and the widths. *)

LEMMA ValueTick ==
  ASSUME TypeOK, NEW p \in Pins, FlagInv(p), ValueInv(p), Tick
  PROVE  ValueInv(p)'
<1>1. UNCHANGED <<level, pulse, active_interrupts, channel_pilot, torn_in, torn>>
  BY DEF Tick, tornVars
<1>2. torn_in[p] \in 0 .. 1 /\ Slack(torn_in[p]) \in Nat /\ Slack(torn_in[p]) <= Byte - 1
  BY SlackSum DEF TypeOK
<1>3. p \in active_interrupts => time_in'[p] = Older(time_in[p])
  BY DEF Tick
<1>4. time_in[p] \in Ages /\ age[p] \in Nat
  BY DEF TypeOK
<1>5. CASE p \in active_interrupts /\ level[p] = "high"
  <2>1. PICK w \in Pulses[p] : age[p] < w
    BY <1>5 DEF Tick
  <2>2. w \in Nat /\ w + Tolerance + Byte < Wrap
    BY PulseBounds
  <2>3. time_in[p] \in Int /\ Stored(time_in[p], age[p], torn_in[p])
    BY <1>4, <1>5, Bounds DEF ValueInv
  <2>4. time_in'[p] = time_in[p] + 1
    BY <1>3, <1>4, <1>5, <2>1, <2>2, <2>3, <1>2, Bounds DEF Older, Stored
  <2>5. age'[p] = age[p] + 1
    BY <1>5 DEF Tick
  <2>6. Stored(time_in'[p], age'[p], torn_in[p])
    BY <1>4, <1>2, <2>3, <2>4, <2>5, Bounds DEF Stored
  <2> QED BY <1>1, <1>5, <2>6 DEF ValueInv, Measured, Close, Error
<1>6. CASE p \in active_interrupts /\ level[p] = "low"
  <2>1. age[p] <= 2 * Turn /\ age[p] < Pause
    BY <1>6, FlagIsYoung DEF FlagInv, Pending
  <2>2. pulse[p] \in Pulses[p] /\ pulse[p] \in Nat /\ pulse[p] + Tolerance + Byte < Wrap
    BY <1>6, PulseBounds DEF ValueInv
  <2>3. time_in[p] \in Int /\ Stored(time_in[p], pulse[p] + age[p], torn_in[p])
    BY <1>4, <1>6, Bounds DEF ValueInv
  <2>4. time_in'[p] = time_in[p] + 1
    BY <1>3, <1>4, <1>6, <2>1, <2>2, <2>3, <1>2, Bounds DEF Older, Stored
  <2>5. age'[p] = age[p] + 1
    BY <1>4, <2>1, Bounds DEF Tick
  <2>6. Stored(time_in'[p], pulse[p] + age'[p], torn_in[p])
    BY <1>4, <1>2, <2>2, <2>3, <2>4, <2>5, Bounds DEF Stored
  <2> QED BY <1>1, <1>6, <2>2, <2>6 DEF ValueInv, Measured, Close, Error
<1>7. CASE p \notin active_interrupts
  BY <1>1, <1>7 DEF ValueInv, Measured, Close, Error
<1> QED BY <1>5, <1>6, <1>7 DEF TypeOK

LEMMA ValueEdge ==
  ASSUME TypeOK, NEW p \in Pins, FlagInv(p), ValueInv(p), NEW r \in Pins, Edge(r)
  PROVE  ValueInv(p)'
<1>1. UNCHANGED <<active_interrupts, time_in, channel_pilot, torn_in, torn>>
  BY DEF Edge, Rise, Fall, widthVars, tornVars
<1>2. CASE r # p
  <2>1. level'[p] = level[p] /\ age'[p] = age[p] /\ pulse'[p] = pulse[p]
    BY <1>2 DEF Edge, Rise, Fall, TypeOK
  <2> QED BY <1>1, <2>1 DEF ValueInv, Measured, Close, Error
<1>3. CASE r = p
  <2>1. ~Pending(p)
    BY <1>3, NoEdgeIsMissed
  <2>2. CASE Rise(p)
    <3>1. level[p] = "low" /\ level'[p] = "high" /\ pulse' = pulse
      BY <2>2 DEF Rise, TypeOK
    <3>2. p \notin active_interrupts
      BY <2>1, <3>1 DEF Pending
    <3> QED BY <1>1, <3>1, <3>2 DEF ValueInv, Measured, Close, Error
  <2>3. CASE Fall(p)
    <3>1. /\ level[p] = "high" /\ level'[p] = "low"
          /\ age[p] \in Pulses[p] /\ pulse'[p] = age[p] /\ age'[p] = 0
      BY <2>3 DEF Fall, TypeOK
    <3>2. p \in active_interrupts /\ Stored(time_in[p], age[p], torn_in[p])
      BY <2>1, <3>1 DEF Pending, ValueInv
    <3>3. age[p] + 0 = age[p]
      BY DEF TypeOK
    <3> QED BY <1>1, <3>1, <3>2, <3>3 DEF ValueInv, Measured
  <2> QED BY <1>3, <2>2, <2>3 DEF Edge
<1> QED BY <1>2, <1>3

LEMMA ValueLoop ==
  ASSUME TypeOK, LoopInv, NEW p \in Pins, Alone(p), FlagInv(p), ValueInv(p), Loop
  PROVE  ValueInv(p)'
<1>1. level' = level /\ age' = age /\ pulse' = pulse
  BY DEF Loop, Cycle, NoCycle, Flagged, NotFlagged, Measure, TestHigh, StoreRise,
         TestLow, StoreWidth, ClearFlag, pinVars
<1>2. ASSUME p \in active_interrupts' <=> p \in active_interrupts,
             time_in'[p] = time_in[p],
             torn_in'[p] = torn_in[p],
             p # Rudder => channel_pilot'[p] = channel_pilot[p] /\ torn'[p] = torn[p]
      PROVE  ValueInv(p)'
  BY <1>1, <1>2 DEF ValueInv, Measured, Close, Error
<1>3. CASE Cycle \/ NoCycle \/ Flagged \/ NotFlagged \/ TestLow \/ ClearFlag
           \/ \E r \in Pins : TestHigh(r)
  BY <1>2, <1>3 DEF Cycle, NoCycle, Flagged, NotFlagged, TestHigh, TestLow, ClearFlag,
       widthVars, tornVars, TypeOK
<1>4. ASSUME StoreRise \/ StoreWidth, pin # p PROVE ValueInv(p)'
  BY <1>2, <1>4 DEF StoreRise, StoreWidth, TypeOK
<1>5. ASSUME place \in {"rise", "low", "fall"}, pin = p
      PROVE  /\ port = Port[p] /\ pc_int[Port[p]]
             /\ age[p] \in Nat /\ age[p] <= 2 * Turn /\ current_irq_micros <= age[p]
  BY <1>5, FlagIsYoung DEF LoopInv, InBlock, On, FlagInv
<1>6. ASSUME StoreRise, pin = p PROVE ValueInv(p)'
  <2>1. PICK a \in Loaded : time_in' = [time_in EXCEPT ![pin] = a]
    BY <1>6 DEF StoreRise
  <2>2. port = Port[p] /\ age[p] \in Nat /\ age[p] <= 2 * Turn
        /\ current_irq_micros <= age[p]
    BY <1>5, <1>6 DEF StoreRise
  <2>3. level[p] = "high" /\ seen <= age[p]
    BY <1>6, <2>2 DEF StoreRise, FlagInv, InBlock
  <2>4. /\ a \in Int /\ Tears \in 0 .. 1
        /\ a <= age[p] + Slack(Tears) /\ -Slack(Tears) <= a
    BY <2>2, <2>3, LoadedBounds, Bounds DEF TypeOK
  <2>5. Stored(a, age[p], Tears)
    <3>1. Slack(Tears) \in Nat
      BY <2>4, SlackSum
    <3> QED BY <2>2, <2>4, <3>1, Bounds DEF Stored
  <2>6. time_in'[p] = a /\ torn_in'[p] = Tears /\ UNCHANGED <<channel_pilot, torn>>
    BY <1>6, <2>1 DEF StoreRise, TypeOK
  <2>7. p # Rudder /\ Measured(p) => Close(p)
    BY DEF ValueInv
  <2> QED BY <1>1, <2>3, <2>5, <2>6, <2>7 DEF ValueInv, Measured, Close, Error
<1>7. ASSUME StoreWidth, pin = p PROVE ValueInv(p)'
  <2>1. PICK b \in Loaded :
          channel_pilot' = [channel_pilot EXCEPT ![pin] = Width(time_in[pin] - b)]
    BY <1>7 DEF StoreWidth
  <2>2. port = Port[p] /\ age[p] \in Nat /\ age[p] <= 2 * Turn
        /\ current_irq_micros <= age[p]
    BY <1>5, <1>7 DEF StoreWidth
  <2>3. level[p] = "low" /\ p \in active_interrupts /\ seen <= age[p]
    BY <1>7, <2>2 DEF StoreWidth, FlagInv, InBlock
  <2>4. /\ b \in Int /\ Tears \in 0 .. 1
        /\ b <= age[p] + Slack(Tears) /\ -Slack(Tears) <= b
    BY <2>2, <2>3, LoadedBounds, Bounds DEF TypeOK
  <2>5. pulse[p] \in Pulses[p] /\ Stored(time_in[p], pulse[p] + age[p], torn_in[p])
    BY <2>3 DEF ValueInv
  <2>6. pulse[p] \in Nat /\ Tolerance < pulse[p] /\ pulse[p] + Tolerance + Byte < Wrap
    BY <2>5, PulseBounds
  <2>7. time_in[p] \in Int /\ torn_in[p] \in 0 .. 1
    BY Bounds DEF TypeOK
  <2> DEFINE n == torn_in[p] + Tears
  <2>8. /\ n \in 0 .. 2 /\ Slack(n) = Slack(torn_in[p]) + Slack(Tears) /\ Slack(n) <= Slack(2)
        /\ Slack(torn_in[p]) \in Nat /\ Slack(Tears) \in Nat
    BY <2>4, <2>7, SlackSum
  <2> HIDE DEF n
  <2>9. /\ pulse[p] - 2 * Turn - Slack(n) <= time_in[p] - b
        /\ time_in[p] - b <= pulse[p] + 2 * Turn + Slack(n)
    BY <2>2, <2>4, <2>5, <2>6, <2>7, <2>8, Bounds DEF Stored
  <2>10. Width(time_in[p] - b) = time_in[p] - b
    <3>1. Slack(n) \in Nat /\ Slack(n) <= Slack(2) /\ Slack(2) \in Nat
      BY <2>8, Bounds
    <3>2. 2 * Turn + Slack(n) <= Tolerance /\ 2 * Turn \in Nat
      BY <3>1, Bounds
    <3>3. 0 <= time_in[p] - b /\ time_in[p] - b < Wrap
      BY <2>4, <2>6, <2>7, <2>9, <3>1, <3>2, Bounds
    <3> QED BY <2>4, <2>7, <3>3, Bounds DEF Width
  <2>11. channel_pilot'[p] = time_in[p] - b /\ torn'[p] = n
    BY <1>7, <2>1, <2>10 DEF StoreWidth, TypeOK, n
  <2>12. Error(p)' = 2 * Turn + Slack(n)
    BY <2>11 DEF Error
  <2>13. Close(p)'
    BY <1>1, <2>4, <2>6, <2>7, <2>8, <2>9, <2>11, <2>12, Bounds DEF Close
  <2>14. p \notin active_interrupts'
    BY <1>7 DEF StoreWidth
  <2> QED BY <1>1, <2>13, <2>14 DEF ValueInv, Measured
<1> QED BY <1>3, <1>4, <1>6, <1>7 DEF Loop, Measure
-----------------------------------------------------------------------------
LEMMA PilotStep == PilotInv /\ [Next]_vars => PilotInv'
<1> SUFFICES ASSUME PilotInv, [Next]_vars PROVE PilotInv'
  OBVIOUS
<1>1. TypeOK /\ LoopInv
  BY DEF PilotInv
<1>2. TypeOK'
  <2>1. CASE UNCHANGED vars
    BY <1>1, <2>1 DEF TypeOK, vars, pinVars, irqVars, placeVars, widthVars, cycleVars, tornVars
  <2> QED BY <1>1, <2>1, TickType, EdgeType, LoopType DEF Next
<1>3. LoopInv'
  BY <1>1, LoopInvStep
<1>4. ASSUME NEW p \in Pins, Alone(p) PROVE FlagInv(p)' /\ ValueInv(p)'
  <2>1. FlagInv(p) /\ ValueInv(p)
    BY <1>4 DEF PilotInv
  <2>2. CASE Tick
    BY <1>1, <2>1, <2>2, FlagTick, ValueTick
  <2>3. ASSUME NEW r \in Pins, Edge(r) PROVE FlagInv(p)' /\ ValueInv(p)'
    BY <1>1, <1>4, <2>1, <2>3, FlagEdge, ValueEdge
  <2>4. CASE Loop
    BY <1>1, <1>4, <2>1, <2>4, FlagLoop, ValueLoop
  <2>5. CASE UNCHANGED vars
    BY <2>1, <2>5 DEF FlagInv, ValueInv, Pending, Measured, InBlock, Close, Error,
         vars, pinVars, irqVars, placeVars, widthVars, cycleVars, tornVars
  <2> QED BY <2>2, <2>3, <2>4, <2>5 DEF Next
<1> QED BY <1>2, <1>3, <1>4 DEF PilotInv, Alone

LEMMA PilotAlways == Spec => []PilotInv
BY PilotInit, PilotStep, PTL DEF Spec

\* The loop, its tables and its stamps stay in their types: no age is ever one
\* the model does not distinguish (firmware.ino:137-266).
THEOREM PilotTypeCorrect == Spec => []TypeOK
<1>1. PilotInv => TypeOK
  BY DEF PilotInv
<1> QED BY <1>1, PilotAlways, PTL

\* A pin that has its interrupt for itself is measured within two turns of the
\* loop, whatever the other pins do to the time stamp they share with it, and
\* within one byte more for each of the two stamps that is torn
\* (firmware.ino:71-82, 178-266).
THEOREM WidthsAreTrue == Spec => []WidthIsTrue
<1>1. PilotInv => WidthIsTrue
  BY DEF PilotInv, WidthIsTrue, ValueInv
<1> QED BY <1>1, PilotAlways, PTL

\* loop(): an edge of a pin that has its interrupt for itself is handled within
\* two turns, whatever the other pins keep the loop busy with
\* (firmware.ino:71-82, 178-240).
THEOREM EdgesAreHandledInTime == Spec => []NoEdgeWaits
<1>1. ASSUME PilotInv, NEW p \in Pins, Alone(p), age[p] > 2 * Turn
      PROVE  level[p] = "high" <=> p \in active_interrupts
  <2>1. TypeOK /\ FlagInv(p)
    BY <1>1 DEF PilotInv
  <2>2. ~pc_int[Port[p]]
    <3> SUFFICES ASSUME pc_int[Port[p]] PROVE FALSE
      OBVIOUS
    <3>1. age[p] \in Nat /\ age[p] <= 2 * Turn
      BY <2>1, FlagIsYoung
    <3> QED BY <1>1, <3>1, Bounds
  <2> QED BY <2>1, <2>2 DEF FlagInv, Pending
<1>2. PilotInv => NoEdgeWaits
  BY <1>1 DEF NoEdgeWaits
<1> QED BY <1>2, PilotAlways, PTL

\* Whenever loop() sets the switch it goes to the receiver or to the computer as
\* the last pulse of the mode's pin says, if that is further from 1500 us than
\* two turns and none of its stamps was torn (firmware.ino:140-152).
THEOREM SwitchFollowsPulse == Spec => SwitchObeysPulse
<1>1. ASSUME PilotInv, Cycle, Alone(Mode), Measured(Mode)
      PROVE  /\ pulse[Mode] > Threshold + Error(Mode) => out_switch' = "receiver"
             /\ pulse[Mode] <= Threshold - Error(Mode) => out_switch' = "uC"
  <2>1. Mode \in Pins /\ Mode # Rudder
    BY PilotAssumption
  <2>2. Close(Mode)
    BY <1>1, <2>1 DEF PilotInv, ValueInv
  <2>3. channel_pilot[Mode] \in Int /\ pulse[Mode] \in Int
    BY <1>1, <2>1, Bounds DEF PilotInv, TypeOK
  <2>4. Error(Mode) \in Int
    <3>1. torn[Mode] = 0 \/ torn[Mode] = 1 \/ torn[Mode] = 2
      BY <1>1, <2>1 DEF PilotInv, TypeOK
    <3> QED BY <3>1, Bounds DEF Error
  <2> QED BY <1>1, <2>2, <2>3, <2>4, Bounds DEF Cycle, Close
<1>2. PilotInv /\ [Next]_vars =>
        [Cycle /\ Alone(Mode) /\ Measured(Mode) =>
           /\ pulse[Mode] > Threshold + Error(Mode) => out_switch' = "receiver"
           /\ pulse[Mode] <= Threshold - Error(Mode) => out_switch' = "uC"]_vars
  BY <1>1
<1> QED BY <1>2, PilotAlways, PTL DEF Spec, SwitchObeysPulse
=============================================================================
