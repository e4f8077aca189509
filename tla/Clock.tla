-------------------------------- MODULE Clock --------------------------------
(***************************************************************************)
(* The kernel's clock (kernel/timer.c): the processor's time stamp counter *)
(* measured once against channel 2 of the PIT, the system calls that       *)
(* report it, and the loop of the demo script that waits by reading it.    *)
(*                                                                         *)
(* Time is the counter: it goes on between any two steps of the program,   *)
(* by as much as the host, the firmware or system management mode keep the *)
(* processor away.                                                         *)
(***************************************************************************)
EXTENDS Integers

CONSTANTS
  CAL_MS,      \* the milliseconds the PIT counts down: 50
  MS_PER_SEC,  \* 1000
  NS_PER_MS,   \* 1000000
  Window,      \* what the counter may gain while the PIT counts down
  Delay,       \* bound: ticks that pass between two steps of the program
  Pause,       \* the milliseconds programs wait
  MaxWaits,    \* bound: how often they wait
  MaxTicks     \* bound: ticks a boot may take

\* The counter need not be fast: an emulator may let it stand still.
ClockAssumption ==
  /\ CAL_MS \in Nat \ {0} /\ MS_PER_SEC \in Nat \ {0} /\ NS_PER_MS \in Nat \ {0}
  /\ Window \subseteq Nat \ {0}
  /\ Delay \in Nat /\ Pause \subseteq Nat \ {0} /\ {MaxWaits, MaxTicks} \subseteq Nat

VARIABLES
  tsc,          \* the time stamp counter
  window,       \* what it gains while the PIT counts down
  pit,          \* ticks left of the countdown
  idle,         \* ticks since the program's last step
  timer,        \* where timer_init is
  start_tsc, tsc_freq_khz, boot_tsc,
  early,        \* ticks from the start of the countdown to start_tsc
  waiting,      \* busy_sleep is in progress
  sec, start,   \* its argument in milliseconds and what Time.now was
  since,        \* the counter when start was read
  waits         \* how often a program has waited

clockVars == <<tsc, window, pit, idle, timer, start_tsc, tsc_freq_khz,
               boot_tsc, early, waiting, sec, start, since, waits>>
calibration == <<window, timer, start_tsc, tsc_freq_khz, boot_tsc, early>>
wait == <<waiting, sec, start, since, waits>>

ClockInit ==
  /\ tsc = 0 /\ window \in Window /\ pit = 0 /\ idle = 0
  /\ timer = "off" /\ start_tsc = 0 /\ tsc_freq_khz = 0 /\ boot_tsc = 0
  /\ early = 0
  /\ waiting = FALSE /\ sec = 0 /\ start = 0 /\ since = 0 /\ waits = 0

-----------------------------------------------------------------------------
\* The gate of channel 2, opened in port 0x61, lets it count.  A defect: closed.
GateClosed == FALSE
Gate == timer # "off"

\* timer_init.  The second byte of the count starts the countdown.
StartPit ==
  /\ timer = "off"
  /\ pit' = window /\ timer' = "armed" /\ idle' = 0
  /\ UNCHANGED <<tsc, window, start_tsc, tsc_freq_khz, boot_tsc, early, wait>>

\* The bit of port 0x61 that shows the end of the countdown.
PitDone == pit = 0

\* start_tsc = rdtsc().
ReadStart ==
  /\ timer = "armed"
  /\ start_tsc' = tsc /\ early' = idle /\ timer' = "countdown" /\ idle' = 0
  /\ UNCHANGED <<tsc, window, pit, tsc_freq_khz, boot_tsc, wait>>

\* Ticks per millisecond, never 0.  A defect: the "safety" line left out.
FrequencyUnsafe(elapsed) == elapsed \div CAL_MS
Frequency(elapsed) == IF elapsed < CAL_MS THEN 1 ELSE elapsed \div CAL_MS

Calibrate ==
  /\ timer = "countdown" /\ PitDone
  /\ tsc_freq_khz' = Frequency(tsc - start_tsc)
  /\ timer' = "measured" /\ idle' = 0
  /\ UNCHANGED <<tsc, window, pit, start_tsc, boot_tsc, early, wait>>

ReadBoot ==
  /\ timer = "measured"
  /\ boot_tsc' = tsc /\ timer' = "on" /\ idle' = 0
  /\ UNCHANGED <<tsc, window, pit, start_tsc, tsc_freq_khz, early, wait>>

TimerInit == StartPit \/ ReadStart \/ Calibrate \/ ReadBoot

-----------------------------------------------------------------------------
\* ruby_on_bare_metal_clock_millis.
Millis == IF tsc_freq_khz = 0 THEN 0 ELSE (tsc - boot_tsc) \div tsc_freq_khz

\* sys_clock_gettime; sys_gettimeofday is the same in microseconds.  A defect:
\* the seconds are not taken out of the nanoseconds.
TimespecOverfull(ms) ==
  [tv_sec |-> ms \div MS_PER_SEC, tv_nsec |-> ms * NS_PER_MS]
Timespec(ms) ==
  [tv_sec |-> ms \div MS_PER_SEC, tv_nsec |-> (ms % MS_PER_SEC) * NS_PER_MS]

\* Time.now, in nanoseconds.
TimeNow ==
  LET tp == Timespec(Millis)
  IN  tp.tv_sec * MS_PER_SEC * NS_PER_MS + tp.tv_nsec

\* busy_sleep(sec) of the demo script: start = Time.now ...
BusySleep(ms) ==
  /\ timer = "on" /\ ~waiting /\ waits < MaxWaits
  /\ waiting' = TRUE /\ sec' = ms /\ start' = TimeNow /\ since' = tsc
  /\ waits' = waits + 1 /\ idle' = 0
  /\ UNCHANGED <<tsc, pit, calibration>>

\* ... and break if Time.now - start >= sec.
Over == TimeNow - start >= sec * NS_PER_MS
SleepEnds ==
  /\ waiting /\ Over
  /\ waiting' = FALSE /\ idle' = 0
  /\ UNCHANGED <<tsc, pit, calibration, sec, start, since, waits>>

-----------------------------------------------------------------------------
\* While a loop turns on the PIT or on the clock its steps change nothing, and
\* time goes on without a bound.
Turning == (timer = "countdown" /\ ~PitDone) \/ (waiting /\ ~Over)

Tick ==
  /\ timer # "off" /\ tsc < MaxTicks
  /\ Turning \/ idle < Delay
  /\ tsc' = tsc + 1
  /\ pit' = IF Gate /\ pit > 0 THEN pit - 1 ELSE pit
  /\ idle' = IF Turning THEN 0 ELSE idle + 1
  /\ UNCHANGED <<calibration, wait>>

-----------------------------------------------------------------------------
\* Nothing of the clock is negative, and nobody divides by a frequency of 0.
ClockTypeOK ==
  /\ tsc \in Nat /\ pit \in 0 .. window /\ idle \in 0 .. Delay
  /\ timer \in {"off", "armed", "countdown", "measured", "on"}
  /\ tsc_freq_khz \in Nat /\ (timer \in {"measured", "on"} => tsc_freq_khz # 0)
  /\ start_tsc \in 0 .. tsc /\ boot_tsc \in 0 .. tsc
  /\ waiting \in BOOLEAN /\ since \in 0 .. tsc /\ start \in Nat

\* A wait of n milliseconds lasts more than n - 1 of the true ones, but for
\* what calibration lost: less than one tick in each millisecond to the
\* division, and what passed between the start of the countdown and start_tsc.
\* (`window` ticks are CAL_MS true milliseconds.)
NotCutShort ==
  [][waiting /\ ~waiting' =>
       CAL_MS * (tsc - since) > (sec - 1) * (window - early - CAL_MS)]_clockVars

\* No wait goes on for ever, however slow the counter.
SleepsEnd == waiting ~> ~waiting
=============================================================================
