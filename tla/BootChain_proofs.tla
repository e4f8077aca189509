-------------------------- MODULE BootChain_proofs --------------------------
(***************************************************************************)
(* Proofs about BootChain and Clock for memories and images of any size, a *)
(* firmware that owns any of it, and counters of any speed.                *)
(***************************************************************************)
EXTENDS BootChain, TLAPS

-----------------------------------------------------------------------------
(* Division. *)

LEMMA Division ==
  ASSUME NEW n \in Nat, NEW d \in Nat \ {0}
  PROVE  /\ n \div d \in Nat /\ n % d \in 0 .. d - 1
         /\ n = d * (n \div d) + (n % d)
         /\ d * (n \div d) <= n /\ n < d * (n \div d) + d
<1> DEFINE q == n \div d
           r == n % d
<1>1. q \in Nat /\ r \in 0 .. d - 1 /\ n = d * q + r
  OBVIOUS
<1> HIDE DEF q, r
<1>2. d * q \in Nat
  BY <1>1
<1> DEFINE p == d * q
<1>3. p \in Nat /\ n = p + r
  BY <1>1, <1>2
<1> HIDE DEF p
<1>4. p <= n /\ n < p + d
  BY <1>1, <1>3
<1>5. /\ q \in Nat /\ r \in 0 .. d - 1 /\ n = d * q + r
      /\ d * q <= n /\ n < d * q + d
  BY <1>1, <1>4 DEF p
<1> QED
  BY <1>5, Zenon DEF q, r

LEMMA NatProduct == \A m, n \in Nat : m * n \in Nat
  OBVIOUS

LEMMA ProductMonotonic ==
  ASSUME NEW a \in Int, NEW b \in Int, NEW c \in Nat, a <= b
  PROVE  c * a <= c * b
<1>1. c * (b - a) >= 0
  OBVIOUS
<1> QED
  BY <1>1

-----------------------------------------------------------------------------
(* The clock. *)

\* What the program's start left behind: the calibration is worth the window
\* but for the ticks before start_tsc and one in each millisecond, and a wait
\* in progress knows when it began.
Calibrated ==
  /\ timer = "armed" => pit + idle >= window
  /\ timer = "countdown" => pit + (tsc - start_tsc) >= window - early
  /\ timer \in {"measured", "on"} =>
       CAL_MS * tsc_freq_khz > window - early - CAL_MS

Waiting ==
  waiting => /\ timer = "on" /\ sec \in Nat \ {0} /\ boot_tsc <= since
             /\ start = ((since - boot_tsc) \div tsc_freq_khz) * NS_PER_MS

ClockInv ==
  /\ ClockTypeOK /\ window \in Window /\ early \in Nat
  /\ Calibrated /\ Waiting

LEMMA InitClockInv == ClockAssumption /\ ClockInit => ClockInv
<1> SUFFICES ASSUME ClockAssumption, ClockInit PROVE ClockInv
  OBVIOUS
<1>1. window \in Nat \ {0} /\ Delay \in Nat
  BY DEF ClockAssumption, ClockInit
<1>2. waiting \in BOOLEAN
  BY DEF ClockInit
<1>3. ClockTypeOK
  BY <1>1, <1>2 DEF ClockInit, ClockTypeOK
<1>4. Calibrated /\ Waiting
  BY DEF ClockInit, Calibrated, Waiting
<1> QED
  BY <1>3, <1>4 DEF ClockInit, ClockInv

LEMMA FrequencyBound ==
  ASSUME ClockAssumption, NEW elapsed \in Nat
  PROVE  /\ Frequency(elapsed) \in Nat \ {0}
         /\ CAL_MS * Frequency(elapsed) > elapsed - CAL_MS
<1>1. CAL_MS \in Nat \ {0}
  BY DEF ClockAssumption
<1>2. CASE elapsed < CAL_MS
  BY <1>1, <1>2 DEF Frequency
<1>3. CASE elapsed >= CAL_MS
  <2> DEFINE q == elapsed \div CAL_MS
  <2>1. /\ q \in Nat /\ CAL_MS * q \in Nat /\ elapsed < CAL_MS * q + CAL_MS
    BY <1>1, Division, NatProduct
  <2>2. Frequency(elapsed) = q
    BY <1>1, <1>3 DEF Frequency
  <2> HIDE DEF q
  <2>3. q # 0
    <3> SUFFICES ASSUME q = 0 PROVE FALSE
      OBVIOUS
    <3>1. CAL_MS * q = 0
      BY <1>1
    <3> QED
      BY <1>1, <1>3, <2>1, <3>1
  <2> QED
    BY <1>1, <2>1, <2>2, <2>3
<1> QED
  BY <1>1, <1>2, <1>3

\* sys_clock_gettime splits the milliseconds and loses nothing.
LEMMA TimeNowIsMillis ==
  ASSUME ClockAssumption, Millis \in Nat
  PROVE  TimeNow = Millis * NS_PER_MS /\ TimeNow \in Nat
<1> DEFINE m == Millis
           q == m \div MS_PER_SEC
           r == m % MS_PER_SEC
<1>1. MS_PER_SEC \in Nat \ {0} /\ NS_PER_MS \in Nat \ {0} /\ m \in Nat
  BY DEF ClockAssumption
<1>2. q \in Nat /\ r \in Nat /\ m = MS_PER_SEC * q + r
  BY <1>1, Division
<1>3. TimeNow = q * MS_PER_SEC * NS_PER_MS + r * NS_PER_MS
  BY DEF TimeNow, Timespec
<1> HIDE DEF m, q, r
<1>4. q * MS_PER_SEC * NS_PER_MS + r * NS_PER_MS = m * NS_PER_MS
  BY <1>1, <1>2
<1>5. m * NS_PER_MS \in Nat
  BY <1>1
<1> QED
  BY <1>3, <1>4, <1>5 DEF m

LEMMA MillisOn ==
  ASSUME ClockTypeOK, timer = "on"
  PROVE  /\ tsc_freq_khz \in Nat \ {0} /\ tsc - boot_tsc \in Nat
         /\ Millis = (tsc - boot_tsc) \div tsc_freq_khz /\ Millis \in Nat
<1>1. tsc_freq_khz \in Nat \ {0} /\ tsc - boot_tsc \in Nat
  BY DEF ClockTypeOK
<1> QED
  BY <1>1, Division DEF Millis

LEMMA BusySleepStep ==
  ASSUME ClockAssumption, ClockInv, NEW ms \in Pause, BusySleep(ms)
  PROVE  ClockInv'
<1>1. /\ timer = "on" /\ Millis = (tsc - boot_tsc) \div tsc_freq_khz
      /\ TimeNow = Millis * NS_PER_MS /\ TimeNow \in Nat
      /\ boot_tsc <= tsc /\ boot_tsc \in Int /\ tsc \in Nat
  BY MillisOn, TimeNowIsMillis DEF ClockInv, ClockTypeOK, BusySleep
<1>2. ms \in Nat \ {0} /\ Delay \in Nat
  BY DEF ClockAssumption
<1>3. ClockTypeOK'
  BY <1>1, <1>2 DEF ClockInv, ClockTypeOK, BusySleep, calibration
<1>4. Calibrated'
  BY <1>1 DEF ClockInv, Calibrated, BusySleep, calibration
<1>5. start' = ((since' - boot_tsc) \div tsc_freq_khz) * NS_PER_MS
  BY <1>1 DEF BusySleep
<1>6. Waiting'
  BY <1>1, <1>2, <1>5 DEF Waiting, BusySleep, calibration
<1> QED
  BY <1>3, <1>4, <1>6 DEF ClockInv, BusySleep, calibration

LEMMA TimerInitStep ==
  ASSUME ClockAssumption, ClockInv, TimerInit PROVE ClockInv'
<1>1. /\ Window \subseteq Nat \ {0} /\ Delay \in Nat /\ window \in Nat \ {0}
      /\ CAL_MS \in Nat \ {0}
  BY DEF ClockAssumption, ClockInv
<1>2. ~waiting
  BY DEF ClockInv, ClockTypeOK, Waiting, TimerInit, StartPit, ReadStart, Calibrate, ReadBoot
<1>3. CASE StartPit
  BY <1>1, <1>2, <1>3 DEF StartPit, ClockInv, ClockTypeOK, Calibrated, Waiting, wait
<1>4. CASE ReadStart
  BY <1>1, <1>2, <1>4 DEF ReadStart, ClockInv, ClockTypeOK, Calibrated, Waiting, wait
<1>5. CASE Calibrate
  <2>1. tsc - start_tsc \in Nat /\ tsc - start_tsc >= window - early /\ early \in Nat
    BY <1>1, <1>5 DEF Calibrate, PitDone, ClockInv, ClockTypeOK, Calibrated
  <2>2. /\ tsc_freq_khz' \in Nat \ {0}
        /\ CAL_MS * tsc_freq_khz' > (tsc - start_tsc) - CAL_MS
    BY <2>1, <1>5, FrequencyBound DEF Calibrate
  <2>3. ClockTypeOK'
    BY <1>1, <1>2, <1>5, <2>2 DEF Calibrate, ClockInv, ClockTypeOK, wait
  <2>4. CAL_MS * tsc_freq_khz' \in Nat
    BY <1>1, <2>2, NatProduct
  <2> DEFINE p == CAL_MS * tsc_freq_khz'
  <2>5. p > window - early - CAL_MS
    <3> HIDE DEF p
    <3>1. p \in Nat /\ p > (tsc - start_tsc) - CAL_MS
      BY <2>2, <2>4 DEF p
    <3> QED
      BY <1>1, <2>1, <3>1
  <2>6. Calibrated'
    <3>1. p = CAL_MS * tsc_freq_khz' /\ timer' = "measured"
      BY <1>5 DEF Calibrate
    <3>2. (CAL_MS * tsc_freq_khz > window - early - CAL_MS)'
      BY <2>5, <3>1, <1>5 DEF Calibrate
    <3> QED
      BY <3>1, <3>2 DEF Calibrated
  <2> QED
    BY <2>3, <2>6, <1>2, <1>5 DEF Calibrate, ClockInv, Waiting, wait
<1>6. CASE ReadBoot
  BY <1>1, <1>2, <1>6 DEF ReadBoot, ClockInv, ClockTypeOK, Calibrated, Waiting, wait
<1> QED
  BY <1>3, <1>4, <1>5, <1>6 DEF TimerInit

LEMMA SleepEndsStep ==
  ASSUME ClockAssumption, ClockInv, SleepEnds PROVE ClockInv'
<1>1. timer = "on" /\ Delay \in Nat
  BY DEF ClockAssumption, ClockInv, Waiting, SleepEnds
<1>2. waiting' \in BOOLEAN
  BY DEF SleepEnds
<1>3. ClockTypeOK'
  BY <1>1, <1>2 DEF SleepEnds, ClockInv, ClockTypeOK, calibration
<1>4. Calibrated'
  <2>1. CAL_MS * tsc_freq_khz > window - early - CAL_MS
    BY <1>1 DEF ClockInv, Calibrated
  <2> QED
    BY <1>1, <2>1 DEF SleepEnds, Calibrated, calibration
<1> QED
  BY <1>3, <1>4 DEF SleepEnds, ClockInv, Waiting, calibration

LEMMA TickStep ==
  ASSUME ClockAssumption, ClockInv, Tick PROVE ClockInv'
<1>1. /\ Delay \in Nat /\ window \in Nat \ {0} /\ early \in Nat
      /\ pit \in 0 .. window /\ tsc \in Nat /\ start_tsc \in 0 .. tsc
      /\ idle \in 0 .. Delay
  BY DEF ClockAssumption, ClockInv, ClockTypeOK
<1>2. /\ Gate /\ tsc' = tsc + 1 /\ UNCHANGED <<calibration, wait>>
      /\ pit' = IF pit > 0 THEN pit - 1 ELSE pit
      /\ Turning \/ idle < Delay
      /\ idle' = IF Turning THEN 0 ELSE idle + 1
  BY DEF Tick, Gate
<1>3. ClockTypeOK'
  BY <1>1, <1>2 DEF ClockInv, ClockTypeOK, calibration, wait
<1>4. timer = "armed" => ~Turning
  BY DEF Turning, ClockInv, Waiting
<1>5. Calibrated'
  <2>1. CASE timer = "armed"
    BY <1>1, <1>2, <1>4, <2>1 DEF ClockInv, Calibrated, calibration
  <2>2. CASE timer = "countdown"
    BY <1>1, <1>2, <2>2 DEF ClockInv, Calibrated, calibration
  <2>3. CASE timer \notin {"armed", "countdown"}
    BY <1>2, <2>3 DEF ClockInv, Calibrated, calibration
  <2> QED
    BY <2>1, <2>2, <2>3
<1>6. Waiting'
  BY <1>2 DEF ClockInv, Waiting, calibration, wait
<1> QED
  BY <1>2, <1>3, <1>5, <1>6 DEF ClockInv, calibration

LEMMA ClockStutters ==
  ASSUME ClockInv, UNCHANGED clockVars PROVE ClockInv'
  BY DEF ClockInv, ClockTypeOK, Calibrated, Waiting, clockVars

-----------------------------------------------------------------------------
\* What the clock's reading says of the counter.
LEMMA ReadingGrows ==
  ASSUME NEW a \in Nat, NEW b \in Nat, NEW d \in Nat \ {0}, NEW n \in Nat \ {0},
         (a \div d) - (b \div d) >= n
  PROVE  a - b > (n - 1) * d
<1> DEFINE p == a \div d
           q == b \div d
<1>1. /\ p \in Nat /\ q \in Nat /\ d * p \in Nat /\ d * q \in Nat
      /\ d * p <= a /\ b < d * q + d
  BY Division, NatProduct
<1>2. p >= q + n
  BY <1>1
<1> HIDE DEF p, q
<1>3. d * (q + n) <= d * p
  BY <1>1, <1>2, ProductMonotonic
<1>4. d * (q + n) = d * q + d + (n - 1) * d /\ (n - 1) * d \in Nat
  BY <1>1
<1> QED
  BY <1>1, <1>3, <1>4

LEMMA SleepIsLong ==
  ASSUME ClockAssumption, ClockInv, SleepEnds
  PROVE  CAL_MS * (tsc - since) > (sec - 1) * (window - early - CAL_MS)
<1>1. /\ timer = "on" /\ sec \in Nat \ {0} /\ boot_tsc <= since
      /\ start = ((since - boot_tsc) \div tsc_freq_khz) * NS_PER_MS
      /\ TimeNow - start >= sec * NS_PER_MS
  BY DEF SleepEnds, Over, ClockInv, Waiting
<1>2. /\ CAL_MS \in Nat \ {0} /\ NS_PER_MS \in Nat \ {0} /\ window \in Nat
      /\ early \in Nat
      /\ CAL_MS * tsc_freq_khz > window - early - CAL_MS
  BY <1>1 DEF ClockAssumption, ClockInv, Calibrated
<1>3. /\ tsc_freq_khz \in Nat \ {0} /\ tsc - boot_tsc \in Nat
      /\ Millis = (tsc - boot_tsc) \div tsc_freq_khz /\ Millis \in Nat
  BY <1>1, MillisOn DEF ClockInv
<1>4. TimeNow = Millis * NS_PER_MS
  BY <1>3, TimeNowIsMillis
<1>5. tsc \in Nat /\ since \in 0 .. tsc /\ boot_tsc \in 0 .. tsc /\ since - boot_tsc \in Nat
  BY <1>1 DEF ClockInv, ClockTypeOK
<1> DEFINE p == Millis
           q == (since - boot_tsc) \div tsc_freq_khz
<1>6. p \in Nat /\ q \in Nat /\ p * NS_PER_MS - q * NS_PER_MS >= sec * NS_PER_MS
  BY <1>1, <1>3, <1>4, <1>5, Division
<1>7. p - q >= sec
  <2> HIDE DEF p, q
  <2> SUFFICES ASSUME p - q <= sec - 1 PROVE FALSE
    BY <1>1, <1>6
  <2>1. NS_PER_MS * (p - q) <= NS_PER_MS * (sec - 1)
    BY <1>1, <1>2, <1>6, ProductMonotonic
  <2>2. /\ NS_PER_MS * (p - q) = p * NS_PER_MS - q * NS_PER_MS
        /\ NS_PER_MS * (sec - 1) = sec * NS_PER_MS - NS_PER_MS
        /\ sec * NS_PER_MS \in Nat /\ p * NS_PER_MS \in Nat /\ q * NS_PER_MS \in Nat
    BY <1>1, <1>2, <1>6
  <2> QED
    BY <1>2, <1>6, <2>1, <2>2
<1>8. (tsc - boot_tsc) - (since - boot_tsc) > (sec - 1) * tsc_freq_khz
  BY <1>1, <1>3, <1>5, <1>7, ReadingGrows
<1> DEFINE f == tsc_freq_khz
           s == sec - 1
           w == window - early - CAL_MS
           t == tsc - since
<1>9. /\ f \in Nat \ {0} /\ s \in Nat /\ w \in Int /\ t \in Int
      /\ t > s * f /\ CAL_MS * f > w /\ s * f \in Nat
  BY <1>1, <1>2, <1>3, <1>5, <1>8
<1> HIDE DEF f, s, w, t
<1>10. s * w <= s * (CAL_MS * f)
  <2>1. CAL_MS * f \in Int /\ w <= CAL_MS * f
    BY <1>2, <1>9
  <2> QED
    BY <1>9, <2>1, ProductMonotonic
<1>11. CAL_MS * (s * f + 1) <= CAL_MS * t
  BY <1>2, <1>9, ProductMonotonic
<1>12. CAL_MS * (s * f + 1) = s * (CAL_MS * f) + CAL_MS
  BY <1>2, <1>9
<1>13. s * w < CAL_MS * t
  <2>1. s * w \in Int /\ CAL_MS * t \in Int /\ s * (CAL_MS * f) \in Int
    BY <1>2, <1>9
  <2> QED
    BY <1>2, <1>10, <1>11, <1>12, <2>1
<1> QED
  BY <1>13 DEF s, w, t

-----------------------------------------------------------------------------
(* The stages, in the order of either build. *)

LEMMA MultibootStages ==
  ASSUME NEW b, b = <<"bss32", "tables", "PAE", "CR3", "LME", "PG">>,
         NEW e, e = <<"keep", "bss64", "stack">>,
         NEW k, k = <<"console", "timer", "tls">>,
         NEW n, n = <<"memory">>,
         NEW r, r = <<"hello", "setup", "script", "eval">>,
         NEW m, m = (k \o n) \o r, NEW s, s = (b \o e) \o m
  PROVE  /\ Len(m) = 8 /\ Len(s) = 17
         /\ s[1] = "bss32" /\ s[2] = "tables" /\ s[3] = "PAE"
         /\ s[4] = "CR3" /\ s[5] = "LME" /\ s[6] = "PG"
         /\ s[7] = "keep" /\ s[8] = "bss64" /\ s[9] = "stack"
         /\ s[10] = "console" /\ s[11] = "timer" /\ s[12] = "tls"
         /\ s[13] = "memory" /\ s[14] = "hello" /\ s[15] = "setup"
         /\ s[16] = "script" /\ s[17] = "eval"
  OBVIOUS

LEMMA UefiStages ==
  ASSUME NEW b, b = <<"allocate", "copy">>,
         NEW e, e = <<"keep", "bss64", "stack">>,
         NEW k, k = <<"console", "timer", "tls">>,
         NEW n, n = <<>>,
         NEW r, r = <<"hello", "setup", "script", "eval">>,
         NEW m, m = (k \o n) \o r, NEW s, s = (b \o e) \o m
  PROVE  /\ Len(m) = 7 /\ Len(s) = 12
         /\ s[1] = "allocate" /\ s[2] = "copy"
         /\ s[3] = "keep" /\ s[4] = "bss64" /\ s[5] = "stack"
         /\ s[6] = "console" /\ s[7] = "timer" /\ s[8] = "tls"
         /\ s[9] = "hello" /\ s[10] = "setup"
         /\ s[11] = "script" /\ s[12] = "eval"
  OBVIOUS

LEMMA Multiboot ==
  ASSUME build = "multiboot"
  PROVE  /\ Len(KernelMain) = 8 /\ Len(Stages) = 17
         /\ Stages[1] = "bss32" /\ Stages[2] = "tables" /\ Stages[3] = "PAE"
         /\ Stages[4] = "CR3" /\ Stages[5] = "LME" /\ Stages[6] = "PG"
         /\ Stages[7] = "keep" /\ Stages[8] = "bss64" /\ Stages[9] = "stack"
         /\ Stages[10] = "console" /\ Stages[11] = "timer"
         /\ Stages[12] = "tls" /\ Stages[13] = "memory"
         /\ Stages[14] = "hello" /\ Stages[15] = "setup"
         /\ Stages[16] = "script" /\ Stages[17] = "eval"
  BY MultibootStages DEF Stages, BootS, Entry64, KernelMain

LEMMA Uefi ==
  ASSUME build = "uefi"
  PROVE  /\ Len(KernelMain) = 7 /\ Len(Stages) = 12
         /\ Stages[1] = "allocate" /\ Stages[2] = "copy"
         /\ Stages[3] = "keep" /\ Stages[4] = "bss64" /\ Stages[5] = "stack"
         /\ Stages[6] = "console" /\ Stages[7] = "timer"
         /\ Stages[8] = "tls" /\ Stages[9] = "hello" /\ Stages[10] = "setup"
         /\ Stages[11] = "script" /\ Stages[12] = "eval"
  BY UefiStages DEF Stages, BootS, Entry64, KernelMain

LEMMA Lengths ==
  /\ build = "multiboot" => Len(Stages) = 17 /\ Len(KernelMain) = 8
  /\ build = "uefi" => Len(Stages) = 12 /\ Len(KernelMain) = 7
  BY Multiboot, Uefi

LEMMA StageIsNat ==
  ASSUME build \in {"multiboot", "uefi"}, stage \in 1 .. Len(Stages)
  PROVE  stage \in Nat \ {0}
<1>1. Len(Stages) \in Nat
  BY Lengths
<1> QED
  BY <1>1

-----------------------------------------------------------------------------
(* The layout. *)

Assumptions == BootAssumption /\ LayoutAssumption

LEMMA RoundedUp ==
  ASSUME NEW n \in Nat, NEW d \in Nat \ {0}
  PROVE  /\ ((n + d - 1) \div d) * d \in Nat
         /\ n <= ((n + d - 1) \div d) * d
<1> DEFINE q == (n + d - 1) \div d
<1>1. n + d - 1 \in Nat
  OBVIOUS
<1>2. /\ q \in Nat /\ d * q \in Nat /\ n + d - 1 < d * q + d
  BY <1>1, Division, NatProduct
<1> HIDE DEF q
<1>3. q * d = d * q
  BY <1>2
<1>4. q * d \in Nat /\ n <= q * d
  BY <1>2, <1>3
<1> QED
  BY <1>4 DEF q

LEMMA Layout ==
  ASSUME Assumptions
  PROVE  /\ TOP \in Nat /\ LOAD \in Nat /\ IMAGE \in Nat \ {0}
         /\ BssStart \in Nat /\ LOAD + IMAGE <= BssStart
         /\ LOAD \in Address /\ LOAD .. LOAD + IMAGE - 1 \subseteq Address
         /\ Bss32 \subseteq 0 .. LOAD - 1 /\ Bss32 \subseteq Address
         /\ Bss64 \subseteq BssStart .. TOP - 1 /\ Bss64 \subseteq Address
         /\ {Heap, Tp, Stack} \subseteq Bss64
         /\ ARENA \subseteq BssStart .. TOP - 1
         /\ ARENA \subseteq Address /\ ARENA \intersect Bss64 = {}
         /\ Heap # Tp /\ Stack # Tp /\ 0 \in Address
<1>1. /\ {TOP, BIG, LOAD, IMAGE, PAGE, BSS} \subseteq Nat \ {0} /\ LOAD = BIG
      /\ 3 < BIG /\ BssStart + 2 < BssStart + BSS /\ BssStart + BSS <= TOP
      /\ ARENA \subseteq BssStart + BSS .. TOP - 1
  BY DEF Assumptions, BootAssumption, LayoutAssumption, PD, Stack
<1>2. PageUp(IMAGE) \in Nat /\ IMAGE <= PageUp(IMAGE)
  BY <1>1, RoundedUp DEF PageUp
<1>3. BssStart \in Nat /\ LOAD + IMAGE <= BssStart
  BY <1>1, <1>2 DEF BssStart
<1>4. Bss32 \subseteq 0 .. LOAD - 1
  BY <1>1 DEF Bss32, PML4, PDPT, PD
<1>5. Bss64 = BssStart .. BssStart + BSS - 1
  BY DEF Bss64
<1>6. Heap = BssStart /\ Tp = BssStart + 1 /\ Stack = BssStart + 2
  BY DEF Heap, Tp, Stack
<1> HIDE DEF BssStart
<1>7. {Heap, Tp, Stack} \subseteq Bss64 /\ Heap # Tp /\ Stack # Tp
  BY <1>1, <1>3, <1>5, <1>6
<1>8. /\ LOAD .. LOAD + IMAGE - 1 \subseteq Address /\ LOAD \in Address
      /\ 0 \in Address /\ Bss32 \subseteq Address
  BY <1>1, <1>3, <1>4 DEF Address
<1>9. Bss64 \subseteq BssStart .. TOP - 1 /\ Bss64 \subseteq Address
  BY <1>1, <1>3, <1>5 DEF Address
<1>10. /\ ARENA \subseteq BssStart .. TOP - 1 /\ ARENA \subseteq Address
       /\ ARENA \intersect Bss64 = {}
  BY <1>1, <1>3, <1>5 DEF Address
<1> QED
  BY <1>1, <1>3, <1>4, <1>7, <1>8, <1>9, <1>10

LEMMA FreePages ==
  ASSUME Assumptions, NEW a \in Address, Free(a)
  PROVE  /\ a .. a + IMAGE - 1 \subseteq Address \ owned
         /\ Slot(a) \in a .. a + IMAGE - 1
<1>1. /\ IMAGE \in Nat \ {0} /\ PAGE \in Nat \ {0} /\ a \in Nat
  BY DEF Assumptions, BootAssumption, Address
<1>2. Pages * PAGE \in Nat /\ IMAGE <= Pages * PAGE
  BY <1>1, RoundedUp DEF Pages
<1>3. a .. a + Pages * PAGE - 1 \subseteq Address \ owned
  BY DEF Free
<1> DEFINE p == Pages * PAGE
<1>4. a .. a + IMAGE - 1 \subseteq a .. a + p - 1
  <2> HIDE DEF p
  <2>1. p \in Nat /\ IMAGE <= p
    BY <1>2 DEF p
  <2> QED
    BY <1>1, <2>1
<1>5. Slot(a) \in a .. a + IMAGE - 1
  BY <1>1 DEF Slot
<1> QED
  BY <1>3, <1>4, <1>5

-----------------------------------------------------------------------------
(* The inductive invariant. *)

Cell == {"leftover", "firmware", "image", "zero", "pdpt", "pd", "pages",
         "table", "stack", "self", "ruby"}

\* The stages up to the m-th of a multiboot build, the u-th of a UEFI build,
\* are over.
Done(m, u) == stage > IF build = "multiboot" THEN m ELSE u

BootTypes ==
  /\ build \in {"multiboot", "uefi"} /\ stage \in 1 .. Len(Stages)
  /\ status \in {"running", "returned", "astray", "panic", "halted",
                 "exit called"}
  /\ memory \in [Address -> Cell]
  /\ at \in Address /\ rdi \in {"leftover", "table", "end"}
  /\ cpu \subseteq {"PAE", "CR3", "LME", "PG"} /\ fsbase \in Address
  /\ depth \in 0 .. StackSize /\ owned \subseteq Address

\* Where the image is: at its linked address by way of multiboot, or on pages
\* the firmware does not own.
Loaded ==
  IF build = "multiboot"
  THEN at = LOAD /\ owned = {} /\ (~Done(6, 0) => memory[LOAD] = "image")
  ELSE Done(6, 1) => Free(at)

\* Paging is not on before its tables are there, and they stay.
Paging ==
  build = "multiboot" =>
    /\ Done(2, 0) => /\ memory[PML4] = "pdpt" /\ memory[PDPT] = "pd"
                     /\ memory[PD] = "pages"
    /\ Done(3, 0) => "PAE" \in cpu
    /\ Done(4, 0) => "CR3" \in cpu
    /\ Done(5, 0) => "LME" \in cpu
    /\ ~Done(6, 0) => "PG" \notin cpu

\* The system table is in the register until entry64.S has cleared the BSS, and
\* then where entry64.S has kept it.
TableOnItsWay ==
  /\ ~Done(8, 4) => rdi = IF build = "uefi" THEN "table" ELSE "leftover"
  /\ build = "uefi" /\ at = LOAD /\ Done(7, 3) => Table = "table"

\* The thread that musl will ask for.
ThreadThere == Done(12, 8) => fsbase = Tp /\ memory[Tp] = "self"

BootInv ==
  BootTypes /\ Loaded /\ Paging /\ TableOnItsWay /\ ThreadThere /\ FirmwareIntact

LEMMA BootInvImplies ==
  ClockInv /\ BootInv => TypeOK /\ NeverFaults /\ SystemTableKept
<1> SUFFICES ASSUME ClockInv, BootInv
             PROVE  TypeOK /\ NeverFaults /\ SystemTableKept
  OBVIOUS
<1>1. TypeOK /\ NeverFaults
  BY DEF ClockInv, BootInv, BootTypes, Cell, TypeOK, NeverFaults
<1>2. SystemTableKept
  <2> SUFFICES ASSUME build = "uefi", at = LOAD,
                      stage > Len(Stages) - Len(KernelMain)
               PROVE  Table = "table"
    BY DEF SystemTableKept
  <2>1. Len(Stages) = 12 /\ Len(KernelMain) = 7
    BY Lengths
  <2>2. stage > 12 - 7 /\ stage \in Nat \ {0}
    BY <2>1, StageIsNat DEF BootInv, BootTypes
  <2>3. Done(7, 3)
    BY <2>2 DEF Done
  <2> QED
    BY <2>3 DEF BootInv, TableOnItsWay
<1> QED
  BY <1>1, <1>2

LEMMA InitBootInv == Assumptions /\ Init => BootInv
<1> SUFFICES ASSUME Assumptions, Init PROVE BootInv
  OBVIOUS
<1>1. /\ build \in {"multiboot", "uefi"} /\ stage = 1 /\ status = "running"
      /\ at = LOAD /\ cpu = {} /\ fsbase = 0 /\ depth = 0
      /\ rdi = IF build = "uefi" THEN "table" ELSE "leftover"
      /\ owned \subseteq Address /\ (build = "multiboot" => owned = {})
      /\ memory = [a \in Address |->
                     IF a \in owned THEN "firmware"
                     ELSE IF /\ build = "multiboot"
                             /\ a \in LOAD .. LOAD + IMAGE - 1
                          THEN "image" ELSE "leftover"]
  BY DEF Init, Assumptions, BootAssumption, Address
<1>2. STACK \in Nat
  BY DEF Assumptions, BootAssumption
<1>3. stage \in 1 .. Len(Stages)
  <2>1. Len(Stages) \in Nat /\ 1 <= Len(Stages)
    BY Lengths, <1>1
  <2> QED
    BY <1>1, <2>1
<1>4. BootTypes
  BY <1>1, <1>2, <1>3, Layout DEF BootTypes, Cell, StackSize
<1>5. Loaded
  BY <1>1, Layout DEF Loaded, Done
<1>6. Paging /\ TableOnItsWay /\ ThreadThere
  BY <1>1 DEF Paging, TableOnItsWay, ThreadThere, Done
<1>7. FirmwareIntact
  BY <1>1 DEF FirmwareIntact
<1> QED
  BY <1>4, <1>5, <1>6, <1>7 DEF BootInv

\* Whatever a stage reaches for is mapped.
LEMMA AllIsReached ==
  ASSUME Assumptions, BootInv, NEW addresses \in SUBSET Address
  PROVE  Reaches(addresses)
<1>1. CASE build = "uefi"
  BY <1>1 DEF Reaches, Mapped
<1>2. CASE build = "multiboot" /\ ~Done(6, 0)
  BY <1>2 DEF Reaches, LongMode, BootInv, Paging
<1>3. CASE build = "multiboot" /\ Done(6, 0)
  <2>1. stage \in Nat
    BY StageIsNat DEF BootInv, BootTypes
  <2>2. Done(2, 0)
    BY <1>3, <2>1 DEF Done
  <2>3. /\ memory[PML4] = "pdpt" /\ memory[PDPT] = "pd" /\ memory[PD] = "pages"
    BY <1>3, <2>2 DEF BootInv, Paging
  <2> DEFINE e == PD_ENTRIES * BIG
  <2>4. TOP \in Nat /\ e \in Int /\ TOP <= e
    BY DEF Assumptions, BootAssumption, LayoutAssumption
  <2>5. Mapped = {a \in Address : a < e}
    BY <1>3, <2>3 DEF Mapped, Entries
  <2> HIDE DEF e
  <2>6. Mapped = Address
    BY <2>4, <2>5 DEF Address
  <2> QED
    BY <2>6 DEF Reaches
<1> QED
  BY <1>1, <1>2, <1>3 DEF BootInv, BootTypes

LEMMA WritesThere ==
  ASSUME Assumptions, BootInv, NEW s, NEW addresses \in SUBSET Address,
         NEW what, Writes(s, addresses, what)
  PROVE  /\ status = "running" /\ Stages[stage] = s
         /\ memory' = Wrote(addresses, what)
         /\ stage' = stage + 1 /\ status' = status
         /\ build' = build /\ owned' = owned /\ files' = files
         /\ at' = at /\ cpu' = cpu /\ depth' = depth
  BY AllIsReached DEF Writes, At, Onward, Fixed

\* Which stage a step belongs to.
LEMMA Where ==
  ASSUME BootInv
  PROVE  /\ build \in {"multiboot", "uefi"}
         /\ build = "multiboot" => Len(Stages) = 17
         /\ build = "uefi" => Len(Stages) = 12
         /\ Len(Stages) \in Nat /\ stage \in Nat \ {0} /\ stage <= Len(Stages)
         /\ At("allocate") => build = "uefi" /\ stage = 1
         /\ At("copy") => build = "uefi" /\ stage = 2
         /\ At("bss32") => build = "multiboot" /\ stage = 1
         /\ At("tables") => build = "multiboot" /\ stage = 2
         /\ At("PAE") => build = "multiboot" /\ stage = 3
         /\ At("CR3") => build = "multiboot" /\ stage = 4
         /\ At("LME") => build = "multiboot" /\ stage = 5
         /\ At("PG") => build = "multiboot" /\ stage = 6
         /\ At("keep") => stage = IF build = "multiboot" THEN 7 ELSE 3
         /\ At("bss64") => stage = IF build = "multiboot" THEN 8 ELSE 4
         /\ At("stack") => stage = IF build = "multiboot" THEN 9 ELSE 5
         /\ At("console") => stage = IF build = "multiboot" THEN 10 ELSE 6
         /\ At("timer") => stage = IF build = "multiboot" THEN 11 ELSE 7
         /\ At("tls") => stage = IF build = "multiboot" THEN 12 ELSE 8
         /\ At("memory") => build = "multiboot" /\ stage = 13
         /\ At("hello") => stage = IF build = "multiboot" THEN 14 ELSE 9
         /\ At("setup") => stage = IF build = "multiboot" THEN 15 ELSE 10
         /\ At("script") => stage = IF build = "multiboot" THEN 16 ELSE 11
         /\ \A s : At(s) /\ s # "eval" => stage < Len(Stages)
         /\ At("eval") => stage = IF build = "multiboot" THEN 17 ELSE 12
<1>1. build \in {"multiboot", "uefi"} /\ stage \in 1 .. Len(Stages)
  BY DEF BootInv, BootTypes
<1>2. CASE build = "multiboot"
  <2>1. Len(Stages) = 17
    BY <1>2, Multiboot
  <2>2. stage \in 1 .. 17
    BY <1>1, <2>1
  <2> QED
    BY <1>2, <2>1, <2>2, Multiboot DEF At
<1>3. CASE build = "uefi"
  <2>1. Len(Stages) = 12
    BY <1>3, Uefi
  <2>2. stage \in 1 .. 12
    BY <1>1, <2>1
  <2> QED
    BY <1>3, <2>1, <2>2, Uefi DEF At
<1> QED
  BY <1>1, <1>2, <1>3

LEMMA StagesStay == build' = build => Stages' = Stages
  BY DEF Stages, BootS, Entry64, KernelMain

LEMMA NextStage ==
  ASSUME NEW s \in Nat \ {0}, NEW n \in Nat, s < n PROVE s + 1 \in 1 .. n
  OBVIOUS

\* What any step of the boot keeps of the types.
LEMMA TypesStay ==
  ASSUME BootInv, UNCHANGED <<build, owned>>,
         \/ stage' = stage /\ status' \in {"running", "returned", "astray",
                                           "panic", "halted", "exit called"}
         \/ stage' = stage + 1 /\ stage < Len(Stages) /\ status' = status,
         memory' \in [Address -> Cell], at' \in Address,
         rdi' \in {"leftover", "table", "end"},
         cpu' \subseteq {"PAE", "CR3", "LME", "PG"},
         fsbase' \in Address, depth' \in 0 .. StackSize
  PROVE  BootTypes'
<1> DEFINE n == Len(Stages)
<1>1. n \in Nat /\ stage \in Nat \ {0} /\ stage <= n
  BY Where
<1>2. Stages' = Stages
  BY StagesStay
<1>3. stage \in 1 .. n
  BY DEF BootInv, BootTypes
<1>4. stage' \in 1 .. n
  BY <1>1, <1>3, NextStage
<1> QED
  BY <1>2, <1>4 DEF BootInv, BootTypes, StackSize, Address, Cell

LEMMA WroteThere ==
  ASSUME BootInv, NEW addresses \in SUBSET Address, NEW what \in Cell,
         memory' = Wrote(addresses, what)
  PROVE  /\ memory' \in [Address -> Cell]
         /\ \A a \in Address :
              memory'[a] = IF a \in addresses THEN what ELSE memory[a]
  BY DEF BootInv, BootTypes, Wrote

\* A firmware loses nothing to what is written where it may not be.
LEMMA WritesAside ==
  ASSUME BootInv, UNCHANGED owned, NEW addresses \in SUBSET Address,
         NEW what \in Cell, memory' = Wrote(addresses, what),
         addresses \intersect owned \subseteq Bss64 \union ARENA
  PROVE  FirmwareIntact'
<1> SUFFICES ASSUME owned \intersect (Bss64 \union ARENA) = {},
                    NEW a \in owned
             PROVE  memory'[a] = "firmware"
  BY DEF FirmwareIntact, Bss64, BssStart, PageUp
<1>1. a \in Address /\ a \notin addresses
  BY DEF BootInv, BootTypes
<1>2. memory'[a] = memory[a]
  BY <1>1, WroteThere
<1> QED
  BY <1>2 DEF BootInv, FirmwareIntact

-----------------------------------------------------------------------------
(* Each stage keeps the invariant. *)

LEMMA AllocateStep ==
  ASSUME Assumptions, BootInv, Allocate PROVE BootInv'
<1>1. /\ build = "uefi" /\ stage = 1 /\ stage < Len(Stages) /\ status = "running"
  BY Where DEF Allocate, At
<1>2. /\ at' \in Address
      /\ \/ stage' = stage + 1 /\ status' = status /\ Free(at')
         \/ stage' = stage /\ status' = "returned"
      /\ UNCHANGED <<build, owned, memory, rdi, cpu, fsbase, depth>>
  BY Layout DEF Allocate, Onward, Ends, Fixed, BootInv, BootTypes
<1>3. BootTypes'
  BY <1>1, <1>2, TypesStay DEF BootInv, BootTypes
<1>4. Loaded'
  BY <1>1, <1>2 DEF Loaded, Done, Free, Pages, Address
<1>5. Paging' /\ TableOnItsWay' /\ ThreadThere'
  BY <1>1, <1>2 DEF BootInv, Paging, TableOnItsWay, ThreadThere, Done
<1>6. FirmwareIntact'
  BY <1>2 DEF BootInv, FirmwareIntact, Bss64, BssStart, PageUp
<1> QED
  BY <1>3, <1>4, <1>5, <1>6 DEF BootInv

LEMMA CopyStep ==
  ASSUME Assumptions, BootInv, Copy PROVE BootInv'
<1>1. /\ build = "uefi" /\ stage = 2 /\ stage < Len(Stages)
  BY Where DEF Copy, Writes
<1>2. Done(6, 1) /\ build # "multiboot"
  BY <1>1 DEF Done
<1>3. Free(at) /\ at \in Address
  BY <1>2 DEF BootInv, BootTypes, Loaded
<1> DEFINE A == at .. at + IMAGE - 1
<1>4. A \in SUBSET Address /\ A \intersect owned = {}
  BY <1>3, FreePages
<1>5. /\ memory' = Wrote(A, "image") /\ stage' = stage + 1 /\ status' = status
      /\ UNCHANGED <<build, owned, at, cpu, depth, rdi, fsbase>>
  BY <1>4, WritesThere DEF Copy
<1>6. memory' \in [Address -> Cell]
  BY <1>4, <1>5, WroteThere DEF Cell
<1>7. BootTypes'
  BY <1>1, <1>5, <1>6, TypesStay DEF BootInv, BootTypes
<1>8. Loaded'
  BY <1>1, <1>3, <1>5 DEF Loaded, Done, Free, Pages, Address
<1>9. Paging' /\ TableOnItsWay' /\ ThreadThere'
  BY <1>1, <1>5 DEF BootInv, Paging, TableOnItsWay, ThreadThere, Done
<1>10. FirmwareIntact'
  BY <1>4, <1>5, WritesAside DEF Cell
<1> QED
  BY <1>7, <1>8, <1>9, <1>10 DEF BootInv

LEMMA ClearBss32Step ==
  ASSUME Assumptions, BootInv, ClearBss32 PROVE BootInv'
<1>1. build = "multiboot" /\ stage = 1 /\ stage < Len(Stages)
  BY Where DEF ClearBss32, Writes
<1>2. Bss32 \in SUBSET Address /\ LOAD \in Address /\ LOAD \notin Bss32
  BY Layout
<1>3. /\ memory' = Wrote(Bss32, "zero") /\ stage' = stage + 1
      /\ status' = status
      /\ UNCHANGED <<build, owned, at, cpu, depth, rdi, fsbase>>
  BY <1>2, WritesThere DEF ClearBss32
<1>4. memory' \in [Address -> Cell] /\ memory'[LOAD] = memory[LOAD]
  BY <1>2, <1>3, WroteThere DEF Cell
<1>5. BootTypes'
  BY <1>1, <1>3, <1>4, TypesStay DEF BootInv, BootTypes
<1>6. Loaded'
  BY <1>1, <1>3, <1>4 DEF BootInv, Loaded, Done
<1>7. Paging' /\ TableOnItsWay' /\ ThreadThere'
  BY <1>1, <1>3 DEF BootInv, Paging, TableOnItsWay, ThreadThere, Done
<1>8. FirmwareIntact'
  BY <1>1, <1>3, <1>6 DEF Loaded, FirmwareIntact
<1> QED
  BY <1>5, <1>6, <1>7, <1>8 DEF BootInv

LEMMA FillTablesStep ==
  ASSUME Assumptions, BootInv, FillTables PROVE BootInv'
<1>1. /\ build = "multiboot" /\ stage = 2 /\ stage < Len(Stages)
  BY Where DEF FillTables
<1>2. /\ memory' = [memory EXCEPT ![PML4] = "pdpt", ![PDPT] = "pd",
                                  ![PD] = "pages"]
      /\ stage' = stage + 1 /\ status' = status
      /\ UNCHANGED <<build, owned, at, cpu, depth, rdi, fsbase>>
  BY DEF FillTables, Onward, Fixed
<1>3. /\ PML4 \in Address /\ PDPT \in Address /\ PD \in Address
      /\ LOAD \in Address /\ LOAD \notin {PML4, PDPT, PD}
  BY Layout DEF Bss32
<1>4. memory \in [Address -> Cell]
  BY DEF BootInv, BootTypes
<1>5. /\ memory' \in [Address -> Cell] /\ memory'[LOAD] = memory[LOAD]
      /\ memory'[PML4] = "pdpt" /\ memory'[PDPT] = "pd" /\ memory'[PD] = "pages"
  BY <1>2, <1>3, <1>4 DEF Cell, PML4, PDPT, PD
<1>6. BootTypes'
  BY <1>1, <1>2, <1>5, TypesStay DEF BootInv, BootTypes
<1>7. Loaded'
  BY <1>1, <1>2, <1>5 DEF BootInv, Loaded, Done
<1>8. Paging' /\ TableOnItsWay' /\ ThreadThere'
  BY <1>1, <1>2, <1>5 DEF BootInv, Paging, TableOnItsWay, ThreadThere, Done,
     PML4, PDPT, PD
<1>9. FirmwareIntact'
  BY <1>1, <1>2, <1>7 DEF Loaded, FirmwareIntact
<1> QED
  BY <1>6, <1>7, <1>8, <1>9 DEF BootInv

LEMMA SwitchOnStep ==
  ASSUME Assumptions, BootInv, SwitchOn PROVE BootInv'
<1>1. PICK s \in {"PAE", "CR3", "LME"} :
        Passes(s, TRUE, "fault") /\ cpu' = cpu \union {s}
        /\ UNCHANGED <<fsbase, depth>>
  BY DEF SwitchOn
<1>2. /\ At(s) /\ stage' = stage + 1 /\ status' = status
      /\ UNCHANGED <<build, owned, memory, at, rdi, fsbase, depth>>
  BY <1>1 DEF Passes, Onward, Fixed
<1>3. /\ build = "multiboot" /\ stage < Len(Stages)
      /\ stage = CASE s = "PAE" -> 3 [] s = "CR3" -> 4 [] s = "LME" -> 5
  BY <1>2, Where
<1>4. BootTypes'
  BY <1>1, <1>2, <1>3, TypesStay DEF BootInv, BootTypes
<1>5. Loaded'
  BY <1>2, <1>3 DEF BootInv, Loaded, Done
<1>6. Paging' /\ TableOnItsWay' /\ ThreadThere'
  BY <1>1, <1>2, <1>3
     DEF BootInv, Paging, TableOnItsWay, ThreadThere, Done, PML4, PDPT, PD
<1>7. FirmwareIntact'
  BY <1>2, <1>3, <1>5 DEF Loaded, FirmwareIntact
<1> QED
  BY <1>4, <1>5, <1>6, <1>7 DEF BootInv

LEMMA EnablePagingStep ==
  ASSUME Assumptions, BootInv, EnablePaging PROVE BootInv'
<1>1. build = "multiboot" /\ stage = 6 /\ stage < Len(Stages)
  BY Where DEF EnablePaging, Passes
<1>2. {"PAE", "CR3", "LME"} \subseteq cpu /\ memory[LOAD] = "image"
  BY <1>1 DEF BootInv, Loaded, Paging, Done
<1>3. LOAD .. LOAD + IMAGE - 1 \subseteq Mapped
  <2>1. /\ memory[PML4] = "pdpt" /\ memory[PDPT] = "pd" /\ memory[PD] = "pages"
    BY <1>1 DEF BootInv, Paging, Done
  <2> DEFINE e == PD_ENTRIES * BIG
  <2>2. TOP \in Nat /\ e \in Int /\ TOP <= e
    BY DEF Assumptions, BootAssumption, LayoutAssumption
  <2>3. Mapped = {a \in Address : a < e}
    BY <1>1, <2>1 DEF Mapped, Entries
  <2> HIDE DEF e
  <2>4. Mapped = Address
    BY <2>2, <2>3 DEF Address
  <2> QED
    BY <2>4, Layout
<1>4. /\ stage' = stage + 1 /\ status' = status /\ cpu' = cpu \union {"PG"}
      /\ UNCHANGED <<build, owned, memory, at, rdi, fsbase, depth>>
  BY <1>2, <1>3 DEF EnablePaging, Passes, Onward, Fixed
<1>5. BootTypes'
  BY <1>1, <1>4, TypesStay DEF BootInv, BootTypes
<1>6. Loaded'
  BY <1>1, <1>4 DEF BootInv, Loaded, Done
<1>7. Paging' /\ TableOnItsWay' /\ ThreadThere'
  BY <1>1, <1>4
     DEF BootInv, Paging, TableOnItsWay, ThreadThere, Done, PML4, PDPT, PD
<1>8. FirmwareIntact'
  BY <1>1, <1>4, <1>6 DEF Loaded, FirmwareIntact
<1> QED
  BY <1>5, <1>6, <1>7, <1>8 DEF BootInv


\* Where entry64.S keeps the system table is in the image, wherever that is.
LEMMA SlotOfImage ==
  ASSUME Assumptions, BootInv, Done(6, 1)
  PROVE  /\ Slot(at) \in Address /\ Slot(at) \notin owned
         /\ build = "multiboot" => Slot(at) \notin Bss32
         /\ at = LOAD => Slot(at) \notin Bss64 \union ARENA
<1>1. CASE at = LOAD
  <2>1. Slot(at) = LOAD + IMAGE - 1
    BY <1>1 DEF Slot
  <2>2. /\ LOAD \in Nat /\ IMAGE \in Nat \ {0} /\ BssStart \in Nat
        /\ LOAD + IMAGE <= BssStart
        /\ LOAD .. LOAD + IMAGE - 1 \subseteq Address
        /\ Bss32 \subseteq 0 .. LOAD - 1
        /\ Bss64 \subseteq BssStart .. TOP - 1
        /\ ARENA \subseteq BssStart .. TOP - 1
    BY Layout
  <2>3. Slot(at) \in LOAD .. LOAD + IMAGE - 1
    BY <2>1, <2>2
  <2>4. Slot(at) \in Address /\ Slot(at) \notin Bss32
    BY <2>2, <2>3
  <2>5. Slot(at) \notin Bss64 \union ARENA
    BY <2>1, <2>2
  <2>6. Slot(at) \notin owned
    <3>1. CASE build = "multiboot"
      BY <3>1 DEF BootInv, Loaded
    <3>2. CASE build # "multiboot"
      BY <1>1, <2>3, <3>2, FreePages DEF BootInv, BootTypes, Loaded
    <3> QED
      BY <3>1, <3>2
  <2> QED
    BY <2>4, <2>5, <2>6
<1>2. CASE at # LOAD
  <2>1. build # "multiboot" /\ Free(at) /\ at \in Address
    BY <1>2 DEF BootInv, BootTypes, Loaded
  <2> QED
    BY <1>2, <2>1, FreePages
<1> QED
  BY <1>1, <1>2

LEMMA KeepTableStep ==
  ASSUME Assumptions, BootInv, KeepTable PROVE BootInv'
<1>1. /\ build \in {"multiboot", "uefi"} /\ stage < Len(Stages)
      /\ stage = IF build = "multiboot" THEN 7 ELSE 3
  BY Where DEF KeepTable, Writes
<1>2. Done(6, 1) /\ ~Done(8, 4)
  BY <1>1 DEF Done
<1>3. rdi = IF build = "uefi" THEN "table" ELSE "leftover"
  BY <1>2 DEF BootInv, TableOnItsWay
<1>4. {Slot(at)} \in SUBSET Address /\ rdi \in Cell
  BY <1>2, <1>3, SlotOfImage DEF Cell
<1>5. /\ memory' = Wrote({Slot(at)}, rdi) /\ stage' = stage + 1
      /\ status' = status
      /\ UNCHANGED <<build, owned, at, cpu, depth, rdi, fsbase>>
  BY <1>4, WritesThere DEF KeepTable
<1>6. /\ memory' \in [Address -> Cell]
      /\ \A a \in Address :
           memory'[a] = IF a = Slot(at) THEN rdi ELSE memory[a]
  BY <1>4, <1>5, WroteThere
<1>7. BootTypes'
  BY <1>1, <1>5, <1>6, TypesStay DEF BootInv, BootTypes
<1>8. Loaded'
  BY <1>1, <1>2, <1>5 DEF BootInv, Loaded, Done, Free, Pages, Address
<1>9. Paging'
  <2> SUFFICES ASSUME build = "multiboot" PROVE Paging'
    BY <1>5 DEF Paging
  <2>1. Slot(at) \notin {PML4, PDPT, PD} /\ {PML4, PDPT, PD} \subseteq Address
    BY <1>2, SlotOfImage, Layout DEF Bss32
  <2>2. /\ memory'[PML4] = memory[PML4] /\ memory'[PDPT] = memory[PDPT]
        /\ memory'[PD] = memory[PD]
    BY <1>6, <2>1
  <2> QED
    BY <1>1, <1>5, <2>2 DEF BootInv, Paging, Done, PML4, PDPT, PD
<1>10. TableOnItsWay' /\ ThreadThere'
  <2>1. build = "uefi" => (Table = "table")'
    BY <1>3, <1>4, <1>5, <1>6 DEF Table, Slot
  <2>2. ~Done(12, 8)'
    BY <1>1, <1>5 DEF Done
  <2> QED
    BY <1>3, <1>5, <2>1, <2>2 DEF TableOnItsWay, ThreadThere
<1>11. FirmwareIntact'
  BY <1>2, <1>4, <1>5, WritesAside, SlotOfImage
<1> QED
  BY <1>7, <1>8, <1>9, <1>10, <1>11 DEF BootInv

\* Writes above the image leave the tables and the system table alone.
LEMMA WritesAbove ==
  ASSUME Assumptions, BootInv, Done(7, 3), Done(7, 3)',
         NEW addresses \in SUBSET (Bss64 \union ARENA), NEW what \in Cell,
         memory' = Wrote(addresses, what),
         stage' = stage + 1, status' = status, stage < Len(Stages),
         UNCHANGED <<build, owned, at, cpu>>,
         rdi' \in {"leftover", "table", "end"}, fsbase' \in Address,
         depth' \in 0 .. StackSize,
         ~Done(8, 4)' => rdi' = IF build = "uefi" THEN "table" ELSE "leftover",
         ThreadThere'
  PROVE  BootInv'
<1>1. build \in {"multiboot", "uefi"} /\ stage \in Nat
  BY Where
<1>2. addresses \in SUBSET Address
  BY Layout
<1>3. /\ memory' \in [Address -> Cell]
      /\ \A a \in Address :
           memory'[a] = IF a \in addresses THEN what ELSE memory[a]
  BY <1>2, WroteThere
<1>4. BootTypes'
  BY <1>3, TypesStay DEF BootInv, BootTypes
<1>5. stage > IF build = "multiboot" THEN 7 ELSE 3
  BY DEF Done
<1>6. Loaded'
  BY <1>1, <1>5 DEF BootInv, Loaded, Done, Free, Pages, Address
<1>7. Paging'
  <2>1. /\ {PML4, PDPT, PD} \subseteq Address
        /\ {PML4, PDPT, PD} \intersect addresses = {}
    <3>1. /\ Bss32 \subseteq 0 .. LOAD - 1 /\ LOAD \in Nat /\ IMAGE \in Nat
          /\ BssStart \in Nat /\ LOAD + IMAGE <= BssStart
          /\ Bss64 \subseteq BssStart .. TOP - 1
          /\ ARENA \subseteq BssStart .. TOP - 1
          /\ Bss32 \subseteq Address
      BY Layout
    <3>2. Bss32 \intersect (Bss64 \union ARENA) = {}
      BY <3>1
    <3> QED
      BY <3>1, <3>2 DEF Bss32
  <2>2. /\ memory'[PML4] = memory[PML4] /\ memory'[PDPT] = memory[PDPT]
        /\ memory'[PD] = memory[PD]
    BY <1>3, <2>1
  <2> QED
    BY <1>1, <1>5, <2>2 DEF BootInv, Paging, Done, PML4, PDPT, PD
<1>8. TableOnItsWay'
  <2> SUFFICES ASSUME build = "uefi", at = LOAD PROVE (Table = "table")'
    BY DEF TableOnItsWay
  <2>1. Done(6, 1)
    BY <1>1, <1>5 DEF Done
  <2>2. Slot(at) \in Address /\ Slot(at) \notin addresses
    BY <2>1, SlotOfImage
  <2>3. Table = "table" /\ Table = memory[Slot(at)]
    BY DEF BootInv, TableOnItsWay, Table
  <2> QED
    BY <1>3, <2>2, <2>3 DEF Table, Slot
<1>9. FirmwareIntact'
  BY <1>2, WritesAside
<1> QED
  BY <1>4, <1>6, <1>7, <1>8, <1>9 DEF BootInv

LEMMA ClearBss64Step ==
  ASSUME Assumptions, BootInv, ClearBss64 PROVE BootInv'
<1>1. /\ build \in {"multiboot", "uefi"} /\ stage < Len(Stages)
      /\ stage = IF build = "multiboot" THEN 8 ELSE 4
  BY Where DEF ClearBss64, Writes
<1>2. Bss64 \in SUBSET Address
  BY Layout
<1>3. /\ memory' = Wrote(Bss64, "zero") /\ stage' = stage + 1
      /\ status' = status /\ rdi' = "end"
      /\ UNCHANGED <<build, owned, at, cpu, depth, fsbase>>
  BY <1>2, WritesThere DEF ClearBss64
<1>4. Done(7, 3) /\ Done(7, 3)' /\ Done(8, 4)' /\ ThreadThere'
  BY <1>1, <1>3 DEF Done, ThreadThere
<1>5. depth' \in 0 .. StackSize /\ fsbase' \in Address
  BY <1>3 DEF BootInv, BootTypes
<1>6. Bss64 \in SUBSET (Bss64 \union ARENA) /\ "zero" \in Cell
  BY DEF Cell
<1> QED
  BY <1>1, <1>3, <1>4, <1>5, <1>6, WritesAbove

LEMMA SetStackStep ==
  ASSUME Assumptions, BootInv, SetStack PROVE BootInv'
<1>1. /\ build \in {"multiboot", "uefi"} /\ stage < Len(Stages)
      /\ stage = IF build = "multiboot" THEN 9 ELSE 5
  BY Where DEF SetStack, Writes
<1>2. /\ {Stack} \in SUBSET Address
      /\ {Stack} \in SUBSET (Bss64 \union ARENA) /\ "stack" \in Cell
  BY Layout DEF Cell
<1>3. /\ memory' = Wrote({Stack}, "stack") /\ stage' = stage + 1
      /\ status' = status
      /\ UNCHANGED <<build, owned, at, cpu, depth, rdi, fsbase>>
  BY <1>2, WritesThere DEF SetStack
<1>4. Done(7, 3) /\ Done(7, 3)' /\ Done(8, 4)' /\ ThreadThere'
  BY <1>1, <1>3 DEF Done, ThreadThere
<1>5. /\ depth' \in 0 .. StackSize /\ fsbase' \in Address
      /\ rdi' \in {"leftover", "table", "end"}
  BY <1>3 DEF BootInv, BootTypes
<1> QED
  BY <1>1, <1>2, <1>3, <1>4, <1>5, WritesAbove

LEMMA InitMuslTlsStep ==
  ASSUME Assumptions, BootInv, InitMuslTls PROVE BootInv'
<1>1. /\ build \in {"multiboot", "uefi"} /\ stage < Len(Stages)
      /\ stage = IF build = "multiboot" THEN 12 ELSE 8
  BY Where DEF InitMuslTls, Writes
<1>2. /\ {Tp} \in SUBSET Address /\ Tp \in Address
      /\ {Tp} \in SUBSET (Bss64 \union ARENA) /\ "self" \in Cell
  BY Layout DEF Cell
<1>3. /\ memory' = Wrote({Tp}, "self") /\ stage' = stage + 1
      /\ status' = status /\ fsbase' = Tp
      /\ UNCHANGED <<build, owned, at, cpu, depth, rdi>>
  BY <1>2, WritesThere DEF InitMuslTls
<1>4. memory'[Tp] = "self"
  BY <1>2, <1>3, WroteThere
<1>5. Done(7, 3) /\ Done(7, 3)' /\ Done(8, 4)'
  BY <1>1, <1>3 DEF Done
<1>6. ThreadThere'
  BY <1>3, <1>4 DEF ThreadThere, Tp, BssStart, PageUp
<1>7. depth' \in 0 .. StackSize /\ rdi' \in {"leftover", "table", "end"}
  BY <1>3 DEF BootInv, BootTypes
<1> QED
  BY <1>1, <1>2, <1>3, <1>5, <1>6, <1>7, WritesAbove

LEMMA RubySetupStep ==
  ASSUME Assumptions, BootInv, RubySetup PROVE BootInv'
<1>1. /\ build \in {"multiboot", "uefi"} /\ stage < Len(Stages)
      /\ stage = IF build = "multiboot" THEN 15 ELSE 10
  BY Where DEF RubySetup
<1> DEFINE A == {Heap} \union ARENA
<1>2. /\ A \in SUBSET Address /\ A \in SUBSET (Bss64 \union ARENA)
      /\ Tp \in Address /\ Tp \notin A /\ "ruby" \in Cell
  BY Layout DEF Cell
<1>3. fsbase = Tp /\ memory[Tp] = "self" /\ Reaches(A)
  BY <1>1, <1>2, AllIsReached DEF BootInv, ThreadThere, Done
<1>4. /\ memory' = Wrote(A, "ruby") /\ stage' = stage + 1 /\ status' = status
      /\ depth' = FRAMES
      /\ UNCHANGED <<build, owned, at, cpu, rdi, fsbase>>
  BY <1>3 DEF RubySetup, Onward, Fixed
<1>5. memory'[Tp] = "self"
  BY <1>2, <1>3, <1>4, WroteThere
<1>6. Done(7, 3) /\ Done(7, 3)' /\ Done(8, 4)'
  BY <1>1, <1>4 DEF Done
<1>7. ThreadThere'
  BY <1>3, <1>4, <1>5 DEF ThreadThere, Tp, BssStart, PageUp
<1>8. rdi' \in {"leftover", "table", "end"} /\ fsbase' \in Address
  BY <1>4 DEF BootInv, BootTypes
<1>9. depth' \in 0 .. StackSize
  <2>1. FRAMES \in Nat /\ STACK \in Nat /\ FRAMES <= STACK
    BY DEF Assumptions, BootAssumption, LayoutAssumption
  <2> QED
    BY <1>4, <2>1 DEF StackSize
<1> QED
  BY <1>1, <1>2, <1>4, <1>6, <1>7, <1>8, <1>9, WritesAbove

-----------------------------------------------------------------------------
\* What the stages after the clearing of the BSS begin, but for that of
\* init_musl_tls: nothing that the invariant tells apart.
LEMMA Onwards ==
  ASSUME stage \in Nat, build' = build, stage' = stage + 1,
         IF build = "multiboot" THEN stage > 8 /\ stage # 12
                                ELSE stage > 4 /\ stage # 8
  PROVE  /\ build # "multiboot" => (Done(6, 1)' => Done(6, 1))
         /\ build = "multiboot" => /\ ~Done(6, 0)' => ~Done(6, 0)
                                   /\ Done(2, 0)' => Done(2, 0)
                                   /\ Done(3, 0)' => Done(3, 0)
                                   /\ Done(4, 0)' => Done(4, 0)
                                   /\ Done(5, 0)' => Done(5, 0)
         /\ ~Done(8, 4)' => ~Done(8, 4)
         /\ Done(7, 3)' => Done(7, 3)
         /\ Done(12, 8)' => Done(12, 8)
<1>1. CASE build = "multiboot"
  <2>1. stage > 8 /\ stage # 12
    BY <1>1
  <2> QED
    BY <1>1, <2>1 DEF Done
<1>2. CASE build # "multiboot"
  <2>1. stage > 4 /\ stage # 8
    BY <1>2
  <2> QED
    BY <1>2, <2>1 DEF Done
<1> QED
  BY <1>1, <1>2

\* The steps that write nothing.
LEMMA NothingWritten ==
  ASSUME BootInv, UNCHANGED <<build, owned, memory, at, rdi, cpu, fsbase>>,
         depth' \in 0 .. StackSize,
         \/ stage' = stage /\ status' \in {"running", "returned", "astray",
                                           "panic", "halted", "exit called"}
         \/ /\ stage' = stage + 1 /\ stage < Len(Stages) /\ status' = status
            /\ Done(8, 4) /\ stage # IF build = "multiboot" THEN 12 ELSE 8
  PROVE  BootInv'
<1>1. build \in {"multiboot", "uefi"} /\ stage \in Nat
  BY Where
<1>2. BootTypes'
  BY TypesStay DEF BootInv, BootTypes
<1>3. /\ build # "multiboot" => (Done(6, 1)' => Done(6, 1))
      /\ build = "multiboot" => /\ ~Done(6, 0)' => ~Done(6, 0)
                                /\ Done(2, 0)' => Done(2, 0)
                                /\ Done(3, 0)' => Done(3, 0)
                                /\ Done(4, 0)' => Done(4, 0)
                                /\ Done(5, 0)' => Done(5, 0)
      /\ ~Done(8, 4)' => ~Done(8, 4)
      /\ Done(7, 3)' => Done(7, 3)
      /\ Done(12, 8)' => Done(12, 8)
  <2>1. CASE stage' = stage
    BY <2>1 DEF Done
  <2>2. CASE stage' = stage + 1 /\ Done(8, 4)
            /\ stage # IF build = "multiboot" THEN 12 ELSE 8
    <3>1. IF build = "multiboot" THEN stage > 8 /\ stage # 12
                                 ELSE stage > 4 /\ stage # 8
      BY <2>2 DEF Done
    <3> QED
      BY <1>1, <2>2, <3>1, Onwards
  <2> QED
    BY <2>1, <2>2
<1>4. Loaded'
  BY <1>3 DEF BootInv, Loaded, Free, Pages, Address
<1>5. Paging'
  BY <1>3 DEF BootInv, Paging, PML4, PDPT, PD
<1>6. TableOnItsWay'
  BY <1>3 DEF BootInv, TableOnItsWay, Table, Slot
<1>7. ThreadThere'
  BY <1>3 DEF BootInv, ThreadThere, Tp, BssStart, PageUp
<1>8. FirmwareIntact'
  BY DEF BootInv, FirmwareIntact, Bss64, BssStart, PageUp
<1> QED
  BY <1>2, <1>4, <1>5, <1>6, <1>7, <1>8 DEF BootInv

LEMMA SerialInitStep ==
  ASSUME Assumptions, BootInv, SerialInit PROVE BootInv'
<1>1. /\ build \in {"multiboot", "uefi"} /\ stage < Len(Stages)
      /\ stage = IF build = "multiboot" THEN 10 ELSE 6
  BY Where DEF SerialInit, Passes
<1>2. Done(8, 4) /\ Done(7, 3) /\ stage # IF build = "multiboot" THEN 12 ELSE 8
  BY <1>1 DEF Done
<1>3. at = LOAD /\ build = "uefi" => Table \in {"table", "zero"}
  BY <1>2 DEF BootInv, TableOnItsWay
<1>4. /\ UNCHANGED <<build, owned, memory, at, rdi, cpu, fsbase, depth>>
      /\ \/ stage' = stage + 1 /\ status' = status
         \/ stage' = stage /\ status' = "astray"
  BY <1>3 DEF SerialInit, Passes, Onward, Ends, Fixed
<1>5. depth' \in 0 .. StackSize
  BY <1>4 DEF BootInv, BootTypes
<1> QED
  BY <1>1, <1>2, <1>4, <1>5, NothingWritten

LEMMA PassesStep ==
  ASSUME Assumptions, BootInv, MemoryInit \/ FindHello \/ SelectScript
  PROVE  BootInv'
<1>1. /\ build \in {"multiboot", "uefi"} /\ stage < Len(Stages)
      /\ \/ build = "multiboot" /\ stage \in {13, 14, 16}
         \/ build = "uefi" /\ stage \in {9, 11}
  BY Where DEF MemoryInit, FindHello, SelectScript, Passes
<1>2. Done(8, 4) /\ stage # IF build = "multiboot" THEN 12 ELSE 8
  BY <1>1 DEF Done
<1>3. /\ UNCHANGED <<build, owned, memory, at, rdi, cpu, fsbase, depth>>
      /\ \/ stage' = stage + 1 /\ status' = status
         \/ stage' = stage /\ status' = "panic"
  BY DEF MemoryInit, FindHello, SelectScript, Passes, Onward, Ends, Fixed
<1>4. depth' \in 0 .. StackSize
  BY <1>3 DEF BootInv, BootTypes
<1> QED
  BY <1>1, <1>2, <1>3, <1>4, NothingWritten

LEMMA TimerStepStep ==
  ASSUME Assumptions, BootInv, TimerStep PROVE BootInv'
<1>1. /\ build \in {"multiboot", "uefi"} /\ stage < Len(Stages)
      /\ stage = IF build = "multiboot" THEN 11 ELSE 7
  BY Where DEF TimerStep
<1>2. Done(8, 4) /\ stage # IF build = "multiboot" THEN 12 ELSE 8
  BY <1>1 DEF Done
<1>3. /\ UNCHANGED <<build, owned, memory, at, rdi, cpu, fsbase, depth>>
      /\ \/ stage' = stage + 1 /\ status' = status
         \/ stage' = stage /\ status' = "running"
  BY DEF TimerStep, At, Onward, Fixed
<1>4. depth' \in 0 .. StackSize
  BY <1>3 DEF BootInv, BootTypes
<1> QED
  BY <1>1, <1>2, <1>3, <1>4, NothingWritten

\* The evaluation: a call is made only while CRuby counts room for it, and what
\* it counts leaves out no more than its margin.
LEMMA EvalStep ==
  ASSUME Assumptions, BootInv,
         \/ Sleep \/ Awake \/ Unwind \/ EvalEnds \/ Time
         \/ \E f \in CallFrame : Call(f)
  PROVE  BootInv'
<1>1. /\ UNCHANGED <<build, owned, memory, at, rdi, cpu, fsbase, stage>>
      /\ status' \in {"running", "returned", "astray", "panic", "halted",
                      "exit called"}
  BY DEF Sleep, Awake, Unwind, EvalEnds, Time, Call, Same, Fixed, Ends,
         bootVars, BootInv, BootTypes
<1>2. depth' \in 0 .. StackSize
  <2>1. /\ FRAMES \in Nat /\ MARGIN \in Nat /\ STACK \in Nat
        /\ FRAMES <= STACK /\ depth \in 0 .. STACK
        /\ \A f \in CallFrame : f \in Nat /\ FRAMES + f <= MARGIN
    BY DEF Assumptions, BootAssumption, LayoutAssumption, BootInv, BootTypes,
           StackSize
  <2>2. CASE \E f \in CallFrame : Call(f)
    BY <2>1, <2>2 DEF Call, StackMaxsize, StackSize
  <2>3. CASE Unwind
    BY <2>1, <2>3 DEF Unwind, StackSize
  <2>4. CASE Sleep \/ Awake \/ EvalEnds \/ Time
    BY <2>1, <2>4 DEF Sleep, Awake, EvalEnds, Time, bootVars, StackSize
  <2> QED
    BY <2>2, <2>3, <2>4
<1> QED
  BY <1>1, <1>2, NothingWritten


-----------------------------------------------------------------------------
(* The theorems. *)

IInv == ClockInv /\ BootInv

LEMMA NextKeepsIInv ==
  ASSUME Assumptions, ClockAssumption, IInv, [Next]_vars PROVE IInv'
<1>1. ClockInv'
  <2>1. CASE UNCHANGED clockVars
    BY <2>1, ClockStutters DEF IInv
  <2>2. CASE TimerInit
    BY <2>2, TimerInitStep DEF IInv
  <2>3. CASE \E ms \in Pause : BusySleep(ms)
    BY <2>3, BusySleepStep DEF IInv
  <2>4. CASE SleepEnds
    BY <2>4, SleepEndsStep DEF IInv
  <2>5. CASE Tick
    BY <2>5, TickStep DEF IInv
  <2>6. \/ UNCHANGED clockVars \/ TimerInit \/ SleepEnds \/ Tick
        \/ \E ms \in Pause : BusySleep(ms)
    BY DEF Next, Boot, Allocate, Copy, ClearBss32, FillTables, SwitchOn,
           EnablePaging, KeepTable, ClearBss64, SetStack, SerialInit,
           TimerStep, InitMuslTls, MemoryInit, FindHello, RubySetup,
           SelectScript, Sleep, Awake, Unwind, EvalEnds, Time, Call, Writes,
           Passes, vars
  <2> QED
    BY <2>1, <2>2, <2>3, <2>4, <2>5, <2>6
<1>2. BootInv'
  <2>1. CASE Boot
    BY <2>1, AllocateStep, CopyStep, ClearBss32Step, FillTablesStep,
       SwitchOnStep, EnablePagingStep, KeepTableStep, ClearBss64Step,
       SetStackStep, SerialInitStep, TimerStepStep, InitMuslTlsStep,
       PassesStep, RubySetupStep DEF Boot, IInv
  <2>2. CASE \/ Sleep \/ Awake \/ Unwind \/ EvalEnds \/ Time
             \/ \E f \in CallFrame : Call(f)
    BY <2>2, EvalStep DEF IInv
  <2>3. CASE UNCHANGED vars
    <3>1. status' \in {"running", "returned", "astray", "panic", "halted",
                       "exit called"} /\ depth' \in 0 .. StackSize
      BY <2>3 DEF vars, bootVars, IInv, BootInv, BootTypes
    <3> QED
      BY <2>3, <3>1, NothingWritten DEF vars, bootVars, IInv
  <2> QED
    BY <2>1, <2>2, <2>3 DEF Next
<1> QED
  BY <1>1, <1>2 DEF IInv

LEMMA AlwaysIInv == Assumptions /\ ClockAssumption /\ Spec => []IInv
<1> SUFFICES ASSUME Assumptions, ClockAssumption PROVE Spec => []IInv
  OBVIOUS
<1>1. Init => IInv
  BY InitClockInv, InitBootInv DEF Init, IInv
<1>2. IInv /\ [Next]_vars => IInv'
  BY NextKeepsIInv
<1> QED
  BY <1>1, <1>2, PTL DEF Spec

\* TypeOK holds for any memory and any counter; with it the stack of entry64.S
\* is never used up before CRuby raises SystemStackError, for
\* FRAMES <= STACK and FRAMES + f <= MARGIN.
THEOREM BootTypeCorrect == Assumptions /\ ClockAssumption /\ Spec => []TypeOK
<1> SUFFICES ASSUME Assumptions, ClockAssumption PROVE Spec => []TypeOK
  OBVIOUS
<1>1. Spec => []IInv
  BY AlwaysIInv
<1>2. IInv => TypeOK
  BY BootInvImplies DEF IInv
<1> QED
  BY <1>1, <1>2, PTL

\* No boot ends in a fault: the page tables of boot.S survive the clearing of
\* the BSS and map all that entry64.S, musl and the heaps reach, and the thread
\* pointer of init_musl_tls is there when ruby_setup asks for it.
THEOREM NoBootFaults == Assumptions /\ ClockAssumption /\ Spec => []NeverFaults
<1> SUFFICES ASSUME Assumptions, ClockAssumption PROVE Spec => []NeverFaults
  OBVIOUS
<1>1. Spec => []IInv
  BY AlwaysIInv
<1>2. IInv => NeverFaults
  BY BootInvImplies DEF IInv
<1> QED
  BY <1>1, <1>2, PTL

\* The console of a UEFI kernel finds the firmware's system table, wherever in
\* .data entry64.S keeps it and however long .bss is.
THEOREM TableReachesConsole ==
  Assumptions /\ ClockAssumption /\ Spec => []SystemTableKept
<1> SUFFICES ASSUME Assumptions, ClockAssumption
             PROVE  Spec => []SystemTableKept
  OBVIOUS
<1>1. Spec => []IInv
  BY AlwaysIInv
<1>2. IInv => SystemTableKept
  BY BootInvImplies DEF IInv
<1> QED
  BY <1>1, <1>2, PTL

\* efi_main and what it starts overwrite nothing the firmware owns but what it
\* owns of the kernel's BSS and of the arena, wherever the image is put.
THEOREM FirmwareKeepsItsOwn ==
  Assumptions /\ ClockAssumption /\ Spec => []FirmwareIntact
<1> SUFFICES ASSUME Assumptions, ClockAssumption
             PROVE  Spec => []FirmwareIntact
  OBVIOUS
<1>1. Spec => []IInv
  BY AlwaysIInv
<1>2. IInv => FirmwareIntact
  BY DEF IInv, BootInv
<1> QED
  BY <1>1, <1>2, PTL

\* A busy_sleep of n milliseconds lasts more than n - 1 of them, but for what
\* timer_init lost, whatever the counter's speed and whatever keeps the
\* processor away between two steps.
THEOREM SleepsLastLongEnough ==
  Assumptions /\ ClockAssumption /\ Spec => NotCutShort
<1> SUFFICES ASSUME Assumptions, ClockAssumption PROVE Spec => NotCutShort
  OBVIOUS
<1>1. ASSUME IInv, [Next]_vars, waiting, ~waiting'
      PROVE  CAL_MS * (tsc - since) > (sec - 1) * (window - early - CAL_MS)
  <2>1. SleepEnds
    BY <1>1 DEF Next, Boot, Allocate, Copy, ClearBss32, FillTables, SwitchOn,
           EnablePaging, KeepTable, ClearBss64, SetStack, SerialInit,
           TimerStep, InitMuslTls, MemoryInit, FindHello, RubySetup,
           SelectScript, Sleep, Awake, Unwind, EvalEnds, Time, Call, Writes,
           Passes, vars, clockVars, wait, TimerInit, StartPit, ReadStart,
           Calibrate, ReadBoot, BusySleep, Tick
  <2> QED
    BY <1>1, <2>1, SleepIsLong DEF IInv
<1>2. IInv /\ [Next]_vars =>
        [waiting /\ ~waiting' =>
           CAL_MS * (tsc - since) > (sec - 1) * (window - early - CAL_MS)
        ]_clockVars
  BY <1>1
<1>3. Spec => []IInv
  BY AlwaysIInv
<1> QED
  BY <1>2, <1>3, PTL DEF Spec, NotCutShort
=============================================================================
