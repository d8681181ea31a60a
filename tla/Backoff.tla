------------------------------ MODULE Backoff ------------------------------
(***************************************************************************)
(* How long the auto-reconnect task sleeps before an attempt               *)
(* (client.rs:981-1001): reconnect_delay times a saturating power of two,  *)
(* moved by up to a quarter either way.  Durations are in nanoseconds, the *)
(* jitter is computed in whole milliseconds, in a u64 and an i64.          *)
(***************************************************************************)
EXTENDS Integers, TLAPS

Milli == 1000000

\* 2u32.saturating_pow(attempt - 1); U32Max is u32::MAX.
Factor(attempt, U32Max) == IF 2^(attempt - 1) > U32Max THEN U32Max ELSE 2^(attempt - 1)

base_delay(reconnect_delay, attempt, U32Max) == reconnect_delay * Factor(attempt, U32Max)

jitter_range_ms(base) == (base \div Milli) \div 4

\* raw as i64 - jitter_range_ms as i64
offset(base, seed) == (seed % (jitter_range_ms(base) * 2)) - jitter_range_ms(base)

\* Duration::saturating_sub
SaturatingSub(a, b) == IF a < b THEN 0 ELSE a - b

delay(base, seed) ==
    IF jitter_range_ms(base) > 0
    THEN IF offset(base, seed) >= 0 THEN base + offset(base, seed) * Milli
                                    ELSE SaturatingSub(base, (- offset(base, seed)) * Milli)
    ELSE base

-----------------------------------------------------------------------------
\* A quarter in whole milliseconds is no more than a quarter.
LEMMA JitterIsAQuarter ==
    ASSUME NEW base \in Nat
    PROVE  /\ jitter_range_ms(base) \in Nat
           /\ 4 * (jitter_range_ms(base) * Milli) <= base
<1> DEFINE ms == base \div Milli
<1>1. ms \in Nat /\ ms * Milli <= base
  BY DEF Milli
<1>2. ms \div 4 \in Nat /\ 4 * (ms \div 4) <= ms
  BY <1>1
<1> QED
  BY <1>1, <1>2 DEF jitter_range_ms, Milli

\* The offset is less than the jitter in either direction (downwards it may
\* reach it), whatever the clock says.
LEMMA OffsetIsCentred ==
    ASSUME NEW base \in Nat, NEW seed \in Nat, jitter_range_ms(base) > 0
    PROVE  /\ offset(base, seed) \in Int
           /\ - jitter_range_ms(base) <= offset(base, seed)
           /\ offset(base, seed) < jitter_range_ms(base)
<1> DEFINE j == jitter_range_ms(base)
<1>1. j \in Nat /\ j > 0
  BY JitterIsAQuarter
<1>2. seed % (j * 2) \in 0 .. j * 2 - 1
  <2> HIDE DEF j
  <2> DEFINE d == j * 2
  <2>1. d \in Nat /\ d > 0
    BY <1>1
  <2> HIDE DEF d
  <2>2. seed % d \in 0 .. d - 1
    BY <2>1
  <2> QED BY <2>2 DEF d
<1>3. offset(base, seed) = (seed % (j * 2)) - j
  BY DEF offset
<1> HIDE DEF j
<1>4. /\ (seed % (j * 2)) - j \in Int
      /\ - j <= (seed % (j * 2)) - j
      /\ (seed % (j * 2)) - j < j
  BY <1>1, <1>2
<1> QED
  BY <1>3, <1>4 DEF j

\* The sleep before an attempt is between three quarters and five quarters of
\* the base delay, as the comment at client.rs:989 says, also for delays of less
\* than four milliseconds and where the milliseconds are rounded down.
THEOREM DelayIsNearBase ==
    ASSUME NEW base \in Nat, NEW seed \in Nat
    PROVE  /\ delay(base, seed) \in Nat
           /\ 3 * base <= 4 * delay(base, seed)
           /\ 4 * delay(base, seed) <= 5 * base
           /\ jitter_range_ms(base) > 0 => 4 * delay(base, seed) < 5 * base
<1> DEFINE j == jitter_range_ms(base)
           o == offset(base, seed)
<1>1. j \in Nat /\ 4 * (j * Milli) <= base
  BY JitterIsAQuarter
<1>2. CASE ~(j > 0)
  BY <1>2 DEF delay
<1>3. CASE j > 0
  <2>1. o \in Int /\ - j <= o /\ o < j
    BY <1>3, OffsetIsCentred
  <2>2. CASE o >= 0
    <3>1. delay(base, seed) = base + o * Milli
      BY <1>3, <2>2 DEF delay
    <3> HIDE DEF j, o
    <3> QED BY <1>1, <2>1, <2>2, <3>1 DEF Milli
  <2>3. CASE ~(o >= 0)
    <3>1. delay(base, seed) = SaturatingSub(base, (- o) * Milli)
      BY <1>3, <2>3 DEF delay
    <3> HIDE DEF j, o
    <3> QED BY <1>1, <1>3, <2>1, <2>3, <3>1 DEF Milli, SaturatingSub
  <2> QED BY <2>2, <2>3
<1> QED BY <1>2, <1>3

\* None of the intermediate integers overflows: if the base delay is at most
\* u64::MAX milliseconds, doubling the jitter stays within a u64, and jitter and
\* offset within an i64 (I64Max is i64::MAX, u64::MAX is 2 * I64Max + 1).
THEOREM JitterFits ==
    ASSUME NEW I64Max \in Nat, NEW base \in Nat, NEW seed \in Nat,
           base \div Milli <= 2 * I64Max + 1, I64Max >= 1
    PROVE  /\ jitter_range_ms(base) * 2 <= 2 * I64Max + 1
           /\ jitter_range_ms(base) <= I64Max
           /\ jitter_range_ms(base) > 0 =>
                - I64Max <= offset(base, seed) /\ offset(base, seed) <= I64Max
<1> DEFINE ms == base \div Milli
           j == jitter_range_ms(base)
<1>1. ms \in Nat
  BY DEF Milli
<1>2. j = ms \div 4
  BY DEF jitter_range_ms
<1>3. j \in Nat /\ 4 * j <= ms
  <2> HIDE DEF ms
  <2>1. ms \div 4 \in Nat /\ 4 * (ms \div 4) <= ms
    BY <1>1
  <2> QED BY <1>2, <2>1
<1>4. j > 0 => /\ offset(base, seed) \in Int
               /\ - j <= offset(base, seed) /\ offset(base, seed) < j
  BY OffsetIsCentred
<1>5. ms <= 2 * I64Max + 1
  OBVIOUS
<1> HIDE DEF ms, j
<1>6. j * 2 <= 2 * I64Max + 1 /\ j <= I64Max
  BY <1>1, <1>3, <1>5
<1>7. j > 0 => - I64Max <= offset(base, seed) /\ offset(base, seed) <= I64Max
  BY <1>3, <1>4, <1>6
<1> QED
  BY <1>6, <1>7 DEF j
=============================================================================
