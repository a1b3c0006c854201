---------------------------- MODULE CounterProofs ----------------------------
(***************************************************************************)
(* The invariants of the two counters: of the TIMERs, for any number of    *)
(* them, any widths and prescalers, any routes of the PPI and any writes   *)
(* of the software; and of the RTC, for any width of its counter, any      *)
(* prescaler, any writes of the software and any routes of the PPI whose   *)
(* tasks the handler can stand (CarefulRoutes).                            *)
(***************************************************************************)
EXTENDS NrfTimer, NrfRtc, CommonProofs

-----------------------------------------------------------------------------
(* The TIMERs.                                                              *)

(* What the prescaler makes of a microsecond: several ticks, or a part   *)
(* of one.                                                               *)
LEMMA Prescalers ==
  /\ UsPerTick \in Nat \ {0} /\ TicksPerUs \in Nat \ {0} /\ BitMask \in Nat \ {0}
  /\ TicksPerUs = 1 =>
       /\ \A d \in Nat : TimeToCounter(d) = d \div UsPerTick
       /\ \A count \in Nat : CounterToTime(count) = count * UsPerTick
       /\ WrapTime = UsPerTick * (BitMask + 1)
  /\ UsPerTick = 1 =>
       /\ \A d \in Nat : TimeToCounter(d) = d * TicksPerUs
       /\ \A count \in Nat : CounterToTime(count) = count \div TicksPerUs
       /\ WrapTime \in Nat /\ WrapTime > 1 /\ BitMask + 1 = WrapTime * TicksPerUs
<1>1. PICK U \in Nat \ {0}, T \in Nat \ {0}, M \in Nat \ {0} :
        U = UsPerTick /\ T = TicksPerUs /\ M = BitMask + 1 /\ M % T = 0 /\ T < M
  BY TickAssumption, BitMaskAssumption
<1>2. \A k \in Nat : k \div 1 = k
  OBVIOUS
<1>3. ASSUME T = 1
      PROVE  /\ \A d \in Nat : TimeToCounter(d) = d \div U
             /\ \A count \in Nat : CounterToTime(count) = count * U
             /\ WrapTime = U * M
  <2>1. \A k \in Nat : k * U \in Nat /\ k * 1 = k /\ (k * U) \div 1 = k * U
    OBVIOUS
  <2>2. WrapTime = (M * U) \div 1 /\ M * U = U * M
    BY <1>1, <1>3 DEF WrapTime, CounterToTime
  <2> QED BY <1>1, <1>3, <2>1, <2>2 DEF TimeToCounter, CounterToTime
<1>4. ASSUME U = 1
      PROVE  /\ \A d \in Nat : TimeToCounter(d) = d * T
             /\ \A count \in Nat : CounterToTime(count) = count \div T
             /\ WrapTime \in Nat /\ WrapTime > 1 /\ M = WrapTime * T
  <2>1. \A k \in Nat : k * T \in Nat /\ k * 1 = k /\ (k * T) \div 1 = k * T
    OBVIOUS
  <2>2. PICK w \in Int, z \in 0 .. T - 1 : M = w * T + z /\ M \div T = w /\ M % T = z
    <3>1. M \in Int
      OBVIOUS
    <3> QED BY <3>1, Remainder
  <2>3. WrapTime = w
    BY <1>1, <1>4, <2>1, <2>2 DEF WrapTime, CounterToTime
  <2>4. M = w * T
    BY <1>1, <2>2
  <2>5. w > 1
    <3>1. w <= 1 => w * T <= T
      OBVIOUS
    <3> QED BY <1>1, <2>4, <3>1
  <2> QED BY <1>1, <1>4, <2>1, <2>3, <2>4, <2>5 DEF TimeToCounter, CounterToTime
<1> QED BY <1>1, <1>3, <1>4, BitMaskAssumption

(* The constants of a TIMER: a wrap is longer than a microsecond, and    *)
(* "never" is after the end of the simulation and a wrap.                *)
LEMMA TimeBounds ==
  /\ UsPerTick \in Nat \ {0} /\ BitMask \in Nat \ {0} /\ TimerHorizon \in Nat
  /\ WrapTime \in Nat /\ WrapTime > 1
  /\ TMR_NEVER \in Nat /\ TimerHorizon + WrapTime < TMR_NEVER
<1>1. UsPerTick \in Nat \ {0} /\ BitMask \in Nat \ {0} /\ TimerHorizon \in Nat
  BY TickAssumption, BitMaskAssumption, TimerHorizonAssumption
<1>2. WrapTime \in Nat /\ WrapTime > 1
  <2>1. CASE TicksPerUs = 1
    <3>1. UsPerTick * (BitMask + 1) \in Nat /\ UsPerTick * (BitMask + 1) >= BitMask + 1
      BY <1>1
    <3> QED BY <1>1, <2>1, <3>1, Prescalers
  <2>2. CASE UsPerTick = 1
    BY <2>2, Prescalers
  <2> QED BY <2>1, <2>2, TickAssumption
<1> QED BY <1>1, <1>2 DEF TMR_NEVER

(* A count that a CC register holds is reached within a wrap.               *)
LEMMA CountTime ==
  ASSUME NEW count \in 0 .. BitMask
  PROVE  CounterToTime(count) \in 0 .. WrapTime - 1
<1>1. PICK U \in Nat \ {0}, T \in Nat \ {0}, M \in Nat \ {0} :
        U = UsPerTick /\ T = TicksPerUs /\ M = BitMask + 1
  BY Prescalers
<1>2. PICK k \in Nat : k = count /\ k <= M - 1
  <2>1. count \in Nat /\ count <= M - 1
    BY <1>1, Prescalers
  <2> QED BY <2>1, Zenon
<1>3. CASE T = 1
  <2>1. CounterToTime(count) = k * U /\ WrapTime = U * M
    BY <1>1, <1>2, <1>3, Prescalers
  <2>2. k * U >= 0 /\ (M - 1 - k) * U >= 0
    BY <1>2
  <2>3. (M - 1 - k) * U = U * M - U - k * U
    OBVIOUS
  <2> QED BY <2>1, <2>2, <2>3
<1>4. CASE U = 1
  <2>1. PICK w \in Nat : w = WrapTime /\ M = w * T /\ CounterToTime(count) = k \div T
    BY <1>1, <1>2, <1>4, Prescalers
  <2>2. PICK a \in Int, z \in 0 .. T - 1 : k = a * T + z /\ k \div T = a
    <3>1. k \in Int
      OBVIOUS
    <3> QED BY <3>1, Remainder
  <2>3. a >= 0
    <3>1. a <= -1 => a * T <= -T
      OBVIOUS
    <3> QED BY <2>2, <3>1
  <2>4. a <= w - 1
    <3>1. a >= w => a * T >= w * T
      OBVIOUS
    <3> QED BY <1>2, <2>1, <2>2, <3>1
  <2> QED BY <2>1, <2>2, <2>3, <2>4
<1> QED BY <1>1, <1>3, <1>4, TickAssumption

(* The time from an elapsed time to that of a count, and when it comes.      *)
ToGo(count, e) == (CounterToTime(count) - e) % WrapTime
NextOf(count, e) == tmr_now + (IF ToGo(count, e) = 0 THEN WrapTime ELSE ToGo(count, e))

(* A count is f after a start that was d ago; of a wrap W.                   *)
LEMMA ToTheNextMatch ==
  ASSUME NEW W \in Nat \ {0}, NEW d \in Nat, NEW f \in 0 .. W - 1,
         NEW next \in Nat, next = (f - (d % W)) % W
  PROVE  /\ f > d => next = f - d
         /\ f <= d => ((d - f) \div W + 1) * W - (d - f) = IF next = 0 THEN W ELSE next
<1>1. PICK q \in Int, e \in 0 .. W - 1 : d = q * W + e /\ d % W = e
  <2>1. d \in Int
    OBVIOUS
  <2> QED BY <2>1, Remainder
<1>2. ASSUME f > d PROVE (f - e) % W = f - d
  <2>1. d \in 0 .. W - 1 /\ f - d \in 0 .. W - 1
    BY <1>2
  <2>2. e = d
    BY <1>1, <2>1
  <2> QED BY <2>1, <2>2
<1>3. ASSUME f <= d
      PROVE  ((d - f) \div W + 1) * W - (d - f) = IF (f - e) % W = 0 THEN W ELSE (f - e) % W
  <2>1. d - f \in Int
    OBVIOUS
  <2>2. PICK p \in Int, g \in 0 .. W - 1 : d - f = p * W + g /\ (d - f) \div W = p
    BY <2>1, Remainder
  <2>3. (p + 1) * W - (d - f) = W - g
    BY <2>2
  <2>4. f - e = (q - p) * W - g
    <3>1. (q - p) * W = q * W - p * W
      BY <1>1, <2>2
    <3> QED BY <1>1, <2>2, <3>1
  <2>5. CASE g = 0
    <3>1. q - p \in Int /\ 0 \in 0 .. W - 1 /\ f - e = (q - p) * W + 0
      BY <1>1, <2>2, <2>4, <2>5
    <3>2. ((q - p) * W + 0) % W = 0
      BY <3>1, RemainderIsUnique
    <3> QED BY <2>2, <2>3, <2>5, <3>1, <3>2
  <2>6. CASE g # 0
    <3>1. q - p - 1 \in Int /\ W - g \in 0 .. W - 1
      BY <1>1, <2>2, <2>6
    <3>2. (q - p - 1) * W = (q - p) * W - W
      BY <1>1, <2>2
    <3>3. f - e = (q - p - 1) * W + (W - g)
      BY <1>1, <2>2, <2>4, <3>2
    <3>4. ((q - p - 1) * W + (W - g)) % W = W - g
      BY <3>1, RemainderIsUnique
    <3> QED BY <2>2, <2>3, <2>6, <3>3, <3>4
  <2> QED BY <2>5, <2>6
<1> QED BY <1>1, <1>2, <1>3

(* nrf_hw_TIMER_update_cc_timer(): the loop over the wraps finds the     *)
(* next time at which the counter is at count, which the age of the      *)
(* start, modulo a wrap, determines.                                     *)
LEMMA NextMatchIsRight ==
  ASSUME tmr_now \in 0 .. TimerHorizon,
         NEW start \in 0 .. tmr_now, NEW count \in 0 .. BitMask
  PROVE  NextMatch(start, count) = NextOf(count, (tmr_now - start) % WrapTime)
<1>1. PICK f \in 0 .. WrapTime - 1 : CounterToTime(count) = f
  BY CountTime
<1>2. PICK d \in Nat : d = tmr_now - start
  OBVIOUS
<1>3. WrapTime \in Nat \ {0} /\ TimerHorizon \in Nat
  BY TimeBounds
<1>4. PICK g \in Nat : g = (f - (d % WrapTime)) % WrapTime
  <2>1. d % WrapTime \in Int
    BY <1>3
  <2>2. PICK e \in Int : e = d % WrapTime
    BY <2>1
  <2>3. (f - e) % WrapTime \in Nat
    BY <1>3, <2>2
  <2> QED BY <2>2, <2>3
<1> ToGo(count, (tmr_now - start) % WrapTime) = g
  BY <1>1, <1>2, <1>4 DEF ToGo
<1>5. CASE f > d
  <2>0. /\ WrapTime \in Nat \ {0} /\ d \in Nat /\ f \in 0 .. WrapTime - 1 /\ f > d
        /\ g \in Nat /\ g = (f - (d % WrapTime)) % WrapTime
    BY <1>3, <1>4, <1>5
  <2>1. g = f - d
    BY <2>0, ToTheNextMatch, ZenonT(60)
  <2>2. start + f > tmr_now /\ g # 0 /\ start + f = tmr_now + g
    BY <1>2, <1>5, <2>1
  <2>3. NextMatch(start, count) = start + f
    BY <1>1, <2>2 DEF NextMatch
  <2>4. NextOf(count, (tmr_now - start) % WrapTime) = tmr_now + g
    BY <2>2 DEF NextOf
  <2> QED BY <2>2, <2>3, <2>4
<1>6. CASE f <= d
  <2>1. WrapTime \in Nat \ {0} /\ d \in Nat /\ f \in 0 .. WrapTime - 1 /\ f <= d
    BY <1>3, <1>6
  <2>9. ((d - f) \div WrapTime + 1) * WrapTime - (d - f) = IF g = 0 THEN WrapTime ELSE g
    BY <1>4, <2>1, ToTheNextMatch, ZenonT(60)
  <2>2. tmr_now - (start + f) = d - f /\ ~(start + f > tmr_now)
    BY <1>1, <1>2, <1>3, <1>6
  <2>3. NextMatch(start, count) = start + f + ((d - f) \div WrapTime + 1) * WrapTime
    BY <1>1, <2>2 DEF NextMatch
  <2>4. PICK m \in Int : m = ((d - f) \div WrapTime + 1) * WrapTime
    BY <1>3, <1>6, d - f \in Int
  <2> QED BY <1>1, <1>2, <1>3, <1>4, <2>9, <2>3, <2>4 DEF NextOf
<1> QED BY <1>1, <1>2, <1>3, <1>5, <1>6

-----------------------------------------------------------------------------
(* The arithmetic of the tasks, for an age d of a start and e microseconds   *)
(* of it after the wraps.                                                    *)

(* In ticks of P microseconds ...                                           *)
LongTicks(P, M, W, d, e) ==
  /\ (d \div P) * P \in 0 .. d
  /\ e - (e % P) \in 0 .. W - 1
  /\ ((d \div P) * P) % W = e - (e % P)
  /\ (d \div P) % M = e \div P
  /\ d \div P \in Nat

LEMMA AgeInLongTicks ==
  ASSUME NEW P \in Nat \ {0}, NEW M \in Nat \ {0}, NEW W \in Nat \ {0}, W = P * M,
         NEW d \in Nat, NEW e \in Nat, e = d % W
  PROVE  LongTicks(P, M, W, d, e)
<1>0. P \in Nat \ {0} /\ M \in Nat \ {0} /\ W \in Nat \ {0} /\ W = P * M
  OBVIOUS
<1>1. PICK q \in Int : d = q * W + e /\ e \in 0 .. W - 1
  <2>1. d \in Int /\ e = d % W
    OBVIOUS
  <2>2. PICK q \in Int, r \in 0 .. W - 1 : d = q * W + r /\ d % W = r
    BY <2>1, Remainder
  <2> QED BY <2>1, <2>2
<1>2. PICK a \in Int, r \in 0 .. P - 1 : e = a * P + r /\ e \div P = a /\ e % P = r
  <2>1. e \in Int
    OBVIOUS
  <2> QED BY <2>1, Remainder
<1>3. a \in 0 .. M - 1
  <2>1. a >= 0
    <3>1. a <= -1 => a * P <= -P
      OBVIOUS
    <3> QED BY <1>2, <3>1
  <2>2. a <= M - 1
    <3>1. a >= M => a * P >= M * P
      OBVIOUS
    <3>2. M * P = P * M
      OBVIOUS
    <3> QED BY <1>1, <1>2, <3>1, <3>2
  <2> QED BY <2>1, <2>2
<1>4. d = (q * M + a) * P + r
  <2>1. (q * M + a) * P = (q * M) * P + a * P
    OBVIOUS
  <2>2. (q * M) * P = q * (P * M)
    OBVIOUS
  <2> QED BY <1>1, <1>2, <2>1, <2>2
<1>5. d \div P = q * M + a
  <2>1. q * M + a \in Int
    OBVIOUS
  <2> QED BY <1>4, <2>1, RemainderIsUnique
<1>6. (q * M + a) % M = a
  BY <1>3, RemainderIsUnique
<1>7. (q * M + a) * P = q * W + (e - r)
  <2>1. (q * M + a) * P = (q * M) * P + a * P
    OBVIOUS
  <2>2. (q * M) * P = q * (P * M)
    OBVIOUS
  <2>3. a * P = e - r
    BY <1>2
  <2> QED BY <2>1, <2>2, <2>3
<1>8. e - r \in 0 .. W - 1
  <2>1. a * P >= 0
    BY <1>3
  <2> QED BY <1>1, <1>2, <2>1
<1>9. (q * W + (e - r)) % W = e - r
  <2>1. W \in Nat \ {0}
    OBVIOUS
  <2> QED BY <1>8, <2>1, RemainderIsUnique
<1>10. q >= 0
  <2>1. q <= -1 => q * W <= -W
    OBVIOUS
  <2> QED BY <1>1, <2>1
<1>11. q * M + a >= 0
  <2>1. q * M >= 0
    BY <1>10
  <2> QED BY <1>3, <2>1
<1>12. (q * M + a) * P >= 0 /\ (q * M + a) * P <= d
  <2>1. (q * M + a) * P >= 0
    BY <1>11
  <2> QED BY <1>4, <2>1
<1>13. (d \div P) * P = q * W + (e - r) /\ (d \div P) * P \in 0 .. d
  BY <1>5, <1>7, <1>12
<1>14. ((d \div P) * P) % W = e - r
  BY <1>9, <1>13
<1>15. (d \div P) % M = a
  BY <1>5, <1>6
<1>16. d \div P \in Nat
  BY <1>5, <1>11
<1>17. e % P = r /\ e \div P = a
  BY <1>2
<1> QED BY <1>8, <1>13, <1>14, <1>15, <1>16, <1>17 DEF LongTicks

(* ... and in several ticks T of a microsecond.                             *)
ShortTicks(T, W, d, e) ==
  /\ (d * T) \div T = d
  /\ (d * T) % (W * T) = e * T
  /\ d * T \in Nat

LEMMA AgeInShortTicks ==
  ASSUME NEW T \in Nat \ {0}, NEW W \in Nat \ {0}, NEW d \in Nat, NEW e \in Nat, e = d % W
  PROVE  ShortTicks(T, W, d, e)
<1>1. PICK q \in Int : d = q * W + e /\ e \in 0 .. W - 1
  <2>1. d \in Int
    OBVIOUS
  <2>2. PICK q \in Int, r \in 0 .. W - 1 : d = q * W + r /\ d % W = r
    BY <2>1, Remainder
  <2> QED BY <2>2
<1>2. (d * T) \div T = d
  <2>1. d \in Int /\ 0 \in 0 .. T - 1
    OBVIOUS
  <2>2. (d * T + 0) \div T = d
    BY <2>1, RemainderIsUnique
  <2>3. d * T + 0 = d * T
    OBVIOUS
  <2> QED BY <2>2, <2>3
<1>3. PICK M \in Nat \ {0} : M = W * T
  <2>1. W * T \in Nat /\ W * T >= 1 * 1
    <3>1. W * T >= 1 * T
      OBVIOUS
    <3> QED BY <3>1
  <2> QED BY <2>1
<1>4. e * T \in 0 .. M - 1
  <2>1. e * T >= 0 /\ (W - 1 - e) * T >= 0
    BY <1>1
  <2>2. (W - 1 - e) * T = W * T - T - e * T
    OBVIOUS
  <2> QED BY <1>3, <2>1, <2>2
<1>5. d * T = q * M + e * T
  <2>1. (q * W + e) * T = (q * W) * T + e * T
    OBVIOUS
  <2>2. (q * W) * T = q * (W * T)
    OBVIOUS
  <2> QED BY <1>1, <1>3, <2>1, <2>2
<1>6. PICK x \in 0 .. M - 1 : x = e * T
  BY <1>4
<1>7. (q * M + x) % M = x
  BY RemainderIsUnique
<1> QED BY <1>2, <1>3, <1>5, <1>6, <1>7 DEF ShortTicks

(* What a STOP keeps of an age, and what it counts.                         *)
LEMMA AgeInTicks ==
  ASSUME NEW d \in Nat, NEW e \in Nat, e = d % WrapTime
  PROVE  /\ CounterToTime(TimeToCounter(d)) \in 0 .. d
         /\ e - (e % UsPerTick) \in 0 .. WrapTime - 1
         /\ CounterToTime(TimeToCounter(d)) % WrapTime = e - (e % UsPerTick)
         /\ TimeToCounter(d) % (BitMask + 1) = TimeToCounter(e)
         /\ TimeToCounter(d) \in Nat
<1>1. PICK U \in Nat \ {0}, T \in Nat \ {0}, M \in Nat \ {0}, W \in Nat \ {0} :
        U = UsPerTick /\ T = TicksPerUs /\ M = BitMask + 1 /\ W = WrapTime
  BY Prescalers, TimeBounds
<1>2. CASE T = 1
  <2>1. /\ TimeToCounter(d) = d \div U /\ TimeToCounter(e) = e \div U
        /\ \A k \in Nat : CounterToTime(k) = k * U
        /\ W = U * M /\ e = d % W
    BY <1>1, <1>2, Prescalers
  <2>2. /\ (d \div U) * U \in 0 .. d
        /\ e - (e % U) \in 0 .. W - 1
        /\ ((d \div U) * U) % W = e - (e % U)
        /\ (d \div U) % M = e \div U
        /\ d \div U \in Nat
    <3>1. W = U * M /\ e = d % W
      BY <2>1
    <3>2. LongTicks(U, M, W, d, e)
      BY <3>1, AgeInLongTicks, Zenon
    <3> QED BY <3>2, Zenon DEF LongTicks
  <2>3. CounterToTime(TimeToCounter(d)) = (d \div U) * U
    BY <2>1, <2>2
  <2> QED BY <1>1, <2>1, <2>2, <2>3
<1>3. CASE U = 1
  <2>1. /\ TimeToCounter(d) = d * T /\ TimeToCounter(e) = e * T
        /\ \A k \in Nat : CounterToTime(k) = k \div T
        /\ M = W * T /\ e = d % W
    BY <1>1, <1>3, Prescalers
  <2>2. (d * T) \div T = d /\ (d * T) % (W * T) = e * T /\ d * T \in Nat
    <3>1. e = d % W
      BY <2>1
    <3>2. ShortTicks(T, W, d, e)
      BY <3>1, AgeInShortTicks, Zenon
    <3> QED BY <3>2, Zenon DEF ShortTicks
  <2>3. CounterToTime(TimeToCounter(d)) = d
    BY <2>1, <2>2
  <2>4. e % 1 = 0 /\ e - (e % 1) = e /\ d \in 0 .. d
    OBVIOUS
  <2>5. d % W \in 0 .. W - 1
    OBVIOUS
  <2> QED BY <1>1, <1>3, <2>1, <2>2, <2>3, <2>4, <2>5
<1> QED BY <1>1, <1>2, <1>3, TickAssumption

(* A microsecond later, in a wrap.                                       *)
LEMMA OneMoreMicrosecond ==
  ASSUME NEW W \in Nat \ {0}, NEW d \in Nat
  PROVE  (d + 1) % W = ((d % W) + 1) % W
<1>1. PICK q \in Int, e \in 0 .. W - 1 : d = q * W + e /\ d % W = e
  <2>1. d \in Int
    OBVIOUS
  <2> QED BY <2>1, Remainder
<1>2. PICK c \in Int, f \in 0 .. W - 1 : e + 1 = c * W + f /\ (e + 1) % W = f
  <2>1. e + 1 \in Int
    OBVIOUS
  <2> QED BY <2>1, Remainder
<1>3. d + 1 = (q + c) * W + f
  BY <1>1, <1>2
<1>4. ((q + c) * W + f) % W = f
  <2>1. q + c \in Int
    OBVIOUS
  <2> QED BY <2>1, RemainderIsUnique
<1> QED BY <1>1, <1>2, <1>3, <1>4

(* A microsecond later, the next match is a microsecond nearer.          *)
LEMMA OneLessToGo ==
  ASSUME NEW count \in 0 .. BitMask, NEW e \in Nat
  PROVE  ToGo(count, (e + 1) % WrapTime) =
           IF ToGo(count, e) = 0 THEN WrapTime - 1 ELSE ToGo(count, e) - 1
<1>1. PICK W \in Nat \ {0} : W = WrapTime
  BY TimeBounds
<1>2. e \in Int
  BY <1>1
<1>3. PICK f \in 0 .. W - 1 : CounterToTime(count) = f
  BY <1>1, CountTime
<1>4. PICK a \in Int, g \in 0 .. W - 1 : f - e = a * W + g /\ (f - e) % W = g
  <2>1. f - e \in Int
    BY <1>2
  <2> QED BY <2>1, Remainder
<1>5. PICK b \in Int, k \in 0 .. W - 1 : e + 1 = b * W + k /\ (e + 1) % W = k
  <2>1. e + 1 \in Int
    BY <1>2
  <2> QED BY <2>1, Remainder
<1>6. ToGo(count, e) = g /\ ToGo(count, (e + 1) % WrapTime) = (f - k) % W
  BY <1>1, <1>3, <1>4, <1>5 DEF ToGo
<1>7. (f - k) % W = IF g = 0 THEN W - 1 ELSE g - 1
  <2>1. CASE g = 0
    <3>1. f - k = (a + b - 1) * W + (W - 1)
      <4>1. (a + b - 1) * W = a * W + b * W - W
        OBVIOUS
      <4> QED BY <1>2, <1>4, <1>5, <2>1, <4>1
    <3>2. a + b - 1 \in Int /\ W - 1 \in 0 .. W - 1
      OBVIOUS
    <3>3. ((a + b - 1) * W + (W - 1)) % W = W - 1
      BY <3>2, RemainderIsUnique
    <3> QED BY <2>1, <3>1, <3>3
  <2>2. CASE g # 0
    <3>1. f - k = (a + b) * W + (g - 1)
      <4>1. (a + b) * W = a * W + b * W
        OBVIOUS
      <4> QED BY <1>2, <1>4, <1>5, <4>1
    <3>2. a + b \in Int /\ g - 1 \in 0 .. W - 1
      BY <2>2
    <3>3. ((a + b) * W + (g - 1)) % W = g - 1
      BY <3>2, RemainderIsUnique
    <3> QED BY <2>2, <3>1, <3>3
  <2> QED BY <2>1, <2>2
<1> QED BY <1>1, <1>6, <1>7

-----------------------------------------------------------------------------
(* While the timer t runs, the time of its start gives the microseconds     *)
(* counted; when it is stopped, its counter does; in count mode, always.    *)
CountAgrees(t) ==
  /\ Timer_counter_startT[t] \in (0 .. tmr_now) \union {TMR_NEVER}
  /\ IsTimer(t) /\ Timer_running[t] =>
       /\ Timer_counter_startT[t] \in 0 .. tmr_now
       /\ elapsed[t] = (tmr_now - Timer_counter_startT[t]) % WrapTime
  /\ IsTimer(t) /\ ~Timer_running[t] =>
       /\ CounterToTime(Counter[t]) \in 0 .. tmr_now
       /\ elapsed[t] = CounterToTime(Counter[t]) % WrapTime
  /\ ~IsTimer(t) => Counter[t] = elapsed[t] /\ Counter[t] \in 0 .. BitMask

CountsAgree == \A t \in TimerId : CountAgrees(t)

(* A comparator's time is right, at any moment.                             *)
TimeAgrees(c) ==
  IF Timer_running[c[1]] /\ IsTimer(c[1])
    THEN \/ CC_timers[c] = NextOf(CC[c], elapsed[c[1]])
         \/ CC_timers[c] = tmr_now /\ ToGo(CC[c], elapsed[c[1]]) = 0
    ELSE CC_timers[c] = TMR_NEVER

TimesAgree == \A c \in Comparator : TimeAgrees(c)

MasterAgrees ==
  /\ Timer_TIMERs >= tmr_now
  /\ \A c \in Comparator : Timer_TIMERs <= CC_timers[c]
  /\ Timer_TIMERs = TMR_NEVER \/ \E c \in Comparator : Timer_TIMERs = CC_timers[c]

(* What is pending: the matches of one time, and update_master_timer() last. *)
MasterPending(s) == s # <<>> /\ s[Len(s)][1] = "master"
TodoInOrder(s) ==
  /\ \A i \in 1 .. Len(s) : s[i][1] = "master" => i = Len(s)
  /\ \A i \in 1 .. Len(s) : s[i][1] = "match" => MasterPending(s)

TimerInv ==
  /\ TimerTypeOK /\ CountsAgree /\ TimesAgree /\ TodoInOrder(tmr_todo)
  /\ MasterPending(tmr_todo) \/ MasterAgrees

TimerNumbers ==
  /\ Timer_running \in [TimerId -> BOOLEAN]
  /\ Timer_counter_startT \in [TimerId -> 0 .. TMR_NEVER]
  /\ Counter \in [TimerId -> Nat]
  /\ elapsed \in [TimerId -> Nat]
  /\ CC \in [Comparator -> 0 .. BitMask]

TimerSettled == UNCHANGED <<tmr_now, tmr_cfg>>

(* Each comparator belongs to a TIMER.                                   *)
LEMMA ComparatorTypes ==
  /\ \A c \in Comparator : c[1] \in TimerId
  /\ TimerId \subseteq Nat
  /\ Comparators[1] \in Comparator
<1>1. Comparators \in Seq(Nat \X Nat) /\ Comparators # <<>>
  BY ComparatorsAssumption
<1>2. Comparator \subseteq Nat \X Nat /\ Comparators[1] \in Comparator
  BY <1>1 DEF Comparator
<1> QED BY <1>2 DEF TimerId

(* The next match is within a wrap, and never "never".                   *)
LEMMA ToGoBounds ==
  ASSUME NEW count \in 0 .. BitMask, NEW e \in Nat
  PROVE  /\ ToGo(count, e) \in 0 .. WrapTime - 1
         /\ tmr_now \in 0 .. TimerHorizon => NextOf(count, e) \in tmr_now + 1 .. TMR_NEVER
<1>1. PICK f \in 0 .. WrapTime - 1 : CounterToTime(count) = f
  BY CountTime
<1>2. WrapTime \in Nat \ {0}
  BY TimeBounds
<1>3. PICK x \in Int : x = f - e
  BY <1>2
<1>4. x % WrapTime \in 0 .. WrapTime - 1
  BY <1>2
<1>5. ToGo(count, e) \in 0 .. WrapTime - 1
  BY <1>1, <1>3, <1>4 DEF ToGo
<1> QED BY <1>5, TimeBounds DEF NextOf

-----------------------------------------------------------------------------
(* The times of the comparators.                                            *)
Retimed(c)   == CC_timers'[c] = CcTimer(c)
Untouched(c) ==
  /\ CC_timers'[c] = CC_timers[c]
  /\ IsTimer(c[1]) => /\ Timer_running'[c[1]] = Timer_running[c[1]]
                      /\ elapsed'[c[1]] = elapsed[c[1]]
                      /\ CC'[c] = CC[c]

(* A comparator whose time is computed again has the right one.          *)
LEMMA RetimedIsRight ==
  ASSUME TimerTypeOK, TimerSettled, CountsAgree', NEW c \in Comparator, Retimed(c),
         CC'[c] \in 0 .. BitMask
  PROVE  TimeAgrees(c)'
<1> USE DEF TimerSettled
<1>1. IsTimer(c[1])' <=> IsTimer(c[1])
  BY DEF IsTimer
<1>2. CASE Timer_running'[c[1]] /\ IsTimer(c[1])
  <2>1. /\ Timer_counter_startT'[c[1]] \in 0 .. tmr_now
        /\ elapsed'[c[1]] = (tmr_now - Timer_counter_startT'[c[1]]) % WrapTime
    BY <1>1, <1>2, ComparatorTypes DEF CountsAgree, CountAgrees
  <2>2. CC_timers'[c] = NextMatch(Timer_counter_startT'[c[1]], CC'[c])
    BY <1>2 DEF Retimed, CcTimer
  <2>3. tmr_now \in 0 .. TimerHorizon
    BY DEF TimerTypeOK
  <2>4. CC_timers'[c] = NextOf(CC'[c], elapsed'[c[1]])
    BY <2>1, <2>2, <2>3, NextMatchIsRight
  <2> QED BY <1>1, <1>2, <2>4 DEF TimeAgrees, NextOf
<1>3. CASE ~(Timer_running'[c[1]] /\ IsTimer(c[1]))
  BY <1>1, <1>3 DEF Retimed, CcTimer, TimeAgrees
<1> QED BY <1>2, <1>3

(* A comparator of whose TIMER nothing changes keeps the right time.     *)
LEMMA UntouchedIsRight ==
  ASSUME TimerSettled, NEW c \in Comparator, TimeAgrees(c), Untouched(c)
  PROVE  TimeAgrees(c)'
<1>1. IsTimer(c[1])' <=> IsTimer(c[1])
  BY DEF IsTimer, TimerSettled
<1> QED BY <1>1 DEF TimeAgrees, Untouched, TimerSettled, NextOf

(* A step that computes again every time that it makes wrong keeps them  *)
(* all right.                                                            *)
LEMMA TimesStep ==
  ASSUME TimerTypeOK, TimerSettled, TimesAgree, CountsAgree',
         \A c \in Comparator : Untouched(c) \/ (Retimed(c) /\ CC'[c] \in 0 .. BitMask)
  PROVE  TimesAgree'
BY RetimedIsRight, UntouchedIsRight DEF TimesAgree

(* The comparators' times lie ahead.                                        *)
LEMMA TimesAhead ==
  ASSUME tmr_now \in 0 .. TimerHorizon, TimesAgree, NEW c \in Comparator,
         CC[c] \in 0 .. BitMask, elapsed[c[1]] \in Nat
  PROVE  /\ CC_timers[c] \in tmr_now .. TMR_NEVER
         /\ ~(Timer_running[c[1]] /\ IsTimer(c[1])) => CC_timers[c] = TMR_NEVER
<1>1. TimeAgrees(c)
  BY DEF TimesAgree
<1>2. NextOf(CC[c], elapsed[c[1]]) \in tmr_now + 1 .. TMR_NEVER
  BY ToGoBounds
<1> QED BY <1>1, <1>2, TimeBounds DEF TimeAgrees

(* nrf_hw_TIMER_update_master_timer(): the minimum of the times is that  *)
(* of the next match.                                                    *)
LEMMA FirstMatchIsFirst ==
  ASSUME TimerTypeOK, TimerNumbers', CC_timers' \in [Comparator -> 0 .. TMR_NEVER],
         TimesAgree', Timer_TIMERs' = FirstMatch, TimerSettled
  PROVE  MasterAgrees' /\ Timer_TIMERs' \in 0 .. TMR_NEVER
<1> DEFINE on    == {d \in Comparator : Timer_running'[d[1]] /\ IsTimer(d[1])}
           times == {CC_timers'[c] : c \in on} \union {TMR_NEVER}
<1>1. \A c \in Comparator :
        /\ CC_timers'[c] \in tmr_now' .. TMR_NEVER
        /\ c \notin on => CC_timers'[c] = TMR_NEVER
  <2> TAKE c \in Comparator
  <2>1. /\ tmr_now' \in 0 .. TimerHorizon
        /\ CC'[c] \in 0 .. BitMask /\ elapsed'[c[1]] \in Nat
    BY ComparatorTypes DEF TimerTypeOK, TimerNumbers, TimerSettled
  <2>2. TimeAgrees(c)'
    BY DEF TimesAgree
  <2>3. IsTimer(c[1])' <=> IsTimer(c[1])
    BY DEF IsTimer, TimerSettled
  <2>4. (NextOf(CC[c], elapsed[c[1]]))' \in tmr_now' + 1 .. TMR_NEVER
    BY <2>1, ToGoBounds DEF NextOf, TimerSettled
  <2> QED BY <2>1, <2>2, <2>3, <2>4, TimeBounds DEF TimeAgrees
<1>2. times \in SUBSET Nat /\ times # {}
  BY <1>1, TimeBounds DEF TimerTypeOK, TimerSettled
<1>3. PICK first \in times : \A u \in times : first <= u
  BY <1>2, NatMinimum
<1>4. FirstMatch \in times /\ \A u \in times : FirstMatch <= u
  BY <1>3 DEF FirstMatch
<1>5. Timer_TIMERs' \in tmr_now' .. TMR_NEVER
  BY <1>1, <1>2, <1>4, TimeBounds DEF TimerTypeOK, TimerSettled
<1>6. \A c \in Comparator : Timer_TIMERs' <= CC_timers'[c]
  BY <1>1, <1>4
<1>7. Timer_TIMERs' = TMR_NEVER \/ \E c \in Comparator : Timer_TIMERs' = CC_timers'[c]
  BY <1>4
<1> QED BY <1>5, <1>6, <1>7, TimeBounds DEF MasterAgrees, TimerTypeOK, TimerSettled

-----------------------------------------------------------------------------
(* The tasks.                                                               *)
(* What a task does to the counts, and that no comparator is forgotten.     *)
TaskDone ==
  /\ TimerNumbers' /\ CountsAgree'
  /\ CC_timers' \in [Comparator -> {CC_timers'[c] : c \in Comparator}]
  /\ \A c \in Comparator : Untouched(c) \/ Retimed(c)
  /\ Timer_TIMERs' = FirstMatch \/ UNCHANGED <<CC_timers, Timer_TIMERs>>

(* The times of the comparators of one TIMER are computed again, and     *)
(* the others kept.                                                      *)
LEMMA CcTimersOfIsRight ==
  ASSUME TimerTypeOK, NEW t \in TimerId, CC_timers' = CcTimersOf(t), UNCHANGED CC,
         Timer_running' = [Timer_running EXCEPT ![t] = Timer_running'[t]],
         elapsed' = [elapsed EXCEPT ![t] = elapsed'[t]]
  PROVE  /\ CC_timers' \in [Comparator -> {CC_timers'[c] : c \in Comparator}]
         /\ \A c \in Comparator : Untouched(c) \/ Retimed(c)
<1>1. \A c \in Comparator : CC_timers'[c] = IF c[1] = t THEN CcTimer(c) ELSE CC_timers[c]
  BY DEF CcTimersOf
<1>2. \A c \in Comparator : c[1] # t =>
         Timer_running'[c[1]] = Timer_running[c[1]] /\ elapsed'[c[1]] = elapsed[c[1]]
  BY ComparatorTypes DEF TimerTypeOK
<1> QED BY <1>1, <1>2 DEF CcTimersOf, Untouched, Retimed

(* Zero microseconds are zero ticks.                                     *)
LEMMA ZeroWraps ==
  CounterToTime(0) = 0 /\ 0 % WrapTime = 0 /\ 0 % (BitMask + 1) = 0
<1>1. CounterToTime(0) = 0
  <2>1. PICK T \in Nat \ {0}, U \in Nat : T = TicksPerUs /\ U = UsPerTick
    BY Prescalers
  <2>2. 0 * U = 0 /\ 0 \div T = 0
    OBVIOUS
  <2> QED BY <2>1, <2>2 DEF CounterToTime
<1> QED BY <1>1, TimeBounds

(* A remainder that is small already.                                    *)
LEMMA SmallRemainder == \A k \in 0 .. BitMask : k % (BitMask + 1) = k
BY TimeBounds

(* The count of a TIMER which the step leaves alone.                     *)
LEMMA OtherCounts ==
  ASSUME TimerSettled, NEW u \in TimerId, CountAgrees(u),
         Timer_running'[u] = Timer_running[u], elapsed'[u] = elapsed[u],
         Timer_counter_startT'[u] = Timer_counter_startT[u], Counter'[u] = Counter[u]
  PROVE  CountAgrees(u)'
BY DEF TimerSettled, CountAgrees, IsTimer

(* A START resumes from the count at which the TIMER was stopped.        *)
LEMMA StartKeepsCounts ==
  ASSUME TimerTypeOK, CountsAgree, TimerSettled, NEW t \in TimerId, TimerTASK_START(t)
  PROVE  TaskDone
<1> USE DEF TimerTypeOK
<1>1. CASE Timer_running[t]
  BY <1>1, OtherCounts DEF TimerTASK_START, countVars, matchVars, TaskDone, TimerNumbers,
     CountsAgree, Untouched
<1>2. CASE ~Timer_running[t] /\ ~IsTimer(t)
  <2>1. /\ Timer_running' = [Timer_running EXCEPT ![t] = TRUE]
        /\ UNCHANGED <<Timer_counter_startT, Counter, elapsed, CC, CC_timers, Timer_TIMERs>>
    BY <1>2 DEF TimerTASK_START
  <2>2. \A u \in TimerId : CountAgrees(u)'
    <3> TAKE u \in TimerId
    <3>1. CountAgrees(u)
      BY DEF CountsAgree
    <3> QED BY <1>2, <2>1, <3>1 DEF CountAgrees, TimerSettled, IsTimer
  <2>3. \A c \in Comparator : Untouched(c)
    BY <1>2, <2>1, ComparatorTypes DEF Untouched
  <2> QED BY <2>1, <2>2, <2>3 DEF TaskDone, TimerNumbers, CountsAgree
<1>3. CASE ~Timer_running[t] /\ IsTimer(t)
  <2>1. /\ Timer_running' = [Timer_running EXCEPT ![t] = TRUE]
        /\ Timer_counter_startT' = [Timer_counter_startT EXCEPT ![t] = tmr_now - CounterToTime(Counter[t])]
        /\ UNCHANGED <<Counter, elapsed, CC>>
        /\ CC_timers' = CcTimersOf(t) /\ Timer_TIMERs' = FirstMatch
    BY <1>3 DEF TimerTASK_START
  <2>2. /\ CounterToTime(Counter[t]) \in 0 .. tmr_now
        /\ elapsed[t] = CounterToTime(Counter[t]) % WrapTime
    BY <1>3 DEF CountsAgree, CountAgrees
  <2>3. /\ Timer_counter_startT'[t] \in 0 .. tmr_now
        /\ tmr_now - Timer_counter_startT'[t] = CounterToTime(Counter[t])
    <3>1. PICK k \in 0 .. tmr_now : k = CounterToTime(Counter[t])
      BY <2>2
    <3> QED BY <2>1, <3>1
  <2>4. \A u \in TimerId : CountAgrees(u)'
    <3> TAKE u \in TimerId
    <3>1. CASE u = t
      BY <1>3, <2>1, <2>2, <2>3, <3>1 DEF CountAgrees, TimerSettled, IsTimer
    <3>2. CASE u # t
      BY <2>1, <3>2, OtherCounts DEF CountsAgree
    <3> QED BY <3>1, <3>2
  <2>5. Timer_counter_startT' \in [TimerId -> 0 .. TMR_NEVER]
    BY <2>1, <2>3, TimeBounds
  <2>6. /\ CC_timers' \in [Comparator -> {CC_timers'[c] : c \in Comparator}]
        /\ \A c \in Comparator : Untouched(c) \/ Retimed(c)
    BY <2>1, CcTimersOfIsRight
  <2> QED BY <2>1, <2>4, <2>5, <2>6 DEF TaskDone, TimerNumbers, CountsAgree
<1> QED BY <1>1, <1>2, <1>3

(* A STOP keeps the count in Counter.                                    *)
LEMMA StopKeepsCounts ==
  ASSUME TimerTypeOK, CountsAgree, TimerSettled, NEW t \in TimerId, TimerTASK_STOP(t)
  PROVE  TaskDone
<1> USE DEF TimerTypeOK
<1>1. CASE ~Timer_running[t]
  BY <1>1, OtherCounts DEF TimerTASK_STOP, countVars, matchVars, TaskDone, TimerNumbers,
     CountsAgree, Untouched
<1>2. CASE Timer_running[t]
  <2>1. /\ Timer_running' = [Timer_running EXCEPT ![t] = FALSE]
        /\ elapsed' = [elapsed EXCEPT ![t] = IF IsTimer(t) THEN @ - (@ % UsPerTick) ELSE @]
        /\ UNCHANGED <<Timer_counter_startT, CC>>
        /\ CC_timers' = CcTimersOf(t) /\ Timer_TIMERs' = FirstMatch
    BY <1>2 DEF TimerTASK_STOP
  <2>2. /\ CC_timers' \in [Comparator -> {CC_timers'[c] : c \in Comparator}]
        /\ \A c \in Comparator : Untouched(c) \/ Retimed(c)
    BY <2>1, CcTimersOfIsRight
  <2>3. CASE ~IsTimer(t)
    <3>1. Counter' = Counter /\ elapsed' = elapsed
      BY <1>2, <2>1, <2>3 DEF TimerTASK_STOP
    <3>2. \A u \in TimerId : CountAgrees(u)'
      <4> TAKE u \in TimerId
      <4>1. CountAgrees(u)
        BY DEF CountsAgree
      <4> QED BY <2>1, <2>3, <3>1, <4>1 DEF CountAgrees, TimerSettled, IsTimer
    <3> QED BY <2>1, <2>2, <3>1, <3>2 DEF TaskDone, TimerNumbers, CountsAgree
  <2>4. CASE IsTimer(t)
    <3>1. PICK d \in 0 .. tmr_now : /\ d = tmr_now - Timer_counter_startT[t]
                                    /\ elapsed[t] = d % WrapTime
      BY <1>2, <2>4, TimeBounds DEF CountsAgree, CountAgrees
    <3>2. Counter' = [Counter EXCEPT ![t] = TimeToCounter(d)]
      BY <1>2, <2>4, <3>1 DEF TimerTASK_STOP
    <3>3. /\ CounterToTime(TimeToCounter(d)) \in 0 .. d /\ TimeToCounter(d) \in Nat
          /\ elapsed[t] - (elapsed[t] % UsPerTick) \in 0 .. WrapTime - 1
          /\ CounterToTime(TimeToCounter(d)) % WrapTime = elapsed[t] - (elapsed[t] % UsPerTick)
      <4>1. d \in Nat /\ elapsed[t] \in Nat /\ elapsed[t] = d % WrapTime
        BY <3>1, TimeBounds
      <4> QED BY <4>1, AgeInTicks, Zenon
    <3>4. /\ Counter'[t] = TimeToCounter(d) /\ elapsed'[t] = elapsed[t] - (elapsed[t] % UsPerTick)
          /\ Timer_running'[t] = FALSE
      BY <2>1, <2>4, <3>2
    <3>5. /\ CounterToTime(Counter'[t]) \in 0 .. tmr_now
          /\ elapsed'[t] = CounterToTime(Counter'[t]) % WrapTime
      <4>1. /\ CounterToTime(Counter'[t]) \in 0 .. d
            /\ elapsed'[t] = CounterToTime(Counter'[t]) % WrapTime
        BY <3>3, <3>4
      <4> QED BY <3>1, <4>1
    <3>6. \A u \in TimerId : CountAgrees(u)'
      <4> TAKE u \in TimerId
      <4>1. CASE u = t
        <5>1. CountAgrees(t)
          BY DEF CountsAgree
        <5> QED BY <2>1, <2>4, <3>4, <3>5, <4>1, <5>1 DEF CountAgrees, TimerSettled, IsTimer
      <4>2. CASE u # t
        BY <2>1, <3>2, <4>2, OtherCounts DEF CountsAgree
      <4> QED BY <4>1, <4>2
    <3>7. Counter' \in [TimerId -> Nat] /\ elapsed' \in [TimerId -> Nat]
      BY <2>1, <2>4, <3>2, <3>3, TimeBounds
    <3> QED BY <2>1, <2>2, <3>6, <3>7 DEF TaskDone, TimerNumbers, CountsAgree
  <2> QED BY <2>3, <2>4
<1> QED BY <1>1, <1>2

(* A SHUTDOWN sets the count to zero.                                    *)
LEMMA ShutdownKeepsCounts ==
  ASSUME TimerTypeOK, CountsAgree, TimerSettled, NEW t \in TimerId, TimerTASK_SHUTDOWN(t)
  PROVE  TaskDone
<1> USE DEF TimerTypeOK
<1>1. /\ Timer_running' = [Timer_running EXCEPT ![t] = FALSE]
      /\ Counter' = [Counter EXCEPT ![t] = 0]
      /\ Timer_counter_startT' = [Timer_counter_startT EXCEPT ![t] = TMR_NEVER]
      /\ elapsed' = [elapsed EXCEPT ![t] = 0]
      /\ UNCHANGED CC
      /\ CC_timers' = CcTimersOf(t) /\ Timer_TIMERs' = FirstMatch
  BY DEF TimerTASK_SHUTDOWN
<1>2. /\ CC_timers' \in [Comparator -> {CC_timers'[c] : c \in Comparator}]
      /\ \A c \in Comparator : Untouched(c) \/ Retimed(c)
  BY <1>1, CcTimersOfIsRight
<1>3. \A u \in TimerId : CountAgrees(u)'
  <2> TAKE u \in TimerId
  <2>1. CASE u = t
    BY <1>1, <2>1, TimeBounds, ZeroWraps DEF CountAgrees, TimerSettled, IsTimer
  <2>2. CASE u # t
    BY <1>1, <2>2, OtherCounts DEF CountsAgree
  <2> QED BY <2>1, <2>2
<1>4. TimerNumbers'
  BY <1>1, TimeBounds DEF TimerNumbers
<1> QED BY <1>1, <1>2, <1>3, <1>4 DEF TaskDone, CountsAgree

(* A CLEAR sets the count to zero, running or not.                       *)
LEMMA ClearKeepsCounts ==
  ASSUME TimerTypeOK, CountsAgree, TimerSettled, NEW t \in TimerId, TimerTASK_CLEAR(t)
  PROVE  TaskDone
<1> USE DEF TimerTypeOK
<1>1. /\ Counter' = [Counter EXCEPT ![t] = 0]
      /\ elapsed' = [elapsed EXCEPT ![t] = 0]
      /\ UNCHANGED <<Timer_running, CC>>
  BY DEF TimerTASK_CLEAR
<1>2. CASE IsTimer(t)
  <2>1. /\ Timer_counter_startT' = [Timer_counter_startT EXCEPT ![t] = tmr_now]
        /\ CC_timers' = CcTimersOf(t) /\ Timer_TIMERs' = FirstMatch
    BY <1>2 DEF TimerTASK_CLEAR
  <2>2. /\ CC_timers' \in [Comparator -> {CC_timers'[c] : c \in Comparator}]
        /\ \A c \in Comparator : Untouched(c) \/ Retimed(c)
    BY <1>1, <2>1, CcTimersOfIsRight
  <2>3. \A u \in TimerId : CountAgrees(u)'
    <3> TAKE u \in TimerId
    <3>1. CASE u = t
      <4>1. /\ Timer_counter_startT'[t] = tmr_now /\ tmr_now - tmr_now = 0 /\ tmr_now \in 0 .. tmr_now
            /\ Counter'[t] = 0 /\ elapsed'[t] = 0 /\ tmr_now' = tmr_now /\ IsTimer(t)'
        BY <1>1, <1>2, <2>1, TimeBounds DEF TimerSettled, IsTimer
      <4>2. 0 \in 0 .. tmr_now
        BY TimeBounds
      <4> QED BY <3>1, <4>1, <4>2, ZeroWraps DEF CountAgrees
    <3>2. CASE u # t
      BY <1>1, <2>1, <3>2, OtherCounts DEF CountsAgree
    <3> QED BY <3>1, <3>2
  <2>4. TimerNumbers'
    BY <1>1, <2>1, TimeBounds DEF TimerNumbers
  <2> QED BY <2>1, <2>2, <2>3, <2>4 DEF TaskDone, CountsAgree
<1>3. CASE ~IsTimer(t)
  <2>1. UNCHANGED <<Timer_counter_startT, CC_timers, Timer_TIMERs>>
    BY <1>3 DEF TimerTASK_CLEAR
  <2>2. \A c \in Comparator : Untouched(c)
    BY <1>1, <1>3, <2>1, ComparatorTypes DEF Untouched
  <2>3. \A u \in TimerId : CountAgrees(u)'
    <3> TAKE u \in TimerId
    <3>1. CountAgrees(u)
      BY DEF CountsAgree
    <3>2. CASE u = t
      BY <1>1, <1>3, <2>1, <3>1, <3>2, TimeBounds, ZeroWraps DEF CountAgrees, TimerSettled, IsTimer
    <3>3. CASE u # t
      BY <1>1, <2>1, <3>1, <3>3, OtherCounts
    <3> QED BY <3>2, <3>3
  <2> QED BY <1>1, <2>1, <2>2, <2>3, TimeBounds DEF TaskDone, TimerNumbers, CountsAgree
<1> QED BY <1>2, <1>3

(* What a capture reads is a count, and of a running timer the right one.   *)
LEMMA CapturedIsRight ==
  ASSUME TimerTypeOK, CountsAgree, NEW t \in TimerId
  PROVE  /\ Captured(t) \in 0 .. BitMask
         /\ IsTimer(t) /\ Timer_running[t] => Captured(t) = TimeToCounter(elapsed[t])
         /\ ~IsTimer(t) => Captured(t) = elapsed[t]
<1> USE DEF TimerTypeOK
<1>1. CountAgrees(t)
  BY DEF CountsAgree
<1>2. ASSUME IsTimer(t), NEW d \in Nat, SinceStart(t) = d
      PROVE  Captured(t) \in 0 .. BitMask /\ Captured(t) = TimeToCounter(d) % (BitMask + 1)
  <2>1. d % WrapTime \in Nat
    BY TimeBounds
  <2>2. PICK k \in Nat : k = TimeToCounter(d)
    BY <2>1, AgeInTicks, Zenon
  <2> QED BY <1>2, <2>2, TimeBounds DEF Captured
<1>3. CASE IsTimer(t) /\ Timer_running[t]
  <2>1. PICK d \in 0 .. tmr_now : /\ d = tmr_now - Timer_counter_startT[t]
                                  /\ elapsed[t] = d % WrapTime
    BY <1>1, <1>3, TimeBounds DEF CountAgrees
  <2>2. SinceStart(t) = d
    BY <1>1, <1>3, <2>1, TimeBounds DEF CountAgrees, SinceStart
  <2>3. TimeToCounter(d) % (BitMask + 1) = TimeToCounter(elapsed[t])
    <3>1. d \in Nat /\ elapsed[t] \in Nat /\ elapsed[t] = d % WrapTime
      BY <2>1, TimeBounds
    <3> QED BY <3>1, AgeInTicks, Zenon
  <2> QED BY <1>2, <1>3, <2>1, <2>2, <2>3
<1>4. CASE IsTimer(t) /\ ~Timer_running[t]
  <2>1. SinceStart(t) \in Nat
    <3>1. tmr_now \in Nat /\ (Timer_counter_startT[t] \in 0 .. tmr_now \/ Timer_counter_startT[t] = TMR_NEVER)
      BY <1>1, TimeBounds DEF CountAgrees
    <3>2. Timer_counter_startT[t] \in 0 .. tmr_now => tmr_now - Timer_counter_startT[t] \in Nat
      BY <3>1
    <3> QED BY <3>1, <3>2 DEF SinceStart
  <2> QED BY <1>2, <1>4, <2>1
<1>5. CASE ~IsTimer(t)
  <2>1. PICK k \in 0 .. BitMask : Counter[t] = k /\ elapsed[t] = k
    <3>1. Counter[t] \in 0 .. BitMask /\ elapsed[t] = Counter[t]
      BY <1>1, <1>5, TimeBounds DEF CountAgrees
    <3> QED BY <3>1, Zenon
  <2>2. k % (BitMask + 1) = k
    BY SmallRemainder
  <2> QED BY <1>5, <2>1, <2>2 DEF Captured
<1> QED BY <1>3, <1>4, <1>5

(* A CAPTURE changes the comparator it writes, and no count.             *)
LEMMA CaptureKeepsCounts ==
  ASSUME TimerTypeOK, CountsAgree, TimerSettled, NEW c \in Comparator, TimerTASK_CAPTURE(c)
  PROVE  TaskDone
<1> USE DEF TimerTypeOK
<1>1. CC' = [CC EXCEPT ![c] = Captured(c[1])] /\ UNCHANGED countVars
  BY DEF TimerTASK_CAPTURE
<1>2. CC' \in [Comparator -> 0 .. BitMask]
  BY <1>1, CapturedIsRight, ComparatorTypes
<1>3. CountsAgree' /\ TimerNumbers'
  BY <1>1, <1>2, OtherCounts DEF CountsAgree, TimerNumbers, countVars
<1>4. CASE IsTimer(c[1])
  <2>1. CC_timers' = [CC_timers EXCEPT ![c] = CcTimer(c)] /\ Timer_TIMERs' = FirstMatch
    BY <1>4 DEF TimerTASK_CAPTURE
  <2>2. \A d \in Comparator : Untouched(d) \/ Retimed(d)
    BY <1>1, <2>1 DEF Untouched, Retimed, countVars
  <2> QED BY <1>3, <2>1, <2>2 DEF TaskDone
<1>5. CASE ~IsTimer(c[1])
  <2>1. UNCHANGED <<CC_timers, Timer_TIMERs>>
    BY <1>5 DEF TimerTASK_CAPTURE
  <2>2. \A d \in Comparator : Untouched(d)
    BY <1>1, <1>5, <2>1 DEF Untouched, countVars
  <2> QED BY <1>3, <2>1, <2>2 DEF TaskDone
<1> QED BY <1>4, <1>5

(* A COUNT in counter mode is one more.                                  *)
LEMMA CountKeepsCounts ==
  ASSUME TimerTypeOK, CountsAgree, TimerSettled, NEW t \in TimerId, TimerTASK_COUNT(t)
  PROVE  TaskDone
<1> USE DEF TimerTypeOK
<1>1. CASE IsTimer(t) \/ ~Timer_running[t]
  BY <1>1, OtherCounts DEF TimerTASK_COUNT, countVars, matchVars, TaskDone, TimerNumbers,
     CountsAgree, Untouched
<1>2. CASE ~(IsTimer(t) \/ ~Timer_running[t])
  <2>1. /\ Counter' = [Counter EXCEPT ![t] = (@ + 1) % (BitMask + 1)]
        /\ elapsed' = [elapsed EXCEPT ![t] = (@ + 1) % (BitMask + 1)]
        /\ UNCHANGED <<Timer_running, Timer_counter_startT, CC, CC_timers, Timer_TIMERs>>
    BY <1>2 DEF TimerTASK_COUNT, matchVars
  <2>2. Counter[t] = elapsed[t] /\ Counter[t] \in 0 .. BitMask
    BY <1>2 DEF CountsAgree, CountAgrees
  <2>3. PICK k \in 0 .. BitMask : k = (Counter[t] + 1) % (BitMask + 1)
    BY <2>2, TimeBounds
  <2>5. Counter'[t] = elapsed'[t] /\ Counter'[t] \in 0 .. BitMask /\ elapsed'[t] \in Nat
    BY <2>1, <2>2, <2>3, TimeBounds
  <2>6. \A u \in TimerId : CountAgrees(u)'
    <3> TAKE u \in TimerId
    <3>1. CountAgrees(u)
      BY DEF CountsAgree
    <3>2. CASE u = t
      BY <1>2, <2>1, <2>5, <3>1, <3>2 DEF CountAgrees, TimerSettled, IsTimer
    <3>3. CASE u # t
      BY <2>1, <3>1, <3>3, OtherCounts
    <3> QED BY <3>2, <3>3
  <2>7. \A c \in Comparator : Untouched(c)
    BY <1>2, <2>1, ComparatorTypes DEF Untouched
  <2>8. Counter' \in [TimerId -> Nat] /\ elapsed' \in [TimerId -> Nat]
    BY <2>1, <2>5, TimeBounds
  <2> QED BY <2>1, <2>6, <2>7, <2>8 DEF TaskDone, TimerNumbers, CountsAgree
<1> QED BY <1>1, <1>2

-----------------------------------------------------------------------------
(* Of a loop over some comparators, one is served next.                     *)
LEMMA ServedNext ==
  ASSUME NEW set \in SUBSET Comparator, set # {}
  PROVE  FirstOf(set) \in set /\ LastOf(set) \in set
<1> DEFINE n == Len(Comparators)
           at == {i \in DOMAIN Comparators : Comparators[i] \in set}
           back == {n - i : i \in at}
<1>1. n \in Nat /\ DOMAIN Comparators = 1 .. n
  BY ComparatorsAssumption
<1>2. at \in SUBSET Nat /\ at # {} /\ at \subseteq DOMAIN Comparators
  BY <1>1 DEF Comparator
<1>3. PICK i \in at : \A j \in at : i <= j
  BY <1>2, NatMinimum
<1>4. back \in SUBSET Nat /\ back # {}
  BY <1>1, <1>2
<1>5. PICK b \in back : \A c \in back : b <= c
  BY <1>4, NatMinimum
<1>6. PICK k \in at : b = n - k
  BY <1>5
<1>7. \A j \in at : j <= k
  <2> TAKE j \in at
  <2>1. n - k <= n - j
    BY <1>5, <1>6
  <2> QED BY <1>1, <1>2, <2>1
<1>8. FirstOf(set) \in set
  BY <1>2, <1>3 DEF FirstOf
<1>9. LastOf(set) \in set
  BY <1>2, <1>7 DEF LastOf
<1> QED BY <1>8, <1>9

(* Calls that are neither a pending match nor the end of the matches.       *)
Quiet(s) == \A i \in 1 .. Len(s) : s[i][1] \notin {"master", "match"}

(* What a step calls comes before what is still to be done, and leaves   *)
(* it in order.                                                          *)
LEMMA Prepended ==
  ASSUME NEW E, NEW s \in Seq(E), NEW t \in Seq(E), TodoInOrder(t),
         Quiet(s) \/ (MasterPending(t) /\ \A i \in 1 .. Len(s) : s[i][1] # "master")
  PROVE  /\ s \o t \in Seq(E) /\ TodoInOrder(s \o t)
         /\ MasterPending(t) => MasterPending(s \o t)
<1>1. /\ s \o t \in Seq(E) /\ Len(s \o t) = Len(s) + Len(t)
      /\ Len(s) \in Nat /\ Len(t) \in Nat
      /\ \A i \in 1 .. Len(s) + Len(t) : (s \o t)[i] = IF i <= Len(s) THEN s[i] ELSE t[i - Len(s)]
  OBVIOUS
<1>2. ASSUME MasterPending(t) PROVE MasterPending(s \o t)
  <2>1. Len(t) > 0 /\ t[Len(t)][1] = "master"
    BY <1>2 DEF MasterPending
  <2>2. (s \o t)[Len(s \o t)] = t[Len(t)]
    BY <1>1, <2>1
  <2> QED BY <1>1, <2>1, <2>2 DEF MasterPending
<1>3. ASSUME NEW i \in 1 .. Len(s \o t), (s \o t)[i][1] = "master" PROVE i = Len(s \o t)
  <2>1. i > Len(s) /\ t[i - Len(s)][1] = "master"
    BY <1>1, <1>3 DEF Quiet
  <2>2. PICK j \in 1 .. Len(t) : j = i - Len(s)
    BY <1>1, <2>1
  <2>3. j = Len(t)
    BY <2>1, <2>2 DEF TodoInOrder
  <2> QED BY <1>1, <2>2, <2>3
<1>4. ASSUME NEW i \in 1 .. Len(s \o t), (s \o t)[i][1] = "match" PROVE MasterPending(s \o t)
  <2>1. CASE i <= Len(s)
    BY <1>1, <1>2, <1>4, <2>1 DEF Quiet
  <2>2. CASE i > Len(s)
    <3>1. t[i - Len(s)][1] = "match" /\ i - Len(s) \in 1 .. Len(t)
      BY <1>1, <1>4, <2>2
    <3> QED BY <1>2, <3>1 DEF TodoInOrder
  <2> QED BY <1>1, <2>1, <2>2
<1> QED BY <1>1, <1>2, <1>3, <1>4 DEF TodoInOrder

(* What is left when the first call has been made is in order.           *)
LEMMA Taken ==
  ASSUME NEW E, NEW t \in Seq(E), t # <<>>, TodoInOrder(t)
  PROVE  /\ Tail(t) \in Seq(E) /\ Head(t) \in E /\ TodoInOrder(Tail(t))
         /\ Head(t)[1] = "master" => Tail(t) = <<>>
         /\ Head(t)[1] # "master" /\ MasterPending(t) => MasterPending(Tail(t))
         /\ Head(t)[1] = "match" => MasterPending(Tail(t))
<1>1. /\ Tail(t) \in Seq(E) /\ Head(t) \in E /\ Head(t) = t[1]
      /\ Len(t) \in Nat /\ Len(t) > 0 /\ Len(Tail(t)) = Len(t) - 1
      /\ \A i \in 1 .. Len(t) - 1 : Tail(t)[i] = t[i + 1]
  OBVIOUS
<1>2. Head(t)[1] = "master" => Tail(t) = <<>>
  <2>1. PICK j \in 1 .. Len(t) : j = 1
    BY <1>1
  <2>2. Head(t)[1] = "master" => j = Len(t)
    BY <1>1, <2>1 DEF TodoInOrder
  <2> QED BY <1>1, <2>1, <2>2
<1>3. ASSUME Head(t)[1] # "master", MasterPending(t) PROVE MasterPending(Tail(t))
  <2>1. t[Len(t)][1] = "master" /\ Len(t) # 1
    BY <1>1, <1>3 DEF MasterPending
  <2>2. Tail(t)[Len(Tail(t))] = t[Len(t)] /\ Len(Tail(t)) > 0
    BY <1>1, <2>1
  <2>3. Tail(t) # <<>>
    BY <1>1, <2>2
  <2> QED BY <2>1, <2>2, <2>3 DEF MasterPending
<1>4. Head(t)[1] = "match" => MasterPending(Tail(t))
  <2>1. PICK j \in 1 .. Len(t) : j = 1
    BY <1>1
  <2>2. Head(t)[1] = "match" => MasterPending(t)
    BY <1>1, <2>1 DEF TodoInOrder
  <2> QED BY <1>3, <2>2
<1>5. ASSUME NEW i \in 1 .. Len(Tail(t)), Tail(t)[i][1] = "master" PROVE i = Len(Tail(t))
  <2>1. PICK j \in 1 .. Len(t) : j = i + 1
    BY <1>1
  <2>2. t[j][1] = "master"
    BY <1>1, <1>5, <2>1
  <2>3. j = Len(t)
    BY <2>2 DEF TodoInOrder
  <2>4. j - 1 = i /\ Len(t) - 1 = Len(Tail(t)) /\ i \in Int
    BY <1>1, <2>1
  <2> QED BY <2>3, <2>4
<1>6. ASSUME NEW i \in 1 .. Len(Tail(t)), Tail(t)[i][1] = "match" PROVE MasterPending(Tail(t))
  <2>1. t[i + 1][1] = "match" /\ i + 1 \in 1 .. Len(t)
    BY <1>1, <1>6
  <2>2. MasterPending(t)
    BY <2>1 DEF TodoInOrder
  <2>3. Head(t)[1] # "master"
    BY <1>1, <1>2, <1>6
  <2> QED BY <1>3, <2>2, <2>3
<1> QED BY <1>1, <1>2, <1>3, <1>4, <1>5, <1>6 DEF TodoInOrder

(* What is called is of the right type.                                     *)
LEMMA SettingTypes ==
  ASSUME tmr_cfg \in TimerSettings
  PROVE  /\ tmr_cfg.shorts \subseteq {"CLEAR", "STOP"} \X Comparator
         /\ tmr_cfg.routes \in [Comparator -> Seq(TimerCall)]
BY TimerSettingsAssumption

(* What a task or an event calls are tasks and events, and no matches.   *)
LEMMA CallTypes ==
  ASSUME tmr_cfg \in TimerSettings, NEW c \in Comparator
  PROVE  /\ SignalCompare(c) \in Seq(TimerEntry) /\ Quiet(SignalCompare(c))
         /\ tmr_cfg.routes[c] \in Seq(TimerEntry) /\ Quiet(tmr_cfg.routes[c])
         /\ \A op \in TimerTasks : AfterTask(op, c) \in Seq(TimerEntry) /\ Quiet(AfterTask(op, c))
         /\ \A s \in SwTasks : <<s>> \in Seq(TimerEntry) /\ Quiet(<<s>>)
<1>1. \A x \in TimerCall : x \in TimerEntry /\ x[1] \notin {"master", "match"}
  BY DEF TimerCall, TimerTasks, TimerEntry
<1>2. tmr_cfg.routes[c] \in Seq(TimerEntry) /\ Quiet(tmr_cfg.routes[c])
  <2>1. tmr_cfg.routes[c] \in Seq(TimerCall)
    BY SettingTypes
  <2> QED BY <1>1, <2>1 DEF Quiet
<1>3. \A op \in {"CLEAR", "STOP"} :
         Shortcut(op, c) \in Seq(TimerEntry) /\ Quiet(Shortcut(op, c))
  <2> TAKE op \in {"CLEAR", "STOP"}
  <2>1. <<op, c>> \in TimerEntry
    BY DEF TimerCall, TimerTasks, TimerEntry
  <2> QED BY <2>1 DEF Shortcut, Quiet
<1>4. <<<<"event", c>>>> \in Seq(TimerEntry) /\ Quiet(<<<<"event", c>>>>)
  BY DEF TimerEntry, Quiet
<1>5. \A s, t \in Seq(TimerEntry) : Quiet(s) /\ Quiet(t) => Quiet(s \o t) /\ s \o t \in Seq(TimerEntry)
  BY DEF Quiet
<1>6. SignalCompare(c) \in Seq(TimerEntry) /\ Quiet(SignalCompare(c))
  BY <1>3, <1>4, <1>5 DEF SignalCompare
<1>7. \A op \in TimerTasks : AfterTask(op, c) \in Seq(TimerEntry) /\ Quiet(AfterTask(op, c))
  <2> DEFINE mine == {d \in Comparator : d[1] = c[1]}
  <2>1. mine # {} /\ mine \in SUBSET Comparator
    OBVIOUS
  <2>2. <<"compare", mine>> \in TimerEntry
    BY <2>1 DEF TimerEntry
  <2>3. Loop("compare", mine) \in Seq(TimerEntry) /\ Quiet(Loop("compare", mine))
    BY <2>2 DEF Loop, Quiet
  <2> HIDE DEF mine
  <2>4. <<>> \in Seq(TimerEntry) /\ Quiet(<<>>)
    BY DEF Quiet
  <2> QED BY <2>3, <2>4 DEF AfterTask, mine
<1>8. \A s \in SwTasks : <<s>> \in Seq(TimerEntry) /\ Quiet(<<s>>)
  BY <1>1, TimerSoftwareAssumption DEF Quiet
<1> QED BY <1>2, <1>6, <1>7, <1>8

-----------------------------------------------------------------------------
(* The steps.                                                               *)

(* A step that changes neither the counts nor the matches.                   *)
LEMMA QuietStep ==
  ASSUME TimerInv, UNCHANGED <<tmr_now, tmr_cfg, countVars, matchVars>>
  PROVE  CountsAgree' /\ TimesAgree' /\ TimerNumbers'
         /\ (MasterAgrees => MasterAgrees')
         /\ CC_timers' \in [Comparator -> 0 .. TMR_NEVER] /\ Timer_TIMERs' \in 0 .. TMR_NEVER
         /\ tmr_now' \in 0 .. TimerHorizon /\ tmr_cfg' \in TimerSettings
<1> USE DEF TimerInv, countVars, matchVars
<1>1. CountsAgree'
  BY OtherCounts DEF CountsAgree, TimerSettled
<1>2. TimesAgree'
  BY UntouchedIsRight DEF TimesAgree, TimerSettled, Untouched
<1>3. MasterAgrees => MasterAgrees'
  BY DEF MasterAgrees
<1> QED BY <1>1, <1>2, <1>3 DEF TimerTypeOK, TimerNumbers

EventTypes ==
  /\ EVENTS_COMPARE \in [SwInts -> BOOLEAN] /\ TIMER_INTEN \subseteq SwInts
  /\ TIMER_int_line \in [TimerId -> BOOLEAN]

(* The times, when right, are times.                                     *)
LEMMA TimesTyped ==
  ASSUME tmr_now \in 0 .. TimerHorizon, TimerSettled, TimerNumbers', TimesAgree',
         NEW S, CC_timers' \in [Comparator -> S]
  PROVE  CC_timers' \in [Comparator -> 0 .. TMR_NEVER]
<1>1. ASSUME NEW d \in Comparator PROVE CC_timers'[d] \in 0 .. TMR_NEVER
  <2>1. CC'[d] \in 0 .. BitMask /\ elapsed'[d[1]] \in Nat /\ tmr_now' = tmr_now
    BY ComparatorTypes DEF TimerNumbers, TimerSettled
  <2>2. NextOf(CC'[d], elapsed'[d[1]]) \in tmr_now + 1 .. TMR_NEVER
    BY <2>1, ToGoBounds
  <2>3. TimeAgrees(d)'
    BY DEF TimesAgree
  <2> QED BY <2>1, <2>2, <2>3, TimeBounds DEF TimeAgrees, NextOf
<1> QED BY <1>1

(* A task keeps the invariant.                                           *)
LEMMA TaskStep ==
  ASSUME TimerInv, TimerTaskCall
  PROVE  TimerInv'
<1> DEFINE op == Head(tmr_todo)[1]
           c  == Head(tmr_todo)[2]
<1>1. /\ tmr_todo # <<>> /\ op \in TimerTasks /\ TimerTask(op, c)
      /\ tmr_todo' = AfterTask(op, c) \o Tail(tmr_todo)
      /\ TimerSettled /\ UNCHANGED eventVars
  BY DEF TimerTaskCall, TimerSettled
<1>2. /\ Tail(tmr_todo) \in Seq(TimerEntry) /\ Head(tmr_todo) \in TimerEntry
      /\ TodoInOrder(Tail(tmr_todo))
      /\ MasterPending(tmr_todo) => MasterPending(Tail(tmr_todo))
  BY <1>1, Taken DEF TimerInv, TimerTypeOK, TimerTasks
<1>3. c \in Comparator
  BY <1>1, <1>2 DEF TimerEntry, TimerCall, TimerTasks
<1> HIDE DEF op, c
<1>4. c[1] \in TimerId
  BY <1>3, ComparatorTypes
<1>5. TaskDone
  BY <1>1, <1>3, <1>4, StartKeepsCounts, StopKeepsCounts, ShutdownKeepsCounts, ClearKeepsCounts,
     CaptureKeepsCounts, CountKeepsCounts DEF TimerTask, TimerInv
<1>6. TimesAgree'
  <2>1. \A d \in Comparator : CC'[d] \in 0 .. BitMask
    BY <1>5 DEF TaskDone, TimerNumbers
  <2> QED BY <1>1, <1>5, <2>1, TimesStep DEF TaskDone, TimerInv
<1>7. /\ tmr_todo' \in Seq(TimerEntry) /\ TodoInOrder(tmr_todo')
      /\ MasterPending(tmr_todo) => MasterPending(tmr_todo')
  BY <1>1, <1>2, <1>3, CallTypes, Prepended DEF TimerInv, TimerTypeOK
<1>8. CC_timers' \in [Comparator -> 0 .. TMR_NEVER]
  BY <1>1, <1>5, <1>6, TimesTyped DEF TaskDone, TimerInv, TimerTypeOK
<1>9. TimerTypeOK' /\ (MasterAgrees' \/ UNCHANGED <<CC_timers, Timer_TIMERs>>)
  <2>1. CASE UNCHANGED <<CC_timers, Timer_TIMERs>>
    BY <1>1, <1>5, <1>7, <2>1 DEF TaskDone, TimerNumbers, TimerInv, TimerTypeOK, TimerSettled, eventVars
  <2>2. CASE Timer_TIMERs' = FirstMatch
    <3>1. MasterAgrees' /\ Timer_TIMERs' \in 0 .. TMR_NEVER
      BY <1>1, <1>5, <1>6, <1>8, <2>2, FirstMatchIsFirst DEF TaskDone, TimerInv
    <3> QED BY <1>1, <1>5, <1>7, <1>8, <3>1
        DEF TaskDone, TimerNumbers, TimerInv, TimerTypeOK, TimerSettled, eventVars
  <2> QED BY <1>5, <2>1, <2>2 DEF TaskDone
<1>10. MasterAgrees' \/ MasterPending(tmr_todo')
  BY <1>1, <1>7, <1>9 DEF TimerInv, MasterAgrees, TimerSettled
<1> QED BY <1>5, <1>6, <1>7, <1>9, <1>10 DEF TimerInv, TaskDone

(* A step that only changes the events and what is to be called.             *)
LEMMA EventStep ==
  ASSUME TimerInv, UNCHANGED <<tmr_now, tmr_cfg, countVars, matchVars>>, EventTypes',
         tmr_todo' \in Seq(TimerEntry), TodoInOrder(tmr_todo'),
         MasterPending(tmr_todo') \/ MasterAgrees
  PROVE  TimerInv'
BY QuietStep DEF TimerInv, TimerTypeOK, TimerNumbers, EventTypes

(* So does a COMPARE task of the capture in counter mode.                *)
LEMMA CompareStep ==
  ASSUME TimerInv, TimerCompare
  PROVE  TimerInv'
<1> DEFINE set == Head(tmr_todo)[2]
           c   == FirstOf(set)
           loop == Loop("compare", set \ {c})
           found == IF Counter[c[1]] = CC[c] % (BitMask + 1) THEN SignalCompare(c) ELSE <<>>
<1>1. /\ tmr_todo # <<>> /\ Head(tmr_todo)[1] = "compare"
      /\ tmr_todo' = found \o loop \o Tail(tmr_todo)
      /\ UNCHANGED <<tmr_now, tmr_cfg, countVars, matchVars, eventVars>>
  BY DEF TimerCompare
<1>2. /\ Tail(tmr_todo) \in Seq(TimerEntry) /\ Head(tmr_todo) \in TimerEntry
      /\ TodoInOrder(Tail(tmr_todo))
      /\ MasterPending(tmr_todo) => MasterPending(Tail(tmr_todo))
  BY <1>1, Taken DEF TimerInv, TimerTypeOK
<1>3. set \in SUBSET Comparator /\ set # {}
  BY <1>1, <1>2 DEF TimerEntry, TimerCall, TimerTasks
<1>4. c \in Comparator
  BY <1>3, ServedNext
<1>5. loop \in Seq(TimerEntry) /\ Quiet(loop)
  <2>1. set \ {c} # {} => <<"compare", set \ {c}>> \in TimerEntry
    BY <1>3 DEF TimerEntry
  <2> QED BY <2>1 DEF Loop, Quiet
<1>6. found \in Seq(TimerEntry) /\ Quiet(found)
  <2>1. SignalCompare(c) \in Seq(TimerEntry) /\ Quiet(SignalCompare(c))
    BY <1>4, CallTypes DEF TimerInv, TimerTypeOK
  <2>2. <<>> \in Seq(TimerEntry) /\ Quiet(<<>>)
    BY DEF Quiet
  <2> QED BY <2>1, <2>2
<1> HIDE DEF set, c, loop, found
<1>7. /\ found \o loop \in Seq(TimerEntry) /\ Quiet(found \o loop)
  BY <1>5, <1>6 DEF Quiet
<1>8. /\ tmr_todo' \in Seq(TimerEntry) /\ TodoInOrder(tmr_todo')
      /\ MasterPending(tmr_todo) => MasterPending(tmr_todo')
  <2>1. tmr_todo' = (found \o loop) \o Tail(tmr_todo)
    BY <1>1
  <2> QED BY <1>2, <1>7, <2>1, Prepended
<1> QED BY <1>1, <1>8, EventStep DEF TimerInv, TimerTypeOK, EventTypes, eventVars

(* So does the signal of a COMPARE event.                                *)
LEMMA EventCallStep ==
  ASSUME TimerInv, TimerEvent
  PROVE  TimerInv'
<1> DEFINE c == Head(tmr_todo)[2]
<1>1. /\ tmr_todo # <<>> /\ Head(tmr_todo)[1] = "event"
      /\ tmr_todo' = tmr_cfg.routes[c] \o Tail(tmr_todo)
      /\ EVENTS_COMPARE' = [d \in SwInts |-> d = c \/ EVENTS_COMPARE[d]]
      /\ UNCHANGED TIMER_INTEN /\ TimerEvalInterrupts(c[1])
      /\ UNCHANGED <<tmr_now, tmr_cfg, countVars, matchVars>>
  BY DEF TimerEvent
<1>2. /\ Tail(tmr_todo) \in Seq(TimerEntry) /\ Head(tmr_todo) \in TimerEntry
      /\ TodoInOrder(Tail(tmr_todo))
      /\ MasterPending(tmr_todo) => MasterPending(Tail(tmr_todo))
  BY <1>1, Taken DEF TimerInv, TimerTypeOK
<1>3. c \in Comparator
  BY <1>1, <1>2 DEF TimerEntry, TimerCall, TimerTasks
<1> HIDE DEF c
<1>4. /\ tmr_todo' \in Seq(TimerEntry) /\ TodoInOrder(tmr_todo')
      /\ MasterPending(tmr_todo) => MasterPending(tmr_todo')
  BY <1>1, <1>2, <1>3, CallTypes, Prepended DEF TimerInv, TimerTypeOK
<1>5. EventTypes'
  <2>1. EVENTS_COMPARE' \in [SwInts -> BOOLEAN]
    BY <1>1 DEF TimerInv, TimerTypeOK
  <2>2. TIMER_int_line' \in [TimerId -> BOOLEAN]
    BY <1>1 DEF TimerInv, TimerTypeOK, TimerEvalInterrupts
  <2> QED BY <1>1, <2>1, <2>2 DEF EventTypes, TimerInv, TimerTypeOK
<1> QED BY <1>1, <1>4, <1>5, EventStep DEF TimerInv

(* So does a match of a comparator in the handler of the hardware        *)
(* timer.                                                                *)
LEMMA MatchStep ==
  ASSUME TimerInv, TimerMatch
  PROVE  TimerInv'
<1> DEFINE set == Head(tmr_todo)[2]
           c   == LastOf(set)
           loop == Loop("match", set \ {c})
<1>1. /\ tmr_todo # <<>> /\ Head(tmr_todo)[1] = "match"
      /\ tmr_todo' = SignalCompare(c) \o loop \o Tail(tmr_todo)
      /\ UNCHANGED <<countVars, CC, Timer_TIMERs>>
      /\ CC_timers' = [CC_timers EXCEPT ![c] = CcTimer(c)]
      /\ TimerSettled /\ UNCHANGED eventVars
  BY DEF TimerMatch, TimerSettled
<1>2. /\ Tail(tmr_todo) \in Seq(TimerEntry) /\ Head(tmr_todo) \in TimerEntry
      /\ TodoInOrder(Tail(tmr_todo)) /\ MasterPending(Tail(tmr_todo))
  BY <1>1, Taken DEF TimerInv, TimerTypeOK
<1>3. set \in SUBSET Comparator /\ set # {}
  BY <1>1, <1>2 DEF TimerEntry, TimerCall, TimerTasks
<1>4. c \in Comparator
  BY <1>3, ServedNext
<1>5. loop \in Seq(TimerEntry) /\ \A i \in 1 .. Len(loop) : loop[i][1] # "master"
  <2>1. set \ {c} # {} => <<"match", set \ {c}>> \in TimerEntry
    BY <1>3 DEF TimerEntry
  <2> QED BY <2>1 DEF Loop
<1>6. SignalCompare(c) \in Seq(TimerEntry) /\ Quiet(SignalCompare(c))
  BY <1>4, CallTypes DEF TimerInv, TimerTypeOK
<1> HIDE DEF set, c, loop
<1>7. /\ tmr_todo' \in Seq(TimerEntry) /\ TodoInOrder(tmr_todo') /\ MasterPending(tmr_todo')
  <2>1. /\ loop \o Tail(tmr_todo) \in Seq(TimerEntry) /\ TodoInOrder(loop \o Tail(tmr_todo))
        /\ MasterPending(loop \o Tail(tmr_todo))
    BY <1>2, <1>5, Prepended
  <2>2. tmr_todo' = SignalCompare(c) \o (loop \o Tail(tmr_todo))
    <3>1. \A a, b, d \in Seq(TimerEntry) : (a \o b) \o d = a \o (b \o d)
      OBVIOUS
    <3> QED BY <1>1, <1>2, <1>5, <1>6, <3>1
  <2> QED BY <1>6, <2>1, <2>2, Prepended
<1>8. CountsAgree' /\ TimerNumbers'
  BY <1>1, OtherCounts DEF CountsAgree, TimerInv, TimerTypeOK, TimerNumbers, countVars
<1>9. TimesAgree'
  <2>1. \A d \in Comparator : Untouched(d) \/ (Retimed(d) /\ CC'[d] \in 0 .. BitMask)
    BY <1>1, <1>4, <1>8 DEF Untouched, Retimed, TimerInv, TimerTypeOK, TimerNumbers, countVars
  <2> QED BY <1>1, <1>8, <2>1, TimesStep DEF TimerInv
<1>10. CC_timers' \in [Comparator -> 0 .. TMR_NEVER]
  <2>1. CC_timers' \in [Comparator -> {CC_timers'[d] : d \in Comparator}]
    BY <1>1 DEF TimerInv, TimerTypeOK
  <2> QED BY <1>1, <1>8, <1>9, <2>1, TimesTyped DEF TimerInv, TimerTypeOK
<1>11. TimerTypeOK'
  BY <1>1, <1>7, <1>8, <1>10 DEF TimerNumbers, TimerInv, TimerTypeOK, TimerSettled, eventVars
<1> QED BY <1>7, <1>8, <1>9, <1>11 DEF TimerInv

(* So does the update of the hardware timer at the end of the handler.   *)
LEMMA MasterStep ==
  ASSUME TimerInv, TimerMaster
  PROVE  TimerInv'
<1>1. /\ tmr_todo # <<>> /\ Head(tmr_todo)[1] = "master" /\ tmr_todo' = Tail(tmr_todo)
      /\ UNCHANGED <<countVars, CC, CC_timers>> /\ Timer_TIMERs' = FirstMatch
      /\ TimerSettled /\ UNCHANGED eventVars
  BY DEF TimerMaster, TimerSettled
<1>2. tmr_todo' \in Seq(TimerEntry) /\ TodoInOrder(tmr_todo')
  BY <1>1, Taken DEF TimerInv, TimerTypeOK
<1>3. CountsAgree' /\ TimerNumbers'
  BY <1>1, OtherCounts DEF CountsAgree, TimerInv, TimerTypeOK, TimerNumbers, countVars
<1>4. TimesAgree'
  BY <1>1, UntouchedIsRight DEF TimesAgree, Untouched, TimerInv, countVars
<1>5. MasterAgrees' /\ Timer_TIMERs' \in 0 .. TMR_NEVER
  BY <1>1, <1>3, <1>4, FirstMatchIsFirst DEF TimerInv, TimerTypeOK
<1>6. TimerTypeOK'
  BY <1>1, <1>2, <1>3, <1>5 DEF TimerNumbers, TimerInv, TimerTypeOK, TimerSettled, eventVars
<1> QED BY <1>2, <1>3, <1>4, <1>5, <1>6 DEF TimerInv

(* So does the call of the handler.                                      *)
LEMMA TriggeredStep ==
  ASSUME TimerInv, TimerTriggered
  PROVE  TimerInv'
<1> DEFINE matches == {c \in Comparator : Timer_running[c[1]] /\ IsTimer(c[1])
                                            /\ CC_timers[c] = Timer_TIMERs}
           loop == Loop("match", matches)
           last == <<<<"master", Comparators[1]>>>>
<1>1. tmr_todo' = loop \o last /\ UNCHANGED <<tmr_now, tmr_cfg, countVars, matchVars, eventVars>>
  BY DEF TimerTriggered
<1>2. last \in Seq(TimerEntry) /\ TodoInOrder(last) /\ MasterPending(last)
  <2>1. <<"master", Comparators[1]>> \in TimerEntry
    BY ComparatorTypes DEF TimerEntry
  <2>2. last \in Seq(TimerEntry) /\ Len(last) = 1 /\ last[1][1] = "master" /\ last # <<>>
    BY <2>1
  <2> QED BY <2>2 DEF TodoInOrder, MasterPending
<1>3. loop \in Seq(TimerEntry) /\ \A i \in 1 .. Len(loop) : loop[i][1] # "master"
  <2>1. matches # {} => <<"match", matches>> \in TimerEntry
    BY DEF TimerEntry
  <2> QED BY <2>1 DEF Loop
<1> HIDE DEF matches, loop, last
<1>4. tmr_todo' \in Seq(TimerEntry) /\ TodoInOrder(tmr_todo') /\ MasterPending(tmr_todo')
  BY <1>1, <1>2, <1>3, Prepended
<1> QED BY <1>1, <1>4, EventStep DEF TimerInv, TimerTypeOK, EventTypes, eventVars

(* A microsecond passes, if no match is due: the counts and the times    *)
(* still agree.                                                          *)
LEMMA TickStep ==
  ASSUME TimerInv, TimerTick
  PROVE  TimerInv'
<1> USE DEF TimerInv, TimerTypeOK
<1>1. /\ tmr_todo = <<>> /\ tmr_now < TimerHorizon /\ tmr_now < Timer_TIMERs
      /\ tmr_now' = tmr_now + 1
      /\ elapsed' = [t \in TimerId |->
           IF Timer_running[t] /\ IsTimer(t) THEN (elapsed[t] + 1) % WrapTime ELSE elapsed[t]]
      /\ UNCHANGED <<tmr_cfg, Timer_running, Timer_counter_startT, Counter, CC, CC_timers,
                     Timer_TIMERs, EVENTS_COMPARE, TIMER_INTEN, TIMER_int_line, tmr_todo>>
  BY DEF TimerTick, matchVars, eventVars
<1>2. tmr_now' \in 0 .. TimerHorizon /\ MasterAgrees
  BY <1>1, TimeBounds DEF MasterPending
<1>3. elapsed' \in [TimerId -> Nat]
  <2>1. \A x \in Nat : x % WrapTime \in Nat
    BY TimeBounds
  <2>2. \A t \in TimerId : elapsed[t] \in Nat /\ elapsed[t] + 1 \in Nat
    OBVIOUS
  <2>3. \A t \in TimerId : elapsed'[t] \in Nat
    BY <1>1, <2>1, <2>2
  <2> QED BY <1>1, <2>3
<1>4. \A t \in TimerId : CountAgrees(t)'
  <2> TAKE t \in TimerId
  <2>1. CountAgrees(t) /\ (IsTimer(t)' <=> IsTimer(t))
    BY <1>1 DEF CountsAgree, IsTimer
  <2>2. CASE Timer_running[t] /\ IsTimer(t)
    <3>1. PICK d \in 0 .. tmr_now : /\ d = tmr_now - Timer_counter_startT[t]
                                    /\ elapsed[t] = d % WrapTime
      BY <2>1, <2>2, TimeBounds DEF CountAgrees
    <3>2. (d + 1) % WrapTime = ((d % WrapTime) + 1) % WrapTime
      <4>1. d \in Nat /\ WrapTime \in Nat \ {0}
        BY TimeBounds
      <4> QED BY <4>1, OneMoreMicrosecond, Zenon
    <3>3. /\ elapsed'[t] = (d + 1) % WrapTime
          /\ tmr_now' - Timer_counter_startT'[t] = d + 1
          /\ Timer_counter_startT'[t] \in 0 .. tmr_now'
      BY <1>1, <2>1, <2>2, <3>1, <3>2 DEF CountAgrees
    <3> QED BY <1>1, <2>1, <2>2, <3>3 DEF CountAgrees
  <2>3. CASE ~(Timer_running[t] /\ IsTimer(t))
    <3>1. elapsed'[t] = elapsed[t]
      BY <1>1, <2>3
    <3>2. Timer_counter_startT'[t] \in (0 .. tmr_now') \union {TMR_NEVER}
      BY <1>1, <2>1 DEF CountAgrees
    <3>3. IsTimer(t) /\ ~Timer_running[t] => CounterToTime(Counter[t]) \in 0 .. tmr_now'
      <4>1. ASSUME NEW k \in 0 .. tmr_now PROVE k \in 0 .. tmr_now'
        BY <1>1
      <4> QED BY <2>1, <4>1 DEF CountAgrees
    <3> QED BY <1>1, <2>1, <2>3, <3>1, <3>2, <3>3 DEF CountAgrees
  <2> QED BY <2>2, <2>3
<1>5. \A c \in Comparator : TimeAgrees(c)'
  <2> TAKE c \in Comparator
  <2>1. TimeAgrees(c) /\ (IsTimer(c[1])' <=> IsTimer(c[1])) /\ c[1] \in TimerId
    BY <1>1, ComparatorTypes DEF TimesAgree, IsTimer
  <2>2. CASE ~(Timer_running[c[1]] /\ IsTimer(c[1]))
    BY <1>1, <2>1, <2>2 DEF TimeAgrees
  <2>3. CASE Timer_running[c[1]] /\ IsTimer(c[1])
    <3>2. PICK e \in Nat : e = elapsed[c[1]]
      BY <2>1
    <3>3. PICK g \in 0 .. WrapTime - 1 : g = ToGo(CC[c], e)
      BY ToGoBounds
    <3>4. elapsed'[c[1]] = (e + 1) % WrapTime /\ elapsed'[c[1]] \in Nat
      BY <1>1, <1>3, <2>1, <2>3, <3>2
    <3>5. PICK h \in 0 .. WrapTime - 1 : h = ToGo(CC'[c], elapsed'[c[1]])
      BY <1>1, <3>4, ToGoBounds
    <3>6. h = IF g = 0 THEN WrapTime - 1 ELSE g - 1
      <4>1. CC[c] \in 0 .. BitMask /\ CC'[c] = CC[c]
        BY <1>1
      <4>2. ToGo(CC[c], (e + 1) % WrapTime) = IF g = 0 THEN WrapTime - 1 ELSE g - 1
        BY <3>3, <4>1, OneLessToGo
      <4> QED BY <3>4, <3>5, <4>1, <4>2
    <3>7. CC_timers[c] = tmr_now + (IF g = 0 THEN WrapTime ELSE g)
      <4>1. CC_timers[c] > tmr_now
        BY <1>1, <1>2, TimeBounds DEF MasterAgrees
      <4> QED BY <2>1, <2>3, <3>2, <3>3, <4>1 DEF TimeAgrees, NextOf
    <3>8. CC_timers'[c] = tmr_now' + h
      BY <1>1, <3>6, <3>7, TimeBounds
    <3> QED BY <1>1, <2>1, <2>3, <3>5, <3>8, TimeBounds DEF TimeAgrees, NextOf
  <2> QED BY <2>2, <2>3
<1>6. MasterAgrees'
  BY <1>1, <1>2, TimeBounds DEF MasterAgrees
<1> QED BY <1>1, <1>2, <1>3, <1>4, <1>5, <1>6 DEF CountsAgree, TimesAgree

(* nrf_timer_regw_sideeffects_CC().                                         *)
LEMMA SoftwareCcStep ==
  ASSUME TimerInv, TimerSoftwareCc
  PROVE  TimerInv'
<1>1. PICK write \in SwCcs : SoftwareCc(write[1], write[2])
  BY DEF TimerSoftwareCc
<1> DEFINE c == write[1]
<1>2. c \in Comparator /\ write[2] \in 0 .. BitMask /\ c[1] \in TimerId
  BY TimerSoftwareAssumption, ComparatorTypes
<1> HIDE DEF c
<1>3. /\ tmr_todo = <<>> /\ CC' = [CC EXCEPT ![c] = write[2]]
      /\ TimerSettled /\ UNCHANGED <<countVars, eventVars, tmr_todo>>
  BY <1>1 DEF TimerSoftwareCc, SoftwareCc, TimerSettled, c
<1>4. CountsAgree' /\ TimerNumbers'
  BY <1>2, <1>3, OtherCounts DEF CountsAgree, TimerInv, TimerTypeOK, TimerNumbers, countVars
<1>5. /\ \A d \in Comparator : Untouched(d) \/ (Retimed(d) /\ CC'[d] \in 0 .. BitMask)
      /\ CC_timers' \in [Comparator -> {CC_timers'[d] : d \in Comparator}]
      /\ Timer_TIMERs' = FirstMatch \/ UNCHANGED <<CC_timers, Timer_TIMERs>>
  <2>1. CASE Timer_running[c[1]] /\ IsTimer(c[1])
    <3>1. CC_timers' = [CC_timers EXCEPT ![c] = CcTimer(c)] /\ Timer_TIMERs' = FirstMatch
      BY <1>1, <2>1 DEF SoftwareCc, c
    <3>2. CC_timers' \in [Comparator -> {CC_timers'[d] : d \in Comparator}]
      BY <3>1 DEF TimerInv, TimerTypeOK
    <3> QED BY <1>2, <1>3, <1>4, <3>1, <3>2
        DEF Untouched, Retimed, TimerInv, TimerTypeOK, TimerNumbers, countVars
  <2>2. CASE ~(Timer_running[c[1]] /\ IsTimer(c[1]))
    <3>1. UNCHANGED <<CC_timers, Timer_TIMERs>>
      BY <1>1, <2>2 DEF SoftwareCc, c
    <3>2. \A d \in Comparator : Untouched(d) \/ Retimed(d)
      <4> TAKE d \in Comparator
      <4>1. CASE Timer_running[d[1]] /\ IsTimer(d[1])
        BY <1>2, <1>3, <2>2, <3>1, <4>1 DEF Untouched, TimerInv, TimerTypeOK, countVars
      <4>2. CASE ~(Timer_running[d[1]] /\ IsTimer(d[1]))
        BY <1>3, <3>1, <4>2 DEF Retimed, CcTimer, TimerInv, TimesAgree, TimeAgrees, countVars
      <4> QED BY <4>1, <4>2
    <3> QED BY <1>4, <3>1, <3>2 DEF TimerInv, TimerTypeOK, TimerNumbers
  <2> QED BY <2>1, <2>2
<1>6. TimesAgree'
  BY <1>3, <1>4, <1>5, TimesStep DEF TimerInv
<1>7. CC_timers' \in [Comparator -> 0 .. TMR_NEVER]
  BY <1>3, <1>4, <1>5, <1>6, TimesTyped DEF TimerInv, TimerTypeOK
<1>8. MasterAgrees' /\ Timer_TIMERs' \in 0 .. TMR_NEVER
  <2>1. CASE Timer_TIMERs' = FirstMatch
    BY <1>3, <1>4, <1>6, <1>7, <2>1, FirstMatchIsFirst DEF TimerInv
  <2>2. CASE UNCHANGED <<CC_timers, Timer_TIMERs>>
    BY <1>3, <2>2 DEF TimerInv, TimerTypeOK, MasterAgrees, MasterPending, TimerSettled
  <2> QED BY <1>5, <2>1, <2>2
<1> QED BY <1>3, <1>4, <1>6, <1>7, <1>8
    DEF TimerNumbers, TimerInv, TimerTypeOK, TimerSettled, eventVars

(* The writes of the software keep the invariant.                        *)
LEMMA SoftwareStep ==
  ASSUME TimerInv, TimerSoftwareTask \/ TimerSoftwareInterrupts
  PROVE  TimerInv'
<1>1. CASE TimerSoftwareTask
  <2>1. PICK task \in SwTasks : /\ tmr_todo = <<>> /\ tmr_todo' = <<task>>
                                /\ UNCHANGED <<tmr_now, tmr_cfg, countVars, matchVars, eventVars>>
    BY <1>1 DEF TimerSoftwareTask
  <2>2. <<task>> \in Seq(TimerEntry) /\ Quiet(<<task>>)
    BY ComparatorTypes, CallTypes DEF TimerInv, TimerTypeOK
  <2>3. TodoInOrder(<<task>>) /\ ~MasterPending(tmr_todo)
    BY <2>1, <2>2 DEF TodoInOrder, Quiet, MasterPending
  <2> QED BY <2>1, <2>2, <2>3, EventStep DEF TimerInv, TimerTypeOK, EventTypes, eventVars
<1>2. CASE TimerSoftwareInterrupts
  <2>1. PICK c \in SwInts :
          /\ \/ EVENTS_COMPARE' = [EVENTS_COMPARE EXCEPT ![c] = FALSE] /\ UNCHANGED TIMER_INTEN
             \/ /\ TIMER_INTEN' \in {TIMER_INTEN \union {c}, TIMER_INTEN \ {c}}
                /\ UNCHANGED EVENTS_COMPARE
          /\ TimerEvalInterrupts(c[1])
    BY <1>2 DEF TimerSoftwareInterrupts
  <2>2. /\ tmr_todo' = tmr_todo /\ UNCHANGED <<tmr_now, tmr_cfg, countVars, matchVars>>
    BY <1>2 DEF TimerSoftwareInterrupts
  <2>3. EventTypes'
    <3>1. TIMER_int_line' \in [TimerId -> BOOLEAN]
      BY <2>1 DEF TimerInv, TimerTypeOK, TimerEvalInterrupts
    <3> QED BY <2>1, <3>1 DEF EventTypes, TimerInv, TimerTypeOK
  <2> QED BY <2>2, <2>3, EventStep DEF TimerInv, TimerTypeOK
<1> QED BY <1>1, <1>2

(* The invariant holds at boot.                                          *)
LEMMA TimerInitInv == TimerInit => TimerInv
<1> SUFFICES ASSUME TimerInit PROVE TimerInv
  OBVIOUS
<1> USE DEF TimerInit
<1>1. TimerTypeOK
  BY TimeBounds DEF TimerTypeOK
<1>2. CountsAgree
  <2> SUFFICES ASSUME NEW t \in TimerId PROVE CountAgrees(t)
    BY DEF CountsAgree
  <2>1. Timer_counter_startT[t] = TMR_NEVER /\ ~Timer_running[t] /\ Counter[t] = 0 /\ elapsed[t] = 0
    OBVIOUS
  <2>2. 0 \in 0 .. tmr_now
    OBVIOUS
  <2>3. CounterToTime(Counter[t]) = 0 /\ 0 % WrapTime = 0
    <3>1. CounterToTime(Counter[t]) = CounterToTime(0)
      BY <2>1
    <3> QED BY <3>1, ZeroWraps
  <2>4. 0 \in 0 .. BitMask
    BY TimeBounds
  <2> QED BY <2>1, <2>2, <2>3, <2>4 DEF CountAgrees
<1>3. TimesAgree
  BY ComparatorTypes DEF TimesAgree, TimeAgrees
<1>4. TodoInOrder(tmr_todo) /\ MasterAgrees
  BY TimeBounds DEF TodoInOrder, MasterAgrees
<1> QED BY <1>1, <1>2, <1>3, <1>4 DEF TimerInv

(* Every step keeps the invariant.                                       *)
LEMMA TimerStepInv == TimerInv /\ [TimerNext]_tmrVars => TimerInv'
<1> SUFFICES ASSUME TimerInv, [TimerNext]_tmrVars PROVE TimerInv'
  OBVIOUS
<1>1. CASE TimerNext
  BY <1>1, TaskStep, CompareStep, MatchStep, EventCallStep, MasterStep, TriggeredStep, TickStep,
     SoftwareCcStep, SoftwareStep DEF TimerNext
<1>2. CASE UNCHANGED tmrVars
  BY <1>2, EventStep
     DEF tmrVars, eventVars, TimerInv, TimerTypeOK, EventTypes
<1> QED BY <1>1, <1>2

(* The inductive invariant of the timers.                                   *)
THEOREM TimerInvariant == TimerSpec => []TimerInv
BY TimerInitInv, TimerStepInv, PTL DEF TimerSpec

(* The types.                                                               *)
THEOREM TimerTypes == TimerSpec => []TimerTypeOK
BY TimerInvariant, PTL DEF TimerInv

(* The invariant implies that the timers match the counts.               *)
LEMMA TimerInvMatches == TimerInv => TimerMatchesTheCount
<1> SUFFICES ASSUME TimerInv, tmr_todo = <<>> PROVE TimerMatchesTheCount
  BY DEF TimerMatchesTheCount, ComparatorTimesAreRight, TimerMasterIsFirst
<1>1. MasterAgrees
  BY DEF TimerInv, MasterPending
<1>2. \A c \in Comparator : TimeAgrees(c)
  BY DEF TimerInv, TimesAgree
<1>3. ComparatorTimesAreRight
  BY <1>2 DEF ComparatorTimesAreRight, TimeAgrees, NextOf, ToGo, CounterToTime
<1>4. TimerMasterIsFirst
  BY <1>1 DEF MasterAgrees, TimerMasterIsFirst
<1> QED BY <1>3, <1>4 DEF TimerMatchesTheCount

(* The next match of each comparator, as the counts of microseconds      *)
(* give it, is the time for which nrf_hw_TIMER_update_cc_timer() has     *)
(* set it, and the hardware timer is set for the first of them,          *)
(* whatever tasks and events the PPI calls in the middle of the          *)
(* handlers.                                                             *)
THEOREM TimerMatches == TimerSpec => []TimerMatchesTheCount
BY TimerInvariant, TimerInvMatches, PTL

(* A CAPTURE reads the count of the microseconds that the TIMER has      *)
(* run.                                                                  *)
LEMMA CaptureReads ==
  ASSUME TimerInv, [TimerNext]_tmrVars, NEW c \in Comparator,
         tmr_todo # <<>>, Head(tmr_todo) = <<"CAPTURE", c>>, tmr_todo' = Tail(tmr_todo),
         Timer_running[c[1]] \/ ~IsTimer(c[1])
  PROVE  CC'[c] = (IF IsTimer(c[1]) THEN (elapsed[c[1]] * TicksPerUs) \div UsPerTick
                                    ELSE elapsed[c[1]])
<1>1. tmr_todo' # tmr_todo
  BY DEF TimerInv, TimerTypeOK
<1>2. TimerTaskCall
  <2>1. Head(tmr_todo)[1] = "CAPTURE"
    OBVIOUS
  <2>2. ~TimerCompare /\ ~TimerMatch /\ ~TimerEvent /\ ~TimerMaster
    BY <2>1 DEF TimerCompare, TimerMatch, TimerEvent, TimerMaster
  <2>3. ~TimerTriggered /\ ~TimerTick /\ ~TimerSoftwareTask
    BY DEF TimerTriggered, TimerTick, TimerSoftwareTask
  <2>4. ~TimerSoftwareCc /\ ~TimerSoftwareInterrupts
    BY DEF TimerSoftwareCc, TimerSoftwareInterrupts
  <2>5. ~UNCHANGED tmrVars
    BY <1>1 DEF tmrVars
  <2> QED BY <2>2, <2>3, <2>4, <2>5 DEF TimerNext
<1>3. TimerTASK_CAPTURE(c)
  BY <1>2 DEF TimerTaskCall, TimerTask
<1>4. CC'[c] = Captured(c[1])
  BY <1>3 DEF TimerTASK_CAPTURE, TimerInv, TimerTypeOK
<1> QED BY <1>4, CapturedIsRight, ComparatorTypes DEF TimerInv, TimeToCounter

(* A CAPTURE task reads the count of the microseconds for which the      *)
(* TIMER has run.                                                        *)
THEOREM TimerCaptures == TimerSpec => CaptureReadsTheCount
<1>1. TimerInv /\ [TimerNext]_tmrVars =>
        [\A c \in Comparator :
       (tmr_todo # <<>> /\ Head(tmr_todo) = <<"CAPTURE", c>> /\ tmr_todo' = Tail(tmr_todo)
          /\ (Timer_running[c[1]] \/ ~IsTimer(c[1])))
       => CC'[c] = (IF IsTimer(c[1]) THEN (elapsed[c[1]] * TicksPerUs) \div UsPerTick
                                     ELSE elapsed[c[1]])]_tmrVars
  BY CaptureReads
<1> QED BY <1>1, TimerInvariant, PTL DEF TimerSpec, CaptureReadsTheCount

-----------------------------------------------------------------------------
(* The RTC.                                                                 *)

(* A remainder that is small already.                                    *)
LEMMA RemainderOfSmall ==
  ASSUME NEW W \in Nat \ {0}, NEW r \in 0 .. W - 1
  PROVE  r % W = r
OBVIOUS

(* What is left of a wrap of W until a count that is y ahead, modulo W.       *)
Left(W, y) == IF y % W = 0 THEN W ELSE y % W

(* The number from 1 to W that is y modulo W is what is left.            *)
LEMMA LeftIsUnique ==
  ASSUME NEW W \in Nat \ {0}, NEW y \in Int, NEW k \in Int, NEW x \in 1 .. W, x = y + k * W
  PROVE  Left(W, y) = x
<1>1. CASE x = W
  <2>1. y = (1 - k) * W + 0 /\ 1 - k \in Int /\ 0 \in 0 .. W - 1
    <3>1. (1 - k) * W = W - k * W
      OBVIOUS
    <3> QED BY <1>1, <3>1
  <2>2. ((1 - k) * W + 0) % W = 0
    BY <2>1, RemainderIsUnique
  <2> QED BY <1>1, <2>1, <2>2 DEF Left
<1>2. CASE x # W
  <2>1. y = (-k) * W + x /\ -k \in Int /\ x \in 0 .. W - 1
    <3>1. (-k) * W = -(k * W)
      OBVIOUS
    <3> QED BY <1>2, <3>1
  <2>2. ((-k) * W + x) % W = x
    BY <2>1, RemainderIsUnique
  <2> QED BY <1>2, <2>1, <2>2 DEF Left
<1> QED BY <1>1, <1>2

(* What is left is from 1 to W, and y modulo W.                          *)
LEMMA LeftIsAhead ==
  ASSUME NEW W \in Nat \ {0}, NEW y \in Int
  PROVE  Left(W, y) \in 1 .. W /\ \E k \in Int : Left(W, y) = y + k * W
<1>1. PICK q \in Int, r \in 0 .. W - 1 : y = q * W + r /\ y % W = r
  BY Remainder
<1>2. CASE r = 0
  <2>1. W = y + (1 - q) * W /\ 1 - q \in Int
    <3>1. (1 - q) * W = W - q * W
      OBVIOUS
    <3> QED BY <1>1, <1>2, <3>1
  <2>2. Left(W, y) = W /\ W \in 1 .. W
    BY <1>1, <1>2 DEF Left
  <2> QED BY <2>1, <2>2
<1>3. CASE r # 0
  <2>1. r = y + (-q) * W /\ -q \in Int
    <3>1. (-q) * W = -(q * W)
      OBVIOUS
    <3> QED BY <1>1, <3>1
  <2>2. Left(W, y) = r /\ r \in 1 .. W
    BY <1>1, <1>3 DEF Left
  <2> QED BY <2>1, <2>2
<1> QED BY <1>2, <1>3

(* Equal remainders.                                                        *)
LEMMA SameRemainder ==
  ASSUME NEW W \in Nat \ {0}, NEW x \in Int, NEW k \in Int, NEW y \in Int, y = x + k * W
  PROVE  y % W = x % W
<1>1. PICK q \in Int, r \in 0 .. W - 1 : x = q * W + r /\ x % W = r
  BY Remainder
<1>2. y = (q + k) * W + r /\ q + k \in Int
  <2>1. (q + k) * W = q * W + k * W
    OBVIOUS
  <2> QED BY <1>1, <2>1
<1>3. ((q + k) * W + r) % W = r
  BY <1>2, RemainderIsUnique
<1> QED BY <1>1, <1>2, <1>3

(* The loop "while (match <= now) match += wrap".                           *)
LEMMA LoopIsLeft ==
  ASSUME NEW W \in Nat \ {0}, NEW t \in Int, NEW m \in Int, m - W <= t
  PROVE  (IF m > t THEN m ELSE m + ((t - m) \div W + 1) * W) = t + Left(W, m - t)
<1>1. CASE m > t
  <2>1. m - t = (m - t) + 0 * W /\ m - t \in 1 .. W /\ m - t \in Int
    BY <1>1
  <2>2. Left(W, m - t) = m - t
    BY <2>1, LeftIsUnique
  <2> QED BY <1>1, <2>2
<1>2. CASE ~(m > t)
  <2>1. t - m \in Int
    OBVIOUS
  <2>2. PICK q \in Int, r \in 0 .. W - 1 : t - m = q * W + r /\ (t - m) \div W = q
    BY <2>1, Remainder
  <2>3. W - r = (m - t) + (q + 1) * W /\ W - r \in 1 .. W /\ q + 1 \in Int /\ m - t \in Int
    <3>1. (q + 1) * W = q * W + W
      OBVIOUS
    <3> QED BY <2>2, <3>1
  <2>4. Left(W, m - t) = W - r
    BY <2>3, LeftIsUnique
  <2>5. (q + 1) * W = q * W + W
    OBVIOUS
  <2> QED BY <1>2, <2>2, <2>4, <2>5
<1> QED BY <1>1, <1>2

-----------------------------------------------------------------------------
(* The constants of an RTC: a tick is a whole number of periods of the   *)
(* low frequency clock, a wrap of ticks, and "never" is after the end.   *)
LEMMA RtcBounds ==
  /\ SubUs \in Nat \ {0} /\ LfPeriod \in Nat \ {0} /\ TickTime \in Nat \ {0} /\ RtcWrap \in Nat \ {0}
  /\ CounterMask \in Nat \ {0} /\ OverflowValue \in 0 .. CounterMask
  /\ RtcHorizon \in Nat /\ RTC_NEVER \in Nat
  /\ SubUs <= LfPeriod /\ LfPeriod <= TickTime /\ TickTime < RtcWrap
  /\ RTC_NEVER = RtcHorizon + 3 * RtcWrap
  /\ RtcWrap = TickTime * (CounterMask + 1)
<1>1. SubUs \in Nat \ {0} /\ LfPeriod \in Nat \ {0} /\ SubUs <= LfPeriod
  BY SubUsAssumption, LfPeriodAssumption
<1>2. Prescaler \in Nat /\ CounterMask \in Nat \ {0} /\ OverflowValue \in 0 .. CounterMask
  BY PrescalerAssumption, MaskAssumption
<1>3. \A a \in Nat \ {0}, b \in Nat : a * (b + 1) \in Nat /\ a * (b + 1) = a * b + a /\ a * b >= 0
  OBVIOUS
<1>4. TickTime \in Nat \ {0} /\ LfPeriod <= TickTime
  <2>1. LfPeriod * (Prescaler + 1) = LfPeriod * Prescaler + LfPeriod /\ LfPeriod * Prescaler >= 0
    BY <1>1, <1>2
  <2>2. PICK n \in Nat : n = LfPeriod * Prescaler
    BY <1>1, <1>2
  <2> QED BY <1>1, <2>1, <2>2 DEF TickTime
<1>5. RtcWrap \in Nat \ {0} /\ TickTime < RtcWrap
  <2>1. RtcWrap = TickTime * CounterMask + TickTime
    BY <1>2, <1>4 DEF RtcWrap
  <2>2. PICK n \in Nat : n = TickTime * CounterMask /\ n > 0
    BY <1>2, <1>4
  <2> QED BY <1>4, <2>1, <2>2
<1> QED BY <1>1, <1>2, <1>4, <1>5, RtcHorizonAssumption DEF RTC_NEVER, RtcWrap

(* The time of a count is within a wrap, and a whole number of periods.  *)
LEMMA CountBounds ==
  ASSUME NEW count \in 0 .. CounterMask + 1
  PROVE  /\ CounterToTimeSubUs(count) = count * TickTime
         /\ count * TickTime \in 0 .. RtcWrap
         /\ count <= CounterMask => count * TickTime \in 0 .. RtcWrap - 1
         /\ count = CounterMask + 1 => count * TickTime = RtcWrap
         /\ \E k \in Int : count * TickTime = k * LfPeriod
<1>1. PICK T \in Nat \ {0} : T = TickTime
  BY RtcBounds
<1>2. PICK N \in Nat \ {0} : N = CounterMask + 1
  BY RtcBounds
<1>3. RtcWrap = T * N
  BY <1>1, <1>2, RtcBounds
<1>4. PICK d \in Nat : d = N - count
  BY <1>2
<1>5. T * N = d * T + count * T /\ d * T >= 0 /\ count * T >= 0 /\ count * T \in Int
  BY <1>2, <1>4
<1>6. count <= CounterMask => d * T > 0
  BY <1>1, <1>2, <1>4, RtcBounds
<1>7. count * TickTime = (count * (Prescaler + 1)) * LfPeriod /\ count * (Prescaler + 1) \in Int
  <2>1. LfPeriod \in Nat /\ Prescaler + 1 \in Nat /\ count \in Nat
    BY <1>2, PrescalerAssumption, LfPeriodAssumption, RtcBounds
  <2> QED BY <2>1 DEF TickTime
<1>8. PICK x \in Int, y \in Int, W \in Int : x = d * T /\ y = count * T /\ W = RtcWrap
  BY <1>3, <1>4, <1>5
<1>9. count = CounterMask + 1 => d * T = 0
  BY <1>2, <1>4
<1>10. W = x + y /\ x >= 0 /\ y >= 0 /\ (count <= CounterMask => x > 0)
       /\ (count = CounterMask + 1 => x = 0)
  BY <1>3, <1>5, <1>6, <1>8, <1>9
<1>11. y = count * TickTime
  BY <1>1, <1>8
<1> QED BY <1>7, <1>8, <1>10, <1>11 DEF CounterToTimeSubUs

(* A wrap is a whole number of periods.                                  *)
LEMMA WrapInPeriods == \E k \in Int : RtcWrap = k * LfPeriod
<1>1. CounterMask + 1 \in 0 .. CounterMask + 1
  BY RtcBounds
<1>2. (CounterMask + 1) * TickTime = RtcWrap
  BY <1>1, CountBounds
<1> QED BY <1>1, <1>2, CountBounds

(* sub_us_time_to_us_time(), of a time x after the start of a microsecond n. *)
LEMMA UsTimeOf ==
  ASSUME NEW x \in Nat \ {0}, NEW n \in Nat
  PROVE  /\ UsTime(n * SubUs + x) = n + UsTime(x)
         /\ UsTime(x) \in 1 .. x
         /\ x > SubUs => UsTime(x) = 1 + UsTime(x - SubUs)
         /\ x <= SubUs => UsTime(x) = 1
<1>1. PICK s \in Nat \ {0} : s = SubUs
  BY RtcBounds
<1>2. x + s - 1 \in Int
  OBVIOUS
<1>3. PICK q \in Int, r \in 0 .. s - 1 : x + s - 1 = q * s + r /\ (x + s - 1) \div s = q
  BY <1>2, Remainder
<1>4. UsTime(x) = q
  BY <1>1, <1>3 DEF UsTime
<1>5. n * s + x + s - 1 = (n + q) * s + r /\ n + q \in Int
  <2>1. (n + q) * s = n * s + q * s
    OBVIOUS
  <2> QED BY <1>3, <2>1
<1>6. UsTime(n * SubUs + x) = n + q
  <2>1. ((n + q) * s + r) \div s = n + q
    BY <1>5, RemainderIsUnique
  <2> QED BY <1>1, <1>5, <2>1 DEF UsTime
<1>7. q \in 1 .. x
  <2>1. q <= 0 => q * s <= 0
    OBVIOUS
  <2>2. q >= x + 1 => q * s >= x * s + s
    <3>1. q >= x + 1 => q * s >= (x + 1) * s
      OBVIOUS
    <3> QED BY <3>1
  <2>3. x * s >= x
    OBVIOUS
  <2>4. PICK y \in Int, z \in Int : y = q * s /\ z = x * s
    OBVIOUS
  <2> QED BY <1>3, <2>1, <2>2, <2>3, <2>4
<1>8. ASSUME x > SubUs PROVE UsTime(x) = 1 + UsTime(x - SubUs)
  <2>1. x - s + s - 1 = (q - 1) * s + r /\ q - 1 \in Int
    <3>1. (q - 1) * s = q * s - s
      OBVIOUS
    <3> QED BY <1>3, <3>1
  <2>2. ((q - 1) * s + r) \div s = q - 1
    BY <2>1, RemainderIsUnique
  <2>3. UsTime(x - SubUs) = q - 1
    BY <1>1, <2>1, <2>2 DEF UsTime
  <2> QED BY <1>4, <2>3
<1>9. ASSUME x <= SubUs PROVE UsTime(x) = 1
  <2>1. x + s - 1 = 1 * s + (x - 1) /\ x - 1 \in 0 .. s - 1
    BY <1>1, <1>9
  <2>2. (1 * s + (x - 1)) \div s = 1
    BY <2>1, RemainderIsUnique
  <2> QED BY <1>1, <2>1, <2>2 DEF UsTime
<1> QED BY <1>4, <1>6, <1>7, <1>8, <1>9

(* An overflow x before the start of a microsecond n, and in the last one.   *)
LEMMA UsTimeBefore ==
  ASSUME NEW x \in Nat, x < SubUs, NEW n \in Nat
  PROVE  UsTime(n * SubUs - x) = n
<1>1. PICK s \in Nat \ {0} : s = SubUs
  BY RtcBounds
<1>2. n * s - x + s - 1 = n * s + (s - 1 - x) /\ s - 1 - x \in 0 .. s - 1
  BY <1>1
<1>3. (n * s + (s - 1 - x)) \div s = n
  BY <1>2, RemainderIsUnique
<1> QED BY <1>1, <1>2, <1>3 DEF UsTime

-----------------------------------------------------------------------------
(* The start that is kept, a negative one too, gives the phase p.           *)
StartAt(start, negative, p) ==
  /\ start \in Nat /\ negative \in 0 .. RtcWrap - 1 /\ p \in 0 .. RtcWrap - 1
  /\ start <= NowSubUs /\ (start > 0 => negative = 0)
  /\ (NowSubUs - start + negative) % RtcWrap = p

(* From a phase p to a count; 0 and a wrap are the same.                    *)
ToCount(count, p) == Left(RtcWrap, count * TickTime - p)

(* The next match is within a wrap, and not now.                         *)
LEMMA ToCountBounds ==
  ASSUME NEW count \in 0 .. CounterMask + 1, NEW p \in 0 .. RtcWrap - 1
  PROVE  ToCount(count, p) \in 1 .. RtcWrap
<1>1. count * TickTime \in Int /\ RtcWrap \in Nat \ {0}
  BY RtcBounds, CountBounds
<1>2. PICK y \in Int : y = count * TickTime - p
  BY <1>1
<1> QED BY <1>1, <1>2, LeftIsAhead DEF ToCount

(* get_counter_match_sub_us(): the loop over the wraps finds the next    *)
(* time at which the counter is at count, from the start that is kept,   *)
(* whose sign is kept apart.                                             *)
LEMMA MatchIsRight ==
  ASSUME rtc_now \in Nat, NEW p \in 0 .. RtcWrap - 1,
         StartAt(RTC_counter_startT_sub_us', RTC_counter_startT_negative_sub_us', p),
         NEW count \in 0 .. CounterMask + 1
  PROVE  MatchSubUs(count) = NowSubUs + ToCount(count, p)
<1>1. PICK W \in Nat \ {0} : W = RtcWrap
  BY RtcBounds
<1>2. PICK t \in Nat : t = NowSubUs
  BY RtcBounds DEF NowSubUs
<1>3. PICK m \in 0 .. W : m = count * TickTime /\ CounterToTimeSubUs(count) = m
  BY <1>1, CountBounds
<1>4. PICK s \in Nat, n \in Nat : /\ s = RTC_counter_startT_sub_us'
                                  /\ n = RTC_counter_startT_negative_sub_us'
                                  /\ s <= t /\ n < W /\ (s > 0 => n = 0) /\ (t - s + n) % W = p
  <2>1. /\ RTC_counter_startT_sub_us' \in Nat
        /\ RTC_counter_startT_negative_sub_us' \in 0 .. RtcWrap - 1
    BY DEF StartAt
  <2>2. PICK s \in Nat : s = RTC_counter_startT_sub_us'
    BY <2>1
  <2>3. PICK n \in Nat : n = RTC_counter_startT_negative_sub_us' /\ n < W
    BY <1>1, <2>1
  <2>4. s <= t /\ (s > 0 => n = 0) /\ (t - s + n) % W = p
    BY <1>1, <1>2, <2>2, <2>3 DEF StartAt
  <2> QED BY <2>2, <2>3, <2>4
<1>5. PICK first \in Int :
         first = IF s > 0 THEN s + m ELSE IF m > n THEN m - n ELSE W + m - n
  BY <1>1, <1>3, <1>4
<1>6. first - W <= t
  BY <1>1, <1>3, <1>4, <1>5
<1>7. MatchSubUs(count) = IF first > t THEN first ELSE first + ((t - first) \div W + 1) * W
  BY <1>1, <1>2, <1>3, <1>4, <1>5 DEF MatchSubUs
<1>8. MatchSubUs(count) = t + Left(W, first - t)
  <2>1. W \in Nat \ {0} /\ t \in Int /\ first \in Int /\ first - W <= t
    BY <1>1, <1>2, <1>5, <1>6
  <2>2. (IF first > t THEN first ELSE first + ((t - first) \div W + 1) * W) = t + Left(W, first - t)
    BY <2>1, LoopIsLeft, Zenon
  <2> QED BY <1>7, <2>2
<1>9. Left(W, first - t) = Left(W, m - p)
  <2>1. PICK a \in Int : a = t - s + n
    OBVIOUS
  <2>2. PICK q \in Int, r \in 0 .. W - 1 : a = q * W + r /\ a % W = r
    BY <2>1, Remainder
  <2>3. r = p
    BY <1>4, <2>1, <2>2
  <2>4. PICK k \in {0, 1} : first - t = m - a + k * W
    <3>1. CASE s > 0
      BY <1>4, <1>5, <2>1, <3>1
    <3>2. CASE s = 0 /\ m > n
      BY <1>4, <1>5, <2>1, <3>2
    <3>3. CASE s = 0 /\ ~(m > n)
      <4>1. first - t = m - a + 1 * W
        BY <1>4, <1>5, <2>1, <3>3
      <4> QED BY <4>1
    <3> QED BY <1>4, <3>1, <3>2, <3>3
  <2>5. PICK x \in Int, y \in Int, j \in Int : x = m - p /\ y = first - t /\ j = k - q
    BY <2>2, <2>3, <2>4
  <2>6. y = x + j * W
    <3>1. (k - q) * W = k * W - q * W
      BY <2>4
    <3> QED BY <2>2, <2>3, <2>4, <2>5, <3>1
  <2>7. y % W = x % W
    BY <2>6, SameRemainder, Zenon
  <2> QED BY <2>5, <2>7 DEF Left
<1> QED BY <1>1, <1>2, <1>3, <1>8, <1>9 DEF ToCount

(* COUNTER.                                                                 *)
LEMMA CountIsRight ==
  ASSUME rtc_now \in Nat, RTC_Running, NEW p \in 0 .. RtcWrap - 1,
         StartAt(RTC_counter_startT_sub_us, RTC_counter_startT_negative_sub_us, p)
  PROVE  CountNow = p \div TickTime /\ CountNow \in 0 .. CounterMask
<1>1. PICK W \in Nat \ {0}, T \in Nat \ {0}, N \in Nat \ {0} :
         W = RtcWrap /\ T = TickTime /\ N = CounterMask + 1 /\ W = T * N
  BY RtcBounds
<1>2. PICK a \in Int :
         a = NowSubUs - RTC_counter_startT_sub_us + RTC_counter_startT_negative_sub_us /\ a % W = p
  BY <1>1, RtcBounds DEF StartAt, NowSubUs
<1>3. PICK q \in Int, r \in 0 .. W - 1 : a = q * W + r /\ a % W = r
  BY Remainder
<1>4. p \in Int /\ r = p
  BY <1>2, <1>3
<1>5. PICK c \in Int, u \in 0 .. T - 1 : p = c * T + u /\ p \div T = c
  BY <1>4, Remainder
<1>6. c \in 0 .. N - 1
  <2>1. c <= -1 => c * T <= -T
    OBVIOUS
  <2>2. c >= N => c * T >= N * T
    OBVIOUS
  <2>3. N * T = W
    BY <1>1
  <2>4. p >= 0 /\ p < W
    BY <1>1
  <2>5. PICK z \in Int, w \in Int : z = c * T /\ w = N * T
    OBVIOUS
  <2> QED BY <1>5, <2>1, <2>2, <2>3, <2>4, <2>5
<1>7. a = (q * N + c) * T + u /\ q * N + c \in Int
  <2>1. (q * N + c) * T = (q * N) * T + c * T
    OBVIOUS
  <2>2. (q * N) * T = q * (T * N)
    OBVIOUS
  <2>3. a = q * (T * N) + (c * T + u)
    BY <1>1, <1>3, <1>4, <1>5
  <2>4. PICK x \in Int, y \in Int, z \in Int :
           x = (q * N + c) * T /\ y = (q * N) * T /\ z = c * T
    OBVIOUS
  <2>5. x = y + z /\ a = y + (z + u)
    BY <2>1, <2>2, <2>3, <2>4
  <2>6. a = x + u
    BY <2>4, <2>5
  <2> QED BY <2>4, <2>6
<1>8. a \div T = q * N + c
  BY <1>7, RemainderIsUnique
<1>9. (q * N + c) % N = c
  BY <1>6, RemainderIsUnique
<1>10. CountNow = c
  BY <1>1, <1>2, <1>8, <1>9 DEF CountNow, TimeSubUsToCounter
<1>11. c \in 0 .. CounterMask
  BY <1>1, <1>6, RtcBounds
<1> QED BY <1>1, <1>5, <1>10, <1>11

(* What set_counter_to() keeps.                                             *)
ClockAgrees ==
  /\ rtc_now \in 0 .. RtcHorizon
  /\ first_lf_tick_time_sub_us \in 0 .. NowSubUs
  /\ lf_phase = (NowSubUs - first_lf_tick_time_sub_us) % LfPeriod

(* The last tick of the low frequency clock was before now, less than a  *)
(* period ago.                                                           *)
LEMMA ClockIsRight ==
  ASSUME ClockAgrees
  PROVE  LastLfTick = NowSubUs - lf_phase /\ lf_phase \in 0 .. LfPeriod - 1
         /\ LastLfTick \in 0 .. NowSubUs /\ NowSubUs \in Nat
<1>1. PICK P \in Nat \ {0} : P = LfPeriod
  BY RtcBounds
<1>2. PICK t \in Nat : t = NowSubUs
  BY RtcBounds DEF NowSubUs, ClockAgrees
<1>3. PICK f \in 0 .. t : f = first_lf_tick_time_sub_us
  BY <1>2 DEF ClockAgrees
<1>4. PICK d \in Int : d = t - f
  OBVIOUS
<1>5. PICK q \in Int, r \in 0 .. P - 1 : d = q * P + r /\ d \div P = q /\ d % P = r
  BY Remainder
<1>6. lf_phase = r /\ LastLfTick = q * P + f
  BY <1>1, <1>2, <1>3, <1>4, <1>5 DEF ClockAgrees, LastLfTick
<1>7. q >= 0
  <2>1. q <= -1 => q * P <= -P
    OBVIOUS
  <2> QED BY <1>3, <1>4, <1>5, <2>1
<1>8. q * P >= 0
  BY <1>7
<1> QED BY <1>1, <1>2, <1>3, <1>4, <1>5, <1>6, <1>8

(* Setting the counter at the last tick of the clock sets the phase.     *)
LEMMA StartSet ==
  ASSUME ClockAgrees, NEW count \in 0 .. CounterMask,
         NEW start, start = LastLfTick - CounterToTimeSubUs(count),
         NEW p, p = (CounterToTimeSubUs(count) + lf_phase) % RtcWrap
  PROVE  /\ StartAt(IF start >= 0 THEN start ELSE 0, IF start >= 0 THEN 0 ELSE -start, p)
         /\ p % LfPeriod = lf_phase
         /\ count = 0 => p = lf_phase
<1>1. PICK W \in Nat \ {0}, P \in Nat \ {0} : W = RtcWrap /\ P = LfPeriod /\ P < W
  BY RtcBounds
<1>2. PICK m \in 0 .. W - 1 : CounterToTimeSubUs(count) = m /\ count * TickTime = m
  <2>1. count \in 0 .. CounterMask + 1 /\ count <= CounterMask
    BY RtcBounds
  <2> QED BY <1>1, <2>1, CountBounds
<1>3. PICK l \in 0 .. P - 1, t \in Nat : l = lf_phase /\ t = NowSubUs /\ LastLfTick = t - l /\ l <= t
  BY <1>1, ClockIsRight
<1>4. PICK a \in Int : a = m + l
  OBVIOUS
<1>5. p = a % W /\ p \in 0 .. W - 1
  BY <1>1, <1>2, <1>3, <1>4
<1>6. StartAt(IF start >= 0 THEN start ELSE 0, IF start >= 0 THEN 0 ELSE -start, p)
  <2>1. start = t - l - m
    BY <1>2, <1>3
  <2>2. CASE start >= 0
    <3>1. t - start + 0 = a
      BY <1>4, <2>1
    <3> QED BY <1>1, <1>2, <1>3, <1>5, <2>1, <2>2, <3>1 DEF StartAt
  <2>3. CASE ~(start >= 0)
    <3>1. t - 0 + (-start) = a
      BY <1>4, <2>1
    <3>2. -start \in 0 .. W - 1
      BY <1>2, <1>3, <2>1, <2>3
    <3> QED BY <1>1, <1>3, <1>5, <2>3, <3>1, <3>2 DEF StartAt
  <2> QED BY <2>2, <2>3
<1>7. p % P = l
  <2>1. PICK q \in Int, r \in 0 .. W - 1 : a = q * W + r /\ a % W = r
    BY Remainder
  <2>2. PICK i \in Int : W = i * P
    BY <1>1, WrapInPeriods
  <2>3. count \in 0 .. CounterMask + 1
    BY RtcBounds
  <2>4. PICK j \in Int : m = j * P
    BY <1>1, <1>2, <2>3, CountBounds
  <2>5. PICK k \in Int : k = j - q * i
    OBVIOUS
  <2>6. p = k * P + l
    <3>1. (j - q * i) * P = j * P - (q * i) * P
      OBVIOUS
    <3>2. (q * i) * P = q * (i * P)
      OBVIOUS
    <3> QED BY <1>4, <1>5, <2>1, <2>2, <2>4, <2>5, <3>1, <3>2
  <2>7. (k * P + l) % P = l
    BY RemainderIsUnique
  <2> QED BY <2>6, <2>7
<1>8. ASSUME count = 0 PROVE p = lf_phase
  <2>1. m = 0
    BY <1>2, <1>8, RtcBounds
  <2>2. a \in 0 .. W - 1
    BY <1>1, <1>4, <2>1
  <2> QED BY <1>3, <1>4, <1>5, <2>1, <2>2
<1> QED BY <1>1, <1>3, <1>6, <1>7, <1>8

-----------------------------------------------------------------------------
(* While the RTC runs, the start that is kept gives the phase; and it       *)
(* counts with the ticks of the LF clock, unless that has started again.    *)
StartAgrees ==
  RTC_Running => /\ StartAt(RTC_counter_startT_sub_us, RTC_counter_startT_negative_sub_us, phase)
                 /\ ~lf_moved => phase % LfPeriod = lf_phase

(* The time of an event is right, at any moment.                            *)
CountTo(e) == IF e = OVRFLW THEN CounterMask + 1 ELSE RTC_CC[e]
EventAgrees(e) ==
  IF RTC_Running
    THEN \/ cc_timers[e] = rtc_now + UsTime(ToCount(CountTo(e), phase))
         \/ cc_timers[e] = rtc_now /\ e \in rtc_due
    ELSE cc_timers[e] = RTC_NEVER

EventsAgree == \A e \in RtcEvent : EventAgrees(e)

(* So are the fractions of that of the overflow: the next, or this one.      *)
OverflowAgrees ==
  RTC_Running =>
    /\ cc_timers[OVRFLW] = UsTime(overflow_timer_sub_us)
    /\ \/ overflow_timer_sub_us = NowSubUs + (RtcWrap - phase)
       \/ overflow_timer_sub_us = NowSubUs - phase /\ phase < SubUs

FirstAgrees ==
  IF RTC_Running THEN \A e \in RtcEvent : Timer_RTC <= cc_timers[e] ELSE Timer_RTC = RTC_NEVER

RtcNumbers ==
  /\ RTC_Running \in BOOLEAN
  /\ RTC_counter_startT_sub_us \in Nat /\ RTC_counter_startT_negative_sub_us \in Nat
  /\ counter \in 0 .. CounterMask /\ RTC_CC \in [Cc -> 0 .. CounterMask]
  /\ phase \in 0 .. RtcWrap - 1
  /\ overflow_timer_sub_us \in Nat /\ Timer_RTC \in 0 .. RTC_NEVER

(* The counts that signal events.                                        *)
LEMMA CountToTypes ==
  ASSUME RTC_CC \in [Cc -> 0 .. CounterMask], NEW e \in RtcEvent
  PROVE  CountTo(e) \in 0 .. CounterMask + 1
BY RtcBounds DEF CountTo, RtcEvent

(* The times of the events, when right, are times.                       *)
LEMMA TimesInRange ==
  ASSUME rtc_now \in 0 .. RtcHorizon, RTC_CC \in [Cc -> 0 .. CounterMask],
         phase \in 0 .. RtcWrap - 1, NEW e \in RtcEvent, EventAgrees(e)
  PROVE  cc_timers[e] \in 0 .. RTC_NEVER
<1>1. ToCount(CountTo(e), phase) \in 1 .. RtcWrap
  BY CountToTypes, ToCountBounds
<1>2. PICK x \in Nat \ {0} : x = ToCount(CountTo(e), phase) /\ x <= RtcWrap
  BY <1>1, RtcBounds
<1>3. UsTime(x) \in 1 .. x
  <2>1. 0 \in Nat
    OBVIOUS
  <2> QED BY <2>1, UsTimeOf
<1> QED BY <1>2, <1>3, RtcBounds DEF EventAgrees

-----------------------------------------------------------------------------
(* The times of the events.                                                 *)
LEMMA MatchTimeIsRight ==
  ASSUME rtc_now \in 0 .. RtcHorizon, rtc_now' = rtc_now, RTC_Running' \in BOOLEAN,
         RTC_CC' \in [Cc -> 0 .. CounterMask], phase' \in 0 .. RtcWrap - 1, StartAgrees',
         NEW e \in RtcEvent, cc_timers'[e] = MatchTime(e)
  PROVE  EventAgrees(e)'
<1>1. CASE ~RTC_Running'
  BY <1>1 DEF MatchTime, EventAgrees
<1>2. CASE RTC_Running'
  <2>1. CountOf(e) = CountTo(e)' /\ CountTo(e)' \in 0 .. CounterMask + 1
    BY RtcBounds DEF CountOf, CountTo, RtcEvent
  <2>2. PICK c \in 0 .. CounterMask + 1 : c = CountOf(e) /\ c = CountTo(e)'
    BY <2>1
  <2>3. PICK p \in 0 .. RtcWrap - 1 : p = phase'
    OBVIOUS
  <2>4. StartAt(RTC_counter_startT_sub_us', RTC_counter_startT_negative_sub_us', p)
    BY <1>2, <2>3 DEF StartAgrees, StartAt, NowSubUs
  <2>5. rtc_now \in Nat
    BY RtcBounds
  <2>6. MatchSubUs(c) = NowSubUs + ToCount(c, p)
    BY <2>4, <2>5, MatchIsRight
  <2>7. PICK x \in Nat \ {0} : x = ToCount(c, p)
    BY RtcBounds, ToCountBounds
  <2>8. UsTime(rtc_now * SubUs + x) = rtc_now + UsTime(x)
    BY <2>5, UsTimeOf
  <2>9. cc_timers'[e] = rtc_now + UsTime(x)
    BY <1>2, <2>2, <2>6, <2>7, <2>8 DEF MatchTime, NowSubUs
  <2> QED BY <1>2, <2>2, <2>3, <2>7, <2>9 DEF EventAgrees, UsTime
<1> QED BY <1>1, <1>2

(* update_overflow_timer() computes the time of the next overflow.       *)
LEMMA OverflowTimeIsRight ==
  ASSUME rtc_now \in 0 .. RtcHorizon, rtc_now' = rtc_now, RTC_Running' \in BOOLEAN,
         phase' \in 0 .. RtcWrap - 1, StartAgrees', UpdateOverflowSubUs
  PROVE  /\ overflow_timer_sub_us' \in Nat
         /\ RTC_Running' => /\ overflow_timer_sub_us' = NowSubUs + (RtcWrap - phase')
                            /\ MatchTime(OVRFLW) = UsTime(overflow_timer_sub_us')
<1>1. CASE ~RTC_Running'
  BY <1>1, RtcBounds DEF UpdateOverflowSubUs
<1>2. CASE RTC_Running'
  <2>1. PICK p \in 0 .. RtcWrap - 1 : p = phase'
    OBVIOUS
  <2>2. StartAt(RTC_counter_startT_sub_us', RTC_counter_startT_negative_sub_us', p)
    BY <1>2, <2>1 DEF StartAgrees, StartAt, NowSubUs
  <2>3. rtc_now \in Nat /\ CounterMask + 1 \in 0 .. CounterMask + 1
    BY RtcBounds
  <2>4. MatchSubUs(CounterMask + 1) = NowSubUs + ToCount(CounterMask + 1, p)
    BY <2>2, <2>3, MatchIsRight
  <2>5. ToCount(CounterMask + 1, p) = RtcWrap - p
    <3>1. PICK W \in Nat \ {0} : W = RtcWrap
      BY RtcBounds
    <3>2. PICK y \in 1 .. W : y = W - p
      <4>1. p \in 0 .. W - 1
        BY <3>1
      <4> QED BY <4>1
    <3>3. y = y + 0 * W /\ y \in 1 .. W
      BY <3>1, <3>2
    <3>4. Left(W, y) = y
      BY <3>3, LeftIsUnique
    <3>5. (CounterMask + 1) * TickTime = W
      BY <2>3, <3>1, CountBounds
    <3> QED BY <3>1, <3>2, <3>4, <3>5 DEF ToCount
  <2>6. PICK n \in Nat : n = NowSubUs
    BY <2>3, RtcBounds DEF NowSubUs
  <2>7. overflow_timer_sub_us' = n + (RtcWrap - p)
    BY <1>2, <2>4, <2>5, <2>6 DEF UpdateOverflowSubUs
  <2>8. MatchTime(OVRFLW) = UsTime(overflow_timer_sub_us')
    BY <1>2 DEF MatchTime, CountOf, UpdateOverflowSubUs
  <2>9. PICK x \in Nat : x = n + (RtcWrap - p)
    <3>1. PICK W \in Nat \ {0} : W = RtcWrap
      BY RtcBounds
    <3> QED BY <3>1
  <2> QED BY <2>1, <2>6, <2>7, <2>8, <2>9
<1> QED BY <1>1, <1>2

(* update_master_timer(): the hardware timer is the first of the times.  *)
LEMMA RtcMasterIsRight ==
  ASSUME RTC_Running' \in BOOLEAN, cc_timers' \in [RtcEvent -> 0 .. RTC_NEVER], UpdateRtcMaster
  PROVE  FirstAgrees' /\ Timer_RTC' \in 0 .. RTC_NEVER
<1> DEFINE times == {cc_timers'[e] : e \in RtcEvent} \union {RTC_NEVER}
<1>1. times \in SUBSET Nat /\ times # {} /\ \A u \in times : u \in 0 .. RTC_NEVER
  BY RtcBounds
<1> HIDE DEF times
<1>2. PICK time \in times : \A u \in times : time <= u
  BY <1>1, NatMinimum
<1> DEFINE first == CHOOSE x \in times : \A u \in times : x <= u
<1>3. first \in times /\ \A u \in times : first <= u
  BY <1>2
<1>4. FirstRtcTimer = first
  BY DEF FirstRtcTimer, times
<1> HIDE DEF first
<1>5. \A e \in RtcEvent : FirstRtcTimer <= cc_timers'[e]
  BY <1>3, <1>4 DEF times
<1> QED BY <1>1, <1>3, <1>4, <1>5, RtcBounds DEF UpdateRtcMaster, FirstAgrees

(* What every task leaves behind.                                           *)
RtcDone ==
  /\ RtcNumbers' /\ StartAgrees' /\ EventsAgree' /\ OverflowAgrees'
  /\ cc_timers' \in [RtcEvent -> 0 .. RTC_NEVER]
  /\ FirstAgrees' \/ UNCHANGED <<RTC_Running, cc_timers, Timer_RTC>>

RtcRight == RtcTypeOK /\ ClockAgrees /\ StartAgrees /\ EventsAgree /\ OverflowAgrees

(* update_timers() makes all of the times right again.                   *)
LEMMA UpdatedIsRight ==
  ASSUME rtc_now \in 0 .. RtcHorizon, rtc_now' = rtc_now, RTC_Running' \in BOOLEAN,
         RTC_CC' \in [Cc -> 0 .. CounterMask], phase' \in 0 .. RtcWrap - 1, StartAgrees',
         UpdateTimers
  PROVE  /\ EventsAgree' /\ OverflowAgrees' /\ FirstAgrees'
         /\ cc_timers' \in [RtcEvent -> 0 .. RTC_NEVER] /\ overflow_timer_sub_us' \in Nat
         /\ Timer_RTC' \in 0 .. RTC_NEVER
<1>1. cc_timers' = [e \in RtcEvent |-> MatchTime(e)] /\ UpdateOverflowSubUs /\ UpdateRtcMaster
  BY DEF UpdateTimers
<1>2. EventsAgree'
  BY <1>1, MatchTimeIsRight DEF EventsAgree
<1>3. \A e \in RtcEvent : cc_timers'[e] \in 0 .. RTC_NEVER
  <2> TAKE e \in RtcEvent
  <2>1. ToCount(CountTo(e)', phase') \in 1 .. RtcWrap
    <3>1. CountTo(e)' \in 0 .. CounterMask + 1
      BY RtcBounds DEF CountTo, RtcEvent
    <3> QED BY <3>1, ToCountBounds
  <2>2. PICK x \in Nat \ {0} : x = ToCount(CountTo(e)', phase') /\ x <= RtcWrap
    BY <2>1, RtcBounds
  <2>3. UsTime(x) \in 1 .. x
    <3>1. 0 \in Nat
      OBVIOUS
    <3> QED BY <3>1, UsTimeOf
  <2>4. EventAgrees(e)'
    BY <1>2 DEF EventsAgree
  <2> QED BY <2>2, <2>3, <2>4, RtcBounds DEF EventAgrees, UsTime
<1>4. cc_timers' \in [RtcEvent -> 0 .. RTC_NEVER]
  BY <1>1, <1>3
<1>5. OVRFLW \in RtcEvent
  BY DEF RtcEvent
<1>6. OverflowAgrees'
  <2>1. cc_timers'[OVRFLW] = MatchTime(OVRFLW)
    BY <1>1, <1>5
  <2> QED BY <1>1, <2>1, OverflowTimeIsRight DEF OverflowAgrees, NowSubUs, UsTime
<1> QED BY <1>1, <1>2, <1>4, <1>6, OverflowTimeIsRight, RtcMasterIsRight

(* set_counter(): the count is the one given, and the times are right.   *)
LEMMA SetCounterIsRight ==
  ASSUME RtcRight, NEW count \in 0 .. CounterMask, RTC_Running' \in BOOLEAN, UNCHANGED rtcTime,
         SetCounterTo(count)
  PROVE  /\ RtcDone /\ FirstAgrees' /\ counter' = count
         /\ count = 0 => phase' = lf_phase
<1> USE DEF RtcRight
<1>1. PICK start : start = LastLfTick - CounterToTimeSubUs(count)
  OBVIOUS
<1>2. PICK p : p = (CounterToTimeSubUs(count) + lf_phase) % RtcWrap
  OBVIOUS
<1>3. /\ RTC_counter_startT_sub_us' = IF start >= 0 THEN start ELSE 0
      /\ RTC_counter_startT_negative_sub_us' = IF start >= 0 THEN 0 ELSE -start
      /\ counter' = count /\ RTC_CC' = RTC_CC /\ UpdateTimers /\ phase' = p
      /\ rtc_now' = rtc_now /\ lf_phase' = lf_phase /\ rtc_now \in 0 .. RtcHorizon
      /\ RTC_CC \in [Cc -> 0 .. CounterMask]
  BY <1>1, <1>2 DEF SetCounterTo, rtcTime, RtcTypeOK
<1>4. /\ StartAt(IF start >= 0 THEN start ELSE 0, IF start >= 0 THEN 0 ELSE -start, p)
      /\ p % LfPeriod = lf_phase /\ (count = 0 => p = lf_phase)
  BY <1>1, <1>2, StartSet
<1>5. /\ RTC_counter_startT_sub_us' \in Nat /\ RTC_counter_startT_negative_sub_us' \in Nat
      /\ phase' \in 0 .. RtcWrap - 1
  BY <1>3, <1>4 DEF StartAt
<1>6. StartAgrees'
  BY <1>3, <1>4 DEF StartAgrees, StartAt, NowSubUs
<1>7. /\ EventsAgree' /\ OverflowAgrees' /\ FirstAgrees'
      /\ cc_timers' \in [RtcEvent -> 0 .. RTC_NEVER] /\ overflow_timer_sub_us' \in Nat
      /\ Timer_RTC' \in 0 .. RTC_NEVER
  BY <1>3, <1>5, <1>6, UpdatedIsRight
<1>8. RtcNumbers'
  BY <1>3, <1>5, <1>7 DEF RtcNumbers
<1> QED BY <1>3, <1>4, <1>6, <1>7, <1>8 DEF RtcDone

-----------------------------------------------------------------------------
(* The counter overflowed in this microsecond: what the tasks called at an  *)
(* overflow keep until handle_overflow_event() ends.                        *)
(* The counter has overflowed in this microsecond, in the last tick of the  *)
(* LF clock; if that has started again since, all that is known is that an  *)
(* RTC that runs still counts from the overflow.                            *)
OverflowNow ==
  IF lf_moved THEN RTC_Running => phase < SubUs
              ELSE lf_phase < SubUs /\ IF RTC_Running THEN phase = lf_phase ELSE counter = 0

(* The time of that overflow, which matters while the RTC runs.             *)
OverflowAt(time) ==
  \/ lf_moved /\ ~RTC_Running
  \/ time = NowSubUs - (IF lf_moved THEN phase ELSE lf_phase)

(* What a step leaves alone stays right.                                 *)
LEMMA KeptIsRight ==
  ASSUME RtcRight, UNCHANGED <<rtcTime, rtcRun>>
  PROVE  RtcDone /\ (OverflowNow => OverflowNow')
<1>1. /\ rtc_now' = rtc_now /\ lf_phase' = lf_phase /\ phase' = phase /\ RTC_Running' = RTC_Running
      /\ RTC_counter_startT_sub_us' = RTC_counter_startT_sub_us
      /\ RTC_counter_startT_negative_sub_us' = RTC_counter_startT_negative_sub_us
      /\ counter' = counter /\ RTC_CC' = RTC_CC /\ cc_timers' = cc_timers
      /\ overflow_timer_sub_us' = overflow_timer_sub_us /\ Timer_RTC' = Timer_RTC
      /\ rtc_due' = rtc_due /\ lf_moved' = lf_moved
  BY DEF rtcTime, rtcRun, rtcStart, rtcTimers
<1>2. StartAgrees'
  BY <1>1 DEF RtcRight, StartAgrees, StartAt, NowSubUs
<1>3. EventsAgree'
  <2>1. \A e \in RtcEvent : CountTo(e)' = CountTo(e)
    BY <1>1 DEF CountTo
  <2> QED BY <1>1, <2>1 DEF RtcRight, EventsAgree, EventAgrees, UsTime
<1>4. OverflowAgrees'
  BY <1>1 DEF RtcRight, OverflowAgrees, NowSubUs, UsTime
<1>5. RtcNumbers'
  BY <1>1 DEF RtcRight, RtcTypeOK, RtcNumbers
<1> QED BY <1>1, <1>2, <1>3, <1>4, <1>5 DEF RtcRight, RtcTypeOK, RtcDone, OverflowNow

(* At an overflow, the counter is at zero.                               *)
LEMMA CountAtOverflow ==
  ASSUME NEW p \in Nat, p < SubUs
  PROVE  p \div TickTime = 0
<1>1. PICK T \in Nat \ {0} : T = TickTime /\ p < T
  BY RtcBounds
<1>2. p = 0 * T + p /\ p \in 0 .. T - 1
  BY <1>1
<1>3. (0 * T + p) \div T = 0
  BY <1>2, RemainderIsUnique
<1> QED BY <1>1, <1>2, <1>3

(* A STOP keeps the count, and no time is left.                          *)
LEMMA StopIsRight ==
  ASSUME RtcRight, UNCHANGED rtcTime, RTC_Running, RtcTASKS_STOP
  PROVE  RtcDone /\ FirstAgrees' /\ (OverflowNow => OverflowNow') /\ ~RTC_Running'
<1> USE DEF RtcRight, RtcTypeOK
<1>1. /\ RTC_Running' = FALSE /\ counter' = CountNow /\ phase' = CountNow * TickTime
      /\ cc_timers' = [e \in RtcEvent |-> RTC_NEVER] /\ Timer_RTC' = RTC_NEVER
      /\ UNCHANGED <<RTC_counter_startT_sub_us, RTC_counter_startT_negative_sub_us, RTC_CC,
                     overflow_timer_sub_us>>
      /\ lf_phase' = lf_phase /\ lf_moved' = lf_moved
  BY DEF RtcTASKS_STOP, UpdateRtcMaster, rtcStart, rtcTime
<1>2. PICK p \in 0 .. RtcWrap - 1 : p = phase
  OBVIOUS
<1>3. CountNow = p \div TickTime /\ CountNow \in 0 .. CounterMask
  <2>1. rtc_now \in Nat
    BY RtcBounds
  <2> QED BY <1>2, <2>1, CountIsRight DEF StartAgrees
<1>4. CountNow * TickTime \in 0 .. RtcWrap - 1
  <2>1. CountNow \in 0 .. CounterMask + 1 /\ CountNow <= CounterMask
    BY <1>3, RtcBounds
  <2> QED BY <2>1, CountBounds
<1>5. RtcNumbers'
  <2>1. PICK k \in 0 .. CounterMask, q \in 0 .. RtcWrap - 1 : k = counter' /\ q = phase'
    BY <1>1, <1>3, <1>4
  <2>2. Timer_RTC' \in 0 .. RTC_NEVER
    BY <1>1, RtcBounds
  <2> QED BY <1>1, <2>1, <2>2 DEF RtcNumbers
<1>6. cc_timers' \in [RtcEvent -> 0 .. RTC_NEVER]
  BY <1>1, RtcBounds
<1>7. StartAgrees' /\ EventsAgree' /\ OverflowAgrees' /\ FirstAgrees'
  BY <1>1 DEF StartAgrees, EventsAgree, EventAgrees, OverflowAgrees, FirstAgrees
<1>8. OverflowNow => OverflowNow'
  <2>1. SUFFICES ASSUME OverflowNow, ~lf_moved PROVE counter' = 0
    BY <1>1 DEF OverflowNow
  <2>2. p < SubUs /\ p \in Nat
    BY <1>2, <2>1, RtcBounds DEF OverflowNow
  <2> QED BY <1>1, <1>3, <2>2, CountAtOverflow
<1> QED BY <1>1, <1>5, <1>6, <1>7, <1>8 DEF RtcDone

(* What the PPI may call at an overflow without hiding it.               *)
Harmless == IF lf_moved THEN {"STOP"} ELSE {"START", "STOP", "CLEAR"}

(* Every task leaves the times right; a START while running does         *)
(* nothing; and no harmless task hides an overflow that happens now.     *)
LEMMA RtcTaskIsRight ==
  ASSUME RtcRight, UNCHANGED rtcTime, NEW op \in RtcTasks, RtcTask(op)
  PROVE  /\ RtcDone
         /\ FirstAgrees => FirstAgrees'
         /\ op = "START" /\ RTC_Running => UNCHANGED rtcRun
         /\ op = "STOP" => ~RTC_Running'
         /\ op \in Harmless /\ OverflowNow => OverflowNow'
<1> USE DEF RtcRight, RtcTypeOK
<1>1. CASE UNCHANGED rtcRun /\ (op = "STOP" => ~RTC_Running)
  <2>1. RtcDone /\ (OverflowNow => OverflowNow')
    BY <1>1, KeptIsRight
  <2>2. FirstAgrees => FirstAgrees'
    BY <1>1 DEF FirstAgrees, rtcRun, rtcTimers
  <2> QED BY <1>1, <2>1, <2>2 DEF rtcRun
<1>2. CASE op = "START" /\ ~RTC_Running /\ RTC_Running' = TRUE /\ SetCounterTo(counter)
  <2>1. RtcDone /\ FirstAgrees' /\ (counter = 0 => phase' = lf_phase)
    BY <1>2, SetCounterIsRight
  <2>2. op \in Harmless /\ OverflowNow => OverflowNow'
    BY <1>2, <2>1 DEF Harmless, OverflowNow, rtcTime
  <2> QED BY <1>2, <2>1, <2>2
<1>3. CASE op = "STOP" /\ RTC_Running /\ RtcTASKS_STOP
  BY <1>3, StopIsRight
<1>4. CASE op = "CLEAR" /\ UNCHANGED RTC_Running /\ SetCounterTo(0)
  <2>1. 0 \in 0 .. CounterMask
    BY RtcBounds
  <2>2. RtcDone /\ FirstAgrees' /\ counter' = 0 /\ phase' = lf_phase
    BY <1>4, <2>1, SetCounterIsRight
  <2>3. op \in Harmless /\ OverflowNow => OverflowNow'
    BY <1>4, <2>2 DEF Harmless, OverflowNow, rtcTime
  <2> QED BY <1>4, <2>2, <2>3
<1>5. CASE op = "TRIGOVRFLW" /\ UNCHANGED RTC_Running /\ SetCounterTo(OverflowValue)
  <2>1. RtcDone /\ FirstAgrees'
    BY <1>5, RtcBounds, SetCounterIsRight
  <2> QED BY <1>5, <2>1 DEF Harmless
<1> QED BY <1>1, <1>2, <1>3, <1>4, <1>5 DEF RtcTask, RtcTASKS_START, RtcTASKS_STOP

-----------------------------------------------------------------------------
(* What remains to be called.                                               *)
RtcMasterPending(s) == s # <<>> /\ s[Len(s)][1] = "master"

MayPrecede(x, y) ==
  /\ x[1] # "master"
  /\ y[1] = "handle" => x[1] = "START" \/ (x[1] = "handle" /\ x[2] # OVRFLW)
  /\ y[1] = "overflowed" => x[1] \in Harmless

EntryAgrees(x) ==
  /\ x[1] = "handle" => RTC_Running /\ Timer_RTC = rtc_now
  /\ x[1] = "overflowed" => OverflowAt(x[2]) /\ OverflowNow

RtcInOrder(s) ==
  /\ \A i, j \in 1 .. Len(s) : i < j => MayPrecede(s[i], s[j])
  /\ \A i \in 1 .. Len(s) : s[i][1] \in {"handle", "overflowed"} => RtcMasterPending(s)

TodoAgrees(s) == \A i \in 1 .. Len(s) : EntryAgrees(s[i])

RtcInv ==
  /\ RtcRight
  /\ RtcInOrder(rtc_todo) /\ TodoAgrees(rtc_todo)
  /\ RtcMasterPending(rtc_todo) \/ FirstAgrees

(* The tasks that the PPI may call at an event: none that moves the counter *)
(* at a COMPARE, none that moves it next to the overflow at an OVRFLW.      *)
CarefulRoutes ==
  \A routes \in RtcRoutes :
    /\ \A c \in Cc : routes[c] \in Seq({"START"})
    /\ routes[OVRFLW] \in Seq({"START", "STOP", "CLEAR"})

Only(s, names) == \A i \in 1 .. Len(s) : s[i][1] \in names

(* What is left when the first call has been made is in order, and       *)
(* nothing in it may not follow that call.                               *)
LEMMA RtcTaken ==
  ASSUME NEW E, NEW t \in Seq(E), t # <<>>, RtcInOrder(t)
  PROVE  /\ Tail(t) \in Seq(E) /\ Head(t) \in E /\ RtcInOrder(Tail(t))
         /\ Head(t)[1] = "master" => Tail(t) = <<>>
         /\ Head(t)[1] # "master" /\ RtcMasterPending(t) => RtcMasterPending(Tail(t))
         /\ \A i \in 1 .. Len(Tail(t)) : MayPrecede(Head(t), Tail(t)[i])
         /\ Head(t)[1] \in {"handle", "overflowed"} => RtcMasterPending(t)
         /\ \A i \in 1 .. Len(Tail(t)) : \E j \in 1 .. Len(t) : Tail(t)[i] = t[j]
<1>1. /\ Tail(t) \in Seq(E) /\ Head(t) \in E /\ Head(t) = t[1]
      /\ Len(t) \in Nat /\ Len(t) > 0 /\ Len(Tail(t)) = Len(t) - 1
      /\ \A i \in 1 .. Len(t) - 1 : Tail(t)[i] = t[i + 1]
  OBVIOUS
<1>2. PICK one \in 1 .. Len(t) : one = 1
  BY <1>1
<1>3. \A i \in 1 .. Len(Tail(t)) : \E j \in 1 .. Len(t) : j = i + 1 /\ Tail(t)[i] = t[j]
  <2> TAKE i \in 1 .. Len(Tail(t))
  <2>1. PICK j \in 1 .. Len(t) : j = i + 1
    BY <1>1
  <2>2. Tail(t)[i] = t[j]
    BY <1>1, <2>1
  <2> QED BY <2>1, <2>2
<1>4. \A i \in 1 .. Len(Tail(t)) : MayPrecede(Head(t), Tail(t)[i])
  <2> TAKE i \in 1 .. Len(Tail(t))
  <2>1. PICK j \in 1 .. Len(t) : j = i + 1 /\ Tail(t)[i] = t[j]
    BY <1>3
  <2>2. one < j
    BY <1>2, <2>1
  <2>3. MayPrecede(t[one], t[j])
    BY <2>2 DEF RtcInOrder
  <2> QED BY <1>1, <1>2, <2>1, <2>3
<1>5. Head(t)[1] = "master" => Tail(t) = <<>>
  <2>1. SUFFICES ASSUME Head(t)[1] = "master", Len(t) # 1 PROVE FALSE
    BY <1>1
  <2>2. PICK i \in 1 .. Len(Tail(t)) : i = 1
    BY <1>1, <2>1
  <2> QED BY <1>4, <2>1, <2>2 DEF MayPrecede
<1>6. ASSUME Head(t)[1] # "master", RtcMasterPending(t) PROVE RtcMasterPending(Tail(t))
  <2>1. t[Len(t)][1] = "master" /\ Len(t) # 1
    BY <1>1, <1>6 DEF RtcMasterPending
  <2>2. Tail(t)[Len(Tail(t))] = t[Len(t)] /\ Len(Tail(t)) > 0
    BY <1>1, <2>1
  <2>3. Tail(t) # <<>>
    <3>1. \A u \in Seq(E) : Len(u) > 0 => u # <<>>
      OBVIOUS
    <3> QED BY <1>1, <2>2, <3>1
  <2> QED BY <2>1, <2>2, <2>3 DEF RtcMasterPending
<1>7. Head(t)[1] \in {"handle", "overflowed"} => RtcMasterPending(t)
  BY <1>1, <1>2 DEF RtcInOrder
<1>8. ASSUME NEW i \in 1 .. Len(Tail(t)), NEW j \in 1 .. Len(Tail(t)), i < j
      PROVE  MayPrecede(Tail(t)[i], Tail(t)[j])
  <2>1. PICK k \in 1 .. Len(t) : k = i + 1 /\ Tail(t)[i] = t[k]
    BY <1>3
  <2>2. PICK l \in 1 .. Len(t) : l = j + 1 /\ Tail(t)[j] = t[l]
    BY <1>3
  <2>3. k < l
    BY <1>8, <2>1, <2>2
  <2> QED BY <2>1, <2>2, <2>3 DEF RtcInOrder
<1>9. ASSUME NEW i \in 1 .. Len(Tail(t)), Tail(t)[i][1] \in {"handle", "overflowed"}
      PROVE  RtcMasterPending(Tail(t))
  <2>1. PICK k \in 1 .. Len(t) : k = i + 1 /\ Tail(t)[i] = t[k]
    BY <1>3
  <2>2. RtcMasterPending(t)
    BY <1>9, <2>1 DEF RtcInOrder
  <2>3. Head(t)[1] # "master"
    BY <1>4 DEF MayPrecede
  <2> QED BY <1>6, <2>2, <2>3
<1> QED BY <1>1, <1>3, <1>4, <1>5, <1>6, <1>7, <1>8, <1>9 DEF RtcInOrder

(* What may be called before calls t, in the order of s.                    *)
LEMMA RtcPrepended ==
  ASSUME NEW E, NEW s \in Seq(E), NEW t \in Seq(E), RtcInOrder(t),
         \A i, j \in 1 .. Len(s) : i < j => MayPrecede(s[i], s[j]),
         \A i \in 1 .. Len(s), j \in 1 .. Len(t) : MayPrecede(s[i], t[j]),
         \A i \in 1 .. Len(s) : s[i][1] \in {"handle", "overflowed"} => RtcMasterPending(t)
  PROVE  /\ s \o t \in Seq(E) /\ RtcInOrder(s \o t)
         /\ RtcMasterPending(t) => RtcMasterPending(s \o t)
         /\ \A i \in 1 .. Len(s \o t) : \/ \E j \in 1 .. Len(s) : (s \o t)[i] = s[j]
                                       \/ \E j \in 1 .. Len(t) : (s \o t)[i] = t[j]
<1>1. /\ s \o t \in Seq(E) /\ Len(s \o t) = Len(s) + Len(t)
      /\ Len(s) \in Nat /\ Len(t) \in Nat
      /\ \A i \in 1 .. Len(s) + Len(t) : (s \o t)[i] = IF i <= Len(s) THEN s[i] ELSE t[i - Len(s)]
  OBVIOUS
<1>2. \A i \in 1 .. Len(s \o t) : \/ i \in 1 .. Len(s) /\ (s \o t)[i] = s[i]
                                \/ \E j \in 1 .. Len(t) : i = Len(s) + j /\ (s \o t)[i] = t[j]
  <2> TAKE i \in 1 .. Len(s \o t)
  <2>1. CASE i <= Len(s)
    BY <1>1, <2>1
  <2>2. CASE i > Len(s)
    <3>1. PICK j \in 1 .. Len(t) : j = i - Len(s) /\ i = Len(s) + j
      BY <1>1, <2>2
    <3>2. (s \o t)[i] = t[j]
      BY <1>1, <2>2, <3>1
    <3> QED BY <3>1, <3>2
  <2> QED BY <1>1, <2>1, <2>2
<1>3. ASSUME RtcMasterPending(t) PROVE RtcMasterPending(s \o t)
  <2>1. Len(t) > 0 /\ t[Len(t)][1] = "master"
    BY <1>3 DEF RtcMasterPending
  <2>2. (s \o t)[Len(s \o t)] = t[Len(t)]
    BY <1>1, <2>1
  <2> QED BY <1>1, <2>1, <2>2 DEF RtcMasterPending
<1>4. ASSUME NEW i \in 1 .. Len(s \o t), NEW j \in 1 .. Len(s \o t), i < j
      PROVE  MayPrecede((s \o t)[i], (s \o t)[j])
  <2>1. CASE i \in 1 .. Len(s) /\ (s \o t)[i] = s[i]
    <3>1. CASE j \in 1 .. Len(s) /\ (s \o t)[j] = s[j]
      BY <1>4, <2>1, <3>1
    <3>2. CASE \E k \in 1 .. Len(t) : (s \o t)[j] = t[k]
      BY <2>1, <3>2
    <3> QED BY <1>2, <3>1, <3>2
  <2>2. ASSUME NEW k \in 1 .. Len(t), i = Len(s) + k, (s \o t)[i] = t[k]
        PROVE  MayPrecede((s \o t)[i], (s \o t)[j])
    <3>1. ~(j \in 1 .. Len(s))
      BY <1>1, <1>4, <2>2
    <3>2. PICK l \in 1 .. Len(t) : j = Len(s) + l /\ (s \o t)[j] = t[l]
      BY <1>2, <3>1
    <3>3. k < l
      BY <1>1, <1>4, <2>2, <3>2
    <3> QED BY <2>2, <3>2, <3>3 DEF RtcInOrder
  <2> QED BY <1>2, <2>1, <2>2
<1>5. ASSUME NEW i \in 1 .. Len(s \o t), (s \o t)[i][1] \in {"handle", "overflowed"}
      PROVE  RtcMasterPending(s \o t)
  BY <1>2, <1>3, <1>5 DEF RtcInOrder
<1>6. \A i \in 1 .. Len(s \o t) : \/ \E j \in 1 .. Len(s) : (s \o t)[i] = s[j]
                                \/ \E j \in 1 .. Len(t) : (s \o t)[i] = t[j]
  BY <1>2
<1> QED BY <1>1, <1>3, <1>4, <1>5, <1>6 DEF RtcInOrder

-----------------------------------------------------------------------------
RtcIrqTypes ==
  /\ RTC_EVENTS \subseteq RtcEvent /\ RTC_INTEN \subseteq RtcInts
  /\ RTC_EVTEN \subseteq RtcEvts /\ rtc_irq \in BOOLEAN

(* The parts of the invariant that are about the times, put together.    *)
LEMMA RightAgain ==
  ASSUME RtcRight, UNCHANGED rtcTime, RtcDone, RtcIrqTypes', rtc_todo' \in Seq(RtcEntry)
  PROVE  RtcRight'
<1>1. /\ rtc_now' = rtc_now /\ first_lf_tick_time_sub_us' = first_lf_tick_time_sub_us
      /\ lf_phase' = lf_phase /\ rtc_due' = rtc_due /\ rtc_routes' = rtc_routes
      /\ lf_moved' = lf_moved
  BY DEF rtcTime
<1>2. ClockAgrees'
  BY <1>1 DEF RtcRight, ClockAgrees, NowSubUs
<1>3. /\ rtc_now' \in 0 .. RtcHorizon /\ first_lf_tick_time_sub_us' \in 0 .. NowSubUs'
      /\ lf_phase' \in 0 .. LfPeriod - 1 /\ rtc_due' \subseteq RtcEvent /\ rtc_routes' \in RtcRoutes
      /\ lf_moved' \in BOOLEAN
  BY <1>1 DEF RtcRight, RtcTypeOK, NowSubUs
<1>4. RtcTypeOK'
  BY <1>3 DEF RtcTypeOK, RtcDone, RtcNumbers, RtcIrqTypes
<1> QED BY <1>2, <1>4 DEF RtcRight, RtcDone

(* A call that is still to be made finds what it expects, if nothing of  *)
(* that changes.                                                         *)
LEMMA EntryKept ==
  ASSUME UNCHANGED <<rtc_now, lf_phase, lf_moved, RTC_Running, phase, counter, Timer_RTC>>,
         NEW x, EntryAgrees(x)
  PROVE  EntryAgrees(x)'
BY DEF EntryAgrees, OverflowNow, OverflowAt, NowSubUs

(* So does the order of the calls.                                       *)
LEMMA OrderKept ==
  ASSUME UNCHANGED lf_moved, RtcInOrder(rtc_todo')
  PROVE  RtcInOrder(rtc_todo)'
<1>1. Harmless' = Harmless
  BY DEF Harmless
<1>2. \A x, y : MayPrecede(x, y) => MayPrecede(x, y)'
  BY <1>1 DEF MayPrecede
<1>3. \A s : RtcMasterPending(s) = RtcMasterPending(s)'
  BY DEF RtcMasterPending
<1> QED BY <1>2, <1>3 DEF RtcInOrder

(* What the calls are about.                                             *)
LEMMA HeadTypes ==
  ASSUME NEW x \in RtcEntry
  PROVE  /\ x[1] = "handle" => x[2] \in RtcEvent
         /\ x[1] = "overflowed" => x[2] \in Nat
         /\ x[1] \in RtcTasks => x[1] \notin {"handle", "overflowed", "master"}
BY DEF RtcEntry, RtcTasks

(* A step that only changes the events, and what is to be called.           *)
LEMMA RtcQuietStep ==
  ASSUME RtcInv, UNCHANGED <<rtcTime, rtcRun>>, RtcIrqTypes',
         rtc_todo' \in Seq(RtcEntry), RtcInOrder(rtc_todo'),
         \A i \in 1 .. Len(rtc_todo') : EntryAgrees(rtc_todo'[i]),
         RtcMasterPending(rtc_todo') \/ FirstAgrees
  PROVE  RtcInv'
<1>1. RtcRight'
  BY KeptIsRight, RightAgain DEF RtcInv
<1>2. TodoAgrees(rtc_todo)'
  BY EntryKept DEF TodoAgrees, rtcTime, rtcRun, rtcTimers
<1>3. FirstAgrees => FirstAgrees'
  BY DEF FirstAgrees, rtcRun, rtcTimers
<1>4. RtcInOrder(rtc_todo)' /\ (RtcMasterPending(rtc_todo') => RtcMasterPending(rtc_todo)')
  BY OrderKept DEF RtcMasterPending, rtcTime
<1> QED BY <1>1, <1>2, <1>3, <1>4 DEF RtcInv

(* A task keeps the invariant.                                           *)
LEMMA RtcTaskStep ==
  ASSUME RtcInv, RtcTaskCall
  PROVE  RtcInv'
<1> DEFINE op == Head(rtc_todo)[1]
<1>1. /\ rtc_todo # <<>> /\ op \in RtcTasks /\ RtcTask(op) /\ rtc_todo' = Tail(rtc_todo)
      /\ UNCHANGED <<rtcTime, rtcIrq>>
  BY DEF RtcTaskCall
<1>2. /\ Tail(rtc_todo) \in Seq(RtcEntry) /\ Head(rtc_todo) \in RtcEntry
      /\ RtcInOrder(Tail(rtc_todo))
      /\ op # "master" /\ RtcMasterPending(rtc_todo) => RtcMasterPending(Tail(rtc_todo))
      /\ \A i \in 1 .. Len(Tail(rtc_todo)) : MayPrecede(Head(rtc_todo), Tail(rtc_todo)[i])
      /\ \A i \in 1 .. Len(Tail(rtc_todo)) : EntryAgrees(Tail(rtc_todo)[i])
  BY <1>1, RtcTaken DEF RtcInv, RtcRight, RtcTypeOK, TodoAgrees
<1>3. op # "master"
  BY <1>1, <1>2, HeadTypes
<1>4. /\ RtcDone
      /\ FirstAgrees => FirstAgrees'
      /\ op = "START" /\ RTC_Running => UNCHANGED rtcRun
      /\ op = "STOP" => ~RTC_Running'
      /\ op \in Harmless /\ OverflowNow => OverflowNow'
  BY <1>1, RtcTaskIsRight DEF RtcInv
<1>5. RtcRight'
  BY <1>1, <1>2, <1>4, RightAgain DEF RtcInv, RtcRight, RtcTypeOK, RtcIrqTypes, rtcIrq
<1>6. ASSUME NEW x \in RtcEntry, EntryAgrees(x), MayPrecede(Head(rtc_todo), x)
      PROVE  EntryAgrees(x)'
  <2>1. ASSUME x[1] = "handle" PROVE RTC_Running' /\ Timer_RTC' = rtc_now'
    <3>1. op = "START" /\ RTC_Running /\ Timer_RTC = rtc_now
      BY <1>1, <1>2, <1>6, <2>1, HeadTypes DEF MayPrecede, EntryAgrees
    <3> QED BY <1>1, <1>4, <3>1 DEF rtcRun, rtcTimers, rtcTime
  <2>2. ASSUME x[1] = "overflowed" PROVE OverflowAt(x[2])' /\ OverflowNow'
    <3>1. op \in Harmless /\ OverflowNow /\ OverflowAt(x[2])
      BY <1>6, <2>2 DEF MayPrecede, EntryAgrees
    <3>2. lf_moved => ~RTC_Running'
      BY <1>4, <3>1 DEF Harmless
    <3>3. UNCHANGED <<rtc_now, lf_phase, lf_moved>>
      BY <1>1 DEF rtcTime
    <3>4. OverflowAt(x[2])'
      BY <3>1, <3>2, <3>3 DEF OverflowAt, NowSubUs
    <3> QED BY <1>4, <3>1, <3>4
  <2> QED BY <2>1, <2>2 DEF EntryAgrees
<1>7. TodoAgrees(rtc_todo)'
  <2>1. \A i \in 1 .. Len(rtc_todo') : \E x \in RtcEntry :
          x = rtc_todo'[i] /\ EntryAgrees(x) /\ MayPrecede(Head(rtc_todo), x)
    BY <1>1, <1>2
  <2>2. \A i \in 1 .. Len(rtc_todo') : \E x \in RtcEntry : x = rtc_todo'[i] /\ EntryAgrees(x)'
    BY <1>6, <2>1
  <2> QED BY <2>2 DEF TodoAgrees, EntryAgrees
<1>8. RtcInOrder(rtc_todo)' /\ (RtcMasterPending(rtc_todo) => RtcMasterPending(rtc_todo)')
  BY <1>1, <1>2, <1>3, OrderKept DEF RtcMasterPending, rtcTime
<1> QED BY <1>4, <1>5, <1>7, <1>8 DEF RtcInv

(* So does an event of the list that does not match now.                 *)
LEMMA RtcNoMatchStep ==
  ASSUME RtcInv, RtcNoMatch
  PROVE  RtcInv'
<1>1. /\ rtc_todo # <<>> /\ Head(rtc_todo)[1] = "handle" /\ rtc_todo' = Tail(rtc_todo)
      /\ UNCHANGED <<rtcTime, rtcRun, rtcIrq>>
  BY DEF RtcNoMatch
<1>2. /\ rtc_todo' \in Seq(RtcEntry) /\ RtcInOrder(rtc_todo') /\ RtcMasterPending(rtc_todo')
      /\ \A i \in 1 .. Len(rtc_todo') : EntryAgrees(rtc_todo'[i])
  BY <1>1, RtcTaken DEF RtcInv, RtcRight, RtcTypeOK, TodoAgrees
<1> QED BY <1>1, <1>2, RtcQuietStep DEF RtcInv, RtcRight, RtcTypeOK, RtcIrqTypes, rtcIrq

(* What an event has called: tasks, before the calls t that were pending.    *)
LEMMA RoutedFirst ==
  ASSUME NEW tasks \in SUBSET RtcTasks, NEW e \in RtcEvent, rtc_routes[e] \in Seq(tasks),
         NEW t \in Seq(RtcEntry), RtcInOrder(t), RtcMasterPending(t),
         \A task \in tasks, i \in 1 .. Len(t) : MayPrecede(<<task, 0>>, t[i])
  PROVE  /\ Routed(e) \o t \in Seq(RtcEntry) /\ RtcInOrder(Routed(e) \o t)
         /\ RtcMasterPending(Routed(e) \o t)
         /\ \A i \in 1 .. Len(Routed(e) \o t) :
               \/ \E task \in tasks : (Routed(e) \o t)[i] = <<task, 0>>
               \/ \E j \in 1 .. Len(t) : (Routed(e) \o t)[i] = t[j]
<1> DEFINE s == Routed(e)
<1> HIDE DEF s
<1>1. /\ s \in Seq(RtcEntry) /\ \A i \in 1 .. Len(s) : \E task \in tasks : s[i] = <<task, 0>>
  <2>0. CASE e \notin RTC_EVTEN
    <3>1. s = <<>>
      BY <2>0 DEF Routed, s
    <3> QED BY <3>1
  <2> SUFFICES ASSUME e \in RTC_EVTEN
               PROVE  s \in Seq(RtcEntry) /\ \A i \in 1 .. Len(s) : \E task \in tasks : s[i] = <<task, 0>>
    BY <2>0
  <2>1. DOMAIN rtc_routes[e] = 1 .. Len(rtc_routes[e]) /\ Len(rtc_routes[e]) \in Nat
    OBVIOUS
  <2>2. \A i \in 1 .. Len(rtc_routes[e]) : rtc_routes[e][i] \in tasks
    OBVIOUS
  <2>3. \A task \in tasks : <<task, 0>> \in RtcEntry
    BY DEF RtcEntry
  <2>4. s = [i \in 1 .. Len(rtc_routes[e]) |-> <<rtc_routes[e][i], 0>>]
    BY <2>1 DEF Routed, s
  <2>5. \A i \in 1 .. Len(rtc_routes[e]) : s[i] \in RtcEntry /\ s[i] = <<rtc_routes[e][i], 0>>
    BY <2>2, <2>3, <2>4
  <2>6. s \in Seq(RtcEntry) /\ Len(s) = Len(rtc_routes[e])
    <3>1. PICK n \in Nat : n = Len(rtc_routes[e])
      BY <2>1
    <3>2. s \in [1 .. n -> RtcEntry]
      BY <2>4, <2>5, <3>1
    <3>3. s \in Seq(RtcEntry) /\ Len(s) = n
      BY <3>2
    <3> QED BY <3>1, <3>3
  <2> QED BY <2>2, <2>5, <2>6
<1>2. \A task \in tasks : task \notin {"handle", "overflowed", "master"}
  BY DEF RtcTasks
<1>3. \A i, j \in 1 .. Len(s) : i < j => MayPrecede(s[i], s[j])
  <2> TAKE i, j \in 1 .. Len(s)
  <2>1. PICK a \in tasks : s[i] = <<a, 0>>
    BY <1>1
  <2>2. PICK b \in tasks : s[j] = <<b, 0>>
    BY <1>1
  <2> QED BY <1>2, <2>1, <2>2 DEF MayPrecede
<1>4. \A i \in 1 .. Len(s) : s[i][1] \notin {"handle", "overflowed"}
  <2> TAKE i \in 1 .. Len(s)
  <2>1. PICK a \in tasks : s[i] = <<a, 0>>
    BY <1>1
  <2> QED BY <1>2, <2>1
<1>5. \A i \in 1 .. Len(s), j \in 1 .. Len(t) : MayPrecede(s[i], t[j])
  BY <1>1
<1>6. /\ s \o t \in Seq(RtcEntry) /\ RtcInOrder(s \o t) /\ RtcMasterPending(s \o t)
      /\ \A i \in 1 .. Len(s \o t) : \/ \E j \in 1 .. Len(s) : (s \o t)[i] = s[j]
                                     \/ \E j \in 1 .. Len(t) : (s \o t)[i] = t[j]
  BY <1>1, <1>3, <1>4, <1>5, RtcPrepended
<1>7. \A i \in 1 .. Len(s \o t) : \/ \E task \in tasks : (s \o t)[i] = <<task, 0>>
                                  \/ \E j \in 1 .. Len(t) : (s \o t)[i] = t[j]
  BY <1>1, <1>6
<1> QED BY <1>6, <1>7 DEF s

(* The todo of a step that keeps what the pending calls rely on.            *)
LEMMA TodoKept ==
  ASSUME UNCHANGED <<rtc_now, lf_phase, lf_moved, RTC_Running, phase, counter, Timer_RTC>>,
         rtc_todo' \in Seq(RtcEntry), RtcInOrder(rtc_todo'), RtcMasterPending(rtc_todo'),
         \A i \in 1 .. Len(rtc_todo') : EntryAgrees(rtc_todo'[i])
  PROVE  RtcInOrder(rtc_todo)' /\ TodoAgrees(rtc_todo)' /\ RtcMasterPending(rtc_todo)'
<1>1. TodoAgrees(rtc_todo)'
  BY EntryKept DEF TodoAgrees
<1>2. RtcInOrder(rtc_todo)' /\ RtcMasterPending(rtc_todo)'
  BY OrderKept DEF RtcMasterPending
<1> QED BY <1>1, <1>2

(* The tasks that are called at the event rely on nothing.                  *)
LEMMA TasksAgree == \A task \in RtcTasks : EntryAgrees(<<task, 0>>)
BY DEF RtcTasks, EntryAgrees

(* An event of the list that matches now is due now.                     *)
LEMMA HandlingNow ==
  ASSUME RtcInv, rtc_todo # <<>>, Head(rtc_todo)[1] = "handle",
         NEW e, e = Head(rtc_todo)[2], MatchesNow(e)
  PROVE  /\ e \in RtcEvent /\ RTC_Running /\ cc_timers[e] = rtc_now /\ e \in rtc_due
         /\ Tail(rtc_todo) \in Seq(RtcEntry) /\ RtcInOrder(Tail(rtc_todo))
         /\ RtcMasterPending(Tail(rtc_todo))
         /\ \A i \in 1 .. Len(Tail(rtc_todo)) : EntryAgrees(Tail(rtc_todo)[i])
         /\ \A i \in 1 .. Len(Tail(rtc_todo)) : MayPrecede(Head(rtc_todo), Tail(rtc_todo)[i])
<1>1. /\ Tail(rtc_todo) \in Seq(RtcEntry) /\ Head(rtc_todo) \in RtcEntry
      /\ RtcInOrder(Tail(rtc_todo)) /\ RtcMasterPending(Tail(rtc_todo))
      /\ \A i \in 1 .. Len(Tail(rtc_todo)) : EntryAgrees(Tail(rtc_todo)[i])
      /\ \A i \in 1 .. Len(Tail(rtc_todo)) : MayPrecede(Head(rtc_todo), Tail(rtc_todo)[i])
  BY RtcTaken DEF RtcInv, RtcRight, RtcTypeOK, TodoAgrees
<1>2. EntryAgrees(Head(rtc_todo))
  <2>1. Len(rtc_todo) \in Nat /\ Len(rtc_todo) > 0 /\ Head(rtc_todo) = rtc_todo[1]
    BY DEF RtcInv, RtcRight, RtcTypeOK
  <2>2. PICK one \in 1 .. Len(rtc_todo) : one = 1
    BY <2>1
  <2> QED BY <2>1, <2>2 DEF RtcInv, TodoAgrees
<1>3. e \in RtcEvent /\ RTC_Running /\ cc_timers[e] = rtc_now
  BY <1>1, <1>2, HeadTypes DEF EntryAgrees, MatchesNow
<1>4. e \in rtc_due
  <2>1. CountTo(e) \in 0 .. CounterMask + 1 /\ phase \in 0 .. RtcWrap - 1
        /\ rtc_now \in 0 .. RtcHorizon /\ EventAgrees(e)
    BY <1>3, CountToTypes DEF RtcInv, RtcRight, RtcTypeOK, EventsAgree
  <2>2. PICK x \in Nat \ {0} : x = ToCount(CountTo(e), phase)
    BY <2>1, RtcBounds, ToCountBounds
  <2>3. UsTime(x) \in 1 .. x
    <3>1. 0 \in Nat
      OBVIOUS
    <3> QED BY <3>1, UsTimeOf
  <2>4. rtc_now \in Nat
    BY <2>1, RtcBounds
  <2> QED BY <1>3, <2>1, <2>2, <2>3, <2>4 DEF EventAgrees
<1> QED BY <1>1, <1>3, <1>4

(* A step that handles an event.                                            *)
LEMMA HandledStep ==
  ASSUME RtcInv, NEW e \in RtcEvent, RTC_Running,
         UNCHANGED <<rtcTime, RTC_Running, rtcStart, counter, RTC_CC, phase, Timer_RTC>>,
         cc_timers' = [cc_timers EXCEPT ![e] = MatchTime(e)],
         HandleEvent(e), OverflowAgrees', overflow_timer_sub_us' \in Nat,
         rtc_todo' \in Seq(RtcEntry), RtcInOrder(rtc_todo'), RtcMasterPending(rtc_todo'),
         \A i \in 1 .. Len(rtc_todo') : EntryAgrees(rtc_todo'[i])
  PROVE  RtcInv'
<1> USE DEF RtcInv, RtcRight, RtcTypeOK
<1>1. /\ rtc_now' = rtc_now /\ rtc_due' = rtc_due /\ lf_phase' = lf_phase /\ lf_moved' = lf_moved
      /\ RTC_counter_startT_sub_us' = RTC_counter_startT_sub_us
      /\ RTC_counter_startT_negative_sub_us' = RTC_counter_startT_negative_sub_us
  BY DEF rtcTime, rtcStart
<1>2. StartAgrees'
  BY <1>1 DEF StartAgrees, StartAt, NowSubUs
<1>3. ASSUME NEW d \in RtcEvent PROVE EventAgrees(d)' /\ cc_timers'[d] \in 0 .. RTC_NEVER
  <2>1. EventAgrees(d)'
    <3>1. CASE d = e
      <4>1. cc_timers'[e] = MatchTime(e)
        OBVIOUS
      <4> QED BY <1>1, <1>2, <3>1, <4>1, MatchTimeIsRight
    <3>2. CASE d # e
      <4>1. cc_timers'[d] = cc_timers[d] /\ CountTo(d)' = CountTo(d) /\ EventAgrees(d)
        BY <3>2 DEF CountTo, EventsAgree
      <4> QED BY <1>1, <4>1 DEF EventAgrees, UsTime
    <3> QED BY <3>1, <3>2
  <2>2. ToCount(CountTo(d)', phase') \in 1 .. RtcWrap
    <3>1. CountTo(d)' \in 0 .. CounterMask + 1
      BY RtcBounds DEF CountTo, RtcEvent
    <3> QED BY <3>1, ToCountBounds
  <2>3. PICK x \in Nat \ {0} : x = ToCount(CountTo(d)', phase') /\ x <= RtcWrap
    BY <2>2, RtcBounds
  <2>4. UsTime(x) \in 1 .. x
    <3>1. 0 \in Nat
      OBVIOUS
    <3> QED BY <3>1, UsTimeOf
  <2>5. cc_timers'[d] \in 0 .. RTC_NEVER
    <3>1. PICK u \in Nat : u = UsTime(x) /\ u <= RtcWrap
      BY <2>3, <2>4, RtcBounds
    <3>2. cc_timers'[d] = rtc_now + u \/ cc_timers'[d] = rtc_now
      BY <1>1, <2>1, <2>3, <3>1 DEF EventAgrees, UsTime
    <3> QED BY <3>1, <3>2, RtcBounds
  <2> QED BY <2>1, <2>5
<1>4. cc_timers' \in [RtcEvent -> 0 .. RTC_NEVER] /\ EventsAgree'
  BY <1>3 DEF EventsAgree
<1>6. RtcNumbers'
  BY <1>1 DEF RtcNumbers
<1>7. RtcIrqTypes'
  BY DEF HandleEvent, RtcIrqTypes
<1>8. RtcTypeOK' /\ ClockAgrees'
  BY <1>4, <1>6, <1>7 DEF RtcNumbers, RtcIrqTypes, rtcTime, NowSubUs, ClockAgrees
<1>9. RtcInOrder(rtc_todo)' /\ TodoAgrees(rtc_todo)' /\ RtcMasterPending(rtc_todo)'
  BY <1>1, TodoKept
<1> QED BY <1>2, <1>4, <1>8, <1>9

(* The signal of a COMPARE event keeps the invariant, if its route is    *)
(* careful.                                                              *)
LEMMA RtcCcStep ==
  ASSUME CarefulRoutes, RtcInv, RtcCcEvent
  PROVE  RtcInv'
<1> DEFINE e == Head(rtc_todo)[2]
<1>1. /\ rtc_todo # <<>> /\ Head(rtc_todo)[1] = "handle" /\ e # OVRFLW /\ MatchesNow(e)
      /\ UNCHANGED <<rtcTime, RTC_Running, rtcStart, counter, RTC_CC, phase, Timer_RTC>>
      /\ overflow_timer_sub_us' = overflow_timer_sub_us
      /\ cc_timers' = [cc_timers EXCEPT ![e] = MatchTime(e)]
      /\ HandleEvent(e) /\ rtc_todo' = Routed(e) \o Tail(rtc_todo)
  BY DEF RtcCcEvent
<1>2. /\ e \in RtcEvent /\ RTC_Running
      /\ Tail(rtc_todo) \in Seq(RtcEntry) /\ RtcInOrder(Tail(rtc_todo))
      /\ RtcMasterPending(Tail(rtc_todo))
      /\ \A i \in 1 .. Len(Tail(rtc_todo)) : EntryAgrees(Tail(rtc_todo)[i])
      /\ \A i \in 1 .. Len(Tail(rtc_todo)) : MayPrecede(Head(rtc_todo), Tail(rtc_todo)[i])
  BY <1>1, HandlingNow
<1>3. rtc_routes[e] \in Seq({"START"})
  BY <1>1, <1>2 DEF CarefulRoutes, RtcInv, RtcRight, RtcTypeOK, RtcEvent
<1>4. {"START"} \in SUBSET RtcTasks
  BY DEF RtcTasks
<1> HIDE DEF e
<1>5. \A task \in {"START"}, i \in 1 .. Len(Tail(rtc_todo)) :
         MayPrecede(<<task, 0>>, Tail(rtc_todo)[i])
  <2>1. \A i \in 1 .. Len(Tail(rtc_todo)) : Tail(rtc_todo)[i][1] # "overflowed"
    BY <1>1, <1>2 DEF MayPrecede, Harmless
  <2> QED BY <2>1 DEF MayPrecede
<1>6. /\ rtc_todo' \in Seq(RtcEntry) /\ RtcInOrder(rtc_todo') /\ RtcMasterPending(rtc_todo')
      /\ \A i \in 1 .. Len(rtc_todo') :
            \/ \E task \in {"START"} : rtc_todo'[i] = <<task, 0>>
            \/ \E j \in 1 .. Len(Tail(rtc_todo)) : rtc_todo'[i] = Tail(rtc_todo)[j]
  BY <1>1, <1>2, <1>3, <1>4, <1>5, RoutedFirst
<1>7. \A i \in 1 .. Len(rtc_todo') : EntryAgrees(rtc_todo'[i])
  BY <1>2, <1>4, <1>6, TasksAgree
<1>8. OverflowAgrees'
  <2>1. cc_timers'[OVRFLW] = cc_timers[OVRFLW]
    BY <1>1, <1>2 DEF RtcInv, RtcRight, RtcTypeOK, RtcEvent
  <2> QED BY <1>1, <2>1 DEF RtcInv, RtcRight, OverflowAgrees, NowSubUs, UsTime, rtcTime
<1> QED BY <1>1, <1>2, <1>6, <1>7, <1>8, HandledStep DEF RtcInv, RtcRight, RtcTypeOK

-----------------------------------------------------------------------------
(* An overflow that is handled: it was in this microsecond, with the tick.   *)
LEMMA OverflowIsNow ==
  ASSUME RtcRight, RTC_Running, cc_timers[OVRFLW] = rtc_now
  PROVE  OverflowAt(overflow_timer_sub_us) /\ OverflowNow
<1> USE DEF RtcRight, RtcTypeOK
<1>1. PICK n \in Nat : n = rtc_now
  BY RtcBounds
<1>2. PICK p \in 0 .. RtcWrap - 1 : p = phase
  OBVIOUS
<1>3. overflow_timer_sub_us # NowSubUs + (RtcWrap - phase)
  <2>1. PICK x \in Nat \ {0} : x = RtcWrap - p
    BY RtcBounds
  <2>2. UsTime(n * SubUs + x) = n + UsTime(x) /\ UsTime(x) \in 1 .. x
    BY UsTimeOf
  <2>3. UsTime(overflow_timer_sub_us) = n
    BY <1>1 DEF OverflowAgrees
  <2> QED BY <1>1, <1>2, <2>1, <2>2, <2>3 DEF NowSubUs
<1>4. overflow_timer_sub_us = NowSubUs - phase /\ phase < SubUs
  BY <1>3 DEF OverflowAgrees
<1>5. ASSUME ~lf_moved PROVE lf_phase = phase
  <2>1. PICK P \in Nat \ {0} : P = LfPeriod
    BY RtcBounds
  <2>2. p \in 0 .. P - 1
    <3>1. PICK q \in Nat : q = p /\ q < SubUs
      BY <1>2, <1>4, RtcBounds
    <3>2. q < P
      BY <2>1, <3>1, RtcBounds
    <3> QED BY <3>1, <3>2
  <2>3. p % P = p
    BY <2>2, RemainderOfSmall, Zenon
  <2> QED BY <1>2, <1>5, <2>1, <2>2, <2>3 DEF StartAgrees
<1> QED BY <1>4, <1>5 DEF OverflowNow, OverflowAt

(* So does that of the overflow.                                         *)
LEMMA RtcOverflowStep ==
  ASSUME CarefulRoutes, OverflowIsATick, RtcInv, RtcOverflowEvent
  PROVE  RtcInv'
<1> DEFINE t == Tail(rtc_todo)
           over == <<"overflowed", overflow_timer_sub_us>>
           s == <<over>>
<1>1. /\ rtc_todo # <<>> /\ Head(rtc_todo) = <<"handle", OVRFLW>> /\ MatchesNow(OVRFLW)
      /\ UNCHANGED <<rtcTime, RTC_Running, rtcStart, counter, RTC_CC, phase, Timer_RTC>>
      /\ cc_timers' = [cc_timers EXCEPT ![OVRFLW] = MatchTime(OVRFLW)]
      /\ UpdateOverflowSubUs
      /\ HandleEvent(OVRFLW) /\ rtc_todo' = Routed(OVRFLW) \o s \o t
  BY DEF RtcOverflowEvent
<1>2. Head(rtc_todo)[1] = "handle" /\ OVRFLW = Head(rtc_todo)[2]
  BY <1>1
<1>3. /\ OVRFLW \in RtcEvent /\ RTC_Running /\ cc_timers[OVRFLW] = rtc_now
      /\ t \in Seq(RtcEntry) /\ RtcInOrder(t) /\ RtcMasterPending(t)
      /\ \A i \in 1 .. Len(t) : EntryAgrees(t[i])
      /\ \A i \in 1 .. Len(t) : MayPrecede(Head(rtc_todo), t[i])
  BY <1>1, <1>2, HandlingNow
<1>4. OverflowAt(over[2]) /\ OverflowNow
  BY <1>3, OverflowIsNow DEF RtcInv
<1>5. rtc_routes[OVRFLW] \in Seq(Harmless) /\ Harmless \in SUBSET RtcTasks
  <2>1. rtc_routes[OVRFLW] \in Seq({"START", "STOP", "CLEAR"})
    BY DEF CarefulRoutes, RtcInv, RtcRight, RtcTypeOK
  <2>2. DOMAIN rtc_routes[OVRFLW] = 1 .. Len(rtc_routes[OVRFLW]) /\ Len(rtc_routes[OVRFLW]) \in Nat
    BY <2>1
  <2>3. \A i \in 1 .. Len(rtc_routes[OVRFLW]) : rtc_routes[OVRFLW][i] \in Harmless
    BY <2>1, <2>2 DEF OverflowIsATick, Harmless
  <2>4. rtc_routes[OVRFLW] \in Seq(Harmless)
    BY <2>1, <2>2, <2>3
  <2> QED BY <2>4 DEF Harmless, RtcTasks
<1>6. over \in RtcEntry /\ over[1] = "overflowed"
  <2>1. overflow_timer_sub_us \in Nat
    BY DEF RtcInv, RtcRight, RtcTypeOK
  <2> QED BY <2>1 DEF RtcEntry
<1>7. \A i \in 1 .. Len(t) : t[i][1] \notin {"handle", "overflowed"}
  <2>1. Head(rtc_todo)[1] = "handle" /\ Head(rtc_todo)[2] = OVRFLW
    BY <1>1
  <2> QED BY <1>3, <2>1 DEF MayPrecede, Harmless
<1> HIDE DEF t, over
<1>8. s \in Seq(RtcEntry) /\ Len(s) = 1 /\ s[1] = over
  BY <1>6
<1> HIDE DEF s
<1>9. /\ s \o t \in Seq(RtcEntry) /\ RtcInOrder(s \o t) /\ RtcMasterPending(s \o t)
      /\ \A i \in 1 .. Len(s \o t) : \/ (s \o t)[i] = over
                                     \/ \E j \in 1 .. Len(t) : (s \o t)[i] = t[j]
  <2>1. \A i, j \in 1 .. Len(s) : ~(i < j)
    BY <1>8
  <2>2. \A i \in 1 .. Len(s) : i = 1 /\ s[i] = over
    BY <1>8
  <2>3. \A i \in 1 .. Len(s), j \in 1 .. Len(t) : MayPrecede(s[i], t[j])
    BY <1>6, <1>7, <2>2 DEF MayPrecede
  <2>4. \A i, j \in 1 .. Len(s) : i < j => MayPrecede(s[i], s[j])
    BY <2>1
  <2>5. /\ s \o t \in Seq(RtcEntry) /\ RtcInOrder(s \o t) /\ RtcMasterPending(s \o t)
        /\ \A i \in 1 .. Len(s \o t) : \/ \E j \in 1 .. Len(s) : (s \o t)[i] = s[j]
                                       \/ \E j \in 1 .. Len(t) : (s \o t)[i] = t[j]
    BY <1>3, <1>8, <2>3, <2>4, RtcPrepended
  <2> QED BY <2>2, <2>5
<1> DEFINE u == s \o t
<1>10. \A task \in Harmless, i \in 1 .. Len(u) : MayPrecede(<<task, 0>>, u[i])
  <2> TAKE task \in Harmless, i \in 1 .. Len(u)
  <2>1. u[i][1] # "handle"
    BY <1>6, <1>7, <1>9
  <2> QED BY <2>1 DEF MayPrecede, Harmless
<1>11. rtc_todo' = Routed(OVRFLW) \o u
  <2>1. rtc_todo' = (Routed(OVRFLW) \o s) \o t
    BY <1>1
  <2>2. Routed(OVRFLW) \in Seq(RtcEntry)
    <3>5. CASE OVRFLW \notin RTC_EVTEN
      <4>1. Routed(OVRFLW) = <<>>
        BY <3>5 DEF Routed
      <4> QED BY <4>1
    <3>1. \A i \in 1 .. Len(rtc_routes[OVRFLW]) : <<rtc_routes[OVRFLW][i], 0>> \in RtcEntry
      BY <1>5 DEF RtcEntry
    <3>2. DOMAIN rtc_routes[OVRFLW] = 1 .. Len(rtc_routes[OVRFLW]) /\ Len(rtc_routes[OVRFLW]) \in Nat
      BY <1>5
    <3>3. PICK n \in Nat : n = Len(rtc_routes[OVRFLW])
      BY <3>2
    <3>4. CASE OVRFLW \in RTC_EVTEN
      <4>1. Routed(OVRFLW) \in [1 .. n -> RtcEntry]
        BY <3>1, <3>2, <3>3, <3>4 DEF Routed
      <4> QED BY <4>1
    <3> QED BY <3>4, <3>5
  <2>3. \A a, b, c \in Seq(RtcEntry) : (a \o b) \o c = a \o (b \o c)
    OBVIOUS
  <2> QED BY <1>3, <1>8, <2>1, <2>2, <2>3
<1> HIDE DEF u
<1>12. u \in Seq(RtcEntry) /\ RtcInOrder(u) /\ RtcMasterPending(u)
  BY <1>9 DEF u
<1>13. /\ rtc_todo' \in Seq(RtcEntry) /\ RtcInOrder(rtc_todo') /\ RtcMasterPending(rtc_todo')
       /\ \A i \in 1 .. Len(rtc_todo') :
             \/ \E task \in Harmless : rtc_todo'[i] = <<task, 0>>
             \/ \E j \in 1 .. Len(u) : rtc_todo'[i] = u[j]
  BY <1>3, <1>5, <1>10, <1>11, <1>12, RoutedFirst
<1>14. EntryAgrees(over)
  BY <1>4, <1>6 DEF EntryAgrees
<1>15. \A i \in 1 .. Len(u) : EntryAgrees(u[i])
  BY <1>3, <1>9, <1>14 DEF u
<1>16. \A i \in 1 .. Len(rtc_todo') : EntryAgrees(rtc_todo'[i])
  <2>1. \A task \in Harmless : EntryAgrees(<<task, 0>>)
    BY <1>5, TasksAgree
  <2> QED BY <1>13, <1>15, <2>1
<1>17. OverflowAgrees' /\ overflow_timer_sub_us' \in Nat
  <2>1. /\ rtc_now \in 0 .. RtcHorizon /\ rtc_now' = rtc_now /\ RTC_Running' \in BOOLEAN
        /\ phase' \in 0 .. RtcWrap - 1 /\ lf_phase' = lf_phase
        /\ lf_moved' = lf_moved
    BY <1>1 DEF RtcInv, RtcRight, RtcTypeOK, rtcTime
  <2>2. StartAgrees'
    BY <1>1, <2>1 DEF RtcInv, RtcRight, StartAgrees, StartAt, NowSubUs, rtcStart
  <2>3. cc_timers'[OVRFLW] = MatchTime(OVRFLW)
    BY <1>1, <1>3 DEF RtcInv, RtcRight, RtcTypeOK
  <2> QED BY <1>1, <2>1, <2>2, <2>3, OverflowTimeIsRight DEF OverflowAgrees, NowSubUs, UsTime
<1> QED BY <1>1, <1>3, <1>13, <1>16, <1>17, HandledStep

(* So does the computation of the next overflow, after its signal.       *)
LEMMA RtcOverflowedStep ==
  ASSUME RtcInv, RtcOverflowed
  PROVE  RtcInv'
<1> USE DEF RtcInv, RtcRight, RtcTypeOK
<1>1. /\ rtc_todo # <<>> /\ Head(rtc_todo)[1] = "overflowed"
      /\ RTC_counter_startT_sub_us' = Head(rtc_todo)[2]
      /\ RTC_counter_startT_negative_sub_us' = 0
      /\ rtc_todo' = Tail(rtc_todo)
      /\ UNCHANGED <<rtc_now, first_lf_tick_time_sub_us, lf_phase, lf_moved, rtc_due, rtc_routes,
                     RTC_Running, counter, RTC_CC, cc_timers, overflow_timer_sub_us, Timer_RTC, phase,
                     RTC_EVENTS, RTC_INTEN, RTC_EVTEN, rtc_irq>>
  BY DEF RtcOverflowed, rtcTime, rtcTimers, rtcIrq
<1>2. /\ rtc_todo' \in Seq(RtcEntry) /\ Head(rtc_todo) \in RtcEntry
      /\ RtcInOrder(rtc_todo') /\ RtcMasterPending(rtc_todo')
      /\ \A i \in 1 .. Len(rtc_todo') : EntryAgrees(rtc_todo'[i])
  BY <1>1, RtcTaken DEF TodoAgrees
<1>3. EntryAgrees(Head(rtc_todo))
  <2>1. Len(rtc_todo) \in Nat /\ Len(rtc_todo) > 0 /\ Head(rtc_todo) = rtc_todo[1]
    BY <1>1
  <2>2. PICK one \in 1 .. Len(rtc_todo) : one = 1
    BY <2>1
  <2> QED BY <2>1, <2>2 DEF TodoAgrees
<1>4. PICK o \in Nat : o = Head(rtc_todo)[2] /\ OverflowAt(o) /\ OverflowNow
  BY <1>1, <1>2, <1>3, HeadTypes DEF EntryAgrees
<1>5. StartAgrees'
  <2>1. SUFFICES ASSUME RTC_Running
                 PROVE  StartAt(o, 0, phase)' /\ (~lf_moved' => phase' % LfPeriod = lf_phase')
    BY <1>1, <1>4 DEF StartAgrees
  <2>2. o = NowSubUs - phase /\ (~lf_moved => phase % LfPeriod = lf_phase)
    BY <1>4, <2>1 DEF OverflowNow, OverflowAt, StartAgrees
  <2>3. PICK W \in Nat \ {0} : W = RtcWrap
    BY RtcBounds
  <2>4. PICK p \in 0 .. W - 1 : p = phase
    BY <2>3
  <2>5. PICK n \in Nat : n = NowSubUs
    BY RtcBounds DEF NowSubUs
  <2>6. n - o + 0 = p
    <3>1. o = n - p
      BY <1>4, <2>2, <2>4, <2>5
    <3> QED BY <2>4, <2>5, <3>1
  <2>7. p % W = p
    BY RemainderOfSmall, Zenon
  <2>8. o <= n
    BY <1>4, <2>2, <2>4, <2>5
  <2>10. (n - o + 0) % W = p
    BY <2>6, <2>7
  <2>9. StartAt(o, 0, phase)
    BY <2>3, <2>4, <2>5, <2>8, <2>10 DEF StartAt
  <2> QED BY <1>1, <2>2, <2>9 DEF StartAt, NowSubUs
<1>6. EventsAgree'
  <2>1. \A e \in RtcEvent : CountTo(e)' = CountTo(e)
    BY <1>1 DEF CountTo
  <2> QED BY <1>1, <2>1 DEF EventsAgree, EventAgrees, UsTime
<1>7. OverflowAgrees' /\ ClockAgrees'
  BY <1>1 DEF OverflowAgrees, ClockAgrees, NowSubUs, UsTime
<1>8. RtcTypeOK'
  BY <1>1, <1>2, <1>4 DEF NowSubUs
<1>9. RtcInOrder(rtc_todo)' /\ TodoAgrees(rtc_todo)' /\ RtcMasterPending(rtc_todo)'
  BY <1>1, <1>2, TodoKept
<1> QED BY <1>5, <1>6, <1>7, <1>8, <1>9

(* So does the update of the hardware timer at the end of the handler.   *)
LEMMA RtcMasterStep ==
  ASSUME RtcInv, RtcMaster
  PROVE  RtcInv'
<1> USE DEF RtcInv, RtcRight, RtcTypeOK
<1>1. /\ rtc_todo # <<>> /\ Head(rtc_todo)[1] = "master" /\ rtc_todo' = Tail(rtc_todo)
      /\ UNCHANGED <<rtc_now, first_lf_tick_time_sub_us, lf_phase, lf_moved, rtc_due, rtc_routes,
                     RTC_Running, RTC_counter_startT_sub_us, RTC_counter_startT_negative_sub_us,
                     counter, RTC_CC, cc_timers, overflow_timer_sub_us, phase,
                     RTC_EVENTS, RTC_INTEN, RTC_EVTEN, rtc_irq>>
      /\ UpdateRtcMaster
  BY DEF RtcMaster, rtcTime, rtcStart, rtcIrq
<1>2. rtc_todo' = <<>>
  BY <1>1, RtcTaken
<1>3. StartAgrees' /\ OverflowAgrees' /\ ClockAgrees'
  BY <1>1 DEF StartAgrees, StartAt, OverflowAgrees, ClockAgrees, NowSubUs, UsTime
<1>4. EventsAgree'
  <2>1. \A e \in RtcEvent : CountTo(e)' = CountTo(e)
    BY <1>1 DEF CountTo
  <2> QED BY <1>1, <2>1 DEF EventsAgree, EventAgrees, UsTime
<1>5. FirstAgrees' /\ Timer_RTC' \in 0 .. RTC_NEVER
  BY <1>1, RtcMasterIsRight
<1>6. RtcTypeOK'
  BY <1>1, <1>2, <1>5 DEF NowSubUs
<1>7. RtcInOrder(rtc_todo)' /\ TodoAgrees(rtc_todo)'
  BY <1>2 DEF RtcInOrder, TodoAgrees
<1> QED BY <1>3, <1>4, <1>5, <1>6, <1>7

(* So does the call of the handler.                                      *)
LEMMA RtcTriggeredStep ==
  ASSUME RtcInv, RtcTimerTriggered
  PROVE  RtcInv'
<1> DEFINE s == [i \in Cc |-> <<"handle", i>>]
           t == <<<<"handle", OVRFLW>>, <<"master", 0>>>>
<1>1. /\ rtc_todo = <<>> /\ rtc_now = Timer_RTC /\ rtc_todo' = s \o t
      /\ UNCHANGED <<rtcTime, rtcRun, rtcIrq>>
  BY DEF RtcTimerTriggered
<1>2. RTC_Running /\ FirstAgrees
  <2>1. FirstAgrees
    BY <1>1 DEF RtcInv, RtcMasterPending
  <2> QED BY <1>1, <2>1, RtcBounds DEF FirstAgrees, RtcInv, RtcRight, RtcTypeOK
<1>3. /\ s \in Seq(RtcEntry) /\ Len(s) = NCc
      /\ \A i \in 1 .. Len(s) : s[i] = <<"handle", i>> /\ i # OVRFLW
  <2>1. NCc \in Nat /\ Cc = 1 .. NCc
    BY RtcHorizonAssumption DEF Cc
  <2>2. \A i \in Cc : <<"handle", i>> \in RtcEntry /\ i # OVRFLW
    BY <2>1 DEF RtcEntry, RtcEvent, OVRFLW
  <2>3. s \in [1 .. NCc -> RtcEntry]
    BY <2>1, <2>2
  <2>4. s \in Seq(RtcEntry) /\ Len(s) = NCc
    BY <2>1, <2>3
  <2> QED BY <2>1, <2>2, <2>4
<1>4. t \in Seq(RtcEntry) /\ Len(t) = 2 /\ t[1] = <<"handle", OVRFLW>> /\ t[2] = <<"master", 0>>
      /\ t # <<>>
  <2>1. <<"handle", OVRFLW>> \in RtcEntry /\ <<"master", 0>> \in RtcEntry
    BY DEF RtcEntry, RtcEvent
  <2> QED BY <2>1
<1> HIDE DEF s, t
<1>5. \A i \in 1 .. Len(t) : \/ i = 1 /\ t[i] = <<"handle", OVRFLW>>
                             \/ i = 2 /\ t[i] = <<"master", 0>>
  BY <1>4
<1>6. RtcMasterPending(t) /\ RtcInOrder(t)
  <2>1. RtcMasterPending(t)
    BY <1>4 DEF RtcMasterPending
  <2>2. MayPrecede(t[1], t[2])
    BY <1>4 DEF MayPrecede
  <2>3. \A i, j \in 1 .. Len(t) : i < j => i = 1 /\ j = 2
    BY <1>4
  <2> QED BY <2>1, <2>2, <2>3 DEF RtcInOrder
<1>7. /\ \A i, j \in 1 .. Len(s) : i < j => MayPrecede(s[i], s[j])
      /\ \A i \in 1 .. Len(s), j \in 1 .. Len(t) : MayPrecede(s[i], t[j])
  BY <1>3, <1>5 DEF MayPrecede
<1>8. /\ rtc_todo' \in Seq(RtcEntry) /\ RtcInOrder(rtc_todo') /\ RtcMasterPending(rtc_todo')
      /\ \A i \in 1 .. Len(rtc_todo') : \/ \E j \in 1 .. Len(s) : rtc_todo'[i] = s[j]
                                        \/ \E j \in 1 .. Len(t) : rtc_todo'[i] = t[j]
  <2>1. \A i \in 1 .. Len(s) : s[i][1] \in {"handle", "overflowed"} => RtcMasterPending(t)
    BY <1>6
  <2>2. /\ s \o t \in Seq(RtcEntry) /\ RtcInOrder(s \o t) /\ RtcMasterPending(s \o t)
        /\ \A i \in 1 .. Len(s \o t) : \/ \E j \in 1 .. Len(s) : (s \o t)[i] = s[j]
                                       \/ \E j \in 1 .. Len(t) : (s \o t)[i] = t[j]
    <3>1. s \in Seq(RtcEntry) /\ t \in Seq(RtcEntry)
      BY <1>3, <1>4
    <3> QED BY <3>1, <1>6, <1>7, <2>1, RtcPrepended
  <2> QED BY <1>1, <2>2
<1>9. \A i \in 1 .. Len(rtc_todo') : rtc_todo'[i][1] \in {"handle", "master"}
  BY <1>3, <1>5, <1>8
<1>10. \A i \in 1 .. Len(rtc_todo') : EntryAgrees(rtc_todo'[i])
  BY <1>1, <1>2, <1>9 DEF EntryAgrees
<1> QED BY <1>1, <1>8, <1>10, RtcQuietStep DEF RtcInv, RtcRight, RtcTypeOK, RtcIrqTypes, rtcIrq

-----------------------------------------------------------------------------
(* A write to a CC register computes its time again.                     *)
LEMMA RtcSoftwareCcStep ==
  ASSUME RtcInv, RtcSoftwareCc
  PROVE  RtcInv'
<1> USE DEF RtcInv, RtcRight, RtcTypeOK
<1>1. PICK c \in Cc, value \in RtcCcValues :
        /\ RTC_CC' = [RTC_CC EXCEPT ![c] = value]
        /\ IF RTC_Running THEN cc_timers' = [cc_timers EXCEPT ![c] = MatchTime(c)] /\ UpdateRtcMaster
                          ELSE cc_timers' = cc_timers /\ Timer_RTC' = Timer_RTC
  BY DEF RtcSoftwareCc
<1>2. /\ rtc_todo = <<>> /\ rtc_todo' = rtc_todo
      /\ UNCHANGED <<rtc_now, first_lf_tick_time_sub_us, lf_phase, lf_moved, rtc_due, rtc_routes,
                     RTC_Running, RTC_counter_startT_sub_us, RTC_counter_startT_negative_sub_us,
                     counter, overflow_timer_sub_us, phase, RTC_EVENTS, RTC_INTEN, RTC_EVTEN, rtc_irq>>
  BY DEF RtcSoftwareCc, rtcTime, rtcStart, rtcIrq
<1>3. value \in 0 .. CounterMask /\ c \in RtcEvent /\ c # OVRFLW
  BY RtcSoftwareAssumption DEF RtcEvent, Cc, OVRFLW
<1>4. RTC_CC' \in [Cc -> 0 .. CounterMask] /\ \A d \in Cc : d # c => RTC_CC'[d] = RTC_CC[d]
  BY <1>1, <1>3
<1>5. StartAgrees' /\ ClockAgrees'
  BY <1>2 DEF StartAgrees, StartAt, ClockAgrees, NowSubUs
<1>6. ASSUME NEW d \in RtcEvent
      PROVE  EventAgrees(d)' /\ (d # c => cc_timers'[d] = cc_timers[d])
  <2>1. CASE d # c \/ ~RTC_Running
    <3>1. cc_timers'[d] = cc_timers[d]
      BY <1>1, <2>1
    <3>2. d # c => CountTo(d)' = CountTo(d)
      BY <1>4 DEF CountTo, RtcEvent
    <3>3. EventAgrees(d)
      BY DEF EventsAgree
    <3> QED BY <1>2, <2>1, <3>1, <3>2, <3>3 DEF EventAgrees, UsTime
  <2>2. CASE d = c /\ RTC_Running
    <3>1. cc_timers'[d] = MatchTime(d)
      BY <1>1, <1>3, <2>2
    <3>2. /\ rtc_now \in 0 .. RtcHorizon /\ rtc_now' = rtc_now /\ RTC_Running' \in BOOLEAN
          /\ phase' \in 0 .. RtcWrap - 1
      BY <1>2
    <3> QED BY <1>4, <1>5, <2>2, <3>1, <3>2, MatchTimeIsRight
  <2> QED BY <2>1, <2>2
<1>7. EventsAgree'
  BY <1>6 DEF EventsAgree
<1>8. cc_timers' \in [RtcEvent -> 0 .. RTC_NEVER]
  <2>1. \A d \in RtcEvent : cc_timers'[d] \in 0 .. RTC_NEVER
    <3> TAKE d \in RtcEvent
    <3>1. ToCount(CountTo(d)', phase') \in 1 .. RtcWrap
      <4>1. CountTo(d)' \in 0 .. CounterMask + 1
        BY <1>4, RtcBounds DEF CountTo, RtcEvent
      <4>2. phase' \in 0 .. RtcWrap - 1
        BY <1>2
      <4> QED BY <4>1, <4>2, ToCountBounds
    <3>2. PICK x \in Nat \ {0} : x = ToCount(CountTo(d)', phase') /\ x <= RtcWrap
      BY <3>1, RtcBounds
    <3>3. PICK u \in Nat : u = UsTime(x) /\ u <= RtcWrap
      <4>1. 0 \in Nat
        OBVIOUS
      <4>2. UsTime(x) \in 1 .. x
        BY <4>1, UsTimeOf
      <4> QED BY <3>2, <4>2, RtcBounds
    <3>4. cc_timers'[d] = rtc_now + u \/ cc_timers'[d] = rtc_now \/ cc_timers'[d] = RTC_NEVER
      BY <1>2, <1>6, <3>2, <3>3 DEF EventAgrees, UsTime
    <3> QED BY <3>3, <3>4, RtcBounds
  <2>2. cc_timers' = [d \in RtcEvent |-> cc_timers'[d]]
    BY <1>1
  <2> QED BY <2>1, <2>2
<1>9. OverflowAgrees'
  <2>1. cc_timers'[OVRFLW] = cc_timers[OVRFLW]
    BY <1>3, <1>6 DEF RtcEvent
  <2> QED BY <1>2, <2>1 DEF OverflowAgrees, NowSubUs, UsTime
<1>10. FirstAgrees' /\ Timer_RTC' \in 0 .. RTC_NEVER
  <2>1. CASE RTC_Running
    BY <1>1, <1>2, <1>8, <2>1, RtcMasterIsRight
  <2>2. CASE ~RTC_Running
    BY <1>1, <1>2, <2>2 DEF FirstAgrees, RtcMasterPending
  <2> QED BY <2>1, <2>2
<1>11. RtcTypeOK'
  BY <1>2, <1>4, <1>8, <1>10 DEF NowSubUs
<1>12. RtcInOrder(rtc_todo)' /\ TodoAgrees(rtc_todo)'
  BY <1>2 DEF RtcInOrder, TodoAgrees
<1> QED BY <1>5, <1>7, <1>9, <1>10, <1>11, <1>12

(* The other writes of the software keep the invariant.                  *)
LEMMA RtcSoftwareStep ==
  ASSUME RtcInv, RtcSoftwareTask \/ RtcSoftwareEvents \/ RtcSoftwareInterrupts
  PROVE  RtcInv'
<1>1. CASE RtcSoftwareTask
  <2>1. PICK op \in RtcTasks : /\ rtc_todo = <<>> /\ rtc_todo' = <<<<op, 0>>>>
                               /\ UNCHANGED <<rtcTime, rtcRun, rtcIrq>>
    BY <1>1 DEF RtcSoftwareTask
  <2>2. <<op, 0>> \in RtcEntry /\ op \notin {"handle", "overflowed"}
    BY DEF RtcEntry, RtcTasks
  <2>3. rtc_todo' \in Seq(RtcEntry) /\ Len(rtc_todo') = 1 /\ rtc_todo'[1] = <<op, 0>>
    BY <2>1, <2>2
  <2>4. RtcInOrder(rtc_todo') /\ \A i \in 1 .. Len(rtc_todo') : EntryAgrees(rtc_todo'[i])
    <3>1. \A i \in 1 .. Len(rtc_todo') : rtc_todo'[i] = <<op, 0>> /\ i = 1
      BY <2>3
    <3> QED BY <2>2, <3>1, TasksAgree DEF RtcInOrder
  <2>5. FirstAgrees
    BY <2>1 DEF RtcInv, RtcMasterPending
  <2> QED BY <2>1, <2>3, <2>4, <2>5, RtcQuietStep
      DEF RtcInv, RtcRight, RtcTypeOK, RtcIrqTypes, rtcIrq
<1>2. CASE RtcSoftwareEvents \/ RtcSoftwareInterrupts
  <2>1. /\ rtc_todo = <<>> /\ rtc_todo' = rtc_todo /\ UNCHANGED <<rtcTime, rtcRun>>
    BY <1>2 DEF RtcSoftwareEvents, RtcSoftwareInterrupts
  <2>2. RtcIrqTypes'
    <3>1. CASE \E c \in RtcInts : RtcIntenSet(c) /\ UNCHANGED <<RTC_EVENTS, RTC_EVTEN>>
      BY <3>1 DEF RtcIntenSet, RtcIrqTypes, RtcInv, RtcRight, RtcTypeOK
    <3>2. CASE \E c \in RtcInts : RTC_INTEN' = RTC_INTEN \ {c}
                                   /\ UNCHANGED <<RTC_EVENTS, RTC_EVTEN, rtc_irq>>
      BY <3>2 DEF RtcIrqTypes, RtcInv, RtcRight, RtcTypeOK
    <3>3. CASE rtc_irq' = FALSE /\ RTC_EVENTS' = {} /\ UNCHANGED <<RTC_INTEN, RTC_EVTEN>>
      BY <3>3 DEF RtcIrqTypes, RtcInv, RtcRight, RtcTypeOK
    <3>4. CASE RtcSoftwareEvents
      <4>1. PICK e \in RtcEvts : RTC_EVTEN' \in {RTC_EVTEN \union {e}, RTC_EVTEN \ {e}}
        BY <3>4 DEF RtcSoftwareEvents
      <4>2. RTC_EVTEN' \subseteq RtcEvts /\ UNCHANGED <<RTC_EVENTS, RTC_INTEN, rtc_irq>>
        BY <3>4, <4>1 DEF RtcSoftwareEvents, RtcInv, RtcRight, RtcTypeOK
      <4> QED BY <4>2 DEF RtcIrqTypes, RtcInv, RtcRight, RtcTypeOK
    <3> QED BY <1>2, <3>1, <3>2, <3>3, <3>4 DEF RtcSoftwareInterrupts
  <2>3. rtc_todo' \in Seq(RtcEntry) /\ Len(rtc_todo') = 0
    BY <2>1
  <2>4. RtcInOrder(rtc_todo') /\ (\A i \in 1 .. Len(rtc_todo') : EntryAgrees(rtc_todo'[i]))
    BY <2>3 DEF RtcInOrder
  <2>5. FirstAgrees
    BY <2>1 DEF RtcInv, RtcMasterPending
  <2> QED BY <2>1, <2>2, <2>3, <2>4, <2>5, RtcQuietStep
<1> QED BY <1>1, <1>2

(* The low frequency clock starts, whatever the RTC does.                *)
LEMMA RtcFirstLfTickStep ==
  ASSUME RtcInv, RtcFirstLfTick
  PROVE  RtcInv'
<1> USE DEF RtcInv, RtcRight, RtcTypeOK
<1>1. /\ rtc_todo = <<>> /\ rtc_todo' = rtc_todo
      /\ first_lf_tick_time_sub_us' = NowSubUs /\ lf_phase' = 0
      /\ lf_moved' = (lf_moved \/ RTC_Running)
      /\ UNCHANGED <<rtc_now, rtc_due, rtc_routes, RTC_Running, RTC_counter_startT_sub_us,
                     RTC_counter_startT_negative_sub_us, counter, RTC_CC, cc_timers,
                     overflow_timer_sub_us, Timer_RTC, phase, RTC_EVENTS, RTC_INTEN, RTC_EVTEN, rtc_irq>>
  BY DEF RtcFirstLfTick, rtcRun, rtcStart, rtcTimers, rtcIrq
<1>2. PICK n \in Nat : n = NowSubUs
  BY RtcBounds DEF NowSubUs
<1>3. NowSubUs' = n
  BY <1>1, <1>2 DEF NowSubUs
<1>4. ClockAgrees'
  <2>1. PICK P \in Nat \ {0} : P = LfPeriod
    BY RtcBounds
  <2>2. 0 % P = 0
    OBVIOUS
  <2>3. n - n = 0
    OBVIOUS
  <2> QED BY <1>1, <1>2, <1>3, <2>1, <2>2, <2>3 DEF ClockAgrees
<1>5. StartAgrees' /\ OverflowAgrees' /\ EventsAgree' /\ FirstAgrees'
  <2>1. StartAgrees'
    BY <1>1 DEF StartAgrees, StartAt, NowSubUs
  <2>2. OverflowAgrees'
    BY <1>1 DEF OverflowAgrees, NowSubUs, UsTime
  <2>3. EventsAgree'
    <3>1. \A e \in RtcEvent : CountTo(e)' = CountTo(e)
      BY <1>1 DEF CountTo
    <3> QED BY <1>1, <3>1 DEF EventsAgree, EventAgrees, UsTime
  <2>4. FirstAgrees'
    BY <1>1 DEF FirstAgrees, RtcMasterPending
  <2> QED BY <2>1, <2>2, <2>3, <2>4
<1>6. RtcTypeOK'
  BY <1>1, <1>2, <1>3, RtcBounds
<1>7. RtcInOrder(rtc_todo)' /\ TodoAgrees(rtc_todo)'
  BY <1>1 DEF RtcInOrder, TodoAgrees
<1> QED BY <1>4, <1>5, <1>6, <1>7

-----------------------------------------------------------------------------
(* A microsecond.                                                           *)
LEMMA AddedToRemainder ==
  ASSUME NEW W \in Nat \ {0}, NEW d \in Int, NEW s \in Int, NEW r, r = d % W
  PROVE  (d + s) % W = (r + s) % W
<1>1. PICK q \in Int, u \in 0 .. W - 1 : d = q * W + u /\ d % W = u
  BY Remainder
<1>2. PICK x \in Int, y \in Int : x = u + s /\ y = d + s
  OBVIOUS
<1>3. y = x + q * W
  BY <1>1, <1>2
<1>4. y % W = x % W
  BY <1>3, SameRemainder, Zenon
<1> QED BY <1>1, <1>2, <1>4

(* "Passed" counts from 0 to 0 what the code counts to the wrap.             *)
LEMMA PassedIsLeft ==
  ASSUME RTC_CC \in [Cc -> 0 .. CounterMask], NEW p \in 0 .. RtcWrap - 1, p = phase,
         NEW e \in RtcEvent
  PROVE  /\ Passed(e) <=> ToCount(CountTo(e), p) <= SubUs
         /\ LET togo == ((IF e = OVRFLW THEN 0 ELSE RTC_CC[e]) * TickTime - phase) % RtcWrap
            IN  ToCount(CountTo(e), p) = IF togo = 0 THEN RtcWrap ELSE togo
<1>1. PICK W \in Nat \ {0} : W = RtcWrap
  BY RtcBounds
<1>2. PICK m \in Int : m = CountTo(e) * TickTime /\ (e = OVRFLW => m = W)
  <2>1. CountTo(e) \in 0 .. CounterMask + 1 /\ (e = OVRFLW => CountTo(e) = CounterMask + 1)
    BY CountToTypes DEF CountTo
  <2>2. CountTo(e) * TickTime \in Int /\ (e = OVRFLW => CountTo(e) * TickTime = W)
    BY <1>1, <2>1, CountBounds, RtcBounds
  <2> QED BY <2>2
<1>3. PICK n \in Int, k \in Int : /\ n = (IF e = OVRFLW THEN 0 ELSE RTC_CC[e]) * TickTime
                                  /\ m = n + k * W
  <2>1. CASE e = OVRFLW
    <3>1. 0 * TickTime = 0 /\ m = 0 + 1 * W
      BY <1>2, <2>1, RtcBounds
    <3> QED BY <2>1, <3>1
  <2>2. CASE e # OVRFLW
    <3>1. m = RTC_CC[e] * TickTime /\ m = m + 0 * W
      BY <1>2, <2>2 DEF CountTo
    <3> QED BY <2>2, <3>1
  <2> QED BY <2>1, <2>2
<1>4. PICK x \in Int, y \in Int : x = n - p /\ y = m - p
  BY <1>1
<1>5. y = x + k * W
  BY <1>1, <1>3, <1>4
<1>6. y % W = x % W
  BY <1>5, SameRemainder, Zenon
<1>7. ToCount(CountTo(e), p) = IF x % W = 0 THEN W ELSE x % W
  BY <1>1, <1>2, <1>4, <1>6 DEF ToCount, Left
<1>8. ((IF e = OVRFLW THEN 0 ELSE RTC_CC[e]) * TickTime - phase) % RtcWrap = x % W
  BY <1>1, <1>3, <1>4
<1> QED BY <1>1, <1>7, <1>8 DEF Passed

(* Time passes, if no event is due: the phase and the times still        *)
(* agree.                                                                *)
LEMMA RtcTickStep ==
  ASSUME RtcInv, RtcTick
  PROVE  RtcInv'
<1> USE DEF RtcInv, RtcRight, RtcTypeOK
<1>1. /\ rtc_todo = <<>> /\ rtc_todo' = rtc_todo
      /\ rtc_now < RtcHorizon /\ rtc_now < Timer_RTC /\ rtc_now' = rtc_now + 1
      /\ lf_phase' = (lf_phase + SubUs) % LfPeriod
      /\ phase' = IF RTC_Running THEN (phase + SubUs) % RtcWrap ELSE phase
      /\ rtc_due' = IF RTC_Running THEN {e \in RtcEvent : Passed(e)} ELSE {}
      /\ UNCHANGED <<first_lf_tick_time_sub_us, lf_moved, rtc_routes, RTC_Running,
                     RTC_counter_startT_sub_us, RTC_counter_startT_negative_sub_us, counter, RTC_CC, cc_timers,
                     overflow_timer_sub_us, Timer_RTC, RTC_EVENTS, RTC_INTEN, RTC_EVTEN, rtc_irq>>
  BY DEF RtcTick, rtcStart, rtcTimers, rtcIrq
<1>2. PICK W \in Nat \ {0}, P \in Nat \ {0}, S \in Nat \ {0} :
         W = RtcWrap /\ P = LfPeriod /\ S = SubUs /\ S <= P /\ P < W
  BY RtcBounds
<1>3. PICK n \in Nat : n = NowSubUs /\ NowSubUs' = n + S
  <2>1. rtc_now \in Nat
    BY RtcBounds
  <2>2. (rtc_now + 1) * S = rtc_now * S + S /\ rtc_now * S \in Nat
    BY <2>1
  <2> QED BY <1>1, <1>2, <2>2 DEF NowSubUs
<1>4. rtc_now' \in 0 .. RtcHorizon
  BY <1>1, RtcBounds
<1>5. FirstAgrees
  BY <1>1 DEF RtcMasterPending
<1>6. ClockAgrees'
  <2>1. PICK f \in 0 .. n : f = first_lf_tick_time_sub_us
    BY <1>3
  <2>2. PICK d \in Int : d = n - f
    OBVIOUS
  <2>3. lf_phase = d % P
    BY <1>2, <1>3, <2>1, <2>2 DEF ClockAgrees
  <2>4. (d + S) % P = (lf_phase + S) % P
    <3>1. S \in Int
      OBVIOUS
    <3> QED BY <2>3, <3>1, AddedToRemainder, Zenon
  <2>5. NowSubUs' - first_lf_tick_time_sub_us' = d + S /\ f \in 0 .. n + S
    BY <1>1, <1>3, <2>1, <2>2
  <2>6. lf_phase' = (NowSubUs' - first_lf_tick_time_sub_us') % P
    BY <1>1, <1>2, <2>4, <2>5
  <2>7. first_lf_tick_time_sub_us' \in 0 .. NowSubUs'
    BY <1>1, <1>3, <2>1, <2>5
  <2> QED BY <1>1, <1>2, <1>4, <2>6, <2>7 DEF ClockAgrees
<1>7. /\ phase' \in 0 .. RtcWrap - 1 /\ lf_phase' \in 0 .. LfPeriod - 1
      /\ rtc_due' \subseteq RtcEvent /\ first_lf_tick_time_sub_us' \in 0 .. NowSubUs'
  <2>1. PICK p \in 0 .. W - 1, l \in 0 .. P - 1 : p = phase /\ l = lf_phase
    BY <1>2
  <2>2. (p + S) % W \in 0 .. W - 1 /\ (l + S) % P \in 0 .. P - 1
    OBVIOUS
  <2>3. phase' \in 0 .. RtcWrap - 1 /\ lf_phase' \in 0 .. LfPeriod - 1
    BY <1>1, <1>2, <2>1, <2>2
  <2> QED BY <1>1, <1>6, <2>3 DEF ClockAgrees
<1>8. RtcTypeOK'
  BY <1>1, <1>4, <1>7
<1>9. RtcInOrder(rtc_todo)' /\ TodoAgrees(rtc_todo)'
  BY <1>1 DEF RtcInOrder, TodoAgrees
<1>10. FirstAgrees'
  BY <1>1, <1>5 DEF FirstAgrees
<1>11. CASE ~RTC_Running
  <2>1. StartAgrees' /\ OverflowAgrees' /\ EventsAgree'
    BY <1>1, <1>11 DEF StartAgrees, OverflowAgrees, EventsAgree, EventAgrees
  <2> QED BY <1>6, <1>8, <1>9, <1>10, <2>1
<1>12. CASE RTC_Running
  <2>1. PICK p \in 0 .. W - 1, a \in Int, u \in 0 .. W - 1 :
          p = phase /\ p + S = a * W + u /\ phase' = u
    <3>1. PICK p \in 0 .. W - 1 : p = phase
      BY <1>2
    <3>2. PICK x \in Int : x = p + S
      OBVIOUS
    <3>3. PICK a \in Int, u \in 0 .. W - 1 : x = a * W + u /\ x % W = u
      BY Remainder
    <3> QED BY <1>1, <1>2, <1>12, <3>1, <3>2, <3>3
  <2>2. StartAgrees'
    <3>1. PICK b \in Int : /\ b = n - RTC_counter_startT_sub_us + RTC_counter_startT_negative_sub_us
                           /\ b % W = p
      BY <1>2, <1>3, <1>12, <2>1 DEF StartAgrees, StartAt
    <3>2. (b + S) % W = (p + S) % W
      <4>1. S \in Int /\ p = b % W
        BY <3>1
      <4>2. \A r : r = b % W => (b + S) % W = (r + S) % W
        BY <4>1, AddedToRemainder, Zenon
      <4> QED BY <4>1, <4>2, Zenon
    <3>3. phase' = (p + S) % W
      BY <1>1, <1>2, <1>12, <2>1
    <3>4. NowSubUs' - RTC_counter_startT_sub_us' + RTC_counter_startT_negative_sub_us' = b + S
      BY <1>1, <1>3, <3>1
    <3>5. (NowSubUs' - RTC_counter_startT_sub_us' + RTC_counter_startT_negative_sub_us') % RtcWrap
            = phase'
      BY <1>2, <3>2, <3>3, <3>4
    <3>6. RTC_counter_startT_sub_us' <= NowSubUs'
      BY <1>1, <1>3, <1>12 DEF StartAgrees, StartAt
    <3>7. StartAt(RTC_counter_startT_sub_us, RTC_counter_startT_negative_sub_us, phase)'
      BY <1>1, <1>2, <1>7, <1>12, <3>5, <3>6 DEF StartAgrees, StartAt
    <3>8. ASSUME ~lf_moved' PROVE phase' % LfPeriod = lf_phase'
      <4>1. PICK k \in Int : W = k * P
        BY <1>2, WrapInPeriods
      <4>2. PICK j \in Int, x \in Int : j = -(a * k) /\ x = p + S
        OBVIOUS
      <4>3. u = x + j * P
        <5>1. (-(a * k)) * P = -(a * (k * P))
          OBVIOUS
        <5> QED BY <2>1, <4>1, <4>2, <5>1
      <4>4. u % P = x % P
        <5>1. u \in Int
          OBVIOUS
        <5> QED BY <4>3, <5>1, SameRemainder, Zenon
      <4>5. lf_phase = p % P
        BY <1>1, <1>2, <1>12, <2>1, <3>8 DEF StartAgrees
      <4>6. p \in Int /\ S \in Int
        OBVIOUS
      <4>7. (p + S) % P = (lf_phase + S) % P
        BY <4>5, <4>6, AddedToRemainder, Zenon
      <4> QED BY <1>1, <1>2, <2>1, <4>2, <4>4, <4>7
    <3> QED BY <3>7, <3>8 DEF StartAgrees
  <2>3. \A e \in RtcEvent : cc_timers[e] > rtc_now /\ cc_timers[e] \in Nat
    BY <1>1, <1>5, <1>12, RtcBounds DEF FirstAgrees
  <2>4. ASSUME NEW e \in RtcEvent PROVE EventAgrees(e)'
    <3>1. PICK c \in 0 .. CounterMask + 1 : c = CountTo(e) /\ c = CountTo(e)'
      BY <1>1, CountToTypes DEF CountTo
    <3>2. PICK m \in Int : m = c * TickTime
      BY CountBounds
    <3>3. PICK y \in Int, z \in Int : y = m - p /\ z = m - u
      OBVIOUS
    <3>4. z = y - S + a * W
      BY <2>1, <3>3
    <3>5. PICK l \in 1 .. W : l = Left(W, y)
      BY LeftIsAhead
    <3>6. ToCount(CountTo(e), phase) = l
      BY <1>2, <2>1, <3>1, <3>2, <3>3, <3>5 DEF ToCount
    <3>7. ToCount(CountTo(e)', phase') = Left(W, z)
      BY <1>2, <2>1, <3>1, <3>2, <3>3 DEF ToCount
    <3>8. cc_timers[e] = rtc_now + UsTime(l)
      BY <1>12, <2>3, <3>6, RtcBounds DEF EventsAgree, EventAgrees
    <3>9. CASE l > S
      <4>1. PICK x \in Nat \ {0} : x = l - S
        BY <3>9
      <4>2. Left(W, z) = x
        <5>1. PICK i \in Int : l = y + i * W
          BY <3>5, LeftIsAhead, Zenon
        <5>2. PICK j \in Int : j = i - a
          OBVIOUS
        <5>3. x \in 1 .. W
          BY <4>1
        <5>4. x = z + j * W
          <6>1. (i - a) * W = i * W - a * W
            OBVIOUS
          <6> QED BY <3>4, <4>1, <5>1, <5>2, <6>1
        <5> QED BY <5>3, <5>4, LeftIsUnique, Zenon
      <4>3. UsTime(l) = 1 + UsTime(x) /\ UsTime(x) \in 1 .. x
        <5>1. l \in Nat \ {0} /\ 0 \in Nat
          OBVIOUS
        <5>2. UsTime(x) \in 1 .. x
          BY <5>1, UsTimeOf
        <5>3. UsTime(l) = 1 + UsTime(l - SubUs)
          BY <1>2, <3>9, <5>1, UsTimeOf
        <5> QED BY <1>2, <4>1, <5>2, <5>3
      <4>4. cc_timers'[e] = rtc_now' + UsTime(x)
        BY <1>1, <3>8, <4>3, RtcBounds
      <4> QED BY <1>1, <1>12, <3>7, <4>2, <4>4 DEF EventAgrees, UsTime
    <3>10. CASE l <= S
      <4>1. UsTime(l) = 1
        <5>1. l \in Nat \ {0} /\ 0 \in Nat
          OBVIOUS
        <5> QED BY <1>2, <3>10, <5>1, UsTimeOf
      <4>2. Passed(e)
        <5>1. p \in 0 .. RtcWrap - 1 /\ ToCount(CountTo(e), p) <= SubUs
          BY <1>2, <2>1, <3>6, <3>10
        <5> QED BY <2>1, <5>1, PassedIsLeft
      <4> QED BY <1>1, <1>12, <3>8, <4>1, <4>2 DEF EventAgrees
    <3> QED BY <3>9, <3>10
  <2>5. OverflowAgrees'
    <3>1. overflow_timer_sub_us = n + (W - p)
      <4>1. OVRFLW \in RtcEvent /\ rtc_now \in Nat
        BY RtcBounds DEF RtcEvent
      <4>2. p < S => UsTime(rtc_now * SubUs - p) = rtc_now
        BY <1>2, <4>1, UsTimeBefore
      <4>3. cc_timers[OVRFLW] # rtc_now
        BY <2>3, <4>1
      <4> QED BY <1>2, <1>3, <1>12, <2>1, <4>2, <4>3 DEF OverflowAgrees, NowSubUs
    <3>2. CASE p + S < W
      <4>1. u = p + S
        <5>1. p + S \in 0 .. W - 1
          BY <3>2
        <5>2. (p + S) % W = p + S
          BY <5>1, RemainderOfSmall, Zenon
        <5> QED BY <1>1, <1>2, <1>12, <2>1, <5>2
      <4>2. overflow_timer_sub_us' = NowSubUs' + (RtcWrap - phase')
        BY <1>1, <1>2, <1>3, <2>1, <3>1, <4>1
      <4> QED BY <1>1, <1>12, <4>2 DEF OverflowAgrees, UsTime
    <3>3. CASE p + S >= W
      <4>1. u = p + S - W
        <5>1. PICK r \in 0 .. W - 1 : r = p + S - W
          BY <1>2, <3>3
        <5>2. PICK x \in Int : x = p + S
          OBVIOUS
        <5>3. x = r + 1 * W /\ r \in Int /\ 1 \in Int
          BY <5>1, <5>2
        <5>4. x % W = r % W
          BY <5>3, SameRemainder, Zenon
        <5>5. r % W = r
          BY RemainderOfSmall, Zenon
        <5> QED BY <1>1, <1>2, <1>12, <2>1, <5>1, <5>2, <5>4, <5>5
      <4>2. overflow_timer_sub_us' = NowSubUs' - phase' /\ phase' < SubUs
        BY <1>1, <1>2, <1>3, <2>1, <3>1, <4>1
      <4> QED BY <1>1, <1>12, <4>2 DEF OverflowAgrees, UsTime
    <3> QED BY <3>2, <3>3
  <2> QED BY <1>6, <1>8, <1>9, <1>10, <2>2, <2>4, <2>5 DEF EventsAgree
<1> QED BY <1>11, <1>12

-----------------------------------------------------------------------------
(* The invariant holds at boot.                                          *)
LEMMA RtcInitInv == RtcInit => RtcInv
<1> SUFFICES ASSUME RtcInit PROVE RtcInv
  OBVIOUS
<1> USE DEF RtcInit
<1>1. NowSubUs = 0
  BY RtcBounds DEF NowSubUs
<1>2. ClockAgrees
  <2>1. PICK P \in Nat \ {0} : P = LfPeriod
    BY RtcBounds
  <2>2. 0 % P = 0
    OBVIOUS
  <2> QED BY <1>1, <2>1, <2>2, RtcBounds DEF ClockAgrees
<1>3. RtcTypeOK
  <2>1. /\ 0 \in 0 .. RtcHorizon /\ 0 \in 0 .. CounterMask /\ 0 \in 0 .. LfPeriod - 1
        /\ 0 \in 0 .. RtcWrap - 1 /\ 0 \in 0 .. NowSubUs /\ RTC_NEVER \in 0 .. RTC_NEVER
        /\ RTC_NEVER \in Nat
    BY <1>1, RtcBounds
  <2>2. <<>> \in Seq(RtcEntry)
    OBVIOUS
  <2> QED BY <2>1, <2>2 DEF RtcTypeOK
<1>4. StartAgrees /\ EventsAgree /\ OverflowAgrees /\ FirstAgrees
  BY DEF StartAgrees, EventsAgree, EventAgrees, OverflowAgrees, FirstAgrees
<1>5. RtcInOrder(rtc_todo) /\ TodoAgrees(rtc_todo)
  BY DEF RtcInOrder, TodoAgrees
<1> QED BY <1>2, <1>3, <1>4, <1>5 DEF RtcInv, RtcRight

(* Every step keeps the invariant.                                       *)
LEMMA RtcStepInv ==
  ASSUME CarefulRoutes, OverflowIsATick, RtcInv, [RtcNext]_rtcVars
  PROVE  RtcInv'
<1>1. CASE RtcNext
  BY <1>1, RtcTaskStep, RtcNoMatchStep, RtcCcStep, RtcOverflowStep, RtcOverflowedStep, RtcMasterStep,
     RtcTriggeredStep, RtcTickStep, RtcFirstLfTickStep, RtcSoftwareStep, RtcSoftwareCcStep
     DEF RtcNext
<1>2. CASE UNCHANGED rtcVars
  <2>1. UNCHANGED <<rtcTime, rtcRun, rtcIrq, rtc_todo>>
    BY <1>2 DEF rtcVars
  <2>2. RtcIrqTypes'
    BY <2>1 DEF rtcIrq, RtcIrqTypes, RtcInv, RtcRight, RtcTypeOK
  <2> QED BY <2>1, <2>2, RtcQuietStep DEF RtcInv, RtcRight, RtcTypeOK, TodoAgrees
<1> QED BY <1>1, <1>2

(* An overflow that is a tick was one before: the LF clock may start     *)
(* again, and the routes stay.                                           *)
LEMMA ATickBefore ==
  ASSUME [RtcNext]_rtcVars, OverflowIsATick'
  PROVE  OverflowIsATick
<1>1. rtc_routes' = rtc_routes /\ (lf_moved => lf_moved')
  <2>1. CASE UNCHANGED rtcTime
    BY <2>1 DEF rtcTime
  <2>2. CASE RtcTick
    BY <2>2 DEF RtcTick
  <2>3. CASE RtcFirstLfTick
    BY <2>3 DEF RtcFirstLfTick
  <2>4. RtcNext => UNCHANGED rtcTime \/ RtcTick \/ RtcFirstLfTick
    BY DEF RtcNext, RtcTaskCall, RtcNoMatch, RtcCcEvent, RtcOverflowEvent, RtcOverflowed, RtcMaster,
           RtcTimerTriggered, RtcSoftwareTask, RtcSoftwareCc, RtcSoftwareEvents, RtcSoftwareInterrupts
  <2>5. UNCHANGED rtcVars => UNCHANGED rtcTime
    BY DEF rtcVars
  <2> QED BY <2>1, <2>2, <2>3, <2>4, <2>5
<1> QED BY <1>1 DEF OverflowIsATick

(* The invariant holds, whatever the software writes and whatever        *)
(* careful routes the PPI has, as long as each overflow is in a tick.    *)
THEOREM RtcInvariant ==
  ASSUME CarefulRoutes
  PROVE  RtcSpec => [](OverflowIsATick => RtcInv)
<1>1. (OverflowIsATick => RtcInv) /\ [RtcNext]_rtcVars => (OverflowIsATick => RtcInv)'
  BY RtcStepInv, ATickBefore
<1> QED BY <1>1, RtcInitInv, PTL DEF RtcSpec

(* The types of the variables of the RTC (NRF_RTC.c:44-60), under the    *)
(* same condition.                                                       *)
THEOREM RtcTypes ==
  ASSUME CarefulRoutes
  PROVE  RtcSpec => [](OverflowIsATick => RtcTypeOK)
<1>1. RtcInv => RtcTypeOK
  BY DEF RtcInv, RtcRight
<1> QED BY <1>1, RtcInvariant, PTL

(* The invariant implies that the timers match the count.                *)
LEMMA RtcInvMatches == RtcInv => RtcAlwaysMatchesTheCount
<1> SUFFICES ASSUME RtcInv, rtc_todo = <<>> PROVE RtcAlwaysMatchesTheCount
  BY DEF RtcAlwaysMatchesTheCount, RtcTimesAreRight, RtcCounterReads
<1> USE DEF RtcInv, RtcRight, RtcTypeOK
<1>1. RtcTimesAreRight
  <2>1. ASSUME NEW e \in RtcEvent, RTC_Running
        PROVE  LET togo == ((IF e = OVRFLW THEN 0 ELSE RTC_CC[e]) * TickTime - phase) % RtcWrap
               IN  \/ cc_timers[e] = rtc_now + UsTime(IF togo = 0 THEN RtcWrap ELSE togo)
                   \/ cc_timers[e] = rtc_now /\ e \in rtc_due
    <3>1. PICK p \in 0 .. RtcWrap - 1 : p = phase
      OBVIOUS
    <3>2. LET togo == ((IF e = OVRFLW THEN 0 ELSE RTC_CC[e]) * TickTime - phase) % RtcWrap
          IN  ToCount(CountTo(e), phase) = IF togo = 0 THEN RtcWrap ELSE togo
      BY <3>1, PassedIsLeft
    <3> QED BY <2>1, <3>2 DEF EventsAgree, EventAgrees
  <2>2. ASSUME NEW e \in RtcEvent, ~RTC_Running PROVE cc_timers[e] = RTC_NEVER
    BY <2>2 DEF EventsAgree, EventAgrees
  <2> QED BY <2>1, <2>2 DEF RtcTimesAreRight
<1>2. RtcCounterReads
  <2>1. PICK p \in 0 .. RtcWrap - 1 : p = phase
    OBVIOUS
  <2>2. rtc_now \in Nat
    BY RtcBounds
  <2>3. RTC_Running => CountNow = p \div TickTime
    BY <2>1, <2>2, CountIsRight DEF StartAgrees
  <2> QED BY <2>1, <2>3 DEF RtcCounterReads
<1> QED BY <1>1, <1>2 DEF RtcAlwaysMatchesTheCount

(* The times for which the events of the RTC are set are those at which  *)
(* its counter is at their counts, and the hardware timer is set for     *)
(* the first of them.                                                    *)
THEOREM RtcMatches ==
  ASSUME CarefulRoutes
  PROVE  RtcSpec => []RtcMatchesTheCount
<1>1. (OverflowIsATick => RtcInv) => RtcMatchesTheCount
  BY RtcInvMatches DEF RtcMatchesTheCount
<1> QED BY <1>1, RtcInvariant, PTL

(* An event register is set only when the counter is at its count.       *)
LEMMA RtcEventsOnTime ==
  ASSUME RtcInv, [RtcNext]_rtcVars, NEW e \in RtcEvent, e \in RTC_EVENTS' \ RTC_EVENTS
  PROVE  e \in rtc_due
<1>1. RtcCcEvent \/ RtcOverflowEvent
  <2>1. RTC_EVENTS' # RTC_EVENTS /\ ~(RTC_EVENTS' = {})
    OBVIOUS
  <2>2. ~RtcTaskCall /\ ~RtcNoMatch /\ ~RtcOverflowed /\ ~RtcMaster /\ ~RtcTimerTriggered
    BY <2>1 DEF RtcTaskCall, RtcNoMatch, RtcOverflowed, RtcMaster, RtcTimerTriggered, rtcIrq
  <2>3. ~RtcTick /\ ~RtcFirstLfTick /\ ~RtcSoftwareTask /\ ~RtcSoftwareCc
    BY <2>1 DEF RtcTick, RtcFirstLfTick, RtcSoftwareTask, RtcSoftwareCc, rtcIrq
  <2>4. ~RtcSoftwareEvents /\ ~RtcSoftwareInterrupts
    BY <2>1 DEF RtcSoftwareEvents, RtcSoftwareInterrupts
  <2>5. ~UNCHANGED rtcVars
    BY <2>1 DEF rtcVars, rtcIrq
  <2> QED BY <2>2, <2>3, <2>4, <2>5 DEF RtcNext
<1>2. PICK d : /\ rtc_todo # <<>> /\ Head(rtc_todo)[1] = "handle" /\ d = Head(rtc_todo)[2]
               /\ MatchesNow(d) /\ RTC_EVENTS' = RTC_EVENTS \union {d}
  <2>1. CASE RtcCcEvent
    BY <2>1 DEF RtcCcEvent, HandleEvent
  <2>2. CASE RtcOverflowEvent
    <3>1. /\ rtc_todo # <<>> /\ Head(rtc_todo) = <<"handle", OVRFLW>> /\ MatchesNow(OVRFLW)
          /\ RTC_EVENTS' = RTC_EVENTS \union {OVRFLW}
      BY <2>2 DEF RtcOverflowEvent, HandleEvent
    <3>2. Head(rtc_todo)[1] = "handle" /\ OVRFLW = Head(rtc_todo)[2]
      BY <3>1
    <3> QED BY <3>1, <3>2
  <2> QED BY <1>1, <2>1, <2>2
<1>3. d = e
  BY <1>2
<1> QED BY <1>2, <1>3, HandlingNow

(* An event of the RTC is signalled only when its counter is at the      *)
(* count of the event.                                                   *)
THEOREM RtcOnTime ==
  ASSUME CarefulRoutes
  PROVE  RtcSpec => RtcEventIsOnTime
<1>1. (OverflowIsATick => RtcInv) /\ [RtcNext]_rtcVars =>
        [OverflowIsATick =>
           \A e \in RtcEvent : e \in RTC_EVENTS' \ RTC_EVENTS => e \in rtc_due]_rtcVars
  BY RtcEventsOnTime
<1> QED BY <1>1, RtcInvariant, PTL DEF RtcSpec, RtcEventIsOnTime

(* The interrupt line of the RTC is the level of its enabled events,     *)
(* for every routing.                                                    *)
THEOREM RtcInterrupts == RtcSpec => []RtcInterruptNotLost
<1>1. RtcInit => RtcInterruptNotLost
  BY DEF RtcInit, RtcInterruptNotLost
<1>2. RtcInterruptNotLost /\ [RtcNext]_rtcVars => RtcInterruptNotLost'
  <2> SUFFICES ASSUME RtcInterruptNotLost, [RtcNext]_rtcVars PROVE RtcInterruptNotLost'
    OBVIOUS
  <2>1. CASE UNCHANGED rtcIrq
    BY <2>1 DEF rtcIrq, RtcInterruptNotLost
  <2>2. ASSUME NEW e, HandleEvent(e) PROVE RtcInterruptNotLost'
    BY <2>2 DEF HandleEvent, RtcInterruptNotLost
  <2>3. CASE RtcCcEvent \/ RtcOverflowEvent
    BY <2>2, <2>3 DEF RtcCcEvent, RtcOverflowEvent
  <2>4. CASE RtcSoftwareInterrupts
    <3>1. CASE \E c \in RtcInts : RtcIntenSet(c) /\ UNCHANGED RTC_EVENTS
      BY <3>1 DEF RtcIntenSet, RtcInterruptNotLost
    <3>2. CASE \E c \in RtcInts : RTC_INTEN' = RTC_INTEN \ {c} /\ UNCHANGED <<RTC_EVENTS, rtc_irq>>
      BY <3>2 DEF RtcInterruptNotLost
    <3>3. CASE rtc_irq' = FALSE /\ RTC_EVENTS' = {} /\ UNCHANGED RTC_INTEN
      BY <3>3 DEF RtcInterruptNotLost
    <3> QED BY <2>4, <3>1, <3>2, <3>3 DEF RtcSoftwareInterrupts
  <2>5. CASE RtcSoftwareEvents
    BY <2>5 DEF RtcSoftwareEvents, RtcInterruptNotLost
  <2>6. RtcNext => \/ UNCHANGED rtcIrq \/ RtcCcEvent \/ RtcOverflowEvent
                   \/ RtcSoftwareEvents \/ RtcSoftwareInterrupts
    BY DEF RtcNext, RtcTaskCall, RtcNoMatch, RtcOverflowed, RtcMaster, RtcTimerTriggered, RtcTick,
           RtcFirstLfTick, RtcSoftwareTask, RtcSoftwareCc
  <2>7. UNCHANGED rtcVars => UNCHANGED rtcIrq
    BY DEF rtcVars, rtcIrq
  <2> QED BY <2>1, <2>3, <2>4, <2>5, <2>6, <2>7
<1> QED BY <1>1, <1>2, PTL DEF RtcSpec
=============================================================================
