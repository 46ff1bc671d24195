------------------------- MODULE TimerWheel_proofs -------------------------
(***************************************************************************)
(* The timing wheel of TimerWheel, for any number of timers, any sizes of  *)
(* the levels, any timeouts and any width of the milliseconds.             *)
(***************************************************************************)
EXTENDS TimerWheel, TLAPS

P == INSTANCE LinkList_proofs WITH Node <- TimerId, List <- SlotList, Null <- None
-----------------------------------------------------------------------------
(* Where Reg puts a timer.                                                 *)

\* f is a tick at which timer r may fire.
Fits(r, f) == IF r.wraps THEN r.expire - 1 <= f /\ f < r.expire + WheelSize[1]
              ELSE f = r.expire

\* A timer that moves down wait ticks after a tick does so before it expires.
Pending(r, tick, wait) ==
  /\ tick + wait < r.expire
  /\ r.expire <= tick + MAX_TIMEOUT + MaxLag
  /\ ~r.wraps => tick \div Width = r.expire \div Width

\* Slot l of timer r, d turns of its level ahead of positions c, is one of
\* which it comes out in time; the next turn of the second level is r2 ticks
\* after the given one, that of the third r3.
OnTime(l, c, tick, r2, r3, r) ==
  \E d \in 1..WheelSize[l[1]] :
    /\ l[2] = c[l[1]] + d \/ l[2] = c[l[1]] + d - WheelSize[l[1]]
    /\ l[1] = 1 => Fits(r, tick + d)
    /\ l[1] = 2 => Pending(r, tick, r2 + (d - 1) * WheelSize[1])
    /\ l[1] = 3 => Pending(r, tick, r3 + (d - 1) * (WheelSize[1] * WheelSize[2]))

LEMMA Sizes ==
  /\ WheelSize[1] \in Nat /\ WheelSize[2] \in Nat /\ WheelSize[3] \in Nat
  /\ WheelSize[1] >= 2 /\ WheelSize[2] >= 2 /\ WheelSize[3] >= 2
  /\ MAX_TIMEOUT \in Nat /\ MAX_TIMEOUT >= 1
  /\ Width \in Nat /\ MaxLag \in Nat /\ Width > MAX_TIMEOUT + MaxLag
  /\ 4 * WheelSize[1] <= MAX_TIMEOUT + 1 /\ 4 * WheelSize[2] <= MAX_TIMEOUT + 1
  /\ 4 * WheelSize[3] <= MAX_TIMEOUT + 1
  /\ WheelSize[1] * WheelSize[2] \in Nat
<1>1. /\ WheelSize[1] \in Nat /\ WheelSize[2] \in Nat /\ WheelSize[3] \in Nat
      /\ WheelSize[1] >= 2 /\ WheelSize[2] >= 2 /\ WheelSize[3] >= 2
  BY WheelAssumption DEF Level
<1>2. ASSUME NEW a \in Nat, NEW b \in Nat, NEW c \in Nat, a >= 2, b >= 2, c >= 2
      PROVE  /\ a * b * c \in Nat /\ a * b \in Nat
             /\ 4 * a <= a * b * c /\ 4 * b <= a * b * c /\ 4 * c <= a * b * c
  <2>1. a * b \in Nat /\ 2 * a <= a * b /\ 2 * b <= a * b
    BY <1>2
  <2>2. a * b * c >= 2 * (a * b) /\ a * b * c \in Nat
    BY <1>2, <2>1
  <2>3. a * b >= 4
    BY <1>2, <2>1
  <2>4. (a * b) * c >= 4 * c
    BY <1>2, <2>1, <2>3
  <2> QED BY <1>2, <2>1, <2>2, <2>4
<1> DEFINE m == WheelSize[1] * WheelSize[2] * WheelSize[3]
<1>3. /\ m \in Nat /\ 4 * WheelSize[1] <= m /\ 4 * WheelSize[2] <= m /\ 4 * WheelSize[3] <= m
      /\ WheelSize[1] * WheelSize[2] \in Nat
  BY <1>1, <1>2
<1>4. MAX_TIMEOUT = m - 1
  BY DEF MAX_TIMEOUT
<1> HIDE DEF m
<1> QED BY <1>1, <1>3, <1>4, WheelAssumption

LEMMA DivMod ==
  ASSUME NEW a \in Int, NEW b \in Nat, b > 0
  PROVE  a % b \in 0..(b - 1) /\ a = b * (a \div b) + (a % b) /\ a \div b \in Int
OBVIOUS

LEMMA DivUnique ==
  ASSUME NEW a \in Nat, NEW b \in Nat, b > 0, NEW q \in Int, NEW r \in 0..(b - 1), a = b * q + r
  PROVE  a % b = r /\ a \div b = q
OBVIOUS

LEMMA ModSmall ==
  ASSUME NEW a \in Nat, NEW b \in Nat, a < b PROVE a % b = a
OBVIOUS

\* A time between two of the same quotient has it too.
LEMMA DivBetween ==
  ASSUME NEW a \in Nat, NEW b \in Nat, NEW c \in Nat, NEW w \in Nat, w > 0,
         a <= b, b <= c, a \div w = c \div w
  PROVE  b \div w = a \div w
<1> DEFINE q == a \div w
           r == b - w * q
<1>1. /\ q \in Int /\ w * q <= a /\ c < w * q + w
  <2>1. a % w \in 0..(w - 1) /\ a = w * q + (a % w) /\ q \in Int
    BY DivMod
  <2>2. c % w \in 0..(w - 1) /\ c = w * q + (c % w)
    BY DivMod
  <2> DEFINE p == w * q
  <2>3. p \in Int
    BY <2>1
  <2> HIDE DEF q, p
  <2> QED BY <2>1, <2>2, <2>3 DEF p
<1> DEFINE p == w * q
<1>2. p \in Int /\ r \in 0..(w - 1) /\ b = p + r
  <2> HIDE DEF q
  <2>1. p \in Int
    BY <1>1
  <2> HIDE DEF p
  <2> QED BY <1>1, <2>1 DEF p
<1> HIDE DEF q, r
<1> QED BY <1>1, <1>2, DivUnique DEF q

\* cal_remain (svr_timer.cpp) is exact, but one too small when the low 32 bits
\* of the milliseconds wrap before the timer expires.
THEOREM RemainIsExact ==
  ASSUME NEW tick \in Nat, NEW expire \in Nat, tick < expire, expire < tick + Width
  PROVE  CalRemain(tick, expire) = IF tick \div Width = expire \div Width THEN expire - tick
                                   ELSE expire - tick - 1
<1> DEFINE n == tick % Width
           e == expire % Width
           q == tick \div Width
           x == expire - tick
<1>1. Width \in Nat /\ Width > 0
  BY Sizes
<1>2. n \in 0..(Width - 1) /\ tick = Width * q + n /\ q \in Int
  BY <1>1, DivMod
<1>3. x \in 1..(Width - 1) /\ expire = Width * q + (n + x)
  BY <1>1, <1>2
<1>4. CASE n + x < Width
  <2>1. e = n + x /\ expire \div Width = q
    BY <1>1, <1>2, <1>3, <1>4, DivUnique
  <2> QED BY <1>2, <1>3, <2>1 DEF CalRemain
<1>5. CASE n + x >= Width
  <2>1. n + x - Width \in 0..(Width - 1) /\ expire = Width * (q + 1) + (n + x - Width)
    BY <1>1, <1>2, <1>3, <1>5
  <2>2. e = n + x - Width /\ expire \div Width = q + 1
    BY <1>1, <1>2, <2>1, DivUnique
  <2> QED BY <1>1, <1>2, <1>3, <2>2 DEF CalRemain
<1> QED BY <1>1, <1>2, <1>3, <1>4, <1>5

Positions == [Level -> Int]

InSlots(c) == \A w \in Level : c[w] \in Slot(w) \cup {-1}

LEMMA SlotIsSlot ==
  ASSUME NEW w \in Level, NEW s, s \in Slot(w)
  PROVE  <<w, s>> \in SlotList
BY DEF SlotList

\* Reg always finds a slot.
LEMMA SlotForType ==
  ASSUME NEW c \in Positions, NEW expire \in Nat, NEW tick \in Nat
  PROVE  SlotFor(c, expire, tick) \in SlotList
<1> DEFINE sec  == CalRemain(tick, expire)
           hour == (sec - 1) \div WheelSize[1]
           day  == (hour - 1) \div WheelSize[2]
<1>1. sec \in Int
  <2>1. tick % Width \in Int /\ expire % Width \in Int
    BY Sizes, DivMod
  <2> QED BY <2>1, Sizes DEF CalRemain
<1>2. hour \in Int
  <2> HIDE DEF sec
  <2> QED BY <1>1, Sizes, DivMod
<1>3. day \in Int
  <2> HIDE DEF hour
  <2> QED BY <1>2, Sizes, DivMod
<1>4. ASSUME NEW w \in Level, NEW x \in Int
      PROVE  <<w, (x % Width) % WheelSize[w]>> \in SlotList
  <2>1. x % Width \in Int /\ WheelSize[w] \in Nat /\ WheelSize[w] > 0
    BY Sizes, DivMod, WheelAssumption
  <2>2. (x % Width) % WheelSize[w] \in Slot(w)
    BY <2>1, DivMod DEF Slot
  <2> QED BY <2>2, SlotIsSlot
<1>5. c[1] \in Int /\ c[2] \in Int /\ c[3] \in Int /\ 1 \in Level /\ 2 \in Level /\ 3 \in Level
  BY DEF Positions, Level
<1>6. SlotFor(c, expire, tick) \in
        {<<1, ((c[1] + sec) % Width) % WheelSize[1]>>,
         <<2, ((c[2] + hour) % Width) % WheelSize[2]>>,
         <<3, ((c[3] + day) % Width) % WheelSize[3]>>}
  <2> HIDE DEF sec
  <2> QED BY DEF SlotFor, sec
<1>9. c[1] + sec \in Int /\ c[2] + hour \in Int /\ c[3] + day \in Int
  <2> HIDE DEF sec, hour, day
  <2> QED BY <1>1, <1>2, <1>3, <1>5
<1>8. /\ <<1, ((c[1] + sec) % Width) % WheelSize[1]>> \in SlotList
      /\ <<2, ((c[2] + hour) % Width) % WheelSize[2]>> \in SlotList
      /\ <<3, ((c[3] + day) % Width) % WheelSize[3]>> \in SlotList
  <2> HIDE DEF sec, hour, day
  <2> QED BY <1>4, <1>5, <1>9
<1> HIDE DEF sec, hour, day
<1> QED BY <1>6, <1>8

Ahead(c, x, W) == ((c + x) % Width) % W

\* That slot of W is d ahead of c, d being at most x.
LEMMA TurnsAhead ==
  \A W, c, x :
    /\ W \in Nat /\ c \in Int /\ x \in Nat
    /\ W >= 2 /\ c >= 0 /\ c < W /\ x >= 1 /\ c + x < Width
    => \E d \in 1..W :
         /\ d <= x /\ (x <= W => d = x)
         /\ Ahead(c, x, W) = c + d \/ Ahead(c, x, W) = c + d - W
<1> SUFFICES ASSUME NEW W \in Nat, NEW c \in Int, NEW x \in Nat,
                    W >= 2, c >= 0, c < W, x >= 1, c + x < Width
             PROVE  \E d \in 1..W :
                      /\ d <= x /\ (x <= W => d = x)
                      /\ Ahead(c, x, W) = c + d \/ Ahead(c, x, W) = c + d - W
  OBVIOUS
<1>1. (c + x) % Width = c + x
  <2>1. c + x \in Nat /\ Width \in Nat
    BY Sizes
  <2> QED BY <2>1, ModSmall
<1> DEFINE s == (c + x) % W
           q == (c + x) \div W
           p == W * q
<1>9. Ahead(c, x, W) = s
  BY <1>1 DEF Ahead
<1>2. s \in 0..(W - 1) /\ c + x = p + s /\ q \in Int
  BY DivMod
<1>3. p \in Int /\ (q <= -1 => p <= -W) /\ (q >= 1 => p >= W) /\ (q = 0 => p = 0)
      /\ (q >= 2 => p >= W + W) /\ (q = 1 => p = W)
  <2> HIDE DEF q
  <2> QED BY <1>2
<1>4. q >= 0
  <2> HIDE DEF s, q, p
  <2> QED BY <1>2, <1>3
<1>5. CASE s > c
  <2>1. s - c \in 1..W /\ s - c <= x /\ (x <= W => s - c = x)
    <3> HIDE DEF s, q, p
    <3> QED BY <1>2, <1>3, <1>4, <1>5
  <2>2. s = c + (s - c)
    BY <1>2
  <2> HIDE DEF s
  <2> QED BY <1>9, <2>1, <2>2
<1>6. CASE s <= c
  <2>1. s - c + W \in 1..W /\ s - c + W <= x /\ (x <= W => s - c + W = x)
    <3> HIDE DEF s, q, p
    <3> QED BY <1>2, <1>3, <1>4, <1>6
  <2>2. s = c + (s - c + W) - W
    BY <1>2
  <2> HIDE DEF s
  <2> QED BY <1>9, <2>1, <2>2
<1> QED BY <1>2, <1>5, <1>6

LEMMA Product ==
  ASSUME NEW a \in Nat, NEW b \in Int, a >= 2
  PROVE  a * b \in Int /\ (b <= 0 => a * b <= 0) /\ (b >= 0 => 2 * b <= a * b)
OBVIOUS

\* Reg (svr_timer.cpp) hangs a timer that has not expired in a slot out of
\* which it comes in time.
LEMMA RegOnTime ==
  ASSUME NEW c \in Positions, InSlots(c), c[2] >= 0, c[3] >= 0,
         NEW tick \in Nat, NEW r \in Timer,
         tick < r.expire, r.expire <= tick + MAX_TIMEOUT + MaxLag,
         ~r.wraps => tick \div Width = r.expire \div Width,
         NEW r2 \in Nat, r2 <= WheelSize[1],
         NEW r3 \in Nat, r3 <= WheelSize[1] * WheelSize[2]
  PROVE  OnTime(SlotFor(c, r.expire, tick), c, tick, r2, r3, r)
<1> DEFINE expire == r.expire
           W1   == WheelSize[1]
           W2   == WheelSize[2]
           W3   == WheelSize[3]
           sec  == CalRemain(tick, expire)
           hour == (sec - 1) \div W1
           day  == (hour - 1) \div W2
<1>1. expire \in Nat /\ r.wraps \in BOOLEAN
  BY DEF Timer
<1>2. /\ c[1] \in -1..(W1 - 1) /\ c[2] \in 0..(W2 - 1) /\ c[3] \in 0..(W3 - 1)
  BY Sizes DEF InSlots, Positions, Level, Slot
<1>3. /\ sec \in Nat /\ sec <= expire - tick /\ sec >= expire - tick - 1
      /\ (sec = expire - tick \/ r.wraps)
  <2>1. expire < tick + Width
    BY <1>1, Sizes
  <2> QED BY <1>1, <2>1, RemainIsExact
<1>4. CASE sec <= W1
  <2>1. SlotFor(c, expire, tick) = <<1, Ahead(c[1], sec, W1)>>
    BY <1>3, <1>4, Sizes DEF SlotFor, Ahead
  <2>2. \E d \in 1..W1 : /\ Fits(r, tick + d)
                         /\ LET s == Ahead(c[1], sec, W1)
                            IN s = c[1] + d \/ s = c[1] + d - W1
    <3>1. CASE sec > 0 /\ c[1] >= 0
      <4>1. c[1] + sec < Width
        <5> HIDE DEF sec
        <5> QED BY <1>2, <1>3, <1>4, Sizes
      <4>2. LET s == Ahead(c[1], sec, W1)
            IN s = c[1] + sec \/ s = c[1] + sec - W1
        <5> HIDE DEF sec
        <5>1. /\ W1 \in Nat /\ W1 >= 2 /\ c[1] \in Int /\ c[1] >= 0 /\ c[1] < W1
              /\ sec \in Nat /\ sec >= 1 /\ c[1] + sec < Width /\ sec <= W1
          BY <1>2, <1>3, <1>4, <3>1, <4>1, Sizes
        <5> QED BY <5>1, TurnsAhead
      <4>3. Fits(r, tick + sec)
        BY <1>1, <1>3, <3>1, Sizes DEF Fits
      <4> QED BY <1>3, <1>4, <3>1, <4>2, <4>3
    <3>2. CASE sec = 0 /\ c[1] >= 0
      <4>1. c[1] + sec = c[1] /\ c[1] % Width = c[1] /\ c[1] % W1 = c[1]
        <5>1. c[1] \in Nat /\ c[1] < Width /\ c[1] < W1 /\ W1 \in Nat /\ Width \in Nat
          BY <1>2, <3>2, Sizes
        <5> QED BY <3>2, <5>1, ModSmall
      <4>2. Fits(r, tick + W1)
        BY <1>1, <1>3, <3>2, Sizes DEF Fits
      <4> QED BY <1>2, <4>1, <4>2, Sizes DEF Ahead
    <3>3. CASE sec > 0 /\ c[1] = -1
      <4>1. (c[1] + sec) \in Nat /\ c[1] + sec < Width /\ c[1] + sec < W1 /\ W1 \in Nat /\ Width \in Nat
        BY <1>2, <1>3, <1>4, <3>3, Sizes
      <4>2. Ahead(c[1], sec, W1) = c[1] + sec
        BY <4>1, ModSmall DEF Ahead
      <4>3. Fits(r, tick + sec)
        BY <1>1, <1>3, <3>3, Sizes DEF Fits
      <4> QED BY <1>3, <1>4, <3>3, <4>2, <4>3
    <3>4. CASE sec = 0 /\ c[1] = -1
      <4> DEFINE s == Ahead(c[1], sec, W1)
      <4>1. s \in 0..(W1 - 1)
        <5>1. (c[1] + sec) % Width \in Int
          BY <1>3, <3>4, DivMod, Sizes
        <5> QED BY <5>1, DivMod, Sizes DEF Ahead
      <4>2. s + 1 \in 1..W1 /\ s = c[1] + (s + 1)
        BY <4>1, <3>4, Sizes
      <4>3. Fits(r, tick + (s + 1))
        <5> HIDE DEF s
        <5> QED BY <1>1, <1>3, <3>4, <4>1, Sizes DEF Fits
      <4> HIDE DEF s
      <4> QED BY <4>2, <4>3 DEF s
    <3> QED BY <1>2, <1>3, <3>1, <3>2, <3>3, <3>4
  <2> QED BY <2>1, <2>2 DEF OnTime
<1>5. ASSUME sec > W1 PROVE /\ hour \in Nat /\ hour >= 1 /\ W1 * hour <= sec - 1 /\ 2 * hour < sec
  <2> HIDE DEF sec
  <2>1. /\ hour \in Int /\ (sec - 1) % W1 \in 0..(W1 - 1)
        /\ sec - 1 = W1 * hour + ((sec - 1) % W1)
    <3>1. sec - 1 \in Int /\ W1 \in Nat /\ W1 > 0
      BY <1>3, Sizes
    <3> QED BY <3>1, DivMod
  <2> DEFINE p == W1 * hour
  <2> HIDE DEF hour
  <2>2. p \in Int /\ (hour <= 0 => p <= 0) /\ (hour >= 0 => 2 * hour <= p)
    BY <2>1, Sizes, Product
  <2> HIDE DEF p
  <2> QED BY <1>3, <1>5, <2>1, <2>2, Sizes DEF p
<1>6. ASSUME NEW d \in Nat, d <= hour, d >= 1, sec > W1
      PROVE  Pending(r, tick, r2 + (d - 1) * W1)
  <2> HIDE DEF sec, hour
  <2> DEFINE p == W1 * d
  <2>1. p \in Int /\ p <= W1 * hour /\ (d - 1) * W1 = p - W1
    BY <1>5, <1>6, Sizes
  <2> HIDE DEF p
  <2>2. tick + (r2 + (d - 1) * W1) < expire
    BY <1>1, <1>3, <1>5, <1>6, <2>1, Sizes
  <2> QED BY <2>2 DEF Pending
<1>7. CASE sec > W1 /\ hour <= W2
  <2>1. SlotFor(c, expire, tick) = <<2, Ahead(c[2], hour, W2)>>
    BY <1>3, <1>5, <1>7, Sizes DEF SlotFor, Ahead
  <2>2. \E d \in 1..W2 : /\ d <= hour
                         /\ LET s == Ahead(c[2], hour, W2)
                            IN s = c[2] + d \/ s = c[2] + d - W2
    <3>1. c[2] + hour < Width
      BY <1>2, <1>5, <1>7, Sizes
    <3> HIDE DEF hour, sec
    <3>2. /\ W2 \in Nat /\ W2 >= 2 /\ c[2] \in Int /\ c[2] >= 0 /\ c[2] < W2
          /\ hour \in Nat /\ hour >= 1 /\ c[2] + hour < Width
      BY <1>2, <1>5, <1>7, <3>1, Sizes
    <3> QED BY <3>2, TurnsAhead
  <2>3. PICK d \in 1..W2 : /\ Pending(r, tick, r2 + (d - 1) * W1)
                           /\ LET s == Ahead(c[2], hour, W2)
                              IN s = c[2] + d \/ s = c[2] + d - W2
    <3> HIDE DEF hour, sec
    <3> QED BY <1>6, <1>7, <2>2
  <2> HIDE DEF hour, sec
  <2> QED BY <2>1, <2>3 DEF OnTime
<1>8. CASE sec > W1 /\ hour > W2
  <2>1. SlotFor(c, expire, tick) = <<3, Ahead(c[3], day, W3)>>
    BY <1>3, <1>5, <1>8, Sizes DEF SlotFor, Ahead
  <2>2. day \in Nat /\ day >= 1 /\ W2 * day <= hour - 1 /\ 2 * day < hour
    <3> HIDE DEF hour, sec
    <3>1. /\ day \in Int /\ (hour - 1) % W2 \in 0..(W2 - 1)
          /\ hour - 1 = W2 * day + ((hour - 1) % W2)
      <4>1. hour - 1 \in Int /\ W2 \in Nat /\ W2 > 0
        BY <1>5, <1>8, Sizes
      <4> QED BY <4>1, DivMod
    <3> DEFINE p == W2 * day
    <3> HIDE DEF day
    <3>2. p \in Int /\ (day <= 0 => p <= 0) /\ (day >= 0 => 2 * day <= p)
      BY <3>1, Sizes, Product
    <3> HIDE DEF p
    <3> QED BY <1>5, <1>8, <3>1, <3>2, Sizes DEF p
  <2>3. PICK d \in 1..W3 : /\ d <= day
                           /\ LET s == Ahead(c[3], day, W3)
                              IN s = c[3] + d \/ s = c[3] + d - W3
    <3>1. c[3] + day < Width
      <4> HIDE DEF day, hour, sec
      <4> QED BY <1>1, <1>2, <1>3, <1>5, <1>8, <2>2, Sizes
    <3> HIDE DEF day, hour, sec
    <3>2. /\ W3 \in Nat /\ W3 >= 2 /\ c[3] \in Int /\ c[3] >= 0 /\ c[3] < W3
          /\ day \in Nat /\ day >= 1 /\ c[3] + day < Width
      BY <1>2, <2>2, <3>1, Sizes
    <3> QED BY <3>2, TurnsAhead
  <2>4. Pending(r, tick, r3 + (d - 1) * (W1 * W2))
    <3> DEFINE t == W1 * W2
               p == t * d
    <3>1. t \in Nat
      BY Sizes
    <3>2. p \in Int /\ (d - 1) * t = p - t
      <4> HIDE DEF t
      <4> QED BY <3>1
    <3>3. p <= sec - 1
      <4> HIDE DEF day, hour, sec
      <4>1. W2 * d <= W2 * day
        BY <2>2, <2>3, Sizes
      <4> DEFINE u == W2 * d
      <4>2. u \in Nat /\ u <= hour
        BY <1>5, <1>8, <2>2, <4>1, Sizes
      <4>3. p = W1 * u
        BY Sizes
      <4> HIDE DEF u, p
      <4>4. W1 * u <= W1 * hour
        BY <1>5, <1>8, <4>2, Sizes
      <4> QED BY <1>3, <1>5, <1>8, <4>2, <4>3, <4>4, Sizes
    <3>4. tick + (r3 + (d - 1) * t) < expire
      <4> HIDE DEF p, t, day, hour, sec
      <4>1. r3 <= t
        BY DEF t
      <4> QED BY <1>1, <1>3, <3>1, <3>2, <3>3, <4>1
    <3> QED BY <3>4 DEF Pending
  <2> HIDE DEF day, hour, sec
  <2> QED BY <2>1, <2>3, <2>4 DEF OnTime
<1> QED
  <2> HIDE DEF day, hour, sec
  <2> QED BY <1>3, <1>4, <1>5, <1>7, <1>8, Sizes

-----------------------------------------------------------------------------
(* The lists, with at numbering the cells of each (LinkList_proofs).       *)

Lists(L, at) == P!Typed(L) /\ P!InOrder(L, at)

LEMMA ThingsAreDistinct == P!Distinct
BY WheelAssumption, ThingsDiffer DEF P!Distinct, P!Cell

LEMMA SameOperations ==
  /\ \A L, l, n : Push(L, l, n) = P!Push(L, l, n) /\ Pop(L, l) = P!Pop(L, l)
  /\ \A L, n : Remove(L, n) = P!Remove(L, n) /\ (Linked(L, n) <=> L.owner[n] # None)
  /\ \A L, l : /\ IsEmpty(L, l) <=> P!IsEmpty(L, l)
               /\ GetFirst(L, l) = P!GetFirst(L, l) /\ Size(L, l) = L.count[l]
  /\ \A L, n : P!Linked(L, n) <=> L.owner[n] # None
  /\ NoLinks = P!NoLinks
  /\ \A L : Sound(L) <=> P!Sound(L)
<1>1. \A L, n : P!Linked(L, n) <=> Linked(L, n)
  BY DEF Linked, P!Linked
<1>2. \A L, n : Remove(L, n) = P!Remove(L, n)
  BY <1>1 DEF Remove, P!Remove
<1>3. \A L, l : (IsEmpty(L, l) <=> P!IsEmpty(L, l)) /\ GetFirst(L, l) = P!GetFirst(L, l)
  BY DEF IsEmpty, P!IsEmpty, GetFirst, P!GetFirst
<1>4. \A L, l : Pop(L, l) = P!Pop(L, l)
  BY <1>2, <1>3 DEF Pop, P!Pop
<1>5. \A L, l, n : Push(L, l, n) = P!Push(L, l, n)
  BY <1>1 DEF Push, P!Push
<1>6. Cell = P!Cell
  BY DEF Cell, P!Cell
<1>7. NoLinks = P!NoLinks
  BY <1>6 DEF NoLinks, P!NoLinks
<1>8. \A L, x : /\ InList(L, x) <=> P!InList(L, x)
                /\ ListOf(L, x) = P!ListOf(L, x)
  BY <1>1 DEF InList, P!InList, ListOf, P!ListOf
<1>9. \A L : Sound(L) <=> P!Sound(L)
  BY <1>6, <1>8 DEF Sound, P!Sound
<1> QED BY <1>1, <1>2, <1>3, <1>4, <1>5, <1>7, <1>9 DEF Linked, Size

LEMMA ListTypes ==
  ASSUME NEW L, NEW at, Lists(L, at)
  PROVE  /\ at \in [SlotList -> [Nat -> Cell]]
         /\ L.next \in [Cell -> Cell \cup {None}] /\ L.prev \in [Cell -> Cell \cup {None}]
         /\ L.owner \in [TimerId -> SlotList \cup {None}]
         /\ L.count \in [SlotList -> Nat]
         /\ \A l \in SlotList : \A i \in 1..L.count[l] : at[l][i] \in TimerId /\ L.owner[at[l][i]] = l
         /\ \A l \in SlotList : \A i, j \in 1..L.count[l] : at[l][i] = at[l][j] => i = j
<1>1. Cell = P!Cell
  BY DEF Cell, P!Cell
<1>2. \A l \in SlotList : P!Chain(L, at[l], l)
  BY DEF Lists, P!InOrder
<1>3. \A l \in SlotList : L.count[l] \in Nat
  BY <1>2 DEF P!Chain
<1>4. L.count \in [SlotList -> Nat]
  BY <1>3 DEF Lists, P!Typed
<1>5. ASSUME NEW l \in SlotList
      PROVE  /\ \A i \in 1..L.count[l] : at[l][i] \in TimerId /\ L.owner[at[l][i]] = l
             /\ \A i, j \in 1..L.count[l] : at[l][i] = at[l][j] => i = j
  BY <1>2 DEF P!Chain
<1> QED BY <1>1, <1>4, <1>5 DEF Lists, P!Typed, P!InOrder

LEMMA PushFacts ==
  ASSUME NEW L, NEW at, Lists(L, at), NEW l \in SlotList, NEW t \in TimerId, ~Linked(L, t)
  PROVE  LET M == Push(L, l, t)
             b == P!With(at, l, L.count[l], t)
         IN  /\ Lists(M, b)
             /\ \A u \in TimerId : M.owner[u] = IF u = t THEN l ELSE L.owner[u]
             /\ \A k \in SlotList : M.count[k] = IF k = l THEN L.count[k] + 1 ELSE L.count[k]
             /\ \A k \in SlotList : \A i \in 1..L.count[k] : b[k][i] = at[k][i]
<1>1. Lists(Push(L, l, t), P!With(at, l, L.count[l], t))
  BY ThingsAreDistinct, SameOperations, P!PushOrder DEF Lists
<1>2. /\ \A u \in TimerId : Push(L, l, t).owner[u] = IF u = t THEN l ELSE L.owner[u]
      /\ \A k \in SlotList : Push(L, l, t).count[k] = IF k = l THEN L.count[k] + 1 ELSE L.count[k]
  BY ListTypes DEF Push
<1>3. ASSUME NEW k \in SlotList, NEW i \in 1..L.count[k]
      PROVE  P!With(at, l, L.count[l], t)[k][i] = at[k][i]
  <2>1. at \in [SlotList -> [Nat -> Cell]] /\ L.count[l] \in Nat /\ L.count[k] \in Nat
    BY ListTypes
  <2> QED BY <2>1 DEF P!With
<1> QED BY <1>1, <1>2, <1>3

LEMMA RemoveFacts ==
  ASSUME NEW L, NEW at, Lists(L, at), NEW l \in SlotList, NEW t, NEW j, j \in 1..L.count[l],
         t = at[l][j]
  PROVE  LET M == Remove(L, t)
             b == P!Without(at, l, j)
         IN  /\ t \in TimerId /\ Linked(L, t) /\ L.owner[t] = l
             /\ Lists(M, b)
             /\ \A u \in TimerId : M.owner[u] = IF u = t THEN None ELSE L.owner[u]
             /\ \A k \in SlotList : M.count[k] = IF k = l THEN L.count[k] - 1 ELSE L.count[k]
             /\ \A k \in SlotList \ {l} : b[k] = at[k]
             /\ \A i \in Nat : b[l][i] = IF i < j THEN at[l][i] ELSE at[l][i + 1]
<1>1. /\ t \in TimerId /\ L.owner[t] = l /\ None \notin SlotList
      /\ at \in [SlotList -> [Nat -> Cell]]
  BY ListTypes, ThingsDiffer
<1>2. Linked(L, t)
  BY <1>1, SameOperations
<1>3. Lists(Remove(L, t), P!Without(at, l, j))
  BY ThingsAreDistinct, SameOperations, P!RemoveOrder DEF Lists
<1>4. /\ \A u \in TimerId : Remove(L, t).owner[u] = IF u = t THEN None ELSE L.owner[u]
      /\ \A k \in SlotList : Remove(L, t).count[k] = IF k = l THEN L.count[k] - 1 ELSE L.count[k]
  BY <1>1, <1>2, ListTypes DEF Remove
<1>5. /\ \A k \in SlotList \ {l} : P!Without(at, l, j)[k] = at[k]
      /\ \A i \in Nat : P!Without(at, l, j)[l][i] = IF i < j THEN at[l][i] ELSE at[l][i + 1]
  BY <1>1 DEF P!Without
<1> QED BY <1>1, <1>2, <1>3, <1>4, <1>5

LEMMA PopFacts ==
  ASSUME NEW L, NEW at, Lists(L, at), NEW l \in SlotList
  PROVE  /\ IsEmpty(L, l) <=> L.count[l] = 0
         /\ IsEmpty(L, l) => Pop(L, l) = L
         /\ ~IsEmpty(L, l) => /\ 1 \in 1..L.count[l] /\ GetFirst(L, l) = at[l][1]
                              /\ Pop(L, l) = Remove(L, at[l][1])
<1>1. L.count[l] \in Nat
  BY ListTypes
<1>2. /\ P!IsEmpty(L, l) <=> L.count[l] = 0
      /\ P!GetFirst(L, l) = at[l][1]
      /\ L.count[l] > 0 => P!Pop(L, l) = P!Remove(L, at[l][1])
      /\ L.count[l] = 0 => P!Pop(L, l) = L
  BY ThingsAreDistinct, P!Ends DEF Lists
<1> QED BY <1>1, <1>2, SameOperations

\* A linked timer has a number in its list.
LEMMA LinkedPlace ==
  ASSUME NEW L, NEW at, Lists(L, at), NEW t \in TimerId, Linked(L, t)
  PROVE  L.owner[t] \in SlotList /\ \E j \in 1..L.count[L.owner[t]] : at[L.owner[t]][j] = t
<1>1. L.owner[t] # None /\ P!Linked(L, t) /\ L.owner[t] \in SlotList
  BY SameOperations, ListTypes
<1> QED BY <1>1 DEF Lists, P!InOrder

-----------------------------------------------------------------------------
(* A slot of an upper level moves down.                                    *)

\* Every timer that hangs in a list is there rightly, as OK has it, but the
\* first m of slot, which will be once they are registered again.
Moving(L, at, c, slot, m, OK) ==
  /\ m <= L.count[slot]
  /\ \A i \in 1..m : <<at[slot][i], SlotFor(c, timers[at[slot][i]].expire, lasttick)>> \in OK
  /\ \A t \in TimerId : L.owner[t] # None => \/ <<t, L.owner[t]>> \in OK
                                             \/ \E i \in 1..m : at[slot][i] = t

SameLinked(L, M) == \A t \in TimerId : L.owner[t] # None <=> M.owner[t] # None

\* Nothing changes but that the first one is registered again.
LEMMA MoveFirstKeeps ==
  ASSUME NEW c \in Positions, NEW slot \in SlotList, NEW OK, NEW L, NEW at, Lists(L, at),
         OK \subseteq TimerId \X SlotList,
         NEW m \in Nat, Moving(L, at, c, slot, m + 1, OK)
  PROVE  LET M == MoveFirst(L, c, slot)
         IN  SameLinked(L, M) /\ \E b : Lists(M, b) /\ Moving(M, b, c, slot, m, OK)
<1> DEFINE n == m + 1
           t == at[slot][1]
           s == SlotFor(c, timers[t].expire, lasttick)
           R == Remove(L, t)
           a == P!Without(at, slot, 1)
           M == Push(R, s, t)
           b == P!With(a, s, R.count[s], t)
<1>1. /\ L.count[slot] \in Nat /\ 1 \in 1..L.count[slot] /\ 1 \in 1..n /\ n <= L.count[slot]
      /\ L.count \in [SlotList -> Nat] /\ L.owner \in [TimerId -> SlotList \cup {None}]
  BY ListTypes DEF Moving
<1>2. <<t, s>> \in OK /\ t \in TimerId /\ s \in SlotList
  BY <1>1 DEF Moving
<1>3. MoveFirst(L, c, slot) = M
  <2>1. ~IsEmpty(L, slot) /\ GetFirst(L, slot) = t /\ Pop(L, slot) = R
    BY <1>1, PopFacts
  <2> QED BY <2>1 DEF MoveFirst, Reg
<1>4. /\ L.owner[t] = slot
      /\ Lists(R, a)
      /\ \A u \in TimerId : R.owner[u] = IF u = t THEN None ELSE L.owner[u]
      /\ \A k \in SlotList : R.count[k] = IF k = slot THEN L.count[k] - 1 ELSE L.count[k]
      /\ \A i \in Nat : a[slot][i] = IF i < 1 THEN at[slot][i] ELSE at[slot][i + 1]
  BY <1>1, RemoveFacts
<1>5. /\ Lists(M, b)
      /\ \A u \in TimerId : M.owner[u] = IF u = t THEN s ELSE R.owner[u]
      /\ \A k \in SlotList : M.count[k] = IF k = s THEN R.count[k] + 1 ELSE R.count[k]
      /\ \A k \in SlotList : \A i \in 1..R.count[k] : b[k][i] = a[k][i]
  <2>1. ~Linked(R, t)
    BY <1>1, <1>2, <1>4, SameOperations
  <2> HIDE DEF R, a, s, t
  <2> QED BY <1>2, <1>4, <2>1, PushFacts
<1> HIDE DEF R, M, a, b, s
<1>6. R.count \in [SlotList -> Nat] /\ R.count[slot] = L.count[slot] - 1
  BY <1>1, <1>4, ListTypes
<1>7. M.count[slot] \in Nat /\ M.count[slot] >= L.count[slot] - 1
  BY <1>1, <1>2, <1>5, <1>6
<1>8. \A i \in 1..m : i + 1 \in 1..n /\ i \in Nat /\ b[slot][i] = at[slot][i + 1]
  <2>1. \A i \in 1..m : i \in 1..R.count[slot] /\ i + 1 \in 1..n /\ i \in Nat /\ ~(i < 1)
    BY <1>1, <1>6
  <2> QED BY <2>1, <1>4, <1>5
<1>9. Moving(M, b, c, slot, m, OK)
  <2>1. \A i \in 1..m : <<b[slot][i], SlotFor(c, timers[b[slot][i]].expire, lasttick)>> \in OK
    BY <1>8 DEF Moving
  <2>2. ASSUME NEW u \in TimerId, M.owner[u] # None
        PROVE  <<u, M.owner[u]>> \in OK \/ \E i \in 1..m : b[slot][i] = u
    <3>1. CASE u = t
      BY <3>1, <1>1, <1>2, <1>4, <1>5
    <3>2. CASE u # t
      <4>1. M.owner[u] = L.owner[u]
        BY <3>2, <1>1, <1>2, <1>4, <1>5
      <4>2. CASE <<u, L.owner[u]>> \in OK
        BY <4>1, <4>2
      <4>3. CASE \E i \in 1..n : at[slot][i] = u
        <5>1. PICK i \in 1..n : at[slot][i] = u
          BY <4>3
        <5>2. i # 1
          BY <5>1, <3>2
        <5>3. i - 1 \in 1..m /\ (i - 1) + 1 = i
          BY <5>2
        <5> QED BY <5>1, <5>3, <1>8
      <4> QED BY <2>2, <4>1, <4>2, <4>3 DEF Moving
    <3> QED BY <3>1, <3>2
  <2> QED BY <1>1, <1>7, <2>1, <2>2 DEF Moving
<1>10. SameLinked(L, M)
  BY <1>1, <1>2, <1>4, <1>5, ThingsDiffer DEF SameLinked
<1> QED BY <1>3, <1>5, <1>9, <1>10

\* The loop over the slot registers all its timers again and then has left no
\* timer where it should not be.
THEOREM MoveDownKeeps ==
  ASSUME NEW c \in Positions, NEW w \in Level, <<w, c[w]>> \in SlotList, NEW OK,
         OK \subseteq TimerId \X SlotList,
         NEW L, NEW at, Lists(L, at),
         \A t \in TimerId : L.owner[t] # None =>
           IF L.owner[t] = <<w, c[w]>> THEN <<t, SlotFor(c, timers[t].expire, lasttick)>> \in OK
           ELSE <<t, L.owner[t]>> \in OK
  PROVE  LET M == MoveDown(L, c, w)
         IN  /\ SameLinked(L, M) /\ \E b : Lists(M, b)
             /\ \A t \in TimerId : M.owner[t] # None => <<t, M.owner[t]>> \in OK
<1> DEFINE slot == <<w, c[w]>>
           n == L.count[slot]
           Loop(g, k) == g = [i \in 0..k |-> IF i = 0 THEN L ELSE MoveFirst(g[i - 1], c, slot)]
           Loops(k) == \E g : Loop(g, k)
           S == {k \in Nat : Loops(k)}
           f == CHOOSE g : Loop(g, n)
<1>1. n \in Nat /\ slot \in SlotList
  BY ListTypes
<1>2. MoveDown(L, c, w) = f[n]
  BY SameOperations DEF MoveDown, Size
<1>3. Loop(f, n)
  <2>1. 0 \in S
    <3> DEFINE g == [i \in 0..0 |-> L]
    <3>1. g = [i \in 0..0 |-> IF i = 0 THEN L ELSE MoveFirst(g[i - 1], c, slot)]
      OBVIOUS
    <3> HIDE DEF g
    <3> QED BY <3>1
  <2>2. ASSUME NEW k \in Nat, k \in S PROVE k + 1 \in S
    <3>1. PICK g : Loop(g, k)
      BY <2>2
    <3> DEFINE h == [i \in 0..(k + 1) |-> IF i \in 0..k THEN g[i] ELSE MoveFirst(g[k], c, slot)]
    <3>2. ASSUME NEW i \in 0..(k + 1)
          PROVE  h[i] = IF i = 0 THEN L ELSE MoveFirst(h[i - 1], c, slot)
      <4>1. \A j \in 0..k : g[j] = IF j = 0 THEN L ELSE MoveFirst(g[j - 1], c, slot)
        BY <3>1, Zenon
      <4>2. CASE i \in 0..k
        <5>1. h[i] = g[i]
          BY <4>2
        <5>2. i # 0 => i - 1 \in 0..k /\ i - 1 \in 0..(k + 1)
          BY <4>2
        <5>3. i # 0 => h[i - 1] = g[i - 1]
          BY <5>2
        <5> QED BY <4>1, <4>2, <5>1, <5>3
      <4>3. CASE i \notin 0..k
        <5>1. i = k + 1 /\ i - 1 = k /\ i # 0 /\ k \in 0..k /\ k \in 0..(k + 1)
          BY <4>3
        <5>2. h[i] = MoveFirst(g[k], c, slot) /\ h[k] = g[k]
          BY <4>3, <5>1
        <5> QED BY <5>1, <5>2
      <4> QED BY <4>2, <4>3
    <3>3. Loop(h, k + 1)
      BY <3>2
    <3>4. Loops(k + 1)
      <4> HIDE DEF h, Loop
      <4> QED BY <3>3
    <3> HIDE DEF Loops
    <3> QED BY <3>4
  <2>3. n \in S
    <3> HIDE DEF S
    <3> QED BY <1>1, <2>1, <2>2, P!SetInduction
  <2>4. \E g : Loop(g, n)
    <3> HIDE DEF Loop
    <3> QED BY <2>3
  <2> HIDE DEF Loop
  <2> QED BY <2>4
<1>4. f[0] = L /\ \A k \in 0..(n - 1) : f[k + 1] = MoveFirst(f[k], c, slot)
  <2> HIDE DEF f, n, slot
  <2>1. \A i \in 0..n : f[i] = IF i = 0 THEN L ELSE MoveFirst(f[i - 1], c, slot)
    BY <1>3, Zenon
  <2>2. \A k \in 0..(n - 1) : k + 1 \in 0..n /\ k + 1 # 0 /\ (k + 1) - 1 = k
    BY <1>1
  <2>3. 0 \in 0..n
    BY <1>1
  <2> QED BY <2>1, <2>2, <2>3
<1> HIDE DEF f
<1> DEFINE Done(k) == /\ SameLinked(L, f[k])
                      /\ \E b : Lists(f[k], b) /\ Moving(f[k], b, c, slot, n - k, OK)
           T == {k \in Nat : k <= n => Done(k)}
<1>5. 0 \in T
  <2>1. SameLinked(L, L)
    BY DEF SameLinked
  <2>2. Moving(L, at, c, slot, n - 0, OK)
    <3>1. n - 0 = n /\ n <= L.count[slot]
      BY <1>1
    <3>2. \A i \in 1..n : /\ at[slot][i] \in TimerId /\ L.owner[at[slot][i]] = slot
      BY <1>1, ListTypes
    <3>3. None \notin SlotList
      BY ThingsDiffer
    <3>4. \A i \in 1..n : <<at[slot][i], SlotFor(c, timers[at[slot][i]].expire, lasttick)>> \in OK
      BY <3>2, <3>3, <1>1
    <3>5. ASSUME NEW t \in TimerId, L.owner[t] = slot
          PROVE  \E i \in 1..n : at[slot][i] = t
      <4>1. Linked(L, t)
        BY <3>3, <3>5, <1>1, SameOperations
      <4> QED BY <3>5, <4>1, LinkedPlace
    <3> HIDE DEF slot, n
    <3> QED BY <3>1, <3>4, <3>5 DEF Moving, slot
  <2>3. Done(0)
    BY <1>4, <2>1, <2>2
  <2> HIDE DEF Done
  <2> QED BY <2>3
<1>6. ASSUME NEW k \in Nat, k \in T PROVE k + 1 \in T
  <2> SUFFICES ASSUME k + 1 <= n PROVE Done(k + 1)
    OBVIOUS
  <2>1. /\ k \in 0..(n - 1) /\ k <= n /\ n - k = (n - (k + 1)) + 1 /\ n - (k + 1) \in Nat
    BY <1>1
  <2>2. PICK b : Lists(f[k], b) /\ Moving(f[k], b, c, slot, (n - (k + 1)) + 1, OK)
    BY <1>6, <2>1
  <2>3. f[k + 1] = MoveFirst(f[k], c, slot)
    BY <1>4, <2>1
  <2> DEFINE m == n - (k + 1)
  <2>4. m \in Nat /\ Moving(f[k], b, c, slot, m + 1, OK)
    BY <2>1, <2>2
  <2> HIDE DEF m, slot
  <2>5. SameLinked(f[k], f[k + 1]) /\ \E e : Lists(f[k + 1], e) /\ Moving(f[k + 1], e, c, slot, m, OK)
    BY <1>1, <2>2, <2>3, <2>4, MoveFirstKeeps
  <2>6. SameLinked(L, f[k + 1])
    BY <1>6, <2>1, <2>5 DEF SameLinked
  <2> QED BY <2>5, <2>6 DEF m
<1>7. Done(n)
  <2>1. n \in T
    <3> HIDE DEF T
    <3> QED BY <1>1, <1>5, <1>6, P!SetInduction
  <2> QED BY <1>1, <2>1
<1> QED
  <2>1. n - n = 0
    BY <1>1
  <2> HIDE DEF n
  <2>2. PICK b : Lists(f[n], b) /\ Moving(f[n], b, c, slot, 0, OK)
    BY <1>7, <2>1
  <2> QED BY <1>2, <1>7, <2>2 DEF Moving

-----------------------------------------------------------------------------
(* The invariant.                                                          *)

InSlot(p) == p.at \in {"slot", "callback"}

\* The timers that remain of the slot being fired, the running one not counted.
Due(p) == IF p.at = "slot" THEN p.left ELSE IF p.at = "callback" THEN p.left - 1 ELSE 0

\* Ticks until the next turns of the second level and of the third.
UntilTurn(c, p) ==
  IF InSlot(p) \/ c[1] # WheelSize[1] - 1 THEN WheelSize[1] - 1 - c[1] ELSE WheelSize[1]
UntilDay(c, p) ==
  UntilTurn(c, p) +
    (IF c[2] = WheelSize[2] - 1 THEN WheelSize[2] - 1 ELSE WheelSize[2] - 2 - c[2]) * WheelSize[1]

OnTimeIn(l, c, tick, p, r) == OnTime(l, c, tick, UntilTurn(c, p), UntilDay(c, p), r)

\* The timers that Fire has still to call back are the first of their slot and
\* may fire now; all others will come out of their slots in time.
Timing(L, at, c, tick, T, p) ==
  /\ InSlot(p) => Due(p) <= L.count[<<1, c[1]>>]
  /\ p.at = "callback" => Fits(T[p.running], tick)
  /\ \A i \in 1..Due(p) : Fits(T[at[<<1, c[1]>>][i]], tick)
  /\ \A t \in TimerId : L.owner[t] # None =>
       \/ \E i \in 1..Due(p) : at[<<1, c[1]>>][i] = t
       \/ OnTimeIn(L.owner[t], c, tick, p, T[t])

Clock ==
  /\ registered => lasttick <= now /\ now <= lasttick + MaxLag
  /\ proc.at # "idle" => lasttick <= proc.target /\ proc.target <= now

Books ==
  /\ proc.at = "callback" => proc.running \in Live /\ proc.left >= 1
  /\ proc.at # "callback" => proc.running = None
  /\ ~InSlot(proc) => proc.left = 0
  /\ InSlot(proc) => cur[1] >= 0
  /\ cur[2] >= 0 /\ cur[3] >= 0
  /\ proc.at # "idle" => registered
  /\ ~registered => Live = {}
  /\ \A t \in TimerId : tlist.owner[t] # None <=> t \in Live \ {proc.running}
  /\ \A t \in Live : timers[t].destroyed =>
       proc.running = t /\ ~timers[t].forever /\ timers[t].repeats = 0

CalmTiming(at) == AppDoes = {} => Clock /\ Timing(tlist, at, cur, lasttick, timers, proc)

WheelInv == TypeOK /\ Books /\ \E at : Lists(tlist, at) /\ CalmTiming(at)

LEMMA TimerFields ==
  \A r \in Timer : /\ r.interval \in 1..MAX_TIMEOUT /\ r.expire \in Nat /\ r.repeats \in Nat
                   /\ r.forever \in BOOLEAN /\ r.wraps \in BOOLEAN /\ r.destroyed \in BOOLEAN
BY DEF Timer

LEMMA ProcFields ==
  \A p \in Proc : /\ p.at \in {"idle", "loop", "slot", "callback"}
                  /\ p.target \in Nat /\ p.left \in Nat /\ p.running \in TimerId \cup {None}
BY DEF Proc

LEMMA PositionTypes ==
  ASSUME TypeOK
  PROVE  /\ cur \in Positions /\ InSlots(cur)
         /\ cur[1] \in -1..(WheelSize[1] - 1) /\ cur[2] \in -1..(WheelSize[2] - 1)
         /\ cur[3] \in -1..(WheelSize[3] - 1)
         /\ cur[1] >= 0 => <<1, cur[1]>> \in SlotList
<1>1. cur \in Positions /\ InSlots(cur)
  BY DEF TypeOK, Positions, InSlots
<1>2. /\ cur[1] \in -1..(WheelSize[1] - 1) /\ cur[2] \in -1..(WheelSize[2] - 1)
      /\ cur[3] \in -1..(WheelSize[3] - 1)
  BY <1>1, Sizes DEF Positions, InSlots, Level, Slot
<1>3. cur[1] >= 0 => <<1, cur[1]>> \in SlotList
  <2>1. cur[1] >= 0 => cur[1] \in Slot(1)
    BY <1>1, <1>2, Sizes DEF Slot
  <2> QED BY <2>1, SlotIsSlot DEF Level
<1> QED BY <1>1, <1>2, <1>3

LEMMA UntilBounds ==
  ASSUME NEW c, c[1] \in -1..(WheelSize[1] - 1), c[2] \in 0..(WheelSize[2] - 1), NEW p
  PROVE  /\ UntilTurn(c, p) \in Nat /\ UntilTurn(c, p) <= WheelSize[1]
         /\ UntilDay(c, p) \in Nat /\ UntilDay(c, p) <= WheelSize[1] * WheelSize[2]
<1>1. UntilTurn(c, p) \in Nat /\ UntilTurn(c, p) <= WheelSize[1]
  BY Sizes DEF UntilTurn
<1> DEFINE m == IF c[2] = WheelSize[2] - 1 THEN WheelSize[2] - 1 ELSE WheelSize[2] - 2 - c[2]
<1>2. m \in Nat /\ m <= WheelSize[2] - 1
  BY Sizes
<1>3. ASSUME NEW a \in Nat, NEW b \in Nat, NEW n \in Nat, n <= b - 1
      PROVE  n * a \in Nat /\ n * a + a <= a * b
  <2>1. n + 1 \in Nat /\ n + 1 <= b /\ (n + 1) * a = n * a + a /\ n * a \in Nat
    BY <1>3
  <2>2. (n + 1) * a <= b * a
    BY <2>1
  <2> QED BY <2>1, <2>2
<1>4. m * WheelSize[1] \in Nat /\ m * WheelSize[1] + WheelSize[1] <= WheelSize[1] * WheelSize[2]
  <2> HIDE DEF m
  <2> QED BY <1>2, <1>3, Sizes
<1>5. UntilDay(c, p) = UntilTurn(c, p) + m * WheelSize[1]
  BY DEF UntilDay
<1> HIDE DEF m
<1> DEFINE k == m * WheelSize[1]
           z == WheelSize[1] * WheelSize[2]
<1> HIDE DEF k, z
<1> QED BY <1>1, <1>4, <1>5, Sizes DEF k, z

\* A timer joins a list: its place must be right, the others keep theirs.
LEMMA AddKeepsTiming ==
  ASSUME NEW L, NEW at, Lists(L, at), NEW l \in SlotList, NEW t \in TimerId, ~Linked(L, t),
         NEW M, M = Push(L, l, t), NEW b, b = P!With(at, l, L.count[l], t),
         NEW c, NEW tick, NEW T, NEW T2, NEW p \in Proc, NEW p2 \in Proc,
         Timing(L, at, c, tick, T, p),
         InSlot(p) => <<1, c[1]>> \in SlotList,
         \A u \in TimerId : L.owner[u] # None => T2[u] = T[u],
         InSlot(p2) <=> InSlot(p), Due(p2) = Due(p), ~InSlot(p) => Due(p) = 0, Due(p) \in Nat,
         p2.at = "callback" => Fits(T2[p2.running], tick),
         OnTimeIn(l, c, tick, p2, T2[t])
  PROVE  Timing(M, b, c, tick, T2, p2)
<1> DEFINE slot == <<1, c[1]>>
           d == Due(p)
<1>1. /\ \A u \in TimerId : M.owner[u] = IF u = t THEN l ELSE L.owner[u]
      /\ \A k \in SlotList : M.count[k] = IF k = l THEN L.count[k] + 1 ELSE L.count[k]
      /\ \A k \in SlotList : \A i \in 1..L.count[k] : b[k][i] = at[k][i]
  BY PushFacts
<1>2. UntilTurn(c, p2) = UntilTurn(c, p) /\ UntilDay(c, p2) = UntilDay(c, p)
  BY DEF UntilTurn, UntilDay
<1>3. L.count \in [SlotList -> Nat]
  BY ListTypes
<1>4. InSlot(p) => slot \in SlotList /\ d <= L.count[slot]
  BY DEF Timing
<1>5. \A i \in 1..d : slot \in SlotList /\ i \in 1..L.count[slot]
  BY <1>3, <1>4
<1>6. \A i \in 1..d : b[slot][i] = at[slot][i] /\ at[slot][i] \in TimerId /\ L.owner[at[slot][i]] # None
  <2>1. \A i \in 1..d : b[slot][i] = at[slot][i] /\ at[slot][i] \in TimerId /\ L.owner[at[slot][i]] = slot
    <3>1. /\ \A k \in SlotList : \A i \in 1..L.count[k] : b[k][i] = at[k][i]
          /\ \A k \in SlotList : \A i \in 1..L.count[k] : at[k][i] \in TimerId /\ L.owner[at[k][i]] = k
      BY <1>1, ListTypes
    <3> HIDE DEF slot, d
    <3> QED BY <1>5, <3>1
  <2> QED BY <1>5, <2>1, ThingsDiffer
<1>7. \A i \in 1..Due(p2) : Fits(T2[b[slot][i]], tick)
  BY <1>6 DEF Timing
<1>8. InSlot(p2) => Due(p2) <= M.count[slot]
  BY <1>1, <1>3, <1>4
<1>9. ASSUME NEW u \in TimerId, M.owner[u] # None
      PROVE  \/ \E i \in 1..Due(p2) : b[slot][i] = u
             \/ OnTimeIn(M.owner[u], c, tick, p2, T2[u])
  <2>1. CASE u = t
    BY <2>1, <1>1
  <2>2. CASE u # t
    <3>1. M.owner[u] = L.owner[u] /\ T2[u] = T[u] /\ L.owner[u] # None
      BY <2>2, <1>1, <1>9
    <3>2. \/ \E i \in 1..d : at[slot][i] = u
          \/ OnTimeIn(L.owner[u], c, tick, p, T[u])
      BY <3>1 DEF Timing
    <3> QED BY <3>1, <3>2, <1>2, <1>6 DEF OnTimeIn
  <2> QED BY <2>1, <2>2
<1> QED BY <1>7, <1>8, <1>9 DEF Timing

-----------------------------------------------------------------------------
(* Each action keeps the invariant.                                        *)

LEMMA LiveFields ==
  ASSUME TypeOK
  PROVE  \A t \in TimerId : t \in Live <=> timers[t] \in Timer
BY ThingsDiffer DEF TypeOK, Live

LEMMA ClampBounds == \A ms \in Nat : Clamp(ms) \in 1..MAX_TIMEOUT
BY Sizes DEF Clamp

LEMMA InitWheel == Init => WheelInv
<1> SUFFICES ASSUME Init PROVE WheelInv
  OBVIOUS
<1> DEFINE e == [l \in SlotList |-> [i \in Nat |-> l]]
<1>1. Lists(tlist, e)
  BY ThingsAreDistinct, SameOperations, P!NoLinksOrdered DEF Init, Lists
<1>2. \A t \in TimerId : tlist.owner[t] = None
  BY DEF Init, NoLinks
<1>3. TypeOK
  <2>1. proc \in Proc
    BY DEF Init, Idle, Proc
  <2>2. cur \in [Level -> Int] /\ \A w \in Level : cur[w] \in Slot(w) \cup {-1}
    BY Sizes DEF Init, Level, Slot
  <2> HIDE DEF e
  <2> QED BY <1>1, <2>1, <2>2, ListTypes, WheelAssumption DEF Init, TypeOK
<1>4. Live = {}
  BY DEF Init, Live
<1>5. Books
  BY <1>2, <1>4 DEF Init, Books, InSlot, Idle, Level
<1>6. CalmTiming(e)
  <2> HIDE DEF e
  <2>1. Clock
    BY DEF Init, Clock, Idle
  <2>2. Due(proc) = 0 /\ ~InSlot(proc)
    BY DEF Init, Idle, Due, InSlot
  <2>3. Timing(tlist, e, cur, lasttick, timers, proc)
    BY <1>2, <2>2 DEF Timing, InSlot
  <2> QED BY <2>1, <2>3 DEF CalmTiming
<1> QED BY <1>1, <1>3, <1>5, <1>6 DEF WheelInv

\* What is the same of any two states in which the timers and lists are.
LEMMA SameTiming ==
  ASSUME NEW L, NEW at, NEW c, NEW tick, NEW T, NEW p, NEW p2, Timing(L, at, c, tick, T, p),
         InSlot(p2) <=> InSlot(p), Due(p2) = Due(p),
         p2.at = "callback" => Fits(T[p2.running], tick)
  PROVE  Timing(L, at, c, tick, T, p2)
<1>1. UntilTurn(c, p2) = UntilTurn(c, p) /\ UntilDay(c, p2) = UntilDay(c, p)
  BY DEF UntilTurn, UntilDay
<1> QED BY <1>1 DEF Timing, OnTimeIn

LEMMA ClockKeepsWheel ==
  ASSUME WheelInv, ClockAdvances \/ ClockStepsBack PROVE WheelInv'
<1>1. PICK at : Lists(tlist, at) /\ CalmTiming(at)
  BY DEF WheelInv
<1>2. UNCHANGED <<registered, lasttick, cur, tlist, timers, proc>>
  BY DEF ClockAdvances, ClockStepsBack
<1>3. now' \in Nat
  BY WheelAssumption DEF ClockAdvances, ClockStepsBack, WheelInv, TypeOK
<1>4. TypeOK'
  BY <1>2, <1>3 DEF WheelInv, TypeOK
<1>5. Books'
  BY <1>2 DEF WheelInv, Books, Live
<1>6. ASSUME AppDoes = {} PROVE Clock'
  <2>1. ClockAdvances
    BY <1>6 DEF ClockStepsBack
  <2> QED BY <1>1, <1>2, <1>6, <2>1, WheelAssumption, ProcFields
          DEF ClockAdvances, Clock, CalmTiming, WheelInv, TypeOK
<1>7. CalmTiming(at)'
  BY <1>1, <1>2, <1>6 DEF CalmTiming
<1> QED BY <1>1, <1>2, <1>4, <1>5, <1>7 DEF WheelInv

LEMMA ProcStartsKeepsWheel ==
  ASSUME WheelInv, ProcStarts PROVE WheelInv'
<1>1. PICK at : Lists(tlist, at) /\ CalmTiming(at)
  BY DEF WheelInv
<1> USE DEF WheelInv
<1>2. UNCHANGED <<now, registered, cur, tlist, timers>> /\ registered /\ proc.at = "idle"
  BY DEF ProcStarts
<1>3. CASE now < lasttick
  <2>1. lasttick' = now /\ proc' = proc /\ AppDoes # {}
    BY <1>1, <1>2, <1>3 DEF ProcStarts, CalmTiming, Clock, TypeOK
  <2>2. TypeOK' /\ Books'
    BY <1>2, <2>1 DEF TypeOK, Books, Live
  <2> QED BY <1>1, <1>2, <2>1, <2>2 DEF CalmTiming
<1>4. CASE ~(now < lasttick)
  <2>1. lasttick' = lasttick /\ proc' = [proc EXCEPT !.at = "loop", !.target = now] /\ now \in Nat
    BY <1>4 DEF ProcStarts, TypeOK
  <2>2. /\ proc' \in Proc /\ proc'.at = "loop" /\ proc'.target = now
        /\ proc'.left = proc.left /\ proc'.running = proc.running
    BY <2>1 DEF Proc, TypeOK
  <2>3. TypeOK'
    BY <1>2, <2>1, <2>2 DEF TypeOK
  <2>4. Books'
    BY <1>2, <2>1, <2>2 DEF Books, Live, InSlot
  <2>5. Timing(tlist, at, cur, lasttick, timers, proc) => Timing(tlist, at, cur, lasttick, timers, proc')
    BY <1>2, <2>2, SameTiming DEF InSlot, Due
  <2>6. AppDoes = {} => Clock'
    BY <1>1, <1>2, <1>4, <2>1, <2>2 DEF CalmTiming, Clock, TypeOK
  <2> QED BY <1>1, <1>2, <2>1, <2>3, <2>4, <2>5, <2>6 DEF CalmTiming
<1> QED BY <1>3, <1>4

LEMMA ProcEndsKeepsWheel ==
  ASSUME WheelInv, ProcEnds PROVE WheelInv'
<1>1. PICK at : Lists(tlist, at) /\ CalmTiming(at)
  BY DEF WheelInv
<1> USE DEF WheelInv
<1>2. UNCHANGED <<now, registered, lasttick, cur, tlist, timers>> /\ proc.at = "loop" /\ proc' = Idle
  BY DEF ProcEnds
<1>3. Idle \in Proc /\ Idle.at = "idle" /\ Idle.left = 0 /\ Idle.running = None
  BY DEF Idle, Proc
<1>4. TypeOK'
  BY <1>2, <1>3 DEF TypeOK
<1>5. Books'
  BY <1>2, <1>3 DEF Books, Live, InSlot
<1>6. Timing(tlist, at, cur, lasttick, timers, proc) => Timing(tlist, at, cur, lasttick, timers, proc')
  BY <1>2, <1>3, SameTiming DEF InSlot, Due
<1>7. AppDoes = {} => Clock'
  BY <1>1, <1>2, <1>3 DEF CalmTiming, Clock, TypeOK
<1> QED BY <1>1, <1>2, <1>4, <1>5, <1>6, <1>7 DEF CalmTiming

LEMMA RegisterKeepsWheel ==
  ASSUME WheelInv, NEW t \in TimerId, NEW timeout \in Nat, NEW interval \in Nat, NEW n \in Nat,
         RegisterTimer(t, timeout, interval, n)
  PROVE  WheelInv'
<1>1. PICK at : Lists(tlist, at) /\ CalmTiming(at)
  BY DEF WheelInv
<1> USE DEF WheelInv
<1> DEFINE tick   == IF registered THEN lasttick ELSE now
           expire == now + Clamp(timeout)
           l      == SlotFor(cur, expire, tick)
           r      == [interval |-> Clamp(interval), expire |-> expire, repeats |-> n,
                      forever |-> (n = 0), wraps |-> Wraps(tick, expire), destroyed |-> FALSE]
<1>2. /\ t \notin Live /\ timers' = [timers EXCEPT ![t] = r]
      /\ tlist' = Push(tlist, l, t) /\ registered' = TRUE /\ lasttick' = tick
      /\ UNCHANGED <<now, cur, proc>>
  BY DEF RegisterTimer, Reg
<1>3. expire \in Nat /\ tick \in Nat /\ now < expire /\ expire <= now + MAX_TIMEOUT /\ now \in Nat
  BY ClampBounds, Sizes DEF TypeOK
<1>4. r \in Timer
  BY <1>3, ClampBounds DEF Timer, Wraps
<1>5. l \in SlotList
  BY <1>3, PositionTypes, SlotForType
<1>6. tlist.owner[t] = None /\ ~Linked(tlist, t) /\ t # proc.running
  <2>1. t # proc.running
    BY <1>2, WheelAssumption DEF Books
  <2>2. tlist.owner[t] = None
    BY <1>2 DEF Books
  <2> QED BY <2>1, <2>2, SameOperations
<1>7. PICK b : b = P!With(at, l, tlist.count[l], t)
  OBVIOUS
<1> HIDE DEF l, r
<1>8. /\ Lists(tlist', b)
      /\ \A u \in TimerId : tlist'.owner[u] = IF u = t THEN l ELSE tlist.owner[u]
  BY <1>1, <1>2, <1>5, <1>6, <1>7, PushFacts
<1>9. \A u \in TimerId : timers'[u] = IF u = t THEN r ELSE timers[u]
  BY <1>2 DEF TypeOK
<1>10. TypeOK'
  <2>1. timers' \in [TimerId -> Timer \cup {None}]
    BY <1>2, <1>4 DEF TypeOK
  <2> QED BY <1>2, <1>3, <1>8, <2>1, ListTypes DEF TypeOK
<1>11. Books'
  <2>1. Live' = Live \cup {t}
    BY <1>4, <1>9, ThingsDiffer DEF Live
  <2>2. r.destroyed = FALSE
    BY DEF r
  <2> QED BY <1>2, <1>5, <1>6, <1>8, <1>9, <2>1, <2>2, ThingsDiffer DEF Books
<1>12. ASSUME AppDoes = {} PROVE Clock' /\ Timing(tlist', b, cur, tick, timers', proc)
  <2>1. Clock /\ Timing(tlist, at, cur, lasttick, timers, proc)
    BY <1>1, <1>12 DEF CalmTiming
  <2>2. tick <= now /\ now <= tick + MaxLag
    BY <1>3, <2>1, Sizes DEF Clock
  <2>3. Clock'
    BY <1>2, <2>1, <2>2 DEF Clock, Books
  <2>4. Timing(tlist, at, cur, tick, timers, proc)
    <3>1. CASE registered
      BY <2>1, <3>1
    <3>2. CASE ~registered
      <4>1. Due(proc) = 0 /\ ~InSlot(proc)
        BY <3>2 DEF Due, Books, InSlot
      <4>2. \A u \in TimerId : tlist.owner[u] = None
        BY <3>2 DEF Books
      <4> QED BY <4>1, <4>2 DEF Timing, InSlot
    <3> QED BY <3>1, <3>2
  <2>5. OnTimeIn(l, cur, tick, proc, r)
    <3>1. /\ r.expire = expire /\ (~r.wraps => tick \div Width = expire \div Width)
      BY DEF r, Wraps
    <3>2. tick < expire /\ expire <= tick + MAX_TIMEOUT + MaxLag
      BY <1>3, <2>2, Sizes
    <3>3. /\ UntilTurn(cur, proc) \in Nat /\ UntilTurn(cur, proc) <= WheelSize[1]
          /\ UntilDay(cur, proc) \in Nat /\ UntilDay(cur, proc) <= WheelSize[1] * WheelSize[2]
      BY PositionTypes, UntilBounds DEF Books
    <3> HIDE DEF expire, tick
    <3> QED BY <1>3, <1>4, <3>1, <3>2, <3>3, PositionTypes, RegOnTime DEF OnTimeIn, l, Books
  <2>6. /\ InSlot(proc) => <<1, cur[1]>> \in SlotList
        /\ ~InSlot(proc) => Due(proc) = 0
        /\ Due(proc) \in Nat
    BY PositionTypes, ProcFields DEF Books, InSlot, Due, TypeOK
  <2>7. proc.at = "callback" => Fits(timers'[proc.running], tick)
    BY <1>6, <1>9, <2>4 DEF Timing, Books, Live
  <2>8. \A u \in TimerId : tlist.owner[u] # None => timers'[u] = timers[u]
    BY <1>6, <1>9
  <2>9. OnTimeIn(l, cur, tick, proc, timers'[t])
    BY <1>9, <2>5
  <2> HIDE DEF tick
  <2>10. Timing(tlist', b, cur, tick, timers', proc)
    <3>1. Lists(tlist, at) /\ proc \in Proc /\ tlist' = Push(tlist, l, t)
      BY <1>1, <1>2 DEF TypeOK
    <3> HIDE DEF WheelInv
    <3> QED BY <3>1, <1>5, <1>6, <1>7, <2>4, <2>6, <2>7, <2>8, <2>9, AddKeepsTiming
  <2> QED BY <2>3, <2>10
<1> QED BY <1>2, <1>8, <1>10, <1>11, <1>12 DEF CalmTiming

\* A timer that leaves a list other than the slot being fired: the others keep
\* their places.
LEMMA LeaveKeepsTiming ==
  ASSUME NEW L, NEW at, Lists(L, at), NEW l \in SlotList, NEW t, NEW j, j \in 1..L.count[l],
         t = at[l][j], NEW M, M = Remove(L, t), NEW b, b = P!Without(at, l, j),
         NEW c, NEW tick, NEW T, NEW T2, NEW p \in Proc,
         Timing(L, at, c, tick, T, p),
         InSlot(p) => <<1, c[1]>> \in SlotList /\ l # <<1, c[1]>>,
         \A u \in TimerId \ {t} : T2[u] = T[u],
         p.at = "callback" => p.running \in TimerId \ {t},
         ~InSlot(p) => Due(p) = 0
  PROVE  Timing(M, b, c, tick, T2, p)
<1> DEFINE slot == <<1, c[1]>>
           d == Due(p)
<1>1. /\ \A u \in TimerId : M.owner[u] = IF u = t THEN None ELSE L.owner[u]
      /\ \A k \in SlotList : M.count[k] = IF k = l THEN L.count[k] - 1 ELSE L.count[k]
      /\ \A k \in SlotList \ {l} : b[k] = at[k]
      /\ L.owner[t] = l
  BY RemoveFacts
<1>2. InSlot(p) => /\ d <= L.count[slot] /\ M.count[slot] = L.count[slot]
                   /\ b[slot] = at[slot] /\ slot \in SlotList
  BY <1>1 DEF Timing
<1>3. ~InSlot(p) => \A i \in 1..d : FALSE
  OBVIOUS
<1>4. \A i \in 1..d : b[slot][i] = at[slot][i] /\ at[slot][i] \in TimerId \ {t}
  <2>2. d \in Int
    BY ProcFields DEF Due
  <2>1. \A i \in 1..d : InSlot(p) /\ i \in 1..L.count[slot]
    BY <1>2, <1>3, <2>2, ListTypes
  <2> QED BY <1>1, <1>2, <2>1, ListTypes
<1>5. \A i \in 1..d : Fits(T2[b[slot][i]], tick)
  BY <1>4 DEF Timing
<1>6. ASSUME NEW u \in TimerId, M.owner[u] # None
      PROVE  \/ \E i \in 1..d : b[slot][i] = u
             \/ OnTimeIn(M.owner[u], c, tick, p, T2[u])
  <2>1. u # t /\ M.owner[u] = L.owner[u] /\ T2[u] = T[u]
    BY <1>1, <1>6
  <2> QED BY <1>4, <1>6, <2>1 DEF Timing
<1> QED BY <1>2, <1>5, <1>6 DEF Timing

LEMMA DestroyKeepsWheel ==
  ASSUME WheelInv, NEW t \in TimerId, DestroyTimer(t)
  PROVE  WheelInv'
<1>1. PICK at : Lists(tlist, at) /\ CalmTiming(at)
  BY DEF WheelInv
<1> USE DEF WheelInv
<1>2. /\ t \in Live /\ AppRuns /\ UNCHANGED <<now, registered, lasttick, cur, proc>>
      /\ timers[t] \in Timer
  BY LiveFields DEF DestroyTimer
<1>3. CASE t = proc.running
  <2> DEFINE r == [timers[t] EXCEPT !.forever = FALSE, !.repeats = 0, !.destroyed = TRUE]
  <2>1. timers' = [timers EXCEPT ![t].forever = FALSE, ![t].repeats = 0, ![t].destroyed = TRUE]
        /\ tlist' = tlist
    BY <1>3 DEF DestroyTimer
  <2>2. r \in Timer /\ r.expire = timers[t].expire /\ r.wraps = timers[t].wraps
        /\ ~r.forever /\ r.repeats = 0
    BY <1>2 DEF Timer
  <2>3. \A u \in TimerId : timers'[u] = IF u = t THEN r ELSE timers[u]
    BY <2>1 DEF TypeOK
  <2>4. timers' \in [TimerId -> Timer \cup {None}]
    <3> HIDE DEF r
    <3>1. DOMAIN timers' = TimerId /\ timers' = [u \in TimerId |-> timers'[u]]
      BY <2>1 DEF TypeOK
    <3>2. \A u \in TimerId : timers'[u] \in Timer \cup {None}
      BY <2>2, <2>3 DEF TypeOK
    <3> QED BY <3>1, <3>2
  <2> HIDE DEF r
  <2>5. Live' = Live
    BY <1>2, <2>2, <2>3, ThingsDiffer DEF Live
  <2>6. TypeOK'
    BY <1>2, <2>1, <2>4 DEF TypeOK
  <2>7. Books'
    BY <1>2, <1>3, <2>1, <2>2, <2>3, <2>5 DEF Books, Live
  <2>8. Timing(tlist, at, cur, lasttick, timers, proc) => Timing(tlist, at, cur, lasttick, timers', proc)
    <3>1. \A f : Fits(r, f) <=> Fits(timers[t], f)
      BY <2>2 DEF Fits
    <3>2. tlist.owner[t] = None
      BY <1>3 DEF Books
    <3>3. \A i \in 1..Due(proc) : InSlot(proc)
      BY ProcFields DEF Due, InSlot, TypeOK
    <3> SUFFICES ASSUME Timing(tlist, at, cur, lasttick, timers, proc)
                 PROVE  Timing(tlist, at, cur, lasttick, timers', proc)
      OBVIOUS
    <3>4. \A i \in 1..Due(proc) : at[<<1, cur[1]>>][i] \in TimerId
      <4>2. Due(proc) \in Int
        BY ProcFields DEF Due, TypeOK
      <4>1. \A i \in 1..Due(proc) : <<1, cur[1]>> \in SlotList /\ i \in 1..tlist.count[<<1, cur[1]>>]
        BY <1>1, <3>3, <4>2, PositionTypes, ListTypes DEF Timing, Books
      <4> QED BY <1>1, <4>1, ListTypes
    <3>5. proc.at = "callback" => Fits(timers'[proc.running], lasttick)
      BY <1>3, <2>3, <3>1 DEF Timing
    <3>6. \A i \in 1..Due(proc) : Fits(timers'[at[<<1, cur[1]>>][i]], lasttick)
      BY <2>3, <3>1, <3>4 DEF Timing
    <3>7. \A u \in TimerId : tlist.owner[u] # None => timers'[u] = timers[u]
      BY <2>3, <3>2
    <3> QED BY <3>5, <3>6, <3>7 DEF Timing
  <2>9. CalmTiming(at)'
    BY <1>1, <1>2, <2>1, <2>8 DEF CalmTiming, Clock
  <2> QED BY <1>1, <2>1, <2>6, <2>7, <2>9
<1>4. CASE t # proc.running
  <2>1. /\ timers' = [timers EXCEPT ![t] = None]
        /\ tlist' = Destruct(Remove(tlist, t), t)
    BY <1>4 DEF DestroyTimer, DeleteTimer, UnRegisterTimer
  <2>2. tlist.owner[t] # None /\ Linked(tlist, t)
    BY <1>2, <1>4, SameOperations DEF Books
  <2> DEFINE l == tlist.owner[t]
  <2>3. l \in SlotList /\ \E j \in 1..tlist.count[l] : at[l][j] = t
    BY <1>1, <2>2, LinkedPlace
  <2>4. PICK j : j \in 1..tlist.count[l] /\ t = at[l][j]
    BY <2>3
  <2>5. PICK b : b = P!Without(at, l, j)
    OBVIOUS
  <2> HIDE DEF l
  <2>6. /\ Lists(Remove(tlist, t), b)
        /\ \A u \in TimerId : Remove(tlist, t).owner[u] = IF u = t THEN None ELSE tlist.owner[u]
    BY <1>1, <2>3, <2>4, <2>5, RemoveFacts
  <2>7. tlist' = Remove(tlist, t)
    BY <2>1, <2>6 DEF Destruct
  <2>8. \A u \in TimerId : timers'[u] = IF u = t THEN None ELSE timers[u]
    BY <2>1 DEF TypeOK
  <2>9. TypeOK'
    <3>1. timers' \in [TimerId -> Timer \cup {None}]
      BY <2>1 DEF TypeOK
    <3> QED BY <1>2, <2>6, <2>7, <3>1, ListTypes DEF TypeOK
  <2>10. Books'
    <3>1. Live' = Live \ {t}
      BY <2>8 DEF Live
    <3>2. \A u \in TimerId : tlist'.owner[u] # None <=> u \in Live' \ {proc'.running}
      BY <1>2, <2>6, <2>7, <3>1 DEF Books
    <3>3. \A u \in Live' : timers'[u] = timers[u] /\ u \in Live
      BY <2>8, <3>1 DEF Live
    <3>4. proc.at = "callback" => proc.running \in Live'
      BY <1>4, <3>1 DEF Books
    <3> HIDE DEF WheelInv
    <3>5. Books
      BY DEF WheelInv
    <3> QED BY <1>2, <3>1, <3>2, <3>3, <3>4, <3>5 DEF Books
  <2>11. ASSUME AppDoes = {}, Timing(tlist, at, cur, lasttick, timers, proc)
         PROVE  Timing(tlist', b, cur, lasttick, timers', proc)
    <3>1. InSlot(proc) => <<1, cur[1]>> \in SlotList /\ l # <<1, cur[1]>>
      <4>1. InSlot(proc) => proc.at = "callback"
        BY <1>2 DEF AppRuns, InSlot
      <4>2. ~InFiredSlot(t)
        BY <2>11 DEF DestroyTimer
      <4> QED BY <4>1, <4>2, PositionTypes DEF InFiredSlot, Fired, Books, l
    <3>2. proc.at = "callback" => proc.running \in TimerId \ {t}
      BY <1>4 DEF Books, Live
    <3>3. ~InSlot(proc) => Due(proc) = 0
      BY DEF InSlot, Due
    <3>4. \A u \in TimerId \ {t} : timers'[u] = timers[u]
      BY <2>8
    <3> QED BY <1>1, <2>3, <2>4, <2>5, <2>7, <2>11, <3>1, <3>2, <3>3, <3>4, LeaveKeepsTiming, SMTT(60) DEF TypeOK
  <2>12. CalmTiming(b)'
    BY <1>1, <1>2, <2>11 DEF CalmTiming, Clock
  <2> QED BY <2>6, <2>7, <2>9, <2>10, <2>12
<1> QED BY <1>3, <1>4

LEMMA SlotListIs ==
  ASSUME NEW l \in SlotList
  PROVE  l = <<l[1], l[2]>> /\ l[1] \in {1, 2, 3} /\ l[2] \in 0..(WheelSize[l[1]] - 1)
<1>1. PICK w \in Level : \E s \in Slot(w) : l = <<w, s>>
  BY DEF SlotList
<1> QED BY <1>1 DEF Level, Slot

LEMMA PendingLess ==
  ASSUME NEW r \in Timer, NEW tick \in Nat, NEW wait \in Nat, wait >= 1, Pending(r, tick, wait)
  PROVE  Pending(r, tick + 1, wait - 1)
<1>1. r.expire \in Nat
  BY TimerFields
<1>2. tick + 1 + (wait - 1) < r.expire /\ r.expire <= tick + 1 + MAX_TIMEOUT + MaxLag
  BY <1>1, Sizes DEF Pending
<1>3. ~r.wraps => (tick + 1) \div Width = r.expire \div Width
  <2> SUFFICES ASSUME ~r.wraps PROVE (tick + 1) \div Width = r.expire \div Width
    OBVIOUS
  <2>1. tick \div Width = r.expire \div Width /\ tick <= tick + 1 /\ tick + 1 <= r.expire
    BY <1>1 DEF Pending
  <2>2. Width \in Nat /\ Width > 0 /\ tick + 1 \in Nat
    BY Sizes
  <2> QED BY <1>1, <2>1, <2>2, DivBetween
<1> QED BY <1>2, <1>3 DEF Pending

LEMMA AdvanceIs ==
  ASSUME NEW c \in Positions, InSlots(c), NEW w \in Level
  PROVE  /\ Advance(c, w) \in Positions /\ InSlots(Advance(c, w)) /\ Advance(c, w)[w] >= 0
         /\ Advance(c, w)[w] = IF c[w] + 1 = WheelSize[w] THEN 0 ELSE c[w] + 1
         /\ \A v \in Level \ {w} : Advance(c, w)[v] = c[v]
         /\ <<w, Advance(c, w)[w]>> \in SlotList
<1> DEFINE x == IF c[w] + 1 = WheelSize[w] THEN 0 ELSE c[w] + 1
<1>1. Advance(c, w) = [c EXCEPT ![w] = x]
  BY DEF Advance
<1>2. x \in Slot(w) /\ x \in Int /\ x >= 0
  <2>1. WheelSize[w] \in Nat /\ WheelSize[w] >= 2 /\ c[w] \in Int /\ c[w] \in Slot(w) \cup {-1}
    BY Sizes, WheelAssumption DEF InSlots, Positions
  <2> QED BY <2>1 DEF Slot
<1> HIDE DEF x
<1>3. /\ Advance(c, w) \in Positions /\ Advance(c, w)[w] = x
      /\ \A v \in Level \ {w} : Advance(c, w)[v] = c[v]
  BY <1>1, <1>2 DEF Positions
<1>4. InSlots(Advance(c, w))
  BY <1>2, <1>3 DEF InSlots
<1>5. <<w, x>> \in SlotList
  BY <1>2, SlotIsSlot
<1> QED BY <1>2, <1>3, <1>4, <1>5 DEF x

\* A tick brings every timer of the first level one slot nearer.
LEMMA TickKeepsPlace ==
  ASSUME NEW c \in Positions, InSlots(c), NEW l \in SlotList, NEW tick \in Nat, NEW r \in Timer,
         NEW r2 \in Nat, r2 >= 1, NEW r3 \in Nat, r3 >= 1, OnTime(l, c, tick, r2, r3, r)
  PROVE  IF l = <<1, Advance(c, 1)[1]>> THEN Fits(r, tick + 1)
         ELSE OnTime(l, Advance(c, 1), tick + 1, r2 - 1, r3 - 1, r)
<1> DEFINE e == Advance(c, 1)
<1>1. /\ e[1] = IF c[1] + 1 = WheelSize[1] THEN 0 ELSE c[1] + 1
      /\ e[2] = c[2] /\ e[3] = c[3]
  <2>1. 1 \in Level /\ 2 \in Level \ {1} /\ 3 \in Level \ {1}
    BY DEF Level
  <2> HIDE DEF e
  <2> QED BY <2>1, AdvanceIs DEF e
<1>2. l = <<l[1], l[2]>> /\ l[1] \in {1, 2, 3} /\ l[2] \in 0..(WheelSize[l[1]] - 1)
  BY SlotListIs
<1>3. PICK d \in 1..WheelSize[l[1]] :
        /\ l[2] = c[l[1]] + d \/ l[2] = c[l[1]] + d - WheelSize[l[1]]
        /\ l[1] = 1 => Fits(r, tick + d)
        /\ l[1] = 2 => Pending(r, tick, r2 + (d - 1) * WheelSize[1])
        /\ l[1] = 3 => Pending(r, tick, r3 + (d - 1) * (WheelSize[1] * WheelSize[2]))
  BY DEF OnTime
<1> HIDE DEF e
<1>4. c[1] \in -1..(WheelSize[1] - 1)
  BY Sizes DEF Positions, InSlots, Level, Slot
<1>5. CASE l[1] = 1
  <2>1. CASE d = 1
    <3>1. l[2] = e[1]
      BY <1>1, <1>2, <1>3, <1>4, <1>5, <2>1, Sizes
    <3> QED BY <1>2, <1>3, <1>5, <2>1, <3>1 DEF e
  <2>2. CASE d # 1
    <3>1. d - 1 \in 1..WheelSize[1] /\ tick + 1 + (d - 1) = tick + d
      BY <1>3, <1>5, <2>2, Sizes
    <3>2. l[2] = e[1] + (d - 1) \/ l[2] = e[1] + (d - 1) - WheelSize[1]
      BY <1>1, <1>2, <1>3, <1>4, <1>5, <2>2, Sizes
    <3>3. l[2] # e[1]
      BY <3>1, <3>2, <1>1, <1>4, <1>3, <1>5, Sizes
    <3>4. OnTime(l, e, tick + 1, r2 - 1, r3 - 1, r)
      BY <1>3, <1>5, <3>1, <3>2 DEF OnTime
    <3> QED BY <1>2, <3>3, <3>4 DEF e
  <2> QED BY <2>1, <2>2
<1>6. CASE l[1] = 2
  <2>1. (d - 1) * WheelSize[1] \in Nat /\ d \in 1..WheelSize[2]
    BY <1>3, <1>6, Sizes
  <2> DEFINE k == (d - 1) * WheelSize[1]
  <2> HIDE DEF k
  <2>2. k \in Nat /\ Pending(r, tick, r2 + k)
    BY <1>3, <1>6, <2>1 DEF k
  <2>3. r2 + k \in Nat /\ r2 + k >= 1 /\ (r2 + k) - 1 = (r2 - 1) + k
    BY <2>2
  <2>4. Pending(r, tick + 1, (r2 - 1) + k)
    BY <2>2, <2>3, PendingLess
  <2>5. OnTime(l, e, tick + 1, r2 - 1, r3 - 1, r)
    BY <1>1, <1>3, <1>6, <2>1, <2>4 DEF OnTime, k
  <2> QED BY <1>6, <2>5 DEF e
<1>7. CASE l[1] = 3
  <2>1. (d - 1) * (WheelSize[1] * WheelSize[2]) \in Nat /\ d \in 1..WheelSize[3]
    <3> DEFINE z == WheelSize[1] * WheelSize[2]
    <3>1. z \in Nat /\ d - 1 \in Nat
      BY <1>3, <1>7, Sizes
    <3> HIDE DEF z
    <3>2. (d - 1) * z \in Nat
      BY <3>1
    <3> QED BY <1>3, <1>7, <3>2, Sizes DEF z
  <2> DEFINE k == (d - 1) * (WheelSize[1] * WheelSize[2])
  <2> HIDE DEF k
  <2>2. k \in Nat /\ Pending(r, tick, r3 + k)
    BY <1>3, <1>7, <2>1 DEF k
  <2>3. r3 + k \in Nat /\ r3 + k >= 1 /\ (r3 + k) - 1 = (r3 - 1) + k
    BY <2>2
  <2>4. Pending(r, tick + 1, (r3 - 1) + k)
    BY <2>2, <2>3, PendingLess
  <2>5. OnTime(l, e, tick + 1, r2 - 1, r3 - 1, r)
    BY <1>1, <1>3, <1>7, <2>1, <2>4 DEF OnTime, k
  <2> QED BY <1>7, <2>5 DEF e
<1> QED BY <1>2, <1>5, <1>6, <1>7

LEMMA TickKeepsWheel ==
  ASSUME WheelInv, TickStarts PROVE WheelInv'
<1>1. PICK at : Lists(tlist, at) /\ CalmTiming(at)
  BY DEF WheelInv
<1> DEFINE e == Advance(cur, 1)
           slot == <<1, e[1]>>
<1>2. /\ proc.at = "loop" /\ lasttick # proc.target /\ lasttick' = lasttick + 1
      /\ UNCHANGED <<now, registered, tlist, timers>> /\ cur' = e
      /\ proc' = [proc EXCEPT !.at = "slot", !.left = tlist.count[slot]]
      /\ TypeOK /\ Books
  BY SameOperations DEF TickStarts, WheelInv
<1>3. /\ e \in Positions /\ InSlots(e) /\ e[1] >= 0 /\ slot \in SlotList
      /\ e[1] = IF cur[1] + 1 = WheelSize[1] THEN 0 ELSE cur[1] + 1
      /\ e[2] = cur[2] /\ e[3] = cur[3]
  <2>1. 1 \in Level /\ 2 \in Level \ {1} /\ 3 \in Level \ {1}
    BY DEF Level
  <2>2. cur \in Positions /\ InSlots(cur)
    BY <1>2, PositionTypes
  <2> HIDE DEF e
  <2> QED BY <2>1, <2>2, AdvanceIs DEF e
<1>4. /\ proc' \in Proc /\ proc'.at = "slot" /\ proc'.left = tlist.count[slot]
      /\ proc'.target = proc.target /\ proc'.running = proc.running /\ proc.running = None
      /\ tlist.count[slot] \in Nat
  <2>1. tlist.count[slot] \in Nat
    <3> HIDE DEF slot
    <3> QED BY <1>1, <1>3, ListTypes
  <2> HIDE DEF slot
  <2> QED BY <1>2, <2>1 DEF Proc, TypeOK, Books
<1> HIDE DEF e
<1>5. TypeOK'
  <2>1. lasttick' \in Nat
    BY <1>2 DEF TypeOK
  <2>2. cur' \in [Level -> Int] /\ \A w \in Level : cur'[w] \in Slot(w) \cup {-1}
    BY <1>2, <1>3 DEF Positions, InSlots
  <2> QED BY <1>2, <1>4, <2>1, <2>2 DEF TypeOK
<1>6. Books'
  BY <1>2, <1>3, <1>4 DEF Books, Live, InSlot
<1>7. ASSUME AppDoes = {} PROVE Clock' /\ Timing(tlist, at, e, lasttick + 1, timers, proc')
  <2>1. Clock /\ Timing(tlist, at, cur, lasttick, timers, proc)
    BY <1>1, <1>7 DEF CalmTiming
  <2>2. Clock'
    <3>1. /\ lasttick \in Nat /\ now \in Nat /\ proc.target \in Nat /\ MaxLag \in Nat
          /\ registered
      BY <1>2, ProcFields, Sizes DEF TypeOK, Books
    <3>2. /\ lasttick <= proc.target /\ proc.target <= now /\ now <= lasttick + MaxLag
      BY <1>2, <2>1, <3>1 DEF Clock
    <3> QED BY <1>2, <1>4, <3>1, <3>2 DEF Clock
  <2>3. Due(proc) = 0 /\ Due(proc') = tlist.count[slot] /\ InSlot(proc') /\ ~InSlot(proc)
    BY <1>2, <1>4 DEF Due, InSlot
  <2>4. \A t \in TimerId : tlist.owner[t] # None =>
          /\ tlist.owner[t] \in SlotList /\ timers[t] \in Timer
          /\ OnTime(tlist.owner[t], cur, lasttick, UntilTurn(cur, proc), UntilDay(cur, proc), timers[t])
    BY <1>2, <2>1, <2>3, LiveFields DEF Timing, OnTimeIn, Books, TypeOK
  <2>5. /\ UntilTurn(cur, proc) \in Nat /\ UntilTurn(cur, proc) >= 1
        /\ UntilTurn(e, proc') = UntilTurn(cur, proc) - 1
    BY <1>2, <1>3, <2>3, PositionTypes, Sizes DEF UntilTurn
  <2>6. /\ UntilDay(cur, proc) \in Nat /\ UntilDay(cur, proc) >= 1
        /\ UntilDay(e, proc') = UntilDay(cur, proc) - 1
    <3> DEFINE m == (IF cur[2] = WheelSize[2] - 1 THEN WheelSize[2] - 1 ELSE WheelSize[2] - 2 - cur[2])
                      * WheelSize[1]
    <3>1. UntilDay(cur, proc) = UntilTurn(cur, proc) + m /\ UntilDay(e, proc') = UntilTurn(e, proc') + m
      BY <1>3 DEF UntilDay
    <3>2. m \in Nat
      <4>1. cur[2] \in 0..(WheelSize[2] - 1)
        BY <1>2, PositionTypes, Sizes DEF Books
      <4> QED BY <4>1, Sizes
    <3> HIDE DEF m
    <3> QED BY <3>1, <3>2, <2>5
  <2>7. \A t \in TimerId : tlist.owner[t] # None =>
          IF tlist.owner[t] = slot THEN Fits(timers[t], lasttick + 1)
          ELSE OnTimeIn(tlist.owner[t], e, lasttick + 1, proc', timers[t])
    <3> SUFFICES ASSUME NEW t \in TimerId, tlist.owner[t] # None
                 PROVE  IF tlist.owner[t] = slot THEN Fits(timers[t], lasttick + 1)
                        ELSE OnTimeIn(tlist.owner[t], e, lasttick + 1, proc', timers[t])
      OBVIOUS
    <3>1. lasttick \in Nat /\ cur \in Positions /\ InSlots(cur)
      BY <1>2, PositionTypes DEF TypeOK
    <3>2. IF tlist.owner[t] = slot THEN Fits(timers[t], lasttick + 1)
          ELSE OnTime(tlist.owner[t], e, lasttick + 1,
                      UntilTurn(cur, proc) - 1, UntilDay(cur, proc) - 1, timers[t])
      BY <2>4, <2>5, <2>6, <3>1, TickKeepsPlace DEF e
    <3> QED BY <2>5, <2>6, <3>2 DEF OnTimeIn
  <2>8. \A i \in 1..tlist.count[slot] : /\ at[slot][i] \in TimerId
                                        /\ tlist.owner[at[slot][i]] = slot
                                        /\ tlist.owner[at[slot][i]] # None
    BY <1>1, <1>3, ListTypes, ThingsDiffer
  <2>9. \A t \in TimerId : tlist.owner[t] = slot =>
          \E i \in 1..tlist.count[slot] : at[slot][i] = t
    <3> SUFFICES ASSUME NEW t \in TimerId, tlist.owner[t] = slot
                 PROVE  \E i \in 1..tlist.count[slot] : at[slot][i] = t
      OBVIOUS
    <3>1. Linked(tlist, t)
      BY <1>3, SameOperations, ThingsDiffer
    <3> HIDE DEF slot
    <3> QED BY <1>1, <3>1, LinkedPlace
  <2>10. Timing(tlist, at, e, lasttick + 1, timers, proc')
    <3>1. tlist.count[slot] <= tlist.count[slot] /\ proc'.at # "callback"
      BY <1>4
    <3>2. \A i \in 1..Due(proc') : Fits(timers[at[slot][i]], lasttick + 1)
      BY <2>3, <2>7, <2>8
    <3>3. \A t \in TimerId : tlist.owner[t] # None =>
            \/ \E i \in 1..Due(proc') : at[slot][i] = t
            \/ OnTimeIn(tlist.owner[t], e, lasttick + 1, proc', timers[t])
      BY <2>3, <2>7, <2>9
    <3> QED BY <2>3, <3>1, <3>2, <3>3 DEF Timing
  <2> QED BY <2>2, <2>10
<1>8. CalmTiming(at)'
  BY <1>2, <1>7 DEF CalmTiming
<1> QED BY <1>1, <1>2, <1>5, <1>6, <1>8 DEF WheelInv

LEMMA FiresKeepsWheel ==
  ASSUME WheelInv, TimerFires PROVE WheelInv'
<1>1. PICK at : Lists(tlist, at) /\ CalmTiming(at)
  BY DEF WheelInv
<1> DEFINE slot == <<1, cur[1]>>
<1>2. /\ proc.at = "slot" /\ proc.left > 0 /\ slot \in SlotList
      /\ UNCHANGED <<now, registered, lasttick, cur, timers>> /\ tlist' = Pop(tlist, slot)
      /\ proc' = IF IsEmpty(tlist, slot) THEN [proc EXCEPT !.left = @ - 1]
                 ELSE [proc EXCEPT !.at = "callback", !.running = GetFirst(tlist, slot)]
      /\ TypeOK /\ Books /\ proc \in Proc /\ proc.left \in Nat /\ proc.running = None
  BY PositionTypes, ProcFields DEF TimerFires, Fired, WheelInv, Books, InSlot, TypeOK
<1> HIDE DEF slot
<1>3. CASE IsEmpty(tlist, slot)
  <2>1. /\ proc' \in Proc /\ proc'.at = "slot" /\ proc'.left = proc.left - 1
        /\ proc'.target = proc.target /\ proc'.running = proc.running
    BY <1>2, <1>3 DEF Proc
  <2>2. tlist' = tlist /\ tlist.count[slot] = 0
    BY <1>1, <1>2, <1>3, PopFacts
  <2>3. TypeOK'
    BY <1>2, <2>1, <2>2 DEF TypeOK
  <2>4. Books'
    BY <1>2, <2>1, <2>2 DEF Books, Live, InSlot
  <2>5. ~Timing(tlist, at, cur, lasttick, timers, proc)
    BY <1>2, <2>2 DEF Timing, Due, InSlot, slot
  <2>6. CalmTiming(at)'
    BY <1>1, <1>2, <2>2, <2>5 DEF CalmTiming
  <2> QED BY <1>1, <2>2, <2>3, <2>4, <2>6 DEF WheelInv
<1>4. CASE ~IsEmpty(tlist, slot)
  <2>1. 1 \in 1..tlist.count[slot] /\ GetFirst(tlist, slot) = at[slot][1]
        /\ Pop(tlist, slot) = Remove(tlist, at[slot][1])
    BY <1>1, <1>2, <1>4, PopFacts
  <2>2. PICK t : t = at[slot][1]
    OBVIOUS
  <2>3. PICK b : b = P!Without(at, slot, 1)
    OBVIOUS
  <2>4. /\ t \in TimerId /\ tlist.owner[t] = slot
        /\ Lists(tlist', b)
        /\ \A u \in TimerId : tlist'.owner[u] = IF u = t THEN None ELSE tlist.owner[u]
        /\ \A k \in SlotList : tlist'.count[k] = IF k = slot THEN tlist.count[k] - 1 ELSE tlist.count[k]
        /\ \A i \in Nat : b[slot][i] = IF i < 1 THEN at[slot][i] ELSE at[slot][i + 1]
    BY <1>1, <1>2, <2>1, <2>2, <2>3, RemoveFacts
  <2>5. /\ proc' \in Proc /\ proc'.at = "callback" /\ proc'.left = proc.left
        /\ proc'.target = proc.target /\ proc'.running = t
    BY <1>2, <1>4, <2>1, <2>2, <2>4 DEF Proc
  <2>6. tlist.owner[t] # None /\ t \in Live
    BY <1>2, <2>4, ThingsDiffer DEF Books
  <2>7. TypeOK'
    BY <1>2, <2>4, <2>5, ListTypes DEF TypeOK
  <2>8. Books'
    <3>1. Live' = Live
      BY <1>2 DEF Live
    <3>2. None \notin TimerId
      BY WheelAssumption
    <3>3. \A u \in TimerId : tlist'.owner[u] # None <=> u \in Live' \ {proc'.running}
      BY <1>2, <2>4, <2>5, <3>1, <3>2 DEF Books
    <3>4. \A u \in Live : ~timers[u].destroyed
      BY <1>2, <3>2 DEF Books, Live
    <3> QED BY <1>2, <2>5, <2>6, <3>1, <3>3, <3>4 DEF Books, InSlot
  <2>9. ASSUME AppDoes = {} PROVE Clock' /\ Timing(tlist', b, cur, lasttick, timers, proc')
    <3>1. Clock /\ Timing(tlist, at, cur, lasttick, timers, proc)
      BY <1>1, <2>9 DEF CalmTiming
    <3>2. Clock'
      BY <1>2, <2>5, <3>1 DEF Clock
    <3>3. /\ Due(proc) = proc.left /\ Due(proc') = proc.left - 1 /\ InSlot(proc) /\ InSlot(proc')
          /\ UntilTurn(cur, proc') = UntilTurn(cur, proc) /\ UntilDay(cur, proc') = UntilDay(cur, proc)
      BY <1>2, <2>5 DEF Due, InSlot, UntilTurn, UntilDay
    <3>4. /\ proc.left <= tlist.count[slot]
          /\ \A i \in 1..proc.left : Fits(timers[at[slot][i]], lasttick)
          /\ \A u \in TimerId : tlist.owner[u] # None =>
               \/ \E i \in 1..proc.left : at[slot][i] = u
               \/ OnTimeIn(tlist.owner[u], cur, lasttick, proc, timers[u])
      BY <3>1, <3>3 DEF Timing, slot
    <3>5. tlist.count[slot] \in Nat /\ tlist'.count[slot] = tlist.count[slot] - 1
      BY <1>1, <1>2, <2>4, ListTypes
    <3>6. \A i \in 1..(proc.left - 1) : i + 1 \in 1..proc.left /\ b[slot][i] = at[slot][i + 1]
      <4>1. \A i \in 1..(proc.left - 1) : i + 1 \in 1..proc.left /\ i \in Nat /\ ~(i < 1)
        BY <1>2
      <4> QED BY <2>4, <4>1
    <3>7. Fits(timers[t], lasttick)
      <4>1. 1 \in 1..proc.left
        BY <1>2
      <4> QED BY <2>2, <3>4, <4>1
    <3>8. \A i \in 1..(proc.left - 1) : Fits(timers[b[slot][i]], lasttick)
      BY <3>4, <3>6
    <3>9. ASSUME NEW u \in TimerId, tlist'.owner[u] # None
          PROVE  \/ \E i \in 1..(proc.left - 1) : b[slot][i] = u
                 \/ OnTimeIn(tlist'.owner[u], cur, lasttick, proc', timers[u])
      <4>1. u # t /\ tlist'.owner[u] = tlist.owner[u] /\ tlist.owner[u] # None
        BY <2>4, <3>9
      <4>2. CASE OnTimeIn(tlist.owner[u], cur, lasttick, proc, timers[u])
        BY <3>3, <4>1, <4>2 DEF OnTimeIn
      <4>3. CASE \E i \in 1..proc.left : at[slot][i] = u
        <5>1. PICK i \in 1..proc.left : at[slot][i] = u
          BY <4>3
        <5>2. i # 1
          BY <2>2, <4>1, <5>1
        <5>3. i - 1 \in 1..(proc.left - 1) /\ (i - 1) + 1 = i
          BY <1>2, <5>2
        <5> QED BY <3>6, <5>1, <5>3
      <4> QED BY <3>4, <4>1, <4>2, <4>3
    <3>10. proc.left - 1 <= tlist'.count[slot]
      BY <1>2, <3>4, <3>5
    <3>11. Timing(tlist', b, cur, lasttick, timers, proc')
      BY <2>5, <3>3, <3>7, <3>8, <3>9, <3>10 DEF Timing, slot
    <3> QED BY <3>2, <3>11
  <2>10. CalmTiming(b)'
    BY <1>2, <2>9 DEF CalmTiming
  <2> QED BY <2>4, <2>7, <2>8, <2>10 DEF WheelInv
<1> QED BY <1>3, <1>4

LEMMA ReturnKeepsWheel ==
  ASSUME WheelInv, CallbackReturns PROVE WheelInv'
<1>1. PICK at : Lists(tlist, at) /\ CalmTiming(at)
  BY DEF WheelInv
<1>2. PICK t : t = proc.running
  OBVIOUS
<1> DEFINE left  == IF timers[t].forever THEN timers[t].repeats ELSE timers[t].repeats - 1
           again == left > 0 \/ timers[t].forever
           next  == lasttick + timers[t].interval
           r     == [timers[t] EXCEPT !.expire = next, !.repeats = left, !.wraps = Wraps(lasttick, next)]
           l     == SlotFor(cur, next, lasttick)
<1>3. /\ proc.at = "callback"
      /\ timers' = [timers EXCEPT ![t] = IF again THEN r ELSE None]
      /\ tlist' = IF again THEN Push(tlist, l, t) ELSE tlist
      /\ proc' = [proc EXCEPT !.at = "slot", !.left = @ - 1, !.running = None]
      /\ UNCHANGED <<now, registered, lasttick, cur>>
      /\ TypeOK /\ Books
  BY <1>2 DEF CallbackReturns, Reg, WheelInv
<1>4. /\ t \in Live /\ t \in TimerId /\ proc.left >= 1 /\ proc.left \in Nat /\ proc \in Proc
      /\ cur[1] >= 0 /\ registered
      /\ timers[t] \in Timer /\ tlist.owner[t] = None /\ lasttick \in Nat
  BY <1>2, <1>3, LiveFields, ProcFields DEF Books, TypeOK, Live, InSlot
<1>5. /\ proc' \in Proc /\ proc'.at = "slot" /\ proc'.left = proc.left - 1
      /\ proc'.target = proc.target /\ proc'.running = None
  <2>1. proc' = [proc EXCEPT !.at = "slot", !.left = @ - 1, !.running = None]
    BY <1>3
  <2>2. proc \in Proc /\ proc.left - 1 \in Nat
    BY <1>4
  <2> QED BY <2>1, <2>2 DEF Proc
<1>6. next \in Nat /\ lasttick < next /\ next <= lasttick + MAX_TIMEOUT
  BY <1>4, TimerFields, Sizes
<1>7. again => /\ r \in Timer /\ r.expire = next /\ (r.wraps <=> Wraps(lasttick, next))
               /\ r.destroyed = FALSE
  <2>1. again => left \in Nat
    BY <1>4, TimerFields
  <2>2. again => ~timers[t].destroyed
    BY <1>3, <1>4, TimerFields DEF Books
  <2> HIDE DEF left, next, again
  <2> QED BY <1>4, <1>6, <2>1, <2>2 DEF Timer, Wraps
<1> HIDE DEF left, again, r
<1>8. l \in SlotList
  BY <1>3, <1>4, <1>6, PositionTypes, SlotForType
<1>9. /\ InSlot(proc) /\ InSlot(proc') /\ Due(proc') = Due(proc) /\ Due(proc) \in Nat
      /\ UntilTurn(cur, proc') = UntilTurn(cur, proc) /\ UntilDay(cur, proc') = UntilDay(cur, proc)
  BY <1>3, <1>4, <1>5 DEF InSlot, Due, UntilTurn, UntilDay
<1>10. \A u \in TimerId : timers'[u] = IF u = t THEN (IF again THEN r ELSE None) ELSE timers[u]
  BY <1>3 DEF TypeOK
<1>11. timers' \in [TimerId -> Timer \cup {None}]
  <2>1. (IF again THEN r ELSE None) \in Timer \cup {None}
    BY <1>7
  <2> QED BY <1>3, <2>1 DEF TypeOK
<1>12. Clock => Clock'
  BY <1>3, <1>5 DEF Clock
<1>13. CASE again
  <2>1. PICK b : b = P!With(at, l, tlist.count[l], t)
    OBVIOUS
  <2> HIDE DEF l
  <2>2. tlist' = Push(tlist, l, t) /\ ~Linked(tlist, t)
    BY <1>3, <1>4, <1>13, SameOperations
  <2>3. /\ Lists(tlist', b)
        /\ \A u \in TimerId : tlist'.owner[u] = IF u = t THEN l ELSE tlist.owner[u]
    BY <1>1, <1>4, <1>8, <2>1, <2>2, PushFacts
  <2>4. TypeOK'
    BY <1>3, <1>5, <1>11, <2>3, ListTypes DEF TypeOK
  <2>5. Books'
    <3>1. Live' = Live
      BY <1>4, <1>7, <1>10, <1>13, ThingsDiffer DEF Live
    <3>2. None \notin TimerId /\ None \notin SlotList
      BY WheelAssumption, ThingsDiffer
    <3>3. \A u \in TimerId : tlist'.owner[u] # None <=> u \in Live' \ {proc'.running}
      BY <1>2, <1>3, <1>4, <1>5, <1>8, <2>3, <3>1, <3>2 DEF Books
    <3>4. \A u \in Live' : ~timers'[u].destroyed
      BY <1>2, <1>3, <1>7, <1>10, <1>13, <3>1 DEF Books, Live
    <3> QED BY <1>3, <1>4, <1>5, <3>1, <3>3, <3>4 DEF Books, InSlot
  <2>6. ASSUME AppDoes = {} PROVE Timing(tlist', b, cur, lasttick, timers', proc')
    <3>1. Clock /\ Timing(tlist, at, cur, lasttick, timers, proc)
      BY <1>1, <2>6 DEF CalmTiming
    <3>2. OnTimeIn(l, cur, lasttick, proc', timers'[t])
      <4>1. /\ r \in Timer /\ r.expire = next
            /\ (~r.wraps => lasttick \div Width = next \div Width)
        BY <1>7, <1>13 DEF Wraps
      <4>2. /\ UntilTurn(cur, proc') \in Nat /\ UntilTurn(cur, proc') <= WheelSize[1]
            /\ UntilDay(cur, proc') \in Nat /\ UntilDay(cur, proc') <= WheelSize[1] * WheelSize[2]
            /\ cur \in Positions /\ InSlots(cur) /\ cur[2] >= 0 /\ cur[3] >= 0
        BY <1>3, PositionTypes, UntilBounds DEF Books
      <4>3. next <= lasttick + MAX_TIMEOUT + MaxLag
        BY <1>4, <1>6, Sizes
      <4> HIDE DEF next
      <4>4. OnTime(l, cur, lasttick, UntilTurn(cur, proc'), UntilDay(cur, proc'), r)
        BY <1>4, <1>6, <4>1, <4>2, <4>3, RegOnTime DEF l
      <4> QED BY <1>4, <1>10, <1>13, <4>4 DEF OnTimeIn
    <3>3. \A u \in TimerId : tlist.owner[u] # None => timers'[u] = timers[u]
      BY <1>4, <1>10
    <3>4. InSlot(proc) => <<1, cur[1]>> \in SlotList
      BY <1>3, <1>4, PositionTypes
    <3>5. proc'.at # "callback"
      BY <1>5
    <3> QED BY <1>1, <1>4, <1>5, <1>8, <1>9, <2>1, <2>2, <3>1, <3>2, <3>3, <3>4, <3>5, AddKeepsTiming
  <2>7. CalmTiming(b)'
    BY <1>1, <1>3, <1>12, <2>6 DEF CalmTiming
  <2> QED BY <2>3, <2>4, <2>5, <2>7 DEF WheelInv
<1>14. CASE ~again
  <2>1. tlist' = tlist
    BY <1>3, <1>14
  <2>2. TypeOK'
    BY <1>3, <1>5, <1>11, <2>1 DEF TypeOK
  <2>3. Books'
    <3>1. Live' = Live \ {t}
      BY <1>10, <1>14 DEF Live
    <3>2. None \notin TimerId
      BY WheelAssumption
    <3>3. \A u \in TimerId : tlist'.owner[u] # None <=> u \in Live' \ {proc'.running}
      BY <1>2, <1>3, <1>5, <2>1, <3>1, <3>2 DEF Books
    <3>4. \A u \in Live' : ~timers'[u].destroyed
      BY <1>2, <1>3, <1>10, <3>1 DEF Books, Live
    <3> QED BY <1>3, <1>4, <1>5, <3>1, <3>3, <3>4 DEF Books, InSlot
  <2>4. ASSUME AppDoes = {} PROVE Timing(tlist, at, cur, lasttick, timers', proc')
    <3>1. Timing(tlist, at, cur, lasttick, timers, proc)
      BY <1>1, <2>4 DEF CalmTiming
    <3> DEFINE slot == <<1, cur[1]>>
    <3>2. slot \in SlotList /\ Due(proc) <= tlist.count[slot] /\ tlist.count[slot] \in Nat
      <4>1. slot \in SlotList
        BY <1>3, <1>4, PositionTypes
      <4> QED BY <1>1, <1>9, <3>1, <4>1, ListTypes DEF Timing
    <3>3. \A i \in 1..Due(proc) : /\ i \in 1..tlist.count[slot] /\ at[slot][i] \in TimerId
                                  /\ tlist.owner[at[slot][i]] # None
      <4> HIDE DEF slot
      <4>1. \A i \in 1..Due(proc) : i \in 1..tlist.count[slot]
        BY <1>9, <3>2
      <4> QED BY <1>1, <3>2, <4>1, ListTypes, ThingsDiffer
    <3>4. \A u \in TimerId : tlist.owner[u] # None => timers'[u] = timers[u]
      BY <1>4, <1>10
    <3>5. \A i \in 1..Due(proc') : Fits(timers'[at[slot][i]], lasttick)
      BY <1>9, <3>1, <3>3, <3>4 DEF Timing
    <3>6. \A u \in TimerId : tlist.owner[u] # None =>
            \/ \E i \in 1..Due(proc') : at[slot][i] = u
            \/ OnTimeIn(tlist.owner[u], cur, lasttick, proc', timers'[u])
      BY <1>9, <3>1, <3>4 DEF Timing, OnTimeIn
    <3> QED BY <1>5, <1>9, <3>2, <3>5, <3>6 DEF Timing
  <2>5. CalmTiming(at)'
    BY <1>1, <1>3, <1>12, <2>1, <2>4 DEF CalmTiming
  <2> QED BY <1>1, <2>1, <2>2, <2>3, <2>5 DEF WheelInv
<1> QED BY <1>13, <1>14

\* A turn of level w brings every timer of that level one slot nearer, and
\* those of one slot have not expired yet.
LEMMA TurnKeepsPlace ==
  ASSUME NEW c \in Positions, InSlots(c), NEW l \in SlotList, NEW tick \in Nat, NEW r \in Timer,
         NEW w \in {2, 3}, NEW r2 \in Nat, NEW r3 \in Nat, OnTime(l, c, tick, r2, r3, r),
         c[w] >= 0, w = 2 => r2 = 0, w = 3 => r3 = 0,
         NEW s2, s2 = (IF w = 2 THEN WheelSize[1] ELSE r2),
         NEW s3, s3 = (IF w = 3 THEN WheelSize[1] * WheelSize[2] ELSE r3)
  PROVE  IF l = <<w, Advance(c, w)[w]>> THEN Pending(r, tick, 0)
         ELSE OnTime(l, Advance(c, w), tick, s2, s3, r)
<1> DEFINE e == Advance(c, w)
           P2 == WheelSize[1]
           P3 == WheelSize[1] * WheelSize[2]
           period == IF w = 2 THEN P2 ELSE P3
<1>1. /\ e[w] = IF c[w] + 1 = WheelSize[w] THEN 0 ELSE c[w] + 1
      /\ \A v \in {1, 2, 3} \ {w} : e[v] = c[v]
  <2>1. w \in Level /\ {1, 2, 3} \ {w} = Level \ {w}
    BY DEF Level
  <2> HIDE DEF e
  <2> QED BY <2>1, AdvanceIs DEF e
<1>2. l = <<l[1], l[2]>> /\ l[1] \in {1, 2, 3} /\ l[2] \in 0..(WheelSize[l[1]] - 1)
  BY SlotListIs
<1>3. PICK d \in 1..WheelSize[l[1]] :
        /\ l[2] = c[l[1]] + d \/ l[2] = c[l[1]] + d - WheelSize[l[1]]
        /\ l[1] = 1 => Fits(r, tick + d)
        /\ l[1] = 2 => Pending(r, tick, r2 + (d - 1) * P2)
        /\ l[1] = 3 => Pending(r, tick, r3 + (d - 1) * P3)
  BY DEF OnTime
<1> HIDE DEF e
<1>4. c[w] \in 0..(WheelSize[w] - 1) /\ WheelSize[w] \in Nat /\ WheelSize[w] >= 2
  <2>1. w \in Level
    BY DEF Level
  <2> QED BY <2>1, Sizes DEF Positions, InSlots, Slot
<1>5. P2 \in Nat /\ P3 \in Nat
  BY Sizes
<1> HIDE DEF P2, P3
<1>6. CASE l[1] = w
  <2>1. d \in 1..WheelSize[w] /\ l[2] \in 0..(WheelSize[w] - 1)
        /\ (l[2] = c[w] + d \/ l[2] = c[w] + d - WheelSize[w])
        /\ Pending(r, tick, (d - 1) * period)
    <3>1. (d - 1) * P2 \in Nat /\ (d - 1) * P3 \in Nat
      BY <1>3, <1>5
    <3>2. 0 + (d - 1) * P2 = (d - 1) * P2 /\ 0 + (d - 1) * P3 = (d - 1) * P3
      BY <3>1
    <3> QED BY <1>2, <1>3, <1>6, <3>2
  <2>2. CASE d = 1
    <3>1. l[2] = e[w]
      BY <1>1, <1>4, <2>1, <2>2
    <3>2. (d - 1) * period = 0
      BY <1>5, <2>2
    <3> QED BY <1>2, <1>6, <2>1, <3>1, <3>2 DEF e
  <2>3. CASE d # 1
    <3>1. d - 1 \in 1..WheelSize[w]
      BY <1>4, <2>1, <2>3
    <3>2. l[2] = e[w] + (d - 1) \/ l[2] = e[w] + (d - 1) - WheelSize[w]
      BY <1>1, <1>4, <2>1, <2>3
    <3>3. l[2] # e[w]
      BY <1>4, <2>1, <3>1, <3>2, <1>1
    <3>4. period + ((d - 1) - 1) * period = (d - 1) * period
      <4>1. period \in Int /\ d - 1 \in Int
        BY <1>5, <2>1
      <4> DEFINE k == d - 1
      <4> HIDE DEF period, k
      <4>2. k \in Int
        BY <4>1 DEF k
      <4>3. period + (k - 1) * period = k * period
        BY <4>1, <4>2
      <4> QED BY <4>3 DEF k
    <3>5. /\ w = 2 => Pending(r, tick, s2 + ((d - 1) - 1) * P2)
          /\ w = 3 => Pending(r, tick, s3 + ((d - 1) - 1) * P3)
      BY <2>1, <3>4 DEF P2, P3
    <3>6. OnTime(l, e, tick, s2, s3, r)
      BY <1>6, <3>1, <3>2, <3>5 DEF OnTime, P2, P3
    <3>7. l # <<w, e[w]>>
      BY <3>3
    <3> QED BY <3>6, <3>7 DEF e
  <2> QED BY <2>2, <2>3
<1>7. CASE l[1] # w
  <2>1. e[l[1]] = c[l[1]] /\ l # <<w, e[w]>>
    BY <1>1, <1>2, <1>7
  <2>2. (l[1] = 2 => s2 = r2) /\ (l[1] = 3 => s3 = r3)
    BY <1>7
  <2>3. OnTime(l, e, tick, s2, s3, r)
    BY <1>3, <2>1, <2>2 DEF OnTime, P2, P3
  <2> QED BY <2>1, <2>3 DEF e
<1> QED BY <1>6, <1>7

\* What a turn of a level, and moving its slot down, leaves of the lists.
LEMMA TurnKeepsLists ==
  ASSUME NEW L, NEW at, Lists(L, at), NEW c \in Positions, InSlots(c), NEW w \in {2, 3},
         lasttick \in Nat,
         \A t \in TimerId : L.owner[t] # None => timers[t] \in Timer
  PROVE  LET M == MoveDown(L, Advance(c, w), w)
         IN  SameLinked(L, M) /\ \E b : Lists(M, b)
<1> DEFINE e == Advance(c, w)
           OK == TimerId \X SlotList
<1>1. w \in Level
  BY DEF Level
<1>2. e \in Positions /\ <<w, e[w]>> \in SlotList
  BY <1>1, AdvanceIs
<1> HIDE DEF e
<1>3. ASSUME NEW t \in TimerId, L.owner[t] # None
      PROVE  /\ <<t, SlotFor(e, timers[t].expire, lasttick)>> \in OK
             /\ <<t, L.owner[t]>> \in OK
  <2>1. timers[t].expire \in Nat
    BY <1>3, TimerFields
  <2>2. L.owner[t] \in SlotList
    BY <1>3, ListTypes
  <2> QED BY <1>2, <2>1, <2>2, SlotForType
<1> HIDE DEF OK
<1>4. OK \subseteq TimerId \X SlotList
  BY DEF OK
<1>5. SameLinked(L, MoveDown(L, e, w)) /\ \E b : Lists(MoveDown(L, e, w), b)
  BY <1>1, <1>2, <1>3, <1>4, MoveDownKeeps
<1> QED BY <1>5 DEF e

\* Where timers hang on time, they do so after the turn too.
LEMMA TurnKeepsOnTime ==
  ASSUME NEW L, NEW at, Lists(L, at), NEW c \in Positions, InSlots(c), NEW w \in {2, 3},
         c[2] >= 0, c[3] >= 0, lasttick \in Nat,
         \A t \in TimerId : L.owner[t] # None => timers[t] \in Timer,
         NEW r2 \in Nat, r2 <= WheelSize[1],
         NEW r3 \in Nat, r3 <= WheelSize[1] * WheelSize[2],
         w = 2 => r2 = 0, w = 3 => r3 = 0,
         \A t \in TimerId : L.owner[t] # None => OnTime(L.owner[t], c, lasttick, r2, r3, timers[t]),
         NEW s2, s2 = (IF w = 2 THEN WheelSize[1] ELSE r2),
         NEW s3, s3 = (IF w = 3 THEN WheelSize[1] * WheelSize[2] ELSE r3)
  PROVE  LET M == MoveDown(L, Advance(c, w), w)
         IN  \A t \in TimerId : M.owner[t] # None =>
               OnTime(M.owner[t], Advance(c, w), lasttick, s2, s3, timers[t])
<1> DEFINE e == Advance(c, w)
           OK == {x \in TimerId \X SlotList : OnTime(x[2], e, lasttick, s2, s3, timers[x[1]])}
<1>1. w \in Level
  BY DEF Level
<1>2. /\ e \in Positions /\ InSlots(e) /\ <<w, e[w]>> \in SlotList /\ e[2] >= 0 /\ e[3] >= 0
  <2>1. 2 \in Level /\ 3 \in Level
    BY DEF Level
  <2> HIDE DEF e
  <2>2. /\ e \in Positions /\ InSlots(e) /\ e[w] >= 0 /\ <<w, e[w]>> \in SlotList
        /\ \A v \in Level \ {w} : e[v] = c[v]
    BY <1>1, AdvanceIs DEF e
  <2> QED BY <2>1, <2>2
<1>3. s2 \in Nat /\ s2 <= WheelSize[1] /\ s3 \in Nat /\ s3 <= WheelSize[1] * WheelSize[2]
  BY Sizes
<1> HIDE DEF e
<1>4. ASSUME NEW t \in TimerId, L.owner[t] # None
      PROVE  IF L.owner[t] = <<w, e[w]>> THEN <<t, SlotFor(e, timers[t].expire, lasttick)>> \in OK
             ELSE <<t, L.owner[t]>> \in OK
  <2>1. L.owner[t] \in SlotList /\ timers[t] \in Timer
    BY <1>4, ListTypes
  <2>2. IF L.owner[t] = <<w, e[w]>> THEN Pending(timers[t], lasttick, 0)
        ELSE OnTime(L.owner[t], e, lasttick, s2, s3, timers[t])
    BY <1>4, <2>1, TurnKeepsPlace DEF e
  <2>3. CASE L.owner[t] = <<w, e[w]>>
    <3>1. /\ lasttick < timers[t].expire /\ timers[t].expire <= lasttick + MAX_TIMEOUT + MaxLag
          /\ ~timers[t].wraps => lasttick \div Width = timers[t].expire \div Width
          /\ timers[t].expire \in Nat
      BY <2>1, <2>2, <2>3, TimerFields DEF Pending
    <3>2. OnTime(SlotFor(e, timers[t].expire, lasttick), e, lasttick, s2, s3, timers[t])
      BY <1>2, <1>3, <2>1, <3>1, RegOnTime
    <3>3. SlotFor(e, timers[t].expire, lasttick) \in SlotList
      BY <1>2, <3>1, SlotForType
    <3> QED BY <2>3, <3>2, <3>3
  <2>4. CASE L.owner[t] # <<w, e[w]>>
    BY <2>1, <2>2, <2>4
  <2> QED BY <2>3, <2>4
<1>5. OK \subseteq TimerId \X SlotList
  OBVIOUS
<1>6. \A t \in TimerId : MoveDown(L, e, w).owner[t] # None => <<t, MoveDown(L, e, w).owner[t]>> \in OK
  <2> HIDE DEF OK
  <2> QED BY <1>1, <1>2, <1>4, <1>5, MoveDownKeeps
<1>7. \A t \in TimerId : MoveDown(L, e, w).owner[t] # None =>
        OnTime(MoveDown(L, e, w).owner[t], e, lasttick, s2, s3, timers[t])
  BY <1>6
<1> QED BY <1>7 DEF e

LEMMA EndsKeepsWheel ==
  ASSUME WheelInv, SlotEnds PROVE WheelInv'
<1>1. PICK at : Lists(tlist, at) /\ CalmTiming(at)
  BY DEF WheelInv
<1> DEFINE W1 == WheelSize[1]
           W2 == WheelSize[2]
           c2 == Advance(cur, 2)
           l2 == MoveDown(tlist, c2, 2)
           c3 == Advance(c2, 3)
           l3 == MoveDown(l2, c3, 3)
           Good(L, c) == \A t \in TimerId : L.owner[t] # None =>
                           OnTimeIn(L.owner[t], c, lasttick, proc', timers[t])
<1>2. /\ proc.at = "slot" /\ proc.left = 0 /\ FireAbove /\ proc' = [proc EXCEPT !.at = "loop"]
      /\ UNCHANGED <<now, registered, lasttick, timers>> /\ TypeOK /\ Books
  BY DEF SlotEnds, WheelInv
<1>3. /\ proc' \in Proc /\ proc'.at = "loop" /\ proc'.left = 0 /\ proc'.running = None
      /\ proc'.target = proc.target /\ proc.running = None
  BY <1>2 DEF Proc, TypeOK, Books
<1>4. /\ cur \in Positions /\ InSlots(cur) /\ cur[1] \in 0..(W1 - 1) /\ cur[2] \in 0..(W2 - 1)
      /\ cur[3] >= 0 /\ lasttick \in Nat
      /\ W1 \in Nat /\ W2 \in Nat /\ W1 >= 2 /\ W2 >= 2
  BY <1>2, PositionTypes, Sizes DEF Books, InSlot, TypeOK
<1>5. \A t \in TimerId : tlist.owner[t] # None => timers[t] \in Timer
  BY <1>2, LiveFields DEF Books
<1>6. /\ c2 \in Positions /\ InSlots(c2) /\ c2[1] = cur[1] /\ c2[3] = cur[3] /\ c2[2] >= 0
      /\ c2[2] = IF cur[2] + 1 = W2 THEN 0 ELSE cur[2] + 1
  <2>1. 2 \in Level /\ 1 \in Level \ {2} /\ 3 \in Level \ {2}
    BY DEF Level
  <2> HIDE DEF c2
  <2> QED BY <1>4, <2>1, AdvanceIs DEF c2
<1>7. /\ c3 \in Positions /\ InSlots(c3) /\ c3[1] = cur[1] /\ c3[2] = c2[2] /\ c3[3] >= 0
  <2>1. 3 \in Level /\ 1 \in Level \ {3} /\ 2 \in Level \ {3}
    BY DEF Level
  <2> HIDE DEF c2, c3
  <2> QED BY <1>6, <2>1, AdvanceIs DEF c3
<1>8. SameLinked(tlist, l2) /\ \E b : Lists(l2, b)
  BY <1>1, <1>4, <1>5, TurnKeepsLists
<1>9. SameLinked(l2, l3) /\ \E b : Lists(l3, b)
  <2> HIDE DEF c2, l2
  <2>1. PICK b : Lists(l2, b)
    BY <1>8
  <2>2. \A t \in TimerId : l2.owner[t] # None => timers[t] \in Timer
    BY <1>5, <1>8 DEF SameLinked
  <2> QED BY <1>4, <1>6, <2>1, <2>2, TurnKeepsLists
<1>10. ASSUME AppDoes = {}
       PROVE  /\ Clock'
              /\ ~Turns(cur, 1) => Good(tlist, cur)
              /\ Turns(cur, 1) /\ ~Turns(c2, 2) => Good(l2, c2)
              /\ Turns(cur, 1) /\ Turns(c2, 2) => Good(l3, c3)
  <2>1. Clock /\ Timing(tlist, at, cur, lasttick, timers, proc)
    BY <1>1, <1>10 DEF CalmTiming
  <2>2. Clock'
    BY <1>2, <1>3, <2>1 DEF Clock
  <2> DEFINE r2 == UntilTurn(cur, proc)
             r3 == UntilDay(cur, proc)
             m(c) == (IF c[2] = W2 - 1 THEN W2 - 1 ELSE W2 - 2 - c[2])
  <2>3. \A t \in TimerId : tlist.owner[t] # None =>
          OnTime(tlist.owner[t], cur, lasttick, r2, r3, timers[t])
    <3>1. Due(proc) = 0
      BY <1>2 DEF Due
    <3> QED BY <2>1, <3>1 DEF Timing, OnTimeIn
  <2>4. /\ r2 \in Nat /\ r2 <= W1 /\ r3 \in Nat /\ r3 <= W1 * W2
        /\ r2 = W1 - 1 - cur[1]
        /\ r3 = r2 + m(cur) * W1
    <3>1. r2 = W1 - 1 - cur[1] /\ r3 = r2 + m(cur) * W1
      BY <1>2 DEF UntilTurn, UntilDay, InSlot
    <3>2. cur[1] \in -1..(WheelSize[1] - 1) /\ cur[2] \in 0..(WheelSize[2] - 1)
      BY <1>4
    <3>3. /\ r2 \in Nat /\ r2 <= W1 /\ r3 \in Nat /\ r3 <= W1 * W2
      <4> HIDE DEF m
      <4> QED BY <3>2, UntilBounds
    <3> QED BY <3>1, <3>3
  <2>5. CASE ~Turns(cur, 1)
    <3>1. UntilTurn(cur, proc') = r2 /\ UntilDay(cur, proc') = r3
      BY <1>2, <1>4, <2>5 DEF UntilTurn, UntilDay, Turns, InSlot
    <3> HIDE DEF r2, r3
    <3> QED BY <2>2, <2>3, <2>5, <3>1 DEF OnTimeIn
  <2>6. CASE Turns(cur, 1)
    <3>1. cur[1] = W1 - 1 /\ r2 = 0
      BY <1>4, <2>4, <2>6 DEF Turns
    <3> HIDE DEF r2, r3, m
    <3>2. \A t \in TimerId : l2.owner[t] # None => OnTime(l2.owner[t], c2, lasttick, W1, r3, timers[t])
      <4>1. cur[2] >= 0 /\ 2 \in {2, 3}
        BY <1>4
      <4> QED BY <1>1, <1>4, <1>5, <2>3, <2>4, <3>1, <4>1, TurnKeepsOnTime
    <3> HIDE DEF c2, l2, c3, l3
    <3>3. UntilTurn(c2, proc') = W1 /\ UntilTurn(c3, proc') = W1
      BY <1>3, <1>6, <1>7, <3>1 DEF UntilTurn, InSlot
    <3>4. UntilDay(c2, proc') = W1 + m(c2) * W1 /\ UntilDay(c3, proc') = W1 + m(c2) * W1
      BY <1>7, <3>3 DEF UntilDay, m
    <3>5. CASE ~Turns(c2, 2)
      <4>1. m(c2) + 1 = m(cur) /\ m(c2) \in Nat
        BY <1>4, <1>6, <3>5 DEF m, Turns
      <4>2. W1 + m(c2) * W1 = m(cur) * W1 /\ m(cur) * W1 \in Nat
        <5> DEFINE k == m(c2)
        <5> HIDE DEF k
        <5>1. k \in Nat /\ m(cur) = k + 1
          BY <4>1 DEF k
        <5>2. W1 + k * W1 = (k + 1) * W1 /\ (k + 1) * W1 \in Nat
          <6>1. ASSUME NEW a \in Nat, NEW n \in Nat
                PROVE  a + n * a = (n + 1) * a /\ (n + 1) * a \in Nat
            OBVIOUS
          <6> QED BY <1>4, <5>1, <6>1
        <5> QED BY <5>1, <5>2 DEF k
      <4>3. UntilDay(c2, proc') = r3
        BY <2>4, <3>1, <3>4, <4>2
      <4> QED BY <2>2, <2>6, <3>2, <3>3, <3>5, <4>3 DEF OnTimeIn
    <3>6. CASE Turns(c2, 2)
      <4>1. m(cur) = 0 /\ m(c2) = W2 - 1
        BY <1>4, <1>6, <3>6 DEF m, Turns
      <4>2. r3 = 0
        BY <1>4, <2>4, <3>1, <4>1
      <4>3. UntilDay(c3, proc') = W1 * W2
        <5>1. W1 + (W2 - 1) * W1 = W1 * W2
          BY <1>4
        <5> QED BY <3>4, <4>1, <5>1
      <4>4. \A t \in TimerId : l2.owner[t] # None => timers[t] \in Timer
        BY <1>5, <1>8 DEF SameLinked
      <4>5. PICK b : Lists(l2, b)
        BY <1>8
      <4>6. c2[3] >= 0 /\ W1 \in Nat /\ W1 <= WheelSize[1] /\ 0 \in Nat /\ 0 <= WheelSize[1] * WheelSize[2]
            /\ 3 \in {2, 3}
        BY <1>4, <1>6, Sizes
      <4>7. \A t \in TimerId : l3.owner[t] # None =>
              OnTime(l3.owner[t], c3, lasttick, W1, W1 * W2, timers[t])
        BY <1>4, <1>6, <3>2, <4>2, <4>4, <4>5, <4>6, TurnKeepsOnTime DEF c3, l3
      <4> QED BY <2>2, <2>6, <3>3, <3>6, <4>3, <4>7 DEF OnTimeIn
    <3> QED BY <3>5, <3>6
  <2> QED BY <2>5, <2>6
<1> HIDE DEF c2, l2, c3, l3, W1, W2
<1>11. \/ ~Turns(cur, 1) /\ cur' = cur /\ tlist' = tlist
       \/ Turns(cur, 1) /\ ~Turns(c2, 2) /\ cur' = c2 /\ tlist' = l2
       \/ Turns(cur, 1) /\ Turns(c2, 2) /\ cur' = c3 /\ tlist' = l3
  BY <1>2 DEF FireAbove, c2, l2, c3, l3
<1>12. /\ cur' \in Positions /\ InSlots(cur') /\ cur'[1] >= 0 /\ cur'[2] >= 0 /\ cur'[3] >= 0
       /\ SameLinked(tlist, tlist') /\ \E b : Lists(tlist', b)
       /\ AppDoes = {} => Clock' /\ Good(tlist', cur')
  <2>1. SameLinked(tlist, tlist)
    BY DEF SameLinked
  <2>2. SameLinked(tlist, l3)
    BY <1>8, <1>9 DEF SameLinked
  <2>3. cur[1] >= 0 /\ cur[2] >= 0
    BY <1>4
  <2> HIDE DEF Good
  <2> QED BY <1>1, <1>4, <1>6, <1>7, <1>8, <1>9, <1>10, <1>11, <2>1, <2>2, <2>3
<1>13. PICK b : Lists(tlist', b)
  BY <1>12
<1>14. TypeOK'
  <2>1. cur' \in [Level -> Int] /\ \A w \in Level : cur'[w] \in Slot(w) \cup {-1}
    BY <1>12 DEF Positions, InSlots
  <2> QED BY <1>2, <1>3, <1>13, <2>1, ListTypes DEF TypeOK
<1>15. Books'
  <2>1. Live' = Live
    BY <1>2 DEF Live
  <2>2. \A t \in TimerId : tlist'.owner[t] # None <=> t \in Live' \ {proc'.running}
    BY <1>2, <1>3, <1>12, <2>1 DEF Books, SameLinked
  <2> QED BY <1>2, <1>3, <1>12, <2>1, <2>2 DEF Books, InSlot
<1>16. ASSUME AppDoes = {} PROVE Timing(tlist', b, cur', lasttick, timers, proc')
  <2>1. Due(proc') = 0 /\ ~InSlot(proc') /\ proc'.at # "callback"
    BY <1>3 DEF Due, InSlot
  <2> QED BY <1>12, <1>16, <2>1 DEF Timing
<1>17. CalmTiming(b)'
  BY <1>2, <1>12, <1>16 DEF CalmTiming
<1> QED BY <1>13, <1>14, <1>15, <1>17 DEF WheelInv

LEMMA NextWheel == WheelInv /\ [Next]_vars => WheelInv'
<1> SUFFICES ASSUME WheelInv, [Next]_vars PROVE WheelInv'
  OBVIOUS
<1>1. ASSUME NEW t \in TimerId, NEW timeout \in Timeouts, NEW interval \in Intervals, NEW n \in Repeats,
             RegisterTimer(t, timeout, IF n = 1 THEN timeout ELSE interval, n)
      PROVE  WheelInv'
  <2>1. timeout \in Nat /\ (IF n = 1 THEN timeout ELSE interval) \in Nat /\ n \in Nat
    BY WheelAssumption
  <2> QED BY <1>1, <2>1, RegisterKeepsWheel
<1>2. ASSUME NEW t \in TimerId, DestroyTimer(t) PROVE WheelInv'
  BY <1>2, DestroyKeepsWheel
<1>3. CASE ProcStarts
  BY <1>3, ProcStartsKeepsWheel
<1>4. CASE ProcEnds
  BY <1>4, ProcEndsKeepsWheel
<1>5. CASE TickStarts
  BY <1>5, TickKeepsWheel
<1>6. CASE TimerFires
  BY <1>6, FiresKeepsWheel
<1>7. CASE CallbackReturns
  BY <1>7, ReturnKeepsWheel
<1>8. CASE SlotEnds
  BY <1>8, EndsKeepsWheel
<1>9. CASE ClockAdvances \/ ClockStepsBack
  BY <1>9, ClockKeepsWheel
<1>10. CASE UNCHANGED vars
  BY <1>10 DEF vars, WheelInv, TypeOK, Books, Live, CalmTiming, Clock
<1> QED BY <1>1, <1>2, <1>3, <1>4, <1>5, <1>6, <1>7, <1>8, <1>9, <1>10 DEF Next

\* The wheel keeps its types, whatever callbacks do and however the clock moves.
THEOREM WheelIsTyped == Spec => []TypeOK
<1>1. WheelInv => TypeOK
  BY DEF WheelInv
<1> QED BY InitWheel, NextWheel, <1>1, PTL DEF Spec

\* Going along a list from its head meets the cells in order.
LEMMA NthIsPlace ==
  ASSUME NEW at, Lists(tlist, at), NEW l \in SlotList
  PROVE  \A n \in 0..(tlist.count[l] + 1) : Nth(l)[n] = at[l][n]
<1>1. P!Chain(tlist, at[l], l) /\ at[l] \in [Nat -> Cell] /\ P!Cell = Cell
  BY DEF Lists, P!InOrder, P!Cell, Cell
<1>2. Nth(l) = CHOOSE g : g = [n \in 0..(tlist.count[l] + 1) |-> IF n = 0 THEN l ELSE tlist.next[g[n - 1]]]
  BY DEF Nth
<1> QED BY <1>1, <1>2, P!WalkIsChain

LEMMA ListsFollow == WheelInv => ListsMatchTimers
<1> SUFFICES ASSUME WheelInv PROVE ListsMatchTimers
  OBVIOUS
<1>1. PICK at : Lists(tlist, at)
  BY DEF WheelInv
<1>2. Sound(tlist)
  <2>1. P!Sound(tlist)
    BY <1>1, ThingsAreDistinct, P!OrderIsSound DEF Lists
  <2> QED BY <2>1, SameOperations
<1>3. ASSUME NEW l \in SlotList
      PROVE  /\ {Nth(l)[n] : n \in 1..tlist.count[l]} = {t \in TimerId : tlist.owner[t] = l}
             /\ Nth(l)[tlist.count[l] + 1] = l
  <2>1. tlist.count[l] \in Nat /\ at[l][tlist.count[l] + 1] = l
    BY <1>1 DEF Lists, P!InOrder, P!Chain
  <2>2. {at[l][n] : n \in 1..tlist.count[l]} = {t \in TimerId : tlist.owner[t] = l}
    BY <1>1, ThingsAreDistinct, P!OwnedInChain DEF Lists
  <2>3. \A n \in 1..tlist.count[l] : n \in 0..(tlist.count[l] + 1) /\ Nth(l)[n] = at[l][n]
    BY <1>1, <2>1, NthIsPlace
  <2>4. tlist.count[l] + 1 \in 0..(tlist.count[l] + 1)
    BY <2>1
  <2>5. Nth(l)[tlist.count[l] + 1] = at[l][tlist.count[l] + 1]
    BY <1>1, <2>4, NthIsPlace
  <2> QED BY <2>1, <2>2, <2>3, <2>5
<1>4. {t \in TimerId : Linked(tlist, t)} = Live \ {proc.running}
  BY SameOperations DEF WheelInv, Books, Live
<1> QED BY <1>2, <1>3, <1>4 DEF ListsMatchTimers

\* No list holds a pointer to a deleted timer and no timer is lost, for any
\* number of timers, whatever callbacks register and destroy.
THEOREM ListsHoldLiveTimers == Spec => []ListsMatchTimers
BY InitWheel, NextWheel, ListsFollow, PTL DEF Spec

\* A timer destroyed in its callback does not outlive it (svr_timer.h:139).
THEOREM DestroyedTimersEnd == Spec => []DestroyTakesEffect
<1>1. WheelInv => DestroyTakesEffect
  BY DEF WheelInv, Books, DestroyTakesEffect, GetRemainNum
<1> QED BY InitWheel, NextWheel, <1>1, PTL DEF Spec

\* With AppDoes empty, the invariant gives every timer its time.
LEMMA TimesFollow == AppDoes = {} /\ WheelInv => FiresOnTime /\ NearlyOnTime
<1> SUFFICES ASSUME AppDoes = {}, WheelInv, NEW t \in Live
             PROVE  /\ ~timers[t].wraps =>
                         \/ proc.running = t /\ lasttick = GetExpireMs(t) /\ GetRemainMs(t) = 0
                         \/ proc.running # t /\ lasttick < GetExpireMs(t)
                         \/ proc.at \in {"slot", "callback"} /\ lasttick = GetExpireMs(t)
                    /\ proc.running = t => lasttick >= GetExpireMs(t) - 1
                    /\ lasttick < GetExpireMs(t) + WheelSize[1]
  BY DEF FiresOnTime, NearlyOnTime
<1> DEFINE r == timers[t]
<1>1. PICK at : Lists(tlist, at) /\ Clock /\ Timing(tlist, at, cur, lasttick, timers, proc)
  BY DEF WheelInv, CalmTiming
<1>2. /\ TypeOK /\ Books /\ t \in TimerId /\ r \in Timer /\ r.expire \in Nat /\ lasttick \in Nat
      /\ now \in Nat /\ GetExpireMs(t) = r.expire /\ proc \in Proc
  BY LiveFields, TimerFields DEF WheelInv, Live, GetExpireMs, TypeOK
<1>3. CASE proc.running = t
  <2>1. proc.at = "callback" /\ lasttick <= now
    BY <1>1, <1>2, <1>3, WheelAssumption DEF Books, Clock
  <2>2. Fits(r, lasttick)
    BY <1>1, <1>3, <2>1 DEF Timing
  <2>3. ~r.wraps => GetRemainMs(t) = 0
    BY <1>2, <2>1, <2>2 DEF Fits, GetRemainMs
  <2> QED BY <1>2, <1>3, <2>2, <2>3, Sizes DEF Fits
<1>4. CASE proc.running # t
  <2>1. tlist.owner[t] # None /\ tlist.owner[t] \in SlotList
    BY <1>1, <1>2, <1>4, ListTypes DEF Books
  <2>2. CASE \E i \in 1..Due(proc) : at[<<1, cur[1]>>][i] = t
    <3>1. Fits(r, lasttick)
      BY <1>1, <2>2 DEF Timing
    <3>2. proc.at \in {"slot", "callback"}
      BY <2>2 DEF Due
    <3> QED BY <1>2, <1>4, <3>1, <3>2, Sizes DEF Fits
  <2>3. CASE OnTimeIn(tlist.owner[t], cur, lasttick, proc, r)
    <3> DEFINE l == tlist.owner[t]
    <3>1. l[1] \in {1, 2, 3}
      BY <2>1, SlotListIs
    <3>2. cur[1] \in -1..(WheelSize[1] - 1) /\ cur[2] \in 0..(WheelSize[2] - 1)
      BY <1>2, PositionTypes, Sizes DEF Books
    <3>3. UntilTurn(cur, proc) \in Nat /\ UntilDay(cur, proc) \in Nat
      BY <3>2, UntilBounds
    <3> HIDE DEF l, r
    <3>4. PICK d \in 1..WheelSize[l[1]] :
            /\ l[1] = 1 => Fits(r, lasttick + d)
            /\ l[1] = 2 => Pending(r, lasttick, UntilTurn(cur, proc) + (d - 1) * WheelSize[1])
            /\ l[1] = 3 => Pending(r, lasttick, UntilDay(cur, proc) + (d - 1) * (WheelSize[1] * WheelSize[2]))
      BY <2>3 DEF OnTimeIn, OnTime, l
    <3>5. WheelSize[l[1]] \in Nat
      BY <3>1, Sizes
    <3>6. (~r.wraps => lasttick < r.expire) /\ lasttick < r.expire + WheelSize[1]
      <4>1. CASE l[1] = 1
        BY <1>2, <3>4, <3>5, <4>1, Sizes DEF Fits
      <4>2. CASE l[1] # 1
        <5>1. /\ (d - 1) * WheelSize[1] \in Nat /\ (d - 1) * (WheelSize[1] * WheelSize[2]) \in Nat
          <6>1. ASSUME NEW a \in Nat, NEW b \in Nat PROVE a * b \in Nat
            OBVIOUS
          <6>2. d - 1 \in Nat /\ WheelSize[1] \in Nat /\ WheelSize[1] * WheelSize[2] \in Nat
            BY <3>5, Sizes
          <6> QED BY <6>1, <6>2
        <5>2. \E wait \in Nat : Pending(r, lasttick, wait)
          <6>1. ASSUME NEW a \in Nat, NEW b \in Nat PROVE a + b \in Nat
            OBVIOUS
          <6> QED BY <3>1, <3>3, <3>4, <4>2, <5>1, <6>1
        <5>3. lasttick < r.expire
          BY <1>2, <5>2 DEF Pending
        <5> QED BY <1>2, <5>3, Sizes
      <4> QED BY <4>1, <4>2
    <3> QED BY <1>2, <1>4, <3>6 DEF r
  <2> QED BY <1>1, <1>2, <2>1, <2>2, <2>3 DEF Timing
<1> QED BY <1>3, <1>4

\* Timers fire on the tick they expire, whatever level they come from and
\* however far Proc is behind, as long as callbacks leave the timers of their
\* own slot alone and the clock is not set back (svr_timer.cpp).
THEOREM TimersFireOnTime ==
  ASSUME AppDoes = {}
  PROVE Spec => []FiresOnTime
<1>1. WheelInv => FiresOnTime
  BY TimesFollow
<1> QED BY InitWheel, NextWheel, <1>1, PTL DEF Spec

\* Also those whose life sees the milliseconds wrap: a tick early or at most
\* one turn of the first level late.
THEOREM TimersFireNearlyOnTime ==
  ASSUME AppDoes = {}
  PROVE Spec => []NearlyOnTime
<1>1. WheelInv => NearlyOnTime
  BY TimesFollow
<1> QED BY InitWheel, NextWheel, <1>1, PTL DEF Spec
=============================================================================
