----------------------------- MODULE ClockProofs -----------------------------
(***************************************************************************)
(* Proofs about Clock, for every hour, every day and every wait.           *)
(***************************************************************************)
EXTENDS Clock, TLAPS

\* getTime() (clockTime.c:49) corrects an hour before 3 once, which is enough:
\* the hour it writes is one of a day and the one at UTC - 3.
THEOREM LocalHourIsRight ==
  ASSUME NEW utc \in 0 .. 23
  PROVE  /\ LocalHour(utc) \in 0 .. 23
         /\ LocalHour(utc) = (utc + 21) % 24
BY SMT DEF LocalHour

\* getTime() (clockTime.c:53) takes one from the day after 21 hours: the day is
\* right but in the hour that begins at 21, when it is still the day before at
\* UTC - 3 and the day after at the clock.
THEOREM LocalDayIsRightOutsideAnHour ==
  ASSUME NEW utc \in 0 .. 23, NEW day \in 2 .. 31
  PROVE  LocalDay(utc, day) = TrueDay(utc, day) <=> LocalHour(utc) # 21
BY SMT DEF LocalDay, TrueDay, LocalHour

\* On the first of a month that subtraction gives a day no month has: the
\* month and the year are written as the clock has them (clockTime.c:54).
THEOREM LocalDayCanBeZero ==
  ASSUME NEW utc \in 0 .. 23
  PROVE  LocalDay(utc, 1) \notin 1 .. 31 <=> LocalHour(utc) \in 22 .. 23
BY SMT DEF LocalDay, LocalHour

\* wait() of the kernel (clockTime.c:31) keeps 16 bits of the counter: eleven
\* minutes after boot it waits for nothing.
THEOREM KernelWaitForgets ==
  ASSUME NEW start \in Nat, NEW t \in Nat, NEW n \in 0 .. 65535,
         65536 <= start, start <= t
  PROVE  ~KernelWaits(start, t, n)
BY SMT DEF KernelWaits

\* seconds_elapsed() (clockTime.c:26) divides by the 18 ticks per second of the
\* timer's default, while kernel.c:62 asks for 100: a second lasts less than a
\* fifth of one.
THEOREM SecondsAreShort ==
  ASSUME NEW seconds \in Nat
  PROVE  secondsElapsed(100 * seconds) >= 5 * seconds
BY SMT DEF secondsElapsed

-----------------------------------------------------------------------------
Types ==
  /\ now \in Nat /\ began \in Nat
  /\ dia \in [Fields -> Nat] /\ shown \in [Fields -> Nat]
  /\ toRead \in {Fields, {"minutes", "hours"}, {"hours"}, {}}
  /\ toShow \in Fields \cup {"none"}
  /\ ticks \in Nat /\ aux \in Nat /\ duration \in Nat /\ waiting \in BOOLEAN

\* The numbers shown, and the one read to be shown next, were right at moments
\* that follow one another.
Moments(t1, t2, t3) ==
  /\ began <= t1 /\ t1 <= t2 /\ t2 <= t3 /\ t3 <= now
  /\ toShow = "hours" /\ toRead = {} => dia["hours"] = Local("hours", t1)
  /\ toShow \in {"minutes", "seconds"} => shown["hours"] = Local("hours", t1)
  /\ toShow = "minutes" /\ toRead \in {{"hours"}, {}} => dia["minutes"] = Local("minutes", t2)
  /\ toShow = "seconds" => shown["minutes"] = Local("minutes", t2)
  /\ toShow = "seconds" /\ toRead # Fields => dia["seconds"] = Local("seconds", t3)

InOrder == toShow # "none" => \E t1, t2, t3 \in Nat : Moments(t1, t2, t3)

IInv == Types /\ InOrder

LEMMA LocalTime ==
  ASSUME NEW s \in Nat
  PROVE  /\ Local("hours", s) = (s \div Hour) % 24
         /\ Local("minutes", s) = (s \div Minute) % Minute
         /\ Local("seconds", s) = s % Minute
<1>1. Local("minutes", s) = (s \div Minute) % Minute /\ Local("seconds", s) = s % Minute
  BY DEF Local, RTC
<1>2. Local("hours", s) = LocalHour(((s \div Hour) + 3) % 24)
  BY DEF Local, RTC, Hour
<1>3. s \div Hour \in Nat
  BY SMT DEF Minute, Hour, Day
<1>4. ASSUME NEW h \in Nat PROVE LocalHour((h + 3) % 24) = h % 24
  BY SMT DEF LocalHour
<1>. QED
  BY <1>1, <1>2, <1>3, <1>4

\* Counts of seconds, minutes and hours.
LEMMA Remainders ==
  /\ \A p, r \in Int : 0 <= p - 24 * r /\ p - 24 * r <= 23 => p % 24 = p - 24 * r
  /\ \A q, p \in Int : 0 <= q - Minute * p /\ q - Minute * p < Minute => q % Minute = q - Minute * p
BY SMT DEF Minute, Hour, Day

LEMMA Divisions ==
  ASSUME NEW u \in Int
  PROVE  /\ u \div Minute \in Int /\ u % Minute \in Int
         /\ u = Minute * (u \div Minute) + (u % Minute)
         /\ 0 <= u % Minute /\ u % Minute < Minute
         /\ u \div Hour \in Int /\ u % Hour \in Int
         /\ u = Hour * (u \div Hour) + (u % Hour)
         /\ 0 <= u % Hour /\ u % Hour < Hour
         /\ u \div Day \in Int /\ u % Day \in Int
         /\ u = Day * (u \div Day) + (u % Day)
         /\ 0 <= u % Day /\ u % Day < Day
<1>1. u \div Minute \in Int /\ u % Minute \in Int
  BY SMT DEF Minute, Hour, Day
<1>2. u = Minute * (u \div Minute) + (u % Minute)
  BY SMT DEF Minute, Hour, Day
<1>3. 0 <= u % Minute /\ u % Minute < Minute
  BY SMT DEF Minute, Hour, Day
<1>4. u \div Hour \in Int /\ u % Hour \in Int
  BY SMT DEF Minute, Hour, Day
<1>5. u = Hour * (u \div Hour) + (u % Hour)
  BY SMT DEF Minute, Hour, Day
<1>6. 0 <= u % Hour /\ u % Hour < Hour
  BY SMT DEF Minute, Hour, Day
<1>7. u \div Day \in Int /\ u % Day \in Int
  BY SMT DEF Minute, Hour, Day
<1>8. u = Day * (u \div Day) + (u % Day)
  BY SMT DEF Minute, Hour, Day
<1>9. 0 <= u % Day /\ u % Day < Day
  BY SMT DEF Minute, Hour, Day
<1>. QED
  BY <1>1, <1>2, <1>3, <1>4, <1>5, <1>6, <1>7, <1>8, <1>9

\* The hour, the minute and the second of a moment make up its time of day.
LEMMA Digits ==
  ASSUME NEW u \in Int
  PROVE  /\ u % Day = Hour * ((u \div Hour) % 24) + (Minute * ((u \div Minute) % Minute) + (u % Minute))
         /\ 0 <= (u \div Minute) % Minute /\ (u \div Minute) % Minute < Minute /\ (u \div Minute) % Minute \in Int
         /\ 0 <= u % Minute /\ u % Minute < Minute /\ u % Minute \in Int
         /\ (u \div Hour) % 24 \in Int
<1>. DEFINE q == u \div Minute
            a == u % Minute
            p == u \div Hour
            b == u % Hour
            r == u \div Day
            c == u % Day
<1>1. q \in Int /\ a \in Int /\ u = Minute * q + a /\ 0 <= a /\ a < Minute
  BY Divisions
<1>2. p \in Int /\ b \in Int /\ u = Hour * p + b /\ 0 <= b /\ b < Hour
  BY Divisions
<1>3. r \in Int /\ c \in Int /\ u = Day * r + c /\ 0 <= c /\ c < Day
  BY Divisions
<1>. HIDE DEF q, a, p, b, r, c
<1>4. Minute * q + a = Hour * p + b /\ Hour * p + b = Day * r + c
  BY <1>1, <1>2, <1>3, Zenon
<1>5. /\ 0 <= q - Minute * p /\ q - Minute * p < Minute
      /\ Minute * (q - Minute * p) + a = b
  <2>1. Minute * (q - Minute * p) + a = b
    BY <1>1, <1>2, <1>4, SMT DEF Minute, Hour
  <2>2. ASSUME NEW d \in Int, Minute * d + a = b PROVE 0 <= d /\ d < Minute
    BY <1>1, <1>2, <2>2, SMT DEF Minute, Hour
  <2>3. q - Minute * p \in Int
    BY <1>1, <1>2, SMT DEF Minute
  <2>. QED
    BY <2>1, <2>2, <2>3, Zenon
<1>6. /\ 0 <= p - 24 * r /\ p - 24 * r <= 23
      /\ Hour * (p - 24 * r) + b = c
  <2>1. Hour * (p - 24 * r) + b = c
    BY <1>2, <1>3, <1>4, SMT DEF Hour, Day
  <2>2. ASSUME NEW d \in Int, Hour * d + b = c PROVE 0 <= d /\ d <= 23
    BY <1>2, <1>3, <2>2, SMT DEF Hour, Day
  <2>3. p - 24 * r \in Int
    BY <1>2, <1>3, SMT
  <2>. QED
    BY <2>1, <2>2, <2>3, Zenon
<1>7. q % Minute = q - Minute * p /\ p % 24 = p - 24 * r
  BY <1>1, <1>2, <1>3, <1>5, <1>6, Remainders, Zenon
<1>8. q - Minute * p \in Int /\ p - 24 * r \in Int
  BY <1>1, <1>2, <1>3, SMT DEF Minute, Hour, Day
<1>9. /\ c = Hour * (p % 24) + (Minute * (q % Minute) + a)
      /\ 0 <= q % Minute /\ q % Minute < Minute /\ q % Minute \in Int
      /\ 0 <= a /\ a < Minute /\ a \in Int
      /\ p % 24 \in Int
  BY <1>1, <1>5, <1>6, <1>7, <1>8, Zenon
<1>. QED
  BY <1>9 DEF q, a, p, c

LEMMA SameQuotient ==
  ASSUME NEW x \in Int, NEW c \in Int, NEW e \in Int, NEW f \in Int, NEW g \in Int,
         0 <= c, c < Day, 0 <= f, f < Day, 0 <= g, g < Day,
         Day * x + c <= Day * e + f, Day * e + f <= Day * x + g
  PROVE  e = x
<1>1. x <= e /\ e <= x
  BY SMT DEF Minute, Hour, Day
<1>. QED
  BY <1>1, SMT DEF Minute, Hour, Day

LEMMA SameDay ==
  ASSUME NEW b \in Int, NEW u \in Int, NEW t \in Int,
         b <= u, u <= t, b \div Day = t \div Day
  PROVE  u = Day * (t \div Day) + (u % Day)
<1>. DEFINE r == t \div Day
            c == b % Day
            e == u \div Day
            f == u % Day
            g == t % Day
<1>1. r \in Int /\ c \in Int /\ b = Day * r + c /\ 0 <= c /\ c < Day
  BY Divisions
<1>2. e \in Int /\ f \in Int /\ u = Day * e + f /\ 0 <= f /\ f < Day
  BY Divisions
<1>3. g \in Int /\ t = Day * r + g /\ 0 <= g /\ g < Day
  BY Divisions
<1>. HIDE DEF r, c, e, f, g
<1>4. Day * r + c <= Day * e + f /\ Day * e + f <= Day * r + g
  BY <1>1, <1>2, <1>3, Zenon
<1>5. e = r
  BY <1>1, <1>2, <1>3, <1>4, SameQuotient, Zenon
<1>6. u = Day * r + f
  BY <1>2, <1>5, Zenon
<1>. QED
  BY <1>6 DEF r, f

\* Hours, minutes and seconds taken one after the other on the same day.
LEMMA NotAhead ==
  ASSUME NEW t1 \in Int, NEW t2 \in Int, NEW t3 \in Int, NEW t \in Int, NEW b \in Int,
         b <= t1, t1 <= t2, t2 <= t3, t3 <= t, b \div Day = t \div Day
  PROVE  Hour * ((t1 \div Hour) % 24) + (Minute * ((t2 \div Minute) % Minute) + (t3 % Minute)) <= t % Day
<1>1. b <= t2 /\ b <= t3 /\ t1 <= t /\ t2 <= t /\ b <= t /\ t <= t
  BY SMT DEF Minute, Hour, Day
<1>. DEFINE day == Day * (t \div Day)
            h(u) == (u \div Hour) % 24
            m(u) == (u \div Minute) % Minute
            s(u) == u % Minute
            d(u) == u % Day
<1>2. t1 = day + d(t1) /\ t2 = day + d(t2) /\ t3 = day + d(t3) /\ t = day + d(t)
  BY <1>1, SameDay, Zenon
<1>3. ASSUME NEW u \in Int
      PROVE  /\ d(u) = Hour * h(u) + (Minute * m(u) + s(u)) /\ d(u) \in Int
             /\ 0 <= m(u) /\ m(u) < Minute /\ m(u) \in Int
             /\ 0 <= s(u) /\ s(u) < Minute /\ s(u) \in Int
             /\ h(u) \in Int
  BY Digits, Divisions, Zenon
<1>4. day \in Int
  <2>1. t \div Day \in Int
    BY Divisions
  <2>. QED
    BY <2>1, SMT DEF Minute, Hour, Day
<1>. HIDE DEF day, h, m, s, d
<1>5. d(t1) <= d(t2) /\ d(t2) <= d(t3) /\ d(t3) <= d(t)
  <2>1. d(t1) \in Int /\ d(t2) \in Int /\ d(t3) \in Int /\ d(t) \in Int
    BY <1>3
  <2>2. ASSUME NEW x \in Int, NEW y \in Int, day + x <= day + y PROVE x <= y
    BY <2>2, <1>4, SMT DEF Minute, Hour, Day
  <2>. QED
    BY <1>2, <2>1, <2>2, Zenon
<1>6. /\ Hour * h(t1) + (Minute * m(t1) + s(t1)) <= Hour * h(t2) + (Minute * m(t2) + s(t2))
      /\ Hour * h(t2) + (Minute * m(t2) + s(t2)) <= Hour * h(t3) + (Minute * m(t3) + s(t3))
  BY <1>3, <1>5, Zenon
<1>7. Hour * h(t1) + (Minute * m(t2) + s(t3)) <= Hour * h(t3) + (Minute * m(t3) + s(t3))
  <2>1. /\ h(t1) \in Int /\ m(t1) \in Int /\ s(t1) \in Int
        /\ h(t2) \in Int /\ m(t2) \in Int /\ s(t2) \in Int
        /\ h(t3) \in Int /\ m(t3) \in Int /\ s(t3) \in Int
    BY <1>3
  <2>2. /\ 0 <= m(t1) /\ 0 <= s(t1) /\ m(t2) < Minute /\ 0 <= s(t2) /\ s(t2) < Minute
        /\ m(t3) < Minute /\ 0 <= s(t3) /\ s(t3) < Minute
    BY <1>3
  <2>3. h(t1) <= h(t2)
    BY <1>6, <2>1, <2>2, SMT DEF Minute, Hour
  <2>4. Minute * h(t2) + m(t2) <= Minute * h(t3) + m(t3)
    BY <1>6, <2>1, <2>2, SMT DEF Minute, Hour
  <2>. QED
    BY <2>1, <2>2, <2>3, <2>4, SMT DEF Minute, Hour
<1>8. Hour * h(t1) + (Minute * m(t2) + s(t3)) <= d(t3)
  BY <1>3, <1>7, Zenon
<1>9. Hour * h(t1) + (Minute * m(t2) + s(t3)) \in Int /\ d(t3) \in Int /\ d(t) \in Int
  BY <1>3, SMT DEF Minute, Hour, Day
<1>10. ASSUME NEW x \in Int, NEW y \in Int, NEW z \in Int, x <= y, y <= z PROVE x <= z
  BY <1>10, SMT DEF Minute, Hour, Day
<1>11. Hour * h(t1) + (Minute * m(t2) + s(t3)) <= d(t)
  BY <1>5, <1>8, <1>9, <1>10, Zenon
<1>. QED
  BY <1>11 DEF h, m, s, d

LEMMA InitSound == Init => IInv
<1>. SUFFICES ASSUME Init PROVE IInv
  OBVIOUS
<1>1. dia \in [Fields -> Nat] /\ shown \in [Fields -> Nat]
  BY DEF Init
<1>2. now \in Nat /\ began \in Nat /\ ticks \in Nat /\ aux \in Nat /\ duration \in Nat
  BY DEF Init
<1>3. /\ toRead \in {Fields, {"minutes", "hours"}, {"hours"}, {}}
      /\ toShow \in Fields \cup {"none"} /\ waiting \in BOOLEAN
  BY DEF Init
<1>4. InOrder
  BY DEF Init, InOrder
<1>. QED
  BY <1>1, <1>2, <1>3, <1>4 DEF IInv, Types

\* The actions that leave TIME alone.
LEMMA ClockStays ==
  ASSUME IInv, UNCHANGED <<dia, toRead, shown, toShow, began>>,
         now' \in Nat, now <= now'
  PROVE  InOrder'
<1>. SUFFICES ASSUME toShow # "none" PROVE \E t1, t2, t3 \in Nat : Moments(t1, t2, t3)'
  BY DEF InOrder, Moments
<1>1. PICK t1, t2, t3 \in Nat : Moments(t1, t2, t3)
  BY DEF IInv, InOrder
<1>2. t3 <= now'
  BY <1>1, SMT DEF Moments, IInv, Types
<1>3. Moments(t1, t2, t3)'
  BY <1>1, <1>2 DEF Moments
<1>. QED
  BY <1>3

LEMMA LocalIsNat ==
  ASSUME NEW f \in Fields, NEW s \in Nat
  PROVE  Local(f, s) \in Nat
<1>1. (s \div Hour) % 24 \in Nat /\ (s \div Minute) % Minute \in Nat /\ s % Minute \in Nat
  <2>1. s \div Hour \in Nat /\ s \div Minute \in Nat /\ s % Minute \in Nat
    BY SMT DEF Hour, Minute
  <2>2. \A x \in Nat : x % 24 \in Nat /\ x % Minute \in Nat
    BY SMT DEF Minute
  <2>. QED
    BY <2>1, <2>2, Zenon
<1>2. f \in {"hours", "minutes", "seconds"}
  BY DEF Fields
<1>. QED
  BY <1>1, <1>2, LocalTime, Zenon

LEMMA ReadingKeeps ==
  ASSUME IInv, getTime
  PROVE  IInv'
<1>1. PICK f \in Fields : /\ NextToRead(f)
                          /\ dia' = [dia EXCEPT ![f] = Local(f, now)]
                          /\ toRead' = toRead \ {f}
                          /\ UNCHANGED <<now, shown, toShow, began, counter>>
  BY DEF getTime
<1>2. Local(f, now) \in Nat
  BY LocalIsNat DEF IInv, Types
<1>3. Types'
  <2>1. dia' \in [Fields -> Nat]
    BY <1>1, <1>2 DEF IInv, Types
  <2>2. toRead' \in {Fields, {"minutes", "hours"}, {"hours"}, {}}
    BY <1>1 DEF IInv, Types, NextToRead, Fields
  <2>. QED
    BY <1>1, <2>1, <2>2 DEF IInv, Types, counter
<1>4. SUFFICES ASSUME toShow # "none" PROVE \E t1, t2, t3 \in Nat : Moments(t1, t2, t3)'
  BY <1>1, <1>3 DEF IInv, InOrder
<1>5. PICK t1, t2, t3 \in Nat : Moments(t1, t2, t3)
  BY <1>4 DEF IInv, InOrder
<1>6. now \in Nat /\ t1 <= now /\ t2 <= now /\ now <= now
  <2>1. now \in Nat /\ t1 <= t2 /\ t2 <= t3 /\ t3 <= now
    BY <1>5 DEF Moments, IInv, Types
  <2>. QED
    BY <2>1, SMT
<1>7. PICK n \in Nat : n = now
  BY <1>6
<1>8. dia \in [Fields -> Nat]
  BY DEF IInv, Types
<1>9. CASE f = "hours"
  <2>1. toRead = {"hours"} /\ toRead' = {}
    BY <1>1, <1>9 DEF NextToRead, Fields
  <2>2. dia'["hours"] = Local("hours", now)
    BY <1>1, <1>8, <1>9
  <2>3. dia'["minutes"] = dia["minutes"] /\ dia'["seconds"] = dia["seconds"]
    BY <1>1, <1>8, <1>9 DEF Fields
  <2>4. CASE toShow = "hours"
    <3>1. Moments(n, n, n)'
      <4>1. began <= now
        BY <1>5, SMT DEF Moments, IInv, Types
      <4>. QED
        BY <1>1, <1>6, <1>7, <2>2, <2>4, <4>1 DEF Moments
    <3>. QED
      BY <3>1
  <2>5. CASE toShow # "hours"
    <3>1. toRead # Fields
      BY <2>1 DEF Fields
    <3>2. Moments(t1, t2, t3)'
      BY <1>1, <1>5, <2>1, <2>3, <2>5, <3>1 DEF Moments
    <3>. QED
      BY <3>2
  <2>. QED
    BY <2>4, <2>5
<1>10. CASE f = "minutes"
  <2>1. toRead = {"minutes", "hours"} /\ toRead' = {"hours"}
    BY <1>1, <1>10 DEF NextToRead, Fields
  <2>2. dia'["minutes"] = Local("minutes", now)
    BY <1>1, <1>8, <1>10
  <2>3. dia'["hours"] = dia["hours"] /\ dia'["seconds"] = dia["seconds"]
    BY <1>1, <1>8, <1>10 DEF Fields
  <2>4. toRead # Fields /\ toRead' # {}
    BY <2>1 DEF Fields
  <2>5. CASE toShow = "minutes"
    <3>1. Moments(t1, n, n)'
      BY <1>1, <1>5, <1>6, <1>7, <2>2, <2>5, <2>4 DEF Moments
    <3>. QED
      BY <3>1
  <2>6. CASE toShow # "minutes"
    <3>1. Moments(t1, t2, t3)'
      BY <1>1, <1>5, <2>1, <2>3, <2>4, <2>6 DEF Moments
    <3>. QED
      BY <3>1
  <2>. QED
    BY <2>5, <2>6
<1>11. CASE f = "seconds"
  <2>1. toRead = Fields /\ toRead' = {"minutes", "hours"}
    BY <1>1, <1>11 DEF NextToRead, Fields
  <2>2. dia'["seconds"] = Local("seconds", now)
    BY <1>1, <1>8, <1>11
  <2>3. toRead' \notin {{"hours"}, {}}
    BY <2>1
  <2>4. CASE toShow = "seconds"
    <3>1. Moments(t1, t2, n)'
      BY <1>1, <1>5, <1>6, <1>7, <2>2, <2>3, <2>4 DEF Moments
    <3>. QED
      BY <3>1
  <2>5. CASE toShow # "seconds"
    <3>1. Moments(t1, t2, t3)'
      BY <1>1, <1>5, <2>3, <2>5 DEF Moments
    <3>. QED
      BY <3>1
  <2>. QED
    BY <2>4, <2>5
<1>. QED
  BY <1>9, <1>10, <1>11 DEF Fields

LEMMA PrintingKeeps ==
  ASSUME IInv, PrintField
  PROVE  IInv'
<1>1. /\ toShow # "none" /\ toRead = {}
      /\ shown' = [shown EXCEPT ![toShow] = dia[toShow]]
      /\ toShow' = Following(toShow)
      /\ toRead' = IF Following(toShow) = "none" THEN {} ELSE Fields
      /\ UNCHANGED <<now, dia, began, counter>>
  BY DEF PrintField
<1>2. toShow \in {"hours", "minutes", "seconds"} /\ toShow \in Fields
  BY <1>1 DEF IInv, Types, Fields
<1>3. /\ dia \in [Fields -> Nat] /\ shown \in [Fields -> Nat]
  BY DEF IInv, Types
<1>4. Types'
  <2>1. shown' \in [Fields -> Nat]
    BY <1>1, <1>2, <1>3
  <2>2. toShow' \in Fields \cup {"none"}
    BY <1>1, <1>2 DEF Following, Fields
  <2>3. toRead' \in {Fields, {"minutes", "hours"}, {"hours"}, {}}
    BY <1>1
  <2>. QED
    BY <1>1, <2>1, <2>2, <2>3 DEF IInv, Types, counter
<1>5. SUFFICES ASSUME toShow' # "none" PROVE \E t1, t2, t3 \in Nat : Moments(t1, t2, t3)'
  BY <1>4 DEF IInv, InOrder
<1>6. PICK t1, t2, t3 \in Nat : Moments(t1, t2, t3)
  BY <1>1 DEF IInv, InOrder
<1>7. toRead' = Fields /\ toRead' # {} /\ toRead' \notin {{"hours"}, {}}
  BY <1>1, <1>5 DEF Fields
<1>8. CASE toShow = "hours"
  <2>1. toShow' = "minutes" /\ shown'["hours"] = dia["hours"]
    BY <1>1, <1>2, <1>3, <1>8 DEF Following
  <2>2. Moments(t1, t2, t3)'
    BY <1>1, <1>6, <1>7, <1>8, <2>1 DEF Moments
  <2>. QED
    BY <2>2
<1>9. CASE toShow = "minutes"
  <2>1. toShow' = "seconds" /\ shown'["minutes"] = dia["minutes"] /\ shown'["hours"] = shown["hours"]
    BY <1>1, <1>2, <1>3, <1>9 DEF Following, Fields
  <2>2. Moments(t1, t2, t3)'
    BY <1>1, <1>6, <1>7, <1>9, <2>1 DEF Moments
  <2>. QED
    BY <2>2
<1>10. CASE toShow = "seconds"
  BY <1>1, <1>5, <1>10 DEF Following
<1>. QED
  BY <1>2, <1>8, <1>9, <1>10

LEMMA NextKeeps == IInv /\ [Next]_vars => IInv'
<1>. SUFFICES ASSUME IInv, [Next]_vars PROVE IInv'
  OBVIOUS
<1>1. CASE Second
  <2>1. now' \in Nat /\ now <= now'
    BY <1>1, SMT DEF Second, IInv, Types
  <2>2. InOrder'
    BY <1>1, <2>1, ClockStays DEF Second
  <2>3. Types'
    BY <1>1, <2>1 DEF Second, IInv, Types, counter
  <2>. QED
    BY <2>2, <2>3 DEF IInv
<1>2. CASE printCurrentTime
  <2>1. Types'
    BY <1>2 DEF printCurrentTime, IInv, Types, counter, Fields
  <2>2. now \in Nat /\ now <= now
    BY SMT DEF IInv, Types
  <2>3. toRead' # {} /\ toRead' = Fields /\ toShow' = "hours" /\ began' = now /\ now' = now
    BY <1>2 DEF printCurrentTime, Fields
  <2>4. PICK n \in Nat : n = now
    BY <2>2
  <2>5. Moments(n, n, n)'
    BY <2>2, <2>3, <2>4 DEF Moments
  <2>6. InOrder'
    BY <2>5 DEF InOrder
  <2>. QED
    BY <2>1, <2>6 DEF IInv
<1>3. CASE getTime
  BY <1>3, ReadingKeeps
<1>4. CASE PrintField
  BY <1>4, PrintingKeeps
<1>5. CASE timer_handler \/ wait \/ WaitEnds \/ UNCHANGED vars
  <2>1. UNCHANGED <<dia, toRead, shown, toShow, began>> /\ now' = now
    BY <1>5 DEF timer_handler, wait, WaitEnds, vars, clock
  <2>2. now' \in Nat /\ now <= now'
    BY <2>1, SMT DEF IInv, Types
  <2>3. InOrder'
    BY <2>1, <2>2, ClockStays
  <2>4. ticks' \in Nat
    <3>1. CASE timer_handler
      BY <3>1, SMT DEF timer_handler, IInv, Types
    <3>2. CASE wait \/ WaitEnds \/ UNCHANGED vars
      BY <3>2 DEF wait, WaitEnds, vars, IInv, Types
    <3>. QED
      BY <1>5, <3>1, <3>2
  <2>5. aux' \in Nat /\ waiting' \in BOOLEAN
    BY <1>5 DEF timer_handler, wait, WaitEnds, vars, IInv, Types
  <2>6. duration' \in Nat
    <3>1. CASE wait
      <4>1. PICK d \in 0 .. MaxTicks - ticks : duration' = d
        BY <3>1 DEF wait
      <4>. QED
        BY <4>1, SMT DEF MaxTicks, IInv, Types
    <3>2. CASE timer_handler \/ WaitEnds \/ UNCHANGED vars
      BY <3>2 DEF timer_handler, WaitEnds, vars, IInv, Types
    <3>. QED
      BY <1>5, <3>1, <3>2
  <2>. QED
    BY <2>1, <2>2, <2>3, <2>4, <2>5, <2>6 DEF IInv, Types
<1>. QED
  BY <1>1, <1>2, <1>3, <1>4, <1>5 DEF Next

\* NeverAhead (printCurrentTime(), globalLib.c:199): the three numbers were
\* right at moments that follow one another, and the coarser comes first.
THEOREM TimeIsNeverAhead == Spec => NeverAhead
<1>1. ASSUME IInv, Next, toShow # "none", toShow' = "none", began \div Day = now \div Day
      PROVE  ShownTime' <= now % Day
  <2>1. PrintField
    BY <1>1 DEF Next, Second, printCurrentTime, getTime, timer_handler, wait, WaitEnds, clock
  <2>2. toShow = "seconds" /\ toRead = {}
    BY <1>1, <2>1 DEF PrintField, Following, IInv, Types, Fields
  <2>3. PICK t1, t2, t3 \in Nat : Moments(t1, t2, t3)
    BY <1>1 DEF IInv, InOrder
  <2>4. /\ began <= t1 /\ t1 <= t2 /\ t2 <= t3 /\ t3 <= now
        /\ shown["hours"] = Local("hours", t1)
        /\ shown["minutes"] = Local("minutes", t2)
        /\ dia["seconds"] = Local("seconds", t3)
    <3>1. toRead # Fields
      BY <2>2 DEF Fields
    <3>. QED
      BY <2>2, <2>3, <3>1 DEF Moments
  <2>5. /\ shown'["hours"] = shown["hours"] /\ shown'["minutes"] = shown["minutes"]
        /\ shown'["seconds"] = dia["seconds"]
    BY <1>1, <2>1, <2>2 DEF PrintField, IInv, Types, Fields
  <2>6. ShownTime' = Hour * ((t1 \div Hour) % 24) + (Minute * ((t2 \div Minute) % Minute) + (t3 % Minute))
    BY <2>4, <2>5, LocalTime DEF ShownTime
  <2>7. now \in Int /\ began \in Int /\ t1 \in Int /\ t2 \in Int /\ t3 \in Int
    BY <1>1, SMT DEF IInv, Types
  <2>. QED
    BY <1>1, <2>4, <2>6, <2>7, NotAhead
<1>2. ASSUME IInv, [Next]_vars
      PROVE  [toShow # "none" /\ toShow' = "none" /\ began \div Day = now \div Day
                => ShownTime' <= now % Day]_vars
  BY <1>1, <1>2 DEF vars
<1>. QED
  BY InitSound, NextKeeps, <1>2, PTL DEF Spec, NeverAhead

\* WaitsLonger (wait() of the user library, globalLib.c:273): its loop ends
\* past the sum, never at it.
THEOREM UserWaitIsLonger == Spec => WaitsLonger
<1>1. ASSUME IInv, [Next]_vars
      PROVE  [waiting /\ ~waiting' => ticks - aux >= duration + 1]_vars
  <2>. SUFFICES ASSUME Next, waiting, ~waiting' PROVE ticks - aux >= duration + 1
    BY <1>1 DEF vars
  <2>1. ~(ticks <= aux + duration)
    BY DEF Next, Second, printCurrentTime, getTime, PrintField, timer_handler, wait, WaitEnds, counter
  <2>. QED
    BY <1>1, <2>1, SMT DEF IInv, Types
<1>. QED
  BY InitSound, NextKeeps, <1>1, PTL DEF Spec, WaitsLonger

==============================================================================
