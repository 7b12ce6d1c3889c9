-------------------------------- MODULE Clock --------------------------------
(***************************************************************************)
(* The two clocks of the system.  The real-time clock holds UTC; getTime() *)
(* of clockTime.c turns it into local time, and the command TIME of the    *)
(* shell (globalLib.c) asks for it once for every number it prints.  The   *)
(* counter ticks is moved by timer_handler(), on every timer interrupt and *)
(* on every forced one (libasm.asm, irqDispatcher.c), and wait() of the    *)
(* user library counts it.                                                 *)
(*                                                                         *)
(* The clock is read with the interrupts on (getSeconds() ends in sti), so *)
(* any time may pass between two reads.                                    *)
(***************************************************************************)
EXTENDS Integers

Minute == 60
Hour == 3600
Day == 86400

\* ticks is read as an int: the counter is followed until it overflows one,
\* 248 days after boot at 100 ticks per second.
MaxTicks == 2147483647

-----------------------------------------------------------------------------
(***************************************************************************)
(* getTime().                                                              *)
(***************************************************************************)
\* UTC - 3, from an hour of the real-time clock.
LocalHour(utc) == IF utc - 3 < 0 THEN utc - 3 + 24 ELSE utc - 3

\* The day written, from an hour and a day of the real-time clock.
LocalDay(utc, day) == day - (IF LocalHour(utc) > 21 THEN 1 ELSE 0)

\* What the real-time clock shows s seconds after a local midnight.
RTC(s) == [seconds |-> s % Minute,
           minutes |-> (s \div Minute) % Minute,
           hours   |-> ((s \div Hour) + 3) % 24]

Fields == {"seconds", "minutes", "hours"}

\* One of the numbers getTime() writes.
Local(field, s) == IF field = "hours" THEN LocalHour(RTC(s).hours) ELSE RTC(s)[field]

\* seconds_elapsed().
secondsElapsed(t) == t \div 18

\* wait() of the kernel goes on: it keeps the low 16 bits of the start.
KernelWaits(start, t, duration) == t - (start % 65536) < duration

\* The day of the month at UTC - 3, after the first of the month.
TrueDay(utc, day) == IF utc < 3 THEN day - 1 ELSE day

-----------------------------------------------------------------------------
VARIABLES
  now,      \* seconds since the local midnight before boot
  dia,      \* the date a call of getTime() fills
  toRead,   \* the fields that call has still to read
  shown,    \* the numbers TIME has printed
  toShow,   \* the one it asks for now, "none" when it is not running
  began,    \* when TIME began
  ticks,
  aux,      \* wait() of the user library: ticks when it was called,
  duration, \* what it has to wait for,
  waiting

vars == <<now, dia, toRead, shown, toShow, began, ticks, aux, duration, waiting>>

clock == <<now, dia, toRead, shown, toShow, began>>
counter == <<ticks, aux, duration, waiting>>

Init ==
  /\ now \in 0 .. Day - 1
  /\ dia = [f \in Fields |-> 0]
  /\ toRead = {}
  /\ shown = [f \in Fields |-> 0]
  /\ toShow = "none"
  /\ began = 0
  /\ ticks = 0
  /\ aux = 0 /\ duration = 0 /\ waiting = FALSE

\* The real-time clock goes on by itself.
Second ==
  /\ now' = now + 1
  /\ UNCHANGED <<dia, toRead, shown, toShow, began, counter>>

\* printCurrentTime() begins: the first date it asks for is for the hours.
printCurrentTime ==
  /\ toShow = "none"
  /\ began' = now
  /\ toShow' = "hours"
  /\ toRead' = Fields
  /\ UNCHANGED <<now, dia, shown, counter>>

\* The order in which getTime() reads the clock.
NextToRead(field) ==
  \/ field = "seconds" /\ toRead = Fields
  \/ field = "minutes" /\ toRead = {"minutes", "hours"}
  \/ field = "hours" /\ toRead = {"hours"}

getTime ==
  \E f \in Fields :
    /\ NextToRead(f)
    /\ dia' = [dia EXCEPT ![f] = Local(f, now)]
    /\ toRead' = toRead \ {f}
    /\ UNCHANGED <<now, shown, toShow, began, counter>>

\* The order in which TIME prints them.
Following(field) ==
  CASE field = "hours"   -> "minutes"
    [] field = "minutes" -> "seconds"
    [] OTHER             -> "none"

\* A number is printed, and the whole date is asked for again for the next.
\* (The date that follows the time, asked for three times more, is left out.)
PrintField ==
  /\ toShow # "none" /\ toRead = {}
  /\ shown' = [shown EXCEPT ![toShow] = dia[toShow]]
  /\ toShow' = Following(toShow)
  /\ toRead' = IF Following(toShow) = "none" THEN {} ELSE Fields
  /\ UNCHANGED <<now, dia, began, counter>>

\* The timer interrupt, or a process that gives up the processor.
timer_handler ==
  /\ ticks < MaxTicks
  /\ ticks' = ticks + 1
  /\ UNCHANGED <<clock, aux, duration, waiting>>

\* wait() of the user library is called.
wait ==
  /\ ~waiting
  /\ \E d \in 0 .. MaxTicks - ticks : duration' = d
  /\ aux' = ticks
  /\ waiting' = TRUE
  /\ UNCHANGED <<clock, ticks>>

\* Its loop ends.
WaitEnds ==
  /\ waiting
  /\ ~(ticks <= aux + duration)
  /\ waiting' = FALSE
  /\ UNCHANGED <<clock, ticks, aux, duration>>

Next ==
  \/ Second \/ printCurrentTime \/ getTime \/ PrintField
  \/ timer_handler \/ wait \/ WaitEnds

Spec == Init /\ [][Next]_vars

-----------------------------------------------------------------------------
\* What TIME shows, in seconds after midnight.
ShownTime == Hour * shown["hours"] + (Minute * shown["minutes"] + shown["seconds"])

\* printCurrentTime() (globalLib.c:199) puts together numbers of three dates.
\* When it ends the time it shows may never have been, but it is not one still
\* to come, if no midnight passed while it ran.
NeverAhead ==
  [][toShow # "none" /\ toShow' = "none" /\ began \div Day = now \div Day
       => ShownTime' <= now % Day]_vars

\* wait() of the user library (globalLib.c:273) lasts longer than it is asked
\* to: at least one tick more.
WaitsLonger == [][waiting /\ ~waiting' => ticks - aux >= duration + 1]_vars

==============================================================================
