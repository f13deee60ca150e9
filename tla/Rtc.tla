-------------------------------- MODULE Rtc --------------------------------
(***************************************************************************)
(* cmos.c: read_rtc against the clock chip, which goes on ticking between  *)
(* any two of its port accesses.  The registers read are the second, the   *)
(* minute and the hour; day, month and year are read between the same      *)
(* tests and converted as the minute is.                                   *)
(***************************************************************************)
EXTENDS Integers, Sequences

CONSTANTS
  Seconds, Minutes,   \* in a minute, in an hour
  Times,              \* times at which the clock is read, in seconds
  Formats,            \* of register B: BCD or binary, 12 or 24 hours
  MaxTicks            \* bound: updates of the chip during one read_rtc

ASSUME RtcConstants ==
  /\ {Seconds, Minutes} \subseteq 1 .. 60
  /\ Times \subseteq Nat
  /\ Formats \subseteq [binary : BOOLEAN, h24 : BOOLEAN]
  /\ MaxTicks \in 1 .. Seconds - 1   \* a read takes less than a minute

VARIABLES
  now, format,    \* the chip: its time, the bits of register B
  updating,       \* bit 7 of register A
  ticks,          \* updates since read_rtc was called
  at,             \* read_rtc: "unread", "read", "flag", "compare", or the register it reads next
  date,           \* the registers read, then the date
  last            \* those of the pass before

chip == <<now, format, updating>>
rtcVars == <<chip, ticks, at, date, last>>

Register == {"second", "minute", "hour"}
After == [flag |-> "second", second |-> "minute", minute |-> "hour", hour |-> "compare"]
NoPass == [none |-> 0]
Zero == [r \in Register |-> 0]
Resting == {"unread", "read"}

RtcTypeOK ==
  /\ now \in Nat /\ format \in Formats /\ updating \in BOOLEAN
  /\ ticks \in 0 .. MaxTicks
  /\ at \in Resting \cup {"flag", "compare"} \cup Register
  /\ date \in [Register -> 0 .. 255]
  /\ last = NoPass \/ last \in [Register -> 0 .. 255]

RtcInit ==
  /\ format \in Formats /\ now = 0 /\ updating = FALSE /\ ticks = 0
  /\ at = "unread" /\ date = Zero /\ last = NoPass

-----------------------------------------------------------------------------
\* The chip: what a register holds at time t.
HourAt(t) == (t \div (Seconds * Minutes)) % 24
Encoded(x) == IF format.binary THEN x ELSE ((x \div 10) * 16) + (x % 10)

Holds(r, t) ==
  CASE r = "second" -> Encoded(t % Seconds)
    [] r = "minute" -> Encoded((t \div Seconds) % Minutes)
    [] r = "hour" /\ format.h24 -> Encoded(HourAt(t))
    [] r = "hour" /\ ~format.h24 ->
         Encoded(IF HourAt(t) % 12 = 0 THEN 12 ELSE HourAt(t) % 12)
         + (IF HourAt(t) < 12 THEN 0 ELSE 128)

\* An update is announced by the flag, and the flag falls with it.
announce ==
  /\ at \notin Resting /\ ~updating /\ ticks < MaxTicks
  /\ updating' = TRUE
  /\ UNCHANGED <<now, format, ticks, at, date, last>>

update ==
  /\ updating
  /\ updating' = FALSE
  /\ now' = now + 1 /\ ticks' = ticks + 1
  /\ UNCHANGED <<format, at, date, last>>

-----------------------------------------------------------------------------
\* The clock went on since it was last read, and may have announced an update.
read_rtc ==
  /\ at \in Resting
  /\ now' \in Times /\ updating' \in BOOLEAN /\ ticks' = 0
  /\ at' = "flag" /\ date' = Zero /\ last' = NoPass
  /\ UNCHANGED format

\* The caller has used the date; the clock is followed again at the next read.
date_used ==
  /\ at = "read" /\ at' = "unread"
  /\ now' = 0 /\ updating' = FALSE /\ ticks' = 0 /\ date' = Zero /\ last' = NoPass
  /\ UNCHANGED format

\* while (get_update_in_progress_flag())
await_flag ==
  /\ at = "flag" /\ ~updating
  /\ at' = After[at]
  /\ UNCHANGED <<chip, ticks, date, last>>

get_RTC_register ==
  /\ at \in Register
  /\ date' = [date EXCEPT ![at] = Holds(at, now)]
  /\ at' = After[at]
  /\ UNCHANGED <<chip, ticks, last>>

FromBcd(x) == IF format.binary THEN x ELSE (x % 16) + ((x \div 16) * 10)

\* The bit of the afternoon is kept through the conversion of the digits.
Hour(x) ==
  LET pm == x >= 128
      h  == FromBcd(x % 128)
  IN IF pm /\ ~format.h24 THEN (h + 12) % 24 ELSE h + (IF pm THEN 128 ELSE 0)

Converted(d) == [second |-> FromBcd(d.second), minute |-> FromBcd(d.minute),
                 hour |-> Hour(d.hour)]

\* Slip: one pass is taken for enough.
Agree_Always == TRUE

\* Two passes in a row gave the same.
Agree == last = date

\* Slip: the pass is not kept for the next comparison.
compare_fails_NotKept ==
  /\ at = "compare" /\ ~Agree
  /\ last' = NoPass /\ at' = "flag"
  /\ UNCHANGED <<chip, ticks, date>>

compare_fails ==
  /\ at = "compare" /\ ~Agree
  /\ last' = date /\ at' = "flag"
  /\ UNCHANGED <<chip, ticks, date>>

read_rtc_ends ==
  /\ at = "compare" /\ Agree
  /\ date' = Converted(date) /\ at' = "read"
  /\ UNCHANGED <<chip, ticks, last>>

reader == await_flag \/ get_RTC_register \/ compare_fails \/ read_rtc_ends

-----------------------------------------------------------------------------
(***************************************************************************)
(* The date is of one moment of the read, though its registers are read    *)
(* one by one while the clock ticks, in each format of the chip: second,   *)
(* minute and the hour of the dial.  It is in the right half of the day    *)
(* too, but for twelve o'clock on a 12-hour clock.  There the code does not*)
(* do what its comment says (cmos.c:83 "Convert 12 hour clock to 24 hour   *)
(* clock if necessary"): noon is made hour 0, and midnight stays hour 12.  *)
(***************************************************************************)
DateTrue ==
  at = "read" =>
    \E t \in now - ticks .. now :
      /\ date.second = t % Seconds
      /\ date.minute = (t \div Seconds) % Minutes
      /\ date.hour % 12 = HourAt(t) % 12
      /\ format.h24 \/ HourAt(t) % 12 # 0 => date.hour = HourAt(t)
=============================================================================
