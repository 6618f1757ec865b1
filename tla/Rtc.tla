-------------------------------- MODULE Rtc --------------------------------
(***************************************************************************)
(* The clock ports of z80ex_pread: every read asks the host for the time   *)
(* and returns one decimal digit of one of its fields.  The module is the  *)
(* clock's share of Ports, which reads it and lets time pass.              *)
(***************************************************************************)
EXTENDS Integers

CONSTANT Times   \* moments the host's clock may show

Fields == {"sec", "min", "hour", "mday", "mon", "year"}

\* A moment as localtime gives it, but for the year in full: tm_mon counts
\* from 0, tm_sec may be a leap second.  From 2076 on the year no longer fits
\* the byte hex2bcd takes (tm_year + 80 = 256), and its digits are wrong.
Moment == [sec : 0 .. 60, min : 0 .. 59, hour : 0 .. 23, mday : 1 .. 31,
           mon : 0 .. 11, year : 1980 .. 2075, wday : 0 .. 6]

ASSUME TimesAssumption == Times \subseteq Moment

RTC_SEC   == \h10
RTC_MIN   == \h12
RTC_HR    == \h14
RTC_DOW   == \h16
RTC_DOM   == \h17
RTC_MON   == \h19
RTC_YR    == \h1B
RTC_10YR  == \h1C

\* The tens digit of a field is one port above the ones digit.
OnesPort(field) ==
  IF field = "sec" THEN RTC_SEC ELSE IF field = "min" THEN RTC_MIN
  ELSE IF field = "hour" THEN RTC_HR ELSE IF field = "mday" THEN RTC_DOM
  ELSE IF field = "mon" THEN RTC_MON ELSE RTC_YR

VARIABLE now   \* the host's clock

\* A wrong variant, for the mutation runs only.
hex2bcd_wide(x) == ((x \div 10) * 16) + (x % 10)

\* unsigned char in, unsigned char out: the argument and the shifted tens
\* lose what does not fit eight bits.
hex2bcd(x) ==
  LET c == x % 256 IN (((c \div 10) * 16) % 256) + (c % 10)

\* What pread passes to hex2bcd; tm_year is the year less 1900.
Passed(field) ==
  IF field = "mon" THEN now.mon + 1
  ELSE IF field = "year" THEN (now.year - 1900) + 80
  ELSE now[field]

\* The ones are masked, the tens shifted down.
Ones(field) == hex2bcd(Passed(field)) % 16
Tens(field) == hex2bcd(Passed(field)) \div 16

ClockDigit(port) ==
  IF port = RTC_DOW THEN now.wday
  ELSE LET field == CHOOSE f \in Fields : port \in OnesPort(f) .. OnesPort(f) + 1 IN
       IF port = OnesPort(field) THEN Ones(field) ELSE Tens(field)

TimePasses == now' \in Times

=============================================================================
