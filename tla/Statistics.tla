---------------------------- MODULE Statistics ----------------------------
(***************************************************************************)
(* The arithmetic of ftpd.c behind timeouts and statistics: timer(), which *)
(* subtracts two DateStamps, and the running averages that free_data()     *)
(* keeps of the speed of all transfers, in machine words.                  *)
(***************************************************************************)
EXTENDS Integers

CONSTANTS
  Word,          \* unsigned long counts modulo it: 2^32
  SecondsPerDay  \* 60 * 60 * 24

ASSUME StatisticsAssumption == Word \in Nat \ {0} /\ SecondsPerDay \in Nat \ {0}

(* A DateStamp to the second: the days since 1978, and the minutes and the whole
   seconds of the ticks as the seconds of the day. *)
DateStamp == [days : Nat, seconds : 0..(SecondsPerDay - 1)]

Instant(ds) == SecondsPerDay * ds.days + ds.seconds

(* timer(): the days are looked at only if the clock seems to have gone back. *)
timer(started, ds) ==
  LET seconds == ds.seconds - started.seconds IN
  IF seconds < 0 THEN seconds + SecondsPerDay * (ds.days - started.days) ELSE seconds

(* The speed of a transfer, and the average of n + 1 transfers from that of n. *)
CpsChange(bytes, secs) == bytes \div (IF secs = 0 THEN 1 ELSE secs)
NewAverage(cps, files, change) ==
  ((change + cps * files) % Word) \div ((files + 1) % Word)
=============================================================================
