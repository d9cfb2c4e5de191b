------------------------------- MODULE GnssTime -------------------------------
(***************************************************************************)
(* The date of a GGA or GNS sentence, which carries the time of day only:  *)
(* _parse_nmea_utc_s takes the nearest of three days.  Times are seconds   *)
(* since midnight of some day.                                             *)
(***************************************************************************)
EXTENDS Integers

Day == 86400
Distance(a, b) == IF a <= b THEN b - a ELSE a - b

Base(timeOfDay, now) == (now - (now % Day)) + timeOfDay
Candidates(base) == {base - Day, base, base + Day}

(* Of candidates at the same distance min takes the first.                 *)
SourceUtc(timeOfDay, now) ==
  CHOOSE c \in Candidates(Base(timeOfDay, now)) :
    \A d \in Candidates(Base(timeOfDay, now)) : Distance(c, now) <= Distance(d, now)

=============================================================================
