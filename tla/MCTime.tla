-------------------------------- MODULE MCTime --------------------------------
(* Days around the ends of February and of December: of years that are     *)
(* leap years and years that are not, of centuries of both kinds, and of   *)
(* the epoch.  A day has three hours of two minutes of two seconds.        *)
EXTENDS Time

\* The first of January of a year, counted from 1970.
Years(y) == 365 * (y - 1970) + (y - 1969) \div 4 - (y - 1901) \div 100 + (y - 1601) \div 400

MCDays ==
  UNION {(Years(y) - 5)..(Years(y) + 70) :
           y \in {1600, 1900, 1904, 1969, 1970, 1972, 2000, 2001, 2100, 2400}}
    \cup (Years(2023)..Years(2025))
=============================================================================
