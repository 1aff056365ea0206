------------------------------ MODULE MCCloud ------------------------------
(***************************************************************************)
(* Cloud.tla for TLC: two clients that write twice each on a day like any  *)
(* other, and once on the ends of months, years and centuries.             *)
(***************************************************************************)
EXTENDS Cloud

\* 1970-01-01, 2000-02-28 and 29, 2000-12-31, 2023-02-28, 2023-03-01,
\* 2100-02-28, 2100-03-01, 2400-02-29
MCDays == {0, 11015, 11016, 11322, 19416, 19417, 47540, 47541, 157113}

\* Bound: with the other days the clients do not get to a second write.
OneWrite == day # 19416 => \A c \in Clients : calls[c] = 0

=============================================================================
