----------------------------- MODULE MCDevices -----------------------------
(* Small instances of Devices: a second of four or eight instructions, a day of one second. *)
EXTENDS Devices

Unclocked(rate, tpsc) == IF tpsc = 0 THEN rate \div 4 ELSE rate \div 2
PeriodAt(rate, sel) == IF sel = 0 THEN 0 ELSE IF sel = 1 THEN rate \div 2 ELSE rate
HalfSecond(rate) == rate \div 2
QuarterSecond(rate) == rate \div 4

\* The last days of February in 2010, 2012 and 2100, and of the year 2011.
DaySets == {0, 57, 787, 32929, 728}
OpsOf == [u \in Units |-> CASE u = "bcd" -> 6 [] OTHER -> 3]
DigitWords == {<<0, 0>>, <<2, 2>>, <<1, 2>>, <<0, 1>>}
=============================================================================
