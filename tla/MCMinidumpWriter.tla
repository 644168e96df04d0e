------------------------- MODULE MCMinidumpWriter --------------------------
(* The crashing thread between two others, one of which is started late,   *)
(* and names in and outside of ASCII, one of them empty.                   *)
EXTENDS MinidumpWriter

CONSTANTS t1, t2, t3

MCTids == <<t1, t2, t3>>
MCLate == {t3}
MCUnmapped == {t1}

MCSpelling ==
  [o \in Strings |->
     CASE o[1] = "csd_version"              -> [bytes |-> 9, units |-> 9]
       [] o[1] = "dso_name" /\ o[2] = 1     -> [bytes |-> 0, units |-> 0]
       [] OTHER                             -> [bytes |-> 9, units |-> 7]]
=============================================================================
