---- MODULE MCDeltaGenerator ----
(* Two days of two updates and one delete, from every customers file.      *)
EXTENDS DeltaGenerator

CONSTANTS ana, eve, u1, u2, u3, u4, u5, u6

MCNewPeople == <<<<u1, u2, u3>>, <<u4, u5, u6>>>>
====
