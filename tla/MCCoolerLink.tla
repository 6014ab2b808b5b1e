---- MODULE MCCoolerLink ----
(***************************************************************************)
(* CoolerLink on small clocks: one temperature below the hard emergency    *)
(* and the highest one the cooler parses, an agent that otherwise asks for *)
(* the lowest duty.                                                        *)
(***************************************************************************)
EXTENDS CoolerLink

CoolAndHot == {40, 120}
HotOnly == {90}

\* maximum_temperature lets readings up to 150 through.
CoolAndImplausible == {40, 130}
====
