------------------------------- MODULE MCProber -------------------------------
(* Three sources on two slots; "pod" has one job more than a batch holds,  *)
(* "ext" is dialled from the host and its /clientip job is skipped.        *)
EXTENDS Prober
MCSources  == {"pod", "node", "ext"}
MCJobCount == [s \in MCSources |-> IF s = "pod" THEN 3 ELSE IF s = "node" THEN 1 ELSE 2]
MCIdentity == [s \in MCSources |-> IF s = "pod" THEN {3} ELSE IF s = "node" THEN {} ELSE {2}]
MCDialed   == {"ext"}
=============================================================================
