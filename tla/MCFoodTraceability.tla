------------------------- MODULE MCFoodTraceability -------------------------
(***************************************************************************)
(* Small instances of the pallet for TLC.                                  *)
(***************************************************************************)
EXTENDS FoodTraceabilityProperties

CONSTANTS a1, a2, g1, g2, bat, mat, ser, lic

NoMaterials   == {<<>>}
SomeMaterials == {<<>>, << <<mat, 2>> >>, << <<mat, 1>>, <<mat, 1>> >>}
BatchMaterial == {<<>>, << <<bat, 1>> >>}

\* The state the root calls lead to when every account has a GLN of its own
\* and the first of them a license.
Registered ==
  /\ Empty
  /\ AccountGLN = [a \in Accounts |-> IF a = a1 THEN g1 ELSE g2]
  /\ ManufacturerLicense = [g \in GLNs |-> IF g = g1 THEN lic ELSE None]

\* Trading among registered parties: the root calls have been made.
RegisteredNext == Produce \/ Trade \/ Store \/ Transport \/ Proceed \/ Tick
RegisteredSpec == Registered /\ [][RegisteredNext]_vars /\ WF_vars(Proceed)
=============================================================================
