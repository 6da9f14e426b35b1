----------------------------- MODULE MCEdpJobs -----------------------------
(***************************************************************************)
(* Small instances of EdpJobs for TLC.  Two releases m1, m2 of the catalog *)
(* (and, where a run asks for it, a release `bad` that does not parse); m2 *)
(* adds a plate to the URL list and to the BOM.  Four artifact rows stand  *)
(* for the fourteen, one of each kind the properties tell apart: bom.json  *)
(* and bom.xlsx (the BOM), sld (BOM and DTM) and dtm.json (the DTM).       *)
(***************************************************************************)
EXTENDS EdpJobs, TLC

CONSTANTS d1, m2, p1

OneSite == [p \in Payloads |-> d1]

AllServe == [m \in Manifests |-> Payloads]
NewestServesOne == [m \in Manifests |-> IF m = m2 THEN {p1} ELSE Payloads]

PlatesGrow == [m \in Manifests |-> IF m = m2 THEN {"CG", "CX"} ELSE {"CG"}]
PlatesSame == [m \in Manifests |-> {"CG"}]

JobSymmetry == Permutations(Jobs)
=============================================================================
