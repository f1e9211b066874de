------------------------------- MODULE MCExport ------------------------------
(***************************************************************************)
(* Small instances of ExportService: recordings 1 and 2 of one date, 3 of  *)
(* another.                                                                *)
(***************************************************************************)
EXTENDS ExportService, TLC

CONSTANTS d1, d2

MCDateOf == [r \in Record |-> IF r <= 2 THEN d1 ELSE d2]

IdsAlike == Permutations(Export) \cup Permutations(Request)
==============================================================================
