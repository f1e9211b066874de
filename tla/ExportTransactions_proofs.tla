---------------------- MODULE ExportTransactions_proofs ----------------------
(***************************************************************************)
(* What the promises of ExportTransactions amount to, for any exports and  *)
(* recordings.  ExportService_proofs transfers it to the code's model.     *)
(***************************************************************************)
EXTENDS ExportTransactions, TLAPS

Bound(e) == phase[e] \in {"prepared", "committing", "committed"}
Deletes(e) == phase[e] \in {"committing", "committed"}

Types ==
    /\ phase \in [Export -> {"none", "prepared", "aborted", "committing", "committed"}]
    /\ listed \in [Export -> SUBSET Record]
    /\ fate \in [Record -> {"unborn", "whole", "torn", "gone"}]

\* No recording belongs to two exports, unless one of them was aborted.
Apart == \A e, o \in Export : Bound(e) /\ Bound(o) /\ e # o => listed[e] \cap listed[o] = {}

\* A recording was touched only by an export that is deleting or has deleted it.
Accounted ==
    \A r \in Record :
        /\ fate[r] = "torn" => \E e \in Export : phase[e] = "committing" /\ r \in listed[e]
        /\ fate[r] = "gone" => \E e \in Export : Deletes(e) /\ r \in listed[e]

\* What is prepared is whole, and what is committed is gone.
Honest ==
    \A e \in Export :
        /\ phase[e] = "prepared" => \A r \in listed[e] : fate[r] = "whole"
        /\ phase[e] = "committing" => \A r \in listed[e] : fate[r] # "unborn"
        /\ phase[e] = "committed" => \A r \in listed[e] : fate[r] = "gone"

\* An interrupted deletion leaves at most one recording of its export torn.
OneVictim ==
    \A e \in Export : Deletes(e) =>
        \A r, o \in listed[e] : fate[r] = "torn" /\ fate[o] = "torn" => r = o

Promises == Apart /\ Accounted /\ Honest /\ OneVictim

LEMMA PromisesInit == Init => Types /\ Promises
  BY DEF Init, Types, Promises, Apart, Accounted, Honest, OneVictim, Bound, Deletes

LEMMA PromisesNext == Types /\ Promises /\ [Next]_tvars => Types' /\ Promises'
  <1> SUFFICES ASSUME Types, Promises, [Next]_tvars
               PROVE  Types' /\ Promises'
    OBVIOUS
  <1> USE DEF Types, Promises, Apart, Accounted, Honest, OneVictim, Bound, Deletes
  <1>1. ASSUME NEW r \in Record, NewRecording(r)
        PROVE  Types' /\ Promises'
    BY <1>1 DEF NewRecording
  <1>2. ASSUME NEW e \in Export, NEW S \in SUBSET Record, Prepare(e, S)
        PROVE  Types' /\ Promises'
    <2>1. Types'
      BY <1>2 DEF Prepare
    <2>2. Apart'
      BY <1>2 DEF Prepare, Active
    <2>3. Accounted'
      BY <1>2 DEF Prepare
    <2>4. Honest' /\ OneVictim'
      BY <1>2 DEF Prepare
    <2> QED  BY <2>1, <2>2, <2>3, <2>4
  <1>3. ASSUME NEW e \in Export, Abort(e) \/ StartCommit(e) \/ Finish(e)
        PROVE  Types' /\ Promises'
    <2>1. CASE Abort(e)
      BY <2>1 DEF Abort
    <2>2. CASE StartCommit(e)
      BY <2>2 DEF StartCommit
    <2>3. CASE Finish(e)
      BY <2>3 DEF Finish
    <2> QED  BY <1>3, <2>1, <2>2, <2>3
  <1>4. ASSUME NEW e \in Export, NEW r \in Record, Tear(e, r)
        PROVE  Types' /\ Promises'
    <2>1. Types' /\ Apart'
      BY <1>4 DEF Tear
    <2>2. Accounted'
      BY <1>4 DEF Tear
    <2>3. Honest'
      BY <1>4 DEF Tear
    <2>4. OneVictim'
      BY <1>4 DEF Tear
    <2> QED  BY <2>1, <2>2, <2>3, <2>4
  <1>5. ASSUME NEW e \in Export, NEW r \in Record, Remove(e, r)
        PROVE  Types' /\ Promises'
    <2>1. Types' /\ Apart'
      BY <1>5 DEF Remove
    <2>2. Accounted'
      BY <1>5 DEF Remove
    <2>3. Honest'
      BY <1>5 DEF Remove
    <2>4. OneVictim'
      BY <1>5 DEF Remove
    <2> QED  BY <2>1, <2>2, <2>3, <2>4
  <1>6. CASE UNCHANGED tvars
    BY <1>6 DEF tvars
  <1> QED  BY <1>1, <1>2, <1>3, <1>4, <1>5, <1>6 DEF Next

\* The abstract exports keep apart, take only what they list, and are
\* interrupted inside one recording at most.
THEOREM PromisesKept == Spec => []Promises
<1>1. Init => Types /\ Promises
  BY PromisesInit
<1>2. Types /\ Promises /\ [Next]_tvars => Types' /\ Promises'
  BY PromisesNext
<1> QED  BY <1>1, <1>2, PTL DEF Spec
==============================================================================
