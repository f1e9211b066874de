--------------------------- MODULE AtomicFile_proofs -------------------------
(***************************************************************************)
(* For every set of contents: atomic_write stays within its summary, and   *)
(* implements the atomic register.                                         *)
(***************************************************************************)
EXTENDS AtomicFile, TLAPS

(***************************************************************************)
(* How the files relate, at each step, to the cell the call began with.    *)
(***************************************************************************)
Moved ==            \* the original is in the backup's place
    had_original /\ entry.main # Nothing /\ main = Nothing /\ bak = entry.main

StepInv ==
    /\ pc # "idle" => data \in Values
    /\ pc \in {"create", "write", "access"} => cell = entry /\ ~had_original
    /\ pc \in {"access", "drop_old_backup", "set_aside", "rename"} => tmp = data
    /\ pc = "drop_old_backup" => cell = entry /\ had_original /\ main # Nothing
    /\ pc = "set_aside" =>
        had_original /\ main # Nothing /\ main = entry.main /\ bak \in {Nothing, entry.bak}
    /\ pc = "rename" => IF had_original THEN Moved ELSE cell = entry
    /\ pc = "restore" => Moved
    /\ pc = "installed" =>
        /\ main = data
        /\ IF had_original THEN entry.main # Nothing /\ bak = entry.main
                           ELSE entry.main = Nothing /\ bak = entry.bak
    /\ pc = "idle" => ~had_original
    /\ pc = "idle" /\ reply = "fail" => cell \in FailOutcomes(entry)
    /\ pc = "idle" /\ reply = "ok" => cell \in OkOutcomes(entry, data) /\ data \in Values

IInv == TypeOK /\ StepInv

LEMMA TypeInit == Init => TypeOK
<1> SUFFICES ASSUME Init PROVE TypeOK
  OBVIOUS
<1> USE DEF cell, Cells, Steps
<1>1. cell \in Cells(Values)
  BY DEF Init
<1>2. pc \in Steps /\ reply \in {"none", "ok", "fail"} /\ had_original \in BOOLEAN
  BY DEF Init
<1>3. entry \in Cells(Values)
  BY <1>1 DEF Init
<1>4. QED
  BY <1>1, <1>2, <1>3 DEF Init, TypeOK

\* The type of main is kept only because what is renamed over it is a complete
\* file, so the step needs StepInv too.
LEMMA TypeStep == IInv /\ [Next]_vars => TypeOK'
<1> SUFFICES ASSUME IInv, [Next]_vars
             PROVE  TypeOK'
  OBVIOUS
<1> USE DEF IInv, TypeOK, StepInv, Moved, cell, Cells, Steps
<1>1. ASSUME NEW v \in Values, Call(v) PROVE TypeOK'
  BY <1>1 DEF Call
<1>2. CASE CreateTmp
  BY <1>2 DEF CreateTmp, ReturnError
<1>3. CASE WriteTmp
  BY <1>3 DEF WriteTmp, ReturnError
<1>4. CASE CheckOriginal
  BY <1>4 DEF CheckOriginal
<1>5. CASE DropOldBackup
  BY <1>5 DEF DropOldBackup
<1>6. CASE SetAside
  BY <1>6 DEF SetAside, ReturnError
<1>7. CASE RenameTmp
  BY <1>7 DEF RenameTmp, ReturnError
<1>8. CASE Restore
  BY <1>8 DEF Restore, ReturnError
<1>9. CASE ReturnOk
  BY <1>9 DEF ReturnOk
<1>10. CASE Crash
  BY <1>10 DEF Crash
<1>11. CASE UNCHANGED vars
  BY <1>11 DEF vars
<1>12. QED
  BY <1>1, <1>2, <1>3, <1>4, <1>5, <1>6, <1>7, <1>8, <1>9, <1>10, <1>11 DEF Next

\* Each file operation keeps the files where the step it leads to expects them.
LEMMA StepInvStep == IInv /\ [Next]_vars => StepInv'
<1> SUFFICES ASSUME IInv, [Next]_vars
             PROVE  StepInv'
  OBVIOUS
<1> USE DistinctContents DEF IInv, TypeOK, StepInv, Moved, cell, Cells, Steps
<1>1. ASSUME NEW v \in Values, Call(v) PROVE StepInv'
  BY <1>1 DEF Call
<1>2. CASE CreateTmp
  BY <1>2 DEF CreateTmp, ReturnError, FailOutcomes
<1>3. CASE WriteTmp
  BY <1>3 DEF WriteTmp, ReturnError, FailOutcomes
<1>4. CASE CheckOriginal
  BY <1>4 DEF CheckOriginal
<1>5. CASE DropOldBackup
  BY <1>5 DEF DropOldBackup
<1>6. CASE SetAside
  BY <1>6 DEF SetAside, ReturnError, FailOutcomes
<1>7. CASE RenameTmp
  BY <1>7 DEF RenameTmp, ReturnError, FailOutcomes
<1>8. CASE Restore
  BY <1>8 DEF Restore, ReturnError, FailOutcomes
<1>9. CASE ReturnOk
  BY <1>9 DEF ReturnOk, OkOutcomes
<1>10. CASE Crash
  BY <1>10 DEF Crash
<1>11. CASE UNCHANGED vars
  BY <1>11 DEF vars, FailOutcomes, OkOutcomes
<1>12. QED
  BY <1>1, <1>2, <1>3, <1>4, <1>5, <1>6, <1>7, <1>8, <1>9, <1>10, <1>11 DEF Next

LEMMA IInvCorrect == Spec => []IInv
<1>1. Init => IInv
  BY TypeInit DEF Init, IInv, StepInv
<1>2. IInv /\ [Next]_vars => IInv'
  BY TypeStep, StepInvStep DEF IInv
<1>3. QED
  BY <1>1, <1>2, PTL DEF Spec

\* The variables of atomic_write keep their types: no incomplete temporary file
\* ever takes the place of the transaction file or of its backup.
THEOREM TypeCorrect == Spec => []TypeOK
<1>1. IInv => TypeOK
  BY DEF IInv
<1>2. QED
  BY <1>1, IInvCorrect, PTL

\* Whatever fails and wherever the power is lost, the two files are one of the
\* pairs that DurableCell's summary of atomic_write lists.
THEOREM SummaryCorrect == Spec => []WithinSummary
<1>1. IInv => WithinSummary
  BY DistinctContents DEF IInv, TypeOK, StepInv, Moved, WithinSummary, cell, Cells, Steps,
     CrashOutcomes, OkOutcomes, FailOutcomes
<1>2. QED
  BY <1>1, IInvCorrect, PTL

\* atomic_write with read_json_with_backup implements a register that is
\* written in one step: the readable content never is anything but the old or
\* the new value, and the return value tells which.
THEOREM RegisterCorrect == Spec => ImplementsRegister
<1> USE DistinctContents
<1>1. Init => Register!Init
  BY DEF Init, Register!Init, Readable, cell
<1>2. IInv /\ [Next]_vars => [Register!Next]_Register!rvars
  <2> SUFFICES ASSUME IInv, [Next]_vars
               PROVE  [Register!Next]_Register!rvars
    OBVIOUS
  <2> USE DEF IInv, TypeOK, StepInv, Moved, cell, Cells, Steps, Readable, Register!rvars
  <2>1. ASSUME NEW v \in Values, Call(v) PROVE Register!Start(v)
    BY <2>1 DEF Call, Register!Start
  <2>2. CASE CreateTmp
    BY <2>2 DEF CreateTmp, ReturnError, Register!Next, Register!Return
  <2>3. CASE WriteTmp
    BY <2>3 DEF WriteTmp, ReturnError, Register!Next, Register!Return
  <2>4. CASE CheckOriginal
    BY <2>4 DEF CheckOriginal
  <2>5. CASE DropOldBackup
    BY <2>5 DEF DropOldBackup
  <2>6. CASE SetAside
    BY <2>6 DEF SetAside, ReturnError, Register!Next, Register!Return
  <2>7. CASE RenameTmp
    BY <2>7 DEF RenameTmp, ReturnError, Register!Next, Register!Return, Register!Install
  <2>8. CASE Restore
    BY <2>8 DEF Restore, ReturnError, Register!Next, Register!Return
  <2>9. CASE ReturnOk
    BY <2>9 DEF ReturnOk, Register!Next, Register!Return
  <2>10. CASE Crash
    BY <2>10 DEF Crash, Register!Next, Register!Crash
  <2>11. CASE UNCHANGED vars
    BY <2>11 DEF vars
  <2>12. QED
    BY <2>1, <2>2, <2>3, <2>4, <2>5, <2>6, <2>7, <2>8, <2>9, <2>10, <2>11
       DEF Next, Register!Next
<1>3. QED
  BY <1>1, <1>2, IInvCorrect, PTL
     DEF Spec, ImplementsRegister, Register!Spec
==============================================================================
